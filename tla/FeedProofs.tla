----------------------------- MODULE FeedProofs -----------------------------
(***************************************************************************)
(* The safety of FeedCoverage, FeedAssist and RutrackerSearch, and of      *)
(* RulePoll, which polls the rules over the same feed: for any number of   *)
(* topics, rules and edits, any sizes of pages, any clocks that differ by  *)
(* less than the tolerance, and any times.                                 *)
(***************************************************************************)
EXTENDS RutrackerSearch, RulePoll, FiniteSetTheorems, WellFoundedInduction, TLAPS

(***************************************************************************)
(* Listings and pages.                                                     *)
(***************************************************************************)

LEMMA StampInt ==
  ASSUME NEW l \in Listings, NEW t \in Topics
  PROVE  /\ l[t] \in Int \cup {None}
         /\ l[t] # None => l[t] \in Int /\ t \in Entries(l)
  BY FeedAssumption DEF Listings, Stamps, Entries

LEMMA EntryInt ==
  ASSUME NEW l \in Listings, NEW t \in Entries(l)
  PROVE  t \in Topics /\ l[t] \in Int /\ l[t] # None
  BY FeedAssumption DEF Listings, Stamps, Entries

LEMMA AfterFinite ==
  ASSUME NEW l, NEW t
  PROVE  /\ After(l, t) \subseteq Topics /\ IsFiniteSet(After(l, t))
         /\ Cardinality(After(l, t)) \in Nat
  <1>1. After(l, t) \subseteq Topics /\ IsFiniteSet(Topics)
    BY FeedAssumption DEF After, Entries
  <1> QED BY <1>1, FS_Subset, FS_CardinalityType

LEMMA AfterMonotone ==
  ASSUME NEW l \in Listings, NEW t \in Entries(l), NEW u \in Entries(l), l[u] >= l[t]
  PROVE  /\ After(l, u) \subseteq After(l, t)
         /\ Cardinality(After(l, u)) <= Cardinality(After(l, t))
  <1>1. After(l, u) \subseteq After(l, t)
    BY EntryInt DEF After
  <1> QED BY <1>1, AfterFinite, FS_Subset

\* Among finite sets there is one without a smaller one.
LEMMA NewestExists ==
  ASSUME NEW l \in Listings, Entries(l) # {}
  PROVE  \E t \in Entries(l) : After(l, t) = {}
  <1> DEFINE R == StrictSubsetOrdering(Topics)
             S == FiniteSubsetsOf(Topics)
             T == {After(l, t) : t \in Entries(l)}
  <1>1. IsWellFoundedOn(R, S)
    BY FS_StrictSubsetOrderingWellFounded
  <1>2. T \subseteq S /\ T # {}
    BY AfterFinite DEF FiniteSubsetsOf
  <1>3. \E x \in T : \A y \in T : ~ (<<y, x>> \in R)
    <2> HIDE DEF R, S, T
    <2> QED BY <1>1, <1>2, WFMin
  <1>4. PICK t \in Entries(l) : \A u \in Entries(l) : ~ (<<After(l, u), After(l, t)>> \in R)
    BY <1>3
  <1>5. ASSUME NEW u \in After(l, t) PROVE FALSE
    <2>1. u \in Entries(l) /\ l[u] > l[t]
      BY <1>5 DEF After
    <2>2. After(l, u) \subseteq After(l, t) /\ u \notin After(l, u)
      BY <2>1, EntryInt, AfterMonotone DEF After
    <2>3. <<After(l, u), After(l, t)>> \in R
      BY <1>5, <2>2, AfterFinite DEF StrictSubsetOrdering
    <2> QED BY <1>4, <2>1, <2>3
  <1> QED BY <1>5

LEMMA OldestExists ==
  ASSUME NEW l \in Listings, Entries(l) # {}
  PROVE  \E t \in Entries(l) : OldestEntry(l) = l[t]
  <1> DEFINE Earlier(t) == {u \in Entries(l) : l[u] < l[t]}
             R == StrictSubsetOrdering(Topics)
             S == FiniteSubsetsOf(Topics)
             T == {Earlier(t) : t \in Entries(l)}
  <1>1. IsWellFoundedOn(R, S)
    BY FS_StrictSubsetOrderingWellFounded
  <1>2. \A t : Earlier(t) \subseteq Topics /\ IsFiniteSet(Earlier(t))
    BY FeedAssumption, FS_Subset DEF Entries
  <1>3. T \subseteq S /\ T # {}
    BY <1>2 DEF FiniteSubsetsOf
  <1>4. \E x \in T : \A y \in T : ~ (<<y, x>> \in R)
    <2> HIDE DEF R, S, T
    <2> QED BY <1>1, <1>3, WFMin
  <1>5. PICK t \in Entries(l) : \A u \in Entries(l) : ~ (<<Earlier(u), Earlier(t)>> \in R)
    BY <1>4
  <1>6. ASSUME NEW u \in Entries(l) PROVE l[t] <= l[u]
    <2>1. SUFFICES ASSUME l[u] < l[t] PROVE FALSE
      BY EntryInt
    <2>2. Earlier(u) \subseteq Earlier(t) /\ u \in Earlier(t) /\ u \notin Earlier(u)
      BY <2>1, EntryInt
    <2>3. <<Earlier(u), Earlier(t)>> \in R
      BY <1>2, <2>2 DEF StrictSubsetOrdering
    <2> QED BY <1>5, <2>3
  <1>7. \E at \in {l[u] : u \in Entries(l)} : \A u \in Entries(l) : at <= l[u]
    BY <1>6
  <1>8. OldestEntry(l) \in {l[u] : u \in Entries(l)}
    BY <1>7 DEF OldestEntry
  <1> QED BY <1>8

\* What a page shows of a listing: FirstPage, of any.
TopOf(l) ==
  [t \in Topics |-> IF t \in Entries(l) /\ Cardinality(After(l, t)) < PageSize THEN l[t] ELSE None]

LEMMA TopIsPage ==
  ASSUME NEW l \in Listings
  PROVE  /\ TopOf(l) \in Listings
         /\ \A t \in Entries(TopOf(l)) : t \in Entries(l) /\ TopOf(l)[t] = l[t]
         /\ Entries(l) # {} => Entries(TopOf(l)) # {}
         /\ \A t \in Entries(TopOf(l)), u \in Entries(l) :
              l[u] >= l[t] => u \in Entries(TopOf(l)) /\ TopOf(l)[u] = l[u]
  <1>1. TopOf(l) \in Listings
    BY DEF TopOf, Listings, Entries
  <1>2. \A t \in Entries(TopOf(l)) :
          t \in Entries(l) /\ TopOf(l)[t] = l[t] /\ Cardinality(After(l, t)) < PageSize
    BY DEF TopOf, Entries
  <1>3. \A t \in Entries(l) :
          Cardinality(After(l, t)) < PageSize => t \in Entries(TopOf(l)) /\ TopOf(l)[t] = l[t]
    BY DEF TopOf, Entries
  <1>4. ASSUME Entries(l) # {} PROVE Entries(TopOf(l)) # {}
    <2>1. PICK t \in Entries(l) : After(l, t) = {}
      BY <1>4, NewestExists
    <2>2. Cardinality(After(l, t)) < PageSize
      BY <2>1, FS_EmptySet, FeedAssumption
    <2> QED BY <1>3, <2>2
  <1>5. ASSUME NEW t \in Entries(TopOf(l)), NEW u \in Entries(l), l[u] >= l[t]
        PROVE  u \in Entries(TopOf(l)) /\ TopOf(l)[u] = l[u]
    <2>1. Cardinality(After(l, u)) <= Cardinality(After(l, t))
      BY <1>2, <1>5, AfterMonotone
    <2>2. Cardinality(After(l, u)) < PageSize
      BY <1>2, <2>1, AfterFinite, FeedAssumption
    <2> QED BY <1>3, <2>2
  <1> QED BY <1>1, <1>2, <1>4, <1>5

(***************************************************************************)
(* The invariant.                                                          *)
(***************************************************************************)

\* Listings of one tracker, old read before new: what has changed was listed
\* after all that old has, and not before at.
Advances(old, new) ==
  \A t \in Topics : new[t] # None /\ new[t] # old[t] => \A u \in Entries(old) : new[t] > old[u]

NotBefore(old, new, at) ==
  \A t \in Topics : new[t] # None /\ new[t] # old[t] => new[t] - offset >= at

\* Everything was listed before at, by the server's clock.
Past(l, at) == \A t \in Topics : l[t] # None => l[t] - offset < at

ListedInv == Past(listed, now) /\ Past(shown, now) /\ Advances(shown, listed)

\* The page was read at its time; no poll has got a later one.
CacheInv ==
  cache # None =>
    /\ cache.at <= now /\ Past(cache.all, cache.at)
    /\ Entries(cache.all) # {} /\ cache.entries = TopOf(cache.all)
    /\ Advances(cache.all, listed) /\ NotBefore(cache.all, listed, cache.at)
    /\ Advances(shown, cache.all)
    /\ feed # None => NotBefore(shown, cache.all, feed.at - FeedCache)

\* The row is of the page that was shown, read not long before.
FeedInv ==
  feed # None =>
    /\ feed.at <= now /\ feed.keys # {}
    /\ feed.gap # None => feed.gap <= feed.at
    /\ NotBefore(shown, listed, feed.at - FeedCache)
    /\ feed.since # None => \A k \in feed.keys : k[1] \in Entries(shown) /\ k[2] = shown[k[1]]

BufferInv == \A t \in Topics : buffer[t] # None => buffer[t].at - offset <= buffer[t].seen

SkippedInv ==
  /\ skipped \subseteq Entries(shown)
  /\ skipped # {} => feed # None

FInv ==
  /\ FeedTypeOK /\ ListedInv /\ CacheInv /\ FeedInv /\ BufferInv /\ SkippedInv
  /\ BufferFollowsFeed /\ SkippedIsGap

\* What holds of a search, whatever is listed, removed and changed meanwhile.
Gapped == feed # None /\ feed.gap # None

Kept(t) == search.before[t] # None /\ search.before[t] >= feed.gap /\ listed[t] = search.before[t]

SearchInv ==
  /\ search # None \/ result = "due" => Gapped
  /\ search # None =>
       /\ result = None
       /\ IF search.at = "beyond" THEN search.read = MaxRecoveryPages ELSE search.read < MaxRecoveryPages
       /\ search.at = "results" => client.jar = search.mirror
       /\ Past(search.got, now) /\ Past(search.before, now)
       /\ \A t \in Topics : search.got[t] # None /\ shown[t] # None => search.got[t] >= shown[t]
       /\ ~search.shrunk =>
            /\ \A t \in Topics : search.before[t] # None =>
                 /\ listed[t] # None /\ listed[t] >= search.before[t]
                 /\ search.got[t] # None => search.got[t] >= search.before[t]
            /\ \A t \in search.query : Kept(t) => search.got[t] # None \/ Position(search.query, t) >= search.start

SearchIInv == SearchTypeOK /\ FInv /\ SearchInv

(***************************************************************************)
(* Time, listings and removals.                                            *)
(***************************************************************************)

LEMMA Clocks ==
  ASSUME FeedTypeOK
  PROVE  /\ now \in Nat /\ offset \in Int /\ MaxTime \in Nat /\ now <= MaxTime
         /\ 1 - ClockSkew <= offset /\ offset <= ClockSkew - 1
         /\ ClockSkew \in Nat /\ FeedCache \in Nat /\ Retention \in Nat
  <1>1. ClockSkew \in Nat /\ FeedCache \in Nat /\ Retention \in Nat /\ MaxTime \in Nat
    BY Zenon, FeedAssumption
  <1> QED BY <1>1 DEF FeedTypeOK, Offsets

LEMMA NeverNone ==
  /\ \A n \in Int : n # None
  /\ \A r \in FeedRows : r # None
  /\ \A r \in BufferRows : r # None
  BY Zenon, FeedAssumption

LEMMA StampRange == ASSUME NEW l \in Listings, NEW t \in Topics, l[t] # None PROVE l[t] \in Stamps /\ l[t] \in Int
  BY FeedAssumption DEF Listings, Stamps

LEMMA Published ==
  ASSUME FeedTypeOK, NEW t \in Topics, Publish(t)
  PROVE  /\ listed' \in Listings /\ now' = now + 1 /\ now' \in 0..MaxTime
         /\ \A u \in Topics : listed'[u] = IF u = t THEN now + offset ELSE listed[u]
  <1>1. now < MaxTime /\ now' = now + 1 /\ listed' = [listed EXCEPT ![t] = now + offset]
    BY DEF Publish, TrackerClock
  <1>2. now + offset \in Stamps
    BY <1>1, Clocks DEF Stamps
  <1>3. now' \in 0..MaxTime
    BY <1>1, Clocks
  <1>4. listed \in [Topics -> Stamps \cup {None}]
    BY DEF FeedTypeOK, Listings
  <1> QED BY <1>1, <1>2, <1>3, <1>4 DEF Listings

LEMMA PublishAdvances ==
  ASSUME FeedTypeOK, NEW t \in Topics, Publish(t),
         NEW old \in Listings, Past(old, now), Advances(old, listed)
  PROVE  /\ Advances(old, listed')
         /\ \A at \in Int : at <= now /\ NotBefore(old, listed, at) => NotBefore(old, listed', at)
  <1>1. ASSUME NEW u \in Topics, listed'[u] # None, listed'[u] # old[u], NEW v \in Entries(old)
        PROVE  listed'[u] > old[v]
    <2>1. CASE u # t
      <3>1. listed'[u] = listed[u]
        BY <2>1, Published
      <3> QED BY <1>1, <3>1 DEF Advances
    <2>2. CASE u = t
      <3>1. listed'[u] = now + offset
        BY <2>2, Published
      <3>2. old[v] \in Int /\ old[v] - offset < now
        BY EntryInt DEF Past
      <3> QED BY <3>1, <3>2, Clocks
    <2> QED BY <2>1, <2>2
  <1>2. ASSUME NEW at \in Int, at <= now, NotBefore(old, listed, at),
               NEW u \in Topics, listed'[u] # None, listed'[u] # old[u]
        PROVE  listed'[u] - offset >= at
    <2>1. CASE u # t
      <3>1. listed'[u] = listed[u]
        BY <2>1, Published
      <3> QED BY <1>2, <3>1 DEF NotBefore
    <2>2. CASE u = t
      <3>1. listed'[u] = now + offset
        BY <2>2, Published
      <3> QED BY <1>2, <3>1, Clocks
    <2> QED BY <2>1, <2>2
  <1> QED BY <1>1, <1>2 DEF Advances, NotBefore

LEMMA PastLater ==
  ASSUME NEW l \in Listings, NEW at \in Int, NEW later \in Int, at <= later, Past(l, at), offset \in Int
  PROVE  Past(l, later)
  BY StampRange DEF Past

LEMMA Reflexive ==
  ASSUME NEW l, NEW at
  PROVE  Advances(l, l) /\ NotBefore(l, l, at)
  BY DEF Advances, NotBefore

LEMMA PageFacts ==
  ASSUME FInv, cache # None
  PROVE  /\ cache.at \in Nat /\ cache.at <= now /\ cache.all \in Listings /\ cache.entries \in Listings
         /\ Past(cache.all, now)
  <1>1. cache.at \in 0..MaxTime /\ cache.all \in Listings /\ cache.entries \in Listings
    BY DEF FInv, FeedTypeOK, Pages
  <1>2. cache.at <= now /\ Past(cache.all, cache.at)
    BY DEF FInv, CacheInv
  <1>3. Past(cache.all, now)
    BY <1>1, <1>2, PastLater, Clocks DEF FInv
  <1> QED BY <1>1, <1>2, <1>3

LEMMA RowFacts ==
  ASSUME FInv, feed # None
  PROVE  /\ feed.at \in Nat /\ feed.at <= now
         /\ feed.gap # None => feed.gap \in Nat /\ feed.gap <= feed.at
         /\ feed.since # None => feed.since \in Int
  <1>1. feed \in FeedRows
    BY DEF FInv, FeedTypeOK
  <1>2. feed.at \in 0..MaxTime /\ feed.gap \in 0..MaxTime \cup {None} /\ feed.since \in Stamps \cup {None}
    BY <1>1 DEF FeedRows
  <1>3. Stamps \subseteq Int
    BY FeedAssumption DEF Stamps
  <1>4. MaxTime \in Nat
    BY Clocks DEF FInv
  <1>5. feed.at <= now /\ (feed.gap # None => feed.gap <= feed.at)
    BY DEF FInv, FeedInv
  <1>6. feed.at \in Nat
    BY <1>2, <1>4
  <1>7. feed.gap # None => feed.gap \in Nat
    BY <1>2, <1>4
  <1> QED BY <1>2, <1>3, <1>5, <1>6, <1>7

LEMMA PublishKeeps == ASSUME FInv, NEW t \in Topics, Publish(t) PROVE FInv'
  <1>1. UNCHANGED <<offset, cache, feed, buffer, shown, skipped>>
    BY DEF Publish
  <1>2. FeedTypeOK /\ shown \in Listings /\ offset \in Int /\ now \in Int
    BY Clocks DEF FInv, FeedTypeOK
  <1>3. FeedTypeOK'
    BY <1>1, <1>2, Published DEF FeedTypeOK
  <1>4. Past(listed, now)' /\ Past(shown, now)'
    <2>1. ASSUME NEW u \in Topics, listed'[u] # None PROVE listed'[u] - offset < now + 1
      <3>1. CASE u = t
        BY <1>2, <2>1, <3>1, Published
      <3>2. CASE u # t
        <4>1. listed'[u] = listed[u] /\ listed \in Listings
          BY <1>2, <3>2, Published DEF FeedTypeOK
        <4>2. listed[u] \in Int /\ listed[u] - offset < now
          BY <2>1, <4>1, StampRange DEF FInv, ListedInv, Past
        <4> QED BY <1>2, <4>1, <4>2
      <3> QED BY <3>1, <3>2
    <2>2. Past(shown, now + 1)
      BY <1>2, PastLater DEF FInv, ListedInv
    <2> QED BY <1>1, <1>2, <2>1, <2>2, Published DEF Past
  <1>5. ListedInv'
    BY <1>1, <1>2, <1>4, PublishAdvances DEF FInv, ListedInv
  <1>6. now' = now + 1
    BY <1>2, Published
  <1>7. CacheInv'
    <2>1. SUFFICES ASSUME cache # None PROVE CacheInv'
      BY <1>1 DEF CacheInv
    <2>2. cache.at <= now'
      BY <1>2, <1>6, <2>1, PageFacts
    <2>3. Advances(cache.all, listed') /\ NotBefore(cache.all, listed', cache.at)
      BY <1>2, <2>1, PageFacts, PublishAdvances DEF FInv, CacheInv
    <2> QED BY <1>1, <2>1, <2>2, <2>3 DEF FInv, CacheInv, Past, Advances, NotBefore
  <1>8. FeedInv'
    <2>1. SUFFICES ASSUME feed # None PROVE FeedInv'
      BY <1>1 DEF FeedInv
    <2>2. feed.at <= now' /\ feed.at - FeedCache \in Int /\ feed.at - FeedCache <= now
      BY <1>2, <1>6, <2>1, RowFacts, Clocks
    <2>3. NotBefore(shown, listed', feed.at - FeedCache)
      BY <1>2, <2>1, <2>2, PublishAdvances DEF FInv, ListedInv, FeedInv
    <2> QED BY <1>1, <2>1, <2>2, <2>3 DEF FInv, FeedInv, NotBefore
  <1>9. BufferInv' /\ SkippedInv' /\ BufferFollowsFeed' /\ SkippedIsGap'
    BY <1>1 DEF FInv, BufferInv, SkippedInv, BufferFollowsFeed, SkippedIsGap, Holds
  <1> QED BY <1>3, <1>5, <1>7, <1>8, <1>9 DEF FInv

LEMMA TickKeeps == ASSUME FInv, Tick PROVE FInv'
  <1>1. UNCHANGED <<offset, listed, cache, feed, buffer, shown, skipped>> /\ now' = now + 1 /\ now < MaxTime
    BY DEF Tick
  <1>2. FeedTypeOK /\ listed \in Listings /\ shown \in Listings /\ offset \in Int /\ now \in Nat /\ MaxTime \in Nat
    BY Clocks DEF FInv, FeedTypeOK
  <1>3. FeedTypeOK'
    BY <1>1, <1>2 DEF FeedTypeOK
  <1>4. Past(listed, now + 1) /\ Past(shown, now + 1)
    BY <1>2, PastLater DEF FInv, ListedInv
  <1>5. ListedInv'
    BY <1>1, <1>4 DEF FInv, ListedInv, Past
  <1>6. CacheInv' /\ FeedInv'
    <2>1. (cache # None => cache.at <= now') /\ (feed # None => feed.at <= now')
      BY <1>1, <1>2, PageFacts, RowFacts
    <2> QED BY <1>1, <2>1 DEF FInv, CacheInv, FeedInv, Past, NotBefore
  <1>7. BufferInv' /\ SkippedInv' /\ BufferFollowsFeed' /\ SkippedIsGap'
    BY <1>1 DEF FInv, BufferInv, SkippedInv, BufferFollowsFeed, SkippedIsGap, Holds
  <1> QED BY <1>3, <1>5, <1>6, <1>7 DEF FInv

\* A topic is taken off the tracker.
LEMMA RemovedKeeps ==
  ASSUME FInv, NEW t \in Topics, listed' = [listed EXCEPT ![t] = None],
         UNCHANGED <<now, offset, cache, feed, buffer, shown, skipped>>
  PROVE  FInv'
  <1>1. listed \in Listings
    BY DEF FInv, FeedTypeOK
  <1>2. listed' \in Listings /\ \A u \in Topics : listed'[u] \in {listed[u], None}
    BY <1>1 DEF Listings
  <1>3. /\ \A old, at : NotBefore(old, listed, at) => NotBefore(old, listed', at)
        /\ \A old : Advances(old, listed) => Advances(old, listed')
        /\ \A at : Past(listed, at) => Past(listed', at)
    BY <1>2 DEF NotBefore, Advances, Past
  <1>4. FeedTypeOK'
    BY <1>2 DEF FInv, FeedTypeOK
  <1>5. ListedInv' /\ CacheInv' /\ FeedInv'
    BY <1>3 DEF FInv, ListedInv, CacheInv, FeedInv, Past, Advances, NotBefore
  <1>6. BufferInv' /\ SkippedInv' /\ BufferFollowsFeed' /\ SkippedIsGap'
    BY DEF FInv, BufferInv, SkippedInv, BufferFollowsFeed, SkippedIsGap, Holds
  <1> QED BY <1>4, <1>5, <1>6 DEF FInv

LEMMA PageLostKeeps ==
  ASSUME FInv, cache' = None, UNCHANGED <<world, feed, buffer, shown, skipped>>
  PROVE  FInv'
  BY DEF FInv, FeedTypeOK, ListedInv, CacheInv, FeedInv, BufferInv, SkippedInv, BufferFollowsFeed,
    SkippedIsGap, Holds, world, Past, Advances, NotBefore

LEMMA ReadFeedKeeps == ASSUME FInv, ReadFeed PROVE FInv'
  <1>1. UNCHANGED <<now, offset, listed, feed, buffer, shown, skipped>>
    BY DEF ReadFeed, world
  <1>2. Entries(listed) # {} /\ FirstPage = TopOf(listed)
    BY DEF ReadFeed, FirstPage, TopOf
  <1>3. cache'.entries = TopOf(listed) /\ cache'.at = now /\ cache'.all = listed
    BY <1>2 DEF ReadFeed
  <1>4. listed \in Listings /\ now \in 0..MaxTime
    BY DEF FInv, FeedTypeOK
  <1>5. cache' \in Pages
    BY <1>2, <1>4, TopIsPage DEF ReadFeed, Pages
  <1>6. FeedTypeOK'
    BY <1>1, <1>5 DEF FInv, FeedTypeOK
  <1>7. CacheInv'
    <2>1. now <= now
      BY <1>4
    <2>2. Past(listed, now) /\ Advances(shown, listed) /\ (feed # None => NotBefore(shown, listed, feed.at - FeedCache))
      BY DEF FInv, ListedInv, FeedInv
    <2> QED BY <1>1, <1>2, <1>3, <2>1, <2>2, Reflexive DEF CacheInv, Past, Advances, NotBefore
  <1>8. ListedInv' /\ FeedInv' /\ BufferInv' /\ SkippedInv' /\ BufferFollowsFeed' /\ SkippedIsGap'
    BY <1>1 DEF FInv, ListedInv, FeedInv, BufferInv, SkippedInv, BufferFollowsFeed, SkippedIsGap, Holds, Past,
      Advances, NotBefore
  <1> QED BY <1>6, <1>7, <1>8 DEF FInv

LEMMA CloseGapKeeps == ASSUME FInv, CloseGap PROVE FInv'
  <1>1. UNCHANGED <<now, offset, listed, cache, buffer, shown>> /\ skipped' = {} /\ feed # None
    BY DEF CloseGap, world
  <1>2. feed' = [feed EXCEPT !.gap = None] /\ feed \in FeedRows
    BY <1>1 DEF CloseGap, FInv, FeedTypeOK
  <1>3. feed' \in FeedRows /\ feed'.gap = None /\ feed'.at = feed.at /\ feed'.keys = feed.keys /\ feed'.since = feed.since
    BY <1>2 DEF FeedRows
  <1>4. FeedTypeOK'
    BY <1>1, <1>3 DEF FInv, FeedTypeOK
  <1>5. ListedInv' /\ CacheInv' /\ FeedInv' /\ BufferInv' /\ SkippedInv' /\ SkippedIsGap'
    BY <1>1, <1>3 DEF FInv, ListedInv, CacheInv, FeedInv, BufferInv, SkippedInv, SkippedIsGap, Past, Advances, NotBefore
  <1>6. BufferFollowsFeed'
    BY <1>1, <1>3 DEF FInv, BufferFollowsFeed, Holds
  <1> QED BY <1>4, <1>5, <1>6 DEF FInv

(***************************************************************************)
(* Pages and results that are stored.                                      *)
(***************************************************************************)

LEMMA BufferHolds ==
  ASSUME FeedTypeOK, NEW found \in Listings
  PROVE  /\ BufferReleases(buffer, found) \in [Topics -> BufferRows \cup {None}]
         /\ \A t \in Topics : found[t] # None =>
              /\ BufferReleases(buffer, found)[t] # None
              /\ BufferReleases(buffer, found)[t].at = found[t]
              /\ BufferReleases(buffer, found)[t].seen = now
         /\ \A t \in Topics : found[t] = None => BufferReleases(buffer, found)[t] = buffer[t]
  <1>1. ASSUME NEW t \in Topics, found[t] # None
        PROVE  /\ [at |-> found[t], seen |-> now] \in BufferRows
               /\ [at |-> found[t], seen |-> now] # None
    <2>1. [at |-> found[t], seen |-> now] \in BufferRows
      BY <1>1, StampRange DEF FeedTypeOK, BufferRows
    <2> QED BY <2>1, NeverNone
  <1>2. \A t \in Topics : BufferReleases(buffer, found)[t] =
          IF found[t] # None THEN [at |-> found[t], seen |-> now] ELSE buffer[t]
    BY DEF BufferReleases
  <1>3. BufferReleases(buffer, found) \in [Topics -> BufferRows \cup {None}]
    BY <1>1, <1>2 DEF BufferReleases, FeedTypeOK
  <1> QED BY <1>1, <1>2, <1>3

LEMMA Pruned ==
  ASSUME FeedTypeOK, NEW b \in [Topics -> BufferRows \cup {None}]
  PROVE  /\ PruneReleaseBuffer(b) \in [Topics -> BufferRows \cup {None}]
         /\ \A t \in Topics :
              \/ PruneReleaseBuffer(b)[t] = b[t]
              \/ PruneReleaseBuffer(b)[t] = None /\ b[t] # None /\ b[t].seen < now - Retention
  BY DEF PruneReleaseBuffer

LEMMA RowTyped ==
  ASSUME FInv, NEW l \in Listings, Entries(l) # {}
  PROVE  /\ FeedRow(feed, l) \in FeedRows
         /\ FeedRow(feed, l) # None
  <1>1. now \in 0..MaxTime /\ feed \in FeedRows \cup {None}
    BY DEF FInv, FeedTypeOK
  <1>2. OldestEntry(l) \in Stamps
    BY OldestExists, EntryInt, StampRange
  <1>3. Keys(l) \subseteq Topics \X (Stamps \cup {None})
    BY EntryInt, StampRange DEF Keys
  <1>4. feed # None =>
          /\ feed.at \in 0..MaxTime /\ feed.gap \in 0..MaxTime \cup {None} /\ feed.lastGap \in 0..MaxTime \cup {None}
          /\ feed.since \in Stamps \cup {None}
    BY <1>1 DEF FeedRows
  <1>5. PICK gap : gap = IF feed = None THEN None
                         ELSE IF feed.gap = None /\ GapDetected(feed, l) THEN feed.at ELSE feed.gap
    OBVIOUS
  <1>6. PICK lastGap : lastGap = IF GapDetected(feed, l) THEN now
                                 ELSE IF feed = None THEN None ELSE feed.lastGap
    OBVIOUS
  <1>7. PICK since : since = IF feed = None \/ GapDetected(feed, l) \/ feed.since = None
                             THEN OldestEntry(l) ELSE feed.since
    OBVIOUS
  <1>8. gap \in 0..MaxTime \cup {None} /\ lastGap \in 0..MaxTime \cup {None} /\ since \in Stamps \cup {None}
    BY <1>1, <1>2, <1>4, <1>5, <1>6, <1>7
  <1>9. FeedRow(feed, l) = [at |-> now, keys |-> Keys(l), gap |-> gap, lastGap |-> lastGap, since |-> since]
    BY <1>5, <1>6, <1>7, Zenon DEF FeedRow
  <1>10. FeedRow(feed, l) \in FeedRows
    BY <1>1, <1>3, <1>8, <1>9 DEF FeedRows
  <1> QED BY <1>10, NeverNone

\* What two pages share proves that the later one shows all that has changed.
LEMMA OverlapShowsAll ==
  ASSUME FInv, cache # None, feed # None, feed.since # None, ~GapDetected(feed, cache.entries),
         NEW t \in Entries(cache.all), cache.all[t] # shown[t]
  PROVE  cache.entries[t] = cache.all[t]
  <1>1. /\ cache.all \in Listings /\ cache.entries = TopOf(cache.all) /\ Entries(cache.all) # {}
        /\ Advances(shown, cache.all)
    BY PageFacts DEF FInv, CacheInv
  <1>2. feed.keys # {} /\ \A k \in feed.keys : k[1] \in Entries(shown) /\ k[2] = shown[k[1]]
    BY DEF FInv, FeedInv
  <1>3. Keys(cache.entries) # {}
    <2>1. Entries(cache.entries) # {}
      BY <1>1, TopIsPage
    <2> QED BY <2>1 DEF Keys
  <1>4. PICK k \in Keys(cache.entries) : k \in feed.keys \/ <<k[1], None>> \in feed.keys
    BY <1>2, <1>3 DEF GapDetected, Overlaps
  <1>5. PICK v \in Entries(cache.entries) : k = <<v, cache.entries[v]>>
    BY <1>4 DEF Keys
  <1>6. v \in Entries(cache.all) /\ cache.entries[v] = cache.all[v]
    BY <1>1, <1>5, TopIsPage
  <1>7. <<v, None>> \notin feed.keys
    <2>1. ASSUME <<v, None>> \in feed.keys PROVE FALSE
      <3>1. v \in Entries(shown) /\ None = shown[v]
        BY <1>2, <2>1
      <3> QED BY <3>1 DEF Entries
    <2> QED BY <2>1
  <1>8. v \in Entries(shown) /\ cache.all[v] = shown[v]
    <2>1. <<v, cache.all[v]>> \in feed.keys
      BY <1>4, <1>5, <1>6, <1>7
    <2> QED BY <1>2, <2>1
  <1>9. cache.all[t] > cache.all[v]
    BY <1>1, <1>8, EntryInt DEF Advances
  <1> QED BY <1>1, <1>5, <1>6, <1>9, TopIsPage, EntryInt

LEMMA IngestKeeps == ASSUME FInv, Ingest PROVE FInv' /\ (feed'.gap # None => Gapped')
  <1>1. /\ feed' = FeedRow(feed, cache.entries)
        /\ buffer' = PruneReleaseBuffer(BufferReleases(buffer, cache.entries))
        /\ shown' = cache.all /\ cache # None /\ now - cache.at <= FeedCache
        /\ UNCHANGED <<now, offset, listed, cache>>
    BY DEF Ingest, Fresh, world
  <1>2. /\ cache.at \in Nat /\ cache.at <= now /\ cache.all \in Listings /\ cache.entries \in Listings
        /\ Past(cache.all, now) /\ Past(cache.all, cache.at)
        /\ Entries(cache.all) # {} /\ cache.entries = TopOf(cache.all)
        /\ Advances(cache.all, listed) /\ NotBefore(cache.all, listed, cache.at)
        /\ Advances(shown, cache.all) /\ (feed # None => NotBefore(shown, cache.all, feed.at - FeedCache))
    BY <1>1, PageFacts DEF FInv, CacheInv
  <1>3. /\ now \in Nat /\ offset \in Int /\ FeedCache \in Nat /\ Retention \in Nat /\ FeedTypeOK
        /\ shown \in Listings /\ listed \in Listings
    BY Clocks DEF FInv, FeedTypeOK
  <1>4. Entries(cache.entries) # {}
    BY <1>2, TopIsPage
  <1>5. feed' \in FeedRows /\ feed' # None
    BY <1>1, <1>2, <1>4, RowTyped
  <1>6. /\ feed'.at = now /\ feed'.keys = Keys(cache.entries)
        /\ feed'.gap = IF feed = None THEN None
                       ELSE IF feed.gap = None /\ GapDetected(feed, cache.entries) THEN feed.at ELSE feed.gap
        /\ feed'.since = IF feed = None \/ GapDetected(feed, cache.entries) \/ feed.since = None
                         THEN OldestEntry(cache.entries) ELSE feed.since
    BY <1>1 DEF FeedRow
  <1>7. buffer' \in [Topics -> BufferRows \cup {None}]
    BY <1>1, <1>2, <1>3, BufferHolds, Pruned
  <1>8. ASSUME NEW t \in Topics, cache.entries[t] # None
        PROVE  buffer'[t] # None /\ buffer'[t].at = cache.entries[t] /\ buffer'[t].seen = now
    <2>1. /\ BufferReleases(buffer, cache.entries)[t] # None
          /\ BufferReleases(buffer, cache.entries)[t].at = cache.entries[t]
          /\ BufferReleases(buffer, cache.entries)[t].seen = now
      BY <1>2, <1>3, <1>8, BufferHolds
    <2>2. ~(now < now - Retention)
      BY <1>3
    <2>3. buffer'[t] = BufferReleases(buffer, cache.entries)[t]
      BY <1>1, <1>2, <1>3, <2>1, <2>2, BufferHolds, Pruned
    <2> QED BY <2>1, <2>3
  <1>9. ASSUME NEW t \in Topics, cache.entries[t] = None
        PROVE  \/ buffer'[t] = buffer[t]
               \/ buffer'[t] = None /\ buffer[t] # None /\ buffer[t].seen < now - Retention
    <2>1. BufferReleases(buffer, cache.entries)[t] = buffer[t]
      BY <1>2, <1>3, <1>9, BufferHolds
    <2> QED BY <1>1, <1>2, <1>3, <2>1, BufferHolds, Pruned
  <1>10. \A t \in Entries(cache.entries) : t \in Topics /\ cache.entries[t] # None /\ cache.entries[t] = cache.all[t]
    BY <1>2, TopIsPage, EntryInt
  <1>11. FeedTypeOK'
    <2>1. skipped' \subseteq Topics
      BY DEF Ingest, Entries
    <2> QED BY <1>1, <1>2, <1>3, <1>5, <1>7, <2>1 DEF FeedTypeOK
  <1>12. ListedInv'
    BY <1>1, <1>2 DEF FInv, ListedInv, Past, Advances
  <1>13. NotBefore(cache.all, listed, now - FeedCache)
    <2>1. ASSUME NEW t \in Topics, listed[t] # None, listed[t] # cache.all[t]
          PROVE  listed[t] - offset >= now - FeedCache
      <3>1. listed[t] \in Int /\ listed[t] - offset >= cache.at
        BY <1>2, <1>3, <2>1, StampRange DEF NotBefore
      <3> QED BY <1>1, <1>2, <1>3, <3>1
    <2> QED BY <2>1 DEF NotBefore
  <1>14. CacheInv'
    BY <1>1, <1>2, Reflexive DEF CacheInv, Past, Advances, NotBefore
  <1>15. FeedInv'
    <2>1. feed'.keys # {}
      BY <1>4, <1>6 DEF Keys
    <2>2. feed'.gap # None => feed'.gap <= now
      BY <1>3, <1>6, RowFacts
    <2>3. \A k \in feed'.keys : k[1] \in Entries(cache.all) /\ k[2] = cache.all[k[1]]
      BY <1>2, <1>6, <1>10, TopIsPage DEF Keys
    <2> QED BY <1>1, <1>3, <1>6, <1>13, <2>1, <2>2, <2>3 DEF FeedInv, NotBefore
  <1>16. BufferInv'
    <2>1. ASSUME NEW t \in Topics, buffer'[t] # None PROVE buffer'[t].at - offset <= buffer'[t].seen
      <3>1. CASE cache.entries[t] # None
        <4>1. cache.entries[t] = cache.all[t] /\ cache.all[t] \in Int /\ cache.all[t] - offset < now
          BY <1>2, <1>10, <3>1, EntryInt, StampRange DEF Past, Entries
        <4> QED BY <1>3, <1>8, <3>1, <4>1
      <3>2. CASE cache.entries[t] = None
        BY <1>9, <2>1, <3>2 DEF FInv, BufferInv
      <3> QED BY <3>1, <3>2
    <2> QED BY <1>1, <2>1 DEF BufferInv
  <1>17. BufferFollowsFeed'
    <2>1. ASSUME NEW t \in Entries(cache.all), cache.all[t] >= feed'.since, feed'.since # None
          PROVE  Holds(buffer', t, cache.all[t]) \/ cache.all[t] - offset < now - Retention
      <3>1. t \in Topics /\ cache.all[t] \in Int
        BY <1>2, EntryInt
      <3>2. CASE cache.entries[t] = cache.all[t]
        BY <1>8, <3>1, <3>2, NeverNone DEF Holds
      <3>3. CASE feed = None \/ GapDetected(feed, cache.entries) \/ feed.since = None
        <4>1. PICK u \in Entries(cache.entries) : feed'.since = cache.entries[u]
          BY <1>2, <1>4, <1>6, <3>3, OldestExists
        <4>2. cache.entries[t] = cache.all[t]
          BY <1>2, <1>10, <2>1, <4>1, TopIsPage
        <4> QED BY <3>2, <4>2
      <3>4. CASE /\ ~(feed = None \/ GapDetected(feed, cache.entries) \/ feed.since = None)
                 /\ cache.entries[t] # cache.all[t]
        <4>1. cache.all[t] = shown[t]
          BY <1>1, <3>4, OverlapShowsAll
        <4>2. t \in Entries(shown) /\ shown[t] >= feed.since
          BY <1>6, <2>1, <3>1, <3>4, <4>1, NeverNone DEF Entries
        <4>3. CASE shown[t] - offset < feed.at - Retention
          BY <1>3, <3>1, <3>4, <4>1, <4>3, RowFacts
        <4>4. CASE Holds(buffer, t, shown[t])
          <5>1. buffer[t] # None /\ buffer[t].at >= shown[t]
            BY <4>4 DEF Holds
          <5>2. buffer[t].at \in Int /\ buffer[t].seen \in Int /\ buffer[t].at - offset <= buffer[t].seen
            <6>1. buffer[t] \in BufferRows
              BY <1>3, <3>1, <5>1 DEF FeedTypeOK
            <6>2. buffer[t].at \in Stamps /\ buffer[t].seen \in 0..MaxTime
              BY <6>1 DEF BufferRows
            <6>3. buffer[t].at \in Int /\ buffer[t].seen \in Int
              BY <6>2, FeedAssumption DEF Stamps
            <6> QED BY <3>1, <5>1, <6>3 DEF FInv, BufferInv
          <5>3. CASE cache.entries[t] = None
            <6>1. CASE buffer'[t] = buffer[t]
              BY <4>1, <5>1, <6>1 DEF Holds
            <6>2. CASE buffer[t].seen < now - Retention
              BY <1>3, <3>1, <4>1, <5>1, <5>2, <6>2
            <6> QED BY <1>9, <3>1, <5>3, <6>1, <6>2
          <5>4. CASE cache.entries[t] # None
            BY <1>10, <3>1, <3>4, <5>4 DEF Entries
          <5> QED BY <5>3, <5>4
        <4>5. Holds(buffer, t, shown[t]) \/ shown[t] - offset < feed.at - Retention
          BY <3>4, <4>2 DEF FInv, BufferFollowsFeed
        <4> QED BY <4>3, <4>4, <4>5
      <3> QED BY <3>2, <3>3, <3>4
    <2> QED BY <1>1, <1>6, <2>1 DEF BufferFollowsFeed, Holds
  <1>18. ASSUME NEW t \in skipped'
         PROVE  /\ t \in Entries(cache.all) /\ feed'.gap # None
                /\ cache.all[t] - offset >= feed'.gap - FeedCache
    <2>1. /\ feed # None /\ feed.since # None /\ t \in Entries(cache.all)
          /\ t \in skipped \/ cache.all[t] # shown[t]
          /\ ~Holds(buffer', t, cache.all[t])
      BY <1>1, <1>18 DEF Ingest
    <2>2. t \in Topics /\ cache.all[t] \in Int
      BY <1>2, <2>1, EntryInt
    <2>3. cache.entries[t] # cache.all[t]
      BY <1>8, <2>1, <2>2, NeverNone DEF Holds
    <2>4. CASE cache.all[t] # shown[t]
      <3>1. GapDetected(feed, cache.entries)
        BY <1>1, <2>1, <2>3, <2>4, OverlapShowsAll
      <3>2. cache.all[t] - offset >= feed.at - FeedCache
        BY <1>2, <2>1, <2>2, <2>4, NeverNone DEF NotBefore
      <3>3. feed'.gap # None /\ feed'.gap \in Int /\ feed'.gap <= feed.at /\ feed.at \in Int
        BY <1>6, <2>1, <3>1, RowFacts, NeverNone
      <3> QED BY <1>3, <2>1, <2>2, <3>2, <3>3
    <2>5. CASE cache.all[t] = shown[t]
      <3>1. feed.gap # None /\ shown[t] - offset >= feed.gap - FeedCache
        BY <2>1, <2>5 DEF FInv, SkippedIsGap
      <3> QED BY <1>6, <2>1, <2>5, <3>1
    <2> QED BY <2>4, <2>5
  <1>19. SkippedInv' /\ SkippedIsGap'
    BY <1>1, <1>5, <1>18 DEF SkippedInv, SkippedIsGap, Entries
  <1> QED BY <1>5, <1>11, <1>12, <1>14, <1>15, <1>16, <1>17, <1>19 DEF FInv, Gapped

LEMMA CatchUpKeeps ==
  ASSUME FInv, NEW found \in Listings, CatchUp(found), Past(found, now),
         \A t \in Topics : found[t] # None /\ shown[t] # None => found[t] >= shown[t]
  PROVE  FInv' /\ UNCHANGED <<world, cache, feed, shown>>
  <1>1. /\ buffer' = BufferReleases(buffer, found) /\ UNCHANGED <<now, offset, listed, cache, feed, shown>>
        /\ skipped' = {t \in skipped : ~Holds(buffer', t, shown[t])}
    BY DEF CatchUp, world
  <1>2. /\ FeedTypeOK /\ now \in Nat /\ offset \in Int /\ shown \in Listings
    BY Clocks DEF FInv, FeedTypeOK
  <1>3. buffer' \in [Topics -> BufferRows \cup {None}]
    BY <1>1, <1>2, BufferHolds
  <1>4. \A t \in Topics : found[t] # None =>
          buffer'[t] # None /\ buffer'[t].at = found[t] /\ buffer'[t].seen = now
    BY <1>1, <1>2, BufferHolds
  <1>5. \A t \in Topics : found[t] = None => buffer'[t] = buffer[t]
    BY <1>1, <1>2, BufferHolds
  <1>6. FeedTypeOK'
    BY <1>1, <1>2, <1>3 DEF FeedTypeOK
  <1>7. ListedInv' /\ CacheInv' /\ FeedInv'
    BY <1>1 DEF FInv, ListedInv, CacheInv, FeedInv, Past, Advances, NotBefore
  <1>8. BufferInv'
    <2>1. ASSUME NEW t \in Topics, buffer'[t] # None PROVE buffer'[t].at - offset <= buffer'[t].seen
      <3>1. CASE found[t] # None
        <4>1. found[t] \in Int /\ found[t] - offset < now
          BY <3>1, StampRange DEF Past
        <4> QED BY <1>2, <1>4, <3>1, <4>1
      <3>2. CASE found[t] = None
        BY <1>5, <2>1, <3>2 DEF FInv, BufferInv
      <3> QED BY <3>1, <3>2
    <2> QED BY <1>1, <2>1 DEF BufferInv
  <1>9. ASSUME NEW t \in Entries(shown), Holds(buffer, t, shown[t])
        PROVE  Holds(buffer', t, shown[t])
    <2>1. t \in Topics /\ shown[t] # None
      BY DEF Entries
    <2>2. CASE found[t] # None
      BY <1>4, <2>1, <2>2 DEF Holds
    <2>3. CASE found[t] = None
      BY <1>5, <1>9, <2>1, <2>3 DEF Holds
    <2> QED BY <2>2, <2>3
  <1>10. BufferFollowsFeed'
    BY <1>1, <1>9 DEF FInv, BufferFollowsFeed
  <1>11. SkippedInv' /\ SkippedIsGap'
    BY <1>1 DEF FInv, SkippedInv, SkippedIsGap
  <1> QED BY <1>1, <1>6, <1>7, <1>8, <1>10, <1>11 DEF FInv, world

LEMMA FeedStays == ASSUME FInv, UNCHANGED feedVars PROVE FInv'
  BY DEF FInv, FeedTypeOK, ListedInv, CacheInv, FeedInv, BufferInv, SkippedInv, BufferFollowsFeed,
    SkippedIsGap, Holds, feedVars, world, Past, Advances, NotBefore

LEMMA FeedBegins == ASSUME FeedInit PROVE FInv
  <1>1. /\ now = 0 /\ offset \in Offsets /\ listed = Nothing /\ cache = None
        /\ buffer = Nothing /\ shown = Nothing /\ skipped = {}
    BY DEF FeedInit
  <1>2. Nothing \in Listings /\ Entries(Nothing) = {} /\ (\A t \in Topics : Nothing[t] = None)
        /\ Nothing \in [Topics -> BufferRows \cup {None}]
    BY DEF Nothing, Listings, Entries
  <1>3. MaxTime \in Nat /\ FeedCache \in Nat
    BY Zenon, FeedAssumption
  <1>4. feed = None \/
          /\ feed \in FeedRows /\ feed.at = 0 /\ feed.keys # {} /\ feed.gap = None /\ feed.since = None
    <2>1. ASSUME NEW t \in Topics,
                 feed = [at |-> 0, keys |-> {<<t, None>>}, gap |-> None, lastGap |-> None, since |-> None]
          PROVE  /\ feed \in FeedRows /\ feed.at = 0 /\ feed.keys # {} /\ feed.gap = None /\ feed.since = None
      <3>1. {<<t, None>>} \in SUBSET (Topics \X (Stamps \cup {None})) /\ 0 \in 0..MaxTime
        BY <1>3
      <3> QED BY <2>1, <3>1 DEF FeedRows
    <2> QED BY <2>1 DEF FeedInit
  <1>5. FeedTypeOK
    BY <1>1, <1>2, <1>3, <1>4 DEF FeedTypeOK
  <1>6. ListedInv /\ CacheInv /\ BufferInv /\ SkippedInv /\ SkippedIsGap
    BY <1>1, <1>2 DEF ListedInv, CacheInv, BufferInv, SkippedInv, SkippedIsGap, Past, Advances
  <1>7. FeedInv /\ BufferFollowsFeed
    BY <1>1, <1>2, <1>4 DEF FeedInv, BufferFollowsFeed, NotBefore
  <1> QED BY <1>5, <1>6, <1>7 DEF FInv

(***************************************************************************)
(* The search: positions.                                                  *)
(***************************************************************************)

LEMMA PositionNat ==
  ASSUME NEW q, NEW t
  PROVE  /\ IsFiniteSet(After(listed, t) \cap q) /\ Position(q, t) \in Nat
  <1>1. After(listed, t) \cap q \in SUBSET After(listed, t)
    OBVIOUS
  <1>2. IsFiniteSet(After(listed, t) \cap q)
    BY <1>1, AfterFinite, FS_Subset
  <1> QED BY <1>2, FS_CardinalityType DEF Position

\* A listing moves nothing up.
LEMMA PublishMovesDown ==
  ASSUME FInv, NEW u \in Topics, Publish(u), NEW q, NEW t \in Entries(listed), t # u
  PROVE  Position(q, t) <= Position(q, t)'
  <1>1. listed \in Listings /\ FeedTypeOK /\ Past(listed, now)
    BY DEF FInv, FeedTypeOK, ListedInv
  <1>2. \A v \in Topics : listed'[v] = IF v = u THEN now + offset ELSE listed[v]
    BY <1>1, Published
  <1>3. t \in Topics /\ listed[t] \in Int /\ listed[t] - offset < now
    BY <1>1, EntryInt DEF Past
  <1>4. now \in Nat /\ offset \in Int /\ now + offset # None
    BY <1>1, Clocks, NeverNone
  <1>5. After(listed, t) \subseteq After(listed', t)
    <2>1. ASSUME NEW v \in After(listed, t) PROVE v \in After(listed', t)
      <3>1. v \in Topics /\ listed[v] # None /\ listed[v] > listed[t]
        BY DEF After, Entries
      <3>2. listed'[t] = listed[t]
        BY <1>2, <1>3
      <3>3. listed'[v] # None /\ listed'[v] > listed'[t]
        BY <1>2, <1>3, <1>4, <3>1, <3>2
      <3> QED BY <3>1, <3>3 DEF After, Entries
    <2> QED BY <2>1
  <1>6. IsFiniteSet(After(listed', t) \cap q)
    <2>1. After(listed', t) \subseteq Topics /\ IsFiniteSet(Topics)
      BY FeedAssumption DEF After, Entries
    <2> QED BY <2>1, FS_Subset
  <1>7. Cardinality(After(listed, t) \cap q) <= Cardinality(After(listed', t) \cap q)
    BY <1>5, <1>6, FS_Subset
  <1> QED BY <1>7 DEF Position

CompleteStep ==
  Ends("complete") =>
    \A t \in search.query : Kept(t) /\ ~search.shrunk => Holds(buffer', t, search.before[t])

FinalStep ==
  Ends("final") =>
    \/ search.login = "wrong"
    \/ search.read = MaxRecoveryPages
    \/ search.at = "results" /\ ~alive

LEMMA ResultNone == None # "due" /\ None # "complete" /\ None # "final" /\ None # "retry"
  BY Zenon, SearchAssumption

LEMMA SearchTyped ==
  ASSUME SearchTypeOK, search # None
  PROVE  /\ search \in Searches
         /\ search.start \in Nat /\ search.got \in Listings /\ search.before \in Listings
         /\ search.read \in Nat /\ search.query \in Queries /\ search.shrunk \in BOOLEAN
         /\ listed \in Listings /\ ResultPage \in Nat \ {0} /\ MaxRecoveryPages \in Nat \ {0}
         /\ search.login \in {"right", "wrong"}
  <1>1. search \in Searches
    BY DEF SearchTypeOK
  <1>2. MaxRecoveryPages \in Nat \ {0} /\ ResultPage \in Nat \ {0}
    BY Zenon, SearchAssumption
  <1>3. listed \in Listings
    BY DEF SearchTypeOK, FeedTypeOK
  <1> QED BY <1>1, <1>2, <1>3 DEF Searches

LEMMA ResultsShow ==
  ASSUME SearchTypeOK, NEW q, NEW start \in Nat
  PROVE  /\ ResultsFrom(q, start) \in Listings
         /\ \A t \in Topics : ResultsFrom(q, start)[t] # None =>
              /\ t \in Entries(listed) /\ ResultsFrom(q, start)[t] = listed[t]
              /\ Position(q, t) <= start + ResultPage - 1
         /\ \A t \in Entries(listed) \cap q :
              Position(q, t) >= start /\ Position(q, t) <= start + ResultPage - 1 => ResultsFrom(q, start)[t] = listed[t]
  <1>1. listed \in Listings /\ ResultPage \in Nat
    BY SearchAssumption DEF SearchTypeOK, FeedTypeOK
  <1>2. \A t \in Topics : ResultsFrom(q, start)[t] =
          IF t \in q \cap Entries(listed) /\ Position(q, t) \in start..(start + ResultPage - 1) THEN listed[t] ELSE None
    BY DEF ResultsFrom, Found
  <1>3. ResultsFrom(q, start) \in Listings
    BY <1>1 DEF ResultsFrom, Listings
  <1>4. ASSUME NEW t \in Topics, ResultsFrom(q, start)[t] # None
        PROVE  /\ t \in Entries(listed) /\ ResultsFrom(q, start)[t] = listed[t]
               /\ Position(q, t) <= start + ResultPage - 1
    <2>1. /\ t \in Entries(listed) /\ ResultsFrom(q, start)[t] = listed[t]
          /\ Position(q, t) \in start..(start + ResultPage - 1)
      BY <1>2, <1>4
    <2>2. \A n : n \in start..(start + ResultPage - 1) => n <= start + ResultPage - 1
      BY <1>1
    <2> QED BY <2>1, <2>2
  <1>5. ASSUME NEW t \in Entries(listed) \cap q, Position(q, t) >= start, Position(q, t) <= start + ResultPage - 1
        PROVE  ResultsFrom(q, start)[t] = listed[t]
    <2>1. t \in Topics /\ Position(q, t) \in Nat
      BY PositionNat DEF Entries
    <2>2. Position(q, t) \in start..(start + ResultPage - 1)
      BY <1>1, <1>5, <2>1
    <2> QED BY <1>2, <2>1, <2>2
  <1> QED BY <1>3, <1>4, <1>5

\* What was listed after an entry of a page has no later position, and without
\* a next page nothing has.
LEMMA Reached ==
  ASSUME SearchTypeOK, NEW q, NEW start \in Nat, NEW t \in Entries(listed) \cap q,
         \/ \E u \in Entries(ResultsFrom(q, start)) : ResultsFrom(q, start)[u] <= listed[t]
         \/ ~HasNext(q, start)
  PROVE  Position(q, t) <= start + ResultPage - 1
  <1>1. listed \in Listings /\ ResultPage \in Nat
    BY SearchAssumption DEF SearchTypeOK, FeedTypeOK
  <1>2. ASSUME NEW u \in Entries(ResultsFrom(q, start)), ResultsFrom(q, start)[u] <= listed[t]
        PROVE  Position(q, t) <= start + ResultPage - 1
    <2>1. /\ u \in Entries(listed) /\ ResultsFrom(q, start)[u] = listed[u]
          /\ Position(q, u) <= start + ResultPage - 1
      BY <1>2, ResultsShow DEF Entries
    <2>2. listed[t] >= listed[u]
      BY <1>1, <1>2, <2>1, EntryInt
    <2>3. After(listed, t) \subseteq After(listed, u)
      BY <1>1, <2>1, <2>2, AfterMonotone
    <2>4. Position(q, t) <= Position(q, u)
      BY <2>3, PositionNat, FS_Subset DEF Position
    <2>5. Position(q, t) \in Nat /\ Position(q, u) \in Nat
      BY PositionNat
    <2> QED BY <1>1, <2>1, <2>4, <2>5
  <1>3. ASSUME ~HasNext(q, start) PROVE Position(q, t) <= start + ResultPage - 1
    <2>1. Found(q) \subseteq Topics /\ IsFiniteSet(Found(q)) /\ t \in Found(q)
      BY FeedAssumption, FS_Subset DEF Found, Entries
    <2>2. Cardinality(Found(q)) \in Nat /\ Cardinality(Found(q)) <= start + ResultPage
      BY <1>1, <1>3, <2>1, FS_CardinalityType DEF HasNext
    <2>3. After(listed, t) \cap q \subseteq Found(q) \ {t}
      BY <1>1, EntryInt DEF After, Found
    <2>4. IsFiniteSet(Found(q) \ {t}) /\ Cardinality(Found(q) \ {t}) = Cardinality(Found(q)) - 1
      BY <2>1, FS_RemoveElement
    <2>5. Position(q, t) <= Cardinality(Found(q)) - 1
      BY <2>3, <2>4, FS_Subset DEF Position
    <2>6. Position(q, t) \in Nat
      BY PositionNat
    <2> QED BY <1>1, <2>2, <2>5, <2>6
  <1> QED BY <1>2, <1>3

\* The releases of a search with one more page.
GotWith(page) ==
  [t \in Topics |->
     IF search.got[t] = None /\ page[t] # None /\ page[t] >= feed.gap THEN page[t] ELSE search.got[t]]

LEMMA GotGrows ==
  ASSUME SearchIInv, search # None, NEW page, page = ResultsFrom(search.query, search.start), NEW got, got = GotWith(page)
  PROVE  /\ got \in Listings /\ Past(got, now)
         /\ \A t \in Topics : got[t] # None /\ shown[t] # None => got[t] >= shown[t]
         /\ ~search.shrunk => \A t \in Topics : search.before[t] # None /\ got[t] # None => got[t] >= search.before[t]
         /\ ~search.shrunk => \A t \in search.query : Kept(t) =>
              got[t] # None \/ Position(search.query, t) >= search.start + ResultPage
  <1>1. /\ search.start \in Nat /\ search.got \in Listings /\ search.before \in Listings /\ listed \in Listings
        /\ ResultPage \in Nat /\ shown \in Listings /\ SearchTypeOK /\ FInv
        /\ search.query \subseteq Topics
    <2>1. search.query \subseteq Topics
      BY Zenon, SearchTyped, SearchAssumption DEF SearchIInv
    <2> QED BY <2>1, SearchTyped DEF SearchIInv, SearchTypeOK, FeedTypeOK
  <1>2. page \in Listings /\ \A t \in Topics : page[t] # None => page[t] = listed[t]
    BY <1>1, ResultsShow
  <1>3. \A t \in Topics : got[t] = IF search.got[t] = None /\ page[t] # None /\ page[t] >= feed.gap
                                   THEN page[t] ELSE search.got[t]
    BY DEF GotWith
  <1>4. \A t \in Topics : got[t] # None =>
          got[t] = search.got[t] \/ (search.got[t] = None /\ got[t] = listed[t])
    BY <1>2, <1>3
  <1>5. got \in Listings
    BY <1>1, <1>2 DEF GotWith, Listings
  <1>6. Past(got, now)
    BY <1>1, <1>4 DEF SearchIInv, FInv, ListedInv, SearchInv, Past
  <1>7. ASSUME NEW t \in Topics, got[t] # None, shown[t] # None PROVE got[t] >= shown[t]
    <2>1. CASE got[t] = search.got[t]
      BY <1>7, <2>1 DEF SearchIInv, SearchInv
    <2>2. CASE got[t] = listed[t]
      <3>1. shown[t] \in Int /\ t \in Entries(shown) /\ listed[t] \in Int
        BY <1>1, <1>7, <2>2, StampInt
      <3>2. listed[t] = shown[t] \/ listed[t] > shown[t]
        BY <1>7, <2>2, <3>1 DEF SearchIInv, FInv, ListedInv, Advances
      <3> QED BY <2>2, <3>1, <3>2
    <2> QED BY <1>4, <1>7, <2>1, <2>2
  <1>8. ASSUME ~search.shrunk, NEW t \in Topics, search.before[t] # None, got[t] # None
        PROVE  got[t] >= search.before[t]
    BY <1>4, <1>8 DEF SearchIInv, SearchInv
  <1>9. ASSUME ~search.shrunk, NEW t \in search.query, Kept(t), got[t] = None
        PROVE  Position(search.query, t) >= search.start + ResultPage
    <2>1. t \in Topics /\ search.got[t] = None
      BY <1>1, <1>3, <1>4, <1>9
    <2>2. Position(search.query, t) >= search.start
      BY <1>9, <2>1 DEF SearchIInv, SearchInv
    <2>3. t \in Entries(listed) /\ listed[t] # None /\ listed[t] >= feed.gap
      BY <1>9, <2>1 DEF Kept, Entries
    <2>4. page[t] # listed[t]
      BY <1>3, <1>9, <2>1, <2>3
    <2>5. ~(Position(search.query, t) <= search.start + ResultPage - 1)
      BY <1>1, <1>9, <2>2, <2>3, <2>4, ResultsShow
    <2>6. Position(search.query, t) \in Nat
      BY PositionNat
    <2> QED BY <1>1, <2>5, <2>6
  <1> QED BY <1>5, <1>6, <1>7, <1>8, <1>9

LEMMA ReadPageKeeps ==
  ASSUME SearchIInv, search # None, search.at # "beyond", ReadPage, client'.jar = search.mirror
  PROVE  /\ FInv' /\ SearchInv' /\ CompleteStep /\ FinalStep
         /\ search' \in Searches \cup {None}
         /\ result' \in {"complete", "final", None}
  <1>1. /\ search.start \in Nat /\ search.got \in Listings /\ search.before \in Listings /\ listed \in Listings
        /\ ResultPage \in Nat \ {0} /\ MaxRecoveryPages \in Nat \ {0} /\ search.read \in Nat
        /\ search \in Searches /\ SearchTypeOK /\ FInv /\ search.query \subseteq Topics
    <2>1. search.query \subseteq Topics
      BY Zenon, SearchTyped, SearchAssumption DEF SearchIInv
    <2> QED BY <2>1, SearchTyped DEF SearchIInv
  <1>2. search.read < MaxRecoveryPages /\ result = None /\ Gapped
    BY DEF SearchIInv, SearchInv
  <1>3. PICK page : page = ResultsFrom(search.query, search.start)
    OBVIOUS
  <1>4. PICK got : got = GotWith(page)
    OBVIOUS
  <1>5. PICK complete \in BOOLEAN :
          complete = ((\E t \in Entries(page) : page[t] < feed.gap) \/ ~HasNext(search.query, search.start))
    OBVIOUS
  <1>6. TakePage(got, complete)
    BY <1>3, <1>4, <1>5, Zenon DEF ReadPage, GotWith
  <1>7. /\ got \in Listings /\ Past(got, now)
        /\ \A t \in Topics : got[t] # None /\ shown[t] # None => got[t] >= shown[t]
        /\ ~search.shrunk => \A t \in Topics : search.before[t] # None /\ got[t] # None => got[t] >= search.before[t]
        /\ ~search.shrunk => \A t \in search.query : Kept(t) =>
             got[t] # None \/ Position(search.query, t) >= search.start + ResultPage
    BY <1>3, <1>4, GotGrows
  <1>8. CASE complete
    <2>1. /\ CatchUp(got) /\ search' = None
          /\ result' = "complete"
      BY <1>6, <1>8 DEF TakePage, End
    <2>2. FInv'
      BY <1>1, <1>7, <2>1, CatchUpKeeps
    <2>3. SearchInv'
      BY <2>1 DEF SearchInv
    <2>4. CompleteStep
      <3>1. SUFFICES ASSUME ~search.shrunk, NEW t \in search.query, Kept(t)
                     PROVE  Holds(buffer', t, search.before[t])
        BY <2>1 DEF CompleteStep, Ends
      <3>2. t \in Topics /\ t \in Entries(listed) /\ listed[t] \in Int /\ listed[t] >= feed.gap /\ search.before[t] # None
        BY <1>1, <3>1, StampInt DEF Kept, Entries
      <3>3. Position(search.query, t) <= search.start + ResultPage - 1
        <4>1. CASE \E u \in Entries(page) : page[u] < feed.gap
          <5>1. PICK u \in Entries(page) : page[u] < feed.gap
            BY <4>1
          <5>2. page[u] \in Int /\ feed.gap \in Int
            BY <1>1, <1>2, <1>3, ResultsShow, EntryInt, RowFacts DEF Gapped
          <5>3. page[u] <= listed[t]
            BY <3>2, <5>1, <5>2
          <5> QED BY <1>1, <1>3, <3>2, <5>3, Reached
        <4>2. CASE ~HasNext(search.query, search.start)
          BY <1>1, <3>2, <4>2, Reached
        <4> QED BY <1>5, <1>8, <4>1, <4>2
      <3>4. Position(search.query, t) \in Nat
        BY PositionNat
      <3>5. got[t] # None
        BY <1>1, <1>7, <3>1, <3>3, <3>4
      <3>6. got[t] >= search.before[t]
        BY <1>7, <3>1, <3>2, <3>5
      <3>7. buffer' = BufferReleases(buffer, got)
        BY <2>1 DEF CatchUp
      <3>8. buffer'[t] # None /\ buffer'[t].at = got[t]
        BY <1>7, <3>2, <3>5, <3>7, BufferHolds DEF SearchIInv, FInv
      <3> QED BY <3>6, <3>8 DEF Holds
    <2>5. FinalStep
      BY <1>8, <2>1 DEF FinalStep, Ends
    <2> QED BY <2>1, <2>2, <2>3, <2>4, <2>5
  <1>9. CASE ~complete
    <2>1. /\ search' = [search EXCEPT !.at = IF search.read + 1 = MaxRecoveryPages THEN "beyond" ELSE "results",
                                      !.read = @ + 1, !.start = @ + ResultPage, !.got = got]
          /\ UNCHANGED <<feedVars, result>>
      BY <1>6, <1>9 DEF TakePage
    <2>2. /\ search'.at = (IF search.read + 1 = MaxRecoveryPages THEN "beyond" ELSE "results")
          /\ search'.read = search.read + 1 /\ search'.start = search.start + ResultPage
          /\ search'.got = got /\ search'.before = search.before /\ search'.shrunk = search.shrunk
          /\ search'.query = search.query /\ search'.mirror = search.mirror
      BY <1>1, <2>1 DEF Searches
    <2>3. /\ search'.read \in 0..MaxRecoveryPages /\ search'.start \in Nat
          /\ IF search'.at = "beyond" THEN search'.read = MaxRecoveryPages ELSE search'.read < MaxRecoveryPages
      BY <1>1, <1>2, <2>2
    <2>4. search' \in Searches
      BY <1>1, <1>7, <2>1, <2>2, <2>3 DEF Searches
    <2>5. FInv'
      BY <1>1, <2>1, FeedStays
    <2>6. UNCHANGED <<now, offset, listed, feed, shown>>
      BY <2>1 DEF feedVars, world
    <2>7. \A q, t : Position(q, t)' = Position(q, t)
      BY <2>6 DEF Position, After, Entries
    <2>8. \A t : Kept(t)' = Kept(t)
      BY <2>2, <2>6 DEF Kept
    <2>9. Gapped' /\ Past(search'.got, now') /\ Past(search'.before, now')
      <3>1. Past(got, now) /\ Past(search.before, now)
        BY <1>7 DEF SearchIInv, SearchInv
      <3> QED BY <1>2, <2>2, <2>6, <3>1 DEF Gapped, Past
    <2>10. ASSUME ~search.shrunk, NEW t \in Topics, search.before[t] # None
           PROVE  /\ listed[t] # None /\ listed[t] >= search.before[t]
                  /\ got[t] # None => got[t] >= search.before[t]
      BY <1>7, <2>10 DEF SearchIInv, SearchInv
    <2>11. SearchInv'
      <3>1. \A t \in Topics : search'.got[t] # None /\ shown'[t] # None => search'.got[t] >= shown'[t]
        BY <1>7, <2>2, <2>6
      <3>2. client'.jar = search'.mirror /\ result' = None
        BY <1>2, <2>1, <2>2
      <3>3. ~search'.shrunk => \A t \in Topics : search'.before[t] # None =>
              /\ listed'[t] # None /\ listed'[t] >= search'.before[t]
              /\ search'.got[t] # None => search'.got[t] >= search'.before[t]
        BY <2>2, <2>6, <2>10
      <3>4. (~search.shrunk => \A t \in search.query :
                Kept(t) => search.got[t] # None \/ Position(search.query, t) >= search.start)'
        <4>1. ASSUME ~search.shrunk, NEW t \in search.query, Kept(t)
              PROVE  got[t] # None \/ Position(search.query, t) >= search.start + ResultPage
          BY <1>7, <4>1
        <4> QED BY <2>2, <2>6, <4>1 DEF Kept, Position, After, Entries
      <3>5. (Past(search.got, now) /\ Past(search.before, now))'
        BY <2>6, <2>9 DEF Past
      <3> QED BY <2>2, <2>3, <2>9, <3>1, <3>2, <3>3, <3>4, <3>5 DEF SearchInv
    <2>12. CompleteStep /\ FinalStep
      BY <1>2, <2>1, ResultNone DEF CompleteStep, FinalStep, Ends
    <2> QED BY <1>2, <2>1, <2>4, <2>5, <2>11, <2>12
  <1> QED BY <1>8, <1>9

(***************************************************************************)
(* The other steps of the search, and what happens around it.              *)
(***************************************************************************)

\* No search, or none any more, and none is due.
LEMMA Quiet ==
  ASSUME search' = None, result' # "due" \/ Gapped'
  PROVE  SearchInv'
  BY DEF SearchInv

Requests == {"existing", "clearance", "login", "results"}

LEMMA SearchMoves ==
  ASSUME SearchIInv, search # None, search.at # "beyond", UNCHANGED <<feedVars, result>>, NEW at \in Requests,
         search' = [search EXCEPT !.at = at], at = "results" => client'.jar = search.mirror
  PROVE  FInv' /\ SearchInv' /\ search' \in Searches
  <1>1. search \in Searches
    BY SearchTyped DEF SearchIInv
  <1>2. /\ search' \in Searches /\ search'.at = at
        /\ search'.read = search.read /\ search'.start = search.start
        /\ search'.got = search.got /\ search'.before = search.before /\ search'.shrunk = search.shrunk
        /\ search'.query = search.query /\ search'.mirror = search.mirror
    BY <1>1 DEF Searches, Requests
  <1>3. FInv'
    BY FeedStays DEF SearchIInv
  <1>4. UNCHANGED <<now, offset, listed, feed, shown>>
    BY DEF feedVars, world
  <1>5. SearchInv'
    <2>1. (~search.shrunk => \A t \in search.query :
              Kept(t) => search.got[t] # None \/ Position(search.query, t) >= search.start)'
      <3>1. ~search.shrunk => \A t \in search.query :
              Kept(t) => search.got[t] # None \/ Position(search.query, t) >= search.start
        BY DEF SearchIInv, SearchInv
      <3> QED BY <1>2, <1>4, <3>1 DEF Kept, Position, After, Entries
    <2>2. (Past(search.got, now) /\ Past(search.before, now))'
      BY <1>2, <1>4 DEF SearchIInv, SearchInv, Past
    <2>3. /\ Gapped' /\ search'.read < MaxRecoveryPages /\ result' = None /\ search'.at # "beyond"
          /\ search'.at = "results" => client'.jar = search'.mirror
      BY <1>2, <1>4 DEF SearchIInv, SearchInv, Gapped, Requests
    <2>4. (\A t \in Topics : search.got[t] # None /\ shown[t] # None => search.got[t] >= shown[t])'
      BY <1>2, <1>4 DEF SearchIInv, SearchInv
    <2>5. (~search.shrunk => \A t \in Topics : search.before[t] # None =>
             /\ listed[t] # None /\ listed[t] >= search.before[t]
             /\ search.got[t] # None => search.got[t] >= search.before[t])'
      BY <1>2, <1>4 DEF SearchIInv, SearchInv
    <2> QED BY <2>1, <2>2, <2>3, <2>4, <2>5 DEF SearchInv
  <1> QED BY <1>2, <1>3, <1>5

\* The account or the session changes.
LEMMA SearchStays ==
  ASSUME SearchIInv, UNCHANGED <<feedVars, client, search, result>>
  PROVE  FInv' /\ SearchInv'
  <1>1. FInv'
    BY FeedStays DEF SearchIInv
  <1>2. UNCHANGED <<now, offset, listed, feed, shown>>
    BY DEF feedVars, world
  <1>3. SearchInv'
    BY <1>2 DEF SearchIInv, SearchInv, Gapped, Past, Kept, Position, After, Entries
  <1> QED BY <1>1, <1>3

LEMMA TimePasses ==
  ASSUME SearchIInv, (\E u \in Topics : Publish(u)) \/ Tick, UNCHANGED searchVars
  PROVE  FInv' /\ SearchInv'
  <1>1. FInv'
    BY PublishKeeps, TickKeeps DEF SearchIInv
  <1>2. UNCHANGED <<offset, feed, shown, client, search, result>> /\ now' = now + 1
    BY DEF Publish, Tick, searchVars
  <1>3. now \in Nat /\ offset \in Int /\ FeedTypeOK /\ listed \in Listings
    BY Clocks DEF SearchIInv, FInv, FeedTypeOK
  <1>4. SUFFICES ASSUME search # None PROVE SearchInv'
    <2>1. result = "due" => Gapped
      BY DEF SearchIInv, SearchInv
    <2>2. CASE search = None
      <3>1. search' = None /\ (result' # "due" \/ Gapped')
        BY <1>2, <2>1, <2>2 DEF Gapped
      <3>2. SearchInv'
        BY <3>1, Quiet
      <3> QED BY <1>1, <3>2
    <2> QED BY <1>1, <2>2
  <1>5. search.got \in Listings /\ search.before \in Listings /\ search.start \in Nat /\ search.query \subseteq Topics
    <2>1. search.query \subseteq Topics
      BY <1>4, Zenon, SearchTyped, SearchAssumption DEF SearchIInv
    <2> QED BY <1>4, <2>1, SearchTyped DEF SearchIInv
  <1>6. (Past(search.got, now) /\ Past(search.before, now))'
    <2>1. Past(search.got, now + 1) /\ Past(search.before, now + 1)
      BY <1>3, <1>4, <1>5, PastLater DEF SearchIInv, SearchInv
    <2> QED BY <1>2, <2>1 DEF Past
  <1>7. CASE Tick
    <2>1. listed' = listed
      BY <1>7 DEF Tick
    <2>2. (~search.shrunk => \A t \in search.query :
              Kept(t) => search.got[t] # None \/ Position(search.query, t) >= search.start)'
      BY <1>2, <1>4, <2>1 DEF SearchIInv, SearchInv, Kept, Position, After, Entries
    <2> QED BY <1>2, <1>4, <1>6, <2>1, <2>2 DEF SearchIInv, SearchInv, Gapped
  <1>8. ASSUME NEW u \in Topics, Publish(u) PROVE SearchInv'
    <2>1. \A t \in Topics : listed'[t] = IF t = u THEN now + offset ELSE listed[t]
      BY <1>3, <1>8, Published
    <2>2. ASSUME ~search.shrunk, NEW t \in Topics, search.before[t] # None
          PROVE  /\ listed'[t] # None /\ listed'[t] >= search.before[t]
                 /\ t = u => listed'[t] # search.before[t]
                 /\ search.got[t] # None => search.got[t] >= search.before[t]
      <3>1. search.before[t] \in Int /\ search.before[t] - offset < now
        BY <1>4, <1>5, <2>2, StampRange DEF SearchIInv, SearchInv, Past
      <3>2. now + offset # None /\ now + offset > search.before[t]
        BY <1>3, <3>1, NeverNone
      <3>3. listed[t] # None /\ listed[t] >= search.before[t] /\ (search.got[t] # None => search.got[t] >= search.before[t])
        BY <1>4, <2>2 DEF SearchIInv, SearchInv
      <3> QED BY <1>3, <2>1, <3>1, <3>2, <3>3
    <2>3. ASSUME ~search.shrunk, NEW t \in search.query,
                 search.before[t] # None, search.before[t] >= feed.gap, listed'[t] = search.before[t]
          PROVE  search.got[t] # None \/ Position(search.query, t)' >= search.start
      <3>1. t \in Topics /\ t # u /\ listed[t] = search.before[t] /\ t \in Entries(listed)
        BY <1>5, <2>1, <2>2, <2>3 DEF Entries
      <3>2. search.got[t] # None \/ Position(search.query, t) >= search.start
        BY <1>4, <2>3, <3>1 DEF SearchIInv, SearchInv, Kept
      <3>3. Position(search.query, t) \in Nat
        BY PositionNat
      <3>4. PICK q : q = search.query
        OBVIOUS
      <3>5. Position(q, t) <= Position(q, t)'
        BY <1>8, <3>1, PublishMovesDown DEF SearchIInv
      <3>6. Position(q, t)' \in Nat
        <4>1. After(listed', t) \cap q \subseteq Topics
          BY DEF After, Entries
        <4>2. IsFiniteSet(After(listed', t) \cap q)
          BY <4>1, FeedAssumption, FS_Subset
        <4> QED BY <4>2, FS_CardinalityType DEF Position
      <3>7. Position(q, t)' = Position(search.query, t)'
        BY <1>2, <3>4 DEF Position
      <3> QED BY <1>5, <3>2, <3>3, <3>4, <3>5, <3>6, <3>7
    <2>4. (~search.shrunk => \A t \in search.query :
              Kept(t) => search.got[t] # None \/ Position(search.query, t) >= search.start)'
      BY <1>2, <2>3 DEF Kept, Position
    <2>5. (~search.shrunk => \A t \in Topics : search.before[t] # None =>
             /\ listed[t] # None /\ listed[t] >= search.before[t]
             /\ search.got[t] # None => search.got[t] >= search.before[t])'
      BY <1>2, <2>2
    <2> QED BY <1>2, <1>4, <1>6, <2>4, <2>5 DEF SearchIInv, SearchInv, Gapped
  <1> QED BY <1>7, <1>8

LEMMA RemoveKeeps ==
  ASSUME SearchIInv, NEW t \in Topics, Remove(t)
  PROVE  FInv' /\ SearchInv' /\ search' \in Searches
  <1>1. /\ search # None /\ listed' = [listed EXCEPT ![t] = None] /\ search' = [search EXCEPT !.shrunk = TRUE]
        /\ UNCHANGED <<now, offset, cache, feed, buffer, shown, skipped, client, result>>
    BY DEF Remove
  <1>2. FInv'
    BY <1>1, RemovedKeeps DEF SearchIInv
  <1>3. search \in Searches
    BY <1>1, SearchTyped DEF SearchIInv
  <1>4. /\ search' \in Searches /\ search'.at = search.at /\ search'.read = search.read
        /\ search'.got = search.got /\ search'.before = search.before /\ search'.shrunk = TRUE
        /\ search'.mirror = search.mirror
    BY <1>1, <1>3 DEF Searches
  <1>5. SearchInv'
    BY <1>1, <1>4 DEF SearchIInv, SearchInv, Gapped, Past
  <1> QED BY <1>2, <1>4, <1>5

LEMMA RecoverKeeps ==
  ASSUME SearchIInv, NEW q \in Queries, Recover(q)
  PROVE  /\ FInv' /\ SearchInv' /\ search' \in Searches \cup {None} /\ result' \in {"final", None}
         /\ search = None
  <1>1. result = "due" /\ Gapped /\ search = None /\ UNCHANGED <<feedVars, client>>
    BY ResultNone DEF Recover, SearchIInv, SearchInv
  <1>2. FInv' /\ Gapped'
    BY <1>1, FeedStays DEF SearchIInv, Gapped, feedVars
  <1>3. CASE account.login = None
    <2>1. search' = None /\ result' = "final"
      BY <1>1, <1>3 DEF Recover
    <2> QED BY <1>1, <1>2, <2>1, Quiet
  <1>4. CASE account.login # None
    <2>1. search' = Call(q) /\ result' = None
      BY <1>4 DEF Recover
    <2>2. /\ search'.at \in {"existing", "clearance"} /\ search'.query = q /\ search'.login = account.login
          /\ search'.mirror = account.mirror /\ search'.read = 0 /\ search'.start = 0 /\ search'.got = Nothing
          /\ search'.before = listed /\ search'.shrunk = FALSE
      BY <2>1 DEF Call
    <2>3. account.login \in {"right", "wrong"} /\ account.mirror \in Mirrors
      BY <1>4 DEF SearchIInv, SearchTypeOK, Accounts
    <2>4. Nothing \in Listings /\ listed \in Listings /\ (\A t \in Topics : Nothing[t] = None)
      BY DEF Nothing, Listings, SearchIInv, SearchTypeOK, FeedTypeOK
    <2>5. MaxRecoveryPages \in Nat \ {0}
      BY Zenon, SearchAssumption
    <2>6. PICK at \in {"existing", "clearance"} :
            search' = [at |-> at, query |-> q, login |-> account.login, mirror |-> account.mirror,
                       read |-> 0, start |-> 0, got |-> Nothing, before |-> listed, shrunk |-> FALSE]
      BY <2>1 DEF Call
    <2>7. search' \in Searches
      BY <2>3, <2>4, <2>5, <2>6 DEF Searches
    <2>8. UNCHANGED <<now, offset, listed, feed, shown>>
      BY <1>1 DEF feedVars, world
    <2>9. (Past(search.got, now) /\ Past(search.before, now))'
      BY <2>2, <2>4, <2>8 DEF SearchIInv, FInv, ListedInv, Past
    <2>10. (\A t \in Topics : search.got[t] # None /\ shown[t] # None => search.got[t] >= shown[t])'
      BY <2>2, <2>4
    <2>11. (~search.shrunk => \A t \in Topics : search.before[t] # None =>
              /\ listed[t] # None /\ listed[t] >= search.before[t]
              /\ search.got[t] # None => search.got[t] >= search.before[t])'
      <3>1. \A t \in Topics : listed[t] # None => listed[t] >= listed[t]
        BY <2>4, StampRange
      <3> QED BY <2>2, <2>4, <2>8, <3>1
    <2>12. (~search.shrunk => \A t \in search.query :
              Kept(t) => search.got[t] # None \/ Position(search.query, t) >= search.start)'
      <3>1. ASSUME NEW t PROVE Position(q, t) >= 0
        <4>1. Position(q, t) \in Nat
          BY PositionNat
        <4> QED BY <4>1
      <3>2. \A t : Position(search.query, t)' = Position(q, t)
        BY <2>2, <2>8 DEF Position, After, Entries
      <3>3. \A t : Position(search.query, t)' >= search'.start
        BY <2>2, <3>1, <3>2
      <3> QED BY <3>3
    <2>13. SearchInv'
      BY <1>2, <2>1, <2>2, <2>5, <2>9, <2>10, <2>11, <2>12 DEF SearchInv
    <2> QED BY <1>1, <1>2, <2>1, <2>7, <2>13
  <1> QED BY <1>3, <1>4

\* The requests of a search, each with its answers.
LEMMA SearchSteps ==
  ASSUME SearchIInv, Search
  PROVE  /\ FInv' /\ SearchInv' /\ CompleteStep /\ FinalStep
         /\ search' \in Searches \cup {None}
         /\ result' \in {"complete", "final", "retry", None}
         /\ client' \in Clients /\ alive' \in BOOLEAN /\ UNCHANGED <<account, changes>>
  <1>1. search # None /\ result = None
    BY DEF Search, ExistingAnswers, ClearanceComes, LoggedIn, LoginRefused, ResultsAnswer, LimitReached, RequestFails, SearchIInv, SearchInv
  <1>2. /\ search \in Searches /\ search.login \in {"right", "wrong"} /\ search.mirror \in Mirrors
        /\ client \in Clients /\ alive \in BOOLEAN
        /\ search.at = "results" => client.jar = search.mirror
    BY <1>1, SearchTyped DEF SearchIInv, SearchTypeOK, Searches, SearchInv
  <1>3. /\ Captured \in Clients /\ Captured.jar = search.mirror
        /\ [Captured EXCEPT !.authenticated = TRUE] \in Clients
        /\ [Captured EXCEPT !.authenticated = TRUE].jar = search.mirror
        /\ Seeded \in Clients /\ [client EXCEPT !.authenticated = FALSE] \in Clients
    BY <1>2 DEF Captured, Seeded, Clients
  <1>4. UNCHANGED <<account, changes>>
    BY DEF Search, ExistingAnswers, ClearanceComes, LoggedIn, LoginRefused, ResultsAnswer, LimitReached, RequestFails
  <1>5. ASSUME search' = None, UNCHANGED feedVars, result' # "due" PROVE FInv' /\ SearchInv'
    BY <1>5, FeedStays, Quiet DEF SearchIInv
  <1>6. ASSUME search' # None \/ result' \notin {"complete", "final"} PROVE CompleteStep /\ FinalStep
    BY <1>6 DEF CompleteStep, FinalStep, Ends
  <1>7. ASSUME NEW at \in Requests, search.at # "beyond",
               search' = [search EXCEPT !.at = at], UNCHANGED <<feedVars, result>>, at = "results" => client'.jar = search.mirror
        PROVE  /\ FInv' /\ SearchInv' /\ CompleteStep /\ FinalStep
               /\ search' \in Searches \cup {None} /\ result' \in {"complete", "final", "retry", None}
    BY <1>1, <1>6, <1>7, SearchMoves, ResultNone
  <1>8. CASE ExistingAnswers
    <2>0. search.at # "beyond" /\ UNCHANGED alive
      BY <1>8 DEF ExistingAnswers
    <2>1. CASE SignedIn /\ ReadPage /\ UNCHANGED client
      BY <1>1, <1>2, <1>4, <2>0, <2>1, ReadPageKeeps DEF SignedIn
    <2>2. CASE SignInAnew /\ UNCHANGED feedVars
      BY <1>2, <1>3, <1>4, <1>7, <2>0, <2>2 DEF SignInAnew, Requests
    <2> QED BY <1>8, <2>1, <2>2 DEF ExistingAnswers
  <1>9. CASE ClearanceComes
    BY <1>2, <1>3, <1>4, <1>7, <1>9 DEF ClearanceComes, Requests
  <1>10. CASE LoggedIn
    <2>1. client'.jar = search.mirror /\ client' \in Clients /\ alive' \in BOOLEAN /\ search.at # "beyond"
      BY <1>3, <1>10 DEF LoggedIn
    <2>2. CASE ReadPage
      BY <1>1, <1>4, <2>1, <2>2, ReadPageKeeps
    <2>3. CASE search' = [search EXCEPT !.at = "results"] /\ UNCHANGED <<feedVars, result>>
      BY <1>4, <1>7, <2>1, <2>3 DEF Requests
    <2> QED BY <1>10, <2>2, <2>3 DEF LoggedIn
  <1>11. CASE LoginRefused
    <2>1. /\ search.login = "wrong" /\ search' = None /\ result' = "final"
          /\ UNCHANGED <<feedVars, client, alive>>
      BY <1>11 DEF LoginRefused, End
    <2>2. CompleteStep /\ FinalStep
      BY <2>1 DEF CompleteStep, FinalStep, Ends
    <2> QED BY <1>2, <1>4, <1>5, <2>1, <2>2
  <1>12. CASE ResultsAnswer
    <2>1. search.at = "results" /\ UNCHANGED <<client, alive>>
      BY <1>12 DEF ResultsAnswer
    <2>2. CASE SignedIn
      BY <1>1, <1>2, <1>4, <1>12, <2>1, <2>2, ReadPageKeeps DEF ResultsAnswer
    <2>3. CASE ~SignedIn
      <3>1. search' = None /\ result' = "final" /\ UNCHANGED feedVars
        BY <1>12, <2>3 DEF ResultsAnswer, End
      <3>2. ~alive
        BY <1>2, <2>1, <2>3 DEF SignedIn
      <3>3. CompleteStep /\ FinalStep
        BY <2>1, <3>1, <3>2 DEF CompleteStep, FinalStep, Ends
      <3> QED BY <1>2, <1>4, <1>5, <2>1, <3>1, <3>3
    <2> QED BY <2>2, <2>3
  <1>13. CASE RequestFails
    <2>1. search' = None /\ result' = "retry" /\ UNCHANGED feedVars
      BY <1>13 DEF RequestFails, End
    <2>2. client' \in Clients /\ alive' \in BOOLEAN
      BY <1>2, <1>3, <1>13 DEF RequestFails
    <2> QED BY <1>4, <1>5, <1>6, <2>1, <2>2
  <1>14. CASE LimitReached
    <2>1. /\ search.at = "beyond" /\ CatchUp(search.got) /\ search' = None /\ result' = "final"
          /\ UNCHANGED <<client, alive>>
      BY <1>14 DEF LimitReached, End
    <2>2. /\ FInv /\ Gapped /\ search.got \in Listings /\ Past(search.got, now)
          /\ \A t \in Topics : search.got[t] # None /\ shown[t] # None => search.got[t] >= shown[t]
          /\ search.read = MaxRecoveryPages
      BY <1>1, <2>1, SearchTyped DEF SearchIInv, SearchInv
    <2>3. FInv'
      BY <2>1, <2>2, CatchUpKeeps DEF Gapped
    <2>4. SearchInv'
      BY <2>1, Quiet
    <2>5. CompleteStep /\ FinalStep
      BY <2>1, <2>2 DEF CompleteStep, FinalStep, Ends
    <2> QED BY <1>2, <1>4, <2>1, <2>3, <2>4, <2>5
  <1> QED BY <1>8, <1>9, <1>10, <1>11, <1>12, <1>13, <1>14 DEF Search

(***************************************************************************)
(* The invariant holds.                                                    *)
(***************************************************************************)

LEMMA SearchInitHolds == ASSUME SearchInit PROVE SearchIInv
  <1>1. FInv
    BY FeedBegins DEF SearchInit
  <1>2. client \in Clients
    BY DEF SearchInit, NewClient, Clients
  <1>3. MaxChanges \in Nat
    BY Zenon, SearchAssumption
  <1>4. account \in Accounts /\ alive \in BOOLEAN /\ search = None /\ result = None /\ changes = 0
    BY DEF SearchInit
  <1>5. changes \in 0..MaxChanges
    BY <1>3, <1>4
  <1>6. SearchTypeOK
    BY <1>1, <1>2, <1>4, <1>5 DEF FInv, SearchTypeOK
  <1>7. SearchInv
    BY <1>4, ResultNone DEF SearchInv
  <1> QED BY <1>1, <1>6, <1>7 DEF SearchIInv

\* What is left of TypeOK once the feed and the search are known to be typed.
LEMMA SearchStateTyped ==
  ASSUME FInv', search' \in Searches \cup {None}, result' \in {"due", "complete", "final", "retry", None},
         account' \in Accounts, client' \in Clients, alive' \in BOOLEAN, changes' \in 0..MaxChanges
  PROVE  SearchTypeOK'
  BY DEF SearchTypeOK, FInv

LEMMA Changed ==
  ASSUME SearchTypeOK, Change
  PROVE  changes' \in 0..MaxChanges
  <1>1. MaxChanges \in Nat
    BY Zenon, SearchAssumption
  <1> QED BY <1>1 DEF SearchTypeOK, Change

\* A step that is not the end of a search.
LEMMA NoEnd ==
  ASSUME \/ search = None
         \/ search' # None
         \/ result' \notin {"complete", "final"}
  PROVE  CompleteStep /\ FinalStep
  BY DEF CompleteStep, FinalStep, Ends

LEMMA SearchNextKeeps ==
  ASSUME SearchIInv, [SearchNext]_trackerVars
  PROVE  SearchIInv' /\ CompleteStep /\ FinalStep
  <1>1. /\ SearchTypeOK /\ FInv /\ SearchInv
        /\ account \in Accounts /\ client \in Clients /\ alive \in BOOLEAN
        /\ search \in Searches \cup {None} /\ result \in {"due", "complete", "final", "retry", None}
        /\ changes \in 0..MaxChanges
    BY DEF SearchIInv, SearchTypeOK
  <1>2. search # None => result = None
    BY DEF SearchIInv, SearchInv
  <1>3. SUFFICES /\ FInv' /\ SearchInv' /\ CompleteStep /\ FinalStep
                 /\ search' \in Searches \cup {None}
                 /\ result' \in {"due", "complete", "final", "retry", None}
                 /\ account' \in Accounts /\ client' \in Clients /\ alive' \in BOOLEAN
                 /\ changes' \in 0..MaxChanges
    BY SearchStateTyped DEF SearchIInv
  <1>4. CASE World
    <2>1. UNCHANGED <<account, client, alive, search, result, changes>>
      BY <1>4 DEF World, searchVars
    <2>2. FInv' /\ SearchInv'
      BY <1>4, TimePasses DEF World
    <2> QED BY <1>1, <1>2, <2>1, <2>2, NoEnd, ResultNone
  <1>5. CASE SessionEnds
    <2>1. /\ UNCHANGED <<feedVars, account, client, search, result>> /\ alive' = FALSE
          /\ changes' \in 0..MaxChanges
      BY <1>1, <1>5, Changed DEF SessionEnds
    <2> QED BY <1>1, <1>2, <2>1, NoEnd, ResultNone, SearchStays
  <1>6. ASSUME NEW new \in Accounts, SetAccount(new)
        PROVE  /\ FInv' /\ SearchInv' /\ CompleteStep /\ FinalStep
               /\ search' \in Searches \cup {None}
               /\ result' \in {"due", "complete", "final", "retry", None}
               /\ account' \in Accounts /\ client' \in Clients /\ alive' \in BOOLEAN
               /\ changes' \in 0..MaxChanges
    <2>1. /\ UNCHANGED <<feedVars, client, alive, search, result>> /\ account' = new
          /\ changes' \in 0..MaxChanges
      BY <1>1, <1>6, Changed DEF SetAccount
    <2> QED BY <1>1, <1>2, <2>1, NoEnd, ResultNone, SearchStays
  <1>7. ASSUME NEW t \in Topics, Remove(t)
        PROVE  /\ FInv' /\ SearchInv' /\ CompleteStep /\ FinalStep
               /\ search' \in Searches \cup {None}
               /\ result' \in {"due", "complete", "final", "retry", None}
               /\ account' \in Accounts /\ client' \in Clients /\ alive' \in BOOLEAN
               /\ changes' \in 0..MaxChanges
    <2>1. search # None /\ UNCHANGED <<account, client, alive, result>> /\ changes' \in 0..MaxChanges
      BY <1>1, <1>7, Changed DEF Remove
    <2>2. FInv' /\ SearchInv' /\ search' \in Searches
      BY <1>7, RemoveKeeps
    <2> QED BY <1>1, <1>2, <2>1, <2>2, NoEnd, ResultNone
  <1>8. CASE LaneReads /\ result # "due"
    <2>1. search = None /\ UNCHANGED <<account, client, alive, search, result, changes>> /\ ReadFeed
      BY <1>8 DEF LaneReads, searchVars
    <2>2. FInv'
      BY <1>1, <2>1, ReadFeedKeeps
    <2>3. SearchInv'
      BY <1>8, <2>1, Quiet
    <2> QED BY <1>1, <2>1, <2>2, <2>3, NoEnd
  <1>9. CASE LaneIngests
    <2>1. /\ search = None /\ search' = None /\ UNCHANGED <<account, client, alive, changes>> /\ Ingest
          /\ result' = IF feed'.gap # None THEN "due" ELSE None
      BY <1>9 DEF LaneIngests
    <2>2. FInv' /\ (feed'.gap # None => Gapped')
      BY <1>1, <2>1, IngestKeeps
    <2>3. SearchInv'
      BY <2>1, <2>2, Quiet, ResultNone
    <2> QED BY <1>1, <2>1, <2>2, <2>3, NoEnd
  <1>10. CASE LaneEnds
    <2>1. /\ result \in {"complete", "final"} /\ CloseGap /\ result' = None
          /\ UNCHANGED <<account, client, alive, search, changes>>
      BY <1>10 DEF LaneEnds
    <2>2. search = None /\ search' = None
      BY <1>2, <2>1, ResultNone
    <2>3. FInv'
      BY <1>1, <2>1, CloseGapKeeps
    <2>4. SearchInv'
      BY <2>1, <2>2, Quiet, ResultNone
    <2> QED BY <1>1, <2>1, <2>2, <2>3, <2>4, NoEnd
  <1>11. CASE Search
    BY <1>1, <1>11, SearchSteps
  <1>12. CASE Skip
    <2>1. /\ result = "due" /\ result' = "complete"
          /\ UNCHANGED <<feedVars, account, client, alive, search, changes>>
      BY <1>12 DEF Skip
    <2>2. search = None /\ search' = None
      BY <1>2, <2>1, ResultNone
    <2>3. FInv' /\ SearchInv'
      BY <1>1, <2>1, <2>2, FeedStays, Quiet
    <2> QED BY <1>1, <2>1, <2>2, <2>3, NoEnd
  <1>13. ASSUME NEW q \in Queries, Recover(q)
        PROVE  /\ FInv' /\ SearchInv' /\ CompleteStep /\ FinalStep
               /\ search' \in Searches \cup {None}
               /\ result' \in {"due", "complete", "final", "retry", None}
               /\ account' \in Accounts /\ client' \in Clients /\ alive' \in BOOLEAN
               /\ changes' \in 0..MaxChanges
    <2>1. UNCHANGED <<account, client, alive, changes>>
      BY <1>13 DEF Recover
    <2> QED BY <1>1, <1>13, <2>1, RecoverKeeps, NoEnd
  <1>14. CASE Restart
    <2>1. /\ cache' = None /\ client' = NewClient /\ alive' = FALSE /\ search' = None /\ result' = None
          /\ UNCHANGED <<world, feed, buffer, shown, skipped>> /\ UNCHANGED <<account, changes>>
      BY <1>14 DEF Restart
    <2>2. NewClient \in Clients
      BY DEF NewClient, Clients
    <2>3. FInv'
      BY <1>1, <2>1, PageLostKeeps
    <2>4. SearchInv'
      BY <2>1, Quiet, ResultNone
    <2> QED BY <1>1, <2>1, <2>2, <2>3, <2>4, NoEnd, ResultNone
  <1>15. CASE UNCHANGED trackerVars
    <2>1. UNCHANGED <<feedVars, account, client, alive, search, result, changes>>
      BY <1>15 DEF trackerVars, searchVars
    <2> QED BY <1>1, <1>2, <2>1, NoEnd, ResultNone, SearchStays
  <1>16. CASE result # "due" /\ Meanwhile
    BY <1>4, <1>5, <1>6, <1>7, <1>8, <1>9, <1>10, <1>11, <1>16 DEF Meanwhile
  <1> QED BY <1>12, <1>13, <1>14, <1>15, <1>16 DEF SearchNext

(***************************************************************************)
(* The inductive invariant: the type of the state, the order in which      *)
(* listings reach the feed, its pages and the row, and what a search has   *)
(* passed of what it looks for.                                            *)
(***************************************************************************)
THEOREM SearchInvariant == SearchSpec => []SearchIInv
  <1>1. SearchInit => SearchIInv
    BY SearchInitHolds
  <1>2. SearchIInv /\ [SearchNext]_trackerVars => SearchIInv'
    BY SearchNextKeeps
  <1> QED BY <1>1, <1>2, PTL DEF SearchSpec

(***************************************************************************)
(* Every variable of the feed, the account and the search has its type.    *)
(***************************************************************************)
THEOREM SearchTypeCorrect == SearchSpec => []SearchTypeOK
  <1>1. SearchIInv => SearchTypeOK
    BY DEF SearchIInv
  <1> QED BY <1>1, SearchInvariant, PTL

(***************************************************************************)
(* What continuous_since promises of the release buffer is true, whatever  *)
(* gaps were opened and closed, pages read twice and polls interrupted.    *)
(***************************************************************************)
THEOREM BufferFollows == SearchSpec => []BufferFollowsFeed
  <1>1. SearchIInv => BufferFollowsFeed
    BY DEF SearchIInv, FInv
  <1> QED BY <1>1, SearchInvariant, PTL

(***************************************************************************)
(* While the feed has skipped a listing that no search has found, the gap  *)
(* of the feed is open and begins early enough.                            *)
(***************************************************************************)
THEOREM GapCovers == SearchSpec => []SkippedIsGap
  <1>1. SearchIInv => SkippedIsGap
    BY DEF SearchIInv, FInv
  <1> QED BY <1>1, SearchInvariant, PTL

LEMMA SkipIsSafe ==
  ASSUME FInv
  PROVE  SkippedPageUnchanged
  <1> SUFFICES ASSUME feed # None, NEW t \in Topics, NEW verified \in 0..now, NEW agree \in BOOLEAN,
                      FeedShowsNoChange(verified, feed.since, buffer[t], agree), shown[t] # None
               PROVE  shown[t] - offset < verified
    BY DEF SkippedPageUnchanged
  <1>1. FeedTypeOK /\ BufferFollowsFeed /\ shown \in Listings
    BY DEF FInv, FeedTypeOK
  <1>2. /\ now \in Nat /\ offset \in Int /\ 1 - ClockSkew <= offset /\ offset <= ClockSkew - 1
        /\ ClockSkew \in Nat /\ Retention \in Nat
    BY <1>1, Clocks
  <1>3. MaxAge \in Nat /\ MaxAge <= Retention
    BY AssistAssumption
  <1>4. shown[t] \in Int
    BY <1>1, StampRange
  <1>5. /\ now - verified < MaxAge /\ feed.since # None /\ feed.since <= verified - ClockSkew
        /\ buffer[t] = None \/ buffer[t].at <= verified - ClockSkew
    BY DEF FeedShowsNoChange
  <1>6. feed.at \in Nat /\ feed.at <= now /\ feed.since \in Int
    BY <1>5, RowFacts
  <1>7. verified \in Int
    BY <1>2
  <1>8. SUFFICES ASSUME shown[t] - offset >= verified PROVE FALSE
    BY <1>2, <1>4, <1>7
  <1>9. shown[t] >= feed.since
    BY <1>2, <1>4, <1>5, <1>6, <1>7, <1>8
  <1>10. ~(shown[t] - offset < feed.at - Retention)
    BY <1>2, <1>3, <1>4, <1>5, <1>6, <1>7, <1>8
  <1>11. Holds(buffer, t, shown[t])
    BY <1>1, <1>5, <1>9, <1>10 DEF BufferFollowsFeed, Entries
  <1>12. buffer[t] \in BufferRows /\ buffer[t].at >= shown[t]
    BY <1>1, <1>11 DEF Holds, FeedTypeOK
  <1>13. buffer[t].at \in Int
    BY <1>12, <1>2, FeedAssumption DEF BufferRows, Stamps
  <1>14. buffer[t] # None
    BY <1>11 DEF Holds
  <1> QED BY <1>2, <1>4, <1>5, <1>7, <1>8, <1>12, <1>13, <1>14

(***************************************************************************)
(* The feed stands in for a page only while the topic is as it was loaded, *)
(* for any two clocks that differ by less than the tolerance.              *)
(***************************************************************************)
THEOREM SkipsAreSafe == SearchSpec => []SkippedPageUnchanged
  <1>1. SearchIInv => SkippedPageUnchanged
    BY SkipIsSafe DEF SearchIInv
  <1> QED BY <1>1, SearchInvariant, PTL

(***************************************************************************)
(* A search that counts as complete has buffered every release of its      *)
(* phrases since the gap that was listed when it began and still is,       *)
(* whatever is listed while its pages are read.                            *)
(***************************************************************************)
THEOREM CompleteHasAll == SearchSpec => SearchIsComplete
  <1>1. SearchIInv /\ [SearchNext]_trackerVars =>
          [Ends("complete") =>
             \A t \in search.query :
               /\ search.before[t] # None /\ search.before[t] >= feed.gap
               /\ listed[t] = search.before[t] /\ ~search.shrunk
               => Holds(buffer', t, search.before[t])]_trackerVars
    BY SearchNextKeeps DEF CompleteStep, Kept
  <1> QED BY <1>1, SearchInvariant, PTL DEF SearchSpec, SearchIsComplete

(***************************************************************************)
(* A search is given up for good only after a refused password, at the     *)
(* limit of pages, or when its session ended between two pages.            *)
(***************************************************************************)
THEOREM FinalIsFinal == SearchSpec => FinalMeansFinal
  <1>1. SearchIInv /\ [SearchNext]_trackerVars =>
          [Ends("final") =>
             \/ search.login = "wrong"
             \/ search.read = MaxRecoveryPages
             \/ search.at = "results" /\ ~alive]_trackerVars
    BY SearchNextKeeps DEF FinalStep
  <1> QED BY <1>1, SearchInvariant, PTL DEF SearchSpec, FinalMeansFinal
-----------------------------------------------------------------------------
(***************************************************************************)
(* The poll of the rules: what its steps may rely on.                      *)
(***************************************************************************)

PollShape ==
  poll # None =>
    /\ poll.at \in {"feed", "direct"} => poll.group = None /\ \A r \in Held : poll.held[r].terms \in poll.left
    /\ poll.at \in {"search", "row", "enrich"} => poll.group # None
    /\ poll.group = None => poll.rows = {}
    /\ poll.group \notin poll.left
    /\ poll.group # None /\ poll.at \in {"run", "search"} => poll.rows = GroupRows
    /\ poll.rows \subseteq GroupRows
    /\ poll.at \in {"feed", "direct", "run", "search"} => poll.row = None
    /\ poll.row # None => poll.row \in poll.rows /\ ~poll.held[poll.row].baseline
    /\ poll.at = "enrich" => poll.row # None
    /\ poll.at # "enrich" => poll.todo = {}
    /\ poll.todo \subseteq poll.group

\* The page was read before it was stored, a group starts after that, and what
\* was skipped had been listed before the last gap was seen.
PollTimes ==
  /\ feed # None => Past(shown, feed.at)
  /\ poll # None /\ poll.at # "feed" => feed # None
  /\ poll # None /\ poll.group # None => feed.at <= poll.start /\ poll.start <= now
  /\ \A t \in skipped : feed.lastGap # None /\ shown[t] - offset < feed.lastGap

RowTimed(r) ==
  /\ owes[r] <= now
  /\ rule[r] # None /\ rule[r].recovered # None => rule[r].recovered <= now /\ feed # None

\* The rule had its baseline, under the terms it has.
Settled(r) == rule[r] # None /\ rule[r].init /\ ~raced[r]

\* Where the gap begins that is open, or the next one would.
Begins == IF feed.gap # None THEN feed.gap ELSE feed.at

(***************************************************************************)
(* gap_recovered_at: all that was listed from the gap's beginning until    *)
(* then has been in the buffer since, but for what is beyond the retention.*)
(***************************************************************************)
RowFound(r) ==
  Settled(r) /\ rule[r].recovered # None =>
    \A t \in rule[r].terms :
      /\ listed[t] # None /\ listed[t] >= Begins
      /\ listed[t] - offset >= owes[r] /\ listed[t] - offset < rule[r].recovered
      => \/ buffer[t] # None /\ buffer[t].seen >= rule[r].recovered
         \/ rule[r].recovered < feed.at - Retention

(***************************************************************************)
(* What was there at first is recorded with the baseline, and nothing is   *)
(* told before it.                                                         *)
(***************************************************************************)
RowSilent(r) ==
  rule[r] # None /\ ~raced[r] =>
    IF rule[r].init THEN before[r] \subseteq matches[r] /\ told[r] \cap before[r] = {}
    ELSE before[r] \subseteq Buffered \cap rule[r].terms /\ told[r] = {}

\* A settled rule that the poll has still to evaluate is the one it selected.
RowSame(r) ==
  poll # None /\ r \in Held /\ Settled(r) /\ (poll.held[r].terms \in poll.left \/ r \in poll.rows) =>
    /\ rule[r].terms = poll.held[r].terms /\ ~poll.held[r].baseline
    /\ poll.held[r].terms \in poll.left => rule[r].recovered = poll.held[r].recovered

(***************************************************************************)
(* While a gap is open, what a rule misses of it is known: it waits in the *)
(* buffer for the row's turn, in todo during it, and afterwards it is      *)
(* recorded, or the search has failed and the rule gets the error.         *)
(***************************************************************************)
Lost(r) == {t \in Missed(r) : shown[t] >= feed.gap}

RowCovered(r) ==
  poll # None /\ poll.at # "feed" /\ Gap /\ ~poll.retries /\ r \in Held /\ Watches(r) =>
    /\ r \in poll.rows /\ poll.at # "search" =>
         poll.failed \/ Lost(r) \subseteq (IF r = poll.row THEN poll.todo ELSE Buffered)
    /\ r \notin poll.rows /\ poll.held[r].terms \notin poll.left =>
         Lost(r) = {} \/ rule[r].error \/ (poll.group = poll.held[r].terms /\ poll.failed)

RowInv(r) == RowTimed(r) /\ RowFound(r) /\ RowSilent(r) /\ RowSame(r) /\ RowCovered(r)

RuleIInv == TypeOK /\ FInv /\ PollShape /\ PollTimes /\ \A r \in Rules : RowInv(r)

(***************************************************************************)
(* Rows of the database and of the poll.                                   *)
(***************************************************************************)

LEMMA NoNone ==
  /\ \A x \in Rules \cup Terms \cup RuleRows \cup HeldRows \cup Polls \cup Int : x # None
  /\ \A terms \in Terms : terms \subseteq Topics
  BY Zenon, RuleAssumption, FeedAssumption

LEMMA RuleFields ==
  ASSUME TypeOK, NEW r \in Rules, rule[r] # None
  PROVE  /\ rule[r] \in RuleRows /\ rule[r].terms \in Terms /\ rule[r].terms \subseteq Topics
         /\ rule[r].on \in BOOLEAN /\ rule[r].init \in BOOLEAN /\ rule[r].error \in BOOLEAN
         /\ rule[r].recovered \in 0..MaxTime \cup {None}
  <1>1. rule[r] \in RuleRows
    BY DEF TypeOK
  <1> QED BY <1>1, NoNone DEF RuleRows

LEMMA HeldFields ==
  ASSUME TypeOK, poll # None, NEW r \in Held
  PROVE  /\ r \in Rules /\ poll.held[r] \in HeldRows /\ poll.held[r].terms \in Terms
         /\ poll.held[r].terms # None /\ poll.held[r].terms \subseteq Topics
         /\ poll.held[r].baseline \in BOOLEAN /\ poll.held[r].recovered \in 0..MaxTime \cup {None}
  <1>1. poll \in Polls
    BY DEF TypeOK
  <1>2. poll.held[r] \in HeldRows /\ r \in Rules
    BY <1>1 DEF Polls, Held
  <1> QED BY <1>2, NoNone DEF HeldRows

LEMMA PollFields ==
  ASSUME TypeOK, poll # None
  PROVE  /\ poll \in Polls /\ poll.full \in BOOLEAN /\ poll.at \in {"feed", "direct", "run", "search", "row", "enrich"}
         /\ poll.held \in [Rules -> HeldRows \cup {None}] /\ poll.left \subseteq Terms
         /\ poll.group \in Terms \cup {None} /\ poll.rows \subseteq Rules
         /\ poll.row \in Rules \cup {None} /\ poll.todo \subseteq Topics
         /\ poll.start \in 0..MaxTime /\ poll.failed \in BOOLEAN /\ poll.retries \in BOOLEAN
         /\ Held \subseteq Rules /\ GroupRows \subseteq Held
  <1>1. poll \in Polls
    BY DEF TypeOK
  <1> QED BY <1>1 DEF Polls, Held, GroupRows

\* What a poll has left to do changes; what it has selected does not.
PollMoves ==
  /\ poll' # None /\ poll'.full = poll.full /\ poll'.held = poll.held
  /\ Held' = Held
  /\ GroupRows' = {r \in Held : poll.held[r].terms = poll'.group}

LEMMA PollMoved ==
  ASSUME poll' \in Polls, poll'.full = poll.full, poll'.held = poll.held
  PROVE  PollMoves
  <1>1. poll' # None
    BY NoNone
  <1>2. Held' = Held
    BY DEF Held
  <1> QED BY <1>1, <1>2 DEF PollMoves, GroupRows

\* Of a rule that is there, its row has the same terms and states; gap_recovered_at
\* and the error may be new.
RowLike(new, old) ==
  IF old = None THEN new = None
  ELSE new # None /\ new.terms = old.terms /\ new.on = old.on /\ new.init = old.init

LEMMA RecoveredRows ==
  ASSUME TypeOK, poll # None, NEW marked \in SUBSET {r \in Rules : rule[r] # None}
  PROVE  /\ Recovered(marked) \in [Rules -> RuleRows \cup {None}]
         /\ \A r \in Rules :
              /\ RowLike(Recovered(marked)[r], rule[r])
              /\ r \notin marked => Recovered(marked)[r] = rule[r]
              /\ rule[r] # None => Recovered(marked)[r].error = rule[r].error
              /\ r \in marked => Recovered(marked)[r].recovered = poll.start
  <1>1. poll.start \in 0..MaxTime
    BY PollFields
  <1>2. ASSUME NEW r \in Rules, rule[r] # None
        PROVE  /\ [rule[r] EXCEPT !.recovered = poll.start] \in RuleRows
               /\ [rule[r] EXCEPT !.recovered = poll.start] # None
               /\ RowLike([rule[r] EXCEPT !.recovered = poll.start], rule[r])
               /\ [rule[r] EXCEPT !.recovered = poll.start].error = rule[r].error
               /\ [rule[r] EXCEPT !.recovered = poll.start].recovered = poll.start
    <2>1. rule[r] \in RuleRows
      BY <1>2, RuleFields
    <2>2. [rule[r] EXCEPT !.recovered = poll.start] \in RuleRows
      BY <1>1, <2>1 DEF RuleRows
    <2>3. [rule[r] EXCEPT !.recovered = poll.start] # None
      BY <2>2, NoNone
    <2> QED BY <1>2, <2>1, <2>2, <2>3 DEF RowLike, RuleRows
  <1>3. \A r \in Rules : Recovered(marked)[r] =
          IF r \in marked THEN [rule[r] EXCEPT !.recovered = poll.start] ELSE rule[r]
    BY DEF Recovered
  <1>4. \A r \in Rules : r \in marked => rule[r] # None
    OBVIOUS
  <1>5. rule \in [Rules -> RuleRows \cup {None}]
    BY DEF TypeOK
  <1>6. Recovered(marked) \in [Rules -> RuleRows \cup {None}]
    BY <1>2, <1>3, <1>4, <1>5 DEF Recovered
  <1>7. \A r \in Rules : RowLike(rule[r], rule[r])
    BY DEF RowLike
  <1> QED BY <1>2, <1>3, <1>4, <1>6, <1>7

LEMMA ErrorStored ==
  ASSUME NEW rows \in SUBSET Rules, NEW state \in [Rules -> RuleRows \cup {None}],
         \A r \in Rules : state[r] = None <=> rule[r] = None,
         ErrorOn(rows, state)
  PROVE  /\ rule' \in [Rules -> RuleRows \cup {None}]
         /\ \A r \in Rules :
              /\ RowLike(rule'[r], state[r])
              /\ rule[r] # None => /\ rule'[r].recovered = state[r].recovered
                                   /\ state[r].error => rule'[r].error
         /\ (\A r \in rows : rule[r] # None) => \A r \in rows : rule'[r].error
  <1>1. PICK stored \in SUBSET {r \in rows : rule[r] # None} :
          /\ (\A r \in rows : rule[r] # None) => stored = rows
          /\ rule' = [r \in Rules |-> IF r \in stored THEN [state[r] EXCEPT !.error = TRUE] ELSE state[r]]
    BY DEF ErrorOn
  <1>2. ASSUME NEW r \in Rules, rule[r] # None
        PROVE  /\ [state[r] EXCEPT !.error = TRUE] \in RuleRows
               /\ [state[r] EXCEPT !.error = TRUE] # None
               /\ RowLike([state[r] EXCEPT !.error = TRUE], state[r])
               /\ [state[r] EXCEPT !.error = TRUE].error
               /\ [state[r] EXCEPT !.error = TRUE].recovered = state[r].recovered
    <2>1. state[r] \in RuleRows /\ state[r] # None
      BY <1>2
    <2>2. [state[r] EXCEPT !.error = TRUE] \in RuleRows
      BY <2>1 DEF RuleRows
    <2>3. [state[r] EXCEPT !.error = TRUE] # None
      BY <2>2, NoNone
    <2> QED BY <2>1, <2>2, <2>3 DEF RowLike, RuleRows
  <1>3. \A r \in Rules : rule'[r] = IF r \in stored THEN [state[r] EXCEPT !.error = TRUE] ELSE state[r]
    BY <1>1
  <1>4. \A r \in Rules : RowLike(state[r], state[r])
    BY DEF RowLike
  <1>5. rule' \in [Rules -> RuleRows \cup {None}]
    BY <1>1, <1>2
  <1>6. \A r \in Rules : r \in stored => rule[r] # None
    BY <1>1
  <1>7. ASSUME NEW r \in Rules
        PROVE  /\ RowLike(rule'[r], state[r])
               /\ rule[r] # None => /\ rule'[r].recovered = state[r].recovered
                                    /\ state[r].error => rule'[r].error
    BY <1>2, <1>3, <1>4, <1>6
  <1>8. (\A r \in rows : rule[r] # None) => \A r \in rows : rule'[r].error
    BY <1>1, <1>2, <1>3
  <1> QED BY <1>5, <1>7, <1>8, Zenon

(***************************************************************************)
(* What a step leaves alone.                                               *)
(***************************************************************************)

FeedUntouched == UNCHANGED <<now, offset, listed, feed, buffer, shown, skipped>>

RowUntouched(r) ==
  /\ RowLike(rule'[r], rule[r])
  /\ rule[r] # None => /\ rule'[r].recovered = rule[r].recovered
                       /\ rule[r].error => rule'[r].error
  /\ matches'[r] = matches[r] /\ told'[r] = told[r] /\ before'[r] = before[r]
  /\ raced'[r] = raced[r] /\ owes'[r] = owes[r]
  /\ r \in served' <=> r \in served

LEMMA FeedViews ==
  ASSUME FeedUntouched
  PROVE  /\ Gap' <=> Gap
         /\ Buffered' = Buffered /\ Begins' = Begins
  BY DEF FeedUntouched, Gap, Buffered, Begins

LEMMA FeedVarsUntouched == ASSUME UNCHANGED feedVars PROVE FeedUntouched /\ UNCHANGED cache
  BY DEF feedVars, world, FeedUntouched

LEMMA RowViews ==
  ASSUME NEW r \in Rules, FeedUntouched, RowUntouched(r)
  PROVE  /\ Settled(r)' <=> Settled(r)
         /\ Watches(r)' <=> Watches(r)
         /\ rule[r] # None => Lost(r)' = Lost(r) /\ rule'[r].terms = rule[r].terms
  <1>1. Settled(r)' <=> Settled(r)
    BY DEF RowUntouched, RowLike, Settled
  <1>2. Watches(r)' <=> Watches(r)
    BY DEF RowUntouched, RowLike, Watches
  <1>3. ASSUME rule[r] # None PROVE Lost(r)' = Lost(r)
    <2>1. rule'[r].terms = rule[r].terms /\ matches'[r] = matches[r] /\ owes'[r] = owes[r]
      BY <1>3 DEF RowUntouched, RowLike
    <2> QED BY <2>1 DEF FeedUntouched, Lost, Missed
  <1>4. rule[r] # None => rule'[r].terms = rule[r].terms
    BY DEF RowUntouched, RowLike
  <1> QED BY <1>1, <1>2, <1>3, <1>4

LEMMA RowStays ==
  ASSUME NEW r \in Rules, FeedUntouched, RowUntouched(r), RowTimed(r), RowFound(r), RowSilent(r)
  PROVE  RowTimed(r)' /\ RowFound(r)' /\ RowSilent(r)'
  <1>1. RowTimed(r)'
    BY DEF FeedUntouched, RowUntouched, RowLike, RowTimed
  <1>2. RowFound(r)'
    <2>1. SUFFICES ASSUME Settled(r)', rule'[r].recovered # None PROVE RowFound(r)'
      BY DEF RowFound
    <2>2. Settled(r) /\ rule[r] # None
      BY <2>1, RowViews DEF Settled
    <2>3. rule'[r].recovered = rule[r].recovered /\ rule'[r].terms = rule[r].terms /\ owes'[r] = owes[r]
      BY <2>2 DEF RowUntouched, RowLike
    <2>4. Begins' = Begins
      BY FeedViews
    <2> QED BY <2>1, <2>2, <2>3, <2>4 DEF RowFound, FeedUntouched
  <1>3. RowSilent(r)'
    <2>1. Buffered' = Buffered
      BY FeedViews
    <2> QED BY <2>1 DEF RowUntouched, RowLike, RowSilent
  <1> QED BY <1>1, <1>2, <1>3

LEMMA RowWaits ==
  ASSUME NEW r \in Rules, FeedUntouched, RowUntouched(r), poll' = poll, RowInv(r), TypeOK
  PROVE  RowInv(r)'
  <1>1. RowTimed(r)' /\ RowFound(r)' /\ RowSilent(r)'
    BY RowStays DEF RowInv
  <1>2. Held' = Held
    BY DEF Held
  <1>3. RowSame(r)'
    BY <1>2, RowViews DEF RowInv, RowSame, RowUntouched, RowLike, Settled
  <1>4. RowCovered(r)'
    <2>1. SUFFICES ASSUME Watches(r)' PROVE RowCovered(r)'
      BY DEF RowCovered
    <2>2. Watches(r) /\ rule[r] # None
      BY <2>1, RowViews DEF Watches
    <2>3. Lost(r)' = Lost(r) /\ (rule[r].error => rule'[r].error)
      BY <2>2, RowViews DEF RowUntouched
    <2>4. (Gap' <=> Gap) /\ Buffered' = Buffered
      BY FeedViews
    <2> QED BY <1>2, <2>2, <2>3, <2>4 DEF RowInv, RowCovered
  <1> QED BY <1>1, <1>3, <1>4 DEF RowInv

LEMMA PollEnds ==
  ASSUME poll' = None
  PROVE  PollShape' /\ \A r \in Rules : RowSame(r)' /\ RowCovered(r)'
  BY DEF PollShape, RowSame, RowCovered

\* A step of the poll that evaluates no row: which of the rows are still to come
\* stays, or the group of the row begins.
LEMMA SameStays ==
  ASSUME NEW r \in Rules, RowSame(r), poll # None, PollMoves, Settled(r)' => Settled(r),
         RowLike(rule'[r], rule[r]),
         poll'.left \subseteq poll.left,
         r \in poll'.rows => r \in poll.rows \/ (r \in Held => poll.held[r].terms \in poll.left),
         Settled(r) /\ r \in Held /\ poll.held[r].terms \in poll'.left => rule'[r].recovered = rule[r].recovered
  PROVE  RowSame(r)'
  <1>1. SUFFICES ASSUME r \in Held, Settled(r)', poll.held[r].terms \in poll'.left \/ r \in poll'.rows
                 PROVE  /\ rule'[r].terms = poll.held[r].terms /\ ~poll.held[r].baseline
                        /\ poll.held[r].terms \in poll'.left => rule'[r].recovered = poll.held[r].recovered
    BY DEF RowSame, PollMoves
  <1>2. Settled(r) /\ rule[r] # None /\ (poll.held[r].terms \in poll.left \/ r \in poll.rows)
    BY <1>1 DEF Settled
  <1>3. rule[r].terms = poll.held[r].terms /\ ~poll.held[r].baseline
    BY <1>1, <1>2 DEF RowSame
  <1>4. rule'[r].terms = rule[r].terms
    BY <1>2 DEF RowLike
  <1>5. ASSUME poll.held[r].terms \in poll'.left
        PROVE  rule'[r].recovered = poll.held[r].recovered
    BY <1>1, <1>2, <1>5 DEF RowSame
  <1> QED BY <1>3, <1>4, <1>5

LEMMA TypedStep ==
  ASSUME TypeOK, FInv',
         rule' \in [Rules -> RuleRows \cup {None}], poll' \in Polls \cup {None},
         \A r \in Rules : rule'[r] = None => rule[r] = None,
         UNCHANGED <<matches, told, before, raced, owes, served, edits>>
  PROVE  TypeOK'
  BY DEF TypeOK, FInv

LEMMA UntouchedHistory ==
  ASSUME UNCHANGED <<matches, told, before, raced, owes, served>>,
         NEW r \in Rules, RowLike(rule'[r], rule[r]),
         rule[r] # None => rule'[r].recovered = rule[r].recovered /\ (rule[r].error => rule'[r].error)
  PROVE  RowUntouched(r)
  BY DEF RowUntouched

LEMMA SameRule == \A r \in Rules : RowLike(rule[r], rule[r])
  BY DEF RowLike

(***************************************************************************)
(* The handlers, the tracker and the end of the process.                   *)
(***************************************************************************)

\* A rule with new terms is not settled before its next baseline.
LEMMA AnewKeeps ==
  ASSUME RuleIInv, NEW r \in Rules, NEW row \in RuleRows \cup {None}, Edit, Anew(r, row),
         UNCHANGED <<feedVars, served, poll>>,
         row # None => row.recovered = None \/ (rule[r] # None /\ row.recovered = rule[r].recovered)
  PROVE  RuleIInv'
  <1>1. /\ TypeOK /\ FInv /\ PollShape /\ PollTimes /\ (\A q \in Rules : RowInv(q))
        /\ FeedUntouched /\ now \in Nat
    BY FeedVarsUntouched, Clocks DEF RuleIInv, TypeOK
  <1>2. /\ rule' = [rule EXCEPT ![r] = row] /\ rule \in [Rules -> RuleRows \cup {None}]
        /\ matches' = [matches EXCEPT ![r] = {}] /\ matches \in [Rules -> SUBSET Topics]
        /\ told' = [told EXCEPT ![r] = {}] /\ told \in [Rules -> SUBSET Topics]
        /\ before' = [before EXCEPT ![r] = IF row = None THEN {} ELSE row.terms \cap Buffered]
        /\ before \in [Rules -> SUBSET Topics]
        /\ raced' = [raced EXCEPT ![r] = row # None /\ row.init] /\ raced \in [Rules -> BOOLEAN]
        /\ owes' = [owes EXCEPT ![r] = 0] /\ owes \in [Rules -> 0..MaxTime]
        /\ poll' = poll /\ served' = served
    BY <1>1 DEF Anew, TypeOK
  <1>3. FInv'
    BY <1>1, FeedStays
  <1>4. rule'[r] = row /\ matches'[r] = {} /\ told'[r] = {} /\ owes'[r] = 0
        /\ before'[r] = (IF row = None THEN {} ELSE row.terms \cap Buffered)
        /\ raced'[r] = (row # None /\ row.init)
    BY <1>2
  <1>5. row # None => row.init \in BOOLEAN /\ row.terms \in Terms
    BY DEF RuleRows
  <1>6. TypeOK'
    <2>1. before'[r] \in SUBSET Topics /\ raced'[r] \in BOOLEAN
      BY <1>4, <1>5 DEF Buffered
    <2>2. before' \in [Rules -> SUBSET Topics] /\ raced' \in [Rules -> BOOLEAN]
      BY <1>2, <1>4, <2>1
    <2>3. 0 \in 0..MaxTime
      BY <1>1, Clocks DEF TypeOK
    <2>4. owes' \in [Rules -> 0..MaxTime]
      BY <1>2, <2>3
    <2>5. edits' \in 0..MaxEdits
      BY <1>1, RuleAssumption DEF Edit, TypeOK
    <2>6. rule' \in [Rules -> RuleRows \cup {None}] /\ matches' \in [Rules -> SUBSET Topics]
          /\ told' \in [Rules -> SUBSET Topics]
      BY <1>2
    <2>7. \A q \in Rules : told'[q] \subseteq matches'[q] /\ (rule'[q] = None => matches'[q] = {})
      BY <1>1, <1>2 DEF TypeOK
    <2> QED BY <1>1, <1>2, <1>3, <2>2, <2>4, <2>5, <2>6, <2>7 DEF TypeOK, FInv
  <1>7. PollShape' /\ PollTimes'
    <2>1. Held' = Held /\ GroupRows' = GroupRows
      BY <1>2 DEF Held, GroupRows
    <2> QED BY <1>1, <1>2, <2>1 DEF PollShape, PollTimes, FeedUntouched, Past
  <1>8. ASSUME NEW q \in Rules \ {r} PROVE RowInv(q)'
    <2>1. RowUntouched(q)
      BY <1>2 DEF RowUntouched, RowLike
    <2> QED BY <1>1, <1>2, <2>1, RowWaits
  <1>9. RowInv(r)'
    <2>1. ~Settled(r)' /\ ~Watches(r)'
      BY <1>4 DEF Settled, Watches
    <2>2. RowTimed(r)'
      BY <1>1, <1>4 DEF RowTimed, RowInv, FeedUntouched
    <2>3. RowSilent(r)'
      <3>1. SUFFICES ASSUME row # None, ~raced'[r] PROVE RowSilent(r)'
        BY <1>4 DEF RowSilent
      <3>2. ~row.init /\ before'[r] = row.terms \cap Buffered /\ Buffered' = Buffered
        BY <1>1, <1>4, <1>5, <3>1, FeedViews
      <3> QED BY <1>4, <3>1, <3>2 DEF RowSilent
    <2> QED BY <2>1, <2>2, <2>3 DEF RowInv, RowFound, RowSame, RowCovered
  <1> QED BY <1>3, <1>6, <1>7, <1>8, <1>9 DEF RuleIInv

\* A rule that was switched, or whose owner or tracker was, is to watch for what
\* is listed from now on.
LEMMA RowSwitched ==
  ASSUME RuleIInv, NEW r \in Rules, UNCHANGED <<feedVars, matches, poll, told, before, raced>>,
         rule'[r] = None <=> rule[r] = None,
         rule[r] # None => /\ rule'[r].terms = rule[r].terms /\ rule'[r].init = rule[r].init
                           /\ rule'[r].recovered = rule[r].recovered,
         owes'[r] = now
  PROVE  RowInv(r)'
  <1>1. /\ TypeOK /\ FInv /\ PollTimes /\ RowInv(r)
        /\ FeedUntouched /\ now \in 0..MaxTime /\ UNCHANGED feedVars
        /\ UNCHANGED <<matches, poll, told, before, raced>>
    BY FeedVarsUntouched DEF RuleIInv, TypeOK, FeedTypeOK
  <1>2. (Settled(r)' <=> Settled(r)) /\ Held' = Held /\ Buffered' = Buffered
    BY <1>1, FeedViews DEF Settled, Held
  <1>3. RowTimed(r)'
    BY <1>1 DEF RowTimed, RowInv, FeedUntouched
  <1>4. RowSilent(r)'
    BY <1>1, <1>2 DEF RowInv, RowSilent
  <1>5. RowSame(r)'
    BY <1>1, <1>2 DEF RowInv, RowSame, Settled
  <1>6. \A t \in Topics : listed[t] # None => ~(listed[t] - offset >= now)
    <2>1. \A t \in Topics : listed[t] # None => listed[t] \in Int
      BY <1>1, StampRange DEF FInv, FeedTypeOK
    <2>2. Past(listed, now) /\ offset \in Int /\ now \in Int
      BY <1>1, Clocks DEF FInv, ListedInv
    <2> QED BY <2>1, <2>2 DEF Past
  <1>7. RowFound(r)'
    <2>1. rule'[r] # None => \A t \in rule'[r].terms : t \in Topics
      BY <1>1, RuleFields
    <2> QED BY <1>1, <1>6, <2>1 DEF RowFound, FeedUntouched, Settled
  <1>8. rule[r] # None => Lost(r)' = {}
    <2>1. SUFFICES ASSUME rule[r] # None, NEW t \in Lost(r)' PROVE FALSE
      OBVIOUS
    <2>2. t \in skipped /\ shown[t] - offset >= now
      BY <1>1, <2>1 DEF Lost, Missed, FeedUntouched
    <2>3. t \in Topics /\ shown[t] # None /\ shown[t] \in Int /\ shown[t] - offset < now
      BY <1>1, <2>2, EntryInt DEF FInv, SkippedInv, ListedInv, Past, FeedTypeOK
    <2> QED BY <1>1, <2>2, <2>3, Clocks DEF FInv
  <1>9. RowCovered(r)'
    BY <1>8 DEF RowCovered, Watches
  <1> QED BY <1>3, <1>4, <1>5, <1>7, <1>9 DEF RowInv

LEMMA ToggleKeeps ==
  ASSUME RuleIInv, NEW r \in Rules, Toggle(r)
  PROVE  RuleIInv'
  <1>1. /\ TypeOK /\ FInv /\ PollShape /\ PollTimes /\ (\A q \in Rules : RowInv(q))
        /\ FeedUntouched /\ now \in 0..MaxTime /\ rule[r] # None /\ UNCHANGED feedVars
    BY FeedVarsUntouched DEF RuleIInv, TypeOK, FeedTypeOK, Toggle
  <1>2. /\ rule' = [rule EXCEPT ![r].on = ~@] /\ rule \in [Rules -> RuleRows \cup {None}]
        /\ owes' = [owes EXCEPT ![r] = now] /\ owes \in [Rules -> 0..MaxTime]
        /\ UNCHANGED <<served, matches, poll, told, before, raced>>
    BY <1>1 DEF Toggle, TypeOK
  <1>3. FInv'
    BY <1>1, FeedStays
  <1>4. /\ [rule[r] EXCEPT !.on = ~@] \in RuleRows
        /\ [rule[r] EXCEPT !.on = ~@].terms = rule[r].terms
        /\ [rule[r] EXCEPT !.on = ~@].init = rule[r].init
        /\ [rule[r] EXCEPT !.on = ~@].recovered = rule[r].recovered
    <2>1. rule[r] \in RuleRows
      BY <1>1, RuleFields
    <2> QED BY <2>1 DEF RuleRows
  <1>5. /\ rule'[r] \in RuleRows /\ rule'[r] # None /\ rule'[r].terms = rule[r].terms
        /\ rule'[r].init = rule[r].init /\ rule'[r].recovered = rule[r].recovered /\ owes'[r] = now
    <2>1. rule'[r] = [rule[r] EXCEPT !.on = ~@]
      BY <1>2
    <2> QED BY <1>2, <1>4, <2>1, NoNone
  <1>6. TypeOK'
    <2>1. rule' \in [Rules -> RuleRows \cup {None}] /\ owes' \in [Rules -> 0..MaxTime]
      BY <1>1, <1>2, <1>5
    <2>2. edits' \in 0..MaxEdits
      BY <1>1, RuleAssumption DEF Toggle, Edit, TypeOK
    <2>3. \A q \in Rules : told'[q] \subseteq matches'[q] /\ (rule'[q] = None => matches'[q] = {})
      BY <1>1, <1>2, <1>5 DEF TypeOK
    <2> QED BY <1>1, <1>2, <1>3, <2>1, <2>2, <2>3 DEF TypeOK, FInv
  <1>7. PollShape' /\ PollTimes'
    <2>1. Held' = Held /\ GroupRows' = GroupRows
      BY <1>2 DEF Held, GroupRows
    <2> QED BY <1>1, <1>2, <2>1 DEF PollShape, PollTimes, FeedUntouched, Past
  <1>8. ASSUME NEW q \in Rules \ {r} PROVE RowInv(q)'
    <2>1. RowUntouched(q)
      BY <1>2 DEF RowUntouched, RowLike
    <2> QED BY <1>1, <1>2, <2>1, RowWaits
  <1>9. RowInv(r)'
    BY <1>1, <1>2, <1>5, RowSwitched
  <1> QED BY <1>3, <1>6, <1>7, <1>8, <1>9 DEF RuleIInv

LEMMA ServeKeeps ==
  ASSUME RuleIInv, NEW rules \in SUBSET Rules, Serve(rules)
  PROVE  RuleIInv'
  <1>1. /\ TypeOK /\ FInv /\ PollShape /\ PollTimes /\ (\A q \in Rules : RowInv(q))
        /\ FeedUntouched /\ now \in 0..MaxTime /\ UNCHANGED feedVars
        /\ UNCHANGED <<rule, matches, poll, told, before, raced>> /\ served' = rules
        /\ owes' = [r \in Rules |-> IF r \in served <=> r \in rules THEN owes[r] ELSE now]
        /\ owes \in [Rules -> 0..MaxTime]
    BY FeedVarsUntouched DEF RuleIInv, TypeOK, FeedTypeOK, Serve
  <1>2. FInv'
    BY <1>1, FeedStays
  <1>3. TypeOK'
    <2>1. owes' \in [Rules -> 0..MaxTime] /\ served' \subseteq Rules
      BY <1>1
    <2>2. edits' \in 0..MaxEdits
      BY <1>1, RuleAssumption DEF Serve, Edit, TypeOK
    <2> QED BY <1>1, <1>2, <2>1, <2>2 DEF TypeOK, FInv
  <1>4. PollShape' /\ PollTimes'
    <2>1. Held' = Held /\ GroupRows' = GroupRows
      BY <1>1 DEF Held, GroupRows
    <2> QED BY <1>1, <2>1 DEF PollShape, PollTimes, FeedUntouched, Past
  <1>5. ASSUME NEW r \in Rules PROVE RowInv(r)'
    <2>1. CASE r \in served <=> r \in rules
      <3>1. RowUntouched(r)
        BY <1>1, <2>1 DEF RowUntouched, RowLike
      <3> QED BY <1>1, <3>1, RowWaits
    <2>2. CASE ~(r \in served <=> r \in rules)
      BY <1>1, <2>2, RowSwitched
    <2> QED BY <2>1, <2>2
  <1> QED BY <1>2, <1>3, <1>4, <1>5 DEF RuleIInv

LEMMA HandlersKeep == ASSUME RuleIInv, Handlers PROVE RuleIInv'
  <1>1. ASSUME NEW r \in Rules, NEW terms \in Terms
        PROVE  NewRow(terms) \in RuleRows /\ NewRow(terms).recovered = None
    BY DEF NewRow, RuleRows
  <1>2. \A r \in Rules : rule[r] # None => rule[r] \in RuleRows
    BY DEF RuleIInv, TypeOK
  <1>3. ASSUME NEW r \in Rules, NEW terms \in Terms, Create(r, terms) PROVE RuleIInv'
    BY <1>1, <1>3, AnewKeeps DEF Create
  <1>4. ASSUME NEW r \in Rules, NEW terms \in Terms, PatchRule(r, terms) PROVE RuleIInv'
    <2>1. [NewRow(terms) EXCEPT !.on = rule[r].on] \in RuleRows /\ [NewRow(terms) EXCEPT !.on = rule[r].on].recovered = None
      BY <1>1, <1>2, <1>4 DEF PatchRule, RuleRows
    <2> QED BY <1>4, <2>1, AnewKeeps DEF PatchRule
  <1>5. ASSUME NEW r \in Rules, NEW terms \in Terms, PatchTerms(r, terms) PROVE RuleIInv'
    <2>1. [rule[r] EXCEPT !.terms = terms] \in RuleRows /\ [rule[r] EXCEPT !.terms = terms].recovered = rule[r].recovered
      BY <1>2, <1>5 DEF PatchTerms, RuleRows
    <2> QED BY <1>5, <2>1, AnewKeeps DEF PatchTerms
  <1>6. ASSUME NEW r \in Rules, Delete(r) PROVE RuleIInv'
    BY <1>6, AnewKeeps DEF Delete
  <1> QED BY <1>3, <1>4, <1>5, <1>6, ToggleKeeps DEF Handlers

LEMMA TrackerKeeps == ASSUME RuleIInv, Tracker PROVE RuleIInv'
  <1>1. PICK p \in Topics : Publish(p)
    BY DEF Tracker
  <1>2. /\ TypeOK /\ FInv /\ FeedTypeOK /\ PollShape /\ PollTimes /\ (\A q \in Rules : RowInv(q))
        /\ UNCHANGED <<rule, matches, poll, told, before, raced, owes, served, edits>>
        /\ UNCHANGED <<offset, cache, feed, buffer, shown, skipped>>
        /\ now' = now + 1 /\ now \in Int /\ offset \in Int
    BY <1>1, Clocks DEF RuleIInv, TypeOK, Tracker, ruleVars, Publish
  <1>3. FInv'
    BY <1>1, <1>2, PublishKeeps
  <1>4. TypeOK'
    BY <1>2, <1>3 DEF TypeOK, FInv
  <1>5. Held' = Held /\ GroupRows' = GroupRows /\ (Gap' <=> Gap) /\ Buffered' = Buffered /\ Begins' = Begins
    BY <1>2 DEF Held, GroupRows, Gap, Buffered, Begins
  <1>6. PollShape'
    BY <1>2, <1>5 DEF PollShape
  <1>7. PollTimes'
    <2>1. poll # None => poll.start \in Int
      BY <1>2, PollFields, FeedAssumption
    <2> QED BY <1>2, <2>1 DEF PollTimes, Past
  <1>8. \A u \in Topics : listed'[u] = IF u = p THEN now + offset ELSE listed[u]
    BY <1>1, <1>2, Published
  <1>9. ASSUME NEW r \in Rules PROVE RowInv(r)'
    <2>1. RowInv(r) /\ owes[r] \in Int /\ (Settled(r)' <=> Settled(r)) /\ (Watches(r)' <=> Watches(r))
      BY <1>2, FeedAssumption DEF TypeOK, Settled, Watches
    <2>2. rule[r] # None /\ rule[r].recovered # None => rule[r].recovered \in Int
      BY <1>2, RuleFields, FeedAssumption
    <2>3. RowTimed(r)'
      BY <1>2, <2>1, <2>2 DEF RowInv, RowTimed
    <2>4. RowFound(r)'
      <3>1. SUFFICES ASSUME Settled(r), rule[r].recovered # None, NEW t \in rule[r].terms,
                            listed'[t] # None, listed'[t] >= Begins,
                            listed'[t] - offset >= owes[r], listed'[t] - offset < rule[r].recovered
                     PROVE  \/ buffer[t] # None /\ buffer[t].seen >= rule[r].recovered
                            \/ rule[r].recovered < feed.at - Retention
        BY <1>2, <1>5, <2>1 DEF RowFound
      <3>2. t \in Topics /\ rule[r].recovered <= now /\ rule[r].recovered \in Int
        BY <1>2, <2>1, <2>2, <3>1, RuleFields DEF Settled, RowInv, RowTimed
      <3>3. t # p
        BY <1>2, <1>8, <3>1, <3>2
      <3> QED BY <1>8, <2>1, <3>1, <3>2, <3>3 DEF RowInv, RowFound
    <2>5. RowSilent(r)' /\ RowSame(r)'
      BY <1>2, <1>5, <2>1 DEF RowInv, RowSilent, RowSame
    <2>6. Lost(r)' \subseteq Lost(r)
      <3>1. SUFFICES ASSUME NEW t \in Lost(r)' PROVE t \in Lost(r)
        OBVIOUS
      <3>2. t \in skipped /\ listed'[t] = shown[t]
        BY <1>2, <3>1 DEF Lost, Missed
      <3>3. t \in Topics /\ shown[t] # None /\ shown[t] \in Int /\ shown[t] - offset < now
        BY <1>2, <3>2, EntryInt DEF FInv, SkippedInv, ListedInv, Past, FeedTypeOK
      <3>4. listed'[t] = listed[t]
        BY <1>2, <1>8, <3>2, <3>3
      <3> QED BY <1>2, <3>1, <3>4 DEF Lost, Missed
    <2>7. RowCovered(r)'
      BY <1>2, <1>5, <2>1, <2>6 DEF RowInv, RowCovered
    <2> QED BY <2>3, <2>4, <2>5, <2>7 DEF RowInv
  <1> QED BY <1>3, <1>4, <1>6, <1>7, <1>9 DEF RuleIInv

LEMMA CrashKeeps == ASSUME RuleIInv, Crash PROVE RuleIInv'
  <1>1. /\ TypeOK /\ FInv /\ PollShape /\ PollTimes /\ (\A q \in Rules : RowInv(q))
        /\ poll' = None /\ cache' = None /\ UNCHANGED <<world, feed, buffer, shown, skipped>>
        /\ UNCHANGED <<rule, matches, told, before, raced, owes, served, edits>>
    BY DEF RuleIInv, Crash
  <1>2. FInv' /\ FeedUntouched
    BY <1>1, PageLostKeeps DEF FeedUntouched, world
  <1>3. TypeOK'
    BY <1>1, <1>2, TypedStep DEF TypeOK
  <1>4. \A r \in Rules : RowUntouched(r)
    BY <1>1, SameRule DEF RowUntouched
  <1>5. \A r \in Rules : RowInv(r)'
    BY <1>1, <1>2, <1>4, RowStays, PollEnds DEF RowInv
  <1>6. PollTimes' /\ PollShape'
    BY <1>1, <1>2, PollEnds DEF PollTimes, FeedUntouched, Past
  <1> QED BY <1>2, <1>3, <1>5, <1>6 DEF RuleIInv

(***************************************************************************)
(* The run and its feed.                                                   *)
(***************************************************************************)

LEMMA BeginKeeps ==
  ASSUME RuleIInv, NEW full \in BOOLEAN, NEW scope \in SUBSET Rules, BeginPoll(full, scope)
  PROVE  RuleIInv'
  <1>1. /\ TypeOK /\ FInv /\ PollShape /\ PollTimes /\ (\A q \in Rules : RowInv(q)) /\ FeedUntouched
        /\ UNCHANGED <<feedVars, rule, matches, told, before, raced, owes, served, edits>> /\ MaxTime \in Nat
    BY FeedVarsUntouched, FeedAssumption DEF RuleIInv, BeginPoll
  <1>2. \A r \in Selected(scope) : r \in Rules /\ rule[r] # None
    BY DEF Selected
  <1>3. ASSUME NEW r \in Selected(scope)
        PROVE  /\ HeldRow(r) \in HeldRows /\ HeldRow(r) # None /\ rule[r].terms \in Terms
               /\ HeldRow(r).terms = rule[r].terms /\ (HeldRow(r).baseline <=> ~rule[r].init)
               /\ HeldRow(r).recovered = rule[r].recovered
    <2>1. HeldRow(r) \in HeldRows /\ rule[r].terms \in Terms
      BY <1>1, <1>2, RuleFields DEF HeldRow, HeldRows
    <2>2. HeldRow(r) # None
      BY <2>1, NoNone
    <2> QED BY <2>1, <2>2 DEF HeldRow
  <1> DEFINE held == [r \in Rules |-> IF r \in Selected(scope) THEN HeldRow(r) ELSE None]
             left == {rule[r].terms : r \in Selected(scope)}
  <1>4. held \in [Rules -> HeldRows \cup {None}] /\ left \in SUBSET Terms
    BY <1>3
  <1>5. poll' = [full |-> full, at |-> "feed", held |-> held, left |-> left, group |-> None, rows |-> {},
                 row |-> None, todo |-> {}, start |-> 0, failed |-> FALSE, retries |-> FALSE]
    BY DEF BeginPoll
  <1>6. \A r \in Rules : held[r] # None <=> r \in Selected(scope)
    BY <1>3
  <1>7. \A r \in Selected(scope) : held[r] = HeldRow(r) /\ rule[r].terms \in left
    BY <1>2
  <1> HIDE DEF held, left
  <1>8. poll' \in Polls
    BY <1>1, <1>4, <1>5 DEF Polls
  <1>9. /\ poll' # None /\ poll'.at = "feed" /\ poll'.held = held /\ poll'.left = left /\ poll'.group = None
        /\ poll'.rows = {} /\ poll'.row = None /\ poll'.todo = {}
    BY <1>5, <1>8, NoNone
  <1>10. Held' = Selected(scope)
    BY <1>2, <1>6, <1>9 DEF Held
  <1>11. FInv'
    BY <1>1, FeedStays
  <1>12. TypeOK'
    BY <1>1, <1>8, <1>11, TypedStep DEF TypeOK
  <1>13. PollShape'
    <2>1. None \notin left
      BY <1>4, NoNone
    <2>2. \A r \in Selected(scope) : held[r].terms \in left
      BY <1>3, <1>7
    <2>3. "feed" \notin {"search", "row", "enrich"} /\ "feed" # "enrich" /\ "feed" # "run"
      OBVIOUS
    <2> QED BY <1>9, <1>10, <2>1, <2>2, <2>3 DEF PollShape
  <1>14. PollTimes'
    BY <1>1, <1>9 DEF PollTimes, FeedUntouched, Past
  <1>15. ASSUME NEW r \in Rules PROVE RowInv(r)'
    <2>1. RowUntouched(r)
      BY <1>1, SameRule, UntouchedHistory
    <2>2. RowTimed(r)' /\ RowFound(r)' /\ RowSilent(r)'
      BY <1>1, <2>1, RowStays DEF RowInv
    <2>3. RowSame(r)'
      BY <1>1, <1>3, <1>7, <1>9, <1>10 DEF RowSame, Settled
    <2>4. RowCovered(r)'
      BY <1>9 DEF RowCovered
    <2> QED BY <2>2, <2>3, <2>4 DEF RowInv
  <1> QED BY <1>11, <1>12, <1>13, <1>14, <1>15 DEF RuleIInv

LEMMA PollReadsKeeps == ASSUME RuleIInv, PollReads PROVE RuleIInv'
  <1>1. /\ TypeOK /\ FInv /\ PollShape /\ PollTimes /\ (\A q \in Rules : RowInv(q))
        /\ UNCHANGED <<rule, matches, poll, told, before, raced, owes, served, edits>> /\ ReadFeed
        /\ FeedUntouched
    BY DEF RuleIInv, PollReads, ruleVars, ReadFeed, FeedUntouched, world
  <1>2. FInv'
    BY <1>1, ReadFeedKeeps
  <1>3. TypeOK'
    BY <1>1, <1>2, TypedStep DEF TypeOK
  <1>4. Held' = Held /\ GroupRows' = GroupRows
    BY <1>1 DEF Held, GroupRows
  <1>5. PollShape' /\ PollTimes'
    BY <1>1, <1>4 DEF PollShape, PollTimes, FeedUntouched, Past
  <1>6. \A r \in Rules : RowInv(r)'
    BY <1>1, SameRule, UntouchedHistory, RowWaits
  <1> QED BY <1>2, <1>3, <1>5, <1>6 DEF RuleIInv

LEMMA FeedFailsKeeps == ASSUME RuleIInv, FeedFails PROVE RuleIInv'
  <1>1. /\ TypeOK /\ FInv /\ PollShape /\ PollTimes /\ (\A q \in Rules : RowInv(q)) /\ FeedUntouched
        /\ ErrorOn(Held, rule) /\ poll' = None
        /\ UNCHANGED <<feedVars, matches, told, before, raced, owes, served, edits>>
    BY FeedVarsUntouched DEF RuleIInv, FeedFails
  <1>2. rule \in [Rules -> RuleRows \cup {None}] /\ Held \in SUBSET Rules
    BY <1>1 DEF TypeOK, Held
  <1>3. /\ rule' \in [Rules -> RuleRows \cup {None}]
        /\ \A r \in Rules : RowLike(rule'[r], rule[r])
        /\ \A r \in Rules : rule[r] # None => rule'[r].recovered = rule[r].recovered /\ (rule[r].error => rule'[r].error)
    BY <1>1, <1>2, ErrorStored
  <1>4. FInv'
    BY <1>1, FeedStays
  <1>5. TypeOK'
    BY <1>1, <1>3, <1>4, TypedStep DEF RowLike
  <1>6. \A r \in Rules : RowUntouched(r)
    BY <1>1, <1>3, UntouchedHistory
  <1>7. \A r \in Rules : RowInv(r)'
    BY <1>1, <1>6, RowStays, PollEnds DEF RowInv
  <1>8. PollShape' /\ PollTimes'
    BY <1>1, PollEnds DEF PollTimes, FeedUntouched, Past
  <1> QED BY <1>4, <1>5, <1>7, <1>8 DEF RuleIInv

\* What a page has skipped had been listed before the last gap was seen; a page
\* that proves to follow the one before it has skipped nothing new.
LEMMA IngestTimes ==
  ASSUME FInv, PollTimes, Ingest
  PROVE  /\ feed' # None /\ feed'.at = now /\ Past(shown', now)
         /\ \A t \in skipped' : feed'.lastGap # None /\ shown'[t] - offset < feed'.lastGap
  <1>1. /\ feed' = FeedRow(feed, cache.entries) /\ shown' = cache.all /\ cache # None
        /\ buffer' = PruneReleaseBuffer(BufferReleases(buffer, cache.entries))
    BY DEF Ingest, Fresh
  <1>2. /\ cache.all \in Listings /\ cache.entries \in Listings /\ Past(cache.all, now)
        /\ Entries(cache.all) # {} /\ cache.entries = TopOf(cache.all) /\ FeedTypeOK
    BY <1>1, PageFacts DEF FInv, CacheInv
  <1>3. Entries(cache.entries) # {}
    BY <1>2, TopIsPage
  <1>4. feed' # None
    BY <1>1, <1>2, <1>3, RowTyped
  <1>5. /\ feed'.at = now
        /\ feed'.lastGap = IF GapDetected(feed, cache.entries) THEN now
                           ELSE IF feed = None THEN None ELSE feed.lastGap
    BY <1>1 DEF FeedRow
  <1>6. ASSUME NEW t \in skipped'
        PROVE  feed'.lastGap # None /\ shown'[t] - offset < feed'.lastGap
    <2>1. /\ feed # None /\ feed.since # None /\ t \in Entries(cache.all)
          /\ t \in skipped \/ cache.all[t] # shown[t]
          /\ ~Holds(buffer', t, cache.all[t])
      BY <1>1, <1>6 DEF Ingest
    <2>2. t \in Topics /\ cache.all[t] \in Int /\ cache.all[t] # None /\ now \in Nat
      BY <1>2, <2>1, EntryInt, Clocks
    <2>3. CASE GapDetected(feed, cache.entries)
      BY <1>1, <1>2, <1>5, <2>2, <2>3, NeverNone DEF Past
    <2>4. CASE ~GapDetected(feed, cache.entries)
      <3>1. cache.entries[t] # cache.all[t]
        <4>1. SUFFICES ASSUME cache.entries[t] = cache.all[t] PROVE FALSE
          OBVIOUS
        <4>2. /\ BufferReleases(buffer, cache.entries)[t] # None
              /\ BufferReleases(buffer, cache.entries)[t].at = cache.all[t]
              /\ BufferReleases(buffer, cache.entries)[t].seen = now
          BY <1>2, <2>2, <4>1, BufferHolds
        <4>3. buffer'[t] = BufferReleases(buffer, cache.entries)[t]
          <5>1. ~(now < now - Retention)
            BY <1>2, Clocks
          <5> QED BY <1>1, <1>2, <2>2, <4>2, <5>1, BufferHolds, Pruned
        <4> QED BY <2>1, <2>2, <4>2, <4>3 DEF Holds
      <3>2. cache.all[t] = shown[t]
        BY <1>1, <2>1, <2>4, <3>1, OverlapShowsAll
      <3>3. feed.lastGap # None /\ shown[t] - offset < feed.lastGap
        BY <2>1, <3>2 DEF PollTimes
      <3> QED BY <1>1, <1>5, <2>1, <2>4, <3>2, <3>3
    <2> QED BY <2>3, <2>4
  <1> QED BY <1>1, <1>2, <1>4, <1>5, <1>6

\* What a page does to the buffer.
LEMMA IngestBuffers ==
  ASSUME FInv, Ingest, NEW t \in Topics
  PROVE  \/ buffer'[t] # None /\ buffer'[t].seen = now
         \/ buffer'[t] = buffer[t]
         \/ buffer'[t] = None /\ buffer[t] # None /\ buffer[t].seen < now - Retention
  <1>1. cache # None /\ buffer' = PruneReleaseBuffer(BufferReleases(buffer, cache.entries))
    BY DEF Ingest, Fresh
  <1>2. cache.entries \in Listings /\ FeedTypeOK
    BY <1>1, PageFacts DEF FInv
  <1>3. \/ buffer'[t] = BufferReleases(buffer, cache.entries)[t]
        \/ /\ buffer'[t] = None /\ BufferReleases(buffer, cache.entries)[t] # None
           /\ BufferReleases(buffer, cache.entries)[t].seen < now - Retention
    BY <1>1, <1>2, BufferHolds, Pruned
  <1>4. CASE cache.entries[t] # None
    <2>1. BufferReleases(buffer, cache.entries)[t] # None /\ BufferReleases(buffer, cache.entries)[t].seen = now
      BY <1>2, <1>4, BufferHolds
    <2>2. ~(now < now - Retention)
      BY <1>2, Clocks
    <2> QED BY <1>3, <2>1, <2>2
  <1>5. CASE cache.entries[t] = None
    <2>1. BufferReleases(buffer, cache.entries)[t] = buffer[t]
      BY <1>2, <1>5, BufferHolds
    <2> QED BY <1>3, <2>1
  <1> QED BY <1>4, <1>5

LEMMA BufferRow ==
  ASSUME FeedTypeOK, NEW t \in Topics, buffer[t] # None
  PROVE  buffer[t].seen \in Int /\ buffer[t].at \in Int
  <1>1. buffer[t] \in BufferRows
    BY DEF FeedTypeOK
  <1> QED BY <1>1, FeedAssumption DEF BufferRows, Stamps

LEMMA PollIngestsKeeps == ASSUME RuleIInv, PollIngests PROVE RuleIInv'
  <1>1. /\ TypeOK /\ FInv /\ FeedTypeOK /\ PollShape /\ PollTimes /\ (\A q \in Rules : RowInv(q)) /\ Ingest
        /\ UNCHANGED <<rule, matches, told, raced, owes, served, edits>> /\ UNCHANGED <<now, offset, listed>>
        /\ poll # None /\ poll.at = "feed"
        /\ now \in Int /\ offset \in Int /\ Retention \in Nat
        /\ before' = [r \in Rules |-> IF rule[r] # None /\ ~rule[r].init THEN before[r] \cap Buffered' ELSE before[r]]
    BY Clocks DEF RuleIInv, PollIngests, TypeOK, Ingest, world
  <1>2. FInv'
    BY <1>1, IngestKeeps
  <1>3. /\ feed' # None /\ feed'.at = now /\ Past(shown', now)
        /\ \A t \in skipped' : feed'.lastGap # None /\ shown'[t] - offset < feed'.lastGap
    BY <1>1, IngestTimes
  <1>4. poll' = [poll EXCEPT !.at = IF poll.full THEN "direct" ELSE "run"]
    BY DEF PollIngests
  <1>5. poll' \in Polls /\ poll'.at \in {"direct", "run"} /\ poll'.left = poll.left /\ poll'.group = poll.group
        /\ poll'.rows = poll.rows /\ poll'.row = poll.row /\ poll'.todo = poll.todo /\ poll'.held = poll.held
    BY <1>1, <1>4, PollFields DEF Polls
  <1>6. poll' # None /\ Held' = Held
    BY <1>5, NoNone DEF Held
  <1>7. TypeOK'
    <2>1. before' \in [Rules -> SUBSET Topics]
      BY <1>1 DEF TypeOK
    <2> QED BY <1>1, <1>2, <1>5, <2>1 DEF TypeOK, FInv
  <1>8. /\ poll.group = None /\ poll.rows = {} /\ poll.row = None /\ poll.todo = {} /\ None \notin poll.left
        /\ \A r \in Held : poll.held[r].terms \in poll.left
    BY <1>1 DEF PollShape
  <1>9. PollShape' /\ PollTimes'
    <2>1. PollShape'
      BY <1>5, <1>6, <1>8 DEF PollShape
    <2>2. PollTimes'
      BY <1>1, <1>3, <1>5, <1>8 DEF PollTimes, Past
    <2> QED BY <2>1, <2>2
  <1>10. feed # None => /\ feed.at \in Int /\ feed.at <= now /\ Begins \in Int /\ Begins' \in Int /\ Begins' >= Begins
    <2>1. SUFFICES ASSUME feed # None
                   PROVE  feed.at \in Int /\ feed.at <= now /\ Begins \in Int /\ Begins' \in Int /\ Begins' >= Begins
      OBVIOUS
    <2>2. feed'.gap = IF feed.gap = None /\ GapDetected(feed, cache.entries) THEN feed.at ELSE feed.gap
      BY <1>1, <2>1 DEF Ingest, FeedRow
    <2>3. feed.at \in Int /\ feed.at <= now /\ (feed.gap # None => feed.gap \in Int /\ feed.gap <= feed.at)
      BY <1>1, <2>1, RowFacts
    <2> QED BY <1>1, <1>3, <2>2, <2>3, NeverNone DEF Begins
  <1>11. ASSUME NEW r \in Rules PROVE RowInv(r)'
    <2>1. RowInv(r) /\ (Settled(r)' <=> Settled(r))
      BY <1>1 DEF Settled
    <2>2. RowTimed(r)'
      BY <1>1, <1>3, <2>1 DEF RowInv, RowTimed
    <2>3. RowFound(r)'
      <3>1. SUFFICES ASSUME Settled(r), rule[r].recovered # None, NEW t \in rule[r].terms,
                            listed[t] # None, listed[t] >= Begins',
                            listed[t] - offset >= owes[r], listed[t] - offset < rule[r].recovered
                     PROVE  \/ buffer'[t] # None /\ buffer'[t].seen >= rule[r].recovered
                            \/ rule[r].recovered < now - Retention
        BY <1>1, <1>3, <2>1 DEF RowFound
      <3>2. /\ t \in Topics /\ rule[r].recovered <= now /\ rule[r].recovered \in Int /\ feed # None
            /\ listed[t] \in Int
        <4>1. rule[r] # None
          BY <3>1 DEF Settled
        <4>2. rule[r].recovered \in 0..MaxTime /\ t \in Topics
          BY <1>1, <3>1, <4>1, RuleFields
        <4>3. rule[r].recovered <= now /\ feed # None
          BY <2>1, <3>1, <4>1 DEF RowInv, RowTimed
        <4> QED BY <1>1, <3>1, <4>2, <4>3, StampRange, FeedAssumption DEF FeedTypeOK
      <3>3. listed[t] >= Begins
        BY <1>10, <3>1, <3>2
      <3>4. \/ buffer[t] # None /\ buffer[t].seen >= rule[r].recovered
            \/ rule[r].recovered < feed.at - Retention
        BY <2>1, <3>1, <3>2, <3>3 DEF RowInv, RowFound
      <3>5. CASE rule[r].recovered < feed.at - Retention
        BY <1>1, <1>10, <3>2, <3>5
      <3>6. CASE buffer[t] # None /\ buffer[t].seen >= rule[r].recovered
        <4>1. buffer[t].seen \in Int
          BY <1>1, <3>2, <3>6, BufferRow
        <4> QED BY <1>1, <3>2, <3>6, <4>1, IngestBuffers
      <3> QED BY <3>4, <3>5, <3>6
    <2>4. RowSilent(r)'
      BY <1>1, <2>1 DEF RowInv, RowSilent
    <2>5. RowSame(r)'
      BY <1>1, <1>5, <1>6, <2>1 DEF RowInv, RowSame
    <2>6. RowCovered(r)'
      BY <1>5, <1>6, <1>8 DEF RowCovered
    <2> QED BY <2>2, <2>3, <2>4, <2>5, <2>6 DEF RowInv
  <1> QED BY <1>2, <1>7, <1>9, <1>11 DEF RuleIInv

LEMMA DirectsDoneKeeps == ASSUME RuleIInv, DirectsDone PROVE RuleIInv'
  <1>1. /\ TypeOK /\ FInv /\ PollShape /\ PollTimes /\ (\A q \in Rules : RowInv(q)) /\ FeedUntouched
        /\ UNCHANGED <<feedVars, rule, matches, told, before, raced, owes, served, edits>>
        /\ poll # None /\ poll.at = "direct" /\ poll' = [poll EXCEPT !.at = "run"]
    BY FeedVarsUntouched DEF RuleIInv, DirectsDone
  <1>2. poll' \in Polls /\ poll' = [poll EXCEPT !.at = "run"]
    BY <1>1, PollFields DEF Polls
  <1>3. /\ poll' # None /\ poll'.at = "run" /\ poll'.held = poll.held /\ poll'.left = poll.left
        /\ poll'.group = poll.group /\ poll'.rows = poll.rows /\ poll'.row = poll.row
        /\ poll'.todo = poll.todo /\ poll'.start = poll.start /\ poll'.retries = poll.retries
        /\ poll'.failed = poll.failed
    BY <1>1, <1>2, PollFields, NoNone DEF Polls
  <1>4. FInv' /\ Held' = Held
    BY <1>1, <1>3, FeedStays DEF Held
  <1>5. TypeOK'
    BY <1>1, <1>2, <1>4, TypedStep DEF TypeOK
  <1>6. /\ poll.group = None /\ poll.rows = {} /\ poll.row = None /\ poll.todo = {} /\ None \notin poll.left
        /\ \A r \in Held : poll.held[r].terms \in poll.left
    BY <1>1 DEF PollShape
  <1>7. PollShape' /\ PollTimes'
    <2>1. PollShape'
      BY <1>3, <1>4, <1>6 DEF PollShape
    <2>2. PollTimes'
      BY <1>1, <1>3, <1>6 DEF PollTimes, FeedUntouched, Past
    <2> QED BY <2>1, <2>2
  <1>8. ASSUME NEW r \in Rules PROVE RowInv(r)'
    <2>1. RowUntouched(r) /\ RowInv(r) /\ rule' = rule
      BY <1>1, SameRule, UntouchedHistory
    <2>2. RowTimed(r)' /\ RowFound(r)' /\ RowSilent(r)'
      BY <1>1, <2>1, RowStays DEF RowInv
    <2>3. RowSame(r)'
      BY <1>1, <1>3, <1>4, <2>1 DEF RowInv, RowSame, Settled
    <2>4. RowCovered(r)'
      BY <1>3, <1>4, <1>6 DEF RowCovered
    <2> QED BY <2>2, <2>3, <2>4 DEF RowInv
  <1> QED BY <1>4, <1>5, <1>7, <1>8 DEF RuleIInv

(***************************************************************************)
(* One discovery group after the other.                                    *)
(***************************************************************************)

\* A rule that has caught up with the last gap finds all it lost in the buffer.
LEMMA CaughtUpHolds ==
  ASSUME RuleIInv, NEW r \in Rules, Gap, Settled(r), CaughtUp(rule[r])
  PROVE  Lost(r) \subseteq Buffered
  <1>1. /\ TypeOK /\ FInv /\ PollTimes /\ RowFound(r) /\ rule[r] # None
        /\ feed # None /\ feed.gap # None /\ Begins = feed.gap
    BY DEF RuleIInv, RowInv, Gap, Settled, Begins
  <1>2. /\ rule[r].recovered # None /\ rule[r].recovered >= feed.lastGap
        /\ rule[r].recovered \in Int
    BY <1>1, RuleFields, FeedAssumption DEF CaughtUp
  <1>3. offset \in Int /\ Retention \in Nat /\ feed.at \in Int
    BY <1>1, Clocks, RowFacts DEF FInv
  <1>4. ASSUME NEW t \in Lost(r) PROVE t \in Buffered
    <2>1. /\ t \in skipped /\ t \in rule[r].terms /\ listed[t] = shown[t] /\ shown[t] - offset >= owes[r]
          /\ shown[t] - offset >= feed.at - Retention /\ shown[t] >= feed.gap
      BY DEF Lost, Missed
    <2>2. t \in Topics /\ shown[t] # None /\ shown[t] \in Int
      BY <1>1, <2>1, EntryInt DEF FInv, SkippedInv, FeedTypeOK
    <2>3. feed.lastGap # None /\ shown[t] - offset < feed.lastGap /\ feed.lastGap \in Int
      <3>1. feed.lastGap # None /\ shown[t] - offset < feed.lastGap
        BY <1>1, <2>1 DEF PollTimes
      <3>2. feed \in FeedRows
        BY <1>1 DEF FInv, FeedTypeOK
      <3>3. feed.lastGap \in 0..MaxTime
        BY <3>1, <3>2 DEF FeedRows
      <3> QED BY <3>1, <3>3, FeedAssumption
    <2>4. shown[t] - offset < rule[r].recovered /\ ~(rule[r].recovered < feed.at - Retention)
      BY <1>2, <1>3, <2>1, <2>2, <2>3
    <2>5. buffer[t] # None
      BY <1>1, <1>2, <2>1, <2>2, <2>4, Settled(r) DEF RowFound
    <2> QED BY <2>2, <2>5 DEF Buffered
  <1> QED BY <1>4

LEMMA NextGroupKeeps == ASSUME RuleIInv, NEW g \in Terms, NextGroup(g) PROVE RuleIInv'
  <1>1. /\ TypeOK /\ FInv /\ PollShape /\ PollTimes /\ (\A q \in Rules : RowInv(q)) /\ FeedUntouched
        /\ UNCHANGED <<feedVars, rule, matches, told, before, raced, owes, served, edits>>
        /\ poll # None /\ poll.at = "run" /\ poll.group = None /\ g \in poll.left
    BY FeedVarsUntouched DEF RuleIInv, NextGroup
  <1> DEFINE rows == {r \in Held : poll.held[r].terms = g}
  <1>2. PICK at : at = IF Gap /\ Pending(rows) # {} THEN "search" ELSE "run"
    OBVIOUS
  <1>3. poll' = [poll EXCEPT !.group = g, !.left = @ \ {g}, !.rows = rows, !.start = now, !.at = at]
    BY <1>2 DEF NextGroup
  <1>4. /\ rows \in SUBSET Rules /\ now \in 0..MaxTime /\ at \in {"run", "search"}
        /\ (at # "search" /\ Gap => Pending(rows) = {})
    BY <1>1, <1>2 DEF Held, TypeOK, FeedTypeOK
  <1> HIDE DEF rows
  <1>5. /\ poll' \in Polls /\ PollMoves /\ poll'.at = at /\ poll'.left = poll.left \ {g} /\ poll'.group = g
        /\ poll'.rows = rows /\ poll'.row = poll.row /\ poll'.todo = poll.todo /\ poll'.start = now
        /\ poll'.failed = poll.failed /\ poll'.retries = poll.retries
    <2>1. /\ poll.left \ {g} \in SUBSET Terms /\ poll.row \in Rules \cup {None} /\ poll.todo \in SUBSET Topics
          /\ poll.failed \in BOOLEAN /\ poll.retries \in BOOLEAN /\ poll \in Polls
      BY <1>1, PollFields
    <2>2. /\ poll' \in Polls /\ poll'.full = poll.full /\ poll'.held = poll.held
          /\ poll'.at = at /\ poll'.left = poll.left \ {g} /\ poll'.group = g
          /\ poll'.rows = rows /\ poll'.row = poll.row /\ poll'.todo = poll.todo /\ poll'.start = now
          /\ poll'.failed = poll.failed /\ poll'.retries = poll.retries
      BY <1>1, <1>3, <1>4, <2>1 DEF Polls
    <2> QED BY <2>2, PollMoved
  <1>6. rows = GroupRows' /\ rows \subseteq Held /\ (\A r \in Held : r \in rows <=> poll.held[r].terms = g)
    BY <1>5 DEF rows, PollMoves
  <1>7. FInv'
    BY <1>1, FeedStays
  <1>8. TypeOK'
    BY <1>1, <1>5, <1>7, TypedStep DEF TypeOK
  <1>9. g # None /\ poll.rows = {} /\ poll.row = None /\ poll.todo = {}
    BY <1>1, NoNone DEF PollShape
  <1>10. PollShape'
    <2>1. g \notin poll'.left /\ poll'.at \notin {"feed", "direct", "row", "enrich"}
      BY <1>4, <1>5
    <2> QED BY <1>5, <1>6, <1>9, <2>1 DEF PollShape
  <1>11. PollTimes'
    <2>1. feed # None /\ feed.at <= now /\ now <= now
      BY <1>1, <1>4, RowFacts DEF PollTimes, FInv, FeedTypeOK
    <2> QED BY <1>1, <1>5, <2>1 DEF PollTimes, FeedUntouched, Past
  <1>12. ASSUME NEW r \in Rules PROVE RowInv(r)'
    <2>1. RowInv(r) /\ RowUntouched(r)
      BY <1>1, SameRule, UntouchedHistory
    <2>2. RowTimed(r)' /\ RowFound(r)' /\ RowSilent(r)'
      BY <1>1, <2>1, RowStays DEF RowInv
    <2>3. (Settled(r)' <=> Settled(r)) /\ (Watches(r)' <=> Watches(r)) /\ (Gap' <=> Gap) /\ Buffered' = Buffered
      BY <1>1, <2>1, RowViews, FeedViews
    <2>4. RowSame(r)'
      <3>1. r \in rows => (r \in Held => poll.held[r].terms \in poll.left)
        BY <1>1, <1>6
      <3>2. poll'.left \subseteq poll.left /\ RowLike(rule'[r], rule[r]) /\ rule'[r] = rule[r]
        BY <1>1, <1>5, SameRule
      <3> QED BY <1>1, <1>5, <2>1, <2>3, <3>1, <3>2, SameStays DEF RowInv
    <2>5. RowCovered(r)'
      <3>1. SUFFICES ASSUME Gap, ~poll.retries, r \in Held, Watches(r)
                     PROVE  /\ r \in rows /\ at # "search" => Lost(r) \subseteq Buffered
                            /\ r \notin rows /\ poll.held[r].terms \notin poll.left \ {g} =>
                                 Lost(r) = {} \/ rule[r].error
        <4>1. Held' = Held /\ poll'.held = poll.held /\ poll'.row = None /\ r # None
          BY <1>5, <1>9, NoNone DEF PollMoves
        <4>2. rule' = rule /\ (rule[r] # None => Lost(r)' = Lost(r))
          BY <1>1, <2>1, RowViews
        <4> QED BY <1>5, <2>3, <3>1, <4>1, <4>2 DEF RowCovered, Watches
      <3>2. Settled(r) /\ rule[r] # None
        BY <3>1 DEF Watches, Settled
      <3>3. ASSUME r \in rows, at # "search" PROVE Lost(r) \subseteq Buffered
        <4>1. poll.held[r].terms \in poll.left
          BY <1>1, <1>6, <3>1, <3>3
        <4>2. ~poll.held[r].baseline /\ rule[r].recovered = poll.held[r].recovered
          BY <1>1, <2>1, <3>1, <3>2, <4>1 DEF RowInv, RowSame
        <4>3. CaughtUp(poll.held[r])
          BY <1>4, <3>1, <3>3, <4>2 DEF Pending
        <4>4. CaughtUp(rule[r])
          BY <4>2, <4>3 DEF CaughtUp
        <4> QED BY <3>1, <3>2, <4>4, CaughtUpHolds
      <3>4. ASSUME r \notin rows, poll.held[r].terms \notin poll.left \ {g} PROVE Lost(r) = {} \/ rule[r].error
        <4>1. r \notin poll.rows /\ poll.held[r].terms \notin poll.left /\ poll.held[r].terms # None
          BY <1>1, <1>6, <1>9, <3>1, <3>4, HeldFields
        <4> QED BY <1>1, <2>1, <3>1, <4>1 DEF RowInv, RowCovered
      <3> QED BY <3>3, <3>4
    <2> QED BY <2>2, <2>4, <2>5 DEF RowInv
  <1> QED BY <1>7, <1>8, <1>10, <1>11, <1>12 DEF RuleIInv

LEMMA SearchFailsKeeps == ASSUME RuleIInv, NEW final \in BOOLEAN, SearchFails(final) PROVE RuleIInv'
  <1>1. /\ TypeOK /\ FInv /\ PollShape /\ PollTimes /\ (\A q \in Rules : RowInv(q)) /\ FeedUntouched
        /\ UNCHANGED <<feedVars, rule, matches, told, before, raced, owes, served, edits>>
        /\ poll # None /\ poll.at = "search"
    BY FeedVarsUntouched DEF RuleIInv, SearchFails
  <1>2. poll' = [poll EXCEPT !.at = "run", !.failed = TRUE, !.retries = @ \/ ~final]
    BY DEF SearchFails
  <1>3. /\ poll' \in Polls /\ PollMoves /\ poll'.at = "run" /\ poll'.left = poll.left /\ poll'.group = poll.group
        /\ poll'.rows = poll.rows /\ poll'.row = poll.row /\ poll'.todo = poll.todo /\ poll'.start = poll.start
        /\ poll'.failed = TRUE /\ poll'.retries = (poll.retries \/ ~final)
    <2>1. /\ poll.left \in SUBSET Terms /\ poll.row \in Rules \cup {None} /\ poll.todo \in SUBSET Topics
          /\ poll.group \in Terms \cup {None} /\ poll.rows \in SUBSET Rules /\ poll.start \in 0..MaxTime
          /\ (poll.retries \/ ~final) \in BOOLEAN /\ poll \in Polls
      BY <1>1, PollFields
    <2>2. /\ poll' \in Polls /\ poll'.full = poll.full /\ poll'.held = poll.held
          /\ poll'.at = "run" /\ poll'.left = poll.left /\ poll'.group = poll.group
          /\ poll'.rows = poll.rows /\ poll'.row = poll.row /\ poll'.todo = poll.todo /\ poll'.start = poll.start
          /\ poll'.failed = TRUE /\ poll'.retries = (poll.retries \/ ~final)
      BY <1>1, <1>2, <2>1 DEF Polls
    <2> QED BY <2>2, PollMoved
  <1>4. FInv'
    BY <1>1, FeedStays
  <1>5. TypeOK'
    BY <1>1, <1>3, <1>4, TypedStep DEF TypeOK
  <1>6. PollShape' /\ PollTimes'
    <2>1. GroupRows' = GroupRows
      BY <1>3 DEF PollMoves, GroupRows
    <2>2. PollShape'
      BY <1>1, <1>3, <2>1 DEF PollShape, PollMoves
    <2>3. PollTimes'
      BY <1>1, <1>3 DEF PollTimes, FeedUntouched, Past
    <2> QED BY <2>2, <2>3
  <1>7. ASSUME NEW r \in Rules PROVE RowInv(r)'
    <2>1. RowInv(r) /\ RowUntouched(r)
      BY <1>1, SameRule, UntouchedHistory
    <2>2. RowTimed(r)' /\ RowFound(r)' /\ RowSilent(r)'
      BY <1>1, <2>1, RowStays DEF RowInv
    <2>3. (Settled(r)' <=> Settled(r)) /\ (Watches(r)' <=> Watches(r)) /\ (Gap' <=> Gap)
      BY <1>1, <2>1, RowViews, FeedViews
    <2>4. RowSame(r)'
      BY <1>1, <1>3, <2>1, <2>3, SameRule, SameStays DEF RowInv
    <2>5. RowCovered(r)'
      <3>1. rule[r] # None => Lost(r)' = Lost(r)
        BY <1>1, <2>1, RowViews
      <3> QED BY <1>1, <1>3, <2>1, <2>3, <3>1 DEF RowInv, RowCovered, PollMoves, Watches
    <2> QED BY <2>2, <2>4, <2>5 DEF RowInv
  <1> QED BY <1>4, <1>5, <1>6, <1>7 DEF RuleIInv

\* What a search of the group has found, and the rows it has marked.
LEMMA SearchFindsMarks ==
  ASSUME TypeOK, NEW complete \in BOOLEAN, SearchFinds(complete)
  PROVE  \E found \in Results(complete), marked \in SUBSET GroupRows, failed \in BOOLEAN, retries \in BOOLEAN :
           /\ CatchUp([t \in Topics |-> IF t \in found THEN listed[t] ELSE None])
           /\ rule' \in [Rules -> RuleRows \cup {None}]
           /\ \A r \in Rules : /\ RowLike(rule'[r], rule[r])
                               /\ rule[r] # None => (rule[r].error => rule'[r].error)
                               /\ r \notin marked => rule'[r] = rule[r]
                               /\ r \in marked => rule'[r].recovered = poll.start
           /\ poll' = [poll EXCEPT !.at = "run", !.failed = failed, !.retries = retries]
           /\ poll.failed => failed
           /\ poll.retries => retries
           /\ marked # {} => complete
           /\ failed \/ complete
           /\ ~retries => failed \/ marked = GroupRows
  <1>1. /\ poll # None /\ poll.failed \in BOOLEAN /\ poll.retries \in BOOLEAN /\ GroupRows \subseteq Rules
        /\ rule \in [Rules -> RuleRows \cup {None}] /\ poll \in Polls
    BY PollFields DEF SearchFinds, TypeOK
  <1>2. PICK found \in Results(complete) : CatchUp([t \in Topics |-> IF t \in found THEN listed[t] ELSE None])
    BY DEF SearchFinds
  <1>3. CASE ~complete
    <2>1. rule' = rule /\ poll' = [poll EXCEPT !.at = "run", !.failed = TRUE]
      BY <1>3 DEF SearchFinds
    <2>2. poll' = [poll EXCEPT !.at = "run", !.failed = TRUE, !.retries = poll.retries]
      BY <1>1, <2>1 DEF Polls
    <2>3. \A r \in Rules : /\ RowLike(rule'[r], rule[r])
                           /\ rule[r] # None => (rule[r].error => rule'[r].error)
                           /\ rule'[r] = rule[r]
      BY <2>1, SameRule
    <2>4. rule' \in [Rules -> RuleRows \cup {None}] /\ {} \in SUBSET GroupRows
      BY <1>1, <2>1
    <2> USE <1>1
    <2> WITNESS found \in Results(complete), {} \in SUBSET GroupRows, TRUE \in BOOLEAN, poll.retries \in BOOLEAN
    <2> QED BY <1>1, <1>2, <1>3, <2>2, <2>3, <2>4
  <1>4. CASE complete /\ \A r \in GroupRows : rule[r] # None
    <2>1. rule' = Recovered(GroupRows) /\ poll' = [poll EXCEPT !.at = "run"]
      BY <1>4 DEF SearchFinds
    <2>2. poll' = [poll EXCEPT !.at = "run", !.failed = poll.failed, !.retries = poll.retries]
      BY <1>1, <2>1 DEF Polls
    <2>3. GroupRows \in SUBSET {r \in Rules : rule[r] # None}
      BY <1>1, <1>4
    <2>4. /\ rule' \in [Rules -> RuleRows \cup {None}]
          /\ \A r \in Rules : /\ RowLike(rule'[r], rule[r])
                              /\ rule[r] # None => (rule[r].error => rule'[r].error)
                              /\ r \notin GroupRows => rule'[r] = rule[r]
                              /\ r \in GroupRows => rule'[r].recovered = poll.start
      BY <1>1, <2>1, <2>3, RecoveredRows
    <2> QED BY <1>1, <1>2, <1>4, <2>2, <2>4
  <1>5. CASE complete /\ ~(\A r \in GroupRows : rule[r] # None)
    <2>1. PICK marked \in SUBSET {r \in GroupRows : rule[r] # None} :
            /\ rule' = Recovered(marked)
            /\ poll' = [poll EXCEPT !.at = "run", !.failed = TRUE, !.retries = TRUE]
      BY <1>5 DEF SearchFinds
    <2>2. marked \in SUBSET {r \in Rules : rule[r] # None} /\ marked \in SUBSET GroupRows
      BY <1>1
    <2>3. /\ rule' \in [Rules -> RuleRows \cup {None}]
          /\ \A r \in Rules : /\ RowLike(rule'[r], rule[r])
                              /\ rule[r] # None => (rule[r].error => rule'[r].error)
                              /\ r \notin marked => rule'[r] = rule[r]
                              /\ r \in marked => rule'[r].recovered = poll.start
      BY <1>1, <2>1, <2>2, RecoveredRows
    <2> QED BY <1>1, <1>2, <1>5, <2>1, <2>2, <2>3
  <1> QED BY <1>3, <1>4, <1>5

LEMMA SearchFindsKeeps == ASSUME RuleIInv, NEW complete \in BOOLEAN, SearchFinds(complete) PROVE RuleIInv'
  <1>1. /\ TypeOK /\ FInv /\ FeedTypeOK /\ PollShape /\ PollTimes /\ (\A q \in Rules : RowInv(q))
        /\ UNCHANGED <<matches, told, before, raced, owes, served, edits>>
        /\ poll # None /\ poll.at = "search" /\ poll \in Polls /\ poll.start \in Int
        /\ now \in Int /\ offset \in Int /\ GroupRows \subseteq Held
    BY Clocks, PollFields DEF RuleIInv, SearchFinds, TypeOK
  <1>2. PICK found \in Results(complete), marked \in SUBSET GroupRows, failed \in BOOLEAN, retries \in BOOLEAN :
           /\ CatchUp([t \in Topics |-> IF t \in found THEN listed[t] ELSE None])
           /\ rule' \in [Rules -> RuleRows \cup {None}]
           /\ \A r \in Rules : /\ RowLike(rule'[r], rule[r])
                               /\ rule[r] # None => (rule[r].error => rule'[r].error)
                               /\ r \notin marked => rule'[r] = rule[r]
                               /\ r \in marked => rule'[r].recovered = poll.start
           /\ poll' = [poll EXCEPT !.at = "run", !.failed = failed, !.retries = retries]
           /\ poll.failed => failed
           /\ poll.retries => retries
           /\ marked # {} => complete
           /\ failed \/ complete
           /\ ~retries => failed \/ marked = GroupRows
    BY <1>1, SearchFindsMarks, Zenon
  <1>3. PICK results : results = [t \in Topics |-> IF t \in found THEN listed[t] ELSE None]
    OBVIOUS
  <1>4. /\ CatchUp(results) /\ results \in Listings
        /\ \A t \in Topics : results[t] = IF t \in found THEN listed[t] ELSE None
    BY <1>1, <1>2, <1>3 DEF Listings, FeedTypeOK
  <1>5. Gap /\ feed.gap # None /\ feed # None /\ Begins = feed.gap
    BY <1>4 DEF CatchUp, Gap, Begins
  <1>6. complete => \A t \in poll.group :
          listed[t] # None /\ listed[t] >= feed.gap /\ listed[t] - offset < poll.start => t \in found
    BY <1>2 DEF Results
  <1>7. FInv' /\ UNCHANGED <<world, cache, feed, shown>>
    <2>1. Past(results, now)
      BY <1>1, <1>4 DEF Past, FInv, ListedInv
    <2>2. ASSUME NEW t \in Topics, results[t] # None, shown[t] # None PROVE results[t] >= shown[t]
      <3>1. results[t] = listed[t] /\ shown[t] \in Int /\ t \in Entries(shown)
        BY <1>1, <1>4, <2>2, StampInt DEF FeedTypeOK
      <3>2. listed[t] = shown[t] \/ listed[t] > shown[t]
        BY <1>1, <2>2, <3>1 DEF FInv, ListedInv, Advances
      <3> QED BY <1>1, <2>2, <3>1, <3>2, StampInt DEF FeedTypeOK
    <2> QED BY <1>1, <1>4, <2>1, <2>2, CatchUpKeeps
  <1>8. /\ UNCHANGED <<now, offset, listed, feed, shown>>
        /\ skipped' = {t \in skipped : ~Holds(buffer', t, shown[t])}
        /\ \A t \in Topics : results[t] # None =>
             buffer'[t] # None /\ buffer'[t].at = results[t] /\ buffer'[t].seen = now
        /\ \A t \in Topics : results[t] = None => buffer'[t] = buffer[t]
    BY <1>1, <1>4, <1>7, BufferHolds DEF CatchUp, world
  <1>9. Buffered \subseteq Buffered' /\ (Gap' <=> Gap) /\ Begins' = Begins
    BY <1>8 DEF Buffered, Gap, Begins
  <1>10. /\ poll' \in Polls /\ PollMoves /\ poll'.at = "run" /\ poll'.left = poll.left /\ poll'.group = poll.group
         /\ poll'.rows = poll.rows /\ poll'.row = poll.row /\ poll'.todo = poll.todo /\ poll'.start = poll.start
         /\ poll'.failed = failed /\ poll'.retries = retries
    <2>1. /\ poll' \in Polls /\ poll'.full = poll.full /\ poll'.held = poll.held
          /\ poll'.at = "run" /\ poll'.left = poll.left /\ poll'.group = poll.group
          /\ poll'.rows = poll.rows /\ poll'.row = poll.row /\ poll'.todo = poll.todo /\ poll'.start = poll.start
          /\ poll'.failed = failed /\ poll'.retries = retries
      BY <1>1, <1>2 DEF Polls
    <2> QED BY <2>1, PollMoved
  <1>11. /\ poll.group # None /\ poll.rows = GroupRows /\ poll.group \notin poll.left /\ poll.row = None
         /\ feed.at <= poll.start /\ poll.start <= now
         /\ \A r \in GroupRows : r \in Held /\ poll.held[r].terms = poll.group
    BY <1>1 DEF PollShape, PollTimes, GroupRows
  <1>12. TypeOK'
    BY <1>1, <1>2, <1>7, <1>10, TypedStep DEF RowLike
  <1>13. PollShape' /\ PollTimes'
    <2>1. GroupRows' = GroupRows
      BY <1>10 DEF PollMoves, GroupRows
    <2>2. PollShape'
      BY <1>1, <1>10, <1>11, <2>1 DEF PollShape, PollMoves
    <2>3. PollTimes'
      BY <1>1, <1>8, <1>10 DEF PollTimes, Past
    <2> QED BY <2>2, <2>3
  <1>14. ASSUME NEW r \in Rules PROVE RowInv(r)'
    <2>1. /\ RowInv(r) /\ (Settled(r)' <=> Settled(r)) /\ (Watches(r)' <=> Watches(r))
          /\ RowLike(rule'[r], rule[r]) /\ (rule[r] # None => rule'[r].terms = rule[r].terms)
          /\ (r \notin marked => rule'[r] = rule[r])
          /\ (r \in marked => rule'[r].recovered = poll.start /\ complete /\ r \in GroupRows)
          /\ (rule[r] # None => (rule[r].error => rule'[r].error))
      BY <1>1, <1>2 DEF RowLike, Settled, Watches
    <2>2. RowTimed(r)'
      BY <1>1, <1>5, <1>8, <1>11, <2>1 DEF RowInv, RowTimed, RowLike
    <2>3. ASSUME Settled(r), r \in GroupRows PROVE rule[r].terms = poll.group
      BY <1>1, <1>11, <2>1, <2>3 DEF RowInv, RowSame
    <2>4. RowFound(r)'
      <3>1. SUFFICES ASSUME Settled(r), rule'[r].recovered # None, NEW t \in rule[r].terms,
                            listed[t] # None, listed[t] >= feed.gap,
                            listed[t] - offset >= owes[r], listed[t] - offset < rule'[r].recovered
                     PROVE  \/ buffer'[t] # None /\ buffer'[t].seen >= rule'[r].recovered
                            \/ rule'[r].recovered < feed.at - Retention
        BY <1>1, <1>5, <1>8, <1>9, <2>1 DEF RowFound, Settled
      <3>2. t \in Topics /\ rule[r] # None
        BY <1>1, <3>1, RuleFields DEF Settled
      <3>3. CASE r \in marked
        <4>1. t \in found
          BY <1>6, <2>1, <2>3, <3>1, <3>3
        <4>2. buffer'[t] # None /\ buffer'[t].seen = now
          BY <1>4, <1>8, <3>1, <3>2, <4>1
        <4> QED BY <1>1, <1>11, <2>1, <3>3, <4>2
      <3>4. CASE r \notin marked
        <4>1. rule'[r].recovered = rule[r].recovered /\ rule[r].recovered \in Int /\ rule[r].recovered <= now
          BY <1>1, <2>1, <3>1, <3>2, <3>4, RuleFields, FeedAssumption DEF RowInv, RowTimed
        <4>2. \/ buffer[t] # None /\ buffer[t].seen >= rule[r].recovered
              \/ rule[r].recovered < feed.at - Retention
          BY <1>5, <2>1, <3>1, <4>1 DEF RowInv, RowFound
        <4> QED BY <1>1, <1>8, <3>2, <4>1, <4>2
      <3> QED BY <3>3, <3>4
    <2>5. RowSilent(r)'
      BY <1>1, <1>9, <2>1 DEF RowInv, RowSilent, RowLike
    <2>6. RowSame(r)'
      <3>1. r \in Held /\ poll.held[r].terms \in poll'.left => rule'[r].recovered = rule[r].recovered
        BY <1>10, <1>11, <2>1
      <3> QED BY <1>1, <1>10, <2>1, <3>1, SameStays DEF RowInv
    <2>7. RowCovered(r)'
      <3>1. SUFFICES ASSUME r \in Held, Watches(r), ~retries
                     PROVE  /\ r \in poll.rows => failed \/ Lost(r)' = {}
                            /\ r \notin poll.rows /\ poll.held[r].terms \notin poll.left =>
                                 Lost(r)' = {} \/ rule'[r].error \/ (poll.group = poll.held[r].terms /\ failed)
        BY <1>10, <2>1, NoNone DEF RowCovered, PollMoves
      <3>2. Settled(r) /\ rule[r] # None /\ ~poll.retries
        BY <1>2, <3>1 DEF Watches, Settled
      <3>3. Lost(r)' \subseteq Lost(r)
        BY <1>1, <1>8, <2>1, <3>2 DEF Lost, Missed
      <3>4. ASSUME r \in poll.rows, ~failed, NEW t \in Lost(r)' PROVE FALSE
        <4>1. /\ t \in rule[r].terms /\ listed[t] = shown[t] /\ shown[t] >= feed.gap
              /\ t \in skipped /\ ~Holds(buffer', t, shown[t])
          BY <1>8, <2>1, <3>2, <3>4 DEF Lost, Missed
        <4>2. t \in Topics /\ shown[t] # None /\ shown[t] \in Int
          BY <1>1, <4>1, EntryInt DEF FInv, SkippedInv, FeedTypeOK
        <4>3. shown[t] - offset < poll.start
          <5>1. shown[t] - offset < feed.at /\ feed.at \in Int
            BY <1>1, <1>5, <4>2, RowFacts DEF PollTimes, Past
          <5> QED BY <1>1, <1>11, <4>2, <5>1
        <4>4. t \in found
          BY <1>2, <1>6, <1>11, <2>3, <3>2, <3>4, <4>1, <4>2, <4>3
        <4>5. buffer'[t] # None /\ buffer'[t].at = shown[t]
          BY <1>4, <1>8, <4>1, <4>2, <4>4
        <4> QED BY <4>1, <4>2, <4>5 DEF Holds
      <3>5. ASSUME r \notin poll.rows, poll.held[r].terms \notin poll.left
            PROVE  Lost(r)' = {} \/ rule'[r].error \/ (poll.group = poll.held[r].terms /\ failed)
        <4>1. Lost(r) = {} \/ rule[r].error \/ (poll.group = poll.held[r].terms /\ poll.failed)
          BY <1>1, <1>5, <2>1, <3>1, <3>2, <3>5 DEF RowInv, RowCovered
        <4> QED BY <1>2, <2>1, <3>2, <3>3, <4>1
      <3> QED BY <3>4, <3>5
    <2> QED BY <2>2, <2>4, <2>5, <2>6, <2>7 DEF RowInv
  <1> QED BY <1>7, <1>12, <1>13, <1>14 DEF RuleIInv

\* A rule without a baseline may be marked at any time.
LEMMA RowMarked ==
  ASSUME NEW r \in Rules, FeedUntouched, UNCHANGED <<matches, told, before, raced, owes, served>>,
         RowLike(rule'[r], rule[r]), rule[r] # None => (rule[r].error => rule'[r].error),
         \/ rule[r] # None => rule'[r].recovered = rule[r].recovered
         \/ ~Settled(r) /\ rule'[r].recovered = poll.start /\ poll.start <= now /\ feed # None,
         RowTimed(r), RowFound(r), RowSilent(r)
  PROVE  /\ RowTimed(r)' /\ RowFound(r)' /\ RowSilent(r)'
         /\ (Settled(r)' <=> Settled(r)) /\ (Watches(r)' <=> Watches(r))
         /\ (rule[r] # None => Lost(r)' = Lost(r))
  <1>1. CASE rule[r] # None => rule'[r].recovered = rule[r].recovered
    <2>1. RowUntouched(r)
      BY <1>1 DEF RowUntouched
    <2> QED BY <2>1, RowStays, RowViews
  <1>2. CASE ~Settled(r) /\ rule'[r].recovered = poll.start /\ poll.start <= now /\ feed # None
    <2>1. (Settled(r)' <=> Settled(r)) /\ (Watches(r)' <=> Watches(r)) /\ ~Watches(r)
      BY <1>2 DEF RowLike, Settled, Watches
    <2>2. RowTimed(r)'
      BY <1>2 DEF RowTimed, FeedUntouched
    <2>3. RowFound(r)'
      BY <1>2, <2>1 DEF RowFound
    <2>4. RowSilent(r)'
      BY FeedViews DEF RowSilent, RowLike
    <2>5. ASSUME rule[r] # None PROVE Lost(r)' = Lost(r)
      <3>1. rule'[r].terms = rule[r].terms
        BY <2>5 DEF RowLike
      <3> QED BY <3>1 DEF Lost, Missed, FeedUntouched
    <2> QED BY <2>1, <2>2, <2>3, <2>4, <2>5
  <1> QED BY <1>1, <1>2

LEMMA LaneDiesKeeps ==
  ASSUME RuleIInv, poll # None, UNCHANGED <<feedVars, matches, told, before, raced, owes, served, edits>>,
         NEW state \in [Rules -> RuleRows \cup {None}], LaneDies(state),
         \A r \in Rules :
           /\ RowLike(state[r], rule[r])
           /\ rule[r] # None => (rule[r].error => state[r].error)
           /\ \/ rule[r] # None => state[r].recovered = rule[r].recovered
              \/ /\ rule[r] # None /\ ~Settled(r) /\ state[r].recovered = poll.start
                 /\ poll.start <= now /\ feed # None
  PROVE  RuleIInv'
  <1>1. /\ TypeOK /\ FInv /\ PollTimes /\ (\A q \in Rules : RowInv(q)) /\ FeedUntouched
        /\ poll' = None /\ ErrorOn(GroupRows, state) /\ GroupRows \in SUBSET Rules
    BY FeedVarsUntouched, PollFields DEF RuleIInv, LaneDies
  <1>2. \A r \in Rules : state[r] = None <=> rule[r] = None
    BY DEF RowLike
  <1>3. /\ rule' \in [Rules -> RuleRows \cup {None}]
        /\ \A r \in Rules :
              /\ RowLike(rule'[r], state[r])
              /\ rule[r] # None => /\ rule'[r].recovered = state[r].recovered
                                   /\ state[r].error => rule'[r].error
    BY <1>1, <1>2, ErrorStored
  <1>4. \A r \in Rules :
          /\ RowLike(rule'[r], rule[r])
          /\ rule[r] # None => (rule[r].error => rule'[r].error)
          /\ \/ rule[r] # None => rule'[r].recovered = rule[r].recovered
             \/ ~Settled(r) /\ rule'[r].recovered = poll.start /\ poll.start <= now /\ feed # None
    BY <1>3 DEF RowLike
  <1>5. FInv'
    BY <1>1, FeedStays
  <1>6. TypeOK'
    BY <1>1, <1>3, <1>4, <1>5, TypedStep DEF RowLike
  <1>7. \A r \in Rules : RowInv(r)'
    BY <1>1, <1>4, RowMarked, PollEnds DEF RowInv
  <1>8. PollShape' /\ PollTimes'
    BY <1>1, PollEnds DEF PollTimes, FeedUntouched, Past
  <1> QED BY <1>5, <1>6, <1>7, <1>8 DEF RuleIInv

LEMMA StartRowsKeeps == ASSUME RuleIInv, StartRows PROVE RuleIInv'
  <1>1. /\ TypeOK /\ FInv /\ PollShape /\ PollTimes /\ (\A q \in Rules : RowInv(q)) /\ FeedUntouched
        /\ UNCHANGED <<feedVars, matches, told, before, raced, owes, served, edits>>
        /\ poll # None /\ poll.at = "run" /\ poll.group # None /\ poll \in Polls
        /\ GroupRows \subseteq Held /\ Held \subseteq Rules /\ rule \in [Rules -> RuleRows \cup {None}]
    BY FeedVarsUntouched, PollFields DEF RuleIInv, StartRows, TypeOK
  <1>2. /\ poll.rows = GroupRows /\ poll.group \notin poll.left /\ poll.row = None /\ poll.todo = {}
        /\ feed # None /\ poll.start <= now
        /\ \A r \in GroupRows : poll.held[r].terms = poll.group
    BY <1>1 DEF PollShape, PollTimes, GroupRows
  <1> DEFINE baseline == {r \in GroupRows : poll.held[r].baseline}
             there == {r \in baseline : rule[r] # None}
  <1>3. \A r \in baseline : r \in Rules /\ ~Settled(r)
    BY <1>1, <1>2 DEF RowInv, RowSame
  <1>4. ASSUME NEW marked \in SUBSET there
        PROVE  /\ Recovered(marked) \in [Rules -> RuleRows \cup {None}]
               /\ \A r \in Rules :
                    /\ RowLike(Recovered(marked)[r], rule[r])
                    /\ rule[r] # None => Recovered(marked)[r].error = rule[r].error
                    /\ \/ rule[r] # None => Recovered(marked)[r].recovered = rule[r].recovered
                       \/ /\ rule[r] # None /\ ~Settled(r) /\ Recovered(marked)[r].recovered = poll.start
                          /\ poll.start <= now /\ feed # None
    <2>1. marked \in SUBSET {r \in Rules : rule[r] # None} /\ \A r \in marked : rule[r] # None /\ ~Settled(r)
      BY <1>3
    <2> QED BY <1>1, <1>2, <2>1, RecoveredRows
  <1>5. CASE Gap /\ there # baseline
    <2>1. PICK marked \in SUBSET there : LaneDies(Recovered(marked))
      BY <1>5 DEF StartRows
    <2>2. \A r \in Rules : rule[r] # None => (rule[r].error => Recovered(marked)[r].error)
      BY <1>4
    <2> QED BY <1>1, <1>4, <2>1, <2>2, LaneDiesKeeps
  <1>6. CASE ~(Gap /\ there # baseline)
    <2>1. rule' = (IF Gap THEN Recovered(baseline) ELSE rule) /\ poll' = [poll EXCEPT !.at = "row"]
      BY <1>6 DEF StartRows
    <2>2. Gap => baseline \in SUBSET there
      BY <1>6
    <2> HIDE DEF baseline, there
    <2>3. /\ rule' \in [Rules -> RuleRows \cup {None}]
          /\ \A r \in Rules :
                /\ RowLike(rule'[r], rule[r])
                /\ rule[r] # None => (rule[r].error => rule'[r].error)
                /\ \/ rule[r] # None => rule'[r].recovered = rule[r].recovered
                   \/ ~Settled(r) /\ rule'[r].recovered = poll.start /\ poll.start <= now /\ feed # None
      <3>1. CASE Gap
        BY <1>4, <2>1, <2>2, <3>1
      <3>2. CASE ~Gap
        BY <1>1, <2>1, <3>2, SameRule
      <3> QED BY <3>1, <3>2
    <2>4. /\ poll' \in Polls /\ PollMoves /\ poll'.at = "row" /\ poll'.left = poll.left /\ poll'.group = poll.group
          /\ poll'.rows = poll.rows /\ poll'.row = poll.row /\ poll'.todo = poll.todo /\ poll'.start = poll.start
          /\ poll'.failed = poll.failed /\ poll'.retries = poll.retries
      <3>1. /\ poll' \in Polls /\ poll'.full = poll.full /\ poll'.held = poll.held
            /\ poll'.at = "row" /\ poll'.left = poll.left /\ poll'.group = poll.group
            /\ poll'.rows = poll.rows /\ poll'.row = poll.row /\ poll'.todo = poll.todo /\ poll'.start = poll.start
            /\ poll'.failed = poll.failed /\ poll'.retries = poll.retries
        BY <1>1, <2>1 DEF Polls
      <3> QED BY <3>1, PollMoved
    <2>5. FInv'
      BY <1>1, FeedStays
    <2>6. TypeOK'
      BY <1>1, <2>3, <2>4, <2>5, TypedStep DEF RowLike
    <2>7. PollShape' /\ PollTimes'
      <3>1. GroupRows' = GroupRows
        BY <2>4 DEF PollMoves, GroupRows
      <3>2. PollShape'
        BY <1>1, <1>2, <2>4, <3>1 DEF PollShape, PollMoves
      <3>3. PollTimes'
        BY <1>1, <2>4 DEF PollTimes, FeedUntouched, Past
      <3> QED BY <3>2, <3>3
    <2>8. ASSUME NEW r \in Rules PROVE RowInv(r)'
      <3>1. /\ RowInv(r) /\ RowTimed(r)' /\ RowFound(r)' /\ RowSilent(r)'
            /\ (Settled(r)' <=> Settled(r)) /\ (Watches(r)' <=> Watches(r))
            /\ (rule[r] # None => Lost(r)' = Lost(r))
        BY <1>1, <2>3, RowMarked DEF RowInv
      <3>2. (Gap' <=> Gap) /\ Buffered' = Buffered
        BY <1>1, FeedViews
      <3>3. RowSame(r)'
        <4>1. Settled(r) => rule'[r].recovered = rule[r].recovered
          BY <2>3 DEF Settled
        <4> QED BY <1>1, <2>3, <2>4, <3>1, <4>1, SameStays DEF RowInv
      <3>4. RowCovered(r)'
        <4>1. SUFFICES ASSUME Watches(r) PROVE RowCovered(r)'
          BY <3>1 DEF RowCovered
        <4>2. rule[r] # None /\ Lost(r)' = Lost(r) /\ (rule[r].error => rule'[r].error)
          BY <2>3, <3>1, <4>1 DEF Watches
        <4> QED BY <1>1, <2>4, <3>1, <3>2, <4>1, <4>2 DEF RowInv, RowCovered, PollMoves
      <3> QED BY <3>1, <3>3, <3>4 DEF RowInv
    <2> QED BY <2>5, <2>6, <2>7, <2>8 DEF RuleIInv
  <1> QED BY <1>5, <1>6

(***************************************************************************)
(* processRuleMatches.                                                     *)
(***************************************************************************)

\* A match that the rule still watches for, of a row in its turn.
LEMMA CurrentRow ==
  ASSUME RuleIInv, poll # None, NEW r \in poll.rows, Settled(r)
  PROVE  rule[r].terms = poll.held[r].terms /\ ~poll.held[r].baseline
  <1>1. r \in Held /\ r \in Rules
    BY PollFields DEF RuleIInv, PollShape
  <1> QED BY <1>1 DEF RuleIInv, RowInv, RowSame

(***************************************************************************)
(* A row is evaluated.  A baseline has accepted all there is; any other    *)
(* row has nothing left to record, or its search has failed.               *)
(***************************************************************************)
LEMMA EvaluatedKeeps ==
  ASSUME RuleIInv, poll # None, poll.at = "row", NEW r \in poll.rows, poll.row \in {None, r}, Evaluated(r),
         UNCHANGED <<feedVars, told, before, served, edits>>,
         matches' = IF poll.held[r].baseline /\ StillCurrent(r) THEN [matches EXCEPT ![r] = @ \cup Candidates(r)]
                    ELSE matches,
         poll.held[r].baseline \/ poll.row = r \/ Candidates(r) = {}
  PROVE  RuleIInv'
  <1>1. /\ TypeOK /\ FInv /\ PollShape /\ PollTimes /\ (\A q \in Rules : RowInv(q)) /\ FeedUntouched
        /\ poll \in Polls /\ r \in Rules /\ r \in Held /\ poll.held[r].terms = poll.group
        /\ poll.group \notin poll.left /\ poll.group # None /\ poll.todo = {} /\ poll.rows \subseteq GroupRows
        /\ feed # None /\ now \in 0..MaxTime /\ None \notin Rules
        /\ rule \in [Rules -> RuleRows \cup {None}] /\ GroupRows \in SUBSET Rules
    BY FeedVarsUntouched, PollFields, NoNone DEF RuleIInv, TypeOK, FeedTypeOK, PollShape, GroupRows, PollTimes
  <1>2. CASE rule[r] = None
    <2>1. ~StillCurrent(r) /\ LaneDies(rule) /\ UNCHANGED <<raced, owes>>
      BY <1>2 DEF Evaluated, StillCurrent
    <2> QED BY <1>1, <2>1, SameRule, LaneDiesKeeps
  <1>3. CASE rule[r] # None
    <2>1. /\ rule' = [rule EXCEPT ![r].init = TRUE, ![r].error = FALSE]
          /\ raced' = [raced EXCEPT ![r] = @ \/ (~rule[r].init /\ ~(StillCurrent(r) /\ poll.held[r].baseline))]
          /\ owes' = [owes EXCEPT ![r] = IF rule[r].init THEN @ ELSE now]
          /\ poll' = [poll EXCEPT !.at = "row", !.rows = @ \ {r}, !.row = None]
      BY <1>3 DEF Evaluated
    <2>2. /\ rule'[r] \in RuleRows /\ rule'[r] # None /\ rule'[r].terms = rule[r].terms /\ rule'[r].on = rule[r].on
          /\ rule'[r].init = TRUE /\ rule'[r].recovered = rule[r].recovered
      <3>1. rule[r] \in RuleRows
        BY <1>1, <1>3, RuleFields
      <3>2. rule'[r] = [rule[r] EXCEPT !.init = TRUE, !.error = FALSE]
        BY <1>1, <2>1
      <3>3. rule'[r] \in RuleRows
        BY <3>1, <3>2 DEF RuleRows
      <3>4. rule'[r] # None
        BY <3>3, NoNone
      <3> QED BY <3>1, <3>2, <3>3, <3>4 DEF RuleRows
    <2>3. /\ raced'[r] = (raced[r] \/ (~rule[r].init /\ ~(StillCurrent(r) /\ poll.held[r].baseline)))
          /\ owes'[r] = IF rule[r].init THEN owes[r] ELSE now
      BY <1>1, <2>1 DEF TypeOK
    <2>4. /\ poll' \in Polls /\ PollMoves /\ poll'.at = "row" /\ poll'.left = poll.left /\ poll'.group = poll.group
          /\ poll'.rows = poll.rows \ {r} /\ poll'.row = None /\ poll'.todo = poll.todo /\ poll'.start = poll.start
          /\ poll'.failed = poll.failed /\ poll'.retries = poll.retries
      <3>1. /\ poll' \in Polls /\ poll'.full = poll.full /\ poll'.held = poll.held
            /\ poll'.at = "row" /\ poll'.left = poll.left /\ poll'.group = poll.group
            /\ poll'.rows = poll.rows \ {r} /\ poll'.row = None /\ poll'.todo = poll.todo /\ poll'.start = poll.start
            /\ poll'.failed = poll.failed /\ poll'.retries = poll.retries
        BY <1>1, <2>1 DEF Polls
      <3> QED BY <3>1, PollMoved
    <2>5. matches[r] \subseteq matches'[r] /\ matches' \in [Rules -> SUBSET Topics]
      BY <1>1 DEF TypeOK, Candidates, Buffered
    <2>6. FInv'
      BY <1>1, FeedStays
    <2>7. \A q \in Rules \ {r} : /\ rule'[q] = rule[q] /\ matches'[q] = matches[q]
                                 /\ raced'[q] = raced[q] /\ owes'[q] = owes[q]
      BY <1>1, <2>1 DEF TypeOK
    <2>8. TypeOK'
      <3>1. rule' \in [Rules -> RuleRows \cup {None}]
        BY <1>1, <2>1, <2>2
      <3>2. raced' \in [Rules -> BOOLEAN]
        BY <1>1, <2>1 DEF TypeOK
      <3>3. owes' \in [Rules -> 0..MaxTime]
        BY <1>1, <2>1 DEF TypeOK
      <3>4. \A q \in Rules : told'[q] \subseteq matches'[q] /\ (rule'[q] = None => matches'[q] = {})
        BY <1>1, <2>2, <2>5, <2>7 DEF TypeOK
      <3> QED BY <1>1, <2>4, <2>5, <2>6, <3>1, <3>2, <3>3, <3>4 DEF TypeOK, FInv
    <2>9. PollShape' /\ PollTimes'
      <3>1. GroupRows' = GroupRows
        BY <2>4 DEF PollMoves, GroupRows
      <3>2. PollShape'
        BY <1>1, <2>4, <3>1 DEF PollShape
      <3>3. PollTimes'
        BY <1>1, <2>4 DEF PollTimes, FeedUntouched, Past
      <3> QED BY <3>2, <3>3
    <2>10. ASSUME NEW q \in Rules \ {r} PROVE RowInv(q)'
      <3>1. RowUntouched(q) /\ RowInv(q) /\ RowLike(rule'[q], rule[q])
        BY <1>1, <2>7, SameRule DEF RowUntouched
      <3>2. /\ RowTimed(q)' /\ RowFound(q)' /\ RowSilent(q)' /\ (Settled(q)' <=> Settled(q))
            /\ (Watches(q)' <=> Watches(q)) /\ (rule[q] # None => Lost(q)' = Lost(q))
        BY <1>1, <3>1, RowStays, RowViews DEF RowInv
      <3>3. RowSame(q)'
        BY <1>1, <2>4, <2>7, <3>1, <3>2, SameStays DEF RowInv
      <3>4. RowCovered(q)'
        <4>1. SUFFICES ASSUME Watches(q) PROVE RowCovered(q)'
          BY <3>2 DEF RowCovered
        <4>2. rule[q] # None /\ Lost(q)' = Lost(q) /\ rule'[q] = rule[q]
          BY <2>7, <3>2, <4>1 DEF Watches
        <4>3. (Gap' <=> Gap) /\ Buffered' = Buffered
          BY <1>1, FeedViews
        <4>4. q # poll.row /\ q # None /\ (q \in poll'.rows <=> q \in poll.rows)
          BY <1>1, <2>4
        <4> QED BY <1>1, <2>4, <3>1, <3>2, <4>1, <4>2, <4>3, <4>4 DEF RowInv, RowCovered, PollMoves
      <3> QED BY <3>2, <3>3, <3>4 DEF RowInv
    <2>11. RowInv(r)'
      <3>1. RowTimed(r) /\ RowFound(r) /\ RowSilent(r) /\ RowCovered(r) /\ rule[r].init \in BOOLEAN
        BY <1>1, <1>3, RuleFields DEF RowInv
      <3>2. RowSame(r)'
        BY <1>1, <2>4 DEF RowSame, PollMoves
      <3>3. RowTimed(r)'
        <4>1. now <= now
          BY <1>1
        <4> QED BY <1>1, <1>3, <2>2, <2>3, <3>1, <4>1 DEF RowTimed, FeedUntouched
      <3>4. CASE Settled(r)
        <4>1. rule[r].terms = poll.held[r].terms /\ ~poll.held[r].baseline /\ rule[r].init /\ ~raced[r]
          BY <3>4, CurrentRow DEF Settled
        <4>2. matches' = matches /\ ~raced'[r] /\ owes'[r] = owes[r] /\ Settled(r)'
          BY <2>2, <2>3, <4>1 DEF Settled
        <4>3. RowFound(r)'
          <5>1. Begins' = Begins
            BY <1>1, FeedViews
          <5> QED BY <1>1, <2>2, <3>1, <3>4, <4>2, <5>1 DEF RowFound, FeedUntouched
        <4>4. RowSilent(r)'
          BY <1>3, <2>2, <3>1, <4>1, <4>2 DEF RowSilent
        <4>5. RowCovered(r)'
          <5>1. SUFFICES ASSUME Gap, ~poll.retries, Watches(r)' PROVE Lost(r)' = {} \/ poll.failed
            BY <1>1, <2>4, FeedViews DEF RowCovered, PollMoves
          <5>2. Watches(r)
            BY <1>3, <2>2, <3>4, <5>1 DEF Watches, Settled
          <5>3. poll.failed \/ Lost(r) \subseteq (IF r = poll.row THEN poll.todo ELSE Buffered)
            BY <1>1, <3>1, <5>1, <5>2 DEF RowCovered
          <5>4. Lost(r)' = Lost(r)
            BY <1>1, <2>2, <4>2 DEF Lost, Missed, FeedUntouched
          <5>5. CASE r = poll.row
            BY <1>1, <5>3, <5>4, <5>5
          <5>6. CASE r # poll.row
            <6>1. Candidates(r) = {}
              BY <4>1, <5>6
            <6>2. Lost(r) \cap Buffered \subseteq Candidates(r)
              BY <4>1 DEF Lost, Missed, Candidates
            <6> QED BY <5>3, <5>4, <5>6, <6>1, <6>2
          <5> QED BY <5>5, <5>6
        <4> QED BY <3>2, <3>3, <4>3, <4>4, <4>5 DEF RowInv
      <3>5. CASE ~Settled(r) /\ raced'[r]
        <4>1. ~Settled(r)' /\ ~Watches(r)'
          BY <3>5 DEF Settled, Watches
        <4> QED BY <3>2, <3>3, <3>5, <4>1 DEF RowInv, RowFound, RowSilent, RowCovered
      <3>6. CASE ~Settled(r) /\ ~raced'[r]
        <4>1. ~raced[r] /\ ~rule[r].init /\ StillCurrent(r) /\ poll.held[r].baseline /\ owes'[r] = now
          BY <1>3, <2>3, <3>1, <3>6 DEF Settled
        <4>2. rule[r].terms = poll.held[r].terms /\ matches'[r] = matches[r] \cup Candidates(r)
          BY <1>1, <4>1 DEF StillCurrent, TypeOK
        <4>3. before[r] \subseteq Buffered \cap rule[r].terms /\ told[r] = {}
          BY <1>3, <3>1, <4>1 DEF RowSilent
        <4>4. RowSilent(r)'
          <5>1. before[r] \subseteq matches'[r]
            BY <4>2, <4>3 DEF Candidates
          <5> QED BY <2>2, <4>3, <5>1 DEF RowSilent
        <4>5. now \in Int /\ offset \in Int /\ Past(listed, now) /\ Past(shown, now) /\ FeedTypeOK
          BY <1>1, Clocks DEF FInv, ListedInv
        <4>6. RowFound(r)'
          <5>1. \A t \in rule'[r].terms : t \in Topics
            BY <1>1, <1>3, <2>2, RuleFields
          <5>2. \A t \in Topics : listed[t] # None => ~(listed[t] - offset >= now)
            <6>1. \A t \in Topics : listed[t] # None => listed[t] \in Int
              BY <4>5, StampRange DEF FeedTypeOK
            <6> QED BY <4>5, <6>1 DEF Past
          <5> QED BY <1>1, <4>1, <5>1, <5>2 DEF RowFound, FeedUntouched
        <4>7. Lost(r)' = {}
          <5>1. SUFFICES ASSUME NEW t \in Lost(r)' PROVE FALSE
            OBVIOUS
          <5>2. t \in skipped /\ shown[t] - offset >= now
            BY <1>1, <4>1, <5>1 DEF Lost, Missed, FeedUntouched
          <5>3. t \in Topics /\ shown[t] # None /\ shown[t] \in Int /\ shown[t] - offset < now
            BY <1>1, <4>5, <5>2, EntryInt DEF FInv, SkippedInv, Past, FeedTypeOK
          <5> QED BY <4>5, <5>2, <5>3
        <4>8. RowCovered(r)'
          BY <4>7 DEF RowCovered
        <4> QED BY <3>2, <3>3, <4>4, <4>6, <4>8 DEF RowInv
      <3> QED BY <3>4, <3>5, <3>6
    <2> QED BY <2>6, <2>8, <2>9, <2>10, <2>11 DEF RuleIInv
  <1> QED BY <1>2, <1>3

LEMMA BaselineKeeps == ASSUME RuleIInv, NEW r \in Rules, Baseline(r) PROVE RuleIInv'
  BY EvaluatedKeeps DEF Baseline

LEMMA StartRowKeeps == ASSUME RuleIInv, NEW r \in Rules, StartRow(r) PROVE RuleIInv'
  <1>1. /\ TypeOK /\ FInv /\ PollShape /\ PollTimes /\ (\A q \in Rules : RowInv(q)) /\ FeedUntouched
        /\ UNCHANGED <<feedVars, matches, told, before, served, edits>>
        /\ poll # None /\ poll.at = "row" /\ poll.row = None /\ r \in poll.rows /\ ~poll.held[r].baseline
        /\ poll \in Polls /\ r \in Held /\ poll.held[r].terms = poll.group /\ r # None
    BY FeedVarsUntouched, PollFields, NoNone DEF RuleIInv, StartRow, PollShape, GroupRows
  <1>2. CASE Candidates(r) = {}
    <2>1. Evaluated(r)
      BY <1>2 DEF StartRow
    <2> QED BY <1>1, <1>2, <2>1, EvaluatedKeeps
  <1>3. CASE Candidates(r) # {}
    <2>1. /\ poll' = [poll EXCEPT !.at = "enrich", !.row = r, !.todo = Candidates(r)]
          /\ UNCHANGED <<rule, raced, owes>>
      BY <1>3 DEF StartRow
    <2>2. Candidates(r) \subseteq poll.group /\ Candidates(r) \in SUBSET Topics
      BY <1>1 DEF Candidates, Buffered
    <2>3. /\ poll' \in Polls /\ PollMoves /\ poll'.at = "enrich" /\ poll'.left = poll.left /\ poll'.group = poll.group
          /\ poll'.rows = poll.rows /\ poll'.row = r /\ poll'.todo = Candidates(r) /\ poll'.start = poll.start
          /\ poll'.failed = poll.failed /\ poll'.retries = poll.retries /\ poll'.held = poll.held
      <3>1. /\ poll' \in Polls /\ poll'.full = poll.full /\ poll'.held = poll.held
            /\ poll'.at = "enrich" /\ poll'.left = poll.left /\ poll'.group = poll.group
            /\ poll'.rows = poll.rows /\ poll'.row = r /\ poll'.todo = Candidates(r) /\ poll'.start = poll.start
            /\ poll'.failed = poll.failed /\ poll'.retries = poll.retries
        BY <1>1, <2>1, <2>2 DEF Polls
      <3> QED BY <3>1, PollMoved
    <2>4. FInv'
      BY <1>1, FeedStays
    <2>5. TypeOK'
      BY <1>1, <2>1, <2>3, <2>4, TypedStep DEF TypeOK
    <2>6. PollShape' /\ PollTimes'
      <3>1. GroupRows' = GroupRows
        BY <2>3 DEF PollMoves, GroupRows
      <3>2. PollShape'
        BY <1>1, <2>2, <2>3, <3>1 DEF PollShape, PollMoves
      <3>3. PollTimes'
        BY <1>1, <2>3 DEF PollTimes, FeedUntouched, Past
      <3> QED BY <3>2, <3>3
    <2>7. ASSUME NEW q \in Rules PROVE RowInv(q)'
      <3>1. RowUntouched(q) /\ RowInv(q) /\ RowLike(rule'[q], rule[q]) /\ rule'[q] = rule[q]
        BY <1>1, <2>1, SameRule, UntouchedHistory
      <3>2. /\ RowTimed(q)' /\ RowFound(q)' /\ RowSilent(q)' /\ (Settled(q)' <=> Settled(q))
            /\ (Watches(q)' <=> Watches(q)) /\ (rule[q] # None => Lost(q)' = Lost(q))
        BY <1>1, <3>1, RowStays, RowViews DEF RowInv
      <3>3. RowSame(q)'
        BY <1>1, <2>3, <3>1, <3>2, SameStays DEF RowInv
      <3>4. RowCovered(q)'
        <4>1. SUFFICES ASSUME Watches(q) PROVE RowCovered(q)'
          BY <3>2 DEF RowCovered
        <4>2. rule[q] # None /\ Lost(q)' = Lost(q) /\ Settled(q)
          BY <3>2, <4>1 DEF Watches, Settled
        <4>3. (Gap' <=> Gap) /\ Buffered' = Buffered /\ q # None
          BY <1>1, FeedViews, NoNone
        <4>4. q = r => Lost(q) \cap Buffered \subseteq Candidates(r)
          <5>1. q = r => rule[q].terms = poll.held[r].terms
            BY <1>1, <4>2, CurrentRow
          <5> QED BY <5>1 DEF Lost, Missed, Candidates
        <4> QED BY <1>1, <2>3, <3>1, <3>2, <4>1, <4>2, <4>3, <4>4 DEF RowInv, RowCovered, PollMoves
      <3> QED BY <3>2, <3>3, <3>4 DEF RowInv
    <2> QED BY <2>4, <2>5, <2>6, <2>7 DEF RuleIInv
  <1> QED BY <1>2, <1>3

LEMMA RowDoneKeeps == ASSUME RuleIInv, RowDone PROVE RuleIInv'
  <1>1. poll # None /\ poll.row # None /\ poll.row \in poll.rows /\ ~poll.held[poll.row].baseline
    BY DEF RuleIInv, PollShape, RowDone
  <1> QED BY <1>1, EvaluatedKeeps DEF RowDone

LEMMA EnrichedKeeps == ASSUME RuleIInv, NEW t \in Topics, Enriched(t) PROVE RuleIInv'
  <1>1. /\ TypeOK /\ FInv /\ PollShape /\ PollTimes /\ (\A q \in Rules : RowInv(q)) /\ FeedUntouched
        /\ UNCHANGED <<feedVars, rule, before, owes, served, edits>>
        /\ poll # None /\ poll.at = "enrich" /\ t \in poll.todo /\ poll \in Polls
    BY FeedVarsUntouched, PollFields DEF RuleIInv, Enriched
  <1>2. PICK r \in Rules : r = poll.row /\ r \in poll.rows /\ r \in Held /\ poll.held[r].terms = poll.group
    BY <1>1, PollFields DEF PollShape, GroupRows
  <1>3. PICK new \in BOOLEAN : new <=> StillCurrent(r) /\ t \notin matches[r]
    OBVIOUS
  <1>4. /\ matches' = IF new THEN [matches EXCEPT ![r] = @ \cup {t}] ELSE matches
        /\ told' = IF new THEN [told EXCEPT ![r] = @ \cup {t}] ELSE told
        /\ raced' = [raced EXCEPT ![r] = @ \/ (new /\ ~rule[r].init)]
    BY <1>2, <1>3 DEF Enriched
  <1>5. PICK at : at = IF poll.todo = {t} THEN "row" ELSE "enrich"
    OBVIOUS
  <1>6. poll' = [poll EXCEPT !.todo = @ \ {t}, !.at = at]
    BY <1>5 DEF Enriched
  <1>7. /\ poll' \in Polls /\ PollMoves /\ poll'.at = at /\ poll'.left = poll.left /\ poll'.group = poll.group
        /\ poll'.rows = poll.rows /\ poll'.row = r /\ poll'.todo = poll.todo \ {t} /\ poll'.start = poll.start
        /\ poll'.failed = poll.failed /\ poll'.retries = poll.retries
    <2>1. /\ poll' \in Polls /\ poll'.full = poll.full /\ poll'.held = poll.held
          /\ poll'.at = at /\ poll'.left = poll.left /\ poll'.group = poll.group
          /\ poll'.rows = poll.rows /\ poll'.row = r /\ poll'.todo = poll.todo \ {t} /\ poll'.start = poll.start
          /\ poll'.failed = poll.failed /\ poll'.retries = poll.retries
      BY <1>1, <1>2, <1>5, <1>6 DEF Polls
    <2> QED BY <2>1, PollMoved
  <1>8. FInv'
    BY <1>1, FeedStays
  <1>9. /\ \A q \in Rules \ {r} : matches'[q] = matches[q] /\ told'[q] = told[q] /\ raced'[q] = raced[q]
        /\ new => matches'[r] = matches[r] \cup {t} /\ told'[r] = told[r] \cup {t}
        /\ ~new => matches'[r] = matches[r] /\ told'[r] = told[r]
        /\ raced'[r] = (raced[r] \/ (new /\ ~rule[r].init))
    BY <1>1, <1>4 DEF TypeOK
  <1>10. TypeOK'
    <2>1. matches' \in [Rules -> SUBSET Topics] /\ told' \in [Rules -> SUBSET Topics]
      BY <1>1, <1>4 DEF TypeOK
    <2>2. raced' \in [Rules -> BOOLEAN]
      BY <1>1, <1>4 DEF TypeOK
    <2>3. \A q \in Rules : told'[q] \subseteq matches'[q] /\ (rule'[q] = None => matches'[q] = {})
      <3>1. new => rule[r] # None
        BY <1>3 DEF StillCurrent
      <3> QED BY <1>1, <1>9, <3>1 DEF TypeOK
    <2> QED BY <1>1, <1>7, <1>8, <2>1, <2>2, <2>3 DEF TypeOK, FInv
  <1>11. PollShape' /\ PollTimes'
    <2>1. GroupRows' = GroupRows
      BY <1>7 DEF PollMoves, GroupRows
    <2>2. at \in {"row", "enrich"} /\ (at = "row" => poll.todo \ {t} = {})
      BY <1>5
    <2>3. PollShape'
      BY <1>1, <1>2, <1>7, <2>1, <2>2 DEF PollShape, PollMoves
    <2>4. PollTimes'
      BY <1>1, <1>7, <2>2 DEF PollTimes, FeedUntouched, Past
    <2> QED BY <2>3, <2>4
  <1>12. (Gap' <=> Gap) /\ Buffered' = Buffered /\ at # "search" /\ at # "feed"
    BY <1>1, <1>5, FeedViews
  <1>13. ASSUME NEW q \in Rules \ {r} PROVE RowInv(q)'
    <2>1. RowUntouched(q) /\ RowInv(q) /\ RowLike(rule'[q], rule[q]) /\ rule'[q] = rule[q]
      BY <1>1, <1>9, SameRule DEF RowUntouched
    <2>2. /\ RowTimed(q)' /\ RowFound(q)' /\ RowSilent(q)' /\ (Settled(q)' <=> Settled(q))
          /\ (Watches(q)' <=> Watches(q)) /\ (rule[q] # None => Lost(q)' = Lost(q))
      BY <1>1, <2>1, RowStays, RowViews DEF RowInv
    <2>3. RowSame(q)'
      BY <1>1, <1>7, <2>1, <2>2, SameStays DEF RowInv
    <2>4. RowCovered(q)'
      <3>1. SUFFICES ASSUME Watches(q) PROVE RowCovered(q)'
        BY <2>2 DEF RowCovered
      <3>2. rule[q] # None /\ Lost(q)' = Lost(q) /\ q # r
        BY <2>2, <3>1 DEF Watches
      <3> QED BY <1>1, <1>2, <1>7, <1>12, <2>1, <2>2, <3>1, <3>2 DEF RowInv, RowCovered, PollMoves
    <2> QED BY <2>2, <2>3, <2>4 DEF RowInv
  <1>14. RowInv(r)'
    <2>1. /\ RowTimed(r) /\ RowFound(r) /\ RowSilent(r) /\ RowSame(r) /\ RowCovered(r)
          /\ (Settled(r)' => Settled(r)) /\ (Watches(r)' => Watches(r))
      BY <1>1, <1>9 DEF RowInv, Settled, Watches
    <2>2. RowTimed(r)'
      BY <1>1, <2>1 DEF RowTimed, FeedUntouched
    <2>3. RowFound(r)'
      <3>1. Begins' = Begins
        BY <1>1, FeedViews
      <3> QED BY <1>1, <2>1, <3>1 DEF RowFound, FeedUntouched
    <2>4. RowSilent(r)'
      <3>1. SUFFICES ASSUME rule[r] # None, ~raced'[r] PROVE RowSilent(r)'
        BY <1>1 DEF RowSilent
      <3>2. ~raced[r] /\ (new => rule[r].init)
        BY <1>9, <3>1
      <3>3. CASE rule[r].init
        <4>1. before[r] \subseteq matches[r] /\ told[r] \cap before[r] = {}
          BY <2>1, <3>1, <3>2, <3>3 DEF RowSilent
        <4>2. new => t \notin matches[r]
          BY <1>3
        <4> QED BY <1>1, <1>9, <3>3, <4>1, <4>2 DEF RowSilent
      <3>4. CASE ~rule[r].init
        BY <1>1, <1>9, <1>12, <2>1, <3>1, <3>2, <3>4 DEF RowSilent
      <3> QED BY <3>3, <3>4
    <2>5. RowSame(r)'
      BY <1>1, <1>7, <2>1, SameRule, SameStays
    <2>6. RowCovered(r)'
      <3>1. SUFFICES ASSUME Gap, ~poll.retries, Watches(r)
                     PROVE  poll.failed \/ Lost(r)' \subseteq poll.todo \ {t}
        BY <1>2, <1>7, <1>12, <2>1 DEF RowCovered, PollMoves
      <3>2. Settled(r) /\ rule[r].on /\ rule[r] # None
        BY <3>1 DEF Watches, Settled
      <3>3. StillCurrent(r)
        BY <1>1, <1>2, <3>2, CurrentRow DEF StillCurrent
      <3>4. t \in matches'[r] /\ matches[r] \subseteq matches'[r]
        BY <1>3, <1>9, <3>3
      <3>5. Lost(r)' \subseteq Lost(r) /\ t \notin Lost(r)'
        BY <1>1, <3>4 DEF Lost, Missed, FeedUntouched
      <3>6. poll.failed \/ Lost(r) \subseteq poll.todo
        BY <1>1, <1>2, <2>1, <3>1 DEF RowCovered
      <3> QED BY <3>5, <3>6
    <2> QED BY <2>2, <2>3, <2>4, <2>5, <2>6 DEF RowInv
  <1> QED BY <1>8, <1>10, <1>11, <1>13, <1>14 DEF RuleIInv

LEMMA GroupDoneKeeps == ASSUME RuleIInv, GroupDone PROVE RuleIInv'
  <1>1. /\ TypeOK /\ FInv /\ PollShape /\ PollTimes /\ (\A q \in Rules : RowInv(q)) /\ FeedUntouched
        /\ UNCHANGED <<feedVars, matches, told, before, raced, owes, served, edits>>
        /\ poll # None /\ poll.at = "row" /\ poll.rows = {} /\ poll \in Polls /\ poll.failed \in BOOLEAN
        /\ rule \in [Rules -> RuleRows \cup {None}] /\ GroupRows \in SUBSET Rules /\ MaxTime \in Nat
    BY FeedVarsUntouched, PollFields, FeedAssumption DEF RuleIInv, GroupDone, TypeOK
  <1>2. CASE LaneDies(rule)
    BY <1>1, <1>2, SameRule, LaneDiesKeeps
  <1>3. CASE /\ poll' = NextOf(poll)
             /\ ~poll.failed => rule' = rule
             /\ poll.failed => ErrorOn(GroupRows, rule) /\ \A r \in GroupRows : rule[r] # None
    <2>1. /\ poll' \in Polls /\ PollMoves /\ poll'.at = "run" /\ poll'.left = poll.left /\ poll'.group = None
          /\ poll'.rows = {} /\ poll'.row = poll.row /\ poll'.todo = poll.todo
          /\ poll'.failed = FALSE /\ poll'.retries = poll.retries
      <3>1. /\ poll' \in Polls /\ poll'.full = poll.full /\ poll'.held = poll.held
            /\ poll'.at = "run" /\ poll'.left = poll.left /\ poll'.group = None
            /\ poll'.rows = poll.rows /\ poll'.row = poll.row /\ poll'.todo = poll.todo
            /\ poll'.failed = FALSE /\ poll'.retries = poll.retries
        <4>1. poll' = [poll EXCEPT !.at = "run", !.group = None, !.start = 0, !.failed = FALSE]
          BY <1>3 DEF NextOf
        <4>2. 0 \in 0..MaxTime /\ None \in Terms \cup {None}
          BY <1>1
        <4> QED BY <1>1, <4>1, <4>2 DEF Polls
      <3> QED BY <1>1, <3>1, PollMoved
    <2>2. poll.row = None /\ poll.todo = {}
      BY <1>1 DEF PollShape
    <2>3. /\ rule' \in [Rules -> RuleRows \cup {None}]
          /\ \A r \in Rules : /\ RowLike(rule'[r], rule[r])
                              /\ rule[r] # None => /\ rule'[r].recovered = rule[r].recovered
                                                   /\ rule[r].error => rule'[r].error
          /\ poll.failed => \A r \in GroupRows : rule'[r].error
      <3>1. CASE poll.failed
        BY <1>1, <1>3, <3>1, ErrorStored
      <3>2. CASE ~poll.failed
        BY <1>1, <1>3, <3>2, SameRule
      <3> QED BY <3>1, <3>2
    <2>4. FInv'
      BY <1>1, FeedStays
    <2>5. TypeOK'
      BY <1>1, <2>1, <2>3, <2>4, TypedStep DEF RowLike
    <2>6. PollShape' /\ PollTimes'
      <3>1. None \notin poll.left
        BY <1>1, PollFields, NoNone
      <3>2. PollShape'
        BY <2>1, <2>2, <3>1 DEF PollShape
      <3>3. PollTimes'
        BY <1>1, <2>1 DEF PollTimes, FeedUntouched, Past
      <3> QED BY <3>2, <3>3
    <2>7. ASSUME NEW r \in Rules PROVE RowInv(r)'
      <3>1. RowUntouched(r) /\ RowInv(r) /\ RowLike(rule'[r], rule[r])
        BY <1>1, <2>3, UntouchedHistory
      <3>2. /\ RowTimed(r)' /\ RowFound(r)' /\ RowSilent(r)' /\ (Settled(r)' <=> Settled(r))
            /\ (Watches(r)' <=> Watches(r)) /\ (rule[r] # None => Lost(r)' = Lost(r))
        BY <1>1, <3>1, RowStays, RowViews DEF RowInv
      <3>3. RowSame(r)'
        <4>1. Settled(r) => rule'[r].recovered = rule[r].recovered
          BY <2>3 DEF Settled
        <4> QED BY <1>1, <2>1, <3>1, <3>2, <4>1, SameStays DEF RowInv
      <3>4. RowCovered(r)'
        <4>1. SUFFICES ASSUME Gap, ~poll.retries, r \in Held, Watches(r), poll.held[r].terms \notin poll.left
                       PROVE  Lost(r) = {} \/ rule'[r].error
          <5>1. Watches(r) => Lost(r)' = Lost(r)
            BY <3>2 DEF Watches
          <5> QED BY <1>1, <2>1, <3>2, <4>1, <5>1, FeedViews DEF RowCovered, PollMoves
        <4>2. Lost(r) = {} \/ rule[r].error \/ (poll.group = poll.held[r].terms /\ poll.failed)
          BY <1>1, <3>1, <4>1 DEF RowInv, RowCovered
        <4>3. rule[r] # None /\ (poll.group = poll.held[r].terms => r \in GroupRows)
          BY <4>1 DEF Watches, GroupRows
        <4> QED BY <2>3, <4>2, <4>3
      <3> QED BY <3>2, <3>3, <3>4 DEF RowInv
    <2> QED BY <2>4, <2>5, <2>6, <2>7 DEF RuleIInv
  <1>4. \/ LaneDies(rule)
        \/ /\ poll' = NextOf(poll)
           /\ ~poll.failed => rule' = rule
           /\ poll.failed => ErrorOn(GroupRows, rule) /\ \A r \in GroupRows : rule[r] # None
    BY <1>1 DEF GroupDone
  <1> QED BY <1>2, <1>3, <1>4

\* A gap that is closed moves the beginning of the next to the last page.
LEMMA EndPollKeeps == ASSUME RuleIInv, EndPoll PROVE RuleIInv'
  <1>1. /\ TypeOK /\ FInv /\ PollShape /\ PollTimes /\ (\A q \in Rules : RowInv(q))
        /\ UNCHANGED <<rule, matches, told, before, raced, owes, served, edits>> /\ poll' = None
    BY DEF RuleIInv, EndPoll
  <1>2. CASE UNCHANGED feedVars
    <2>1. FeedUntouched /\ FInv'
      BY <1>1, <1>2, FeedVarsUntouched, FeedStays
    <2>2. TypeOK'
      BY <1>1, <2>1, TypedStep DEF TypeOK
    <2>3. \A r \in Rules : RowInv(r)'
      BY <1>1, <2>1, SameRule, UntouchedHistory, RowStays, PollEnds DEF RowInv
    <2>4. PollShape' /\ PollTimes'
      BY <1>1, <2>1, PollEnds DEF PollTimes, FeedUntouched, Past
    <2> QED BY <2>1, <2>2, <2>3, <2>4 DEF RuleIInv
  <1>3. CASE CloseGap
    <2>1. /\ UNCHANGED <<now, offset, listed, cache, buffer, shown>> /\ skipped' = {} /\ feed # None /\ feed.gap # None
          /\ feed' = [feed EXCEPT !.gap = None] /\ feed \in FeedRows
      BY <1>1, <1>3 DEF CloseGap, world, FInv, FeedTypeOK
    <2>2. feed' \in FeedRows /\ feed'.at = feed.at /\ feed'.gap = None /\ feed'.lastGap = feed.lastGap
      BY <2>1 DEF FeedRows
    <2>3. feed' # None /\ feed.at \in Int /\ feed.gap \in Int /\ feed.gap <= feed.at
      BY <1>1, <2>1, <2>2, NeverNone, RowFacts
    <2>4. FInv'
      BY <1>1, <1>3, CloseGapKeeps
    <2>5. TypeOK'
      BY <1>1, <2>4, TypedStep DEF TypeOK
    <2>6. PollShape' /\ PollTimes'
      BY <1>1, <2>1, <2>2, PollEnds DEF PollTimes, Past
    <2>7. ASSUME NEW r \in Rules PROVE RowInv(r)'
      <3>1. RowInv(r) /\ (Settled(r)' <=> Settled(r)) /\ Buffered' = Buffered
        BY <1>1, <2>1 DEF Settled, Buffered
      <3>2. RowTimed(r)' /\ RowSilent(r)'
        BY <1>1, <2>1, <2>3, <3>1 DEF RowInv, RowTimed, RowSilent
      <3>3. RowFound(r)'
        <4>1. SUFFICES ASSUME Settled(r), rule[r].recovered # None, NEW t \in rule[r].terms,
                              listed[t] # None, listed[t] >= feed.at,
                              listed[t] - offset >= owes[r], listed[t] - offset < rule[r].recovered
                       PROVE  \/ buffer[t] # None /\ buffer[t].seen >= rule[r].recovered
                              \/ rule[r].recovered < feed.at - Retention
          BY <1>1, <2>1, <2>2, <3>1 DEF RowFound, Begins
        <4>2. t \in Topics /\ listed[t] \in Int
          BY <1>1, <4>1, RuleFields, StampRange DEF Settled, FInv, FeedTypeOK
        <4>3. listed[t] >= Begins
          BY <2>1, <2>3, <4>1, <4>2 DEF Begins
        <4> QED BY <3>1, <4>1, <4>3 DEF RowInv, RowFound
      <3> QED BY <1>1, <3>2, <3>3, PollEnds DEF RowInv
    <2> QED BY <2>4, <2>5, <2>6, <2>7 DEF RuleIInv
  <1> QED BY <1>2, <1>3 DEF EndPoll

(***************************************************************************)
(* What holds of the poll and the handlers in every behaviour.             *)
(***************************************************************************)

LEMMA RulesBegin == ASSUME Init PROVE RuleIInv
  <1>1. /\ FeedInit /\ feed = None /\ poll = None /\ edits = 0 /\ skipped = {}
        /\ rule = [r \in Rules |-> None] /\ matches = [r \in Rules |-> {}] /\ told = [r \in Rules |-> {}]
        /\ before = [r \in Rules |-> {}] /\ raced = [r \in Rules |-> FALSE] /\ owes = [r \in Rules |-> 0]
        /\ now = 0 /\ served = Rules
    BY DEF Init, FeedInit
  <1>2. FInv
    BY <1>1, FeedBegins
  <1>3. 0 \in 0..MaxTime /\ 0 \in 0..MaxEdits
    BY FeedAssumption, RuleAssumption
  <1>4. TypeOK
    BY <1>1, <1>2, <1>3 DEF TypeOK, FInv
  <1>5. PollShape /\ PollTimes
    BY <1>1 DEF PollShape, PollTimes
  <1>6. \A r \in Rules : RowInv(r)
    BY <1>1 DEF RowInv, RowTimed, RowFound, Settled, RowSilent, RowSame, RowCovered
  <1> QED BY <1>2, <1>4, <1>5, <1>6 DEF RuleIInv

LEMMA RulesStay == ASSUME RuleIInv, UNCHANGED vars PROVE RuleIInv'
  <1>1. /\ TypeOK /\ FInv /\ PollShape /\ PollTimes /\ (\A q \in Rules : RowInv(q)) /\ FeedUntouched
        /\ UNCHANGED <<rule, matches, poll, told, before, raced, owes, served, edits>> /\ UNCHANGED feedVars
    BY FeedVarsUntouched DEF RuleIInv, vars, ruleVars
  <1>2. FInv' /\ Held' = Held /\ GroupRows' = GroupRows
    BY <1>1, FeedStays DEF Held, GroupRows
  <1>3. TypeOK'
    BY <1>1, <1>2, TypedStep DEF TypeOK
  <1>4. PollShape' /\ PollTimes'
    BY <1>1, <1>2 DEF PollShape, PollTimes, FeedUntouched, Past
  <1>5. \A r \in Rules : RowInv(r)'
    BY <1>1, SameRule, UntouchedHistory, RowWaits
  <1> QED BY <1>2, <1>3, <1>4, <1>5 DEF RuleIInv

LEMMA RulesNextKeeps == ASSUME RuleIInv, [Next]_vars PROVE RuleIInv'
  <1>1. CASE Lane
    BY <1>1, PollReadsKeeps, PollIngestsKeeps, DirectsDoneKeeps, NextGroupKeeps, SearchFindsKeeps, StartRowsKeeps, BaselineKeeps,
      StartRowKeeps, EnrichedKeeps, RowDoneKeeps, GroupDoneKeeps, EndPollKeeps DEF Lane
  <1>2. CASE FullPoll \/ \E r \in Rules : BeginPoll(FALSE, {r})
    BY <1>2, BeginKeeps DEF FullPoll
  <1>3. CASE Failures
    BY <1>3, FeedFailsKeeps, SearchFailsKeeps DEF Failures
  <1>4. CASE Admin
    BY <1>4, ServeKeeps DEF Admin
  <1> QED BY <1>1, <1>2, <1>3, <1>4, HandlersKeep, TrackerKeeps, CrashKeeps, RulesStay DEF Next

(***************************************************************************)
(* The inductive invariant of the rules: what the poll holds is still so,  *)
(* gap_recovered_at means what it says, and while a gap is open what a     *)
(* rule misses of it is waiting for its row or is known.                   *)
(***************************************************************************)
THEOREM RuleInvariant == Spec => []RuleIInv
  <1>1. Init => RuleIInv
    BY RulesBegin
  <1>2. RuleIInv /\ [Next]_vars => RuleIInv'
    BY RulesNextKeeps
  <1> QED BY <1>1, <1>2, PTL DEF Spec

(***************************************************************************)
(* Rules, matches and polls have their types, and what was told of a rule  *)
(* is recorded in rule_matches.                                            *)
(***************************************************************************)
THEOREM RuleTypeCorrect == Spec => []TypeOK
  <1>1. RuleIInv => TypeOK
    BY DEF RuleIInv
  <1> QED BY <1>1, RuleInvariant, PTL

(***************************************************************************)
(* The first check of a rule is silent: what was in the buffer when the    *)
(* rule got its terms is never told, whatever is edited, deleted, searched *)
(* and interrupted meanwhile, unless the row was or became initialised     *)
(* under other terms.                                                      *)
(***************************************************************************)
THEOREM BaselineIsSilent == Spec => []SilentBaseline
  <1>1. RuleIInv => SilentBaseline
    <2>1. SUFFICES ASSUME RuleIInv, NEW r \in Rules, told[r] \cap before[r] # {}, ~raced[r] PROVE FALSE
      BY DEF SilentBaseline, RuleIInv, TypeOK
    <2>2. rule[r] # None
      BY <2>1 DEF RuleIInv, TypeOK
    <2> QED BY <2>1, <2>2 DEF RuleIInv, RowInv, RowSilent
  <1> QED BY <1>1, RuleInvariant, PTL

LEMMA ClosedKnowingly ==
  ASSUME RuleIInv, [Next]_vars, Gap, feed'.gap = None, NEW r \in Rules, Watches(r),
         poll.full => poll.held[r] # None
  PROVE  Known(r)
  <1>1. feed # None /\ feed.gap # None /\ TypeOK /\ FInv
    BY DEF Gap, RuleIInv
  <1>2. EndPoll /\ Attests
    <2>1. ASSUME feed' = feed PROVE FALSE
      BY <1>1, <2>1
    <2>2. ASSUME UNCHANGED feedVars PROVE FALSE
      BY <2>1, <2>2 DEF feedVars
    <2>3. ASSUME Ingest PROVE FALSE
      <3>1. feed'.gap = feed.gap
        BY <1>1, <2>3 DEF Ingest, FeedRow
      <3> QED BY <1>1, <3>1
    <2>4. ASSUME Lane PROVE EndPoll /\ Attests
      <3>1. ~PollReads /\ ~PollIngests
        BY <2>1, <2>3 DEF PollReads, PollIngests, ReadFeed
      <3>2. \A complete \in BOOLEAN : ~SearchFinds(complete)
        BY <2>1 DEF SearchFinds, CatchUp
      <3>3. (\A g \in Terms : ~NextGroup(g)) /\ ~StartRows /\ ~RowDone /\ ~GroupDone
        BY <2>2 DEF NextGroup, StartRows, RowDone, GroupDone
      <3>6. ~DirectsDone
        BY <2>2 DEF DirectsDone
      <3>4. (\A q \in Rules : ~Baseline(q) /\ ~StartRow(q)) /\ (\A t \in Topics : ~Enriched(t))
        BY <2>2 DEF Baseline, StartRow, Enriched
      <3>5. EndPoll
        BY <2>4, <3>1, <3>2, <3>3, <3>4, <3>6 DEF Lane
      <3> QED BY <2>2, <3>5 DEF EndPoll
    <2>5. ~Handlers /\ ~Admin
      BY <2>2 DEF Handlers, Create, PatchRule, PatchTerms, Toggle, Delete, Admin, Serve
    <2>6. ~Tracker /\ ~Crash /\ ~Failures
      BY <2>1, <2>2 DEF Tracker, Publish, Crash, Failures, FeedFails, SearchFails
    <2>7. ~FullPoll /\ \A q \in Rules : ~BeginPoll(FALSE, {q})
      BY <2>2 DEF FullPoll, BeginPoll
    <2>8. ~UNCHANGED vars
      BY <2>2 DEF vars
    <2> QED BY <2>4, <2>5, <2>6, <2>7, <2>8 DEF Next
  <1>3. poll # None /\ poll.at = "run" /\ poll.group = None /\ poll.left = {} /\ ~poll.retries /\ poll.full
    BY <1>2 DEF EndPoll, Attests
  <1>4. r \in Held /\ poll.rows = {} /\ poll.held[r].terms # None
    BY <1>1, <1>3, HeldFields DEF Held, RuleIInv, PollShape
  <1>5. Lost(r) = {} \/ rule[r].error
    BY <1>3, <1>4 DEF RuleIInv, RowInv, RowCovered
  <1>6. ASSUME Lost(r) = {}, NEW t \in Missed(r) PROVE shown[t] < feed.gap
    <2>1. ~(shown[t] >= feed.gap) /\ t \in skipped
      BY <1>6 DEF Lost, Missed
    <2>2. shown[t] \in Int /\ feed.gap \in Int
      BY <1>1, <2>1, EntryInt, RowFacts DEF FInv, SkippedInv, FeedTypeOK
    <2> QED BY <2>1, <2>2
  <1> QED BY <1>5, <1>6 DEF Known

(***************************************************************************)
(* A gap is closed knowingly: of a rule that the poll has selected, what   *)
(* it misses is stored as its error, or was listed before the gap began.   *)
(* It holds for any number of rules and groups, whatever is edited, listed *)
(* and found while the poll waits.                                         *)
(***************************************************************************)
THEOREM GapsCloseKnowingly == Spec => GapClosedKnowingly
  <1>1. RuleIInv /\ [Next]_vars =>
          (Gap /\ feed'.gap = None =>
             \A r \in Rules : Watches(r) /\ (poll.full => poll.held[r] # None) => Known(r))
    BY ClosedKnowingly
  <1> QED BY <1>1, RuleInvariant, PTL DEF Spec, GapClosedKnowingly

(***************************************************************************)
(* The promise of RuleWatch, step by step.                                 *)
(***************************************************************************)

Watched == [r \in Rules |-> IF rule[r] = None THEN None ELSE rule[r].terms]
Active == [r \in Rules |-> rule[r] # None /\ rule[r].on]

\* The rules the poll at work has taken up.
TakenUp == IF poll = None THEN {} ELSE Held

\* The rule is there as it was, whatever the poll has stored of its state.
SameWatch(r) ==
  IF rule[r] = None THEN rule'[r] = None
  ELSE rule'[r] # None /\ rule'[r].terms = rule[r].terms /\ rule'[r].on = rule[r].on

WatchStep == [Watch!WatchNext]_(Watch!watchVars)

\* A step of the poll that tells nothing: the poll goes on with what it has
\* taken up, or it ends.
LEMMA WatchStutters ==
  ASSUME \A r \in Rules : SameWatch(r), UNCHANGED <<served, matches, told>>,
         TakenUp' = TakenUp \/ TakenUp' = {}
  PROVE  WatchStep
  <1>1. Watched' = Watched
    <2>1. \A r \in Rules : (IF rule'[r] = None THEN None ELSE rule'[r].terms) = (IF rule[r] = None THEN None ELSE rule[r].terms)
      BY DEF SameWatch
    <2> QED BY <2>1 DEF Watched
  <1>2. Active' = Active
    <2>1. \A r \in Rules : (rule'[r] # None /\ rule'[r].on) = (rule[r] # None /\ rule[r].on)
      BY DEF SameWatch
    <2> QED BY <2>1, Zenon DEF Active
  <1>3. CASE TakenUp' = TakenUp
    BY <1>1, <1>2, <1>3 DEF WatchStep, Watch!watchVars, Watched, Active, TakenUp
  <1>4. CASE TakenUp' = {}
    <2>1. Watch!Finish
      BY <1>1, <1>2, <1>4 DEF Watch!Finish, Watched, Active, TakenUp
    <2> QED BY <2>1 DEF WatchStep, Watch!WatchNext
  <1> QED BY <1>3, <1>4

LEMMA WatchLike ==
  ASSUME \A r \in Rules : RowLike(rule'[r], rule[r]), UNCHANGED <<served, matches, told>>,
         TakenUp' = TakenUp \/ TakenUp' = {}
  PROVE  WatchStep
  BY WatchStutters DEF RowLike, SameWatch

LEMMA WatchSame ==
  ASSUME UNCHANGED <<rule, served, matches, told>>, TakenUp' = TakenUp \/ TakenUp' = {}
  PROVE  WatchStep
  BY WatchStutters DEF SameWatch

LEMMA SamePoll == ASSUME UNCHANGED poll PROVE TakenUp' = TakenUp
  BY DEF TakenUp, Held

LEMMA PollGoesOn ==
  ASSUME poll # None, poll' = None \/ poll'.held = poll.held
  PROVE  TakenUp' = TakenUp \/ TakenUp' = {}
  BY DEF TakenUp, Held

LEMMA LaneGoesOn == ASSUME TypeOK, Lane \/ Failures PROVE TakenUp' = TakenUp \/ TakenUp' = {}
  <1>1. poll # None /\ poll \in Polls
    BY DEF TypeOK, Lane, PollReads, PollIngests, DirectsDone, NextGroup, SearchFinds, StartRows, Baseline, StartRow,
      Enriched, RowDone, GroupDone, EndPoll, Failures, FeedFails, SearchFails
  <1>2. CASE PollReads
    BY <1>2, SamePoll DEF PollReads, ruleVars
  <1>3. CASE PollIngests \/ DirectsDone \/ EndPoll \/ \E g \in Terms : NextGroup(g)
    <2>1. poll' = None \/ poll'.held = poll.held
      BY <1>1, <1>3 DEF PollIngests, DirectsDone, EndPoll, NextGroup, Polls
    <2> QED BY <1>1, <2>1, PollGoesOn
  <1>4. CASE \E complete \in BOOLEAN : SearchFinds(complete)
    <2>1. poll'.held = poll.held
      BY <1>1, <1>4 DEF SearchFinds, Polls
    <2> QED BY <1>1, <2>1, PollGoesOn
  <1>5. CASE StartRows \/ GroupDone \/ Failures
    <2>1. poll' = None \/ poll'.held = poll.held
      BY <1>1, <1>5 DEF StartRows, GroupDone, LaneDies, NextOf, Failures, FeedFails, SearchFails, Polls
    <2> QED BY <1>1, <2>1, PollGoesOn
  <1>6. CASE RowDone \/ \E r \in Rules : Baseline(r) \/ StartRow(r)
    <2>1. poll' = None \/ poll'.held = poll.held
      BY <1>1, <1>6 DEF RowDone, Baseline, StartRow, Evaluated, LaneDies, Polls
    <2> QED BY <1>1, <2>1, PollGoesOn
  <1>7. CASE \E t \in Topics : Enriched(t)
    <2>1. poll'.held = poll.held
      BY <1>1, <1>7 DEF Enriched, Polls
    <2> QED BY <1>1, <2>1, PollGoesOn
  <1> QED BY <1>2, <1>3, <1>4, <1>5, <1>6, <1>7 DEF Lane

\* New terms, or the end of the rule: it begins anew.
LEMMA WatchAnew ==
  ASSUME TypeOK, NEW r \in Rules, NEW row \in RuleRows \cup {None}, Anew(r, row), UNCHANGED <<served, poll>>
  PROVE  WatchStep
  <1>1. /\ rule' = [rule EXCEPT ![r] = row] /\ rule \in [Rules -> RuleRows \cup {None}]
        /\ matches' = [matches EXCEPT ![r] = {}] /\ told' = [told EXCEPT ![r] = {}]
    BY DEF Anew, TypeOK
  <1>2. PICK terms \in (SUBSET Topics) \cup {None} : terms = IF row = None THEN None ELSE row.terms
    BY NoNone DEF RuleRows
  <1>3. PICK on \in BOOLEAN : on <=> row # None /\ row.on
    OBVIOUS
  <1>4. Watched' = [Watched EXCEPT ![r] = terms]
    <2>1. \A q \in Rules : (IF rule'[q] = None THEN None ELSE rule'[q].terms) =
                           IF q = r THEN terms ELSE IF rule[q] = None THEN None ELSE rule[q].terms
      BY <1>1, <1>2
    <2> QED BY <2>1 DEF Watched
  <1>5. Active' = [Active EXCEPT ![r] = on]
    <2>1. \A q \in Rules : (rule'[q] # None /\ rule'[q].on) =
                           IF q = r THEN on ELSE (rule[q] # None /\ rule[q].on)
      BY <1>1, <1>3
    <2> QED BY <2>1 DEF Active
  <1>6. Watch!Begin(r)
    BY <1>1, <1>4, <1>5, SamePoll DEF Watch!Begin, Watched, Active, TakenUp
  <1> QED BY <1>6 DEF WatchStep, Watch!WatchNext

LEMMA WatchSwitches == ASSUME TypeOK, NEW r \in Rules, Toggle(r) PROVE WatchStep
  <1>1. /\ rule' = [rule EXCEPT ![r].on = ~@] /\ rule \in [Rules -> RuleRows \cup {None}]
        /\ UNCHANGED <<served, poll, matches, told>> /\ rule[r] # None
    BY DEF Toggle, TypeOK
  <1>2. rule'[r] # None /\ rule'[r].terms = rule[r].terms /\ rule'[r].on = ~rule[r].on
    <2>1. rule[r] \in RuleRows /\ rule'[r] = [rule[r] EXCEPT !.on = ~@]
      BY <1>1, RuleFields
    <2>2. rule'[r] \in RuleRows
      BY <2>1 DEF RuleRows
    <2> QED BY <2>1, <2>2, NoNone DEF RuleRows
  <1>3. Watched' = Watched
    <2>1. \A q \in Rules : (IF rule'[q] = None THEN None ELSE rule'[q].terms) = (IF rule[q] = None THEN None ELSE rule[q].terms)
      BY <1>1, <1>2
    <2> QED BY <2>1 DEF Watched
  <1>4. Active' = [Active EXCEPT ![r] = ~@]
    <2>1. \A q \in Rules : (rule'[q] # None /\ rule'[q].on) =
                           IF q = r THEN ~(rule[r] # None /\ rule[r].on) ELSE (rule[q] # None /\ rule[q].on)
      BY <1>1, <1>2
    <2> QED BY <2>1 DEF Active
  <1>5. Watch!Switch(r)
    BY <1>1, <1>3, <1>4, SamePoll DEF Watch!Switch, Watched, Active, TakenUp
  <1> QED BY <1>5 DEF WatchStep, Watch!WatchNext

LEMMA WatchDies ==
  ASSUME TypeOK, poll # None, NEW state \in [Rules -> RuleRows \cup {None}], LaneDies(state),
         \A r \in Rules : RowLike(state[r], rule[r])
  PROVE  \A r \in Rules : RowLike(rule'[r], rule[r])
  <1>1. GroupRows \in SUBSET Rules /\ ErrorOn(GroupRows, state)
    BY PollFields DEF LaneDies
  <1>2. \A r \in Rules : state[r] = None <=> rule[r] = None
    BY DEF RowLike
  <1>3. \A r \in Rules : RowLike(rule'[r], state[r])
    BY <1>1, <1>2, ErrorStored
  <1> QED BY <1>3 DEF RowLike

\* A row that is evaluated keeps its terms.
LEMMA WatchEvaluated ==
  ASSUME TypeOK, poll # None, NEW r \in Rules, Evaluated(r)
  PROVE  \A q \in Rules : SameWatch(q)
  <1>1. rule \in [Rules -> RuleRows \cup {None}]
    BY DEF TypeOK
  <1>2. CASE rule[r] = None
    <2>1. LaneDies(rule)
      BY <1>2 DEF Evaluated
    <2>2. \A q \in Rules : RowLike(rule'[q], rule[q])
      BY <1>1, <2>1, SameRule, WatchDies
    <2> QED BY <2>2 DEF RowLike, SameWatch
  <1>3. CASE rule[r] # None
    <2>1. rule' = [rule EXCEPT ![r].init = TRUE, ![r].error = FALSE]
      BY <1>3 DEF Evaluated
    <2>2. rule[r] \in RuleRows /\ rule'[r] = [rule[r] EXCEPT !.init = TRUE, !.error = FALSE]
      BY <1>1, <1>3, <2>1
    <2>3. rule'[r] \in RuleRows
      BY <2>2 DEF RuleRows
    <2>4. rule'[r] # None /\ rule'[r].terms = rule[r].terms /\ rule'[r].on = rule[r].on
      BY <2>2, <2>3, NoNone DEF RuleRows
    <2> QED BY <1>1, <1>3, <2>1, <2>4 DEF SameWatch
  <1> QED BY <1>2, <1>3

\* A baseline accepts what the rule watches for.
LEMMA WatchAccepts == ASSUME RuleIInv, NEW r \in Rules, Baseline(r) PROVE WatchStep
  <1>1. /\ TypeOK /\ PollShape /\ poll # None /\ UNCHANGED <<served, told>> /\ (\A q \in Rules : SameWatch(q))
        /\ r \in poll.rows /\ TakenUp = Held
    BY WatchEvaluated DEF Baseline, RuleIInv, TakenUp
  <1>2. TakenUp' = TakenUp \/ TakenUp' = {}
    BY <1>1, LaneGoesOn DEF Lane
  <1>3. CASE ~StillCurrent(r)
    BY <1>1, <1>2, <1>3, WatchStutters DEF Baseline
  <1>4. CASE StillCurrent(r)
    <2>1. matches' = [matches EXCEPT ![r] = @ \cup Candidates(r)]
      BY <1>4 DEF Baseline
    <2>2. Candidates(r) \in SUBSET Topics
      BY DEF Candidates, Buffered
    <2>3. /\ r \in TakenUp /\ Watched[r] # None /\ Active[r]
          /\ \A t \in Candidates(r) : t \in Watched[r] \ matches[r]
      <3>1. rule[r] # None /\ rule[r].on /\ rule[r].terms = poll.held[r].terms /\ rule[r].terms # None
        BY <1>1, <1>4, RuleFields, NoNone DEF StillCurrent
      <3>2. r \in Held
        BY <1>1, PollFields DEF PollShape
      <3> QED BY <1>1, <3>1, <3>2 DEF Watched, Active, Candidates
    <2>4. Watched' = Watched
      <3>1. \A q \in Rules : (IF rule'[q] = None THEN None ELSE rule'[q].terms) = (IF rule[q] = None THEN None ELSE rule[q].terms)
        BY <1>1 DEF SameWatch
      <3> QED BY <3>1 DEF Watched
    <2>5. Active' = Active
      <3>1. \A q \in Rules : (rule'[q] # None /\ rule'[q].on) = (rule[q] # None /\ rule[q].on)
        BY <1>1 DEF SameWatch
      <3> QED BY <3>1, Zenon DEF Active
    <2>6. TakenUp' = TakenUp
      <3>1. rule[r] # None
        BY <1>4 DEF StillCurrent
      <3>2. poll' = [poll EXCEPT !.at = "row", !.rows = @ \ {r}, !.row = None] /\ poll \in Polls
        BY <1>1, <3>1, PollFields DEF Baseline, Evaluated
      <3>3. poll' \in Polls /\ poll'.held = poll.held
        BY <3>2, RuleAssumption DEF Polls
      <3> QED BY <1>1, <3>3, NoNone DEF TakenUp, Held
    <2>7. Watch!AcceptAll(r, Candidates(r))
      BY <1>1, <2>1, <2>3, <2>4, <2>5, <2>6 DEF Watch!AcceptAll, Watch!Watching, Watched, Active, TakenUp
    <2> QED BY <2>2, <2>7 DEF WatchStep, Watch!WatchNext
  <1> QED BY <1>3, <1>4

\* A match is told while the rule watches for it, and once.
LEMMA WatchTells == ASSUME RuleIInv, NEW t \in Topics, Enriched(t) PROVE WatchStep
  <1>1. /\ TypeOK /\ PollShape /\ UNCHANGED <<rule, served>> /\ poll # None /\ poll.at = "enrich" /\ t \in poll.todo
    BY DEF RuleIInv, Enriched
  <1>2. PICK r \in Rules : r = poll.row /\ r \in Held /\ poll.held[r].terms = poll.group /\ t \in poll.group
    BY <1>1, PollFields DEF PollShape, GroupRows
  <1>3. TakenUp = Held /\ TakenUp' = TakenUp
    <2>1. poll' = [poll EXCEPT !.todo = @ \ {t}, !.at = IF poll.todo = {t} THEN "row" ELSE "enrich"] /\ poll \in Polls
      BY <1>1, PollFields DEF Enriched
    <2>2. poll' \in Polls /\ poll'.held = poll.held
      BY <2>1 DEF Polls
    <2> QED BY <1>1, <2>2, NoNone DEF TakenUp, Held
  <1>4. CASE ~(StillCurrent(r) /\ t \notin matches[r])
    <2>1. UNCHANGED <<rule, served, matches, told>>
      BY <1>1, <1>2, <1>4 DEF Enriched
    <2> QED BY <1>3, <2>1, WatchSame
  <1>5. CASE StillCurrent(r) /\ t \notin matches[r]
    <2>1. /\ matches' = [matches EXCEPT ![r] = @ \cup {t}] /\ told' = [told EXCEPT ![r] = @ \cup {t}]
      BY <1>2, <1>5 DEF Enriched
    <2>2. Watched[r] # None /\ Active[r] /\ t \in Watched[r] \ matches[r]
      <3>1. rule[r] # None /\ rule[r].on /\ rule[r].terms = poll.held[r].terms /\ rule[r].terms # None
        BY <1>1, <1>5, RuleFields, NoNone DEF StillCurrent
      <3> QED BY <1>2, <1>5, <3>1 DEF Watched, Active
    <2>3. Watched' = Watched /\ Active' = Active
      BY <1>1 DEF Watched, Active
    <2>4. Watch!Tell(r, t)
      BY <1>1, <1>2, <1>3, <2>1, <2>2, <2>3 DEF Watch!Tell, Watch!Watching, Watched, Active, TakenUp
    <2> QED BY <2>4 DEF WatchStep, Watch!WatchNext
  <1> QED BY <1>4, <1>5

LEMMA AdminWatches == ASSUME NEW rules \in SUBSET Rules, Serve(rules) PROVE WatchStep
  <1>1. UNCHANGED <<rule, poll, matches, told>> /\ served' = rules
    BY DEF Serve
  <1>2. Watched' = Watched /\ Active' = Active /\ TakenUp' = TakenUp
    BY <1>1, SamePoll DEF Watched, Active
  <1>3. Watch!Enable(rules)
    BY <1>1, <1>2 DEF Watch!Enable, Watched, Active, TakenUp
  <1> QED BY <1>3 DEF WatchStep, Watch!WatchNext

\* A poll takes up rules that are enabled and served.
LEMMA BeginWatches ==
  ASSUME TypeOK, NEW full \in BOOLEAN, NEW scope \in SUBSET Rules, BeginPoll(full, scope)
  PROVE  WatchStep
  <1>1. UNCHANGED <<rule, served, matches, told>> /\ poll = None
    BY DEF BeginPoll
  <1>2. ASSUME NEW r \in Selected(scope)
        PROVE  /\ HeldRow(r) # None /\ r \in Rules /\ r \in served
               /\ Watched[r] # None /\ Active[r]
    <2>1. r \in Rules /\ rule[r] # None /\ rule[r].on /\ r \in served
      BY DEF Selected
    <2>2. HeldRow(r) \in HeldRows /\ rule[r].terms # None
      BY <2>1, RuleFields, NoNone DEF HeldRow, HeldRows
    <2> QED BY <2>1, <2>2, NoNone DEF Watched, Active
  <1>3. poll'.held = [r \in Rules |-> IF r \in Selected(scope) THEN HeldRow(r) ELSE None]
    BY DEF BeginPoll
  <1>4. Selected(scope) \in SUBSET Rules /\ (TakenUp' = Selected(scope) \/ TakenUp' = {}) /\ TakenUp = {}
    BY <1>1, <1>2, <1>3 DEF TakenUp, Held, Selected
  <1>5. Watched' = Watched /\ Active' = Active
    BY <1>1 DEF Watched, Active
  <1>6. CASE TakenUp' = {}
    BY <1>1, <1>4, <1>6, WatchSame
  <1>7. CASE TakenUp' = Selected(scope)
    <2>1. Watch!TakeUp(Selected(scope))
      BY <1>1, <1>2, <1>4, <1>5, <1>7 DEF Watch!TakeUp, Watched, Active, TakenUp
    <2> QED BY <1>4, <2>1 DEF WatchStep, Watch!WatchNext
  <1> QED BY <1>4, <1>6, <1>7

LEMMA HandlersWatch == ASSUME TypeOK, Handlers PROVE WatchStep
  <1>1. \A r \in Rules : rule[r] # None => rule[r] \in RuleRows
    BY DEF TypeOK
  <1>2. \A terms \in Terms : NewRow(terms) \in RuleRows
    BY DEF NewRow, RuleRows
  <1>3. ASSUME NEW r \in Rules, NEW terms \in Terms, Create(r, terms) PROVE WatchStep
    BY <1>2, <1>3, WatchAnew DEF Create
  <1>4. ASSUME NEW r \in Rules, NEW terms \in Terms, PatchRule(r, terms) PROVE WatchStep
    <2>1. [NewRow(terms) EXCEPT !.on = rule[r].on] \in RuleRows
      BY <1>1, <1>2, <1>4 DEF PatchRule, RuleRows
    <2> QED BY <1>4, <2>1, WatchAnew DEF PatchRule
  <1>5. ASSUME NEW r \in Rules, NEW terms \in Terms, PatchTerms(r, terms) PROVE WatchStep
    <2>1. [rule[r] EXCEPT !.terms = terms] \in RuleRows
      BY <1>1, <1>5 DEF PatchTerms, RuleRows
    <2> QED BY <1>5, <2>1, WatchAnew DEF PatchTerms
  <1>6. ASSUME NEW r \in Rules, Delete(r) PROVE WatchStep
    BY <1>6, WatchAnew DEF Delete
  <1> QED BY <1>3, <1>4, <1>5, <1>6, WatchSwitches DEF Handlers

LEMMA LaneWatches == ASSUME RuleIInv, Lane PROVE WatchStep
  <1>1. TypeOK /\ rule \in [Rules -> RuleRows \cup {None}] /\ (TakenUp' = TakenUp \/ TakenUp' = {})
    BY LaneGoesOn DEF RuleIInv, TypeOK
  <1>2. ASSUME PollReads \/ PollIngests \/ DirectsDone \/ EndPoll \/ \E g \in Terms : NextGroup(g) PROVE WatchStep
    BY <1>1, <1>2, WatchSame DEF PollReads, ruleVars, PollIngests, DirectsDone, EndPoll, NextGroup
  <1>3. ASSUME NEW complete \in BOOLEAN, SearchFinds(complete) PROVE WatchStep
    <2>1. \A r \in Rules : RowLike(rule'[r], rule[r])
      BY <1>1, <1>3, SearchFindsMarks
    <2> QED BY <1>1, <1>3, <2>1, WatchLike DEF SearchFinds
  <1>4. ASSUME StartRows PROVE WatchStep
    <2> DEFINE baseline == {r \in GroupRows : poll.held[r].baseline}
               there == {r \in baseline : rule[r] # None}
    <2>1. poll # None /\ GroupRows \in SUBSET Rules
      BY <1>1, <1>4, PollFields DEF StartRows
    <2>2. ASSUME NEW marked \in SUBSET there
          PROVE  /\ Recovered(marked) \in [Rules -> RuleRows \cup {None}]
                 /\ \A r \in Rules : RowLike(Recovered(marked)[r], rule[r])
      <3>1. marked \in SUBSET {r \in Rules : rule[r] # None}
        BY <2>1
      <3> QED BY <1>1, <2>1, <3>1, RecoveredRows
    <2>3. CASE Gap /\ there # baseline
      <3>1. PICK marked \in SUBSET there : LaneDies(Recovered(marked))
        BY <1>4, <2>3 DEF StartRows
      <3>2. \A r \in Rules : RowLike(rule'[r], rule[r])
        BY <1>1, <2>1, <2>2, <3>1, WatchDies
      <3> QED BY <1>1, <1>4, <3>2, WatchLike DEF StartRows
    <2>4. CASE ~(Gap /\ there # baseline)
      <3>1. rule' = (IF Gap THEN Recovered(baseline) ELSE rule) /\ (Gap => baseline \in SUBSET there)
        BY <1>4, <2>4 DEF StartRows
      <3> HIDE DEF baseline, there
      <3>2. \A r \in Rules : RowLike(rule'[r], rule[r])
        BY <2>2, <3>1, SameRule
      <3> QED BY <1>1, <1>4, <3>2, WatchLike DEF StartRows
    <2> QED BY <2>3, <2>4
  <1>5. ASSUME NEW r \in Rules, StartRow(r) PROVE WatchStep
    <2>1. \A q \in Rules : SameWatch(q)
      <3>1. CASE Evaluated(r)
        BY <1>1, <1>5, <3>1, WatchEvaluated DEF StartRow
      <3>2. CASE UNCHANGED rule
        BY <3>2 DEF SameWatch
      <3> QED BY <1>5, <3>1, <3>2 DEF StartRow
    <2> QED BY <1>1, <1>5, <2>1, WatchStutters DEF StartRow
  <1>6. ASSUME RowDone PROVE WatchStep
    <2>1. poll # None /\ poll.row \in Rules
      BY <1>1, <1>6, PollFields DEF RowDone
    <2>2. \A q \in Rules : SameWatch(q)
      BY <1>1, <1>6, <2>1, WatchEvaluated DEF RowDone
    <2> QED BY <1>1, <1>6, <2>2, WatchStutters DEF RowDone
  <1>7. ASSUME GroupDone PROVE WatchStep
    <2>1. poll # None /\ GroupRows \in SUBSET Rules
      BY <1>1, <1>7, PollFields DEF GroupDone
    <2>2. \A r \in Rules : RowLike(rule'[r], rule[r])
      <3>1. CASE ErrorOn(GroupRows, rule)
        BY <1>1, <2>1, <3>1, ErrorStored
      <3>2. CASE UNCHANGED rule
        BY <3>2, SameRule
      <3> QED BY <1>7, <3>1, <3>2 DEF GroupDone, LaneDies
    <2> QED BY <1>1, <1>7, <2>2, WatchLike DEF GroupDone
  <1> QED BY <1>1, <1>2, <1>3, <1>4, <1>5, <1>6, <1>7, WatchAccepts, WatchTells DEF Lane

LEMMA RulesWatch == ASSUME RuleIInv, [Next]_vars PROVE WatchStep
  <1>1. TypeOK /\ rule \in [Rules -> RuleRows \cup {None}]
    BY DEF RuleIInv, TypeOK
  <1>2. ASSUME Failures PROVE WatchStep
    <2>1. ASSUME FeedFails PROVE WatchStep
      <3>1. Held \in SUBSET Rules
        BY DEF Held
      <3>2. \A r \in Rules : RowLike(rule'[r], rule[r])
        BY <1>1, <2>1, <3>1, ErrorStored DEF FeedFails
      <3> QED BY <1>2, <1>1, <2>1, <3>2, LaneGoesOn, WatchLike DEF FeedFails
    <2>2. ASSUME NEW final \in BOOLEAN, SearchFails(final) PROVE WatchStep
      BY <1>2, <1>1, <2>2, LaneGoesOn, WatchSame DEF SearchFails
    <2> QED BY <1>2, <2>1, <2>2 DEF Failures
  <1>3. ASSUME FullPoll \/ \E r \in Rules : BeginPoll(FALSE, {r}) PROVE WatchStep
    BY <1>1, <1>3, BeginWatches DEF FullPoll
  <1>4. ASSUME Tracker \/ UNCHANGED vars PROVE WatchStep
    BY <1>4, SamePoll, WatchSame DEF Tracker, vars, ruleVars
  <1>5. ASSUME Crash PROVE WatchStep
    <2>1. TakenUp' = {}
      BY <1>5 DEF Crash, TakenUp
    <2> QED BY <1>5, <2>1, WatchSame DEF Crash
  <1>6. ASSUME Admin PROVE WatchStep
    BY <1>6, AdminWatches DEF Admin
  <1> QED BY <1>1, <1>2, <1>3, <1>4, <1>5, <1>6, HandlersWatch, LaneWatches DEF Next

(***************************************************************************)
(* The poll and the handlers keep the promise of RuleWatch: a rule tells a *)
(* release once, none it has accepted, only while it is enabled and by the *)
(* terms it has at that moment, and a rule of a disabled owner or tracker  *)
(* only in the poll that had selected it before that.                      *)
(***************************************************************************)
THEOREM WatchIsKept == Spec => WatchPromise
  <1>1. Init => Watch!WatchInit
    BY DEF Init, Watch!WatchInit
  <1>2. RuleIInv /\ [Next]_vars => [Watch!WatchNext]_(Watch!watchVars)
    BY RulesWatch DEF WatchStep
  <1> QED BY <1>1, <1>2, RuleInvariant, PTL DEF Spec, WatchPromise, Watch!WatchSpec
=============================================================================
