---------------------------- MODULE FeedCoverage ----------------------------
(***************************************************************************)
(* The rolling feed of a tracker and the release buffer behind it          *)
(* (server/release-buffer.ts, the feed of trackers/plugins/rutracker).     *)
(*                                                                         *)
(* A feed shows the topics listed last: a new one, or one whose torrent    *)
(* was replaced.  Between two polls more may be listed than it shows.  A   *)
(* poll therefore compares the page with the one before it: an entry both  *)
(* have proves that nothing was skipped between them; with none, a gap is  *)
(* open until every rule has searched for what it may have missed.         *)
(*                                                                         *)
(* One tracker is modelled; everything is keyed by it.  Listings take an   *)
(* instant each.  Entries without a time are left out.                     *)
(***************************************************************************)
EXTENDS Integers, FiniteSets

CONSTANTS
  Topics,
  PageSize,    \* entries the feed shows
  FeedCache,   \* how old the page may be that a poll gets: FEED_CACHE_MILLISECONDS and the request
  Retention,   \* BUFFER_RETENTION_DAYS
  ClockSkew,   \* the clocks of tracker and server differ by less
  MaxTime,     \* bound: instants
  None         \* SQL NULL, or no row

Offsets == (1 - ClockSkew)..(ClockSkew - 1)
Stamps == (1 - ClockSkew)..(MaxTime + ClockSkew - 1)
Listings == [Topics -> Stamps \cup {None}]

\* entries: the topics of a page with their times; all (history): the tracker
\* when it was read.
Pages == [entries : Listings, at : 0..MaxTime, all : Listings]

\* keys: previous_entry_ids; gap: unresolved_gap_since; lastGap: last_gap_at;
\* since: continuous_since.
FeedRows == [at : 0..MaxTime, keys : SUBSET (Topics \X (Stamps \cup {None})),
             gap : 0..MaxTime \cup {None}, lastGap : 0..MaxTime \cup {None},
             since : Stamps \cup {None}]

BufferRows == [at : Stamps, seen : 0..MaxTime]

ASSUME FeedAssumption ==
  /\ IsFiniteSet(Topics)
  /\ PageSize \in Nat \ {0} /\ FeedCache \in Nat /\ Retention \in Nat
  /\ ClockSkew \in Nat \ {0} /\ MaxTime \in Nat
  /\ None \notin Int \cup FeedRows \cup BufferRows

VARIABLES
  now,      \* the server's clock
  offset,   \* how far the tracker's clock is ahead
  listed,   \* the tracker: when a topic was last listed, by its clock, or None
  cache,    \* the page the plugin has read, or None
  feed,     \* the row of tracker_feed_state, or None
  buffer,   \* tracker_release_buffer: a row or None for every topic
  shown,    \* history: what was listed when the page of the last poll was read
  skipped   \* history: topics whose listing neither the feed nor a search has shown

world == <<now, offset, listed>>
feedVars == <<world, cache, feed, buffer, shown, skipped>>

FeedTypeOK ==
  /\ now \in 0..MaxTime /\ offset \in Offsets
  /\ listed \in Listings
  /\ cache \in Pages \cup {None}
  /\ feed \in FeedRows \cup {None}
  /\ buffer \in [Topics -> BufferRows \cup {None}]
  /\ shown \in Listings
  /\ skipped \subseteq Topics

Nothing == [t \in Topics |-> None]

\* A tracker nothing is known of; or the row of an earlier version, whose keys
\* have no time and which knew no continuous_since.
FeedInit ==
  /\ now = 0
  /\ offset \in Offsets
  /\ listed = Nothing /\ cache = None
  /\ buffer = Nothing /\ shown = Nothing /\ skipped = {}
  /\ \/ feed = None
     \/ \E t \in Topics :
          feed = [at |-> 0, keys |-> {<<t, None>>}, gap |-> None, lastGap |-> None,
                  since |-> None]
-----------------------------------------------------------------------------
(* The tracker and its feed. *)

TrackerClock == now + offset

\* A topic is new, or its torrent is replaced: it goes to the top of the feed.
Publish(t) ==
  /\ now < MaxTime
  /\ now' = now + 1
  /\ listed' = [listed EXCEPT ![t] = TrackerClock]
  /\ UNCHANGED <<offset, cache, feed, buffer, shown, skipped>>

Tick ==
  /\ now < MaxTime
  /\ now' = now + 1
  /\ UNCHANGED <<offset, listed, cache, feed, buffer, shown, skipped>>

\* The topics that are listed in a listing, and those it lists after t.
Entries(l) == {t \in Topics : l[t] # None}
After(l, t) == {u \in Entries(l) : l[u] > l[t]}

\* What the feed shows.
FirstPage ==
  [t \in Topics |->
     IF t \in Entries(listed) /\ Cardinality(After(listed, t)) < PageSize
     THEN listed[t] ELSE None]

Fresh == cache # None /\ now - cache.at <= FeedCache

\* loadFeed: a page that is not fresh any more is read again; a page without
\* entries is an error.
ReadFeed ==
  /\ ~Fresh
  /\ Entries(listed) # {}
  /\ cache' = [entries |-> FirstPage, at |-> now, all |-> listed]
  /\ UNCHANGED <<world, feed, buffer, shown, skipped>>
-----------------------------------------------------------------------------
(* The buffer and the row. *)

Holds(b, t, at) == b[t] # None /\ b[t].at >= at

\* Mutant: releases keep the time they were first seen with.
BufferReleases_KeepsFirst(b, entries) ==
  [t \in Topics |->
     IF entries[t] # None THEN [at |-> IF b[t] # None THEN b[t].at ELSE entries[t], seen |-> now]
     ELSE b[t]]

\* bufferReleases.
BufferReleases(b, entries) ==
  [t \in Topics |->
     IF entries[t] # None THEN [at |-> entries[t], seen |-> now] ELSE b[t]]

\* pruneReleaseBuffer.
PruneReleaseBuffer(b) ==
  [t \in Topics |-> IF b[t] # None /\ b[t].seen < now - Retention THEN None ELSE b[t]]

Keys(entries) == {<<t, entries[t]>> : t \in Entries(entries)}

\* Mutant: entries are compared by topic alone.
Overlaps_ByTopic(keys, entries) ==
  {k \in Keys(entries) : \E old \in keys : old[1] = k[1]}

\* The entries both pages have; those of an earlier version by topic.
Overlaps(keys, entries) ==
  {k \in Keys(entries) : k \in keys \/ <<k[1], None>> \in keys}

GapDetected(previous, entries) ==
  /\ previous # None
  /\ previous.keys # {} /\ Keys(entries) # {}
  /\ Overlaps(previous.keys, entries) = {}

OldestEntry(entries) ==
  CHOOSE at \in {entries[t] : t \in Entries(entries)} :
    \A t \in Entries(entries) : at <= entries[t]

\* The row after a page: a gap that is open stays open since it was opened.
FeedRow(previous, entries) ==
  LET detected == GapDetected(previous, entries)
  IN  [at |-> now,
       keys |-> Keys(entries),
       gap |-> IF previous = None THEN None
               ELSE IF previous.gap = None /\ detected THEN previous.at
               ELSE previous.gap,
       lastGap |-> IF detected THEN now
                   ELSE IF previous = None THEN None ELSE previous.lastGap,
       since |-> IF previous = None \/ detected \/ previous.since = None
                 THEN OldestEntry(entries) ELSE previous.since]

\* ingestRollingFeedBatch of the page discover has returned, one transaction.
Ingest ==
  /\ Fresh
  /\ feed' = FeedRow(feed, cache.entries)
  /\ buffer' = PruneReleaseBuffer(BufferReleases(buffer, cache.entries))
  /\ shown' = cache.all
  /\ skipped' = IF feed = None \/ feed.since = None THEN {}
                ELSE {t \in Entries(shown') : /\ t \in skipped \/ shown'[t] # shown[t]
                                              /\ ~Holds(buffer', t, shown'[t])}
  /\ UNCHANGED <<world, cache>>

\* A catch-up search returns releases of the gap, each with the listing it has
\* read, and they are buffered.
CatchUp(found) ==
  /\ feed # None /\ feed.gap # None
  /\ buffer' = BufferReleases(buffer, found)
  /\ skipped' = {t \in skipped : ~Holds(buffer', t, shown[t])}
  /\ UNCHANGED <<world, cache, feed, shown>>

\* markFeedRecovery(complete).
CloseGap ==
  /\ feed # None /\ feed.gap # None
  /\ feed' = [feed EXCEPT !.gap = None]
  /\ skipped' = {}
  /\ UNCHANGED <<world, cache, buffer, shown>>

-----------------------------------------------------------------------------
(***************************************************************************)
(* What continuous_since promises: every topic listed since then, up to    *)
(* the page of the last poll, is in the buffer with its latest listing,    *)
(* unless it was last seen before the retention.  Gaps that are closed,    *)
(* pages read twice and rows of an earlier version do not weaken it.       *)
(***************************************************************************)
BufferFollowsFeed ==
  feed # None /\ feed.since # None =>
    \A t \in Entries(shown) :
      shown[t] >= feed.since =>
        \/ Holds(buffer, t, shown[t])
        \/ shown[t] - offset < feed.at - Retention

(***************************************************************************)
(* Nothing is skipped unnoticed: while a listing was shown neither by the  *)
(* feed nor by a search, a gap is open, and it begins early enough, but    *)
(* for the age a page may have when it is stored.  (Of a row of an earlier *)
(* version the first page proves nothing.)                                 *)
(***************************************************************************)
SkippedIsGap ==
  \A t \in skipped :
    /\ feed.gap # None
    /\ shown[t] - offset >= feed.gap - FeedCache
=============================================================================
