----------------------------- MODULE FeedAssist -----------------------------
(***************************************************************************)
(* The decision that a watched topic need not be loaded because the feed   *)
(* shows that its torrent has not changed (server/feed-assist.ts), over    *)
(* the feed as FeedCoverage follows it.                                    *)
(***************************************************************************)
EXTENDS FeedCoverage

CONSTANTS MaxAge   \* FEED_ASSIST_MAX_AGE_MS

\* An entry of the buffer outlives the pages it is asked about.
ASSUME AssistAssumption == MaxAge \in Nat /\ MaxAge <= Retention

\* Mutant: the clocks are taken to agree.
FeedShowsNoChange_NoSkew(verified, since, entry, agree) ==
  /\ verified # None /\ now - verified < MaxAge
  /\ since # None /\ since <= verified
  /\ entry = None \/ (entry.at <= verified /\ agree)

\* feedShowsNoChange.  verified: when the page was last loaded, by the
\* server's clock; agree: the magnets of entry and page do not differ.
FeedShowsNoChange(verified, since, entry, agree) ==
  /\ verified # None /\ now - verified < MaxAge
  /\ since # None /\ since <= verified - ClockSkew
  /\ entry = None \/ (entry.at <= verified - ClockSkew /\ agree)

(***************************************************************************)
(* A page is skipped only while the topic is as it was: whenever it was    *)
(* loaded, if the feed shows no change then no listing of the topic        *)
(* happened since, up to the page of the last poll.                        *)
(***************************************************************************)
SkippedPageUnchanged ==
  feed # None =>
    \A t \in Topics, verified \in 0..now, agree \in BOOLEAN :
      FeedShowsNoChange(verified, feed.since, buffer[t], agree) =>
        shown[t] = None \/ shown[t] - offset < verified
=============================================================================
