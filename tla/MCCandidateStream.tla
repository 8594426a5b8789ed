------------------------- MODULE MCCandidateStream -------------------------
(* Instances of CandidateStream for TLC. *)
EXTENDS CandidateStream, TLC, Functions

\* Requests that only compete for the slots: they query sources that need a
\* browser, these find nothing, and their clients stay.  The other requests may
\* do anything.
CONSTANT Quiet

QuietCompete ==
    \A r \in Quiet :
        /\ connected[r]
        /\ active[r] \subseteq BrowserSources
        /\ \A s \in Sources : sent[r][s] = 0

\* One source of a request may send twice, or two sources once each.
FewCandidates ==
    \A r \in Requests : FoldFunction(+, 0, sent[r]) <= 2

LiveNext == Next /\ QuietCompete'

LiveSpec == Init /\ [][LiveNext]_vars /\ Fairness

MCBrowserSources == {1, 2}
OneBrowserSource == {1}
WebWithBT == [s \in Sources |-> IF s = 3 THEN "bt" ELSE "web"]
\* The tier reverses the order of the IDs.
ReversedTier == [s \in Sources |-> 3 - (IF s = 3 THEN 2 ELSE s)]
AllTransports == {{}}
SomeTransports == {{}, {"torrent"}, {"hls"}}
Ids == {"a", "b"}
OneId == {"a"}
=============================================================================
