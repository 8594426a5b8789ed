---------------------------- MODULE ReleaseStream ----------------------------
(***************************************************************************)
(* POST /v1/releases of the plugin process, one request: a goroutine per   *)
(* BT source (searchReleases), joined by a channel, and the writer         *)
(* (streamReleases), which tells one source after the other.               *)
(*                                                                         *)
(* Releases is seen through what it returns; ReleaseSearch is its inside.  *)
(***************************************************************************)
EXTENDS Naturals, Sequences, FiniteSets

CONSTANTS
    Sources,      \* the enabled BT sources
    ReleaseIds,   \* Release.ID values
    MaxReleases   \* bound: releases one source returns

ASSUME StreamAssumption == IsFiniteSet(Sources) /\ MaxReleases \in Nat

VARIABLES
    connected,   \* the client still reads the response
    cancelled,   \* the request's context is done
    search,      \* each source's goroutine: running, ended
    outcome,     \* [history] what each source's Releases returned; empty before
    messages,    \* the channel messages
    writer,      \* the goroutine of streamReleases: streaming, returned
    current,     \* the message the writer is telling; empty between two
    seen,        \* the IDs of the current message already seen
    skipped,     \* its releases that were not written
    completed,   \* the loop counter
    succeeded,   \* sources whose state was not failed
    wire         \* the events of the response body, oldest first

writerVars == <<current, seen, skipped, completed, succeeded>>
vars == <<connected, cancelled, search, outcome, messages, writer, writerVars, wire>>

\* A release is well formed when its sourceId is its runner's and it passes the
\* release schema.
Release == [id : ReleaseIds, wellFormed : BOOLEAN]

Lists == UNION {[1..n -> Release] : n \in 0..MaxReleases}

Message == [source : Sources, releases : Lists, failed : BOOLEAN]

Event ==
    [event : {"release"}, source : Sources, id : ReleaseIds]
    \cup [event : {"source_result"}, source : Sources, state : {"ok", "zero", "failed"}, count : Nat]
    \cup [event : {"done"}, queried : Nat, succeeded : Nat, failed : Nat]

TypeOK ==
    /\ connected \in BOOLEAN
    /\ cancelled \in BOOLEAN
    /\ search \in [Sources -> {"running", "ended"}]
    /\ \A s \in Sources : outcome[s] \in Seq(Message) /\ Len(outcome[s]) <= 1
    /\ messages \in Seq(Message)
    /\ Len(messages) <= Cardinality(Sources)
    /\ writer \in {"streaming", "returned"}
    /\ current \in Seq(Message) /\ Len(current) <= 1
    /\ seen \subseteq ReleaseIds
    /\ skipped \in 0..MaxReleases
    /\ completed \in 0..Cardinality(Sources)
    /\ succeeded \in 0..completed
    /\ wire \in Seq(Event)

Init ==
    /\ connected = TRUE
    /\ cancelled = FALSE
    /\ search = [s \in Sources |-> "running"]
    /\ outcome = [s \in Sources |-> <<>>]
    /\ messages = <<>>
    /\ writer = "streaming"
    /\ current = <<>>
    /\ seen = {}
    /\ skipped = 0
    /\ completed = 0
    /\ succeeded = 0
    /\ wire = <<>>

-----------------------------------------------------------------------------
(* The sources' goroutines: searchReleases                                 *)

\* Mutant of EndSearch: a panic is recovered without an outcome.
EndSearch_PanicLost(s) ==
    /\ search[s] = "running"
    /\ search' = [search EXCEPT ![s] = "ended"]
    /\ \E releases \in Lists, failed \in BOOLEAN :
         LET message == [source |-> s, releases |-> releases, failed |-> failed] IN
         /\ outcome' = [outcome EXCEPT ![s] = <<message>>]
         /\ \/ messages' = Append(messages, message)
            \/ UNCHANGED messages
    /\ UNCHANGED <<connected, cancelled, writer, writerVars, wire>>

\* Releases returns, with an error or without one, or panics and is recovered
\* with an error.  The channel has room for every source.
EndSearch(s) ==
    /\ search[s] = "running"
    /\ search' = [search EXCEPT ![s] = "ended"]
    /\ \E releases \in Lists, failed \in BOOLEAN :
         LET message == [source |-> s, releases |-> releases, failed |-> failed] IN
         /\ outcome' = [outcome EXCEPT ![s] = <<message>>]
         /\ messages' = Append(messages, message)
    /\ UNCHANGED <<connected, cancelled, writer, writerVars, wire>>

\* case <-ctx.Done()
AbandonSearch(s) ==
    /\ search[s] = "running"
    /\ cancelled
    /\ search' = [search EXCEPT ![s] = "ended"]
    /\ UNCHANGED <<connected, cancelled, outcome, messages, writer, writerVars, wire>>

-----------------------------------------------------------------------------
(* The writer: streamReleases and writeSourceReleases                      *)

\* Returning runs the deferred cancel.
Return ==
    /\ writer' = "returned"
    /\ cancelled' = TRUE

\* eventWriter.write, as in CandidateStream.
Write(e) ==
    \/ /\ wire' = Append(wire, e)
       /\ UNCHANGED <<writer, cancelled>>
    \/ /\ ~connected
       /\ Return
       /\ UNCHANGED wire

Idle == writer = "streaming" /\ current = <<>>
Telling == writer = "streaming" /\ current # <<>>

TakeMessage ==
    /\ Idle
    /\ completed < Cardinality(Sources)
    /\ messages # <<>>
    /\ current' = <<Head(messages)>>
    /\ messages' = Tail(messages)
    /\ seen' = {}
    /\ skipped' = 0
    /\ UNCHANGED <<connected, cancelled, search, outcome, writer, completed, succeeded, wire>>

\* case <-ctx.Done(), which is looked at between two sources only
AbandonStream ==
    /\ Idle
    /\ completed < Cardinality(Sources)
    /\ cancelled
    /\ Return
    /\ UNCHANGED <<connected, search, outcome, messages, writerVars, wire>>

\* The message without its first release.
Rest == [current[1] EXCEPT !.releases = Tail(@)]

\* Mutant of Writable: seen is not looked at.
Writable_Again(release) == release.wellFormed

Writable(release) == release.wellFormed /\ release.id \notin seen

WriteRelease ==
    /\ Telling
    /\ current[1].releases # <<>>
    /\ LET release == Head(current[1].releases) IN
       /\ Writable(release)
       /\ seen' = seen \cup {release.id}
       /\ Write([event |-> "release", source |-> current[1].source, id |-> release.id])
    /\ current' = <<Rest>>
    /\ UNCHANGED <<connected, search, outcome, messages, skipped, completed, succeeded>>

SkipRelease ==
    /\ Telling
    /\ current[1].releases # <<>>
    /\ ~Writable(Head(current[1].releases))
    /\ skipped' = skipped + 1
    /\ current' = <<Rest>>
    /\ UNCHANGED <<connected, cancelled, search, outcome, messages, writer, seen, completed, succeeded, wire>>

\* Mutant of State: what is left without an error counts as no release.
State_InvalidIsZero ==
    IF seen # {} THEN "ok" ELSE IF current[1].failed THEN "failed" ELSE "zero"

\* sourceResult: releases that were all invalid are a failure, not zero.
State ==
    IF seen # {} THEN "ok"
    ELSE IF ~current[1].failed /\ skipped = 0 THEN "zero"
    ELSE "failed"

\* Mutant of WriteResult: a failed source counts as succeeded.
WriteResult_CountsAll ==
    /\ Telling
    /\ current[1].releases = <<>>
    /\ Write([event |-> "source_result", source |-> current[1].source, state |-> State,
              count |-> Cardinality(seen)])
    /\ current' = <<>>
    /\ completed' = completed + 1
    /\ succeeded' = succeeded + 1
    /\ UNCHANGED <<connected, search, outcome, messages, seen, skipped>>

WriteResult ==
    /\ Telling
    /\ current[1].releases = <<>>
    /\ Write([event |-> "source_result", source |-> current[1].source, state |-> State,
              count |-> Cardinality(seen)])
    /\ current' = <<>>
    /\ completed' = completed + 1
    /\ succeeded' = IF State # "failed" THEN succeeded + 1 ELSE succeeded
    /\ UNCHANGED <<connected, search, outcome, messages, seen, skipped>>

\* The end of streamReleases; a failed write of the last event is ignored.
FinishStream ==
    /\ Idle
    /\ completed = Cardinality(Sources)
    /\ \/ wire' = Append(wire, [event |-> "done", queried |-> Cardinality(Sources),
                                succeeded |-> succeeded,
                                failed |-> Cardinality(Sources) - succeeded])
       \/ ~connected /\ UNCHANGED wire
    /\ Return
    /\ UNCHANGED <<connected, search, outcome, messages, writerVars>>

-----------------------------------------------------------------------------

Disconnect ==
    /\ connected
    /\ connected' = FALSE
    /\ UNCHANGED <<cancelled, search, outcome, messages, writer, writerVars, wire>>

\* The request's context ends: the closed connection was noticed, or the process
\* is shutting down.
Cancel ==
    /\ ~cancelled
    /\ cancelled' = TRUE
    /\ UNCHANGED <<connected, search, outcome, messages, writer, writerVars, wire>>

Next ==
    \/ \E s \in Sources : EndSearch(s) \/ AbandonSearch(s)
    \/ TakeMessage
    \/ AbandonStream
    \/ WriteRelease
    \/ SkipRelease
    \/ WriteResult
    \/ FinishStream
    \/ Disconnect
    \/ Cancel

Spec == Init /\ [][Next]_vars

\* Releases returns by its deadline (SearchesReturn of ReleaseSearch), and the
\* writer goes on when it can.
FairSpec ==
    /\ Spec
    /\ \A s \in Sources : WF_vars(EndSearch(s) \/ AbandonSearch(s))
    /\ WF_vars(TakeMessage \/ AbandonStream \/ WriteRelease \/ SkipRelease \/ WriteResult
               \/ FinishStream)

-----------------------------------------------------------------------------

\* Each source is told in one piece, ended by exactly one source_result that
\* counts its releases; done comes last and counts the results.
Contract == INSTANCE ReleaseContract WITH phase <- writer
ImplementsContract == Contract!Spec

Events == {wire[i] : i \in DOMAIN wire}

\* What a source's search returned.
Returned(s) == outcome[s][1]
Good(s) == {r.id : r \in {q \in {Returned(s).releases[i] : i \in DOMAIN Returned(s).releases} : q.wellFormed}}

\* Once a source is told, the client has each of its well-formed releases, however
\* its malformed and repeated ones lay between them, and is told zero only of a
\* search that found nothing at all and did not fail: a source whose releases were
\* all refused is failed, not empty.
ToldInFull ==
    \A e \in Events : e.event = "source_result" =>
        /\ {d.id : d \in {d \in Events : d.event = "release" /\ d.source = e.source}} = Good(e.source)
        /\ e.state = "zero" <=> Returned(e.source).releases = <<>> /\ ~Returned(e.source).failed

\* The stream ends, with done unless the client left or the request was cancelled
\* before its last source was told.
StreamEnds ==
    <>(/\ writer = "returned"
       /\ (wire # <<>> /\ wire[Len(wire)].event = "done") \/ ~connected \/ completed < Cardinality(Sources))
=============================================================================
