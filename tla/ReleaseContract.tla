--------------------------- MODULE ReleaseContract ---------------------------
(***************************************************************************)
(* What POST /v1/releases promises its client, told by the response alone: *)
(* the sources are told one after the other, each by its releases and then *)
(* exactly one source_result, and done counts the results.                 *)
(***************************************************************************)
EXTENDS Naturals, Sequences, FiniteSets

CONSTANTS
    Sources,     \* the enabled BT sources
    ReleaseIds

VARIABLES
    phase,   \* streaming, returned
    wire     \* the events of the response body, oldest first

vars == <<phase, wire>>

Events == {wire[i] : i \in DOMAIN wire}
Told(s) == \E e \in Events : e.event = "source_result" /\ e.source = s
ReleasesOf(s) == {e \in Events : e.event = "release" /\ e.source = s}

\* No other source is in the middle of its releases.
Turn(s) ==
    wire # <<>> /\ wire[Len(wire)].event = "release" => wire[Len(wire)].source = s

Init == phase = "streaming" /\ wire = <<>>

SendRelease(s, id) ==
    /\ phase = "streaming"
    /\ ~Told(s)
    /\ Turn(s)
    /\ \A e \in ReleasesOf(s) : e.id # id
    /\ wire' = Append(wire, [event |-> "release", source |-> s, id |-> id])
    /\ UNCHANGED phase

\* Only a source without releases may say zero or failed.
SendResult(s, state) ==
    /\ phase = "streaming"
    /\ ~Told(s)
    /\ Turn(s)
    /\ state = "ok" <=> ReleasesOf(s) # {}
    /\ wire' = Append(wire, [event |-> "source_result", source |-> s, state |-> state,
                             count |-> Cardinality(ReleasesOf(s))])
    /\ UNCHANGED phase

SendDone ==
    /\ phase = "streaming"
    /\ \A s \in Sources : Told(s)
    /\ LET failed == {e \in Events : e.event = "source_result" /\ e.state = "failed"}
       IN  wire' = Append(wire, [event |-> "done", queried |-> Cardinality(Sources),
                                 succeeded |-> Cardinality(Sources) - Cardinality(failed),
                                 failed |-> Cardinality(failed)])
    /\ phase' = "returned"

\* The client left or the process is shutting down.
BreakOff ==
    /\ phase = "streaming"
    /\ phase' = "returned"
    /\ UNCHANGED wire

Next ==
    \/ \E s \in Sources :
         \/ \E id \in ReleaseIds : SendRelease(s, id)
         \/ \E state \in {"ok", "zero", "failed"} : SendResult(s, state)
    \/ SendDone
    \/ BreakOff

Spec == Init /\ [][Next]_vars
=============================================================================
