-------------------------- MODULE CandidateContract --------------------------
(***************************************************************************)
(* What POST /v1/candidates promises its client, told by the response      *)
(* alone: which event may follow which.  No goroutine, channel or slot.    *)
(***************************************************************************)
EXTENDS Naturals, Sequences, FiniteSets

CONSTANTS Requests, Sources, CandidateIds

VARIABLES
    phase,     \* idle, streaming, returned
    queried,   \* the sources the request queries
    wire       \* the events of the response body, oldest first

vars == <<phase, queried, wire>>

Events(r) == {wire[r][i] : i \in DOMAIN wire[r]}

\* The sources with a candidate in the response, and those with a source_error.
Delivered(r) == {s \in queried[r] : \E e \in Events(r) : e.event = "candidate" /\ e.source = s}
Reported(r) == {s \in queried[r] : [event |-> "source_error", source |-> s] \in Events(r)}

Init ==
    /\ phase = [r \in Requests |-> "idle"]
    /\ queried = [r \in Requests |-> {}]
    /\ wire = [r \in Requests |-> <<>>]

Open(r) ==
    /\ phase[r] = "idle"
    /\ phase' = [phase EXCEPT ![r] = "streaming"]
    /\ \E chosen \in SUBSET Sources : queried' = [queried EXCEPT ![r] = chosen]
    /\ UNCHANGED wire

\* A candidate of a source not yet given up, under an ID not used so far.
SendCandidate(r) ==
    /\ phase[r] = "streaming"
    /\ \E s \in queried[r] \ Reported(r), id \in CandidateIds :
         /\ \A e \in Events(r) : e.event = "candidate" => e.id # id
         /\ wire' = [wire EXCEPT ![r] = Append(@, [event |-> "candidate", source |-> s, id |-> id])]
    /\ UNCHANGED <<phase, queried>>

SendError(r) ==
    /\ phase[r] = "streaming"
    /\ \E s \in queried[r] \ Reported(r) :
         wire' = [wire EXCEPT ![r] = Append(@, [event |-> "source_error", source |-> s])]
    /\ UNCHANGED <<phase, queried>>

\* done closes a stream in which every source has delivered or reported.
SendDone(r) ==
    /\ phase[r] = "streaming"
    /\ queried[r] = Delivered(r) \cup Reported(r)
    /\ wire' = [wire EXCEPT ![r] = Append(@,
                  [event |-> "done", queried |-> Cardinality(queried[r]),
                   succeeded |-> Cardinality(Delivered(r)),
                   failed |-> Cardinality(queried[r] \ Delivered(r))])]
    /\ phase' = [phase EXCEPT ![r] = "returned"]
    /\ UNCHANGED queried

\* The client left or the process is shutting down: the stream just stops.
BreakOff(r) ==
    /\ phase[r] = "streaming"
    /\ phase' = [phase EXCEPT ![r] = "returned"]
    /\ UNCHANGED <<queried, wire>>

Next ==
    \E r \in Requests :
        Open(r) \/ SendCandidate(r) \/ SendError(r) \/ SendDone(r) \/ BreakOff(r)

Spec == Init /\ [][Next]_vars
=============================================================================
