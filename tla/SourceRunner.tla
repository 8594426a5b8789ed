---------------------------- MODULE SourceRunner ----------------------------
(***************************************************************************)
(* SpecRunner.Candidates of one source: calls that share the source's      *)
(* semaphore and its rate gate.  A BT source fetches every page of every   *)
(* title in a goroutine of its own and then emits what they found; a web   *)
(* source searches title by title, fetches the episodes of the subject it  *)
(* chose, and resolves and emits one matching episode after another.       *)
(*                                                                         *)
(* A response is known by what the code makes of it: the records of a BT   *)
(* page, whether rows were found and whether one is certain, the number of *)
(* matching episodes, whether the media is readable.                       *)
(***************************************************************************)
EXTENDS Naturals, Sequences, FiniteSets

CONSTANTS
    Calls,         \* calls of Candidates
    Titles,        \* titles of a web search, at most
    Fetches,       \* titles times pages of a BT search
    Records,       \* the keys of the records a BT site has
    MaxMatches,    \* bound: matching episodes of a web source
    Concurrency,   \* limits.concurrency, the capacity of the semaphore
    Interval,      \* a minute by limits.requests_per_minute
    MaxTime        \* bound: the last instant

ASSUME RunnerAssumption ==
    /\ IsFiniteSet(Calls) /\ IsFiniteSet(Records)
    /\ Titles \in Nat /\ Fetches \in Nat \ {0} /\ MaxMatches \in Nat
    /\ Concurrency \in Nat \ {0} /\ Interval \in Nat /\ MaxTime \in Nat

VARIABLES
    kind,        \* of the source: "bt", or "direct" or "browser" for a web source
    clock,
    next,        \* rateGate.next
    reserved,    \* [history] the instants the gate has given out
    semaphore,   \* tokens in runner.semaphore
    callerDone,  \* the caller's context is done
    done,        \* sourceContext is done
    stage,       \* where each call is
    job,         \* each of its fetches; a web source has one at a time
    due,         \* the instant the gate gave a fetch
    titles,      \* web: titles left to search
    rows,        \* web: the searches found some row
    records,     \* BT: the records found
    left,        \* episodes left to resolve, or records left to emit
    emitted,     \* candidates the callback accepted
    result       \* none, ok, failed, refused by the callback

gateVars == <<clock, next, reserved>>
contexts == <<callerDone, done>>
work == <<titles, rows, records, left, emitted>>
vars == <<kind, gateVars, semaphore, contexts, stage, job, due, work, result>>

Jobs == 1..Fetches

Working == {"searching", "crawling", "listing", "resolving", "emitting"}

TypeOK ==
    /\ kind \in {"bt", "direct", "browser"}
    /\ clock \in 0..MaxTime /\ next \in Nat
    /\ reserved \in Seq(Nat)
    /\ semaphore \in 0..Concurrency
    /\ callerDone \in [Calls -> BOOLEAN] /\ done \in [Calls -> BOOLEAN]
    /\ stage \in [Calls -> {"idle", "queuing", "returned"} \cup Working]
    /\ job \in [Calls -> [Jobs -> {"none", "starting", "waiting", "fetching", "answered", "failed"}]]
    /\ due \in [Calls -> [Jobs -> Nat]]
    /\ titles \in [Calls -> 0..Titles]
    /\ rows \in [Calls -> BOOLEAN]
    /\ records \in [Calls -> SUBSET Records]
    /\ left \in [Calls -> Nat]
    /\ emitted \in [Calls -> Nat]
    /\ result \in [Calls -> {"none", "ok", "failed", "refused"}]

Init ==
    /\ kind \in {"bt", "direct", "browser"}
    /\ clock = 0
    /\ next = 0
    /\ reserved = <<>>
    /\ semaphore = 0
    /\ callerDone = [c \in Calls |-> FALSE]
    /\ done = [c \in Calls |-> FALSE]
    /\ stage = [c \in Calls |-> "idle"]
    /\ job = [c \in Calls |-> [j \in Jobs |-> "none"]]
    /\ due = [c \in Calls |-> [j \in Jobs |-> 0]]
    /\ titles = [c \in Calls |-> 0]
    /\ rows = [c \in Calls |-> FALSE]
    /\ records = [c \in Calls |-> {}]
    /\ left = [c \in Calls |-> 0]
    /\ emitted = [c \in Calls |-> 0]
    /\ result = [c \in Calls |-> "none"]

-----------------------------------------------------------------------------
(* Entering and leaving Candidates                                         *)

Call(c) ==
    /\ stage[c] = "idle"
    /\ stage' = [stage EXCEPT ![c] = "queuing"]
    /\ UNCHANGED <<kind, gateVars, semaphore, contexts, job, due, work, result>>

\* case runner.semaphore <- struct{}{}: the search of a web source begins, or all
\* the fetches of a BT source.
Acquire(c) ==
    /\ stage[c] = "queuing"
    /\ semaphore < Concurrency
    /\ semaphore' = semaphore + 1
    /\ stage' = [stage EXCEPT ![c] = IF kind = "bt" THEN "crawling" ELSE "searching"]
    /\ IF kind = "bt"
       THEN job' = [job EXCEPT ![c] = [j \in Jobs |-> "starting"]] /\ UNCHANGED titles
       ELSE (\E n \in 0..Titles : titles' = [titles EXCEPT ![c] = n]) /\ UNCHANGED job
    /\ UNCHANGED <<kind, gateVars, contexts, due, rows, records, left, emitted, result>>

\* Mutant of GiveUp: the context is not looked at while waiting for a token.
GiveUp_Untitled(c) ==
    /\ stage[c] = "queuing"
    /\ kind = "bt" /\ semaphore < Concurrency
    /\ stage' = [stage EXCEPT ![c] = "returned"]
    /\ result' = [result EXCEPT ![c] = "failed"]
    /\ UNCHANGED <<kind, gateVars, semaphore, contexts, job, due, work>>

\* case <-sourceContext.Done(), or a BT request without a usable title, which
\* gives its token back at once.
GiveUp(c) ==
    /\ stage[c] = "queuing"
    /\ done[c] \/ (kind = "bt" /\ semaphore < Concurrency)
    /\ stage' = [stage EXCEPT ![c] = "returned"]
    /\ result' = [result EXCEPT ![c] = "failed"]
    /\ UNCHANGED <<kind, gateVars, semaphore, contexts, job, due, work>>

\* Mutant of Return: no token is given back after the callback refused.
Return_Refused(c, outcome) ==
    /\ stage' = [stage EXCEPT ![c] = "returned"]
    /\ result' = [result EXCEPT ![c] = outcome]
    /\ semaphore' = IF outcome = "refused" THEN semaphore ELSE semaphore - 1
    /\ job' = [job EXCEPT ![c] = [j \in Jobs |-> "none"]]

\* The deferred functions give the token back.
Return(c, outcome) ==
    /\ stage' = [stage EXCEPT ![c] = "returned"]
    /\ result' = [result EXCEPT ![c] = outcome]
    /\ semaphore' = semaphore - 1
    /\ job' = [job EXCEPT ![c] = [j \in Jobs |-> "none"]]

-----------------------------------------------------------------------------
(* limitedFetcher.Fetch                                                    *)

\* Mutant of Slot: an instant already given out is not looked at.
Slot_Now == clock

\* The instant the gate gives the next fetch.
Slot == IF next < clock THEN clock ELSE next

\* The request cannot be built: a template lacks a variable.
BuildFails(c, j) ==
    /\ job[c][j] = "starting"
    /\ job' = [job EXCEPT ![c][j] = "failed"]
    /\ UNCHANGED <<kind, gateVars, semaphore, contexts, stage, due, work, result>>

\* rateGate.Wait up to its unlock; a fetch that is due goes on at once.
Reserve(c, j) ==
    /\ job[c][j] = "starting"
    /\ due' = [due EXCEPT ![c][j] = Slot]
    /\ next' = Slot + Interval
    /\ reserved' = Append(reserved, Slot)
    /\ job' = [job EXCEPT ![c][j] = IF Slot > clock THEN "waiting" ELSE "fetching"]
    /\ UNCHANGED <<kind, clock, semaphore, contexts, stage, work, result>>

\* case <-timer.C
PassGate(c, j) ==
    /\ job[c][j] = "waiting"
    /\ due[c][j] <= clock
    /\ job' = [job EXCEPT ![c][j] = "fetching"]
    /\ UNCHANGED <<kind, gateVars, semaphore, contexts, stage, due, work, result>>

\* case <-ctx.Done(): the instant stays reserved.
LeaveGate(c, j) ==
    /\ job[c][j] = "waiting"
    /\ done[c]
    /\ job' = [job EXCEPT ![c][j] = "failed"]
    /\ UNCHANGED <<kind, gateVars, semaphore, contexts, stage, due, work, result>>

\* The response, of a BT page with the records in it that match; or an error, of
\* the site, of the network or of the extraction, or the end of the context.
Answer(c, j) ==
    /\ job[c][j] = "fetching"
    /\ \/ /\ job' = [job EXCEPT ![c][j] = "answered"]
          /\ IF kind = "bt"
             THEN \E page \in SUBSET Records : records' = [records EXCEPT ![c] = @ \cup page]
             ELSE UNCHANGED records
       \/ job' = [job EXCEPT ![c][j] = "failed"] /\ UNCHANGED records
    /\ UNCHANGED <<kind, gateVars, semaphore, contexts, stage, due, titles, rows, left, emitted, result>>

Ended(c, j) == job[c][j] \in {"answered", "failed"}

-----------------------------------------------------------------------------
(* btCandidates                                                            *)

\* pending.Wait is over and the results are merged by key.
MergeRecords(c) ==
    /\ stage[c] = "crawling"
    /\ \A j \in Jobs : Ended(c, j)
    /\ IF done[c] \/ records[c] = {}
       THEN Return(c, "failed") /\ UNCHANGED left
       ELSE /\ stage' = [stage EXCEPT ![c] = "emitting"]
            /\ left' = [left EXCEPT ![c] = Cardinality(records[c])]
            /\ job' = [job EXCEPT ![c] = [j \in Jobs |-> "none"]]
            /\ UNCHANGED <<semaphore, result>>
    /\ UNCHANGED <<kind, gateVars, contexts, due, titles, rows, records, emitted>>

-----------------------------------------------------------------------------
(* webCandidates                                                           *)

Idle(c) == \A j \in Jobs : job[c][j] = "none"

\* The one fetch of a web source.
Fetch(c, how) == job' = [job EXCEPT ![c][1] = how]

\* The search of the next title.
Search(c) ==
    /\ stage[c] = "searching"
    /\ titles[c] > 0
    /\ Idle(c)
    /\ Fetch(c, "starting")
    /\ UNCHANGED <<kind, gateVars, semaphore, contexts, stage, due, work, result>>

\* Rows are added to the subjects; a certain one among them ends the search.  An
\* error leads to the next title, unless the context is done.
SearchEnds(c) ==
    /\ stage[c] = "searching"
    /\ Ended(c, 1)
    /\ IF job[c][1] = "failed" /\ done[c]
       THEN Return(c, "failed") /\ UNCHANGED <<titles, rows>>
       ELSE /\ Fetch(c, "none")
            /\ \/ /\ titles' = [titles EXCEPT ![c] = @ - 1]
                  /\ UNCHANGED rows
               \/ /\ job[c][1] = "answered"
                  /\ \E certain \in BOOLEAN :
                       titles' = [titles EXCEPT ![c] = IF certain THEN 0 ELSE @ - 1]
                  /\ rows' = [rows EXCEPT ![c] = TRUE]
            /\ UNCHANGED <<stage, semaphore, result>>
    /\ UNCHANGED <<kind, gateVars, contexts, due, records, left, emitted>>

\* chooseSubject over all rows; without a reliable one there is an error.
Choose(c) ==
    /\ stage[c] = "searching"
    /\ titles[c] = 0
    /\ Idle(c)
    /\ \/ Return(c, "failed")
       \/ /\ rows[c]
          /\ stage' = [stage EXCEPT ![c] = "listing"]
          /\ Fetch(c, "starting")
          /\ UNCHANGED <<semaphore, result>>
    /\ UNCHANGED <<kind, gateVars, contexts, due, work>>

\* The episodes that match the request.
EpisodesEnd(c) ==
    /\ stage[c] = "listing"
    /\ Ended(c, 1)
    /\ \/ Return(c, "failed") /\ UNCHANGED left
       \/ /\ job[c][1] = "answered"
          /\ stage' = [stage EXCEPT ![c] = "resolving"]
          /\ \E n \in 1..MaxMatches : left' = [left EXCEPT ![c] = n]
          /\ Fetch(c, "none")
          /\ UNCHANGED <<semaphore, result>>
    /\ UNCHANGED <<kind, gateVars, contexts, due, titles, rows, records, emitted>>

\* resolveWebCandidate of the next episode: a direct address is fetched through the
\* gate, a browser resolves without it.
Resolve(c) ==
    /\ stage[c] = "resolving"
    /\ left[c] > 0
    /\ Idle(c)
    /\ Fetch(c, IF kind = "browser" THEN "fetching" ELSE "starting")
    /\ UNCHANGED <<kind, gateVars, semaphore, contexts, stage, due, work, result>>

\* An answer may still not be readable media.
ResolveEnds(c) ==
    /\ stage[c] = "resolving"
    /\ Ended(c, 1)
    /\ Fetch(c, "none")
    /\ left' = [left EXCEPT ![c] = @ - 1]
    /\ \/ UNCHANGED stage
       \/ job[c][1] = "answered" /\ stage' = [stage EXCEPT ![c] = "emitting"]
    /\ UNCHANGED <<kind, gateVars, semaphore, contexts, due, titles, rows, records, emitted, result>>

\* Mutant of WebResult: the last failure is the result although others succeeded.
WebResult_LastError(c) == IF emitted[c] < MaxMatches THEN "failed" ELSE "ok"

\* Failures count only when no episode gave a candidate.
WebResult(c) == IF emitted[c] = 0 THEN "failed" ELSE "ok"

FinishWeb(c) ==
    /\ stage[c] = "resolving"
    /\ left[c] = 0
    /\ Idle(c)
    /\ Return(c, WebResult(c))
    /\ UNCHANGED <<kind, gateVars, contexts, due, work>>

-----------------------------------------------------------------------------
(* The callback emit                                                       *)

\* It accepts the candidate.
Emit(c) ==
    /\ stage[c] = "emitting"
    /\ emitted' = [emitted EXCEPT ![c] = @ + 1]
    /\ IF kind # "bt"
       THEN stage' = [stage EXCEPT ![c] = "resolving"] /\ UNCHANGED <<left, semaphore, job, result>>
       ELSE /\ left' = [left EXCEPT ![c] = @ - 1]
            /\ IF left[c] = 1 THEN Return(c, "ok") ELSE UNCHANGED <<stage, semaphore, job, result>>
    /\ UNCHANGED <<kind, gateVars, contexts, due, titles, rows, records>>

\* The request's context is done.
EmitRefused(c) ==
    /\ stage[c] = "emitting"
    /\ callerDone[c]
    /\ Return(c, "refused")
    /\ UNCHANGED <<kind, gateVars, contexts, due, work>>

-----------------------------------------------------------------------------

\* limits.timeout_ms has passed since the call.
Expire(c) ==
    /\ stage[c] \in {"queuing"} \cup Working
    /\ ~done[c]
    /\ done' = [done EXCEPT ![c] = TRUE]
    /\ UNCHANGED <<kind, gateVars, semaphore, callerDone, stage, job, due, work, result>>

\* The request is cancelled.
LeaveCaller(c) ==
    /\ stage[c] \in {"queuing"} \cup Working
    /\ ~callerDone[c]
    /\ callerDone' = [callerDone EXCEPT ![c] = TRUE]
    /\ done' = [done EXCEPT ![c] = TRUE]
    /\ UNCHANGED <<kind, gateVars, semaphore, stage, job, due, work, result>>

Tick ==
    /\ clock < MaxTime
    /\ clock' = clock + 1
    /\ UNCHANGED <<kind, next, reserved, semaphore, contexts, stage, job, due, work, result>>

Proceed(c) ==
    \/ MergeRecords(c)
    \/ Search(c) \/ SearchEnds(c) \/ Choose(c) \/ EpisodesEnd(c)
    \/ Resolve(c) \/ ResolveEnds(c) \/ FinishWeb(c)

FetchStep(c, j) == BuildFails(c, j) \/ Reserve(c, j) \/ PassGate(c, j) \/ LeaveGate(c, j) \/ Answer(c, j)

Next ==
    \/ \E c \in Calls :
         \/ Call(c) \/ Acquire(c) \/ GiveUp(c)
         \/ Proceed(c) \/ Emit(c) \/ EmitRefused(c)
         \/ Expire(c) \/ LeaveCaller(c)
         \/ \E j \in Jobs : FetchStep(c, j)
    \/ Tick

Spec == Init /\ [][Next]_vars

\* A call that can go on does, and its deadline passes.  A site or a browser may
\* never answer: only the end of the context, which they watch, ends a fetch.  The
\* callback may never return.
Fairness ==
    /\ \A c \in Calls :
         /\ WF_vars(Acquire(c) \/ GiveUp(c))
         /\ WF_vars(Proceed(c))
         /\ WF_vars(Expire(c))
         /\ \A j \in Jobs :
              /\ WF_vars(BuildFails(c, j) \/ Reserve(c, j))
              /\ WF_vars(PassGate(c, j) \/ LeaveGate(c, j))
              /\ WF_vars(done[c] /\ Answer(c, j))
    /\ WF_vars(Tick)

FairSpec == Spec /\ Fairness

-----------------------------------------------------------------------------

\* A token is held by exactly the calls between their acquisition and their return.
Holders == {c \in Calls : stage[c] \in Working}
TokensHeld == semaphore = Cardinality(Holders)

\* Whatever calls overlap, wait or are cancelled, the gate gives out instants that
\* are an interval apart, and no fetch goes out before its own.
RequestsSpaced ==
    /\ \A i, k \in DOMAIN reserved : i < k => reserved[i] + Interval <= reserved[k]
    /\ \A c \in Calls, j \in Jobs :
         /\ job[c][j] \in {"fetching", "answered"}
         /\ stage[c] = "resolving" => kind = "direct"
         => due[c][j] <= clock

\* A call without an error has emitted a candidate, and one with an error of its own
\* none: a failure or a deadline after the first candidate is not reported.
HonestResult ==
    \A c \in Calls :
        /\ result[c] = "ok" => emitted[c] > 0
        /\ result[c] = "failed" => emitted[c] = 0

\* A call comes to a candidate or returns, although a site never answers, the gate
\* is booked past its deadline, or another call holds the token while its callback
\* does not return.
CallsProgress ==
    \A c \in Calls :
        stage[c] \in {"queuing", "searching", "crawling", "listing", "resolving"}
            ~> stage[c] \in {"emitting", "returned"}
=============================================================================
