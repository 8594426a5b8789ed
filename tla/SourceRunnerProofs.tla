------------------------- MODULE SourceRunnerProofs -------------------------
(***************************************************************************)
(* Proofs about SourceRunner, for every number of calls, titles, pages and *)
(* records, every concurrency and every interval.                          *)
(***************************************************************************)
EXTENDS SourceRunner, FiniteSetTheorems, TLAPS

-----------------------------------------------------------------------------
(* The inductive invariant                                                 *)

JobStates == {"none", "starting", "waiting", "fetching", "answered", "failed"}

\* TypeOK but for the semaphore, which is a matter of accounting.
Shape ==
    /\ kind \in {"bt", "direct", "browser"}
    /\ clock \in 0..MaxTime /\ next \in Nat
    /\ reserved \in Seq(Nat)
    /\ callerDone \in [Calls -> BOOLEAN] /\ done \in [Calls -> BOOLEAN]
    /\ stage \in [Calls -> {"idle", "queuing", "returned"} \cup Working]
    /\ job \in [Calls -> [Jobs -> JobStates]]
    /\ due \in [Calls -> [Jobs -> Nat]]
    /\ titles \in [Calls -> 0..Titles]
    /\ rows \in [Calls -> BOOLEAN]
    /\ records \in [Calls -> SUBSET Records]
    /\ left \in [Calls -> Nat]
    /\ emitted \in [Calls -> Nat]
    /\ result \in [Calls -> {"none", "ok", "failed", "refused"}]

\* Only these stages have fetches, a web source one at a time; its stages are not
\* those of a BT source.
FetchesAt(c) ==
    /\ stage[c] \notin {"searching", "crawling", "listing", "resolving"} => Idle(c)
    /\ kind # "bt" => \A j \in Jobs : j # 1 => job[c][j] = "none"
    /\ stage[c] = "crawling" => kind = "bt"
    /\ stage[c] \in {"searching", "listing", "resolving"} => kind # "bt"

\* A counter is positive where the next step takes one from it.
CountedAt(c) ==
    /\ stage[c] = "searching" /\ job[c][1] # "none" => titles[c] > 0
    /\ stage[c] = "resolving" /\ job[c][1] # "none" => left[c] > 0
    /\ stage[c] = "emitting" /\ kind = "bt" => left[c] > 0

\* Candidates come last, and a result ends a call.
HonestAt(c) ==
    /\ stage[c] \in {"idle", "queuing", "searching", "crawling", "listing"} => emitted[c] = 0
    /\ result[c] # "none" => stage[c] = "returned"
    /\ result[c] = "ok" => emitted[c] > 0
    /\ result[c] = "failed" => emitted[c] = 0

\* No fetch of this call went out before its instant.
PunctualAt(c) ==
    \A j \in Jobs :
        /\ job[c][j] \in {"fetching", "answered"}
        /\ stage[c] = "resolving" => kind = "direct"
        => due[c][j] <= clock

Steady(c) == FetchesAt(c) /\ CountedAt(c) /\ HonestAt(c) /\ PunctualAt(c)

Tokens == TokensHeld /\ semaphore <= Concurrency

\* The next instant is an interval after every one given out.
Gate ==
    /\ \A i \in DOMAIN reserved : reserved[i] + Interval <= next
    /\ \A i, k \in DOMAIN reserved : i < k => reserved[i] + Interval <= reserved[k]

IInv == Shape /\ (\A c \in Calls : Steady(c)) /\ Tokens /\ Gate

\* What one call does, its fetches aside.
CallStep(c) ==
    \/ Call(c) \/ Acquire(c) \/ GiveUp(c)
    \/ Proceed(c) \/ Emit(c) \/ EmitRefused(c)
    \/ Expire(c) \/ LeaveCaller(c)

\* A web source's one fetch is there: a search has a page.
LEMMA OneIsJob == 1 \in Jobs
  BY RunnerAssumption DEF Jobs

-----------------------------------------------------------------------------
(* Types                                                                   *)

\* A call that returns keeps the types.
LEMMA ReturnShape ==
    ASSUME Shape, NEW c \in Calls, NEW o \in {"ok", "failed", "refused"}, Return(c, o)
    PROVE  /\ stage' \in [Calls -> {"idle", "queuing", "returned"} \cup Working]
           /\ job' \in [Calls -> [Jobs -> JobStates]]
           /\ result' \in [Calls -> {"none", "ok", "failed", "refused"}]
  <1>1. [j \in Jobs |-> "none"] \in [Jobs -> JobStates]
    BY DEF JobStates
  <1> QED
    BY <1>1 DEF Return, Shape

\* Records are counted by a natural number, zero only when there are none.
LEMMA RecordsCounted ==
    ASSUME Shape, NEW c \in Calls
    PROVE  /\ Cardinality(records[c]) \in Nat
           /\ records[c] # {} => Cardinality(records[c]) > 0
  <1>1. IsFiniteSet(records[c])
    BY RunnerAssumption, FS_Subset DEF Shape
  <1> QED
    BY <1>1, FS_CardinalityType, FS_EmptySet

\* Setting a fetch, or all of them, keeps the type.
LEMMA JobSet ==
    ASSUME Shape, NEW c \in Calls
    PROVE  /\ \A j \in Jobs, how \in JobStates : [job EXCEPT ![c][j] = how] \in [Calls -> [Jobs -> JobStates]]
           /\ \A how \in JobStates : [job EXCEPT ![c] = [j \in Jobs |-> how]] \in [Calls -> [Jobs -> JobStates]]
           /\ {"none", "starting"} \subseteq JobStates
  <1>1. job \in [Calls -> [Jobs -> JobStates]] /\ job[c] \in [Jobs -> JobStates]
    BY DEF Shape
  <1>2. \A how \in JobStates : [j \in Jobs |-> how] \in [Jobs -> JobStates]
    OBVIOUS
  <1>3. \A j \in Jobs, how \in JobStates : [job[c] EXCEPT ![j] = how] \in [Jobs -> JobStates]
    BY <1>1
  <1>4. \A f \in [Jobs -> JobStates] : [job EXCEPT ![c] = f] \in [Calls -> [Jobs -> JobStates]]
    BY <1>1
  <1> QED
    BY <1>2, <1>3, <1>4 DEF JobStates

\* A call's own step keeps the types: no counter goes below zero.
LEMMA CallShape ==
    ASSUME Shape, NEW c \in Calls, CountedAt(c), CallStep(c)
    PROVE  Shape'
  <1> DEFINE Stages == [Calls -> {"idle", "queuing", "returned"} \cup Working]
             JobsOf == [Calls -> [Jobs -> JobStates]]
  <1>1. CASE Call(c)
    BY <1>1 DEF Call, Shape, Working, gateVars, contexts, work
  <1>2. CASE Acquire(c)
    <2>1. stage' \in Stages
      BY <1>2 DEF Acquire, Shape, Working
    <2>2. job' \in JobsOf
      <3>1. job' = job \/ job' = [job EXCEPT ![c] = [j \in Jobs |-> "starting"]]
        BY <1>2 DEF Acquire
      <3>2. [job EXCEPT ![c] = [j \in Jobs |-> "starting"]] \in JobsOf
        BY JobSet
      <3> QED
        BY <3>1, <3>2 DEF Shape
    <2>3. titles' \in [Calls -> 0..Titles]
      BY <1>2 DEF Acquire, Shape
    <2> QED
      BY <1>2, <2>1, <2>2, <2>3 DEF Acquire, Shape, gateVars, contexts
  <1>3. CASE GiveUp(c)
    BY <1>3 DEF GiveUp, Shape, Working, gateVars, contexts, work
  <1>4. CASE MergeRecords(c)
    <2>1. stage' \in Stages
      BY <1>4 DEF MergeRecords, Return, Shape, Working
    <2>2. job' \in JobsOf
      BY <1>4, JobSet DEF MergeRecords, Return
    <2>3. left' \in [Calls -> Nat]
      BY <1>4, RecordsCounted DEF MergeRecords, Shape
    <2>4. result' \in [Calls -> {"none", "ok", "failed", "refused"}]
      BY <1>4 DEF MergeRecords, Return, Shape
    <2> QED
      BY <1>4, <2>1, <2>2, <2>3, <2>4 DEF MergeRecords, Shape, gateVars, contexts
  <1>5. CASE Search(c)
    BY <1>5, OneIsJob DEF Search, Fetch, Shape, JobStates, gateVars, contexts, work
  <1>6. CASE SearchEnds(c)
    <2>1. stage' \in Stages
      <3>1. stage' = stage \/ \E s \in Working \cup {"returned"} : stage' = [stage EXCEPT ![c] = s]
        BY <1>6 DEF SearchEnds, Return, Working
      <3> QED
        BY <3>1 DEF Shape
    <2>2. job' \in JobsOf
      <3>1. job' = [job EXCEPT ![c] = [j \in Jobs |-> "none"]] \/ job' = [job EXCEPT ![c][1] = "none"]
        BY <1>6 DEF SearchEnds, Return, Fetch
      <3>2. [job EXCEPT ![c] = [j \in Jobs |-> "none"]] \in JobsOf
        BY JobSet
      <3>3. [job EXCEPT ![c][1] = "none"] \in JobsOf /\ [job EXCEPT ![c][1] = "starting"] \in JobsOf
        BY OneIsJob, JobSet
      <3> QED
        BY <3>1, <3>2, <3>3
    <2>3. titles' \in [Calls -> 0..Titles]
      <3>1. titles[c] \in 0..Titles /\ titles[c] - 1 \in 0..Titles /\ 0 \in 0..Titles
        <4>1. titles[c] \in 0..Titles
          BY DEF Shape
        <4>2. titles[c] > 0
          BY <1>6 DEF SearchEnds, Ended, CountedAt
        <4> QED
          BY <4>1, <4>2, RunnerAssumption
      <3> QED
        BY <1>6, <3>1 DEF SearchEnds, Shape
    <2>4. rows' \in [Calls -> BOOLEAN]
      BY <1>6 DEF SearchEnds, Shape
    <2>5. result' \in [Calls -> {"none", "ok", "failed", "refused"}]
      BY <1>6 DEF SearchEnds, Return, Shape
    <2> QED
      BY <1>6, <2>1, <2>2, <2>3, <2>4, <2>5 DEF SearchEnds, Shape, gateVars, contexts
  <1>7. CASE Choose(c)
    <2>1. stage' \in Stages
      BY <1>7 DEF Choose, Return, Shape, Working
    <2>2. job' \in JobsOf
      <3>1. job' = [job EXCEPT ![c] = [j \in Jobs |-> "none"]] \/ job' = [job EXCEPT ![c][1] = "starting"]
        BY <1>7 DEF Choose, Return, Fetch
      <3>2. [job EXCEPT ![c] = [j \in Jobs |-> "none"]] \in JobsOf
        BY JobSet
      <3>3. [job EXCEPT ![c][1] = "none"] \in JobsOf /\ [job EXCEPT ![c][1] = "starting"] \in JobsOf
        BY OneIsJob, JobSet
      <3> QED
        BY <3>1, <3>2, <3>3
    <2>3. result' \in [Calls -> {"none", "ok", "failed", "refused"}]
      BY <1>7 DEF Choose, Return, Shape
    <2> QED
      BY <1>7, <2>1, <2>2, <2>3 DEF Choose, Shape, gateVars, contexts, work
  <1>8. CASE EpisodesEnd(c)
    <2>1. stage' \in Stages
      BY <1>8 DEF EpisodesEnd, Return, Shape, Working
    <2>2. job' \in JobsOf
      <3>1. job' = [job EXCEPT ![c] = [j \in Jobs |-> "none"]] \/ job' = [job EXCEPT ![c][1] = "none"]
        BY <1>8 DEF EpisodesEnd, Return, Fetch
      <3>2. [job EXCEPT ![c] = [j \in Jobs |-> "none"]] \in JobsOf
        BY JobSet
      <3>3. [job EXCEPT ![c][1] = "none"] \in JobsOf /\ [job EXCEPT ![c][1] = "starting"] \in JobsOf
        BY OneIsJob, JobSet
      <3> QED
        BY <3>1, <3>2, <3>3
    <2>3. left' \in [Calls -> Nat]
      <3>1. 1..MaxMatches \subseteq Nat
        BY RunnerAssumption
      <3> QED
        BY <1>8, <3>1 DEF EpisodesEnd, Shape
    <2>4. result' \in [Calls -> {"none", "ok", "failed", "refused"}]
      BY <1>8 DEF EpisodesEnd, Return, Shape
    <2> QED
      BY <1>8, <2>1, <2>2, <2>3, <2>4 DEF EpisodesEnd, Shape, gateVars, contexts
  <1>9. CASE Resolve(c)
    BY <1>9, OneIsJob DEF Resolve, Fetch, Shape, JobStates, gateVars, contexts, work
  <1>10. CASE ResolveEnds(c)
    <2>1. left' \in [Calls -> Nat]
      <3>1. left[c] > 0
        BY <1>10 DEF ResolveEnds, Ended, CountedAt
      <3> QED
        BY <1>10, <3>1 DEF ResolveEnds, Shape
    <2>2. job' \in JobsOf
      BY <1>10, OneIsJob DEF ResolveEnds, Fetch, Shape, JobStates
    <2>3. stage' \in Stages
      BY <1>10 DEF ResolveEnds, Shape, Working
    <2> QED
      BY <1>10, <2>1, <2>2, <2>3 DEF ResolveEnds, Shape, gateVars, contexts
  <1>11. CASE FinishWeb(c)
    BY <1>11, ReturnShape DEF FinishWeb, WebResult, Shape, gateVars, contexts, work
  <1>12. CASE Emit(c)
    <2>1. stage' \in Stages
      <3>1. stage' = stage \/ \E s \in Working \cup {"returned"} : stage' = [stage EXCEPT ![c] = s]
        BY <1>12 DEF Emit, Return, Working
      <3> QED
        BY <3>1 DEF Shape
    <2>2. job' \in JobsOf
      <3>1. job' = job \/ job' = [job EXCEPT ![c] = [j \in Jobs |-> "none"]]
        BY <1>12 DEF Emit, Return
      <3>2. [job EXCEPT ![c] = [j \in Jobs |-> "none"]] \in JobsOf
        BY JobSet
      <3> QED
        BY <3>1, <3>2 DEF Shape
    <2>3. left' \in [Calls -> Nat]
      <3>1. kind = "bt" => left[c] > 0
        BY <1>12 DEF Emit, CountedAt
      <3>2. left' = left \/ (kind = "bt" /\ left' = [left EXCEPT ![c] = @ - 1])
        BY <1>12 DEF Emit
      <3>3. left \in [Calls -> Nat] /\ left[c] \in Nat
        BY DEF Shape
      <3> QED
        BY <3>1, <3>2, <3>3
    <2>4. emitted' \in [Calls -> Nat]
      BY <1>12 DEF Emit, Shape
    <2>5. result' \in [Calls -> {"none", "ok", "failed", "refused"}]
      BY <1>12 DEF Emit, Return, Shape
    <2> QED
      BY <1>12, <2>1, <2>2, <2>3, <2>4, <2>5 DEF Emit, Shape, gateVars, contexts
  <1>13. CASE EmitRefused(c)
    BY <1>13, ReturnShape DEF EmitRefused, Shape, gateVars, contexts, work
  <1>14. CASE Expire(c)
    BY <1>14 DEF Expire, Shape, gateVars, work
  <1>15. CASE LeaveCaller(c)
    BY <1>15 DEF LeaveCaller, Shape, gateVars, work
  <1> QED
    BY <1>1, <1>2, <1>3, <1>4, <1>5, <1>6, <1>7, <1>8, <1>9, <1>10, <1>11, <1>12, <1>13, <1>14, <1>15 DEF CallStep, Proceed

\* A step of a fetch keeps the types.
LEMMA FetchShape ==
    ASSUME Shape, NEW c \in Calls, NEW j \in Jobs, FetchStep(c, j)
    PROVE  Shape'
  <1>1. CASE BuildFails(c, j)
    BY <1>1 DEF BuildFails, Shape, JobStates, gateVars, contexts, work
  <1>2. CASE Reserve(c, j)
    <2>1. Slot \in Nat /\ Slot + Interval \in Nat
      BY RunnerAssumption DEF Slot, Shape
    <2>2. job' \in [Calls -> [Jobs -> JobStates]]
      BY <1>2 DEF Reserve, Shape, JobStates
    <2> QED
      BY <1>2, <2>1, <2>2 DEF Reserve, Shape, contexts, work
  <1>3. CASE PassGate(c, j)
    BY <1>3 DEF PassGate, Shape, JobStates, gateVars, contexts, work
  <1>4. CASE LeaveGate(c, j)
    BY <1>4 DEF LeaveGate, Shape, JobStates, gateVars, contexts, work
  <1>5. CASE Answer(c, j)
    <2>1. job' \in [Calls -> [Jobs -> JobStates]]
      <3>1. job' = [job EXCEPT ![c][j] = "answered"] \/ job' = [job EXCEPT ![c][j] = "failed"]
        BY <1>5 DEF Answer
      <3> QED
        BY <3>1, JobSet DEF JobStates
    <2>2. records' \in [Calls -> SUBSET Records]
      <3>1. records' = records \/ \E page \in SUBSET Records : records' = [records EXCEPT ![c] = @ \cup page]
        BY <1>5 DEF Answer
      <3> QED
        BY <3>1 DEF Shape
    <2> QED
      BY <1>5, <2>1, <2>2 DEF Answer, Shape, gateVars, contexts
  <1> QED
    BY <1>1, <1>2, <1>3, <1>4, <1>5 DEF FetchStep

-----------------------------------------------------------------------------
(* Other calls                                                             *)

\* What an invariant says of a call.
Of(d) == <<stage[d], job[d], due[d], titles[d], left[d], emitted[d], result[d]>>

\* A call's own step changes nothing of another call, nor of the gate.
LEMMA CallFrame ==
    ASSUME Shape, NEW c \in Calls, CallStep(c)
    PROVE  UNCHANGED <<kind, gateVars>> /\ \A d \in Calls \ {c} : UNCHANGED Of(d)
  <1>1. CASE Call(c)
    BY <1>1 DEF Call, Shape, Of, gateVars, contexts, work
  <1>2. CASE Acquire(c)
    BY <1>2 DEF Acquire, Shape, Of, gateVars, contexts
  <1>3. CASE GiveUp(c)
    BY <1>3 DEF GiveUp, Shape, Of, gateVars, contexts, work
  <1>4. CASE MergeRecords(c)
    BY <1>4 DEF MergeRecords, Shape, Of, Return, gateVars, contexts
  <1>5. CASE Search(c)
    BY <1>5 DEF Search, Shape, Of, Fetch, gateVars, contexts, work
  <1>6. CASE SearchEnds(c)
    BY <1>6 DEF SearchEnds, Shape, Of, Return, Fetch, gateVars, contexts
  <1>7. CASE Choose(c)
    BY <1>7 DEF Choose, Shape, Of, Return, Fetch, gateVars, contexts, work
  <1>8. CASE EpisodesEnd(c)
    BY <1>8 DEF EpisodesEnd, Shape, Of, Return, Fetch, gateVars, contexts
  <1>9. CASE Resolve(c)
    BY <1>9 DEF Resolve, Shape, Of, Fetch, gateVars, contexts, work
  <1>10. CASE ResolveEnds(c)
    BY <1>10 DEF ResolveEnds, Shape, Of, Fetch, gateVars, contexts
  <1>11. CASE FinishWeb(c)
    BY <1>11 DEF FinishWeb, Shape, Of, Return, gateVars, contexts, work
  <1>12. CASE Emit(c)
    BY <1>12 DEF Emit, Shape, Of, Return, gateVars, contexts
  <1>13. CASE EmitRefused(c)
    BY <1>13 DEF EmitRefused, Shape, Of, Return, gateVars, contexts, work
  <1>14. CASE Expire(c)
    BY <1>14 DEF Expire, Shape, Of, gateVars, work
  <1>15. CASE LeaveCaller(c)
    BY <1>15 DEF LeaveCaller, Shape, Of, gateVars, work
  <1> QED
    BY <1>1, <1>2, <1>3, <1>4, <1>5, <1>6, <1>7, <1>8, <1>9, <1>10, <1>11, <1>12, <1>13, <1>14, <1>15 DEF CallStep, Proceed

\* A step of a fetch changes nothing of another call.
LEMMA FetchFrame ==
    ASSUME Shape, NEW c \in Calls, NEW j \in Jobs, FetchStep(c, j)
    PROVE  UNCHANGED <<kind, clock, stage, semaphore>> /\ \A d \in Calls \ {c} : UNCHANGED Of(d)
  <1>1. CASE BuildFails(c, j)
    BY <1>1 DEF BuildFails, Shape, Of, gateVars, contexts, work
  <1>2. CASE Reserve(c, j)
    BY <1>2 DEF Reserve, Shape, Of, contexts, work
  <1>3. CASE PassGate(c, j)
    BY <1>3 DEF PassGate, Shape, Of, gateVars, contexts, work
  <1>4. CASE LeaveGate(c, j)
    BY <1>4 DEF LeaveGate, Shape, Of, gateVars, contexts, work
  <1>5. CASE Answer(c, j)
    BY <1>5 DEF Answer, Shape, Of, gateVars, contexts
  <1> QED
    BY <1>1, <1>2, <1>3, <1>4, <1>5 DEF FetchStep

-----------------------------------------------------------------------------
(* Fetches and counters                                                    *)

\* Only a BT source starts more than one fetch, and no call leaves one behind.
LEMMA CallFetches ==
    ASSUME Shape, NEW c \in Calls, FetchesAt(c), CallStep(c)
    PROVE  FetchesAt(c)'
  <1>1. CASE Call(c)
    BY <1>1, OneIsJob DEF Call, Shape, FetchesAt, gateVars, contexts, work, Idle, Ended
  <1>2. CASE Acquire(c)
    BY <1>2, OneIsJob DEF Acquire, Shape, FetchesAt, gateVars, contexts, Idle, Ended
  <1>3. CASE GiveUp(c)
    BY <1>3, OneIsJob DEF GiveUp, Shape, FetchesAt, gateVars, contexts, work, Idle, Ended
  <1>4. CASE MergeRecords(c)
    BY <1>4, OneIsJob DEF MergeRecords, Shape, FetchesAt, Return, gateVars, contexts, Idle, Ended
  <1>5. CASE Search(c)
    BY <1>5, OneIsJob DEF Search, Shape, FetchesAt, Fetch, gateVars, contexts, work, Idle, Ended
  <1>6. CASE SearchEnds(c)
    BY <1>6, OneIsJob DEF SearchEnds, Shape, FetchesAt, Return, Fetch, gateVars, contexts, Idle, Ended
  <1>7. CASE Choose(c)
    BY <1>7, OneIsJob DEF Choose, Shape, FetchesAt, Return, Fetch, gateVars, contexts, work, Idle, Ended
  <1>8. CASE EpisodesEnd(c)
    BY <1>8, OneIsJob DEF EpisodesEnd, Shape, FetchesAt, Return, Fetch, gateVars, contexts, Idle, Ended
  <1>9. CASE Resolve(c)
    BY <1>9, OneIsJob DEF Resolve, Shape, FetchesAt, Fetch, gateVars, contexts, work, Idle, Ended
  <1>10. CASE ResolveEnds(c)
    BY <1>10, OneIsJob DEF ResolveEnds, Shape, FetchesAt, Fetch, gateVars, contexts, Idle, Ended
  <1>11. CASE FinishWeb(c)
    BY <1>11, OneIsJob DEF FinishWeb, Shape, FetchesAt, Return, gateVars, contexts, work, Idle, Ended
  <1>12. CASE Emit(c)
    BY <1>12, OneIsJob DEF Emit, Shape, FetchesAt, Return, gateVars, contexts, Idle, Ended
  <1>13. CASE EmitRefused(c)
    BY <1>13, OneIsJob DEF EmitRefused, Shape, FetchesAt, Return, gateVars, contexts, work, Idle, Ended
  <1>14. CASE Expire(c)
    BY <1>14, OneIsJob DEF Expire, Shape, FetchesAt, gateVars, work, Idle, Ended
  <1>15. CASE LeaveCaller(c)
    BY <1>15, OneIsJob DEF LeaveCaller, Shape, FetchesAt, gateVars, work, Idle, Ended
  <1> QED
    BY <1>1, <1>2, <1>3, <1>4, <1>5, <1>6, <1>7, <1>8, <1>9, <1>10, <1>11, <1>12, <1>13, <1>14, <1>15 DEF CallStep, Proceed

\* Whatever takes from a counter found it positive.
LEMMA CallCounted ==
    ASSUME Shape, NEW c \in Calls, FetchesAt(c), CountedAt(c), CallStep(c)
    PROVE  CountedAt(c)'
  <1>1. CASE Call(c)
    BY <1>1, OneIsJob DEF Call, Shape, CountedAt, gateVars, contexts, work, FetchesAt, Idle, Ended
  <1>2. CASE Acquire(c)
    BY <1>2, OneIsJob DEF Acquire, Shape, CountedAt, gateVars, contexts, FetchesAt, Idle, Ended
  <1>3. CASE GiveUp(c)
    BY <1>3, OneIsJob DEF GiveUp, Shape, CountedAt, gateVars, contexts, work, FetchesAt, Idle, Ended
  <1>4. CASE MergeRecords(c)
    BY <1>4, OneIsJob, RecordsCounted DEF MergeRecords, Shape, CountedAt, Return, gateVars, contexts, FetchesAt, Idle
  <1>5. CASE Search(c)
    BY <1>5, OneIsJob DEF Search, Shape, CountedAt, Fetch, gateVars, contexts, work, FetchesAt, Idle, Ended
  <1>6. CASE SearchEnds(c)
    BY <1>6, OneIsJob DEF SearchEnds, Shape, CountedAt, Return, Fetch, gateVars, contexts, FetchesAt, Idle, Ended
  <1>7. CASE Choose(c)
    BY <1>7, OneIsJob DEF Choose, Shape, CountedAt, Return, Fetch, gateVars, contexts, work, FetchesAt, Idle, Ended
  <1>8. CASE EpisodesEnd(c)
    BY <1>8, OneIsJob DEF EpisodesEnd, Shape, CountedAt, Return, Fetch, gateVars, contexts, FetchesAt, Idle, Ended
  <1>9. CASE Resolve(c)
    BY <1>9, OneIsJob DEF Resolve, Shape, CountedAt, Fetch, gateVars, contexts, work, FetchesAt, Idle, Ended
  <1>10. CASE ResolveEnds(c)
    BY <1>10, OneIsJob DEF ResolveEnds, Shape, CountedAt, Fetch, gateVars, contexts, FetchesAt, Idle, Ended
  <1>11. CASE FinishWeb(c)
    BY <1>11, OneIsJob DEF FinishWeb, Shape, CountedAt, Return, gateVars, contexts, work, FetchesAt, Idle, Ended
  <1>12. CASE Emit(c)
    BY <1>12, OneIsJob DEF Emit, Shape, CountedAt, Return, gateVars, contexts, FetchesAt, Idle, Ended
  <1>13. CASE EmitRefused(c)
    BY <1>13, OneIsJob DEF EmitRefused, Shape, CountedAt, Return, gateVars, contexts, work, FetchesAt, Idle, Ended
  <1>14. CASE Expire(c)
    BY <1>14, OneIsJob DEF Expire, Shape, CountedAt, gateVars, work, FetchesAt, Idle, Ended
  <1>15. CASE LeaveCaller(c)
    BY <1>15, OneIsJob DEF LeaveCaller, Shape, CountedAt, gateVars, work, FetchesAt, Idle, Ended
  <1> QED
    BY <1>1, <1>2, <1>3, <1>4, <1>5, <1>6, <1>7, <1>8, <1>9, <1>10, <1>11, <1>12, <1>13, <1>14, <1>15 DEF CallStep, Proceed

\* A call fails by itself only before its first candidate.
LEMMA CallHonest ==
    ASSUME Shape, NEW c \in Calls, HonestAt(c), CallStep(c)
    PROVE  HonestAt(c)'
  <1>1. CASE Call(c)
    BY <1>1 DEF Call, Shape, HonestAt, gateVars, contexts, work
  <1>2. CASE Acquire(c)
    BY <1>2 DEF Acquire, Shape, HonestAt, gateVars, contexts
  <1>3. CASE GiveUp(c)
    BY <1>3 DEF GiveUp, Shape, HonestAt, gateVars, contexts, work
  <1>4. CASE MergeRecords(c)
    BY <1>4 DEF MergeRecords, Shape, HonestAt, Return, gateVars, contexts
  <1>5. CASE Search(c)
    BY <1>5 DEF Search, Shape, HonestAt, Fetch, gateVars, contexts, work
  <1>6. CASE SearchEnds(c)
    BY <1>6 DEF SearchEnds, Shape, HonestAt, Return, Fetch, gateVars, contexts
  <1>7. CASE Choose(c)
    BY <1>7 DEF Choose, Shape, HonestAt, Return, Fetch, gateVars, contexts, work
  <1>8. CASE EpisodesEnd(c)
    BY <1>8 DEF EpisodesEnd, Shape, HonestAt, Return, Fetch, gateVars, contexts
  <1>9. CASE Resolve(c)
    BY <1>9 DEF Resolve, Shape, HonestAt, Fetch, gateVars, contexts, work
  <1>10. CASE ResolveEnds(c)
    BY <1>10 DEF ResolveEnds, Shape, HonestAt, Fetch, gateVars, contexts
  <1>11. CASE FinishWeb(c)
    BY <1>11 DEF FinishWeb, Shape, HonestAt, Return, gateVars, contexts, work, WebResult
  <1>12. CASE Emit(c)
    BY <1>12 DEF Emit, Shape, HonestAt, Return, gateVars, contexts
  <1>13. CASE EmitRefused(c)
    BY <1>13 DEF EmitRefused, Shape, HonestAt, Return, gateVars, contexts, work
  <1>14. CASE Expire(c)
    BY <1>14 DEF Expire, Shape, HonestAt, gateVars, work
  <1>15. CASE LeaveCaller(c)
    BY <1>15 DEF LeaveCaller, Shape, HonestAt, gateVars, work
  <1> QED
    BY <1>1, <1>2, <1>3, <1>4, <1>5, <1>6, <1>7, <1>8, <1>9, <1>10, <1>11, <1>12, <1>13, <1>14, <1>15 DEF CallStep, Proceed

\* A call sends nothing out: its fetches do.
LEMMA CallPunctual ==
    ASSUME Shape, NEW c \in Calls, FetchesAt(c), PunctualAt(c), CallStep(c)
    PROVE  PunctualAt(c)'
  <1>1. CASE Call(c)
    BY <1>1, OneIsJob DEF Call, Shape, PunctualAt, gateVars, contexts, work, FetchesAt, Idle, Ended, JobStates
  <1>2. CASE Acquire(c)
    BY <1>2, OneIsJob DEF Acquire, Shape, PunctualAt, gateVars, contexts, FetchesAt, Idle, Ended, JobStates
  <1>3. CASE GiveUp(c)
    BY <1>3, OneIsJob DEF GiveUp, Shape, PunctualAt, gateVars, contexts, work, FetchesAt, Idle, Ended, JobStates
  <1>4. CASE MergeRecords(c)
    BY <1>4, OneIsJob DEF MergeRecords, Shape, PunctualAt, Return, gateVars, contexts, FetchesAt, Idle, Ended, JobStates
  <1>5. CASE Search(c)
    BY <1>5, OneIsJob DEF Search, Shape, PunctualAt, Fetch, gateVars, contexts, work, FetchesAt, Idle, Ended, JobStates
  <1>6. CASE SearchEnds(c)
    BY <1>6, OneIsJob DEF SearchEnds, Shape, PunctualAt, Return, Fetch, gateVars, contexts, FetchesAt, Idle, Ended, JobStates
  <1>7. CASE Choose(c)
    BY <1>7, OneIsJob DEF Choose, Shape, PunctualAt, Return, Fetch, gateVars, contexts, work, FetchesAt, Idle, Ended, JobStates
  <1>8. CASE EpisodesEnd(c)
    BY <1>8, OneIsJob DEF EpisodesEnd, Shape, PunctualAt, Return, Fetch, gateVars, contexts, FetchesAt, Idle, Ended, JobStates
  <1>9. CASE Resolve(c)
    BY <1>9, OneIsJob DEF Resolve, Shape, PunctualAt, Fetch, gateVars, contexts, work, FetchesAt, Idle, Ended, JobStates
  <1>10. CASE ResolveEnds(c)
    BY <1>10, OneIsJob DEF ResolveEnds, Shape, PunctualAt, Fetch, gateVars, contexts, FetchesAt, Idle, Ended, JobStates
  <1>11. CASE FinishWeb(c)
    BY <1>11, OneIsJob DEF FinishWeb, Shape, PunctualAt, Return, gateVars, contexts, work, FetchesAt, Idle, Ended, JobStates
  <1>12. CASE Emit(c)
    BY <1>12, OneIsJob DEF Emit, Shape, PunctualAt, Return, gateVars, contexts, FetchesAt, Idle, Ended, JobStates
  <1>13. CASE EmitRefused(c)
    BY <1>13, OneIsJob DEF EmitRefused, Shape, PunctualAt, Return, gateVars, contexts, work, FetchesAt, Idle, Ended, JobStates
  <1>14. CASE Expire(c)
    BY <1>14, OneIsJob DEF Expire, Shape, PunctualAt, gateVars, work, FetchesAt, Idle, Ended, JobStates
  <1>15. CASE LeaveCaller(c)
    BY <1>15, OneIsJob DEF LeaveCaller, Shape, PunctualAt, gateVars, work, FetchesAt, Idle, Ended, JobStates
  <1> QED
    BY <1>1, <1>2, <1>3, <1>4, <1>5, <1>6, <1>7, <1>8, <1>9, <1>10, <1>11, <1>12, <1>13, <1>14, <1>15 DEF CallStep, Proceed

-----------------------------------------------------------------------------
(* A fetch's own steps                                                     *)

\* A fetch that has begun stays begun, and starts no other.
LEMMA FetchFetches ==
    ASSUME Shape, NEW c \in Calls, NEW j \in Jobs, FetchesAt(c), FetchStep(c, j)
    PROVE  FetchesAt(c)'
  <1>1. CASE BuildFails(c, j)
    BY <1>1, OneIsJob DEF BuildFails, Shape, FetchesAt, gateVars, contexts, work, Idle
  <1>2. CASE Reserve(c, j)
    BY <1>2, OneIsJob DEF Reserve, Shape, FetchesAt, Slot, contexts, work, Idle
  <1>3. CASE PassGate(c, j)
    BY <1>3, OneIsJob DEF PassGate, Shape, FetchesAt, gateVars, contexts, work, Idle
  <1>4. CASE LeaveGate(c, j)
    BY <1>4, OneIsJob DEF LeaveGate, Shape, FetchesAt, gateVars, contexts, work, Idle
  <1>5. CASE Answer(c, j)
    BY <1>5, OneIsJob DEF Answer, Shape, FetchesAt, gateVars, contexts, Idle
  <1> QED
    BY <1>1, <1>2, <1>3, <1>4, <1>5 DEF FetchStep

\* A fetch takes from no counter.
LEMMA FetchCounted ==
    ASSUME Shape, NEW c \in Calls, NEW j \in Jobs, CountedAt(c), FetchStep(c, j)
    PROVE  CountedAt(c)'
  <1>1. CASE BuildFails(c, j)
    BY <1>1, OneIsJob DEF BuildFails, Shape, CountedAt, gateVars, contexts, work
  <1>2. CASE Reserve(c, j)
    BY <1>2, OneIsJob DEF Reserve, Shape, CountedAt, Slot, contexts, work
  <1>3. CASE PassGate(c, j)
    BY <1>3, OneIsJob DEF PassGate, Shape, CountedAt, gateVars, contexts, work
  <1>4. CASE LeaveGate(c, j)
    BY <1>4, OneIsJob DEF LeaveGate, Shape, CountedAt, gateVars, contexts, work
  <1>5. CASE Answer(c, j)
    BY <1>5, OneIsJob DEF Answer, Shape, CountedAt, gateVars, contexts
  <1> QED
    BY <1>1, <1>2, <1>3, <1>4, <1>5 DEF FetchStep

\* A fetch neither emits nor returns.
LEMMA FetchHonest ==
    ASSUME Shape, NEW c \in Calls, NEW j \in Jobs, HonestAt(c), FetchStep(c, j)
    PROVE  HonestAt(c)'
  <1>1. CASE BuildFails(c, j)
    BY <1>1, OneIsJob DEF BuildFails, Shape, HonestAt, gateVars, contexts, work
  <1>2. CASE Reserve(c, j)
    BY <1>2, OneIsJob DEF Reserve, Shape, HonestAt, Slot, contexts, work
  <1>3. CASE PassGate(c, j)
    BY <1>3, OneIsJob DEF PassGate, Shape, HonestAt, gateVars, contexts, work
  <1>4. CASE LeaveGate(c, j)
    BY <1>4, OneIsJob DEF LeaveGate, Shape, HonestAt, gateVars, contexts, work
  <1>5. CASE Answer(c, j)
    BY <1>5, OneIsJob DEF Answer, Shape, HonestAt, gateVars, contexts
  <1> QED
    BY <1>1, <1>2, <1>3, <1>4, <1>5 DEF FetchStep

\* A fetch goes out at its instant or later.
LEMMA FetchPunctual ==
    ASSUME Shape, NEW c \in Calls, NEW j \in Jobs, PunctualAt(c), FetchStep(c, j)
    PROVE  PunctualAt(c)'
  <1>1. CASE BuildFails(c, j)
    BY <1>1, OneIsJob DEF BuildFails, Shape, PunctualAt, gateVars, contexts, work, JobStates
  <1>2. CASE Reserve(c, j)
    BY <1>2, OneIsJob DEF Reserve, Shape, PunctualAt, Slot, contexts, work, JobStates
  <1>3. CASE PassGate(c, j)
    BY <1>3, OneIsJob DEF PassGate, Shape, PunctualAt, gateVars, contexts, work, JobStates
  <1>4. CASE LeaveGate(c, j)
    BY <1>4, OneIsJob DEF LeaveGate, Shape, PunctualAt, gateVars, contexts, work, JobStates
  <1>5. CASE Answer(c, j)
    BY <1>5, OneIsJob DEF Answer, Shape, PunctualAt, gateVars, contexts, JobStates
  <1> QED
    BY <1>1, <1>2, <1>3, <1>4, <1>5 DEF FetchStep

\* What holds of a call goes on holding while nothing of it changes.
LEMMA SteadyFrame ==
    ASSUME NEW d \in Calls, Steady(d), UNCHANGED <<kind, clock, Of(d)>>
    PROVE  Steady(d)'
  BY DEF Steady, FetchesAt, CountedAt, HonestAt, PunctualAt, Idle, Of

\* Every step of a call keeps what holds of every call.
LEMMA StepSteady ==
    ASSUME Shape, \A d \in Calls : Steady(d), NEW c \in Calls,
           CallStep(c) \/ \E j \in Jobs : FetchStep(c, j), NEW d \in Calls
    PROVE  Steady(d)'
  <1>1. CASE d # c
    <2>1. UNCHANGED <<kind, clock, Of(d)>>
      BY <1>1, CallFrame, FetchFrame DEF gateVars
    <2> QED
      BY <2>1, SteadyFrame
  <1>2. CASE d = c /\ CallStep(c)
    BY <1>2, CallFetches, CallCounted, CallHonest, CallPunctual DEF Steady
  <1>3. CASE d = c /\ \E j \in Jobs : FetchStep(c, j)
    BY <1>3, FetchFetches, FetchCounted, FetchHonest, FetchPunctual DEF Steady
  <1> QED
    BY <1>1, <1>2, <1>3

-----------------------------------------------------------------------------
(* Tokens                                                                  *)

\* A call takes a token where there is one and gives back the one it holds.
LEMMA TokenMoves ==
    ASSUME Shape, NEW c \in Calls, CallStep(c)
    PROVE  \/ /\ stage[c] \in Working <=> stage'[c] \in Working
              /\ semaphore' = semaphore
           \/ /\ stage[c] \notin Working /\ stage'[c] \in Working
              /\ semaphore < Concurrency /\ semaphore' = semaphore + 1
           \/ /\ stage[c] \in Working /\ stage'[c] \notin Working
              /\ semaphore' = semaphore - 1
  <1>1. CASE Call(c)
    BY <1>1 DEF Call, Shape, Working
  <1>2. CASE Acquire(c)
    BY <1>2 DEF Acquire, Shape, Working
  <1>3. CASE GiveUp(c)
    BY <1>3 DEF GiveUp, Shape, Working
  <1>4. CASE MergeRecords(c)
    BY <1>4 DEF MergeRecords, Shape, Working, Return
  <1>5. CASE Search(c)
    BY <1>5 DEF Search, Shape, Working
  <1>6. CASE SearchEnds(c)
    BY <1>6 DEF SearchEnds, Shape, Working, Return
  <1>7. CASE Choose(c)
    BY <1>7 DEF Choose, Shape, Working, Return
  <1>8. CASE EpisodesEnd(c)
    BY <1>8 DEF EpisodesEnd, Shape, Working, Return
  <1>9. CASE Resolve(c)
    BY <1>9 DEF Resolve, Shape, Working
  <1>10. CASE ResolveEnds(c)
    BY <1>10 DEF ResolveEnds, Shape, Working
  <1>11. CASE FinishWeb(c)
    BY <1>11 DEF FinishWeb, Shape, Working, Return
  <1>12. CASE Emit(c)
    BY <1>12 DEF Emit, Shape, Working, Return
  <1>13. CASE EmitRefused(c)
    BY <1>13 DEF EmitRefused, Shape, Working, Return
  <1>14. CASE Expire(c)
    BY <1>14 DEF Expire, Shape, Working
  <1>15. CASE LeaveCaller(c)
    BY <1>15 DEF LeaveCaller, Shape, Working
  <1> QED
    BY <1>1, <1>2, <1>3, <1>4, <1>5, <1>6, <1>7, <1>8, <1>9, <1>10, <1>11, <1>12, <1>13, <1>14, <1>15 DEF CallStep, Proceed

\* The tokens taken are those of the calls that hold one.
LEMMA CallTokens ==
    ASSUME Shape, Tokens, NEW c \in Calls, CallStep(c)
    PROVE  Tokens'
  <1>1. \A d \in Calls \ {c} : stage'[d] = stage[d]
    BY CallFrame DEF Of
  <1>2. IsFiniteSet(Holders) /\ Cardinality(Holders) \in Nat
    BY RunnerAssumption, FS_Subset, FS_CardinalityType DEF Holders
  <1>3. semaphore = Cardinality(Holders) /\ semaphore <= Concurrency
    BY DEF Tokens, TokensHeld
  <1>4. CASE stage[c] \in Working <=> stage'[c] \in Working
    <2>1. Holders' = Holders
      BY <1>1, <1>4 DEF Holders
    <2>2. semaphore' = semaphore
      BY <1>4, TokenMoves
    <2> QED
      BY <1>3, <2>1, <2>2 DEF Tokens, TokensHeld
  <1>5. CASE stage[c] \notin Working /\ stage'[c] \in Working
    <2>1. Holders' = Holders \cup {c} /\ c \notin Holders
      BY <1>1, <1>5 DEF Holders
    <2>2. Cardinality(Holders') = Cardinality(Holders) + 1
      BY <1>2, <2>1, FS_AddElement
    <2>3. semaphore' = semaphore + 1 /\ semaphore < Concurrency
      BY <1>5, TokenMoves
    <2> QED
      BY <1>2, <1>3, <2>2, <2>3, RunnerAssumption DEF Tokens, TokensHeld
  <1>6. CASE stage[c] \in Working /\ stage'[c] \notin Working
    <2>1. Holders' = Holders \ {c} /\ c \in Holders
      BY <1>1, <1>6 DEF Holders
    <2>2. Cardinality(Holders') = Cardinality(Holders) - 1
      BY <1>2, <2>1, FS_RemoveElement
    <2>3. semaphore' = semaphore - 1
      BY <1>6, TokenMoves
    <2> QED
      BY <1>2, <1>3, <2>2, <2>3, RunnerAssumption DEF Tokens, TokensHeld
  <1> QED
    BY <1>4, <1>5, <1>6

-----------------------------------------------------------------------------
(* The gate                                                                *)

\* The instant given next is no earlier than next, and next moves an interval past it.
LEMMA ReserveGate ==
    ASSUME Shape, Gate, NEW c \in Calls, NEW j \in Jobs, Reserve(c, j)
    PROVE  Gate'
  <1>1. /\ Slot \in Nat /\ next \in Nat /\ Interval \in Nat /\ next <= Slot
        /\ next' = Slot + Interval /\ reserved' = Append(reserved, Slot)
    BY RunnerAssumption DEF Reserve, Slot, Shape
  <1>2. reserved \in Seq(Nat)
    BY DEF Shape
  <1>3. /\ DOMAIN reserved' = 1 .. Len(reserved) + 1
        /\ \A i \in DOMAIN reserved : reserved'[i] = reserved[i] /\ reserved[i] \in Nat
        /\ reserved'[Len(reserved) + 1] = Slot
        /\ DOMAIN reserved = 1 .. Len(reserved) /\ Len(reserved) \in Nat
    BY <1>1, <1>2
  <1>4. ASSUME NEW i \in DOMAIN reserved'
        PROVE  reserved'[i] + Interval <= next'
    <2>1. CASE i \in DOMAIN reserved
      BY <1>1, <1>3, <2>1 DEF Gate
    <2>2. CASE i = Len(reserved) + 1
      BY <1>1, <1>3, <2>2
    <2> QED
      BY <1>3, <2>1, <2>2
  <1>5. ASSUME NEW i \in DOMAIN reserved', NEW k \in DOMAIN reserved', i < k
        PROVE  reserved'[i] + Interval <= reserved'[k]
    <2>1. i \in DOMAIN reserved
      BY <1>3, <1>5
    <2>2. CASE k \in DOMAIN reserved
      BY <1>3, <1>5, <2>1, <2>2 DEF Gate
    <2>3. CASE k = Len(reserved) + 1
      BY <1>1, <1>3, <2>1, <2>3 DEF Gate
    <2> QED
      BY <1>3, <2>2, <2>3
  <1> QED
    BY <1>4, <1>5 DEF Gate

\* No other step of a fetch touches the gate.
LEMMA FetchGate ==
    ASSUME Shape, Gate, NEW c \in Calls, NEW j \in Jobs, FetchStep(c, j)
    PROVE  Gate'
  <1>1. CASE Reserve(c, j)
    BY <1>1, ReserveGate
  <1>2. CASE BuildFails(c, j) \/ PassGate(c, j) \/ LeaveGate(c, j) \/ Answer(c, j)
    <2>1. UNCHANGED gateVars
      BY <1>2 DEF BuildFails, PassGate, LeaveGate, Answer
    <2> QED
      BY <2>1 DEF Gate, gateVars
  <1> QED
    BY <1>1, <1>2 DEF FetchStep

-----------------------------------------------------------------------------
(* The theorems                                                            *)

\* No call has begun, no token is taken and no instant given out.
LEMMA InitIInv == Init => IInv
  <1> SUFFICES ASSUME Init PROVE IInv
    OBVIOUS
  <1>1. Shape
    BY RunnerAssumption DEF Init, Shape, JobStates
  <1>2. \A c \in Calls : Steady(c)
    BY OneIsJob DEF Init, Steady, FetchesAt, CountedAt, HonestAt, PunctualAt, Idle
  <1>3. Holders = {}
    BY DEF Init, Holders, Working
  <1>4. Tokens
    BY <1>3, FS_EmptySet, RunnerAssumption DEF Init, Tokens, TokensHeld
  <1>5. Gate
    BY DEF Init, Gate
  <1> QED
    BY <1>1, <1>2, <1>4, <1>5 DEF IInv

\* Each step keeps every part of the invariant.
LEMMA NextIInv == IInv /\ [Next]_vars => IInv'
  <1> SUFFICES ASSUME IInv, [Next]_vars PROVE IInv'
    OBVIOUS
  <1>0. Shape /\ (\A c \in Calls : Steady(c)) /\ Tokens /\ Gate
    BY DEF IInv
  <1>1. ASSUME NEW c \in Calls, CallStep(c)
        PROVE  IInv'
    <2>1. Shape'
      BY <1>0, <1>1, CallShape DEF Steady
    <2>2. \A d \in Calls : Steady(d)'
      BY <1>0, <1>1, StepSteady
    <2>3. Tokens'
      BY <1>0, <1>1, CallTokens
    <2>4. Gate'
      BY <1>0, <1>1, CallFrame DEF Gate, gateVars
    <2> QED
      BY <2>1, <2>2, <2>3, <2>4 DEF IInv
  <1>2. ASSUME NEW c \in Calls, NEW j \in Jobs, FetchStep(c, j)
        PROVE  IInv'
    <2>1. Shape'
      BY <1>0, <1>2, FetchShape
    <2>2. \A d \in Calls : Steady(d)'
      BY <1>0, <1>2, StepSteady
    <2>3. Tokens'
      BY <1>0, <1>2, FetchFrame DEF Tokens, TokensHeld, Holders
    <2>4. Gate'
      BY <1>0, <1>2, FetchGate
    <2> QED
      BY <2>1, <2>2, <2>3, <2>4 DEF IInv
  <1>3. CASE Tick
    <2>1. Shape'
      BY <1>0, <1>3, RunnerAssumption DEF Tick, Shape, contexts, work
    <2>2. \A d \in Calls : Steady(d)'
      <3>1. clock \in Nat /\ clock' = clock + 1 /\ due \in [Calls -> [Jobs -> Nat]]
        BY <1>0, <1>3, RunnerAssumption DEF Tick, Shape
      <3>2. UNCHANGED <<kind, stage, job, due, titles, left, emitted, result>>
        BY <1>3 DEF Tick, work
      <3>3. ASSUME NEW d \in Calls
            PROVE  PunctualAt(d)'
        BY <1>0, <3>1, <3>2 DEF Steady, PunctualAt
      <3> QED
        BY <1>0, <3>2, <3>3 DEF Steady, FetchesAt, CountedAt, HonestAt, Idle
    <2>3. Tokens'
      BY <1>0, <1>3 DEF Tick, Tokens, TokensHeld, Holders
    <2>4. Gate'
      BY <1>0, <1>3 DEF Tick, Gate
    <2> QED
      BY <2>1, <2>2, <2>3, <2>4 DEF IInv
  <1>4. CASE UNCHANGED vars
    <2>1. Shape'
      BY <1>0, <1>4 DEF Shape, vars, gateVars, contexts, work
    <2>2. \A d \in Calls : Steady(d)'
      BY <1>0, <1>4, SteadyFrame DEF vars, gateVars, work, Of
    <2>3. Tokens'
      BY <1>0, <1>4 DEF Tokens, TokensHeld, Holders, vars
    <2>4. Gate'
      BY <1>0, <1>4 DEF Gate, vars, gateVars
    <2> QED
      BY <2>1, <2>2, <2>3, <2>4 DEF IInv
  <1> QED
    BY <1>1, <1>2, <1>3, <1>4 DEF Next, CallStep

\* The invariant holds in every state of every behaviour.
THEOREM Inductive == Spec => []IInv
  BY InitIInv, NextIInv, PTL DEF Spec

\* Every variable keeps its type: no counter of webCandidates or btCandidates goes
\* below zero, and the semaphore's channel never holds more than its capacity.
THEOREM TypeCorrect == Spec => []TypeOK
  <1>1. IInv => TypeOK
    <2> SUFFICES ASSUME IInv PROVE TypeOK
      OBVIOUS
    <2>1. Cardinality(Holders) \in Nat
      BY RunnerAssumption, FS_Subset, FS_CardinalityType DEF Holders
    <2>2. semaphore \in 0..Concurrency
      BY <2>1, RunnerAssumption DEF IInv, Tokens, TokensHeld
    <2> QED
      BY <2>2 DEF IInv, Shape, TypeOK, JobStates
  <1> QED
    BY <1>1, Inductive, PTL

\* Whichever way Candidates returns, the tokens taken are those of the calls between
\* their acquisition and their return: none is leaked and none given back twice.
THEOREM TokensBalance == Spec => []TokensHeld
  <1>1. IInv => TokensHeld
    BY DEF IInv, Tokens
  <1> QED
    BY <1>1, Inductive, PTL

\* However calls overlap at rateGate.Wait, its instants are an interval apart and a
\* fetch that passed it did so at its instant or later.
THEOREM Spaced == Spec => []RequestsSpaced
  <1>1. IInv => RequestsSpaced
    BY DEF IInv, Steady, PunctualAt, Gate, RequestsSpaced
  <1> QED
    BY <1>1, Inductive, PTL

\* Candidates returns no error only after a candidate, and an error of its own only
\* without one.
THEOREM HonestCalls == Spec => []HonestResult
  <1>1. IInv => HonestResult
    BY DEF IInv, Steady, HonestAt, HonestResult
  <1> QED
    BY <1>1, Inductive, PTL
=============================================================================
