------------------------ MODULE CandidateStreamProofs ------------------------
(***************************************************************************)
(* Proofs about CandidateStream, for every set of requests and of sources, *)
(* every number of slots and every bound on emitted candidates.            *)
(***************************************************************************)
EXTENDS CandidateStream, FiniteSetTheorems, TLAPS

-----------------------------------------------------------------------------
(* The inductive invariant behind SlotAccounting                           *)

\* A request nobody has started holds nothing.
FreshRequests ==
    \A r \in Requests : writer[r] = "idle" =>
        /\ dispatcher[r] = "idle"
        /\ \A s \in Sources : stage[r][s] = "inactive"

\* Only a browser source has a deferred release to run.
OnlyBrowserReturns ==
    \A r \in Requests, s \in Sources : stage[r][s] = "returned" => s \in BrowserSources

\* TypeOK but for the bound on browserSlots, which is a matter of accounting.
Shape ==
    /\ serving \in BOOLEAN
    /\ connected \in [Requests -> BOOLEAN]
    /\ cancelled \in [Requests -> BOOLEAN]
    /\ writer \in [Requests -> {"idle", "streaming", "returned"}]
    /\ active \in [Requests -> SUBSET Sources]
    /\ chan \in [Requests -> Seq(Message)]
    /\ candidateIDs \in [Requests -> SUBSET CandidateIds]
    /\ emitted \in [Requests -> [Sources -> Nat]]
    /\ errorEmitted \in [Requests -> SUBSET Sources]
    /\ completed \in [Requests -> Nat]
    /\ wire \in [Requests -> Seq(Event)]
    /\ dispatcher \in [Requests -> {"idle", "waiting", "acquired", "stopped"}]
    /\ stage \in [Requests -> [Sources -> Stages]]
    /\ sent \in [Requests -> [Sources -> 0..MaxEmits]]

SlotInv == SlotAccounting /\ browserSlots <= Slots

IInv == Shape /\ FreshRequests /\ OnlyBrowserReturns /\ SlotInv

-----------------------------------------------------------------------------
(* Messages and events keep their types                                    *)

\* A message taken from a channel of messages is a message, and leaves one.
LEMMA ReceiveType ==
    ASSUME Shape, NEW r \in Requests, Receive(r)
    PROVE  /\ Head(chan[r]) \in Message
           /\ chan' \in [Requests -> Seq(Message)]
  <1>1. chan[r] \in Seq(Message) /\ chan[r] # <<>>
    BY DEF Shape, Receive
  <1>2. Head(chan[r]) \in Message /\ Tail(chan[r]) \in Seq(Message)
    BY <1>1
  <1>3. QED
    BY <1>2 DEF Shape, Receive

\* A send keeps the channel a sequence of messages.
LEMMA SendType ==
    ASSUME Shape, NEW r \in Requests, NEW m \in Message, Send(r, m)
    PROVE  chan' \in [Requests -> Seq(Message)]
  <1>1. Append(chan[r], m) \in Seq(Message)
    BY DEF Shape
  <1>2. QED
    BY <1>1 DEF Shape, Send

\* Writing an event, or failing to, changes only what it should.
LEMMA WriteType ==
    ASSUME Shape, NEW r \in Requests, NEW e \in Event, Write(r, e)
    PROVE  /\ wire' \in [Requests -> Seq(Event)]
           /\ cancelled' \in [Requests -> BOOLEAN]
           /\ writer' \in [Requests -> {"idle", "streaming", "returned"}]
           /\ writer[r] # "idle" => \A q \in Requests : writer'[q] = "idle" <=> writer[q] = "idle"
  <1>1. Append(wire[r], e) \in Seq(Event)
    BY DEF Shape
  <1>2. CASE wire' = [wire EXCEPT ![r] = Append(@, e)] /\ UNCHANGED <<writer, cancelled>>
    BY <1>1, <1>2 DEF Shape
  <1>3. CASE Return(r) /\ UNCHANGED wire
    BY <1>3 DEF Shape, Return
  <1>4. QED
    BY <1>2, <1>3 DEF Write

-----------------------------------------------------------------------------
(* Each step keeps the shape of the state, whatever the accounting         *)

\* The steps of one request outside its writer.
RequestStep(r) ==
    \/ Start(r)
    \/ DispatcherNext(r)
    \/ \E s \in Sources : SourceNext(r, s)
    \/ Disconnect(r)
    \/ NoticeDisconnect(r)

LEMMA SchedulingShape ==
    ASSUME Shape, NEW r \in Requests, RequestStep(r)
    PROVE  Shape'
  <1> USE DEF Shape, Stages
  <1>1. CASE Start(r)
    <2>1. PICK transports \in Preferences :
            LET chosen == {t \in Sources : Serves(t, transports)} IN
            /\ active' = [active EXCEPT ![r] = chosen]
            /\ stage' = [stage EXCEPT ![r] =
                           [t \in Sources |->
                               IF t \notin chosen THEN "inactive"
                               ELSE IF t \in BrowserSources THEN "queued" ELSE "running"]]
      BY <1>1 DEF Start
    <2>2. active' \in [Requests -> SUBSET Sources] /\ stage' \in [Requests -> [Sources -> Stages]]
      BY <2>1
    <2>3. QED
      BY <1>1, <2>2, SourcesAssumption DEF Start, writerVars
  <1>2. CASE AcquireSlot(r)
    BY <1>2 DEF AcquireSlot, writerVars, runVars
  <1>3. CASE LaunchBrowserSource(r)
    <2>1. stage' \in [Requests -> [Sources -> Stages]]
      <3>1. ASSUME NEW t \in NextQueued(r), stage' = [stage EXCEPT ![r][t] = "running"]
            PROVE  stage' \in [Requests -> [Sources -> Stages]]
        BY <3>1
      <3>2. QED
        BY <1>3, <3>1 DEF LaunchBrowserSource
    <2>2. dispatcher' \in [Requests -> {"idle", "waiting", "acquired", "stopped"}]
      BY <1>3 DEF LaunchBrowserSource
    <2>3. QED
      BY <1>3, <2>1, <2>2 DEF LaunchBrowserSource, writerVars
  <1>4. CASE StopDispatcher(r)
    BY <1>4 DEF StopDispatcher, writerVars, runVars
  <1>5. ASSUME NEW s \in Sources, EmitCandidate(r, s)
        PROVE  Shape'
    <2>1. PICK id \in CandidateIds, wellFormed \in BOOLEAN :
            Send(r, [type |-> "candidate", source |-> s, id |-> id, wellFormed |-> wellFormed])
      BY <1>5 DEF EmitCandidate
    <2>2. chan' \in [Requests -> Seq(Message)]
      <3>1. [type |-> "candidate", source |-> s, id |-> id, wellFormed |-> wellFormed] \in Message
        BY DEF Message, CandidateMessage
      <3>2. QED
        BY <2>1, <3>1, SendType DEF Shape
    <2>3. sent' \in [Requests -> [Sources -> 0..MaxEmits]]
      BY <1>5, SlotsAssumption DEF EmitCandidate
    <2>4. QED
      BY <1>5, <2>2, <2>3 DEF EmitCandidate, writerVars
  <1>6. ASSUME NEW s \in Sources, FinishSource(r, s)
        PROVE  Shape'
    <2>1. PICK failed \in BOOLEAN : Send(r, [type |-> "done", source |-> s, failed |-> failed])
      BY <1>6 DEF FinishSource
    <2>2. chan' \in [Requests -> Seq(Message)]
      <3>1. [type |-> "done", source |-> s, failed |-> failed] \in Message
        BY DEF Message, DoneMessage
      <3>2. QED
        BY <2>1, <3>1, SendType DEF Shape
    <2>3. stage' \in [Requests -> [Sources -> Stages]]
      BY <1>6 DEF FinishSource, AfterRun
    <2>4. QED
      BY <1>6, <2>2, <2>3 DEF FinishSource, writerVars
  <1>7. ASSUME NEW s \in Sources, AbandonSource(r, s)
        PROVE  Shape'
    BY <1>7 DEF AbandonSource, AfterRun, writerVars
  <1>8. ASSUME NEW s \in Sources, ReleaseSlot(r, s)
        PROVE  Shape'
    BY <1>8 DEF ReleaseSlot, writerVars
  <1>9. CASE Disconnect(r)
    BY <1>9 DEF Disconnect, writerVars, runVars
  <1>10. CASE NoticeDisconnect(r)
    BY <1>10 DEF NoticeDisconnect, writerVars, runVars
  <1>11. QED
    BY <1>1, <1>2, <1>3, <1>4, <1>5, <1>6, <1>7, <1>8, <1>9, <1>10
    DEF RequestStep, DispatcherNext, SourceNext

\* The steps of the writer.  They leave the dispatcher, the sources and the
\* slots alone, and never turn a request idle or start one.
LEMMA WriterStep ==
    ASSUME Shape, NEW r \in Requests, WriterNext(r)
    PROVE  /\ Shape'
           /\ UNCHANGED <<dispatcher, stage, browserSlots>>
           /\ \A q \in Requests : writer'[q] = "idle" <=> writer[q] = "idle"
  <1> USE DEF Shape
  <1> DEFINE m == Head(chan[r])
  <1>1. CASE AcceptCandidate(r)
    <2>1. m \in Message /\ chan' \in [Requests -> Seq(Message)]
      BY <1>1, ReceiveType DEF AcceptCandidate
    <2>2. m.source \in Sources /\ m.id \in CandidateIds
      BY <1>1, <2>1 DEF AcceptCandidate, Message, CandidateMessage, DoneMessage
    <2>3. Write(r, [event |-> "candidate", source |-> m.source, id |-> m.id])
      BY <1>1 DEF AcceptCandidate
    <2>4. [event |-> "candidate", source |-> m.source, id |-> m.id] \in Event
      BY <2>2 DEF Event, CandidateEvent
    <2>5. /\ wire' \in [Requests -> Seq(Event)]
          /\ cancelled' \in [Requests -> BOOLEAN]
          /\ writer' \in [Requests -> {"idle", "streaming", "returned"}]
          /\ \A q \in Requests : writer'[q] = "idle" <=> writer[q] = "idle"
      BY <1>1, <2>3, <2>4, WriteType DEF AcceptCandidate, Receive, Looping
    <2>6. /\ candidateIDs' \in [Requests -> SUBSET CandidateIds]
          /\ emitted' \in [Requests -> [Sources -> Nat]]
      BY <1>1, <2>2 DEF AcceptCandidate
    <2>7. QED
      BY <1>1, <2>1, <2>5, <2>6 DEF AcceptCandidate, Receive, runVars
  <1>2. CASE RejectCandidate(r)
    <2>1. m \in Message /\ chan' \in [Requests -> Seq(Message)]
      BY <1>2, ReceiveType DEF RejectCandidate
    <2>2. m.source \in Sources
      BY <2>1 DEF Message, CandidateMessage, DoneMessage
    <2>3. Write(r, [event |-> "source_error", source |-> m.source])
      BY <1>2 DEF RejectCandidate
    <2>4. [event |-> "source_error", source |-> m.source] \in Event
      BY <2>2 DEF Event, ErrorEvent
    <2>5. /\ wire' \in [Requests -> Seq(Event)]
          /\ cancelled' \in [Requests -> BOOLEAN]
          /\ writer' \in [Requests -> {"idle", "streaming", "returned"}]
          /\ \A q \in Requests : writer'[q] = "idle" <=> writer[q] = "idle"
      BY <1>2, <2>3, <2>4, WriteType DEF RejectCandidate, Receive, Looping
    <2>6. errorEmitted' \in [Requests -> SUBSET Sources]
      BY <1>2, <2>2 DEF RejectCandidate
    <2>7. QED
      BY <1>2, <2>1, <2>5, <2>6 DEF RejectCandidate, Receive, runVars
  <1>3. CASE IgnoreCandidate(r)
    <2>1. chan' \in [Requests -> Seq(Message)]
      BY <1>3, ReceiveType DEF IgnoreCandidate
    <2>2. QED
      BY <1>3, <2>1 DEF IgnoreCandidate, Receive, runVars, writerVars
  <1>4. CASE CompleteSource(r)
    <2>1. m \in Message /\ chan' \in [Requests -> Seq(Message)]
      BY <1>4, ReceiveType DEF CompleteSource
    <2>2. m.source \in Sources
      BY <2>1 DEF Message, CandidateMessage, DoneMessage
    <2>3. completed' \in [Requests -> Nat]
      BY <1>4 DEF CompleteSource
    <2>4. /\ wire' \in [Requests -> Seq(Event)]
          /\ cancelled' \in [Requests -> BOOLEAN]
          /\ writer' \in [Requests -> {"idle", "streaming", "returned"}]
          /\ errorEmitted' \in [Requests -> SUBSET Sources]
          /\ \A q \in Requests : writer'[q] = "idle" <=> writer[q] = "idle"
      <3>1. CASE m.failed /\ m.source \notin errorEmitted[r]
        <4>1. /\ Write(r, [event |-> "source_error", source |-> m.source])
              /\ errorEmitted' = [errorEmitted EXCEPT ![r] = @ \cup {m.source}]
          BY <1>4, <3>1 DEF CompleteSource
        <4>2. [event |-> "source_error", source |-> m.source] \in Event
          BY <2>2 DEF Event, ErrorEvent
        <4>3. errorEmitted' \in [Requests -> SUBSET Sources]
          BY <2>2, <4>1
        <4>4. QED
          BY <1>4, <4>1, <4>2, <4>3, WriteType DEF CompleteSource, Receive, Looping
      <3>2. CASE ~(m.failed /\ m.source \notin errorEmitted[r])
        BY <1>4, <3>2 DEF CompleteSource
      <3>3. QED
        BY <3>1, <3>2
    <2>5. QED
      BY <1>4, <2>1, <2>3, <2>4 DEF CompleteSource, Receive, runVars
  <1>5. CASE AbandonStream(r)
    BY <1>5 DEF AbandonStream, Return, Looping, runVars, writerVars
  <1>6. CASE FinishStream(r)
    <2> DEFINE queried == Cardinality(active[r])
               succeeded == Cardinality(Succeeded(r))
               e == [event |-> "done", queried |-> queried,
                     succeeded |-> succeeded, failed |-> queried - succeeded]
    <2>1. queried \in Nat /\ succeeded \in Nat /\ queried - succeeded \in Nat
      <3>1. IsFiniteSet(active[r])
        BY FS_Subset, SourcesAssumption
      <3>2. Succeeded(r) \in SUBSET active[r]
        BY DEF Succeeded
      <3>3. IsFiniteSet(Succeeded(r)) /\ succeeded <= queried
        BY <3>1, <3>2, FS_Subset
      <3>4. QED
        BY <3>1, <3>3, FS_CardinalityType
    <2>2. e \in Event
      BY <2>1 DEF Event, DoneEvent
    <2>3. wire' \in [Requests -> Seq(Event)]
      <3>1. Append(wire[r], e) \in Seq(Event)
        BY <2>2
      <3>2. wire' = [wire EXCEPT ![r] = Append(@, e)] \/ UNCHANGED wire
        BY <1>6 DEF FinishStream
      <3>3. QED
        BY <3>1, <3>2
    <2>4. QED
      BY <1>6, <2>3 DEF FinishStream, Return, runVars, writerVars
  <1>7. QED
    BY <1>1, <1>2, <1>3, <1>4, <1>5, <1>6 DEF WriterNext

-----------------------------------------------------------------------------
(* Accounting of the browser slots                                         *)

\* The two sets SlotAccounting counts are finite.
LEMMA HoldersFinite ==
    IsFiniteSet(SlotHolders) /\ IsFiniteSet(Dispatching)
  <1>1. IsFiniteSet(Requests \X BrowserSources)
    <2>1. IsFiniteSet(BrowserSources)
      BY FS_Subset, SourcesAssumption
    <2>2. QED
      BY <2>1, FS_Product, RequestsAssumption
  <1>2. SlotHolders \in SUBSET (Requests \X BrowserSources) /\ Dispatching \in SUBSET Requests
    BY DEF SlotHolders, Dispatching
  <1>3. QED
    BY <1>1, <1>2, FS_Subset, RequestsAssumption

\* Steps that leave stage and dispatcher alone leave the accounts alone.
LEMMA AccountsUnchanged ==
    ASSUME SlotInv, UNCHANGED browserSlots,
           SlotHolders' = SlotHolders, Dispatching' = Dispatching
    PROVE  SlotInv'
  BY DEF SlotInv, SlotAccounting

\* Starting a request, or any step of the dispatcher or of a source, moves a
\* token together with the stage of its holder.
LEMMA SlotStep ==
    ASSUME IInv, NEW r \in Requests, RequestStep(r)
    PROVE  SlotInv'
  <1> USE DEF IInv
  <1> DEFINE H == SlotHolders
             D == Dispatching
  <1>0. /\ Cardinality(H) \in Nat /\ Cardinality(D) \in Nat
        /\ browserSlots = Cardinality(H) + Cardinality(D)
        /\ browserSlots <= Slots
    BY HoldersFinite, FS_CardinalityType DEF SlotInv, SlotAccounting
  <1>a. stage \in [Requests -> [Sources -> Stages]]
    BY DEF Shape
  <1>b. dispatcher \in [Requests -> {"idle", "waiting", "acquired", "stopped"}]
    BY DEF Shape
  <1>c. BrowserSources \subseteq Sources
    BY SourcesAssumption
  <1>1. CASE Start(r)
    <2>1. PICK chosen \in SUBSET Sources :
            stage' = [stage EXCEPT ![r] =
                        [t \in Sources |->
                            IF t \notin chosen THEN "inactive"
                            ELSE IF t \in BrowserSources THEN "queued" ELSE "running"]]
      BY <1>1 DEF Start
    <2>2. \A t \in BrowserSources : /\ stage[r][t] = "inactive"
                                    /\ stage'[r][t] \in {"inactive", "queued"}
      BY <1>1, <1>a, <1>c, <2>1 DEF Start, FreshRequests
    <2>3. SlotHolders' = H
      BY <1>a, <2>1, <2>2 DEF SlotHolders
    <2>4. Dispatching' = D
      BY <1>1, <1>b DEF Start, FreshRequests, Dispatching
    <2>5. QED
      BY <1>1, <2>3, <2>4, AccountsUnchanged DEF Start
  <1>2. CASE AcquireSlot(r)
    <2>1. Dispatching' = D \cup {r} /\ r \notin D
      BY <1>2, <1>b DEF AcquireSlot, Dispatching
    <2>2. SlotHolders' = H
      BY <1>2 DEF AcquireSlot, runVars, SlotHolders
    <2>3. Cardinality(Dispatching') = Cardinality(D) + 1
      BY <2>1, HoldersFinite, FS_AddElement
    <2>4. QED
      BY <1>0, <1>2, <2>2, <2>3, SlotsAssumption DEF AcquireSlot, SlotInv, SlotAccounting
  <1>3. CASE LaunchBrowserSource(r)
    <2>1. Dispatching' = D \ {r} /\ r \in D
      BY <1>3, <1>b DEF LaunchBrowserSource, Dispatching
    <2>2. Cardinality(Dispatching') = Cardinality(D) - 1
      BY <2>1, HoldersFinite, FS_RemoveElement
    <2>3. CASE cancelled[r]
      <3>1. SlotHolders' = H
        BY <1>3, <2>3 DEF LaunchBrowserSource, SlotHolders
      <3>2. QED
        BY <1>0, <1>3, <2>2, <2>3, <3>1, SlotsAssumption
        DEF LaunchBrowserSource, SlotInv, SlotAccounting
    <2>4. CASE ~cancelled[r]
      <3>1. PICK t \in NextQueued(r) : stage' = [stage EXCEPT ![r][t] = "running"]
        BY <1>3, <2>4 DEF LaunchBrowserSource
      <3>2. t \in BrowserSources /\ stage[r][t] = "queued"
        BY DEF NextQueued, Queued
      <3>3. SlotHolders' = H \cup {<<r, t>>} /\ <<r, t>> \notin H
        BY <1>a, <1>c, <3>1, <3>2 DEF SlotHolders
      <3>4. Cardinality(SlotHolders') = Cardinality(H) + 1
        BY <3>3, HoldersFinite, FS_AddElement
      <3>5. QED
        BY <1>0, <1>3, <2>2, <2>4, <3>4 DEF LaunchBrowserSource, SlotInv, SlotAccounting
    <2>5. QED
      BY <2>3, <2>4
  <1>4. CASE StopDispatcher(r)
    <2>1. Dispatching' = D
      BY <1>4, <1>b DEF StopDispatcher, Dispatching
    <2>2. QED
      BY <1>4, <2>1, AccountsUnchanged DEF StopDispatcher, runVars, SlotHolders
  <1>5. ASSUME NEW s \in Sources, EmitCandidate(r, s)
        PROVE  SlotInv'
    BY <1>5, AccountsUnchanged DEF EmitCandidate, SlotHolders, Dispatching
  <1>6. ASSUME NEW s \in Sources, FinishSource(r, s) \/ AbandonSource(r, s)
        PROVE  SlotInv'
    <2>1. /\ stage[r][s] = "running"
          /\ stage' = [stage EXCEPT ![r][s] = AfterRun(s)]
          /\ UNCHANGED <<dispatcher, browserSlots>>
      BY <1>6 DEF FinishSource, AbandonSource
    <2>2. SlotHolders' = H
      BY <1>a, <1>c, <2>1 DEF SlotHolders, AfterRun
    <2>3. QED
      BY <2>1, <2>2, AccountsUnchanged DEF Dispatching
  <1>7. ASSUME NEW s \in Sources, ReleaseSlot(r, s)
        PROVE  SlotInv'
    <2>1. s \in BrowserSources
      BY <1>7 DEF ReleaseSlot, OnlyBrowserReturns
    <2>2. SlotHolders' = H \ {<<r, s>>} /\ <<r, s>> \in H
      BY <1>7, <1>a, <1>c, <2>1 DEF ReleaseSlot, SlotHolders
    <2>3. Cardinality(SlotHolders') = Cardinality(H) - 1
      BY <2>2, HoldersFinite, FS_RemoveElement
    <2>4. Dispatching' = D
      BY <1>7 DEF ReleaseSlot, Dispatching
    <2>5. QED
      BY <1>0, <1>7, <2>3, <2>4, SlotsAssumption DEF ReleaseSlot, SlotInv, SlotAccounting
  <1>8. CASE Disconnect(r) \/ NoticeDisconnect(r)
    BY <1>8, AccountsUnchanged
    DEF Disconnect, NoticeDisconnect, runVars, SlotHolders, Dispatching
  <1>9. QED
    BY <1>1, <1>2, <1>3, <1>4, <1>5, <1>6, <1>7, <1>8 DEF RequestStep, DispatcherNext, SourceNext

\* Requests not started stay empty-handed, and only browser sources wait to
\* release.
LEMMA OwnershipStep ==
    ASSUME IInv, NEW r \in Requests, RequestStep(r)
    PROVE  FreshRequests' /\ OnlyBrowserReturns'
  <1> USE DEF IInv, FreshRequests, OnlyBrowserReturns
  <1>a. /\ stage \in [Requests -> [Sources -> Stages]]
        /\ dispatcher \in [Requests -> {"idle", "waiting", "acquired", "stopped"}]
        /\ writer \in [Requests -> {"idle", "streaming", "returned"}]
    BY DEF Shape
  <1>b. BrowserSources \subseteq Sources
    BY SourcesAssumption
  <1>1. CASE Start(r)
    <2>1. PICK chosen \in SUBSET Sources :
            stage' = [stage EXCEPT ![r] =
                        [t \in Sources |->
                            IF t \notin chosen THEN "inactive"
                            ELSE IF t \in BrowserSources THEN "queued" ELSE "running"]]
      BY <1>1 DEF Start
    <2>2. QED
      BY <1>1, <1>a, <2>1 DEF Start
  <1>2. CASE AcquireSlot(r)
    BY <1>2, <1>a DEF AcquireSlot, runVars
  <1>3. CASE LaunchBrowserSource(r)
    <2>1. UNCHANGED stage \/ \E t \in NextQueued(r) : stage' = [stage EXCEPT ![r][t] = "running"]
      BY <1>3 DEF LaunchBrowserSource
    <2>2. writer[r] # "idle" /\ UNCHANGED writer
      BY <1>3 DEF LaunchBrowserSource
    <2>3. \A q \in Requests \ {r} : dispatcher'[q] = dispatcher[q]
      BY <1>3, <1>a DEF LaunchBrowserSource
    <2>4. QED
      BY <1>a, <2>1, <2>2, <2>3
  <1>4. CASE StopDispatcher(r)
    BY <1>4, <1>a DEF StopDispatcher, runVars
  <1>5. ASSUME NEW s \in Sources, EmitCandidate(r, s)
        PROVE  FreshRequests' /\ OnlyBrowserReturns'
    BY <1>5 DEF EmitCandidate
  <1>6. ASSUME NEW s \in Sources, FinishSource(r, s) \/ AbandonSource(r, s)
        PROVE  FreshRequests' /\ OnlyBrowserReturns'
    <2>1. /\ stage[r][s] = "running"
          /\ stage' = [stage EXCEPT ![r][s] = AfterRun(s)]
          /\ UNCHANGED <<dispatcher, writer>>
      BY <1>6 DEF FinishSource, AbandonSource
    <2>2. QED
      BY <1>a, <2>1 DEF AfterRun
  <1>7. ASSUME NEW s \in Sources, ReleaseSlot(r, s)
        PROVE  FreshRequests' /\ OnlyBrowserReturns'
    BY <1>7, <1>a DEF ReleaseSlot
  <1>8. CASE Disconnect(r) \/ NoticeDisconnect(r)
    BY <1>8 DEF Disconnect, NoticeDisconnect, runVars
  <1>9. QED
    BY <1>1, <1>2, <1>3, <1>4, <1>5, <1>6, <1>7, <1>8 DEF RequestStep, DispatcherNext, SourceNext

-----------------------------------------------------------------------------
(* The theorems                                                            *)

\* The inductive invariant holds before the first request.
LEMMA InitIInv == Init => IInv
  <1> SUFFICES ASSUME Init PROVE IInv
    OBVIOUS
  <1>1. Shape
    BY SlotsAssumption DEF Init, Shape, Stages
  <1>2. FreshRequests /\ OnlyBrowserReturns
    BY SourcesAssumption DEF Init, FreshRequests, OnlyBrowserReturns
  <1>3. SlotInv
    <2>1. SlotHolders = {} /\ Dispatching = {}
      BY SourcesAssumption DEF Init, SlotHolders, Dispatching
    <2>2. QED
      BY <2>1, FS_EmptySet, SlotsAssumption DEF Init, SlotInv, SlotAccounting
  <1>4. QED
    BY <1>1, <1>2, <1>3 DEF IInv

\* Every step keeps it.
LEMMA NextIInv == IInv /\ [Next]_vars => IInv'
  <1> SUFFICES ASSUME IInv, [Next]_vars PROVE IInv'
    OBVIOUS
  <1>1. CASE \E r \in Requests : RequestStep(r)
    BY <1>1, SchedulingShape, SlotStep, OwnershipStep DEF IInv
  <1>2. ASSUME NEW r \in Requests, WriterNext(r) PROVE IInv'
    <2>1. /\ Shape'
          /\ UNCHANGED <<dispatcher, stage, browserSlots>>
          /\ \A q \in Requests : writer'[q] = "idle" <=> writer[q] = "idle"
      BY <1>2, WriterStep DEF IInv
    <2>2. SlotInv'
      BY <2>1, AccountsUnchanged DEF IInv, SlotHolders, Dispatching
    <2>3. QED
      BY <2>1, <2>2 DEF IInv, FreshRequests, OnlyBrowserReturns
  <1>3. CASE Shutdown
    <2>1. Shape'
      BY <1>3 DEF Shutdown, writerVars, runVars, IInv, Shape
    <2>2. SlotInv'
      BY <1>3, AccountsUnchanged DEF Shutdown, runVars, IInv, SlotHolders, Dispatching
    <2>3. QED
      BY <1>3, <2>1, <2>2 DEF Shutdown, runVars, IInv, FreshRequests, OnlyBrowserReturns
  <1>4. CASE UNCHANGED vars
    <2>1. Shape'
      BY <1>4 DEF vars, writerVars, runVars, IInv, Shape
    <2>2. SlotInv'
      BY <1>4, AccountsUnchanged DEF vars, runVars, IInv, SlotHolders, Dispatching
    <2>3. QED
      BY <1>4, <2>1, <2>2 DEF vars, runVars, IInv, FreshRequests, OnlyBrowserReturns
  <1>5. QED
    BY <1>1, <1>2, <1>3, <1>4 DEF Next, RequestStep

\* The inductive invariant holds throughout.
THEOREM Inductive == Spec => []IInv
  BY InitIInv, NextIInv, PTL DEF Spec

\* The state keeps its types; that browserSlots stays between 0 and the
\* capacity of the channel follows from the accounting.
THEOREM TypeCorrect == Spec => []TypeOK
  <1>1. IInv => TypeOK
    <2> SUFFICES ASSUME IInv PROVE TypeOK
      OBVIOUS
    <2>1. Cardinality(SlotHolders) \in Nat /\ Cardinality(Dispatching) \in Nat
      BY HoldersFinite, FS_CardinalityType
    <2>2. browserSlots \in 0..Slots
      BY <2>1, SlotsAssumption DEF IInv, SlotInv, SlotAccounting
    <2>3. QED
      BY <2>2 DEF IInv, Shape, TypeOK
  <1>2. QED
    BY <1>1, Inductive, PTL

\* No interleaving of requests, cancellations, failures and disconnections
\* loses or doubles a browser slot.
THEOREM SlotsAccounted == Spec => []SlotAccounting
  <1>1. IInv => SlotAccounting
    BY DEF IInv, SlotInv
  <1>2. QED
    BY <1>1, Inductive, PTL

-----------------------------------------------------------------------------
(* What the response says                                                  *)

\* The writer remembers the IDs and the errors it has written.
Remembered ==
    \A r \in Requests : \A i \in DOMAIN wire[r] :
        /\ wire[r][i].event = "candidate" => wire[r][i].id \in candidateIDs[r]
        /\ wire[r][i].event = "source_error" => wire[r][i].source \in errorEmitted[r]

WireInv == Shape /\ Remembered /\ IdsUnique /\ SilentAfterError

\* What an event appended to a response must satisfy for the response to stay
\* good, m being what the writer remembers after it.
LEMMA AppendEvent ==
    ASSUME WireInv, Shape', NEW r \in Requests, NEW e \in Event,
           wire' = [wire EXCEPT ![r] = Append(@, e)],
           \A q \in Requests : candidateIDs[q] \subseteq candidateIDs'[q],
           \A q \in Requests : errorEmitted[q] \subseteq errorEmitted'[q],
           e.event = "candidate" => /\ e.id \notin candidateIDs[r]
                                    /\ e.id \in candidateIDs'[r],
           e.event = "source_error" => e.source \in errorEmitted'[r],
           e.event \in {"candidate", "source_error"} => e.source \notin errorEmitted[r]
    PROVE  WireInv'
  <1>1. \A q \in Requests : wire[q] \in Seq(Event) /\ (q # r => wire'[q] = wire[q])
    BY DEF WireInv, Shape
  <1>2. /\ Len(wire[r]) \in Nat
        /\ DOMAIN wire[r] = 1..Len(wire[r])
        /\ DOMAIN wire'[r] = 1..(Len(wire[r]) + 1)
        /\ \A i \in 1..Len(wire[r]) : wire'[r][i] = wire[r][i]
        /\ wire'[r][Len(wire[r]) + 1] = e
    <2>1. wire'[r] = Append(wire[r], e) /\ wire[r] \in Seq(Event)
      BY <1>1 DEF WireInv, Shape
    <2>2. QED
      BY <2>1
  <1>3. Remembered'
    <2> SUFFICES ASSUME NEW q \in Requests, NEW i \in DOMAIN wire'[q]
                 PROVE  /\ wire'[q][i].event = "candidate" => wire'[q][i].id \in candidateIDs'[q]
                        /\ wire'[q][i].event = "source_error" => wire'[q][i].source \in errorEmitted'[q]
      BY DEF Remembered
    <2>1. CASE q # r
      BY <1>1, <2>1 DEF WireInv, Remembered
    <2>2. CASE q = r /\ i \in DOMAIN wire[r]
      BY <1>2, <2>2 DEF WireInv, Remembered
    <2>3. CASE q = r /\ i = Len(wire[r]) + 1
      BY <1>2, <2>3
    <2>4. QED
      BY <1>2, <2>1, <2>2, <2>3
  <1>4. IdsUnique'
    <2> SUFFICES ASSUME NEW q \in Requests, NEW i \in DOMAIN wire'[q], NEW j \in DOMAIN wire'[q],
                        wire'[q][i].event = "candidate", wire'[q][j].event = "candidate",
                        wire'[q][i].id = wire'[q][j].id
                 PROVE  i = j
      BY DEF IdsUnique
    <2>1. CASE q # r
      BY <1>1, <2>1 DEF WireInv, IdsUnique
    <2>2. CASE q = r
      <3>1. CASE i \in DOMAIN wire[r] /\ j \in DOMAIN wire[r]
        BY <1>2, <2>2, <3>1 DEF WireInv, IdsUnique
      <3>2. CASE i \in DOMAIN wire[r] /\ j = Len(wire[r]) + 1
        BY <1>2, <2>2, <3>2 DEF WireInv, Remembered
      <3>3. CASE i = Len(wire[r]) + 1 /\ j \in DOMAIN wire[r]
        BY <1>2, <2>2, <3>3 DEF WireInv, Remembered
      <3>4. QED
        BY <1>2, <2>2, <3>1, <3>2, <3>3
    <2>3. QED
      BY <2>1, <2>2
  <1>5. SilentAfterError'
    <2> SUFFICES ASSUME NEW q \in Requests, NEW i \in DOMAIN wire'[q], NEW j \in DOMAIN wire'[q],
                        i < j, wire'[q][i].event = "source_error",
                        wire'[q][j].event \in {"candidate", "source_error"}
                 PROVE  wire'[q][i].source # wire'[q][j].source
      BY DEF SilentAfterError
    <2>1. CASE q # r
      BY <1>1, <2>1 DEF WireInv, SilentAfterError
    <2>2. CASE q = r
      <3>1. CASE j \in DOMAIN wire[r]
        BY <1>2, <2>2, <3>1 DEF WireInv, SilentAfterError
      <3>2. CASE j = Len(wire[r]) + 1
        <4>1. i \in DOMAIN wire[r] /\ wire'[q][i] = wire[r][i]
          BY <1>2, <2>2, <3>2
        <4>2. wire[r][i].source \in errorEmitted[r]
          BY <2>2, <4>1 DEF WireInv, Remembered
        <4>3. QED
          BY <1>2, <2>2, <3>2, <4>1, <4>2
      <3>3. QED
        BY <1>2, <2>2, <3>1, <3>2
    <2>3. QED
      BY <2>1, <2>2
  <1>6. QED
    BY <1>3, <1>4, <1>5 DEF WireInv

\* Steps that write nothing and forget nothing.
LEMMA SilentStep ==
    ASSUME WireInv, Shape', UNCHANGED wire,
           \A q \in Requests : candidateIDs[q] \subseteq candidateIDs'[q],
           \A q \in Requests : errorEmitted[q] \subseteq errorEmitted'[q]
    PROVE  WireInv'
  BY DEF WireInv, Remembered, IdsUnique, SilentAfterError

\* The writer writes only what the response allows.
LEMMA WriterWireStep ==
    ASSUME WireInv, Shape', NEW r \in Requests, WriterNext(r)
    PROVE  WireInv'
  <1> DEFINE m == Head(chan[r])
  <1>a. Shape
    BY DEF WireInv
  <1>1. CASE AcceptCandidate(r)
    <2> DEFINE e == [event |-> "candidate", source |-> m.source, id |-> m.id]
    <2>1. m \in Message
      BY <1>a, <1>1, ReceiveType DEF AcceptCandidate
    <2>2. m.source \in Sources /\ m.id \in CandidateIds
      BY <1>1, <2>1 DEF AcceptCandidate, Message, CandidateMessage, DoneMessage
    <2>3. e \in Event
      BY <2>2 DEF Event, CandidateEvent
    <2>4. /\ \A q \in Requests : candidateIDs[q] \subseteq candidateIDs'[q]
          /\ \A q \in Requests : errorEmitted[q] \subseteq errorEmitted'[q]
          /\ m.id \in candidateIDs'[r]
          /\ m.id \notin candidateIDs[r]
          /\ m.source \notin errorEmitted[r]
      BY <1>a, <1>1 DEF AcceptCandidate, Acceptable, Shape
    <2>5. CASE wire' = [wire EXCEPT ![r] = Append(@, e)]
      BY <2>3, <2>4, <2>5, AppendEvent
    <2>6. CASE UNCHANGED wire
      BY <2>4, <2>6, SilentStep
    <2>7. QED
      BY <1>1, <2>5, <2>6 DEF AcceptCandidate, Write
  <1>2. CASE RejectCandidate(r) \/ CompleteSource(r)
    <2> DEFINE e == [event |-> "source_error", source |-> m.source]
    <2>1. m \in Message
      BY <1>a, <1>2, ReceiveType DEF RejectCandidate, CompleteSource
    <2>2. m.source \in Sources
      BY <2>1 DEF Message, CandidateMessage, DoneMessage
    <2>3. e \in Event
      BY <2>2 DEF Event, ErrorEvent
    <2>a. errorEmitted \in [Requests -> SUBSET Sources]
      BY <1>a DEF Shape
    <2>b. \/ UNCHANGED <<errorEmitted, wire>>
          \/ /\ m.source \notin errorEmitted[r]
             /\ errorEmitted' = [errorEmitted EXCEPT ![r] = @ \cup {m.source}]
      BY <1>2 DEF RejectCandidate, CompleteSource
    <2>4. /\ UNCHANGED candidateIDs
          /\ \A q \in Requests : errorEmitted[q] \subseteq errorEmitted'[q]
      <3>1. UNCHANGED candidateIDs
        BY <1>2 DEF RejectCandidate, CompleteSource
      <3>2. QED
        BY <2>a, <2>b, <3>1
    <2>5. CASE wire' = [wire EXCEPT ![r] = Append(@, e)] /\ wire' # wire
      <3>1. m.source \notin errorEmitted[r] /\ m.source \in errorEmitted'[r]
        BY <2>a, <2>b, <2>5
      <3>2. QED
        BY <2>3, <2>4, <2>5, <3>1, AppendEvent
    <2>6. CASE UNCHANGED wire
      BY <2>4, <2>6, SilentStep
    <2>7. QED
      BY <1>2, <2>5, <2>6 DEF RejectCandidate, CompleteSource, Write
  <1>3. CASE IgnoreCandidate(r) \/ AbandonStream(r)
    BY <1>3, SilentStep DEF IgnoreCandidate, AbandonStream, writerVars
  <1>4. CASE FinishStream(r)
    <2> DEFINE e == [event |-> "done", queried |-> Cardinality(active[r]),
                     succeeded |-> Cardinality(Succeeded(r)),
                     failed |-> Cardinality(active[r]) - Cardinality(Succeeded(r))]
    <2>1. UNCHANGED <<candidateIDs, errorEmitted>>
      BY <1>4 DEF FinishStream, writerVars
    <2>2. CASE wire' = [wire EXCEPT ![r] = Append(@, e)]
      <3>1. e \in Event
        <4>1. Append(wire[r], e) \in Seq(Event) /\ wire[r] \in Seq(Event)
          BY <1>a, <2>2 DEF Shape
        <4>2. QED
          BY <4>1
      <3>2. QED
        BY <2>1, <2>2, <3>1, AppendEvent
    <2>3. CASE UNCHANGED wire
      BY <2>1, <2>3, SilentStep
    <2>4. QED
      BY <1>4, <2>2, <2>3 DEF FinishStream
  <1>5. QED
    BY <1>1, <1>2, <1>3, <1>4 DEF WriterNext

\* No step, of the writer or of anyone else, spoils a response.
LEMMA NextWireInv == WireInv /\ IInv' /\ [Next]_vars => WireInv'
  <1> SUFFICES ASSUME WireInv, IInv', [Next]_vars PROVE WireInv'
    OBVIOUS
  <1>1. Shape'
    BY DEF IInv
  <1>2. ASSUME NEW r \in Requests, WriterNext(r) PROVE WireInv'
    BY <1>1, <1>2, WriterWireStep
  <1>3. CASE (\E r \in Requests : RequestStep(r)) \/ Shutdown \/ UNCHANGED vars
    <2>1. UNCHANGED <<wire, candidateIDs, errorEmitted>>
      BY <1>3 DEF RequestStep, DispatcherNext, SourceNext, Start, AcquireSlot,
           LaunchBrowserSource, StopDispatcher, EmitCandidate, FinishSource, AbandonSource,
           ReleaseSlot, Disconnect, NoticeDisconnect, Shutdown, vars, writerVars
    <2>2. QED
      BY <1>1, <2>1, SilentStep
  <1>4. QED
    BY <1>2, <1>3 DEF Next, RequestStep

\* Every response starts well formed and stays so.
LEMMA WireInvariant == Spec => []WireInv
  <1>1. Init => WireInv
    <2> SUFFICES ASSUME Init PROVE WireInv
      OBVIOUS
    <2>1. Shape
      BY InitIInv DEF IInv
    <2>2. \A r \in Requests : DOMAIN wire[r] = {}
      BY DEF Init
    <2>3. QED
      BY <2>1, <2>2 DEF WireInv, Remembered, IdsUnique, SilentAfterError
  <1>2. QED
    BY <1>1, Inductive, NextWireInv, PTL DEF Spec

\* candidate.id is unique in every response, however the messages of the
\* sources interleave.
THEOREM UniqueIds == Spec => []IdsUnique
  <1>1. WireInv => IdsUnique
    BY DEF WireInv
  <1>2. QED
    BY <1>1, WireInvariant, PTL

\* A source that has reported an error is not heard again: neither a candidate
\* still in the channel nor a late failure follows its source_error.
THEOREM ErrorIsFinal == Spec => []SilentAfterError
  <1>1. WireInv => SilentAfterError
    BY DEF WireInv
  <1>2. QED
    BY <1>1, WireInvariant, PTL

-----------------------------------------------------------------------------
(***************************************************************************)
(* CandidateStream implements CandidateContract, for every set of requests *)
(* and of sources, every number of slots and every bound on candidates:    *)
(* whatever order the goroutines of a request take, its response is one    *)
(* the contract allows.                                                    *)
(***************************************************************************)

(* What lies between a source and the done event                           *)

Started == {"running", "returned", "exited"}
Finished == {"returned", "exited"}

\* The writer knows of the source: it has a candidate or an error of it.
Told(r, s) == emitted[r][s] > 0 \/ s \in errorEmitted[r]

\* A message in the channel is of a source that has been started; a done message
\* is the last one of its source, and without a failure it follows a candidate.
Ordered(r) ==
    /\ \A i \in DOMAIN chan[r] :
         /\ stage[r][chan[r][i].source] \in Started
         /\ chan[r][i].type = "done" =>
              /\ stage[r][chan[r][i].source] \in Finished
              /\ chan[r][i].failed \/ sent[r][chan[r][i].source] > 0
    /\ \A i, j \in DOMAIN chan[r] :
         i < j /\ chan[r][i].type = "done" => chan[r][i].source # chan[r][j].source

\* Only active sources run, and what one has sent is known to the writer or still
\* on its way.
Accounted(r) ==
    \A s \in Sources :
        /\ stage[r][s] # "inactive" => s \in active[r]
        /\ sent[r][s] > 0 =>
             \/ Told(r, s)
             \/ \E i \in DOMAIN chan[r] : chan[r][i].type = "candidate" /\ chan[r][i].source = s

\* completed counts sources that are over: they are told, and nothing of them is
\* on its way.
Over(r, s) ==
    /\ Told(r, s)
    /\ stage[r][s] \in Finished
    /\ \A i \in DOMAIN chan[r] : chan[r][i].source # s

Settled(r) ==
    \E over \in SUBSET active[r] :
        /\ Cardinality(over) = completed[r]
        /\ \A s \in over : Over(r, s)

Delivery(r) == Ordered(r) /\ Accounted(r) /\ Settled(r)

\* As long as the writer has not given up, what it remembers is what it wrote.
Written(r) ==
    writer[r] # "returned" =>
        \A s \in Sources :
            /\ emitted[r][s] > 0 <=>
                 \E i \in DOMAIN wire[r] : wire[r][i].event = "candidate" /\ wire[r][i].source = s
            /\ s \in errorEmitted[r] =>
                 \E i \in DOMAIN wire[r] : wire[r][i] = [event |-> "source_error", source |-> s]

RInv == \A r \in Requests : Delivery(r) /\ Written(r)

-----------------------------------------------------------------------------
(* Sequences that lose their head or gain an element                       *)

\* The elements of the tail are those of the sequence, one place earlier.
LEMMA TailFacts ==
    ASSUME NEW S, NEW q \in Seq(S), q # <<>>
    PROVE  /\ Len(q) \in Nat
           /\ 1 \in DOMAIN q
           /\ Head(q) = q[1]
           /\ DOMAIN Tail(q) = 1..(Len(q) - 1)
           /\ DOMAIN q = 1..Len(q)
           /\ \A i \in DOMAIN Tail(q) : i + 1 \in DOMAIN q /\ Tail(q)[i] = q[i + 1]
           /\ \A i \in DOMAIN q : i # 1 => i - 1 \in DOMAIN Tail(q) /\ Tail(q)[i - 1] = q[i]
  <1>1. Len(q) \in Nat \ {0} /\ DOMAIN q = 1..Len(q) /\ Head(q) = q[1]
    OBVIOUS
  <1>2. Tail(q) \in Seq(S) /\ Len(Tail(q)) = Len(q) - 1
    OBVIOUS
  <1>3. DOMAIN Tail(q) = 1..(Len(q) - 1)
    BY <1>1, <1>2
  <1>4. \A i \in 1..(Len(q) - 1) : Tail(q)[i] = q[i + 1]
    OBVIOUS
  <1>5. QED
    BY <1>1, <1>3, <1>4

\* An appended element comes last and moves no other.
LEMMA AppendFacts ==
    ASSUME NEW S, NEW q \in Seq(S), NEW e \in S
    PROVE  /\ Len(q) \in Nat
           /\ DOMAIN q = 1..Len(q)
           /\ DOMAIN Append(q, e) = 1..(Len(q) + 1)
           /\ Append(q, e)[Len(q) + 1] = e
           /\ \A i \in DOMAIN q : Append(q, e)[i] = q[i]
  OBVIOUS

\* Every element of a channel is a message of a source.
LEMMA MessageFacts ==
    ASSUME Shape, NEW r \in Requests, NEW i \in DOMAIN chan[r]
    PROVE  /\ chan[r][i] \in Message
           /\ chan[r][i].source \in Sources
           /\ chan[r][i].type \in {"candidate", "done"}
  <1>1. chan[r] \in Seq(Message)
    BY DEF Shape
  <1>2. chan[r][i] \in Message
    BY <1>1
  <1>3. QED
    BY <1>2 DEF Message, CandidateMessage, DoneMessage

-----------------------------------------------------------------------------
(* Delivery is kept by every kind of step                                  *)

\* What the delivery of a request is told from.
Same(r) ==
    /\ UNCHANGED <<chan[r], stage[r], sent[r], active[r]>>
    /\ UNCHANGED <<emitted[r], errorEmitted[r], completed[r]>>

\* A step that changes none of it.
LEMMA DeliveryFrame ==
    ASSUME NEW r \in Requests, Delivery(r), Same(r)
    PROVE  Delivery(r)'
  <1>1. Ordered(r)'
    BY DEF Delivery, Ordered, Same
  <1>2. Accounted(r)'
    BY DEF Delivery, Accounted, Told, Same
  <1>3. Settled(r)'
    BY DEF Delivery, Settled, Over, Told, Same
  <1>4. QED
    BY <1>1, <1>2, <1>3 DEF Delivery

\* A step that only takes sources further.
LEMMA DeliveryStage ==
    ASSUME Shape, NEW r \in Requests, Delivery(r),
           UNCHANGED <<chan[r], sent[r], active[r]>>,
           UNCHANGED <<emitted[r], errorEmitted[r], completed[r]>>,
           \A s \in Sources : stage[r][s] \in Started => stage'[r][s] \in Started,
           \A s \in Sources : stage[r][s] \in Finished => stage'[r][s] \in Finished,
           \A s \in Sources : stage'[r][s] # "inactive" => stage[r][s] # "inactive"
    PROVE  Delivery(r)'
  <1>1. Ordered(r)'
    BY MessageFacts DEF Delivery, Ordered
  <1>2. Accounted(r)'
    BY DEF Delivery, Accounted, Told
  <1>3. Settled(r)'
    <2>1. PICK over \in SUBSET active[r] :
            /\ Cardinality(over) = completed[r]
            /\ \A s \in over : Over(r, s)
      BY DEF Delivery, Settled
    <2>2. over \subseteq Sources
      BY DEF Shape
    <2>3. \A s \in over : Over(r, s)'
      BY <2>1, <2>2 DEF Over, Told
    <2>4. QED
      BY <2>1, <2>3 DEF Settled
  <1>4. QED
    BY <1>1, <1>2, <1>3 DEF Delivery

\* A running source sends its next candidate.
LEMMA DeliveryEmit ==
    ASSUME Shape, NEW r \in Requests, NEW s \in Sources, Delivery(r),
           EmitCandidate(r, s)
    PROVE  Delivery(r)'
  <1>1. PICK id \in CandidateIds, wellFormed \in BOOLEAN :
          Send(r, [type |-> "candidate", source |-> s, id |-> id, wellFormed |-> wellFormed])
    BY DEF EmitCandidate
  <1> DEFINE m == [type |-> "candidate", source |-> s, id |-> id, wellFormed |-> wellFormed]
  <1>2. m \in Message /\ m.type = "candidate" /\ m.source = s
    BY DEF Message, CandidateMessage
  <1> HIDE DEF m
  <1>3. chan[r] \in Seq(Message) /\ chan'[r] = Append(chan[r], m)
    BY <1>1 DEF Send, Shape, m
  <1>4. /\ Len(chan[r]) \in Nat
        /\ DOMAIN chan[r] = 1..Len(chan[r])
        /\ DOMAIN chan'[r] = 1..(Len(chan[r]) + 1)
        /\ chan'[r][Len(chan[r]) + 1] = m
        /\ \A i \in DOMAIN chan[r] : chan'[r][i] = chan[r][i]
    BY <1>2, <1>3, AppendFacts
  <1>5. /\ stage[r][s] = "running"
        /\ stage[r] = stage'[r] /\ active[r] = active'[r] /\ completed[r] = completed'[r]
        /\ emitted[r] = emitted'[r] /\ errorEmitted[r] = errorEmitted'[r]
    BY DEF EmitCandidate, writerVars
  <1>6. /\ \A t \in Sources : t # s => sent'[r][t] = sent[r][t]
        /\ sent[r][s] \in Nat /\ sent'[r][s] = sent[r][s] + 1
    BY SlotsAssumption DEF EmitCandidate, Shape
  <1>7. \A i \in DOMAIN chan[r] :
          chan[r][i].source \in Sources /\ (chan[r][i].type = "done" => chan[r][i].source # s)
    BY <1>5, MessageFacts DEF Delivery, Ordered, Finished
  <1>8. Ordered(r)'
    <2>1. ASSUME NEW i \in DOMAIN chan'[r]
          PROVE  /\ stage'[r][chan'[r][i].source] \in Started
                 /\ chan'[r][i].type = "done" =>
                      /\ stage'[r][chan'[r][i].source] \in Finished
                      /\ chan'[r][i].failed \/ sent'[r][chan'[r][i].source] > 0
      <3>1. CASE i = Len(chan[r]) + 1
        BY <1>2, <1>4, <1>5, <3>1 DEF Started
      <3>2. CASE i \in DOMAIN chan[r]
        BY <1>4, <1>5, <1>6, <1>7, <3>2 DEF Delivery, Ordered
      <3>3. QED
        BY <1>4, <2>1, <3>1, <3>2
    <2>2. ASSUME NEW i \in DOMAIN chan'[r], NEW j \in DOMAIN chan'[r],
                 i < j, chan'[r][i].type = "done"
          PROVE  chan'[r][i].source # chan'[r][j].source
      <3>1. i \in DOMAIN chan[r]
        BY <1>4, <2>2
      <3>2. CASE j = Len(chan[r]) + 1
        BY <1>2, <1>4, <1>7, <2>2, <3>1, <3>2
      <3>3. CASE j \in DOMAIN chan[r]
        BY <1>4, <2>2, <3>1, <3>3 DEF Delivery, Ordered
      <3>4. QED
        BY <1>4, <3>2, <3>3
    <2>3. QED
      BY <2>1, <2>2 DEF Ordered
  <1>9. Accounted(r)'
    <2> SUFFICES ASSUME NEW t \in Sources
                 PROVE  /\ stage'[r][t] # "inactive" => t \in active'[r]
                        /\ sent'[r][t] > 0 =>
                             \/ Told(r, t)'
                             \/ \E i \in DOMAIN chan'[r] :
                                  chan'[r][i].type = "candidate" /\ chan'[r][i].source = t
      BY DEF Accounted
    <2>1. stage'[r][t] # "inactive" => t \in active'[r]
      BY <1>5 DEF Delivery, Accounted
    <2>2. CASE t = s
      BY <1>2, <1>4, <2>1, <2>2
    <2>3. CASE t # s
      BY <1>4, <1>5, <1>6, <2>1, <2>3 DEF Delivery, Accounted, Told
    <2>4. QED
      BY <2>2, <2>3
  <1>10. Settled(r)'
    <2>1. PICK over \in SUBSET active[r] :
            /\ Cardinality(over) = completed[r]
            /\ \A t \in over : Over(r, t)
      BY DEF Delivery, Settled
    <2>2. ASSUME NEW t \in over PROVE Over(r, t)'
      <3>1. Over(r, t) /\ t # s
        BY <1>5, <2>1 DEF Over, Finished
      <3>2. QED
        BY <1>2, <1>4, <1>5, <3>1 DEF Over, Told
    <2>3. QED
      BY <1>5, <2>1, <2>2 DEF Settled
  <1>11. QED
    BY <1>8, <1>9, <1>10 DEF Delivery

\* A source's Runner returns, and its done message is sent.
LEMMA DeliveryFinish ==
    ASSUME Shape, NEW r \in Requests, NEW s \in Sources, Delivery(r),
           FinishSource(r, s)
    PROVE  Delivery(r)'
  <1>1. PICK failed \in BOOLEAN :
          /\ ~failed => sent[r][s] > 0
          /\ Send(r, [type |-> "done", source |-> s, failed |-> failed])
    BY DEF FinishSource
  <1> DEFINE m == [type |-> "done", source |-> s, failed |-> failed]
  <1>2. /\ m \in Message /\ m.type = "done" /\ m.source = s
        /\ m.failed \/ sent[r][s] > 0
    BY <1>1 DEF Message, DoneMessage
  <1> HIDE DEF m
  <1>3. chan[r] \in Seq(Message) /\ chan'[r] = Append(chan[r], m)
    BY <1>1 DEF Send, Shape, m
  <1>4. /\ Len(chan[r]) \in Nat
        /\ DOMAIN chan[r] = 1..Len(chan[r])
        /\ DOMAIN chan'[r] = 1..(Len(chan[r]) + 1)
        /\ chan'[r][Len(chan[r]) + 1] = m
        /\ \A i \in DOMAIN chan[r] : chan'[r][i] = chan[r][i]
    BY <1>2, <1>3, AppendFacts
  <1>5. /\ stage[r][s] = "running" /\ stage'[r][s] \in Finished
        /\ \A t \in Sources : t # s => stage'[r][t] = stage[r][t]
        /\ sent[r] = sent'[r] /\ active[r] = active'[r] /\ completed[r] = completed'[r]
        /\ emitted[r] = emitted'[r] /\ errorEmitted[r] = errorEmitted'[r]
    BY DEF FinishSource, AfterRun, Finished, Shape, writerVars
  <1>6. \A i \in DOMAIN chan[r] :
          chan[r][i].source \in Sources /\ (chan[r][i].type = "done" => chan[r][i].source # s)
    BY <1>5, MessageFacts DEF Delivery, Ordered, Finished
  <1>7. Ordered(r)'
    <2>1. ASSUME NEW i \in DOMAIN chan'[r]
          PROVE  /\ stage'[r][chan'[r][i].source] \in Started
                 /\ chan'[r][i].type = "done" =>
                      /\ stage'[r][chan'[r][i].source] \in Finished
                      /\ chan'[r][i].failed \/ sent'[r][chan'[r][i].source] > 0
      <3>1. CASE i = Len(chan[r]) + 1
        BY <1>2, <1>4, <1>5, <3>1 DEF Started, Finished
      <3>2. CASE i \in DOMAIN chan[r] /\ chan[r][i].source = s
        BY <1>4, <1>5, <1>6, <3>2 DEF Started, Finished
      <3>3. CASE i \in DOMAIN chan[r] /\ chan[r][i].source # s
        BY <1>4, <1>5, <1>6, <3>3 DEF Delivery, Ordered
      <3>4. QED
        BY <1>4, <2>1, <3>1, <3>2, <3>3
    <2>2. ASSUME NEW i \in DOMAIN chan'[r], NEW j \in DOMAIN chan'[r],
                 i < j, chan'[r][i].type = "done"
          PROVE  chan'[r][i].source # chan'[r][j].source
      <3>1. i \in DOMAIN chan[r]
        BY <1>4, <2>2
      <3>2. CASE j = Len(chan[r]) + 1
        BY <1>2, <1>4, <1>6, <2>2, <3>1, <3>2
      <3>3. CASE j \in DOMAIN chan[r]
        BY <1>4, <2>2, <3>1, <3>3 DEF Delivery, Ordered
      <3>4. QED
        BY <1>4, <3>2, <3>3
    <2>3. QED
      BY <2>1, <2>2 DEF Ordered
  <1>8. Accounted(r)'
    BY <1>4, <1>5 DEF Delivery, Accounted, Told
  <1>9. Settled(r)'
    <2>1. PICK over \in SUBSET active[r] :
            /\ Cardinality(over) = completed[r]
            /\ \A t \in over : Over(r, t)
      BY DEF Delivery, Settled
    <2>2. over \subseteq Sources
      BY DEF Shape
    <2>3. ASSUME NEW t \in over PROVE Over(r, t)'
      <3>1. Over(r, t) /\ t # s
        BY <1>5, <2>1 DEF Over, Finished
      <3>2. QED
        BY <1>2, <1>4, <1>5, <2>2, <3>1 DEF Over, Told
    <2>4. QED
      BY <1>5, <2>1, <2>3 DEF Settled
  <1>10. QED
    BY <1>7, <1>8, <1>9 DEF Delivery

\* What stays after the oldest message was taken, whatever becomes of it.
LEMMA OrderedTail ==
    ASSUME Shape, NEW r \in Requests, Ordered(r), Receive(r)
    PROVE  /\ Ordered(r)'
           /\ 1 \in DOMAIN chan[r] /\ Head(chan[r]) = chan[r][1]
           /\ \A i \in DOMAIN chan'[r] : \E j \in DOMAIN chan[r] : j # 1 /\ chan'[r][i] = chan[r][j]
           /\ \A j \in DOMAIN chan[r] : j # 1 => \E i \in DOMAIN chan'[r] : chan'[r][i] = chan[r][j]
  <1>1. chan[r] \in Seq(Message) /\ chan[r] # <<>> /\ chan'[r] = Tail(chan[r])
    BY DEF Receive, Shape
  <1>2. /\ Len(chan[r]) \in Nat
        /\ 1 \in DOMAIN chan[r]
        /\ Head(chan[r]) = chan[r][1]
        /\ DOMAIN chan'[r] = 1..(Len(chan[r]) - 1)
        /\ \A i \in DOMAIN chan'[r] : i + 1 \in DOMAIN chan[r] /\ chan'[r][i] = chan[r][i + 1]
        /\ \A i \in DOMAIN chan[r] : i # 1 => i - 1 \in DOMAIN chan'[r] /\ chan'[r][i - 1] = chan[r][i]
    BY <1>1, TailFacts
  <1>3. UNCHANGED <<stage, sent>>
    BY DEF Receive, runVars
  <1>4. Ordered(r)'
    <2>1. ASSUME NEW i \in DOMAIN chan'[r]
          PROVE  /\ stage'[r][chan'[r][i].source] \in Started
                 /\ chan'[r][i].type = "done" =>
                      /\ stage'[r][chan'[r][i].source] \in Finished
                      /\ chan'[r][i].failed \/ sent'[r][chan'[r][i].source] > 0
      BY <1>2, <1>3, <2>1 DEF Ordered
    <2>2. ASSUME NEW i \in DOMAIN chan'[r], NEW j \in DOMAIN chan'[r],
                 i < j, chan'[r][i].type = "done"
          PROVE  chan'[r][i].source # chan'[r][j].source
      <3>1. i + 1 \in DOMAIN chan[r] /\ j + 1 \in DOMAIN chan[r] /\ i + 1 < j + 1
        BY <1>2, <2>2
      <3>2. QED
        BY <1>2, <2>2, <3>1 DEF Ordered
    <2>3. QED
      BY <2>1, <2>2 DEF Ordered
  <1>5. \A i \in DOMAIN chan'[r] : i + 1 # 1
    BY <1>2
  <1>6. QED
    BY <1>2, <1>4, <1>5

\* The writer takes a candidate: afterwards its source is told.
LEMMA DeliveryCandidate ==
    ASSUME Shape, NEW r \in Requests, Delivery(r),
           AcceptCandidate(r) \/ RejectCandidate(r) \/ IgnoreCandidate(r)
    PROVE  Delivery(r)'
  <1> DEFINE m == Head(chan[r])
  <1>1. Receive(r) /\ m.type = "candidate"
    BY DEF AcceptCandidate, RejectCandidate, IgnoreCandidate
  <1>2. m \in Message /\ m.source \in Sources
    BY <1>1, OrderedTail, MessageFacts DEF Delivery
  <1>a. PICK src \in Sources : src = m.source
    BY <1>2
  <1>3. /\ UNCHANGED <<stage, sent, active, completed>>
        /\ Told(r, src)'
        /\ \A s \in Sources : Told(r, s) => Told(r, s)'
    <2>1. CASE AcceptCandidate(r)
      <3>1. /\ emitted' = [emitted EXCEPT ![r][src] = @ + 1]
            /\ errorEmitted' = errorEmitted
        BY <1>a, <2>1 DEF AcceptCandidate
      <3>2. emitted \in [Requests -> [Sources -> Nat]]
        BY DEF Shape
      <3>3. /\ emitted'[r][src] > 0
            /\ \A s \in Sources : s # src => emitted'[r][s] = emitted[r][s]
        BY <3>1, <3>2
      <3>4. UNCHANGED <<stage, sent, active, completed>>
        BY <2>1 DEF AcceptCandidate, Receive, runVars
      <3>5. QED
        BY <3>1, <3>3, <3>4 DEF Told
    <2>2. CASE RejectCandidate(r)
      BY <1>a, <2>2 DEF RejectCandidate, Receive, Told, Shape, runVars
    <2>3. CASE IgnoreCandidate(r)
      BY <1>a, <2>3 DEF IgnoreCandidate, Receive, Told, Shape, runVars, writerVars
    <2>4. QED
      BY <2>1, <2>2, <2>3
  <1>4. /\ Ordered(r)'
        /\ m = chan[r][1]
        /\ \A i \in DOMAIN chan'[r] : \E j \in DOMAIN chan[r] : chan'[r][i] = chan[r][j]
        /\ \A j \in DOMAIN chan[r] : j # 1 => \E i \in DOMAIN chan'[r] : chan'[r][i] = chan[r][j]
    BY <1>1, OrderedTail DEF Delivery
  <1>5. Accounted(r)'
    <2> SUFFICES ASSUME NEW s \in Sources
                 PROVE  /\ stage'[r][s] # "inactive" => s \in active'[r]
                        /\ sent'[r][s] > 0 =>
                             \/ Told(r, s)'
                             \/ \E i \in DOMAIN chan'[r] :
                                  chan'[r][i].type = "candidate" /\ chan'[r][i].source = s
      BY DEF Accounted
    <2>1. stage'[r][s] # "inactive" => s \in active'[r]
      BY <1>3 DEF Delivery, Accounted
    <2>2. CASE s = src
      BY <1>3, <2>1, <2>2
    <2>3. CASE s # src
      <3>1. sent[r][s] > 0 =>
              \/ Told(r, s)
              \/ \E i \in DOMAIN chan[r] : chan[r][i].type = "candidate" /\ chan[r][i].source = s
        BY DEF Delivery, Accounted
      <3>2. QED
        BY <1>a, <1>3, <1>4, <2>1, <2>3, <3>1
    <2>4. QED
      BY <2>2, <2>3
  <1>6. Settled(r)'
    <2>1. PICK over \in SUBSET active[r] :
            /\ Cardinality(over) = completed[r]
            /\ \A s \in over : Over(r, s)
      BY DEF Delivery, Settled
    <2>2. over \subseteq Sources
      BY DEF Shape
    <2>3. \A s \in over : Over(r, s)'
      BY <1>3, <1>4, <2>1, <2>2 DEF Over
    <2>4. QED
      BY <1>3, <2>1, <2>3 DEF Settled
  <1>7. QED
    BY <1>4, <1>5, <1>6 DEF Delivery

\* The writer takes a done message: its source joins those that are over.
LEMMA DeliveryComplete ==
    ASSUME Shape, NEW r \in Requests, Delivery(r), CompleteSource(r)
    PROVE  Delivery(r)'
  <1> DEFINE m == Head(chan[r])
  <1>1. Receive(r) /\ m.type = "done"
    BY DEF CompleteSource
  <1>2. /\ 1 \in DOMAIN chan[r] /\ m = chan[r][1]
        /\ Ordered(r)'
        /\ \A i \in DOMAIN chan'[r] : \E j \in DOMAIN chan[r] : j # 1 /\ chan'[r][i] = chan[r][j]
        /\ \A j \in DOMAIN chan[r] : j # 1 => \E i \in DOMAIN chan'[r] : chan'[r][i] = chan[r][j]
    BY <1>1, OrderedTail DEF Delivery
  <1>3. m \in Message /\ m.source \in Sources
    BY <1>2, MessageFacts
  <1>a. PICK src \in Sources : src = m.source
    BY <1>3
  <1>4. /\ UNCHANGED <<stage, sent, active, emitted>>
        /\ completed'[r] = completed[r] + 1
        /\ m.failed => src \in errorEmitted'[r]
        /\ \A s \in Sources : Told(r, s) => Told(r, s)'
    BY <1>a DEF CompleteSource, Receive, Told, Shape, runVars
  <1>5. \A i \in DOMAIN chan[r] : chan[r][i].source = src => i = 1
    <2>1. DOMAIN chan[r] \subseteq Nat \ {0}
      BY DEF Shape
    <2>2. \A i \in DOMAIN chan[r] : i # 1 => 1 < i
      BY <2>1
    <2>3. QED
      BY <1>a, <1>1, <1>2, <2>2 DEF Delivery, Ordered
  <1>6. Told(r, src)'
    <2>1. CASE m.failed
      BY <1>4, <2>1 DEF Told
    <2>2. CASE ~m.failed
      <3>1. sent[r][src] > 0
        BY <1>a, <1>1, <1>2, <2>2 DEF Delivery, Ordered
      <3>2. Told(r, src)
        BY <1>a, <1>1, <1>2, <1>5, <3>1 DEF Delivery, Accounted
      <3>3. QED
        BY <1>4, <3>2
    <2>3. QED
      BY <2>1, <2>2
  <1>7. \A i \in DOMAIN chan'[r] : chan'[r][i].source # src
    BY <1>2, <1>5
  <1>8. stage[r][src] \in Finished
    BY <1>a, <1>1, <1>2 DEF Delivery, Ordered
  <1>9. Accounted(r)'
    <2> SUFFICES ASSUME NEW s \in Sources
                 PROVE  /\ stage'[r][s] # "inactive" => s \in active'[r]
                        /\ sent'[r][s] > 0 =>
                             \/ Told(r, s)'
                             \/ \E i \in DOMAIN chan'[r] :
                                  chan'[r][i].type = "candidate" /\ chan'[r][i].source = s
      BY DEF Accounted
    <2>1. stage'[r][s] # "inactive" => s \in active'[r]
      BY <1>4 DEF Delivery, Accounted
    <2>2. sent[r][s] > 0 =>
            \/ Told(r, s)
            \/ \E i \in DOMAIN chan[r] : chan[r][i].type = "candidate" /\ chan[r][i].source = s
      BY DEF Delivery, Accounted
    <2>3. QED
      BY <1>1, <1>2, <1>4, <2>1, <2>2
  <1>10. Settled(r)'
    <2>1. PICK over \in SUBSET active[r] :
            /\ Cardinality(over) = completed[r]
            /\ \A s \in over : Over(r, s)
      BY DEF Delivery, Settled
    <2>2. over \subseteq Sources /\ IsFiniteSet(over)
      <3>1. over \subseteq Sources
        BY DEF Shape
      <3>2. QED
        BY <3>1, SourcesAssumption, FS_Subset
    <2>3. src \notin over
      BY <1>a, <1>2, <2>1 DEF Over
    <2>4. Cardinality(over \cup {src}) = completed'[r]
      BY <1>4, <2>1, <2>2, <2>3, FS_AddElement
    <2>5. over \cup {src} \in SUBSET active'[r]
      BY <1>4, <1>8 DEF Delivery, Accounted, Finished
    <2>6. ASSUME NEW s \in over PROVE Over(r, s)'
      BY <1>2, <1>4, <2>1, <2>2, <2>6 DEF Over
    <2>7. Over(r, src)'
      BY <1>4, <1>6, <1>7, <1>8 DEF Over
    <2>8. QED
      BY <2>4, <2>5, <2>6, <2>7 DEF Settled
  <1>11. QED
    BY <1>2, <1>9, <1>10 DEF Delivery

\* A request starts with nothing sent.
LEMMA DeliveryStart ==
    ASSUME Shape, FreshRequests, NEW r \in Requests, Delivery(r), Start(r)
    PROVE  Delivery(r)'
  <1>1. /\ writer[r] = "idle"
        /\ UNCHANGED <<chan, sent, emitted, errorEmitted, completed>>
    BY DEF Start, writerVars
  <1>2. \A s \in Sources : stage[r][s] = "inactive"
    BY <1>1 DEF FreshRequests
  <1>3. DOMAIN chan[r] = {}
    BY <1>2, MessageFacts DEF Delivery, Ordered, Started
  <1>4. \A s \in Sources : stage'[r][s] # "inactive" => s \in active'[r]
    BY DEF Start, Shape
  <1>5. Ordered(r)'
    BY <1>1, <1>3 DEF Ordered
  <1>6. Accounted(r)'
    BY <1>1, <1>3, <1>4 DEF Delivery, Accounted, Told
  <1>7. Settled(r)'
    <2>1. PICK over \in SUBSET active[r] :
            /\ Cardinality(over) = completed[r]
            /\ \A s \in over : Over(r, s)
      BY DEF Delivery, Settled
    <2>2. over = {}
      BY <1>2, <2>1 DEF Over, Finished, Shape
    <2>3. QED
      BY <1>1, <2>1, <2>2 DEF Settled
  <1>8. QED
    BY <1>5, <1>6, <1>7 DEF Delivery

\* Every step of a request keeps its delivery.
LEMMA DeliveryStep ==
    ASSUME Shape, FreshRequests, NEW r \in Requests, Delivery(r),
           RequestStep(r) \/ WriterNext(r)
    PROVE  Delivery(r)'
  <1>1. CASE Start(r)
    BY <1>1, DeliveryStart
  <1>2. CASE AcquireSlot(r) \/ StopDispatcher(r) \/ Disconnect(r) \/ NoticeDisconnect(r)
    <2>1. Same(r)
      BY <1>2 DEF AcquireSlot, StopDispatcher, Disconnect, NoticeDisconnect, Same, writerVars, runVars
    <2>2. QED
      BY <2>1, DeliveryFrame
  <1>3. CASE LaunchBrowserSource(r)
    <2>1. /\ UNCHANGED <<chan[r], sent[r], active[r]>>
          /\ UNCHANGED <<emitted[r], errorEmitted[r], completed[r]>>
      BY <1>3 DEF LaunchBrowserSource, writerVars
    <2>2. \/ UNCHANGED stage
          \/ \E s \in Sources : stage[r][s] = "queued" /\ stage' = [stage EXCEPT ![r][s] = "running"]
      BY <1>3, SourcesAssumption DEF LaunchBrowserSource, NextQueued, Queued
    <2>3. \A s \in Sources :
            /\ stage[r][s] \in Started => stage'[r][s] \in Started
            /\ stage[r][s] \in Finished => stage'[r][s] \in Finished
            /\ stage'[r][s] # "inactive" => stage[r][s] # "inactive"
      BY <2>2 DEF Shape, Started, Finished
    <2>4. QED
      BY <2>1, <2>3, DeliveryStage
  <1>4. ASSUME NEW s \in Sources, AbandonSource(r, s) \/ ReleaseSlot(r, s)
        PROVE  Delivery(r)'
    <2>1. /\ UNCHANGED <<chan[r], sent[r], active[r]>>
          /\ UNCHANGED <<emitted[r], errorEmitted[r], completed[r]>>
      BY <1>4 DEF AbandonSource, ReleaseSlot, writerVars
    <2>2. /\ stage[r][s] \in Started
          /\ \E next \in Finished : stage' = [stage EXCEPT ![r][s] = next]
      BY <1>4 DEF AbandonSource, ReleaseSlot, AfterRun, Started, Finished
    <2>3. \A t \in Sources :
            /\ stage[r][t] \in Started => stage'[r][t] \in Started
            /\ stage[r][t] \in Finished => stage'[r][t] \in Finished
            /\ stage'[r][t] # "inactive" => stage[r][t] # "inactive"
      BY <2>2 DEF Shape, Started, Finished
    <2>4. QED
      BY <2>1, <2>3, DeliveryStage
  <1>5. ASSUME NEW s \in Sources, EmitCandidate(r, s) \/ FinishSource(r, s)
        PROVE  Delivery(r)'
    BY <1>5, DeliveryEmit, DeliveryFinish
  <1>6. CASE AcceptCandidate(r) \/ RejectCandidate(r) \/ IgnoreCandidate(r) \/ CompleteSource(r)
    BY <1>6, DeliveryCandidate, DeliveryComplete
  <1>7. CASE AbandonStream(r) \/ FinishStream(r)
    <2>1. Same(r)
      BY <1>7 DEF AbandonStream, FinishStream, Same, writerVars, runVars
    <2>2. QED
      BY <2>1, DeliveryFrame
  <1>8. QED
    BY <1>1, <1>2, <1>3, <1>4, <1>5, <1>6, <1>7
       DEF RequestStep, DispatcherNext, SourceNext, WriterNext

-----------------------------------------------------------------------------
(* The writer remembers what it has written                                *)

\* Writing a candidate, or failing to.
LEMMA WrittenCandidate ==
    ASSUME Shape, NEW r \in Requests, Written(r), AcceptCandidate(r)
    PROVE  Written(r)'
  <1>1. Head(chan[r]) \in Message
    BY ReceiveType DEF AcceptCandidate
  <1>2. PICK src \in Sources : src = Head(chan[r]).source
    BY <1>1 DEF Message, CandidateMessage, DoneMessage
  <1> DEFINE e == [event |-> "candidate", source |-> src, id |-> Head(chan[r]).id]
  <1>3. /\ emitted' = [emitted EXCEPT ![r][src] = @ + 1]
        /\ errorEmitted' = errorEmitted
        /\ Write(r, e)
        /\ writer[r] = "streaming"
    BY <1>2 DEF AcceptCandidate, Receive, Looping
  <1>4. /\ emitted'[r][src] > 0
        /\ \A s \in Sources : s # src => emitted'[r][s] = emitted[r][s]
    BY <1>3 DEF Shape
  <1>5. PICK event : event = e
    OBVIOUS
  <1>6. event.event = "candidate" /\ event.source = src
    BY <1>5
  <1>7. CASE wire' = [wire EXCEPT ![r] = Append(@, e)]
    <2>1. wire[r] \in Seq(Event) /\ wire'[r] = Append(wire[r], event)
      BY <1>5, <1>7 DEF Shape
    <2>2. event \in Event
      <3>1. Head(chan[r]).id \in CandidateIds
        BY <1>1 DEF AcceptCandidate, Message, CandidateMessage, DoneMessage
      <3>2. QED
        BY <1>5, <3>1 DEF Event, CandidateEvent
    <2>3. /\ Len(wire[r]) \in Nat
          /\ DOMAIN wire[r] = 1..Len(wire[r])
          /\ DOMAIN wire'[r] = 1..(Len(wire[r]) + 1)
          /\ wire'[r][Len(wire[r]) + 1] = event
          /\ \A i \in DOMAIN wire[r] : wire'[r][i] = wire[r][i]
      BY <2>1, <2>2, AppendFacts
    <2>4. ASSUME NEW s \in Sources
          PROVE  /\ emitted'[r][s] > 0 <=>
                      \E i \in DOMAIN wire'[r] : wire'[r][i].event = "candidate" /\ wire'[r][i].source = s
                 /\ s \in errorEmitted'[r] =>
                      \E i \in DOMAIN wire'[r] : wire'[r][i] = [event |-> "source_error", source |-> s]
      <3>1. s \in errorEmitted'[r] =>
              \E i \in DOMAIN wire'[r] : wire'[r][i] = [event |-> "source_error", source |-> s]
        BY <1>3, <2>3 DEF Written
      <3>2. CASE s = src
        BY <1>4, <1>6, <2>3, <3>1, <3>2
      <3>3. CASE s # src
        <4>1. emitted[r][s] > 0 <=>
                \E i \in DOMAIN wire[r] : wire[r][i].event = "candidate" /\ wire[r][i].source = s
          BY <1>3 DEF Written
        <4>2. QED
          BY <1>4, <1>6, <2>3, <3>1, <3>3, <4>1
      <3>4. QED
        BY <3>2, <3>3
    <2>5. QED
      BY <2>4 DEF Written
  <1>8. CASE Return(r)
    BY <1>8 DEF Written, Return, Shape
  <1>9. QED
    BY <1>3, <1>7, <1>8 DEF Write

\* Writing an error, or failing to, or having nothing to write.
LEMMA WrittenError ==
    ASSUME Shape, NEW r \in Requests, Written(r), RejectCandidate(r) \/ CompleteSource(r)
    PROVE  Written(r)'
  <1>1. Head(chan[r]) \in Message
    BY ReceiveType DEF RejectCandidate, CompleteSource
  <1>2. PICK src \in Sources : src = Head(chan[r]).source
    BY <1>1 DEF Message, CandidateMessage, DoneMessage
  <1> DEFINE e == [event |-> "source_error", source |-> src]
  <1>3. /\ emitted' = emitted
        /\ writer[r] = "streaming"
        /\ \/ UNCHANGED <<errorEmitted, wire, writer>>
           \/ errorEmitted' = [errorEmitted EXCEPT ![r] = @ \cup {src}] /\ Write(r, e)
    BY <1>2 DEF RejectCandidate, CompleteSource, Receive, Looping
  <1>4. CASE UNCHANGED <<errorEmitted, wire, writer>>
    BY <1>3, <1>4 DEF Written
  <1>5. CASE errorEmitted' = [errorEmitted EXCEPT ![r] = @ \cup {src}]
             /\ wire' = [wire EXCEPT ![r] = Append(@, e)]
    <2>1. wire[r] \in Seq(Event) /\ wire'[r] = Append(wire[r], e) /\ e \in Event
      BY <1>5 DEF Shape, Event, ErrorEvent
    <2>2. /\ Len(wire[r]) \in Nat
          /\ DOMAIN wire[r] = 1..Len(wire[r])
          /\ DOMAIN wire'[r] = 1..(Len(wire[r]) + 1)
          /\ wire'[r][Len(wire[r]) + 1] = e
          /\ \A i \in DOMAIN wire[r] : wire'[r][i] = wire[r][i]
      BY <2>1, AppendFacts
    <2>3. errorEmitted'[r] = errorEmitted[r] \cup {src}
      BY <1>5 DEF Shape
    <2>4. ASSUME NEW s \in Sources
          PROVE  /\ emitted'[r][s] > 0 <=>
                      \E i \in DOMAIN wire'[r] : wire'[r][i].event = "candidate" /\ wire'[r][i].source = s
                 /\ s \in errorEmitted'[r] =>
                      \E i \in DOMAIN wire'[r] : wire'[r][i] = [event |-> "source_error", source |-> s]
      <3>1. emitted[r][s] > 0 <=>
              \E i \in DOMAIN wire[r] : wire[r][i].event = "candidate" /\ wire[r][i].source = s
        BY <1>3 DEF Written
      <3>2. s \in errorEmitted[r] =>
              \E i \in DOMAIN wire[r] : wire[r][i] = [event |-> "source_error", source |-> s]
        BY <1>3 DEF Written
      <3>3. emitted'[r][s] > 0 <=>
              \E i \in DOMAIN wire'[r] : wire'[r][i].event = "candidate" /\ wire'[r][i].source = s
        BY <1>3, <2>2, <3>1
      <3>4. s \in errorEmitted'[r] =>
              \E i \in DOMAIN wire'[r] : wire'[r][i] = [event |-> "source_error", source |-> s]
        BY <2>2, <2>3, <3>2
      <3>5. QED
        BY <3>3, <3>4
    <2>5. QED
      BY <2>4 DEF Written
  <1>6. CASE Return(r)
    BY <1>6 DEF Written, Return, Shape
  <1>7. QED
    BY <1>3, <1>4, <1>5, <1>6 DEF Write

\* Every step of a request leaves its writer's memory true.
LEMMA WrittenStep ==
    ASSUME Shape, NEW r \in Requests, Written(r), RequestStep(r) \/ WriterNext(r)
    PROVE  Written(r)'
  <1>1. CASE AcceptCandidate(r) \/ RejectCandidate(r) \/ CompleteSource(r)
    BY <1>1, WrittenCandidate, WrittenError
  <1>2. CASE AbandonStream(r) \/ FinishStream(r)
    <2>1. writer'[r] = "returned"
      BY <1>2 DEF AbandonStream, FinishStream, Return, Shape
    <2>2. QED
      BY <2>1 DEF Written
  <1>3. CASE RequestStep(r) \/ IgnoreCandidate(r)
    <2>1. /\ UNCHANGED <<wire, emitted, errorEmitted>>
          /\ writer'[r] = "returned" \/ writer[r] # "returned" \/ UNCHANGED writer
      BY <1>3 DEF RequestStep, DispatcherNext, SourceNext, Start, AcquireSlot,
           LaunchBrowserSource, StopDispatcher, EmitCandidate, FinishSource, AbandonSource,
           ReleaseSlot, Disconnect, NoticeDisconnect, IgnoreCandidate, writerVars
    <2>2. QED
      BY <2>1 DEF Written
  <1>4. QED
    BY <1>1, <1>2, <1>3 DEF WriterNext

-----------------------------------------------------------------------------
(* The invariant of all requests                                           *)

\* A step of one request leaves the others alone.
LEMMA OtherRequests ==
    ASSUME Shape, NEW r \in Requests, RequestStep(r) \/ WriterNext(r),
           NEW q \in Requests, q # r
    PROVE  Same(q) /\ wire'[q] = wire[q] /\ writer'[q] = writer[q]
  <1>1. CASE RequestStep(r)
    <2>1. CASE Start(r)
      BY <2>1 DEF Start, Same, writerVars, Shape
    <2>2. CASE DispatcherNext(r) \/ Disconnect(r) \/ NoticeDisconnect(r)
      BY <2>2 DEF DispatcherNext, AcquireSlot, LaunchBrowserSource, StopDispatcher, Disconnect,
         NoticeDisconnect, Same, writerVars, runVars, Shape
    <2>3. ASSUME NEW s \in Sources, SourceNext(r, s)
          PROVE  Same(q) /\ wire'[q] = wire[q] /\ writer'[q] = writer[q]
      BY <2>3 DEF SourceNext, EmitCandidate, FinishSource, AbandonSource, ReleaseSlot, Send, Same,
         writerVars, Shape
    <2>4. QED
      BY <1>1, <2>1, <2>2, <2>3 DEF RequestStep
  <1>2. CASE WriterNext(r)
    <2>1. CASE AcceptCandidate(r)
      BY <2>1 DEF AcceptCandidate, Receive, Write, Return, Same, runVars, Shape
    <2>2. CASE RejectCandidate(r)
      BY <2>2 DEF RejectCandidate, Receive, Write, Return, Same, runVars, Shape
    <2>3. CASE CompleteSource(r)
      BY <2>3 DEF CompleteSource, Receive, Write, Return, Same, runVars, Shape
    <2>4. CASE IgnoreCandidate(r) \/ AbandonStream(r) \/ FinishStream(r)
      BY <2>4 DEF IgnoreCandidate, AbandonStream, FinishStream, Receive, Return, Same, runVars,
         writerVars, Shape
    <2>5. QED
      BY <1>2, <2>1, <2>2, <2>3, <2>4 DEF WriterNext
  <1>3. QED
    BY <1>1, <1>2

\* A step that writes nothing and forgets nothing.
LEMMA WrittenFrame ==
    ASSUME NEW r \in Requests, Written(r), Same(r), wire'[r] = wire[r], writer'[r] = writer[r]
    PROVE  Written(r)'
  BY DEF Written, Same

\* No step of any request, nor the end of the process, spoils a delivery.
LEMMA NextRInv == IInv /\ RInv /\ [Next]_vars => RInv'
  <1> SUFFICES ASSUME IInv, RInv, [Next]_vars, NEW q \in Requests
               PROVE  Delivery(q)' /\ Written(q)'
    BY DEF RInv
  <1>1. Shape /\ FreshRequests /\ Delivery(q) /\ Written(q)
    BY DEF IInv, RInv
  <1>2. ASSUME NEW r \in Requests, RequestStep(r) \/ WriterNext(r)
        PROVE  Delivery(q)' /\ Written(q)'
    <2>1. CASE q = r
      BY <1>1, <1>2, <2>1, DeliveryStep, WrittenStep
    <2>2. CASE q # r
      <3>1. Same(q) /\ wire'[q] = wire[q] /\ writer'[q] = writer[q]
        BY <1>1, <1>2, <2>2, OtherRequests
      <3>2. QED
        BY <1>1, <3>1, DeliveryFrame, WrittenFrame
    <2>3. QED
      BY <2>1, <2>2
  <1>3. CASE Shutdown \/ UNCHANGED vars
    <2>1. Same(q) /\ wire'[q] = wire[q] /\ writer'[q] = writer[q]
      BY <1>3 DEF Shutdown, vars, Same, runVars, writerVars
    <2>2. QED
      BY <1>1, <2>1, DeliveryFrame, WrittenFrame
  <1>4. QED
    BY <1>2, <1>3 DEF Next, RequestStep

\* What has been sent is delivered or on its way, and what is remembered has been
\* written, in every state.
LEMMA DeliveryInvariant == Spec => []RInv
  <1>1. Init => RInv
    <2> SUFFICES ASSUME Init, NEW r \in Requests PROVE Delivery(r) /\ Written(r)
      BY DEF RInv
    <2>1. DOMAIN chan[r] = {} /\ DOMAIN wire[r] = {}
      BY DEF Init
    <2>2. Ordered(r) /\ Accounted(r)
      BY <2>1 DEF Init, Ordered, Accounted
    <2>3. Settled(r)
      BY FS_EmptySet DEF Init, Settled
    <2>4. Written(r)
      BY <2>1 DEF Init, Written
    <2>5. QED
      BY <2>2, <2>3, <2>4 DEF Delivery
  <1>2. QED
    BY <1>1, Inductive, NextRInv, PTL DEF Spec

-----------------------------------------------------------------------------
(* Every step is a step of the contract, or none                           *)

Good(r) == Shape /\ Remembered /\ Delivery(r) /\ Written(r)

\* The message the writer takes is of a source the request queries; if the source
\* has reported its error, the writer knows.
LEMMA MessageSource ==
    ASSUME NEW r \in Requests, Good(r), Receive(r)
    PROVE  /\ Head(chan[r]) \in Message
           /\ Head(chan[r]).source \in active[r]
           /\ Head(chan[r]).source \notin errorEmitted[r] =>
                Head(chan[r]).source \in active[r] \ Contract!Reported(r)
  <1>1. 1 \in DOMAIN chan[r] /\ Head(chan[r]) = chan[r][1]
    BY OrderedTail DEF Good, Delivery
  <1>2. chan[r][1] \in Message /\ chan[r][1].source \in Sources
    BY <1>1, MessageFacts DEF Good
  <1>3. PICK src \in Sources : src = chan[r][1].source
    BY <1>2
  <1>4. src \in active[r]
    BY <1>1, <1>3 DEF Good, Delivery, Ordered, Accounted, Started
  <1>5. src \in Contract!Reported(r) => src \in errorEmitted[r]
    BY DEF Good, Remembered, Contract!Reported, Contract!Events
  <1>6. QED
    BY <1>1, <1>2, <1>3, <1>4, <1>5

\* A candidate that is accepted is one the contract lets through.
LEMMA AcceptMaps ==
    ASSUME NEW r \in Requests, Good(r), AcceptCandidate(r)
    PROVE  Contract!SendCandidate(r) \/ Contract!BreakOff(r)
  <1> DEFINE m == Head(chan[r])
  <1>1. /\ Receive(r) /\ m.type = "candidate" /\ m.source \notin errorEmitted[r]
        /\ m.id \notin candidateIDs[r]
        /\ Write(r, [event |-> "candidate", source |-> m.source, id |-> m.id])
        /\ writer[r] = "streaming" /\ active' = active
    BY DEF AcceptCandidate, Acceptable, Receive, Looping
  <1>2. /\ m \in Message
        /\ m.source \in active[r] \ Contract!Reported(r)
    BY <1>1, MessageSource
  <1>3. m.id \in CandidateIds
    BY <1>1, <1>2 DEF Message, CandidateMessage, DoneMessage
  <1>4. \A e \in Contract!Events(r) : e.event = "candidate" => e.id # m.id
    BY <1>1 DEF Good, Remembered, Contract!Events
  <1>5. CASE wire' = [wire EXCEPT ![r] = Append(@, [event |-> "candidate", source |-> m.source, id |-> m.id])]
             /\ UNCHANGED writer
    BY <1>1, <1>2, <1>3, <1>4, <1>5 DEF Contract!SendCandidate
  <1>6. CASE Return(r) /\ UNCHANGED wire
    BY <1>1, <1>6 DEF Return, Contract!BreakOff
  <1>7. QED
    BY <1>1, <1>5, <1>6 DEF Write

\* So is a source_error, whether of a bad candidate or of a source that failed.
LEMMA ErrorMaps ==
    ASSUME NEW r \in Requests, Good(r), RejectCandidate(r) \/ CompleteSource(r)
    PROVE  \/ Contract!SendError(r)
           \/ Contract!BreakOff(r)
           \/ UNCHANGED <<writer, active, wire>>
  <1> DEFINE m == Head(chan[r])
  <1>1. /\ Receive(r) /\ writer[r] = "streaming" /\ active' = active
        /\ \/ UNCHANGED <<wire, writer>>
           \/ /\ m.source \notin errorEmitted[r]
              /\ Write(r, [event |-> "source_error", source |-> m.source])
    BY DEF RejectCandidate, CompleteSource, Receive, Looping
  <1>2. m.source \notin errorEmitted[r] => m.source \in active[r] \ Contract!Reported(r)
    BY <1>1, MessageSource
  <1>3. CASE /\ m.source \notin errorEmitted[r]
             /\ wire' = [wire EXCEPT ![r] = Append(@, [event |-> "source_error", source |-> m.source])]
             /\ UNCHANGED writer
    BY <1>1, <1>2, <1>3 DEF Contract!SendError
  <1>4. CASE Return(r) /\ UNCHANGED wire
    BY <1>1, <1>4 DEF Return, Contract!BreakOff
  <1>5. QED
    BY <1>1, <1>3, <1>4 DEF Write

\* A stream is finished only when every source has delivered or reported, and
\* done counts what is in the response.
LEMMA FinishMaps ==
    ASSUME NEW r \in Requests, Good(r), FinishStream(r)
    PROVE  Contract!SendDone(r) \/ Contract!BreakOff(r)
  <1>1. /\ writer[r] = "streaming" /\ active' = active
        /\ writer' = [writer EXCEPT ![r] = "returned"]
        /\ ~(completed[r] < Cardinality(active[r]))
    BY DEF FinishStream, Looping, Return
  <1>2. IsFiniteSet(active[r]) /\ Cardinality(active[r]) \in Nat /\ active[r] \subseteq Sources
    <2>1. active[r] \in SUBSET Sources
      BY DEF Good, Shape
    <2>2. IsFiniteSet(active[r])
      BY <2>1, FS_Subset, SourcesAssumption
    <2>3. QED
      BY <2>1, <2>2, FS_CardinalityType
  <1>3. \A s \in active[r] : Told(r, s)
    <2>1. PICK over \in SUBSET active[r] :
            /\ Cardinality(over) = completed[r]
            /\ \A s \in over : Over(r, s)
      BY DEF Good, Delivery, Settled
    <2>2. Cardinality(over) <= Cardinality(active[r]) /\ Cardinality(over) \in Nat
      BY <1>2, <2>1, FS_Subset, FS_CardinalityType
    <2>3. Cardinality(over) = Cardinality(active[r])
      BY <1>1, <1>2, <2>1, <2>2
    <2>4. over = active[r]
      BY <1>2, <2>1, <2>3, FS_Subset
    <2>5. QED
      BY <2>1, <2>4 DEF Over
  <1>4. Contract!Delivered(r) = Succeeded(r)
    <2>1. ASSUME NEW s \in active[r]
          PROVE  emitted[r][s] > 0 <=>
                   \E i \in DOMAIN wire[r] : wire[r][i].event = "candidate" /\ wire[r][i].source = s
      <3>1. s \in Sources /\ writer[r] # "returned"
        BY <1>1, <1>2
      <3>2. QED
        BY <3>1 DEF Good, Written
    <2>2. ASSUME NEW s \in active[r]
          PROVE  (\E i \in DOMAIN wire[r] : wire[r][i].event = "candidate" /\ wire[r][i].source = s)
                 <=> \E e \in Contract!Events(r) : e.event = "candidate" /\ e.source = s
      BY Zenon DEF Contract!Events
    <2>3. QED
      BY <2>1, <2>2, Zenon DEF Contract!Delivered, Succeeded
  <1>5. \A s \in active[r] : s \in errorEmitted[r] => s \in Contract!Reported(r)
    <2> SUFFICES ASSUME NEW s \in active[r], s \in errorEmitted[r]
                 PROVE  [event |-> "source_error", source |-> s] \in Contract!Events(r)
      BY DEF Contract!Reported
    <2>1. s \in Sources /\ writer[r] # "returned"
      BY <1>1, <1>2
    <2>2. \E i \in DOMAIN wire[r] : wire[r][i] = [event |-> "source_error", source |-> s]
      BY <2>1 DEF Good, Written
    <2>3. QED
      BY <2>2 DEF Contract!Events
  <1>6. active[r] = Contract!Delivered(r) \cup Contract!Reported(r)
    <2>1. Contract!Delivered(r) \subseteq active[r] /\ Contract!Reported(r) \subseteq active[r]
      BY DEF Contract!Delivered, Contract!Reported
    <2>2. \A s \in active[r] : s \in Contract!Delivered(r) \cup Contract!Reported(r)
      BY <1>3, <1>4, <1>5 DEF Told, Succeeded
    <2>3. QED
      BY <2>1, <2>2
  <1>7. Cardinality(active[r] \ Contract!Delivered(r)) =
          Cardinality(active[r]) - Cardinality(Succeeded(r))
    <2>1. Succeeded(r) \in SUBSET active[r]
      BY DEF Succeeded
    <2>2. IsFiniteSet(Succeeded(r)) /\ active[r] \cap Succeeded(r) = Succeeded(r)
      BY <1>2, <2>1, FS_Subset
    <2>3. Cardinality(active[r] \ Succeeded(r)) =
            Cardinality(active[r]) - Cardinality(active[r] \cap Succeeded(r))
      BY <1>2, FS_Difference
    <2>4. QED
      BY <1>4, <2>2, <2>3, Zenon
  <1> DEFINE e == [event |-> "done", queried |-> Cardinality(active[r]),
                   succeeded |-> Cardinality(Succeeded(r)),
                   failed |-> Cardinality(active[r]) - Cardinality(Succeeded(r))]
  <1>8. CASE wire' = [wire EXCEPT ![r] = Append(@, e)]
    <2>1. e = [event |-> "done", queried |-> Cardinality(active[r]),
               succeeded |-> Cardinality(Contract!Delivered(r)),
               failed |-> Cardinality(active[r] \ Contract!Delivered(r))]
      BY <1>4, <1>7, Zenon
    <2>2. wire' = [wire EXCEPT ![r] = Append(@,
                     [event |-> "done", queried |-> Cardinality(active[r]),
                      succeeded |-> Cardinality(Contract!Delivered(r)),
                      failed |-> Cardinality(active[r] \ Contract!Delivered(r))])]
      BY <1>8, <2>1, Zenon
    <2>3. \A S : Contract!Cardinality(S) = Cardinality(S)
      BY Zenon DEF Cardinality, Contract!Cardinality
    <2>4. QED
      BY <1>1, <1>6, <2>2, <2>3, Zenon DEF Contract!SendDone
  <1>9. CASE UNCHANGED wire
    BY <1>1, <1>9 DEF Contract!BreakOff
  <1>10. QED
    BY <1>8, <1>9 DEF FinishStream

\* Every step of the requests, their clients and the process is one the contract
\* allows, or changes nothing the client can see.
LEMMA StepMaps ==
    IInv /\ WireInv /\ RInv /\ [Next]_vars => [Contract!Next]_Contract!vars
  <1> SUFFICES ASSUME IInv, WireInv, RInv, [Next]_vars
               PROVE  Contract!Next \/ UNCHANGED <<writer, active, wire>>
    BY DEF Contract!vars
  <1>1. \A r \in Requests : Good(r)
    BY DEF IInv, WireInv, RInv, Good
  <1>2. ASSUME NEW r \in Requests, Start(r) PROVE Contract!Next
    <2>1. PICK chosen \in SUBSET Sources : active' = [active EXCEPT ![r] = chosen]
      BY <1>2 DEF Start
    <2>2. Contract!Open(r)
      BY <1>2, <2>1 DEF Start, Contract!Open
    <2>3. QED
      BY <2>2 DEF Contract!Next
  <1>3. ASSUME NEW r \in Requests, WriterNext(r)
        PROVE  Contract!Next \/ UNCHANGED <<writer, active, wire>>
    <2>1. CASE AcceptCandidate(r)
      BY <1>1, <2>1, AcceptMaps DEF Contract!Next
    <2>2. CASE RejectCandidate(r) \/ CompleteSource(r)
      BY <1>1, <2>2, ErrorMaps DEF Contract!Next
    <2>3. CASE IgnoreCandidate(r)
      BY <2>3 DEF IgnoreCandidate, Receive
    <2>4. CASE AbandonStream(r)
      <3>1. Contract!BreakOff(r)
        BY <2>4 DEF AbandonStream, Looping, Return, Contract!BreakOff
      <3>2. QED
        BY <3>1 DEF Contract!Next
    <2>5. CASE FinishStream(r)
      BY <1>1, <2>5, FinishMaps DEF Contract!Next
    <2>6. QED
      BY <1>3, <2>1, <2>2, <2>3, <2>4, <2>5 DEF WriterNext
  <1>4. ASSUME NEW r \in Requests, RequestStep(r), ~Start(r)
        PROVE  UNCHANGED <<writer, active, wire>>
    BY <1>4 DEF RequestStep, DispatcherNext, SourceNext, AcquireSlot, LaunchBrowserSource,
       StopDispatcher, EmitCandidate, FinishSource, AbandonSource, ReleaseSlot, Disconnect,
       NoticeDisconnect
  <1>5. CASE Shutdown \/ UNCHANGED vars
    BY <1>5 DEF Shutdown, vars
  <1>6. QED
    BY <1>2, <1>3, <1>4, <1>5 DEF Next, RequestStep

-----------------------------------------------------------------------------
(* The theorem                                                             *)

\* However the goroutines of the requests interleave, whatever fails, whoever
\* disconnects and whenever the process is told to stop: every response keeps the
\* promises of CandidateContract.  It is cut off, or it ends with done when each
\* source has delivered or reported, and done counts what the client has seen.
THEOREM ImplementsTheContract == Spec => ImplementsContract
  <1>1. Init => Contract!Init
    BY DEF Init, Contract!Init
  <1>2. QED
    BY <1>1, Inductive, WireInvariant, DeliveryInvariant, StepMaps, PTL
    DEF Spec, ImplementsContract, Contract!Spec
=============================================================================
