--------------------------- MODULE CandidateStream ---------------------------
(***************************************************************************)
(* POST /v1/candidates of the plugin process: for each request one writer  *)
(* goroutine (streamCandidates), one dispatcher goroutine for the sources  *)
(* that need a browser (startSources), and one goroutine per source        *)
(* (runSource), joined by a bounded message channel.  The browser slots    *)
(* are shared by every request of the process.                             *)
(*                                                                         *)
(* A Runner is seen through its interface: it emits candidates and then    *)
(* returns, with an error or without one.                                  *)
(***************************************************************************)
EXTENDS Naturals, Sequences, FiniteSets

CONSTANTS
    Requests,        \* HTTP requests that may reach the handler
    Sources,         \* enabled sources, handler.runners, ordered as their IDs are
    BrowserSources,  \* those with the capability browser_sniff
    Kind,            \* Source.Kind of each source: "web" or "bt"
    Tier,            \* Source.Tier of each source
    Preferences,     \* the preferences.transports lists requests may carry
    CandidateIds,    \* Candidate.ID values
    Slots,           \* capacity of handler.browserSlots
    MaxEmits         \* bound: candidates one source run may emit

ASSUME SourcesAssumption ==
    /\ Sources \subseteq Nat
    /\ IsFiniteSet(Sources)
    /\ BrowserSources \subseteq Sources
    /\ Kind \in [Sources -> {"web", "bt"}]
    /\ Tier \in [Sources -> Nat]

ASSUME RequestsAssumption ==
    /\ IsFiniteSet(Requests)
    /\ Preferences \subseteq SUBSET {"hls", "http", "torrent"}

ASSUME SlotsAssumption == Slots \in Nat /\ MaxEmits \in Nat

VARIABLES
    serving,       \* FALSE once SIGINT or SIGTERM cancelled the server's base context
    connected,     \* the client of the request still reads the response
    cancelled,     \* the request's context is done
    writer,        \* the goroutine of streamCandidates: idle, streaming, returned
    active,        \* the sources the request queries
    chan,          \* the channel messages
    candidateIDs,  \* the map candidateIDs of the writer
    emitted,       \* sourceState.emitted
    errorEmitted,  \* the sources with sourceState.errorEmitted
    completed,     \* the counter completed of the writer
    wire,          \* the events of the response body, oldest first
    dispatcher,    \* the goroutine of startSources: idle, waiting, acquired, stopped
    stage,         \* each source's goroutine in the request
    sent,          \* candidates the source's emit callback accepted
    browserSlots   \* tokens in handler.browserSlots

writerVars == <<candidateIDs, emitted, errorEmitted, completed>>
runVars == <<stage, sent>>
vars == <<serving, connected, cancelled, writer, active, chan, writerVars, wire,
          dispatcher, runVars, browserSlots>>

-----------------------------------------------------------------------------
(* Messages and events                                                     *)

\* A candidate is well formed when its sourceId is its runner's and it passes
\* the candidate schema.
CandidateMessage == [type: {"candidate"}, source: Sources, id: CandidateIds, wellFormed: BOOLEAN]
DoneMessage == [type: {"done"}, source: Sources, failed: BOOLEAN]
Message == CandidateMessage \cup DoneMessage

CandidateEvent == [event: {"candidate"}, source: Sources, id: CandidateIds]
ErrorEvent == [event: {"source_error"}, source: Sources]
DoneEvent == [event: {"done"}, queried: Nat, succeeded: Nat, failed: Nat]
Event == CandidateEvent \cup ErrorEvent \cup DoneEvent

Stages == {"inactive", "queued", "running", "returned", "exited"}

TypeOK ==
    /\ serving \in BOOLEAN
    /\ connected \in [Requests -> BOOLEAN]
    /\ cancelled \in [Requests -> BOOLEAN]
    /\ writer \in [Requests -> {"idle", "streaming", "returned"}]
    /\ active \in [Requests -> SUBSET Sources]
    /\ chan \in [Requests -> Seq(Message)]
    /\ candidateIDs \in [Requests -> SUBSET CandidateIds]
    /\ emitted \in [Requests -> [Sources -> Nat]]
    /\ errorEmitted \in [Requests -> SUBSET Sources]
    /\ completed \in [Requests -> Nat]
    /\ wire \in [Requests -> Seq(Event)]
    /\ dispatcher \in [Requests -> {"idle", "waiting", "acquired", "stopped"}]
    /\ stage \in [Requests -> [Sources -> Stages]]
    /\ sent \in [Requests -> [Sources -> 0..MaxEmits]]
    /\ browserSlots \in 0..Slots

-----------------------------------------------------------------------------
(* Scheduling order and admission                                          *)

\* servesTransport: an empty list of transports lets every source through.
Serves(s, transports) ==
    \/ transports = {}
    \/ Kind[s] = "bt" /\ "torrent" \in transports
    \/ Kind[s] = "web" /\ transports \cap {"hls", "http"} # {}

\* The order of the browser queue: tier first, then source ID.
Before(s, t) == Tier[s] < Tier[t] \/ (Tier[s] = Tier[t] /\ s < t)

Queued(r) == {s \in BrowserSources : stage[r][s] = "queued"}

NextQueued(r) == {s \in Queued(r) : \A t \in Queued(r) \ {s} : Before(s, t)}

\* make(chan candidateMessage, len(active)*2+1)
Capacity(r) == 2 * Cardinality(active[r]) + 1

Send(r, m) ==
    /\ Len(chan[r]) < Capacity(r)
    /\ chan' = [chan EXCEPT ![r] = Append(@, m)]

Init ==
    /\ serving = TRUE
    /\ connected = [r \in Requests |-> TRUE]
    /\ cancelled = [r \in Requests |-> FALSE]
    /\ writer = [r \in Requests |-> "idle"]
    /\ active = [r \in Requests |-> {}]
    /\ chan = [r \in Requests |-> <<>>]
    /\ candidateIDs = [r \in Requests |-> {}]
    /\ emitted = [r \in Requests |-> [s \in Sources |-> 0]]
    /\ errorEmitted = [r \in Requests |-> {}]
    /\ completed = [r \in Requests |-> 0]
    /\ wire = [r \in Requests |-> <<>>]
    /\ dispatcher = [r \in Requests |-> "idle"]
    /\ stage = [r \in Requests |-> [s \in Sources |-> "inactive"]]
    /\ sent = [r \in Requests |-> [s \in Sources |-> 0]]
    /\ browserSlots = 0

\* streamCandidates up to its loop, with startSources: the plain sources run
\* at once, those that need a browser wait for the dispatcher.
Start(r) ==
    /\ writer[r] = "idle"
    /\ writer' = [writer EXCEPT ![r] = "streaming"]
    /\ dispatcher' = [dispatcher EXCEPT ![r] = "waiting"]
    /\ cancelled' = [cancelled EXCEPT ![r] = ~serving]
    /\ \E transports \in Preferences :
         LET chosen == {s \in Sources : Serves(s, transports)} IN
         /\ active' = [active EXCEPT ![r] = chosen]
         /\ stage' = [stage EXCEPT ![r] =
                        [s \in Sources |->
                            IF s \notin chosen THEN "inactive"
                            ELSE IF s \in BrowserSources THEN "queued" ELSE "running"]]
    /\ UNCHANGED <<serving, connected, chan, writerVars, wire, sent, browserSlots>>

-----------------------------------------------------------------------------
(* The dispatcher goroutine of startSources                                *)

\* case handler.browserSlots <- struct{}{}
AcquireSlot(r) ==
    /\ dispatcher[r] = "waiting"
    /\ Queued(r) # {}
    /\ browserSlots < Slots
    /\ browserSlots' = browserSlots + 1
    /\ dispatcher' = [dispatcher EXCEPT ![r] = "acquired"]
    /\ UNCHANGED <<serving, connected, cancelled, writer, active, chan, writerVars, wire, runVars>>

\* Mutant of LaunchBrowserSource: a cancelled dispatcher keeps its slot.
LaunchBrowserSource_KeepsSlot(r) ==
    /\ dispatcher[r] = "acquired"
    /\ IF cancelled[r]
       THEN /\ dispatcher' = [dispatcher EXCEPT ![r] = "stopped"]
            /\ UNCHANGED stage
       ELSE /\ \E s \in NextQueued(r) : stage' = [stage EXCEPT ![r][s] = "running"]
            /\ dispatcher' = [dispatcher EXCEPT ![r] = "waiting"]
    /\ UNCHANGED <<serving, connected, cancelled, writer, active, chan, writerVars, wire, sent,
                   browserSlots>>

\* The context is looked at again once the slot is held: the source starts, or
\* the slot goes back.
LaunchBrowserSource(r) ==
    /\ dispatcher[r] = "acquired"
    /\ \/ /\ ~cancelled[r]
          /\ \E s \in NextQueued(r) : stage' = [stage EXCEPT ![r][s] = "running"]
          /\ dispatcher' = [dispatcher EXCEPT ![r] = "waiting"]
          /\ UNCHANGED browserSlots
       \/ /\ cancelled[r]
          /\ browserSlots' = browserSlots - 1
          /\ dispatcher' = [dispatcher EXCEPT ![r] = "stopped"]
          /\ UNCHANGED stage
    /\ UNCHANGED <<serving, connected, cancelled, writer, active, chan, writerVars, wire, sent>>

\* case <-ctx.Done(), or the end of the queue.
StopDispatcher(r) ==
    /\ dispatcher[r] = "waiting"
    /\ cancelled[r] \/ Queued(r) = {}
    /\ dispatcher' = [dispatcher EXCEPT ![r] = "stopped"]
    /\ UNCHANGED <<serving, connected, cancelled, writer, active, chan, writerVars, wire,
                   runVars, browserSlots>>

-----------------------------------------------------------------------------
(* A source's goroutine: runSource                                         *)

\* The emit callback's send.  A source blocked on a full channel stays running.
EmitCandidate(r, s) ==
    /\ stage[r][s] = "running"
    /\ sent[r][s] < MaxEmits
    /\ sent' = [sent EXCEPT ![r][s] = @ + 1]
    /\ \E id \in CandidateIds, wellFormed \in BOOLEAN :
         Send(r, [type |-> "candidate", source |-> s, id |-> id, wellFormed |-> wellFormed])
    /\ UNCHANGED <<serving, connected, cancelled, writer, active, writerVars, wire,
                   dispatcher, stage, browserSlots>>

\* A browser source still holds its slot when runSource returns.
AfterRun(s) == IF s \in BrowserSources THEN "returned" ELSE "exited"

\* Mutant of FinishSource: a panic is recovered without a message.
FinishSource_PanicLost(r, s) ==
    /\ stage[r][s] = "running"
    /\ \/ sent[r][s] > 0 /\ Send(r, [type |-> "done", source |-> s, failed |-> FALSE])
       \/ UNCHANGED chan
    /\ stage' = [stage EXCEPT ![r][s] = AfterRun(s)]
    /\ UNCHANGED <<serving, connected, cancelled, writer, active, writerVars, wire,
                   dispatcher, sent, browserSlots>>

\* Candidates returns, or panics and is recovered: one done message either way.
\* Without an error it has emitted at least one candidate (btCandidates and
\* webCandidates return an error otherwise).
FinishSource(r, s) ==
    /\ stage[r][s] = "running"
    /\ \E failed \in BOOLEAN :
         /\ ~failed => sent[r][s] > 0
         /\ Send(r, [type |-> "done", source |-> s, failed |-> failed])
    /\ stage' = [stage EXCEPT ![r][s] = AfterRun(s)]
    /\ UNCHANGED <<serving, connected, cancelled, writer, active, writerVars, wire,
                   dispatcher, sent, browserSlots>>

\* Mutant of AbandonSource: a plain send, which waits for room in the channel.
AbandonSource_PlainSend(r, s) ==
    /\ stage[r][s] = "running"
    /\ cancelled[r]
    /\ Len(chan[r]) < Capacity(r)
    /\ stage' = [stage EXCEPT ![r][s] = AfterRun(s)]
    /\ UNCHANGED <<serving, connected, cancelled, writer, active, chan, writerVars, wire,
                   dispatcher, sent, browserSlots>>

\* case <-ctx.Done() in the emit callback or at the end: nobody is told.
AbandonSource(r, s) ==
    /\ stage[r][s] = "running"
    /\ cancelled[r]
    /\ stage' = [stage EXCEPT ![r][s] = AfterRun(s)]
    /\ UNCHANGED <<serving, connected, cancelled, writer, active, chan, writerVars, wire,
                   dispatcher, sent, browserSlots>>

\* defer func() { <-handler.browserSlots }()
ReleaseSlot(r, s) ==
    /\ stage[r][s] = "returned"
    /\ stage' = [stage EXCEPT ![r][s] = "exited"]
    /\ browserSlots' = browserSlots - 1
    /\ UNCHANGED <<serving, connected, cancelled, writer, active, chan, writerVars, wire,
                   dispatcher, sent>>

-----------------------------------------------------------------------------
(* The writer goroutine: the loop of streamCandidates                      *)

\* Returning runs the deferred cancel.
Return(r) ==
    /\ writer' = [writer EXCEPT ![r] = "returned"]
    /\ cancelled' = [cancelled EXCEPT ![r] = TRUE]

\* eventWriter.write: the event goes out, or, when the client is gone, the write
\* may fail and the stream is given up.
Write(r, e) ==
    \/ /\ wire' = [wire EXCEPT ![r] = Append(@, e)]
       /\ UNCHANGED <<writer, cancelled>>
    \/ /\ ~connected[r]
       /\ Return(r)
       /\ UNCHANGED wire

Looping(r) == writer[r] = "streaming" /\ completed[r] < Cardinality(active[r])

Receive(r) ==
    /\ Looping(r)
    /\ chan[r] # <<>>
    /\ chan' = [chan EXCEPT ![r] = Tail(@)]
    /\ UNCHANGED <<serving, connected, active, dispatcher, runVars, browserSlots>>

\* Mutant of Acceptable: candidateIDs is not looked at.
Acceptable_AnyId(r, m) == m.wellFormed

Acceptable(r, m) == m.wellFormed /\ m.id \notin candidateIDs[r]

AcceptCandidate(r) ==
    /\ Receive(r)
    /\ LET m == Head(chan[r]) IN
       /\ m.type = "candidate"
       /\ m.source \notin errorEmitted[r]
       /\ Acceptable(r, m)
       /\ candidateIDs' = [candidateIDs EXCEPT ![r] = @ \cup {m.id}]
       /\ emitted' = [emitted EXCEPT ![r][m.source] = @ + 1]
       /\ Write(r, [event |-> "candidate", source |-> m.source, id |-> m.id])
    /\ UNCHANGED <<errorEmitted, completed>>

\* Mutant of RejectCandidate: errorEmitted is not set.
RejectCandidate_KeepsListening(r) ==
    /\ Receive(r)
    /\ LET m == Head(chan[r]) IN
       /\ m.type = "candidate"
       /\ m.source \notin errorEmitted[r]
       /\ ~Acceptable(r, m)
       /\ Write(r, [event |-> "source_error", source |-> m.source])
    /\ UNCHANGED writerVars

\* Wrong sourceId, schema violation or an ID already on the wire.
RejectCandidate(r) ==
    /\ Receive(r)
    /\ LET m == Head(chan[r]) IN
       /\ m.type = "candidate"
       /\ m.source \notin errorEmitted[r]
       /\ ~Acceptable(r, m)
       /\ errorEmitted' = [errorEmitted EXCEPT ![r] = @ \cup {m.source}]
       /\ Write(r, [event |-> "source_error", source |-> m.source])
    /\ UNCHANGED <<candidateIDs, emitted, completed>>

\* A source that has reported an error is not heard again.
IgnoreCandidate(r) ==
    /\ Receive(r)
    /\ Head(chan[r]).type = "candidate"
    /\ Head(chan[r]).source \in errorEmitted[r]
    /\ UNCHANGED <<cancelled, writer, writerVars, wire>>

\* Mutant of CompleteSource: a late failure is reported whatever came before.
CompleteSource_ReportsTwice(r) ==
    /\ Receive(r)
    /\ LET m == Head(chan[r]) IN
       /\ m.type = "done"
       /\ completed' = [completed EXCEPT ![r] = @ + 1]
       /\ IF m.failed
          THEN Write(r, [event |-> "source_error", source |-> m.source])
          ELSE UNCHANGED <<wire, writer, cancelled>>
    /\ UNCHANGED <<candidateIDs, emitted, errorEmitted>>

CompleteSource(r) ==
    /\ Receive(r)
    /\ LET m == Head(chan[r]) IN
       /\ m.type = "done"
       /\ completed' = [completed EXCEPT ![r] = @ + 1]
       /\ IF m.failed /\ m.source \notin errorEmitted[r]
          THEN /\ errorEmitted' = [errorEmitted EXCEPT ![r] = @ \cup {m.source}]
               /\ Write(r, [event |-> "source_error", source |-> m.source])
          ELSE UNCHANGED <<errorEmitted, wire, writer, cancelled>>
    /\ UNCHANGED <<candidateIDs, emitted>>

\* case <-ctx.Done()
AbandonStream(r) ==
    /\ Looping(r)
    /\ cancelled[r]
    /\ Return(r)
    /\ UNCHANGED <<serving, connected, active, chan, writerVars, wire, dispatcher, runVars,
                   browserSlots>>

Succeeded(r) == {s \in active[r] : emitted[r][s] > 0}

\* Past the loop, where the context is not looked at any more; a failed write
\* of the last event is ignored.
FinishStream(r) ==
    /\ writer[r] = "streaming"
    /\ ~Looping(r)
    /\ LET succeeded == Cardinality(Succeeded(r)) IN
       \/ wire' = [wire EXCEPT ![r] = Append(@,
                     [event |-> "done", queried |-> Cardinality(active[r]),
                      succeeded |-> succeeded, failed |-> Cardinality(active[r]) - succeeded])]
       \/ ~connected[r] /\ UNCHANGED wire
    /\ Return(r)
    /\ UNCHANGED <<serving, connected, active, chan, writerVars, dispatcher, runVars, browserSlots>>

-----------------------------------------------------------------------------
(* The client and the process                                              *)

Disconnect(r) ==
    /\ writer[r] = "streaming"
    /\ connected[r]
    /\ connected' = [connected EXCEPT ![r] = FALSE]
    /\ UNCHANGED <<serving, cancelled, writer, active, chan, writerVars, wire, dispatcher,
                   runVars, browserSlots>>

\* net/http notices the closed connection and cancels the request's context.
NoticeDisconnect(r) ==
    /\ ~connected[r]
    /\ ~cancelled[r]
    /\ cancelled' = [cancelled EXCEPT ![r] = TRUE]
    /\ UNCHANGED <<serving, connected, writer, active, chan, writerVars, wire, dispatcher,
                   runVars, browserSlots>>

\* The server's base context is the parent of every request's.
Shutdown ==
    /\ serving
    /\ serving' = FALSE
    /\ cancelled' = [r \in Requests |-> cancelled[r] \/ writer[r] = "streaming"]
    /\ UNCHANGED <<connected, writer, active, chan, writerVars, wire, dispatcher, runVars,
                   browserSlots>>

-----------------------------------------------------------------------------

DispatcherNext(r) == AcquireSlot(r) \/ LaunchBrowserSource(r) \/ StopDispatcher(r)

SourceNext(r, s) ==
    EmitCandidate(r, s) \/ FinishSource(r, s) \/ AbandonSource(r, s) \/ ReleaseSlot(r, s)

WriterNext(r) ==
    \/ AcceptCandidate(r)
    \/ RejectCandidate(r)
    \/ IgnoreCandidate(r)
    \/ CompleteSource(r)
    \/ AbandonStream(r)
    \/ FinishStream(r)

Next ==
    \/ \E r \in Requests :
         \/ Start(r)
         \/ DispatcherNext(r)
         \/ \E s \in Sources : SourceNext(r, s)
         \/ WriterNext(r)
         \/ Disconnect(r)
         \/ NoticeDisconnect(r)
    \/ Shutdown

Spec == Init /\ [][Next]_vars

\* Every goroutine that can run does.  Candidates is bounded by the source's
\* timeout_ms, so it returns; a send waiting for browserSlots is served in its
\* turn, so a dispatcher does not lose the free slot to the others forever.
\* Nothing makes a client connect or leave.
Fairness ==
    /\ \A r \in Requests :
         /\ SF_vars(AcquireSlot(r))
         /\ WF_vars(LaunchBrowserSource(r))
         /\ WF_vars(StopDispatcher(r))
         /\ WF_vars(WriterNext(r))
         /\ WF_vars(NoticeDisconnect(r))
    /\ \A r \in Requests, s \in Sources :
         /\ WF_vars(FinishSource(r, s) \/ AbandonSource(r, s))
         /\ WF_vars(ReleaseSlot(r, s))

FairSpec == Spec /\ Fairness

-----------------------------------------------------------------------------
(* Safety                                                                  *)

EventsOf(r) == {wire[r][i] : i \in DOMAIN wire[r]}

\* Every token in handler.browserSlots is held by a dispatcher between its send
\* and its launch or by a browser source that has not run its deferred receive:
\* no path of a cancelled, failed or finished request loses or doubles one.
SlotHolders == {x \in Requests \X BrowserSources : stage[x[1]][x[2]] \in {"running", "returned"}}
Dispatching == {r \in Requests : dispatcher[r] = "acquired"}
SlotAccounting == browserSlots = Cardinality(SlotHolders) + Cardinality(Dispatching)

\* candidate.id is unique in a response, whichever sources the ids come from.
IdsUnique ==
    \A r \in Requests : \A i, j \in DOMAIN wire[r] :
        /\ wire[r][i].event = "candidate"
        /\ wire[r][j].event = "candidate"
        /\ wire[r][i].id = wire[r][j].id
        => i = j

\* A source reports at most one source_error, and no candidate after it.
SilentAfterError ==
    \A r \in Requests : \A i, j \in DOMAIN wire[r] :
        /\ i < j
        /\ wire[r][i].event = "source_error"
        /\ wire[r][j].event \in {"candidate", "source_error"}
        => wire[r][i].source # wire[r][j].source

\* The response body keeps the promises of CandidateContract: done is the last
\* event, every source has delivered or reported by then, and its counts are of
\* what the client has seen, whatever the order of messages, errors and late
\* completions was.
Contract == INSTANCE CandidateContract WITH phase <- writer, queried <- active
ImplementsContract == Contract!Spec

-----------------------------------------------------------------------------
(* Liveness                                                                *)

\* A stream ends, and it ends with done unless its client left or the process
\* is shutting down: also that of a request whose sources wait for the browser
\* slots behind those of another request, whatever becomes of that one.
StreamsEnd ==
    \A r \in Requests : writer[r] = "streaming" ~>
        /\ writer[r] = "returned"
        /\ (\E e \in EventsOf(r) : e.event = "done") \/ ~connected[r] \/ ~serving

\* Once a request's context is done all its goroutines end and give back the
\* browser slots, also those blocked on a channel nobody reads any more.
CancelledRequestsUnwind ==
    \A r \in Requests : cancelled[r] ~>
        /\ dispatcher[r] = "stopped"
        /\ \A s \in Sources : stage[r][s] \in {"inactive", "queued", "exited"}
==============================================================================
