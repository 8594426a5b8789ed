------------------------ MODULE ReleaseStreamProofs ------------------------
(***************************************************************************)
(* Proofs about ReleaseStream, for every set of sources and of release IDs *)
(* and every bound on the releases of a source: the response is one that   *)
(* ReleaseContract allows, and a source that is told is told in full.      *)
(***************************************************************************)
EXTENDS ReleaseStream, FiniteSetTheorems, TLAPS

-----------------------------------------------------------------------------
(* The inductive invariant                                                 *)

\* A message, whole or with its first releases gone.
Piece == [source : Sources, releases : Seq(Release), failed : BOOLEAN]

Shape ==
    /\ search \in [Sources -> {"running", "ended"}]
    /\ outcome \in [Sources -> Seq(Piece)]
    /\ messages \in Seq(Piece)
    /\ writer \in {"streaming", "returned"}
    /\ current \in Seq(Piece)
    /\ seen \subseteq ReleaseIds
    /\ skipped \in Nat
    /\ completed \in Nat
    /\ succeeded \in Nat
    /\ wire \in Seq(Event)

\* Where a source stands: its message waits, it is being told, it has been told.
Waiting(s) == \E i \in DOMAIN messages : messages[i].source = s
OnTurn(s) == current # <<>> /\ current[1].source = s
IsTold(s) == Contract!Told(s)
ReleasesOf(s) == Contract!ReleasesOf(s)

\* A message waits once, and its source has neither been told nor is it being told.
Queue ==
    /\ \A i, j \in DOMAIN messages : messages[i].source = messages[j].source => i = j
    /\ \A s \in Sources : Waiting(s) =>
         search[s] = "ended" /\ ~OnTurn(s) /\ ~IsTold(s)

\* Releases are of a source that has been told or is being told.
Order ==
    /\ \A s \in Sources : OnTurn(s) \/ IsTold(s) => search[s] = "ended"
    /\ \A s \in Sources : OnTurn(s) => ~IsTold(s)
    /\ \A s \in Sources : ReleasesOf(s) # {} => IsTold(s) \/ OnTurn(s)
    /\ wire # <<>> /\ wire[Len(wire)].event = "release" => OnTurn(wire[Len(wire)].source)

\* What the writer has seen of a source is what it wrote of it.
Seen ==
    \A s \in Sources : OnTurn(s) =>
        /\ IsFiniteSet(ReleasesOf(s)) /\ IsFiniteSet(seen)
        /\ Cardinality(ReleasesOf(s)) = Cardinality(seen)
        /\ seen = {e.id : e \in ReleasesOf(s)}

\* The writer's counters count the results in the response.
ToldSources == {s \in Sources : IsTold(s)}
Failures == {e \in Events : e.event = "source_result" /\ e.state = "failed"}

Counted ==
    /\ completed = Cardinality(ToldSources)
    /\ IsFiniteSet(Failures)
    /\ completed = succeeded + Cardinality(Failures)

\* A writer that has given up says nothing more, so nothing need be known of it.
Streams == Queue /\ Order /\ Seen /\ Counted

IInv == Shape /\ (writer = "streaming" => Streams)

-----------------------------------------------------------------------------
(* Sequences and events                                                    *)

\* A nonempty sequence, its head and its tail.
LEMMA TailFacts ==
    ASSUME NEW S, NEW q \in Seq(S), q # <<>>
    PROVE  /\ 1 \in DOMAIN q /\ Head(q) = q[1] /\ Head(q) \in S
           /\ Tail(q) \in Seq(S)
           /\ DOMAIN q = 1..Len(q) /\ DOMAIN Tail(q) = 1..(Len(q) - 1) /\ Len(q) \in Nat
           /\ \A i \in DOMAIN Tail(q) : i + 1 \in DOMAIN q /\ Tail(q)[i] = q[i + 1]
           /\ \A i \in DOMAIN q : i # 1 => i - 1 \in DOMAIN Tail(q) /\ Tail(q)[i - 1] = q[i]
  <1>1. Len(q) \in Nat \ {0} /\ DOMAIN q = 1..Len(q) /\ Head(q) = q[1]
    OBVIOUS
  <1>2. Tail(q) \in Seq(S) /\ Len(Tail(q)) = Len(q) - 1
    OBVIOUS
  <1>3. DOMAIN Tail(q) = 1..(Len(q) - 1)
    BY <1>1, <1>2
  <1>4. \A i \in 1..(Len(q) - 1) : Tail(q)[i] = q[i + 1]
    OBVIOUS
  <1>5. Head(q) \in S
    BY <1>1
  <1>6. QED
    BY <1>1, <1>2, <1>3, <1>4, <1>5

\* An appended element comes last and moves no other.
LEMMA AppendFacts ==
    ASSUME NEW S, NEW q \in Seq(S), NEW e \in S
    PROVE  /\ Append(q, e) \in Seq(S)
           /\ Len(q) \in Nat /\ DOMAIN q = 1..Len(q)
           /\ DOMAIN Append(q, e) = 1..(Len(q) + 1)
           /\ Len(Append(q, e)) = Len(q) + 1 /\ Append(q, e) # <<>>
           /\ Append(q, e)[Len(q) + 1] = e
           /\ \A i \in DOMAIN q : Append(q, e)[i] = q[i]
  OBVIOUS

\* What a message carries is a sequence of releases.
LEMMA MessagePiece ==
    ASSUME NEW s \in Sources, NEW releases \in Lists, NEW failed \in BOOLEAN
    PROVE  [source |-> s, releases |-> releases, failed |-> failed] \in Piece
  <1>1. PICK n \in 0..MaxReleases : releases \in [1..n -> Release]
    BY DEF Lists
  <1>2. releases \in Seq(Release)
    BY <1>1, StreamAssumption
  <1>3. QED
    BY <1>2 DEF Piece

\* Writing an event adds it to the events, and makes it the last.
LEMMA EventsGrow ==
    ASSUME Shape, NEW e \in Event, wire' = Append(wire, e)
    PROVE  /\ wire' \in Seq(Event)
           /\ Events' = Events \cup {e}
           /\ wire' # <<>> /\ wire'[Len(wire')] = e
  <1>1. /\ wire' \in Seq(Event)
        /\ Len(wire) \in Nat /\ DOMAIN wire = 1..Len(wire)
        /\ DOMAIN wire' = 1..(Len(wire) + 1)
        /\ Len(wire') = Len(wire) + 1 /\ wire' # <<>>
        /\ wire'[Len(wire) + 1] = e
        /\ \A i \in DOMAIN wire : wire'[i] = wire[i]
    BY AppendFacts DEF Shape
  <1>2. Events' \subseteq Events \cup {e}
    BY <1>1 DEF Events
  <1>3. Events \cup {e} \subseteq Events'
    <2>1. Len(wire) + 1 \in DOMAIN wire'
      BY <1>1
    <2>2. e \in Events'
      BY <1>1, <2>1 DEF Events
    <2>3. Events \subseteq Events'
      BY <1>1 DEF Events
    <2>4. QED
      BY <2>2, <2>3
  <1>4. QED
    BY <1>1, <1>2, <1>3

\* A release adds to what its source has in the response, and to nothing else.
LEMMA ReleaseWritten ==
    ASSUME Shape, NEW t \in Sources, NEW id \in ReleaseIds,
           wire' = Append(wire, [event |-> "release", source |-> t, id |-> id])
    PROVE  /\ wire' \in Seq(Event)
           /\ wire' # <<>>
           /\ wire'[Len(wire')] = [event |-> "release", source |-> t, id |-> id]
           /\ \A s \in Sources : IsTold(s)' <=> IsTold(s)
           /\ \A s \in Sources \ {t} : ReleasesOf(s)' = ReleasesOf(s)
           /\ ReleasesOf(t)' = ReleasesOf(t) \cup {[event |-> "release", source |-> t, id |-> id]}
           /\ ToldSources' = ToldSources
           /\ Failures' = Failures
  <1> DEFINE e == [event |-> "release", source |-> t, id |-> id]
  <1>1. e \in Event
    BY DEF Event
  <1>2. wire' \in Seq(Event) /\ Events' = Events \cup {e} /\ wire' # <<>> /\ wire'[Len(wire')] = e
    BY <1>1, EventsGrow
  <1>3. \A s \in Sources : IsTold(s)' <=> IsTold(s)
    BY <1>2 DEF IsTold, Contract!Told, Contract!Events, Events
  <1>4. \A s \in Sources \ {t} : ReleasesOf(s)' = ReleasesOf(s)
    BY <1>2 DEF ReleasesOf, Contract!ReleasesOf, Contract!Events, Events
  <1>5. ReleasesOf(t)' = ReleasesOf(t) \cup {e}
    BY <1>2 DEF ReleasesOf, Contract!ReleasesOf, Contract!Events, Events
  <1>6. ToldSources' = ToldSources
    BY <1>3 DEF ToldSources
  <1>7. Failures' = Failures
    BY <1>2 DEF Failures
  <1>8. QED
    BY <1>2, <1>3, <1>4, <1>5, <1>6, <1>7

\* A result tells its source, and is a failure when it says so.
LEMMA ResultWritten ==
    ASSUME Shape, NEW t \in Sources, NEW state \in {"ok", "zero", "failed"}, NEW n \in Nat,
           wire' = Append(wire, [event |-> "source_result", source |-> t, state |-> state,
                                 count |-> n])
    PROVE  /\ wire' \in Seq(Event)
           /\ wire' # <<>> /\ wire'[Len(wire')].event = "source_result"
           /\ \A s \in Sources : IsTold(s)' <=> IsTold(s) \/ s = t
           /\ \A s \in Sources : ReleasesOf(s)' = ReleasesOf(s)
           /\ ToldSources' = ToldSources \cup {t}
           /\ state = "failed" =>
                Failures' = Failures \cup {[event |-> "source_result", source |-> t,
                                            state |-> state, count |-> n]}
           /\ state # "failed" => Failures' = Failures
  <1> DEFINE e == [event |-> "source_result", source |-> t, state |-> state, count |-> n]
  <1>1. e \in Event
    BY DEF Event
  <1>2. wire' \in Seq(Event) /\ Events' = Events \cup {e} /\ wire' # <<>> /\ wire'[Len(wire')] = e
    BY <1>1, EventsGrow
  <1>3. \A s \in Sources : IsTold(s)' <=> IsTold(s) \/ s = t
    BY <1>2 DEF IsTold, Contract!Told, Contract!Events, Events
  <1>4. \A s \in Sources : ReleasesOf(s)' = ReleasesOf(s)
    BY <1>2 DEF ReleasesOf, Contract!ReleasesOf, Contract!Events, Events
  <1>5. ToldSources' = ToldSources \cup {t}
    BY <1>3 DEF ToldSources
  <1>6. /\ state = "failed" => Failures' = Failures \cup {e}
        /\ state # "failed" => Failures' = Failures
    BY <1>2 DEF Failures
  <1>7. QED
    BY <1>2, <1>3, <1>4, <1>5, <1>6

\* What an unchanged response says is unchanged.
LEMMA NothingWritten ==
    ASSUME UNCHANGED wire
    PROVE  /\ \A s \in Sources : IsTold(s)' <=> IsTold(s)
           /\ \A s \in Sources : ReleasesOf(s)' = ReleasesOf(s)
           /\ ToldSources' = ToldSources
           /\ Failures' = Failures
  <1>1. \A s \in Sources : (IsTold(s)' <=> IsTold(s)) /\ ReleasesOf(s)' = ReleasesOf(s)
    BY DEF IsTold, ReleasesOf, Contract!Told, Contract!ReleasesOf, Contract!Events
  <1>2. Failures' = Failures
    BY DEF Failures, Events
  <1>3. QED
    BY <1>1, <1>2 DEF ToldSources

-----------------------------------------------------------------------------
(* Every step keeps the invariant                                          *)

\* The goroutine of a source sends its message, which then waits.
LEMMA EndSearchStep ==
    ASSUME Shape, Streams, NEW t \in Sources, EndSearch(t)
    PROVE  Shape' /\ Streams'
  <1>1. PICK m \in Piece : /\ m.source = t
                           /\ outcome' = [outcome EXCEPT ![t] = <<m>>]
                           /\ messages' = Append(messages, m)
    BY MessagePiece DEF EndSearch
  <1>2. /\ search[t] = "running"
        /\ search' = [search EXCEPT ![t] = "ended"]
        /\ UNCHANGED <<writer, current, seen, skipped, completed, succeeded, wire>>
    BY DEF EndSearch, writerVars
  <1>3. Shape'
    BY <1>1, <1>2 DEF Shape
  <1>4. /\ \A s \in Sources : OnTurn(s)' <=> OnTurn(s)
        /\ \A s \in Sources : search'[s] = "ended" <=> search[s] = "ended" \/ s = t
    BY <1>2 DEF OnTurn, Shape
  <1>5. ~Waiting(t) /\ ~OnTurn(t) /\ ~IsTold(t)
    BY <1>2 DEF Streams, Queue, Order
  <1>6. /\ Len(messages) \in Nat /\ DOMAIN messages = 1..Len(messages)
        /\ DOMAIN messages' = 1..(Len(messages) + 1)
        /\ messages'[Len(messages) + 1] = m
        /\ \A i \in DOMAIN messages : messages'[i] = messages[i]
    BY <1>1, AppendFacts DEF Shape
  <1>7. \A s \in Sources : Waiting(s)' => Waiting(s) \/ s = t
    BY <1>1, <1>6 DEF Waiting
  <1>8. Queue'
    <2>1. \A i, j \in DOMAIN messages' : messages'[i].source = messages'[j].source => i = j
      BY <1>1, <1>5, <1>6 DEF Streams, Queue, Waiting
    <2>2. \A s \in Sources : Waiting(s)' => search'[s] = "ended" /\ ~OnTurn(s)' /\ ~IsTold(s)'
      BY <1>2, <1>4, <1>5, <1>7, NothingWritten DEF Streams, Queue
    <2>3. QED
      BY <2>1, <2>2 DEF Queue
  <1>9. Order'
    BY <1>2, <1>4, NothingWritten DEF Streams, Order, OnTurn
  <1>10. Seen'
    BY <1>2, <1>4, NothingWritten DEF Streams, Seen
  <1>11. Counted'
    BY <1>2, NothingWritten DEF Streams, Counted
  <1>12. QED
    BY <1>3, <1>8, <1>9, <1>10, <1>11 DEF Streams

\* A source that gives up, a client that leaves, a context that ends.
LEMMA OutsideStep ==
    ASSUME Shape, Streams, (\E s \in Sources : AbandonSearch(s)) \/ Disconnect \/ Cancel
    PROVE  Shape' /\ Streams'
  <1>1. /\ UNCHANGED <<outcome, messages, writer, current, seen, skipped, completed, succeeded, wire>>
        /\ search' \in [Sources -> {"running", "ended"}]
        /\ \A s \in Sources : search[s] = "ended" => search'[s] = "ended"
    BY DEF AbandonSearch, Disconnect, Cancel, writerVars, Shape
  <1>2. \A s \in Sources : (OnTurn(s)' <=> OnTurn(s)) /\ (Waiting(s)' <=> Waiting(s))
    BY <1>1 DEF OnTurn, Waiting
  <1>3. Shape'
    BY <1>1 DEF Shape
  <1>4. Queue'
    BY <1>1, <1>2, NothingWritten DEF Streams, Queue
  <1>5. Order'
    BY <1>1, <1>2, NothingWritten DEF Streams, Order, OnTurn
  <1>6. Seen'
    BY <1>1, <1>2, NothingWritten DEF Streams, Seen
  <1>7. Counted'
    BY <1>1, NothingWritten DEF Streams, Counted
  <1>8. QED
    BY <1>3, <1>4, <1>5, <1>6, <1>7 DEF Streams

\* The writer takes the message of a source of which the response says nothing yet.
LEMMA TakeMessageStep ==
    ASSUME Shape, Streams, TakeMessage
    PROVE  Shape' /\ Streams'
  <1>1. /\ messages # <<>> /\ messages' = Tail(messages)
        /\ current = <<>> /\ current' = <<Head(messages)>>
        /\ seen' = {} /\ skipped' = 0
        /\ UNCHANGED <<search, outcome, writer, completed, succeeded, wire>>
    BY DEF TakeMessage, Idle
  <1>2. /\ 1 \in DOMAIN messages /\ Head(messages) = messages[1] /\ Head(messages) \in Piece
        /\ Tail(messages) \in Seq(Piece)
        /\ \A i \in DOMAIN Tail(messages) :
             i \in Nat \ {0} /\ i + 1 \in DOMAIN messages /\ Tail(messages)[i] = messages[i + 1]
    BY <1>1, TailFacts DEF Shape
  <1>3. PICK t \in Sources : t = messages[1].source
    BY <1>2 DEF Piece
  <1>4. Shape'
    BY <1>1, <1>2 DEF Shape
  <1>5. Waiting(t) /\ search[t] = "ended" /\ ~IsTold(t)
    BY <1>2, <1>3 DEF Waiting, Streams, Queue
  <1>6. \A s \in Sources : ~OnTurn(s) /\ (OnTurn(s)' <=> s = t)
    BY <1>1, <1>2, <1>3 DEF OnTurn
  <1>7. \A s \in Sources : Waiting(s)' => Waiting(s) /\ s # t
    <2> SUFFICES ASSUME NEW s \in Sources, NEW i \in DOMAIN messages', messages'[i].source = s
                 PROVE  Waiting(s) /\ s # t
      BY DEF Waiting
    <2>1. i \in Nat \ {0} /\ i + 1 \in DOMAIN messages /\ messages[i + 1].source = s
      BY <1>1, <1>2
    <2>2. i + 1 # 1
      BY <2>1
    <2>3. s # t
      BY <1>2, <1>3, <2>1, <2>2 DEF Streams, Queue
    <2>4. QED
      BY <2>1, <2>3 DEF Waiting
  <1>8. Queue'
    <2>1. \A i, j \in DOMAIN messages' : messages'[i].source = messages'[j].source => i = j
      <3> SUFFICES ASSUME NEW i \in DOMAIN messages', NEW j \in DOMAIN messages',
                          messages'[i].source = messages'[j].source
                   PROVE  i = j
        OBVIOUS
      <3>1. /\ i \in Nat /\ i + 1 \in DOMAIN messages /\ messages'[i] = messages[i + 1]
            /\ j \in Nat /\ j + 1 \in DOMAIN messages /\ messages'[j] = messages[j + 1]
        BY <1>1, <1>2
      <3>2. i + 1 = j + 1
        BY <3>1 DEF Streams, Queue
      <3>3. QED
        BY <3>1, <3>2
    <2>2. \A s \in Sources : Waiting(s)' => search'[s] = "ended" /\ ~OnTurn(s)' /\ ~IsTold(s)'
      BY <1>1, <1>6, <1>7, NothingWritten DEF Streams, Queue
    <2>3. QED
      BY <2>1, <2>2 DEF Queue
  <1>9. Order'
    <2>1. \A s \in Sources : OnTurn(s)' \/ IsTold(s)' => search'[s] = "ended"
      BY <1>1, <1>5, <1>6, NothingWritten DEF Streams, Order
    <2>2. \A s \in Sources : OnTurn(s)' => ~IsTold(s)'
      BY <1>1, <1>5, <1>6, NothingWritten
    <2>3. \A s \in Sources : ReleasesOf(s)' # {} => IsTold(s)' \/ OnTurn(s)'
      BY <1>1, <1>6, NothingWritten DEF Streams, Order
    <2>4. ~(wire # <<>> /\ wire[Len(wire)].event = "release")
      BY <1>1 DEF Streams, Order, OnTurn
    <2>5. QED
      BY <1>1, <2>1, <2>2, <2>3, <2>4 DEF Order
  <1>10. Seen'
    <2>1. ReleasesOf(t)' = {}
      BY <1>1, <1>5, <1>6, NothingWritten DEF Streams, Order
    <2>2. QED
      BY <1>1, <1>6, <2>1, FS_EmptySet DEF Seen
  <1>11. Counted'
    BY <1>1, NothingWritten DEF Streams, Counted
  <1>12. QED
    BY <1>4, <1>8, <1>9, <1>10, <1>11 DEF Streams

\* The writer turns to the next release of the source it is telling.
LEMMA RestFacts ==
    ASSUME Shape, Telling, current[1].releases # <<>>, current' = <<Rest>>
    PROVE  /\ current[1] \in Piece /\ current' \in Seq(Piece)
           /\ Head(current[1].releases) \in Release
           /\ \A s \in Sources : OnTurn(s)' <=> OnTurn(s)
           /\ OnTurn(current[1].source)
  <1>1. current[1] \in Piece
    BY TailFacts DEF Shape, Telling
  <1>2. PICK piece \in Piece : piece = current[1]
    BY <1>1
  <1>3. Head(piece.releases) \in Release /\ Tail(piece.releases) \in Seq(Release)
    BY <1>2, TailFacts DEF Piece
  <1>4. Rest = [piece EXCEPT !.releases = Tail(@)]
    BY <1>2 DEF Rest
  <1>5. Rest \in Piece /\ Rest.source = piece.source
    BY <1>3, <1>4 DEF Piece
  <1>6. current' \in Seq(Piece) /\ current' # <<>> /\ current'[1] = Rest
    BY <1>5
  <1>7. QED
    BY <1>1, <1>2, <1>3, <1>5, <1>6 DEF OnTurn, Telling

\* A release that is written is of the source being told, and new to it.
LEMMA WriteReleaseStep ==
    ASSUME Shape, Streams, WriteRelease
    PROVE  Shape' /\ (writer' = "streaming" => Streams')
  <1>1. PICK t \in Sources, r \in Release :
          /\ t = current[1].source /\ r = Head(current[1].releases)
          /\ OnTurn(t)
    BY RestFacts DEF WriteRelease, Piece
  <1>2. /\ Telling /\ current[1].releases # <<>> /\ current' = <<Rest>>
        /\ r.id \notin seen /\ seen' = seen \cup {r.id}
        /\ Write([event |-> "release", source |-> t, id |-> r.id])
        /\ UNCHANGED <<search, outcome, messages, skipped, completed, succeeded>>
    BY <1>1 DEF WriteRelease, Writable
  <1>3. /\ current' \in Seq(Piece)
        /\ \A s \in Sources : OnTurn(s)' <=> OnTurn(s)
    BY <1>2, RestFacts
  <1>4. r.id \in ReleaseIds
    BY DEF Release
  <1>5. \A s \in Sources : OnTurn(s) <=> s = t
    BY <1>1 DEF OnTurn
  <1>6. \A s \in Sources : Waiting(s)' <=> Waiting(s)
    BY <1>2 DEF Waiting
  <1>7. CASE wire' = Append(wire, [event |-> "release", source |-> t, id |-> r.id])
             /\ UNCHANGED <<writer, cancelled>>
    <2> DEFINE e == [event |-> "release", source |-> t, id |-> r.id]
    <2>1. /\ wire' \in Seq(Event)
          /\ wire' # <<>>
          /\ wire'[Len(wire')] = e
          /\ \A s \in Sources : IsTold(s)' <=> IsTold(s)
          /\ \A s \in Sources \ {t} : ReleasesOf(s)' = ReleasesOf(s)
          /\ ReleasesOf(t)' = ReleasesOf(t) \cup {e}
          /\ ToldSources' = ToldSources
          /\ Failures' = Failures
      BY <1>4, <1>7, ReleaseWritten
    <2>2. Shape'
      BY <1>2, <1>3, <1>4, <1>7, <2>1 DEF Shape
    <2>3. Queue'
      BY <1>2, <1>3, <1>6, <2>1 DEF Streams, Queue
    <2>4. Order'
      <3>1. \A s \in Sources : OnTurn(s)' \/ IsTold(s)' => search'[s] = "ended"
        BY <1>2, <1>3, <2>1 DEF Streams, Order
      <3>2. \A s \in Sources : OnTurn(s)' => ~IsTold(s)'
        BY <1>3, <2>1 DEF Streams, Order
      <3>3. \A s \in Sources : ReleasesOf(s)' # {} => IsTold(s)' \/ OnTurn(s)'
        BY <1>3, <1>5, <2>1 DEF Streams, Order
      <3>4. OnTurn(t)'
        BY <1>3, <1>5
      <3>5. wire'[Len(wire')].source = t
        BY <2>1
      <3>6. QED
        BY <3>1, <3>2, <3>3, <3>4, <3>5 DEF Order
    <2>5. Seen'
      <3>1. /\ IsFiniteSet(ReleasesOf(t)) /\ IsFiniteSet(seen)
            /\ Cardinality(ReleasesOf(t)) = Cardinality(seen)
            /\ seen = {x.id : x \in ReleasesOf(t)}
        BY <1>1 DEF Streams, Seen
      <3>2. e \notin ReleasesOf(t)
        BY <1>2, <3>1
      <3>3. /\ IsFiniteSet(ReleasesOf(t)')
            /\ Cardinality(ReleasesOf(t)') = Cardinality(ReleasesOf(t)) + 1
        BY <2>1, <3>1, <3>2, FS_AddElement
      <3>4. IsFiniteSet(seen') /\ Cardinality(seen') = Cardinality(seen) + 1
        BY <1>2, <3>1, FS_AddElement
      <3>5. seen' = {x.id : x \in ReleasesOf(t)'}
        BY <1>2, <2>1, <3>1
      <3>6. QED
        BY <1>3, <1>5, <3>1, <3>3, <3>4, <3>5 DEF Seen
    <2>6. Counted'
      BY <1>2, <2>1 DEF Streams, Counted
    <2>7. QED
      BY <2>2, <2>3, <2>4, <2>5, <2>6 DEF Streams
  <1>8. CASE Return /\ UNCHANGED wire
    BY <1>2, <1>3, <1>4, <1>8 DEF Return, Shape
  <1>9. QED
    BY <1>2, <1>7, <1>8 DEF Write

\* A release that is skipped leaves no trace but the counter.
LEMMA SkipReleaseStep ==
    ASSUME Shape, Streams, SkipRelease
    PROVE  Shape' /\ Streams'
  <1>1. /\ Telling /\ current[1].releases # <<>> /\ current' = <<Rest>>
        /\ skipped' = skipped + 1
        /\ UNCHANGED <<search, outcome, messages, writer, seen, completed, succeeded, wire>>
    BY DEF SkipRelease
  <1>2. /\ current' \in Seq(Piece)
        /\ \A s \in Sources : (OnTurn(s)' <=> OnTurn(s)) /\ (Waiting(s)' <=> Waiting(s))
    BY <1>1, RestFacts DEF Waiting
  <1>3. Shape'
    BY <1>1, <1>2 DEF Shape
  <1>4. Queue'
    BY <1>1, <1>2, NothingWritten DEF Streams, Queue
  <1>5. Order'
    <2>1. PICK t \in Sources : t = current[1].source /\ t = current'[1].source /\ current' # <<>>
      BY <1>1, RestFacts DEF OnTurn, Piece
    <2>2. wire # <<>> /\ wire[Len(wire)].event = "release" => wire[Len(wire)].source = t
      BY <1>1, <2>1 DEF Streams, Order, OnTurn
    <2>3. (wire # <<>> /\ wire[Len(wire)].event = "release" => OnTurn(wire[Len(wire)].source))'
      BY <1>1, <2>1, <2>2 DEF OnTurn
    <2>4. QED
      BY <1>1, <1>2, <2>3, NothingWritten DEF Streams, Order
  <1>6. Seen'
    BY <1>1, <1>2, NothingWritten DEF Streams, Seen
  <1>7. Counted'
    BY <1>1, NothingWritten DEF Streams, Counted
  <1>8. QED
    BY <1>3, <1>4, <1>5, <1>6, <1>7 DEF Streams

\* A result ends the telling of its source: the counters count it.
LEMMA WriteResultStep ==
    ASSUME Shape, Streams, WriteResult
    PROVE  Shape' /\ (writer' = "streaming" => Streams')
  <1>1. PICK t \in Sources : t = current[1].source /\ OnTurn(t)
    <2>1. current # <<>> /\ current[1] \in Piece
      BY TailFacts DEF WriteResult, Telling, Shape
    <2>2. QED
      BY <2>1 DEF OnTurn, Piece
  <1>2. /\ current # <<>> /\ writer = "streaming"
        /\ Write([event |-> "source_result", source |-> t, state |-> State,
                  count |-> Cardinality(seen)])
        /\ current' = <<>> /\ completed' = completed + 1
        /\ succeeded' = IF State # "failed" THEN succeeded + 1 ELSE succeeded
        /\ UNCHANGED <<search, outcome, messages, seen, skipped>>
    BY <1>1 DEF WriteResult, Telling
  <1>3. State \in {"ok", "zero", "failed"}
    BY DEF State
  <1>4. IsFiniteSet(seen) /\ Cardinality(seen) \in Nat
    BY <1>1, FS_CardinalityType DEF Streams, Seen
  <1>5. \A s \in Sources : (OnTurn(s) <=> s = t) /\ ~OnTurn(s)'
    BY <1>1, <1>2 DEF OnTurn
  <1>6. \A s \in Sources : Waiting(s)' <=> Waiting(s)
    BY <1>2 DEF Waiting
  <1>7. ~IsTold(t)
    BY <1>1 DEF Streams, Order
  <1>8. CASE wire' = Append(wire, [event |-> "source_result", source |-> t, state |-> State,
                                   count |-> Cardinality(seen)])
             /\ UNCHANGED <<writer, cancelled>>
    <2> DEFINE e == [event |-> "source_result", source |-> t, state |-> State,
                     count |-> Cardinality(seen)]
    <2>1. /\ wire' \in Seq(Event)
          /\ wire' # <<>> /\ wire'[Len(wire')].event = "source_result"
          /\ \A s \in Sources : IsTold(s)' <=> IsTold(s) \/ s = t
          /\ \A s \in Sources : ReleasesOf(s)' = ReleasesOf(s)
          /\ ToldSources' = ToldSources \cup {t}
          /\ State = "failed" => Failures' = Failures \cup {e}
          /\ State # "failed" => Failures' = Failures
      BY <1>3, <1>4, <1>8, ResultWritten
    <2>2. Shape'
      BY <1>2, <1>8, <2>1 DEF Shape
    <2>3. Queue'
      BY <1>1, <1>2, <1>5, <1>6, <2>1 DEF Streams, Queue
    <2>4. Order'
      <3>1. \A s \in Sources : IsTold(s)' => search'[s] = "ended"
        BY <1>1, <1>2, <2>1 DEF Streams, Order
      <3>2. \A s \in Sources : ReleasesOf(s)' # {} => IsTold(s)'
        BY <1>5, <2>1 DEF Streams, Order
      <3>3. QED
        BY <1>5, <2>1, <3>1, <3>2 DEF Order
    <2>5. Seen'
      BY <1>5 DEF Seen
    <2>6. Counted'
      <3>1. ToldSources \in SUBSET Sources /\ t \notin ToldSources
        BY <1>7 DEF ToldSources
      <3>2. IsFiniteSet(ToldSources)
        BY <3>1, StreamAssumption, FS_Subset
      <3>3. completed' = Cardinality(ToldSources')
        BY <1>2, <2>1, <3>1, <3>2, FS_AddElement DEF Streams, Counted
      <3>4. IsFiniteSet(Failures) /\ Cardinality(Failures) \in Nat
            /\ completed = succeeded + Cardinality(Failures)
        BY FS_CardinalityType DEF Streams, Counted
      <3>5. CASE State = "failed"
        <4>1. e \notin Failures
          BY <1>7 DEF Failures, IsTold, Contract!Told, Contract!Events, Events
        <4>2. IsFiniteSet(Failures') /\ Cardinality(Failures') = Cardinality(Failures) + 1
          BY <2>1, <3>4, <3>5, <4>1, FS_AddElement
        <4>3. completed' = succeeded' + Cardinality(Failures')
          BY <1>2, <3>4, <3>5, <4>2 DEF Shape
        <4>4. QED
          BY <3>3, <4>2, <4>3 DEF Counted
      <3>6. CASE State # "failed"
        <4>1. completed' = succeeded' + Cardinality(Failures') /\ IsFiniteSet(Failures')
          BY <1>2, <2>1, <3>4, <3>6 DEF Shape
        <4>2. QED
          BY <3>3, <4>1 DEF Counted
      <3>7. QED
        BY <3>5, <3>6
    <2>7. QED
      BY <2>2, <2>3, <2>4, <2>5, <2>6 DEF Streams
  <1>9. CASE Return /\ UNCHANGED wire
    BY <1>2, <1>9 DEF Return, Shape
  <1>10. QED
    BY <1>2, <1>8, <1>9 DEF Write

\* The last writer step leaves a well-formed response.
LEMMA ReturnStep ==
    ASSUME Shape, Streams, AbandonStream \/ FinishStream
    PROVE  Shape' /\ writer' = "returned"
  <1>1. CASE AbandonStream
    BY <1>1 DEF AbandonStream, Return, writerVars, Shape
  <1>2. CASE FinishStream
    <2> DEFINE e == [event |-> "done", queried |-> Cardinality(Sources), succeeded |-> succeeded,
                     failed |-> Cardinality(Sources) - succeeded]
    <2>1. Cardinality(Sources) \in Nat /\ succeeded \in Nat
      BY StreamAssumption, FS_CardinalityType DEF Shape
    <2>2. Cardinality(Sources) = succeeded + Cardinality(Failures) /\ Cardinality(Failures) \in Nat
      BY <1>2, FS_CardinalityType DEF FinishStream, Streams, Counted
    <2>3. Cardinality(Sources) - succeeded \in Nat
      BY <2>1, <2>2
    <2>4. e \in Event
      BY <2>1, <2>3 DEF Event
    <2>5. wire' \in Seq(Event)
      BY <1>2, <2>4, EventsGrow DEF FinishStream, Shape
    <2>6. QED
      BY <1>2, <2>5 DEF FinishStream, Return, writerVars, Shape
  <1>3. QED
    BY <1>1, <1>2

\* A writer that has returned does nothing more; the goroutines may still send.
LEMMA AfterReturn ==
    ASSUME Shape, writer = "returned", [Next]_vars
    PROVE  Shape' /\ writer' = "returned" /\ UNCHANGED wire
  <1>1. CASE \E s \in Sources : EndSearch(s)
    <2>1. PICK s \in Sources, m \in Piece :
            /\ outcome' = [outcome EXCEPT ![s] = <<m>>]
            /\ messages' = Append(messages, m)
            /\ search' = [search EXCEPT ![s] = "ended"]
            /\ UNCHANGED <<writer, current, seen, skipped, completed, succeeded, wire>>
      BY <1>1, MessagePiece DEF EndSearch, writerVars
    <2>2. QED
      BY <2>1 DEF Shape
  <1>2. CASE (\E s \in Sources : AbandonSearch(s)) \/ Disconnect \/ Cancel \/ UNCHANGED vars
    BY <1>2 DEF AbandonSearch, Disconnect, Cancel, vars, writerVars, Shape
  <1>3. CASE TakeMessage \/ AbandonStream \/ WriteRelease \/ SkipRelease \/ WriteResult \/ FinishStream
    BY <1>3 DEF TakeMessage, AbandonStream, WriteRelease, SkipRelease, WriteResult, FinishStream,
       Idle, Telling
  <1>4. QED
    BY <1>1, <1>2, <1>3 DEF Next

\* The invariant is inductive.
LEMMA Inductive == Spec => []IInv
  <1>1. Init => IInv
    <2> SUFFICES ASSUME Init PROVE IInv
      OBVIOUS
    <2>1. Shape
      BY DEF Init, Shape
    <2>2. DOMAIN wire = {} /\ DOMAIN messages = {} /\ current = <<>> /\ wire = <<>>
      BY DEF Init
    <2>3. \A s \in Sources : ~Waiting(s) /\ ~OnTurn(s) /\ ~IsTold(s) /\ ReleasesOf(s) = {}
      BY <2>2 DEF Waiting, OnTurn, IsTold, ReleasesOf, Contract!Told, Contract!ReleasesOf,
         Contract!Events
    <2>4. Queue /\ Order /\ Seen
      BY <2>2, <2>3 DEF Queue, Order, Seen
    <2>5. ToldSources = {} /\ Failures = {}
      BY <2>2, <2>3 DEF ToldSources, Failures, Events
    <2>6. Counted
      BY <2>5, FS_EmptySet DEF Init, Counted
    <2>7. QED
      BY <2>1, <2>4, <2>6 DEF IInv, Streams
  <1>2. IInv /\ [Next]_vars => IInv'
    <2> SUFFICES ASSUME IInv, [Next]_vars PROVE IInv'
      OBVIOUS
    <2>1. CASE writer = "returned"
      BY <2>1, AfterReturn DEF IInv
    <2>2. CASE writer = "streaming"
      <3> Shape /\ Streams
        BY <2>2 DEF IInv
      <3>1. CASE \E s \in Sources : EndSearch(s)
        BY <3>1, EndSearchStep DEF IInv
      <3>2. CASE (\E s \in Sources : AbandonSearch(s)) \/ Disconnect \/ Cancel
        BY <3>2, OutsideStep DEF IInv
      <3>3. CASE TakeMessage
        BY <3>3, TakeMessageStep DEF IInv
      <3>4. CASE AbandonStream \/ FinishStream
        BY <3>4, ReturnStep DEF IInv
      <3>5. CASE WriteRelease
        BY <3>5, WriteReleaseStep DEF IInv
      <3>6. CASE SkipRelease
        BY <3>6, SkipReleaseStep DEF IInv
      <3>7. CASE WriteResult
        BY <3>7, WriteResultStep DEF IInv
      <3>8. CASE UNCHANGED vars
        <4>1. \A s \in Sources : (OnTurn(s)' <=> OnTurn(s)) /\ (Waiting(s)' <=> Waiting(s))
          BY <3>8 DEF vars, writerVars, OnTurn, Waiting
        <4>2. Shape' /\ Queue'
          BY <3>8, <4>1, NothingWritten DEF vars, writerVars, Shape, Streams, Queue
        <4>3. Order' /\ Seen' /\ Counted'
          BY <3>8, <4>1, NothingWritten DEF vars, writerVars, Streams, Order, OnTurn, Seen, Counted
        <4>4. QED
          BY <4>2, <4>3 DEF IInv, Streams
      <3>9. QED
        BY <3>1, <3>2, <3>3, <3>4, <3>5, <3>6, <3>7, <3>8 DEF Next
    <2>3. QED
      BY <2>1, <2>2 DEF IInv, Shape
  <1>3. QED
    BY <1>1, <1>2, PTL DEF Spec

-----------------------------------------------------------------------------
(* Every step is a step of the contract, or none                           *)

\* A release that is written is one the contract lets through.
LEMMA ReleaseMaps ==
    ASSUME Shape, Streams, WriteRelease
    PROVE  Contract!Next
  <1>1. PICK t \in Sources, r \in Release :
          t = current[1].source /\ r = Head(current[1].releases) /\ OnTurn(t)
    BY RestFacts DEF WriteRelease, Piece
  <1>2. /\ writer = "streaming" /\ r.id \notin seen /\ r.id \in ReleaseIds
        /\ Write([event |-> "release", source |-> t, id |-> r.id])
    BY <1>1 DEF WriteRelease, Writable, Telling, Release
  <1>3. ~Contract!Told(t)
    BY <1>1 DEF Streams, Order, IsTold
  <1>4. Contract!Turn(t)
    BY <1>1 DEF Streams, Order, OnTurn, Contract!Turn
  <1>5. \A e \in Contract!ReleasesOf(t) : e.id # r.id
    BY <1>1, <1>2 DEF Streams, Seen, ReleasesOf
  <1>6. CASE wire' = Append(wire, [event |-> "release", source |-> t, id |-> r.id])
             /\ UNCHANGED <<writer, cancelled>>
    <2>1. Contract!SendRelease(t, r.id)
      BY <1>2, <1>3, <1>4, <1>5, <1>6 DEF Contract!SendRelease
    <2>2. QED
      BY <1>2, <2>1 DEF Contract!Next
  <1>7. CASE Return /\ UNCHANGED wire
    BY <1>2, <1>7 DEF Return, Contract!BreakOff, Contract!Next
  <1>8. QED
    BY <1>2, <1>6, <1>7 DEF Write

\* The two modules count alike.
LEMMA SameCount == \A S : Contract!Cardinality(S) = Cardinality(S)
  BY Zenon DEF Cardinality, Contract!Cardinality

\* A result says ok of a source with releases only, and counts them.
LEMMA ResultMaps ==
    ASSUME Shape, Streams, WriteResult
    PROVE  Contract!Next
  <1>1. PICK t \in Sources : t = current[1].source /\ OnTurn(t)
    <2>1. current # <<>> /\ current[1] \in Piece
      BY TailFacts DEF WriteResult, Telling, Shape
    <2>2. QED
      BY <2>1 DEF OnTurn, Piece
  <1>2. /\ writer = "streaming"
        /\ Write([event |-> "source_result", source |-> t, state |-> State,
                  count |-> Cardinality(seen)])
    BY <1>1 DEF WriteResult, Telling
  <1>3. PICK state \in {"ok", "zero", "failed"} : state = State
    BY DEF State
  <1>4. ~Contract!Told(t)
    BY <1>1 DEF Streams, Order, IsTold
  <1>5. Contract!Turn(t)
    BY <1>1 DEF Streams, Order, OnTurn, Contract!Turn
  <1>6. /\ seen = {e.id : e \in Contract!ReleasesOf(t)}
        /\ Cardinality(seen) = Contract!Cardinality(Contract!ReleasesOf(t))
    BY <1>1, SameCount, Zenon DEF Streams, Seen, ReleasesOf
  <1>7. state = "ok" <=> Contract!ReleasesOf(t) # {}
    BY <1>3, <1>6 DEF State
  <1>8. CASE wire' = Append(wire, [event |-> "source_result", source |-> t, state |-> State,
                                   count |-> Cardinality(seen)])
             /\ UNCHANGED <<writer, cancelled>>
    <2>1. wire' = Append(wire, [event |-> "source_result", source |-> t, state |-> state,
                                count |-> Contract!Cardinality(Contract!ReleasesOf(t))])
      BY <1>3, <1>6, <1>8, Zenon
    <2>2. Contract!SendResult(t, state)
      BY <1>2, <1>4, <1>5, <1>7, <1>8, <2>1, Zenon DEF Contract!SendResult
    <2>3. QED
      BY <2>2 DEF Contract!Next
  <1>9. CASE Return /\ UNCHANGED wire
    BY <1>2, <1>9 DEF Return, Contract!BreakOff, Contract!Next
  <1>10. QED
    BY <1>2, <1>8, <1>9 DEF Write

\* Done follows the last source's result and counts the failures.
LEMMA FinishMaps ==
    ASSUME Shape, Streams, FinishStream
    PROVE  Contract!Next
  <1> DEFINE failed == {e \in Contract!Events : e.event = "source_result" /\ e.state = "failed"}
  <1>1. writer = "streaming" /\ writer' = "returned" /\ completed = Cardinality(Sources)
    BY DEF FinishStream, Idle, Return
  <1>2. \A s \in Sources : Contract!Told(s)
    <2>1. ToldSources \in SUBSET Sources /\ Cardinality(ToldSources) = Cardinality(Sources)
      BY <1>1 DEF ToldSources, Streams, Counted
    <2>2. ToldSources = Sources
      BY <2>1, StreamAssumption, FS_Subset
    <2>3. QED
      BY <2>2 DEF ToldSources, IsTold
  <1>3. failed = Failures
    BY DEF Failures, Contract!Events, Events
  <1>4. Cardinality(Failures) \in Nat /\ Cardinality(Sources) = succeeded + Cardinality(Failures)
    BY <1>1, FS_CardinalityType DEF Streams, Counted
  <1>5. succeeded = Cardinality(Sources) - Cardinality(Failures)
        /\ Cardinality(Sources) - succeeded = Cardinality(Failures)
    BY <1>4 DEF Shape
  <1>6. CASE wire' = Append(wire, [event |-> "done", queried |-> Cardinality(Sources),
                                   succeeded |-> succeeded,
                                   failed |-> Cardinality(Sources) - succeeded])
    <2>1. wire' = Append(wire, [event |-> "done", queried |-> Cardinality(Sources),
                                succeeded |-> Cardinality(Sources) - Cardinality(failed),
                                failed |-> Cardinality(failed)])
      BY <1>3, <1>5, <1>6, Zenon
    <2>2. wire' = Append(wire, [event |-> "done", queried |-> Contract!Cardinality(Sources),
                                succeeded |-> Contract!Cardinality(Sources)
                                                - Contract!Cardinality(failed),
                                failed |-> Contract!Cardinality(failed)])
      BY <2>1, SameCount, Zenon
    <2>3. Contract!SendDone
      BY <1>1, <1>2, <2>2, Zenon DEF Contract!SendDone
    <2>4. QED
      BY <2>3 DEF Contract!Next
  <1>7. CASE UNCHANGED wire
    BY <1>1, <1>7 DEF Contract!BreakOff, Contract!Next
  <1>8. QED
    BY <1>6, <1>7 DEF FinishStream

\* Every step is one the contract allows, or changes nothing the client can see.
LEMMA StepMaps == IInv /\ [Next]_vars => [Contract!Next]_Contract!vars
  <1> SUFFICES ASSUME IInv, [Next]_vars
               PROVE  Contract!Next \/ UNCHANGED <<writer, wire>>
    BY DEF Contract!vars
  <1>1. CASE WriteRelease
    BY <1>1, ReleaseMaps DEF WriteRelease, Telling, IInv
  <1>2. CASE WriteResult
    BY <1>2, ResultMaps DEF WriteResult, Telling, IInv
  <1>3. CASE FinishStream
    BY <1>3, FinishMaps DEF FinishStream, Idle, IInv
  <1>4. CASE AbandonStream
    BY <1>4 DEF AbandonStream, Idle, Return, Contract!BreakOff, Contract!Next
  <1>5. CASE TakeMessage \/ SkipRelease \/ Disconnect \/ Cancel \/ UNCHANGED vars
    BY <1>5 DEF TakeMessage, SkipRelease, Disconnect, Cancel, vars
  <1>6. CASE \E s \in Sources : EndSearch(s) \/ AbandonSearch(s)
    BY <1>6 DEF EndSearch, AbandonSearch
  <1>7. QED
    BY <1>1, <1>2, <1>3, <1>4, <1>5, <1>6 DEF Next

\* However the sources' searches interleave with the writer, whatever they return,
\* whether the client leaves or the request is cancelled: the response tells one
\* source after the other, each ended by one source_result that counts its
\* releases, and done comes last and counts the results.
THEOREM ImplementsTheContract == Spec => ImplementsContract
  <1>1. Init => Contract!Init
    BY DEF Init, Contract!Init
  <1>2. QED
    BY <1>1, Inductive, StepMaps, PTL DEF Spec, ImplementsContract, Contract!Spec

-----------------------------------------------------------------------------
(* A source that is told is told in full                                   *)

\* The IDs of the well-formed releases of a list.
Ids(list) == {list[i].id : i \in {j \in DOMAIN list : list[j].wellFormed}}

\* What waits is what the search returned.
Carried == \A i \in DOMAIN messages : Returned(messages[i].source) = messages[i]

\* What was seen and what is left make up what the search returned; nothing has
\* been left out as long as nothing was seen or skipped.
Split(s) ==
    LET left == current[1] IN
    /\ Ids(Returned(s).releases) = seen \cup Ids(left.releases)
    /\ left.failed = Returned(s).failed
    /\ seen = {} /\ skipped = 0 => left.releases = Returned(s).releases
    /\ Returned(s).releases = <<>> => left.releases = <<>> /\ seen = {} /\ skipped = 0

\* What the client was told is what the search returned.
Conveyed ==
    /\ \A s \in Sources : IsTold(s) =>
         search[s] = "ended" /\ {e.id : e \in ReleasesOf(s)} = Ids(Returned(s).releases)
    /\ \A e \in Events : e.event = "source_result" =>
         (e.state = "zero" <=> Returned(e.source).releases = <<>> /\ ~Returned(e.source).failed)

Kept == writer = "streaming" => Carried /\ \A s \in Sources : OnTurn(s) => Split(s)

\* Taking the first release of a list takes its ID, when it is well formed.
LEMMA IdsOfRest ==
    ASSUME NEW list \in Seq(Release), list # <<>>
    PROVE  /\ Head(list).wellFormed => Ids(list) = Ids(Tail(list)) \cup {Head(list).id}
           /\ ~Head(list).wellFormed => Ids(list) = Ids(Tail(list))
  <1>1. /\ 1 \in DOMAIN list /\ Head(list) = list[1]
        /\ \A i \in DOMAIN Tail(list) : i + 1 \in DOMAIN list /\ Tail(list)[i] = list[i + 1]
        /\ \A i \in DOMAIN list : i # 1 => i - 1 \in DOMAIN Tail(list) /\ Tail(list)[i - 1] = list[i]
    BY TailFacts
  <1>2. Ids(Tail(list)) \subseteq Ids(list)
    BY <1>1 DEF Ids
  <1>3. \A i \in DOMAIN list : list[i].wellFormed => i = 1 \/ list[i].id \in Ids(Tail(list))
    BY <1>1 DEF Ids
  <1>4. Head(list).wellFormed => Head(list).id \in Ids(list)
    BY <1>1 DEF Ids
  <1>5. Ids(list) \subseteq Ids(Tail(list)) \cup {x \in {Head(list).id} : Head(list).wellFormed}
    BY <1>1, <1>3 DEF Ids
  <1>6. QED
    BY <1>2, <1>4, <1>5

\* Without a new event and with the searches it tells of unchanged, what was
\* conveyed stays true.
LEMMA ConveyedFrame ==
    ASSUME Shape, Conveyed, UNCHANGED wire,
           \A s \in Sources : search[s] = "ended" =>
             search'[s] = "ended" /\ outcome'[s] = outcome[s]
    PROVE  Conveyed'
  <1>1. Events' = Events
    BY DEF Events
  <1>2. \A e \in Events : e.event = "source_result" => e.source \in Sources /\ IsTold(e.source)
    <2>1. \A e \in Events : e \in Event
      BY DEF Events, Shape
    <2>2. \A e \in Event : e.event = "source_result" => e.source \in Sources
      BY DEF Event
    <2>3. QED
      BY <2>1, <2>2 DEF IsTold, Contract!Told, Contract!Events, Events
  <1>3. \A s \in Sources : IsTold(s) => search[s] = "ended" /\ Returned(s)' = Returned(s)
    BY DEF Conveyed, Returned
  <1>4. \A s \in Sources : IsTold(s)' =>
          search'[s] = "ended" /\ {e.id : e \in ReleasesOf(s)'} = Ids(Returned(s)'.releases)
    BY <1>3, NothingWritten DEF Conveyed
  <1>5. \A e \in Events : e.event = "source_result" => Returned(e.source)' = Returned(e.source)
    BY <1>2, <1>3
  <1>6. \A e \in Events' : e.event = "source_result" =>
          (e.state = "zero" <=> Returned(e.source)'.releases = <<>> /\ ~Returned(e.source)'.failed)
    BY <1>1, <1>5 DEF Conveyed
  <1>7. QED
    BY <1>4, <1>6 DEF Conveyed, Ids

\* A search that has ended returns nothing else.
LEMMA OutcomesStand ==
    ASSUME Shape, [Next]_vars, NEW s \in Sources, search[s] = "ended"
    PROVE  search'[s] = "ended" /\ outcome'[s] = outcome[s]
  <1>1. CASE \E t \in Sources : EndSearch(t)
    <2>1. PICK t \in Sources, m \in Piece :
            /\ search[t] = "running"
            /\ search' = [search EXCEPT ![t] = "ended"]
            /\ outcome' = [outcome EXCEPT ![t] = <<m>>]
      BY <1>1, MessagePiece DEF EndSearch
    <2>2. QED
      BY <2>1 DEF Shape
  <1>2. CASE \E t \in Sources : AbandonSearch(t)
    BY <1>2 DEF AbandonSearch, Shape
  <1>3. CASE UNCHANGED <<search, outcome>>
    BY <1>3
  <1>4. QED
    BY <1>1, <1>2, <1>3 DEF Next, TakeMessage, AbandonStream, WriteRelease, SkipRelease, WriteResult,
       FinishStream, Disconnect, Cancel, vars

\* A new message carries what the search returned; the others are of other sources.
LEMMA EndSearchKeeps ==
    ASSUME Shape, Streams, Kept, writer = "streaming", NEW t \in Sources, EndSearch(t)
    PROVE  Kept'
  <1>1. PICK m \in Piece : /\ m.source = t
                           /\ outcome' = [outcome EXCEPT ![t] = <<m>>]
                           /\ messages' = Append(messages, m)
    BY MessagePiece DEF EndSearch
  <1>2. search[t] = "running" /\ UNCHANGED <<writer, current, seen, skipped>>
    BY DEF EndSearch, writerVars
  <1>3. ~Waiting(t) /\ ~OnTurn(t)
    BY <1>2 DEF Streams, Queue, Order
  <1>4. /\ Returned(t)' = m
        /\ \A s \in Sources : s # t => Returned(s)' = Returned(s)
    BY <1>1 DEF Returned, Shape
  <1>5. /\ Len(messages) \in Nat /\ DOMAIN messages = 1..Len(messages)
        /\ DOMAIN messages' = 1..(Len(messages) + 1)
        /\ messages'[Len(messages) + 1] = m
        /\ \A i \in DOMAIN messages : messages'[i] = messages[i]
    BY <1>1, AppendFacts DEF Shape
  <1>6. \A i \in DOMAIN messages :
          /\ messages[i].source \in Sources /\ messages[i].source # t
          /\ Returned(messages[i].source) = messages[i]
    <2> TAKE i \in DOMAIN messages
    <2>1. messages[i] \in Piece
      BY DEF Shape
    <2>2. QED
      BY <1>2, <1>3, <2>1 DEF Piece, Waiting, Kept, Carried
  <1>7. Carried'
    <2> SUFFICES ASSUME NEW i \in DOMAIN messages'
                 PROVE  (Returned(messages[i].source) = messages[i])'
      BY DEF Carried
    <2>1. CASE i = Len(messages) + 1
      BY <1>1, <1>4, <1>5, <2>1 DEF Returned
    <2>2. CASE i \in DOMAIN messages
      BY <1>4, <1>5, <1>6, <2>2 DEF Returned
    <2>3. QED
      BY <1>5, <2>1, <2>2
  <1>8. ASSUME NEW s \in Sources, OnTurn(s)'
        PROVE  Split(s)'
    <2>1. OnTurn(s) /\ s # t
      BY <1>2, <1>3, <1>8 DEF OnTurn
    <2>2. Split(s) /\ Returned(s)' = Returned(s)
      BY <1>4, <2>1 DEF Kept
    <2>3. /\ Ids(Returned(s)'.releases) = seen' \cup Ids(current'[1].releases)
          /\ current'[1] = current[1]
      BY <1>2, <2>2 DEF Split
    <2>4. QED
      BY <1>2, <2>2, <2>3 DEF Split, Ids
  <1>9. QED
    BY <1>7, <1>8 DEF Kept

\* At first all that the search returned is left.
LEMMA TakeMessageKeeps ==
    ASSUME Shape, Streams, Kept, TakeMessage
    PROVE  Kept'
  <1>1. /\ messages # <<>> /\ messages' = Tail(messages) /\ writer = "streaming"
        /\ current' = <<Head(messages)>> /\ seen' = {} /\ skipped' = 0
        /\ UNCHANGED <<outcome, writer>>
    BY DEF TakeMessage, Idle
  <1>2. /\ 1 \in DOMAIN messages /\ Head(messages) = messages[1] /\ Head(messages) \in Piece
        /\ \A i \in DOMAIN Tail(messages) :
             i + 1 \in DOMAIN messages /\ Tail(messages)[i] = messages[i + 1]
    BY <1>1, TailFacts DEF Shape
  <1>3. Carried'
    BY <1>1, <1>2 DEF Kept, Carried, Returned
  <1>4. ASSUME NEW s \in Sources, OnTurn(s)'
        PROVE  Split(s)'
    <2>1. current'[1] = messages[1] /\ messages[1].source = s
      BY <1>1, <1>2, <1>4 DEF OnTurn
    <2>2. Returned(s)' = messages[1]
      BY <1>1, <1>2, <2>1 DEF Kept, Carried, Returned
    <2>3. QED
      BY <1>1, <2>1, <2>2 DEF Split, Ids
  <1>5. QED
    BY <1>3, <1>4 DEF Kept

\* The first release moves from what is left to what was seen, or is skipped
\* because it is malformed or was seen already.
LEMMA ReleaseKeeps ==
    ASSUME Shape, Kept, WriteRelease \/ SkipRelease
    PROVE  Kept'
  <1>1. /\ Telling /\ writer = "streaming"
        /\ current[1].releases # <<>> /\ current' = <<Rest>>
        /\ UNCHANGED <<outcome, messages>>
    BY DEF WriteRelease, SkipRelease, Telling
  <1>2. PICK piece \in Piece : piece = current[1]
    BY <1>1, RestFacts
  <1>3. /\ Rest = [piece EXCEPT !.releases = Tail(@)] /\ piece.releases \in Seq(Release)
        /\ current'[1] = Rest
    BY <1>1, <1>2 DEF Rest, Piece
  <1>4. Rest.releases = Tail(piece.releases) /\ Rest.failed = piece.failed
    BY <1>3 DEF Piece
  <1>5. PICK r \in Release : r = Head(piece.releases)
    BY <1>1, <1>2, RestFacts
  <1>6. \/ r.wellFormed /\ seen' = seen \cup {r.id}
        \/ /\ ~r.wellFormed \/ r.id \in seen
           /\ seen' = seen /\ skipped' = skipped + 1
    BY <1>2, <1>5 DEF WriteRelease, SkipRelease, Writable
  <1>7. /\ r.wellFormed => Ids(piece.releases) = Ids(Tail(piece.releases)) \cup {r.id}
        /\ ~r.wellFormed => Ids(piece.releases) = Ids(Tail(piece.releases))
    BY <1>1, <1>2, <1>3, <1>5, IdsOfRest
  <1>8. seen \cup Ids(piece.releases) = seen' \cup Ids(Tail(piece.releases))
    BY <1>6, <1>7
  <1>9. ~(seen' = {} /\ skipped' = 0)
    <2>1. skipped \in Nat
      BY DEF Shape
    <2>2. skipped + 1 # 0
      BY <2>1
    <2>3. QED
      BY <1>6, <2>2
  <1>10. ASSUME NEW s \in Sources, OnTurn(s)'
         PROVE  Split(s)'
    <2>1. Split(s)
      BY <1>1, <1>10, RestFacts DEF Kept
    <2>2. /\ Ids(Returned(s).releases) = seen' \cup Ids(Tail(piece.releases))
          /\ piece.failed = Returned(s).failed
          /\ Returned(s).releases # <<>>
      BY <1>1, <1>2, <1>8, <2>1 DEF Split
    <2>3. Returned(s)' = Returned(s)
      BY <1>1 DEF Returned
    <2>4. current'[1].releases = Tail(piece.releases) /\ current'[1].failed = piece.failed
      BY <1>3, <1>4
    <2>5. QED
      BY <1>9, <2>2, <2>3, <2>4 DEF Split, Ids
  <1>11. Carried'
    BY <1>1 DEF Kept, Carried, Returned
  <1>12. QED
    BY <1>10, <1>11 DEF Kept

\* A release that is written is not of a source that has been told.
LEMMA ReleaseConveys ==
    ASSUME Shape, Streams, Conveyed, WriteRelease
    PROVE  Conveyed'
  <1>1. PICK t \in Sources, r \in Release :
          t = current[1].source /\ r = Head(current[1].releases) /\ OnTurn(t)
    BY RestFacts DEF WriteRelease, Piece
  <1>2. /\ Write([event |-> "release", source |-> t, id |-> r.id])
        /\ UNCHANGED <<search, outcome>> /\ r.id \in ReleaseIds
    BY <1>1 DEF WriteRelease, Release
  <1>3. ~IsTold(t)
    BY <1>1 DEF Streams, Order
  <1>4. CASE wire' = Append(wire, [event |-> "release", source |-> t, id |-> r.id])
    <2>1. /\ \A s \in Sources : IsTold(s)' <=> IsTold(s)
          /\ \A s \in Sources \ {t} : ReleasesOf(s)' = ReleasesOf(s)
      BY <1>2, <1>4, ReleaseWritten
    <2>2. Events' = Events \cup {[event |-> "release", source |-> t, id |-> r.id]}
      BY <1>2, <1>4, EventsGrow DEF Event
    <2>3. \A s \in Sources : IsTold(s)' =>
            search'[s] = "ended" /\ {e.id : e \in ReleasesOf(s)'} = Ids(Returned(s).releases)
      BY <1>2, <1>3, <2>1 DEF Conveyed
    <2>4. \A e \in Events' : e.event = "source_result" =>
            (e.state = "zero" <=> Returned(e.source).releases = <<>> /\ ~Returned(e.source).failed)
      BY <2>2 DEF Conveyed
    <2>5. \A s : Returned(s)' = Returned(s)
      BY <1>2 DEF Returned
    <2>6. \A s \in Sources : IsTold(s)' =>
            search'[s] = "ended" /\ {e.id : e \in ReleasesOf(s)'} = Ids(Returned(s)'.releases)
      BY <2>3, <2>5
    <2>7. \A e \in Events' : e.event = "source_result" =>
            (e.state = "zero" <=> Returned(e.source)'.releases = <<>> /\ ~Returned(e.source)'.failed)
      BY <2>4, <2>5
    <2>8. QED
      BY <2>6, <2>7 DEF Conveyed, Ids
  <1>5. CASE UNCHANGED wire
    BY <1>2, <1>5, ConveyedFrame
  <1>6. QED
    BY <1>2, <1>4, <1>5 DEF Write

\* A result is written when nothing is left.
LEMMA ResultConveys ==
    ASSUME Shape, Streams, Conveyed, Kept, WriteResult
    PROVE  Conveyed'
  <1>1. PICK t \in Sources : t = current[1].source /\ OnTurn(t)
    <2>1. current # <<>> /\ current[1] \in Piece
      BY TailFacts DEF WriteResult, Telling, Shape
    <2>2. QED
      BY <2>1 DEF OnTurn, Piece
  <1>2. /\ writer = "streaming" /\ current[1].releases = <<>>
        /\ Write([event |-> "source_result", source |-> t, state |-> State,
                  count |-> Cardinality(seen)])
        /\ UNCHANGED <<search, outcome>>
    BY <1>1 DEF WriteResult, Telling
  <1>3. State \in {"ok", "zero", "failed"}
    BY DEF State
  <1>4. Cardinality(seen) \in Nat
    BY <1>1, FS_CardinalityType DEF Streams, Seen
  <1>5. Split(t) /\ search[t] = "ended"
    BY <1>1, <1>2 DEF Kept, Streams, Order
  <1>6. {e.id : e \in ReleasesOf(t)} = Ids(Returned(t).releases)
    <2>1. Ids(<<>>) = {}
      BY DEF Ids
    <2>2. seen = Ids(Returned(t).releases)
      BY <1>2, <1>5, <2>1 DEF Split
    <2>3. QED
      BY <1>1, <2>2 DEF Streams, Seen
  <1>7. State = "zero" <=> Returned(t).releases = <<>> /\ ~Returned(t).failed
    BY <1>2, <1>5 DEF Split, State
  <1>8. CASE wire' = Append(wire, [event |-> "source_result", source |-> t, state |-> State,
                                   count |-> Cardinality(seen)])
    <2> DEFINE e == [event |-> "source_result", source |-> t, state |-> State,
                     count |-> Cardinality(seen)]
    <2>1. /\ \A s \in Sources : IsTold(s)' <=> IsTold(s) \/ s = t
          /\ \A s \in Sources : ReleasesOf(s)' = ReleasesOf(s)
      BY <1>3, <1>4, <1>8, ResultWritten
    <2>2. e \in Event
      BY <1>3, <1>4 DEF Event
    <2>3. Events' = Events \cup {e}
      BY <1>8, <2>2, EventsGrow
    <2>4. \A s \in Sources : IsTold(s)' =>
            search'[s] = "ended" /\ {x.id : x \in ReleasesOf(s)'} = Ids(Returned(s).releases)
      BY <1>2, <1>5, <1>6, <2>1 DEF Conveyed
    <2>5. \A x \in Events' : x.event = "source_result" =>
            (x.state = "zero" <=> Returned(x.source).releases = <<>> /\ ~Returned(x.source).failed)
      BY <1>7, <2>3 DEF Conveyed
    <2>6. \A s : Returned(s)' = Returned(s)
      BY <1>2 DEF Returned
    <2>7. \A s \in Sources : IsTold(s)' =>
            search'[s] = "ended" /\ {x.id : x \in ReleasesOf(s)'} = Ids(Returned(s)'.releases)
      BY <2>4, <2>6
    <2>8. \A x \in Events' : x.event = "source_result" =>
            (x.state = "zero" <=> Returned(x.source)'.releases = <<>> /\ ~Returned(x.source)'.failed)
      BY <2>5, <2>6
    <2>9. QED
      BY <2>7, <2>8 DEF Conveyed, Ids
  <1>9. CASE UNCHANGED wire
    BY <1>2, <1>9, ConveyedFrame
  <1>10. QED
    BY <1>2, <1>8, <1>9 DEF Write

\* Done tells of no source.
LEMMA FinishConveys ==
    ASSUME Shape, Streams, Conveyed, FinishStream
    PROVE  Conveyed'
  <1> DEFINE e == [event |-> "done", queried |-> Cardinality(Sources), succeeded |-> succeeded,
                   failed |-> Cardinality(Sources) - succeeded]
  <1>1. UNCHANGED <<search, outcome>>
    BY DEF FinishStream
  <1>2. CASE wire' = Append(wire, e)
    <2>1. Cardinality(Sources) \in Nat /\ Cardinality(Failures) \in Nat
          /\ Cardinality(Sources) = succeeded + Cardinality(Failures)
      BY StreamAssumption, FS_CardinalityType DEF FinishStream, Streams, Counted
    <2>2. e \in Event
      BY <2>1 DEF Event, Shape
    <2>3. Events' = Events \cup {e}
      BY <1>2, <2>2, EventsGrow
    <2>4. \A s \in Sources : (IsTold(s)' <=> IsTold(s)) /\ ReleasesOf(s)' = ReleasesOf(s)
      BY <2>3 DEF IsTold, ReleasesOf, Contract!Told, Contract!ReleasesOf, Contract!Events, Events
    <2>5. \A s \in Sources : IsTold(s)' =>
            search'[s] = "ended" /\ {x.id : x \in ReleasesOf(s)'} = Ids(Returned(s).releases)
      BY <1>1, <2>4 DEF Conveyed
    <2>6. \A x \in Events' : x.event = "source_result" =>
            (x.state = "zero" <=> Returned(x.source).releases = <<>> /\ ~Returned(x.source).failed)
      BY <2>3 DEF Conveyed
    <2>7. QED
      BY <1>1, <2>5, <2>6 DEF Conveyed, Returned, Ids
  <1>3. CASE UNCHANGED wire
    BY <1>1, <1>3, ConveyedFrame
  <1>4. QED
    BY <1>2, <1>3 DEF FinishStream

\* No step makes what the client was told untrue, nor loses what is still to tell.
LEMMA FullStep ==
    ASSUME IInv, Conveyed, Kept, [Next]_vars
    PROVE  Conveyed' /\ Kept'
  <1>1. Shape
    BY DEF IInv
  <1>2. ASSUME UNCHANGED wire
        PROVE  Conveyed'
    BY <1>1, <1>2, ConveyedFrame, OutcomesStand
  <1>3. CASE writer = "returned"
    <2>1. writer' = "returned" /\ UNCHANGED wire
      BY <1>1, <1>3, AfterReturn
    <2>2. QED
      BY <1>2, <2>1 DEF Kept
  <1>4. CASE writer = "streaming"
    <2> Shape /\ Streams
      BY <1>4 DEF IInv
    <2>1. CASE \E s \in Sources : EndSearch(s)
      <3>1. UNCHANGED wire
        BY <2>1 DEF EndSearch
      <3>2. QED
        BY <1>2, <1>4, <2>1, <3>1, EndSearchKeeps
    <2>2. CASE \/ \E s \in Sources : AbandonSearch(s)
               \/ Disconnect \/ Cancel \/ UNCHANGED vars
      <3>1. UNCHANGED <<outcome, messages, writer, current, seen, skipped, wire>>
        BY <2>2 DEF AbandonSearch, Disconnect, Cancel, vars, writerVars
      <3>2. Carried' <=> Carried
        BY <3>1 DEF Carried, Returned
      <3>3. \A s \in Sources : (OnTurn(s)' <=> OnTurn(s)) /\ Returned(s)' = Returned(s)
        BY <3>1 DEF OnTurn, Returned
      <3>4. ASSUME NEW s \in Sources, OnTurn(s)'
            PROVE  Split(s)'
        <4>1. Split(s) /\ current'[1] = current[1]
          BY <1>4, <3>1, <3>3, <3>4 DEF Kept
        <4>2. Ids(Returned(s)'.releases) = seen' \cup Ids(current'[1].releases)
          BY <3>1, <3>3, <4>1 DEF Split
        <4>3. QED
          BY <3>1, <3>3, <4>1, <4>2 DEF Split, Ids
      <3>5. QED
        BY <1>2, <1>4, <3>1, <3>2, <3>4 DEF Kept
    <2>3. CASE TakeMessage
      BY <1>2, <2>3, TakeMessageKeeps DEF TakeMessage
    <2>4. CASE AbandonStream
      BY <1>2, <2>4 DEF AbandonStream, Return, Kept
    <2>5. CASE FinishStream
      BY <2>5, FinishConveys DEF FinishStream, Return, Kept
    <2>6. CASE WriteRelease
      BY <2>6, ReleaseKeeps, ReleaseConveys
    <2>7. CASE SkipRelease
      BY <1>2, <2>7, ReleaseKeeps DEF SkipRelease
    <2>8. CASE WriteResult
      <3>1. Kept'
        <4>1. UNCHANGED <<outcome, messages>> /\ current' = <<>>
          BY <2>8 DEF WriteResult
        <4>2. Carried' /\ \A s \in Sources : ~OnTurn(s)'
          BY <1>4, <4>1 DEF Kept, Carried, Returned, OnTurn
        <4>3. QED
          BY <4>2 DEF Kept
      <3>2. QED
        BY <1>4, <2>8, <3>1, ResultConveys
    <2>9. QED
      BY <2>1, <2>2, <2>3, <2>4, <2>5, <2>6, <2>7, <2>8 DEF Next
  <1>5. QED
    BY <1>1, <1>3, <1>4 DEF Shape

\* Once a source is told, the client has each of its well-formed releases, and is
\* told zero only of a search that found nothing and did not fail.
THEOREM SourcesToldInFull == Spec => []ToldInFull
  <1>1. Init => Conveyed /\ Kept
    <2> SUFFICES ASSUME Init PROVE Conveyed /\ Kept
      OBVIOUS
    <2>1. DOMAIN wire = {} /\ DOMAIN messages = {} /\ current = <<>>
      BY DEF Init
    <2>2. \A s \in Sources : ~IsTold(s) /\ ~OnTurn(s)
      BY <2>1 DEF IsTold, OnTurn, Contract!Told, Contract!Events
    <2>3. Events = {}
      BY <2>1 DEF Events
    <2>4. QED
      BY <2>1, <2>2, <2>3 DEF Conveyed, Kept, Carried
  <1>2. IInv /\ Conveyed /\ Kept /\ [Next]_vars => Conveyed' /\ Kept'
    BY FullStep
  <1>3. IInv /\ Conveyed => ToldInFull
    <2> SUFFICES ASSUME IInv, Conveyed, NEW e \in Events, e.event = "source_result"
                 PROVE  /\ {d.id : d \in {d \in Events : d.event = "release" /\ d.source = e.source}}
                             = Good(e.source)
                        /\ e.state = "zero" <=> /\ Returned(e.source).releases = <<>>
                                                /\ ~Returned(e.source).failed
      BY DEF ToldInFull
    <2>1. e \in Event
      BY DEF IInv, Shape, Events
    <2>2. e.source \in Sources
      BY <2>1 DEF Event
    <2>3. IsTold(e.source)
      BY DEF IsTold, Contract!Told, Contract!Events, Events
    <2>4. {d.id : d \in ReleasesOf(e.source)} = Ids(Returned(e.source).releases)
      BY <2>2, <2>3 DEF Conveyed
    <2>5. ReleasesOf(e.source) = {d \in Events : d.event = "release" /\ d.source = e.source}
      BY DEF ReleasesOf, Contract!ReleasesOf, Contract!Events, Events
    <2>6. Ids(Returned(e.source).releases) = Good(e.source)
      BY DEF Ids, Good
    <2>7. QED
      BY <2>4, <2>5, <2>6 DEF Conveyed
  <1>4. QED
    BY <1>1, <1>2, <1>3, Inductive, PTL DEF Spec


-----------------------------------------------------------------------------
(* The sizes of channels, lists and counters                               *)

\* A source sends at most one message: the one that ended its goroutine.
OneEach ==
    /\ \A i, j \in DOMAIN messages : messages[i].source = messages[j].source => i = j
    /\ \A i \in DOMAIN messages : search[messages[i].source] = "ended"

Sized ==
    /\ connected \in BOOLEAN /\ cancelled \in BOOLEAN
    /\ outcome \in [Sources -> Seq(Message)] /\ \A s \in Sources : Len(outcome[s]) <= 1
    /\ messages \in Seq(Message)
    /\ current \in Seq(Message) /\ Len(current) <= 1
    /\ skipped <= MaxReleases
    /\ current # <<>> =>
         /\ skipped + Len(current[1].releases) <= MaxReleases
         /\ completed < Cardinality(Sources)
    /\ completed <= Cardinality(Sources)
    /\ succeeded <= completed

\* There are finitely many sources, and they return finitely many releases.
LEMMA Sizes == Cardinality(Sources) \in Nat /\ MaxReleases \in Nat
  BY StreamAssumption, FS_CardinalityType

\* A message is of one of the sources.
LEMMA MessageSource ==
    ASSUME NEW q \in Seq(Message), NEW i \in DOMAIN q
    PROVE  q[i].source \in Sources
  <1>1. q[i] \in Message
    OBVIOUS
  <1>2. QED
    BY <1>1 DEF Message

\* The channel has room for every message, so that no goroutine waits to send.
LEMMA ChannelHasRoom ==
    ASSUME OneEach, messages \in Seq(Message)
    PROVE  Len(messages) <= Cardinality(Sources)
  <1> DEFINE sender == [i \in 1..Len(messages) |-> messages[i].source]
  <1>1. Len(messages) \in Nat /\ DOMAIN messages = 1..Len(messages)
    OBVIOUS
  <1>2. \A i \in 1..Len(messages) : messages[i].source \in Sources
    BY <1>1, MessageSource
  <1>3. sender \in Injection(1..Len(messages), Sources)
    BY <1>1, <1>2 DEF OneEach, Injection, IsInjective
  <1>4. Cardinality(1..Len(messages)) <= Cardinality(Sources)
    BY <1>3, StreamAssumption, FS_Injection
  <1>5. Cardinality(1..Len(messages)) = Len(messages)
    BY <1>1, FS_Interval
  <1>6. QED
    BY <1>4, <1>5

\* A list of releases is within the bound, and so is what is left of it.
LEMMA ListFacts ==
    ASSUME NEW list \in Lists
    PROVE  /\ list \in Seq(Release) /\ Len(list) \in 0..MaxReleases
           /\ list # <<>> => Tail(list) \in Lists /\ Len(Tail(list)) = Len(list) - 1 /\ Len(list) > 0
  <1>1. PICK n \in 0..MaxReleases : list \in [1..n -> Release]
    BY DEF Lists
  <1>2. list \in Seq(Release) /\ Len(list) = n
    BY <1>1, Sizes
  <1>3. ASSUME list # <<>>
        PROVE  Tail(list) \in Lists /\ Len(Tail(list)) = Len(list) - 1 /\ Len(list) > 0
    <2>1. Tail(list) \in Seq(Release) /\ Len(Tail(list)) = n - 1 /\ n > 0
      BY <1>2, <1>3, Sizes
    <2>2. Tail(list) \in [1..(n - 1) -> Release]
      <3> DEFINE rest == Tail(list)
      <3>1. rest \in [1..Len(rest) -> Release]
        <4> HIDE DEF rest
        <4>1. rest \in Seq(Release)
          BY <2>1 DEF rest
        <4>2. QED
          BY <4>1
      <3>2. QED
        BY <2>1, <3>1
    <2>3. n - 1 \in 0..MaxReleases
      BY <2>1, Sizes
    <2>4. QED
      BY <1>2, <2>1, <2>2, <2>3 DEF Lists
  <1>4. QED
    BY <1>1, <1>2, <1>3, Sizes

\* The goroutine of a source sends its one message.
LEMMA EndSearchSized ==
    ASSUME Shape, Sized, OneEach, NEW s \in Sources, EndSearch(s)
    PROVE  Sized' /\ OneEach'
  <1>1. PICK m \in Message : /\ m.source = s
                             /\ outcome' = [outcome EXCEPT ![s] = <<m>>]
                             /\ messages' = Append(messages, m)
    BY DEF EndSearch, Message
  <1>2. /\ search[s] = "running" /\ search' = [search EXCEPT ![s] = "ended"]
        /\ UNCHANGED <<connected, cancelled, current, skipped, completed, succeeded>>
    BY DEF EndSearch, writerVars
  <1>3. messages \in Seq(Message)
    BY DEF Sized
  <1>4. /\ messages' \in Seq(Message)
        /\ Len(messages) \in Nat /\ DOMAIN messages = 1..Len(messages)
        /\ DOMAIN messages' = 1..(Len(messages) + 1)
        /\ messages'[Len(messages) + 1] = m
        /\ \A i \in DOMAIN messages : messages'[i] = messages[i]
    BY <1>1, <1>3, AppendFacts
  <1>5. \A i \in DOMAIN messages : messages[i].source # s /\ messages[i].source \in Sources
    BY <1>2, <1>3, MessageSource DEF OneEach
  <1>6. OneEach'
    <2>1. \A i, j \in DOMAIN messages' : messages'[i].source = messages'[j].source => i = j
      BY <1>1, <1>4, <1>5 DEF OneEach
    <2>2. \A i \in DOMAIN messages' : search'[messages'[i].source] = "ended"
      BY <1>1, <1>2, <1>4, <1>5 DEF OneEach, Shape
    <2>3. QED
      BY <2>1, <2>2 DEF OneEach
  <1>7. outcome' \in [Sources -> Seq(Message)] /\ \A t \in Sources : Len(outcome'[t]) <= 1
    <2>1. <<m>> \in Seq(Message) /\ Len(<<m>>) = 1
      OBVIOUS
    <2>2. QED
      BY <1>1, <2>1 DEF Sized
  <1>8. QED
    BY <1>2, <1>4, <1>6, <1>7 DEF Sized

\* The writer takes the first message; the others are as many fewer.
LEMMA TakeMessageSized ==
    ASSUME Shape, Sized, OneEach, TakeMessage
    PROVE  Sized' /\ OneEach'
  <1>1. /\ messages # <<>> /\ messages' = Tail(messages) /\ current' = <<Head(messages)>>
        /\ skipped' = 0 /\ completed < Cardinality(Sources)
        /\ UNCHANGED <<connected, cancelled, search, outcome, completed, succeeded>>
    BY DEF TakeMessage
  <1>2. messages \in Seq(Message)
    BY DEF Sized
  <1>3. /\ Head(messages) \in Message /\ Tail(messages) \in Seq(Message)
        /\ \A i \in DOMAIN Tail(messages) :
             i + 1 \in DOMAIN messages /\ Tail(messages)[i] = messages[i + 1] /\ i \in Nat
    BY <1>1, <1>2, TailFacts
  <1>4. OneEach'
    <2>1. ASSUME NEW i \in DOMAIN messages', NEW j \in DOMAIN messages',
                 messages'[i].source = messages'[j].source
          PROVE  i = j
      <3>1. /\ i \in Nat /\ i + 1 \in DOMAIN messages /\ messages'[i] = messages[i + 1]
            /\ j \in Nat /\ j + 1 \in DOMAIN messages /\ messages'[j] = messages[j + 1]
        BY <1>1, <1>3
      <3>2. i + 1 = j + 1
        BY <2>1, <3>1 DEF OneEach
      <3>3. QED
        BY <3>1, <3>2
    <2>2. \A i \in DOMAIN messages' : search'[messages'[i].source] = "ended"
      BY <1>1, <1>3 DEF OneEach
    <2>3. QED
      BY <2>1, <2>2 DEF OneEach
  <1>5. /\ current' \in Seq(Message) /\ Len(current') = 1 /\ current'[1] = Head(messages)
    BY <1>1, <1>3
  <1>6. Len(current'[1].releases) \in 0..MaxReleases
    <2>1. Head(messages).releases \in Lists
      BY <1>3 DEF Message
    <2>2. QED
      BY <1>5, <2>1, ListFacts
  <1>7. skipped' + Len(current'[1].releases) <= MaxReleases /\ skipped' <= MaxReleases
    BY <1>1, <1>6, Sizes
  <1>8. QED
    BY <1>1, <1>3, <1>4, <1>5, <1>7 DEF Sized

\* The message without its first release.
LEMMA RestSized ==
    ASSUME Sized, Telling, current[1].releases # <<>>, current' = <<Rest>>
    PROVE  /\ current' \in Seq(Message) /\ Len(current') = 1
           /\ Len(current[1].releases) \in Nat \ {0}
           /\ Len(current'[1].releases) = Len(current[1].releases) - 1
  <1>1. current[1] \in Message
    BY TailFacts DEF Sized, Telling
  <1>2. current[1].releases \in Lists
    BY <1>1 DEF Message
  <1>3. /\ Tail(current[1].releases) \in Lists
        /\ Len(current[1].releases) \in Nat \ {0}
        /\ Len(Tail(current[1].releases)) = Len(current[1].releases) - 1
    BY <1>2, ListFacts, Sizes
  <1>4. PICK message \in Message : message = current[1]
    BY <1>1
  <1>5. Rest \in Message /\ Rest.releases = Tail(current[1].releases)
    BY <1>3, <1>4 DEF Rest, Message
  <1>6. current' \in Seq(Message) /\ Len(current') = 1 /\ current'[1] = Rest
    BY <1>5
  <1>7. QED
    BY <1>3, <1>5, <1>6

\* A write leaves the context a Boolean.
LEMMA WriteKeepsContext ==
    ASSUME cancelled \in BOOLEAN, NEW e, Write(e)
    PROVE  cancelled' \in BOOLEAN
  BY DEF Write, Return

\* The writer's steps through a message.
LEMMA TellSized ==
    ASSUME Shape, Sized, OneEach, WriteRelease \/ SkipRelease \/ WriteResult
    PROVE  Sized' /\ OneEach'
  <1>1. /\ Telling /\ cancelled \in BOOLEAN /\ completed < Cardinality(Sources)
        /\ skipped \in Nat /\ completed \in Nat /\ succeeded \in Nat
    BY DEF WriteRelease, SkipRelease, WriteResult, Telling, Sized, Shape
  <1>2. cancelled' \in BOOLEAN /\ UNCHANGED <<connected, search, outcome, messages>>
    BY <1>1, WriteKeepsContext DEF WriteRelease, SkipRelease, WriteResult
  <1>3. OneEach'
    BY <1>2 DEF OneEach
  <1>4. CASE WriteRelease \/ SkipRelease
    <2>1. /\ current[1].releases # <<>> /\ current' = <<Rest>>
          /\ skipped' = skipped \/ skipped' = skipped + 1
          /\ UNCHANGED <<completed, succeeded>>
      BY <1>4 DEF WriteRelease, SkipRelease
    <2>2. /\ current' \in Seq(Message) /\ Len(current') = 1
          /\ Len(current[1].releases) \in Nat \ {0}
          /\ Len(current'[1].releases) = Len(current[1].releases) - 1
      BY <1>1, <2>1, RestSized
    <2>3. skipped + Len(current[1].releases) <= MaxReleases
      BY <1>1 DEF Sized, Telling
    <2>4. skipped' + Len(current'[1].releases) <= MaxReleases /\ skipped' <= MaxReleases
      BY <1>1, <2>1, <2>2, <2>3, Sizes
    <2>5. QED
      BY <1>1, <1>2, <1>3, <2>1, <2>2, <2>4 DEF Sized
  <1>5. CASE WriteResult
    <2>1. /\ current' = <<>> /\ completed' = completed + 1 /\ UNCHANGED skipped
          /\ succeeded' = succeeded + 1 \/ succeeded' = succeeded
      BY <1>5 DEF WriteResult
    <2>2. completed' <= Cardinality(Sources) /\ succeeded' <= completed'
      BY <1>1, <2>1, Sizes DEF Sized
    <2>3. current' \in Seq(Message) /\ Len(current') <= 1
      BY <2>1
    <2>4. QED
      BY <1>2, <1>3, <2>1, <2>2, <2>3 DEF Sized
  <1>6. QED
    BY <1>4, <1>5

\* The steps that touch no message.
LEMMA OtherSized ==
    ASSUME Shape, Sized, OneEach,
           \/ (\E s \in Sources : AbandonSearch(s)) \/ AbandonStream \/ FinishStream
           \/ Disconnect \/ Cancel \/ UNCHANGED vars
    PROVE  Sized' /\ OneEach'
  <1>1. /\ UNCHANGED <<outcome, messages, current, skipped, completed, succeeded>>
        /\ connected' \in BOOLEAN /\ cancelled' \in BOOLEAN
    BY DEF AbandonSearch, AbandonStream, FinishStream, Disconnect, Cancel, Return, vars, writerVars,
       Sized
  <1>2. \A s \in Sources : search[s] = "ended" => search'[s] = "ended"
    BY DEF AbandonSearch, AbandonStream, FinishStream, Disconnect, Cancel, vars, Shape
  <1>3. \A i \in DOMAIN messages : messages[i].source \in Sources
    BY MessageSource DEF Sized
  <1>4. QED
    BY <1>1, <1>2, <1>3 DEF Sized, OneEach

\* The goroutines never wait to send and the writer never counts more sources than
\* there are: every variable has its type.
THEOREM TypeCorrect == Spec => []TypeOK
  <1>1. Init => Sized /\ OneEach
    <2> SUFFICES ASSUME Init PROVE Sized /\ OneEach
      OBVIOUS
    <2>1. <<>> \in Seq(Message) /\ Len(<<>>) = 0 /\ DOMAIN <<>> = {}
      OBVIOUS
    <2>2. /\ connected = TRUE /\ cancelled = FALSE /\ messages = <<>> /\ current = <<>>
          /\ skipped = 0 /\ completed = 0 /\ succeeded = 0
          /\ outcome = [s \in Sources |-> <<>>]
      BY DEF Init
    <2>3. outcome \in [Sources -> Seq(Message)] /\ \A s \in Sources : Len(outcome[s]) <= 1
      BY <2>1, <2>2
    <2>4. OneEach
      BY <2>1, <2>2 DEF OneEach
    <2>5. messages \in Seq(Message)
      BY <2>2
    <2>6. current \in Seq(Message) /\ Len(current) <= 1
      BY <2>1, <2>2
    <2>7. skipped <= MaxReleases /\ completed <= Cardinality(Sources) /\ succeeded <= completed
      BY <2>2, Sizes
    <2>8. connected \in BOOLEAN /\ cancelled \in BOOLEAN /\ current = <<>>
      BY <2>2
    <2> HIDE DEF Message
    <2>9. QED
      BY <2>3, <2>4, <2>5, <2>6, <2>7, <2>8 DEF Sized
  <1>2. Shape /\ Sized /\ OneEach /\ [Next]_vars => (Sized /\ OneEach)'
    BY EndSearchSized, TakeMessageSized, TellSized, OtherSized DEF Next
  <1>3. IInv => Shape
    BY DEF IInv
  <1>4. Shape /\ Sized /\ OneEach => TypeOK
    <2> SUFFICES ASSUME Shape, Sized, OneEach PROVE TypeOK
      OBVIOUS
    <2>1. Len(messages) <= Cardinality(Sources)
      BY ChannelHasRoom DEF Sized
    <2>2. /\ skipped \in 0..MaxReleases /\ completed \in 0..Cardinality(Sources)
          /\ succeeded \in 0..completed
      BY Sizes DEF Shape, Sized
    <2>3. QED
      BY <2>1, <2>2 DEF Shape, Sized, TypeOK
  <1>5. QED
    BY <1>1, <1>2, <1>3, <1>4, Inductive, PTL DEF Spec
=============================================================================
