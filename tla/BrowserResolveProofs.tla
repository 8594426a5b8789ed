------------------------ MODULE BrowserResolveProofs ------------------------
(***************************************************************************)
(* Proofs about BrowserResolve, for every set of pages, rules and events,  *)
(* every limit and either kind of backend: no nesting of players leads the *)
(* resolver outside the source's hosts, and no media it was told of in     *)
(* time is overlooked.                                                     *)
(***************************************************************************)
EXTENDS BrowserResolve, FiniteSetTheorems, TLAPS

-----------------------------------------------------------------------------
(* The inductive invariant                                                 *)

Shape ==
    /\ step \in {"opening", "reading", "navigating", "stopping", "returned"}
    /\ depth \in Nat
    /\ navigations \in Nat
    /\ opened \in Seq(Urls)
    /\ events \in Seq(Event)
    /\ next \in Urls /\ found \in Urls

\* What is opened next was found inside; what is returned was admitted.
Sound ==
    /\ next \in Inside
    /\ outcome = "nested" => found \in Inside
    /\ outcome = "media" => found \in Public \cap Playable

\* The pages opened so far are told apart and counted in one of two ways: by the
\* sessions of a backend that opens each in a session of its own, or by the only
\* session of a backend that navigates.
Counted ==
    IF navigates
    THEN /\ outcome # "nested"
         /\ step = "opening" => opened = <<>>
         /\ Len(opened) <= navigations + 1
         /\ \A i \in DOMAIN opened : opened[i] \in nestedVisited
    ELSE /\ Len(opened) = depth
         /\ depth <= Limit
         /\ \A i \in DOMAIN opened : opened[i] \in visited

OpenedWell ==
    /\ Len(opened) <= Limit
    /\ \A i \in DOMAIN opened : opened[i] \in Inside
    /\ \A i, j \in DOMAIN opened : i # j => opened[i] # opened[j]

\* Media the resolver must not overlook.
Wanted(e) == IsMedia(e) /\ Captured[e.url] \in Playable

\* They lie in the channel until the reading ends.
Delivered ==
    /\ step \in {"opening", "reading", "navigating"} => outcome # "stopped"
    /\ step \in {"reading", "navigating"} =>
         \A e \in received : Wanted(e) => \E i \in DOMAIN events : events[i] = e
    /\ outcome = "stopped" => \A e \in received : ~Wanted(e)

IInv == Shape /\ Sound /\ Counted /\ OpenedWell /\ Delivered

-----------------------------------------------------------------------------
(* Sequences                                                               *)

\* A page that is opened comes last and moves no other.
LEMMA AppendFacts ==
    ASSUME NEW S, NEW q \in Seq(S), NEW e \in S
    PROVE  /\ Append(q, e) \in Seq(S)
           /\ Len(q) \in Nat /\ DOMAIN q = 1..Len(q)
           /\ DOMAIN Append(q, e) = 1..(Len(q) + 1)
           /\ Len(Append(q, e)) = Len(q) + 1 /\ Append(q, e) # <<>>
           /\ Append(q, e)[Len(q) + 1] = e
           /\ \A i \in DOMAIN q : Append(q, e)[i] = q[i]
  OBVIOUS

\* Reading removes the first element only.
LEMMA TailFacts ==
    ASSUME NEW S, NEW q \in Seq(S), 1 \in DOMAIN q
    PROVE  /\ Tail(q) \in Seq(S)
           /\ \A i \in DOMAIN q : i # 1 => i - 1 \in DOMAIN Tail(q) /\ Tail(q)[i - 1] = q[i]
  <1>1. Len(q) \in Nat /\ DOMAIN q = 1..Len(q) /\ q # <<>>
    OBVIOUS
  <1>2. Tail(q) \in Seq(S) /\ Len(Tail(q)) = Len(q) - 1
    BY <1>1
  <1>3. DOMAIN Tail(q) = 1..(Len(q) - 1)
    BY <1>1, <1>2
  <1>4. \A i \in 1..(Len(q) - 1) : Tail(q)[i] = q[i + 1]
    BY <1>1
  <1>5. QED
    BY <1>1, <1>2, <1>3, <1>4

\* A page that is new, inside and within the limit may be opened.
LEMMA OpensWell ==
    ASSUME Shape, OpenedWell, NEW url \in Inside, opened' = Append(opened, url),
           Len(opened) < Limit, \A i \in DOMAIN opened : opened[i] # url
    PROVE  /\ OpenedWell' /\ opened' \in Seq(Urls)
           /\ Len(opened') = Len(opened) + 1
           /\ \A i \in DOMAIN opened' : opened'[i] = url \/ \E j \in DOMAIN opened : opened'[i] = opened[j]
  <1>1. Inside \subseteq Urls /\ Limit \in Nat
    BY ResolveAssumption
  <1>2. /\ opened' \in Seq(Urls)
        /\ Len(opened) \in Nat /\ DOMAIN opened = 1..Len(opened)
        /\ DOMAIN opened' = 1..(Len(opened) + 1) /\ Len(opened') = Len(opened) + 1
        /\ opened'[Len(opened) + 1] = url
        /\ \A i \in DOMAIN opened : opened'[i] = opened[i]
    BY <1>1, AppendFacts DEF Shape
  <1>3. Len(opened') <= Limit
    BY <1>1, <1>2
  <1>4. \A i \in DOMAIN opened' : opened'[i] \in Inside
    BY <1>2 DEF OpenedWell
  <1>5. \A i, j \in DOMAIN opened' : i # j => opened'[i] # opened'[j]
    BY <1>2 DEF OpenedWell
  <1>6. QED
    BY <1>2, <1>3, <1>4, <1>5 DEF OpenedWell

-----------------------------------------------------------------------------
(* Every step keeps the invariant                                          *)

\* A session is opened at a page that no session was opened at.
LEMMA OpenSessionStep ==
    ASSUME IInv, OpenSession
    PROVE  IInv'
  <1>1. /\ step = "opening" /\ step' = "reading"
        /\ depth # Limit /\ next \notin visited
        /\ depth' = depth + 1 /\ visited' = visited \cup {next}
        /\ nestedVisited' = {next} /\ navigations' = 0
        /\ events' = <<>> /\ received' = {}
        /\ opened' = Append(opened, next)
        /\ UNCHANGED <<navigates, next, outcome, found>>
    BY DEF OpenSession, Exhausted
  <1>2. Limit \in Nat \ {0}
    BY ResolveAssumption
  <1>3. next \in Inside /\ Shape /\ OpenedWell /\ Len(opened) \in Nat
    BY DEF IInv, Sound, Shape
  <1>4. Len(opened) < Limit /\ \A i \in DOMAIN opened : opened[i] # next
    <2>1. CASE navigates
      <3>1. opened = <<>>
        BY <1>1, <2>1 DEF IInv, Counted
      <3>2. QED
        BY <1>2, <3>1
    <2>2. CASE ~navigates
      <3>1. /\ Len(opened) = depth /\ depth <= Limit
            /\ \A i \in DOMAIN opened : opened[i] \in visited
        BY <2>2 DEF IInv, Counted
      <3>2. QED
        BY <1>1, <1>2, <1>3, <3>1
    <2>3. QED
      BY <2>1, <2>2
  <1>5. /\ OpenedWell' /\ opened' \in Seq(Urls)
        /\ Len(opened') = Len(opened) + 1
        /\ \A i \in DOMAIN opened' :
             opened'[i] = next \/ \E j \in DOMAIN opened : opened'[i] = opened[j]
    BY <1>1, <1>3, <1>4, OpensWell
  <1>6. Shape'
    BY <1>1, <1>3, <1>5 DEF Shape
  <1>7. Counted'
    <2>1. CASE navigates
      <3>1. opened = <<>> /\ outcome # "nested"
        BY <1>1, <2>1 DEF IInv, Counted
      <3>2. Len(opened') <= navigations' + 1
        BY <1>1, <1>5, <3>1
      <3>3. \A i \in DOMAIN opened' : opened'[i] \in nestedVisited'
        BY <1>1, <1>5, <3>1
      <3>4. QED
        BY <1>1, <2>1, <3>1, <3>2, <3>3 DEF Counted
    <2>2. CASE ~navigates
      <3>1. /\ Len(opened) = depth
            /\ \A i \in DOMAIN opened : opened[i] \in visited
        BY <2>2 DEF IInv, Counted
      <3>2. Len(opened') = depth' /\ depth' <= Limit
        BY <1>1, <1>2, <1>4, <1>5, <3>1 DEF IInv, Shape
      <3>3. \A i \in DOMAIN opened' : opened'[i] \in visited'
        BY <1>1, <1>5, <3>1
      <3>4. QED
        BY <1>1, <2>2, <3>2, <3>3 DEF Counted
    <2>3. QED
      BY <2>1, <2>2
  <1>8. Sound' /\ Delivered'
    BY <1>1 DEF IInv, Sound, Delivered
  <1>9. QED
    BY <1>5, <1>6, <1>7, <1>8 DEF IInv

\* A step that opens nothing: the pages keep their count when nothing is forgotten.
LEMMA NothingOpened ==
    ASSUME Shape, Counted, OpenedWell, UNCHANGED <<opened, navigates, depth, visited>>,
           navigations' \in Nat, navigations <= navigations',
           nestedVisited \subseteq nestedVisited',
           step' = "opening" => step = "opening" \/ ~navigates,
           outcome' = "nested" => outcome = "nested" \/ ~navigates
    PROVE  Counted' /\ OpenedWell'
  <1>1. OpenedWell'
    BY DEF OpenedWell
  <1>2. CASE navigates
    <2>1. Len(opened) \in Nat
      BY DEF Shape
    <2>2. /\ outcome' # "nested"
          /\ step' = "opening" => opened = <<>>
          /\ Len(opened) <= navigations + 1
          /\ \A i \in DOMAIN opened : opened[i] \in nestedVisited'
      BY <1>2 DEF Counted
    <2>3. Len(opened) <= navigations' + 1
      BY <2>1, <2>2 DEF Shape
    <2>4. QED
      BY <1>1, <1>2, <2>2, <2>3 DEF Counted
  <1>3. CASE ~navigates
    BY <1>1, <1>3 DEF Counted
  <1>4. QED
    BY <1>2, <1>3

\* Reading takes the first event; the others stay.
LEMMA ReadFacts ==
    ASSUME Shape, NEW e \in NextEvent, NEW inside \in BOOLEAN, Read(e, inside)
    PROVE  /\ step = "reading" /\ e \in Event
           /\ events' \in Seq(Event)
           /\ \A i \in DOMAIN events : events[i] = e \/ \E j \in DOMAIN events' : events'[j] = events[i]
           /\ UNCHANGED <<navigates, depth, visited, next, received>>
  <1>1. /\ step = "reading" /\ events' = Tail(events)
        /\ UNCHANGED <<navigates, depth, visited, next, received>>
    BY DEF Read, loop
  <1>2. 1 \in DOMAIN events /\ e = events[1]
    BY DEF NextEvent
  <1>3. events \in Seq(Event)
    BY DEF Shape
  <1>4. e \in Event
    BY <1>2, <1>3
  <1>5. /\ events' \in Seq(Event)
        /\ \A i \in DOMAIN events : i # 1 => i - 1 \in DOMAIN events' /\ events'[i - 1] = events[i]
    BY <1>1, <1>2, <1>3, TailFacts
  <1>6. QED
    BY <1>1, <1>2, <1>4, <1>5

\* What was delivered still is when the event read was not wanted.
LEMMA ReadOnKeeps ==
    ASSUME Shape, Delivered, step = "reading", NEW e, ~Wanted(e),
           \A i \in DOMAIN events : events[i] = e \/ \E j \in DOMAIN events' : events'[j] = events[i],
           UNCHANGED <<received, outcome>>, step' \in {"reading", "navigating"}
    PROVE  Delivered'
  <1>1. \A x \in received : Wanted(x) => \E i \in DOMAIN events' : events'[i] = x
    BY DEF Delivered
  <1>2. QED
    BY <1>1 DEF Delivered, Wanted, IsMedia

\* An event is read and the session is left, for any reason but that it has stopped.
LEMMA StoppedReading ==
    ASSUME IInv, NEW how \in {"media", "nested", "unsafe", "timeout", "failed"}, NEW url \in Urls,
           Stop(how, url), events' \in Seq(Event), navigations' \in Nat, navigations <= navigations',
           nestedVisited \subseteq nestedVisited',
           UNCHANGED <<navigates, depth, visited, next, opened, received>>,
           how = "nested" => ~navigates /\ url \in Inside,
           how = "media" => url \in Public \cap Playable
    PROVE  IInv'
  <1>1. step' = "stopping" /\ outcome' = how /\ found' = url
    BY DEF Stop
  <1>2. Shape'
    BY <1>1 DEF IInv, Shape
  <1>3. Sound'
    BY <1>1 DEF IInv, Sound
  <1>4. Delivered'
    BY <1>1 DEF Delivered
  <1>5. Counted' /\ OpenedWell'
    BY <1>1, NothingOpened DEF IInv
  <1>6. QED
    BY <1>2, <1>3, <1>4, <1>5 DEF IInv

\* The events after which nothing is opened and nothing navigated to.
LEMMA ReadStopStep ==
    ASSUME IInv, ReadRefused \/ ReadNestedRefused \/ ReadMedia \/ ReadUnsafeMedia
    PROVE  IInv'
  <1>0. found \in Urls /\ Playable \subseteq Urls
    BY ResolveAssumption DEF IInv, Shape
  <1>1. PICK e \in NextEvent, inside \in BOOLEAN, how \in {"media", "unsafe", "failed"}, url \in Urls :
          /\ Read(e, inside) /\ Stop(how, url)
          /\ UNCHANGED <<nestedVisited, navigations, opened>>
          /\ how # "media" => url = found
          /\ how = "media" => url \in Public \cap Playable
    <2>1. CASE ReadRefused
      BY <1>0, <2>1 DEF ReadRefused
    <2>2. CASE ReadNestedRefused
      BY <1>0, <2>2 DEF ReadNestedRefused
    <2>3. CASE ReadUnsafeMedia
      BY <1>0, <2>3 DEF ReadUnsafeMedia
    <2>4. CASE ReadMedia
      <3>1. PICK e \in NextEvent, inside \in BOOLEAN, public \in BOOLEAN :
              /\ Read(e, inside) /\ Stop("media", Captured[e.url])
              /\ UNCHANGED <<nestedVisited, navigations, opened>>
              /\ public => Captured[e.url] \in Public
              /\ Usable(Captured[e.url], public)
        BY <2>4 DEF ReadMedia
      <3>2. Captured[e.url] \in Public \cap Playable
        BY <3>1, Zenon DEF Usable
      <3>3. QED
        BY <1>0, <3>1, <3>2
    <2>5. QED
      BY <2>1, <2>2, <2>3, <2>4
  <1>2. /\ events' \in Seq(Event)
        /\ UNCHANGED <<navigates, depth, visited, next, received>>
    BY <1>1, ReadFacts DEF IInv
  <1>3. navigations \in Nat
    BY DEF IInv, Shape
  <1>4. QED
    BY <1>1, <1>2, <1>3, StoppedReading

\* The browser moved to a page of its own accord.
LEMMA ReadMoveStep ==
    ASSUME IInv, ReadMove
    PROVE  IInv'
  <1>1. PICK e \in NextEvent :
          /\ Read(e, TRUE) /\ IsMove(e) /\ UNCHANGED opened
          /\ navigations' = navigations + 1
          /\ \/ Stop("failed", found) /\ UNCHANGED nestedVisited
             \/ /\ nestedVisited' = nestedVisited \cup {e.url}
                /\ UNCHANGED <<step, outcome, found>>
    BY DEF ReadMove
  <1>2. /\ step = "reading" /\ e \in Event /\ events' \in Seq(Event)
        /\ \A i \in DOMAIN events : events[i] = e \/ \E j \in DOMAIN events' : events'[j] = events[i]
        /\ UNCHANGED <<navigates, depth, visited, next, received>>
    BY <1>1, ReadFacts DEF IInv
  <1>3. navigations' \in Nat /\ navigations <= navigations' /\ found \in Urls
    BY <1>1 DEF IInv, Shape
  <1>4. CASE Stop("failed", found) /\ UNCHANGED nestedVisited
    BY <1>1, <1>2, <1>3, <1>4, StoppedReading
  <1>5. CASE nestedVisited' = nestedVisited \cup {e.url} /\ UNCHANGED <<step, outcome, found>>
    <2>1. ~Wanted(e)
      BY <1>1 DEF IsMove, IsPlayer, Wanted, IsMedia
    <2>2. Delivered'
      BY <1>2, <1>5, <2>1, ReadOnKeeps DEF IInv
    <2>3. Counted' /\ OpenedWell'
      BY <1>1, <1>2, <1>3, <1>5, NothingOpened DEF IInv
    <2>4. Shape' /\ Sound'
      BY <1>1, <1>2, <1>3, <1>5 DEF IInv, Shape, Sound
    <2>5. QED
      BY <2>2, <2>3, <2>4 DEF IInv
  <1>6. QED
    BY <1>1, <1>4, <1>5

\* A player in an iframe is opened in this session or handed to the next.
LEMMA ReadNestedStep ==
    ASSUME IInv, ReadNested
    PROVE  IInv'
  <1>1. PICK e \in NextEvent, inside \in BOOLEAN :
          /\ Read(e, inside) /\ IsNested(e, inside) /\ Fresh(e.url)
          /\ navigations' = navigations + 1
          /\ nestedVisited' = nestedVisited \cup {e.url}
          /\ IF navigates
             THEN /\ step' = "navigating" /\ opened' = Append(opened, e.url)
                  /\ UNCHANGED <<outcome, found>>
             ELSE Stop("nested", e.url) /\ UNCHANGED opened
    BY DEF ReadNested
  <1>2. /\ step = "reading" /\ e \in Event /\ events' \in Seq(Event)
        /\ \A i \in DOMAIN events : events[i] = e \/ \E j \in DOMAIN events' : events'[j] = events[i]
        /\ UNCHANGED <<navigates, depth, visited, next, received>>
    BY <1>1, ReadFacts DEF IInv
  <1>3. e.url \in Inside
    BY <1>1, Zenon DEF IsNested, Read
  <1>4. e.url \in Urls /\ Limit \in Nat
    BY <1>3, ResolveAssumption
  <1>5. navigations \in Nat /\ navigations' \in Nat /\ navigations <= navigations'
    BY <1>1 DEF IInv, Shape
  <1>6. CASE ~navigates
    BY <1>1, <1>2, <1>3, <1>4, <1>5, <1>6, StoppedReading
  <1>7. CASE navigates
    <2>1. ~Wanted(e)
      BY <1>1 DEF IsNested, IsPlayer, Wanted, IsMedia
    <2>2. Delivered'
      BY <1>1, <1>2, <1>7, <2>1, ReadOnKeeps DEF IInv
    <2>3. /\ Len(opened) <= navigations + 1 /\ outcome # "nested" /\ Len(opened) \in Nat
          /\ \A i \in DOMAIN opened : opened[i] \in nestedVisited
      BY <1>7 DEF IInv, Counted, Shape
    <2>4. e.url \notin nestedVisited /\ navigations + 1 < Limit
      BY <1>1 DEF Fresh
    <2>5. Len(opened) < Limit
      BY <1>4, <1>5, <2>3, <2>4
    <2>6. /\ OpenedWell' /\ opened' \in Seq(Urls)
          /\ Len(opened') = Len(opened) + 1
          /\ \A i \in DOMAIN opened' :
               opened'[i] = e.url \/ \E j \in DOMAIN opened : opened'[i] = opened[j]
      BY <1>1, <1>3, <1>7, <2>3, <2>4, <2>5, OpensWell DEF IInv
    <2>7. Len(opened') <= navigations' + 1
      BY <1>1, <1>5, <2>3, <2>6
    <2>8. \A i \in DOMAIN opened' : opened'[i] \in nestedVisited'
      BY <1>1, <2>3, <2>6
    <2>9. Counted'
      BY <1>1, <1>2, <1>7, <2>3, <2>7, <2>8 DEF Counted
    <2>10. Shape' /\ Sound'
      BY <1>1, <1>2, <1>5, <1>7, <2>6 DEF IInv, Shape, Sound
    <2>11. QED
      BY <2>2, <2>6, <2>9, <2>10 DEF IInv
  <1>8. QED
    BY <1>6, <1>7

\* The other events leave no trace.
LEMMA ReadOtherStep ==
    ASSUME IInv, ReadOther
    PROVE  IInv'
  <1>1. PICK e \in NextEvent, inside \in BOOLEAN :
          /\ Read(e, inside)
          /\ e.kind = "failed" \/ (IsMedia(e) => Captured[e.url] \in Public \ Playable)
          /\ UNCHANGED <<step, outcome, found, nestedVisited, navigations, opened>>
    BY DEF ReadOther
  <1>2. /\ step = "reading" /\ e \in Event /\ events' \in Seq(Event)
        /\ \A i \in DOMAIN events : events[i] = e \/ \E j \in DOMAIN events' : events'[j] = events[i]
        /\ UNCHANGED <<navigates, depth, visited, next, received>>
    BY <1>1, ReadFacts DEF IInv
  <1>3. ~Wanted(e)
    BY <1>1 DEF Wanted, IsMedia
  <1>4. Delivered'
    BY <1>1, <1>2, <1>3, ReadOnKeeps DEF IInv
  <1>5. Counted' /\ OpenedWell'
    BY <1>1, <1>2, NothingOpened DEF IInv, Shape
  <1>6. Shape' /\ Sound'
    BY <1>1, <1>2 DEF IInv, Shape, Sound
  <1>7. QED
    BY <1>4, <1>5, <1>6 DEF IInv

\* An event that reaches the channel is last in it.
LEMMA EmitStep ==
    ASSUME IInv, NEW e \in Events, Emit(e)
    PROVE  IInv'
  <1>1. /\ step \in {"reading", "navigating"}
        /\ UNCHANGED <<navigates, step, depth, visited, next, nestedVisited, navigations, outcome,
                       found, opened>>
        /\ \/ events' = Append(events, e) /\ received' = received \cup {e}
           \/ UNCHANGED <<events, received>>
    BY DEF Emit, loop
  <1>2. e \in Event /\ events \in Seq(Event)
    BY ResolveAssumption DEF IInv, Shape
  <1>3. /\ events' \in Seq(Event)
        /\ \A x \in received' : Wanted(x) => \E i \in DOMAIN events' : events'[i] = x
    <2>1. \A x \in received : Wanted(x) => \E i \in DOMAIN events : events[i] = x
      BY <1>1 DEF IInv, Delivered
    <2>2. CASE events' = Append(events, e) /\ received' = received \cup {e}
      <3>1. /\ events' \in Seq(Event) /\ Len(events) \in Nat
            /\ DOMAIN events = 1..Len(events) /\ DOMAIN events' = 1..(Len(events) + 1)
            /\ events'[Len(events) + 1] = e
            /\ \A i \in DOMAIN events : events'[i] = events[i]
        BY <1>2, <2>2, AppendFacts
      <3>2. \E i \in DOMAIN events' : events'[i] = e
        BY <3>1
      <3>3. \A x \in received : Wanted(x) => \E i \in DOMAIN events' : events'[i] = x
        BY <2>1, <3>1
      <3>4. QED
        BY <2>2, <3>1, <3>2, <3>3
    <2>3. CASE UNCHANGED <<events, received>>
      BY <1>2, <2>1, <2>3
    <2>4. QED
      BY <1>1, <2>2, <2>3
  <1>4. Delivered'
    <2>1. outcome # "stopped"
      BY <1>1 DEF IInv, Delivered
    <2>2. QED
      BY <1>1, <1>3, <2>1 DEF Delivered, Wanted, IsMedia
  <1>5. Counted' /\ OpenedWell'
    BY <1>1, NothingOpened DEF IInv, Shape
  <1>6. Shape' /\ Sound'
    BY <1>1, <1>3 DEF IInv, Shape, Sound
  <1>7. QED
    BY <1>4, <1>5, <1>6 DEF IInv

\* The browser has stopped and its channel is empty.
LEMMA DrainedStep ==
    ASSUME IInv, Drained
    PROVE  IInv'
  <1>1. /\ step = "reading" /\ events = <<>>
        /\ step' = "stopping" /\ outcome' = "stopped" /\ found' = found
        /\ UNCHANGED <<navigates, depth, visited, next, events, nestedVisited, navigations, opened,
                       received>>
    BY DEF Drained, Stop, loop, reading
  <1>2. \A x \in received : ~Wanted(x)
    BY <1>1 DEF IInv, Delivered
  <1>3. Delivered'
    BY <1>1, <1>2 DEF Delivered, Wanted, IsMedia
  <1>4. Counted' /\ OpenedWell'
    BY <1>1, NothingOpened DEF IInv, Shape
  <1>5. Shape' /\ Sound'
    BY <1>1 DEF IInv, Shape, Sound
  <1>6. QED
    BY <1>3, <1>4, <1>5 DEF IInv

\* The next session is opened at the player the last one handed on.
LEMMA LeaveSessionStep ==
    ASSUME IInv, LeaveSession
    PROVE  IInv'
  <1>1. /\ UNCHANGED <<navigates, depth, visited, events, nestedVisited, navigations, outcome, found,
                       opened, received>>
        /\ \/ outcome = "nested" /\ step' = "opening" /\ next' = found
           \/ outcome # "nested" /\ step' = "returned" /\ UNCHANGED next
    BY DEF LeaveSession, reading
  <1>2. outcome = "nested" => ~navigates
    BY DEF IInv, Counted
  <1>3. Counted' /\ OpenedWell'
    BY <1>1, <1>2, NothingOpened DEF IInv, Shape
  <1>4. Delivered'
    BY <1>1 DEF IInv, Delivered, Wanted, IsMedia
  <1>5. Shape' /\ Sound'
    BY <1>1 DEF IInv, Shape, Sound
  <1>6. QED
    BY <1>3, <1>4, <1>5 DEF IInv

\* Steps that stop without reading an event.
LEMMA StopStep ==
    ASSUME IInv, Expired \/ NavigateEnds \/ GiveUp
    PROVE  IInv'
  <1>1. navigations \in Nat /\ events \in Seq(Event) /\ found \in Urls
    BY DEF IInv, Shape
  <1>2. CASE Expired \/ (NavigateEnds /\ step' # "reading")
    <2>1. PICK how \in {"timeout", "failed"} :
            /\ Stop(how, found)
            /\ UNCHANGED <<navigates, depth, visited, next, events, nestedVisited, navigations,
                           opened, received>>
      BY <1>2 DEF Expired, NavigateEnds, loop, reading
    <2>2. QED
      BY <1>1, <2>1, StoppedReading
  <1>3. CASE NavigateEnds /\ step' = "reading"
    <2>1. /\ step = "navigating"
          /\ UNCHANGED <<navigates, depth, visited, next, events, nestedVisited, navigations,
                         opened, received, outcome, found>>
      BY <1>3 DEF NavigateEnds, Stop, loop, reading
    <2>2. Counted' /\ OpenedWell'
      BY <1>1, <1>3, <2>1, NothingOpened DEF IInv
    <2>3. Shape' /\ Sound' /\ Delivered'
      BY <1>3, <2>1 DEF IInv, Shape, Sound, Delivered, Wanted, IsMedia
    <2>4. QED
      BY <2>2, <2>3 DEF IInv
  <1>4. CASE GiveUp
    <2>1. /\ step' = "returned" /\ outcome' = "failed"
          /\ UNCHANGED <<navigates, depth, visited, next, events, nestedVisited, navigations,
                         opened, received, found>>
      BY <1>4 DEF GiveUp, loop, reading
    <2>2. Counted' /\ OpenedWell'
      BY <1>1, <2>1, NothingOpened DEF IInv
    <2>3. Shape' /\ Sound' /\ Delivered'
      BY <2>1 DEF IInv, Shape, Sound, Delivered
    <2>4. QED
      BY <2>2, <2>3 DEF IInv
  <1>5. QED
    BY <1>2, <1>3, <1>4

\* Steps of the sessions and of time change nothing the invariant is about.
LEMMA OutsideStep ==
    ASSUME IInv, UNCHANGED <<navigates, step, depth, visited, next, events, nestedVisited,
                             navigations, outcome, found, opened, received>>
    PROVE  IInv'
  <1>1. Counted' /\ OpenedWell'
    BY NothingOpened DEF IInv, Shape
  <1>2. Shape' /\ Sound' /\ Delivered'
    BY DEF IInv, Shape, Sound, Delivered, Wanted, IsMedia
  <1>3. QED
    BY <1>1, <1>2 DEF IInv

\* The invariant is inductive.
LEMMA Inductive == Spec => []IInv
  <1>1. Init => IInv
    <2> SUFFICES ASSUME Init PROVE IInv
      OBVIOUS
    <2>1. Entry \in Inside /\ Inside \subseteq Urls /\ Limit \in Nat
      BY ResolveAssumption
    <2>2. Shape /\ Sound
      BY <2>1 DEF Init, Shape, Sound
    <2>3. Counted /\ OpenedWell /\ Delivered
      BY <2>1 DEF Init, Counted, OpenedWell, Delivered
    <2>4. QED
      BY <2>2, <2>3 DEF IInv
  <1>2. IInv /\ [Next]_vars => IInv'
    <2> SUFFICES ASSUME IInv, [Next]_vars PROVE IInv'
      OBVIOUS
    <2>1. CASE ResolverStep
      <3>1. CASE OpenSession
        BY <3>1, OpenSessionStep
      <3>2. CASE GiveUp \/ Expired
        BY <3>2, StopStep
      <3>3. CASE LeaveSession
        BY <3>3, LeaveSessionStep
      <3>4. CASE ReceiveDone
        BY <3>4, OutsideStep DEF ReceiveDone, loop
      <3>5. CASE Drained
        BY <3>5, DrainedStep
      <3>6. CASE ReadRefused \/ ReadNestedRefused \/ ReadMedia \/ ReadUnsafeMedia
        BY <3>6, ReadStopStep
      <3>7. CASE ReadMove
        BY <3>7, ReadMoveStep
      <3>8. CASE ReadNested
        BY <3>8, ReadNestedStep
      <3>9. CASE ReadOther
        BY <3>9, ReadOtherStep
      <3>10. QED
        BY <2>1, <3>1, <3>2, <3>3, <3>4, <3>5, <3>6, <3>7, <3>8, <3>9 DEF ResolverStep
    <2>2. CASE NavigateEnds
      BY <2>2, StopStep
    <2>3. CASE \E e \in Events : Emit(e)
      BY <2>3, EmitStep
    <2>4. CASE (\E s \in Sessions : EndSession(s)) \/ Expire \/ UNCHANGED vars
      BY <2>4, OutsideStep DEF EndSession, Expire, vars, loop, reading
    <2>5. QED
      BY <2>1, <2>2, <2>3, <2>4 DEF Next
  <1>3. QED
    BY <1>1, <1>2, PTL DEF Spec

-----------------------------------------------------------------------------
(* The theorems                                                            *)

\* However players are nested and whatever the browser reports, the resolver opens
\* no page outside the source's hosts, none twice and no more than the limit, and
\* returns no media the egress policy refuses.
THEOREM PagesStayInside == Spec => []StaysInside
  <1>1. IInv => StaysInside
    BY DEF IInv, Sound, OpenedWell, StaysInside
  <1>2. QED
    BY <1>1, Inductive, PTL

\* A media response that reached the channel is not lost to the end of the browser
\* or of the session.
THEOREM MediaIsNotOverlooked == Spec => []DeliveredMediaCounts
  <1>1. IInv => DeliveredMediaCounts
    BY DEF IInv, Delivered, DeliveredMediaCounts, Wanted
  <1>2. QED
    BY <1>1, Inductive, PTL


-----------------------------------------------------------------------------
(* The bounds of a resolve                                                 *)

\* What is counted, and which sessions there are.
Bounded ==
    /\ navigates \in BOOLEAN /\ expired \in BOOLEAN /\ finished \in BOOLEAN
    /\ depth \in 0..Limit
    /\ visited \subseteq Urls /\ IsFiniteSet(visited) /\ Cardinality(visited) = depth
    /\ session \in [Sessions -> {"none", "running", "gone"}]
    /\ cancelled \subseteq Sessions
    /\ Len(events) <= Capacity
    /\ emitted \in 0..MaxEvents
    /\ page \in Urls /\ nestedVisited \subseteq Urls
    /\ navigations \in 0..Limit
    /\ redirects \in 0..(MaxRedirects + 1)
    /\ outcome \in {"none", "media", "nested", "stopped", "unsafe", "timeout", "failed"}
    /\ received \subseteq Event
    /\ step \in {"reading", "navigating"} =>
         /\ depth > 0 /\ session[depth] # "none"
         /\ navigations < Limit /\ redirects <= MaxRedirects

\* The limits are numbers, and there is room for a session.
LEMMA Limits ==
    /\ Limit \in Nat \ {0} /\ MaxRedirects \in Nat /\ Capacity \in Nat /\ MaxEvents \in Nat
    /\ Inside \subseteq Urls /\ Events \subseteq Event /\ Entry \in Urls
  BY ResolveAssumption

\* The session that is read is one of the sessions.
LEMMA Current ==
    ASSUME Bounded, step \in {"reading", "navigating"}
    PROVE  depth \in Sessions
  BY Limits DEF Bounded, Sessions

\* A session is opened with everything counted from the start again.
LEMMA OpenSessionBounded ==
    ASSUME Shape, Bounded, OpenSession
    PROVE  Bounded'
  <1>1. depth # Limit /\ next \notin visited /\ next \in Urls /\ depth \in 0..Limit
    BY DEF OpenSession, Exhausted, Shape, Bounded
  <1>2. depth' = depth + 1 /\ depth' \in 0..Limit /\ depth' > 0 /\ depth' \in Sessions
    BY <1>1, Limits DEF OpenSession, Sessions
  <1>3. visited' \subseteq Urls /\ IsFiniteSet(visited') /\ Cardinality(visited') = depth'
    <2>1. IsFiniteSet(visited) /\ Cardinality(visited) = depth /\ visited \subseteq Urls
      BY DEF Bounded
    <2>2. visited' = visited \cup {next}
      BY DEF OpenSession
    <2>3. IsFiniteSet(visited') /\ Cardinality(visited') = Cardinality(visited) + 1
      BY <1>1, <2>1, <2>2, FS_AddElement
    <2>4. QED
      BY <1>1, <1>2, <2>1, <2>2, <2>3
  <1>4. /\ session' \in [Sessions -> {"none", "running", "gone"}]
        /\ session'[depth'] # "none"
    BY <1>2 DEF OpenSession, Bounded
  <1>5. /\ Len(events') = 0 /\ emitted' = 0 /\ finished' = FALSE /\ page' = next
        /\ nestedVisited' = {next} /\ navigations' = 0 /\ redirects' = 0 /\ received' = {}
        /\ UNCHANGED <<navigates, expired, cancelled, outcome>>
    <2>1. Len(<<>>) = 0
      OBVIOUS
    <2>2. QED
      BY <2>1 DEF OpenSession
  <1>6. /\ Len(events') <= Capacity /\ emitted' \in 0..MaxEvents
        /\ navigations' \in 0..Limit /\ redirects' \in 0..(MaxRedirects + 1)
        /\ navigations' < Limit /\ redirects' <= MaxRedirects
    BY <1>5, Limits
  <1>7. QED
    BY <1>1, <1>2, <1>3, <1>4, <1>5, <1>6 DEF Bounded

\* What no reading changes.
LEMMA ReadBounded ==
    ASSUME Shape, Bounded, NEW e \in NextEvent, NEW inside, Read(e, inside)
    PROVE  /\ depth \in Sessions /\ e \in Event /\ e.url \in Urls
           /\ Len(events') <= Capacity
           /\ redirects' \in 0..(MaxRedirects + 1)
           /\ navigations \in Nat /\ navigations < Limit
           /\ session[depth] # "none" /\ depth > 0
           /\ UNCHANGED <<navigates, expired, depth, visited, session, emitted, finished, received>>
  <1>1. /\ step = "reading" /\ events' = Tail(events) /\ redirects' = Redirects(e)
        /\ UNCHANGED <<navigates, expired, depth, visited, session, emitted, finished, received>>
    BY DEF Read, loop
  <1>2. 1 \in DOMAIN events /\ e = events[1] /\ events \in Seq(Event)
    BY DEF NextEvent, Shape
  <1>3. e \in Event /\ e.url \in Urls
    <2>1. e \in Event
      BY <1>2
    <2>2. QED
      BY <2>1 DEF Event
  <1>4. Len(events') <= Capacity
    BY <1>1, <1>2, Limits DEF Bounded
  <1>5. redirects' \in 0..(MaxRedirects + 1)
    BY <1>1, Limits DEF Bounded, Redirects
  <1>6. QED
    BY <1>1, <1>3, <1>4, <1>5, Current DEF Bounded

\* Stopping a session cancels one of the sessions.
LEMMA StopBounded ==
    ASSUME depth \in Sessions, cancelled \subseteq Sessions, NEW how, NEW url, Stop(how, url)
    PROVE  cancelled' \subseteq Sessions /\ step' = "stopping" /\ outcome' = how
  BY DEF Stop

\* A reading that ends the session.
LEMMA ReadStopBounded ==
    ASSUME Shape, Bounded, ReadRefused \/ ReadNestedRefused \/ ReadMedia \/ ReadUnsafeMedia
    PROVE  Bounded'
  <1>1. PICK e \in NextEvent, inside \in BOOLEAN, how \in {"media", "unsafe", "failed"} :
          /\ Read(e, inside) /\ (\E url : Stop(how, url))
          /\ UNCHANGED <<page, nestedVisited, navigations>>
    BY DEF ReadRefused, ReadNestedRefused, ReadMedia, ReadUnsafeMedia
  <1>2. cancelled' \subseteq Sessions /\ step' = "stopping" /\ outcome' = how
    BY <1>1, ReadBounded, StopBounded DEF Bounded
  <1>3. /\ Len(events') <= Capacity /\ redirects' \in 0..(MaxRedirects + 1)
        /\ UNCHANGED <<navigates, expired, depth, visited, session, emitted, finished, received>>
    BY <1>1, ReadBounded
  <1>4. QED
    BY <1>1, <1>2, <1>3 DEF Bounded

\* A move or a nested player is one more, and the last one ends the session.
LEMMA ReadOnBounded ==
    ASSUME Shape, Bounded, ReadMove \/ ReadNested \/ ReadOther
    PROVE  Bounded'
  <1>1. CASE ReadMove
    <2>1. PICK e \in NextEvent :
            /\ Read(e, TRUE) /\ redirects' <= MaxRedirects
            /\ navigations' = navigations + 1
            /\ \/ /\ navigations' >= Limit
                  /\ Stop("failed", found) /\ UNCHANGED <<page, nestedVisited>>
               \/ /\ ~(navigations' >= Limit)
                  /\ page' = e.url
                  /\ nestedVisited' = nestedVisited \cup {e.url}
                  /\ UNCHANGED <<step, outcome, found, cancelled>>
      BY <1>1 DEF ReadMove, Admitted
    <2>2. /\ depth \in Sessions /\ e.url \in Urls /\ Len(events') <= Capacity
          /\ redirects' \in 0..(MaxRedirects + 1)
          /\ navigations \in Nat /\ navigations < Limit /\ session[depth] # "none" /\ depth > 0
          /\ UNCHANGED <<navigates, expired, depth, visited, session, emitted, finished, received>>
      BY <2>1, ReadBounded
    <2>3. navigations' \in 0..Limit
      BY <2>1, <2>2, Limits
    <2>4. CASE navigations' >= Limit
      <3>1. cancelled' \subseteq Sessions /\ step' = "stopping" /\ outcome' = "failed"
        BY <2>1, <2>2, <2>4, StopBounded DEF Bounded
      <3>2. UNCHANGED <<page, nestedVisited>>
        BY <2>1, <2>4
      <3>3. QED
        BY <2>2, <2>3, <3>1, <3>2 DEF Bounded
    <2>5. CASE ~(navigations' >= Limit)
      <3>1. /\ page' = e.url /\ nestedVisited' = nestedVisited \cup {e.url}
            /\ UNCHANGED <<step, outcome, cancelled>>
        BY <2>1, <2>5
      <3>2. navigations' < Limit
        BY <2>3, <2>5, Limits
      <3>3. QED
        BY <2>1, <2>2, <2>3, <3>1, <3>2 DEF Bounded
    <2>6. QED
      BY <2>4, <2>5
  <1>2. CASE ReadNested
    <2>1. PICK e \in NextEvent, inside \in BOOLEAN :
            /\ Read(e, inside) /\ redirects' <= MaxRedirects
            /\ navigations' = navigations + 1 /\ navigations + 1 < Limit
            /\ nestedVisited' = nestedVisited \cup {e.url}
            /\ \/ page' = e.url /\ step' = "navigating" /\ UNCHANGED <<outcome, cancelled>>
               \/ Stop("nested", e.url) /\ UNCHANGED page
      BY <1>2 DEF ReadNested, Admitted, Fresh
    <2>2. /\ depth \in Sessions /\ e.url \in Urls /\ Len(events') <= Capacity
          /\ redirects' \in 0..(MaxRedirects + 1)
          /\ navigations \in Nat /\ navigations < Limit /\ session[depth] # "none" /\ depth > 0
          /\ UNCHANGED <<navigates, expired, depth, visited, session, emitted, finished, received>>
      BY <2>1, ReadBounded
    <2>3. navigations' \in 0..Limit /\ navigations' < Limit
      BY <2>1, <2>2, Limits
    <2>4. CASE page' = e.url /\ step' = "navigating" /\ UNCHANGED <<outcome, cancelled>>
      BY <2>1, <2>2, <2>3, <2>4 DEF Bounded
    <2>5. CASE Stop("nested", e.url) /\ UNCHANGED page
      <3>1. cancelled' \subseteq Sessions /\ step' = "stopping" /\ outcome' = "nested"
        BY <2>2, <2>5, StopBounded DEF Bounded
      <3>2. QED
        BY <2>1, <2>2, <2>3, <2>5, <3>1 DEF Bounded
    <2>6. QED
      BY <2>1, <2>4, <2>5
  <1>3. CASE ReadOther
    <2>1. PICK e \in NextEvent, inside \in BOOLEAN :
            /\ Read(e, inside)
            /\ e.kind = "failed" \/ redirects' <= MaxRedirects
            /\ UNCHANGED <<step, cancelled, outcome, page, nestedVisited, navigations>>
      BY <1>3 DEF ReadOther, Admitted
    <2>2. /\ Len(events') <= Capacity /\ redirects' \in 0..(MaxRedirects + 1)
          /\ UNCHANGED <<navigates, expired, depth, visited, session, emitted, finished, received>>
      BY <2>1, ReadBounded
    <2>3. redirects' <= MaxRedirects
      <3>1. step = "reading" /\ redirects' = Redirects(e)
        BY <2>1 DEF Read
      <3>2. e.kind = "failed" => redirects' = redirects
        BY <3>1 DEF Redirects
      <3>3. QED
        BY <2>1, <3>1, <3>2 DEF Bounded
    <2>4. QED
      BY <2>1, <2>2, <2>3 DEF Bounded
  <1>4. QED
    BY <1>1, <1>2, <1>3

\* The browser reports one more event, or one is dropped at a full channel.
LEMMA EmitBounded ==
    ASSUME Shape, Bounded, NEW e \in Events, Emit(e)
    PROVE  Bounded'
  <1>1. /\ emitted < MaxEvents /\ emitted' = emitted + 1
        /\ \/ /\ Len(events) < Capacity /\ events' = Append(events, e)
              /\ received' = received \cup {e}
           \/ UNCHANGED <<events, received>>
        /\ UNCHANGED <<navigates, expired, step, depth, visited, session, cancelled, finished, page,
                       nestedVisited, navigations, redirects, outcome>>
    BY DEF Emit, loop
  <1>2. e \in Event /\ events \in Seq(Event)
    BY Limits DEF Shape
  <1>3. Len(events') <= Capacity /\ received' \subseteq Event
    BY <1>1, <1>2, Limits DEF Bounded
  <1>4. emitted' \in 0..MaxEvents
    BY <1>1, Limits DEF Bounded
  <1>5. QED
    BY <1>1, <1>3, <1>4 DEF Bounded

\* The steps that read no event.
LEMMA OtherBounded ==
    ASSUME Shape, Bounded,
           \/ GiveUp \/ LeaveSession \/ Expired \/ ReceiveDone \/ Drained \/ NavigateEnds
           \/ (\E s \in Sessions : EndSession(s)) \/ Expire \/ UNCHANGED vars
    PROVE  Bounded'
  <1>1. CASE GiveUp \/ LeaveSession
    BY <1>1 DEF GiveUp, LeaveSession, Bounded, loop, reading
  <1>2. CASE Expired \/ Drained \/ NavigateEnds
    <2>1. depth \in Sessions /\ cancelled \subseteq Sessions
      BY <1>2, Current DEF Expired, Drained, NavigateEnds, Bounded
    <2>2. \/ /\ step = "navigating" /\ step' = "reading" /\ UNCHANGED <<outcome, cancelled>>
          \/ /\ cancelled' \subseteq Sessions /\ step' = "stopping"
             /\ outcome' \in {"timeout", "stopped", "failed"}
      BY <1>2, <2>1, StopBounded DEF Expired, Drained, NavigateEnds
    <2>3. UNCHANGED <<navigates, expired, loop, session, reading, received>>
      BY <1>2 DEF Expired, Drained, NavigateEnds
    <2>4. QED
      BY <2>2, <2>3 DEF Bounded, loop, reading
  <1>3. CASE ReceiveDone \/ Expire \/ UNCHANGED vars
    BY <1>3 DEF ReceiveDone, Expire, vars, Bounded, loop, reading
  <1>4. CASE \E s \in Sessions : EndSession(s)
    BY <1>4, Current DEF EndSession, Bounded, loop, reading
  <1>5. QED
    BY <1>1, <1>2, <1>3, <1>4

\* A resolve opens no more sessions than the limit, each at a page of its own, and
\* counts no more redirects, moves and events than it allows: every variable has
\* its type.
THEOREM TypeCorrect == Spec => []TypeOK
  <1>1. Init => Bounded
    <2> SUFFICES ASSUME Init PROVE Bounded
      OBVIOUS
    <2>1. IsFiniteSet({}) /\ Cardinality({}) = 0 /\ Len(<<>>) = 0
      BY FS_EmptySet
    <2>2. /\ 0 \in 0..Limit /\ 0 \in 0..MaxEvents /\ 0 \in 0..(MaxRedirects + 1) /\ 0 <= Capacity
          /\ Entry \in Urls
      BY Limits
    <2>3. QED
      BY <2>1, <2>2 DEF Init, Bounded
  <1>2. IInv /\ Bounded /\ [Next]_vars => Bounded'
    <2> SUFFICES ASSUME Shape, Bounded, [Next]_vars PROVE Bounded'
      BY DEF IInv
    <2>1. CASE ResolverStep
      BY <2>1, OpenSessionBounded, ReadStopBounded, ReadOnBounded, OtherBounded DEF ResolverStep
    <2>2. CASE NavigateEnds \/ (\E s \in Sessions : EndSession(s)) \/ Expire \/ UNCHANGED vars
      BY <2>2, OtherBounded
    <2>3. CASE \E e \in Events : Emit(e)
      BY <2>3, EmitBounded
    <2>4. QED
      BY <2>1, <2>2, <2>3 DEF Next
  <1>3. IInv /\ Bounded => TypeOK
    BY DEF IInv, Shape, Bounded, TypeOK
  <1>4. QED
    BY <1>1, <1>2, <1>3, Inductive, PTL DEF Spec
=============================================================================
