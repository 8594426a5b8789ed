--------------------------- MODULE BrowserResolve ---------------------------
(***************************************************************************)
(* One browser_sniff resolve: the loop over nested players (Resolve), the  *)
(* reading of one browser session's network events (browseOnce), and the   *)
(* sessions, each a goroutine running Browse of a backend.                 *)
(*                                                                         *)
(* The rules' regular expressions and the URL policy are sets of URLs.  A  *)
(* URL the policy admits may still be refused: its host is looked up anew  *)
(* at every check, and a lookup fails when it likes.                       *)
(***************************************************************************)
EXTENDS Naturals, Sequences, FiniteSets

CONSTANTS
    Urls,
    Entry,          \* the page the resolve starts at
    Players,        \* match nested_include and not the media rules
    Media,          \* match the media rules, or are verified media
    Captured,       \* the media URL the rules take out of each
    Playable,       \* media URLs of the configured transport
    Inside,         \* admitted by the source's own policy
    Public,         \* admitted by the egress policy
    Events,         \* the events the browser may report
    Limit,          \* 4 in the code: sessions, and pages of one session
    MaxRedirects,   \* limits.max_redirects
    Capacity,       \* 1024 in the code: the channel of events
    MaxEvents       \* bound: events of one session

Event == [kind : {"request", "response", "failed"}, url : Urls,
          document : BOOLEAN, topLevel : BOOLEAN, redirect : BOOLEAN, ok : BOOLEAN]

ASSUME ResolveAssumption ==
    /\ Players \subseteq Urls /\ Media \subseteq Urls /\ Playable \subseteq Urls
    /\ Inside \subseteq Urls /\ Public \subseteq Urls /\ Events \subseteq Event
    /\ Captured \in [Media -> Urls]
    /\ Entry \in Inside
    /\ Limit \in Nat \ {0} /\ MaxRedirects \in Nat /\ Capacity \in Nat /\ MaxEvents \in Nat

VARIABLES
    navigates,    \* the backend can open a page in its session (Chrome; not the native one)
    expired,      \* the resolve's context is done
    step,         \* opening, reading, navigating, stopping, returned
    depth,        \* the loop counter of Resolve: the number of the session
    visited,      \* the pages sessions were opened at
    next,         \* the page of the next session
    session,      \* each session's goroutine: none, running, gone with its profile
    cancelled,    \* the sessions whose context was cancelled
    events,       \* the channel of the current session's events
    emitted,      \* the number of events it reported
    finished,     \* browseOnce received done
    page,         \* currentPageURL
    nestedVisited,
    navigations,  \* nestedNavigations
    redirects,
    outcome,      \* how the session's reading, or the resolve, ended
    found,        \* the URL of the outcome: the media, or the nested player
    opened,       \* [history] the pages the resolver opened, oldest first
    received      \* [history] the current session's events that reached the channel

reading == <<events, emitted, finished, page, nestedVisited, navigations, redirects>>
loop == <<depth, visited, next>>
vars == <<navigates, expired, step, loop, session, cancelled, reading, outcome, found, opened, received>>

Sessions == 1..Limit

TypeOK ==
    /\ navigates \in BOOLEAN
    /\ expired \in BOOLEAN
    /\ step \in {"opening", "reading", "navigating", "stopping", "returned"}
    /\ depth \in 0..Limit
    /\ visited \subseteq Urls /\ Cardinality(visited) = depth
    /\ next \in Urls
    /\ session \in [Sessions -> {"none", "running", "gone"}]
    /\ cancelled \subseteq Sessions
    /\ events \in Seq(Event) /\ Len(events) <= Capacity
    /\ emitted \in 0..MaxEvents
    /\ finished \in BOOLEAN
    /\ page \in Urls
    /\ nestedVisited \subseteq Urls
    /\ navigations \in 0..Limit
    /\ redirects \in 0..(MaxRedirects + 1)
    /\ outcome \in {"none", "media", "nested", "stopped", "unsafe", "timeout", "failed"}
    /\ found \in Urls
    /\ opened \in Seq(Urls)
    /\ received \subseteq Event
    /\ step \in {"reading", "navigating"} => depth > 0 /\ session[depth] # "none"

Init ==
    /\ navigates \in BOOLEAN
    /\ expired = FALSE
    /\ step = "opening"
    /\ depth = 0
    /\ visited = {}
    /\ next = Entry
    /\ session = [s \in Sessions |-> "none"]
    /\ cancelled = {}
    /\ events = <<>>
    /\ emitted = 0
    /\ finished = FALSE
    /\ page = Entry
    /\ nestedVisited = {}
    /\ navigations = 0
    /\ redirects = 0
    /\ outcome = "none"
    /\ found = Entry
    /\ opened = <<>>
    /\ received = {}

-----------------------------------------------------------------------------
(* The loop of Resolve                                                     *)

\* The nested players lead back to a page, or too deep.
Exhausted == depth = Limit \/ next \in visited

OpenSession ==
    /\ step = "opening"
    /\ ~Exhausted
    /\ depth' = depth + 1
    /\ visited' = visited \cup {next}
    /\ session' = [session EXCEPT ![depth'] = "running"]
    /\ step' = "reading"
    /\ events' = <<>>
    /\ emitted' = 0
    /\ finished' = FALSE
    /\ page' = next
    /\ nestedVisited' = {next}
    /\ navigations' = 0
    /\ redirects' = 0
    /\ opened' = Append(opened, next)
    /\ received' = {}
    /\ UNCHANGED <<navigates, expired, next, cancelled, outcome, found>>

GiveUp ==
    /\ step = "opening"
    /\ Exhausted
    /\ step' = "returned"
    /\ outcome' = "failed"
    /\ UNCHANGED <<navigates, expired, loop, session, cancelled, reading, found, opened, received>>

-----------------------------------------------------------------------------
(* The sessions                                                            *)

\* The callback of Browse.  With room in the channel and a context that is done
\* the select takes either; a full channel drops the event.
Emit(e) ==
    /\ step \in {"reading", "navigating"}
    /\ session[depth] = "running"
    /\ emitted < MaxEvents
    /\ emitted' = emitted + 1
    /\ \/ /\ Len(events) < Capacity
          /\ events' = Append(events, e)
          /\ received' = received \cup {e}
       \/ /\ expired \/ Len(events) = Capacity
          /\ UNCHANGED <<events, received>>
    /\ UNCHANGED <<navigates, expired, step, loop, session, cancelled, finished, page,
                   nestedVisited, navigations, redirects, outcome, found, opened>>

\* Browse returns, with its process, profile and proxy gone: the browser stopped
\* by itself.
EndSession(s) ==
    /\ session[s] = "running"
    /\ session' = [session EXCEPT ![s] = "gone"]
    /\ UNCHANGED <<navigates, expired, step, loop, cancelled, reading, outcome, found, opened, received>>

\* The same because its context is done: its own, or the resolve's, which its
\* deadline, its caller and its return cancel.
CloseSession(s) == (expired \/ step = "returned" \/ s \in cancelled) /\ EndSession(s)

-----------------------------------------------------------------------------
(* browseOnce                                                              *)

\* Mutant of Stop: the deferred cancelSession is missing.
Stop_NoCancel(how, url) ==
    /\ step' = "stopping"
    /\ outcome' = how
    /\ found' = url
    /\ UNCHANGED cancelled

\* cancelSession, and wait begins.
Stop(how, url) ==
    /\ step' = "stopping"
    /\ outcome' = how
    /\ found' = url
    /\ cancelled' = cancelled \cup {depth}

\* wait is over: done was received, now or before, or a second has passed.
LeaveSession ==
    /\ step = "stopping"
    /\ IF outcome = "nested"
       THEN step' = "opening" /\ next' = found
       ELSE step' = "returned" /\ UNCHANGED next
    /\ UNCHANGED <<navigates, expired, depth, visited, session, cancelled, reading, outcome, found, opened, received>>

\* case <-ctx.Done(), which is not looked at once the browser has stopped
Expired ==
    /\ step = "reading"
    /\ ~finished
    /\ expired
    /\ Stop("timeout", found)
    /\ UNCHANGED <<navigates, expired, loop, session, reading, opened, received>>

\* Mutant of ReceiveDone: the session's end is taken for the end of its events.
ReceiveDone_AtOnce ==
    /\ step = "reading"
    /\ ~finished
    /\ session[depth] = "gone"
    /\ finished' = TRUE
    /\ Stop("stopped", found)
    /\ UNCHANGED <<navigates, expired, loop, session, events, emitted, page, nestedVisited,
                   navigations, redirects, opened, received>>

\* case err := <-done
ReceiveDone ==
    /\ step = "reading"
    /\ ~finished
    /\ session[depth] = "gone"
    /\ finished' = TRUE
    /\ UNCHANGED <<navigates, expired, step, loop, session, cancelled, events, emitted, page,
                   nestedVisited, navigations, redirects, outcome, found, opened, received>>

\* Mutant of Drained: without a default, the receive from the empty channel blocks.
Drained_Blocked == FALSE /\ UNCHANGED vars

\* browserStopped, once the channel is empty
Drained ==
    /\ step = "reading"
    /\ finished
    /\ events = <<>>
    /\ Stop("stopped", found)
    /\ UNCHANGED <<navigates, expired, loop, session, reading, opened, received>>

Redirects(e) == IF e.redirect /\ e.kind # "failed" THEN redirects + 1 ELSE redirects

\* The top-level page leaves the source's hosts, or its host does not resolve.
Crosses(e, inside) == e.document /\ e.topLevel /\ ~inside

IsPlayer(e) == e.kind = "request" /\ e.url \in Players

\* A page the browser navigated to by itself.
IsMove(e) == IsPlayer(e) /\ e.document /\ e.url # page

\* A player in an iframe.
IsNested(e, inside) == IsPlayer(e) /\ ~e.document /\ inside

IsMedia(e) == e.kind = "response" /\ e.ok /\ e.url \in Media

\* The first event of the channel, if there is one.
NextEvent == {events[i] : i \in DOMAIN events \cap {1}}

\* It is read; inside is what the source's policy says of it.
Read(e, inside) ==
    /\ step = "reading"
    /\ events' = Tail(events)
    /\ inside => e.url \in Inside
    /\ redirects' = Redirects(e)
    /\ UNCHANGED <<navigates, expired, loop, session, emitted, finished, received>>

Admitted(e, inside) == e.kind # "failed" /\ redirects' <= MaxRedirects /\ ~Crosses(e, inside)

ReadRefused ==
    \E e \in NextEvent, inside \in BOOLEAN :
        /\ Read(e, inside)
        /\ e.kind # "failed"
        /\ redirects' > MaxRedirects \/ Crosses(e, inside)
        /\ Stop("unsafe", found)
        /\ UNCHANGED <<page, nestedVisited, navigations, opened>>

\* The browser navigated to a player; the resolver only keeps count.
ReadMove ==
    \E e \in NextEvent :
        /\ Read(e, TRUE)
        /\ Admitted(e, TRUE)
        /\ IsMove(e)
        /\ navigations' = navigations + 1
        /\ IF navigations' >= Limit
           THEN Stop("failed", found) /\ UNCHANGED <<page, nestedVisited>>
           ELSE /\ page' = e.url
                /\ nestedVisited' = nestedVisited \cup {e.url}
                /\ UNCHANGED <<step, outcome, found, cancelled>>
        /\ UNCHANGED opened

\* Neither a loop nor one page too many.
Fresh(url) == url \notin nestedVisited /\ navigations + 1 < Limit

ReadNestedRefused ==
    \E e \in NextEvent, inside \in BOOLEAN :
        /\ Read(e, inside)
        /\ Admitted(e, inside)
        /\ IsNested(e, inside)
        /\ ~Fresh(e.url)
        /\ Stop("failed", found)
        /\ UNCHANGED <<page, nestedVisited, navigations, opened>>

ReadNested ==
    \E e \in NextEvent, inside \in BOOLEAN :
        /\ Read(e, inside)
        /\ Admitted(e, inside)
        /\ IsNested(e, inside)
        /\ Fresh(e.url)
        /\ navigations' = navigations + 1
        /\ nestedVisited' = nestedVisited \cup {e.url}
        /\ IF navigates
           THEN /\ step' = "navigating"
                /\ page' = e.url
                /\ opened' = Append(opened, e.url)
                /\ UNCHANGED <<outcome, found, cancelled>>
           ELSE Stop("nested", e.url) /\ UNCHANGED <<page, opened>>

\* Mutant of Usable: the media's own policy check is missing.
Usable_Anywhere(url, public) == url \in Playable

\* public is what the egress policy says of it.
Usable(url, public) == public /\ url \in Playable

ReadMedia ==
    \E e \in NextEvent, inside, public \in BOOLEAN :
        /\ Read(e, inside)
        /\ Admitted(e, inside)
        /\ IsMedia(e)
        /\ public => Captured[e.url] \in Public
        /\ Usable(Captured[e.url], public)
        /\ Stop("media", Captured[e.url])
        /\ UNCHANGED <<page, nestedVisited, navigations, opened>>

ReadUnsafeMedia ==
    \E e \in NextEvent, inside \in BOOLEAN :
        /\ Read(e, inside)
        /\ Admitted(e, inside)
        /\ IsMedia(e)
        /\ Stop("unsafe", found)
        /\ UNCHANGED <<page, nestedVisited, navigations, opened>>

\* continue
ReadOther ==
    \E e \in NextEvent, inside \in BOOLEAN :
        /\ Read(e, inside)
        /\ \/ e.kind = "failed"
           \/ /\ Admitted(e, inside)
              /\ IsPlayer(e) => ~inside \/ (e.document /\ e.url = page)
              /\ IsMedia(e) => Captured[e.url] \in Public \ Playable
        /\ UNCHANGED <<step, cancelled, outcome, found, page, nestedVisited, navigations, opened>>

\* Navigate returns; it fails when the page or the session does.
NavigateEnds ==
    /\ step = "navigating"
    /\ \/ step' = "reading" /\ UNCHANGED <<outcome, found, cancelled>>
       \/ ~expired /\ Stop("failed", found)
       \/ expired /\ Stop("timeout", found)
    /\ UNCHANGED <<navigates, expired, loop, session, reading, opened, received>>

-----------------------------------------------------------------------------

\* The deadline passes or the caller goes away.
Expire ==
    /\ ~expired
    /\ expired' = TRUE
    /\ UNCHANGED <<navigates, step, loop, session, cancelled, reading, outcome, found, opened, received>>

ResolverStep ==
    \/ OpenSession \/ GiveUp \/ LeaveSession
    \/ Expired \/ ReceiveDone \/ Drained
    \/ ReadRefused \/ ReadMove \/ ReadNestedRefused \/ ReadNested
    \/ ReadMedia \/ ReadUnsafeMedia \/ ReadOther

Next ==
    \/ ResolverStep
    \/ NavigateEnds
    \/ \E e \in Events : Emit(e)
    \/ \E s \in Sessions : EndSession(s)
    \/ Expire

Spec == Init /\ [][Next]_vars

\* The resolver goes on when it can; a navigation and a session end once their
\* context is done.  Nothing else need happen, the deadline neither.
FairSpec ==
    /\ Spec
    /\ WF_vars(ResolverStep)
    /\ WF_vars(NavigateEnds /\ expired)
    /\ \A s \in Sessions : WF_vars(CloseSession(s))

-----------------------------------------------------------------------------

\* Whatever the pages embed and request, the resolver opens no page outside the
\* source's hosts, none twice and no more than the limit, be it in one session or
\* in one after another, and returns no media the egress policy refuses.
StaysInside ==
    /\ Len(opened) <= Limit
    /\ \A i \in DOMAIN opened : opened[i] \in Inside
    /\ \A i, j \in DOMAIN opened : i # j => opened[i] # opened[j]
    /\ step = "returned" /\ outcome = "media" => found \in Public \cap Playable

\* A media response that reached the channel before the browser stopped is not
\* lost: the resolve does not report a browser that stopped without media.
DeliveredMediaCounts ==
    outcome = "stopped" => \A e \in received : ~(IsMedia(e) /\ Captured[e.url] \in Playable)

\* A resolve whose deadline passes or whose caller left returns, whatever its
\* browser does.
ResolveReturns == expired ~> step = "returned"

\* A session that was left, be it for the next one or when the second it is waited
\* for had passed, does not wait for the resolve's deadline to end.
Left(s) == session[s] # "none" /\ (s < depth \/ step = "returned")

SessionsClose == \A s \in Sessions : Left(s) ~> session[s] = "gone"

\* Media are returned only after the browser is gone and its profile removed.
MediaAfterCleanup ==
    step = "returned" /\ outcome = "media" => \A s \in Sessions : session[s] # "running"
=============================================================================
