------------------------- MODULE InfrastructureProofs -------------------------
(* Theorems about what the services rest on, for any number of sockets,      *)
(* changes, requests and entries: the real-time channel of a browser tab,    *)
(* what the tab shows of the server, and the caches of the lookups.          *)
EXTENDS LookupCaches, DispatcherSocket, WorkspaceQueries,
        FiniteSetTheorems, SequenceTheorems, TLAPS

-----------------------------------------------------------------------------
(* The real-time channel (DispatcherSocketService).                         *)

\* What the service may be between two of its calls, as a record.
SocketStates == {"none", "connecting", "open", "closing"}
SocketRows == [state : SocketStates, heard : BOOLEAN, dead : BOOLEAN]

Typed(s) ==
  /\ DOMAIN s = {"socket", "ws", "status", "closed", "attempts", "timers"}
  /\ s.socket \in [Channels -> SocketRows]
  /\ s.ws \in Channels \cup {Nobody}
  /\ s.timers \subseteq {"reconnect", "heartbeat", "pong"}

\* Once it is closed on purpose it has no socket of its own.
AtRest(s) == s.closed = TRUE => s.ws = Nobody

\* Nobody else's socket is listened to, and a reconnection is due only when there is
\* no socket.
Owned(s) ==
  /\ \A c \in Channels : s.socket[c].heard = TRUE => c = s.ws
  /\ "reconnect" \in s.timers => s.ws = Nobody

\* The service is left alone.
Quiet(s) == s.ws = Nobody /\ s.timers = {}

Reachable(s) == s.ws # Nobody \/ "reconnect" \in s.timers

SocketInv ==
  /\ Typed(Service) /\ AtRest(Service)
  /\ screen \in Screens \cup {Nobody} /\ screen \in visited \cup {Nobody}
  /\ screen # Nobody => closed # TRUE /\ Reachable(Service)
  /\ visited \subseteq {"workspace"} =>
       Owned(Service) /\ (screen = Nobody => Quiet(Service))

LEMMA SocketInitial == SocketInit => SocketInv
  BY SocketAssumption
  DEF SocketInit, SocketInv, Service, Typed, AtRest, Owned, Quiet, SocketRows, SocketStates,
      Unused

LEMMA BecomesStep ==
  ASSUME NEW s, Typed(s), Becomes(s)
  PROVE  /\ Typed(Service') /\ closed' = s.closed
         /\ AtRest(s) => AtRest(Service')
         /\ Owned(s) => Owned(Service')
         /\ Quiet(s) => Quiet(Service')
         /\ Reachable(s) => Reachable(Service')
  BY DEF Becomes, Service, Typed, AtRest, Owned, Quiet, Reachable

LEMMA ClosingStep ==
  ASSUME NEW f \in [Channels -> SocketRows], NEW c \in Channels \cup {Nobody}
  PROVE  /\ Closing(f, c) \in [Channels -> SocketRows]
         /\ \A d \in Channels : Closing(f, c)[d].heard = f[d].heard
  BY SocketAssumption DEF Closing, SocketRows, SocketStates

\* connect(): a channel that is usable is kept; else a new one is made, and heard.
LEMMA ConnectedStep ==
  ASSUME NEW s, Typed(s), AtRest(s), NEW t \in Connected(s)
  PROVE  /\ Typed(t) /\ AtRest(t) /\ t.ws # Nobody /\ t.closed # TRUE
         /\ s.ws = Nobody /\ "reconnect" \notin s.timers /\ Owned(s) => Owned(t)
<1>1. CASE Usable(s)
  BY <1>1 DEF Connected, Usable, AtRest, Typed
<1>2. CASE ~Usable(s)
  <2>1. PICK c \in Channels :
          t = [s EXCEPT !.closed = FALSE, !.ws = c,
                 !.socket[c] = [state |-> "connecting", heard |-> TRUE, dead |-> FALSE],
                 !.status = IF s.attempts THEN "reconnecting" ELSE "connecting"]
    BY <1>2 DEF Connected
  <2>2. /\ t.ws = c /\ t.closed = FALSE /\ t.timers = s.timers /\ DOMAIN t = DOMAIN s
        /\ t.socket = [s.socket EXCEPT ![c] =
                         [state |-> "connecting", heard |-> TRUE, dead |-> FALSE]]
    BY <2>1 DEF Typed
  <2>3. [state |-> "connecting", heard |-> TRUE, dead |-> FALSE] \in SocketRows
    BY DEF SocketRows, SocketStates
  <2>4. c # Nobody
    BY SocketAssumption
  <2>5. /\ t.socket \in [Channels -> SocketRows] /\ t.socket[c].heard = TRUE
        /\ \A d \in Channels \ {c} : t.socket[d].heard = s.socket[d].heard
    BY <2>2, <2>3 DEF Typed
  <2>6. Typed(t) /\ AtRest(t) /\ t.ws # Nobody /\ t.closed # TRUE
    BY <2>2, <2>4, <2>5 DEF Typed, AtRest
  <2>7. ASSUME s.ws = Nobody, "reconnect" \notin s.timers, Owned(s)
        PROVE  Owned(t)
    BY <2>2, <2>5, <2>7, SocketAssumption DEF Owned
  <2> QED
    BY <2>6, <2>7
<1> QED
  BY <1>1, <1>2

\* disconnect(): nothing is left that could open or hear a channel.
LEMMA DisconnectedStep ==
  ASSUME NEW s, Typed(s)
  PROVE  /\ Typed(Disconnected(s)) /\ AtRest(Disconnected(s)) /\ Quiet(Disconnected(s))
         /\ Owned(s) => Owned(Disconnected(s))
<1> DEFINE f == IF s.ws = Nobody THEN s.socket
                ELSE Closing([s.socket EXCEPT ![s.ws].heard = FALSE], s.ws)
           t == Disconnected(s)
<1>1. t.ws = Nobody /\ t.timers = {} /\ DOMAIN t = DOMAIN s /\ t.socket = f
  BY DEF Disconnected, Typed
<1>2. f \in [Channels -> SocketRows]
  <2>1. CASE s.ws = Nobody
    BY <2>1 DEF Typed
  <2>2. CASE s.ws \in Channels
    <3>1. [s.socket EXCEPT ![s.ws].heard = FALSE] \in [Channels -> SocketRows]
      BY <2>2 DEF Typed, SocketRows
    <3> QED
      BY <2>2, <3>1, ClosingStep, SocketAssumption
  <2> QED
    BY <2>1, <2>2 DEF Typed
<1>3. ASSUME Owned(s) PROVE \A c \in Channels : f[c].heard # TRUE
  <2>1. CASE s.ws = Nobody
    BY <1>3, <2>1, SocketAssumption DEF Owned
  <2>2. CASE s.ws \in Channels
    <3>1. [s.socket EXCEPT ![s.ws].heard = FALSE] \in [Channels -> SocketRows]
      BY <2>2 DEF Typed, SocketRows
    <3>2. \A c \in Channels : [s.socket EXCEPT ![s.ws].heard = FALSE][c].heard # TRUE
      BY <1>3, <2>2 DEF Typed, SocketRows, Owned
    <3> QED
      BY <2>2, <3>1, <3>2, ClosingStep, SocketAssumption
  <2> QED
    BY <2>1, <2>2 DEF Typed
<1> HIDE DEF f, t
<1>4. Typed(t) /\ AtRest(t) /\ Quiet(t) /\ (Owned(s) => Owned(t))
  BY <1>1, <1>2, <1>3 DEF Typed, AtRest, Quiet, Owned
<1> QED
  BY <1>4 DEF t

Silent(s) == \A c \in Channels : s.socket[c].heard # TRUE

\* handleClose(): a reconnection is due, unless it was closed on purpose.
LEMMA HandledCloseStep ==
  ASSUME NEW s, Typed(s), AtRest(s)
  PROVE  /\ Typed(HandledClose(s)) /\ AtRest(HandledClose(s))
         /\ HandledClose(s).closed = s.closed
         /\ Silent(s) => Owned(HandledClose(s))
         /\ s.closed # TRUE => Reachable(HandledClose(s))
<1> DEFINE t == [s EXCEPT !.timers = {}, !.ws = Nobody]
           u == HandledClose(s)
<1>1. /\ t.ws = Nobody /\ t.timers = {} /\ DOMAIN t = DOMAIN s /\ t.socket = s.socket
      /\ t.closed = s.closed
  BY DEF Typed
<1>2. /\ u.ws = Nobody /\ u.timers \subseteq {"reconnect"} /\ DOMAIN u = DOMAIN s
      /\ u.socket = s.socket /\ u.closed = s.closed
      /\ s.closed # TRUE => "reconnect" \in u.timers
  <2>1. CASE s.closed
    BY <2>1 DEF HandledClose, Typed
  <2>2. CASE ~s.closed
    BY <2>2 DEF HandledClose, ReconnectScheduled, Typed
  <2> QED
    BY <2>1, <2>2
<1> HIDE DEF t, u
<1>3. /\ Typed(u) /\ AtRest(u) /\ u.closed = s.closed /\ (Silent(s) => Owned(u))
      /\ s.closed # TRUE => Reachable(u)
  BY <1>2 DEF Typed, AtRest, Owned, Silent, Reachable
<1> QED
  BY <1>3 DEF u

\* What changes timers and no socket keeps the rest.
LEMMA TimersStep ==
  ASSUME NEW s, Typed(s), AtRest(s), NEW t, Typed(t), t.ws = s.ws, t.closed = s.closed,
         \A c \in Channels : t.socket[c].heard = s.socket[c].heard \/ t.socket[c].heard # TRUE,
         "reconnect" \in t.timers <=> "reconnect" \in s.timers
  PROVE  AtRest(t) /\ (Owned(s) => Owned(t)) /\ (Reachable(s) => Reachable(t))
  BY DEF AtRest, Owned, Reachable, Typed

\* A step that leaves the screen alone keeps the invariant if what it makes of the
\* service does.
LEMMA SocketKept ==
  ASSUME SocketInv, UNCHANGED <<screen, visited>>,
         NEW s, Typed(s), AtRest(s), Becomes(s),
         screen # Nobody => s.closed # TRUE /\ Reachable(s),
         visited \subseteq {"workspace"} => Owned(s) /\ (screen = Nobody => Quiet(s))
  PROVE  SocketInv'
  BY BecomesStep DEF SocketInv

LEMMA MovedStep ==
  ASSUME SocketInv, NEW c \in Channels, NEW st \in SocketStates
  PROVE  LET t == Moved(c, st) IN
         /\ Typed(t) /\ AtRest(t) /\ t.ws = ws /\ t.closed = closed /\ t.timers = timers
         /\ t.attempts = attempts
         /\ \A d \in Channels : t.socket[d].heard = socket[d].heard \/ t.socket[d].heard # TRUE
         /\ t.socket[c].state = st
         /\ st = "none" => t.socket[c].heard # TRUE
<1> DEFINE new == IF st = "none" THEN Unused ELSE [socket[c] EXCEPT !.state = st]
           t == Moved(c, st)
<1>1. socket[c] \in SocketRows /\ DOMAIN Service = {"socket", "ws", "status", "closed",
                                                     "attempts", "timers"}
  BY DEF SocketInv, Typed, Service
<1>2. /\ new \in SocketRows /\ new.state = st
      /\ new.heard = socket[c].heard \/ new.heard # TRUE
      /\ st = "none" => new.heard # TRUE
  BY <1>1 DEF SocketRows, SocketStates, Unused
<1>3. /\ t.socket = [socket EXCEPT ![c] = new] /\ t.ws = ws /\ t.closed = closed
      /\ t.timers = timers /\ t.attempts = attempts /\ DOMAIN t = DOMAIN Service
  BY DEF Moved, Service
<1> HIDE DEF new, t
<1>4. /\ t.socket \in [Channels -> SocketRows] /\ t.socket[c] = new
      /\ \A d \in Channels \ {c} : t.socket[d] = socket[d]
  BY <1>2, <1>3 DEF SocketInv, Typed, Service
<1>5. Typed(t) /\ AtRest(t)
  BY <1>1, <1>3, <1>4 DEF SocketInv, Typed, AtRest, Service
<1>6. \A d \in Channels : t.socket[d].heard = socket[d].heard \/ t.socket[d].heard # TRUE
  BY <1>2, <1>4
<1> QED
  BY <1>2, <1>3, <1>4, <1>5, <1>6 DEF t

LEMMA ErrorStep ==
  ASSUME NEW s, Typed(s)
  PROVE  LET t == HandledError(s) IN
         /\ Typed(t) /\ t.ws = s.ws /\ t.closed = s.closed /\ t.timers = s.timers
         /\ \A c \in Channels : t.socket[c].heard = s.socket[c].heard
<1> DEFINE t == HandledError(s)
<1>1. /\ t.socket = Closing(s.socket, s.ws) /\ t.ws = s.ws /\ t.closed = s.closed
      /\ t.timers = s.timers /\ DOMAIN t = DOMAIN s
  BY DEF HandledError, Typed
<1>2. /\ Closing(s.socket, s.ws) \in [Channels -> SocketRows]
      /\ \A c \in Channels : Closing(s.socket, s.ws)[c].heard = s.socket[c].heard
  BY ClosingStep DEF Typed
<1> HIDE DEF t
<1>3. Typed(t)
  BY <1>1, <1>2 DEF Typed
<1> QED
  BY <1>1, <1>2, <1>3 DEF t

\* As long as the workspace alone uses the service, a socket that is heard is its own,
\* and the workspace is shown.
LEMMA HeardIsOwn ==
  ASSUME SocketInv, visited \subseteq {"workspace"}, NEW c \in Channels,
         socket[c].heard = TRUE
  PROVE  c = ws /\ screen # Nobody
  BY SocketAssumption DEF SocketInv, Owned, Quiet, Service

LEMMA NavigateStep == SocketInv /\ Navigate => SocketInv'
<1> SUFFICES ASSUME SocketInv, Navigate PROVE SocketInv'
  OBVIOUS
<1> DEFINE left == IF screen = "workspace" THEN Disconnected(Service) ELSE Service
<1>1. PICK new \in Screens \cup {Nobody} : (new # screen \/ new = "management") /\ Show(new)
  BY DEF Navigate
<1>2. screen' = new /\ visited' = visited \cup ({new} \ {Nobody})
  BY <1>1 DEF Show
<1>3. PICK s \in IF new = Nobody THEN {left} ELSE Connected(left) : Becomes(s)
  BY <1>1 DEF Show
<1>4. /\ Typed(left) /\ AtRest(left) /\ (Owned(Service) => Owned(left))
      /\ screen = "workspace" => Quiet(left)
      /\ screen # "workspace" => left = Service
  BY DisconnectedStep DEF SocketInv
<1>5. ASSUME visited' \subseteq {"workspace"}
      PROVE  /\ visited \subseteq {"workspace"} /\ Owned(left) /\ Quiet(left)
             /\ new \in {"workspace", Nobody}
  BY <1>2, <1>4, <1>5, SocketAssumption DEF SocketInv, Screens
<1> HIDE DEF left
<1>6. CASE new = Nobody
  <2>1. s = left
    BY <1>3, <1>6
  <2>2. Typed(Service') /\ AtRest(Service') /\ (visited' \subseteq {"workspace"} =>
          Owned(Service') /\ Quiet(Service'))
    BY <1>3, <1>4, <1>5, <2>1, BecomesStep
  <2> QED
    BY <1>2, <1>6, <2>2 DEF SocketInv
<1>7. CASE new # Nobody
  <2>1. s \in Connected(left)
    BY <1>3, <1>7
  <2>2. Typed(s) /\ AtRest(s) /\ s.ws # Nobody /\ s.closed # TRUE
    BY <1>4, <2>1, ConnectedStep
  <2>3. ASSUME visited' \subseteq {"workspace"} PROVE Owned(s)
    BY <1>4, <1>5, <2>1, <2>3, ConnectedStep DEF Quiet
  <2>4. Reachable(s)
    BY <2>2 DEF Reachable
  <2>5. /\ Typed(Service') /\ AtRest(Service') /\ Reachable(Service') /\ closed' # TRUE
        /\ visited' \subseteq {"workspace"} => Owned(Service')
    BY <1>3, <2>2, <2>3, <2>4, BecomesStep
  <2> QED
    BY <1>2, <1>7, <2>5 DEF SocketInv
<1> QED
  BY <1>6, <1>7

LEMMA TimerSteps ==
  SocketInv /\ (Reconnect \/ Ping \/ Pong \/ PongTimeout) => SocketInv'
<1> SUFFICES ASSUME SocketInv, Reconnect \/ Ping \/ Pong \/ PongTimeout PROVE SocketInv'
  OBVIOUS
<1>1. UNCHANGED <<screen, visited>> /\ timers # {}
  BY DEF Reconnect, Ping, Pong, PongTimeout, Fires
<1>2. ASSUME visited \subseteq {"workspace"} PROVE screen # Nobody /\ Owned(Service)
  BY <1>1, <1>2 DEF SocketInv, Quiet, Service
<1>3. Typed(Service) /\ AtRest(Service)
  BY DEF SocketInv
<1>4. /\ screen # Nobody => closed # TRUE /\ Reachable(Service)
      /\ Service.ws = ws /\ Service.timers = timers /\ Service.closed = closed
      /\ Service.socket = socket
  BY DEF SocketInv, Service
<1>5. CASE Reconnect
  <2> DEFINE s == [Service EXCEPT !.timers = @ \ {"reconnect"}]
  <2>1. PICK t \in Connected(s) : Becomes(t)
    BY <1>5 DEF Reconnect
  <2>2. /\ s.ws = ws /\ s.closed = closed /\ s.socket = socket /\ s.timers = timers \ {"reconnect"}
        /\ DOMAIN s = DOMAIN Service
    BY DEF Service
  <2> HIDE DEF s
  <2>3. Typed(s) /\ AtRest(s) /\ (Owned(Service) => Owned(s))
    BY <1>3, <1>4, <2>2 DEF Typed, AtRest, Owned
  <2>4. Typed(t) /\ AtRest(t) /\ t.ws # Nobody /\ t.closed # TRUE
    BY <2>1, <2>3, ConnectedStep
  <2>5. ASSUME visited \subseteq {"workspace"} PROVE Owned(t)
    <3>1. s.ws = Nobody /\ "reconnect" \notin s.timers
      BY <1>2, <1>4, <1>5, <2>2, <2>5 DEF Owned, Reconnect, Fires
    <3> QED
      BY <1>2, <2>1, <2>3, <2>5, <3>1, ConnectedStep
  <2> QED
    BY <1>1, <1>2, <2>1, <2>4, <2>5, SocketKept DEF Reachable
<1>6. CASE Ping \/ Pong
  <2>1. PICK T \in {timers \cup {"pong"}, timers \ {"pong"}} :
          Becomes([Service EXCEPT !.timers = T])
    BY <1>6 DEF Ping, Pong, Service
  <2> DEFINE s == [Service EXCEPT !.timers = T]
  <2>2. /\ s.ws = ws /\ s.closed = closed /\ s.socket = socket /\ s.timers = T
        /\ DOMAIN s = DOMAIN Service /\ Becomes(s)
    BY <2>1 DEF Service
  <2> HIDE DEF s
  <2>3. Typed(s)
    BY <1>3, <1>4, <2>1, <2>2 DEF Typed
  <2>4. AtRest(s) /\ (Owned(Service) => Owned(s)) /\ (Reachable(Service) => Reachable(s))
    BY <1>3, <1>4, <2>1, <2>2, <2>3, TimersStep
  <2> QED
    BY <1>1, <1>2, <1>4, <2>2, <2>3, <2>4, SocketKept
<1>7. CASE PongTimeout
  <2> DEFINE e == HandledError(Service)
             s == [e EXCEPT !.timers = @ \ {"pong"}]
  <2>1. Becomes(s)
    BY <1>7 DEF PongTimeout
  <2>2. /\ Typed(e) /\ e.ws = ws /\ e.closed = closed /\ e.timers = timers
        /\ \A c \in Channels : e.socket[c].heard = socket[c].heard
    BY <1>3, <1>4, ErrorStep
  <2> HIDE DEF e
  <2>3. /\ s.ws = e.ws /\ s.closed = e.closed /\ s.socket = e.socket
        /\ s.timers = e.timers \ {"pong"} /\ DOMAIN s = DOMAIN e
    BY <2>2 DEF Typed
  <2> HIDE DEF s
  <2>4. Typed(s)
    BY <2>2, <2>3 DEF Typed
  <2>5. AtRest(s) /\ (Owned(Service) => Owned(s)) /\ (Reachable(Service) => Reachable(s))
    BY <1>3, <1>4, <2>2, <2>3, <2>4, TimersStep
  <2> QED
    BY <1>1, <1>2, <1>4, <2>1, <2>2, <2>3, <2>4, <2>5, SocketKept
<1> QED
  BY <1>5, <1>6, <1>7

\* A step of the browser that no callback of the service hears.
LEMMA UnheardStep ==
  ASSUME SocketInv, UNCHANGED <<screen, visited>>, NEW t, Typed(t), t.ws = ws,
         t.closed = closed, t.timers = timers, Becomes(t),
         \A d \in Channels : t.socket[d].heard = socket[d].heard \/ t.socket[d].heard # TRUE
  PROVE  SocketInv'
<1>1. /\ Service.ws = ws /\ Service.timers = timers /\ Service.closed = closed
      /\ Service.socket = socket
  BY DEF Service
<1>2. AtRest(t) /\ (Owned(Service) => Owned(t)) /\ (Reachable(Service) => Reachable(t))
  BY <1>1, TimersStep DEF SocketInv
<1>3. Quiet(Service) => Quiet(t)
  BY <1>1 DEF Quiet
<1>4. screen # Nobody => t.closed # TRUE /\ Reachable(t)
  BY <1>2 DEF SocketInv
<1>5. visited \subseteq {"workspace"} => Owned(t) /\ (screen = Nobody => Quiet(t))
  BY <1>2, <1>3 DEF SocketInv
<1> QED
  BY <1>2, <1>4, <1>5, SocketKept

LEMMA OpensStep ==
  ASSUME SocketInv, NEW c \in Channels, Opens(c)
  PROVE  SocketInv'
<1> DEFINE m == Moved(c, "open")
           o == HandledOpen(m)
<1>1. UNCHANGED <<screen, visited>>
  BY DEF Opens, Browser
<1>2. /\ Typed(m) /\ AtRest(m) /\ m.ws = ws /\ m.closed = closed /\ m.timers = timers
      /\ \A d \in Channels : m.socket[d].heard = socket[d].heard \/ m.socket[d].heard # TRUE
  BY MovedStep DEF SocketStates
<1>3. CASE socket[c].heard = TRUE
  <2>1. Becomes(o)
    BY <1>3 DEF Opens
  <2> HIDE DEF m
  <2>2. /\ o.ws = ws /\ o.closed = closed /\ o.socket = m.socket /\ DOMAIN o = DOMAIN m
        /\ o.timers = (timers \ {"pong"}) \cup {"heartbeat"}
    BY <1>2 DEF HandledOpen, Typed
  <2> HIDE DEF o
  <2>3. Typed(o)
    BY <1>2, <2>2 DEF Typed
  <2>4. /\ Service.ws = ws /\ Service.timers = timers /\ Service.closed = closed
        /\ Service.socket = socket
    BY DEF Service
  <2>5. AtRest(o) /\ (Owned(Service) => Owned(o)) /\ (Reachable(Service) => Reachable(o))
    BY <1>2, <2>2, <2>3, <2>4, TimersStep DEF SocketInv
  <2>6. visited \subseteq {"workspace"} => screen # Nobody
    BY <1>3, HeardIsOwn
  <2>7. screen # Nobody => o.closed # TRUE /\ Reachable(o)
    BY <2>2, <2>5 DEF SocketInv
  <2>8. visited \subseteq {"workspace"} => Owned(o) /\ (screen = Nobody => Quiet(o))
    BY <2>5, <2>6 DEF SocketInv
  <2> QED
    BY <1>1, <2>1, <2>3, <2>5, <2>7, <2>8, SocketKept
<1>4. CASE socket[c].heard # TRUE
  <2>1. Becomes(m)
    BY <1>4 DEF Opens, SocketInv, Typed, Service, SocketRows
  <2> HIDE DEF m
  <2> QED
    BY <1>1, <1>2, <2>1, UnheardStep
<1> QED
  BY <1>3, <1>4

\* onclose of a socket that is gone.
LEMMA GoneStep ==
  ASSUME SocketInv, NEW c \in Channels, UNCHANGED <<screen, visited>>,
         NEW s, Typed(s), s.ws = ws, s.closed = closed, s.timers = timers,
         \A d \in Channels : s.socket[d].heard = socket[d].heard \/ s.socket[d].heard # TRUE,
         s.socket[c].heard # TRUE,
         Becomes(IF socket[c].heard THEN HandledClose(s) ELSE s)
  PROVE  SocketInv'
<1>1. AtRest(s)
  BY DEF SocketInv, AtRest, Service
<1>2. CASE socket[c].heard = TRUE
  <2> DEFINE h == HandledClose(s)
  <2>1. Becomes(h)
    BY <1>2
  <2>2. visited \subseteq {"workspace"} => screen # Nobody /\ Silent(s)
    BY <1>2, HeardIsOwn DEF Silent
  <2>3. /\ Typed(h) /\ AtRest(h) /\ (visited \subseteq {"workspace"} => Owned(h))
        /\ screen # Nobody => h.closed # TRUE /\ Reachable(h)
    BY <1>1, <2>2, HandledCloseStep DEF SocketInv
  <2> HIDE DEF h
  <2> QED
    BY <2>1, <2>2, <2>3, SocketKept
<1>3. CASE socket[c].heard # TRUE
  <2>1. Becomes(s)
    BY <1>3 DEF SocketInv, Typed, Service, SocketRows
  <2> QED
    BY <2>1, UnheardStep
<1> QED
  BY <1>2, <1>3

LEMMA BreaksStep ==
  ASSUME SocketInv, NEW c \in Channels, Breaks(c) \/ Closes(c)
  PROVE  SocketInv'
<1> DEFINE m == Moved(c, "none")
           e == HandledError(m)
<1>1. UNCHANGED <<screen, visited>>
  BY DEF Breaks, Closes, Browser
<1>2. /\ Typed(m) /\ m.ws = ws /\ m.closed = closed /\ m.timers = timers
      /\ \A d \in Channels : m.socket[d].heard = socket[d].heard \/ m.socket[d].heard # TRUE
      /\ m.socket[c].heard # TRUE
  BY MovedStep DEF SocketStates
<1>3. /\ Typed(e) /\ e.ws = ws /\ e.closed = closed /\ e.timers = timers
      /\ \A d \in Channels : e.socket[d].heard = m.socket[d].heard
  BY <1>2, ErrorStep
<1>4. \/ Becomes(IF socket[c].heard THEN HandledClose(m) ELSE m)
      \/ Becomes(IF socket[c].heard THEN HandledClose(e) ELSE m)
  BY DEF Breaks, Closes
<1>5. CASE socket[c].heard = TRUE
  <2>1. PICK s \in {m, e} : Becomes(HandledClose(s))
    BY <1>4, <1>5
  <2> HIDE DEF m, e
  <2>2. Becomes(IF socket[c].heard THEN HandledClose(s) ELSE s)
    BY <1>5, <2>1
  <2> QED
    BY <1>1, <1>2, <1>3, <2>1, <2>2, GoneStep
<1>6. CASE socket[c].heard # TRUE
  <2>1. socket[c].heard = FALSE
    BY <1>6 DEF SocketInv, Typed, Service, SocketRows
  <2>2. Becomes(m)
    BY <1>4, <2>1
  <2> HIDE DEF m
  <2> QED
    BY <1>1, <1>2, <2>2, UnheardStep
<1> QED
  BY <1>5, <1>6

LEMMA PeerStep ==
  ASSUME SocketInv, NEW c \in Channels, ClosedByServer(c) \/ Dies(c)
  PROVE  SocketInv'
<1>1. UNCHANGED <<screen, visited>>
  BY DEF ClosedByServer, Dies, Browser
<1>2. CASE ClosedByServer(c)
  <2>1. Becomes(Moved(c, "closing"))
    BY <1>2 DEF ClosedByServer
  <2> QED
    BY <1>1, <2>1, MovedStep, UnheardStep DEF SocketStates
<1>3. CASE Dies(c)
  <2> DEFINE t == [Service EXCEPT !.socket[c].dead = TRUE]
  <2>1. Becomes(t)
    BY <1>3 DEF Dies
  <2>2. /\ t.socket = [socket EXCEPT ![c].dead = TRUE] /\ t.ws = ws /\ t.closed = closed
        /\ t.timers = timers /\ DOMAIN t = DOMAIN Service
    BY DEF Service
  <2> HIDE DEF t
  <2>3. /\ t.socket \in [Channels -> SocketRows]
        /\ \A d \in Channels : t.socket[d].heard = socket[d].heard
    <3>1. socket \in [Channels -> SocketRows]
      BY DEF SocketInv, Typed, Service
    <3> DEFINE gone == [socket[c] EXCEPT !.dead = TRUE]
    <3>2. gone \in SocketRows /\ gone.heard = socket[c].heard
      BY <3>1 DEF SocketRows
    <3>3. t.socket = [socket EXCEPT ![c] = gone]
      BY <2>2
    <3> HIDE DEF gone
    <3> QED
      BY <3>1, <3>2, <3>3
  <2>4. Typed(t)
    BY <2>2, <2>3 DEF SocketInv, Typed, Service
  <2> QED
    BY <1>1, <2>1, <2>2, <2>3, <2>4, UnheardStep
<1> QED
  BY <1>2, <1>3

LEMMA SocketInductive == SocketInv /\ [SocketNext]_socketVars => SocketInv'
<1> SUFFICES ASSUME SocketInv, [SocketNext]_socketVars PROVE SocketInv'
  OBVIOUS
<1>1. CASE NetworkTurns \/ UNCHANGED socketVars
  BY <1>1 DEF NetworkTurns, socketVars, SocketInv, Service, Typed, AtRest, Owned, Quiet,
     Reachable
<1>2. CASE Navigate
  BY <1>2, NavigateStep
<1>3. CASE Timeouts \/ Pong
  BY <1>3, TimerSteps DEF Timeouts
<1>4. ASSUME NEW c \in Channels, Handling(c) \/ Breaks(c) \/ ClosedByServer(c) \/ Dies(c)
      PROVE  SocketInv'
  BY <1>4, OpensStep, BreaksStep, PeerStep DEF Handling
<1> QED
  BY <1>1, <1>2, <1>3, <1>4 DEF SocketNext

\* dispatcher/services/socket.service.ts: whatever the network and the browser do and in
\* whatever order callbacks and timers run, a screen that is shown has a connection, one
\* that is closing, or a reconnection that is due; and as long as the workspace alone
\* uses the service, at most one socket is heard, none once the workspace is left.
THEOREM ChannelIsAlwaysOwned == SocketSpec => []ChannelIsOwned
<1>1. SocketInv => ChannelIsOwned
  <2> SUFFICES ASSUME SocketInv PROVE ChannelIsOwned
    OBVIOUS
  <2>1. NeverStranded
    BY DEF SocketInv, NeverStranded, Reachable, Service
  <2>2. ASSUME visited \subseteq {"workspace"}
        PROVE  OneChannel /\ (screen = Nobody => Live = {} /\ timers = {})
    <3>1. \A c \in Live : c = ws /\ screen # Nobody
      BY <2>2, HeardIsOwn DEF Live, SocketInv, Typed, Service, SocketRows
    <3>2. Live = {} \/ Live = {ws}
      BY <3>1
    <3>3. Cardinality({}) = 0 /\ Cardinality({ws}) = 1
      BY FS_EmptySet, FS_Singleton
    <3>4. OneChannel
      BY <3>2, <3>3 DEF OneChannel
    <3> QED
      BY <2>2, <3>1, <3>4 DEF SocketInv, Quiet, Service
  <2> QED
    BY <2>1, <2>2 DEF ChannelIsOwned, WorkspaceOwnsChannel
<1> QED
  BY <1>1, SocketInitial, SocketInductive, PTL DEF SocketSpec

-----------------------------------------------------------------------------
(* What the tab shows of the server (TanStack Query and the forms).         *)

Settled == \A m \in Mutations : mutation[m].phase \in {"new", "settled"}

\* With nothing on its way and nothing missed, what is shown is true, and so is what a
\* fetch brings that has read already: whatever changes the status afterwards sends a
\* notice or is one of the tab's own changes, and either invalidates the fetch, which is
\* replaced or, if it is the first and has read, kept and known to be.
DetailInv ==
  /\ DOMAIN mutation = Mutations /\ notices \in Nat
  /\ \A m \in Mutations : "phase" \in DOMAIN mutation[m]
  /\ SettledViewIsTrue
  /\ fetch.phase = "read" /\ notices = 0 /\ outdated \cap {"missed", "kept"} = {} /\ Settled
       => fetch.value = truth

ConfirmationPhases == {"creating", "assigning", "told", "failed"}

\* An incident is of a confirmation whose answer is no longer awaited, and the one that
\* a confirmation assigns units to is its own.
FormInv ==
  /\ confirmations \in Seq([phase : ConfirmationPhases, created : Nat \cup {Missing}])
  /\ incidents \in Seq([by : Nat, units : SUBSET Crew])
  /\ \A i \in DOMAIN incidents : /\ incidents[i].by \in DOMAIN confirmations
                                /\ confirmations[incidents[i].by].phase # "creating"
  /\ \A k \in DOMAIN confirmations : confirmations[k].phase = "assigning" =>
       /\ confirmations[k].created \in DOMAIN incidents
       /\ incidents[confirmations[k].created].by = k
  /\ ToldIsRegistered

QueryInv == DetailInv /\ FormInv

LEMMA QueryInitial == DetailAtRest /\ FormAtRest => QueryInv
<1> SUFFICES ASSUME DetailAtRest, FormAtRest PROVE QueryInv
  OBVIOUS
<1>1. DetailInv
  BY DEF DetailAtRest, DetailInv, SettledViewIsTrue, NothingPending, NoFetch, Settled, Unsent
<1>2. FormInv
  BY DEF FormAtRest, FormInv, ToldIsRegistered
<1> QED
  BY <1>1, <1>2 DEF QueryInv

\* A change by the tab: nothing is settled until it has invalidated the fetch.
LEMMA MutationSteps ==
  ASSUME DetailInv, NEW m \in Mutations,
         (\E s \in Statuses : Mutate(m, s)) \/ Handle(m) \/ Settle(m)
  PROVE  DetailInv'
<1>1. /\ DOMAIN mutation' = Mutations /\ notices' \in Nat
      /\ \A x \in Mutations \ {m} : mutation'[x] = mutation[x]
  BY DEF DetailInv, Mutate, Handle, Settle
<1>0. "phase" \in DOMAIN mutation'[m]
  <2>1. ASSUME NEW s \in Statuses, Mutate(m, s) PROVE "phase" \in DOMAIN mutation'[m]
    BY <2>1 DEF DetailInv, Mutate
  <2>2. CASE Handle(m)
    BY <2>2 DEF DetailInv, Handle
  <2>3. CASE Settle(m)
    BY <2>3 DEF DetailInv, Settle
  <2> QED
    BY <2>1, <2>2, <2>3
<1>2. CASE (\E s \in Statuses : Mutate(m, s)) \/ Handle(m)
  <2>1. mutation'[m].phase \in {"sent", "done", "failed"}
    <3>1. ASSUME NEW s \in Statuses, Mutate(m, s) PROVE mutation'[m].phase = "sent"
      BY <3>1 DEF DetailInv, Mutate
    <3>2. ASSUME Handle(m) PROVE mutation'[m].phase \in {"done", "failed"}
      BY <3>2 DEF DetailInv, Handle
    <3> QED
      BY <1>2, <3>1, <3>2
  <2>2. ~Settled'
    BY <2>1 DEF Settled
  <2> QED
    BY <1>0, <1>1, <2>2 DEF DetailInv, SettledViewIsTrue, NothingPending, Settled
<1>3. CASE Settle(m)
  <2>1. /\ fetch' = IF fetch = NoFetch \/ shown # Missing THEN Fetch ELSE fetch
        /\ fetch.phase = "read" /\ shown = Missing => "kept" \in outdated'
    BY <1>3 DEF Settle, Settling, Invalidated, Kept
  <2>2. fetch' # NoFetch /\ (fetch'.phase = "read" => "kept" \in outdated')
    BY <2>1 DEF Fetch, NoFetch
  <2> QED
    BY <1>0, <1>1, <2>2 DEF DetailInv, SettledViewIsTrue, NothingPending
<1> QED
  BY <1>2, <1>3

LEMMA FetchSteps ==
  ASSUME DetailInv, Open \/ ReadDetail \/ ReceiveDetail \/ FailDetail
  PROVE  DetailInv'
<1>1. UNCHANGED <<truth, mutation, notices>> /\ Settled' = Settled
  BY DEF Open, ReadDetail, ReceiveDetail, FailDetail, Settled
<1>2. CASE Open
  BY <1>1, <1>2 DEF Open, DetailInv, SettledViewIsTrue, NothingPending, Fetch, NoFetch
<1>3. CASE ReadDetail
  BY <1>1, <1>3 DEF ReadDetail, DetailInv, SettledViewIsTrue, NothingPending, Read, NoFetch
<1>4. CASE ReceiveDetail
  <2>1. fetch'.phase # "read" /\ shown' = fetch.value
    BY <1>4 DEF ReceiveDetail, NoFetch
  <2>2. outdated' = {} => outdated \cap {"missed", "kept"} = {}
    BY <1>4 DEF ReceiveDetail
  <2> QED
    BY <1>1, <1>4, <2>1, <2>2 DEF ReceiveDetail, DetailInv, SettledViewIsTrue, NothingPending, Settled
<1>5. CASE FailDetail
  BY <1>1, <1>5 DEF FailDetail, DetailInv, SettledViewIsTrue, NothingPending, NoFetch
<1> QED
  BY <1>2, <1>3, <1>4, <1>5

LEMMA OthersSteps ==
  ASSUME DetailInv, Notice \/ \E s \in Statuses : ChangedByOther(s)
  PROVE  DetailInv'
<1>1. UNCHANGED mutation /\ notices' \in Nat
  BY DEF Notice, ChangedByOther, DetailInv
<1>2. CASE \E s \in Statuses : ChangedByOther(s)
  <2>1. notices' # 0
    BY <1>2 DEF ChangedByOther, DetailInv
  <2> QED
    BY <1>1, <2>1 DEF DetailInv, SettledViewIsTrue, NothingPending
<1>3. CASE Notice
  <2>1. UNCHANGED <<truth, shown>>
    BY <1>3 DEF Notice
  <2>2. \/ fetch' = NoFetch /\ shown = Missing
        \/ fetch' = Fetch
        \/ fetch' = fetch /\ fetch # NoFetch /\ (fetch.phase = "read" => "kept" \in outdated')
        \/ "missed" \in outdated'
    BY <1>3 DEF Notice, Invalidated, Kept
  <2> QED
    BY <1>1, <2>1, <2>2 DEF DetailInv, SettledViewIsTrue, NothingPending, NoFetch, Fetch
<1> QED
  BY <1>2, <1>3

LEMMA ConfirmStep == ASSUME FormInv, Confirm PROVE FormInv'
<1> DEFINE new == [phase |-> "creating", created |-> Missing]
           n == Len(confirmations)
<1>1. /\ confirmations \in Seq([phase : ConfirmationPhases, created : Nat \cup {Missing}])
      /\ confirmations' = Append(confirmations, new) /\ UNCHANGED incidents
  BY DEF FormInv, Confirm
<1>2. new \in [phase : ConfirmationPhases, created : Nat \cup {Missing}] /\ new.phase = "creating"
  BY DEF ConfirmationPhases
<1> HIDE DEF new
<1>3. /\ confirmations' \in Seq([phase : ConfirmationPhases, created : Nat \cup {Missing}])
      /\ DOMAIN confirmations = 1 .. n /\ DOMAIN confirmations' = 1 .. n + 1 /\ n \in Nat
      /\ confirmations'[n + 1] = new /\ \A k \in 1 .. n : confirmations'[k] = confirmations[k]
  BY <1>1, <1>2, AppendProperties
<1> HIDE DEF n
<1>4. n + 1 \notin DOMAIN confirmations
  BY <1>3
<1>5. \A k \in DOMAIN confirmations' :
        k # n + 1 => k \in DOMAIN confirmations /\ confirmations'[k] = confirmations[k]
  BY <1>3
<1>6. ToldIsRegistered'
  <2>1. ASSUME NEW i \in DOMAIN incidents PROVE incidents[i].by # n + 1
    BY <1>4 DEF FormInv
  <2> QED
    BY <1>1, <1>2, <1>3, <1>5, <2>1 DEF FormInv, ToldIsRegistered
<1> QED
  BY <1>1, <1>2, <1>3, <1>5, <1>6 DEF FormInv

\* What becomes of one confirmation.
LEMMA OneAttempt ==
  ASSUME FormInv, NEW k \in DOMAIN confirmations,
         NEW row \in [phase : ConfirmationPhases, created : Nat \cup {Missing}],
         confirmations' = [confirmations EXCEPT ![k] = row]
  PROVE  /\ confirmations' \in Seq([phase : ConfirmationPhases, created : Nat \cup {Missing}])
         /\ DOMAIN confirmations' = DOMAIN confirmations
         /\ confirmations'[k] = row
         /\ \A j \in DOMAIN confirmations \ {k} : confirmations'[j] = confirmations[j]
  BY DEF FormInv

LEMMA CreateStep == ASSUME FormInv, NEW k \in DOMAIN confirmations, Create(k) PROVE FormInv'
<1> DEFINE n == Len(incidents)
           fresh == [by |-> k, units |-> {}]
           Rows == [phase : ConfirmationPhases, created : Nat \cup {Missing}]
<1>1. PICK done \in BOOLEAN, heard \in BOOLEAN :
        /\ incidents' = IF done THEN Append(incidents, fresh) ELSE incidents
        /\ confirmations' = [confirmations EXCEPT ![k] =
                          IF done /\ heard THEN [phase |-> "assigning", created |-> n + 1]
                          ELSE [phase |-> "failed", created |-> Missing]]
  BY DEF Create
<1>2. /\ incidents \in Seq([by : Nat, units : SUBSET Crew]) /\ n \in Nat
      /\ DOMAIN incidents = 1 .. n /\ confirmations[k].phase = "creating" /\ k \in Nat
  BY DEF FormInv, Create
<1>3. \A i \in DOMAIN incidents : incidents[i].by \in DOMAIN confirmations /\ incidents[i].by # k
  BY <1>2 DEF FormInv
<1> DEFINE row == IF done /\ heard THEN [phase |-> "assigning", created |-> n + 1]
                  ELSE [phase |-> "failed", created |-> Missing]
<1>4. /\ row \in Rows
      /\ row.phase = "assigning" => done /\ row.created = n + 1
      /\ row.phase \in {"assigning", "failed"}
  BY <1>2 DEF ConfirmationPhases
<1>5. fresh \in [by : Nat, units : SUBSET Crew] /\ fresh.by = k
  BY <1>2
<1>6. confirmations' = [confirmations EXCEPT ![k] = row]
  BY <1>1
<1> HIDE DEF row, fresh, n
<1>7. /\ confirmations' \in Seq(Rows) /\ DOMAIN confirmations' = DOMAIN confirmations
      /\ confirmations'[k] = row
      /\ \A j \in DOMAIN confirmations \ {k} : confirmations'[j] = confirmations[j]
  BY <1>4, <1>6, OneAttempt
<1> HIDE DEF Rows
<1>8. /\ incidents' \in Seq([by : Nat, units : SUBSET Crew])
      /\ \A i \in 1 .. n : i \in DOMAIN incidents' /\ incidents'[i] = incidents[i]
      /\ DOMAIN incidents' = IF done THEN 1 .. n + 1 ELSE 1 .. n
      /\ done => incidents'[n + 1] = fresh
  <2>1. CASE done
    <3>1. incidents' = Append(incidents, fresh)
      BY <1>1, <2>1
    <3> QED
      BY <1>2, <1>5, <2>1, <3>1, AppendProperties DEF n
  <2>2. CASE ~done
    BY <1>1, <1>2, <2>2
  <2> QED
    BY <2>1, <2>2
<1>9. \A i \in DOMAIN incidents' :
        \/ i \in DOMAIN incidents /\ incidents'[i] = incidents[i]
        \/ done /\ i = n + 1 /\ incidents'[i].by = k
  BY <1>2, <1>5, <1>8
<1>10. \A i \in DOMAIN incidents : i \in DOMAIN incidents' /\ incidents'[i] = incidents[i]
  BY <1>2, <1>8
<1>11. /\ \A i \in DOMAIN incidents' : /\ incidents'[i].by \in DOMAIN confirmations'
                                      /\ confirmations'[incidents'[i].by].phase # "creating"
       /\ \A j \in DOMAIN confirmations' : confirmations'[j].phase = "assigning" =>
            /\ confirmations'[j].created \in DOMAIN incidents'
            /\ incidents'[confirmations'[j].created].by = j
  <2>1. ASSUME NEW i \in DOMAIN incidents'
        PROVE  /\ incidents'[i].by \in DOMAIN confirmations'
               /\ confirmations'[incidents'[i].by].phase # "creating"
    BY <1>3, <1>4, <1>7, <1>9 DEF FormInv
  <2>2. ASSUME NEW j \in DOMAIN confirmations', confirmations'[j].phase = "assigning"
        PROVE  /\ confirmations'[j].created \in DOMAIN incidents'
               /\ incidents'[confirmations'[j].created].by = j
    <3>1. CASE j = k
      <4>1. done /\ confirmations'[j].created = n + 1
        BY <1>4, <1>7, <2>2, <3>1
      <4>2. n + 1 \in DOMAIN incidents'
        BY <1>2, <1>8, <4>1
      <4> QED
        BY <1>5, <1>8, <3>1, <4>1, <4>2
    <3>2. CASE j # k
      BY <1>7, <1>10, <2>2, <3>2 DEF FormInv
    <3> QED
      BY <3>1, <3>2
  <2> QED
    BY <2>1, <2>2
<1>12. ToldIsRegistered'
  <2> SUFFICES ASSUME NEW j \in DOMAIN confirmations'
               PROVE  /\ \A x, y \in DOMAIN incidents' :
                            incidents'[x].by = j /\ incidents'[y].by = j => x = y
                      /\ confirmations'[j].phase = "told" =>
                           \E x \in DOMAIN incidents' : incidents'[x].by = j /\ incidents'[x].units = Crew
    BY DEF ToldIsRegistered
  <2>1. CASE j = k
    BY <1>3, <1>4, <1>7, <1>9, <2>1
  <2>2. CASE j # k
    <3>1. j \in DOMAIN confirmations /\ confirmations'[j] = confirmations[j]
      BY <1>7, <2>2
    <3> QED
      BY <1>9, <1>10, <2>2, <3>1 DEF FormInv, ToldIsRegistered
  <2> QED
    BY <2>1, <2>2
<1> QED
  BY <1>7, <1>8, <1>11, <1>12 DEF FormInv, Rows

LEMMA AssignStep == ASSUME FormInv, NEW k \in DOMAIN confirmations, Assign(k) PROVE FormInv'
<1> DEFINE c == confirmations[k].created
           Rows == [phase : ConfirmationPhases, created : Nat \cup {Missing}]
<1>1. PICK done \in BOOLEAN, told \in BOOLEAN :
        /\ told => done
        /\ incidents' = IF done THEN [incidents EXCEPT ![c].units = Crew] ELSE incidents
        /\ confirmations' = [confirmations EXCEPT ![k].phase = IF told THEN "told" ELSE "failed"]
  BY DEF Assign, Acknowledged
<1> DEFINE row == [confirmations[k] EXCEPT !.phase = IF told THEN "told" ELSE "failed"]
<1>2. /\ confirmations[k] \in Rows /\ incidents \in Seq([by : Nat, units : SUBSET Crew])
      /\ c \in DOMAIN incidents /\ incidents[c].by = k
  <2>1. /\ confirmations \in Seq(Rows) /\ confirmations[k].phase = "assigning"
        /\ incidents \in Seq([by : Nat, units : SUBSET Crew])
    BY DEF FormInv, Assign
  <2>2. confirmations[k].created \in DOMAIN incidents /\ incidents[confirmations[k].created].by = k
    BY <2>1, Zenon DEF FormInv
  <2> HIDE DEF Rows
  <2>3. confirmations[k] \in Rows
    BY <2>1
  <2> QED
    BY <2>1, <2>2, <2>3 DEF c
<1>3. /\ row \in Rows /\ row.phase = (IF told THEN "told" ELSE "failed")
      /\ confirmations' = [confirmations EXCEPT ![k] = row]
  BY <1>1, <1>2 DEF ConfirmationPhases
<1> HIDE DEF row, c
<1>4. /\ confirmations' \in Seq(Rows) /\ DOMAIN confirmations' = DOMAIN confirmations
      /\ confirmations'[k] = row
      /\ \A j \in DOMAIN confirmations \ {k} : confirmations'[j] = confirmations[j]
  BY <1>3, OneAttempt
<1> HIDE DEF Rows
<1>5. /\ incidents' \in Seq([by : Nat, units : SUBSET Crew])
      /\ DOMAIN incidents' = DOMAIN incidents
      /\ \A i \in DOMAIN incidents : incidents'[i].by = incidents[i].by
      /\ \A i \in DOMAIN incidents \ {c} : incidents'[i] = incidents[i]
      /\ done => incidents'[c].units = Crew
  <2>1. CASE done
    <3>1. incidents' = [incidents EXCEPT ![c] = [@ EXCEPT !.units = Crew]]
      BY <1>1, <2>1
    <3> DEFINE Cards == [by : Nat, units : SUBSET Crew]
    <3>0. incidents[c] \in Cards
      <4>1. incidents \in Seq(Cards) /\ c \in DOMAIN incidents
        BY <1>2
      <4> HIDE DEF Cards
      <4> QED
        BY <4>1
    <3>2. /\ [incidents[c] EXCEPT !.units = Crew] \in [by : Nat, units : SUBSET Crew]
          /\ [incidents[c] EXCEPT !.units = Crew].by = incidents[c].by
          /\ [incidents[c] EXCEPT !.units = Crew].units = Crew
      BY <3>0
    <3> QED
      BY <1>2, <3>1, <3>2
  <2>2. CASE ~done
    BY <1>1, <1>2, <2>2
  <2> QED
    BY <2>1, <2>2
<1>6. /\ \A i \in DOMAIN incidents' : /\ incidents'[i].by \in DOMAIN confirmations'
                                     /\ confirmations'[incidents'[i].by].phase # "creating"
      /\ \A j \in DOMAIN confirmations' : confirmations'[j].phase = "assigning" =>
           /\ confirmations'[j].created \in DOMAIN incidents'
           /\ incidents'[confirmations'[j].created].by = j
  BY <1>3, <1>4, <1>5 DEF FormInv
<1>7. ToldIsRegistered'
  <2> SUFFICES ASSUME NEW j \in DOMAIN confirmations'
               PROVE  /\ \A x, y \in DOMAIN incidents' :
                            incidents'[x].by = j /\ incidents'[y].by = j => x = y
                      /\ confirmations'[j].phase = "told" =>
                           \E x \in DOMAIN incidents' : incidents'[x].by = j /\ incidents'[x].units = Crew
    BY DEF ToldIsRegistered
  <2>1. \A x, y \in DOMAIN incidents' : incidents'[x].by = j /\ incidents'[y].by = j => x = y
    <3>1. \A x, y \in DOMAIN incidents : incidents[x].by = j /\ incidents[y].by = j => x = y
      BY <1>4, Zenon DEF FormInv, ToldIsRegistered
    <3> QED
      BY <1>5, <3>1
  <2>2. ASSUME confirmations'[j].phase = "told"
        PROVE  \E x \in DOMAIN incidents' : incidents'[x].by = j /\ incidents'[x].units = Crew
    <3>1. CASE j = k
      BY <1>1, <1>2, <1>3, <1>4, <1>5, <2>2, <3>1
    <3>2. CASE j # k
      <4>1. PICK x \in DOMAIN incidents : incidents[x].by = j /\ incidents[x].units = Crew
        BY <1>4, <2>2, <3>2 DEF FormInv, ToldIsRegistered
      <4>2. x # c
        BY <1>2, <3>2, <4>1
      <4> QED
        BY <1>5, <4>1, <4>2
    <3> QED
      BY <3>1, <3>2
  <2> QED
    BY <2>1, <2>2
<1> QED
  BY <1>4, <1>5, <1>6, <1>7 DEF FormInv, Rows

LEMMA FormSteps == FormInv /\ FormNext => FormInv'
  BY ConfirmStep, CreateStep, AssignStep DEF FormNext

LEMMA QueryInductive == QueryInv /\ [QueryNext]_queryVars => QueryInv'
<1> SUFFICES ASSUME QueryInv, [QueryNext]_queryVars PROVE QueryInv'
  OBVIOUS
<1>1. CASE UNCHANGED detailVars
  <2>1. DetailInv'
    BY <1>1 DEF detailVars, QueryInv, DetailInv, SettledViewIsTrue, NothingPending, Settled
  <2>2. FormNext \/ UNCHANGED formVars
    BY DEF QueryNext, queryVars
  <2>3. FormInv'
    BY <2>2, FormSteps DEF QueryInv, FormInv, formVars, ToldIsRegistered
  <2> QED
    BY <2>1, <2>3 DEF QueryInv
<1>2. CASE DetailNext /\ UNCHANGED formVars
  BY <1>2, MutationSteps, FetchSteps, OthersSteps
  DEF DetailNext, QueryInv, FormInv, formVars, ToldIsRegistered
<1> QED
  BY <1>1, <1>2 DEF QueryNext, queryVars

\* What the dispatcher sees of an incident at rest is what the server has, whatever
\* optimistic changes, rollbacks, fetches, events and changes by others overlapped, unless
\* a fetch failed, an event was lost or a first fetch was kept; each confirmation registers
\* one incident at most, and what is announced as registered has all the units chosen.
THEOREM ViewAlwaysAgrees == QuerySpec => []ViewAgrees
<1>1. QueryInv => ViewAgrees
  BY DEF QueryInv, DetailInv, FormInv, ViewAgrees
<1> QED
  BY <1>1, QueryInitial, QueryInductive, PTL DEF QuerySpec

-----------------------------------------------------------------------------
(* The caches of the lookups.                                               *)

Points == {None, "point", "nowhere"}
ProviderStates == {"up", "down", "empty"}
Answers == [to : Questions[lookup], at : Points, kind : {"found", "nothing", "error"},
            by : {"primary", "haversine", "database"}, fallback : BOOLEAN,
            when : ProviderStates \cup {None}, age : Nat]
Keys == {CacheKey(q, at) : q \in Questions[lookup], at \in Points}
Entries == [key : Keys, left : Int, got : Answers]

Honest(got) ==
  /\ got.fallback = TRUE <=> got.by = "haversine"
  /\ got.by = "haversine" => got.when = "down"

\* Only a search has a point.
PointOf(at) == at \in Points /\ (lookup # "search" => at = None)

\* What is stored is stored under its own key, and no older than its life has run.
EntrySound(e) ==
  /\ e.key = CacheKey(e.got.to, e.got.at) /\ Cacheable(e.got.to) /\ PointOf(e.got.at)
  /\ e.left >= -1 /\ e.got.age + e.left <= Life + MaxDelay /\ Honest(e.got)

OneEach(list) == \A i, j \in DOMAIN list : list[i].key = list[j].key => i = j

ListSound(list) ==
  /\ list \in Seq(Entries) /\ OneEach(list)
  /\ \A i \in DOMAIN list : EntrySound(list[i])

Phases == {"idle", "locating", "calling", "told", "answered"}

\* An answer to q at the point at.
Fits(got, q, at) ==
  /\ got.to.form = q.form /\ got.at = at
  /\ got.to.alternatives = q.alternatives
  /\ \/ got.to.place = q.place
     \/ lookup = "geocode" /\ Canonical[got.to.place] = Canonical[q.place]

\* An answer on its way is as old as its request has waited for it, at most.
RequestSound(c) ==
  /\ DOMAIN c = {"phase", "q", "at", "delay", "got"}
  /\ c.phase \in Phases /\ c.delay \in 0 .. MaxDelay
  /\ c.phase # "idle" => c.q \in Questions[lookup]
  /\ c.phase = "locating" => lookup = "search"
  /\ c.phase \in {"calling", "told", "answered"} => PointOf(c.at)
  /\ c.phase = "told" =>
       c.got \in Answers /\ c.got.to = c.q /\ c.got.at = c.at /\ c.got.age <= c.delay
       /\ Honest(c.got)
  /\ c.phase = "answered" =>
       c.got \in Answers /\ Fits(c.got, c.q, c.at) /\ c.got.age <= Life + MaxDelay
       /\ Honest(c.got)

CacheInv ==
  /\ lookup \in AllLookups /\ provider \in ProviderStates
  /\ ListSound(cached) /\ (lookup # "figures" => Len(cached) <= Room)
  /\ DOMAIN asked = Askers /\ \A a \in Askers : RequestSound(asked[a])

LEMMA CacheNumbers == Life \in Nat /\ MaxDelay \in Nat /\ Room \in Nat \ {0}
  BY LookupAssumption

LEMMA CacheInitial == CacheInit => CacheInv
<1> SUFFICES ASSUME CacheInit PROVE CacheInv
  OBVIOUS
<1>1. cached = <<>> /\ cached \in Seq(Entries) /\ Len(cached) = 0 /\ DOMAIN cached = {}
  BY DEF CacheInit
<1>2. ListSound(cached) /\ (lookup # "figures" => Len(cached) <= Room)
  BY <1>1, CacheNumbers DEF ListSound, OneEach
<1>3. RequestSound(Idle)
  BY CacheNumbers DEF RequestSound, Idle, Phases
<1> QED
  BY <1>2, <1>3, LookupAssumption DEF CacheInit, CacheInv, ProviderStates

\* What is left when the entry of a key is taken out: the others, in their order.
LEMMA WithoutStep ==
  ASSUME CacheInv, NEW key
  PROVE  /\ ListSound(Without(key)) /\ Len(Without(key)) <= Len(cached)
         /\ Matching(key) # {} => Len(Without(key)) = Len(cached) - 1
         /\ \A i \in DOMAIN Without(key) : Without(key)[i].key # key
<1> DEFINE n == Len(cached)
           p == CHOOSE i \in Matching(key) : TRUE
           w == RemoveAt(cached, p)
<1>1. cached \in Seq(Entries) /\ n \in Nat /\ DOMAIN cached = 1 .. n
  BY DEF CacheInv, ListSound
<1>2. CASE Matching(key) = {}
  <2>1. Without(key) = cached
    BY <1>2 DEF Without
  <2>2. \A i \in DOMAIN cached : cached[i].key # key
    BY <1>2 DEF Matching
  <2>3. ListSound(cached)
    BY DEF CacheInv
  <2> QED
    BY <1>1, <1>2, <2>1, <2>2, <2>3
<1>3. CASE Matching(key) # {}
  <2>1. p \in 1 .. n /\ cached[p].key = key
    <3>1. p \in Matching(key)
      BY <1>3
    <3> QED
      BY <1>1, <3>1 DEF Matching
  <2>2. Without(key) = w
    BY <1>3 DEF Without
  <2> HIDE DEF n, p
  <2> DEFINE before == SubSeq(cached, 1, p - 1)
             after == SubSeq(cached, p + 1, n)
  <2>3. /\ before \in Seq(Entries) /\ Len(before) = p - 1
        /\ \A i \in 1 .. p - 1 : before[i] = cached[i]
    BY <1>1, <2>1, SubSeqProperties DEF n
  <2>4. /\ after \in Seq(Entries) /\ Len(after) = n - p
        /\ \A i \in 1 .. n - p : after[i] = cached[p + i]
    <3>1. p + 1 \in 1 .. n + 1 /\ n \in (p + 1) - 1 .. Len(cached)
      BY <1>1, <2>1 DEF n
    <3>2. /\ after \in Seq(Entries)
          /\ Len(after) = n - (p + 1) + 1
          /\ \A i \in 1 .. n - (p + 1) + 1 : after[i] = cached[p + 1 + i - 1]
      BY <1>1, <3>1, SubSeqProperties DEF n
    <3> HIDE DEF after
    <3>3. \A i \in 1 .. n - p : i \in 1 .. n - (p + 1) + 1 /\ p + 1 + i - 1 = p + i
      BY <1>1, <2>1
    <3>4. \A i \in 1 .. n - p : after[i] = cached[p + i]
      BY <3>2, <3>3
    <3>5. Len(after) = n - p
      BY <1>1, <2>1, <3>2
    <3> QED
      BY <3>2, <3>4, <3>5
  <2>0. /\ n - p \in Nat /\ p - 1 \in Nat
        /\ \A i \in 1 .. n - p : p + i \in 1 .. n
    BY <1>1, <2>1
  <2>5. w = before \o after
    BY DEF RemoveAt, n
  <2> HIDE DEF before, after, w
  <2>6. w \in Seq(Entries) /\ Len(w) = n - 1 /\ DOMAIN w = 1 .. n - 1
    <3>1. w \in Seq(Entries) /\ Len(w) = Len(before) + Len(after)
      BY <2>3, <2>4, <2>5, ConcatProperties
    <3>2. Len(w) = n - 1
      BY <1>1, <2>1, <2>3, <2>4, <3>1
    <3> QED
      BY <3>1, <3>2
  <2>7. \A i \in 1 .. n - 1 : w[i] = IF i < p THEN cached[i] ELSE cached[i + 1]
    BY <1>1, <2>1, <2>3, <2>4, <2>5, ConcatProperties
  <2>8. \A i \in 1 .. n - 1 : i + 1 \in 1 .. n /\ i \in 1 .. n
    BY <1>1
  <2>9. /\ \A i \in 1 .. n : EntrySound(cached[i])
        /\ \A i, j \in 1 .. n : cached[i].key = cached[j].key => i = j
    BY <1>1 DEF CacheInv, ListSound, OneEach
  <2>10. \A i \in DOMAIN w : EntrySound(w[i])
    BY <2>6, <2>7, <2>8, <2>9
  <2>11. OneEach(w)
    <3> SUFFICES ASSUME NEW i \in 1 .. n - 1, NEW j \in 1 .. n - 1, w[i].key = w[j].key
                 PROVE  i = j
      BY <2>6 DEF OneEach
    <3> QED
      BY <1>1, <2>1, <2>7, <2>8, <2>9
  <2>12. \A i \in DOMAIN w : w[i].key # key
    <3> SUFFICES ASSUME NEW i \in 1 .. n - 1, w[i].key = key PROVE FALSE
      BY <2>6
    <3> QED
      BY <1>1, <2>1, <2>7, <2>8, <2>9
  <2> QED
    BY <1>1, <1>3, <2>2, <2>6, <2>10, <2>11, <2>12 DEF ListSound, n
<1> QED
  BY <1>2, <1>3

\* An entry goes to the end of the others.
LEMMA PutStep ==
  ASSUME CacheInv, NEW e \in Entries, EntrySound(e)
  PROVE  LET list == Append(Without(e.key), e) IN
         /\ ListSound(list) /\ Len(list) = Len(Without(e.key)) + 1
<1> DEFINE w == Without(e.key)
           n == Len(w)
           list == Append(w, e)
<1>1. /\ w \in Seq(Entries) /\ OneEach(w) /\ n \in Nat /\ DOMAIN w = 1 .. n
      /\ \A i \in 1 .. n : EntrySound(w[i]) /\ w[i].key # e.key
  BY WithoutStep DEF ListSound
<1> HIDE DEF w
<1>2. /\ list \in Seq(Entries) /\ Len(list) = n + 1
      /\ \A i \in 1 .. n : list[i] = w[i]
      /\ list[n + 1] = e
  BY <1>1, AppendProperties
<1> HIDE DEF n, list
<1>3. DOMAIN list = 1 .. n + 1 /\ 1 .. n + 1 = (1 .. n) \cup {n + 1} /\ n + 1 \notin 1 .. n
  BY <1>1, <1>2
<1>4. \A i \in DOMAIN list : EntrySound(list[i])
  BY <1>1, <1>2, <1>3
<1>5. OneEach(list)
  <2> SUFFICES ASSUME NEW i \in DOMAIN list, NEW j \in DOMAIN list, list[i].key = list[j].key
               PROVE  i = j
    BY DEF OneEach
  <2>1. CASE i \in 1 .. n /\ j \in 1 .. n
    BY <1>1, <1>2, <2>1 DEF OneEach
  <2>2. CASE i = n + 1 \/ j = n + 1
    BY <1>1, <1>2, <1>3, <2>2
  <2> QED
    BY <1>3, <2>1, <2>2
<1>6. ListSound(list) /\ Len(list) = n + 1
  BY <1>2, <1>4, <1>5 DEF ListSound
<1> QED
  BY <1>6 DEF list, n, w

\* The least recently used go, and what stays is what it was.
LEMMA EvictedStep ==
  ASSUME NEW list, ListSound(list)
  PROVE  /\ ListSound(Evicted(list))
         /\ lookup # "figures" => Len(Evicted(list)) <= Room
<1> DEFINE n == Len(list)
           d == n - Room
           short == SubSeq(list, d + 1, n)
<1>1. list \in Seq(Entries) /\ n \in Nat /\ DOMAIN list = 1 .. n
  BY DEF ListSound
<1>2. CASE lookup = "figures" \/ n <= Room
  BY <1>2 DEF Evicted
<1>3. CASE lookup # "figures" /\ ~(n <= Room)
  <2>1. Evicted(list) = short
    BY <1>3 DEF Evicted
  <2> HIDE DEF n
  <2>2. d \in Nat /\ d + 1 \in Int /\ n \in Int /\ d + 1 <= n /\ Room \in Nat
    BY <1>1, <1>3, CacheNumbers
  <2>3. \A i \in d + 1 .. n : list[i] \in Entries
    BY <1>1, <2>2
  <2> HIDE DEF d
  <2>4. /\ short \in Seq(Entries) /\ Len(short) = n - (d + 1) + 1
        /\ \A i \in 1 .. n - (d + 1) + 1 : short[i] = list[d + 1 + i - 1]
    BY <2>2, <2>3, SubSeqProperties
  <2> HIDE DEF short
  <2>5. Len(short) = Room
    BY <1>1, <2>2, <2>4, CacheNumbers DEF d
  <2>6. /\ DOMAIN short = 1 .. Room
        /\ \A i \in 1 .. Room : short[i] = list[d + i] /\ d + i \in 1 .. n
    <3>1. n - (d + 1) + 1 = Room
      BY <2>4, <2>5
    <3>2. \A i \in 1 .. Room : d + 1 + i - 1 = d + i /\ d + i \in 1 .. n
      BY <1>1, <2>2 DEF d
    <3> QED
      BY <2>4, <2>5, <3>1, <3>2
  <2>7. \A i \in 1 .. Room : EntrySound(short[i])
    BY <1>1, <2>6 DEF ListSound
  <2>8. OneEach(short)
    <3> SUFFICES ASSUME NEW i \in 1 .. Room, NEW j \in 1 .. Room, short[i].key = short[j].key
                 PROVE  i = j
      BY <2>6 DEF OneEach
    <3>1. d + i = d + j
      BY <1>1, <2>6 DEF ListSound, OneEach
    <3> QED
      BY <2>2, <3>1
  <2> QED
    BY <2>1, <2>2, <2>4, <2>5, <2>6, <2>7, <2>8 DEF ListSound
<1> QED
  BY <1>2, <1>3

\* A request is told something or asks on: nobody else's request changes.
LEMMA RequestKept ==
  ASSUME CacheInv, lookup' = lookup, provider' \in ProviderStates, NEW a \in Askers, NEW c,
         asked' = [asked EXCEPT ![a] = c], RequestSound(c),
         ListSound(cached'), lookup # "figures" => Len(cached') <= Room
  PROVE  CacheInv'
<1>1. DOMAIN asked' = Askers /\ \A b \in Askers : RequestSound(asked'[b])
  BY DEF CacheInv
<1>2. ListSound(cached') <=> ListSound(cached)'
  BY DEF ListSound, Entries, Keys, Answers, EntrySound, OneEach, CacheKey, AddressKey,
     SearchKey, RouteKey, Cacheable, PointOf, Honest
<1>3. \A b \in Askers : RequestSound(asked'[b]) <=> RequestSound(asked[b])'
  BY DEF RequestSound, Answers, PointOf, Fits, Honest
<1> QED
  BY <1>1, <1>2, <1>3 DEF CacheInv

\* Under the key of one question lie answers to it only.
LEMMA KeyFits ==
  ASSUME CacheInv, NEW q \in Questions[lookup], NEW at, PointOf(at), Cacheable(q),
         NEW got, got.to \in Questions[lookup], PointOf(got.at), Cacheable(got.to),
         CacheKey(got.to, got.at) = CacheKey(q, at)
  PROVE  Fits(got, q, at)
<1>1. got.to.alternatives = q.alternatives
  BY LookupAssumption DEF Cacheable, CacheInv
<1>2. CASE lookup = "geocode"
  BY <1>1, <1>2 DEF CacheKey, AddressKey, PointOf, Fits
<1>3. CASE lookup = "search"
  BY <1>1, <1>3 DEF CacheKey, SearchKey, Fits
<1>4. CASE lookup \notin {"geocode", "search"}
  BY <1>1, <1>4 DEF CacheKey, RouteKey, PointOf, Fits
<1> QED
  BY <1>2, <1>3, <1>4

\* The same key, hit or missed.
LEMMA LookUpStep ==
  ASSUME CacheInv, NEW a \in Askers, NEW q \in Questions[lookup], NEW at, PointOf(at),
         LookUp(a, q, at), UNCHANGED <<lookup, provider>>
  PROVE  CacheInv'
<1> DEFINE asks(phase, got) ==
             [phase |-> phase, q |-> q, at |-> at, delay |-> 0, got |-> got]
           live == {i \in Matching(CacheKey(q, at)) : Cacheable(q) /\ Alive(cached[i])}
<1>1. provider' \in ProviderStates /\ 0 \in 0 .. MaxDelay
  BY CacheNumbers DEF CacheInv
<1>2. \/ \E i \in live :
           /\ cached' = Append(Without(cached[i].key), cached[i])
           /\ asked' = [asked EXCEPT ![a] = asks("answered", cached[i].got)]
      \/ /\ cached' = Without(CacheKey(q, at)) \/ cached' = cached
         /\ asked' = [asked EXCEPT ![a] = asks("calling", Answer)]
  BY DEF LookUp, Used
<1>3. ASSUME NEW i \in live, cached' = Append(Without(cached[i].key), cached[i]),
             asked' = [asked EXCEPT ![a] = asks("answered", cached[i].got)]
      PROVE  CacheInv'
  <2> DEFINE e == cached[i]
             c == asks("answered", e.got)
  <2>1. /\ i \in DOMAIN cached /\ e.key = CacheKey(q, at) /\ Cacheable(q) /\ e.left >= 0
    BY DEF Matching, Alive
  <2>2. e \in Entries /\ EntrySound(e)
    BY <2>1, ElementOfSeq DEF CacheInv, ListSound
  <2>3. ListSound(cached') /\ Len(cached') = Len(Without(e.key)) + 1
    BY <1>3, <2>2, PutStep
  <2>4. Matching(e.key) # {}
    BY <2>1 DEF Matching
  <2>5. Len(Without(e.key)) = Len(cached) - 1 /\ Len(cached) \in Nat
    BY <2>4, WithoutStep DEF CacheInv, ListSound
  <2>6. lookup # "figures" => Len(cached') <= Room
    BY <2>3, <2>5 DEF CacheInv
  <2>7. e.got \in Answers /\ e.left \in Int /\ e.got.age \in Nat
        /\ e.got.to \in Questions[lookup]
    BY <2>2 DEF Entries, Answers
  <2>8. Fits(e.got, q, at)
    BY <2>1, <2>2, <2>7, KeyFits DEF EntrySound
  <2>9. e.got.age <= Life + MaxDelay /\ Honest(e.got)
    BY <2>1, <2>2, <2>7, CacheNumbers DEF EntrySound
  <2> HIDE DEF e
  <2>10. /\ DOMAIN c = {"phase", "q", "at", "delay", "got"} /\ c.phase = "answered"
         /\ c.q = q /\ c.at = at /\ c.delay = 0 /\ c.got = e.got
    OBVIOUS
  <2>11. asked' = [asked EXCEPT ![a] = c]
    BY <1>3 DEF e
  <2> HIDE DEF c
  <2>12. RequestSound(c)
    BY <1>1, <2>7, <2>8, <2>9, <2>10 DEF RequestSound, Phases
  <2> QED
    BY <1>1, <2>3, <2>6, <2>11, <2>12, RequestKept
<1>4. ASSUME cached' = Without(CacheKey(q, at)) \/ cached' = cached,
             asked' = [asked EXCEPT ![a] = asks("calling", Answer)]
      PROVE  CacheInv'
  <2>1. ListSound(cached') /\ Len(cached') <= Len(cached) /\ Len(cached') \in Nat
    BY <1>4, WithoutStep DEF CacheInv, ListSound
  <2>2. lookup # "figures" => Len(cached') <= Room
    BY <2>1, CacheNumbers DEF CacheInv, ListSound
  <2>3. RequestSound(asks("calling", Answer))
    BY <1>1 DEF RequestSound, Phases
  <2> QED
    BY <1>1, <1>4, <2>1, <2>2, <2>3, RequestKept
<1> QED
  BY <1>2, <1>3, <1>4

LEMMA AskStep ==
  ASSUME CacheInv, NEW a \in Askers, NEW q \in Questions[lookup], Ask(a, q)
  PROVE  CacheInv'
<1>1. PointOf(None) \/ lookup = "search"
  BY DEF PointOf, Points
<1>2. CASE lookup = "search"
  <2> DEFINE c == [Idle EXCEPT !.phase = "locating", !.q = q]
  <2>1. asked' = [asked EXCEPT ![a] = c] /\ UNCHANGED <<lookup, provider, cached>>
    BY <1>2 DEF Ask
  <2>2. /\ DOMAIN c = {"phase", "q", "at", "delay", "got"} /\ c.phase = "locating"
        /\ c.q = q /\ c.delay = 0
    BY DEF Idle
  <2> HIDE DEF c
  <2>3. RequestSound(c)
    BY <1>2, <2>2, CacheNumbers DEF RequestSound, Phases
  <2> QED
    BY <2>1, <2>3, RequestKept DEF CacheInv
<1>3. CASE lookup # "search"
  BY <1>1, <1>3, LookUpStep DEF Ask
<1> QED
  BY <1>2, <1>3

LEMMA LocateStep ==
  ASSUME CacheInv, NEW a \in Askers, Locate(a)
  PROVE  CacheInv'
<1>1. asked[a].q \in Questions[lookup] /\ lookup = "search"
  BY DEF Locate, CacheInv, RequestSound
<1>2. PICK at \in {"point", "nowhere"} : LookUp(a, asked[a].q, at)
  BY DEF Locate
<1>3. PointOf(at) /\ UNCHANGED <<lookup, provider>>
  BY <1>1 DEF Locate, PointOf, Points
<1> QED
  BY <1>1, <1>2, <1>3, LookUpStep

\* What a provider says is honest, and of the moment.
LEMMA ToldHonest ==
  ASSUME CacheInv, NEW q \in Questions[lookup], NEW at, PointOf(at)
  PROVE  LET got == [Told EXCEPT !.to = q, !.at = at] IN
         /\ got \in Answers /\ got.to = q /\ got.at = at /\ got.age = 0 /\ Honest(got)
<1> DEFINE Blank == [to : {None}, at : {None}, kind : {"found", "nothing", "error"},
                     by : {"primary", "haversine", "database"}, fallback : BOOLEAN,
                     when : ProviderStates \cup {None}, age : {0}]
           got == [Told EXCEPT !.to = q, !.at = at]
<1>1. Told \in Blank /\ Honest(Told)
  <2>1. CASE lookup \in {"search", "figures"}
    <3>1. Told = [to |-> None, at |-> None, kind |-> "found", by |-> "database",
                  fallback |-> FALSE, when |-> None, age |-> 0]
      BY <2>1 DEF Told, DatabaseSays, By, Answer
    <3> QED
      BY <3>1 DEF Honest
  <2>2. CASE lookup \notin {"search", "figures", "route"}
    <3>1. PICK kind \in {"found", "nothing", "error"} :
            Told = [to |-> None, at |-> None, kind |-> kind, by |-> "primary",
                    fallback |-> FALSE, when |-> provider, age |-> 0]
      BY <2>2 DEF Told, GeocoderSays, By, Answer, CacheInv, ProviderStates
    <3> QED
      BY <3>1 DEF CacheInv, Honest
  <2>3. CASE lookup = "route" /\ provider = "down"
    <3>1. Told = [to |-> None, at |-> None, kind |-> "found", by |-> "haversine",
                  fallback |-> TRUE, when |-> "down", age |-> 0]
      BY <2>3 DEF Told, StraightLine, Unavailable, By, Answer
    <3> QED
      BY <3>1 DEF ProviderStates, Honest
  <2>4. CASE lookup = "route" /\ provider # "down"
    <3>1. PICK kind \in {"found", "error"} :
            Told = [to |-> None, at |-> None, kind |-> kind, by |-> "primary",
                    fallback |-> FALSE, when |-> provider, age |-> 0]
      BY <2>4 DEF Told, RouterSays, Unavailable, By, Answer
    <3> QED
      BY <3>1 DEF CacheInv, Honest
  <2> QED
    BY <2>1, <2>2, <2>3, <2>4
<1>2. at \in Points
  BY DEF PointOf
<1>3. got \in Answers
  <2>1. /\ DOMAIN got = {"to", "at", "kind", "by", "fallback", "when", "age"}
        /\ got = [k \in DOMAIN got |-> got[k]]
    BY <1>1
  <2>2. /\ got.to = q /\ got.at = at /\ got.kind = Told.kind /\ got.by = Told.by
        /\ got.when = Told.when /\ got.fallback = Told.fallback /\ got.age = 0
    BY <1>1
  <2>3. Told.fallback \in BOOLEAN
    BY <1>1
  <2> HIDE DEF got
  <2> QED
    BY <1>1, <1>2, <2>1, <2>2, <2>3 DEF Answers
<1>4. /\ got.to = q /\ got.at = at /\ got.age = 0 /\ got.by = Told.by
      /\ got.when = Told.when /\ got.fallback = Told.fallback
  BY <1>1
<1>5. Honest(got)
  BY <1>1, <1>4 DEF Honest
<1> QED
  BY <1>3, <1>4, <1>5

LEMMA ComputeStep ==
  ASSUME CacheInv, NEW a \in Askers, Compute(a)
  PROVE  CacheInv'
<1> DEFINE old == asked[a]
           got == [Told EXCEPT !.to = old.q, !.at = old.at]
           c == [old EXCEPT !.phase = "told", !.got = got]
<1>1. RequestSound(old) /\ old.phase = "calling"
  BY DEF CacheInv, Compute
<1>2. old.q \in Questions[lookup] /\ PointOf(old.at) /\ old.delay \in 0 .. MaxDelay
  BY <1>1 DEF RequestSound
<1>3. got \in Answers /\ got.to = old.q /\ got.at = old.at /\ got.age = 0 /\ Honest(got)
  BY <1>2, ToldHonest
<1>4. asked' = [asked EXCEPT ![a] = c] /\ UNCHANGED <<lookup, provider, cached>>
  BY DEF Compute, CacheInv
<1> HIDE DEF got
<1>5. /\ DOMAIN c = {"phase", "q", "at", "delay", "got"} /\ c.phase = "told" /\ c.got = got
      /\ c.q = old.q /\ c.at = old.at /\ c.delay = old.delay
  BY <1>1 DEF RequestSound
<1> HIDE DEF c, old
<1>6. RequestSound(c)
  BY <1>2, <1>3, <1>5, CacheNumbers DEF RequestSound, Phases
<1> QED
  BY <1>4, <1>6, RequestKept DEF CacheInv

\* The answer is stored, and older answers to the same question with it leave.
LEMMA ReceiveStep ==
  ASSUME CacheInv, NEW a \in Askers, Receive(a)
  PROVE  CacheInv'
<1> DEFINE old == asked[a]
           key == CacheKey(old.q, old.at)
           e == [key |-> key, left |-> Life, got |-> old.got]
           c == [old EXCEPT !.phase = "answered", !.delay = 0]
<1>1. RequestSound(old) /\ old.phase = "told"
  BY DEF CacheInv, Receive
<1>2. /\ old.q \in Questions[lookup] /\ PointOf(old.at) /\ old.delay \in 0 .. MaxDelay
      /\ old.got \in Answers /\ old.got.to = old.q /\ old.got.at = old.at
      /\ old.got.age <= old.delay /\ Honest(old.got) /\ old.got.age \in Nat
  BY <1>1 DEF RequestSound, Answers
<1>3. /\ cached' = IF Cacheable(old.q) /\ Stored(old.got)
                   THEN Evicted(Append(Without(e.key), e)) ELSE cached
      /\ asked' = [asked EXCEPT ![a] = c] /\ UNCHANGED <<lookup, provider>>
  BY DEF Receive, CacheInv
<1>4. ASSUME Cacheable(old.q)
      PROVE  e \in Entries /\ EntrySound(e)
  <2>1. key \in Keys
    BY <1>2 DEF Keys, PointOf
  <2>2. e \in Entries
    BY <1>2, <2>1, CacheNumbers DEF Entries
  <2>3. e.got.age + e.left <= Life + MaxDelay /\ e.left >= -1
    BY <1>2, CacheNumbers
  <2>4. e.got = old.got /\ e.key = key
    OBVIOUS
  <2> QED
    BY <1>2, <1>4, <2>2, <2>3, <2>4 DEF EntrySound
<1>5. ListSound(cached') /\ (lookup # "figures" => Len(cached') <= Room)
  <2>1. CASE Cacheable(old.q) /\ Stored(old.got)
    <3> HIDE DEF e
    <3> QED
      BY <1>3, <1>4, <2>1, PutStep, EvictedStep
  <2>2. CASE ~(Cacheable(old.q) /\ Stored(old.got))
    BY <1>3, <2>2 DEF CacheInv
  <2> QED
    BY <2>1, <2>2
<1>6. /\ DOMAIN c = {"phase", "q", "at", "delay", "got"} /\ c.phase = "answered"
      /\ c.q = old.q /\ c.at = old.at /\ c.got = old.got /\ c.delay = 0
  BY <1>1 DEF RequestSound
<1> HIDE DEF c, e, old
<1>7. Fits(c.got, c.q, c.at) /\ c.got.age <= Life + MaxDelay
  BY <1>2, <1>6, CacheNumbers DEF Fits
<1>8. RequestSound(c)
  BY <1>2, <1>6, <1>7, CacheNumbers DEF RequestSound, Phases
<1> QED
  BY <1>3, <1>5, <1>8, RequestKept DEF CacheInv

LEMMA LeaveStep ==
  ASSUME CacheInv, NEW a \in Askers, Leave(a)
  PROVE  CacheInv'
<1>1. RequestSound(Idle)
  BY CacheNumbers DEF RequestSound, Idle, Phases
<1> QED
  BY <1>1, RequestKept DEF Leave, CacheInv

\* A step that changes every entry or request at once.
LEMMA AllKept ==
  ASSUME CacheInv, lookup' = lookup, provider' \in ProviderStates,
         DOMAIN asked' = Askers, \A a \in Askers : RequestSound(asked'[a]),
         ListSound(cached'), lookup # "figures" => Len(cached') <= Room
  PROVE  CacheInv'
<1>1. ListSound(cached') <=> ListSound(cached)'
  BY DEF ListSound, Entries, Keys, Answers, EntrySound, OneEach, CacheKey, AddressKey,
     SearchKey, RouteKey, Cacheable, PointOf, Honest
<1>2. \A b \in Askers : RequestSound(asked'[b]) <=> RequestSound(asked[b])'
  BY DEF RequestSound, Answers, PointOf, Fits, Honest
<1> QED
  BY <1>1, <1>2 DEF CacheInv

\* An answer that is a tick older is otherwise the same.
LEMMA OlderStep ==
  ASSUME NEW got \in Answers
  PROVE  LET new == [got EXCEPT !.age = Older(@)] IN
         /\ new \in Answers /\ new.age <= got.age + 1 /\ new.to = got.to /\ new.at = got.at
         /\ (Honest(got) => Honest(new))
         /\ \A q, at : Fits(got, q, at) => Fits(new, q, at)
<1> DEFINE new == [got EXCEPT !.age = Older(@)]
<1>1. /\ got.age \in Nat /\ got.fallback \in BOOLEAN
      /\ DOMAIN got = {"to", "at", "kind", "by", "fallback", "when", "age"}
      /\ got = [k \in DOMAIN got |-> got[k]]
  BY DEF Answers
<1>2. Older(got.age) \in Nat /\ Older(got.age) <= got.age + 1
  BY <1>1, CacheNumbers DEF Older
<1>3. /\ DOMAIN new = DOMAIN got /\ new = [k \in DOMAIN new |-> new[k]]
      /\ new.age = Older(got.age) /\ new.to = got.to /\ new.at = got.at
      /\ new.kind = got.kind /\ new.by = got.by /\ new.when = got.when
      /\ new.fallback = got.fallback
  BY <1>1
<1> HIDE DEF new
<1>4. new \in Answers
  BY <1>1, <1>2, <1>3 DEF Answers
<1>5. Honest(got) => Honest(new)
  BY <1>3 DEF Honest
<1>6. \A q, at : Fits(got, q, at) => Fits(new, q, at)
  BY <1>3 DEF Fits
<1> QED
  BY <1>2, <1>3, <1>4, <1>5, <1>6 DEF new

\* What an entry lives less, its answer is older.
LEMMA AgedEntry ==
  ASSUME CacheInv, NEW e \in Entries, EntrySound(e), e.left >= 0
  PROVE  LET new == [e EXCEPT !.left = @ - 1, !.got.age = Older(@)] IN
         new \in Entries /\ EntrySound(new) /\ new.key = e.key
<1> DEFINE new == [e EXCEPT !.left = @ - 1, !.got.age = Older(@)]
           got == [e.got EXCEPT !.age = Older(@)]
<1>1. e.got \in Answers /\ e.left \in Int /\ e.got.age \in Nat /\ e.key \in Keys
  BY DEF Entries, Answers
<1>2. /\ got \in Answers /\ got.age <= e.got.age + 1 /\ got.to = e.got.to
      /\ got.at = e.got.at /\ Honest(got)
  BY <1>1, OlderStep DEF EntrySound
<1>3. /\ DOMAIN new = {"key", "left", "got"} /\ new = [k \in DOMAIN new |-> new[k]]
      /\ new.key = e.key /\ new.left = e.left - 1 /\ new.got = got
  BY DEF Entries
<1> HIDE DEF new, got
<1>4. new \in Entries
  BY <1>1, <1>2, <1>3 DEF Entries
<1>5. got.age \in Nat
  BY <1>2 DEF Answers
<1>6. new.left >= -1 /\ new.got.age + new.left <= Life + MaxDelay
  BY <1>1, <1>2, <1>3, <1>5, CacheNumbers DEF EntrySound
<1>7. EntrySound(new)
  BY <1>2, <1>3, <1>6 DEF EntrySound
<1> QED
  BY <1>3, <1>4, <1>7 DEF new

LEMMA AgedRequest ==
  ASSUME CacheInv, NEW c, RequestSound(c), c.phase \in {"locating", "calling", "told"},
         c.delay < MaxDelay
  PROVE  RequestSound([c EXCEPT !.delay = @ + 1,
                         !.got.age = IF c.phase = "told" THEN Older(@) ELSE @])
<1> DEFINE new == [c EXCEPT !.delay = @ + 1,
                     !.got.age = IF c.phase = "told" THEN Older(@) ELSE @]
<1>1. /\ DOMAIN new = {"phase", "q", "at", "delay", "got"} /\ new.phase = c.phase
      /\ new.q = c.q /\ new.at = c.at /\ new.delay = c.delay + 1
      /\ c.phase = "told" => new.got = [c.got EXCEPT !.age = Older(@)]
  BY DEF RequestSound
<1> HIDE DEF new
<1>2. c.delay + 1 \in 0 .. MaxDelay /\ c.delay \in Nat
  BY CacheNumbers DEF RequestSound
<1>3. ASSUME c.phase = "told"
      PROVE  /\ new.got \in Answers /\ new.got.to = c.q /\ new.got.at = c.at
             /\ new.got.age <= c.delay + 1 /\ Honest(new.got)
  <2>1. c.got \in Answers /\ c.got.age \in Nat /\ c.got.age <= c.delay /\ Honest(c.got)
        /\ c.got.to = c.q /\ c.got.at = c.at
    BY <1>3 DEF RequestSound, Answers
  <2>2. /\ new.got \in Answers /\ new.got.age <= c.got.age + 1 /\ new.got.to = c.got.to
        /\ new.got.at = c.got.at /\ Honest(new.got)
    BY <1>1, <1>3, <2>1, OlderStep
  <2>3. new.got.age \in Nat
    BY <2>2 DEF Answers
  <2> QED
    BY <1>2, <2>1, <2>2, <2>3
<1>4. RequestSound(new)
  BY <1>1, <1>2, <1>3 DEF RequestSound
<1> QED
  BY <1>4 DEF new

LEMMA TickStep == CacheInv /\ Tick => CacheInv'
<1> SUFFICES ASSUME CacheInv, Tick PROVE CacheInv'
  OBVIOUS
<1> DEFINE aged(e) == IF e.left < 0 THEN e
                      ELSE [e EXCEPT !.left = @ - 1, !.got.age = Older(@)]
<1>1. /\ cached' = [i \in DOMAIN cached |-> aged(cached[i])]
      /\ UNCHANGED <<lookup, provider>> /\ DOMAIN asked' = Askers
  BY DEF Tick
<1>2. cached \in Seq(Entries) /\ DOMAIN cached = 1 .. Len(cached) /\ Len(cached) \in Nat
  BY DEF CacheInv, ListSound
<1>3. \A i \in DOMAIN cached :
        aged(cached[i]) \in Entries /\ EntrySound(aged(cached[i])) /\ aged(cached[i]).key = cached[i].key
  <2> SUFFICES ASSUME NEW i \in DOMAIN cached
               PROVE  /\ aged(cached[i]) \in Entries /\ EntrySound(aged(cached[i]))
                      /\ aged(cached[i]).key = cached[i].key
    OBVIOUS
  <2>1. cached[i] \in Entries /\ EntrySound(cached[i])
    BY ElementOfSeq DEF CacheInv, ListSound
  <2>2. CASE cached[i].left < 0
    BY <2>1, <2>2
  <2>3. CASE ~(cached[i].left < 0)
    <3>1. cached[i].left >= 0
      BY <2>1, <2>3 DEF Entries
    <3> QED
      BY <2>1, <2>3, <3>1, AgedEntry
  <2> QED
    BY <2>2, <2>3
<1> HIDE DEF aged
<1>4. /\ cached' \in Seq(Entries) /\ Len(cached') = Len(cached)
      /\ DOMAIN cached' = DOMAIN cached
      /\ \A i \in DOMAIN cached : cached'[i] = aged(cached[i])
  BY <1>1, <1>2, <1>3
<1>5. ListSound(cached') /\ (lookup # "figures" => Len(cached') <= Room)
  <2>1. OneEach(cached')
    BY <1>3, <1>4 DEF OneEach, CacheInv, ListSound
  <2> QED
    BY <1>3, <1>4, <2>1 DEF CacheInv, ListSound
<1>6. ASSUME NEW a \in Askers PROVE RequestSound(asked'[a])
  <2>1. RequestSound(asked[a])
    BY DEF CacheInv
  <2>2. CASE a \notin Waiting
    BY <2>1, <2>2 DEF Tick
  <2>3. CASE a \in Waiting
    BY <2>1, <2>3, AgedRequest DEF Tick, Waiting
  <2> QED
    BY <2>2, <2>3
<1>7. provider' \in ProviderStates
  BY <1>1 DEF CacheInv
<1> QED
  BY <1>1, <1>5, <1>6, <1>7, AllKept

LEMMA CacheInductive == CacheInv /\ [CacheNext]_cacheVars => CacheInv'
<1> SUFFICES ASSUME CacheInv, [CacheNext]_cacheVars PROVE CacheInv'
  OBVIOUS
<1>1. ASSUME NEW a \in Askers, (\E q \in Questions[lookup] : Ask(a, q)) \/ Answering(a)
      PROVE  CacheInv'
  BY <1>1, AskStep, LocateStep, ComputeStep, ReceiveStep, LeaveStep DEF Answering
<1>2. CASE Tick
  BY <1>2, TickStep
<1>3. ASSUME NEW state \in ProviderStates, ProviderTurns(state)
      PROVE  CacheInv'
  BY <1>3, AllKept DEF ProviderTurns, CacheInv
<1>4. CASE UNCHANGED cacheVars
  BY <1>4, AllKept DEF cacheVars, CacheInv
<1> QED
  BY <1>1, <1>2, <1>3, <1>4 DEF CacheNext, ProviderStates

\* app/routing, app/gis, app/search and app/analytics: however many requests miss, wait
\* and store at the same time, a bounded cache stays within its bound and has one entry
\* for a key; nobody is told anything older than a life and a provider's delay, an answer
\* to another question, or a fallback route that is not flagged or was not needed.
THEOREM CacheAlwaysSound == CacheSpec => []CacheIsSound
<1>1. CacheInv => CacheIsSound
  <2> SUFFICES ASSUME CacheInv PROVE CacheIsSound
    OBVIOUS
  <2>1. CacheIsBounded
    BY DEF CacheInv, ListSound, OneEach, CacheIsBounded
  <2>2. \A a \in Answered : LET c == asked[a] IN
          /\ c.got \in Answers /\ Fits(c.got, c.q, c.at) /\ c.got.age <= Life + MaxDelay
          /\ Honest(c.got)
    BY DEF CacheInv, RequestSound, Answered
  <2>3. AnswersAreFresh
    BY <2>2 DEF AnswersAreFresh
  <2>4. AnswerFitsQuestion
    BY <2>2 DEF AnswerFitsQuestion, Fits
  <2>5. FallbackIsHonest
    <3> SUFFICES ASSUME NEW a \in Answered
                 PROVE  /\ asked[a].got.fallback <=> asked[a].got.by = "haversine"
                        /\ asked[a].got.by = "haversine" => asked[a].got.when = "down"
      BY DEF FallbackIsHonest
    <3>1. asked[a].got.fallback \in BOOLEAN
      BY <2>2 DEF Answers
    <3> QED
      BY <2>2, <3>1 DEF Honest
  <2> QED
    BY <2>1, <2>3, <2>4, <2>5 DEF CacheIsSound
<1> QED
  BY <1>1, CacheInitial, CacheInductive, PTL DEF CacheSpec
=============================================================================
