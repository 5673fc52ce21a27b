-------------------------- MODULE DispatcherSocket --------------------------
(***************************************************************************)
(* The real-time channel of a browser tab: one DispatcherSocketService,     *)
(* shared by the dispatcher's workspace, which connects and disconnects it,  *)
(* and the management of one incident, which only connects it.  Browser      *)
(* sockets close in two steps (CLOSING, then onclose), and their callbacks   *)
(* act on the service's current socket, whichever it is by then.             *)
(***************************************************************************)
EXTENDS Naturals, FiniteSets

CONSTANTS
  Channels,   \* bound: sockets the browser may have at once
  Nobody      \* no socket, no screen

Screens == {"workspace", "management"}

(* Having no socket is not a socket, showing no screen not a screen. *)
ASSUME SocketAssumption == Nobody \notin Channels \cup Screens

VARIABLES
  socket,    \* channel -> the browser's WebSocket
  ws,        \* this.ws
  status,    \* what the indicator shows
  closed,    \* explicitlyClosed
  attempts,  \* whether there were attempts since the last opening
  timers,    \* those that run: "reconnect", "heartbeat", "pong"
  screen,    \* what the tab shows
  visited,   \* the screens shown so far
  network    \* "good": connections open and stay; "poor": anything may happen

socketVars == <<socket, ws, status, closed, attempts, timers, screen, visited, network>>

Unused == [state |-> "none", heard |-> FALSE, dead |-> FALSE]

SocketInit ==
  /\ socket = [c \in Channels |-> Unused]
  /\ ws = Nobody /\ status = "closed" /\ closed = FALSE /\ attempts = FALSE
  /\ timers = {} /\ screen = Nobody /\ visited = {} /\ network = "good"

Ready == ws # Nobody /\ socket[ws].state \in {"connecting", "open"}

---------------------------------------------------------------------------
(* What the service does; the service's state is a record in between, since  *)
(* leaving one screen for another disconnects and connects in one step.       *)

Service == [socket |-> socket, ws |-> ws, status |-> status, closed |-> closed,
            attempts |-> attempts, timers |-> timers]
Becomes(s) ==
  /\ socket' = s.socket /\ ws' = s.ws /\ status' = s.status /\ closed' = s.closed
  /\ attempts' = s.attempts /\ timers' = s.timers

(* close() of a socket: its closing takes a while. *)
Closing(sockets, c) ==
  IF c # Nobody /\ sockets[c].state \in {"connecting", "open"}
  THEN [sockets EXCEPT ![c].state = "closing"] ELSE sockets

Usable(s) == s.ws # Nobody /\ s.socket[s.ws].state \in {"connecting", "open"}

Connected(s) ==
  IF Usable(s) THEN {s}
  ELSE {[s EXCEPT !.closed = FALSE, !.ws = c,
           !.socket[c] = [state |-> "connecting", heard |-> TRUE, dead |-> FALSE],
           !.status = IF s.attempts THEN "reconnecting" ELSE "connecting"] :
          c \in {d \in Channels : s.socket[d].state = "none"}}

(* Mutant: a reconnection that was due survives. *)
DisconnectedOnly(s) ==
  [s EXCEPT !.closed = TRUE, !.ws = Nobody, !.status = "closed",
     !.socket = IF s.ws = Nobody THEN @
                ELSE Closing([@ EXCEPT ![s.ws].heard = FALSE], s.ws)]
Disconnected(s) ==
  [s EXCEPT !.closed = TRUE, !.timers = {}, !.ws = Nobody, !.status = "closed",
     !.socket = IF s.ws = Nobody THEN @
                ELSE Closing([@ EXCEPT ![s.ws].heard = FALSE], s.ws)]

ReconnectScheduled(s) ==
  [s EXCEPT !.status = "reconnecting", !.attempts = TRUE, !.timers = @ \cup {"reconnect"}]

(* handleClose, whichever socket closed. *)
HandledClose(s) ==
  LET t == [s EXCEPT !.timers = {}, !.ws = Nobody] IN
  IF s.closed THEN [t EXCEPT !.status = "closed"] ELSE ReconnectScheduled(t)

(* Mutant: no heartbeat is started. *)
OpenedOnly(s) == [s EXCEPT !.attempts = FALSE, !.status = "open"]
HandledOpen(s) ==
  [s EXCEPT !.attempts = FALSE, !.status = "open",
     !.timers = (@ \ {"pong"}) \cup {"heartbeat"}]

HandledError(s) == [s EXCEPT !.socket = Closing(@, s.ws)]

---------------------------------------------------------------------------
(* The user: the old screen's effect is cleaned up, the new one's runs.       *)

Show(new) ==
  /\ screen' = new /\ visited' = visited \cup ({new} \ {Nobody})
  /\ LET left == IF screen = "workspace" THEN Disconnected(Service) ELSE Service IN
     \E s \in IF new = Nobody THEN {left} ELSE Connected(left) : Becomes(s)
  /\ UNCHANGED network

Navigate ==
  \E new \in Screens \cup {Nobody} :
     (new # screen \/ new = "management") /\ Show(new)  \* from incident to incident

(* The timers. *)
Fires(timer) == timer \in timers /\ UNCHANGED <<screen, visited, network>>

Reconnect ==
  /\ Fires("reconnect")
  /\ \E s \in Connected([Service EXCEPT !.timers = @ \ {"reconnect"}]) : Becomes(s)

Ping ==
  /\ Fires("heartbeat") /\ "pong" \notin timers
  /\ ws # Nobody /\ socket[ws].state = "open"
  /\ Becomes([Service EXCEPT !.timers = @ \cup {"pong"}])

(* The server answers in time. *)
Pong ==
  /\ Fires("pong")
  /\ Ready /\ socket[ws].state = "open" /\ ~ socket[ws].dead
  /\ Becomes([Service EXCEPT !.timers = @ \ {"pong"}])

PongTimeout ==
  /\ Fires("pong")
  /\ network = "poor" \/ ~ Ready \/ socket[ws].dead
  /\ Becomes([HandledError(Service) EXCEPT !.timers = @ \ {"pong"}])

(* The browser. *)
Browser(c, state) == socket[c].state = state /\ UNCHANGED <<screen, visited, network>>
Moved(c, state) ==
  [Service EXCEPT !.socket[c] = IF state = "none" THEN Unused ELSE [@ EXCEPT !.state = state]]

Opens(c) ==
  /\ Browser(c, "connecting")
  /\ Becomes(IF socket[c].heard THEN HandledOpen(Moved(c, "open")) ELSE Moved(c, "open"))

(* A connection is refused or breaks: onerror and onclose in one task. *)
Breaks(c) ==
  /\ network = "poor" /\ socket[c].state \in {"connecting", "open"}
  /\ LET s == Moved(c, "none") IN
     Becomes(IF socket[c].heard THEN HandledClose(HandledError(s)) ELSE s)
  /\ UNCHANGED <<screen, visited, network>>

(* The server starts to close it. *)
ClosedByServer(c) ==
  /\ network = "poor" /\ Browser(c, "open") /\ Becomes(Moved(c, "closing"))

(* The peer is gone without a word. *)
Dies(c) ==
  /\ network = "poor" /\ Browser(c, "open") /\ ~ socket[c].dead
  /\ Becomes([Service EXCEPT !.socket[c].dead = TRUE])

(* Its closing ends: onclose alone. *)
Closes(c) ==
  /\ Browser(c, "closing")
  /\ LET s == Moved(c, "none") IN
     Becomes(IF socket[c].heard THEN HandledClose(s) ELSE s)

NetworkTurns ==
  /\ network' = IF network = "good" THEN "poor" ELSE "good"
  /\ UNCHANGED <<socket, ws, status, closed, attempts, timers, screen, visited>>

Handling(c) == Opens(c) \/ Closes(c)
Timeouts == Reconnect \/ Ping \/ PongTimeout

SocketNext ==
  \/ Navigate \/ NetworkTurns \/ Timeouts \/ Pong
  \/ \E c \in Channels :
       Handling(c) \/ Breaks(c) \/ ClosedByServer(c) \/ Dies(c)

(* The browser runs the timers and dispatches the events of its sockets.      *)
SocketFairness ==
  /\ WF_socketVars(Reconnect) /\ WF_socketVars(Ping) /\ WF_socketVars(PongTimeout)
  /\ \A c \in Channels : WF_socketVars(Handling(c))

SocketSpec == SocketInit /\ [][SocketNext]_socketVars

---------------------------------------------------------------------------
(* Properties. *)

(* The sockets that may deliver events to the screens. *)
Live == {c \in Channels : socket[c].state \in {"connecting", "open"} /\ socket[c].heard}

(* "One channel per browser tab" (socket.service.ts:225). *)
OneChannel == Cardinality(Live) <= 1

(* As long as the workspace alone uses the service it has one channel while     *)
(* it is shown and, connected, closing or due to reconnect, none once it is     *)
(* left: no timer or callback of an earlier connection opens another.           *)
WorkspaceOwnsChannel ==
  visited \subseteq {"workspace"} =>
    /\ OneChannel
    /\ screen = Nobody => Live = {} /\ timers = {}

(* A screen that is shown always has a connection, or one that is closing, or    *)
(* a reconnection that is due: it is never left without a channel for good.      *)
NeverStranded == screen # Nobody => ws # Nobody \/ "reconnect" \in timers

(* A screen that is shown has its channel, and nothing else has one. *)
ChannelIsOwned == WorkspaceOwnsChannel /\ NeverStranded

(* Once the network stays good and a screen stays shown, the channel comes back  *)
(* and stays, dead connections that nobody closed included.                       *)
ChannelRecovers ==
  <>[](network = "good" /\ screen # Nobody) /\ <>[][FALSE]_screen =>
    <>[](ws # Nobody /\ socket[ws].state = "open" /\ ~ socket[ws].dead /\ status = "open")
=============================================================================
