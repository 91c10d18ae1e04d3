----------------------------- MODULE WsClient -----------------------------
(***************************************************************************)
(* The browser's WebSocketService (frontend/src/services/websocket.ts), as *)
(* App.tsx mounts and unmounts it.  The class keeps a socket, a reconnect  *)
(* timer and a count of attempts for each of its two streams, and one flag *)
(* that tells an intended disconnect from a lost connection.               *)
(*                                                                         *)
(* Callbacks run one at a time, each a step.  close() and the network only *)
(* start the end of a socket: its onclose runs later, and by then the      *)
(* service may already hold another one.                                   *)
(*                                                                         *)
(* The names of the specification's parts begin with Service: one module   *)
(* of proofs extends both ends of the connection, this one and WsStream.   *)
(***************************************************************************)
EXTENDS Naturals, FiniteSets, FiniteSetsExt

CONSTANTS
  MaxSockets, \* bound: sockets made for a stream
  MaxMounts,  \* bound: calls of connect()
  CapAttempts \* attempts from which the delay is maxReconnectInterval

ASSUME BoundsAssumption ==
  MaxSockets \in Nat \ {0} /\ MaxMounts \in Nat \ {0} /\ CapAttempts \in Nat \ {0}

Streams == {"stream", "alerts"}
None == 0
Ids == 1..MaxSockets

VARIABLES
  half,        \* per stream: its part of the service, and its sockets
  intentional, \* isIntentionalDisconnect
  connected,   \* wsConnected in the store, which only "stream" sets
  mounts       \* calls of connect() so far

serviceVars == <<half, intentional, connected, mounts>>

ServiceInit ==
  /\ half = [s \in Streams |->
       [socket   |-> [i \in Ids |-> "unused"], \* readyState of every socket made
        current  |-> None,                     \* streamSocket, alertSocket
        timers   |-> {},   \* timeouts that have not fired and are not cleared
        timer    |-> None, \* streamReconnectTimer, alertReconnectTimer
        attempts |-> 0,    \* reconnect attempts, counted up to CapAttempts
        late     |-> 0]]   \* history: onclose events of sockets given up, after a new connect()
  /\ intentional = FALSE
  /\ connected = FALSE
  /\ mounts = 0

In(h, state) == {i \in Ids : h.socket[i] = state}
Live(h) == In(h, "connecting") \cup In(h, "open")
UsedUp(h) == In(h, "unused") = {}
Mounted == mounts > 0 /\ ~intentional

(***************************************************************************)
(* connectStream, connectAlerts: nothing while the socket held opens or is *)
(* open; else clear the recorded timer and make a socket.                  *)
(***************************************************************************)
Connecting(h) ==
  IF h.current \in Live(h) THEN h
  ELSE LET i == Min(In(h, "unused"))
       IN  [h EXCEPT !.socket[i] = "connecting", !.current = i, !.timers = @ \ {h.timer}]

CanConnect(h) == h.current \in Live(h) \/ ~UsedUp(h)

(* connect(): App mounts. *)
ServiceConnect ==
  /\ ~Mounted
  /\ mounts < MaxMounts
  /\ \A s \in Streams : CanConnect(half[s])
  /\ mounts' = mounts + 1
  /\ intentional' = FALSE
  /\ half' = [s \in Streams |-> Connecting([half[s] EXCEPT !.attempts = 0])]
  /\ UNCHANGED connected

(* Mutation of Released: the socket is dropped without close(). *)
ReleasedUnclosed(h) == [h EXCEPT !.current = None, !.timers = @ \ {h.timer}]

Released(h) ==
  [h EXCEPT !.current = None, !.timers = @ \ {h.timer},
            !.socket = [i \in Ids |-> IF i = h.current /\ i \in Live(h) THEN "closing" ELSE @[i]]]

(* disconnect(): App unmounts. *)
ServiceDisconnect ==
  /\ Mounted
  /\ intentional' = TRUE
  /\ half' = [s \in Streams |-> Released(half[s])]
  /\ connected' = FALSE
  /\ UNCHANGED mounts

(* onopen: the server accepted. *)
OnOpen(s, i) ==
  /\ half[s].socket[i] = "connecting"
  /\ half' = [half EXCEPT ![s].socket[i] = "open", ![s].attempts = 0]
  /\ connected' = (connected \/ s = "stream")
  /\ UNCHANGED <<intentional, mounts>>

(* The server or the network ends a socket, or refuses it. *)
Drop(s, i) ==
  /\ i \in Live(half[s])
  /\ half' = [half EXCEPT ![s].socket[i] = "closing"]
  /\ UNCHANGED <<intentional, connected, mounts>>

(* Mutation of Reconnects: the service gives up after CapAttempts. *)
ReconnectsAtFirst(h) == ~intentional /\ h.attempts < CapAttempts

Reconnects(h) == ~intentional

(* Mutation of WhenClosed: only onopen and disconnect() set the flag. *)
WhenClosedAsBefore(s) == connected

WhenClosed(s) == connected /\ s # "stream"

(* onclose, of whichever socket.  A timeout has the number of the socket whose
   end made it. *)
OnClose(s, i) ==
  LET h == half[s]
      expected == h.current = i \/ (intentional /\ h.current = None)
      closed == [h EXCEPT !.socket[i] = "closed", !.current = None,
                          !.late = @ + IF expected THEN 0 ELSE 1]
  IN  /\ h.socket[i] = "closing"
      /\ connected' = WhenClosed(s)
      /\ half' = [half EXCEPT ![s] = IF Reconnects(h)
                    THEN [closed EXCEPT !.timers = @ \cup {i}, !.timer = i] ELSE closed]
      /\ UNCHANGED <<intentional, mounts>>

(* Mutation of NextAttempt: the delay grows without a limit. *)
NextAttemptUncapped(n) == n + 1

NextAttempt(n) == IF n < CapAttempts THEN n + 1 ELSE n

(* A timeout fires after baseReconnectInterval * 1.5 ^ attempts. *)
OnTimer(s, t) ==
  LET fired == [half[s] EXCEPT !.timers = @ \ {t}, !.attempts = NextAttempt(@)]
  IN  /\ t \in half[s].timers
      /\ CanConnect(fired)
      /\ half' = [half EXCEPT ![s] = Connecting(fired)]
      /\ UNCHANGED <<intentional, connected, mounts>>

Browser(s) == \E i \in Ids : OnClose(s, i) \/ OnTimer(s, i)

ServiceNext ==
  \/ ServiceConnect
  \/ ServiceDisconnect
  \/ \E s \in Streams :
       \/ \E i \in Ids : OnOpen(s, i) \/ Drop(s, i)
       \/ Browser(s)

ServiceSpec == ServiceInit /\ [][ServiceNext]_serviceVars
FairServiceSpec == ServiceSpec /\ \A s \in Streams : WF_serviceVars(Browser(s))

(***************************************************************************)
(* Properties                                                              *)
(***************************************************************************)
(* Types; the service never holds a socket whose onclose has run, and the
   delay stops growing (websocket.ts 51-66, 92-103). *)
ServiceTypeOK ==
  /\ \A s \in Streams : LET h == half[s] IN
       /\ h.socket \in [Ids -> {"unused", "connecting", "open", "closing", "closed"}]
       /\ h.current \in {None} \cup Live(h) \cup In(h, "closing")
       /\ h.timers \subseteq Ids /\ h.timer \in {None} \cup Ids
       /\ h.attempts \in 0..CapAttempts /\ h.late \in 0..MaxSockets
  /\ intentional \in BOOLEAN /\ connected \in BOOLEAN
  /\ mounts \in 0..MaxMounts

(* A stream has one live socket, plus at most one for each onclose that came
   after disconnect() and a new connect(): such an event makes the service
   forget a socket that works, and open another (websocket.ts 51-66). *)
OneSocketButLate ==
  \A s \in Streams : Cardinality(Live(half[s])) <= 1 + half[s].late

(* As long as no onclose came late: disconnect() leaves neither a live socket
   nor a timer behind, and wsConnected tells the truth, the network's delay
   aside (websocket.ts 43-66, 107-116). *)
DisconnectFinalButLate ==
  \A s \in Streams : LET h == half[s] IN
    h.late = 0 =>
      /\ intentional => Live(h) = {} /\ h.timers = {}
      /\ s = "stream" /\ connected => h.current # None
      /\ s = "stream" /\ h.current \in In(h, "open") => connected

(* While the app stays mounted, a lost connection is tried again, whatever
   events arrive late (websocket.ts 56-66, 95-103). *)
KeepsTrying ==
  \A s \in Streams : Mounted ~> (Live(half[s]) # {} \/ ~Mounted \/ UsedUp(half[s]))
=============================================================================
