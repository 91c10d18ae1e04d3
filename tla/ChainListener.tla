--------------------------- MODULE ChainListener ---------------------------
(***************************************************************************)
(* BlockchainListener (app/blockchain/listener.py): an async generator     *)
(* that connects to one of a list of endpoints, follows the chain's head   *)
(* over a WebSocket subscription or by polling, and fails over with an     *)
(* exponential back-off.                                                   *)
(*                                                                         *)
(* The transactions of a block are yielded one after the other and nothing *)
(* but get_block can fail in between, so a block is emitted in one step.   *)
(* An endpoint is up or down; a call on it succeeds when it is up and      *)
(* raises when it is down, and it may change at any moment, so any single  *)
(* call may fail.                                                          *)
(***************************************************************************)
EXTENDS Integers, FiniteSets

CONSTANTS
  N,           \* length of the endpoint list
  WsEndpoints, \* indices of the endpoints with a WebSocket URL
  BackoffMax,  \* seconds
  Lag,         \* blocks by which an endpoint's reported head may trail
  MaxBlock,    \* bound: height of the chain
  MaxTrouble,  \* bound: interrupted scans and heads that went backwards
  MaxFails     \* bound: errors in a row that are told apart

Endpoints == 0..(N - 1)

ASSUME EndpointsAssumption == N \in Nat \ {0} /\ WsEndpoints \subseteq Endpoints
ASSUME BoundsAssumption ==
  /\ BackoffMax \in Nat \ {0} /\ Lag \in Nat /\ MaxBlock \in Nat /\ MaxTrouble \in Nat
  /\ MaxFails \in Nat \ {0} /\ 2 ^ (MaxFails - 1) >= BackoffMax

VARIABLES
  chain,    \* height of the chain
  up,       \* which endpoints answer
  running,  \* _running
  mode,     \* where the generator is suspended
  idx,      \* _endpoint_index
  backoff,  \* seconds to sleep after the next error
  last,     \* last_block of _poll_stream
  target,   \* latest, while its range is scanned
  next,     \* block to emit next: in the scan, or from the subscription
  from,     \* history: head when this connection was opened
  times,    \* history: how often this connection emitted a block
  trouble,  \* history: interrupted scans and backward heads
  fails     \* history: errors since a connection last answered

world == <<chain, up>>
cursor == <<last, target, next, from, times>>
vars == <<chain, up, running, mode, idx, backoff, last, target, next, from,
          times, trouble, fails>>

Blocks == 1..MaxBlock
Smaller(a, b) == IF a < b THEN a ELSE b
Connected == {"polling", "scanning", "following"}

Init ==
  /\ chain = 0
  /\ up \in [Endpoints -> BOOLEAN]
  /\ running = TRUE
  /\ mode = "connecting"
  /\ idx = 0
  /\ backoff = 1
  /\ last = 0 /\ target = 0 /\ next = 0 /\ from = 0
  /\ times = [b \in Blocks |-> 0]
  /\ trouble = 0
  /\ fails = 0

(***************************************************************************)
(* The world: the chain grows, endpoints come and go, and the owner may    *)
(* call stop().                                                            *)
(***************************************************************************)
NewBlock ==
  /\ chain < MaxBlock
  /\ chain' = chain + 1
  /\ UNCHANGED <<up, running, mode, idx, backoff, cursor, trouble, fails>>

Flip(e) ==
  /\ up' = [up EXCEPT ![e] = ~@]
  /\ UNCHANGED <<chain, running, mode, idx, backoff, cursor, trouble, fails>>

Stop ==
  /\ running' = FALSE
  /\ UNCHANGED <<world, mode, idx, backoff, cursor, trouble, fails>>

(* The head an endpoint reports: it may trail the chain, so successive
   answers may go backwards. *)
Reported == {v \in 0..chain : v >= chain - Lag}

(***************************************************************************)
(* stream(): connect, and on any error fail over, sleep and double.        *)
(***************************************************************************)
(* Mutation of ConnectionAnswers: the back-off is not reset. *)
ConnectionAnswersNoReset ==
  /\ mode = "connecting" /\ running
  /\ up[idx]
  /\ mode' = "opening"
  /\ fails' = 0
  /\ UNCHANGED <<world, running, idx, backoff, cursor, trouble>>

ConnectionAnswers ==
  /\ mode = "connecting" /\ running
  /\ up[idx]
  /\ mode' = "opening"
  /\ backoff' = 1
  /\ fails' = 0
  /\ UNCHANGED <<world, running, idx, cursor, trouble>>

(* Mutation of NextEndpoint: retry the same endpoint. *)
SameEndpoint == idx

NextEndpoint == (idx + 1) % N

(* The subscription's iterator ends without an error, as it may when the server
   closes the socket in good order: the outer loop tries the same endpoint. *)
SubscriptionEnds ==
  /\ mode = "following"
  /\ mode' = "connecting"
  /\ UNCHANGED <<world, running, idx, backoff, cursor, trouble, fails>>

(* is_connected is false, block_number or subscribe raises, or the
   subscription breaks or cannot fetch an announced block. *)
ConnectionFails ==
  /\ mode \in {"connecting", "opening", "following"} /\ (mode = "connecting" => running)
  /\ ~up[idx]
  /\ mode' = "sleeping"
  /\ idx' = NextEndpoint
  /\ fails' = Smaller(fails + 1, MaxFails)
  /\ UNCHANGED <<world, running, backoff, cursor, trouble>>

(* Mutation of Wake: the delay has no cap. *)
WakeUncapped ==
  /\ mode = "sleeping"
  /\ mode' = "connecting"
  /\ backoff' = backoff * 2
  /\ UNCHANGED <<world, running, idx, cursor, trouble, fails>>

Wake ==
  /\ mode = "sleeping"
  /\ mode' = "connecting"
  /\ backoff' = Smaller(backoff * 2, BackoffMax)
  /\ UNCHANGED <<world, running, idx, cursor, trouble, fails>>

(* A new connection starts at the head; what came before is not fetched. *)
StartAt(v) ==
  /\ from' = v
  /\ last' = v
  /\ target' = v
  /\ next' = v + 1
  /\ times' = [b \in Blocks |-> 0]
  /\ trouble' = 0

(* stop() is noticed where a loop tests _running: here, between polls. *)
NextPoll == IF running THEN "polling" ELSE "ended"

OpenPoll ==
  /\ mode = "opening" /\ up[idx] /\ idx \notin WsEndpoints
  /\ mode' = NextPoll
  /\ \E v \in Reported : StartAt(v)
  /\ UNCHANGED <<world, running, idx, backoff, fails>>

Subscribe ==
  /\ mode = "opening" /\ up[idx] /\ idx \in WsEndpoints
  /\ mode' = "following"
  /\ StartAt(chain)
  /\ UNCHANGED <<world, running, idx, backoff, fails>>

(* newHeads announces every later block in turn. *)
Follow ==
  /\ mode = "following" /\ up[idx]
  /\ next <= chain
  /\ times' = [times EXCEPT ![next] = @ + 1]
  /\ next' = next + 1
  /\ UNCHANGED <<world, running, mode, idx, backoff, last, target, from,
                 trouble, fails>>

(***************************************************************************)
(* _poll_stream(): every 12 s ask for the head and emit last+1..latest;    *)
(* last moves only when the whole range is through, and every error of the *)
(* loop's body is swallowed.                                               *)
(***************************************************************************)
(* Mutation of FirstOfRange: range(last_block, latest + 1). *)
FirstOfRangeEarly == IF last = 0 THEN 1 ELSE last

FirstOfRange == last + 1

PollScans ==
  /\ mode = "polling" /\ up[idx]
  /\ \E v \in Reported :
       /\ v > last
       /\ target' = v
  /\ next' = FirstOfRange
  /\ mode' = "scanning"
  /\ UNCHANGED <<world, running, idx, backoff, last, from, times, trouble, fails>>

(* An empty range still assigns last_block: it may go backwards. *)
PollFindsNothing ==
  /\ mode = "polling" /\ up[idx]
  /\ \E v \in Reported :
       /\ v <= last
       /\ v < last => trouble < MaxTrouble
       /\ last' = v
       /\ trouble' = IF v < last THEN trouble + 1 ELSE trouble
  /\ mode' = NextPoll
  /\ UNCHANGED <<world, running, idx, backoff, target, next, from, times, fails>>

EmitBlock ==
  /\ mode = "scanning" /\ up[idx]
  /\ times' = [times EXCEPT ![next] = @ + 1]
  /\ IF next < target
     THEN next' = next + 1 /\ UNCHANGED <<mode, last>>
     ELSE mode' = NextPoll /\ last' = target /\ UNCHANGED next
  /\ UNCHANGED <<world, running, idx, backoff, target, from, trouble, fails>>

(* Mutation of PollFails: last_block moves on in a finally clause. *)
PollFailsMovingOn ==
  /\ mode \in {"polling", "scanning"} /\ ~up[idx]
  /\ mode = "scanning" => trouble < MaxTrouble
  /\ mode' = NextPoll
  /\ last' = target
  /\ trouble' = IF mode = "scanning" THEN trouble + 1 ELSE trouble
  /\ UNCHANGED <<world, running, idx, backoff, target, next, from, times, fails>>

PollFails ==
  /\ mode \in {"polling", "scanning"} /\ ~up[idx]
  /\ mode = "scanning" => trouble < MaxTrouble
  /\ mode' = NextPoll
  /\ trouble' = IF mode = "scanning" THEN trouble + 1 ELSE trouble
  /\ UNCHANGED <<world, running, idx, backoff, cursor, fails>>

(* The outer loop ends; from _poll_stream this follows at once. *)
LoopEnds ==
  /\ mode = "connecting" /\ ~running
  /\ mode' = "ended"
  /\ UNCHANGED <<world, running, idx, backoff, cursor, trouble, fails>>

Listen ==
  \/ ConnectionAnswers \/ ConnectionFails \/ SubscriptionEnds \/ Wake \/ OpenPoll \/ Subscribe
  \/ Follow \/ PollScans \/ PollFindsNothing \/ EmitBlock \/ PollFails \/ LoopEnds

Next == NewBlock \/ (\E e \in Endpoints : Flip(e)) \/ Stop \/ Listen

Spec == Init /\ [][Next]_vars

(* The generator is driven by the pipeline's task: what it can do next, it
   does.  Nothing is promised about the chain or the endpoints. *)
FairSpec == Spec /\ WF_vars(Listen)

-----------------------------------------------------------------------------
(* Every variable has its type; the back-off never exceeds its cap. *)
TypeOK ==
  /\ chain \in 0..MaxBlock
  /\ up \in [Endpoints -> BOOLEAN]
  /\ running \in BOOLEAN
  /\ mode \in Connected \cup {"connecting", "opening", "sleeping", "ended"}
  /\ idx \in Endpoints
  /\ backoff \in 1..BackoffMax
  /\ {last, target, from} \subseteq 0..MaxBlock
  /\ next \in 0..(MaxBlock + 1)
  /\ times \in [Blocks -> Nat]
  /\ trouble \in 0..MaxTrouble
  /\ fails \in 0..MaxFails

(* A connection leaves no gap: below the newest block it has emitted, and up to
   last_block, it has emitted every block since its start, whatever scans were
   interrupted and whatever heads went backwards. *)
NoBlockSkipped ==
  mode \in Connected =>
    \A b \in Blocks :
      times[b] > 0 \/ (mode # "following" /\ b <= last) =>
        \A c \in (from + 1)..b : times[c] > 0

(* A block is emitted again only after trouble, once for each interrupted scan
   and each head that went backwards; a subscription never repeats a block. *)
RepeatsNeedTrouble ==
  \A b \in Blocks : times[b] <= 1 + trouble /\ (mode = "following" => times[b] <= 1)

(* The sleep doubles with every error since a connection last answered, up to
   the cap, and starts over at one second after that. *)
BackoffFollowsErrors ==
  mode \in {"connecting", "sleeping"} =>
    LET doublings == IF mode = "sleeping" THEN fails - 1 ELSE fails
    IN  backoff = Smaller(2 ^ doublings, BackoffMax)

(* Failing over in turn finds a healthy endpoint: if one stays up from some
   moment on, the listener, unless stopped, is time and again connected to an
   endpoint that answers - but for the one trap left: it had connected by HTTP
   to an endpoint that died for good, and polls it for ever
   (listener.py:201-203). *)
HealthyUnlessPollingDead ==
  \A e \in Endpoints :
    <>[](up[e]) => \/ []<>(mode \in Connected /\ up[idx])
                   \/ <>[](mode \in {"polling", "scanning"} /\ ~up[idx])
                   \/ <>(mode = "ended")

(* stream() says it "Reconnects automatically on errors with exponential
   back-off and fails over to next RPC" (listener.py:137): an endpoint that
   went down is left, unless it comes back or the listener is stopped. *)
FailsOverOnErrors ==
  \A e \in Endpoints :
    (idx = e /\ ~up[e]) ~> (idx # e \/ up[e] \/ ~running)
=============================================================================
