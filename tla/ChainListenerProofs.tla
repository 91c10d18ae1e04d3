------------------------ MODULE ChainListenerProofs ------------------------
(***************************************************************************)
(* What a connection of the listener emits, for any number of endpoints,   *)
(* any lag of their heads and any interruptions: every block since it was  *)
(* opened, and none again without a cause.                                 *)
(***************************************************************************)
EXTENDS ChainListener, FiniteSetTheorems, TLAPS

Modes == Connected \cup {"connecting", "opening", "sleeping", "ended"}

CursorTypes ==
  /\ chain \in 0..MaxBlock /\ trouble \in Nat /\ mode \in Modes
  /\ last \in Nat /\ target \in Nat /\ from \in Nat /\ next \in Nat
  /\ times \in [Blocks -> Nat]

Emitted(b) == times[b] > 0

(* Where the cursor stands: a scan is within its range, and everything below
   the cursor since the connection was opened has been emitted. *)
CursorInv ==
  /\ mode = "scanning" =>
       /\ last < next /\ next <= target /\ target <= MaxBlock
       /\ \A c \in Blocks : from < c /\ c < next => Emitted(c)
  /\ mode = "following" =>
       /\ from < next
       /\ \A c \in Blocks : from < c /\ c < next => Emitted(c)
       /\ \A b \in Blocks : Emitted(b) => b < next

NoGap(b) == \A c \in Blocks : from < c /\ c <= b => Emitted(c)

GapInv ==
  mode \in Connected =>
    \A b \in Blocks : Emitted(b) \/ (mode # "following" /\ b <= last) => NoGap(b)

(* A block that is still to come was emitted no more often than there was
   trouble. *)
RepeatInv ==
  \A b \in Blocks :
    /\ times[b] <= 1 + trouble
    /\ mode = "polling" /\ last < b => times[b] <= trouble
    /\ mode = "scanning" /\ next <= b => times[b] <= trouble
    /\ mode = "following" => times[b] <= 1 /\ (next <= b => times[b] = 0)

ChainInv == CursorTypes /\ CursorInv /\ GapInv /\ RepeatInv

LEMMA ChainInit == Init => ChainInv
<1> SUFFICES ASSUME Init PROVE ChainInv
  OBVIOUS
<1>1. CursorTypes
  BY BoundsAssumption DEF Init, CursorTypes, Modes
<1>2. CursorInv /\ GapInv
  BY DEF Init, CursorInv, GapInv, Connected
<1>3. RepeatInv
  BY DEF Init, RepeatInv
<1> QED BY <1>1, <1>2, <1>3 DEF ChainInv

(* A connection starts with nothing emitted and nothing missed. *)
LEMMA StartEffect ==
  ASSUME CursorTypes, chain' = chain, NEW v \in 0..chain, StartAt(v),
         mode' \in {"polling", "ended", "following"}
  PROVE  ChainInv'
<1>1. /\ from' = v /\ last' = v /\ target' = v /\ next' = v + 1 /\ trouble' = 0
      /\ times' = [b \in Blocks |-> 0]
  BY DEF StartAt
<1>2. v \in Nat /\ \A b \in Blocks : times'[b] = 0 /\ b \in Nat
  BY <1>1 DEF Blocks, CursorTypes
<1>3. CursorTypes'
  BY <1>1, <1>2 DEF CursorTypes, Modes, Connected
<1>4. CursorInv' /\ GapInv'
  BY <1>1, <1>2 DEF CursorInv, GapInv, NoGap, Emitted
<1>5. RepeatInv'
  BY <1>1, <1>2 DEF RepeatInv
<1> QED BY <1>3, <1>4, <1>5 DEF ChainInv

(* Emitting the block under the cursor. *)
LEMMA EmitEffect ==
  ASSUME ChainInv, mode \in {"scanning", "following"}, next \in Blocks,
         times' = [times EXCEPT ![next] = @ + 1], from' = from
  PROVE  /\ times' \in [Blocks -> Nat]
         /\ times'[next] = times[next] + 1
         /\ \A b \in Blocks : b # next => times'[b] = times[b]
         /\ \A b \in Blocks : Emitted(b) => Emitted(b)'
         /\ \A c \in Blocks : from < c /\ c <= next => Emitted(c)'
         /\ \A b \in Blocks : Emitted(b)' => NoGap(b)'
<1>1. /\ times' \in [Blocks -> Nat]
      /\ times'[next] = times[next] + 1
      /\ \A b \in Blocks : b # next => times'[b] = times[b]
  BY DEF ChainInv, CursorTypes
<1>2. \A b \in Blocks : Emitted(b) => Emitted(b)'
  BY <1>1 DEF Emitted, ChainInv, CursorTypes
<1>3. times'[next] > 0
  BY <1>1 DEF Emitted, ChainInv, CursorTypes
<1>4. \A c \in Blocks : from < c /\ c < next => Emitted(c)
  BY DEF ChainInv, CursorInv
<1>5. \A c \in Blocks : from < c /\ c <= next => Emitted(c)'
  BY <1>2, <1>3, <1>4 DEF ChainInv, CursorTypes, Blocks, Emitted
<1>6. ASSUME NEW b \in Blocks, Emitted(b)'
      PROVE  NoGap(b)'
  <2>1. CASE b = next
    BY <2>1, <1>5 DEF NoGap
  <2>2. CASE b # next
    <3>1. Emitted(b)
      BY <1>1, <1>6, <2>2 DEF Emitted
    <3>2. NoGap(b)
      BY <3>1 DEF ChainInv, GapInv, Connected
    <3> QED BY <3>2, <1>2 DEF NoGap
  <2> QED BY <2>1, <2>2
<1> QED BY <1>1, <1>2, <1>5, <1>6

LEMMA FollowStep ==
  ASSUME ChainInv, Follow
  PROVE  ChainInv'
<1>1. /\ mode = "following" /\ mode' = mode /\ next <= chain /\ next' = next + 1
      /\ times' = [times EXCEPT ![next] = @ + 1]
      /\ UNCHANGED <<chain, last, target, from, trouble>>
  BY DEF Follow, world
<1>2. next \in Blocks /\ from < next
  BY <1>1, BoundsAssumption DEF ChainInv, CursorTypes, CursorInv, Blocks
<1>3. /\ times' \in [Blocks -> Nat]
      /\ times'[next] = times[next] + 1
      /\ \A b \in Blocks : b # next => times'[b] = times[b]
      /\ \A c \in Blocks : from < c /\ c <= next => Emitted(c)'
      /\ \A b \in Blocks : Emitted(b)' => NoGap(b)'
  BY <1>1, <1>2, EmitEffect
<1>4. CursorTypes'
  BY <1>1, <1>2, <1>3 DEF ChainInv, CursorTypes, Blocks
<1>5. GapInv'
  BY <1>1, <1>3 DEF GapInv
<1>6. RepeatInv'
  BY <1>1, <1>2, <1>3 DEF ChainInv, CursorTypes, RepeatInv, Blocks
<1>7. \A b \in Blocks : Emitted(b)' => b < next'
  BY <1>1, <1>2, <1>3 DEF ChainInv, CursorTypes, CursorInv, Emitted, Blocks
<1>8. CursorInv'
  BY <1>1, <1>2, <1>3, <1>7 DEF ChainInv, CursorTypes, CursorInv, Blocks
<1> QED BY <1>4, <1>5, <1>6, <1>8 DEF ChainInv

LEMMA ScanStep ==
  ASSUME ChainInv, EmitBlock
  PROVE  ChainInv'
<1>1. /\ mode = "scanning" /\ times' = [times EXCEPT ![next] = @ + 1]
      /\ UNCHANGED <<chain, target, from, trouble>>
  BY DEF EmitBlock, world
<1>2. /\ last < next /\ next <= target /\ target <= MaxBlock /\ next \in Blocks
      /\ last \in Nat /\ target \in Nat /\ from \in Nat /\ next \in Nat
  BY <1>1, BoundsAssumption DEF ChainInv, CursorTypes, CursorInv, Blocks
<1>3. /\ times' \in [Blocks -> Nat]
      /\ times'[next] = times[next] + 1
      /\ \A b \in Blocks : b # next => times'[b] = times[b]
      /\ \A b \in Blocks : Emitted(b) => Emitted(b)'
      /\ \A c \in Blocks : from < c /\ c <= next => Emitted(c)'
      /\ \A b \in Blocks : Emitted(b)' => NoGap(b)'
  BY <1>1, <1>2, EmitEffect
<1>4. \/ next < target /\ next' = next + 1 /\ mode' = mode /\ last' = last
      \/ next = target /\ mode' \in {"polling", "ended"} /\ last' = target /\ next' = next
  BY <1>2 DEF EmitBlock, NextPoll
<1>5. CursorTypes'
  BY <1>1, <1>2, <1>3, <1>4 DEF ChainInv, CursorTypes, Modes, Connected
<1>6. \A b \in Blocks : b <= next => NoGap(b)'
  BY <1>1, <1>2, <1>3 DEF NoGap, Blocks
<1>7. GapInv'
  BY <1>2, <1>3, <1>4, <1>6 DEF GapInv, Blocks
<1>8. CursorInv'
  BY <1>1, <1>2, <1>3, <1>4 DEF CursorInv, Blocks
<1>9. RepeatInv'
  BY <1>1, <1>2, <1>3, <1>4 DEF ChainInv, CursorTypes, RepeatInv, Blocks
<1> QED BY <1>5, <1>7, <1>8, <1>9 DEF ChainInv

LEMMA PollStep ==
  ASSUME ChainInv, PollScans \/ PollFindsNothing \/ PollFails
  PROVE  ChainInv'
<1>1. /\ mode \in {"polling", "scanning"}
      /\ UNCHANGED <<chain, from, times>>
      /\ last \in Nat /\ next \in Nat /\ trouble \in Nat
      /\ MaxBlock \in Nat /\ chain \in 0..MaxBlock
  BY BoundsAssumption DEF PollScans, PollFindsNothing, PollFails, world, cursor, ChainInv, CursorTypes
<1>2. \A b \in Blocks : b \in Nat /\ times[b] \in Nat
  BY DEF Blocks, ChainInv, CursorTypes
<1>3. \A b \in Blocks : (Emitted(b) => Emitted(b)') /\ (Emitted(b)' => Emitted(b))
  BY <1>1 DEF Emitted
<1>4. \A b \in Blocks : NoGap(b) => NoGap(b)'
  BY <1>1, <1>3 DEF NoGap
<1>5. \A b \in Blocks : Emitted(b) \/ b <= last => NoGap(b)
  BY <1>1 DEF ChainInv, GapInv, Connected
<1>6. CASE PollScans
  <2>1. /\ mode = "polling" /\ mode' = "scanning" /\ next' = last + 1
        /\ last' = last /\ trouble' = trouble
        /\ target' \in 0..chain /\ last < target'
    BY <1>6 DEF PollScans, Reported, FirstOfRange
  <2>2. CursorTypes'
    BY <1>1, <2>1 DEF ChainInv, CursorTypes, Modes, Connected
  <2>3. \A c \in Blocks : from < c /\ c < last + 1 => Emitted(c)
    BY <1>1, <1>2, <1>5 DEF NoGap
  <2>4. CursorInv'
    BY <1>1, <1>3, <2>1, <2>3 DEF CursorInv
  <2>5. GapInv'
    BY <1>3, <1>4, <1>5, <2>1 DEF GapInv
  <2>6. RepeatInv'
    BY <1>1, <1>2, <2>1 DEF ChainInv, RepeatInv
  <2> QED BY <2>2, <2>4, <2>5, <2>6 DEF ChainInv
<1>7. CASE PollFindsNothing
  <2>1. /\ mode = "polling" /\ mode' \in {"polling", "ended"}
        /\ last' \in 0..chain /\ last' <= last
        /\ trouble' = IF last' < last THEN trouble + 1 ELSE trouble
        /\ target' = target /\ next' = next
    BY <1>7 DEF PollFindsNothing, Reported, NextPoll
  <2>2. CursorTypes'
    BY <1>1, <2>1 DEF ChainInv, CursorTypes, Modes, Connected
  <2>3. CursorInv'
    BY <2>1 DEF CursorInv
  <2>4. GapInv'
    BY <1>1, <1>2, <1>3, <1>4, <1>5, <2>1 DEF GapInv
  <2>5. RepeatInv'
    BY <1>1, <1>2, <2>1 DEF ChainInv, RepeatInv
  <2> QED BY <2>2, <2>3, <2>4, <2>5 DEF ChainInv
<1>8. CASE PollFails
  <2>1. /\ mode' \in {"polling", "ended"}
        /\ trouble' = IF mode = "scanning" THEN trouble + 1 ELSE trouble
        /\ UNCHANGED <<last, target, next>>
    BY <1>8 DEF PollFails, NextPoll, cursor
  <2>2. CursorTypes'
    BY <1>1, <2>1 DEF ChainInv, CursorTypes, Modes, Connected
  <2>3. CursorInv'
    BY <2>1 DEF CursorInv
  <2>4. GapInv'
    BY <1>3, <1>4, <1>5, <2>1 DEF GapInv
  <2>5. RepeatInv'
    BY <1>1, <1>2, <2>1 DEF ChainInv, RepeatInv
  <2> QED BY <2>2, <2>3, <2>4, <2>5 DEF ChainInv
<1> QED BY <1>6, <1>7, <1>8

(* Steps between connections. *)
LEMMA ApartStep ==
  ASSUME ChainInv, UNCHANGED <<cursor, trouble>>, chain' \in 0..MaxBlock,
         mode' = mode \/ mode' \in {"connecting", "opening", "sleeping", "ended"}
  PROVE  ChainInv'
<1>1. UNCHANGED <<last, target, next, from, times, trouble>>
  BY DEF cursor
<1>2. CursorTypes'
  BY <1>1 DEF ChainInv, CursorTypes, Modes
<1>3. CursorInv'
  BY <1>1 DEF ChainInv, CursorInv, Emitted
<1>4. GapInv'
  BY <1>1 DEF ChainInv, GapInv, Connected, NoGap, Emitted
<1>5. RepeatInv'
  BY <1>1 DEF ChainInv, RepeatInv
<1> QED BY <1>2, <1>3, <1>4, <1>5 DEF ChainInv

LEMMA ChainStep ==
  ASSUME ChainInv, [Next]_vars
  PROVE  ChainInv'
<1>1. chain \in 0..MaxBlock
  BY DEF ChainInv, CursorTypes
<1>2. CASE Follow
  BY <1>2, FollowStep
<1>3. CASE EmitBlock
  BY <1>3, ScanStep
<1>4. CASE PollScans \/ PollFindsNothing \/ PollFails
  BY <1>4, PollStep
<1>5. CASE OpenPoll \/ Subscribe
  <2>1. /\ chain' = chain /\ mode' \in {"polling", "ended", "following"}
        /\ \E v \in 0..chain : StartAt(v)
    BY <1>1, <1>5 DEF OpenPoll, Subscribe, NextPoll, Reported, world
  <2> QED BY <2>1, StartEffect DEF ChainInv
<1>6. CASE NewBlock
  <2>1. chain' \in 0..MaxBlock /\ mode' = mode /\ UNCHANGED <<cursor, trouble>>
    BY <1>1, <1>6, BoundsAssumption DEF NewBlock
  <2> QED BY <2>1, ApartStep
<1>7. ASSUME \/ \E e \in Endpoints : Flip(e)
             \/ Stop \/ ConnectionAnswers \/ ConnectionFails \/ SubscriptionEnds
             \/ Wake \/ LoopEnds \/ UNCHANGED vars
      PROVE  ChainInv'
  <2>1. /\ chain' = chain /\ UNCHANGED <<cursor, trouble>>
        /\ mode' = mode \/ mode' \in {"connecting", "opening", "sleeping", "ended"}
    BY <1>7 DEF Flip, Stop, ConnectionAnswers, ConnectionFails, SubscriptionEnds,
                Wake, LoopEnds, world, cursor, vars
  <2> QED BY <1>1, <2>1, ApartStep
<1> QED BY <1>2, <1>3, <1>4, <1>5, <1>6, <1>7 DEF Next, Listen

(***************************************************************************)
(* A connection leaves no gap, whatever scans were interrupted and whatever *)
(* heads went backwards.                                                   *)
(***************************************************************************)
THEOREM NoGaps == Spec => []NoBlockSkipped
<1>1. ChainInv => NoBlockSkipped
  <2> SUFFICES ASSUME ChainInv, mode \in Connected, NEW b \in Blocks,
                      times[b] > 0 \/ (mode # "following" /\ b <= last),
                      NEW c \in (from + 1)..b
               PROVE  times[c] > 0
    BY DEF NoBlockSkipped
  <2>1. NoGap(b)
    BY DEF ChainInv, GapInv, Emitted
  <2>2. c \in Blocks /\ from < c /\ c <= b
    BY BoundsAssumption DEF ChainInv, CursorTypes, Blocks
  <2> QED BY <2>1, <2>2 DEF NoGap, Emitted
<1> QED BY <1>1, ChainInit, ChainStep, PTL DEF Spec

(***************************************************************************)
(* A polling connection repeats a block at most once for every interrupted *)
(* scan and every head that went backwards; a subscription repeats none.   *)
(***************************************************************************)
THEOREM NoCauselessRepeats == Spec => []RepeatsNeedTrouble
<1>1. ChainInv => RepeatsNeedTrouble
  BY DEF ChainInv, RepeatInv, RepeatsNeedTrouble
<1> QED BY <1>1, ChainInit, ChainStep, PTL DEF Spec

(***************************************************************************)
(* The back-off and the types.  Powers of two double: a set has twice as   *)
(* many subsets with one more element.                                     *)
(***************************************************************************)
LEMMA PowersDouble ==
  ASSUME NEW n \in Nat
  PROVE  2 ^ n \in Nat /\ 2 ^ (n + 1) = 2 * 2 ^ n
<1> DEFINE S == 1..n
           T == 1..(n + 1)
           old == SUBSET S
           new == {X \cup {n + 1} : X \in old}
<1>1. IsFiniteSet(S) /\ Cardinality(S) = n /\ IsFiniteSet(T) /\ Cardinality(T) = n + 1
  BY FS_Interval
<1>2. n + 1 \notin S /\ T = S \cup {n + 1}
  OBVIOUS
<1> HIDE DEF S, T
<1>3. /\ IsFiniteSet(old) /\ Cardinality(old) = 2 ^ n
      /\ Cardinality(SUBSET T) = 2 ^ (n + 1)
  <2>1. IsFiniteSet(SUBSET S) /\ Cardinality(SUBSET S) = 2 ^ Cardinality(S)
    BY <1>1, FS_SUBSET
  <2>2. Cardinality(SUBSET T) = 2 ^ Cardinality(T)
    BY <1>1, FS_SUBSET
  <2> QED BY <1>1, <2>1, <2>2
<1>4. SUBSET T = old \cup new
  <2>1. ASSUME NEW Y \in SUBSET T, n + 1 \in Y PROVE Y \in new
    <3>1. Y \ {n + 1} \in old /\ Y = (Y \ {n + 1}) \cup {n + 1}
      BY <1>2, <2>1
    <3> QED BY <3>1
  <2>2. ASSUME NEW Y \in SUBSET T, n + 1 \notin Y PROVE Y \in old
    BY <1>2, <2>2
  <2>3. old \subseteq SUBSET T /\ new \subseteq SUBSET T
    BY <1>2
  <2> QED BY <2>1, <2>2, <2>3
<1>5. old \cap new = {}
  BY <1>2
<1>6. ExistsBijection(old, new)
  <2> DEFINE f == [X \in old |-> X \cup {n + 1}]
  <2>1. ASSUME NEW X \in old, NEW Y \in old, f[X] = f[Y] PROVE X = Y
    <3>1. X \cup {n + 1} = Y \cup {n + 1} /\ n + 1 \notin X /\ n + 1 \notin Y
      BY <1>2, <2>1
    <3> QED BY <3>1
  <2>2. f \in [old -> new] /\ \A Z \in new : \E X \in old : f[X] = Z
    OBVIOUS
  <2>3. f \in Injection(old, new) /\ f \in Surjection(old, new)
    BY <2>1, <2>2 DEF Injection, IsInjective, Surjection
  <2> QED BY <2>3 DEF ExistsBijection, Bijection
<1> HIDE DEF old, new
<1>7. IsFiniteSet(new) /\ Cardinality(new) = Cardinality(old)
  BY <1>3, <1>6, FS_Bijection
<1>8. Cardinality(old \cup new) = Cardinality(old) + Cardinality(new) - Cardinality({})
  BY <1>3, <1>5, <1>7, FS_Union
<1>9. Cardinality(old) \in Nat /\ Cardinality({}) = 0
  BY <1>3, FS_CardinalityType, FS_EmptySet
<1>10. Cardinality(SUBSET T) = 2 * Cardinality(old)
  <2> DEFINE c == Cardinality(old)
             d == Cardinality(SUBSET T)
  <2>1. d = c + c - 0
    BY <1>4, <1>5, <1>7, <1>8, <1>9
  <2>2. c \in Nat
    BY <1>9
  <2> HIDE DEF c, d
  <2>3. d = 2 * c
    BY <2>1, <2>2
  <2> QED BY <2>3 DEF c, d
<1> QED BY <1>3, <1>9, <1>10, Zenon

LEMMA CapDoubles ==
  ASSUME NEW p \in Nat, NEW cap \in Nat \ {0}, NEW seconds, seconds = Smaller(p, cap)
  PROVE  Smaller(seconds * 2, cap) = Smaller(2 * p, cap)
BY DEF Smaller

(* Errors are told apart up to a number whose delay has reached the cap. *)
LEMMA CapReached ==
  /\ Smaller(2 ^ MaxFails, BackoffMax) = BackoffMax
  /\ Smaller(2 ^ (MaxFails - 1), BackoffMax) = BackoffMax
<1> DEFINE n == MaxFails - 1
           p == 2 ^ n
           q == 2 ^ (n + 1)
<1>1. n \in Nat /\ p >= BackoffMax /\ n + 1 = MaxFails /\ BackoffMax \in Nat
  BY BoundsAssumption
<1>2. p \in Nat /\ q = 2 * p
  BY <1>1, PowersDouble
<1>3. q = 2 ^ MaxFails /\ p = 2 ^ (MaxFails - 1)
  BY <1>1
<1> HIDE DEF n, p, q
<1>4. Smaller(p, BackoffMax) = BackoffMax /\ Smaller(q, BackoffMax) = BackoffMax
  BY <1>1, <1>2 DEF Smaller
<1> QED BY <1>3, <1>4

Delay(doublings) == Smaller(2 ^ doublings, BackoffMax)

DelayInv ==
  /\ fails \in 0..MaxFails /\ backoff \in 1..BackoffMax
  /\ mode = "connecting" => backoff = Delay(fails)
  /\ mode = "sleeping" => fails > 0 /\ backoff = Delay(fails - 1)
  /\ mode \in Connected \cup {"opening"} => fails = 0 /\ backoff = 1

RangeInv ==
  /\ up \in [Endpoints -> BOOLEAN] /\ running \in BOOLEAN /\ idx \in Endpoints
  /\ last <= MaxBlock /\ target <= MaxBlock /\ from <= MaxBlock /\ next <= MaxBlock + 1
  /\ trouble <= MaxTrouble

LEMMA DelayFacts ==
  /\ Delay(0) = 1 /\ Delay(MaxFails) = BackoffMax /\ Delay(MaxFails - 1) = BackoffMax
  /\ \A n \in Nat : Delay(n) \in 0..BackoffMax /\ Smaller(Delay(n) * 2, BackoffMax) = Delay(n + 1)
<1>1. Delay(0) = 1
  <2>1. 2 ^ 0 = 1
    OBVIOUS
  <2> QED BY <2>1, BoundsAssumption DEF Delay, Smaller
<1>2. Delay(MaxFails) = BackoffMax /\ Delay(MaxFails - 1) = BackoffMax
  BY CapReached DEF Delay
<1>3. ASSUME NEW n \in Nat
      PROVE  Delay(n) \in 0..BackoffMax /\ Smaller(Delay(n) * 2, BackoffMax) = Delay(n + 1)
  <2> DEFINE p == 2 ^ n
             q == 2 ^ (n + 1)
  <2>1. p \in Nat /\ q = 2 * p
    BY PowersDouble
  <2>2. Delay(n) = Smaller(p, BackoffMax) /\ Delay(n + 1) = Smaller(q, BackoffMax)
    BY DEF Delay
  <2> HIDE DEF p, q
  <2>3. Smaller(Delay(n) * 2, BackoffMax) = Smaller(2 * p, BackoffMax)
    BY <2>1, <2>2, BoundsAssumption, CapDoubles
  <2>4. Delay(n) \in 0..BackoffMax
    BY <2>1, <2>2, BoundsAssumption DEF Smaller
  <2> QED BY <2>1, <2>2, <2>3, <2>4
<1> QED BY <1>1, <1>2, <1>3

LEMMA DelayInit == Init => DelayInv /\ RangeInv
<1> SUFFICES ASSUME Init PROVE DelayInv /\ RangeInv
  OBVIOUS
<1>1. DelayInv
  BY DelayFacts, BoundsAssumption DEF Init, DelayInv, Connected
<1>2. RangeInv
  BY EndpointsAssumption, BoundsAssumption DEF Init, RangeInv, Endpoints
<1> QED BY <1>1, <1>2

LEMMA DelayStep ==
  ASSUME ChainInv, DelayInv, [Next]_vars
  PROVE  DelayInv'
<1> DEFINE K == BackoffMax
<1>1. K \in Nat \ {0} /\ MaxFails \in Nat \ {0}
  BY BoundsAssumption
<1>2. CASE ConnectionAnswers
  BY <1>1, <1>2 DEF ConnectionAnswers, DelayInv, Connected
<1>3. CASE ConnectionFails
  <2>1. /\ mode \in {"connecting", "opening", "following"} /\ mode' = "sleeping"
        /\ fails' = Smaller(fails + 1, MaxFails) /\ backoff' = backoff
    BY <1>3 DEF ConnectionFails
  <2>2. /\ fails \in 0..MaxFails /\ backoff \in 1..BackoffMax
        /\ backoff = Delay(fails)
    BY <2>1, DelayFacts DEF DelayInv, Connected
  <2>3. CASE fails < MaxFails
    <3>1. fails' = fails + 1 /\ fails' - 1 = fails
      BY <1>1, <2>1, <2>2, <2>3 DEF Smaller
    <3>2. Delay(fails' - 1) = Delay(fails)
      BY <3>1
    <3> QED BY <1>1, <2>1, <2>2, <2>3, <3>1, <3>2 DEF DelayInv, Connected
  <2>4. CASE fails = MaxFails
    <3>1. fails' = MaxFails
      BY <1>1, <2>1, <2>4 DEF Smaller
    <3>2. Delay(fails' - 1) = Delay(fails)
      BY <2>4, <3>1, DelayFacts
    <3> QED BY <1>1, <2>1, <2>2, <3>1, <3>2 DEF DelayInv, Connected
  <2> QED BY <1>1, <2>2, <2>3, <2>4
<1>4. CASE Wake
  <2>1. /\ mode = "sleeping" /\ mode' = "connecting"
        /\ backoff' = Smaller(backoff * 2, BackoffMax) /\ fails' = fails
    BY <1>4 DEF Wake
  <2>2. fails \in 0..MaxFails /\ fails > 0 /\ backoff = Delay(fails - 1) /\ backoff \in 1..BackoffMax
    BY <2>1 DEF DelayInv
  <2>3. fails - 1 \in Nat /\ (fails - 1) + 1 = fails
    BY <1>1, <2>2
  <2>4. backoff' = Delay(fails)
    BY <2>1, <2>2, <2>3, DelayFacts
  <2>5. backoff' \in 1..BackoffMax
    BY <1>1, <2>1, <2>2 DEF Smaller
  <2> QED BY <2>1, <2>2, <2>4, <2>5 DEF DelayInv, Connected
<1>5. CASE SubscriptionEnds
  <2>1. mode = "following" /\ mode' = "connecting" /\ backoff' = backoff /\ fails' = fails
    BY <1>5 DEF SubscriptionEnds
  <2> QED BY <2>1, DelayFacts DEF DelayInv, Connected
<1>6. ASSUME \/ OpenPoll \/ Subscribe \/ Follow \/ PollScans \/ PollFindsNothing
             \/ EmitBlock \/ PollFails
      PROVE  DelayInv'
  <2>1. /\ mode \in Connected \cup {"opening"} /\ backoff' = backoff /\ fails' = fails
        /\ mode' \in Connected \cup {"ended"}
    BY <1>6 DEF OpenPoll, Subscribe, Follow, PollScans, PollFindsNothing, EmitBlock, PollFails,
                NextPoll, Connected
  <2> QED BY <2>1 DEF DelayInv, Connected
<1>7. ASSUME NewBlock \/ (\E e \in Endpoints : Flip(e)) \/ Stop \/ LoopEnds \/ UNCHANGED vars
      PROVE  DelayInv'
  <2>1. backoff' = backoff /\ fails' = fails /\ (mode' = mode \/ mode' = "ended")
    BY <1>7 DEF NewBlock, Flip, Stop, LoopEnds, vars
  <2> QED BY <2>1 DEF DelayInv, Connected, Delay
<1> QED BY <1>2, <1>3, <1>4, <1>5, <1>6, <1>7 DEF Next, Listen

LEMMA RangeStep ==
  ASSUME ChainInv, RangeInv, [Next]_vars
  PROVE  RangeInv'
<1>1. /\ MaxBlock \in Nat /\ MaxTrouble \in Nat /\ chain \in 0..MaxBlock
      /\ trouble \in Nat /\ last \in Nat /\ target \in Nat /\ from \in Nat /\ next \in Nat
  BY BoundsAssumption DEF ChainInv, CursorTypes
<1>2. CASE NewBlock \/ ConnectionAnswers \/ SubscriptionEnds \/ Wake \/ LoopEnds \/ UNCHANGED vars
  BY <1>2 DEF NewBlock, ConnectionAnswers, SubscriptionEnds, Wake, LoopEnds, vars, cursor, world,
              RangeInv
<1>3. CASE Stop
  BY <1>3 DEF Stop, cursor, world, RangeInv
<1>4. ASSUME NEW e \in Endpoints, Flip(e) PROVE RangeInv'
  <2>1. up' = [up EXCEPT ![e] = ~up[e]] /\ UNCHANGED <<running, idx, last, target, next, from, trouble>>
    BY <1>4 DEF Flip, cursor
  <2>2. up' \in [Endpoints -> BOOLEAN]
    BY <2>1 DEF RangeInv
  <2> QED BY <2>1, <2>2 DEF RangeInv
<1>5. CASE ConnectionFails
  <2>1. idx' = (idx + 1) % N /\ UNCHANGED <<up, running, last, target, next, from, trouble>>
    BY <1>5 DEF ConnectionFails, NextEndpoint, world, cursor
  <2>2. idx' \in Endpoints
    BY <2>1, EndpointsAssumption DEF RangeInv, Endpoints
  <2> QED BY <2>1, <2>2 DEF RangeInv
<1>6. CASE OpenPoll \/ Subscribe
  <2>1. /\ UNCHANGED <<up, running, idx>>
        /\ \E v \in 0..chain : StartAt(v)
    BY <1>1, <1>6 DEF OpenPoll, Subscribe, Reported, world
  <2> QED BY <1>1, <2>1 DEF StartAt, RangeInv
<1>7. CASE Follow
  BY <1>1, <1>7 DEF Follow, world, RangeInv
<1>8. CASE PollScans
  BY <1>1, <1>8 DEF PollScans, Reported, FirstOfRange, world, RangeInv
<1>9. CASE PollFindsNothing
  BY <1>1, <1>9 DEF PollFindsNothing, Reported, world, RangeInv
<1>10. CASE EmitBlock
  BY <1>1, <1>10 DEF EmitBlock, ChainInv, CursorInv, world, RangeInv
<1>11. CASE PollFails
  BY <1>1, <1>11 DEF PollFails, world, cursor, RangeInv
<1> QED BY <1>2, <1>3, <1>4, <1>5, <1>6, <1>7, <1>8, <1>9, <1>10, <1>11 DEF Next, Listen

LEMMA ListenerStep ==
  ChainInv /\ DelayInv /\ RangeInv /\ [Next]_vars => ChainInv' /\ DelayInv' /\ RangeInv'
BY ChainStep, DelayStep, RangeStep

(***************************************************************************)
(* Whatever answers and whatever fails, the listener sleeps a second after *)
(* the first error and twice as long after each further one, to the cap.   *)
(***************************************************************************)
THEOREM DelaysDouble == Spec => []BackoffFollowsErrors
<1>1. DelayInv => BackoffFollowsErrors
  BY DEF DelayInv, Delay, BackoffFollowsErrors
<1> QED BY <1>1, ChainInit, DelayInit, ListenerStep, PTL DEF Spec

(***************************************************************************)
(* Types: the endpoint in use is always one of the list, the back-off is   *)
(* never zero and never above its cap.                                     *)
(***************************************************************************)
THEOREM ListenerTypes == Spec => []TypeOK
<1>1. ChainInv /\ DelayInv /\ RangeInv => TypeOK
  <2> SUFFICES ASSUME ChainInv, DelayInv, RangeInv PROVE TypeOK
    OBVIOUS
  <2>1. CursorTypes /\ MaxBlock \in Nat /\ MaxTrouble \in Nat
    BY BoundsAssumption DEF ChainInv
  <2>2. /\ last \in 0..MaxBlock /\ target \in 0..MaxBlock /\ from \in 0..MaxBlock
        /\ next \in 0..(MaxBlock + 1) /\ trouble \in 0..MaxTrouble
    BY <2>1 DEF CursorTypes, RangeInv
  <2> QED BY <2>1, <2>2 DEF CursorTypes, DelayInv, RangeInv, TypeOK, Modes
<1> QED BY <1>1, ChainInit, DelayInit, ListenerStep, PTL DEF Spec
=============================================================================
