--------------------------- MODULE AlertDeskProofs ---------------------------
(***************************************************************************)
(* What requests that read, change and commit leave behind, for any        *)
(* analysts, rules and resolutions and any numbers of alerts and requests. *)
(***************************************************************************)
EXTENDS AlertDesk, TLAPS, FiniteSetTheorems

RuleRow == [row : {"none", "there", "deleted"}, active : BOOLEAN, body : Nat]

(***************************************************************************)
(* Rules.                                                                  *)
(***************************************************************************)
GoodRuleRequest(q) ==
  /\ q.op \in {"toggle", "update"} =>
       /\ q.key \in Rules /\ q.old \in RuleRow /\ q.new \in RuleRow
       /\ q.op = "toggle" => q.new.active = ~q.old.active
  /\ q.op = "delete" => q.key \in Rules

RuleInv ==
  /\ asked \in Nat
  /\ rule \in [Rules -> RuleRow]
  /\ switched \in [Rules -> BOOLEAN]
  /\ request = [p \in Analysts |-> request[p]]
  /\ \A p \in Analysts : GoodRuleRequest(request[p])
  /\ TogglesCount

LEMMA RuleInit == Init => RuleInv
<1> SUFFICES ASSUME Init PROVE RuleInv
  OBVIOUS
<1>1. rule \in [Rules -> RuleRow] /\ switched \in [Rules -> BOOLEAN] /\ asked \in Nat
  BY DEF Init, RuleRow, None
<1>2. /\ request = [p \in Analysts |-> request[p]]
      /\ \A p \in Analysts : GoodRuleRequest(request[p])
  BY DEF Init, Nothing, GoodRuleRequest
<1>3. TogglesCount
  BY DEF Init, TogglesCount
<1> QED BY <1>1, <1>2, <1>3 DEF RuleInv

(* A request begins. *)
LEMMA RuleAsk ==
  ASSUME RuleInv, NEW p \in Analysts, NEW q, Ask(p, q), GoodRuleRequest(q)
  PROVE  RuleInv'
<1>1. /\ request' = [request EXCEPT ![p] = q] /\ asked' = asked + 1
      /\ UNCHANGED <<rule, switched, clashed>>
  BY DEF Ask, history
<1>2. /\ request' = [r \in Analysts |-> request'[r]]
      /\ \A r \in Analysts : GoodRuleRequest(request'[r])
  BY <1>1 DEF RuleInv
<1>3. TogglesCount'
  BY <1>1 DEF RuleInv, TogglesCount
<1> QED BY <1>1, <1>2, <1>3 DEF RuleInv, GoodRuleRequest

(* A request ends that changed no rule's active flag. *)
LEMMA RuleAnswer ==
  ASSUME RuleInv, NEW p \in Analysts, Answer(p),
         rule' \in [Rules -> RuleRow], switched' \in [Rules -> BOOLEAN], TogglesCount'
  PROVE  RuleInv'
<1>1. request' = [request EXCEPT ![p] = Nothing] /\ asked' = asked
  BY DEF Answer
<1>2. /\ request' = [r \in Analysts |-> request'[r]]
      /\ \A r \in Analysts : GoodRuleRequest(request'[r])
  BY <1>1 DEF RuleInv, GoodRuleRequest, Nothing
<1> QED BY <1>1, <1>2 DEF RuleInv, GoodRuleRequest

LEMMA RuleRead ==
  ASSUME RuleInv, NEW p \in Analysts, ReadRule(p)
  PROVE  RuleInv'
<1>1. PICK r \in Rules :
        \/ Ask(p, [op |-> "toggle", key |-> r, old |-> rule[r], new |-> Toggled(rule[r])])
        \/ \E b \in BOOLEAN :
             Ask(p, [op |-> "update", key |-> r, old |-> rule[r],
                     new |-> [rule[r] EXCEPT !.active = b, !.body = asked + 1]])
        \/ Ask(p, [op |-> "delete", key |-> r])
  BY DEF ReadRule
<1>2. rule[r] \in RuleRow /\ asked + 1 \in Nat
  BY DEF RuleInv
<1>3. GoodRuleRequest([op |-> "toggle", key |-> r, old |-> rule[r], new |-> Toggled(rule[r])])
  BY <1>2 DEF GoodRuleRequest, Toggled, RuleRow
<1>4. ASSUME NEW b \in BOOLEAN
      PROVE  GoodRuleRequest([op |-> "update", key |-> r, old |-> rule[r],
                              new |-> [rule[r] EXCEPT !.active = b, !.body = asked + 1]])
  BY <1>2 DEF GoodRuleRequest, RuleRow
<1>5. GoodRuleRequest([op |-> "delete", key |-> r])
  BY DEF GoodRuleRequest
<1> QED BY <1>1, <1>3, <1>4, <1>5, RuleAsk

(* A commit over the row that was read does what was asked; a commit over
   another row is a clash. *)
LEMMA RuleCommit ==
  ASSUME RuleInv, NEW p \in Analysts, CommitRule(p)
  PROVE  RuleInv'
<1> DEFINE q == request[p]
           now == rule[q.key]
<1>1. /\ q.op \in {"toggle", "update"}
      /\ rule' = [rule EXCEPT ![q.key] = Written(now, q.old, q.new)]
      /\ clashed' = IF now.active # q.old.active THEN clashed \cup {<<"rule", q.key>>} ELSE clashed
      /\ switched' = [switched EXCEPT ![q.key] = IF q.op = "toggle" THEN ~switched[q.key] ELSE q.new.active]
      /\ Answer(p)
  BY DEF CommitRule
<1>2. /\ q.key \in Rules /\ q.old \in RuleRow /\ q.new \in RuleRow /\ now \in RuleRow
      /\ q.op = "toggle" => q.new.active = ~q.old.active
  BY <1>1 DEF RuleInv, GoodRuleRequest
<1> HIDE DEF q, now
<1>3. /\ Written(now, q.old, q.new) \in RuleRow
      /\ Written(now, q.old, q.new).active =
           IF q.new.active # q.old.active THEN q.new.active ELSE now.active
  BY <1>2 DEF Written, RuleRow
<1>4. rule' \in [Rules -> RuleRow] /\ switched' \in [Rules -> BOOLEAN]
  BY <1>1, <1>2, <1>3 DEF RuleInv, RuleRow
<1>5. ASSUME NEW r \in Rules
      PROVE  rule'[r].active = switched'[r] \/ <<"rule", r>> \in clashed'
  <2>1. rule[r].active = switched[r] \/ <<"rule", r>> \in clashed
    BY DEF RuleInv, TogglesCount
  <2>2. clashed \subseteq clashed'
    BY <1>1
  <2>3. CASE r # q.key
    BY <1>1, <2>1, <2>2, <2>3 DEF RuleInv
  <2>4. CASE r = q.key /\ now.active # q.old.active
    BY <1>1, <2>4
  <2>5. CASE r = q.key /\ now.active = q.old.active
    <3>1. rule'[r].active = q.new.active
      <4>1. rule'[r] = Written(now, q.old, q.new)
        BY <1>1, <2>5 DEF RuleInv
      <4> QED BY <4>1, <1>3, <2>5
    <3>2. switched'[r] = IF q.op = "toggle" THEN ~switched[r] ELSE q.new.active
      BY <1>1, <2>5 DEF RuleInv
    <3>3. rule[r] = now
      BY <2>5 DEF now
    <3> QED BY <1>2, <2>1, <2>2, <2>5, <3>1, <3>2, <3>3
  <2> QED BY <2>3, <2>4, <2>5
<1>6. TogglesCount'
  BY <1>5 DEF TogglesCount
<1> QED BY <1>1, <1>4, <1>6, RuleAnswer

LEMMA RuleStep ==
  ASSUME RuleInv, [Next]_vars
  PROVE  RuleInv'
<1>1. ASSUME NEW p \in Analysts, ReadAlert(p)
      PROVE  RuleInv'
  <2>1. PICK a \in DOMAIN alert :
          \/ Ask(p, [op |-> "comment", key |-> a])
          \/ \E r \in Analysts :
               Ask(p, [op |-> "assign", key |-> a, old |-> alert[a], new |-> Assigned(alert[a], r)])
          \/ \E r \in Resolutions :
               Ask(p, [op |-> "close", key |-> a, old |-> alert[a], resolution |-> r,
                       note |-> asked + 1, new |-> Closed(alert[a], r, asked + 1)])
    BY <1>1 DEF ReadAlert
  <2>2. GoodRuleRequest([op |-> "comment", key |-> a])
    BY DEF GoodRuleRequest
  <2>3. \A r : GoodRuleRequest([op |-> "assign", key |-> a, old |-> alert[a],
                               new |-> Assigned(alert[a], r)])
    BY DEF GoodRuleRequest
  <2>4. \A r : GoodRuleRequest([op |-> "close", key |-> a, old |-> alert[a], resolution |-> r,
                               note |-> asked + 1, new |-> Closed(alert[a], r, asked + 1)])
    BY DEF GoodRuleRequest
  <2> QED BY <2>1, <2>2, <2>3, <2>4, RuleAsk
<1>2. ASSUME NEW p \in Analysts, Comment(p) \/ CommitAlert(p) \/ RequestFails(p)
      PROVE  RuleInv'
  <2>1. /\ Answer(p) /\ rule' = rule /\ switched' = switched
        /\ \A r : <<"rule", r>> \in clashed => <<"rule", r>> \in clashed'
    BY <1>2 DEF Comment, CommitAlert, RequestFails, history
  <2>2. TogglesCount'
    BY <2>1 DEF RuleInv, TogglesCount
  <2> QED BY <2>1, <2>2, RuleAnswer DEF RuleInv
<1>3. ASSUME NEW p \in Analysts, CreateRule(p)
      PROVE  RuleInv'
  <2>1. PICK r \in Rules, b \in BOOLEAN :
          /\ rule' = [rule EXCEPT ![r] = [row |-> "there", active |-> b, body |-> asked + 1]]
          /\ switched' = [switched EXCEPT ![r] = b]
          /\ asked' = asked + 1
          /\ UNCHANGED <<request, clashed>>
    BY <1>3 DEF CreateRule
  <2>2. [row |-> "there", active |-> b, body |-> asked + 1] \in RuleRow
    BY DEF RuleInv, RuleRow
  <2>3. rule' \in [Rules -> RuleRow] /\ switched' \in [Rules -> BOOLEAN] /\ asked' \in Nat
    BY <2>1, <2>2 DEF RuleInv
  <2>4. TogglesCount'
    BY <2>1 DEF RuleInv, TogglesCount
  <2> QED BY <2>1, <2>3, <2>4 DEF RuleInv, GoodRuleRequest
<1>4. ASSUME NEW p \in Analysts, DeleteRule(p)
      PROVE  RuleInv'
  <2>1. /\ Answer(p) /\ switched' = switched /\ clashed' = clashed /\ request[p].key \in Rules
        /\ rule' = [rule EXCEPT ![request[p].key].row = "deleted"]
    BY <1>4 DEF DeleteRule, history, RuleInv, GoodRuleRequest
  <2>2. rule' \in [Rules -> RuleRow] /\ \A r \in Rules : rule'[r].active = rule[r].active
    BY <2>1 DEF RuleInv, RuleRow
  <2>3. TogglesCount'
    BY <2>1, <2>2 DEF RuleInv, TogglesCount
  <2> QED BY <2>1, <2>2, <2>3, RuleAnswer DEF RuleInv
<1>5. CASE AlertArrives \/ ReadPage \/ UNCHANGED vars
  <2>1. UNCHANGED <<asked, rule, switched, request, clashed>>
    BY <1>5 DEF AlertArrives, ReadPage, history, vars
  <2> QED BY <2>1 DEF RuleInv, GoodRuleRequest, TogglesCount
<1> QED BY <1>1, <1>2, <1>3, <1>4, <1>5, RuleRead, RuleCommit DEF Next

(***************************************************************************)
(* Toggles and updates of a rule count in the order of their commits,      *)
(* unless one was committed over a change it had not seen.                 *)
(***************************************************************************)
THEOREM TogglesAddUp == Spec => []TogglesCount
<1>1. RuleInv => TogglesCount
  BY DEF RuleInv
<1> QED BY <1>1, RuleInit, RuleStep, PTL DEF Spec

(***************************************************************************)
(* Verdicts.                                                               *)
(***************************************************************************)
AlertRow == [status : {"open", "assigned", "closed"}, assigned_to : Analysts \cup {None},
             resolution : Resolutions \cup {None}, note : Nat]

Clashed(a) == <<"alert", a>> \in clashed
Judged(a) == \E v \in verdicts : v[1] = a

(* An alert's verdict was given by one request, or there is none. *)
OneVerdict(a) ==
  \/ <<a, alert[a].resolution, alert[a].note>> \in verdicts
  \/ Clashed(a)
  \/ alert[a].resolution = None /\ alert[a].note = None /\ ~Judged(a)

(* What a request that read an alert knows of it. *)
GoodAlertRequest(q) ==
  /\ q.op \in {"assign", "close"} =>
       /\ q.key \in DOMAIN alert
       /\ q.old \in AlertRow /\ q.old.note <= asked
       /\ \/ Clashed(q.key)
          \/ /\ q.old.note = None => q.old.resolution = None
             /\ q.old.note # None /\ alert[q.key].note = q.old.note =>
                  alert[q.key].resolution = q.old.resolution
  /\ q.op = "assign" => \E r \in Analysts : q.new = Assigned(q.old, r)
  /\ q.op = "close" =>
       /\ q.resolution \in Resolutions /\ q.note \in 1..asked
       /\ q.new = Closed(q.old, q.resolution, q.note)

(* A note that is not in the table yet is in one request only. *)
NoteIsNew(p) ==
  request[p].op = "close" =>
    /\ \A a \in DOMAIN alert : alert[a].note # request[p].note
    /\ \A r \in Analysts :
         /\ request[r].op \in {"assign", "close"} => request[r].old.note # request[p].note
         /\ request[r].op = "close" /\ r # p => request[r].note # request[p].note

AlertInv ==
  /\ asked \in Nat
  /\ alert \in Seq(AlertRow)
  /\ \A a \in DOMAIN alert : alert[a].note <= asked /\ OneVerdict(a)
  /\ \A v \in verdicts :
       /\ v[1] \in DOMAIN alert /\ v[2] \in Resolutions /\ v[3] \in Nat \ {0}
  /\ request = [p \in Analysts |-> request[p]]
  /\ \A p \in Analysts : GoodAlertRequest(request[p]) /\ NoteIsNew(p)

LEMMA AlertInit == Init => AlertInv
<1> SUFFICES ASSUME Init PROVE AlertInv
  OBVIOUS
<1>1. /\ asked = 0 /\ alert = <<Opened>> /\ verdicts = {}
      /\ request = [p \in Analysts |-> Nothing]
  BY DEF Init
<1>2. Opened \in AlertRow /\ Opened.note = 0 /\ Opened.resolution = None
  BY DEF Opened, AlertRow, None
<1>3. alert \in Seq(AlertRow) /\ DOMAIN alert = {1} /\ alert[1] = Opened
  BY <1>1, <1>2
<1>4. \A a \in DOMAIN alert : alert[a].note <= asked /\ OneVerdict(a)
  BY <1>1, <1>2, <1>3 DEF OneVerdict, Judged, None
<1>5. \A p \in Analysts : GoodAlertRequest(request[p]) /\ NoteIsNew(p)
  BY <1>1 DEF GoodAlertRequest, NoteIsNew, Nothing
<1> QED BY <1>1, <1>3, <1>4, <1>5 DEF AlertInv

(* Steps that leave the alerts alone and ask for nothing. *)
LEMMA AlertSame ==
  ASSUME AlertInv, UNCHANGED <<alert, verdicts>>, asked' \in Nat, asked <= asked',
         \A a : Clashed(a)' = Clashed(a),
         request' = [p \in Analysts |-> request'[p]],
         \A p \in Analysts : request'[p] = request[p] \/ request'[p] = Nothing
  PROVE  AlertInv'
<1>1. \A a \in DOMAIN alert' : alert'[a].note <= asked' /\ OneVerdict(a)'
  <2>1. \A a \in DOMAIN alert : alert[a] \in AlertRow
    BY DEF AlertInv
  <2>2. \A a \in DOMAIN alert : alert[a].note \in Nat
    BY <2>1 DEF AlertRow
  <2> QED BY <2>2 DEF OneVerdict, Judged, AlertInv
<1>2. ASSUME NEW p \in Analysts
      PROVE  GoodAlertRequest(request[p])'
  <2>1. CASE request'[p] = Nothing
    BY <2>1 DEF GoodAlertRequest, Nothing
  <2>2. CASE request'[p] = request[p]
    <3>1. GoodAlertRequest(request[p])
      BY DEF AlertInv
    <3>2. request[p].old \in AlertRow => request[p].old.note \in Nat
      BY DEF AlertRow
    <3> QED BY <2>2, <3>1, <3>2 DEF GoodAlertRequest, AlertInv
  <2> QED BY <2>1, <2>2
<1>3. ASSUME NEW p \in Analysts
      PROVE  NoteIsNew(p)'
  BY DEF NoteIsNew, Nothing, AlertInv
<1> QED BY <1>1, <1>2, <1>3 DEF AlertInv

(* The requests that reading an alert may begin. *)
FirstRequest(q) ==
  /\ q.op \in {"comment", "assign", "close", "toggle", "update", "delete"}
  /\ q.op \in {"assign", "close"} => q.key \in DOMAIN alert /\ q.old = alert[q.key]
  /\ q.op = "assign" => \E r \in Analysts : q.new = Assigned(q.old, r)
  /\ q.op = "close" =>
       /\ q.resolution \in Resolutions /\ q.note = asked + 1
       /\ q.new = Closed(q.old, q.resolution, q.note)

LEMMA AlertAsk ==
  ASSUME AlertInv, NEW p \in Analysts, NEW q, Ask(p, q), FirstRequest(q)
  PROVE  AlertInv'
<1>1. /\ request' = [request EXCEPT ![p] = q] /\ asked' = asked + 1 /\ asked \in Nat
      /\ UNCHANGED <<alert, verdicts, clashed>>
  BY DEF Ask, history, AlertInv
<1>2. /\ request' = [r \in Analysts |-> request'[r]]
      /\ request'[p] = q /\ \A r \in Analysts : r # p => request'[r] = request[r]
  BY <1>1 DEF AlertInv
<1>3. \A a \in DOMAIN alert :
        alert[a] \in AlertRow /\ alert[a].note \in Nat /\ alert[a].note <= asked /\ OneVerdict(a)
  <2>1. \A a \in DOMAIN alert : alert[a] \in AlertRow
    BY DEF AlertInv
  <2> QED BY <2>1 DEF AlertInv, AlertRow
<1>4. ASSUME NEW a \in DOMAIN alert'
      PROVE  alert'[a].note <= asked' /\ OneVerdict(a)'
  <2>1. a \in DOMAIN alert /\ alert'[a] = alert[a]
    BY <1>1
  <2>2. alert'[a].note <= asked'
    BY <1>1, <1>3, <2>1
  <2>3. OneVerdict(a)'
    BY <1>1, <1>3, <2>1 DEF OneVerdict, Judged, Clashed
  <2> QED BY <2>2, <2>3
<1>5. ASSUME NEW a \in DOMAIN alert, alert[a].note = None, ~Clashed(a)
      PROVE  alert[a].resolution = None
  BY <1>3, <1>5 DEF OneVerdict, AlertInv, None
<1>6. ASSUME NEW r \in Analysts
      PROVE  GoodAlertRequest(request[r])'
  <2>1. CASE r = p
    <3>1. request'[r] = q
      BY <1>2, <2>1
    <3> QED BY <1>1, <1>3, <1>5, <3>1 DEF GoodAlertRequest, FirstRequest, Clashed
  <2>2. CASE r # p
    <3>1. request'[r] = request[r] /\ GoodAlertRequest(request[r])
      BY <1>2, <2>2 DEF AlertInv
    <3>2. request[r].old \in AlertRow => request[r].old.note \in Nat
      BY DEF AlertRow
    <3> QED BY <1>1, <3>1, <3>2 DEF GoodAlertRequest, Clashed
  <2> QED BY <2>1, <2>2
<1>7. ASSUME NEW r \in Analysts
      PROVE  /\ request[r].op \in {"assign", "close"} =>
                  request[r].old.note \in Nat /\ request[r].old.note <= asked
             /\ request[r].op = "close" => request[r].note \in 1..asked
  BY DEF AlertInv, GoodAlertRequest, AlertRow
<1>8. ASSUME NEW r \in Analysts
      PROVE  NoteIsNew(r)'
  <2>1. NoteIsNew(r)
    BY DEF AlertInv
  <2>2. CASE r = p
    BY <1>1, <1>2, <1>3, <1>7, <2>2 DEF NoteIsNew, FirstRequest
  <2>3. CASE r # p
    BY <1>1, <1>2, <1>3, <1>7, <2>1, <2>3 DEF NoteIsNew, FirstRequest
  <2> QED BY <2>2, <2>3
<1> QED BY <1>1, <1>2, <1>4, <1>6, <1>8 DEF AlertInv

(* Assigning an alert keeps its verdict. *)
LEMMA AssignCommit ==
  ASSUME AlertInv, NEW p \in Analysts, CommitAlert(p), request[p].op = "assign"
  PROVE  AlertInv'
<1> DEFINE q == request[p]
           now == alert[q.key]
<1>1. /\ alert' = [alert EXCEPT ![q.key] = Written(now, q.old, q.new)]
      /\ UNCHANGED <<clashed, verdicts, asked>>
      /\ request' = [request EXCEPT ![p] = Nothing]
  BY DEF CommitAlert, Answer
<1>2. GoodAlertRequest(q)
  BY DEF AlertInv
<1>3. PICK b \in Analysts : q.new = Assigned(q.old, b)
  BY <1>2 DEF GoodAlertRequest
<1>4. q.key \in DOMAIN alert /\ q.old \in AlertRow /\ now \in AlertRow
  BY <1>2 DEF GoodAlertRequest, AlertInv
<1> HIDE DEF q, now
<1>5. /\ Written(now, q.old, q.new) \in AlertRow
      /\ Written(now, q.old, q.new).resolution = now.resolution
      /\ Written(now, q.old, q.new).note = now.note
  BY <1>3, <1>4 DEF Written, Assigned, AlertRow
<1>6. /\ alert' \in Seq(AlertRow) /\ DOMAIN alert' = DOMAIN alert
      /\ \A a \in DOMAIN alert :
           alert'[a].resolution = alert[a].resolution /\ alert'[a].note = alert[a].note
  <2>1. alert' \in Seq(AlertRow) /\ DOMAIN alert' = DOMAIN alert
    BY <1>1, <1>4, <1>5 DEF AlertInv
  <2>2. alert'[q.key] = Written(now, q.old, q.new)
    BY <1>1, <1>4
  <2>3. \A a \in DOMAIN alert : a # q.key => alert'[a] = alert[a]
    BY <1>1, <1>4
  <2> QED BY <2>1, <2>2, <2>3, <1>5 DEF now
<1>7. \A r \in Analysts : request'[r] = request[r] \/ request'[r] = Nothing
  BY <1>1 DEF AlertInv
<1>8. request' = [r \in Analysts |-> request'[r]]
  BY <1>1 DEF AlertInv
<1>9. \A a \in DOMAIN alert' : alert'[a].note <= asked' /\ OneVerdict(a)'
  BY <1>1, <1>6 DEF AlertInv, OneVerdict, Judged, Clashed
<1>10. ASSUME NEW r \in Analysts
       PROVE  GoodAlertRequest(request[r])'
  <2>1. GoodAlertRequest(request[r])
    BY DEF AlertInv
  <2> QED BY <1>1, <1>6, <1>7, <2>1 DEF GoodAlertRequest, Clashed, Nothing
<1>11. ASSUME NEW r \in Analysts
       PROVE  NoteIsNew(r)'
  <2>1. NoteIsNew(r)
    BY DEF AlertInv
  <2> QED BY <1>6, <1>7, <2>1 DEF NoteIsNew, Nothing
<1> QED BY <1>1, <1>6, <1>8, <1>9, <1>10, <1>11 DEF AlertInv

LEMMA ClosedRow ==
  ASSUME NEW row \in AlertRow, NEW r \in Resolutions, NEW n \in Nat
  PROVE  Closed(row, r, n) \in AlertRow /\ Closed(row, r, n).resolution = r /\ Closed(row, r, n).note = n
BY DEF Closed, AlertRow

(* Closing an alert gives it a new verdict, or clashes. *)
LEMMA CloseCommit ==
  ASSUME AlertInv, NEW p \in Analysts, CommitAlert(p), request[p].op = "close"
  PROVE  AlertInv'
<1> DEFINE q == request[p]
           now == alert[q.key]
           again == q.old.note # None /\ now.note # q.old.note
<1>1. /\ alert' = [alert EXCEPT ![q.key] = Written(now, q.old, q.new)]
      /\ clashed' = IF again THEN clashed \cup {<<"alert", q.key>>} ELSE clashed
      /\ verdicts' = verdicts \cup {<<q.key, q.resolution, q.note>>}
      /\ asked' = asked /\ asked \in Nat
      /\ request' = [request EXCEPT ![p] = Nothing]
  BY DEF CommitAlert, Answer, AlertInv
<1>2. GoodAlertRequest(q) /\ NoteIsNew(p)
  BY DEF AlertInv
<1>3. /\ q.new = Closed(q.old, q.resolution, q.note)
      /\ q.key \in DOMAIN alert /\ q.old \in AlertRow /\ now \in AlertRow
      /\ q.resolution \in Resolutions /\ q.note \in 1..asked /\ q.old.note # q.note
  BY <1>2 DEF GoodAlertRequest, NoteIsNew, AlertInv
<1>4. \/ Clashed(q.key)
      \/ /\ q.old.note = None => q.old.resolution = None
         /\ q.old.note # None /\ now.note = q.old.note => now.resolution = q.old.resolution
  BY <1>2 DEF GoodAlertRequest
<1>5. /\ \A a \in DOMAIN alert : alert[a].note # q.note
      /\ \A r \in Analysts :
           /\ request[r].op \in {"assign", "close"} => request[r].old.note # q.note
           /\ request[r].op = "close" /\ r # p => request[r].note # q.note
  BY <1>2 DEF NoteIsNew
<1> DEFINE w == Written(now, q.old, q.new)
<1>6. request' = [r \in Analysts |-> request'[r]]
      /\ \A r \in Analysts : IF r = p THEN request'[r] = Nothing ELSE request'[r] = request[r]
  BY <1>1 DEF AlertInv
<1> HIDE DEF q, now
<1>7. /\ w \in AlertRow /\ w.note = q.note
      /\ w.resolution = IF q.resolution # q.old.resolution THEN q.resolution ELSE now.resolution
  <2>1. /\ q.new \in AlertRow /\ q.new.resolution = q.resolution /\ q.new.note = q.note
    <3>1. q.note \in Nat
      BY <1>1, <1>3
    <3> QED BY <1>3, <3>1, ClosedRow
  <2>2. /\ w.note = IF q.new.note # q.old.note THEN q.new.note ELSE now.note
        /\ w.resolution = IF q.new.resolution # q.old.resolution
                          THEN q.new.resolution ELSE now.resolution
    BY <1>3 DEF Written, AlertRow
  <2>3. w \in AlertRow
    BY <1>3, <2>1 DEF Written, AlertRow
  <2> QED BY <1>3, <2>1, <2>2, <2>3
<1> HIDE DEF w
<1>8. <<"alert", q.key>> \in clashed' \/ w.resolution = q.resolution
  BY <1>1, <1>3, <1>4, <1>7, NoneAssumption DEF Clashed
<1>9. /\ alert' \in Seq(AlertRow) /\ DOMAIN alert' = DOMAIN alert
      /\ alert'[q.key] = w
      /\ \A a \in DOMAIN alert : a # q.key => alert'[a] = alert[a]
  BY <1>1, <1>3, <1>7 DEF AlertInv, w
<1>10. clashed \subseteq clashed'
  BY <1>1
<1>11. ASSUME NEW a \in DOMAIN alert'
       PROVE  alert'[a].note <= asked' /\ OneVerdict(a)'
  <2>1. CASE a = q.key
    <3>1. alert'[a].note <= asked'
      BY <1>1, <1>3, <1>7, <1>9, <2>1
    <3>2. Clashed(a)' \/ <<a, alert'[a].resolution, alert'[a].note>> \in verdicts'
      BY <1>1, <1>7, <1>8, <1>9, <2>1 DEF Clashed
    <3> QED BY <3>1, <3>2 DEF OneVerdict
  <2>2. CASE a # q.key
    <3>1. a \in DOMAIN alert /\ alert'[a] = alert[a]
      BY <1>9, <2>2
    <3>2. alert[a].note <= asked /\ OneVerdict(a)
      BY <3>1 DEF AlertInv
    <3>3. verdicts \subseteq verdicts' /\ (Judged(a)' => Judged(a))
      BY <1>1, <2>2 DEF Judged
    <3> QED BY <1>1, <1>10, <3>1, <3>2, <3>3 DEF OneVerdict, Clashed
  <2> QED BY <2>1, <2>2
<1>12. \A v \in verdicts' :
         v[1] \in DOMAIN alert' /\ v[2] \in Resolutions /\ v[3] \in Nat \ {0}
  BY <1>1, <1>3, <1>9 DEF AlertInv
<1>13. ASSUME NEW r \in Analysts
       PROVE  GoodAlertRequest(request[r])'
  <2>1. CASE r = p
    BY <1>6, <2>1 DEF GoodAlertRequest, Nothing
  <2>2. CASE r # p
    <3>1. request'[r] = request[r] /\ GoodAlertRequest(request[r])
      BY <1>6, <2>2 DEF AlertInv
    <3>2. request[r].op \in {"assign", "close"} /\ request[r].key = q.key
            => alert'[request[r].key].note # request[r].old.note
      BY <1>5, <1>7, <1>9
    <3>3. request[r].op \in {"assign", "close"} /\ request[r].key # q.key
            => alert'[request[r].key] = alert[request[r].key]
      BY <1>9, <3>1 DEF GoodAlertRequest
    <3> QED BY <1>1, <1>9, <1>10, <3>1, <3>2, <3>3 DEF GoodAlertRequest, Clashed
  <2> QED BY <2>1, <2>2
<1>14. ASSUME NEW r \in Analysts
       PROVE  NoteIsNew(r)'
  <2>1. CASE r = p
    BY <1>6, <2>1 DEF NoteIsNew, Nothing
  <2>2. CASE r # p
    <3>1. request'[r] = request[r] /\ NoteIsNew(r)
      BY <1>6, <2>2 DEF AlertInv
    <3>2. request[r].op = "close" => \A a \in DOMAIN alert' : alert'[a].note # request[r].note
      BY <1>5, <1>7, <1>9, <2>2, <3>1 DEF NoteIsNew
    <3>3. request[r].op = "close" =>
            \A t \in Analysts :
              /\ request'[t].op \in {"assign", "close"} => request'[t].old.note # request[r].note
              /\ request'[t].op = "close" /\ t # r => request'[t].note # request[r].note
      BY <1>6, <3>1 DEF NoteIsNew, Nothing
    <3> QED BY <3>1, <3>2, <3>3 DEF NoteIsNew
  <2> QED BY <2>1, <2>2
<1> QED BY <1>1, <1>6, <1>9, <1>11, <1>12, <1>13, <1>14 DEF AlertInv

LEMMA AlertComes ==
  ASSUME AlertInv, AlertArrives
  PROVE  AlertInv'
<1>1. /\ alert' = Append(alert, Opened)
      /\ UNCHANGED <<clashed, verdicts, asked, request>>
  BY DEF AlertArrives, history
<1>2. Opened \in AlertRow /\ Opened.note = None /\ Opened.resolution = None
  BY DEF Opened, AlertRow, None
<1>3. /\ alert' \in Seq(AlertRow) /\ alert'[Len(alert) + 1] = Opened
      /\ DOMAIN alert' = DOMAIN alert \cup {Len(alert) + 1}
      /\ Len(alert) + 1 \notin DOMAIN alert
      /\ \A a \in DOMAIN alert : alert'[a] = alert[a]
  BY <1>1, <1>2 DEF AlertInv
<1>4. ASSUME NEW a \in DOMAIN alert'
      PROVE  alert'[a].note <= asked' /\ OneVerdict(a)'
  <2>1. CASE a \in DOMAIN alert
    BY <1>1, <1>3, <2>1 DEF AlertInv, OneVerdict, Judged, Clashed
  <2>2. CASE a \notin DOMAIN alert
    <3>1. alert'[a] = Opened /\ ~Judged(a)
      BY <1>3, <2>2 DEF Judged, AlertInv
    <3> QED BY <1>1, <1>2, <3>1 DEF OneVerdict, Judged, AlertInv, None
  <2> QED BY <2>1, <2>2
<1>5. ASSUME NEW r \in Analysts
      PROVE  GoodAlertRequest(request[r])'
  <2>1. GoodAlertRequest(request[r])
    BY DEF AlertInv
  <2> QED BY <1>1, <1>3, <2>1 DEF GoodAlertRequest, Clashed
<1>6. ASSUME NEW r \in Analysts
      PROVE  NoteIsNew(r)'
  <2>1. NoteIsNew(r) /\ GoodAlertRequest(request[r])
    BY DEF AlertInv
  <2>2. request[r].op = "close" => request[r].note # None
    BY <2>1 DEF GoodAlertRequest, AlertInv, None
  <2> QED BY <1>1, <1>2, <1>3, <2>1, <2>2 DEF NoteIsNew
<1> QED BY <1>1, <1>3, <1>4, <1>5, <1>6 DEF AlertInv

LEMMA AlertStep ==
  ASSUME AlertInv, [Next]_vars
  PROVE  AlertInv'
<1>1. ASSUME NEW p \in Analysts, ReadAlert(p)
      PROVE  AlertInv'
  <2>1. PICK a \in DOMAIN alert :
          \/ Ask(p, [op |-> "comment", key |-> a])
          \/ \E r \in Analysts :
               Ask(p, [op |-> "assign", key |-> a, old |-> alert[a], new |-> Assigned(alert[a], r)])
          \/ \E r \in Resolutions :
               Ask(p, [op |-> "close", key |-> a, old |-> alert[a], resolution |-> r,
                       note |-> asked + 1, new |-> Closed(alert[a], r, asked + 1)])
    BY <1>1 DEF ReadAlert
  <2>2. FirstRequest([op |-> "comment", key |-> a])
    BY DEF FirstRequest
  <2>3. \A r \in Analysts : FirstRequest([op |-> "assign", key |-> a, old |-> alert[a],
                                          new |-> Assigned(alert[a], r)])
    BY DEF FirstRequest
  <2>4. \A r \in Resolutions :
          FirstRequest([op |-> "close", key |-> a, old |-> alert[a], resolution |-> r,
                        note |-> asked + 1, new |-> Closed(alert[a], r, asked + 1)])
    BY DEF FirstRequest
  <2> QED BY <2>1, <2>2, <2>3, <2>4, AlertAsk
<1>2. ASSUME NEW p \in Analysts, ReadRule(p)
      PROVE  AlertInv'
  <2>1. PICK r \in Rules :
          \/ Ask(p, [op |-> "toggle", key |-> r, old |-> rule[r], new |-> Toggled(rule[r])])
          \/ \E b \in BOOLEAN :
               Ask(p, [op |-> "update", key |-> r, old |-> rule[r],
                       new |-> [rule[r] EXCEPT !.active = b, !.body = asked + 1]])
          \/ Ask(p, [op |-> "delete", key |-> r])
    BY <1>2 DEF ReadRule
  <2>2. FirstRequest([op |-> "toggle", key |-> r, old |-> rule[r], new |-> Toggled(rule[r])])
    BY DEF FirstRequest
  <2>3. \A b \in BOOLEAN :
          FirstRequest([op |-> "update", key |-> r, old |-> rule[r],
                        new |-> [rule[r] EXCEPT !.active = b, !.body = asked + 1]])
    BY DEF FirstRequest
  <2>4. FirstRequest([op |-> "delete", key |-> r])
    BY DEF FirstRequest
  <2> QED BY <2>1, <2>2, <2>3, <2>4, AlertAsk
<1>3. ASSUME NEW p \in Analysts, CommitAlert(p)
      PROVE  AlertInv'
  BY <1>3, AssignCommit, CloseCommit DEF CommitAlert
<1>4. ASSUME NEW p \in Analysts,
             Comment(p) \/ CreateRule(p) \/ CommitRule(p) \/ DeleteRule(p) \/ RequestFails(p)
      PROVE  AlertInv'
  <2>1. /\ UNCHANGED <<alert, verdicts>> /\ asked' \in {asked, asked + 1}
        /\ request' = request \/ request' = [request EXCEPT ![p] = Nothing]
    BY <1>4 DEF Comment, CreateRule, CommitRule, DeleteRule, RequestFails, Answer, history
  <2>2. \A a : Clashed(a)' = Clashed(a)
    BY <1>4 DEF Comment, CreateRule, CommitRule, DeleteRule, RequestFails, history, Clashed
  <2>3. asked' \in Nat /\ asked <= asked'
    BY <2>1 DEF AlertInv
  <2>4. /\ request' = [r \in Analysts |-> request'[r]]
        /\ \A r \in Analysts : request'[r] = request[r] \/ request'[r] = Nothing
    BY <2>1 DEF AlertInv
  <2> QED BY <2>1, <2>2, <2>3, <2>4, AlertSame
<1>5. CASE ReadPage \/ UNCHANGED vars
  <2>1. UNCHANGED <<alert, verdicts, clashed, asked, request>>
    BY <1>5 DEF ReadPage, history, vars
  <2>2. asked' \in Nat /\ asked <= asked' /\ request' = [r \in Analysts |-> request'[r]]
    BY <2>1 DEF AlertInv
  <2> QED BY <2>1, <2>2, AlertSame DEF Clashed
<1> QED BY <1>1, <1>2, <1>3, <1>4, <1>5, AlertComes DEF Next

(***************************************************************************)
(* The resolution and the note of an alert come from one request, unless   *)
(* two requests closed it anew at the same time.                           *)
(***************************************************************************)
THEOREM OneVerdictEach == Spec => []VerdictOfOneRequest
<1>1. AlertInv => VerdictOfOneRequest
  BY DEF AlertInv, OneVerdict, Clashed, Judged, VerdictOfOneRequest
<1> QED BY <1>1, AlertInit, AlertStep, PTL DEF Spec

(***************************************************************************)
(* Rows: whoever is named on an alert stays or is replaced, and an alert   *)
(* that is closed has a note.                                              *)
(***************************************************************************)
GoodRow(row) ==
  /\ row.status = "closed" => row.note # None
  /\ row.status = "assigned" => row.assigned_to # None

(* The name that a request read has not been taken off the row. *)
Named(q) ==
  q.op \in {"assign", "close"} =>
    (q.old.assigned_to # None => alert[q.key].assigned_to # None)

RowInv ==
  /\ Len(alert) \in 1..MaxAlerts
  /\ asked \in 0..MaxRequests
  /\ \A a \in DOMAIN alert : GoodRow(alert[a])
  /\ \A p \in Analysts : Named(request[p])

LEMMA WrittenFields ==
  ASSUME NEW now \in AlertRow, NEW old \in AlertRow, NEW new
  PROVE  LET w == Written(now, old, new)
         IN  /\ w.status = IF new.status # old.status THEN new.status ELSE now.status
             /\ w.assigned_to =
                  IF new.assigned_to # old.assigned_to THEN new.assigned_to ELSE now.assigned_to
             /\ w.note = IF new.note # old.note THEN new.note ELSE now.note
BY DEF Written, AlertRow

(* A commit leaves a good row, with a name if there was one, and never opens
   the alert anew. *)
LEMMA RowCommit ==
  ASSUME AlertInv, RowInv, NEW p \in Analysts, CommitAlert(p),
         NEW w, w = Written(alert[request[p].key], request[p].old, request[p].new)
  PROVE  LET now == alert[request[p].key]
         IN  /\ GoodRow(w)
             /\ now.assigned_to # None => w.assigned_to # None
             /\ now.status # "open" => w.status # "open"
<1> DEFINE q == request[p]
           now == alert[q.key]
<1>1. q.op \in {"assign", "close"} /\ w = Written(now, q.old, q.new)
  BY DEF CommitAlert
<1>2. GoodAlertRequest(q) /\ NoteIsNew(p) /\ Named(q) /\ asked \in Nat
  BY DEF AlertInv, RowInv
<1>3. /\ q.key \in DOMAIN alert /\ now \in AlertRow /\ q.old \in AlertRow /\ GoodRow(now)
      /\ q.old.assigned_to # None => now.assigned_to # None
  BY <1>1, <1>2 DEF GoodAlertRequest, AlertInv, RowInv, Named
<1>4. q.op = "assign" => \E r \in Analysts : q.new = Assigned(q.old, r)
  BY <1>2 DEF GoodAlertRequest
<1>5. q.op = "close" => /\ q.new = Closed(q.old, q.resolution, q.note)
                        /\ q.note # None /\ q.note # q.old.note
  BY <1>2 DEF GoodAlertRequest, NoteIsNew, None
<1> HIDE DEF q, now
<1>6. CASE q.op = "assign"
  <2>1. PICK r \in Analysts : q.new = Assigned(q.old, r)
    BY <1>4, <1>6
  <2>2. /\ w.status = IF "assigned" # q.old.status THEN "assigned" ELSE now.status
        /\ w.assigned_to = IF r # q.old.assigned_to THEN r ELSE now.assigned_to
        /\ w.note = now.note
    <3>1. q.new.status = "assigned" /\ q.new.assigned_to = r /\ q.new.note = q.old.note
      BY <1>3, <2>1 DEF Assigned, AlertRow
    <3> QED BY <1>1, <1>3, <3>1, WrittenFields
  <2>3. r # None
    BY NoneAssumption
  <2> QED BY <1>3, <2>2, <2>3 DEF GoodRow, now, q
<1>7. CASE q.op = "close"
  <2>1. /\ w.status = IF "closed" # q.old.status THEN "closed" ELSE now.status
        /\ w.assigned_to = now.assigned_to
        /\ w.note = IF q.note # q.old.note THEN q.note ELSE now.note
    <3>1. /\ q.new.status = "closed" /\ q.new.assigned_to = q.old.assigned_to
          /\ q.new.note = q.note
      BY <1>3, <1>5, <1>7 DEF Closed, AlertRow
    <3> QED BY <1>1, <1>3, <3>1, WrittenFields
  <2> QED BY <1>3, <1>5, <1>7, <2>1 DEF GoodRow, now, q
<1> QED BY <1>1, <1>6, <1>7

LEMMA RowInit == Init => RowInv
<1> SUFFICES ASSUME Init PROVE RowInv
  OBVIOUS
<1>1. alert = <<Opened>> /\ asked = 0 /\ request = [p \in Analysts |-> Nothing]
  BY DEF Init
<1>2. Len(alert) \in 1..MaxAlerts /\ asked \in 0..MaxRequests
  BY <1>1, BoundsAssumption
<1>3. \A a \in DOMAIN alert : GoodRow(alert[a])
  <2>1. DOMAIN alert = {1} /\ alert[1] = Opened
    BY <1>1
  <2> QED BY <2>1 DEF GoodRow, Opened
<1>4. \A p \in Analysts : Named(request[p])
  BY <1>1 DEF Named, Nothing
<1> QED BY <1>2, <1>3, <1>4 DEF RowInv

(* What a step can be, as far as the alerts and the requests are concerned. *)
LEMMA Happenings ==
  ASSUME AlertInv, RowInv, [Next]_vars
  PROVE  \/ AlertArrives
         \/ \E p \in Analysts : \E q : Ask(p, q) /\ FirstRequest(q)
         \/ \E p \in Analysts : CommitAlert(p)
         \/ /\ alert' = alert /\ asked' \in 0..MaxRequests
            /\ \A p \in Analysts : request'[p] = request[p] \/ request'[p] = Nothing
<1>1. ASSUME NEW p \in Analysts, ReadAlert(p)
      PROVE  \E q : Ask(p, q) /\ FirstRequest(q)
  <2>1. PICK a \in DOMAIN alert :
          \/ Ask(p, [op |-> "comment", key |-> a])
          \/ \E r \in Analysts :
               Ask(p, [op |-> "assign", key |-> a, old |-> alert[a], new |-> Assigned(alert[a], r)])
          \/ \E r \in Resolutions :
               Ask(p, [op |-> "close", key |-> a, old |-> alert[a], resolution |-> r,
                       note |-> asked + 1, new |-> Closed(alert[a], r, asked + 1)])
    BY <1>1 DEF ReadAlert
  <2>2. FirstRequest([op |-> "comment", key |-> a])
    BY DEF FirstRequest
  <2>3. \A r \in Analysts : FirstRequest([op |-> "assign", key |-> a, old |-> alert[a],
                                          new |-> Assigned(alert[a], r)])
    BY DEF FirstRequest
  <2>4. \A r \in Resolutions :
          FirstRequest([op |-> "close", key |-> a, old |-> alert[a], resolution |-> r,
                        note |-> asked + 1, new |-> Closed(alert[a], r, asked + 1)])
    BY DEF FirstRequest
  <2> QED BY Zenon, <2>1, <2>2, <2>3, <2>4
<1>2. ASSUME NEW p \in Analysts, ReadRule(p)
      PROVE  \E q : Ask(p, q) /\ FirstRequest(q)
  <2>1. PICK r \in Rules :
          \/ Ask(p, [op |-> "toggle", key |-> r, old |-> rule[r], new |-> Toggled(rule[r])])
          \/ \E b \in BOOLEAN :
               Ask(p, [op |-> "update", key |-> r, old |-> rule[r],
                       new |-> [rule[r] EXCEPT !.active = b, !.body = asked + 1]])
          \/ Ask(p, [op |-> "delete", key |-> r])
    BY <1>2 DEF ReadRule
  <2>2. FirstRequest([op |-> "toggle", key |-> r, old |-> rule[r], new |-> Toggled(rule[r])])
    BY DEF FirstRequest
  <2>3. \A b \in BOOLEAN :
          FirstRequest([op |-> "update", key |-> r, old |-> rule[r],
                        new |-> [rule[r] EXCEPT !.active = b, !.body = asked + 1]])
    BY DEF FirstRequest
  <2>4. FirstRequest([op |-> "delete", key |-> r])
    BY DEF FirstRequest
  <2> QED BY Zenon, <2>1, <2>2, <2>3, <2>4
<1>3. ASSUME NEW p \in Analysts,
             Comment(p) \/ CreateRule(p) \/ CommitRule(p) \/ DeleteRule(p) \/ RequestFails(p)
      PROVE  /\ alert' = alert /\ asked' \in 0..MaxRequests
             /\ \A r \in Analysts : request'[r] = request[r] \/ request'[r] = Nothing
  <2>1. alert' = alert /\ (request' = request \/ request' = [request EXCEPT ![p] = Nothing])
    BY <1>3 DEF Comment, CreateRule, CommitRule, DeleteRule, RequestFails, Answer, history
  <2>2. asked' = asked \/ (asked < MaxRequests /\ asked' = asked + 1)
    BY <1>3 DEF Comment, CreateRule, CommitRule, DeleteRule, RequestFails, Answer, history
  <2>3. asked' \in 0..MaxRequests
    BY <2>2, BoundsAssumption DEF RowInv
  <2>4. request = [r \in Analysts |-> request[r]]
    BY DEF AlertInv
  <2>5. \A r \in Analysts : request'[r] = request[r] \/ request'[r] = Nothing
    BY <2>1, <2>4
  <2> QED BY <2>1, <2>3, <2>5
<1>4. ASSUME ReadPage \/ UNCHANGED vars
      PROVE  alert' = alert /\ asked' \in 0..MaxRequests /\ request' = request
  BY <1>4 DEF ReadPage, history, vars, RowInv
<1> QED BY <1>1, <1>2, <1>3, <1>4 DEF Next

(* No step takes a row away, opens an alert anew or leaves nobody named. *)
LEMMA RowStep ==
  ASSUME AlertInv, RowInv, [Next]_vars
  PROVE  /\ RowInv'
         /\ DOMAIN alert \subseteq DOMAIN alert'
         /\ \A a \in DOMAIN alert : alert[a].status # "open" => alert'[a].status # "open"
<1>1. /\ alert \in Seq(AlertRow) /\ request = [p \in Analysts |-> request[p]]
      /\ \A p \in Analysts : GoodAlertRequest(request[p])
  BY DEF AlertInv
<1>2. /\ Len(alert) \in 1..MaxAlerts /\ asked \in 0..MaxRequests
      /\ \A a \in DOMAIN alert : GoodRow(alert[a])
      /\ \A p \in Analysts : Named(request[p])
  BY DEF RowInv
<1>3. CASE AlertArrives
  <2>1. /\ Len(alert) < MaxAlerts /\ alert' = Append(alert, Opened)
        /\ asked' = asked /\ request' = request
    BY <1>3 DEF AlertArrives
  <2>2. /\ DOMAIN alert' = DOMAIN alert \cup {Len(alert) + 1} /\ alert'[Len(alert) + 1] = Opened
        /\ \A a \in DOMAIN alert : alert'[a] = alert[a]
        /\ Len(alert') = Len(alert) + 1
    BY <1>1, <2>1
  <2>3. Len(alert') \in 1..MaxAlerts
    BY <1>2, <2>1, <2>2, BoundsAssumption
  <2>4. \A a \in DOMAIN alert' : GoodRow(alert'[a])
    BY <1>2, <2>2 DEF GoodRow, Opened
  <2>5. \A p \in Analysts : Named(request[p])'
    BY <1>1, <1>2, <2>1, <2>2 DEF Named, GoodAlertRequest
  <2> QED BY <1>2, <2>1, <2>2, <2>3, <2>4, <2>5 DEF RowInv
<1>4. ASSUME NEW p \in Analysts, NEW q, Ask(p, q), FirstRequest(q)
      PROVE  RowInv' /\ alert' = alert
  <2>1. /\ asked < MaxRequests /\ asked' = asked + 1 /\ alert' = alert
        /\ request' = [request EXCEPT ![p] = q]
    BY <1>4 DEF Ask
  <2>2. asked' \in 0..MaxRequests
    BY <1>2, <2>1, BoundsAssumption
  <2>3. Named(q)
    BY <1>4 DEF Named, FirstRequest
  <2>4. \A r \in Analysts : request'[r] = request[r] \/ request'[r] = q
    BY <1>1, <2>1
  <2>5. \A r \in Analysts : Named(request[r])'
    BY <1>2, <2>1, <2>3, <2>4 DEF Named
  <2> QED BY <1>2, <2>1, <2>2, <2>5 DEF RowInv
<1>5. ASSUME NEW p \in Analysts, CommitAlert(p)
      PROVE  /\ RowInv' /\ DOMAIN alert' = DOMAIN alert
             /\ \A a \in DOMAIN alert : alert[a].status # "open" => alert'[a].status # "open"
  <2> DEFINE k == request[p].key
             w == Written(alert[k], request[p].old, request[p].new)
  <2>1. /\ alert' = [alert EXCEPT ![k] = w] /\ asked' = asked
        /\ request' = [request EXCEPT ![p] = Nothing]
    BY <1>5 DEF CommitAlert, Answer
  <2>2. /\ GoodRow(w) /\ (alert[k].assigned_to # None => w.assigned_to # None)
        /\ (alert[k].status # "open" => w.status # "open")
    BY <1>5, RowCommit
  <2> HIDE DEF k, w
  <2>3. /\ Len(alert') = Len(alert) /\ DOMAIN alert' = DOMAIN alert
        /\ \A a \in DOMAIN alert : (a = k /\ alert'[a] = w) \/ alert'[a] = alert[a]
    BY <1>1, <2>1
  <2>4. \A a \in DOMAIN alert :
          /\ GoodRow(alert'[a]) /\ (alert[a].assigned_to # None => alert'[a].assigned_to # None)
          /\ (alert[a].status # "open" => alert'[a].status # "open")
    BY <1>2, <2>2, <2>3
  <2>5. \A r \in Analysts : request'[r] = request[r] \/ request'[r] = Nothing
    BY <1>1, <2>1
  <2>6. \A r \in Analysts : Named(request[r])'
    BY <1>1, <1>2, <2>4, <2>5 DEF Named, GoodAlertRequest, Nothing
  <2> QED BY <1>2, <2>1, <2>3, <2>4, <2>6 DEF RowInv
<1>6. CASE /\ alert' = alert /\ asked' \in 0..MaxRequests
           /\ \A p \in Analysts : request'[p] = request[p] \/ request'[p] = Nothing
  <2>1. \A p \in Analysts : Named(request[p])'
    BY <1>2, <1>6 DEF Named, Nothing
  <2> QED BY <1>2, <1>6, <2>1 DEF RowInv
<1>7. CASE \E p \in Analysts : \E q : Ask(p, q) /\ FirstRequest(q)
  BY <1>4, <1>7
<1>8. CASE \E p \in Analysts : CommitAlert(p)
  BY <1>5, <1>8
<1>9. CASE AlertArrives
  <2>1. RowInv'
    BY <1>3, <1>9
  <2>2. alert' = Append(alert, Opened)
    BY <1>9 DEF AlertArrives
  <2>3. DOMAIN alert \subseteq DOMAIN alert' /\ \A a \in DOMAIN alert : alert'[a] = alert[a]
    BY <1>1, <2>2
  <2> QED BY <2>1, <2>3
<1> QED BY <1>6, <1>7, <1>8, <1>9, Happenings

(***************************************************************************)
(* Verdicts and rows: an alert has a note and a resolution from the first  *)
(* request to close it on, and no commit ever takes them away.             *)
(***************************************************************************)
HasVerdict(a) ==
  /\ alert[a].note # None <=> Judged(a)
  /\ alert[a].resolution # None <=> alert[a].note # None

(* The resolution that a request to close read has not been taken off the row. *)
StillResolved(q) ==
  q.op = "close" => (q.old.resolution # None => alert[q.key].resolution # None)

JudgedInv ==
  /\ \A a \in DOMAIN alert : HasVerdict(a)
  /\ \A p \in Analysts : StillResolved(request[p])

LEMMA JudgedInit == Init => JudgedInv
<1> SUFFICES ASSUME Init PROVE JudgedInv
  OBVIOUS
<1>1. alert = <<Opened>> /\ verdicts = {} /\ request = [p \in Analysts |-> Nothing]
  BY DEF Init
<1>2. DOMAIN alert = {1} /\ alert[1] = Opened
  BY <1>1
<1> QED BY <1>1, <1>2 DEF JudgedInv, HasVerdict, Judged, StillResolved, Opened, Nothing

LEMMA ResolutionWritten ==
  ASSUME NEW now \in AlertRow, NEW old \in AlertRow, NEW new
  PROVE  Written(now, old, new).resolution =
           IF new.resolution # old.resolution THEN new.resolution ELSE now.resolution
BY DEF Written, AlertRow

(* Only a commit of an alert gives a verdict. *)
LEMMA VerdictsStay ==
  ASSUME [Next]_vars, ~\E p \in Analysts : CommitAlert(p)
  PROVE  verdicts' = verdicts
<1>1. ASSUME NEW p \in Analysts, ReadAlert(p) \/ ReadRule(p) PROVE verdicts' = verdicts
  <2>1. \E q : Ask(p, q)
    BY <1>1, Zenon DEF ReadAlert, ReadRule
  <2> QED BY <2>1 DEF Ask, history
<1>2. ASSUME NEW p \in Analysts,
             Comment(p) \/ CreateRule(p) \/ CommitRule(p) \/ DeleteRule(p) \/ RequestFails(p)
      PROVE  verdicts' = verdicts
  BY <1>2 DEF Comment, CreateRule, CommitRule, DeleteRule, RequestFails, history
<1>3. ASSUME AlertArrives \/ ReadPage \/ UNCHANGED vars PROVE verdicts' = verdicts
  BY <1>3 DEF AlertArrives, ReadPage, history, vars
<1> QED BY <1>1, <1>2, <1>3 DEF Next

(* What a commit makes of the row: only closing gives a note and a resolution,
   and it gives both. *)
LEMMA JudgedCommit ==
  ASSUME AlertInv, JudgedInv, NEW p \in Analysts, CommitAlert(p),
         NEW w, w = Written(alert[request[p].key], request[p].old, request[p].new)
  PROVE  LET now == alert[request[p].key]
         IN  /\ request[p].op = "assign" => w.note = now.note /\ w.resolution = now.resolution
             /\ request[p].op = "close" => w.note # None /\ w.resolution # None
<1> DEFINE q == request[p]
           now == alert[q.key]
<1>1. q.op \in {"assign", "close"} /\ w = Written(now, q.old, q.new)
  BY DEF CommitAlert
<1>2. GoodAlertRequest(q) /\ NoteIsNew(p) /\ StillResolved(q)
  BY DEF AlertInv, JudgedInv
<1>3. q.key \in DOMAIN alert /\ now \in AlertRow /\ q.old \in AlertRow
  BY <1>1, <1>2 DEF GoodAlertRequest, AlertInv
<1>4. q.op = "assign" => \E r \in Analysts : q.new = Assigned(q.old, r)
  BY <1>2 DEF GoodAlertRequest
<1>5. q.op = "close" => /\ q.new = Closed(q.old, q.resolution, q.note)
                        /\ q.note # None /\ q.note # q.old.note
                        /\ q.resolution \in Resolutions
  BY <1>2, <1>1 DEF GoodAlertRequest, NoteIsNew, None
<1>6. q.op = "close" => (q.old.resolution # None => now.resolution # None)
  BY <1>2 DEF StillResolved
<1> HIDE DEF q, now
<1>7. ASSUME q.op = "assign" PROVE w.note = now.note /\ w.resolution = now.resolution
  <2>1. PICK r \in Analysts : q.new = Assigned(q.old, r)
    BY <1>4, <1>7
  <2>2. q.new.note = q.old.note /\ q.new.resolution = q.old.resolution
    BY <1>3, <2>1 DEF Assigned, AlertRow
  <2> QED BY <1>1, <1>3, <2>2, WrittenFields, ResolutionWritten
<1>8. ASSUME q.op = "close" PROVE w.note # None /\ w.resolution # None
  <2>1. q.new.note = q.note /\ q.new.resolution = q.resolution
    BY <1>3, <1>5, <1>8 DEF Closed, AlertRow
  <2>2. w.note = q.note
    BY <1>1, <1>3, <1>5, <1>8, <2>1, WrittenFields
  <2>3. w.resolution = IF q.resolution # q.old.resolution THEN q.resolution ELSE now.resolution
    BY <1>1, <1>3, <2>1, ResolutionWritten
  <2>4. q.resolution # None
    BY <1>5, <1>8, NoneAssumption
  <2> QED BY <1>5, <1>6, <1>8, <2>2, <2>3, <2>4
<1> QED BY <1>7, <1>8 DEF q, now

LEMMA JudgedStep ==
  ASSUME AlertInv, RowInv, JudgedInv, [Next]_vars
  PROVE  JudgedInv'
<1>1. /\ alert \in Seq(AlertRow) /\ request = [p \in Analysts |-> request[p]]
      /\ \A p \in Analysts : GoodAlertRequest(request[p]) /\ StillResolved(request[p])
      /\ \A a \in DOMAIN alert : HasVerdict(a)
      /\ \A v \in verdicts : v[1] \in DOMAIN alert
  BY DEF AlertInv, JudgedInv
<1>2. ASSUME NEW p \in Analysts, CommitAlert(p) PROVE JudgedInv'
  <2> DEFINE q == request[p]
             k == q.key
             w == Written(alert[k], q.old, q.new)
  <2>1. /\ alert' = [alert EXCEPT ![k] = w] /\ q.op \in {"assign", "close"}
        /\ request' = [request EXCEPT ![p] = Nothing]
        /\ verdicts' = IF q.op = "close" THEN verdicts \cup {<<k, q.resolution, q.note>>}
                       ELSE verdicts
    BY <1>2 DEF CommitAlert, Answer
  <2>2. /\ q.op = "assign" => w.note = alert[k].note /\ w.resolution = alert[k].resolution
        /\ q.op = "close" => w.note # None /\ w.resolution # None
    BY <1>2, JudgedCommit
  <2>3. k \in DOMAIN alert
    BY <1>1, <2>1 DEF GoodAlertRequest
  <2> HIDE DEF q, k, w
  <2>4. /\ DOMAIN alert' = DOMAIN alert /\ alert'[k] = w
        /\ \A a \in DOMAIN alert : a # k => alert'[a] = alert[a]
    BY <1>1, <2>1, <2>3
  <2>5. \A a : Judged(a)' <=> Judged(a) \/ (q.op = "close" /\ a = k)
    <3>1. <<k, q.resolution, q.note>>[1] = k
      OBVIOUS
    <3> QED BY <2>1, <3>1 DEF Judged
  <2>6. ASSUME NEW a \in DOMAIN alert
        PROVE  HasVerdict(a)' /\ (alert[a].resolution # None => alert'[a].resolution # None)
    <3>1. HasVerdict(a)
      BY <1>1
    <3>2. CASE a # k
      BY <2>4, <2>5, <3>1, <3>2 DEF HasVerdict
    <3>3. CASE a = k /\ q.op = "assign"
      BY <2>2, <2>4, <2>5, <3>1, <3>3 DEF HasVerdict
    <3>4. CASE a = k /\ q.op = "close"
      BY <2>2, <2>4, <2>5, <3>1, <3>4 DEF HasVerdict
    <3> QED BY <2>1, <3>2, <3>3, <3>4
  <2>7. \A r \in Analysts : request'[r] = request[r] \/ request'[r] = Nothing
    BY <1>1, <2>1
  <2>8. \A r \in Analysts : StillResolved(request[r])'
    BY <1>1, <2>6, <2>7 DEF StillResolved, GoodAlertRequest, Nothing
  <2> QED BY <2>4, <2>6, <2>8 DEF JudgedInv
<1>3. ASSUME ~\E p \in Analysts : CommitAlert(p) PROVE JudgedInv'
  <2>1. verdicts' = verdicts
    BY <1>3, VerdictsStay
  <2>2. \A a : Judged(a)' <=> Judged(a)
    BY <2>1 DEF Judged
  <2>3. CASE AlertArrives
    <3>1. alert' = Append(alert, Opened) /\ request' = request
      BY <2>3 DEF AlertArrives
    <3>2. /\ DOMAIN alert' = DOMAIN alert \cup {Len(alert) + 1} /\ alert'[Len(alert) + 1] = Opened
          /\ \A a \in DOMAIN alert : alert'[a] = alert[a]
          /\ Len(alert) + 1 \notin DOMAIN alert
      BY <1>1, <3>1
    <3>3. ~Judged(Len(alert) + 1)
      BY <1>1, <3>2 DEF Judged
    <3>4. \A a \in DOMAIN alert' : HasVerdict(a)'
      BY <1>1, <2>2, <3>2, <3>3 DEF HasVerdict, Opened
    <3>5. \A r \in Analysts : StillResolved(request[r])'
      BY <1>1, <3>1, <3>2 DEF StillResolved, GoodAlertRequest
    <3> QED BY <3>4, <3>5 DEF JudgedInv
  <2>4. ASSUME alert' = alert PROVE \A a \in DOMAIN alert' : HasVerdict(a)'
    BY <1>1, <2>2, <2>4 DEF HasVerdict
  <2>5. ASSUME NEW p \in Analysts, NEW q, Ask(p, q), FirstRequest(q) PROVE JudgedInv'
    <3>1. alert' = alert /\ request' = [request EXCEPT ![p] = q]
      BY <2>5 DEF Ask
    <3>2. StillResolved(q)
      BY <2>5 DEF StillResolved, FirstRequest
    <3>3. \A r \in Analysts : request'[r] = request[r] \/ request'[r] = q
      BY <1>1, <3>1
    <3>4. \A r \in Analysts : StillResolved(request[r])'
      BY <1>1, <3>1, <3>2, <3>3 DEF StillResolved
    <3> QED BY <2>4, <3>1, <3>4 DEF JudgedInv
  <2>6. CASE /\ alert' = alert /\ asked' \in 0..MaxRequests
             /\ \A p \in Analysts : request'[p] = request[p] \/ request'[p] = Nothing
    <3>1. \A r \in Analysts : StillResolved(request[r])'
      BY <1>1, <2>6 DEF StillResolved, Nothing
    <3> QED BY <2>4, <2>6, <3>1 DEF JudgedInv
  <2> QED BY <1>3, <2>3, <2>5, <2>6, Happenings
<1> QED BY <1>2, <1>3

(***************************************************************************)
(* Types; an alert has a note and a resolution exactly when a request has  *)
(* closed it, and an assigned one has a name.                              *)
(***************************************************************************)
THEOREM DeskTypes == Spec => []TypeOK
<1>1. AlertInv /\ RuleInv /\ RowInv /\ JudgedInv => TypeOK
  <2> SUFFICES ASSUME AlertInv, RuleInv, RowInv, JudgedInv PROVE TypeOK
    OBVIOUS
  <2>1. \A a \in DOMAIN alert : alert[a] \in AlertRow /\ GoodRow(alert[a]) /\ HasVerdict(a)
    BY DEF AlertInv, RowInv, JudgedInv
  <2>2. \A r \in Rules : rule[r] \in RuleRow
    BY DEF RuleInv
  <2>3. \A r \in Rules : rule[r].row \in {"none", "there", "deleted"} /\ rule[r].active \in BOOLEAN
    BY <2>2 DEF RuleRow
  <2>4. ASSUME NEW a \in DOMAIN alert
        PROVE  /\ alert[a].status \in {"open", "assigned", "closed"}
               /\ alert[a].assigned_to \in Analysts \cup {None}
               /\ alert[a].resolution \in Resolutions \cup {None}
    BY <2>1 DEF AlertRow
  <2> QED BY <2>1, <2>3, <2>4 DEF TypeOK, RowInv, GoodRow, HasVerdict, Judged
<1>2. Init => AlertInv /\ RuleInv /\ RowInv /\ JudgedInv
  BY AlertInit, RuleInit, RowInit, JudgedInit
<1>3. (AlertInv /\ RuleInv /\ RowInv /\ JudgedInv) /\ [Next]_vars
      => (AlertInv /\ RuleInv /\ RowInv /\ JudgedInv)'
  BY AlertStep, RuleStep, RowStep, JudgedStep
<1> QED BY <1>1, <1>2, <1>3, PTL DEF Spec

(***************************************************************************)
(* Paging through the open alerts.  Of the alerts that were open when the  *)
(* listing began, each is listed or still lies behind the pages read, as   *)
(* long as none of them is shifted forward.                                *)
(***************************************************************************)
Ahead(a) == a \in reader.listed \/ (~reader.done /\ Offset(reader.page) < Place(a))

ListInv ==
  /\ reader.page \in Nat \ {0}
  /\ reader.before \subseteq NotOpen
  /\ reader.due \subseteq DOMAIN alert
  /\ NotOpen = reader.before => \A a \in reader.due : IsOpen(a) /\ Ahead(a)

(* Among finitely many numbers, the one with n at or above it comes after one
   with k at or above it, for each k up to n: the places of a listing have no
   gaps. *)
Above(S, a) == {b \in S : b >= a}

LEMMA PlacesHaveNoGaps ==
  ASSUME NEW S \in SUBSET Nat, IsFiniteSet(S), NEW a \in S
  PROVE  {Cardinality(Above(S, b)) : b \in Above(S, a)} = 1..Cardinality(Above(S, a))
<1> DEFINE T == Above(S, a)
           f == [b \in T |-> Cardinality(Above(S, b))]
           n == Cardinality(T)
           R == {f[b] : b \in T}
<1>1. \A b \in S : IsFiniteSet(Above(S, b)) /\ Cardinality(Above(S, b)) \in Nat
  <2> TAKE b \in S
  <2>1. Above(S, b) \in SUBSET S
    BY DEF Above
  <2> QED BY <2>1, FS_Subset, FS_CardinalityType
<1>2. ASSUME NEW b \in S, NEW c \in S, b < c
      PROVE  Cardinality(Above(S, c)) < Cardinality(Above(S, b))
  <2>1. Above(S, c) \in SUBSET Above(S, b)
    <3>1. \A d \in S : d >= c => d >= b
      BY <1>2
    <3> QED BY <3>1 DEF Above
  <2>2. b \in Above(S, b) /\ b \notin Above(S, c)
    BY <1>2 DEF Above
  <2> HIDE <1>2
  <2>3. /\ Cardinality(Above(S, c)) <= Cardinality(Above(S, b))
        /\ Cardinality(Above(S, b)) = Cardinality(Above(S, c)) => Above(S, b) = Above(S, c)
    BY <1>1, <2>1, FS_Subset
  <2>4. Cardinality(Above(S, c)) \in Nat /\ Cardinality(Above(S, b)) \in Nat
    BY <1>1
  <2> QED BY <2>2, <2>3, <2>4
<1>3. T \subseteq S /\ IsFiniteSet(T) /\ n \in Nat /\ a \in T
  BY <1>1 DEF Above
<1>4. \A b \in T : f[b] \in 1..n
  <2> TAKE b \in T
  <2>1. b \in S /\ b \in Nat /\ a \in Nat /\ b >= a
    BY DEF Above
  <2>2. ASSUME NEW d \in S, d >= b PROVE d >= a
    <3>1. d \in Nat
      OBVIOUS
    <3> QED BY <2>1, <2>2, <3>1
  <2>3. Above(S, b) \in SUBSET T /\ b \in Above(S, b)
    <3>1. b >= b
      BY <2>1
    <3>2. b \in Above(S, b)
      BY <2>1, <3>1 DEF Above
    <3>3. Above(S, b) \in SUBSET T
      BY <2>2 DEF Above
    <3> QED BY <3>2, <3>3
  <2>4. Cardinality(Above(S, b)) <= n
    BY <1>3, <2>3, FS_Subset
  <2>5. Cardinality(Above(S, b)) # 0
    BY <1>1, <2>1, <2>3, FS_EmptySet
  <2> QED BY <1>1, <1>3, <2>1, <2>4, <2>5
<1>5. f \in Injection(T, R)
  <2>1. ASSUME NEW b \in T, NEW c \in T, f[b] = f[c] PROVE b = c
    <3>1. b \in S /\ c \in S /\ b \in Nat /\ c \in Nat
      BY <1>3
    <3>2. Cardinality(Above(S, b)) = Cardinality(Above(S, c)) /\ Cardinality(Above(S, c)) \in Nat
      BY <1>1, <2>1, <3>1
    <3>3. ~(b < c) /\ ~(c < b)
      BY <1>2, <3>1, <3>2
    <3> QED BY <3>1, <3>3
  <2> QED BY <2>1 DEF Injection, IsInjective
<1>6. f \in Surjection(T, R)
  BY DEF Surjection
<1>7. Cardinality(R) = n
  BY <1>3, <1>5, <1>6, FS_Surjection
<1>8. R = 1..n
  <2>1. IsFiniteSet(1..n) /\ Cardinality(1..n) = n
    <3> HIDE DEF n
    <3>1. 1 \in Int /\ n \in Int
      BY <1>3
    <3>2. Cardinality(1..n) = (IF 1 > n THEN 0 ELSE n - 1 + 1) /\ IsFiniteSet(1..n)
      BY <3>1, FS_Interval
    <3> QED BY <1>3, <3>2
  <2>2. R \in SUBSET (1..n)
    BY <1>4
  <2> QED BY <1>7, <2>1, <2>2, FS_Subset
<1> QED BY <1>8

(* A page that ends before an alert is full. *)
LEMMA FullPage ==
  ASSUME NEW S \in SUBSET Nat, IsFiniteSet(S), NEW a \in S, NEW k \in Nat, NEW m \in Nat,
         k + m < Cardinality(Above(S, a))
  PROVE  LET P == {b \in S : k < Cardinality(Above(S, b)) /\ Cardinality(Above(S, b)) <= k + m}
         IN  ~(Cardinality(P) < m)
<1> DEFINE P == {b \in S : k < Cardinality(Above(S, b)) /\ Cardinality(Above(S, b)) <= k + m}
           f == [b \in P |-> Cardinality(Above(S, b))]
           J == (k + 1)..(k + m)
<1>1. IsFiniteSet(P) /\ Cardinality(P) \in Nat
  <2>1. P \in SUBSET S
    OBVIOUS
  <2> QED BY <2>1, FS_Subset, FS_CardinalityType
<1>2. Cardinality(Above(S, a)) \in Nat /\ \A b \in S : Cardinality(Above(S, b)) \in Nat
  <2>1. \A b \in S : Above(S, b) \in SUBSET S
    BY DEF Above
  <2> QED BY <2>1, FS_Subset, FS_CardinalityType
<1>3. ASSUME NEW j \in J PROVE \E b \in P : f[b] = j
  <2>1. j \in 1..Cardinality(Above(S, a)) /\ k < j /\ j <= k + m
    BY <1>2
  <2>2. PICK b \in Above(S, a) : Cardinality(Above(S, b)) = j
    BY <2>1, PlacesHaveNoGaps
  <2>3. b \in S
    BY DEF Above
  <2> QED BY <2>1, <2>2, <2>3
<1>4. ASSUME NEW b \in P PROVE f[b] \in J
  BY <1>2
<1>5. f \in Surjection(P, J)
  <2> HIDE DEF P, J
  <2>1. f \in [P -> J]
    BY <1>4
  <2> QED BY <1>3, <2>1 DEF Surjection
<1>6. Cardinality(J) <= Cardinality(P)
  BY <1>1, <1>5, FS_Surjection
<1>7. Cardinality(J) = m
  <2>1. k + 1 \in Int /\ k + m \in Int
    OBVIOUS
  <2>2. Cardinality(J) = IF k + 1 > k + m THEN 0 ELSE (k + m) - (k + 1) + 1
    BY <2>1, FS_Interval
  <2> QED BY <2>2
<1> QED BY <1>1, <1>6, <1>7

LEMMA SomeOf ==
  ASSUME NEW Row, NEW q \in Seq(Row), NEW S \in SUBSET (DOMAIN q)
  PROVE  S \in SUBSET Nat /\ IsFiniteSet(S)
<1>1. DOMAIN q = 1..Len(q) /\ Len(q) \in Nat
  OBVIOUS
<1> DEFINE n == Len(q)
<1>2. n \in Nat /\ S \in SUBSET (1..n)
  BY <1>1
<1> HIDE DEF n
<1>3. 1 \in Int /\ n \in Int
  BY <1>2
<1>4. IsFiniteSet(1..n)
  BY <1>3, FS_Interval
<1> QED BY <1>2, <1>4, FS_Subset

LEMMA OpenAlerts ==
  ASSUME AlertInv
  PROVE  /\ Matching \in SUBSET Nat /\ IsFiniteSet(Matching)
         /\ \A a : Place(a) = Cardinality(Above(Matching, a)) /\ Place(a) \in Nat
         /\ \A a \in Matching : Place(a) >= 1
<1>1. alert \in Seq(AlertRow)
  BY DEF AlertInv
<1>2. Matching \in SUBSET (DOMAIN alert)
  BY DEF Matching
<1>5. Matching \in SUBSET Nat /\ IsFiniteSet(Matching)
  BY <1>1, <1>2, SomeOf
<1>6. ASSUME NEW a
      PROVE  /\ Place(a) = Cardinality(Above(Matching, a)) /\ Place(a) \in Nat
             /\ a \in Matching => Place(a) # 0
  <2>1. Above(Matching, a) \in SUBSET Matching
    BY DEF Above
  <2>2. IsFiniteSet(Above(Matching, a)) /\ Cardinality(Above(Matching, a)) \in Nat
    BY <1>5, <2>1, FS_Subset, FS_CardinalityType
  <2>3. Place(a) = Cardinality(Above(Matching, a))
    BY DEF Place, Above
  <2>4. a \in Matching => a \in Above(Matching, a)
    <3>1. a \in Matching => a >= a
      BY <1>5
    <3> QED BY <3>1 DEF Above
  <2>5. Cardinality(Above(Matching, a)) = 0 => Above(Matching, a) = {}
    BY <2>2, FS_EmptySet
  <2> QED BY <2>2, <2>3, <2>4, <2>5
<1>7. \A a \in Matching : Place(a) >= 1
  BY <1>6
<1> QED BY <1>5, <1>6, <1>7

(* As long as no alert stops being open, none moves forward. *)
LEMMA NoneMovesForward ==
  ASSUME AlertInv, AlertInv', RowInv, [Next]_vars, NotOpen' = NotOpen
  PROVE  /\ Matching \subseteq Matching'
         /\ \A a : Place(a) <= Place(a)'
<1>1. DOMAIN alert \subseteq DOMAIN alert'
  BY RowStep
<1>2. Matching \subseteq Matching'
  BY <1>1 DEF Matching, NotOpen, IsOpen
<1>3. ASSUME NEW a PROVE Place(a) <= Place(a)'
  <2>1. Above(Matching, a) \in SUBSET Above(Matching', a)
    BY <1>2 DEF Above
  <2>2. Above(Matching', a) \in SUBSET Matching'
    BY DEF Above
  <2>3. IsFiniteSet(Matching')
    <3>1. alert' \in Seq(AlertRow) /\ Matching' \in SUBSET (DOMAIN alert')
      BY DEF AlertInv, Matching
    <3> QED BY <3>1, SomeOf
  <2>4. Cardinality(Above(Matching, a)) <= Cardinality(Above(Matching', a))
    BY <2>1, <2>2, <2>3, FS_Subset
  <2>5. Place(a)' = Cardinality(Above(Matching', a)) /\ Place(a) = Cardinality(Above(Matching, a))
    BY DEF Place, Above
  <2> QED BY <2>4, <2>5
<1> QED BY <1>2, <1>3

LEMMA ListRead ==
  ASSUME AlertInv, ListInv, ReadPage
  PROVE  ListInv'
<1> DEFINE first == Offset(reader.page)
           page == {a \in Matching : first < Place(a) /\ Place(a) <= first + PageSize}
           start == reader.page = 1
<1>1. /\ ~reader.done /\ alert' = alert
      /\ reader' = [page |-> reader.page + 1, listed |-> reader.listed \cup page,
                    due |-> IF start THEN Matching ELSE reader.due,
                    before |-> IF start THEN NotOpen ELSE reader.before,
                    done |-> Cardinality(page) < PageSize]
  BY DEF ReadPage
<1>2. /\ reader.page \in Nat \ {0} /\ reader.before \subseteq NotOpen
      /\ reader.due \subseteq DOMAIN alert
      /\ NotOpen = reader.before => \A a \in reader.due : IsOpen(a) /\ Ahead(a)
  BY DEF ListInv
<1>3. /\ first \in Nat /\ PageSize \in Nat \ {0}
      /\ reader.page + 1 \in Nat \ {0} /\ Offset(reader.page + 1) = first + PageSize
  <2>1. PageSize \in Nat \ {0}
    BY BoundsAssumption
  <2> DEFINE k == reader.page - 1
  <2>2. k \in Nat /\ reader.page = k + 1
    BY <1>2
  <2> HIDE DEF k
  <2>3. reader.page - 1 = k /\ (reader.page + 1) - 1 = k + 1
    BY <2>2
  <2>4. first = k * PageSize /\ Offset(reader.page + 1) = (k + 1) * PageSize
    BY <2>3 DEF Offset
  <2>5. k * PageSize \in Nat /\ (k + 1) * PageSize = k * PageSize + PageSize
    BY <2>1, <2>2
  <2> QED BY <2>1, <2>2, <2>4, <2>5
<1>4. /\ NotOpen' = NotOpen /\ Matching' = Matching
      /\ \A a : IsOpen(a)' = IsOpen(a) /\ Place(a)' = Place(a)
  BY <1>1 DEF NotOpen, Matching, IsOpen, Place
<1>5. /\ reader'.page = reader.page + 1 /\ reader'.listed = reader.listed \cup page
      /\ reader'.due = IF start THEN Matching ELSE reader.due
      /\ reader'.before = IF start THEN NotOpen ELSE reader.before
      /\ reader'.done = (Cardinality(page) < PageSize)
  BY <1>1
<1> HIDE DEF first
<1>6. ASSUME NotOpen = reader'.before, NEW a \in reader'.due
      PROVE  a \in Matching /\ (a \in reader.listed \/ first < Place(a))
  <2>1. CASE start
    <3>1. first = 0
      <4>1. reader.page - 1 = 0
        BY <2>1
      <4>2. 0 * PageSize = 0
        BY <1>3
      <4> QED BY <4>1, <4>2 DEF first, Offset
    <3>2. a \in Matching /\ Place(a) \in Nat /\ Place(a) >= 1
      BY <1>5, <1>6, <2>1, OpenAlerts
    <3> QED BY <3>1, <3>2
  <2>2. CASE ~start
    <3>1. IsOpen(a) /\ Ahead(a) /\ a \in DOMAIN alert
      BY <1>2, <1>5, <1>6, <2>2
    <3> QED BY <3>1 DEF Ahead, Matching, first
  <2> QED BY <2>1, <2>2
<1>7. ASSUME NEW a \in Matching, first + PageSize < Place(a)
      PROVE  ~(Cardinality(page) < PageSize)
  <2> DEFINE P == {b \in Matching : first < Cardinality(Above(Matching, b))
                                    /\ Cardinality(Above(Matching, b)) <= first + PageSize}
  <2>1. page = P /\ first + PageSize < Cardinality(Above(Matching, a))
    BY <1>7, OpenAlerts
  <2>2. Matching \in SUBSET Nat /\ IsFiniteSet(Matching)
    BY OpenAlerts
  <2>3. ~(Cardinality(P) < PageSize)
    BY <1>3, <2>1, <2>2, FullPage
  <2> QED BY <2>1, <2>3
<1>8. ASSUME NotOpen = reader'.before, NEW a \in reader'.due
      PROVE  a \in reader'.listed \/ (~reader'.done /\ first + PageSize < Place(a))
  <2>1. a \in Matching /\ Place(a) \in Nat
    BY <1>6, <1>8, OpenAlerts
  <2>2. CASE a \in reader.listed
    BY <1>5, <2>2
  <2>3. CASE first < Place(a) /\ Place(a) <= first + PageSize
    BY <1>5, <2>1, <2>3
  <2>4. CASE first + PageSize < Place(a)
    BY <1>5, <1>7, <2>1, <2>4
  <2>5. a \in reader.listed \/ first < Place(a)
    BY <1>6, <1>8
  <2>6. Place(a) <= first + PageSize \/ first + PageSize < Place(a)
    BY <1>3, <2>1
  <2> QED BY <2>2, <2>3, <2>4, <2>5, <2>6
<1> HIDE DEF page
<1>9. reader'.due \subseteq DOMAIN alert'
  BY <1>1, <1>2, <1>5 DEF Matching
<1>10. reader'.before \subseteq NotOpen'
  BY <1>2, <1>4, <1>5
<1>11. ASSUME NotOpen' = reader'.before, NEW a \in reader'.due
       PROVE  IsOpen(a)' /\ Ahead(a)'
  <2>1. a \in Matching
    BY <1>4, <1>6, <1>11
  <2>2. a \in reader'.listed \/ (~reader'.done /\ Offset(reader'.page) < Place(a))
    BY <1>3, <1>4, <1>5, <1>8, <1>11
  <2>3. Place(a)' = Place(a) /\ IsOpen(a)' = IsOpen(a)
    BY <1>4
  <2> QED BY <2>1, <2>2, <2>3 DEF Ahead, Matching, Offset
<1> QED BY <1>3, <1>5, <1>9, <1>10, <1>11 DEF ListInv

LEMMA ListStep ==
  ASSUME AlertInv, AlertInv', RowInv, ListInv, [Next]_vars
  PROVE  ListInv'
<1>1. CASE ReadPage
  BY <1>1, ListRead
<1>2. CASE ~ReadPage
  <2>1. reader' = reader
    BY <1>2 DEF Next, vars, AlertArrives, ReadAlert, Ask, Comment, CommitAlert, Answer, CreateRule,
                ReadRule, CommitRule, DeleteRule, RequestFails
  <2>2. DOMAIN alert \subseteq DOMAIN alert' /\ NotOpen \subseteq NotOpen'
    BY RowStep DEF NotOpen, IsOpen
  <2>3. ASSUME NotOpen' = reader'.before, NEW a \in reader'.due
        PROVE  IsOpen(a)' /\ Ahead(a)'
    <3>1. NotOpen' = NotOpen /\ NotOpen = reader.before
      BY <2>1, <2>2, <2>3 DEF ListInv
    <3>2. IsOpen(a) /\ Ahead(a) /\ a \in DOMAIN alert
      BY <2>1, <2>3, <3>1 DEF ListInv
    <3>3. IsOpen(a)'
      BY <2>2, <3>1, <3>2, NoneMovesForward DEF Matching
    <3>4. Place(a) <= Place(a)' /\ Place(a) \in Nat /\ Place(a)' \in Nat
      <4>1. Place(a)' \in Nat
        <5>1. alert' \in Seq(AlertRow) /\ Matching' \in SUBSET (DOMAIN alert')
          BY DEF AlertInv, Matching
        <5>2. IsFiniteSet(Matching')
          BY <5>1, SomeOf
        <5>3. {b \in Matching' : b >= a} \in SUBSET Matching'
          OBVIOUS
        <5>4. Cardinality({b \in Matching' : b >= a}) \in Nat
          BY <5>2, <5>3, FS_Subset, FS_CardinalityType
        <5> QED BY <5>4 DEF Place
      <4> QED BY <3>1, <4>1, NoneMovesForward, OpenAlerts
    <3>5. Offset(reader.page) < Place(a) => Offset(reader.page) < Place(a)'
      <4>1. Offset(reader.page) \in Int
        BY BoundsAssumption DEF ListInv, Offset
      <4> QED BY <3>4, <4>1
    <3> QED BY <2>1, <3>2, <3>3, <3>5 DEF Ahead, Offset
  <2> QED BY <2>1, <2>2, <2>3 DEF ListInv
<1> QED BY <1>1, <1>2

(***************************************************************************)
(* Somebody who pages through the open alerts to the end has seen all that *)
(* were open at the beginning, if none stopped being open on the way,      *)
(* however many arrived.                                                   *)
(***************************************************************************)
THEOREM ListedAll == Spec => []ListingComplete
<1>1. ListInv => ListingComplete
  BY DEF ListInv, Ahead, ListingComplete
<1>2. Init => AlertInv /\ RowInv /\ ListInv
  <2>1. Init => ListInv
    BY DEF Init, ListInv
  <2> QED BY <2>1, AlertInit, RowInit
<1>3. (AlertInv /\ RowInv /\ ListInv) /\ [Next]_vars => (AlertInv /\ RowInv /\ ListInv)'
  BY AlertStep, RowStep, ListStep
<1> QED BY <1>1, <1>2, <1>3, PTL DEF Spec
=============================================================================
