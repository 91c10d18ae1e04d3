----------------------------- MODULE AlertDesk -----------------------------
(***************************************************************************)
(* Analysts at work on alerts and alert rules (app/routes/alerts.py,       *)
(* app/routes/rules.py).  A request reads its row, changes the object in   *)
(* memory and commits; the session writes only the columns whose value     *)
(* differs from the one it read, and nothing checks that the row is still  *)
(* the one that was read.  Meanwhile alerts arrive, and somebody pages     *)
(* through the open ones, newest first.                                    *)
(***************************************************************************)
EXTENDS Naturals, Sequences, FiniteSets

CONSTANTS
  Analysts,    \* concurrent requests
  Resolutions, \* _VALID_RESOLUTIONS
  Rules,       \* ids of alert rules
  PageSize,    \* size of a page
  MaxAlerts,   \* bound: alerts
  MaxRequests  \* bound: requests

ASSUME BoundsAssumption ==
  {PageSize, MaxAlerts} \subseteq Nat \ {0} /\ MaxRequests \in Nat

None == 0
ASSUME NoneAssumption == None \notin Analysts \cup Resolutions
Alerts == 1..MaxAlerts \* by time of creation

VARIABLES
  alert,    \* the rows of alerts, in the order of created_at
  comments, \* comments per alert
  rule,     \* the rows of alert_rules
  request,  \* per analyst: the request between reading and commit
  asked,    \* requests so far
  reader,   \* a listing of the open alerts
  clashed,  \* history: rows that a request changed over another one's change
  verdicts, \* history: what the requests to close said
  switched  \* history: what active should be, by the order of commits

history == <<clashed, verdicts, switched>>
vars == <<alert, comments, rule, request, asked, reader, clashed, verdicts, switched>>

Opened == [status |-> "open", assigned_to |-> None, resolution |-> None, note |-> None]
Nothing == [op |-> "none"]

Init ==
  /\ alert = <<Opened>>
  /\ comments = [a \in Alerts |-> 0]
  /\ rule = [r \in Rules |-> [row |-> "none", active |-> FALSE, body |-> None]]
  /\ request = [p \in Analysts |-> Nothing]
  /\ asked = 0
  /\ reader = [page |-> 1, listed |-> {}, due |-> {}, before |-> {}, done |-> FALSE]
  /\ clashed = {} /\ verdicts = {}
  /\ switched = [r \in Rules |-> FALSE]

(* Mutation of Written: the whole row is written back. *)
WrittenWhole(now, old, new) == new

(* What a commit makes of the row. *)
Written(now, old, new) == [c \in DOMAIN now |-> IF new[c] # old[c] THEN new[c] ELSE now[c]]

Ask(p, q) ==
  /\ request[p] = Nothing
  /\ asked < MaxRequests
  /\ asked' = asked + 1
  /\ request' = [request EXCEPT ![p] = q]
  /\ UNCHANGED <<alert, comments, rule, reader, history>>

Answer(p) ==
  /\ request' = [request EXCEPT ![p] = Nothing]
  /\ UNCHANGED <<asked, reader>>

(***************************************************************************)
(* Alerts: assign, comment, close.  The status is not looked at.  A note   *)
(* is the number of the request that gave it.                              *)
(***************************************************************************)
AlertArrives ==
  /\ Len(alert) < MaxAlerts
  /\ alert' = Append(alert, Opened)
  /\ UNCHANGED <<comments, rule, request, asked, reader, history>>

(* Mutation of Assigned: the status changes, the name does not. *)
AssignedToNobody(row, p) == [row EXCEPT !.status = "assigned"]

Assigned(row, p) == [row EXCEPT !.status = "assigned", !.assigned_to = p]

Closed(row, resolution, note) ==
  [row EXCEPT !.status = "closed", !.resolution = resolution, !.note = note]

ReadAlert(p) ==
  \E a \in DOMAIN alert :
    \/ Ask(p, [op |-> "comment", key |-> a])
    \/ \E q \in Analysts :
         Ask(p, [op |-> "assign", key |-> a, old |-> alert[a], new |-> Assigned(alert[a], q)])
    \/ \E r \in Resolutions :
         Ask(p, [op |-> "close", key |-> a, old |-> alert[a], resolution |-> r, note |-> asked + 1,
                 new |-> Closed(alert[a], r, asked + 1)])

Comment(p) ==
  /\ request[p].op = "comment"
  /\ comments' = [comments EXCEPT ![request[p].key] = @ + 1]
  /\ Answer(p)
  /\ UNCHANGED <<alert, rule, history>>

CommitAlert(p) ==
  LET q == request[p]
      now == alert[q.key]
      again == q.old.note # None /\ now.note # q.old.note
  IN  /\ q.op \in {"assign", "close"}
      /\ alert' = [alert EXCEPT ![q.key] = Written(@, q.old, q.new)]
      /\ clashed' = IF q.op = "close" /\ again THEN clashed \cup {<<"alert", q.key>>} ELSE clashed
      /\ verdicts' = IF q.op = "close" THEN verdicts \cup {<<q.key, q.resolution, q.note>>} ELSE verdicts
      /\ Answer(p)
      /\ UNCHANGED <<comments, rule, switched>>

(***************************************************************************)
(* Rules: create, replace, toggle, delete.                                 *)
(***************************************************************************)
(* Mutation of Toggled: the button switches off. *)
ToggledOff(row) == [row EXCEPT !.active = FALSE]

Toggled(row) == [row EXCEPT !.active = ~@]

CreateRule(p) ==
  \E r \in Rules, b \in BOOLEAN :
    /\ request[p] = Nothing /\ asked < MaxRequests
    /\ rule[r].row = "none"
    /\ rule' = [rule EXCEPT ![r] = [row |-> "there", active |-> b, body |-> asked + 1]]
    /\ switched' = [switched EXCEPT ![r] = b]
    /\ asked' = asked + 1
    /\ UNCHANGED <<alert, comments, request, reader, clashed, verdicts>>

ReadRule(p) ==
  \E r \in Rules :
    /\ rule[r].row = "there"
    /\ \/ Ask(p, [op |-> "toggle", key |-> r, old |-> rule[r], new |-> Toggled(rule[r])])
       \/ \E b \in BOOLEAN :
            Ask(p, [op |-> "update", key |-> r, old |-> rule[r],
                    new |-> [rule[r] EXCEPT !.active = b, !.body = asked + 1]])
       \/ Ask(p, [op |-> "delete", key |-> r])

CommitRule(p) ==
  LET q == request[p]
      now == rule[q.key]
  IN  /\ q.op \in {"toggle", "update"}
      /\ now.row = "there"
      /\ rule' = [rule EXCEPT ![q.key] = Written(@, q.old, q.new)]
      /\ clashed' = IF now.active # q.old.active THEN clashed \cup {<<"rule", q.key>>} ELSE clashed
      /\ switched' = [switched EXCEPT ![q.key] = IF q.op = "toggle" THEN ~@ ELSE q.new.active]
      /\ Answer(p)
      /\ UNCHANGED <<alert, comments, verdicts>>

(* A second deletion of the same rule finds nothing to delete, and succeeds. *)
DeleteRule(p) ==
  /\ request[p].op = "delete"
  /\ rule' = [rule EXCEPT ![request[p].key].row = "deleted"]
  /\ Answer(p)
  /\ UNCHANGED <<alert, comments, history>>

(* The database fails, always when the rule to change is gone. *)
RequestFails(p) ==
  /\ request[p] # Nothing
  /\ Answer(p)
  /\ UNCHANGED <<alert, comments, rule, history>>

(***************************************************************************)
(* GET /alerts?status=open, page after page: offset and limit over the     *)
(* rows as they are at each request.                                       *)
(***************************************************************************)
IsOpen(a) == alert[a].status = "open"
Matching == {a \in DOMAIN alert : IsOpen(a)}

(* Where an alert is in the listing: alerts that came later are before it. *)
Place(a) == Cardinality({b \in Matching : b >= a})
NotOpen == {a \in DOMAIN alert : ~IsOpen(a)}

(* Mutation of Offset: pages counted from zero. *)
OffsetFromZero(page) == page * PageSize

Offset(page) == (page - 1) * PageSize

ReadPage ==
  LET first == Offset(reader.page)
      page == {a \in Matching : first < Place(a) /\ Place(a) <= first + PageSize}
      start == reader.page = 1
  IN  /\ ~reader.done
      /\ reader' = [page   |-> reader.page + 1,
                    listed |-> reader.listed \cup page,
                    due    |-> IF start THEN Matching ELSE reader.due,
                    before |-> IF start THEN NotOpen ELSE reader.before,
                    done   |-> Cardinality(page) < PageSize]
      /\ UNCHANGED <<alert, comments, rule, request, asked, history>>

Next ==
  \/ AlertArrives
  \/ \E p \in Analysts :
       \/ ReadAlert(p) \/ Comment(p) \/ CommitAlert(p)
       \/ CreateRule(p) \/ ReadRule(p) \/ CommitRule(p) \/ DeleteRule(p)
       \/ RequestFails(p)
  \/ ReadPage

Spec == Init /\ [][Next]_vars

(***************************************************************************)
(* Properties                                                              *)
(***************************************************************************)
(* Types; an alert has a note, and a resolution with it, exactly when some
   request has closed it, now or before it was assigned anew; and nobody works
   on it without being named (alerts.py 77-115). *)
TypeOK ==
  /\ Len(alert) \in 1..MaxAlerts
  /\ \A a \in DOMAIN alert :
       /\ alert[a].status \in {"open", "assigned", "closed"}
       /\ alert[a].assigned_to \in Analysts \cup {None}
       /\ alert[a].resolution \in Resolutions \cup {None}
       /\ alert[a].note # None <=> \E v \in verdicts : v[1] = a
       /\ alert[a].resolution # None <=> alert[a].note # None
       /\ alert[a].status = "closed" => alert[a].note # None
       /\ alert[a].status = "assigned" => alert[a].assigned_to # None
  /\ \A r \in Rules : rule[r].row \in {"none", "there", "deleted"} /\ rule[r].active \in BOOLEAN
  /\ asked \in 0..MaxRequests

(* An alert that was closed once keeps a verdict, whatever is assigned meanwhile
   or afterwards, and its resolution and its note were given by one and the
   same request; except when two requests closed it anew at the same time:
   then the row may hold one's resolution and the other's note
   (alerts.py 77-84, 104-115). *)
VerdictOfOneRequest ==
  \A a \in DOMAIN alert :
    \/ <<a, alert[a].resolution, alert[a].note>> \in verdicts
    \/ <<"alert", a>> \in clashed
    \/ alert[a].resolution = None /\ \A v \in verdicts : v[1] # a

(* A rule is active or not as the toggles and updates say, one after the other
   in the order of their commits, unless one of them was committed over a
   change it had not seen (rules.py 49-72). *)
TogglesCount ==
  \A r \in Rules :
    rule[r].active = switched[r] \/ <<"rule", r>> \in clashed

(* Alerts that stay open while somebody pages through the open ones are all
   listed, however many arrive meanwhile, as long as no alert stops being open
   on the way: one that does shifts the rest by one place, and the next page
   skips an alert (alerts.py 65-74). *)
ListingComplete ==
  reader.done /\ NotOpen = reader.before => reader.due \subseteq reader.listed
=============================================================================
