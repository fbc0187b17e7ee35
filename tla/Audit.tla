------------------------------- MODULE Audit -------------------------------
(***************************************************************************)
(* Stock audits of one product: a manager assigns the serials that are in  *)
(* stock to an auditor for a window of time, the auditor scans them into   *)
(* batches, and the findings are written anew by every submit, extension   *)
(* and, when the window is over, by whoever opens a report                 *)
(* (services/audit.py, routers/audit_assignments.py, routers/reports.py).  *)
(*                                                                         *)
(* A request loads rows, and writes them later in one transaction that     *)
(* reads the scans again but keeps the deadline as it was loaded.  A scan  *)
(* is in the window by the time of its row, not by that of its check.      *)
(***************************************************************************)
EXTENDS Naturals, Sequences, FiniteSets

CONSTANTS
    Serials,
    Assignments,   \* numbers of assignments, in the order they are made
    Auditors,      \* request threads of the auditor
    Managers,      \* request threads of whoever assigns, extends, reads reports
    MaxTime,       \* BOUND: moments
    MaxBatches,    \* BOUND: audit batches
    None

Times    == 0..MaxTime
Threads  == Auditors \cup Managers
Findings == {"VERIFIED", "MISSING", "PENDING", "EXTRA"}
Item     == [batch : 1..MaxBatches, serial : Serials, at : Times]
Report   == [asg : Assignments, batch : 1..MaxBatches,
             found : [Serials -> Findings \cup {None}]]

VARIABLES
    now,
    stock,     \* the serials whose status is IN_STOCK
    asg,       \* audit_assignments with their items, or None
    batches,   \* the audit batches: assignment, and whether a draft
    items,     \* batch_items of these batches
    reports,   \* audit_findings, grouped by the reconciliation that wrote them
    req,       \* per thread: the request it is in, with what it has loaded
    outdated   \* ghost: assignments last reconciled with a deadline since moved

rows == <<stock, asg, batches, items, reports>>
vars == <<now, rows, req, outdated>>

Init ==
    /\ now = 0
    /\ stock \in SUBSET Serials
    /\ asg = [a \in Assignments |-> None]
    /\ batches = <<>> /\ items = {} /\ reports = {}
    /\ req = [t \in Threads |-> None]
    /\ outdated = {}

Made      == {a \in Assignments : asg[a] # None}
BatchesOf(a) == {b \in DOMAIN batches : batches[b].asg = a}
Latest(a) == CHOOSE b \in BatchesOf(a) : \A c \in BatchesOf(a) : c <= b
Idle(t)   == req[t] = None
Done(t)   == req' = [req EXCEPT ![t] = None]

-----------------------------------------------------------------------------
(* Reconciliation.                                                         *)

CountedAnytime(a, ends) ==      \* variant: whatever the window
    {s \in Serials : \E i \in items : i.serial = s /\ i.batch \in BatchesOf(a)}
Counted(a, ends) ==
    {s \in Serials : \E i \in items : /\ i.serial = s /\ i.batch \in BatchesOf(a)
                                      /\ asg[a].starts <= i.at /\ i.at <= ends}

MakeFinding(a, s, scanned, expired) ==
    IF s \in asg[a].expected
    THEN IF s \in scanned THEN "VERIFIED" ELSE IF expired THEN "MISSING" ELSE "PENDING"
    ELSE IF s \in scanned THEN "EXTRA" ELSE None

(* The findings of all batches of the assignment are deleted; the new ones *)
(* hang on the anchor batch.                                               *)
SupersededHere(r, a, anchor) == r.batch = anchor   \* variant: only the anchor's
Superseded(r, a, anchor)     == r.asg = a

Written(a, anchor, ends, moment) ==
    LET scanned == Counted(a, ends)
    IN [asg |-> a, batch |-> anchor,
        found |-> [s \in Serials |-> MakeFinding(a, s, scanned, moment > ends)]]
Reconciled(a, anchor, ends, moment) ==
    {r \in reports : ~Superseded(r, a, anchor)} \cup {Written(a, anchor, ends, moment)}

HasPending(a)  == \E r \in reports : r.asg = a /\ \E s \in Serials : r.found[s] = "PENDING"
HasFindings(a) == \E r \in reports : r.asg = a

-----------------------------------------------------------------------------
(* assign_audit: what is in stock now is expected.                         *)
NoAnchor(a)   == batches         \* variant: without the anchor batch
WithAnchor(a) == Append(batches, [asg |-> a, open |-> TRUE])

Assign(t, starts, ends) ==
    /\ Idle(t) /\ stock # {} /\ Len(batches) < MaxBatches
    /\ starts < ends /\ now < ends
    /\ \E a \in Assignments \ Made :
        /\ \A c \in Assignments \ Made : a <= c
        /\ asg' = [asg EXCEPT ![a] = [starts |-> starts, ends |-> ends, expected |-> stock]]
        /\ batches' = WithAnchor(a)
    /\ UNCHANGED <<now, stock, items, reports, req, outdated>>

(* create_batch_route: a further batch when none of the assignment is open. *)
Running(a) == asg[a].starts <= now /\ now <= asg[a].ends

NewBatch(t, a) ==
    /\ Idle(t) /\ Running(a) /\ Len(batches) < MaxBatches
    /\ \A b \in BatchesOf(a) : ~batches[b].open
    /\ batches' = Append(batches, [asg |-> a, open |-> TRUE])
    /\ UNCHANGED <<now, stock, asg, items, reports, req, outdated>>

(* scan_into_batch: the checks, then the row with its time.                *)
InDraft(s) == \E i \in items : i.serial = s /\ batches[i.batch].open

CheckScan(t, b, s) ==
    /\ Idle(t) /\ batches[b].open /\ Running(batches[b].asg)
    /\ ~InDraft(s)
    /\ req' = [req EXCEPT ![t] = [op |-> "scan", batch |-> b, serial |-> s]]
    /\ UNCHANGED <<now, rows, outdated>>

Insert(t) ==
    /\ ~Idle(t) /\ req[t].op = "scan"
    /\ items' = items \cup {[batch |-> req[t].batch, serial |-> req[t].serial, at |-> now]}
    /\ Done(t)
    /\ UNCHANGED <<now, stock, asg, batches, reports, outdated>>

Remove(t, i) ==
    /\ Idle(t) /\ batches[i.batch].open
    /\ items' = items \ {i}
    /\ UNCHANGED <<now, stock, asg, batches, reports, req, outdated>>

(* Ghost: whether the deadline a reconciliation used is the present one.   *)
Outdate(a, ends, present) ==
    outdated' = IF ends = present THEN outdated \ {a} ELSE outdated \cup {a}

(* submit_batch of an audit.                                               *)
OpenSubmit(t, b) ==
    /\ Idle(t) /\ batches[b].open /\ \E i \in items : i.batch = b
    /\ req' = [req EXCEPT ![t] = [op |-> "submit", batch |-> b,
                                  ends |-> asg[batches[b].asg].ends]]
    /\ UNCHANGED <<now, rows, outdated>>

Submit(t) ==
    /\ ~Idle(t) /\ req[t].op = "submit"
    /\ LET b == req[t].batch  a == batches[b].asg  ends == req[t].ends
       IN /\ batches' = [batches EXCEPT ![b].open = FALSE]
          /\ reports' = Reconciled(a, b, ends, now)
          /\ Outdate(a, ends, asg[a].ends)
    /\ Done(t)
    /\ UNCHANGED <<now, stock, asg, items>>

(* extend_audit_deadline: checked against the deadline as loaded.          *)
OpenExtend(t, a, ends) ==
    /\ Idle(t) /\ ends > asg[a].ends /\ ends > now
    /\ req' = [req EXCEPT ![t] = [op |-> "extend", asg |-> a, ends |-> ends, moment |-> now]]
    /\ UNCHANGED <<now, rows, outdated>>

Extend(t) ==
    /\ ~Idle(t) /\ req[t].op = "extend"
    /\ LET a == req[t].asg  ends == req[t].ends
       IN /\ asg' = [asg EXCEPT ![a].ends = ends]
          /\ reports' = Reconciled(a, Latest(a), ends, req[t].moment)
          /\ Outdate(a, ends, ends)
    /\ Done(t)
    /\ UNCHANGED <<now, stock, batches, items>>

(* refresh_expired_audit_assignments, by every report page.                *)
DueIfTouched(a) == HasPending(a)      \* variant: without the untouched ones
Due(a)          == HasPending(a) \/ ~HasFindings(a)

OpenRefresh(t) ==
    /\ Idle(t)
    /\ LET over == {a \in Made : asg[a].ends < now}
           due  == {a \in over : Due(a)}
       IN /\ over # {}
          /\ req' = [req EXCEPT ![t] = [op |-> "refresh", moment |-> now,
                                        deadlines |-> [a \in due |-> asg[a].ends]]]
    /\ UNCHANGED <<now, rows, outdated>>

Refresh(t) ==
    /\ ~Idle(t) /\ req[t].op = "refresh"
    /\ LET ends == req[t].deadlines
           due  == DOMAIN ends
       IN /\ reports' = {r \in reports : \A a \in due : ~Superseded(r, a, Latest(a))}
                        \cup {Written(a, Latest(a), ends[a], req[t].moment) : a \in due}
          /\ outdated' = {a \in Made : IF a \in due THEN ends[a] # asg[a].ends
                                                            ELSE a \in outdated}
    /\ Done(t)
    /\ UNCHANGED <<now, stock, asg, batches, items>>

(* assignment_progress, for the page of the assignments.                   *)
ScannedIds(a) ==
    {i.serial : i \in {j \in items : /\ batches[j.batch].asg = a
                                    /\ j.at >= asg[a].starts /\ j.at <= asg[a].ends}}
Verified(a) == asg[a].expected \cap ScannedIds(a)
ExtraOf(a)  == ScannedIds(a) \ asg[a].expected

(* Sales and purchases meanwhile; time.                                    *)
Trade(s) ==
    /\ stock' = IF s \in stock THEN stock \ {s} ELSE stock \cup {s}
    /\ UNCHANGED <<now, asg, batches, items, reports, req, outdated>>

Tick ==
    /\ now < MaxTime /\ now' = now + 1
    /\ UNCHANGED <<rows, req, outdated>>

AuditorNext(t) ==
    \/ \E a \in Made : NewBatch(t, a)
    \/ \E b \in DOMAIN batches, s \in Serials : CheckScan(t, b, s)
    \/ \E b \in DOMAIN batches : OpenSubmit(t, b)
    \/ \E i \in items : Remove(t, i)
    \/ Insert(t) \/ Submit(t)

ManagerNext(t) ==
    \/ \E starts, ends \in Times : Assign(t, starts, ends)
    \/ \E a \in Made, ends \in Times : OpenExtend(t, a, ends)
    \/ OpenRefresh(t) \/ Extend(t) \/ Refresh(t)

Next ==
    \/ \E t \in Auditors : AuditorNext(t)
    \/ \E t \in Managers : ManagerNext(t)
    \/ \E s \in Serials : Trade(s)
    \/ Tick

Spec == Init /\ [][Next]_vars

-----------------------------------------------------------------------------
(* Properties.                                                             *)

Request ==
    [op : {"scan"}, batch : 1..MaxBatches, serial : Serials]
    \cup [op : {"submit"}, batch : 1..MaxBatches, ends : Times]
    \cup [op : {"extend"}, asg : Assignments, ends : Times, moment : Times]
    \cup UNION {[op : {"refresh"}, moment : Times, deadlines : [d -> Times]] :
                  d \in SUBSET Assignments}

(* Types, and each batch and each request is of an assignment that is made. *)
TypeOK ==
    /\ now \in Times /\ stock \subseteq Serials
    /\ \A a \in Made : /\ asg[a].starts \in Times /\ asg[a].ends \in Times
                       /\ asg[a].expected \subseteq Serials /\ BatchesOf(a) # {}
    /\ Len(batches) <= MaxBatches
    /\ \A b \in DOMAIN batches : batches[b].asg \in Made /\ batches[b].open \in BOOLEAN
    /\ items \subseteq Item /\ \A i \in items : i.batch \in DOMAIN batches
    /\ reports \subseteq Report
    /\ req \in [Threads -> Request \cup {None}]
    /\ outdated \subseteq Made

(* However requests overlap, the findings of an assignment are those of    *)
(* one reconciliation, and every expected serial has one: nothing is       *)
(* counted twice in a report, and nothing is left out.                     *)
OneReport ==
    /\ \A r, q \in reports : r.asg = q.asg => r = q
    /\ \A r \in reports : \A s \in asg[r.asg].expected : r.found[s] # None

(* assignment_progress, which the page of the assignments shows, and       *)
(* _summary of the findings, which the reports show, are computed apart.   *)
(* They agree about what was scanned when all batches are submitted,       *)
(* unless a request wrote findings with a deadline that was moved meanwhile. *)
FoundAs(r, f) == {s \in Serials : r.found[s] = f}

PageAgreesWithReport ==
    \A r \in reports :
        r.asg \notin outdated /\ (\A b \in BatchesOf(r.asg) : ~batches[b].open)
          => FoundAs(r, "VERIFIED") = Verified(r.asg) /\ FoundAs(r, "EXTRA") = ExtraOf(r.asg)

(* The findings are complete, of one reconciliation, and true.             *)
FindingsTrue == OneReport /\ PageAgreesWithReport

(* "Every assignment has an anchor batch so an untouched, expired          *)
(* assignment can still produce a complete missing-stock report"           *)
(* (audit.py:108): after a report page, no assignment whose window is over *)
(* has open findings or none, except one extended in between.              *)
Complete(a) == HasFindings(a) /\ ~HasPending(a)

ExpiredIsComplete ==
    [][\A t \in Managers : ~Idle(t) /\ req[t].op = "refresh" /\ req'[t] = None
         => \A a \in Made : asg[a].ends < req[t].moment => Complete(a)']_vars
=============================================================================
