------------------------------ MODULE Accounts ------------------------------
(***************************************************************************)
(* User accounts, who may manage them, and whose Tally data they see       *)
(* (routers/users.py, services/tally_access.py, access_control.py, auth.py,*)
(* the access page of routers/settings.py).                                *)
(*                                                                         *)
(* A request checks its sender and loads its target, and commits later.    *)
(* The roles of an account never change.  Foreign keys are on: a row that  *)
(* others refer to cannot be deleted, and the assignments of a user or of  *)
(* a company go with it.                                                   *)
(*                                                                         *)
(* Ghosts: `chosen` is what of the last assignment saved still exists,     *)
(* `crossed` says that a request committed whose sender had lost the right *)
(* to send it.                                                             *)
(***************************************************************************)
EXTENDS Naturals, FiniteSets

CONSTANTS
    Accounts,
    Supers,         \* those with the role super_admin
    Admins,         \* those with the role admin
    Companies,
    Threads,        \* request threads
    None

Scopes == {"company", "ledger"}       \* COMPANY_RESOURCE, LEDGER_RESOURCE
Row    == [company : Companies, scope : Scopes]
Works  == {"batch", "label"}          \* rows that refer to their user

VARIABLES
    users,      \* the rows of users
    works,      \* what refers to each account
    companies,
    access,     \* user_tally_access
    config,     \* what role_access_config grants admins on account pages
    req,        \* per thread: its request
    chosen, crossed

tables == <<users, works, companies, access, config>>
vars   == <<tables, req, chosen, crossed>>

Init ==
    /\ users = [u \in Accounts |-> IF u \in Supers THEN [active |-> TRUE, deleted |-> FALSE] ELSE None]
    /\ works = [u \in Accounts |-> {}]
    /\ companies = Companies
    /\ access = [u \in Accounts |-> {}]
    /\ config = "hidden"
    /\ req = [t \in Threads |-> None]
    /\ chosen = [u \in Accounts |-> {}]
    /\ crossed = FALSE

-----------------------------------------------------------------------------
(* current_user and require_permission; the super admin's own rights are   *)
(* not configurable (normalize_role_access_config).                        *)
ActiveOnly(u) == users[u] # None /\ users[u].active       \* variant
CanUse(u)     == users[u] # None /\ users[u].active /\ ~users[u].deleted
MayManage(u) == CanUse(u) /\ (u \in Supers \/ (u \in Admins /\ config = "edit"))
MayDelete(u) == CanUse(u) /\ u \in Supers

Open(t, u, op, target, what) ==
    /\ req[t] = None
    /\ req' = [req EXCEPT ![t] = [op |-> op, by |-> u, target |-> target,
                                  seen |-> IF op = "toggle" THEN users[target] ELSE None,
                                  what |-> what]]
    /\ UNCHANGED <<tables, chosen, crossed>>

(* "You cannot delete your own account", nor switch it off.                *)
Anybody(u, target) == users[target] # None                \* variant
Other(u, target)   == users[target] # None /\ target # u

OpenToggle(t, u, target) ==
    /\ MayManage(u) /\ Other(u, target) /\ ~users[target].deleted
    /\ Open(t, u, "toggle", target, {})
(* delete_user counts batches, stock movements, scans and the like; what   *)
(* it does not count (labels, audits, shelf checks) is left to the foreign *)
(* keys.                                                                   *)
OpenDelete(t, u, target) ==
    /\ MayDelete(u) /\ Other(u, target)
    /\ Open(t, u, "delete", target, works[target] \cap {"batch"})
(* replace_user_access keeps the companies and ledgers that exist.         *)
OpenAssign(t, u, target) ==
    /\ MayManage(u) /\ users[target] # None /\ ~users[target].deleted /\ target \notin Supers
    /\ \E scope \in Scopes : \E rows \in SUBSET [company : companies, scope : {scope}] :
         Open(t, u, "assign", target, rows)
OpenConfigure(t, u) ==
    /\ MayDelete(u)
    /\ \E value \in {"edit", "hidden"} : Open(t, u, "configure", u, {value})

-----------------------------------------------------------------------------
Close(t) ==
    /\ req' = [req EXCEPT ![t] = None]
    /\ crossed' = (crossed \/ (tables' # tables
                               /\ ~(IF req[t].op \in {"toggle", "assign"} THEN MayManage(req[t].by)
                                    ELSE MayDelete(req[t].by))))
Rollback == UNCHANGED <<tables, chosen>>

Toggle(t) ==
    /\ req[t] # None /\ req[t].op = "toggle"
    /\ LET u == req[t].target IN
       IF users[u] = None THEN Rollback
       ELSE /\ users' = [users EXCEPT ![u].active = ~req[t].seen.active]
            /\ UNCHANGED <<works, companies, access, config, chosen>>
    /\ Close(t)

Unreferenced(u) == TRUE                                   \* variant: no foreign keys
Deletable(u) == works[u] = {}
Delete(t) ==
    /\ req[t] # None /\ req[t].op = "delete"
    /\ LET u == req[t].target IN
       IF users[u] = None THEN Rollback
       ELSE IF req[t].what # {}
       THEN /\ users' = [users EXCEPT ![u] = [active |-> FALSE, deleted |-> TRUE]]
            /\ UNCHANGED <<works, companies, access, config, chosen>>
       ELSE IF ~Deletable(u) THEN Rollback
       ELSE /\ users' = [users EXCEPT ![u] = None]
            /\ access' = [access EXCEPT ![u] = {}] /\ chosen' = [chosen EXCEPT ![u] = {}]
            /\ UNCHANGED <<works, companies, config>>
    /\ Close(t)

Added(u, rows)    == access[u] \cup rows                  \* variant: the old rows stay
Replaced(u, rows) == rows
Assign(t) ==
    /\ req[t] # None /\ req[t].op = "assign"
    /\ LET u == req[t].target  rows == req[t].what IN
       IF users[u] = None \/ \E r \in rows : r.company \notin companies THEN Rollback
       ELSE /\ access' = [access EXCEPT ![u] = Replaced(u, rows)]
            /\ chosen' = [chosen EXCEPT ![u] = rows]
            /\ UNCHANGED <<users, works, companies, config>>
    /\ Close(t)

Configure(t) ==
    /\ req[t] # None /\ req[t].op = "configure"
    /\ config' \in req[t].what
    /\ UNCHANGED <<users, works, companies, access, chosen>>
    /\ Close(t)

(* create_user: the name is unique.                                        *)
Create(u) ==
    /\ users[u] = None /\ \E m \in Accounts : MayManage(m)
    /\ users' = [users EXCEPT ![u] = [active |-> TRUE, deleted |-> FALSE]]
    /\ UNCHANGED <<works, companies, access, config, req, chosen, crossed>>

(* Somebody works; a company is deleted, and its assignments with it.      *)
Work(u) ==
    /\ CanUse(u)
    /\ \E w \in Works : works' = [works EXCEPT ![u] = @ \cup {w}]
    /\ UNCHANGED <<users, companies, access, config, req, chosen, crossed>>

Without(rows, c) == {r \in rows : r.company # c}
DeleteCompany(c) ==
    /\ c \in companies /\ Cardinality(companies) > 1
    /\ companies' = companies \ {c}
    /\ access' = [u \in Accounts |-> Without(access[u], c)]
    /\ chosen' = [u \in Accounts |-> Without(chosen[u], c)]
    /\ UNCHANGED <<users, works, config, req, crossed>>

Next ==
    \/ \E t \in Threads :
         \/ \E u, target \in Accounts :
              OpenToggle(t, u, target) \/ OpenDelete(t, u, target) \/ OpenAssign(t, u, target)
         \/ \E u \in Accounts : OpenConfigure(t, u)
         \/ Toggle(t) \/ Delete(t) \/ Assign(t) \/ Configure(t)
    \/ \E u \in Accounts : Create(u) \/ Work(u)
    \/ \E c \in Companies : DeleteCompany(c)

Spec == Init /\ [][Next]_vars

-----------------------------------------------------------------------------
(* What an account sees: without an assignment of a scope, everything.     *)
Assigned(u, scope) == {r.company : r \in {x \in access[u] : x.scope = scope}}
ScopedCompanies(u) == IF u \in Supers \/ Assigned(u, "company") = {} THEN companies
                      ELSE companies \cap Assigned(u, "company")
(* Of each company there is a ledger that can be assigned, and others.     *)
Ledgers == [company : companies, ours : BOOLEAN]
FilteredLedgers(u) ==
    IF u \in Supers \/ Assigned(u, "ledger") = {} THEN Ledgers
    ELSE {l \in Ledgers : l.ours /\ l.company \in Assigned(u, "ledger")}
Visible(u) == {l \in FilteredLedgers(u) : l.company \in ScopedCompanies(u)}

-----------------------------------------------------------------------------
(* Properties.                                                             *)

(* Somebody who may manage accounts remains, whatever accounts are         *)
(* switched off and deleted and whatever the access page grants, unless    *)
(* two managers got in each other's way.                                   *)
ManagerRemains == crossed \/ \E u \in Accounts : MayManage(u)

(* An account that was deleted but stays in the records is never used      *)
(* again, also when a click that was made before switches it on.           *)
DeletedStaysOut ==
    [][\A u \in Accounts : users[u] # None /\ users[u].deleted
         => users'[u] # None /\ users'[u].deleted /\ ~CanUse(u)']_vars

(* As long as a company that was assigned to an account exists, the        *)
(* account sees what the last manager chose for it and nothing else,       *)
(* whatever was assigned before or at the same time and whatever companies *)
(* were deleted.  No assignment and no work outlives its account, and no   *)
(* assignment its company.                                                 *)
AccessAsChosen ==
    /\ \A u \in Accounts :
         /\ access[u] \subseteq [company : companies, scope : Scopes]
         /\ users[u] = None => works[u] = {} /\ access[u] = {}
    /\ \A u \in Accounts \ Supers : users[u] # None =>
           LET left(scope) == {r.company : r \in {x \in chosen[u] : x.scope = scope}} IN
           /\ left("company") # {} => ScopedCompanies(u) = left("company")
           /\ left("ledger") # {} =>
                \A l \in Visible(u) : l.ours /\ l.company \in left("ledger")
=============================================================================
