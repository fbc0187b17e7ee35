---------------------------- MODULE TradeProofs ----------------------------
(***************************************************************************)
(* Proofs about the accounts and the money side of Trade: for any number   *)
(* of accounts, companies, request threads, items, products and prices.    *)
(***************************************************************************)
EXTENDS Trade, SumProofs

-----------------------------------------------------------------------------
(* Accounts.                                                               *)

(* A request that is under way was sent by another account than the one it *)
(* switches or deletes, and a delete knows nothing of its target that has  *)
(* gone since.                                                             *)
Ops == {"toggle", "delete", "assign", "configure"}
Sent(t) ==
    request[t] # None =>
        /\ request[t].op \in Ops
        /\ request[t].by \in Accounts /\ request[t].target \in Accounts
        /\ request[t].op \in {"toggle", "delete"} => request[t].by # request[t].target
        /\ request[t].op = "toggle" => request[t].seen \in Rights
        /\ request[t].op = "delete" => request[t].what \subseteq works[request[t].target]
        /\ request[t].op = "assign" => request[t].what \subseteq A!Row

RowsOK ==
    /\ users \in [Accounts -> Rights \cup {None}]
    /\ works \in [Accounts -> SUBSET A!Works]
    /\ access \in [Accounts -> SUBSET A!Row]
    /\ companies \subseteq Companies
    /\ interfered \in BOOLEAN
    /\ DOMAIN request = Threads /\ \A t \in Threads : Sent(t)

(* An account that stays in the records does so for its work, and nothing  *)
(* is left of one that does not.                                           *)
WorkOK ==
    \A u \in Accounts :
        /\ users[u] # None /\ users[u].deleted => works[u] # {}
        /\ users[u] = None => works[u] = {} /\ access[u] = {}

(* What is stored for an account is what was chosen for it.                *)
AccessOK ==
    /\ chosen = access
    /\ \A u \in Accounts : access[u] \subseteq [company : companies, scope : A!Scopes]

People == RowsOK /\ WorkOK /\ AccessOK /\ ManagerRemains

(* A request is opened: nothing else changes.                              *)
LEMMA OpenStep ==
    ASSUME People, NEW t \in Threads, NEW u \in Accounts, NEW target \in Accounts,
           NEW op \in Ops, NEW what, A!Open(t, u, op, target, what),
           op \in {"toggle", "delete"} => u # target,
           op = "toggle" => users[target] # None,
           op = "delete" => what \subseteq works[target],
           op = "assign" => what \subseteq A!Row
    PROVE  People'
<1>1. /\ UNCHANGED <<users, works, companies, access, granted, chosen, interfered>>
      /\ request' = [request EXCEPT ![t] = [op |-> op, by |-> u, target |-> target,
                         seen |-> IF op = "toggle" THEN users[target] ELSE None, what |-> what]]
  BY DEF A!Open, A!tables
<1>2. DOMAIN request' = Threads /\ \A s \in Threads : s # t => request'[s] = request[s]
  BY <1>1 DEF People, RowsOK
<1>3. /\ request'[t].op = op /\ request'[t].by = u /\ request'[t].target = target
      /\ op = "toggle" => request'[t].seen = users[target]
      /\ request'[t].what = what
  BY <1>1 DEF People, RowsOK
<1>4. users[target] \in Rights \cup {None}
  BY DEF People, RowsOK
<1>5. Sent(t)'
  BY <1>1, <1>3, <1>4 DEF Sent
<1>6. ASSUME NEW s \in Threads, s # t PROVE Sent(s)'
  BY <1>1, <1>2, <1>6 DEF People, RowsOK, Sent
<1>7. RowsOK'
  BY <1>1, <1>2, <1>5, <1>6 DEF People, RowsOK
<1>8. WorkOK' /\ AccessOK'
  BY <1>1 DEF People, WorkOK, AccessOK
<1>9. ManagerRemains'
  BY <1>1 DEF People, ManagerRemains, A!ManagerRemains, A!MayManage, A!CanUse
<1> QED BY <1>7, <1>8, <1>9 DEF People

(* A request is over: the other ones are still as they were sent, as no    *)
(* work is ever undone.                                                    *)
LEMMA CloseStep ==
    ASSUME RowsOK, NEW t \in Threads, A!Close(t),
           \A u \in Accounts : works[u] \subseteq works'[u]
    PROVE  /\ DOMAIN request' = Threads /\ \A s \in Threads : Sent(s)'
           /\ interfered' \in BOOLEAN
<1>1. /\ request' = [request EXCEPT ![t] = None]
      /\ DOMAIN request' = Threads /\ request'[t] = None
      /\ \A s \in Threads : s # t => request'[s] = request[s]
  BY DEF A!Close, RowsOK
<1>2. ASSUME NEW s \in Threads PROVE Sent(s)'
  <2>1. CASE s = t
    BY <1>1, <2>1 DEF Sent
  <2>2. CASE s # t
    BY <1>1, <2>2 DEF RowsOK, Sent
  <2> QED BY <2>1, <2>2
<1>3. interfered' \in BOOLEAN
  BY DEF A!Close, RowsOK
<1> QED BY <1>1, <1>2, <1>3

(* Whoever sends a request that changes something, and had the right to,   *)
(* keeps the right to manage.                                              *)
LEMMA SenderRemains ==
    ASSUME ManagerRemains, interfered \in BOOLEAN,
           NEW t \in Threads, A!Close(t), request[t].by \in Accounts,
           \/ UNCHANGED A!tables
           \/ /\ users'[request[t].by] = users[request[t].by]
              /\ granted' = granted \/ request[t].op = "configure"
    PROVE  ManagerRemains'
<1>1. CASE UNCHANGED A!tables
  <2>1. interfered' = interfered
    BY <1>1 DEF A!Close, A!tables, ManagerRemains, A!ManagerRemains
  <2> QED BY <1>1, <2>1 DEF A!tables, ManagerRemains, A!ManagerRemains, A!MayManage, A!CanUse
<1>2. CASE A!tables' # A!tables
  <2>1. \/ interfered'
        \/ /\ request[t].op \in {"toggle", "assign"} => A!MayManage(request[t].by)
           /\ request[t].op \notin {"toggle", "assign"} => A!MayDelete(request[t].by)
    BY <1>2 DEF A!Close
  <2>2. CASE A!MayDelete(request[t].by)
    BY <1>2, <2>2 DEF A!tables, A!MayDelete, ManagerRemains, A!ManagerRemains, A!MayManage, A!CanUse
  <2>3. CASE A!MayManage(request[t].by) /\ request[t].op # "configure"
    BY <1>2, <2>3 DEF A!tables, ManagerRemains, A!ManagerRemains, A!MayManage, A!CanUse
  <2>4. CASE interfered'
    BY <2>4 DEF ManagerRemains, A!ManagerRemains
  <2> QED BY <2>1, <2>2, <2>3, <2>4
<1> QED BY <1>1, <1>2

LEMMA ToggleStep == ASSUME People, NEW t \in Threads, A!Toggle(t) PROVE People'
<1> DEFINE u == request[t].target
<1>1. /\ request[t] # None /\ request[t].op = "toggle" /\ A!Close(t)
      /\ u \in Accounts /\ request[t].by \in Accounts /\ request[t].by # u
      /\ request[t].seen \in Rights
  BY DEF A!Toggle, People, RowsOK, Sent
<1>2. UNCHANGED <<works, companies, access, granted, chosen>>
  BY DEF A!Toggle, A!Rollback, A!tables
<1>3. \/ UNCHANGED users
      \/ users[u] # None /\ users' = [users EXCEPT ![u].active = ~request[t].seen.active]
  BY DEF A!Toggle, A!Rollback, A!tables
<1> HIDE DEF u
<1>4. /\ users' \in [Accounts -> Rights \cup {None}]
      /\ \A v \in Accounts : v # u => users'[v] = users[v]
      /\ \A v \in Accounts : users'[v] = None <=> users[v] = None
      /\ \A v \in Accounts : users[v] # None => users'[v].deleted = users[v].deleted
  <2>1. CASE UNCHANGED users
    BY <2>1 DEF People, RowsOK
  <2>2. CASE users[u] # None /\ users' = [users EXCEPT ![u].active = ~request[t].seen.active]
    <3>1. users \in [Accounts -> Rights \cup {None}] /\ users[u] \in Rights
      BY <1>1, <2>2 DEF People, RowsOK
    <3>2. /\ [users[u] EXCEPT !.active = ~request[t].seen.active] \in Rights
          /\ [users[u] EXCEPT !.active = ~request[t].seen.active].deleted = users[u].deleted
      BY <3>1 DEF Rights
    <3>3. users' = [users EXCEPT ![u] = [users[u] EXCEPT !.active = ~request[t].seen.active]]
      BY <2>2
    <3> QED BY <1>1, <2>2, <3>1, <3>2, <3>3, PeopleAssumption
  <2> QED BY <1>3, <2>1, <2>2
<1>5. RowsOK'
  BY <1>1, <1>2, <1>4, CloseStep DEF People, RowsOK
<1>6. WorkOK' /\ AccessOK'
  BY <1>2, <1>4 DEF People, WorkOK, AccessOK
<1>7. ManagerRemains'
  BY <1>1, <1>2, <1>4, SenderRemains DEF People, RowsOK
<1> QED BY <1>5, <1>6, <1>7 DEF People

LEMMA DeleteStep == ASSUME People, NEW t \in Threads, A!Delete(t) PROVE People'
<1> DEFINE u == request[t].target
<1>1. /\ request[t] # None /\ request[t].op = "delete" /\ A!Close(t)
      /\ u \in Accounts /\ request[t].by \in Accounts /\ request[t].by # u
      /\ request[t].what \subseteq works[u]
  BY DEF A!Delete, People, RowsOK, Sent
<1>2. \/ UNCHANGED <<users, access, chosen>>
      \/ /\ users[u] # None /\ works[u] # {} /\ UNCHANGED <<access, chosen>>
         /\ users' = [users EXCEPT ![u] = [active |-> FALSE, deleted |-> TRUE]]
      \/ /\ works[u] = {} /\ users' = [users EXCEPT ![u] = None]
         /\ access' = [access EXCEPT ![u] = {}] /\ chosen' = [chosen EXCEPT ![u] = {}]
  BY <1>1 DEF A!Delete, A!Rollback, A!tables, A!Deletable
<1>3. UNCHANGED <<works, companies, granted>>
  BY DEF A!Delete, A!Rollback, A!tables
<1> HIDE DEF u
<1>4. [active |-> FALSE, deleted |-> TRUE] \in Rights
  BY DEF Rights
<1>5. /\ users' \in [Accounts -> Rights \cup {None}] /\ access' \in [Accounts -> SUBSET A!Row]
      /\ \A v \in Accounts : v # u => users'[v] = users[v]
  BY <1>1, <1>2, <1>4 DEF People, RowsOK
<1>6. RowsOK'
  BY <1>1, <1>3, <1>5, CloseStep DEF People, RowsOK
<1>7. WorkOK'
  <2>1. CASE UNCHANGED <<users, access>>
    BY <1>3, <2>1 DEF People, WorkOK
  <2>2. CASE /\ works[u] # {} /\ UNCHANGED access
             /\ users' = [users EXCEPT ![u] = [active |-> FALSE, deleted |-> TRUE]]
    BY <1>1, <1>3, <1>4, <2>2, PeopleAssumption DEF People, RowsOK, WorkOK
  <2>3. CASE /\ works[u] = {} /\ users' = [users EXCEPT ![u] = None]
             /\ access' = [access EXCEPT ![u] = {}]
    BY <1>1, <1>3, <2>3 DEF People, RowsOK, WorkOK
  <2> QED BY <1>2, <2>1, <2>2, <2>3
<1>8. AccessOK'
  BY <1>2, <1>3 DEF People, RowsOK, AccessOK
<1>9. ManagerRemains'
  BY <1>1, <1>3, <1>5, SenderRemains DEF People, RowsOK
<1> QED BY <1>6, <1>7, <1>8, <1>9 DEF People

LEMMA AssignStep == ASSUME People, NEW t \in Threads, A!Assign(t) PROVE People'
<1> DEFINE u == request[t].target
           rows == request[t].what
<1>1. /\ request[t] # None /\ request[t].op = "assign" /\ A!Close(t)
      /\ u \in Accounts /\ request[t].by \in Accounts /\ rows \subseteq A!Row
  BY DEF A!Assign, People, RowsOK, Sent
<1>2. \/ UNCHANGED <<access, chosen>>
      \/ /\ users[u] # None /\ \A r \in rows : r.company \in companies
         /\ access' = [access EXCEPT ![u] = rows] /\ chosen' = [chosen EXCEPT ![u] = rows]
  BY DEF A!Assign, A!Rollback, A!tables, A!Replaced
<1>3. UNCHANGED <<users, works, companies, granted>>
  BY DEF A!Assign, A!Rollback, A!tables
<1> HIDE DEF u, rows
<1>4. access' \in [Accounts -> SUBSET A!Row]
  BY <1>1, <1>2 DEF People, RowsOK
<1>5. RowsOK'
  BY <1>1, <1>3, <1>4, CloseStep DEF People, RowsOK
<1>6. WorkOK'
  BY <1>1, <1>2, <1>3 DEF People, RowsOK, WorkOK
<1>7. (\A r \in rows : r.company \in companies)
        => rows \subseteq [company : companies, scope : A!Scopes]
  BY <1>1 DEF A!Row
<1>8. AccessOK'
  BY <1>1, <1>2, <1>3, <1>7 DEF People, RowsOK, AccessOK
<1>9. ManagerRemains'
  BY <1>1, <1>3, SenderRemains DEF People, RowsOK
<1> QED BY <1>5, <1>6, <1>8, <1>9 DEF People

LEMMA ConfigureStep == ASSUME People, NEW t \in Threads, A!Configure(t) PROVE People'
<1>1. /\ request[t] # None /\ request[t].op = "configure" /\ A!Close(t)
      /\ request[t].by \in Accounts
  BY DEF A!Configure, People, RowsOK, Sent
<1>2. UNCHANGED <<users, works, companies, access, chosen>>
  BY DEF A!Configure
<1>3. RowsOK'
  BY <1>1, <1>2, CloseStep DEF People, RowsOK
<1>4. WorkOK' /\ AccessOK'
  BY <1>2 DEF People, WorkOK, AccessOK
<1>5. ManagerRemains'
  BY <1>1, <1>2, SenderRemains DEF People, RowsOK
<1> QED BY <1>3, <1>4, <1>5 DEF People

(* What happens without a request of this module.                          *)
LEMMA OtherStep ==
    ASSUME People, \/ \E u \in Accounts : A!Create(u) \/ A!Work(u)
                   \/ \E c \in Companies : A!DeleteCompany(c)
    PROVE  People'
<1>1. ASSUME NEW u \in Accounts, A!Create(u) PROVE People'
  <2>1. /\ users[u] = None /\ users' = [users EXCEPT ![u] = [active |-> TRUE, deleted |-> FALSE]]
        /\ UNCHANGED <<works, companies, access, granted, request, chosen, interfered>>
    BY <1>1 DEF A!Create
  <2>2. [active |-> TRUE, deleted |-> FALSE] \in Rights
    BY DEF Rights
  <2>3. RowsOK'
    BY <2>1, <2>2 DEF People, RowsOK, Sent
  <2>4. WorkOK' /\ AccessOK'
    BY <2>1, <2>2, PeopleAssumption DEF People, RowsOK, WorkOK, AccessOK
  <2>5. PICK m \in Accounts : A!MayManage(m)
    BY <1>1 DEF A!Create
  <2>6. A!MayManage(m)'
    BY <2>1, <2>5 DEF A!MayManage, A!CanUse, People, RowsOK
  <2> QED BY <2>3, <2>4, <2>6 DEF People, ManagerRemains, A!ManagerRemains
<1>2. ASSUME NEW u \in Accounts, A!Work(u) PROVE People'
  <2>1. /\ UNCHANGED <<users, companies, access, granted, request, chosen, interfered>>
        /\ users[u] # None
    BY <1>2 DEF A!Work, A!CanUse
  <2>2. PICK w \in A!Works : works' = [works EXCEPT ![u] = @ \cup {w}]
    BY <1>2 DEF A!Work
  <2>3. works' \in [Accounts -> SUBSET A!Works] /\ \A v \in Accounts : works[v] \subseteq works'[v]
    BY <2>2 DEF People, RowsOK
  <2>4. RowsOK'
    <3>1. \A t \in Threads : Sent(t)'
      BY <2>1, <2>3 DEF People, RowsOK, Sent
    <3> QED BY <2>1, <2>3, <3>1 DEF People, RowsOK
  <2>5. WorkOK' /\ AccessOK'
    BY <2>1, <2>2, <2>3 DEF People, RowsOK, WorkOK, AccessOK
  <2>6. ManagerRemains'
    BY <2>1 DEF People, ManagerRemains, A!ManagerRemains, A!MayManage, A!CanUse
  <2> QED BY <2>4, <2>5, <2>6 DEF People
<1>3. ASSUME NEW c \in Companies, A!DeleteCompany(c) PROVE People'
  <2>1. /\ UNCHANGED <<users, works, granted, request, interfered>>
        /\ companies' = companies \ {c}
        /\ access' = [u \in Accounts |-> A!Without(access[u], c)]
        /\ chosen' = [u \in Accounts |-> A!Without(chosen[u], c)]
    BY <1>3 DEF A!DeleteCompany
  <2>2. \A u \in Accounts : A!Without(access[u], c) \subseteq access[u]
    BY DEF A!Without
  <2>3. RowsOK'
    BY <2>1, <2>2 DEF People, RowsOK, Sent
  <2>4. WorkOK'
    BY <2>1, <2>2 DEF People, WorkOK
  <2>5. ASSUME NEW u \in Accounts
        PROVE  access'[u] \subseteq [company : companies', scope : A!Scopes]
    BY <2>1 DEF People, AccessOK, A!Without
  <2>6. AccessOK'
    BY <2>1, <2>5 DEF People, AccessOK
  <2>7. ManagerRemains'
    BY <2>1 DEF People, ManagerRemains, A!ManagerRemains, A!MayManage, A!CanUse
  <2> QED BY <2>3, <2>4, <2>6, <2>7 DEF People
<1> QED BY <1>1, <1>2, <1>3

LEMMA PeopleNext == ASSUME People, A!Next PROVE People'
<1>1. ASSUME NEW t \in Threads, NEW u \in Accounts, NEW target \in Accounts,
             \/ A!OpenToggle(t, u, target) \/ A!OpenDelete(t, u, target)
             \/ A!OpenAssign(t, u, target)
      PROVE  People'
  <2>1. CASE A!OpenToggle(t, u, target)
    BY <2>1, OpenStep DEF A!OpenToggle, A!Other, Ops
  <2>2. CASE A!OpenDelete(t, u, target)
    BY <2>2, OpenStep DEF A!OpenDelete, A!Other, Ops
  <2>3. CASE A!OpenAssign(t, u, target)
    <3>1. PICK scope \in A!Scopes : \E rows \in SUBSET [company : companies, scope : {scope}] :
             A!Open(t, u, "assign", target, rows)
      BY <2>3 DEF A!OpenAssign
    <3>2. PICK rows \in SUBSET [company : companies, scope : {scope}] :
             A!Open(t, u, "assign", target, rows)
      BY <3>1
    <3>3. rows \subseteq A!Row
      BY DEF A!Row, People, RowsOK
    <3> QED BY <3>2, <3>3, OpenStep DEF Ops
  <2> QED BY <1>1, <2>1, <2>2, <2>3
<1>2. ASSUME NEW t \in Threads, NEW u \in Accounts, A!OpenConfigure(t, u) PROVE People'
  <2>1. PICK value \in {"edit", "hidden"} : A!Open(t, u, "configure", u, {value})
    BY <1>2 DEF A!OpenConfigure
  <2> QED BY <2>1, OpenStep DEF Ops
<1> QED BY <1>1, <1>2, ToggleStep, DeleteStep, AssignStep, ConfigureStep, OtherStep DEF A!Next

LEMMA PeopleInit == TradeInit => People
<1> SUFFICES ASSUME TradeInit PROVE People
  OBVIOUS
<1> USE DEF TradeInit, A!Init
<1>1. [active |-> TRUE, deleted |-> FALSE] \in Rights
  BY DEF Rights
<1>2. \A u \in Accounts : /\ u \in Supers => users[u] = [active |-> TRUE, deleted |-> FALSE]
                         /\ u \notin Supers => users[u] = None
                         /\ works[u] = {} /\ access[u] = {}
  OBVIOUS
<1>3. RowsOK
  <2>1. \A t \in Threads : request[t] = None
    OBVIOUS
  <2>2. users \in [Accounts -> Rights \cup {None}]
    BY <1>1
  <2> QED BY <2>1, <2>2 DEF RowsOK, Sent
<1>4. WorkOK
  BY <1>1, <1>2, PeopleAssumption DEF WorkOK
<1>5. AccessOK
  BY <1>2 DEF AccessOK
<1>6. PICK u \in Accounts : u \in Supers
  BY PeopleAssumption
<1>7. A!MayManage(u)
  BY <1>1, <1>2, <1>6, PeopleAssumption DEF A!MayManage, A!CanUse
<1> QED BY <1>3, <1>4, <1>5, <1>7 DEF People, ManagerRemains, A!ManagerRemains

LEMMA PeopleStep == ASSUME People, [TradeNext]_every PROVE People'
<1>1. CASE UNCHANGED people
  BY <1>1 DEF people, People, RowsOK, Sent, WorkOK, AccessOK, ManagerRemains, A!ManagerRemains,
     A!MayManage, A!CanUse
<1> QED BY <1>1, PeopleNext DEF TradeNext, every

LEMMA PeopleCorrect == TradeSpec => []People
BY PeopleInit, PeopleStep, PTL DEF TradeSpec

(* Whatever accounts are created, switched off and deleted and whatever    *)
(* the access page grants (routers/users.py), somebody who may manage      *)
(* accounts remains, unless a request committed whose sender had lost the  *)
(* right to send it.                                                       *)
THEOREM ManagerRemainsCorrect == TradeSpec => []ManagerRemains
<1>1. People => ManagerRemains
  BY DEF People
<1> QED BY <1>1, PeopleCorrect, PTL

(* An account sees what was chosen for it last and no more, whatever       *)
(* assignments overlap and whatever companies are deleted                  *)
(* (replace_user_access, services/tally_access.py).                        *)
THEOREM AccessAsChosenCorrect == TradeSpec => []AccessAsChosen
<1>1. People => AccessAsChosen
  <2> SUFFICES ASSUME People PROVE A!AccessAsChosen
    BY DEF AccessAsChosen
  <2>1. ASSUME NEW u \in Accounts
        PROVE  /\ access[u] \subseteq [company : companies, scope : A!Scopes]
               /\ users[u] = None => works[u] = {} /\ access[u] = {}
    BY DEF People, AccessOK, WorkOK
  <2>2. ASSUME NEW u \in Accounts \ Supers, NEW scope \in A!Scopes
        PROVE  /\ {r.company : r \in {x \in chosen[u] : x.scope = scope}} = A!Assigned(u, scope)
               /\ A!Assigned(u, scope) \subseteq companies
    <3>1. \A r \in access[u] : r.company \in companies
      BY <2>1
    <3> QED BY <3>1 DEF People, AccessOK, A!Assigned
  <2>3. ASSUME NEW u \in Accounts \ Supers, A!Assigned(u, "company") # {}
        PROVE  A!ScopedCompanies(u) = A!Assigned(u, "company")
    BY <2>2, <2>3 DEF A!ScopedCompanies, A!Scopes
  <2>4. ASSUME NEW u \in Accounts \ Supers, A!Assigned(u, "ledger") # {},
               NEW l \in A!Visible(u)
        PROVE  l.ours /\ l.company \in A!Assigned(u, "ledger")
    BY <2>4 DEF A!Visible, A!FilteredLedgers
  <2> QED BY <2>1, <2>2, <2>3, <2>4 DEF A!AccessAsChosen, A!Scopes
<1> QED BY <1>1, PeopleCorrect, PTL

(* An account that was deleted but stays in the records is never used      *)
(* again, also when a click that was made before switches it on            *)
(* (delete_user, current_user).                                            *)
THEOREM DeletedStaysOutCorrect == TradeSpec => DeletedStaysOut
<1> DEFINE Out == \A u \in Accounts : users[u] # None /\ users[u].deleted
                    => users'[u] # None /\ users'[u].deleted /\ ~A!CanUse(u)'
<1>1. ASSUME People, [TradeNext]_every PROVE [Out]_(A!vars)
  <2>1. CASE UNCHANGED people
    BY <2>1 DEF people, A!vars, A!tables
  <2>2. CASE A!Next
    <3> SUFFICES ASSUME NEW u \in Accounts, users[u] # None, users[u].deleted
                 PROVE  users'[u] # None /\ users'[u].deleted
      BY DEF A!CanUse
    <3>1. users[u] \in Rights /\ works[u] # {}
      BY <1>1 DEF People, RowsOK, WorkOK
    <3>2. users \in [Accounts -> Rights \cup {None}]
      BY <1>1 DEF People, RowsOK
    <3>3. ASSUME NEW t \in Threads, A!Toggle(t) PROVE users'[u] # None /\ users'[u].deleted
      <4>1. CASE UNCHANGED users
        BY <4>1
      <4>2. CASE users' = [users EXCEPT ![request[t].target].active = ~request[t].seen.active]
        <5>1. \/ users'[u] = users[u]
              \/ users'[u] = [users[u] EXCEPT !.active = ~request[t].seen.active]
          BY <3>2, <4>2
        <5>2. /\ [users[u] EXCEPT !.active = ~request[t].seen.active] \in Rights
              /\ [users[u] EXCEPT !.active = ~request[t].seen.active].deleted
          BY <3>1 DEF Rights
        <5> QED BY <5>1, <5>2, PeopleAssumption
      <4> QED BY <3>3, <4>1, <4>2 DEF A!Toggle, A!Rollback, A!tables
    <3>4. ASSUME NEW t \in Threads, A!Delete(t) PROVE users'[u] # None /\ users'[u].deleted
      <4>1. CASE UNCHANGED users
        BY <4>1
      <4>2. CASE users' = [users EXCEPT ![request[t].target] = [active |-> FALSE, deleted |-> TRUE]]
        <5>1. [active |-> FALSE, deleted |-> TRUE] \in Rights
          BY DEF Rights
        <5> QED BY <3>2, <4>2, <5>1, PeopleAssumption
      <4>3. CASE /\ users' = [users EXCEPT ![request[t].target] = None]
                 /\ works[request[t].target] = {}
        BY <3>1, <3>2, <4>3
      <4> QED BY <3>4, <4>1, <4>2, <4>3 DEF A!Delete, A!Rollback, A!tables, A!Deletable
    <3>5. ASSUME NEW v \in Accounts, A!Create(v) PROVE users'[u] = users[u]
      BY <3>2, <3>5 DEF A!Create
    <3>6. CASE UNCHANGED users
      BY <3>6
    <3> QED BY <2>2, <3>3, <3>4, <3>5, <3>6 DEF A!Next, A!OpenToggle, A!OpenDelete, A!OpenAssign,
               A!OpenConfigure, A!Open, A!tables, A!Assign, A!Configure, A!Rollback, A!Work,
               A!DeleteCompany
  <2> QED BY <1>1, <2>1, <2>2 DEF TradeNext, every
<1> QED BY <1>1, PeopleCorrect, PTL DEF TradeSpec, DeletedStaysOut, A!DeletedStaysOut
-----------------------------------------------------------------------------
(* Money.                                                                  *)

Amount == Nat \cup {None}

(* What a request has read of an item it will not write is still so,       *)
(* unless another request has written it since; and no rate goes away.     *)
Read(c) ==
    open[c] # None =>
        /\ open[c].of \subseteq Items /\ open[c].new \in Amount
        /\ open[c].new = None => open[c].of = Items /\ open[c].at \in [Products -> Pricings]
        /\ \A i \in open[c].of : open[c].seen[i] # None => rate[i] # None
        /\ open[c].new # None \/ paid = "DRAFT" =>
              \A i \in V!Blind(c) \ crossed : rate[i] = open[c].seen[i]

MoneyOK ==
    /\ deal \in Deals /\ product \in [Products -> Pricings] /\ paid \in {"DRAFT", "SUBMITTED"}
    /\ rate \in [Items -> Amount] /\ crossed \subseteq Items
    /\ DOMAIN open = Threads /\ \A c \in Threads : Read(c)

Money == MoneyOK /\ TypedRateKept

(* A request has read an item as it is.                                    *)
LEMMA ReadStep ==
    ASSUME Money, NEW c \in Threads, NEW S \in SUBSET Items, NEW new \in Amount, NEW mine,
           mine.of = S, mine.new = new, \A i \in S : mine.seen[i] = rate[i],
           new = None => S = Items /\ mine.at \in [Products -> Pricings],
           open' = [open EXCEPT ![c] = mine],
           UNCHANGED <<deal, paid, product, rate, typed, crossed, edits>>
    PROVE  Money'
<1>1. /\ DOMAIN open' = Threads /\ open'[c] = mine
      /\ \A d \in Threads : d # c => open'[d] = open[d]
  BY DEF Money, MoneyOK
<1>2. Read(c)'
  BY <1>1 DEF Read, V!Blind
<1>3. ASSUME NEW d \in Threads, d # c PROVE Read(d)'
  BY <1>1, <1>3 DEF Money, MoneyOK, Read, V!Blind
<1>4. MoneyOK'
  BY <1>1, <1>2, <1>3 DEF Money, MoneyOK
<1>5. TypedRateKept'
  BY DEF Money, TypedRateKept, V!TypedRateKept
<1> QED BY <1>4, <1>5 DEF Money

LEMMA OpenRateStep ==
    ASSUME Money, NEW c \in Threads, NEW S \in SUBSET Items, NEW r \in Rates, V!OpenRate(c, S, r)
    PROVE  Money'
<1> DEFINE mine == [of |-> S, new |-> r, seen |-> [i \in S |-> rate[i]]]
<1>1. open' = [open EXCEPT ![c] = mine]
  BY DEF V!OpenRate
<1>2. mine.of = S /\ mine.new = r /\ \A i \in S : mine.seen[i] = rate[i]
  OBVIOUS
<1>3. r \in Amount /\ r # None
  BY MoneyAssumption DEF Amount
<1>4. UNCHANGED <<deal, paid, product, rate, typed, crossed, edits>>
  BY DEF V!OpenRate
<1> HIDE DEF mine
<1> QED BY <1>1, <1>2, <1>3, <1>4, ReadStep

LEMMA OpenSubmitStep ==
    ASSUME Money, NEW c \in Threads, V!OpenSubmit(c)
    PROVE  Money'
<1> DEFINE mine == [of |-> Items, new |-> None, seen |-> rate, at |-> product]
<1>1. open' = [open EXCEPT ![c] = mine]
  BY DEF V!OpenSubmit
<1>2. /\ mine.of = Items /\ mine.new = None /\ \A i \in Items : mine.seen[i] = rate[i]
      /\ mine.at = product
  OBVIOUS
<1>3. None \in Amount /\ product \in [Products -> Pricings] /\ Items \in SUBSET Items
  BY DEF Amount, Money, MoneyOK
<1>4. UNCHANGED <<deal, paid, product, rate, typed, crossed, edits>>
  BY DEF V!OpenSubmit
<1> HIDE DEF mine
<1> QED BY <1>1, <1>2, <1>3, <1>4, ReadStep

LEMMA SetRateStep ==
    ASSUME Money, NEW c \in Threads, V!SetRate(c)
    PROVE  Money'
<1> DEFINE new == open[c].new
           S == open[c].of
<1>1. /\ open[c] # None /\ new # None /\ new \in Amount /\ S \subseteq Items
      /\ \A i \in V!Blind(c) \ crossed : rate[i] = open[c].seen[i]
  BY DEF V!SetRate, Money, MoneyOK, Read
<1>2. /\ rate' = [i \in Items |-> IF i \in S /\ open[c].seen[i] # new THEN new ELSE rate[i]]
      /\ typed' = [i \in Items |-> IF i \in S THEN new ELSE typed[i]]
      /\ crossed' = crossed \cup (S \cap UNION {V!Blind(d) : d \in Threads \ {c}})
      /\ open' = [open EXCEPT ![c] = None] /\ UNCHANGED <<deal, paid, product>>
  BY DEF V!SetRate, V!Written
<1>3. \A i \in S : open[c].seen[i] = new => i \in V!Blind(c)
  BY <1>1 DEF V!Blind
<1>4. rate' \in [Items -> Amount] /\ crossed' \subseteq Items
  BY <1>1, <1>2 DEF Money, MoneyOK
<1>5. \A i \in Items : rate[i] # None => rate'[i] # None
  BY <1>1, <1>2
<1>6. DOMAIN open' = Threads /\ open'[c] = None /\ \A d \in Threads : d # c => open'[d] = open[d]
  BY <1>2 DEF Money, MoneyOK
<1>7. ASSUME NEW d \in Threads, d # c, open[d] # None PROVE Read(d)'
  <2>1. /\ open'[d] = open[d] /\ V!Blind(d)' = V!Blind(d) /\ V!Blind(d) \subseteq Items
        /\ Read(d)
    BY <1>6, <1>7 DEF V!Blind, Money, MoneyOK, Read
  <2>2. \A i \in V!Blind(d) \ crossed' : i \notin crossed /\ i \notin S
    BY <1>2, <1>7
  <2>3. \A i \in V!Blind(d) \ crossed' : rate'[i] = rate[i]
    BY <1>2, <2>1, <2>2
  <2> QED BY <1>2, <1>5, <1>7, <2>1, <2>2, <2>3 DEF Read
<1>8. \A d \in Threads : Read(d)'
  BY <1>6, <1>7 DEF Read
<1>9. MoneyOK'
  BY <1>2, <1>4, <1>6, <1>8 DEF Money, MoneyOK
<1>10. ASSUME NEW i \in Items \ crossed', typed'[i] # None PROVE rate'[i] = typed'[i]
  <2>1. i \notin crossed
    BY <1>2, <1>10
  <2>2. CASE i \in S
    BY <1>1, <1>2, <1>3, <2>1, <2>2
  <2>3. CASE i \notin S
    BY <1>2, <1>10, <2>1, <2>3 DEF Money, TypedRateKept, V!TypedRateKept
  <2> QED BY <2>2, <2>3
<1>11. TypedRateKept'
  BY <1>2, <1>5, <1>10 DEF Money, TypedRateKept, V!TypedRateKept
<1> QED BY <1>9, <1>11 DEF Money

LEMMA SubmitStep ==
    ASSUME Money, NEW c \in Threads, V!Submit(c)
    PROVE  Money'
<1>1. /\ open[c] # None /\ open[c].new = None /\ open[c].of = Items
      /\ open[c].at \in [Products -> Pricings]
      /\ open' = [open EXCEPT ![c] = None] /\ UNCHANGED <<deal, product, typed, crossed>>
  BY DEF V!Submit, Money, MoneyOK, Read
<1>2. DOMAIN open' = Threads /\ open'[c] = None /\ \A d \in Threads : d # c => open'[d] = open[d]
  BY <1>1 DEF Money, MoneyOK
<1>3. CASE UNCHANGED <<paid, rate>>
  <2>1. \A d \in Threads : Read(d)'
    BY <1>1, <1>2, <1>3 DEF Money, MoneyOK, Read, V!Blind
  <2>2. MoneyOK'
    BY <1>1, <1>2, <1>3, <2>1 DEF Money, MoneyOK
  <2>3. TypedRateKept'
    BY <1>1, <1>3 DEF Money, TypedRateKept, V!TypedRateKept
  <2> QED BY <2>2, <2>3 DEF Money
<1>4. CASE /\ paid = "DRAFT" /\ paid' = "SUBMITTED"
           /\ rate' = [i \in Items |-> IF open[c].seen[i] = None
                                       THEN open[c].at[deal.of[i]].default ELSE rate[i]]
  <2>1. ASSUME NEW i \in Items PROVE open[c].at[deal.of[i]].default \in Nat
    <3>1. deal.of[i] \in Products
      BY MoneyAssumption DEF Money, MoneyOK
    <3>2. open[c].at[deal.of[i]] \in Pricings
      BY <1>1, <3>1
    <3>3. \A p \in Pricings : p.default \in Nat
      BY DEF Pricings
    <3> QED BY <3>2, <3>3
  <2>2. rate' \in [Items -> Amount]
    BY <1>4, <2>1 DEF Money, MoneyOK, Amount
  <2>3. \A i \in Items : rate'[i] # None
    BY <1>1, <1>4, <2>1, MoneyAssumption DEF Money, MoneyOK, Read
(* An item that was read without a rate, and was not crossed, has none.    *)
  <2>4. \A i \in Items \ crossed : open[c].seen[i] = None => rate[i] = None
    <3>1. \A i \in Items \ crossed : open[c].seen[i] = None => i \in V!Blind(c) \ crossed
      BY <1>1 DEF V!Blind
    <3>2. \A i \in V!Blind(c) \ crossed : rate[i] = open[c].seen[i]
      BY <1>1, <1>4 DEF Money, MoneyOK, Read
    <3> QED BY <3>1, <3>2
  <2>5. \A i \in Items \ crossed : rate[i] # None => rate'[i] = rate[i]
    BY <1>4, <2>4
  <2>6. ASSUME NEW d \in Threads, d # c, open[d] # None PROVE Read(d)'
    <3>1. open'[d] = open[d] /\ V!Blind(d)' = V!Blind(d) /\ V!Blind(d) \subseteq open[d].of /\ Read(d)
      BY <1>2, <2>6 DEF V!Blind, Money, MoneyOK
    <3>2. open[d].of \subseteq Items
      BY <2>6, <3>1 DEF Read
    <3>3. ASSUME open[d].new # None, NEW i \in V!Blind(d) \ crossed
          PROVE  rate'[i] = open[d].seen[i]
      <4>1. rate[i] = open[d].seen[i] /\ open[d].seen[i] = open[d].new
        BY <2>6, <3>1, <3>3 DEF Read, V!Blind
      <4> QED BY <2>5, <3>1, <3>2, <3>3, <4>1
    <3> QED BY <1>1, <1>4, <2>3, <2>6, <3>1, <3>2, <3>3 DEF Read
  <2>7. \A d \in Threads : Read(d)'
    BY <1>2, <2>6 DEF Read
  <2>8. MoneyOK'
    BY <1>1, <1>2, <1>4, <2>2, <2>7 DEF Money, MoneyOK
  <2>9. TypedRateKept'
    BY <1>1, <2>3, <2>5 DEF Money, TypedRateKept, V!TypedRateKept
  <2> QED BY <2>8, <2>9 DEF Money
<1> QED BY <1>3, <1>4 DEF V!Submit, V!Filled
LEMMA MoneyNext == ASSUME Money, V!Next PROVE Money'
<1>1. ASSUME NEW c \in Threads, NEW i \in Items, NEW r \in Rates, V!OpenRate(c, {i}, r)
      PROVE  Money'
  BY <1>1, OpenRateStep
<1>2. ASSUME NEW c \in Threads, NEW p \in Products, NEW r \in Rates,
             V!OpenRate(c, {i \in Items : deal.of[i] = p}, r)
      PROVE  Money'
  <2>1. {i \in Items : deal.of[i] = p} \in SUBSET Items
    OBVIOUS
  <2> QED BY <1>2, <2>1, OpenRateStep
<1>3. ASSUME NEW p \in Products, NEW k \in Catalogues, V!EditPricing(p, k[p]) PROVE Money'
  <2>1. /\ product' = [product EXCEPT ![p] = k[p]]
        /\ UNCHANGED <<deal, paid, rate, open, typed, crossed>>
    BY <1>3 DEF V!EditPricing
  <2>2. k[p] \in Pricings
    BY MoneyAssumption
  <2>3. product' \in [Products -> Pricings]
    BY <2>1, <2>2 DEF Money, MoneyOK
  <2>4. MoneyOK'
    BY <2>1, <2>3 DEF Money, MoneyOK, Read, V!Blind
  <2>5. TypedRateKept'
    BY <2>1 DEF Money, TypedRateKept, V!TypedRateKept
  <2> QED BY <2>4, <2>5 DEF Money
<1> QED BY <1>1, <1>2, <1>3, SetRateStep, OpenSubmitStep, SubmitStep DEF V!Next

LEMMA MoneyInit == TradeInit => Money
<1> SUFFICES ASSUME TradeInit PROVE Money
  OBVIOUS
<1> USE DEF TradeInit, V!Init
<1>1. product \in [Products -> Pricings]
  BY MoneyAssumption
<1>2. \A c \in Threads : open[c] = None
  OBVIOUS
<1>3. MoneyOK
  BY <1>1, <1>2 DEF MoneyOK, Read, Amount
<1>4. TypedRateKept
  BY DEF TypedRateKept, V!TypedRateKept
<1> QED BY <1>3, <1>4 DEF Money

LEMMA MoneyStep == ASSUME Money, [TradeNext]_every PROVE Money'
<1>1. CASE UNCHANGED money
  BY <1>1 DEF money, Money, MoneyOK, Read, V!Blind, TypedRateKept, V!TypedRateKept
<1> QED BY <1>1, MoneyNext DEF TradeNext, every

LEMMA MoneyCorrect == TradeSpec => []Money
BY MoneyInit, MoneyStep, PTL DEF TradeSpec

(* A rate that a clerk typed is the rate of the item, whatever requests    *)
(* overlap (update_batch_item_rate, update_product_rate_in_batch,          *)
(* submit_batch), unless another one about that item was under way; and    *)
(* every submitted item has a rate.                                        *)
THEOREM TypedRateKeptCorrect == TradeSpec => []TypedRateKept
<1>1. Money => TypedRateKept
  BY DEF Money
<1> QED BY <1>1, MoneyCorrect, PTL

(* After the submit no edit of a product changes what an item is charged   *)
(* at, unless a zero is its rate (inventory.py:348).                       *)
THEOREM ValuationKeptCorrect == TradeSpec => ValuationKept
<1> DEFINE Kept == paid = "SUBMITTED" =>
             \A i \in Items : rate[i] # 0 /\ rate'[i] = rate[i] => V!Charged(i)' = V!Charged(i)
<1>1. ASSUME Money PROVE [Kept]_(V!vars)
  <2> SUFFICES ASSUME paid = "SUBMITTED", NEW i \in Items, rate[i] # 0, rate'[i] = rate[i]
               PROVE  V!Charged(i)' = V!Charged(i)
    OBVIOUS
  <2>1. rate[i] # None
    BY <1>1 DEF Money, TypedRateKept, V!TypedRateKept
  <2> QED BY <2>1 DEF V!Charged, V!ChargedFor
<1> QED BY <1>1, MoneyCorrect, PTL DEF ValuationKept, V!ValuationKept

-----------------------------------------------------------------------------
(* Totals.                                                                 *)
LEMMA VSum == \A f : V!SumFunction(f) = SumFunctionOnSet(f, DOMAIN f)
BY DEF V!SumFunction, V!SumFunctionOnSet, V!FoldFunctionOnSet, V!MapThenFoldSet,
       SumFunctionOnSet, FoldFunctionOnSet, MapThenFoldSet

LEMMA VCount == \A S : V!Cardinality(S) = Cardinality(S)
BY DEF V!Cardinality, Cardinality

LEMMA TotalIs ==
    ASSUME NEW of, NEW S
    PROVE  V!Total(of, S) = SumFunctionOnSet([l \in S |-> l[of]], S)
<1> DEFINE f == [l \in S |-> l[of]]
<1>1. V!SumFunction(f) = SumFunctionOnSet(f, DOMAIN f)
  BY VSum
<1> QED BY <1>1 DEF V!Total

LEMMA TotalNat ==
    ASSUME NEW of, NEW S, IsFiniteSet(S), \A l \in S : l[of] \in Nat
    PROVE  /\ V!Total(of, S) \in Nat
           /\ V!Total(of, S) = 0 => \A l \in S : l[of] = 0
<1> DEFINE f == [l \in S |-> l[of]]
<1>1. \A l \in S : f[l] \in Nat /\ f[l] = l[of]
  OBVIOUS
<1>2. V!Total(of, S) = SumFunctionOnSet(f, S)
  BY TotalIs
<1> HIDE DEF f
<1>3. SumFunctionOnSet(f, S) \in Nat /\ \A l \in S : f[l] <= SumFunctionOnSet(f, S)
  BY <1>1, SumIsNat
<1>4. ASSUME V!Total(of, S) = 0, NEW l \in S PROVE l[of] = 0
  <2>1. f[l] <= 0 /\ f[l] \in Nat /\ f[l] = l[of]
    BY <1>1, <1>2, <1>3, <1>4
  <2> QED BY <2>1
<1> QED BY <1>2, <1>3, <1>4

LEMMA TotalInt ==
    ASSUME NEW of, NEW S, IsFiniteSet(S), \A l \in S : l[of] \in Int
    PROVE  V!Total(of, S) \in Int
<1> DEFINE f == [l \in S |-> l[of]]
<1>1. \A l \in S : f[l] \in Int
  OBVIOUS
<1>2. V!Total(of, S) = SumFunctionOnSet(f, S)
  BY TotalIs
<1> HIDE DEF f
<1> QED BY <1>1, <1>2, SumIsInt

LEMMA TotalZero ==
    ASSUME NEW of, NEW S, IsFiniteSet(S), \A l \in S : l[of] = 0
    PROVE  V!Total(of, S) = 0
<1> DEFINE f == [l \in S |-> l[of]]
<1>1. \A l \in S : f[l] = 0
  OBVIOUS
<1>2. V!Total(of, S) = SumFunctionOnSet(f, S)
  BY TotalIs
<1> HIDE DEF f
<1> QED BY <1>1, <1>2, SumOfZeros

LEMMA TotalNone == \A of : V!Total(of, {}) = 0
BY TotalZero, FS_EmptySet

LEMMA TotalOne ==
    ASSUME NEW of, NEW x, x[of] \in Int
    PROVE  V!Total(of, {x}) = x[of]
<1> DEFINE f == [l \in {x} |-> l[of]]
<1>1. IsFiniteSet({x}) /\ {x} \ {x} = {} /\ f[x] = x[of] /\ \A l \in {x} : f[l] \in Int
  BY FS_Singleton
<1>2. V!Total(of, {x}) = SumFunctionOnSet(f, {x})
  BY TotalIs
<1> HIDE DEF f
<1>3. SumFunctionOnSet(f, {x}) = f[x] + SumFunctionOnSet(f, {x} \ {x})
  BY <1>1, SumTakesOut
<1>4. SumFunctionOnSet(f, {}) = 0
  BY SumOfNone
<1>5. SumFunctionOnSet(f, {x}) = f[x] + 0
  BY <1>1, <1>3, <1>4
<1>6. f[x] \in Int /\ f[x] = x[of]
  BY <1>1
<1> QED BY <1>2, <1>5, <1>6

LEMMA TotalTwo ==
    ASSUME NEW of, NEW C, NEW D, IsFiniteSet(C), IsFiniteSet(D), C \cap D = {},
           \A l \in C \cup D : l[of] \in Int
    PROVE  V!Total(of, C \cup D) = V!Total(of, C) + V!Total(of, D)
<1> DEFINE f == [l \in C \cup D |-> l[of]]
           c == [l \in C |-> l[of]]
           d == [l \in D |-> l[of]]
<1>1. /\ \A l \in C \cup D : f[l] \in Int
      /\ \A l \in C : f[l] = c[l]
      /\ \A l \in D : f[l] = d[l]
  OBVIOUS
<1>2. V!Total(of, C \cup D) = SumFunctionOnSet(f, C \cup D)
  BY TotalIs
<1>3. V!Total(of, C) = SumFunctionOnSet(c, C) /\ V!Total(of, D) = SumFunctionOnSet(d, D)
  BY TotalIs
<1> HIDE DEF f, c, d
<1>4. SumFunctionOnSet(f, C) = SumFunctionOnSet(c, C)
  BY <1>1, SumSame
<1>5. SumFunctionOnSet(f, D) = SumFunctionOnSet(d, D)
  BY <1>1, SumSame
<1>6. SumFunctionOnSet(f, C \cup D) = SumFunctionOnSet(f, C) + SumFunctionOnSet(f, D)
  BY <1>1, SumOfTwo
<1> QED BY <1>2, <1>3, <1>4, <1>5, <1>6

LEMMA TotalNamed ==
    ASSUME NEW of, NEW S, IsFiniteSet(S), NEW m, \A x, y \in S : m[x] = m[y] => x = y,
           NEW f, \A x \in S : f[x] \in Int /\ m[x][of] = f[x]
    PROVE  V!Total(of, {m[x] : x \in S}) = SumFunctionOnSet(f, S)
<1> DEFINE T == {m[x] : x \in S}
           g == [l \in T |-> l[of]]
<1>1. \A x \in S : f[x] \in Int /\ g[m[x]] = f[x]
  OBVIOUS
<1>2. V!Total(of, T) = SumFunctionOnSet(g, T)
  BY TotalIs
<1>3. SumFunctionOnSet(g, T) = SumFunctionOnSet(f, S)
  <2> HIDE DEF g
  <2> QED BY <1>1, SumNamed
<1> QED BY <1>2, <1>3

-----------------------------------------------------------------------------
(* The lines of a voucher.                                                 *)
Line == [of : Products \X Nat, gst : Nat, amount : Nat, taxable : Nat,
         cgst : Nat, sgst : Nat, igst : Nat]

(* ROUND_HALF_UP is off by at most a half.                                 *)
LEMMA HalfUpIs ==
    ASSUME NEW n \in Nat, NEW d \in Nat, d > 0
    PROVE  /\ V!HalfUp(n, d) \in Nat
           /\ \E t \in Nat : /\ t = V!HalfUp(n, d) * d
                             /\ 2 * t - d <= 2 * n /\ 2 * n < 2 * t + d
<1> DEFINE h == V!HalfUp(n, d)
           a == 2 * n + d
           b == 2 * d
           m == a % b
<1>1. a \in Nat /\ b \in Nat /\ b > 0 /\ h = a \div b
  BY DEF V!HalfUp
<1>2. \A x, y \in Nat : y > 0 => x = y * (x \div y) + (x % y) /\ x % y \in 0..(y - 1)
                                 /\ x \div y \in Nat
  OBVIOUS
<1>3. h \in Nat /\ m \in 0..(b - 1) /\ a = b * h + m
  <2> HIDE DEF a, b
  <2> QED BY <1>1, <1>2
<1> HIDE DEF h, m
<1>4. h * d \in Nat /\ b * h = 2 * (h * d)
  BY <1>3
<1>5. PICK t \in Nat : t = h * d
  BY <1>4
<1>6. 2 * n + d = 2 * t + m /\ m < 2 * d
  BY <1>3, <1>4, <1>5
<1>7. 2 * t - d <= 2 * n /\ 2 * n < 2 * t + d
  BY <1>3, <1>6
<1> QED BY <1>3, <1>5, <1>7 DEF h

LEMMA DiscountIsLess ==
    ASSUME NEW gross \in Nat, NEW d \in Nat, d <= 10000
    PROVE  V!TaxOf(gross, d) \in Nat /\ V!TaxOf(gross, d) <= gross
<1> DEFINE c == gross * d
<1>1. c \in Nat /\ c <= 10000 * gross
  <2>1. gross * d \in Nat /\ gross * (10000 - d) \in Nat
    OBVIOUS
  <2>2. gross * d + gross * (10000 - d) = 10000 * gross
    OBVIOUS
  <2> QED BY <2>1, <2>2
<1>2. V!TaxOf(gross, d) = (2 * c + 10000) \div 20000
  BY DEF V!TaxOf, V!HalfUp
<1> HIDE DEF c
<1> QED BY <1>1, <1>2

(* The forms of the product page: a discount is at most 100 %.             *)
LEMMA PricingTyped ==
    ASSUME NEW x \in Pricings
    PROVE  x.default \in Nat /\ x.gst \in Nat /\ x.discount \in Nat /\ x.discount <= 10000
<1> DEFINE d == x.discount
<1>1. x.default \in Nat /\ x.gst \in Nat /\ d \in 0..10000
  BY DEF Pricings
<1>2. d \in Nat /\ d <= 10000
  <2> HIDE DEF d
  <2> QED BY <1>1
<1> QED BY <1>1, <1>2 DEF d

LEMMA LineTyped ==
    ASSUME MoneyOK, NEW i \in Items
    PROVE  V!Line(V!Group(i)) \in Line /\ V!Line(V!Group(i)).of = V!Group(i)
<1> DEFINE g == V!Group(i)
           goods == product[g[1]]
           count == V!Cardinality({j \in Items : V!Group(j) = g})
           gross == V!ChargedFor(g[2], goods.default) * count
           amount == gross - (IF V!SalesSide THEN V!TaxOf(gross, goods.discount) ELSE 0)
           gst == V!GstOf(goods)
           taxable == V!TaxableOf(amount, gst)
           half == IF V!Inter THEN 0 ELSE V!TaxOf(taxable, V!HalfUp(gst, 2))
           whole == IF V!Inter THEN V!TaxOf(taxable, gst) ELSE 0
<1>1. /\ deal.of[i] \in Products /\ product[deal.of[i]] \in Pricings
      /\ {deal.cgst, deal.sgst, deal.igst} \subseteq Nat \cup {None}
      /\ rate[i] \in Nat \cup {None} /\ None \notin Nat
  BY MoneyAssumption DEF MoneyOK, Amount
<1>2. g \in Products \X Nat /\ g[1] = deal.of[i] /\ g[2] \in Nat
  <2>1. product[deal.of[i]].default \in Nat
    <3>1. \A x \in Pricings : x.default \in Nat
      BY DEF Pricings
    <3> QED BY <1>1, <3>1
  <2>2. V!Or(rate[i], product[deal.of[i]].default) \in Nat
    BY <1>1, <2>1 DEF V!Or
  <2> QED BY <1>1, <2>2 DEF V!Group
<1>3. /\ goods.default \in Nat /\ goods.gst \in Nat
      /\ goods.discount \in Nat /\ goods.discount <= 10000
  <2> HIDE DEF g
  <2>1. goods \in Pricings
    BY <1>1, <1>2
  <2> HIDE DEF goods
  <2> QED BY <2>1, PricingTyped
<1>4. count \in Nat
  <2>1. IsFiniteSet({j \in Items : V!Group(j) = g})
    BY MoneyAssumption, FS_Subset
  <2> QED BY <2>1, VCount, FS_CardinalityType
<1>5. gst \in Nat
  <2>1. \A x \in {deal.cgst, deal.sgst, deal.igst}, y \in Nat : V!Or(x, y) \in Nat
    BY <1>1 DEF V!Or
  <2>2. /\ V!Or(deal.igst, goods.gst) \in Nat /\ V!Or(deal.cgst, 0) \in Nat
        /\ V!Or(deal.sgst, 0) \in Nat
    <3> HIDE DEF goods
    <3>1. 0 \in Nat
      OBVIOUS
    <3> QED BY <1>3, <2>1, <3>1
  <2> HIDE DEF goods
  <2> QED BY <1>3, <2>2 DEF V!GstOf
<1>6. V!Line(g) = [of |-> g, gst |-> gst, amount |-> amount, taxable |-> taxable,
                   cgst |-> half, sgst |-> half, igst |-> whole]
  BY DEF V!Line
<1> HIDE DEF g, goods, count
<1>7. gross \in Nat
  <2>1. V!ChargedFor(g[2], goods.default) \in Nat
    BY <1>2, <1>3 DEF V!ChargedFor
  <2> QED BY <1>4, <2>1
<1> HIDE DEF gross
<1>8. amount \in Nat
  <2>1. V!TaxOf(gross, goods.discount) \in Nat /\ V!TaxOf(gross, goods.discount) <= gross
    <3> HIDE DEF goods
    <3>1. \A x, d \in Nat : d <= 10000 => V!TaxOf(x, d) \in Nat /\ V!TaxOf(x, d) <= x
      BY DiscountIsLess
    <3> DEFINE d == goods.discount
    <3>2. d \in Nat /\ d <= 10000
      BY <1>3
    <3> HIDE DEF d
    <3>3. V!TaxOf(gross, d) \in Nat /\ V!TaxOf(gross, d) <= gross
      BY <1>7, <3>1, <3>2
    <3> QED BY <3>3 DEF d
  <2> QED BY <1>7, <2>1
<1> HIDE DEF amount, gst
<1>9. taxable \in Nat
  BY <1>5, <1>8, HalfUpIs DEF V!TaxableOf
<1> HIDE DEF taxable
<1>10. half \in Nat /\ whole \in Nat
  <2>1. V!HalfUp(gst, 2) \in Nat
    BY <1>5, HalfUpIs
  <2>2. \A x \in Nat : taxable * x \in Nat
    BY <1>9
  <2>3. \A x \in Nat : V!TaxOf(taxable, x) \in Nat
    BY <2>2, HalfUpIs DEF V!TaxOf
  <2> QED BY <1>5, <2>1, <2>3
<1> HIDE DEF half, whole
<1> QED BY <1>2, <1>5, <1>6, <1>8, <1>9, <1>10 DEF Line, g

(* Each line is of its own goods and rate, and has the taxes of the state  *)
(* or those of the union.                                                  *)
LinesOK(lines) ==
    /\ IsFiniteSet(lines) /\ lines \subseteq Line
    /\ \A l, m \in lines : l.of = m.of => l = m
    /\ \A l \in lines : IF V!Inter THEN l.cgst = 0 /\ l.sgst = 0 ELSE l.igst = 0

LEMMA LinesNow == ASSUME MoneyOK PROVE LinesOK(V!Lines)
<1> DEFINE m == [i \in Items |-> V!Line(V!Group(i))]
<1>1. V!Lines = {m[i] : i \in Items}
  BY DEF V!Lines
<1>2. IsFiniteSet({m[i] : i \in Items})
  <2> HIDE DEF m
  <2> QED BY MoneyAssumption, NamedSet
<1>3. ASSUME NEW l \in V!Lines
      PROVE  /\ l \in Line /\ l = V!Line(l.of)
             /\ IF V!Inter THEN l.cgst = 0 /\ l.sgst = 0 ELSE l.igst = 0
  <2>1. PICK i \in Items : l = V!Line(V!Group(i))
    BY DEF V!Lines
  <2>2. l \in Line /\ l.of = V!Group(i)
    BY <2>1, LineTyped
  <2>3. IF V!Inter THEN l.cgst = 0 /\ l.sgst = 0 ELSE l.igst = 0
    BY <2>1 DEF V!Line
  <2> QED BY <2>1, <2>2, <2>3
<1>4. V!Lines \subseteq Line /\ \A l, n \in V!Lines : l.of = n.of => l = n
  BY <1>3
<1> QED BY <1>1, <1>2, <1>3, <1>4 DEF LinesOK

-----------------------------------------------------------------------------
(* Taxes: an amount for each kind and line.                                *)
Pairs(lines) == V!Taxes \X lines
Tax(lines) == [p \in Pairs(lines) |-> p[2][p[1]]]

LEMMA TaxIsNat ==
    ASSUME NEW lines, LinesOK(lines)
    PROVE  /\ \A l \in lines, k \in V!Taxes : l[k] \in Nat /\ Tax(lines)[<<k, l>>] = l[k]
           /\ \A p \in Pairs(lines) : Tax(lines)[p] \in Nat
           /\ IsFiniteSet(Pairs(lines)) /\ IsFiniteSet(V!Taxes)
<1>1. \A l \in lines, k \in V!Taxes : l[k] \in Nat
  BY DEF LinesOK, Line, V!Taxes
<1>2. IsFiniteSet(V!Taxes)
  <2>1. IsFiniteSet({"cgst"}) /\ IsFiniteSet({"sgst"}) /\ IsFiniteSet({"igst"})
    BY FS_Singleton
  <2>2. IsFiniteSet({"cgst"} \cup {"sgst"})
    BY <2>1, FS_Union
  <2>3. IsFiniteSet(({"cgst"} \cup {"sgst"}) \cup {"igst"})
    BY <2>1, <2>2, FS_Union
  <2>4. V!Taxes = ({"cgst"} \cup {"sgst"}) \cup {"igst"}
    BY DEF V!Taxes
  <2> QED BY <2>3, <2>4
<1>3. IsFiniteSet(Pairs(lines))
  BY <1>2, FS_Product DEF Pairs, LinesOK
<1>4. \A l \in lines, k \in V!Taxes : <<k, l>> \in Pairs(lines) /\ Tax(lines)[<<k, l>>] = l[k]
  BY DEF Tax, Pairs
<1>5. ASSUME NEW p \in Pairs(lines) PROVE Tax(lines)[p] \in Nat
  <2>1. p[1] \in V!Taxes /\ p[2] \in lines /\ Tax(lines)[p] = p[2][p[1]]
    BY DEF Tax, Pairs
  <2> QED BY <1>1, <2>1
<1> QED BY <1>1, <1>2, <1>3, <1>4, <1>5

LEMMA PartsNat ==
    ASSUME NEW lines, LinesOK(lines), NEW Q \in SUBSET Pairs(lines)
    PROVE  /\ IsFiniteSet(Q) /\ SumFunctionOnSet(Tax(lines), Q) \in Nat
           /\ SumFunctionOnSet(Tax(lines), Q) = 0 => \A p \in Q : Tax(lines)[p] = 0
<1>1. IsFiniteSet(Q) /\ \A p \in Q : Tax(lines)[p] \in Nat
  BY TaxIsNat, FS_Subset
<1> DEFINE t == Tax(lines)
<1> HIDE DEF t
<1>2. \A p \in Q : t[p] \in Nat
  BY <1>1 DEF t
<1>3. /\ SumFunctionOnSet(t, Q) \in Nat /\ \A p \in Q : t[p] <= SumFunctionOnSet(t, Q)
  BY <1>1, <1>2, SumIsNat
<1>4. SumFunctionOnSet(t, Q) = 0 => \A p \in Q : t[p] = 0
  BY <1>2, <1>3
<1> QED BY <1>1, <1>3, <1>4 DEF t

LEMMA PairTotal ==
    ASSUME NEW lines, LinesOK(lines), NEW k \in V!Taxes, NEW T \in SUBSET lines
    PROVE  SumFunctionOnSet(Tax(lines), {k} \X T) = V!Total(k, T)
<1> DEFINE m == [l \in T |-> <<k, l>>]
           f == [l \in T |-> l[k]]
<1>1. IsFiniteSet(T) /\ \A l \in T : f[l] \in Int /\ Tax(lines)[m[l]] = f[l]
  BY TaxIsNat, FS_Subset DEF LinesOK
<1>2. \A x, y \in T : m[x] = m[y] => x = y
  OBVIOUS
<1>3. {m[l] : l \in T} = {k} \X T
  OBVIOUS
<1>4. V!Total(k, T) = SumFunctionOnSet(f, T)
  BY TotalIs
<1>5. SumFunctionOnSet(Tax(lines), {m[l] : l \in T}) = SumFunctionOnSet(f, T)
  <2> HIDE DEF m, f
  <2> QED BY <1>1, <1>2, SumNamed
<1> QED BY <1>3, <1>4, <1>5

LEMMA PairsTotal ==
    ASSUME NEW lines, LinesOK(lines), NEW Q \in SUBSET Pairs(lines)
    PROVE  SumFunctionOnSet(Tax(lines), Q)
             = V!SumFunction([k \in V!Taxes |-> V!Total(k, {l \in lines : <<k, l>> \in Q})])
<1> DEFINE K == V!Taxes
           key == [p \in Q |-> p[1]]
           g == [k \in K |-> V!Total(k, {l \in lines : <<k, l>> \in Q})]
           t == Tax(lines)
<1>1. IsFiniteSet(Q) /\ IsFiniteSet(K) /\ \A p \in Q : t[p] \in Int /\ key[p] \in K
  <2>1. IsFiniteSet(K) /\ \A p \in Pairs(lines) : t[p] \in Nat
    BY TaxIsNat
  <2>2. \A p \in Q : p \in Pairs(lines) /\ key[p] = p[1] /\ p[1] \in K
    BY DEF Pairs
  <2> HIDE DEF t, key, K
  <2>3. \A p \in Q : t[p] \in Int
    BY <2>1, <2>2
  <2> QED BY <2>1, <2>2, <2>3, PartsNat
<1>2. ASSUME NEW k \in K PROVE g[k] = SumFunctionOnSet(t, Part(Q, key, k))
  <2> DEFINE T == {l \in lines : <<k, l>> \in Q}
  <2>1. Part(Q, key, k) = {k} \X T
    BY DEF Part, Pairs
  <2>2. SumFunctionOnSet(t, {k} \X T) = V!Total(k, T)
    BY PairTotal
  <2> QED BY <2>1, <2>2
<1>3. DOMAIN g = K
  OBVIOUS
<1>4. V!SumFunction(g) = SumFunctionOnSet(g, DOMAIN g)
  BY VSum
<1>5. SumFunctionOnSet(g, K) = SumFunctionOnSet(t, Q)
  <2> HIDE DEF K, key, g, t
  <2> QED BY <1>1, <1>2, SumByParts
<1> QED BY <1>3, <1>4, <1>5

LEMMA TaxesTotal ==
    ASSUME NEW lines, LinesOK(lines)
    PROVE  SumFunctionOnSet(Tax(lines), Pairs(lines))
             = V!Total("cgst", lines) + V!Total("sgst", lines) + V!Total("igst", lines)
<1> DEFINE g == [k \in V!Taxes |-> V!Total(k, lines)]
<1>1. \A k \in V!Taxes : {l \in lines : <<k, l>> \in Pairs(lines)} = lines
  BY DEF Pairs
<1>2. SumFunctionOnSet(Tax(lines), Pairs(lines)) = V!SumFunction(g)
  <2>1. SumFunctionOnSet(Tax(lines), Pairs(lines))
          = V!SumFunction([k \in V!Taxes |->
                             V!Total(k, {l \in lines : <<k, l>> \in Pairs(lines)})])
    BY PairsTotal
  <2>2. [k \in V!Taxes |-> V!Total(k, {l \in lines : <<k, l>> \in Pairs(lines)})] = g
    BY <1>1
  <2> QED BY <2>1, <2>2
<1>3. \A k \in V!Taxes : g[k] = V!Total(k, lines) /\ g[k] \in Int
  <2>1. IsFiniteSet(lines) /\ \A l \in lines, k \in V!Taxes : l[k] \in Nat
    BY TaxIsNat DEF LinesOK
  <2>2. ASSUME NEW k \in V!Taxes PROVE V!Total(k, lines) \in Nat
    BY <2>1, TotalNat
  <2> QED BY <2>2
<1>4. V!SumFunction(g) = SumFunctionOnSet(g, V!Taxes)
  <2>1. V!SumFunction(g) = SumFunctionOnSet(g, DOMAIN g)
    BY VSum
  <2> QED BY <2>1
<1> HIDE DEF g
<1>5. IsFiniteSet(V!Taxes) /\ V!Taxes = {"cgst", "sgst", "igst"}
  BY TaxIsNat DEF V!Taxes
<1>6. SumFunctionOnSet(g, V!Taxes) = g["cgst"] + SumFunctionOnSet(g, V!Taxes \ {"cgst"})
  BY <1>3, <1>5, SumTakesOut
<1>7. V!Taxes \ {"cgst"} = {"sgst", "igst"} /\ {"sgst", "igst"} \ {"sgst"} = {"igst"}
      /\ {"igst"} \ {"igst"} = {}
  BY <1>5
<1>8. IsFiniteSet({"sgst", "igst"}) /\ IsFiniteSet({"igst"})
  BY <1>5, FS_Subset
<1>9. SumFunctionOnSet(g, {"sgst", "igst"})
        = g["sgst"] + SumFunctionOnSet(g, {"sgst", "igst"} \ {"sgst"})
  BY <1>3, <1>5, <1>8, SumTakesOut
<1>10. SumFunctionOnSet(g, {"igst"}) = g["igst"] + SumFunctionOnSet(g, {"igst"} \ {"igst"})
  BY <1>3, <1>5, <1>8, SumTakesOut
<1>11. SumFunctionOnSet(g, {}) = 0
  BY SumOfNone
<1>12. /\ g["cgst"] = V!Total("cgst", lines) /\ g["cgst"] \in Int
       /\ g["sgst"] = V!Total("sgst", lines) /\ g["sgst"] \in Int
       /\ g["igst"] = V!Total("igst", lines) /\ g["igst"] \in Int
  BY <1>3, <1>5
<1>13. SumFunctionOnSet(g, V!Taxes) = g["cgst"] + (g["sgst"] + (g["igst"] + 0))
  BY <1>6, <1>7, <1>9, <1>10, <1>11
<1> QED BY <1>2, <1>4, <1>12, <1>13

(* The pairs that an assignment of ledgers puts on the ledgers in W.       *)
MappedTo(lines, W) == {p \in Pairs(lines) : V!MappedLedger(p[1], p[2].gst) \in W}
BookedTo(lines, W) == {p \in Pairs(lines) : V!ExcelLedger(p[1], p[2]) \in W}
TaxOn(lines, Q) == SumFunctionOnSet(Tax(lines), Q)

(* Postings, their number finite, that come to a total.                    *)
Posted(S, total) ==
    /\ IsFiniteSet(S) /\ \A x \in S : x.amount \in Int
    /\ V!Total("amount", S) = total

LEMMA SignIs == V!Sign \in {1, -1} /\ V!Sign \in Int
BY DEF V!Sign

LEMMA AmountNamed ==
    ASSUME NEW S, IsFiniteSet(S), NEW m, \A x, y \in S : m[x] = m[y] => x = y,
           NEW f, \A x \in S : f[x] \in Int /\ m[x].amount = f[x]
    PROVE  V!Total("amount", {m[x] : x \in S}) = SumFunctionOnSet(f, S)
<1> DEFINE of == "amount"
<1>1. \A x \in S : f[x] \in Int /\ m[x][of] = f[x]
  OBVIOUS
<1>2. V!Total(of, {m[x] : x \in S}) = SumFunctionOnSet(f, S)
  <2> HIDE DEF of
  <2> QED BY <1>1, TotalNamed
<1> QED BY <1>2

(* Postings named by what they are for, with the signed sum of a part of   *)
(* the pairs each, where the parts that come to nothing are left out.      *)
LEMMA PostedParts ==
    ASSUME NEW lines, LinesOK(lines), NEW Q \in SUBSET Pairs(lines),
           NEW K, IsFiniteSet(K), NEW key, \A p \in Q : key[p] \in K,
           NEW f, \A k \in K : f[k] = TaxOn(lines, Part(Q, key, k)),
           NEW m, \A x, y \in K : m[x] = m[y] => x = y,
           \A x \in K : m[x].amount = V!Sign * f[x]
    PROVE  Posted({m[x] : x \in {k \in K : f[k] # 0}}, V!Sign * TaxOn(lines, Q))
<1> DEFINE t == Tax(lines)
           L == {k \in K : f[k] # 0}
           g == [k \in K |-> V!Sign * f[k]]
<1>1. IsFiniteSet(Q) /\ \A p \in Q : t[p] \in Int
  <2>1. \A p \in Pairs(lines) : t[p] \in Nat
    BY TaxIsNat
  <2> HIDE DEF t
  <2>2. \A p \in Q : t[p] \in Int
    BY <2>1
  <2> QED BY <2>2, PartsNat
<1>2. ASSUME NEW k \in K PROVE f[k] \in Int
  <2>1. Part(Q, key, k) \in SUBSET Pairs(lines)
    BY DEF Part
  <2> QED BY <2>1, PartsNat DEF TaxOn
<1>3. SumFunctionOnSet(f, K) = SumFunctionOnSet(t, Q)
  <2>1. \A k \in K : f[k] = SumFunctionOnSet(t, Part(Q, key, k))
    BY DEF TaxOn
  <2> HIDE DEF t
  <2> QED BY <1>1, <2>1, SumByParts
<1>4. IsFiniteSet(L) /\ L \in SUBSET K /\ \A k \in K \ L : f[k] = 0
  BY FS_Subset
<1>5. \A k \in L : g[k] = V!Sign * f[k] /\ g[k] \in Int /\ f[k] \in Int
  <2>1. \A x, y \in Int : x * y \in Int
    OBVIOUS
  <2> QED BY <1>2, <2>1, SignIs
<1>6. \A x \in L : m[x].amount = g[x]
  <2>1. \A x \in L : m[x].amount = g[x]
    BY <1>5
  <2> QED BY <2>1
<1> HIDE DEF L, g
<1>7. SumFunctionOnSet(f, K) = SumFunctionOnSet(f, L)
  BY <1>2, <1>4, SumWithoutZeros
<1>8. SumFunctionOnSet(g, L) = V!Sign * SumFunctionOnSet(f, L)
  BY <1>4, <1>5, SignIs, SumTimes
<1>9. V!Total("amount", {m[x] : x \in L}) = SumFunctionOnSet(g, L)
  <2>1. \A x, y \in L : m[x] = m[y] => x = y
    BY <1>4
  <2>2. \A x \in L : g[x] \in Int /\ m[x].amount = g[x]
    BY <1>5, <1>6
  <2>3. IsFiniteSet(L)
    BY <1>4
  <2> QED BY <2>1, <2>2, <2>3, AmountNamed
<1>10. IsFiniteSet({m[x] : x \in L}) /\ \A x \in L : m[x].amount \in Int
  BY <1>4, <1>5, <1>6, NamedSet
<1> QED BY <1>3, <1>7, <1>8, <1>9, <1>10 DEF TaxOn, L, Posted

LEMMA RatesAreFinite ==
    ASSUME NEW lines, LinesOK(lines)
    PROVE  IsFiniteSet({l.gst : l \in lines}) /\ IsFiniteSet(V!Taxes \X {l.gst : l \in lines})
<1> DEFINE m == [l \in lines |-> l.gst]
<1>1. IsFiniteSet({m[l] : l \in lines})
  <2> HIDE DEF m
  <2> QED BY NamedSet DEF LinesOK
<1>2. {m[l] : l \in lines} = {l.gst : l \in lines}
  OBVIOUS
<1> QED BY <1>1, <1>2, TaxIsNat, FS_Product

(* What the XML posts to the ledgers in W.                                 *)
LEMMA XmlTaxes ==
    ASSUME NEW lines, LinesOK(lines), NEW W
    PROVE  Posted({x \in V!XmlSalesTaxes(lines) : x.ledger \in W},
                  V!Sign * TaxOn(lines, MappedTo(lines, W)))
<1> DEFINE Q == MappedTo(lines, W)
           R == {l.gst : l \in lines}
           K == {y \in V!Taxes \X R : V!MappedLedger(y[1], y[2]) \in W}
           key == [p \in Q |-> <<p[1], p[2].gst>>]
           f == [y \in K |-> V!Total(y[1], V!Sharing(lines, y[2]))]
           m == [y \in K |-> V!Posting(<<"tax", y>>, V!MappedLedger(y[1], y[2]),
                                       V!Sign * f[y])]
<1>1. IsFiniteSet(K)
  BY RatesAreFinite, FS_Subset
<1>2. Q \in SUBSET Pairs(lines) /\ \A p \in Q : key[p] \in K
  BY DEF MappedTo, Pairs
<1>3. ASSUME NEW y \in K PROVE f[y] = TaxOn(lines, Part(Q, key, y)) /\ f[y] \in Nat
  <2> DEFINE T == V!Sharing(lines, y[2])
  <2>1. T \in SUBSET lines /\ y[1] \in V!Taxes
    BY DEF V!Sharing
  <2>2. Part(Q, key, y) = {y[1]} \X T
    <3>1. ASSUME NEW p \in Part(Q, key, y) PROVE p \in {y[1]} \X T
      <4>1. p \in Pairs(lines) /\ <<p[1], p[2].gst>> = y
        BY DEF Part, MappedTo
      <4> QED BY <4>1 DEF Pairs, V!Sharing
    <3>2. ASSUME NEW p \in {y[1]} \X T PROVE p \in Part(Q, key, y)
      <4>1. p[1] = y[1] /\ p[2] \in lines /\ p[2].gst = y[2] /\ p = <<p[1], p[2]>>
        BY DEF V!Sharing
      <4>2. p \in Q
        BY <2>1, <4>1 DEF MappedTo, Pairs
      <4>3. key[p] = y
        BY <4>1, <4>2
      <4> QED BY <4>2, <4>3 DEF Part
    <3> QED BY <3>1, <3>2
  <2>3. TaxOn(lines, {y[1]} \X T) = V!Total(y[1], T)
    BY <2>1, PairTotal DEF TaxOn
  <2>4. Part(Q, key, y) \in SUBSET Pairs(lines)
    BY <1>2 DEF Part
  <2>5. TaxOn(lines, Part(Q, key, y)) \in Nat
    BY <2>4, PartsNat DEF TaxOn
  <2> QED BY <2>2, <2>3, <2>5
<1>4. \A x, y \in K : m[x] = m[y] => x = y
  BY DEF V!Posting
<1>5. \A x \in K : m[x].amount = V!Sign * f[x]
  BY DEF V!Posting
<1>6. {x \in V!XmlSalesTaxes(lines) : x.ledger \in W} = {m[y] : y \in {k \in K : f[k] # 0}}
  <2>1. V!XmlSalesTaxes(lines)
          = {V!Posting(<<"tax", x>>, V!MappedLedger(x[1], x[2]),
                       V!Sign * V!Total(x[1], V!Sharing(lines, x[2])))
               : x \in {y \in V!Taxes \X R : V!Total(y[1], V!Sharing(lines, y[2])) > 0}}
    BY DEF V!XmlSalesTaxes
  <2>5. \A y \in K : f[y] = V!Total(y[1], V!Sharing(lines, y[2]))
    OBVIOUS
  <2>2. \A y \in K : f[y] # 0 <=> V!Total(y[1], V!Sharing(lines, y[2])) > 0
    <3>1. \A y \in K : f[y] \in Nat
      BY <1>3
    <3> HIDE DEF f, K
    <3> QED BY <2>5, <3>1
  <2>3. \A y \in K : m[y] = V!Posting(<<"tax", y>>, V!MappedLedger(y[1], y[2]),
                                      V!Sign * V!Total(y[1], V!Sharing(lines, y[2])))
    OBVIOUS
  <2>4. \A a, b, c : V!Posting(a, b, c).ledger = b
    BY DEF V!Posting
  <2> HIDE DEF f, m, R
  <2>6. ASSUME NEW x \in V!XmlSalesTaxes(lines), x.ledger \in W
        PROVE  x \in {m[y] : y \in {k \in K : f[k] # 0}}
    <3>1. PICK y \in V!Taxes \X R :
            /\ V!Total(y[1], V!Sharing(lines, y[2])) > 0
            /\ x = V!Posting(<<"tax", y>>, V!MappedLedger(y[1], y[2]),
                             V!Sign * V!Total(y[1], V!Sharing(lines, y[2])))
      BY <2>1
    <3>2. y \in K
      BY <2>4, <2>6, <3>1
    <3> QED BY <2>2, <2>3, <3>1, <3>2
  <2>7. ASSUME NEW y \in K, f[y] # 0
        PROVE  m[y] \in V!XmlSalesTaxes(lines) /\ m[y].ledger \in W
    <3>1. y \in V!Taxes \X R /\ V!MappedLedger(y[1], y[2]) \in W
      OBVIOUS
    <3>2. m[y].ledger \in W
      <4>1. m[y] = V!Posting(<<"tax", y>>, V!MappedLedger(y[1], y[2]),
                             V!Sign * V!Total(y[1], V!Sharing(lines, y[2])))
        BY <2>3
      <4>2. m[y].ledger = V!MappedLedger(y[1], y[2])
        BY <4>1 DEF V!Posting
      <4> QED BY <3>1, <4>2
    <3>3. m[y] \in V!XmlSalesTaxes(lines)
      BY <2>1, <2>2, <2>3, <2>7, <3>1
    <3> QED BY <3>2, <3>3
  <2> QED BY <2>6, <2>7
<1>7. Posted({m[y] : y \in {k \in K : f[k] # 0}}, V!Sign * TaxOn(lines, Q))
  <2>1. Q \in SUBSET Pairs(lines)
    BY <1>2
  <2>2. \A p \in Q : key[p] \in K
    BY <1>2
  <2>3. \A y \in K : f[y] = TaxOn(lines, Part(Q, key, y))
    BY <1>3
  <2> HIDE DEF Q, K, key, f, m
  <2> QED BY <1>1, <1>4, <1>5, <2>1, <2>2, <2>3, PostedParts
<1> QED BY <1>6, <1>7

(* What the workbook posts to them.                                        *)
LEMMA ExcelTaxes ==
    ASSUME NEW lines, LinesOK(lines), NEW W
    PROVE  Posted({x \in V!ExcelSalesTaxes(lines) : x.ledger \in W},
                  V!Sign * TaxOn(lines, BookedTo(lines, W)))
<1> DEFINE Q == BookedTo(lines, W)
           booked == [p \in Pairs(lines) |-> V!ExcelLedger(p[1], p[2])]
           K == {booked[p] : p \in Q}
           on(n) == V!SumFunction([k \in V!Taxes |->
                        V!Total(k, {l \in lines : V!ExcelLedger(k, l) = n})])
           f == [n \in K |-> on(n)]
           m == [n \in K |-> V!Posting(<<"tax", n>>, n, V!Sign * f[n])]
           names == UNION {{V!ExcelLedger(k, l) : k \in {t \in V!Taxes : l[t] # 0}} : l \in lines}
<1>1. Q \in SUBSET Pairs(lines) /\ \A p \in Q : booked[p] \in K /\ booked[p] \in W
  BY DEF BookedTo
<1>2. IsFiniteSet(K)
  <2>1. IsFiniteSet(Q)
    BY <1>1, PartsNat
  <2> HIDE DEF booked, Q
  <2> QED BY <2>1, NamedSet
<1>3. ASSUME NEW n \in W
      PROVE  /\ on(n) = TaxOn(lines, Part(Q, booked, n)) /\ on(n) \in Nat
             /\ on(n) # 0 => n \in K /\ n \in names
  <2> DEFINE P == Part(Q, booked, n)
  <2>1. P \in SUBSET Pairs(lines)
    BY <1>1 DEF Part
  <2>2. \A k \in V!Taxes : {l \in lines : <<k, l>> \in P}
                             = {l \in lines : V!ExcelLedger(k, l) = n}
    <3>1. ASSUME NEW k \in V!Taxes, NEW l \in lines
          PROVE  <<k, l>> \in P <=> V!ExcelLedger(k, l) = n
      <4>1. <<k, l>> \in Pairs(lines) /\ booked[<<k, l>>] = V!ExcelLedger(k, l)
        BY DEF Pairs
      <4> QED BY <4>1 DEF Part, BookedTo
    <3> HIDE DEF P
    <3> QED BY <3>1
  <2>3. TaxOn(lines, P)
          = V!SumFunction([k \in V!Taxes |-> V!Total(k, {l \in lines : <<k, l>> \in P})])
    <3> HIDE DEF P
    <3> QED BY <2>1, PairsTotal DEF TaxOn
  <2>4. TaxOn(lines, P) = on(n)
    <3> HIDE DEF P
    <3> QED BY <2>2, <2>3
  <2>5. TaxOn(lines, P) \in Nat
    <3> HIDE DEF P
    <3> QED BY <2>1, PartsNat DEF TaxOn
  <2>6. ASSUME on(n) # 0 PROVE n \in K /\ n \in names
    <3>1. PICK p \in P : Tax(lines)[p] # 0
      <4>1. IsFiniteSet(P)
        <5> HIDE DEF P
        <5> QED BY <2>1, PartsNat
      <4> HIDE DEF P
      <4>2. SUFFICES ASSUME \A p \in P : Tax(lines)[p] = 0 PROVE FALSE
        OBVIOUS
      <4>3. SumFunctionOnSet(Tax(lines), P) = 0
        BY <4>1, <4>2, SumOfZeros
      <4> QED BY <2>4, <2>6, <4>3 DEF TaxOn
    <3>2. p \in Q /\ p \in Pairs(lines) /\ booked[p] = n
      BY <2>1 DEF Part
    <3>3. p[1] \in V!Taxes /\ p[2] \in lines /\ p[2][p[1]] # 0 /\ V!ExcelLedger(p[1], p[2]) = n
      BY <3>1, <3>2 DEF Pairs, Tax
    <3> QED BY <3>2, <3>3
  <2> QED BY <2>4, <2>5, <2>6
<1>4. K \subseteq W
  BY <1>1
<1>5. \A n \in K : f[n] = TaxOn(lines, Part(Q, booked, n))
  BY <1>3, <1>4
<1>6. \A x, y \in K : m[x] = m[y] => x = y
  BY DEF V!Posting
<1>7. \A x \in K : m[x].amount = V!Sign * f[x]
  BY DEF V!Posting
<1>8. {x \in V!ExcelSalesTaxes(lines) : x.ledger \in W} = {m[n] : n \in {k \in K : f[k] # 0}}
  <2>1. V!ExcelSalesTaxes(lines)
          = {V!Posting(<<"tax", n>>, n, V!Sign * on(n)) : n \in {x \in names : on(x) # 0}}
    BY DEF V!ExcelSalesTaxes
  <2>2. \A a, b, c : V!Posting(a, b, c).ledger = b
    BY DEF V!Posting
  <2>3. \A n \in K : f[n] = on(n) /\ m[n] = V!Posting(<<"tax", n>>, n, V!Sign * on(n))
    OBVIOUS
  <2>4. \A n \in W : on(n) # 0 => n \in K /\ n \in names
    BY <1>3
  <2> HIDE DEF K, on, f, m, names
  <2>5. ASSUME NEW x \in V!ExcelSalesTaxes(lines), x.ledger \in W
        PROVE  x \in {m[n] : n \in {k \in K : f[k] # 0}}
    <3>1. PICK n \in names : on(n) # 0 /\ x = V!Posting(<<"tax", n>>, n, V!Sign * on(n))
      BY <2>1
    <3>2. n \in W
      BY <2>2, <2>5, <3>1
    <3> QED BY <2>3, <2>4, <3>1, <3>2
  <2>6. ASSUME NEW n \in K, f[n] # 0
        PROVE  m[n] \in V!ExcelSalesTaxes(lines) /\ m[n].ledger \in W
    <3>1. n \in names /\ on(n) # 0 /\ n \in W
      BY <1>4, <2>3, <2>4, <2>6
    <3>2. m[n].ledger \in W
      <4>1. m[n] = V!Posting(<<"tax", n>>, n, V!Sign * on(n))
        BY <2>3
      <4>2. m[n].ledger = n
        BY <4>1 DEF V!Posting
      <4> QED BY <3>1, <4>2
    <3>3. m[n] \in V!ExcelSalesTaxes(lines)
      BY <2>1, <2>3, <3>1
    <3> QED BY <3>2, <3>3
  <2> QED BY <2>5, <2>6
<1>9. Posted({m[n] : n \in {k \in K : f[k] # 0}}, V!Sign * TaxOn(lines, Q))
  <2>1. \A p \in Q : booked[p] \in K
    BY <1>1
  <2>2. Q \in SUBSET Pairs(lines)
    BY <1>1
  <2> HIDE DEF Q, K, booked, f, m
  <2> QED BY <1>2, <1>5, <1>6, <1>7, <2>1, <2>2, PostedParts
<1> QED BY <1>8, <1>9
-----------------------------------------------------------------------------
(* The vouchers balance.                                                   *)
Taxed(lines) == V!Total("cgst", lines) + V!Total("sgst", lines) + V!Total("igst", lines)

LEMMA PostedTwo ==
    ASSUME NEW S, NEW T, NEW a, NEW b, Posted(S, a), Posted(T, b), S \cap T = {}
    PROVE  Posted(S \cup T, a + b)
<1>1. IsFiniteSet(S) /\ IsFiniteSet(T) /\ \A x \in S \cup T : x.amount \in Int
  BY DEF Posted
<1>2. IsFiniteSet(S \cup T)
  BY <1>1, FS_Union
<1>3. V!Total("amount", S \cup T) = V!Total("amount", S) + V!Total("amount", T)
  <2> DEFINE of == "amount"
  <2>1. \A x \in S \cup T : x[of] \in Int
    BY <1>1
  <2>2. V!Total(of, S \cup T) = V!Total(of, S) + V!Total(of, T)
    <3> HIDE DEF of
    <3> QED BY <1>1, <2>1, TotalTwo
  <2> QED BY <2>2
<1> QED BY <1>1, <1>2, <1>3 DEF Posted

LEMMA PostedOne == ASSUME NEW x, x.amount \in Int PROVE Posted({x}, x.amount)
<1> DEFINE of == "amount"
<1>1. x[of] \in Int
  OBVIOUS
<1>2. V!Total(of, {x}) = x[of]
  <2> HIDE DEF of
  <2> QED BY <1>1, TotalOne
<1> QED BY <1>2, FS_Singleton DEF Posted

LEMMA PostedNone == Posted({}, 0)
BY TotalNone, FS_EmptySet DEF Posted

LEMMA SumsAreInt ==
    ASSUME NEW lines, LinesOK(lines)
    PROVE  /\ V!Total("taxable", lines) \in Nat /\ V!Total("amount", lines) \in Nat
           /\ \A k \in V!Taxes : V!Total(k, lines) \in Nat
           /\ V!Total("cgst", lines) \in Nat /\ V!Total("sgst", lines) \in Nat
           /\ V!Total("igst", lines) \in Nat
           /\ Taxed(lines) \in Nat /\ V!BeforeRoundOff(lines) \in Nat
           /\ V!BeforeRoundOff(lines) = V!Total("taxable", lines) + Taxed(lines)
           /\ V!FinalValue(lines) \in Nat /\ V!RoundOff(lines) \in Int
           /\ V!FinalValue(lines) = V!BeforeRoundOff(lines) + V!RoundOff(lines)
<1>1. ASSUME NEW of \in {"taxable", "amount", "cgst", "sgst", "igst"}
      PROVE  V!Total(of, lines) \in Nat
  <2>1. IsFiniteSet(lines) /\ \A l \in lines : l[of] \in Nat
    BY DEF LinesOK, Line
  <2> QED BY <2>1, TotalNat
<1>2. /\ V!Total("taxable", lines) \in Nat /\ V!Total("amount", lines) \in Nat
      /\ V!Total("cgst", lines) \in Nat /\ V!Total("sgst", lines) \in Nat
      /\ V!Total("igst", lines) \in Nat
  BY <1>1
<1>3. \A k \in V!Taxes : V!Total(k, lines) \in Nat
  BY <1>1 DEF V!Taxes
<1>4. /\ Taxed(lines) \in Nat /\ V!BeforeRoundOff(lines) \in Nat
      /\ V!BeforeRoundOff(lines) = V!Total("taxable", lines) + Taxed(lines)
  BY <1>2 DEF Taxed, V!BeforeRoundOff
<1>5. V!HalfUp(V!BeforeRoundOff(lines), 100) \in Nat
  BY <1>4, HalfUpIs
<1>6. V!FinalValue(lines) \in Nat
  BY <1>5 DEF V!FinalValue
<1>7. /\ V!RoundOff(lines) \in Int
      /\ V!FinalValue(lines) = V!BeforeRoundOff(lines) + V!RoundOff(lines)
  BY <1>4, <1>6 DEF V!RoundOff
<1> QED BY <1>2, <1>3, <1>4, <1>6, <1>7

LEMMA ItemsPosted ==
    ASSUME NEW lines, LinesOK(lines), NEW ledgerOf
    PROVE  Posted(V!ItemPostings(lines, ledgerOf), V!Sign * V!Total("taxable", lines))
<1> DEFINE f == [l \in lines |-> l["taxable"]]
           g == [l \in lines |-> V!Sign * f[l]]
           m == [l \in lines |-> V!Posting(<<"line", l.of>>, ledgerOf[l], V!Sign * l.taxable)]
<1>1. V!ItemPostings(lines, ledgerOf) = {m[l] : l \in lines}
  BY DEF V!ItemPostings
<1>2. IsFiniteSet(lines) /\ \A l \in lines : f[l] \in Int /\ f[l] = l.taxable
  BY DEF LinesOK, Line
<1>3. \A l \in lines : g[l] = V!Sign * f[l] /\ g[l] \in Int
  <2>1. \A x, y \in Int : x * y \in Int
    OBVIOUS
  <2> QED BY <1>2, <2>1, SignIs
<1>4. \A l \in lines : m[l].amount = g[l] /\ m[l].of = <<"line", l.of>>
  BY <1>2 DEF V!Posting
<1>5. \A x, y \in lines : m[x] = m[y] => x = y
  <2>1. ASSUME NEW x \in lines, NEW y \in lines, m[x] = m[y] PROVE x.of = y.of
    <3>1. <<"line", x.of>> = <<"line", y.of>>
      <4> HIDE DEF m
      <4> QED BY <1>4, <2>1
    <3> QED BY <3>1
  <2> QED BY <2>1 DEF LinesOK
<1>6. V!Total("taxable", lines) = SumFunctionOnSet(f, lines)
  BY TotalIs
<1> HIDE DEF f, g, m
<1>7. SumFunctionOnSet(g, lines) = V!Sign * SumFunctionOnSet(f, lines)
  BY <1>2, <1>3, SignIs, SumTimes
<1>8. V!Total("amount", {m[l] : l \in lines}) = SumFunctionOnSet(g, lines)
  <2>1. \A x \in lines : g[x] \in Int /\ m[x].amount = g[x]
    BY <1>3, <1>4
  <2> QED BY <1>2, <1>5, <2>1, AmountNamed
<1>9. IsFiniteSet({m[l] : l \in lines}) /\ \A l \in lines : m[l].amount \in Int
  BY <1>2, <1>3, <1>4, NamedSet
<1> QED BY <1>1, <1>6, <1>7, <1>8, <1>9 DEF Posted

LEMMA SalesTaxesPosted ==
    ASSUME NEW lines, LinesOK(lines)
    PROVE  /\ Posted(V!XmlSalesTaxes(lines), V!Sign * Taxed(lines))
           /\ Posted(V!ExcelSalesTaxes(lines), V!Sign * Taxed(lines))
<1>1. TaxOn(lines, Pairs(lines)) = Taxed(lines)
  BY TaxesTotal DEF TaxOn, Taxed
<1>2. Posted(V!XmlSalesTaxes(lines), V!Sign * Taxed(lines))
  <2> DEFINE T == V!XmlSalesTaxes(lines)
             W == {x.ledger : x \in T} \cup {V!MappedLedger(p[1], p[2].gst) : p \in Pairs(lines)}
  <2>1. {x \in T : x.ledger \in W} = T
    OBVIOUS
  <2>2. MappedTo(lines, W) = Pairs(lines)
    BY DEF MappedTo
  <2>3. Posted({x \in T : x.ledger \in W}, V!Sign * TaxOn(lines, MappedTo(lines, W)))
    <3> HIDE DEF W
    <3> QED BY XmlTaxes
  <2> HIDE DEF T, W
  <2> QED BY <1>1, <2>1, <2>2, <2>3 DEF T
<1>3. Posted(V!ExcelSalesTaxes(lines), V!Sign * Taxed(lines))
  <2> DEFINE T == V!ExcelSalesTaxes(lines)
             W == {x.ledger : x \in T} \cup {V!ExcelLedger(p[1], p[2]) : p \in Pairs(lines)}
  <2>1. {x \in T : x.ledger \in W} = T
    OBVIOUS
  <2>2. BookedTo(lines, W) = Pairs(lines)
    BY DEF BookedTo
  <2>3. Posted({x \in T : x.ledger \in W}, V!Sign * TaxOn(lines, BookedTo(lines, W)))
    <3> HIDE DEF W
    <3> QED BY ExcelTaxes
  <2> HIDE DEF T, W
  <2> QED BY <1>1, <2>1, <2>2, <2>3 DEF T
<1> QED BY <1>2, <1>3

LEMMA PurchaseTaxesPosted ==
    ASSUME NEW lines, LinesOK(lines), ~V!SalesSide
    PROVE  Posted(V!PurchaseTaxes(lines), V!Sign * Taxed(lines))
<1> DEFINE Q == Pairs(lines)
           K == V!Taxes
           key == [p \in Q |-> p[1]]
           f == [k \in K |-> V!Total(k, lines)]
           m == [k \in K |-> V!Posting(<<"tax", k>>, V!GlobalLedger(k, 0), V!Sign * f[k])]
<1>1. IsFiniteSet(K) /\ Q \in SUBSET Pairs(lines)
  BY TaxIsNat
<1>2. \A p \in Q : key[p] \in K
  BY DEF Pairs
<1>3. ASSUME NEW k \in K PROVE f[k] = TaxOn(lines, Part(Q, key, k))
  <2>1. Part(Q, key, k) = {k} \X lines
    BY DEF Part, Pairs
  <2>2. TaxOn(lines, {k} \X lines) = V!Total(k, lines)
    BY PairTotal DEF TaxOn
  <2> QED BY <2>1, <2>2
<1>4. \A x, y \in K : m[x] = m[y] => x = y
  BY DEF V!Posting
<1>5. \A k \in K : m[k].amount = V!Sign * f[k]
  BY DEF V!Posting
<1>6. Posted({m[k] : k \in {x \in K : f[x] # 0}}, V!Sign * TaxOn(lines, Q))
  <2> HIDE DEF Q, K, key, f, m
  <2> QED BY <1>1, <1>2, <1>3, <1>4, <1>5, PostedParts
<1>7. V!PurchaseTaxes(lines) = {m[k] : k \in {x \in K : f[x] # 0}}
  <2>1. V!Sign = -1
    BY DEF V!Sign, V!SalesSide
  <2>2. f["igst"] = 0
    <3>1. \A l \in lines : l["igst"] = 0
      BY DEF LinesOK, V!Inter
    <3>2. V!Total("igst", lines) = 0
      BY <3>1, TotalZero DEF LinesOK
    <3> QED BY <3>2 DEF V!Taxes
  <2>3. \A k \in K : f[k] = V!Total(k, lines) /\ f[k] \in Nat
    BY SumsAreInt
  <2>4. {x \in K : f[x] # 0} = {t \in {"cgst", "sgst"} : V!Total(t, lines) > 0}
    <3> HIDE DEF f
    <3> QED BY <2>2, <2>3 DEF V!Taxes
  <2>5. \A k \in {x \in K : f[x] # 0} :
          m[k] = V!Posting(<<"tax", k>>, V!GlobalLedger(k, 0), -V!Total(k, lines))
    <3>1. \A k \in K : V!Sign * f[k] = -V!Total(k, lines)
      <4> HIDE DEF f
      <4> QED BY <2>1, <2>3
    <3>2. \A k \in K : m[k] = V!Posting(<<"tax", k>>, V!GlobalLedger(k, 0), V!Sign * f[k])
      OBVIOUS
    <3> HIDE DEF f, m
    <3> QED BY <3>1, <3>2
  <2> HIDE DEF f, m
  <2> QED BY <2>4, <2>5 DEF V!PurchaseTaxes
<1>8. TaxOn(lines, Q) = Taxed(lines)
  BY TaxesTotal DEF TaxOn, Taxed
<1> QED BY <1>6, <1>7, <1>8

(* What a voucher posts besides its items and taxes.                       *)
Frame(lines) == {V!PartyPosting(lines)} \cup V!RoundOffPostings(lines)

LEMMA FramePosted ==
    ASSUME NEW lines, LinesOK(lines)
    PROVE  /\ Posted(Frame(lines), -V!Sign * V!FinalValue(lines) + V!Sign * V!RoundOff(lines))
           /\ \A x \in Frame(lines) : x.of \in {<<"party">>, <<"round_off">>}
<1>1. /\ V!FinalValue(lines) \in Int /\ V!RoundOff(lines) \in Int /\ V!Sign \in Int
      /\ \A x, y \in Int : x * y \in Int /\ (-x) * y \in Int
  BY SumsAreInt, SignIs
<1>2. Posted({V!PartyPosting(lines)}, -V!Sign * V!FinalValue(lines))
  <2> DEFINE x == V!PartyPosting(lines)
  <2>1. x.amount = -V!Sign * V!FinalValue(lines)
    BY DEF V!PartyPosting, V!Posting
  <2>2. x.amount \in Int
    BY <1>1, <2>1
  <2> HIDE DEF x
  <2>3. Posted({x}, x.amount)
    BY <2>2, PostedOne
  <2> QED BY <2>1, <2>3 DEF x
<1>3. Posted(V!RoundOffPostings(lines), V!Sign * V!RoundOff(lines))
  <2>1. CASE V!RoundOff(lines) = 0
    <3>1. V!Sign * V!RoundOff(lines) = 0
      BY <1>1, <2>1
    <3> QED BY <2>1, <3>1, PostedNone DEF V!RoundOffPostings
  <2>2. CASE V!RoundOff(lines) # 0
    <3> DEFINE x == V!Posting(<<"round_off">>, V!GlobalLedger("round_off", 0),
                              V!Sign * V!RoundOff(lines))
    <3>1. V!RoundOffPostings(lines) = {x}
      BY <2>2 DEF V!RoundOffPostings
    <3>2. x.amount = V!Sign * V!RoundOff(lines)
      BY DEF V!Posting
    <3>3. x.amount \in Int
      BY <1>1, <3>2
    <3> HIDE DEF x
    <3>4. Posted({x}, x.amount)
      BY <3>3, PostedOne
    <3> QED BY <3>1, <3>2, <3>4
  <2> QED BY <2>1, <2>2
<1>4. V!PartyPosting(lines).of = <<"party">>
  BY DEF V!PartyPosting, V!Posting
<1>5. \A x \in V!RoundOffPostings(lines) : x.of = <<"round_off">>
  BY DEF V!RoundOffPostings, V!Posting
<1>6. {V!PartyPosting(lines)} \cap V!RoundOffPostings(lines) = {}
  BY <1>4, <1>5
<1> QED BY <1>2, <1>3, <1>4, <1>5, <1>6, PostedTwo DEF Frame

LEMMA TaxesAreTaxes ==
    ASSUME NEW lines
    PROVE  \A x \in V!XmlSalesTaxes(lines) \cup V!ExcelSalesTaxes(lines)
                    \cup V!PurchaseTaxes(lines) : x.of[1] = "tax"
<1>1. \A x \in V!XmlSalesTaxes(lines) : x.of[1] = "tax"
  BY DEF V!XmlSalesTaxes, V!Posting
<1>2. \A x \in V!ExcelSalesTaxes(lines) : x.of[1] = "tax"
  <2> SUFFICES ASSUME NEW x \in V!ExcelSalesTaxes(lines) PROVE x.of[1] = "tax"
    OBVIOUS
  <2>1. \E n, a : x = V!Posting(<<"tax", n>>, n, a)
    BY DEF V!ExcelSalesTaxes
  <2> QED BY <2>1 DEF V!Posting
<1>3. \A x \in V!PurchaseTaxes(lines) : x.of[1] = "tax"
  BY DEF V!PurchaseTaxes, V!Posting
<1> QED BY <1>1, <1>2, <1>3

(* The party, the round-off, the items and the taxes of a voucher.         *)
LEMMA AddsUp ==
    ASSUME NEW lines, LinesOK(lines), NEW ledgerOf, NEW taxes,
           \A x \in taxes : x.of[1] = "tax", Posted(taxes, V!Sign * Taxed(lines))
    PROVE  /\ Posted(Frame(lines) \cup V!ItemPostings(lines, ledgerOf) \cup taxes, 0)
           /\ IsFiniteSet(Frame(lines) \cup V!ItemPostings(lines, ledgerOf))
           /\ \A x \in Frame(lines) \cup V!ItemPostings(lines, ledgerOf) :
                 x.amount \in Int /\ x.of[1] # "tax"
<1> DEFINE I == V!ItemPostings(lines, ledgerOf)
           F == Frame(lines)
           s == V!Sign
           final == V!FinalValue(lines)
           round == V!RoundOff(lines)
           goods == V!Total("taxable", lines)
<1>1. \A x \in F : x.of[1] \in {"party", "round_off"}
  <2>1. \A x \in F : x.of \in {<<"party">>, <<"round_off">>}
    BY FramePosted
  <2> HIDE DEF F
  <2> QED BY <2>1
<1>2. \A x \in I : x.of[1] = "line"
  BY DEF V!ItemPostings, V!Posting
<1>3. Posted(F, -s * final + s * round) /\ Posted(I, s * goods)
  BY FramePosted, ItemsPosted
<1> HIDE DEF F, I, s, final, round, goods
<1>4. F \cap I = {} /\ (F \cup I) \cap taxes = {}
  BY <1>1, <1>2
<1>5. Posted(F \cup I, (-s * final + s * round) + s * goods)
  BY <1>3, <1>4, PostedTwo
<1>6. Posted((F \cup I) \cup taxes, ((-s * final + s * round) + s * goods) + s * Taxed(lines))
  BY <1>4, <1>5, PostedTwo DEF s
<1>7. ((-s * final + s * round) + s * goods) + s * Taxed(lines) = 0
  <2>1. /\ final \in Int /\ round \in Int /\ goods \in Int /\ Taxed(lines) \in Int
        /\ final = (goods + Taxed(lines)) + round
    BY SumsAreInt DEF final, round, goods
  <2>2. s \in {1, -1}
    BY SignIs DEF s
  <2>3. CASE s = 1
    BY <2>1, <2>3
  <2>4. CASE s = -1
    BY <2>1, <2>4
  <2> QED BY <2>2, <2>3, <2>4
<1>8. IsFiniteSet(F \cup I) /\ \A x \in F \cup I : x.amount \in Int /\ x.of[1] # "tax"
  BY <1>1, <1>2, <1>5 DEF Posted
<1> QED BY <1>6, <1>7, <1>8 DEF F, I

XmlItems(lines) ==
    V!ItemPostings(lines, IF V!SalesSide THEN [l \in lines |-> V!MappedLedger("sales", l.gst)]
                          ELSE [l \in lines |-> V!GlobalLedger("purchase", 0)])
ExcelItems(lines) ==
    V!ItemPostings(lines, IF V!SalesSide THEN [l \in lines |-> V!ExcelLedger("sales", l)]
                          ELSE [l \in lines |-> V!GlobalLedger("purchase", 0)])
XmlTaxPart(lines) == IF V!SalesSide THEN V!XmlSalesTaxes(lines) ELSE V!PurchaseTaxes(lines)
ExcelTaxPart(lines) == IF V!SalesSide THEN V!ExcelSalesTaxes(lines) ELSE V!PurchaseTaxes(lines)

LEMMA VoucherParts ==
    ASSUME NEW lines
    PROVE  /\ V!Xml(lines) = Frame(lines) \cup XmlItems(lines) \cup XmlTaxPart(lines)
           /\ V!Excel(lines) = Frame(lines) \cup ExcelItems(lines) \cup ExcelTaxPart(lines)
<1>1. CASE V!SalesSide
  BY <1>1 DEF V!Xml, V!Excel, Frame, XmlItems, ExcelItems, XmlTaxPart, ExcelTaxPart
<1>2. CASE ~V!SalesSide
  BY <1>2 DEF V!Xml, V!Excel, Frame, XmlItems, ExcelItems, XmlTaxPart, ExcelTaxPart
<1> QED BY <1>1, <1>2

LEMMA Balance ==
    ASSUME NEW lines, LinesOK(lines)
    PROVE  /\ V!Balanced(V!Xml(lines)) /\ V!Balanced(V!Excel(lines))
           /\ IsFiniteSet(Frame(lines) \cup XmlItems(lines))
           /\ IsFiniteSet(Frame(lines) \cup ExcelItems(lines))
           /\ \A x \in Frame(lines) \cup XmlItems(lines) \cup ExcelItems(lines) :
                 x.amount \in Int /\ x.of[1] # "tax"
<1>1. /\ Posted(XmlTaxPart(lines), V!Sign * Taxed(lines))
      /\ Posted(ExcelTaxPart(lines), V!Sign * Taxed(lines))
  BY SalesTaxesPosted, PurchaseTaxesPosted DEF XmlTaxPart, ExcelTaxPart
<1>2. \A x \in XmlTaxPart(lines) \cup ExcelTaxPart(lines) : x.of[1] = "tax"
  BY TaxesAreTaxes DEF XmlTaxPart, ExcelTaxPart
<1>3. /\ Posted(Frame(lines) \cup XmlItems(lines) \cup XmlTaxPart(lines), 0)
      /\ IsFiniteSet(Frame(lines) \cup XmlItems(lines))
      /\ \A x \in Frame(lines) \cup XmlItems(lines) : x.amount \in Int /\ x.of[1] # "tax"
  BY <1>1, <1>2, AddsUp DEF XmlItems
<1>4. /\ Posted(Frame(lines) \cup ExcelItems(lines) \cup ExcelTaxPart(lines), 0)
      /\ IsFiniteSet(Frame(lines) \cup ExcelItems(lines))
      /\ \A x \in Frame(lines) \cup ExcelItems(lines) : x.amount \in Int /\ x.of[1] # "tax"
  BY <1>1, <1>2, AddsUp DEF ExcelItems
<1> QED BY <1>3, <1>4, VoucherParts DEF Posted, V!Balanced
-----------------------------------------------------------------------------
(* The papers agree.                                                       *)
LEMMA OnTwo ==
    ASSUME NEW F, NEW T, IsFiniteSet(F), NEW total, Posted(T, total), NEW w,
           \A x \in F : x.amount \in Int /\ x.of[1] # "tax", \A x \in T : x.of[1] = "tax"
    PROVE  V!On(F \cup T, w) = V!On(F, w) + V!On(T, w)
<1> DEFINE of == "amount"
           C == {x \in F : x.ledger = w}
           D == {x \in T : x.ledger = w}
<1>1. IsFiniteSet(C) /\ IsFiniteSet(D) /\ C \cap D = {}
  BY FS_Subset DEF Posted
<1>2. \A x \in C \cup D : x[of] \in Int
  BY DEF Posted
<1>3. {x \in F \cup T : x.ledger = w} = C \cup D
  OBVIOUS
<1>4. V!Total(of, C \cup D) = V!Total(of, C) + V!Total(of, D)
  <2> HIDE DEF of, C, D
  <2> QED BY <1>1, <1>2, TotalTwo
<1> QED BY <1>3, <1>4 DEF V!On

LEMMA SameLedgers ==
    ASSUME NEW lines, LinesOK(lines), ~V!XmlRefused(lines), NEW w
    PROVE  V!On(V!Xml(lines), w) = V!On(V!Excel(lines), w)
<1>1. ASSUME V!SalesSide
      PROVE  \A k, l : l \in lines => V!ExcelLedger(k, l) = V!MappedLedger(k, l.gst)
  <2>1. \A l \in lines : l.gst \in Mapped
    BY <1>1 DEF V!XmlRefused
  <2> QED BY <2>1 DEF V!ExcelLedger
<1>2. XmlItems(lines) = ExcelItems(lines)
  <2>1. CASE V!SalesSide
    <3>1. [l \in lines |-> V!MappedLedger("sales", l.gst)]
            = [l \in lines |-> V!ExcelLedger("sales", l)]
      BY <1>1, <2>1
    <3> QED BY <2>1, <3>1 DEF XmlItems, ExcelItems
  <2>2. CASE ~V!SalesSide
    BY <2>2 DEF XmlItems, ExcelItems
  <2> QED BY <2>1, <2>2
<1>3. V!On(XmlTaxPart(lines), w) = V!On(ExcelTaxPart(lines), w)
  <2>1. CASE V!SalesSide
    <3> DEFINE W == {w}
    <3>1. /\ Posted({x \in V!XmlSalesTaxes(lines) : x.ledger \in W},
                    V!Sign * TaxOn(lines, MappedTo(lines, W)))
          /\ Posted({x \in V!ExcelSalesTaxes(lines) : x.ledger \in W},
                    V!Sign * TaxOn(lines, BookedTo(lines, W)))
      <4> HIDE DEF W
      <4> QED BY XmlTaxes, ExcelTaxes
    <3>2. MappedTo(lines, W) = BookedTo(lines, W)
      <4> HIDE DEF W
      <4>1. \A p \in Pairs(lines) :
              V!ExcelLedger(p[1], p[2]) = V!MappedLedger(p[1], p[2].gst)
        BY <1>1, <2>1 DEF Pairs
      <4> QED BY <4>1 DEF MappedTo, BookedTo
    <3>3. \A T : {x \in T : x.ledger \in W} = {x \in T : x.ledger = w}
      OBVIOUS
    <3>4. V!Total("amount", {x \in V!XmlSalesTaxes(lines) : x.ledger = w})
            = V!Total("amount", {x \in V!ExcelSalesTaxes(lines) : x.ledger = w})
      <4> HIDE DEF W
      <4> QED BY <3>1, <3>2, <3>3 DEF Posted
    <3> QED BY <2>1, <3>4 DEF V!On, XmlTaxPart, ExcelTaxPart
  <2>2. CASE ~V!SalesSide
    BY <2>2 DEF XmlTaxPart, ExcelTaxPart
  <2> QED BY <2>1, <2>2
<1>4. /\ Posted(XmlTaxPart(lines), V!Sign * Taxed(lines))
      /\ Posted(ExcelTaxPart(lines), V!Sign * Taxed(lines))
  BY SalesTaxesPosted, PurchaseTaxesPosted DEF XmlTaxPart, ExcelTaxPart
<1>5. \A x \in XmlTaxPart(lines) \cup ExcelTaxPart(lines) : x.of[1] = "tax"
  BY TaxesAreTaxes DEF XmlTaxPart, ExcelTaxPart
<1> DEFINE F == Frame(lines) \cup XmlItems(lines)
<1>6. IsFiniteSet(F) /\ \A x \in F : x.amount \in Int /\ x.of[1] # "tax"
  BY Balance
<1>7. /\ V!Xml(lines) = F \cup XmlTaxPart(lines)
      /\ V!Excel(lines) = F \cup ExcelTaxPart(lines)
  BY <1>2, VoucherParts
<1> HIDE DEF F
<1>8. /\ V!On(F \cup XmlTaxPart(lines), w) = V!On(F, w) + V!On(XmlTaxPart(lines), w)
      /\ V!On(F \cup ExcelTaxPart(lines), w) = V!On(F, w) + V!On(ExcelTaxPart(lines), w)
  BY <1>4, <1>5, <1>6, OnTwo
<1> QED BY <1>3, <1>7, <1>8

(* The breakup adds the lines up again, rate by rate, and taxes are either *)
(* all of the union or all of the states.                                  *)
LEMMA ByRate ==
    ASSUME NEW lines, LinesOK(lines), NEW of \in {"taxable", "amount", "cgst", "sgst", "igst"},
           NEW g, \A r \in {l.gst : l \in lines} : g[r] = V!Total(of, V!Sharing(lines, r))
    PROVE  /\ SumFunctionOnSet(g, {l.gst : l \in lines}) = V!Total(of, lines)
           /\ \A r \in {l.gst : l \in lines} : g[r] \in Nat
<1> DEFINE K == {l.gst : l \in lines}
           f == [l \in lines |-> l[of]]
           key == [l \in lines |-> l.gst]
<1>1. IsFiniteSet(lines) /\ IsFiniteSet(K) /\ \A l \in lines : key[l] \in K
  BY RatesAreFinite DEF LinesOK
<1>2. \A l \in lines : f[l] = l[of] /\ l[of] \in Nat
  BY DEF LinesOK, Line
<1>3. ASSUME NEW r \in K
      PROVE  g[r] = SumFunctionOnSet(f, Part(lines, key, r)) /\ g[r] \in Nat
  <2> DEFINE S == V!Sharing(lines, r)
             h == [l \in S |-> l[of]]
  <2>1. S = Part(lines, key, r) /\ S \subseteq lines
    BY DEF V!Sharing, Part
  <2>2. IsFiniteSet(S)
    BY <1>1, <2>1, FS_Subset
  <2>3. V!Total(of, S) = SumFunctionOnSet(h, S)
    BY TotalIs
  <2>4. \A l \in S : h[l] = f[l]
    BY <2>1
  <2>5. \A l \in S : l[of] \in Nat
    BY <1>2, <2>1
  <2> HIDE DEF S, h, f
  <2>6. SumFunctionOnSet(h, S) = SumFunctionOnSet(f, S)
    BY <2>2, <2>4, SumSame
  <2>7. V!Total(of, S) \in Nat
    BY <2>2, <2>5, TotalNat
  <2> QED BY <2>1, <2>3, <2>6, <2>7 DEF S
<1>4. V!Total(of, lines) = SumFunctionOnSet(f, lines)
  BY TotalIs
<1>5. SumFunctionOnSet(g, K) = SumFunctionOnSet(f, lines)
  <2>1. \A l \in lines : f[l] \in Int
    BY <1>2
  <2>2. \A r \in K : g[r] = SumFunctionOnSet(f, Part(lines, key, r))
    BY <1>3
  <2>3. \A l \in lines : key[l] \in K
    BY <1>1
  <2> HIDE DEF f, key, K
  <2> QED BY <1>1, <2>1, <2>2, <2>3, SumByParts
<1> QED BY <1>3, <1>4, <1>5

Images(m, S) == {m[x] : x \in S}

(* TotalNamed for a set that has a name already.                           *)
LEMMA TotalOfNamed ==
    ASSUME NEW of, NEW S, IsFiniteSet(S), NEW m, \A x, y \in S : m[x] = m[y] => x = y,
           NEW f, \A x \in S : f[x] \in Int /\ m[x][of] = f[x], NEW T, T = Images(m, S)
    PROVE  V!Total(of, T) = SumFunctionOnSet(f, S)
<1> DEFINE g == [l \in T |-> l[of]]
<1>1. \A x \in S : f[x] \in Int /\ g[m[x]] = f[x]
  BY DEF Images
<1>2. V!Total(of, T) = SumFunctionOnSet(g, T)
  BY TotalIs
<1>3. SumFunctionOnSet(g, T) = SumFunctionOnSet(f, S)
  <2> HIDE DEF g
  <2> QED BY <1>1, SumNamed DEF Images
<1> QED BY <1>2, <1>3

LEMMA BreakupShowsTheTax ==
    ASSUME NEW lines, LinesOK(lines)
    PROVE  V!Total("taxable", V!BreakupRows(lines)) + V!Total("tax", V!BreakupRows(lines))
             = V!BeforeRoundOff(lines)
<1> DEFINE K == {l.gst : l \in lines}
           S(r) == V!Sharing(lines, r)
           cols == V!BreakupColumns(lines)
           g(of) == [r \in K |-> V!Total(of, S(r))]
           x == [r \in K |-> V!SumFunction([k \in cols |-> V!Total(k, S(r))])]
           m == [r \in K |-> [gst |-> r, taxable |-> g("taxable")[r], tax |-> x[r]]]
           rows == V!BreakupRows(lines)
<1>1. IsFiniteSet(K)
  BY RatesAreFinite
<1>2. ASSUME NEW of \in {"taxable", "cgst", "sgst", "igst"}
      PROVE  /\ SumFunctionOnSet(g(of), K) = V!Total(of, lines)
             /\ \A r \in K : g(of)[r] \in Nat /\ g(of)[r] = V!Total(of, S(r))
  <2>1. \A r \in K : g(of)[r] = V!Total(of, S(r))
    OBVIOUS
  <2>2. /\ SumFunctionOnSet(g(of), K) = V!Total(of, lines)
        /\ \A r \in K : g(of)[r] \in Nat
    <3> HIDE DEF g
    <3> QED BY <2>1, ByRate
  <2> QED BY <2>1, <2>2
<1>3. rows = {m[r] : r \in K}
  BY DEF V!BreakupRows
<1>4. /\ \A r, s \in K : m[r] = m[s] => r = s
      /\ \A r \in K : m[r].taxable = g("taxable")[r] /\ m[r].tax = x[r]
  <2>1. \A r \in K : m[r].gst = r /\ m[r].taxable = g("taxable")[r] /\ m[r].tax = x[r]
    <3> HIDE DEF g, x
    <3> QED OBVIOUS
  <2> HIDE DEF m
  <2> QED BY <2>1
<1>5. ASSUME NEW of, NEW f, \A r \in K : f[r] \in Int /\ m[r][of] = f[r]
      PROVE  V!Total(of, rows) = SumFunctionOnSet(f, K)
  <2>1. \A r, s \in K : m[r] = m[s] => r = s
    BY <1>4
  <2>2. \A r \in K : f[r] \in Int /\ m[r][of] = f[r]
    BY <1>5
  <2>3. rows = Images(m, K)
    BY <1>3 DEF Images
  <2> HIDE DEF m, K, rows
  <2> QED BY <1>1, <2>1, <2>2, <2>3, TotalOfNamed
<1>6. V!Total("taxable", rows) = V!Total("taxable", lines)
  <2> DEFINE f == g("taxable")
             of == "taxable"
  <2>1. \A r \in K : f[r] \in Int /\ m[r][of] = f[r]
    <3>1. \A r \in K : f[r] \in Nat
      BY <1>2
    <3>2. \A r \in K : m[r].taxable = f[r]
      BY <1>4
    <3>3. \A r \in K : m[r][of] = f[r]
      <4> HIDE DEF m, f
      <4> QED BY <3>2
    <3> HIDE DEF m, f, of
    <3> QED BY <3>1, <3>3
  <2>2. V!Total(of, rows) = SumFunctionOnSet(f, K)
    <3> HIDE DEF f, of, m, rows, K
    <3> QED BY <1>5, <2>1
  <2>3. SumFunctionOnSet(f, K) = V!Total("taxable", lines)
    BY <1>2
  <2> HIDE DEF f
  <2> QED BY <2>2, <2>3
<1>7. (\A r \in K : x[r] \in Int) => V!Total("tax", rows) = SumFunctionOnSet(x, K)
  <2> DEFINE of == "tax"
  <2>1. \A r \in K : m[r].tax = x[r]
    BY <1>4
  <2> HIDE DEF m, x
  <2>2. \A r \in K : m[r][of] = x[r]
    BY <2>1
  <2>3. (\A r \in K : x[r] \in Int) => V!Total(of, rows) = SumFunctionOnSet(x, K)
    <3> HIDE DEF of, rows, K
    <3> QED BY <1>5, <2>2
  <2> QED BY <2>3
<1>8. /\ \A l \in lines : l["igst"] \in Nat
      /\ IF V!Inter THEN \A l \in lines : l["cgst"] = 0 /\ l["sgst"] = 0
         ELSE \A l \in lines : l["igst"] = 0
  BY DEF LinesOK, Line
<1>9. IF V!Inter THEN V!Total("cgst", lines) = 0 /\ V!Total("sgst", lines) = 0
      ELSE V!Total("igst", lines) = 0
  BY <1>8, TotalZero DEF LinesOK
<1>10. CASE V!Total("igst", lines) > 0
  <2>1. cols = {"igst"} /\ V!Total("cgst", lines) = 0 /\ V!Total("sgst", lines) = 0
    BY <1>9, <1>10 DEF V!BreakupColumns
  <2>2. ASSUME NEW r \in K PROVE x[r] = g("igst")[r] /\ x[r] \in Int
    <3> DEFINE h == [k \in {"igst"} |-> V!Total(k, S(r))]
               c == "igst"
    <3>1. g(c)[r] \in Nat /\ g(c)[r] = V!Total(c, S(r))
      BY <1>2
    <3>2. x[r] = V!SumFunction(h)
      BY <2>1
    <3>3. DOMAIN h = {c} /\ h[c] = V!Total(c, S(r))
      OBVIOUS
    <3>4. V!SumFunction(h) = SumFunctionOnSet(h, DOMAIN h)
      BY VSum
    <3> HIDE DEF h, c
    <3>5. SumFunctionOnSet(h, {c}) = h[c] + SumFunctionOnSet(h, {c} \ {c})
      <4>1. IsFiniteSet({c})
        BY FS_Singleton
      <4>2. h[c] \in Int
        BY <3>1, <3>3
      <4>3. c \in {c} /\ \A y \in {c} : h[y] \in Int
        BY <4>2
      <4> QED BY <4>1, <4>3, SumTakesOut
    <3>6. SumFunctionOnSet(h, {c} \ {c}) = 0
      <4>1. {c} \ {c} = {}
        OBVIOUS
      <4> QED BY <4>1, SumOfNone
    <3> HIDE DEF g, x
    <3>7. x[r] = g(c)[r] /\ x[r] \in Int
      BY <3>1, <3>2, <3>3, <3>4, <3>5, <3>6
    <3> QED BY <3>7 DEF c
  <2>3. SumFunctionOnSet(x, K) = SumFunctionOnSet(g("igst"), K)
    <3> HIDE DEF x, g
    <3> QED BY <1>1, <2>2, SumSame
  <2>4. SumFunctionOnSet(g("igst"), K) = V!Total("igst", lines)
    BY <1>2
  <2>5. V!Total("tax", rows) = V!Total("igst", lines)
    <3>1. \A r \in K : x[r] \in Int
      BY <2>2
    <3> HIDE DEF x, g, rows, K
    <3> QED BY <1>7, <2>3, <2>4, <3>1
  <2>6. Taxed(lines) = V!Total("igst", lines)
    BY <2>1, SumsAreInt DEF Taxed
  <2> HIDE DEF rows
  <2> QED BY <1>6, <2>5, <2>6, SumsAreInt DEF rows
<1>11. CASE ~(V!Total("igst", lines) > 0)
  <2>1. cols = {"cgst", "sgst"} /\ V!Total("igst", lines) = 0
    BY <1>11, SumsAreInt DEF V!BreakupColumns
  <2>2. ASSUME NEW r \in K
        PROVE  x[r] = g("cgst")[r] + g("sgst")[r] /\ x[r] \in Int
    <3> DEFINE h == [k \in {"cgst", "sgst"} |-> V!Total(k, S(r))]
               c == "cgst"
               d == "sgst"
    <3>1. /\ g(c)[r] \in Nat /\ g(c)[r] = V!Total(c, S(r))
          /\ g(d)[r] \in Nat /\ g(d)[r] = V!Total(d, S(r))
      BY <1>2
    <3>2. x[r] = V!SumFunction(h)
      BY <2>1
    <3>3. /\ DOMAIN h = {c, d} /\ h[c] = V!Total(c, S(r)) /\ h[d] = V!Total(d, S(r)) /\ c # d
          /\ {c, d} = {"cgst", "sgst"}
      OBVIOUS
    <3>4. V!SumFunction(h) = SumFunctionOnSet(h, DOMAIN h)
      BY VSum
    <3> HIDE DEF h, c, d
    <3>5. IsFiniteSet({c}) /\ IsFiniteSet({d}) /\ {c, d} \ {c} = {d} /\ {d} \ {d} = {}
          /\ {c} \cup {d} = {c, d}
      BY <3>3, FS_Singleton
    <3>6. IsFiniteSet({c, d})
      <4>1. IsFiniteSet({c} \cup {d})
        BY <3>5, FS_Union
      <4> QED BY <3>5, <4>1
    <3>7. h[c] \in Int /\ h[d] \in Int
      BY <3>1, <3>3
    <3>8. \A y \in {c, d} : h[y] \in Int
      BY <3>7
    <3>9. SumFunctionOnSet(h, {c, d}) = h[c] + SumFunctionOnSet(h, {c, d} \ {c})
      BY <3>6, <3>8, SumTakesOut
    <3>10. SumFunctionOnSet(h, {d}) = h[d] + SumFunctionOnSet(h, {d} \ {d})
      BY <3>5, <3>7, SumTakesOut
    <3>11. SumFunctionOnSet(h, {d} \ {d}) = 0
      BY <3>5, SumOfNone
    <3> HIDE DEF g, x
    <3>12. SumFunctionOnSet(h, {c, d}) = h[c] + (h[d] + 0)
      BY <3>5, <3>9, <3>10, <3>11
    <3>13. x[r] = SumFunctionOnSet(h, {c, d})
      BY <3>2, <3>3, <3>4
    <3>14. h[c] = g(c)[r] /\ h[d] = g(d)[r]
      BY <3>1, <3>3
    <3>15. x[r] = g(c)[r] + g(d)[r] /\ x[r] \in Int
      BY <3>7, <3>12, <3>13, <3>14
    <3> QED BY <3>15 DEF c, d
  <2>3. SumFunctionOnSet(x, K) = SumFunctionOnSet(g("cgst"), K) + SumFunctionOnSet(g("sgst"), K)
    <3>1. \A r \in K : g("cgst")[r] \in Int /\ g("sgst")[r] \in Int
      BY <1>2
    <3> DEFINE gc == g("cgst")
               gs == g("sgst")
    <3>2. \A r \in K : gc[r] \in Int /\ gs[r] \in Int /\ x[r] = gc[r] + gs[r]
      BY <2>2, <3>1
    <3> HIDE DEF x, gc, gs, K
    <3>3. SumFunctionOnSet(x, K) = SumFunctionOnSet(gc, K) + SumFunctionOnSet(gs, K)
      BY <1>1, <3>2, SumPlus
    <3> QED BY <3>3 DEF gc, gs
  <2>4. /\ SumFunctionOnSet(g("cgst"), K) = V!Total("cgst", lines)
        /\ SumFunctionOnSet(g("sgst"), K) = V!Total("sgst", lines)
    BY <1>2
  <2>5. V!Total("tax", rows) = V!Total("cgst", lines) + V!Total("sgst", lines)
    <3>1. \A r \in K : x[r] \in Int
      BY <2>2
    <3> HIDE DEF x, g, rows, K
    <3> QED BY <1>7, <2>3, <2>4, <3>1
  <2>6. Taxed(lines) = V!Total("cgst", lines) + V!Total("sgst", lines)
    BY <2>1, SumsAreInt DEF Taxed
  <2> HIDE DEF rows
  <2> QED BY <1>6, <2>5, <2>6, SumsAreInt DEF rows
<1> QED BY <1>10, <1>11

-----------------------------------------------------------------------------
(* The customer pays the discounted prices.                                *)

(* The taxes of a line are those of its taxable amount.                    *)
Charged(l) ==
    /\ l.taxable = V!TaxableOf(l.amount, l.gst)
    /\ l.cgst = (IF V!Inter THEN 0 ELSE V!TaxOf(l.taxable, V!HalfUp(l.gst, 2)))
    /\ l.sgst = l.cgst
    /\ l.igst = (IF V!Inter THEN V!TaxOf(l.taxable, l.gst) ELSE 0)

LEMMA LinesCharged == ASSUME NEW l \in V!Lines PROVE Charged(l)
<1>1. PICK i \in Items : l = V!Line(V!Group(i))
  BY DEF V!Lines
<1> DEFINE g == V!Group(i)
<1>2. \E goods, gross :
        l.gst = V!GstOf(goods) /\ Charged(l)
  BY <1>1 DEF V!Line, Charged
<1> QED BY <1>2

(* h is n / 10000, at most a half off.                                     *)
Near(n, h) == 20000 * h - 10000 <= 2 * n /\ 2 * n < 20000 * h + 10000
LEMMA NearIs == \A n \in Nat : Near(n, V!HalfUp(n, 10000))
BY DEF V!HalfUp, Near

(* What comes on top of the taxable amount x of an amount a at the rate g, *)
(* in one tax or in two halves, is at most a few half paise off.           *)
LEMMA OneTax ==
    ASSUME NEW a \in Nat, NEW g \in Nat, NEW x \in Nat, NEW i \in Nat,
           x = V!HalfUp(a * 10000, 10000 + g), i = V!HalfUp(x * g, 10000)
    PROVE  20000 * (x + i - a) <= 20000 + g /\ 20000 * (a - x - i) <= 20000 + g
<1> DEFINE c == x * g
<1>1. c \in Nat
  OBVIOUS
<1>2. PICK t \in Nat : /\ t = x * (10000 + g)
                       /\ 2 * t - (10000 + g) <= 2 * (a * 10000)
                       /\ 2 * (a * 10000) < 2 * t + (10000 + g)
  <2>1. a * 10000 \in Nat /\ 10000 + g \in Nat /\ 10000 + g > 0
    OBVIOUS
  <2> QED BY <2>1, HalfUpIs
<1>3. t = 10000 * x + c
  BY <1>2
<1>4. Near(c, i)
  <2>1. i = V!HalfUp(c, 10000)
    OBVIOUS
  <2> HIDE DEF c
  <2> QED BY <1>1, <2>1, NearIs
<1> HIDE DEF c
<1> QED BY <1>1, <1>2, <1>3, <1>4 DEF Near

InHalves(a, g, x, i) ==
    x = V!HalfUp(a * 10000, 10000 + g) /\ i = V!HalfUp(x * V!HalfUp(g, 2), 10000)
WithinHalves(a, g, x, i) ==
    LET slack == 30000 + g + (IF g % 2 = 0 THEN 0 ELSE 2 * x)
    IN  20000 * (x + i + i - a) <= slack /\ 20000 * (a - x - i - i) <= slack
LEMMA TwoTaxes ==
    ASSUME NEW a \in Nat, NEW g \in Nat, NEW x \in Nat, NEW i \in Nat, InHalves(a, g, x, i)
    PROVE  WithinHalves(a, g, x, i)
<1> DEFINE h == V!HalfUp(g, 2)
           c == x * g
           e == x * h
           odd == IF g % 2 = 0 THEN 0 ELSE 1
<1>1. h \in Nat
  BY HalfUpIs
<1>2. c \in Nat /\ e \in Nat
  <2> HIDE DEF h
  <2> QED BY <1>1
<1>3. PICK t \in Nat : /\ t = x * (10000 + g)
                       /\ 2 * t - (10000 + g) <= 2 * (a * 10000)
                       /\ 2 * (a * 10000) < 2 * t + (10000 + g)
  <2>1. a * 10000 \in Nat /\ 10000 + g \in Nat /\ 10000 + g > 0
    OBVIOUS
  <2>2. x = V!HalfUp(a * 10000, 10000 + g)
    BY DEF InHalves
  <2> QED BY <2>1, <2>2, HalfUpIs
<1>4. t = 10000 * x + c
  BY <1>3
<1>5. Near(e, i)
  <2>1. i = V!HalfUp(e, 10000)
    BY DEF InHalves
  <2> HIDE DEF e
  <2> QED BY <1>2, <2>1, NearIs
<1>6. 2 * h = g + odd /\ odd \in {0, 1}
  BY DEF V!HalfUp
<1> HIDE DEF h, odd
<1>7. 2 * e = c + x * odd
  <2>1. 2 * e = x * (2 * h)
    BY <1>1
  <2>2. 2 * e = x * (g + odd)
    BY <1>6, <2>1
  <2> QED BY <1>6, <2>2
<1>8. CASE g % 2 = 0
  <2>1. 2 * e = c
    BY <1>2, <1>7, <1>8 DEF odd
  <2> HIDE DEF c, e
  <2> QED BY <1>2, <1>3, <1>4, <1>5, <1>8, <2>1 DEF Near, WithinHalves
<1>9. CASE g % 2 # 0
  <2>1. 2 * e = c + x
    BY <1>2, <1>7, <1>9 DEF odd
  <2> HIDE DEF c, e
  <2> QED BY <1>2, <1>3, <1>4, <1>5, <1>9, <2>1 DEF Near, WithinHalves
<1> QED BY <1>8, <1>9

LEMMA LineSlack ==
    ASSUME V!SalesSide, NEW l \in Line, Charged(l)
    PROVE  /\ V!Slack(l) \in Nat
           /\ l.taxable + l.cgst + l.sgst + l.igst <= l.amount + V!Slack(l)
           /\ l.amount <= l.taxable + l.cgst + l.sgst + l.igst + V!Slack(l)
<1> DEFINE a == l.amount
           g == l.gst
           x == l.taxable
           h == V!HalfUp(g, 2)
           n == 30000 + g + (IF g % 2 = 0 THEN 0 ELSE 2 * x)
<1>1. a \in Nat /\ g \in Nat /\ x \in Nat /\ l.cgst \in Nat /\ l.sgst \in Nat /\ l.igst \in Nat
  BY DEF Line
<1>2. /\ x = V!HalfUp(a * 10000, 10000 + g)
      /\ l.sgst = l.cgst
      /\ IF V!Inter THEN l.cgst = 0 /\ l.igst = V!HalfUp(x * g, 10000)
         ELSE l.cgst = V!HalfUp(x * h, 10000) /\ l.igst = 0
  BY DEF Charged, V!TaxableOf, V!TaxOf
<1>3. V!Slack(l) = n \div 20000
  BY DEF V!Slack
<1>4. h \in Nat
  BY <1>1, HalfUpIs
<1> DEFINE c == l.cgst
           s == l.sgst
           i == l.igst
<1>5. 20000 * (x + c + s + i - a) <= n /\ 20000 * (a - x - c - s - i) <= n
  <2>1. CASE V!Inter
    <3>1. c = 0 /\ s = 0 /\ i = V!HalfUp(x * g, 10000)
      BY <1>2, <2>1
    <3> HIDE DEF a, g, x, c, s, i, h
    <3>2. 20000 * (x + i - a) <= 20000 + g /\ 20000 * (a - x - i) <= 20000 + g
      BY <1>1, <1>2, <3>1, OneTax DEF i
    <3> QED BY <1>1, <3>1, <3>2 DEF i, c, s
  <2>2. CASE ~V!Inter
    <3>1. i = 0 /\ s = c /\ c = V!HalfUp(x * h, 10000)
      BY <1>2, <2>2
    <3>2. c \in Nat
      BY <1>1
    <3>3. x = V!HalfUp(a * 10000, 10000 + g)
      BY <1>2
    <3> HIDE DEF a, g, x, c, s, i
    <3>4. 20000 * (x + c + c - a) <= n /\ 20000 * (a - x - c - c) <= n
      <4>1. InHalves(a, g, x, c)
        BY <3>1, <3>3 DEF InHalves
      <4>2. WithinHalves(a, g, x, c)
        BY <1>1, <3>2, <4>1, TwoTaxes
      <4> QED BY <4>2 DEF WithinHalves
    <3> QED BY <1>1, <3>1, <3>2, <3>4
  <2> QED BY <2>1, <2>2
<1>6. n \in Nat
  BY <1>1
<1> HIDE DEF a, g, x, c, s, i, n
<1>7. \A y \in Int : 20000 * y <= n => y <= n \div 20000
  BY <1>6
<1>8. n \div 20000 \in Nat
  BY <1>6
<1>9. /\ a \in Nat /\ x \in Nat /\ c \in Nat /\ s \in Nat /\ i \in Nat
  BY <1>1 DEF c, s, i
<1>10. x + c + s + i - a <= n \div 20000 /\ a - x - c - s - i <= n \div 20000
  BY <1>5, <1>7, <1>9
<1>11. x + c + s + i <= a + V!Slack(l) /\ a <= x + c + s + i + V!Slack(l) /\ V!Slack(l) \in Nat
  BY <1>3, <1>8, <1>9, <1>10
<1> QED BY <1>11 DEF a, x, c, s, i

LEMMA RoundOffIsSmall ==
    ASSUME NEW lines, LinesOK(lines)
    PROVE  -50 <= V!RoundOff(lines) /\ V!RoundOff(lines) <= 50
<1> DEFINE b == V!BeforeRoundOff(lines)
<1>1. b \in Nat /\ V!RoundOff(lines) = 100 * V!HalfUp(b, 100) - b
  BY SumsAreInt DEF V!RoundOff, V!FinalValue
<1> HIDE DEF b
<1> QED BY <1>1 DEF V!HalfUp

LEMMA CustomerPaysNow ==
    ASSUME NEW lines, LinesOK(lines), \A l \in lines : Charged(l)
    PROVE  V!CustomerPays(lines)
<1> SUFFICES ASSUME V!SalesSide PROVE V!CustomerPays(lines)
  BY DEF V!CustomerPays
<1> DEFINE slack == [l \in lines |-> V!Slack(l)]
           f(of) == [l \in lines |-> l[of]]
           two == [l \in lines |-> l.taxable + l.cgst]
           three == [l \in lines |-> l.taxable + l.cgst + l.sgst]
           all == [l \in lines |-> l.taxable + l.cgst + l.sgst + l.igst]
           most == [l \in lines |-> l.amount + V!Slack(l)]
           least == [l \in lines |-> l.taxable + l.cgst + l.sgst + l.igst + V!Slack(l)]
           T == f("taxable")
           C == f("cgst")
           S == f("sgst")
           I == f("igst")
           D == f("amount")
           Sum(g) == SumFunctionOnSet(g, lines)
<1>1. IsFiniteSet(lines)
  BY DEF LinesOK
<1>2. ASSUME NEW l \in lines
      PROVE  /\ T[l] = l.taxable /\ C[l] = l.cgst /\ S[l] = l.sgst /\ I[l] = l.igst
             /\ D[l] = l.amount /\ slack[l] = V!Slack(l)
             /\ two[l] = l.taxable + l.cgst /\ three[l] = l.taxable + l.cgst + l.sgst
             /\ all[l] = l.taxable + l.cgst + l.sgst + l.igst /\ most[l] = l.amount + V!Slack(l)
             /\ least[l] = l.taxable + l.cgst + l.sgst + l.igst + V!Slack(l)
  OBVIOUS
<1>3. ASSUME NEW l \in lines
      PROVE  /\ l.taxable \in Nat /\ l.cgst \in Nat /\ l.sgst \in Nat /\ l.igst \in Nat
             /\ l.amount \in Nat /\ V!Slack(l) \in Nat
             /\ l.taxable + l.cgst + l.sgst + l.igst <= l.amount + V!Slack(l)
             /\ l.amount <= l.taxable + l.cgst + l.sgst + l.igst + V!Slack(l)
  <2>1. l \in Line /\ Charged(l)
    BY DEF LinesOK
  <2>2. /\ l.taxable \in Nat /\ l.cgst \in Nat /\ l.sgst \in Nat /\ l.igst \in Nat
        /\ l.amount \in Nat
    BY <2>1 DEF Line
  <2> QED BY <2>1, <2>2, LineSlack
<1>4. /\ Sum(T) = V!Total("taxable", lines) /\ Sum(C) = V!Total("cgst", lines)
      /\ Sum(S) = V!Total("sgst", lines) /\ Sum(I) = V!Total("igst", lines)
      /\ Sum(D) = V!Total("amount", lines)
  BY TotalIs
<1>5. V!SumFunction(slack) = Sum(slack)
  <2>1. DOMAIN slack = lines
    OBVIOUS
  <2> QED BY <2>1, VSum
<1>6. V!CustomerPays(lines) <=>
        LET off == V!FinalValue(lines) - V!Total("amount", lines)
            within == 50 + V!SumFunction(slack)
        IN  -within <= off /\ off <= within
  BY DEF V!CustomerPays
<1> HIDE DEF slack, two, three, all, most, least, T, C, S, I, D
<1>7. \A l \in lines :
        /\ T[l] \in Int /\ C[l] \in Int /\ S[l] \in Int /\ I[l] \in Int /\ D[l] \in Int
        /\ slack[l] \in Int /\ two[l] \in Int /\ three[l] \in Int /\ all[l] \in Int
        /\ most[l] \in Int /\ least[l] \in Int
        /\ two[l] = T[l] + C[l] /\ three[l] = two[l] + S[l] /\ all[l] = three[l] + I[l]
        /\ most[l] = D[l] + slack[l] /\ least[l] = all[l] + slack[l]
        /\ all[l] <= most[l] /\ D[l] <= least[l]
  BY <1>2, <1>3
<1>8. Sum(two) = Sum(T) + Sum(C)
  BY <1>1, <1>7, SumPlus
<1>9. Sum(three) = Sum(two) + Sum(S)
  BY <1>1, <1>7, SumPlus
<1>10. Sum(all) = Sum(three) + Sum(I)
  BY <1>1, <1>7, SumPlus
<1>11. Sum(most) = Sum(D) + Sum(slack)
  BY <1>1, <1>7, SumPlus
<1>12. Sum(least) = Sum(all) + Sum(slack)
  BY <1>1, <1>7, SumPlus
<1>13. Sum(all) <= Sum(most)
  BY <1>1, <1>7, SumAtMost
<1>14. Sum(D) <= Sum(least)
  BY <1>1, <1>7, SumAtMost
<1>15. Sum(slack) \in Int
  BY <1>1, <1>7, SumIsInt
<1> HIDE DEF Sum
<1>16. /\ Sum(T) \in Nat /\ Sum(C) \in Nat /\ Sum(S) \in Nat /\ Sum(I) \in Nat /\ Sum(D) \in Nat
       /\ V!FinalValue(lines) = Sum(T) + (Sum(C) + Sum(S) + Sum(I)) + V!RoundOff(lines)
       /\ V!RoundOff(lines) \in Int
  BY <1>4, SumsAreInt DEF Taxed
<1>17. Sum(all) = Sum(T) + Sum(C) + Sum(S) + Sum(I)
  BY <1>8, <1>9, <1>10
<1>18. /\ V!FinalValue(lines) - Sum(D) <= 50 + Sum(slack)
       /\ -(50 + Sum(slack)) <= V!FinalValue(lines) - Sum(D)
  BY <1>11, <1>12, <1>13, <1>14, <1>15, <1>16, <1>17, RoundOffIsSmall
<1> QED BY <1>4, <1>5, <1>6, <1>18

(* The XML and the workbook of a batch balance (voucher.py:60,             *)
(* tally.py:152, tally_excel.py:200), post the same to every ledger unless *)
(* the XML is refused, the breakup of the pre-invoice adds up to what is   *)
(* charged, and the customer pays the discounted prices: for every batch,  *)
(* catalogue and mapping of ledgers.                                       *)
THEOREM SumsAgreeCorrect == TradeSpec => []SumsAgree
<1>1. ASSUME Money PROVE V!SumsAgree
  <2> DEFINE lines == V!Lines
             xml == V!Xml(lines)
             excel == V!Excel(lines)
  <2>1. LinesOK(lines) /\ \A l \in lines : Charged(l)
    BY <1>1, LinesNow, LinesCharged DEF Money
  <2> HIDE DEF lines
  <2>2. V!Balanced(xml) /\ V!Balanced(excel)
    BY <2>1, Balance
  <2>3. V!PapersAgree(lines, xml, excel)
    BY <2>1, SameLedgers, BreakupShowsTheTax DEF V!PapersAgree
  <2>4. V!CustomerPays(lines)
    BY <2>1, CustomerPaysNow
  <2> QED BY <2>2, <2>3, <2>4 DEF V!SumsAgree, lines
<1>2. Money => SumsAgree
  BY <1>1 DEF SumsAgree
<1> QED BY <1>2, MoneyCorrect, PTL
=============================================================================
