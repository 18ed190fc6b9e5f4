--------------------------- MODULE Console_proofs ---------------------------
(***************************************************************************)
(* The accounts, the instances, the settings and the environments of the    *)
(* central service, for any number of each and of requests.                 *)
(***************************************************************************)
EXTENDS Console, TLAPS

Managing == {"create", "find", "update", "delete"}

\* What a request whose copies are not out of date can rely on: its actor is
\* still an admin, and the role it has read is still there.
CopiesHold(r) ==
  ~r.stale => /\ r.step \in Managing => users[r.actor].role = "admin"
              /\ r.step = "update" => users[r.target].role = r.read.role

\* What the handlers have checked before the first statement.
Checked(r) ==
  /\ r.step # "idle" => r.actor \in Id
  /\ r.step \in {"find", "update", "delete", "password"} => r.target \in Id
  /\ r.step \in {"find", "update"} /\ r.target = r.actor => r.gives \in {"keep", "admin"}
  /\ r.step = "delete" => r.target # r.actor
  /\ r.step = "password" => r.target = r.actor
  /\ r.step = "create" => r.gives \in Roles
  /\ r.step = "update" => r.read.role \in Roles

AccountsInv ==
  /\ AccountsTypeOK
  /\ \A t \in Task : CopiesHold(request[t]) /\ Checked(request[t])
  /\ NoLockoutUnlessRaced

LEMMA InitialPassword == Initially \in Password /\ NoRow \in Rows
BY AccountConstants DEF Initially, NoRow, Rows

LEMMA NewIsRequest ==
  ASSUME NEW step \in Steps, NEW actor \in Id \cup {NoId}, NEW target \in Id \cup {NoId},
         NEW gives \in Roles \cup {"keep"}, NEW sets \in Password
  PROVE  New(step, actor, target, gives, sets) \in Requests
BY InitialPassword DEF New, Requests

LEMMA IdleIsFine == Idle \in Requests /\ CopiesHold(Idle) /\ Checked(Idle)
<1>1. Idle \in Requests
  BY NewIsRequest, InitialPassword DEF Idle, Steps
<1>2. Idle.step = "idle" /\ Idle.stale = FALSE
  BY DEF Idle, New
<1> QED
  BY <1>1, <1>2 DEF CopiesHold, Checked, Managing

LEMMA AccountsInitially == AccountsInit => AccountsInv
<1> SUFFICES ASSUME AccountsInit PROVE AccountsInv
  OBVIOUS
<1>1. AccountsTypeOK
  BY IdleIsFine, InitialPassword DEF AccountsInit, AccountsTypeOK, Present, NoRow
<1>2. ASSUME NEW t \in Task PROVE CopiesHold(request[t]) /\ Checked(request[t])
  <2>1. request[t] = Idle
    BY DEF AccountsInit
  <2> QED
    BY <2>1, IdleIsFine
<1>3. NoLockoutUnlessRaced
  BY DEF AccountsInit, NoLockoutUnlessRaced, Present, NoRow
<1> QED
  BY <1>1, <1>2, <1>3 DEF AccountsInv

\* A request begins that its handler has checked.
LEMMA BeginningKeeps ==
  ASSUME AccountsInv, NEW t \in Task, NEW r \in Requests, Begins(t, r),
         CopiesHold(r), Checked(r)
  PROVE  AccountsInv'
<1>1. AccountsTypeOK'
  BY DEF AccountsInv, AccountsTypeOK, Begins, Present
<1>2. ASSUME NEW u \in Task PROVE (CopiesHold(request[u]) /\ Checked(request[u]))'
  <2>1. request'[u] = IF u = t THEN r ELSE request[u]
    BY DEF AccountsInv, AccountsTypeOK, Begins
  <2>2. CopiesHold(request'[u]) /\ Checked(request'[u])
    BY <2>1 DEF AccountsInv
  <2> QED
    BY <2>2 DEF Begins, CopiesHold, Checked
<1>3. NoLockoutUnlessRaced'
  BY DEF AccountsInv, NoLockoutUnlessRaced, Present, Admins, Begins
<1> QED
  BY <1>1, <1>2, <1>3 DEF AccountsInv

\* The row of one user changes: the requests that do not depend on it, or whose
\* copy of the role is still right, keep what they rely on.
LEMMA CommitKeepsRequests ==
  ASSUME AccountsInv, NEW t \in Task, NEW i \in Id, NEW row \in Rows, Commits(t, i, row)
  PROVE  /\ users' \in [Id -> Rows] /\ raced' \in BOOLEAN
         /\ request' \in [Task -> Requests]
         /\ \A u \in Task : (CopiesHold(request[u]) /\ Checked(request[u]))'
<1>1. users' \in [Id -> Rows] /\ raced' \in BOOLEAN
  BY DEF AccountsInv, AccountsTypeOK, Commits, Requests
<1>2. ASSUME NEW u \in Task
      PROVE  /\ request'[u] \in Requests
             /\ (CopiesHold(request[u]) /\ Checked(request[u]))'
  <2>1. CASE u = t
    <3>1. request'[u] = Idle
      BY <2>1 DEF Commits
    <3> QED
      BY <3>1, IdleIsFine DEF CopiesHold, Checked, Idle, New, Managing
  <2>2. CASE u # t
    <3> DEFINE q == request[u]
               out == q.stale \/ (DependsOn(q, i) /\ row.role # users[i].role)
    <3>1. q \in Requests /\ CopiesHold(q) /\ Checked(q)
      BY DEF AccountsInv, AccountsTypeOK
    <3>2. request'[u] = [q EXCEPT !.stale = out]
      BY <2>2 DEF Commits
    <3>3. out \in BOOLEAN
      BY <3>1 DEF Requests
    <3>4. request'[u] \in Requests
      BY <3>1, <3>2, <3>3 DEF Requests
    <3>5. /\ request'[u].step = q.step /\ request'[u].actor = q.actor
          /\ request'[u].target = q.target /\ request'[u].gives = q.gives
          /\ request'[u].read = q.read /\ request'[u].stale = out
      BY <3>1, <3>2 DEF Requests
    <3>6. Checked(request[u])'
      BY <3>1, <3>5 DEF Checked
    <3>7. users' = [users EXCEPT ![i] = row] /\ users \in [Id -> Rows]
      BY DEF Commits, AccountsInv, AccountsTypeOK
    <3>8. CopiesHold(request[u])'
      <4> SUFFICES ASSUME ~out
                   PROVE  /\ q.step \in Managing => users'[q.actor].role = "admin"
                          /\ q.step = "update" => users'[q.target].role = q.read.role
        BY <3>5 DEF CopiesHold
      <4>1. q.step \in Managing => q.actor \in Id /\ users[q.actor].role = "admin"
        BY <3>1 DEF CopiesHold, Checked, Managing
      <4>2. q.step = "update" => q.target \in Id /\ users[q.target].role = q.read.role
        BY <3>1 DEF CopiesHold, Checked
      <4>3. q.actor = i => row.role = users[i].role
        BY DEF DependsOn
      <4>4. q.step = "update" /\ q.target = i => row.role = users[i].role
        BY DEF DependsOn
      <4> QED
        BY <3>7, <4>1, <4>2, <4>3, <4>4
    <3> HIDE DEF q, out
    <3> QED
      BY <3>4, <3>6, <3>8
  <2> QED
    BY <2>1, <2>2
<1>3. request' \in [Task -> Requests]
  <2>1. request' = [u \in Task |-> request'[u]]
    BY DEF Commits
  <2> QED
    BY <2>1, <1>2
<1> QED
  BY <1>1, <1>2, <1>3

\* A commit by a request on good copies leaves its actor, an admin, in the table;
\* one on bad copies is a race.
LEMMA CommitKeepsAnAdmin ==
  ASSUME AccountsInv, NEW t \in Task, NEW i \in Id, NEW row \in Rows, Commits(t, i, row),
         request[t].stale \/ row.role = users[i].role \/ row.role = "admin"
           \/ (request[t].step \in Managing /\ request[t].actor # i)
  PROVE  NoLockoutUnlessRaced'
<1> DEFINE q == request[t]
<1>1. users \in [Id -> Rows] /\ users' = [users EXCEPT ![i] = row]
  BY DEF AccountsInv, AccountsTypeOK, Commits
<1>2. raced' = (raced \/ q.stale)
  BY DEF Commits
<1>3. CopiesHold(q) /\ Checked(q)
  BY DEF AccountsInv
<1> SUFFICES ASSUME ~raced, ~q.stale, NEW j \in Id, users'[j].role # "none"
             PROVE  \E k \in Id : users'[k].role = "admin"
  BY <1>2 DEF NoLockoutUnlessRaced, Present, Admins
<1>4. CASE row.role = users[i].role
  <2>1. users[j].role # "none"
    BY <1>1, <1>4
  <2>2. PICK k \in Id : users[k].role = "admin"
    BY <2>1 DEF AccountsInv, NoLockoutUnlessRaced, Present, Admins
  <2> QED
    BY <1>1, <1>4, <2>2
<1>5. CASE row.role = "admin"
  BY <1>1, <1>5
<1>6. CASE q.step \in Managing /\ q.actor # i
  <2>1. q.actor \in Id /\ users[q.actor].role = "admin"
    BY <1>3, <1>6 DEF CopiesHold, Checked, Managing
  <2> QED
    BY <1>1, <1>6, <2>1
<1> QED
  BY <1>4, <1>5, <1>6

LEMMA CommitKeeps ==
  ASSUME AccountsInv, NEW t \in Task, NEW i \in Id, NEW row \in Rows, Commits(t, i, row),
         request[t].stale \/ row.role = users[i].role \/ row.role = "admin"
           \/ (request[t].step \in Managing /\ request[t].actor # i),
         issued' \subseteq Id, issued \subseteq issued', row.role = "none" \/ i \in issued'
  PROVE  AccountsInv'
<1>1. AccountsTypeOK'
  <2>1. \A j \in Id : Present(j)' => j \in issued'
    BY DEF AccountsInv, AccountsTypeOK, Commits, Present
  <2> QED
    BY <2>1, CommitKeepsRequests DEF AccountsTypeOK, AccountsInv, Commits
<1> QED
  BY <1>1, CommitKeepsRequests, CommitKeepsAnAdmin DEF AccountsInv

LEMMA InsertUserKeeps ==
  ASSUME AccountsInv, NEW t \in Task, InsertUser(t)
  PROVE  AccountsInv'
<1> DEFINE q == request[t]
           row == NewRow(q.gives, q.sets)
<1>1. PICK i \in Id \ issued : issued' = issued \cup {i} /\ Commits(t, i, row)
  BY DEF InsertUser
<1>2. q \in Requests /\ CopiesHold(q) /\ Checked(q) /\ q.step = "create"
  BY DEF AccountsInv, AccountsTypeOK, InsertUser
<1>3. row \in Rows
  BY <1>2 DEF NewRow, Rows, Requests, Checked
<1>4. ~q.stale => q.actor # i
  <2> SUFFICES ASSUME ~q.stale PROVE q.actor \in issued
    BY <1>1
  <2>1. q.actor \in Id /\ users[q.actor].role = "admin"
    BY <1>2 DEF CopiesHold, Checked, Managing
  <2> QED
    BY <2>1 DEF AccountsInv, AccountsTypeOK, Present
<1>5. q.step \in Managing
  BY <1>2 DEF Managing
<1>6. issued' \subseteq Id /\ issued \subseteq issued' /\ i \in issued'
  BY <1>1 DEF AccountsInv, AccountsTypeOK
<1> HIDE DEF row
<1> QED
  BY <1>1, <1>3, <1>4, <1>5, <1>6, CommitKeeps

LEMMA FindUserKeeps ==
  ASSUME AccountsInv, NEW t \in Task, FindUser(t)
  PROVE  AccountsInv'
<1> DEFINE q == request[t]
           r == request'[t]
<1>1. q \in Requests /\ CopiesHold(q) /\ Checked(q) /\ q.step = "find"
  BY DEF AccountsInv, AccountsTypeOK, FindUser
<1>2. q.target \in Id /\ users[q.target] \in Rows /\ users[q.target].role \in Roles
  BY <1>1 DEF AccountsInv, AccountsTypeOK, FindUser, Checked, Present, Rows
<1>3. PICK m : m = [q EXCEPT !.step = "update"]
  OBVIOUS
<1>4. r = [m EXCEPT !.read = users[q.target]]
  BY <1>3 DEF FindUser, AccountsInv, AccountsTypeOK
<1>5. m \in Requests
  BY <1>1, <1>3 DEF Requests, Steps
<1>6. r \in Requests
  BY <1>2, <1>4, <1>5 DEF Requests
<1>7. /\ r.step = "update" /\ r.actor = q.actor /\ r.target = q.target
      /\ r.gives = q.gives /\ r.read = users[q.target] /\ r.stale = q.stale
  BY <1>1, <1>3, <1>4, <1>5 DEF Requests
<1>8. Begins(t, r)
  BY <1>1 DEF FindUser, Begins, AccountsInv, AccountsTypeOK
<1>9. CopiesHold(r)
  BY <1>1, <1>7 DEF CopiesHold, Managing
<1>10. Checked(r)
  BY <1>1, <1>2, <1>7 DEF Checked
<1> HIDE DEF r
<1> QED
  BY <1>6, <1>8, <1>9, <1>10, BeginningKeeps

LEMMA WriteUserKeeps ==
  ASSUME AccountsInv, NEW t \in Task, WriteUser(t)
  PROVE  AccountsInv'
<1> DEFINE q == request[t]
           i == q.target
           row == Patched(q, users[i])
<1>1. q \in Requests /\ CopiesHold(q) /\ Checked(q) /\ q.step = "update"
  BY DEF AccountsInv, AccountsTypeOK, WriteUser
<1>2. i \in Id /\ users[i] \in Rows /\ i \in issued
  BY <1>1 DEF AccountsInv, AccountsTypeOK, WriteUser, Checked
<1>3. row \in Rows
  BY <1>1, <1>2 DEF Patched, Rows, Requests, Checked
<1>4. row.role = IF q.gives = "keep" THEN q.read.role ELSE q.gives
  BY <1>2 DEF Patched, Rows
<1>5. ~q.stale /\ q.actor = i => row.role = users[i].role \/ row.role = "admin"
  BY <1>1, <1>4 DEF CopiesHold, Checked
<1>6. Commits(t, i, row) /\ issued' = issued /\ issued \subseteq Id
  BY DEF WriteUser, AccountsInv, AccountsTypeOK
<1>7. q.step \in Managing /\ q.stale \in BOOLEAN
  BY <1>1 DEF Managing, Requests
<1> HIDE DEF row
<1> QED
  BY <1>2, <1>3, <1>5, <1>6, <1>7, CommitKeeps

LEMMA RemoveUserKeeps ==
  ASSUME AccountsInv, NEW t \in Task, RemoveUser(t)
  PROVE  AccountsInv'
<1> DEFINE q == request[t]
<1>1. q \in Requests /\ Checked(q) /\ q.step = "delete"
  BY DEF AccountsInv, AccountsTypeOK, RemoveUser
<1>2. q.target \in Id /\ q.target # q.actor /\ q.step \in Managing
  BY <1>1 DEF Checked, Managing
<1>3. Commits(t, q.target, NoRow) /\ issued' = issued /\ issued \subseteq Id
  BY DEF RemoveUser, AccountsInv, AccountsTypeOK
<1>4. NoRow \in Rows /\ NoRow.role = "none"
  BY InitialPassword DEF NoRow
<1> QED
  BY <1>2, <1>3, <1>4, CommitKeeps

LEMMA WritePasswordKeeps ==
  ASSUME AccountsInv, NEW t \in Task, WritePassword(t)
  PROVE  AccountsInv'
<1> DEFINE q == request[t]
           i == q.target
           row == [users[i] EXCEPT !.password = q.sets]
<1>1. q \in Requests /\ Checked(q) /\ q.step = "password"
  BY DEF AccountsInv, AccountsTypeOK, WritePassword
<1>2. i \in Id /\ users[i] \in Rows /\ i \in issued
  BY <1>1 DEF AccountsInv, AccountsTypeOK, WritePassword, Checked
<1>3. row \in Rows /\ row.role = users[i].role
  BY <1>1, <1>2 DEF Rows, Requests
<1>4. Commits(t, i, row) /\ issued' = issued /\ issued \subseteq Id
  BY DEF WritePassword, AccountsInv, AccountsTypeOK
<1> HIDE DEF row
<1> QED
  BY <1>2, <1>3, <1>4, CommitKeeps

LEMMA EndsKeeps ==
  ASSUME AccountsInv, NEW t \in Task, Ends(t)
  PROVE  AccountsInv'
BY IdleIsFine, BeginningKeeps DEF Ends, Begins

\* The handlers pass on what they have checked.
LEMMA RequestsKeep ==
  ASSUME AccountsInv, NEW t \in Task, NEW i \in Id,
         CreateUser(t, i) \/ UpdateUser(t, i) \/ DeleteUser(t, i) \/ ChangeOwnPassword(t, i)
  PROVE  AccountsInv'
<1>1. issued \subseteq Id
  BY DEF AccountsInv, AccountsTypeOK
<1>2. CASE CreateUser(t, i)
  <2>1. PICK role \in Roles, p \in Password : Begins(t, New("create", i, NoId, role, p))
    BY <1>2 DEF CreateUser
  <2> DEFINE r == New("create", i, NoId, role, p)
  <2>2. r \in Requests
    BY NewIsRequest DEF Steps
  <2>3. CopiesHold(r) /\ Checked(r)
    BY <1>2 DEF New, CreateUser, MayManage, CopiesHold, Checked
  <2> QED
    BY <2>1, <2>2, <2>3, BeginningKeeps
<1>3. CASE UpdateUser(t, i)
  <2>1. PICK target \in issued, gives \in Roles \cup {"keep"} :
          ~ChangesOwnRole(i, target, gives) /\ Begins(t, New("find", i, target, gives, Initially))
    BY <1>3 DEF UpdateUser
  <2> DEFINE r == New("find", i, target, gives, Initially)
  <2>2. r \in Requests
    BY <1>1, NewIsRequest, InitialPassword DEF Steps
  <2>3. CopiesHold(r) /\ Checked(r)
    BY <1>1, <1>3, <2>1
       DEF New, UpdateUser, MayManage, CopiesHold, Checked, ChangesOwnRole
  <2> QED
    BY <2>1, <2>2, <2>3, BeginningKeeps
<1>4. CASE DeleteUser(t, i)
  <2>1. PICK target \in issued \ {i} : Begins(t, New("delete", i, target, "keep", Initially))
    BY <1>4 DEF DeleteUser
  <2> DEFINE r == New("delete", i, target, "keep", Initially)
  <2>2. r \in Requests
    BY <1>1, NewIsRequest, InitialPassword DEF Steps
  <2>3. CopiesHold(r) /\ Checked(r)
    BY <1>1, <1>4 DEF New, DeleteUser, MayManage, CopiesHold, Checked
  <2> QED
    BY <2>1, <2>2, <2>3, BeginningKeeps
<1>5. CASE ChangeOwnPassword(t, i)
  <2>1. PICK p \in Password : Begins(t, New("password", i, i, "keep", p))
    BY <1>5 DEF ChangeOwnPassword
  <2> DEFINE r == New("password", i, i, "keep", p)
  <2>2. r \in Requests
    BY NewIsRequest DEF Steps
  <2>3. CopiesHold(r) /\ Checked(r)
    BY DEF New, CopiesHold, Checked, Managing
  <2> QED
    BY <2>1, <2>2, <2>3, BeginningKeeps
<1> QED
  BY <1>2, <1>3, <1>4, <1>5

\* The bootstrap adds an admin to an empty table, or nothing.
LEMMA BootstrapKeeps ==
  ASSUME AccountsInv, CountsUsers \/ BootFails \/ \E i \in Id : CreatesAdmin(i)
  PROVE  AccountsInv'
<1>1. request' = request /\ raced' = raced /\ boot' \in {"starting", "creating", "serving"}
  BY DEF CountsUsers, BootFails, CreatesAdmin
<1>2. CASE CountsUsers \/ BootFails
  <2>1. users' = users /\ issued' = issued
    BY <1>2 DEF CountsUsers, BootFails
  <2> QED
    BY <1>1, <2>1
       DEF AccountsInv, AccountsTypeOK, Present, NoLockoutUnlessRaced, Admins, CopiesHold, Checked
<1>3. ASSUME NEW i \in Id, CreatesAdmin(i) PROVE AccountsInv'
  <2>1. /\ users \in [Id -> Rows] /\ i \notin issued /\ issued' = issued \cup {i}
        /\ users' = [users EXCEPT ![i] = NewRow("admin", Initially)]
        /\ issued \subseteq Id
    BY <1>3 DEF CreatesAdmin, AccountsInv, AccountsTypeOK
  <2>2. NewRow("admin", Initially) \in Rows /\ NewRow("admin", Initially).role = "admin"
    BY InitialPassword, AccountConstants DEF NewRow, Rows
  <2>3. users[i].role = "none"
    BY <2>1 DEF AccountsInv, AccountsTypeOK, Present
  <2>4. AccountsTypeOK'
    BY <1>1, <2>1, <2>2 DEF AccountsInv, AccountsTypeOK, Present
  <2>5. ASSUME NEW t \in Task PROVE (CopiesHold(request[t]) /\ Checked(request[t]))'
    <3>1. request[t] \in Requests /\ CopiesHold(request[t]) /\ Checked(request[t])
      BY DEF AccountsInv, AccountsTypeOK
    <3>2. Checked(request[t])'
      BY <1>1, <3>1 DEF Checked
    <3>3. \A j \in Id : j # i => users'[j] = users[j]
      BY <2>1
    <3>4. CopiesHold(request[t])'
      BY <1>1, <2>3, <3>1, <3>3, AccountConstants DEF CopiesHold, Checked, Managing
    <3> QED
      BY <3>2, <3>4
  <2>6. NoLockoutUnlessRaced'
    BY <2>1, <2>2 DEF NoLockoutUnlessRaced, Admins
  <2> QED
    BY <2>4, <2>5, <2>6 DEF AccountsInv
<1> QED
  BY <1>2, <1>3

LEMMA RestartKeeps ==
  ASSUME AccountsInv, Restarts
  PROVE  AccountsInv'
<1>1. AccountsTypeOK'
  BY IdleIsFine DEF Restarts, AccountsInv, AccountsTypeOK, Present
<1>2. ASSUME NEW t \in Task PROVE (CopiesHold(request[t]) /\ Checked(request[t]))'
  <2>1. request'[t] = Idle
    BY DEF Restarts
  <2> QED
    BY <2>1, IdleIsFine DEF CopiesHold, Checked, Idle, New, Managing
<1>3. NoLockoutUnlessRaced'
  BY DEF Restarts, AccountsInv, NoLockoutUnlessRaced, Present, Admins
<1> QED
  BY <1>1, <1>2, <1>3 DEF AccountsInv

LEMMA OthersKeep ==
  ASSUME AccountsInv, UNCHANGED accountVars
  PROVE  AccountsInv'
BY DEF accountVars, AccountsInv, AccountsTypeOK, NoLockoutUnlessRaced, Present, Admins,
       CopiesHold, Checked

THEOREM AccountsInvariant == ConsoleSpec => []AccountsInv
<1>1. Init => AccountsInv
  BY AccountsInitially DEF Init
<1>2. AccountsInv /\ [Next]_consoleVars => AccountsInv'
  <2> SUFFICES ASSUME AccountsInv, [Next]_consoleVars PROVE AccountsInv'
    OBVIOUS
  <2>1. CASE AccountRequest
    BY <2>1, RequestsKeep DEF AccountRequest
  <2>2. CASE Bootstrap
    BY <2>2, BootstrapKeeps DEF Bootstrap
  <2>3. CASE AccountStatement
    BY <2>3, InsertUserKeeps, FindUserKeeps, WriteUserKeeps, RemoveUserKeeps,
       WritePasswordKeeps, EndsKeeps DEF AccountStatement
  <2>4. CASE Restart
    BY <2>4, RestartKeeps DEF Restart
  <2>5. CASE InstanceRequest \/ SettingsRequest \/ SettingsStatement
      \/ EnvironmentRequest \/ EnvironmentStatement
    BY <2>5, OthersKeep
       DEF InstanceRequest, SettingsRequest, SettingsStatement, EnvironmentRequest,
           EnvironmentStatement
  <2>6. CASE \E c \in Call : FleetStatement(c) \/ FleetAnswer(c) \/ FleetTimeout(c)
    BY <2>6, OthersKeep DEF FleetStatement, FleetAnswer, FleetTimeout
  <2>7. CASE UNCHANGED consoleVars
    BY <2>7, OthersKeep DEF consoleVars
  <2> QED
    BY <2>1, <2>2, <2>3, <2>4, <2>5, <2>6, <2>7 DEF Next
<1> QED
  BY <1>1, <1>2, PTL DEF ConsoleSpec

\* The anti-lockout checks: a console that has users has an admin, unless a request
\* committed on copies that were out of date.
THEOREM AdminsRemain == ConsoleSpec => []NoLockoutUnlessRaced
<1>1. AccountsInv => NoLockoutUnlessRaced
  BY DEF AccountsInv
<1> QED
  BY <1>1, AccountsInvariant, PTL

\* The users and the requests about them have their types.
THEOREM AccountsTypes == ConsoleSpec => []AccountsTypeOK
<1>1. AccountsInv => AccountsTypeOK
  BY DEF AccountsInv
<1> QED
  BY <1>1, AccountsInvariant, PTL

-----------------------------------------------------------------------------
(* What no step does.                                                       *)

StaysDeleted == \A i \in issued : ~Present(i) => ~Present(i)'
SetByOwner ==
  \A i \in Id :
    Present(i) /\ Present(i)' /\ users'[i].password # users[i].password =>
      \E t \in Task : /\ request[t].step = "password"
                      /\ request[t].actor = i
                      /\ request[t].sets = users'[i].password

LEMMA NoChange ==
  ASSUME users' = users
  PROVE  StaysDeleted /\ SetByOwner
BY DEF StaysDeleted, SetByOwner, Present

\* A row changes that was there or is new, and keeps its password or has it set by
\* its owner.
LEMMA RowChange ==
  ASSUME AccountsInv, NEW i \in Id, NEW row \in Rows, users' = [users EXCEPT ![i] = row],
         Present(i) \/ i \notin issued,
         \/ ~Present(i) \/ row.role = "none" \/ row.password = users[i].password
         \/ \E t \in Task : request[t].step = "password" /\ request[t].actor = i
                            /\ request[t].sets = row.password
  PROVE  StaysDeleted /\ SetByOwner
<1>1. users \in [Id -> Rows] /\ issued \subseteq Id
  BY DEF AccountsInv, AccountsTypeOK
<1>2. StaysDeleted
  BY <1>1 DEF StaysDeleted, Present
<1>3. ASSUME NEW j \in Id, Present(j), Present(j)', users'[j].password # users[j].password
      PROVE  \E t \in Task : request[t].step = "password" /\ request[t].actor = j
                             /\ request[t].sets = users'[j].password
  <2>1. j = i /\ users'[i] = row
    BY <1>1, <1>3
  <2> QED
    BY <1>3, <2>1 DEF Present
<1> QED
  BY <1>2, <1>3 DEF SetByOwner

LEMMA StatementsOnlySo ==
  ASSUME AccountsInv, NEW t \in Task,
         InsertUser(t) \/ FindUser(t) \/ WriteUser(t) \/ RemoveUser(t) \/ WritePassword(t) \/ Ends(t)
  PROVE  StaysDeleted /\ SetByOwner
<1> DEFINE q == request[t]
<1>1. q \in Requests /\ Checked(q) /\ users \in [Id -> Rows] /\ issued \subseteq Id
  BY DEF AccountsInv, AccountsTypeOK
<1>2. CASE InsertUser(t)
  <2>1. PICK i \in Id \ issued : Commits(t, i, NewRow(q.gives, q.sets))
    BY <1>2 DEF InsertUser
  <2>2. NewRow(q.gives, q.sets) \in Rows
    BY <1>1, <1>2 DEF InsertUser, NewRow, Rows, Requests, Checked
  <2>3. ~Present(i)
    BY DEF AccountsInv, AccountsTypeOK
  <2> QED
    BY <2>1, <2>2, <2>3, RowChange DEF Commits
<1>3. CASE WriteUser(t)
  <2>1. q.target \in Id /\ Present(q.target) /\ Commits(t, q.target, Patched(q, users[q.target]))
    BY <1>1, <1>3 DEF WriteUser, Checked
  <2>2. /\ Patched(q, users[q.target]) \in Rows
        /\ Patched(q, users[q.target]).password = users[q.target].password
    BY <1>1, <1>3, <2>1 DEF WriteUser, Patched, Rows, Requests, Checked
  <2> QED
    BY <2>1, <2>2, RowChange DEF Commits
<1>4. CASE RemoveUser(t)
  <2>1. q.target \in Id /\ Present(q.target) /\ Commits(t, q.target, NoRow)
    BY <1>1, <1>4 DEF RemoveUser, Checked
  <2>2. NoRow \in Rows /\ NoRow.role = "none"
    BY InitialPassword DEF NoRow
  <2> QED
    BY <2>1, <2>2, RowChange DEF Commits
<1>5. CASE WritePassword(t)
  <2> DEFINE row == [users[q.target] EXCEPT !.password = q.sets]
  <2>1. /\ q.target \in Id /\ Present(q.target) /\ q.actor = q.target /\ q.step = "password"
        /\ Commits(t, q.target, row)
    BY <1>1, <1>5 DEF WritePassword, Checked
  <2>2. row \in Rows /\ row.password = q.sets
    BY <1>1, <2>1 DEF Rows, Requests
  <2> HIDE DEF row
  <2>3. users' = [users EXCEPT ![q.target] = row]
    BY <2>1 DEF Commits
  <2> QED
    BY <2>1, <2>2, <2>3, RowChange
<1>6. CASE FindUser(t) \/ Ends(t)
  BY <1>6, NoChange DEF FindUser, Ends
<1> QED
  BY <1>2, <1>3, <1>4, <1>5, <1>6

LEMMA EveryStepOnlySo ==
  ASSUME AccountsInv, [Next]_consoleVars
  PROVE  StaysDeleted /\ SetByOwner
<1>1. CASE AccountStatement
  BY <1>1, StatementsOnlySo DEF AccountStatement
<1>2. CASE Bootstrap
  <2>1. CASE \E i \in Id : CreatesAdmin(i)
    <3>1. PICK i \in Id \ issued : users' = [users EXCEPT ![i] = NewRow("admin", Initially)]
      BY <2>1 DEF CreatesAdmin
    <3>2. NewRow("admin", Initially) \in Rows /\ ~Present(i)
      BY InitialPassword, AccountConstants DEF NewRow, Rows, AccountsInv, AccountsTypeOK
    <3> QED
      BY <3>1, <3>2, RowChange
  <2>2. CASE CountsUsers \/ BootFails
    BY <2>2, NoChange DEF CountsUsers, BootFails
  <2> QED
    BY <1>2, <2>1, <2>2 DEF Bootstrap
<1>3. CASE AccountRequest
  BY <1>3, NoChange DEF AccountRequest, CreateUser, UpdateUser, DeleteUser, ChangeOwnPassword, Begins
<1>4. CASE Restart
  BY <1>4, NoChange DEF Restart, Restarts
<1>5. CASE InstanceRequest \/ SettingsRequest \/ SettingsStatement
      \/ EnvironmentRequest \/ EnvironmentStatement
  BY <1>5, NoChange
     DEF InstanceRequest, SettingsRequest, SettingsStatement, EnvironmentRequest,
         EnvironmentStatement, accountVars
<1>6. CASE \E c \in Call : FleetStatement(c) \/ FleetAnswer(c) \/ FleetTimeout(c)
  BY <1>6, NoChange DEF FleetStatement, FleetAnswer, FleetTimeout, accountVars
<1>7. CASE UNCHANGED consoleVars
  BY <1>7, NoChange DEF consoleVars, accountVars
<1> QED
  BY <1>1, <1>2, <1>3, <1>4, <1>5, <1>6, <1>7 DEF Next

\* No request that was under way when a user was deleted brings the user back.
THEOREM DeletionsLast == ConsoleSpec => DeletedUsersStayDeleted
<1>1. AccountsInv /\ [Next]_consoleVars => [StaysDeleted]_accountVars
  BY EveryStepOnlySo
<1>2. [][StaysDeleted]_accountVars => DeletedUsersStayDeleted
  BY PTL DEF StaysDeleted, DeletedUsersStayDeleted
<1> QED
  BY <1>1, <1>2, AccountsInvariant, PTL DEF ConsoleSpec

\* No update by an administrator takes back a password its owner has set.
THEOREM PasswordsAreTheirOwners == ConsoleSpec => OnlyOwnersSetPasswords
<1>1. AccountsInv /\ [Next]_consoleVars => [SetByOwner]_accountVars
  BY EveryStepOnlySo
<1>2. [][SetByOwner]_accountVars => OnlyOwnersSetPasswords
  BY PTL DEF SetByOwner, OnlyOwnersSetPasswords
<1> QED
  BY <1>1, <1>2, AccountsInvariant, PTL DEF ConsoleSpec

-----------------------------------------------------------------------------
(* The instances.                                                           *)

\* What a call can rely on: its instance has been registered, and, unless the call was
\* told otherwise, the row it has read is there and the name it looked up is free.
Relies(r) ==
  /\ r.step \in {"get", "save", "delete", "post", "record"} => r.id \in registered
  /\ ~r.outdated /\ r.step = "save" => instances[r.id] = r.read
  /\ ~r.outdated /\ r.step = "insert" => \A i \in Inst : instances[i].name # r.name

FleetInv ==
  /\ FleetTypeOK
  /\ \A c \in Call : Relies(call[c])
  /\ NamesAreUniqueUnlessMixed

LEMMA NoCallIsFine ==
  /\ NoCall \in Calls /\ Gone \in InstanceRows
  /\ NoCall.step = "idle" /\ Gone.name = NoName
BY DEF NoCall, Calls, Gone, InstanceRows, CallSteps

LEMMA FleetInitially == FleetInit => FleetInv
<1> SUFFICES ASSUME FleetInit PROVE FleetInv
  OBVIOUS
<1>1. FleetTypeOK
  BY NoCallIsFine DEF FleetInit, FleetTypeOK, Here
<1>2. \A c \in Call : Relies(call[c])
  BY NoCallIsFine DEF FleetInit, Relies
<1>3. NamesAreUniqueUnlessMixed
  BY NoCallIsFine DEF FleetInit, NamesAreUniqueUnlessMixed, Here
<1> QED
  BY <1>1, <1>2, <1>3 DEF FleetInv

\* A step that only moves its own call on.
LEMMA OnlyCalls ==
  ASSUME FleetInv, NEW c \in Call, NEW r \in Calls, call' = [call EXCEPT ![c] = r],
         UNCHANGED <<instances, registered, mixed>>, Relies(r)
  PROVE  FleetInv'
<1>1. \A d \in Call : call'[d] = IF d = c THEN r ELSE call[d]
  BY DEF FleetInv, FleetTypeOK
<1>2. FleetTypeOK'
  BY <1>1 DEF FleetInv, FleetTypeOK, Here
<1>3. \A d \in Call : Relies(call[d])'
  BY <1>1 DEF FleetInv, Relies
<1>4. NamesAreUniqueUnlessMixed'
  BY DEF FleetInv, NamesAreUniqueUnlessMixed, Here
<1> QED
  BY <1>2, <1>3, <1>4 DEF FleetInv

\* A call that has just begun, or goes on, without having read anything.
LEMMA NothingRead ==
  ASSUME NEW r, r.step \notin {"save", "insert"},
         r.step \in {"get", "delete", "post", "record"} => r.id \in registered
  PROVE  Relies(r)
BY DEF Relies

\* A statement that writes a row: what the other calls rely on still holds, unless
\* they have been told.
LEMMA SavesKeep ==
  ASSUME FleetInv, NEW c \in Call, NEW i \in Inst, NEW row \in InstanceRows,
         NEW next \in Calls, next.step \notin {"get", "save", "delete", "post", "record", "insert"},
         Saves(c, i, row, next), registered \subseteq registered', registered' \subseteq Inst,
         row.name # NoName => i \in registered',
         ~mixed' => \A j \in Inst \ {i} : row.name = NoName \/ row.name # instances[j].name
  PROVE  FleetInv'
<1>1. /\ instances' = [instances EXCEPT ![i] = row]
      /\ mixed' = (mixed \/ call[c].outdated)
  BY DEF Saves
<1>2. FleetTypeOK
  BY DEF FleetInv
<1>3. \A j \in Inst : instances'[j] = IF j = i THEN row ELSE instances[j]
  BY <1>1, <1>2 DEF FleetTypeOK
<1>4. call'[c] = next
  BY DEF Saves
<1>5. ASSUME NEW d \in Call, d # c
      PROVE  /\ call'[d] \in Calls
             /\ Relies(call[d])'
  <2> DEFINE r == call[d]
             told == Outdates(i, row, r)
             new == [r EXCEPT !.outdated = @ \/ told]
  <2>1. call'[d] = new
    BY <1>5 DEF Saves
  <2>2. r \in Calls /\ Relies(r)
    BY <1>2 DEF FleetTypeOK, FleetInv
  <2>3. told \in BOOLEAN
    BY DEF Outdates
  <2>4. ~told => /\ r.step = "save" /\ r.id = i => row = instances[i]
                 /\ r.step = "insert" /\ r.name = row.name => row.name = instances[i].name
    BY DEF Outdates
  <2> HIDE DEF r, told
  <2>5. new \in Calls
    BY <2>2, <2>3 DEF Calls
  <2>6. /\ new.step = r.step /\ new.id = r.id /\ new.name = r.name /\ new.read = r.read
        /\ ~new.outdated => ~r.outdated /\ ~told
    BY <2>2, <2>3 DEF Calls
  <2> HIDE DEF new
  <2>7. new.step \in {"get", "save", "delete", "post", "record"} => new.id \in registered'
    BY <2>2, <2>6 DEF Relies
  <2>8. ~new.outdated /\ new.step = "save" => instances'[new.id] = new.read
    BY <1>2, <1>3, <2>2, <2>4, <2>6 DEF Relies, FleetTypeOK
  <2>9. ~new.outdated /\ new.step = "insert" => \A j \in Inst : instances'[j].name # new.name
    BY <1>3, <2>2, <2>4, <2>6 DEF Relies
  <2> QED
    BY <2>1, <2>5, <2>7, <2>8, <2>9 DEF Relies
<1>6. Relies(call[c])'
  BY <1>4 DEF Relies
<1>7. FleetTypeOK'
  <2>1. instances' \in [Inst -> InstanceRows]
    BY <1>1, <1>2 DEF FleetTypeOK
  <2>2. call' \in [Call -> Calls]
    <3>1. DOMAIN call' = Call /\ \A d \in Call : call'[d] \in Calls
      BY <1>4, <1>5 DEF Saves
    <3>2. call' = [d \in Call |-> call'[d]]
      BY DEF Saves
    <3> QED
      BY <3>1, <3>2
  <2>3. mixed' \in BOOLEAN
    BY <1>1, <1>2 DEF FleetTypeOK, Calls
  <2>4. \A j \in Inst : Here(j)' => j \in registered'
    BY <1>2, <1>3 DEF FleetTypeOK, Here
  <2> QED
    BY <2>1, <2>2, <2>3, <2>4 DEF FleetTypeOK
<1>8. NamesAreUniqueUnlessMixed'
  <2> SUFFICES ASSUME NEW j \in Inst, NEW k \in Inst, j # k, Here(j)', Here(k)', ~mixed'
               PROVE  instances'[j].name # instances'[k].name
    BY DEF NamesAreUniqueUnlessMixed
  <2>1. ~mixed
    BY <1>1, <1>2 DEF FleetTypeOK, Calls
  <2>2. CASE j # i /\ k # i
    BY <1>3, <2>1, <2>2 DEF FleetInv, NamesAreUniqueUnlessMixed, Here
  <2>3. CASE j = i \/ k = i
    BY <1>3, <2>3 DEF Here
  <2> QED
    BY <2>2, <2>3
<1> QED
  BY <1>5, <1>6, <1>7, <1>8 DEF FleetInv

\* The beginnings of calls.
LEMMA StartsKeep ==
  ASSUME FleetInv, NEW c \in Call, NEW r \in Calls, Starts(c, r),
         r.step \notin {"save", "insert"},
         r.step \in {"get", "delete", "post", "record"} => r.id \in registered
  PROVE  FleetInv'
BY OnlyCalls, NothingRead DEF Starts

LEMMA RegisterKeeps ==
  ASSUME FleetInv, NEW c \in Call, NEW n \in Name, Register(c, n) PROVE FleetInv'
<1> DEFINE r == [NoCall EXCEPT !.step = "lookup", !.name = n]
<1>1. r \in Calls /\ r.step = "lookup"
  BY NoCallIsFine DEF NoCall, Calls, CallSteps
<1>2. Starts(c, r)
  BY DEF Register
<1> HIDE DEF r
<1> QED
  BY <1>1, <1>2, StartsKeep

LEMMA HeartbeatKeeps ==
  ASSUME FleetInv, NEW c \in Call, NEW i \in Inst, Heartbeat(c, i) PROVE FleetInv'
<1> DEFINE r == [NoCall EXCEPT !.step = "get", !.id = i]
<1>1. r \in Calls /\ r.step = "get" /\ r.id = i
  BY NoCallIsFine DEF NoCall, Calls, CallSteps
<1>2. Starts(c, r) /\ i \in registered
  BY DEF Heartbeat
<1> HIDE DEF r
<1> QED
  BY <1>1, <1>2, StartsKeep

LEMMA UnregisterKeeps ==
  ASSUME FleetInv, NEW c \in Call, NEW i \in Inst, Unregister(c, i) PROVE FleetInv'
<1> DEFINE r == [NoCall EXCEPT !.step = "delete", !.id = i]
<1>1. r \in Calls /\ r.step = "delete" /\ r.id = i
  BY NoCallIsFine DEF NoCall, Calls, CallSteps
<1>2. Starts(c, r) /\ i \in registered
  BY DEF Unregister
<1> HIDE DEF r
<1> QED
  BY <1>1, <1>2, StartsKeep

LEMMA PushToKeeps ==
  ASSUME FleetInv, NEW c \in Call, NEW i \in Inst, PushTo(c, i) PROVE FleetInv'
<1> DEFINE r == [NoCall EXCEPT !.step = "pick", !.todo = {i}]
<1>1. r \in Calls /\ r.step = "pick"
  BY NoCallIsFine DEF NoCall, Calls, CallSteps
<1>2. Starts(c, r)
  BY DEF PushTo
<1> HIDE DEF r
<1> QED
  BY <1>1, <1>2, StartsKeep

LEMMA PushToAllKeeps ==
  ASSUME FleetInv, NEW c \in Call, PushToAll(c) PROVE FleetInv'
<1> DEFINE r == [NoCall EXCEPT !.step = "list"]
<1>1. r \in Calls /\ r.step = "list"
  BY NoCallIsFine DEF NoCall, Calls, CallSteps
<1>2. Starts(c, r)
  BY DEF PushToAll
<1> HIDE DEF r
<1> QED
  BY <1>1, <1>2, StartsKeep

\* The statements.
LEMMA CallEndsKeeps == ASSUME FleetInv, NEW c \in Call, CallEnds(c) PROVE FleetInv'
BY NoCallIsFine, OnlyCalls, NothingRead DEF CallEnds, GoesOnAs

LEMMA LooksUpNameKeeps == ASSUME FleetInv, NEW c \in Call, LooksUpName(c) PROVE FleetInv'
<1> DEFINE old == call[c]
           r == [old EXCEPT !.step = "insert"]
<1>1. old \in Calls /\ (\A i \in Inst : instances[i].name # old.name)
      /\ call' = [call EXCEPT ![c] = r] /\ UNCHANGED <<instances, registered, mixed>>
  BY DEF LooksUpName, GoesOnAs, FleetInv, FleetTypeOK
<1> HIDE DEF old
<1>2. r \in Calls /\ r.step = "insert" /\ r.name = old.name
  BY <1>1 DEF Calls, CallSteps
<1> HIDE DEF r
<1>3. Relies(r)
  BY <1>1, <1>2 DEF Relies
<1> QED
  BY <1>1, <1>2, <1>3, OnlyCalls

LEMMA InsertsInstanceKeeps ==
  ASSUME FleetInv, NEW c \in Call, InsertsInstance(c) PROVE FleetInv'
<1> DEFINE name == call[c].name
           row == [name |-> name, status |-> "connected", synced |-> FALSE]
<1>1. PICK i \in Inst \ registered :
        registered' = registered \cup {i} /\ Saves(c, i, row, NoCall)
  BY DEF InsertsInstance
<1>2. call[c] \in Calls /\ call[c].step = "insert" /\ Relies(call[c])
      /\ registered \subseteq Inst /\ mixed \in BOOLEAN
  BY DEF InsertsInstance, FleetInv, FleetTypeOK
<1>3. row \in InstanceRows /\ row.name = name
  BY <1>2 DEF InstanceRows, Calls
<1>4. ~mixed' => \A j \in Inst : name # instances[j].name
  BY <1>1, <1>2 DEF Saves, Relies, Calls
<1>5. registered \subseteq registered' /\ registered' \subseteq Inst /\ i \in registered'
  BY <1>1, <1>2
<1> HIDE DEF name, row
<1> QED
  BY <1>1, <1>3, <1>4, <1>5, NoCallIsFine, SavesKeep

LEMMA GetsInstanceKeeps == ASSUME FleetInv, NEW c \in Call, GetsInstance(c) PROVE FleetInv'
<1> DEFINE old == call[c]
           row == instances[old.id]
           r == [old EXCEPT !.step = "save", !.read = row]
<1>1. old \in Calls /\ old.step = "get" /\ old.id \in registered
      /\ call' = [call EXCEPT ![c] = r] /\ UNCHANGED <<instances, registered, mixed>>
  BY DEF GetsInstance, GoesOnAs, FleetInv, FleetTypeOK, Relies
<1>2. row \in InstanceRows
  BY <1>1 DEF FleetInv, FleetTypeOK
<1>3. row = instances[old.id]
  OBVIOUS
<1> HIDE DEF old, row
<1>4. r \in Calls /\ r.step = "save" /\ r.id = old.id /\ r.read = row
  BY <1>1, <1>2 DEF Calls, CallSteps
<1> HIDE DEF r
<1>5. Relies(r)
  BY <1>1, <1>3, <1>4 DEF Relies
<1> QED
  BY <1>1, <1>4, <1>5, OnlyCalls

\* A call of a registered instance writes its row under the name the row has.
LEMMA RowKeeps ==
  ASSUME FleetInv, NEW c \in Call, NEW i \in registered, NEW row \in InstanceRows,
         NEW next \in Calls, next.step \in {"idle", "pick"},
         Saves(c, i, row, next), UNCHANGED registered,
         ~mixed' => row.name = instances[i].name \/ row.name = NoName
  PROVE  FleetInv'
<1>1. registered \subseteq Inst /\ i \in Inst /\ mixed \in BOOLEAN /\ call[c] \in Calls
  BY DEF FleetInv, FleetTypeOK
<1>2. ASSUME ~mixed', NEW j \in Inst \ {i}
      PROVE  row.name = NoName \/ row.name # instances[j].name
  <2>1. ~mixed
    BY <1>1, <1>2 DEF Saves, Calls
  <2> QED
    BY <1>1, <1>2, <2>1 DEF FleetInv, NamesAreUniqueUnlessMixed, Here
<1>3. next.step \notin {"get", "save", "delete", "post", "record", "insert"}
  OBVIOUS
<1> QED
  BY <1>1, <1>2, <1>3, SavesKeep

LEMMA SavesInstanceKeeps == ASSUME FleetInv, NEW c \in Call, SavesInstance(c) PROVE FleetInv'
<1> DEFINE old == call[c]
           row == Beaten(old.read)
<1>1. old \in Calls /\ old.step = "save" /\ Relies(old)
      /\ Saves(c, old.id, row, NoCall) /\ UNCHANGED registered
  BY DEF SavesInstance, FleetInv, FleetTypeOK
<1>2. ~mixed' => ~old.outdated
  BY DEF SavesInstance, Saves
<1> HIDE DEF old
<1>3. row \in InstanceRows /\ row.name = old.read.name
  BY <1>1 DEF Calls, InstanceRows, Beaten
<1> HIDE DEF row
<1>4. old.id \in registered
  BY <1>1 DEF Relies
<1>5. ~mixed' => row.name = instances[old.id].name
  BY <1>1, <1>2, <1>3 DEF Relies
<1> QED
  BY <1>1, <1>3, <1>4, <1>5, NoCallIsFine, RowKeeps

LEMMA DeletesInstanceKeeps ==
  ASSUME FleetInv, NEW c \in Call, DeletesInstance(c) PROVE FleetInv'
<1>1. call[c].id \in registered /\ Saves(c, call[c].id, Gone, NoCall) /\ UNCHANGED registered
  BY DEF DeletesInstance, FleetInv, Relies
<1> QED
  BY <1>1, NoCallIsFine, RowKeeps

LEMMA ListsInstancesKeeps ==
  ASSUME FleetInv, NEW c \in Call, ListsInstances(c) PROVE FleetInv'
<1> DEFINE old == call[c]
<1>1. PICK page \in SUBSET {i \in Inst : Here(i)} :
        GoesOnAs(c, IF page = {} THEN NoCall ELSE [old EXCEPT !.step = "pick", !.todo = page])
  BY DEF ListsInstances
<1> DEFINE listed == [old EXCEPT !.step = "pick", !.todo = page]
<1>2. old \in Calls
  BY DEF FleetInv, FleetTypeOK
<1> HIDE DEF old
<1>3. listed \in Calls /\ listed.step = "pick"
  BY <1>1, <1>2 DEF Calls, CallSteps
<1> HIDE DEF listed
<1>4. Relies(listed) /\ Relies(NoCall)
  BY <1>3, NoCallIsFine, NothingRead
<1>5. CASE page = {}
  BY <1>1, <1>4, <1>5, NoCallIsFine, OnlyCalls DEF GoesOnAs
<1>6. CASE page # {}
  BY <1>1, <1>3, <1>4, <1>6, OnlyCalls DEF GoesOnAs, listed
<1> QED
  BY <1>5, <1>6

LEMMA PicksInstanceKeeps == ASSUME FleetInv, NEW c \in Call, PicksInstance(c) PROVE FleetInv'
<1> DEFINE old == call[c]
<1>1. PICK i \in old.todo :
        Here(i) /\ GoesOnAs(c, [old EXCEPT !.step = "post", !.id = i, !.todo = @ \ {i}])
  BY DEF PicksInstance
<1> DEFINE r == [old EXCEPT !.step = "post", !.id = i, !.todo = @ \ {i}]
<1>2. old \in Calls
  BY DEF FleetInv, FleetTypeOK
<1>3. i \in Inst /\ i \in registered
  BY <1>1, <1>2 DEF FleetInv, FleetTypeOK, Calls
<1>4. call' = [call EXCEPT ![c] = r] /\ UNCHANGED <<instances, registered, mixed>>
  BY <1>1 DEF GoesOnAs
<1> HIDE DEF old
<1>5. r \in Calls /\ r.step = "post" /\ r.id = i
  BY <1>2, <1>3 DEF Calls, CallSteps
<1> HIDE DEF r
<1> QED
  BY <1>3, <1>4, <1>5, NothingRead, OnlyCalls

\* An answer, or the timer of the client that waits for it.
LEMMA AnsweredKeeps ==
  ASSUME FleetInv, NEW c \in Call, NEW ok \in BOOLEAN, call[c].step = "post",
         GoesOnAs(c, [call[c] EXCEPT !.step = "record", !.accepted = ok])
  PROVE  FleetInv'
<1> DEFINE old == call[c]
           r == [old EXCEPT !.step = "record", !.accepted = ok]
<1>1. old \in Calls /\ old.id \in registered
      /\ call' = [call EXCEPT ![c] = r] /\ UNCHANGED <<instances, registered, mixed>>
  BY DEF FleetInv, FleetTypeOK, Relies, GoesOnAs
<1> HIDE DEF old
<1>2. r \in Calls /\ r.step = "record" /\ r.id = old.id
  BY <1>1 DEF Calls, CallSteps
<1> HIDE DEF r
<1> QED
  BY <1>1, <1>2, NothingRead, OnlyCalls

LEMMA NextPushIsCall ==
  ASSUME NEW r \in Calls
  PROVE  NextPush(r) \in Calls /\ NextPush(r).step \in {"idle", "pick"}
<1>1. CASE r.todo = {}
  BY <1>1, NoCallIsFine DEF NextPush
<1>2. CASE r.todo # {}
  BY <1>2 DEF NextPush, Calls, CallSteps
<1> QED
  BY <1>1, <1>2

LEMMA RecordsOutcomeKeeps ==
  ASSUME FleetInv, NEW c \in Call, RecordsOutcome(c) PROVE FleetInv'
<1> DEFINE old == call[c]
           i == old.id
           row == Recorded(instances[i], old.accepted)
<1>1. old \in Calls /\ i \in registered /\ Saves(c, i, row, NextPush(old))
      /\ UNCHANGED registered
  BY DEF RecordsOutcome, FleetInv, FleetTypeOK, Relies
<1>2. instances[i] \in InstanceRows /\ old.accepted \in BOOLEAN
  BY <1>1 DEF FleetInv, FleetTypeOK, Calls
<1>3. row \in InstanceRows /\ row.name = instances[i].name
  BY <1>2 DEF Recorded, InstanceRows
<1>4. NextPush(old) \in Calls /\ NextPush(old).step \in {"idle", "pick"}
  BY <1>1, NextPushIsCall
<1> HIDE DEF old, row
<1> QED
  BY <1>1, <1>3, <1>4, RowKeeps

LEMMA RecordsNothingKeeps ==
  ASSUME FleetInv, NEW c \in Call, RecordsNothing(c) PROVE FleetInv'
<1>1. call[c] \in Calls
  BY DEF FleetInv, FleetTypeOK
<1>2. NextPush(call[c]) \in Calls /\ NextPush(call[c]).step \in {"idle", "pick"}
  BY <1>1, NextPushIsCall
<1>3. Relies(NextPush(call[c]))
  BY <1>2, NothingRead
<1> QED
  BY <1>2, <1>3, OnlyCalls DEF RecordsNothing, GoesOnAs

LEMMA FleetStatementKeeps == ASSUME FleetInv, NEW c \in Call, Statement(c) PROVE FleetInv'
BY LooksUpNameKeeps, InsertsInstanceKeeps, GetsInstanceKeeps, SavesInstanceKeeps,
   DeletesInstanceKeeps, ListsInstancesKeeps, PicksInstanceKeeps, RecordsOutcomeKeeps,
   RecordsNothingKeeps, CallEndsKeeps DEF Statement

LEMMA FleetUntouched == ASSUME FleetInv, UNCHANGED fleetVars PROVE FleetInv'
BY DEF fleetVars, FleetInv, FleetTypeOK, Here, Relies, NamesAreUniqueUnlessMixed

LEMMA FleetRestartKeeps == ASSUME FleetInv, Restart PROVE FleetInv'
<1>1. call' = [c \in Call |-> NoCall] /\ UNCHANGED <<instances, registered, mixed>>
  BY DEF Restart
<1>2. \A c \in Call : Relies(call[c])'
  BY <1>1, NoCallIsFine DEF Relies
<1>3. FleetTypeOK'
  BY <1>1, NoCallIsFine DEF FleetInv, FleetTypeOK, Here
<1> QED
  BY <1>1, <1>2, <1>3 DEF FleetInv, NamesAreUniqueUnlessMixed, Here

LEMMA InstanceRequestKeeps == ASSUME FleetInv, InstanceRequest PROVE FleetInv'
BY RegisterKeeps, HeartbeatKeeps, UnregisterKeeps, PushToKeeps, PushToAllKeeps
   DEF InstanceRequest

THEOREM FleetInvariant == ConsoleSpec => []FleetInv
<1>1. Init => FleetInv
  BY FleetInitially DEF Init
<1>2. FleetInv /\ [Next]_consoleVars => FleetInv'
  <2> SUFFICES ASSUME FleetInv, [Next]_consoleVars PROVE FleetInv'
    OBVIOUS
  <2>1. CASE InstanceRequest
    BY <2>1, InstanceRequestKeeps
  <2>2. ASSUME NEW c \in Call, FleetStatement(c) \/ FleetAnswer(c) \/ FleetTimeout(c)
        PROVE  FleetInv'
    BY <2>2, FleetStatementKeeps, AnsweredKeeps
       DEF FleetStatement, FleetAnswer, FleetTimeout, PushAnswered, PushTimesOut
  <2>3. CASE Restart
    BY <2>3, FleetRestartKeeps
  <2>4. CASE AccountRequest \/ SettingsRequest \/ Bootstrap \/ AccountStatement
             \/ SettingsStatement \/ EnvironmentRequest \/ EnvironmentStatement
    BY <2>4, FleetUntouched
       DEF AccountRequest, SettingsRequest, Bootstrap, AccountStatement, SettingsStatement,
           EnvironmentRequest, EnvironmentStatement
  <2>5. CASE UNCHANGED consoleVars
    BY <2>5, FleetUntouched DEF consoleVars
  <2> QED
    BY <2>1, <2>2, <2>3, <2>4, <2>5 DEF Next
<1> QED
  BY <1>1, <1>2, PTL DEF ConsoleSpec

\* The instances and the calls about them have their types.
THEOREM FleetTypes == ConsoleSpec => []FleetTypeOK
<1>1. FleetInv => FleetTypeOK
  BY DEF FleetInv
<1> QED
  BY <1>1, FleetInvariant, PTL

\* Two instances share a name only if some call wrote on a copy, or after a check, that
\* was out of date (the handlers of instances.rs look before they insert).
THEOREM NamesAreUnique == ConsoleSpec => []NamesAreUniqueUnlessMixed
<1>1. FleetInv => NamesAreUniqueUnlessMixed
  BY DEF FleetInv
<1> QED
  BY <1>1, FleetInvariant, PTL

-----------------------------------------------------------------------------
(* The settings.                                                            *)

EditFields == {"step", "patch", "read", "late"}

\* What an edit has read is the row, unless it was told of another write.
SettingsInv ==
  /\ DOMAIN edit = Edit
  /\ \A e \in Edit :
       /\ DOMAIN edit[e] = EditFields
       /\ edit[e].step = "write" /\ ~edit[e].late => edit[e].read = settings

LEMMA NoEditIsIdle == DOMAIN NoEdit = EditFields /\ NoEdit.step = "idle"
BY DEF NoEdit, EditFields

LEMMA SettingsStart == SettingsInit => SettingsInv
BY NoEditIsIdle DEF SettingsInit, SettingsInv

LEMMA EditSettingsKeeps ==
  ASSUME SettingsInv, NEW e \in Edit, EditSettings(e) PROVE SettingsInv'
<1> DEFINE old == edit[e]
           new == [old EXCEPT !.step = "read"]
<1>2. edit' = [edit EXCEPT ![e] = new] /\ settings' = settings
  BY DEF EditSettings, SettingsInv
<1>3. DOMAIN new = EditFields /\ new.step = "read"
  BY DEF SettingsInv, EditFields
<1> HIDE DEF new
<1> QED
  BY <1>2, <1>3 DEF SettingsInv

LEMMA ReadsSettingsKeeps ==
  ASSUME SettingsInv, NEW e \in Edit, ReadsSettings(e) PROVE SettingsInv'
<1>1. PICK patch \in Patches :
        edit' = [edit EXCEPT ![e].step = "write", ![e].patch = patch, ![e].read = settings]
  BY DEF ReadsSettings
<1> DEFINE old == edit[e]
           new == [old EXCEPT !.step = "write", !.patch = patch, !.read = settings]
<1>2. edit' = [edit EXCEPT ![e] = new] /\ settings' = settings
  BY <1>1 DEF ReadsSettings, SettingsInv
<1>3. DOMAIN new = EditFields /\ new.read = settings
  BY DEF SettingsInv, EditFields
<1> HIDE DEF new
<1> QED
  BY <1>2, <1>3 DEF SettingsInv

\* The other edits between their read and their write are told of the write.
LEMMA WritesSettingsKeeps ==
  ASSUME SettingsInv, NEW e \in Edit, WritesSettings(e)
  PROVE  /\ SettingsInv'
         /\ settings' = PatchedSettings(edit[e])
         /\ \A d \in Edit \ {e} : edit'[d].step = edit[d].step
<1> DEFINE row == PatchedSettings(edit[e])
           differs == row # settings
<1>1. settings' = row
  BY DEF WritesSettings
<1>2. edit'[e] = NoEdit /\ DOMAIN edit' = Edit
  BY DEF WritesSettings
<1>3. ASSUME NEW d \in Edit, d # e
      PROVE  /\ DOMAIN edit'[d] = EditFields
             /\ edit'[d].step = edit[d].step
             /\ edit'[d].step = "write" /\ ~edit'[d].late => edit'[d].read = settings'
  <2> DEFINE old == edit[d]
             new == [old EXCEPT !.late = @ \/ differs]
  <2>1. edit'[d] = IF old.step = "write" THEN new ELSE old
    BY <1>3 DEF WritesSettings
  <2>2. DOMAIN old = EditFields /\ (old.step = "write" /\ ~old.late => old.read = settings)
    BY DEF SettingsInv
  <2>3. ~differs => settings' = settings
    BY <1>1
  <2> HIDE DEF old, differs
  <2>4. DOMAIN new = EditFields /\ new.step = old.step /\ new.read = old.read
        /\ new.late = (old.late \/ differs)
    BY <2>2 DEF EditFields
  <2> HIDE DEF new
  <2>5. CASE old.step = "write"
    BY <2>1, <2>2, <2>3, <2>4, <2>5 DEF old
  <2>6. CASE old.step # "write"
    BY <2>1, <2>2, <2>6 DEF old
  <2> QED
    BY <2>5, <2>6
<1>4. SettingsInv'
  BY <1>2, <1>3, NoEditIsIdle DEF SettingsInv
<1> QED
  BY <1>1, <1>3, <1>4

LEMMA EditEndsKeeps == ASSUME SettingsInv, NEW e \in Edit, EditEnds(e) PROVE SettingsInv'
BY NoEditIsIdle DEF EditEnds, SettingsInv

LEMMA SettingsSteps ==
  ASSUME SettingsInv, [Next]_consoleVars
  PROVE  SettingsInv' /\ EditsKeepFields
<1>1. CASE SettingsRequest
  BY <1>1, EditSettingsKeeps DEF SettingsRequest, EditSettings, EditsKeepFields
<1>2. ASSUME NEW e \in Edit, ReadsSettings(e) \/ EditEnds(e)
      PROVE  SettingsInv' /\ EditsKeepFields
  BY <1>2, ReadsSettingsKeeps, EditEndsKeeps DEF ReadsSettings, EditEnds, EditsKeepFields
<1>3. ASSUME NEW e \in Edit, WritesSettings(e)
      PROVE  SettingsInv' /\ EditsKeepFields
  <2>1. SettingsInv' /\ settings' = PatchedSettings(edit[e])
        /\ \A d \in Edit \ {e} : edit'[d].step = edit[d].step
    BY <1>3, WritesSettingsKeeps
  <2>2. ~edit[e].late =>
          \A f \in Field \ DOMAIN edit[e].patch : settings'[f] = settings[f]
    BY <1>3, <2>1 DEF WritesSettings, SettingsInv, PatchedSettings
  <2> QED
    BY <2>1, <2>2 DEF EditsKeepFields
<1>4. CASE SettingsStatement
  BY <1>2, <1>3, <1>4 DEF SettingsStatement
<1>5. CASE Restart
  BY <1>5, NoEditIsIdle DEF Restart, SettingsInv, EditsKeepFields
<1>6. CASE UNCHANGED settingsVars
  BY <1>6 DEF settingsVars, SettingsInv, EditsKeepFields
<1>7. CASE AccountRequest \/ InstanceRequest \/ Bootstrap \/ AccountStatement
        \/ EnvironmentRequest \/ EnvironmentStatement
  BY <1>6, <1>7 DEF AccountRequest, InstanceRequest, Bootstrap, AccountStatement,
                    EnvironmentRequest, EnvironmentStatement
<1>8. CASE \E c \in Call : FleetStatement(c) \/ FleetAnswer(c) \/ FleetTimeout(c)
  BY <1>6, <1>8 DEF FleetStatement, FleetAnswer, FleetTimeout
<1>9. CASE UNCHANGED consoleVars
  BY <1>6, <1>9 DEF consoleVars
<1> QED
  BY <1>1, <1>4, <1>5, <1>7, <1>8, <1>9 DEF Next

-----------------------------------------------------------------------------
(* The environments.                                                        *)

\* Those marked as templates were so from the start, and only they are referred to.
Proper(i, row) ==
  row.here /\ (row.template <=> i \in Templates) /\ row.from \in Templates \cup {NoEnv}

\* What a request has in hand is fit to be written, and an update's row refers to
\* what its environment refers to; it is the row of the table, unless told of a write.
InHand(r) ==
  /\ r.late => r.step = "save"
  /\ r.step = "insert" => r.row.here /\ ~r.row.template /\ r.row.from \in Templates \cup {NoEnv}
  /\ r.step = "save" =>
       /\ Proper(r.id, r.row)
       /\ ~r.late => r.row = environments[r.id]
       /\ Stands(r.id) => r.row.from = environments[r.id].from

Alike(r, s) == r.step = "save" /\ s.step = "save" /\ r.id = s.id => r.row.from = s.row.from

EnvironmentsInv ==
  /\ EnvironmentsTypeOK
  /\ Templates \subseteq made
  /\ \A i \in Env : /\ Stands(i) => Proper(i, environments[i])
                    /\ environments[i].from # NoEnv => Stands(i) /\ Stands(environments[i].from)
  /\ \A v \in Visit : InHand(visit[v])
  /\ \A v, w \in Visit : Alike(visit[v], visit[w])

LEMMA NowhereIsRow == Nowhere \in EnvironmentRows /\ ~Nowhere.here /\ Nowhere.from = NoEnv
BY EnvironmentConstants DEF Nowhere, EnvironmentRows

LEMMA NoVisitIsIdle == NoVisit \in Visits /\ NoVisit.step = "idle" /\ ~NoVisit.late
<1>1. [p \in {} |-> Blank] \in Wishes
  BY DEF Wishes
<1> QED
  BY <1>1, NowhereIsRow DEF NoVisit, Visits, VisitSteps

LEMMA EnvironmentsStart == EnvironmentsInit => EnvironmentsInv
<1> SUFFICES ASSUME EnvironmentsInit PROVE EnvironmentsInv
  OBVIOUS
<1> DEFINE marked == [Nowhere EXCEPT !.here = TRUE, !.template = TRUE]
<1>1. marked \in EnvironmentRows /\ marked.here /\ marked.template /\ marked.from = NoEnv
  BY NowhereIsRow DEF EnvironmentRows
<1>2. \A i \in Env : environments[i] = IF i \in Templates THEN marked ELSE Nowhere
  BY DEF EnvironmentsInit
<1>3. environments \in [Env -> EnvironmentRows] /\ made = Templates
      /\ visit = [v \in Visit |-> NoVisit]
  BY <1>1, NowhereIsRow DEF EnvironmentsInit
<1> HIDE DEF marked
<1>4. \A i \in Env : /\ Stands(i) => i \in Templates /\ Proper(i, environments[i])
                     /\ environments[i].from = NoEnv
  BY <1>1, <1>2, NowhereIsRow DEF Stands, Proper
<1>5. \A v \in Visit : visit[v] \in Visits /\ visit[v].step = "idle" /\ ~visit[v].late
  BY <1>3, NoVisitIsIdle
<1>6. EnvironmentsTypeOK
  BY <1>3, <1>4, <1>5, EnvironmentConstants DEF EnvironmentsTypeOK
<1> QED
  BY <1>3, <1>4, <1>5, <1>6 DEF EnvironmentsInv, InHand, Alike

LEMMA CopiesHaveTheirs == EnvironmentsInv => CopiesHaveTemplates
BY DEF EnvironmentsInv, EnvironmentsTypeOK, CopiesHaveTemplates, IsTemplate, Proper,
       EnvironmentRows

\* A step that leaves the rows alone.
LEMMA TurnKeeps ==
  ASSUME EnvironmentsInv, NEW v \in Visit, NEW r \in Visits, Turns(v, r), InHand(r),
         r.step \in {"template", "find", "save", "delete"} => r.id \in made,
         r.step = "save" => ~r.late
  PROVE  EnvironmentsInv' /\ OriginsStay /\ UpdatesKeepParts
<1>1. visit' = [visit EXCEPT ![v] = r] /\ environments' = environments /\ made' = made
  BY DEF Turns
<1>2. visit' \in [Visit -> Visits] /\ \A w \in Visit : visit'[w] = IF w = v THEN r ELSE visit[w]
  BY <1>1 DEF EnvironmentsInv, EnvironmentsTypeOK
<1>3. EnvironmentsTypeOK'
  BY <1>1, <1>2 DEF EnvironmentsInv, EnvironmentsTypeOK, Stands
<1>4. \A w \in Visit : InHand(visit[w])'
  BY <1>1, <1>2 DEF EnvironmentsInv, InHand, Stands
<1>5. \A w, u \in Visit : Alike(visit[w], visit[u])'
  <2> SUFFICES ASSUME NEW w \in Visit, NEW u \in Visit, w = v,
                      visit'[w].step = "save", visit'[u].step = "save",
                      visit'[w].id = visit'[u].id
               PROVE  visit'[w].row.from = visit'[u].row.from
    BY <1>2 DEF EnvironmentsInv, Alike
  <2>1. r.row = environments[r.id] /\ r.row.here
    BY <1>2 DEF InHand, Proper
  <2> QED
    BY <1>2, <2>1 DEF EnvironmentsInv, InHand, Stands
<1>6. EnvironmentsInv'
  BY <1>1, <1>3, <1>4, <1>5 DEF EnvironmentsInv, Stands, Proper
<1> QED
  BY <1>1, <1>6 DEF OriginsStay, UpdatesKeepParts

\* A row is written that is proper and refers to what its environment has always
\* referred to, or removed that nothing refers to.
LEMMA RowChangeKeeps ==
  ASSUME EnvironmentsInv, NEW v \in Visit, NEW i \in Env, NEW row \in EnvironmentRows,
         Keeps(v, i, row), made \subseteq made', made' \subseteq Env, i \in made',
         \/ /\ Proper(i, row) /\ Refers(row)
            /\ Stands(i) => row.from = environments[i].from
            /\ \A w \in Visit :
                 visit[w].step = "save" /\ visit[w].id = i => visit[w].row.from = row.from
         \/ /\ row = Nowhere
            /\ \A j \in Env : environments[j].from # i
  PROVE  /\ EnvironmentsInv' /\ OriginsStay
         /\ \A w \in Visit \ {v} : visit'[w].step = visit[w].step
<1>1. environments' \in [Env -> EnvironmentRows]
      /\ \A j \in Env : environments'[j] = IF j = i THEN row ELSE environments[j]
  BY DEF Keeps, EnvironmentsInv, EnvironmentsTypeOK
<1>2. visit'[v] = NoVisit
  BY DEF Keeps
<1>3. ASSUME NEW w \in Visit \ {v}
      PROVE  /\ visit'[w] \in Visits /\ visit'[w].step = visit[w].step
             /\ visit'[w].id = visit[w].id /\ visit'[w].row = visit[w].row
             /\ visit'[w].late = (visit[w].late \/ Changes(i, row, visit[w]))
  <2> DEFINE old == visit[w]
             out == Changes(i, row, visit[w])
             new == [old EXCEPT !.late = @ \/ out]
  <2>1. visit'[w] = new
    BY DEF Keeps
  <2>2. old \in Visits /\ out \in BOOLEAN
    BY DEF EnvironmentsInv, EnvironmentsTypeOK, Changes
  <2> HIDE DEF old, out
  <2>3. new \in Visits /\ new.step = old.step /\ new.id = old.id /\ new.row = old.row
        /\ new.late = (old.late \/ out)
    BY <2>2 DEF Visits
  <2> HIDE DEF new
  <2> QED
    BY <2>1, <2>3 DEF old, out
<1>4. visit' \in [Visit -> Visits]
  <2>1. visit' = [w \in Visit |-> visit'[w]]
    BY DEF Keeps
  <2>2. \A w \in Visit : visit'[w] \in Visits
    BY <1>2, <1>3, NoVisitIsIdle
  <2> QED
    BY <2>1, <2>2
<1>5. EnvironmentsTypeOK'
  <2>1. \A j \in Env : Stands(j)' => j \in made'
    BY <1>1 DEF Stands, EnvironmentsInv, EnvironmentsTypeOK
  <2>2. \A w \in Visit : visit'[w].step \in {"template", "find", "save", "delete"} =>
                           visit'[w].id \in made'
    BY <1>2, <1>3, NoVisitIsIdle DEF EnvironmentsInv, EnvironmentsTypeOK
  <2> QED
    BY <1>1, <1>4, <2>1, <2>2 DEF EnvironmentsTypeOK
<1>6. \A j \in Env : /\ Stands(j)' => Proper(j, environments'[j])
                     /\ environments'[j].from # NoEnv =>
                          Stands(j)' /\ environments'[environments'[j].from].here
  <2> SUFFICES ASSUME NEW j \in Env
               PROVE  /\ environments'[j].here => Proper(j, environments'[j])
                      /\ environments'[j].from # NoEnv =>
                           environments'[j].here /\ environments'[environments'[j].from].here
    BY DEF Stands
  <2>1. /\ environments[j].here => Proper(j, environments[j])
        /\ environments[j].from # NoEnv =>
             environments[j].here /\ environments[environments[j].from].here
    BY DEF EnvironmentsInv, Stands
  <2>2. environments[j].from \in Env \cup {NoEnv} /\ row.from \in Env \cup {NoEnv}
    BY DEF EnvironmentsInv, EnvironmentsTypeOK, EnvironmentRows
  <2>3. CASE row = Nowhere /\ \A k \in Env : environments[k].from # i
    BY <1>1, <2>1, <2>2, <2>3, NowhereIsRow
  <2>4. CASE Proper(i, row) /\ Refers(row)
    <3>1. row.here /\ (row.from # NoEnv => environments[row.from].here)
      BY <2>4 DEF Proper, Refers, Stands
    <3>2. CASE j = i
      BY <1>1, <2>2, <2>4, <3>1, <3>2
    <3>3. CASE j # i
      BY <1>1, <2>1, <2>2, <3>1, <3>3
    <3> QED
      BY <3>2, <3>3
  <2> QED
    BY <2>3, <2>4
<1>7. \A w \in Visit : InHand(visit[w])'
  <2> SUFFICES ASSUME NEW w \in Visit PROVE InHand(visit[w])'
    OBVIOUS
  <2>1. CASE w = v
    BY <1>2, <2>1, NoVisitIsIdle DEF InHand
  <2>2. CASE w # v
    <3> DEFINE q == visit[w]
    <3>1. InHand(q) /\ (q.step = "save" => q.id \in Env)
      BY DEF EnvironmentsInv, EnvironmentsTypeOK
    <3>2. q.step = "save" /\ q.id = i /\ ~q.late /\ ~Changes(i, row, q) =>
            q.row = environments'[q.id]
      BY <1>1, <3>1 DEF InHand, Changes
    <3>3. q.step = "save" /\ q.id = i /\ row.here => q.row.from = row.from
      BY NowhereIsRow
    <3>6. q.late \/ Changes(i, row, q) => q.step = "save"
      BY <3>1 DEF InHand, Changes
    <3>4. q.step = "save" =>
            /\ Proper(q.id, q.row)
            /\ ~q.late /\ ~Changes(i, row, q) => q.row = environments'[q.id]
            /\ environments'[q.id].here => q.row.from = environments'[q.id].from
      BY <1>1, <3>1, <3>2, <3>3 DEF InHand, Stands
    <3>5. /\ visit'[w].step = q.step /\ visit'[w].id = q.id /\ visit'[w].row = q.row
          /\ visit'[w].late = (q.late \/ Changes(i, row, q))
      BY <1>3, <2>2
    <3> HIDE DEF q
    <3> QED
      BY <3>1, <3>4, <3>5, <3>6 DEF InHand, Stands, Proper
  <2> QED
    BY <2>1, <2>2
<1>8. \A w, u \in Visit : Alike(visit[w], visit[u])'
  BY <1>2, <1>3, NoVisitIsIdle DEF EnvironmentsInv, Alike
<1>9. EnvironmentsInv'
  BY <1>5, <1>6, <1>7, <1>8 DEF EnvironmentsInv, Stands
<1>10. OriginsStay
  <2> SUFFICES ASSUME NEW j \in Env, environments[j].here, environments'[j].here
               PROVE  /\ environments'[j].template = environments[j].template
                      /\ environments'[j].from = environments[j].from
    BY DEF OriginsStay, Stands
  <2>1. CASE j # i
    BY <1>1, <2>1
  <2>2. CASE j = i
    <3>1. Proper(i, row) /\ row.from = environments[i].from
      BY <1>1, <2>2, NowhereIsRow DEF Stands
    <3>2. Proper(i, environments[i]) /\ environments[i].template \in BOOLEAN
          /\ row.template \in BOOLEAN
      BY <2>2 DEF EnvironmentsInv, EnvironmentsTypeOK, EnvironmentRows, Stands
    <3> QED
      BY <1>1, <2>2, <3>1, <3>2 DEF Proper
  <2> QED
    BY <2>1, <2>2
<1> QED
  BY <1>3, <1>9, <1>10

LEMMA CreateKeeps ==
  ASSUME EnvironmentsInv, NEW v \in Visit, CreateEnvironment(v)
  PROVE  EnvironmentsInv' /\ OriginsStay /\ UpdatesKeepParts
<1>1. ASSUME NEW wish \in Wishes, NEW r,
             r = [NoVisit EXCEPT !.step = "insert",
                                 !.row = PatchedEnvironment(NewEnvironment, wish)],
             Turns(v, r)
      PROVE  EnvironmentsInv' /\ OriginsStay /\ UpdatesKeepParts
  <2> DEFINE row == PatchedEnvironment(NewEnvironment, wish)
  <2>1. row \in EnvironmentRows /\ row.here /\ ~row.template /\ row.from = NoEnv
    <3>1. NewEnvironment \in EnvironmentRows /\ NewEnvironment.here
          /\ ~NewEnvironment.template /\ NewEnvironment.from = NoEnv
      BY EnvironmentConstants DEF NewEnvironment, Nowhere, EnvironmentRows
    <3> QED
      BY <3>1 DEF PatchedEnvironment, EnvironmentRows, Wishes
  <2> HIDE DEF row
  <2>2. r \in Visits /\ r.step = "insert" /\ r.row = row /\ ~r.late
    BY <1>1, <2>1, NoVisitIsIdle DEF Visits, VisitSteps, row
  <2> QED
    BY <1>1, <2>1, <2>2, TurnKeeps DEF InHand
<1>2. ASSUME NEW i \in made, NEW r,
             r = [NoVisit EXCEPT !.step = "template", !.id = i], Turns(v, r)
      PROVE  EnvironmentsInv' /\ OriginsStay /\ UpdatesKeepParts
  <2>1. r \in Visits /\ r.step = "template" /\ r.id = i /\ ~r.late
    BY <1>2, NoVisitIsIdle DEF Visits, VisitSteps, EnvironmentsInv, EnvironmentsTypeOK
  <2> QED
    BY <1>2, <2>1, TurnKeeps DEF InHand
<1> QED
  BY <1>1, <1>2 DEF CreateEnvironment

LEMMA NamingKeeps ==
  ASSUME EnvironmentsInv, NEW v \in Visit, UpdateEnvironment(v) \/ DeleteEnvironment(v)
  PROVE  EnvironmentsInv' /\ OriginsStay /\ UpdatesKeepParts
<1>1. PICK i \in made, step \in {"find", "delete"} :
        Turns(v, [NoVisit EXCEPT !.step = step, !.id = i])
  BY DEF UpdateEnvironment, DeleteEnvironment
<1> DEFINE r == [NoVisit EXCEPT !.step = step, !.id = i]
<1>2. r \in Visits /\ r.step = step /\ r.id = i /\ ~r.late
  BY NoVisitIsIdle DEF Visits, VisitSteps, EnvironmentsInv, EnvironmentsTypeOK
<1>3. Turns(v, r)
  BY <1>1
<1> HIDE DEF r
<1> QED
  BY <1>2, <1>3, TurnKeeps DEF InHand

LEMMA FindsTemplateKeeps ==
  ASSUME EnvironmentsInv, NEW v \in Visit, FindsTemplate(v)
  PROVE  EnvironmentsInv' /\ OriginsStay /\ UpdatesKeepParts
<1> DEFINE i == visit[v].id
<1>1. PICK wish \in Wishes :
        Turns(v, [NoVisit EXCEPT !.step = "insert",
                                 !.row = PatchedEnvironment(FromTemplate(i), wish)])
  BY DEF FindsTemplate
<1>2. i \in Env /\ i \in Templates
  BY DEF FindsTemplate, IsTemplate, EnvironmentsInv, EnvironmentsTypeOK, Proper
<1>3. environments[i] \in EnvironmentRows
  BY <1>2 DEF EnvironmentsInv, EnvironmentsTypeOK
<1> HIDE DEF i
<1> DEFINE copy == FromTemplate(i)
           row == PatchedEnvironment(copy, wish)
<1>4. copy \in EnvironmentRows /\ copy.here /\ ~copy.template /\ copy.from = i
  BY <1>2, <1>3, EnvironmentConstants DEF FromTemplate, NewEnvironment, Nowhere, EnvironmentRows
<1> HIDE DEF copy
<1>5. row \in EnvironmentRows /\ row.here /\ ~row.template /\ row.from = i
  BY <1>4 DEF PatchedEnvironment, EnvironmentRows, Wishes
<1> DEFINE r == [NoVisit EXCEPT !.step = "insert", !.row = row]
<1>6. Turns(v, r)
  BY <1>1 DEF copy
<1> HIDE DEF row
<1>7. r \in Visits /\ r.step = "insert" /\ r.row = row /\ ~r.late
  BY <1>5, NoVisitIsIdle DEF Visits, VisitSteps
<1> HIDE DEF r
<1> QED
  BY <1>2, <1>5, <1>6, <1>7, TurnKeeps DEF InHand

LEMMA FindsEnvironmentKeeps ==
  ASSUME EnvironmentsInv, NEW v \in Visit, FindsEnvironment(v)
  PROVE  EnvironmentsInv' /\ OriginsStay /\ UpdatesKeepParts
<1> DEFINE old == visit[v]
           row == environments[old.id]
<1>1. PICK wish \in Wishes :
        Turns(v, [old EXCEPT !.step = "save", !.wish = wish, !.row = row])
  BY DEF FindsEnvironment
<1>2. old \in Visits /\ old.step = "find" /\ old.id \in made /\ old.id \in Env /\ row.here
  BY DEF FindsEnvironment, EnvironmentsInv, EnvironmentsTypeOK, Stands
<1>7. ~old.late
  BY DEF FindsEnvironment, EnvironmentsInv, InHand
<1>3. row \in EnvironmentRows /\ Proper(old.id, row)
  BY <1>2 DEF EnvironmentsInv, EnvironmentsTypeOK, Stands
<1> DEFINE r == [old EXCEPT !.step = "save", !.wish = wish, !.row = row]
<1>4. Turns(v, r)
  BY <1>1
<1>5. row = environments[old.id]
  OBVIOUS
<1> HIDE DEF old, row
<1>6. r \in Visits /\ r.step = "save" /\ r.id = old.id /\ r.row = row /\ r.late = old.late
  BY <1>2, <1>3 DEF Visits, VisitSteps
<1> HIDE DEF r
<1> QED
  BY <1>2, <1>3, <1>4, <1>5, <1>6, <1>7, TurnKeeps DEF InHand

LEMMA InsertsKeeps ==
  ASSUME EnvironmentsInv, NEW v \in Visit, InsertsEnvironment(v)
  PROVE  EnvironmentsInv' /\ OriginsStay /\ UpdatesKeepParts
<1> DEFINE row == visit[v].row
<1>1. PICK i \in Env \ made : made' = made \cup {i} /\ Keeps(v, i, row)
  BY DEF InsertsEnvironment
<1>2. row \in EnvironmentRows /\ row.here /\ ~row.template
      /\ row.from \in Templates \cup {NoEnv} /\ Refers(row) /\ visit[v].step = "insert"
  BY DEF InsertsEnvironment, EnvironmentsInv, EnvironmentsTypeOK, InHand, Visits
<1>3. i \notin Templates /\ ~Stands(i) /\ made' \subseteq Env
  BY <1>1 DEF EnvironmentsInv, EnvironmentsTypeOK
<1>4. \A w \in Visit : visit[w].step = "save" => visit[w].id # i
  BY <1>1 DEF EnvironmentsInv, EnvironmentsTypeOK
<1> HIDE DEF row
<1>5. Proper(i, row)
  BY <1>2, <1>3 DEF Proper
<1>6. /\ EnvironmentsInv' /\ OriginsStay
      /\ \A w \in Visit \ {v} : visit'[w].step = visit[w].step
  BY <1>1, <1>2, <1>3, <1>4, <1>5, RowChangeKeeps
<1> QED
  BY <1>2, <1>6 DEF UpdatesKeepParts

LEMMA SavesKeeps ==
  ASSUME EnvironmentsInv, NEW v \in Visit, SavesEnvironment(v)
  PROVE  EnvironmentsInv' /\ OriginsStay /\ UpdatesKeepParts
<1> DEFINE q == visit[v]
           i == q.id
           row == PatchedEnvironment(q.row, q.wish)
<1>1. Keeps(v, i, row) /\ made' = made /\ q.step = "save" /\ Refers(q.row)
  BY DEF SavesEnvironment
<1>2. q \in Visits /\ i \in made /\ i \in Env /\ InHand(q) /\ made \subseteq Env
  BY <1>1 DEF EnvironmentsInv, EnvironmentsTypeOK
<1>3. q.row \in EnvironmentRows /\ q.wish \in Wishes
  BY <1>2 DEF Visits
<1>4. row \in EnvironmentRows /\ row.here = q.row.here /\ row.template = q.row.template
      /\ row.from = q.row.from
      /\ \A p \in Part \ DOMAIN q.wish : row.parts[p] = q.row.parts[p]
  BY <1>3 DEF PatchedEnvironment, EnvironmentRows, Wishes
<1>5. Proper(i, row) /\ Refers(row) /\ (Stands(i) => row.from = environments[i].from)
  BY <1>1, <1>2, <1>4 DEF InHand, Proper, Refers
<1>6. \A w \in Visit : visit[w].step = "save" /\ visit[w].id = i => visit[w].row.from = row.from
  BY <1>1, <1>4 DEF EnvironmentsInv, Alike
<1>7. environments'[i] = row
  BY <1>1, <1>2 DEF Keeps, EnvironmentsInv, EnvironmentsTypeOK
<1>8. ~q.late => q.row = environments[i]
  BY <1>1, <1>2 DEF InHand
<1> HIDE DEF row
<1>9. /\ EnvironmentsInv' /\ OriginsStay
      /\ \A w \in Visit \ {v} : visit'[w].step = visit[w].step
  BY <1>1, <1>2, <1>4, <1>5, <1>6, RowChangeKeeps
<1> QED
  BY <1>4, <1>7, <1>8, <1>9 DEF UpdatesKeepParts

LEMMA RemovesKeeps ==
  ASSUME EnvironmentsInv, NEW v \in Visit, RemovesEnvironment(v)
  PROVE  EnvironmentsInv' /\ OriginsStay /\ UpdatesKeepParts
<1> DEFINE i == visit[v].id
<1>1. Keeps(v, i, Nowhere) /\ made' = made /\ visit[v].step = "delete"
      /\ \A j \in Env : environments[j].from # i
  BY DEF RemovesEnvironment
<1>2. i \in made /\ i \in Env /\ made \subseteq Env
  BY <1>1 DEF EnvironmentsInv, EnvironmentsTypeOK
<1> HIDE DEF i
<1>3. /\ EnvironmentsInv' /\ OriginsStay
      /\ \A w \in Visit \ {v} : visit'[w].step = visit[w].step
  BY <1>1, <1>2, NowhereIsRow, RowChangeKeeps
<1> QED
  BY <1>1, <1>3 DEF UpdatesKeepParts

LEMMA VisitEndsKeeps ==
  ASSUME EnvironmentsInv, NEW v \in Visit, VisitEnds(v)
  PROVE  EnvironmentsInv' /\ OriginsStay /\ UpdatesKeepParts
BY NoVisitIsIdle, TurnKeeps DEF VisitEnds, InHand

LEMMA VisitsStop ==
  ASSUME EnvironmentsInv, Restart PROVE EnvironmentsInv' /\ OriginsStay /\ UpdatesKeepParts
<1>1. visit' = [v \in Visit |-> NoVisit] /\ environments' = environments /\ made' = made
  BY DEF Restart
<1>2. EnvironmentsTypeOK'
  BY <1>1, NoVisitIsIdle DEF EnvironmentsInv, EnvironmentsTypeOK, Stands
<1>3. \A v \in Visit : InHand(visit[v])'
  BY <1>1, NoVisitIsIdle DEF InHand
<1>4. EnvironmentsInv'
  BY <1>1, <1>2, <1>3, NoVisitIsIdle DEF EnvironmentsInv, Stands, Proper, Alike
<1> QED
  BY <1>1, <1>4 DEF OriginsStay, UpdatesKeepParts

LEMMA EnvironmentsSteps ==
  ASSUME EnvironmentsInv, [Next]_consoleVars
  PROVE  EnvironmentsInv' /\ UpdatesKeepParts /\ OriginsStay /\ CopiesHaveTemplates'
<1>1. EnvironmentsInv' => CopiesHaveTemplates'
  BY CopiesHaveTheirs, PTL
<1>2. CASE EnvironmentRequest
  BY <1>1, <1>2, CreateKeeps, NamingKeeps DEF EnvironmentRequest
<1>3. CASE EnvironmentStatement
  BY <1>1, <1>3, FindsTemplateKeeps, FindsEnvironmentKeeps, InsertsKeeps, SavesKeeps,
     RemovesKeeps, VisitEndsKeeps DEF EnvironmentStatement, EnvironmentStep
<1>4. CASE Restart
  BY <1>1, <1>4, VisitsStop
<1>5. CASE UNCHANGED environmentVars
  <2>1. EnvironmentsInv'
    BY <1>5 DEF environmentVars, EnvironmentsInv, EnvironmentsTypeOK, Stands, Proper, InHand,
                Alike
  <2>2. UpdatesKeepParts /\ OriginsStay
    BY <1>5 DEF environmentVars, UpdatesKeepParts, OriginsStay
  <2> QED
    BY <1>1, <2>1, <2>2
<1>6. CASE AccountRequest \/ InstanceRequest \/ SettingsRequest \/ Bootstrap
           \/ AccountStatement \/ SettingsStatement
  BY <1>5, <1>6 DEF AccountRequest, InstanceRequest, SettingsRequest, Bootstrap,
                    AccountStatement, SettingsStatement
<1>7. CASE \E c \in Call : FleetStatement(c) \/ FleetAnswer(c) \/ FleetTimeout(c)
  BY <1>5, <1>7 DEF FleetStatement, FleetAnswer, FleetTimeout
<1>8. CASE UNCHANGED consoleVars
  BY <1>5, <1>8 DEF consoleVars
<1> QED
  BY <1>2, <1>3, <1>4, <1>6, <1>7, <1>8 DEF Next

\* The environments and the requests about them have their types.
THEOREM EnvironmentsTypes == ConsoleSpec => []EnvironmentsTypeOK
<1>1. Init => EnvironmentsInv
  BY EnvironmentsStart DEF Init
<1>2. EnvironmentsInv /\ [Next]_consoleVars => EnvironmentsInv'
  BY EnvironmentsSteps
<1>3. EnvironmentsInv => EnvironmentsTypeOK
  BY DEF EnvironmentsInv
<1> QED
  BY <1>1, <1>2, <1>3, PTL DEF ConsoleSpec

\* An edit of the settings or of an environment keeps what it does not name, unless the
\* row changed between its read and its write (the patch is applied in the process); and
\* a copy keeps its template, whatever is deleted and written again meanwhile.
THEOREM EditsKeep == ConsoleSpec => EditsKeepTheRest
<1>1. Init => SettingsInv /\ EnvironmentsInv
  BY SettingsStart, EnvironmentsStart DEF Init
<1>2. SettingsInv /\ [Next]_consoleVars => SettingsInv' /\ EditsKeepFields
  BY SettingsSteps
<1>3. EnvironmentsInv /\ [Next]_consoleVars =>
        EnvironmentsInv' /\ UpdatesKeepParts /\ OriginsStay /\ CopiesHaveTemplates'
  BY EnvironmentsSteps
<1> QED
  BY <1>1, <1>2, <1>3, PTL DEF ConsoleSpec, EditsKeepTheRest
=============================================================================
