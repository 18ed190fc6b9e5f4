------------------------------ MODULE Accounts ------------------------------
(***************************************************************************)
(* The users table of the central service and the requests that change it.  *)
(* A request loads its actor's row when it is authenticated and runs on     *)
(* that copy; what it does to the table are statements of their own, and    *)
(* requests interleave between them.                                        *)
(***************************************************************************)

CONSTANTS
  Roles,     \* the roles there are
  Id,        \* the ids new users are given
  NoId,      \* no user
  Password,  \* the passwords users choose
  Task       \* requests served at a time

ASSUME AccountConstants ==
  /\ "admin" \in Roles /\ {"none", "keep"} \cap Roles = {}
  /\ NoId \notin Id
  /\ Password # {}

VARIABLES
  users,    \* the row of each id; role "none" where the table has no row
  issued,   \* the ids given out
  boot,     \* the process: "starting" (counts users), "creating" (the first
            \* admin), "serving"
  request,  \* what each task is doing
  raced     \* history: some request changed the table although the actor it was
            \* authenticated as, or the row it had read, was no longer so

accountVars == <<users, issued, boot, request, raced>>

Rows == [role : Roles \cup {"none"}, password : Password]
Present(i) == users[i].role # "none"
Admins == {i \in Id : users[i].role = "admin"}

\* The default password of the environment, and what an id without row has.
Initially == CHOOSE p \in Password : TRUE
NoRow == [role |-> "none", password |-> Initially]

\* A request: the statement it waits for, whose it is, the user it is about, the
\* role it gives ("keep" when its body has none), the password it sets, the row
\* it has read; and, history, whether its copies are out of date.
Steps == {"idle", "create", "find", "update", "delete", "password"}
Requests == [step : Steps, actor : Id \cup {NoId}, target : Id \cup {NoId},
             gives : Roles \cup {"keep"}, sets : Password, read : Rows, stale : BOOLEAN]
New(step, actor, target, gives, sets) ==
  [step |-> step, actor |-> actor, target |-> target, gives |-> gives, sets |-> sets,
   read |-> NoRow, stale |-> FALSE]
Idle == New("idle", NoId, NoId, "keep", Initially)

AccountsInit ==
  /\ users = [i \in Id |-> NoRow]
  /\ issued = {}
  /\ boot = "starting"
  /\ request = [t \in Task |-> Idle]
  /\ raced = FALSE

-----------------------------------------------------------------------------
(* Start of the process: the bootstrap, whose failure is only logged.       *)

NewRow(role, password) == [role |-> role, password |-> password]

CountsUsers ==
  /\ boot = "starting"
  /\ boot' = IF \E i \in Id : Present(i) THEN "serving" ELSE "creating"
  /\ UNCHANGED <<users, issued, request, raced>>

CreatesAdmin(i) ==
  /\ boot = "creating"
  /\ i \in Id \ issued
  /\ issued' = issued \cup {i}
  /\ users' = [users EXCEPT ![i] = NewRow("admin", Initially)]
  /\ boot' = "serving"
  /\ UNCHANGED <<request, raced>>

BootFails ==
  /\ boot \in {"starting", "creating"}
  /\ boot' = "serving"
  /\ UNCHANGED <<users, issued, request, raced>>

\* The process stops and is started again; nothing of its requests survives.
Restarts ==
  /\ boot' = "starting"
  /\ request' = [t \in Task |-> Idle]
  /\ UNCHANGED <<users, issued, raced>>

-----------------------------------------------------------------------------
(* A request begins: the middleware has found the user of its token, and    *)
(* the handler has passed its checks on that copy of the row.               *)

Authenticated(t, i) ==
  /\ boot = "serving"
  /\ request[t] = Idle
  /\ Present(i)

MayManage(i) == users[i].role = "admin"

Begins(t, r) ==
  /\ request' = [request EXCEPT ![t] = r]
  /\ UNCHANGED <<users, issued, boot, raced>>

CreateUser(t, i) ==
  /\ Authenticated(t, i) /\ MayManage(i)
  /\ \E role \in Roles, p \in Password :
       Begins(t, New("create", i, NoId, role, p))

\* A check that is only made of deletions.
ChangesNoOwnRole(i, target, gives) == FALSE

\* Nobody changes the role of his own row.
ChangesOwnRole(i, target, gives) ==
  target = i /\ gives # "keep" /\ gives # users[i].role


UpdateUser(t, i) ==
  /\ Authenticated(t, i) /\ MayManage(i)
  /\ \E target \in issued, gives \in Roles \cup {"keep"} :
       /\ ~ChangesOwnRole(i, target, gives)
       /\ Begins(t, New("find", i, target, gives, Initially))

DeleteUser(t, i) ==
  /\ Authenticated(t, i) /\ MayManage(i)
  /\ \E target \in issued \ {i} : Begins(t, New("delete", i, target, "keep", Initially))

\* Of a user who has given his password as it was in the row.
ChangeOwnPassword(t, i) ==
  /\ Authenticated(t, i)
  /\ \E p \in Password : Begins(t, New("password", i, i, "keep", p))

-----------------------------------------------------------------------------
(* The statements.  Each ends its request, or is the read before an update. *)

\* The row of i changes, and t is done.  Whoever was authenticated as i, or is
\* about to write what it read of i, has an old copy if the role is another.
DependsOn(r, i) == r.actor = i \/ (r.step = "update" /\ r.target = i)

Commits(t, i, row) ==
  /\ users' = [users EXCEPT ![i] = row]
  /\ request' =
       [u \in Task |->
          IF u = t THEN Idle
          ELSE [request[u] EXCEPT !.stale = @ \/ (/\ DependsOn(request[u], i)
                                                  /\ row.role # users[i].role)]]
  /\ raced' = (raced \/ request[t].stale)
  /\ UNCHANGED boot

\* An answer without effect: a row that is not there, a name or an address that
\* is taken, an error of the database, a client that hangs up.
Ends(t) ==
  /\ request[t].step # "idle"
  /\ request' = [request EXCEPT ![t] = Idle]
  /\ UNCHANGED <<users, issued, boot, raced>>

InsertUser(t) ==
  /\ request[t].step = "create"
  /\ \E i \in Id \ issued :
       /\ issued' = issued \cup {i}
       /\ Commits(t, i, NewRow(request[t].gives, request[t].sets))

FindUser(t) ==
  /\ request[t].step = "find"
  /\ Present(request[t].target)
  /\ request' = [request EXCEPT ![t].step = "update", ![t].read = users[request[t].target]]
  /\ UNCHANGED <<users, issued, boot, raced>>

\* An update of all columns, the password among them.
PatchedRead(r, row) ==
  [r.read EXCEPT !.role = IF r.gives = "keep" THEN r.read.role ELSE r.gives]

\* UPDATE of the columns e-mail and role: the whole patched row but its password.
Patched(r, row) ==
  [row EXCEPT !.role = IF r.gives = "keep" THEN r.read.role ELSE r.gives]

\* An update that inserts the row it does not find, as those of instances do.
UpsertUser(t) ==
  LET i == request[t].target IN
  /\ request[t].step = "update"
  /\ Commits(t, i, Patched(request[t], users[i]))
  /\ UNCHANGED issued

WriteUser(t) ==
  LET i == request[t].target IN
  /\ request[t].step = "update"
  /\ Present(i)
  /\ Commits(t, i, Patched(request[t], users[i]))
  /\ UNCHANGED issued

RemoveUser(t) ==
  /\ request[t].step = "delete"
  /\ Present(request[t].target)
  /\ Commits(t, request[t].target, NoRow)
  /\ UNCHANGED issued

WritePassword(t) ==
  LET i == request[t].target IN
  /\ request[t].step = "password"
  /\ Present(i)
  /\ Commits(t, i, [users[i] EXCEPT !.password = request[t].sets])
  /\ UNCHANGED issued

-----------------------------------------------------------------------------
-----------------------------------------------------------------------------
AccountsTypeOK ==
  /\ users \in [Id -> Rows]
  /\ issued \subseteq Id
  /\ \A i \in Id : Present(i) => i \in issued
  /\ boot \in {"starting", "creating", "serving"}
  /\ request \in [Task -> Requests]
  /\ raced \in BOOLEAN

\* The anti-lockout checks do what they are for as long as no request commits on
\* an outdated copy: a table that has users has an admin among them.  The
\* bootstrap never helps a table that has users and no admin.
NoLockoutUnlessRaced == (\E i \in Id : Present(i)) => raced \/ Admins # {}

\* The same without the reservation, as the specification of the user management
\* has it (F1-auth-spec.md).
NoLockout == (\E i \in Id : Present(i)) => Admins # {}

\* A user that is deleted stays so, whatever updates of it were under way: an
\* update never inserts.
DeletedUsersStayDeleted ==
  [][\A i \in issued : ~Present(i) => ~Present(i)']_accountVars

\* An administrator's update, which has read the whole row, never takes back a
\* password its owner has set meanwhile.
OnlyOwnersSetPasswords ==
  [][\A i \in Id :
       Present(i) /\ Present(i)' /\ users'[i].password # users[i].password =>
         \E t \in Task : /\ request[t].step = "password"
                         /\ request[t].actor = i
                         /\ request[t].sets = users'[i].password]_accountVars

=============================================================================
