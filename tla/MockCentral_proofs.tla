------------------------- MODULE MockCentral_proofs -------------------------
(***************************************************************************)
(* MockCentral for every set of configurations, proxies and tasks and every *)
(* bound.  First the operators of VersionVector, then the type invariant,   *)
(* that conflict records are forks, that a merge resolution is newer than   *)
(* both sides, that version vectors track the edits, and that saves are       *)
(* causal.                                                                 *)
(***************************************************************************)
EXTENDS MockCentral, TLAPS

-----------------------------------------------------------------------------
(* The operations on version vectors, for every set of ids.                *)

\* The type of what each operation returns.
LEMMA GetType ==
  ASSUME NEW Id, NEW v, IsVector(v, Id), NEW i
  PROVE  Get(v, i) \in Nat
BY DEF IsVector, Get

LEMMA WithInstanceType ==
  ASSUME NEW Id, NEW i \in Id
  PROVE  IsVector(WithInstance(i), Id)
BY DEF IsVector, WithInstance

LEMMA IncrementType ==
  ASSUME NEW Id, NEW v, IsVector(v, Id), NEW i \in Id
  PROVE  IsVector(Increment(v, i), Id)
<1>1. Get(v, i) \in Nat
  BY GetType
<1>2. QED
  BY <1>1 DEF IsVector, Increment

LEMMA MergeType ==
  ASSUME NEW Id, NEW v, IsVector(v, Id), NEW w, IsVector(w, Id)
  PROVE  IsVector(Merge(v, w), Id)
<1>1. \A j : Get(v, j) \in Nat /\ Get(w, j) \in Nat
  BY GetType
<1>2. QED
  BY <1>1 DEF IsVector, Merge

\* No two versions dominate each other: dominates (models.rs) cannot answer
\* "newer" for both sides of one comparison.
THEOREM DominatesAsymmetric ==
  ASSUME NEW Id, NEW v, IsVector(v, Id), NEW w, IsVector(w, Id),
         Dominates(v, w)
  PROVE  ~Dominates(w, v)
BY DEF IsVector, Dominates, Get

\* Chains of dominance compose, so "newer than" is an order on versions.
THEOREM DominatesTransitive ==
  ASSUME NEW Id, NEW u, IsVector(u, Id), NEW v, IsVector(v, Id),
         NEW w, IsVector(w, Id), Dominates(u, v), Dominates(v, w)
  PROVE  Dominates(u, w)
<1>1. DOMAIN w \subseteq DOMAIN u
  BY DEF Dominates
<1>2. \A i \in DOMAIN u : u[i] >= Get(v, i) /\ Get(v, i) >= Get(w, i)
  <2> SUFFICES ASSUME NEW i \in DOMAIN u
               PROVE  u[i] >= Get(v, i) /\ Get(v, i) >= Get(w, i)
    OBVIOUS
  <2>1. u[i] >= Get(v, i)
    BY DEF Dominates
  <2>2. CASE i \in DOMAIN v
    BY <2>1, <2>2 DEF Dominates, Get
  <2>3. CASE i \notin DOMAIN v
    <3>1. i \notin DOMAIN w
      BY <2>3 DEF Dominates
    <3>2. QED
      BY <2>1, <2>3, <3>1 DEF Get
  <2>4. QED
    BY <2>2, <2>3
<1>3. \A i \in DOMAIN u : u[i] \in Nat /\ Get(v, i) \in Nat /\ Get(w, i) \in Nat
  BY GetType DEF IsVector
<1>4. \A i \in DOMAIN u : u[i] >= Get(w, i)
  BY <1>2, <1>3
<1>5. PICK i \in DOMAIN u : u[i] > Get(v, i)
  BY DEF Dominates
<1>6. u[i] > Get(w, i)
  BY <1>2, <1>3, <1>5
<1>7. QED
  BY <1>1, <1>4, <1>6 DEF Dominates

\* On vectors without zero entries, dominates is exactly the strict pointwise
\* order of vector clocks.
THEOREM DominatesIsStrictOrder ==
  ASSUME NEW Id, NEW v, IsVector(v, Id), NEW w, IsVector(w, Id),
         Canonical(v), Canonical(w)
  PROVE  Dominates(v, w) <=> Leq(w, v, Id) /\ v # w
<1>1. ASSUME Dominates(v, w)
      PROVE  Leq(w, v, Id) /\ v # w
  BY <1>1 DEF IsVector, Dominates, Leq, Get
<1>2. ASSUME Leq(w, v, Id), v # w
      PROVE  Dominates(v, w)
  <2>1. DOMAIN w \subseteq DOMAIN v
    BY <1>2 DEF IsVector, Canonical, Leq, Get
  <2>2. \A i \in DOMAIN v : v[i] >= Get(w, i)
    BY <1>2 DEF IsVector, Leq, Get
  <2>3. \E i \in DOMAIN v : v[i] > Get(w, i)
    <3>1. SUFFICES ASSUME \A i \in DOMAIN v : v[i] <= Get(w, i)
                   PROVE  FALSE
      BY GetType DEF IsVector
    <3>2. DOMAIN v = DOMAIN w
      BY <2>1, <3>1 DEF IsVector, Canonical, Get
    <3>3. \A i \in DOMAIN v : v[i] = w[i]
      BY <2>2, <3>1, <3>2 DEF IsVector, Get
    <3>4. v = w
      BY <3>2, <3>3 DEF IsVector
    <3>5. QED
      BY <1>2, <3>4
  <2>4. QED
    BY <2>1, <2>2, <2>3 DEF Dominates
<1>3. QED
  BY <1>1, <1>2

\* The conflict test is symmetric: which side calls is_concurrent_with does
\* not matter.
THEOREM ConcurrentSymmetric ==
  ASSUME NEW v, NEW w
  PROVE  ConcurrentWith(v, w) <=> ConcurrentWith(w, v)
BY DEF ConcurrentWith

\* An explicit zero entry, which only a hand-written vector can hold, makes a
\* version concurrent with the same version without the entry: the limit of
\* DominatesIsStrictOrder, and why it needs canonical vectors.
THEOREM ZeroEntryIsConcurrent ==
  ASSUME NEW Id, NEW v, IsVector(v, Id), NEW i \in Id \ DOMAIN v
  PROVE  ConcurrentWith(v, [j \in DOMAIN v \cup {i} |-> Get(v, j)])
<1> DEFINE w == [j \in DOMAIN v \cup {i} |-> Get(v, j)]
<1>1. \A j : Get(v, j) \in Nat
  BY GetType
<1>2. ~Dominates(v, w)
  BY DEF Dominates
<1>3. ~Dominates(w, v)
  <2>1. \A j \in DOMAIN w : w[j] = Get(v, j)
    OBVIOUS
  <2>2. \A n \in Nat : ~(n > n)
    OBVIOUS
  <2> HIDE DEF w
  <2>3. ~\E j \in DOMAIN w : w[j] > Get(v, j)
    BY <1>1, <2>1, <2>2
  <2>4. QED
    BY <2>3 DEF Dominates
<1>4. v # w
  OBVIOUS
<1>5. QED
  BY <1>2, <1>3, <1>4 DEF ConcurrentWith

\* An edit makes a version newer than the one it started from.
THEOREM IncrementDominates ==
  ASSUME NEW Id, NEW v, IsVector(v, Id), NEW i \in Id
  PROVE  Dominates(Increment(v, i), v)
<1>1. Get(v, i) \in Nat
  BY GetType
<1>2. i \in DOMAIN Increment(v, i) /\ Increment(v, i)[i] > Get(v, i)
  BY <1>1 DEF Increment
<1>3. \A j \in DOMAIN Increment(v, i) : Increment(v, i)[j] >= Get(v, j)
  BY <1>1 DEF IsVector, Increment, Get
<1>4. DOMAIN v \subseteq DOMAIN Increment(v, i)
  BY DEF Increment
<1>5. QED
  BY <1>2, <1>3, <1>4 DEF Dominates

\* Bumping any upper bound of v gives a version newer than v.
LEMMA BumpedBoundDominates ==
  ASSUME NEW Id, NEW m, IsVector(m, Id), NEW v, IsVector(v, Id), NEW i \in Id,
         DOMAIN v \subseteq DOMAIN m, \A j : Get(m, j) >= Get(v, j)
  PROVE  Dominates(Increment(m, i), v)
<1> DEFINE b == Increment(m, i)
<1>1. \A j : Get(v, j) \in Nat /\ Get(m, j) \in Nat
  BY GetType
<1>2. DOMAIN b = DOMAIN m \cup {i}
  BY DEF Increment
<1>3. \A j \in DOMAIN b : b[j] \in Nat /\ b[j] >= Get(m, j)
  BY <1>1 DEF IsVector, Increment, Get
<1>4. b[i] > Get(m, i)
  BY <1>1 DEF Increment
<1> HIDE DEF b
<1>5. \A j \in DOMAIN b : b[j] >= Get(v, j)
  BY <1>1, <1>3
<1>6. b[i] > Get(v, i)
  BY <1>1, <1>2, <1>3, <1>4
<1>7. Dominates(b, v)
  BY <1>2, <1>5, <1>6 DEF Dominates
<1>8. QED
  BY <1>7 DEF b

\* merge is an upper bound of its arguments.
LEMMA MergeIsBound ==
  ASSUME NEW Id, NEW v, IsVector(v, Id), NEW w, IsVector(w, Id)
  PROVE  /\ DOMAIN v \subseteq DOMAIN Merge(v, w)
         /\ DOMAIN w \subseteq DOMAIN Merge(v, w)
         /\ \A j : Get(Merge(v, w), j) >= Get(v, j) /\ Get(Merge(v, w), j) >= Get(w, j)
<1>1. \A j : Get(v, j) \in Nat /\ Get(w, j) \in Nat
  BY GetType
<1>2. QED
  BY <1>1 DEF Merge, Get

\* A merge that is then bumped with an instance's counter is newer than every
\* version merged into it: what conflict resolution by "merge" relies on.
THEOREM BumpedMergeDominates ==
  ASSUME NEW Id, NEW u, IsVector(u, Id), NEW v, IsVector(v, Id),
         NEW w, IsVector(w, Id), NEW i \in Id
  PROVE  /\ Dominates(Increment(Merge(Merge(u, v), w), i), v)
         /\ Dominates(Increment(Merge(Merge(u, v), w), i), w)
<1> DEFINE m == Merge(u, v)
           n == Merge(m, w)
<1>1. IsVector(m, Id)
  BY MergeType
<1>2. /\ DOMAIN v \subseteq DOMAIN m
      /\ \A j : Get(m, j) >= Get(v, j)
  BY MergeIsBound
<1> HIDE DEF m
<1>3. IsVector(n, Id)
  BY <1>1, MergeType
<1>4. /\ DOMAIN m \subseteq DOMAIN n /\ DOMAIN w \subseteq DOMAIN n
      /\ \A j : Get(n, j) >= Get(m, j) /\ Get(n, j) >= Get(w, j)
  BY <1>1, MergeIsBound
<1> HIDE DEF n
<1>5. \A j : Get(v, j) \in Nat /\ Get(m, j) \in Nat /\ Get(n, j) \in Nat
  BY <1>1, <1>3, GetType
<1>6. DOMAIN v \subseteq DOMAIN n /\ \A j : Get(n, j) >= Get(v, j)
  BY <1>2, <1>4, <1>5
<1>7. Dominates(Increment(n, i), v) /\ Dominates(Increment(n, i), w)
  BY <1>3, <1>4, <1>6, BumpedBoundDominates
<1>8. QED
  BY <1>7 DEF m, n

-----------------------------------------------------------------------------
(* What holds of a state of edits 1 .. n holds of one of edits 1 .. n + 1. *)

LEMMA VersionGrows ==
  ASSUME NEW n \in Nat, NEW v, IsVersion(v, n)
  PROVE  IsVersion(v, n + 1)
<1>1. 1 .. n \subseteq 1 .. n + 1
  OBVIOUS
<1>2. QED
  BY <1>1 DEF IsVersion

LEMMA RowGrows ==
  ASSUME NEW n \in Nat, NEW v, IsRow(v, n)
  PROVE  IsRow(v, n + 1)
BY VersionGrows DEF IsRow

LEMMA RowsGrow ==
  ASSUME NEW n \in Nat, NEW rows, RowsOK(rows, n)
  PROVE  RowsOK(rows, n + 1)
BY RowGrows DEF RowsOK

LEMMA ConflictsGrow ==
  ASSUME NEW n \in Nat, NEW records, ConflictsOK(records, n)
  PROVE  ConflictsOK(records, n + 1)
BY VersionGrows DEF ConflictsOK, ConflictOK

LEMMA TasksGrow ==
  ASSUME NEW n \in Nat, NEW tasks, TasksOK(tasks, n)
  PROVE  TasksOK(tasks, n + 1)
<1>1. ASSUME NEW k, TaskOK(k, n)
      PROVE  TaskOK(k, n + 1)
  BY <1>1, VersionGrows, RowGrows DEF TaskOK
<1>2. QED
  BY <1>1 DEF TasksOK

LEMMA HeldGrows ==
  ASSUME NEW n \in Nat, NEW copies, HeldOK(copies, n)
  PROVE  HeldOK(copies, n + 1)
BY RowsGrow DEF HeldOK

LEMMA DraftsGrow ==
  ASSUME NEW n \in Nat, NEW ds, DraftsOK(ds, n)
  PROVE  DraftsOK(ds, n + 1)
BY VersionGrows DEF DraftsOK

-----------------------------------------------------------------------------
(* One entry of a table replaced.                                          *)

LEMMA PutRow ==
  ASSUME NEW n, NEW rows, RowsOK(rows, n), NEW c \in Config, NEW v, IsRow(v, n)
  PROVE  RowsOK([rows EXCEPT ![c] = v], n)
BY DEF RowsOK

LEMMA PutConflict ==
  ASSUME NEW n, NEW records, ConflictsOK(records, n), NEW c \in Config,
         NEW k, ConflictOK(k, n)
  PROVE  ConflictsOK([records EXCEPT ![c] = k], n)
BY DEF ConflictsOK

LEMMA PutTask ==
  ASSUME NEW n, NEW tasks, TasksOK(tasks, n), NEW t \in Task, NEW k, TaskOK(k, n)
  PROVE  TasksOK([tasks EXCEPT ![t] = k], n)
BY DEF TasksOK

LEMMA PutHeld ==
  ASSUME NEW n, NEW copies, HeldOK(copies, n), NEW p \in Proxy, NEW c \in Config,
         NEW v, IsRow(v, n)
  PROVE  HeldOK([copies EXCEPT ![p][c] = v], n)
<1>1. RowsOK([copies[p] EXCEPT ![c] = v], n)
  BY PutRow DEF HeldOK
<1>2. QED
  BY <1>1 DEF HeldOK

LEMMA SaveRowKeepsType ==
  ASSUME NEW n, RowsOK(mocks, n), NEW v, IsVersion(v, n), SaveRow(v)
  PROVE  RowsOK(mocks', n)
<1>1. v.id \in Config /\ IsRow(v, n)
  BY DEF IsVersion, IsRow
<1>2. RowsOK([mocks EXCEPT ![v.id] = v], n)
  BY <1>1, PutRow
<1>3. QED
  BY <1>1, <1>2 DEF SaveRow

-----------------------------------------------------------------------------
(* The versions the actions make.                                          *)

LEMMA ReplaceHistory ==
  ASSUME NEW n, NEW v, IsVersion(v, n), NEW w, NEW h
  PROVE  [v EXCEPT !.vv = w, !.hist = h] = [id |-> v.id, vv |-> w, hist |-> h]
<1>1. PICK i, x, g : v = [id |-> i, vv |-> x, hist |-> g]
  BY DEF IsVersion
<1>2. PICK u : u = [v EXCEPT !.vv = w]
  OBVIOUS
<1>3. u = [id |-> i, vv |-> w, hist |-> g]
  BY <1>1, <1>2
<1>4. [u EXCEPT !.hist = h] = [id |-> i, vv |-> w, hist |-> h]
  BY <1>3
<1>5. [v EXCEPT !.vv = w, !.hist = h] = [u EXCEPT !.hist = h]
  BY <1>1, <1>2
<1>6. QED
  BY <1>1, <1>4, <1>5

LEMMA TouchedType ==
  ASSUME edits \in Nat, NEW v, IsVersion(v, edits), NEW r \in Replica
  PROVE  /\ IsVersion(Touched(v, r), edits + 1)
         /\ Touched(v, r).id = v.id
         /\ Touched(v, r).vv = Increment(v.vv, r)
<1>1. IsVector(Increment(v.vv, r), Replica)
  BY IncrementType DEF IsVersion
<1>2. v.hist \cup {edits + 1} \subseteq 1 .. edits + 1
  BY DEF IsVersion
<1>3. Touched(v, r) = [id |-> v.id, vv |-> Increment(v.vv, r),
                       hist |-> v.hist \cup {edits + 1}]
  BY ReplaceHistory DEF Touched
<1>4. v.id \in Config
  BY DEF IsVersion
<1> HIDE DEF Touched
<1>5. QED
  BY <1>1, <1>2, <1>3, <1>4 DEF IsVersion

LEMMA FreshIdIsReplica == edits \in Nat => FreshId \in Replica
BY DEF FreshId, Replica

LEMMA NewVersionType ==
  ASSUME edits \in Nat, NEW c \in Config
  PROVE  IsVersion(NewVersion(c), edits + 1)
<1>1. IsVector(WithInstance(c), Replica)
  BY WithInstanceType DEF Replica
<1>2. {edits + 1} \subseteq 1 .. edits + 1
  OBVIOUS
<1>3. QED
  BY <1>1, <1>2 DEF NewVersion, IsVersion

LEMMA MergeBothType ==
  ASSUME NEW n, NEW k, IsVersion(k.local, n), IsVersion(k.central, n),
         NEW body, IsVersion(body, n)
  PROVE  /\ IsVersion(MergeBoth(k, body), n)
         /\ MergeBoth(k, body).vv = Merge(Merge(body.vv, k.local.vv), k.central.vv)
         /\ MergeBoth(k, body).id = body.id
<1> DEFINE m == Merge(Merge(body.vv, k.local.vv), k.central.vv)
           h == body.hist \cup k.local.hist \cup k.central.hist
<1>1. IsVector(m, Replica)
  BY MergeType DEF IsVersion
<1>2. h \subseteq 1 .. n
  BY DEF IsVersion
<1>3. MergeBoth(k, body) = [id |-> body.id, vv |-> m, hist |-> h]
  BY ReplaceHistory DEF MergeBoth
<1>4. body.id \in Config
  BY DEF IsVersion
<1> HIDE DEF m, h
<1>5. IsVersion([id |-> body.id, vv |-> m, hist |-> h], n)
  BY <1>1, <1>2, <1>4 DEF IsVersion
<1>6. QED
  BY <1>3, <1>5 DEF m

LEMMA LiveType == TypeOK => \A v \in Live : IsVersion(v, edits)
<1> SUFFICES ASSUME TypeOK, NEW v \in Live
             PROVE  IsVersion(v, edits)
  OBVIOUS
<1>1. CASE \E c \in Config : v = mocks[c]
  BY <1>1 DEF TypeOK, RowsOK, IsRow, Live
<1>2. CASE \E c \in Config : conflicts[c] # Absent
                 /\ v \in {conflicts[c].local, conflicts[c].central}
  BY <1>2 DEF TypeOK, ConflictsOK, ConflictOK
<1>3. CASE \E p \in Proxy, c \in Config : v = held[p][c]
  BY <1>3 DEF TypeOK, HeldOK, RowsOK, IsRow, Live
<1>4. CASE \E t \in Task : v \in {task[t].ver, task[t].row, task[t].seen} \cup task[t].todo
  BY <1>4 DEF TypeOK, TasksOK, TaskOK, IsRow, Live
<1>5. QED
  BY <1>1, <1>2, <1>3, <1>4 DEF Live

LEMMA TypeGrows ==
  ASSUME TypeOK
  PROVE  /\ edits + 1 \in Nat
         /\ RowsOK(mocks, edits + 1)
         /\ ConflictsOK(conflicts, edits + 1)
         /\ TasksOK(task, edits + 1)
         /\ HeldOK(held, edits + 1)
         /\ DraftsOK(drafts, edits + 1)
BY RowsGrow, ConflictsGrow, TasksGrow, HeldGrows, DraftsGrow DEF TypeOK

LEMMA BecomeKeepsType ==
  ASSUME NEW n, TasksOK(task, n), NEW t \in Task, NEW k, TaskOK(k, n), Become(t, k)
  PROVE  TasksOK(task', n)
BY PutTask DEF Become

LEMMA IdleType == ASSUME NEW n PROVE TaskOK(Idle, n)
BY DEF TaskOK, Idle, TaskField, PC, IsRow

-----------------------------------------------------------------------------
(* TypeOK is kept by every action.                                         *)

LEMMA LocalUpdateSaveKeepsType ==
  ASSUME TypeOK, NEW d \in drafts, LocalUpdateSave(d)
  PROVE  TypeOK'
<1>1. d[1] \in Proxy /\ IsVersion(d[2], edits)
  BY DEF TypeOK, DraftsOK
<1>2. d[2].id \in Config /\ IsRow(d[2], edits)
  BY <1>1 DEF IsVersion, IsRow
<1>3. HeldOK(held', edits)
  BY <1>1, <1>2, PutHeld DEF LocalUpdateSave, TypeOK
<1>4. DraftsOK(drafts', edits)
  BY DEF LocalUpdateSave, TypeOK, DraftsOK
<1>5. QED
  BY <1>3, <1>4 DEF LocalUpdateSave, TypeOK

LEMMA LocalStepKeepsType ==
  ASSUME TypeOK, NEW p \in Proxy, NEW c \in Config,
                    \/ LocalCreate(p, c) \/ LocalUpdateRead(p, c)
                    \/ LocalDelete(p, c) \/ LocalPull(p, c)
  PROVE  TypeOK'
<1>1. CASE LocalCreate(p, c)
  <2> DEFINE v == [NewVersion(c) EXCEPT !.vv = Increment(WithInstance(c), p)]
  <2>1. IsVersion(v, edits + 1)
    <3>1. IsVersion(NewVersion(c), edits + 1)
      BY NewVersionType DEF TypeOK
    <3>2. IsVector(Increment(WithInstance(c), p), Replica)
      BY WithInstanceType, IncrementType DEF Replica
    <3>3. QED
      BY <3>1, <3>2 DEF IsVersion, NewVersion
  <2>2. HeldOK(held', edits + 1)
    <3>1. IsRow(v, edits + 1)
      BY <2>1 DEF IsRow
    <3>2. held' = [held EXCEPT ![p][c] = v]
      BY <1>1 DEF LocalCreate
    <3> HIDE DEF v
    <3>3. HeldOK([held EXCEPT ![p][c] = v], edits + 1)
      BY <3>1, TypeGrows, PutHeld
    <3>4. QED
      BY <3>2, <3>3
  <2>3. QED
    BY <1>1, <2>2, TypeGrows DEF LocalCreate, Draw, CountEdit, TypeOK
<1>2. CASE LocalUpdateRead(p, c)
  <2> DEFINE v == Touched(held[p][c], p)
  <2>1. IsVersion(held[p][c], edits)
    BY <1>2 DEF LocalUpdateRead, TypeOK, HeldOK, RowsOK, IsRow
  <2>2. IsVersion(v, edits + 1)
    BY <2>1, TouchedType DEF TypeOK, Replica
  <2>3. drafts' = drafts \cup {<<p, v>>}
    BY <1>2 DEF LocalUpdateRead
  <2> HIDE DEF v
  <2>4. DraftsOK(drafts', edits + 1)
    BY <2>2, <2>3, TypeGrows DEF DraftsOK
  <2>5. drawn' \subseteq Proxy \X Config \X Nat /\ reused' \subseteq drawn'
    <3>1. Get(held[p][c].vv, p) + 1 \in Nat
      BY <2>1, GetType DEF IsVersion
    <3>2. QED
      BY <1>2, <3>1 DEF LocalUpdateRead, Draw, TypeOK
  <2>6. QED
    BY <1>2, <2>4, <2>5, TypeGrows DEF LocalUpdateRead, CountEdit, TypeOK
<1>3. CASE LocalDelete(p, c)
  <2>1. HeldOK(held', edits)
    BY <1>3, PutHeld DEF LocalDelete, TypeOK, IsRow
  <2>2. QED
    BY <1>3, <2>1 DEF LocalDelete, TypeOK
<1>4. CASE LocalPull(p, c)
  <2>1. IsRow(mocks[c], edits)
    BY DEF TypeOK, RowsOK
  <2>2. HeldOK(held', edits)
    BY <1>4, <2>1, PutHeld DEF LocalPull, TypeOK
  <2>3. QED
    BY <1>4, <2>2 DEF LocalPull, TypeOK
<1>5. QED
  BY <1>1, <1>2, <1>3, <1>4

LEMMA ProxyStepKeepsType == TypeOK /\ ProxyStep => TypeOK'
BY LocalStepKeepsType, LocalUpdateSaveKeepsType DEF ProxyStep

LEMMA CreateMockKeepsType ==
  ASSUME TypeOK, NEW c \in Config, CreateMock(c)
  PROVE  TypeOK'
<1>1. IsVersion(NewVersion(c), edits + 1)
  BY NewVersionType DEF TypeOK
<1>2. RowsOK(mocks', edits + 1)
  BY <1>1, TypeGrows, SaveRowKeepsType DEF CreateMock, TypeOK
<1>3. QED
  BY <1>2, TypeGrows DEF CreateMock, CountEdit, TypeOK

LEMMA DeleteMockKeepsType ==
  ASSUME TypeOK, NEW c \in Config, DeleteMock(c)
  PROVE  TypeOK'
<1>1. RowsOK(mocks', edits)
  BY PutRow DEF DeleteMock, TypeOK, IsRow
<1>2. QED
  BY <1>1 DEF DeleteMock, TypeOK

LEMMA DismissKeepsType ==
  ASSUME TypeOK, NEW c \in Config, Dismiss(c)
  PROVE  TypeOK'
<1>1. ConflictsOK(conflicts', edits)
  BY PutConflict DEF Dismiss, DropConflict, TypeOK, ConflictOK
<1>2. QED
  BY <1>1 DEF Dismiss, TypeOK

LEMMA PublicKeepLocalKeepsType ==
  ASSUME TypeOK, NEW v, IsVersion(v, edits), PublicKeepLocal(v)
  PROVE  TypeOK'
<1>1. IsVersion(Touched(v, FreshId), edits + 1)
  BY TouchedType, FreshIdIsReplica DEF TypeOK
<1>2. RowsOK(mocks', edits + 1)
  BY <1>1, TypeGrows, SaveRowKeepsType DEF PublicKeepLocal, TypeOK
<1>3. QED
  BY <1>2, TypeGrows DEF PublicKeepLocal, CountEdit, TypeOK

LEMMA UpdateReadKeepsType ==
  ASSUME TypeOK, NEW t \in Task, NEW c \in Config, NEW seen, IsRow(seen, edits),
         UpdateRead(t, c, seen)
  PROVE  TypeOK'
<1> DEFINE k == [Idle EXCEPT !.pc = "save", !.id = c, !.how = "update", !.seen = seen,
                             !.ver = Touched(mocks[c], FreshId), !.row = mocks[c]]
<1>1. IsVersion(mocks[c], edits)
  BY DEF UpdateRead, TypeOK, RowsOK, IsRow
<1>2. IsVersion(Touched(mocks[c], FreshId), edits + 1)
  BY <1>1, TouchedType, FreshIdIsReplica DEF TypeOK
<1>3. IsRow(mocks[c], edits + 1) /\ IsRow(seen, edits + 1)
  BY <1>1, RowGrows, VersionGrows DEF TypeOK, IsRow
<1>4. /\ k = [f \in TaskField |-> k[f]]
      /\ k.pc = "save" /\ k.id = c /\ k.how = "update" /\ k.seen = seen
      /\ k.ver = Touched(mocks[c], FreshId) /\ k.row = mocks[c] /\ k.todo = {}
  BY DEF Idle, TaskField
<1>5. Become(t, k)
  BY DEF UpdateRead
<1> HIDE DEF k
<1>6. TaskOK(k, edits + 1)
  BY <1>2, <1>3, <1>4 DEF TaskOK, PC
<1>7. TasksOK(task', edits + 1)
  BY <1>5, <1>6, TypeGrows, BecomeKeepsType
<1>8. QED
  BY <1>7, TypeGrows DEF UpdateRead, CountEdit, TypeOK

LEMMA PushStartKeepsType ==
  ASSUME TypeOK, NEW t \in Task, NEW p \in Proxy, NEW cs \in SUBSET Config,
         PushStart(t, p, cs)
  PROVE  TypeOK'
<1> DEFINE k == [Idle EXCEPT !.pc = "push", !.todo = {held[p][c] : c \in cs}]
<1>1. \A v \in {held[p][c] : c \in cs} : IsVersion(v, edits)
  BY DEF PushStart, TypeOK, HeldOK, RowsOK, IsRow
<1>2. TaskOK(k, edits)
  BY <1>1 DEF TaskOK, Idle, TaskField, PC, IsRow
<1>3. TasksOK(task', edits)
  BY <1>2, BecomeKeepsType DEF PushStart, TypeOK
<1>4. QED
  BY <1>3 DEF PushStart, TypeOK

LEMMA ImportStartKeepsType ==
  ASSUME TypeOK, NEW t \in Task, NEW vs, \A v \in vs : IsVersion(v, edits),
         ImportStart(t, vs)
  PROVE  TypeOK'
<1> DEFINE k == [Idle EXCEPT !.pc = "import", !.todo = vs]
<1>1. TaskOK(k, edits)
  BY DEF TaskOK, Idle, TaskField, PC, IsRow
<1>2. TasksOK(task', edits)
  BY <1>1, BecomeKeepsType DEF ImportStart, TypeOK
<1>3. QED
  BY <1>2 DEF ImportStart, TypeOK

LEMMA PublicMergeReadKeepsType ==
  ASSUME TypeOK, NEW t \in Task, NEW c \in Config, PublicMergeRead(t, c)
  PROVE  TypeOK'
<1> DEFINE k == [Idle EXCEPT !.pc = "save", !.id = c, !.how = "publicMerge",
                             !.ver = Touched(mocks[c], FreshId), !.row = mocks[c]]
<1>1. IsVersion(mocks[c], edits)
  BY DEF PublicMergeRead, TypeOK, RowsOK, IsRow
<1>2. IsVersion(Touched(mocks[c], FreshId), edits + 1)
  BY <1>1, TouchedType, FreshIdIsReplica DEF TypeOK
<1>3. /\ k = [f \in TaskField |-> k[f]]
      /\ k.pc = "save" /\ k.id = c /\ k.how = "publicMerge" /\ k.seen = Absent
      /\ k.ver = Touched(mocks[c], FreshId) /\ k.row = mocks[c] /\ k.todo = {}
  BY DEF Idle, TaskField
<1>4. Become(t, k)
  BY DEF PublicMergeRead
<1> HIDE DEF k
<1>5. TaskOK(k, edits + 1)
  <2>1. IsRow(mocks[c], edits + 1)
    BY <1>1, VersionGrows DEF IsRow, TypeOK
  <2>2. QED
    BY <1>2, <1>3, <2>1 DEF TaskOK, PC, IsRow
<1>6. TasksOK(task', edits + 1)
  BY <1>4, <1>5, TypeGrows, BecomeKeepsType
<1>7. QED
  BY <1>6, TypeGrows DEF PublicMergeRead, CountEdit, TypeOK

LEMMA ResolveReadKeepsType ==
  ASSUME TypeOK, NEW t \in Task, NEW c \in Config, NEW how, NEW body,
         how \in {"keep_local", "keep_central"} \/ (how = "merge" /\ IsVersion(body, edits)),
         ResolveRead(t, c, how, body)
  PROVE  TypeOK'
<1> DEFINE n == IF how = "keep_central" THEN edits ELSE edits + 1
           ver == Resolution(conflicts[c], how, body)
           row == conflicts[c].central
           k == [Idle EXCEPT !.pc = "resolveSave", !.id = c, !.how = how, !.ver = ver,
                             !.row = row]
<1>1. IsVersion(conflicts[c].local, edits) /\ IsVersion(conflicts[c].central, edits)
  BY DEF ResolveRead, TypeOK, ConflictsOK, ConflictOK
<1>2. FreshId \in Replica
  BY FreshIdIsReplica DEF TypeOK
<1>3. IsVersion(ver, n)
  <2>1. CASE how = "keep_local"
    BY <1>1, <1>2, <2>1, TouchedType DEF TypeOK, Resolution
  <2>2. CASE how = "keep_central"
    BY <1>1, <2>2 DEF Resolution
  <2>3. CASE how = "merge"
    <3>1. IsVersion(MergeBoth(conflicts[c], body), edits)
      BY <1>1, <2>3, MergeBothType
    <3>2. QED
      BY <1>2, <2>3, <3>1, TouchedType DEF TypeOK, Resolution
  <2>4. QED
    BY <2>1, <2>2, <2>3
<1>4. /\ k = [f \in TaskField |-> k[f]]
      /\ k.pc = "resolveSave" /\ k.id = c /\ k.how = how /\ k.seen = Absent
      /\ k.ver = ver /\ k.row = row /\ k.todo = {}
  BY DEF Idle, TaskField
<1>5. edits' = n /\ Become(t, k)
  BY DEF ResolveRead, CountEdit
<1>6. /\ n \in Nat /\ RowsOK(mocks, n) /\ ConflictsOK(conflicts, n)
      /\ TasksOK(task, n) /\ HeldOK(held, n) /\ DraftsOK(drafts, n)
  BY TypeGrows DEF TypeOK
<1>61. IsRow(row, n)
  BY <1>1, VersionGrows DEF IsRow, TypeOK
<1> HIDE DEF k, n, ver, row
<1>7. TaskOK(k, n)
  BY <1>3, <1>4, <1>61 DEF TaskOK, PC, IsRow
<1>8. TasksOK(task', n)
  BY <1>5, <1>6, <1>7, BecomeKeepsType
<1>9. QED
  BY <1>5, <1>6, <1>8 DEF ResolveRead, TypeOK

LEMMA RequestArrivesKeepsType == TypeOK /\ RequestArrives => TypeOK'
<1> SUFFICES ASSUME TypeOK, RequestArrives
             PROVE  TypeOK'
  OBVIOUS
<1>1. \A v \in Live : IsVersion(v, edits)
  BY LiveType
<1>2. CASE \E c \in Config : CreateMock(c) \/ DeleteMock(c) \/ Dismiss(c)
  BY <1>2, CreateMockKeepsType, DeleteMockKeepsType, DismissKeepsType
<1>3. CASE \E v \in Live : PublicKeepLocal(v)
  BY <1>1, <1>3, PublicKeepLocalKeepsType
<1>4. ASSUME NEW t \in Task, NEW c \in Config, NEW seen \in LiveOf(c) \cup {Absent},
             UpdateRead(t, c, seen)
      PROVE  TypeOK'
  <2>1. IsRow(seen, edits)
    BY <1>1 DEF LiveOf, IsRow
  <2>2. QED
    BY <1>4, <2>1, UpdateReadKeepsType
<1>5. ASSUME NEW t \in Task, NEW p \in Proxy, NEW cs \in (SUBSET Config) \ {{}},
             PushStart(t, p, cs)
      PROVE  TypeOK'
  BY <1>5, PushStartKeepsType
<1>6. ASSUME NEW t \in Task, NEW vs \in (SUBSET Live) \ {{}}, ImportStart(t, vs)
      PROVE  TypeOK'
  BY <1>1, <1>6, ImportStartKeepsType
<1>7. ASSUME NEW t \in Task, NEW c \in Config, PublicMergeRead(t, c)
      PROVE  TypeOK'
  BY <1>7, PublicMergeReadKeepsType
<1>8. ASSUME NEW t \in Task, NEW c \in Config, NEW how \in {"keep_local", "keep_central"},
             ResolveRead(t, c, how, Absent)
      PROVE  TypeOK'
  BY <1>8, ResolveReadKeepsType
<1>9. ASSUME NEW t \in Task, NEW c \in Config, NEW body \in Live,
             ResolveRead(t, c, "merge", body)
      PROVE  TypeOK'
  BY <1>1, <1>9, ResolveReadKeepsType
<1>10. ASSUME NEW t \in Task,
              \/ \E c \in Config : \E seen \in LiveOf(c) \cup {Absent} : UpdateRead(t, c, seen)
              \/ \E p \in Proxy, cs \in (SUBSET Config) \ {{}} : PushStart(t, p, cs)
              \/ \E vs \in (SUBSET Live) \ {{}} : ImportStart(t, vs)
              \/ \E c \in Config : PublicMergeRead(t, c)
              \/ \E c \in Config, how \in {"keep_local", "keep_central"} :
                   ResolveRead(t, c, how, Absent)
              \/ \E c \in Config, body \in Live : ResolveRead(t, c, "merge", body)
       PROVE  TypeOK'
  BY <1>4, <1>5, <1>6, <1>7, <1>8, <1>9, <1>10, Zenon
<1>11. QED
  BY <1>2, <1>3, <1>10, Zenon DEF RequestArrives

LEMMA NextOfBatchKeepsType ==
  ASSUME TypeOK, NEW t \in Task, NEW pc \in {"push", "import"}, NextOfBatch(t, pc)
  PROVE  TasksOK(task', edits)
<1> DEFINE k == [Idle EXCEPT !.pc = pc, !.todo = task[t].todo]
<1>1. TasksOK(task, edits) /\ \A v \in task[t].todo : IsVersion(v, edits)
  BY DEF TypeOK, TasksOK, TaskOK
<1>2. TaskOK(k, edits)
  BY <1>1 DEF TaskOK, Idle, TaskField, PC, IsRow
<1>3. TaskOK(Idle, edits)
  BY IdleType
<1>4. Become(t, Idle) \/ Become(t, k)
  BY DEF NextOfBatch
<1> HIDE DEF k
<1>5. QED
  BY <1>1, <1>2, <1>3, <1>4, BecomeKeepsType

LEMMA PushReadKeepsType ==
  ASSUME TypeOK, NEW t \in Task, NEW v \in task[t].todo, NEW fails \in BOOLEAN,
         PushRead(t, v, fails)
  PROVE  TypeOK'
<1> DEFINE row == IF fails THEN Absent ELSE mocks[v.id]
           clash == row # Absent /\ PushIsConflict(row, v)
           pc == IF clash THEN "pushConflict" ELSE "pushSave"
           rest == task[t].todo \ {v}
           k == [task[t] EXCEPT !.pc = pc, !.id = v.id, !.ver = v, !.row = row,
                                !.todo = rest]
<1>1. TaskOK(task[t], edits)
  BY DEF TypeOK, TasksOK
<1>2. IsVersion(v, edits) /\ \A u \in rest : IsVersion(u, edits)
  BY <1>1 DEF TaskOK
<1>3. IsRow(row, edits)
  BY <1>2 DEF TypeOK, RowsOK, IsRow, IsVersion
<1>4. /\ v.id \in Config
      /\ pc \in {"pushConflict", "pushSave"}
      /\ pc = "pushConflict" => row # Absent
  BY <1>2 DEF IsVersion
<1>5. Become(t, k)
  BY DEF PushRead
<1> HIDE DEF row, clash, pc, rest
<1>6. /\ k = [f \in TaskField |-> k[f]]
      /\ k.pc = pc /\ k.id = v.id /\ k.ver = v /\ k.row = row /\ k.todo = rest
      /\ k.seen = task[t].seen /\ k.how = task[t].how
  BY <1>1 DEF TaskOK, TaskField
<1> HIDE DEF k
<1>7. TaskOK(k, edits)
  BY <1>1, <1>2, <1>3, <1>4, <1>6 DEF TaskOK, PC
<1>8. TasksOK(task', edits)
  BY <1>5, <1>7, BecomeKeepsType DEF TypeOK
<1>9. QED
  BY <1>8 DEF PushRead, TypeOK

LEMMA ImportSaveKeepsType ==
  ASSUME TypeOK, NEW t \in Task, NEW v \in task[t].todo, NEW fails \in BOOLEAN,
         ImportSave(t, v, fails)
  PROVE  TypeOK'
<1> DEFINE rest == task[t].todo \ {v}
           k == [task[t] EXCEPT !.todo = rest]
<1>1. TaskOK(task[t], edits)
  BY DEF TypeOK, TasksOK
<1>2. IsVersion(v, edits)
  BY <1>1 DEF TaskOK
<1>3. RowsOK(mocks', edits)
  BY <1>2, SaveRowKeepsType DEF ImportSave, TypeOK
<1>4. TaskOK(k, edits)
  <2>1. /\ k = [f \in TaskField |-> k[f]]
        /\ k.pc = task[t].pc /\ k.id = task[t].id /\ k.ver = task[t].ver
        /\ k.row = task[t].row /\ k.todo = rest /\ k.seen = task[t].seen
        /\ k.how = task[t].how
    BY <1>1 DEF TaskOK, TaskField
  <2>2. task[t].pc = "import"
    BY DEF ImportSave
  <2> HIDE DEF k
  <2>3. QED
    BY <1>1, <2>1, <2>2 DEF TaskOK
<1>5. Become(t, Idle) \/ Become(t, k)
  BY DEF ImportSave
<1> HIDE DEF k
<1>6. TasksOK(task', edits)
  BY <1>4, <1>5, IdleType, BecomeKeepsType DEF TypeOK
<1>7. QED
  BY <1>3, <1>6 DEF ImportSave, TypeOK

LEMMA HandlerStepKeepsType ==
  ASSUME TypeOK, NEW t \in Task, HandlerStep(t)
  PROVE  TypeOK'
<1>1. TaskOK(task[t], edits)
  BY DEF TypeOK, TasksOK
<1>2. CASE SaveAndReply(t)
  <2>1. IsVersion(task[t].ver, edits)
    BY <1>1, <1>2 DEF SaveAndReply, TaskOK
  <2>2. RowsOK(mocks', edits)
    BY <1>2, <2>1, SaveRowKeepsType DEF SaveAndReply, TypeOK
  <2>3. TasksOK(task', edits)
    BY <1>2, IdleType, BecomeKeepsType DEF SaveAndReply, TypeOK
  <2>4. QED
    BY <1>2, <2>2, <2>3 DEF SaveAndReply, TypeOK
<1>3. CASE ResolveSave(t)
  <2> DEFINE k == [Idle EXCEPT !.pc = "resolveDelete", !.id = task[t].id]
  <2>1. IsVersion(task[t].ver, edits) /\ task[t].id \in Config
    BY <1>1, <1>3 DEF ResolveSave, TaskOK
  <2>2. RowsOK(mocks', edits)
    BY <1>3, <2>1, SaveRowKeepsType DEF ResolveSave, TypeOK
  <2>3. TaskOK(k, edits)
    BY <2>1 DEF TaskOK, Idle, TaskField, PC, IsRow
  <2>4. TasksOK(task', edits)
    BY <1>3, <2>3, BecomeKeepsType DEF ResolveSave, TypeOK
  <2>5. QED
    BY <1>3, <2>2, <2>4 DEF ResolveSave, TypeOK
<1>4. CASE ResolveDelete(t)
  <2>1. ConflictsOK(conflicts', edits)
    BY <1>1, <1>4, PutConflict
    DEF ResolveDelete, DropConflict, TypeOK, TaskOK, ConflictOK
  <2>2. TasksOK(task', edits)
    BY <1>4, IdleType, BecomeKeepsType DEF ResolveDelete, TypeOK
  <2>3. QED
    BY <1>4, <2>1, <2>2 DEF ResolveDelete, TypeOK
<1>5. CASE HandlerFails(t)
  BY <1>5, IdleType, BecomeKeepsType DEF HandlerFails, TypeOK
<1>6. CASE \E v \in task[t].todo, fails \in BOOLEAN :
             PushRead(t, v, fails) \/ ImportSave(t, v, fails)
  BY <1>6, PushReadKeepsType, ImportSaveKeepsType
<1>7. ASSUME NEW fails \in BOOLEAN, PushUpsertConflict(t, fails)
      PROVE  TypeOK'
  <2> DEFINE k == [local |-> task[t].ver, central |-> task[t].row]
  <2>1. task[t].id \in Config /\ IsVersion(task[t].ver, edits)
    BY <1>1, <1>7 DEF PushUpsertConflict, TaskOK
  <2>2. IsVersion(task[t].row, edits)
    BY <1>1, <1>7 DEF PushUpsertConflict, TaskOK, IsRow
  <2>3. ConflictOK(k, edits)
    BY <2>1, <2>2 DEF ConflictOK
  <2>4. conflicts' = conflicts \/ conflicts' = [conflicts EXCEPT ![task[t].id] = k]
    BY <1>7 DEF PushUpsertConflict
  <2> HIDE DEF k
  <2>5. ConflictsOK(conflicts', edits)
    BY <2>1, <2>3, <2>4, PutConflict DEF TypeOK
  <2>6. TasksOK(task', edits)
    BY <1>7, NextOfBatchKeepsType DEF PushUpsertConflict
  <2>7. QED
    BY <1>7, <2>5, <2>6 DEF PushUpsertConflict, TypeOK
<1>8. ASSUME NEW fails \in BOOLEAN, PushSave(t, fails)
      PROVE  TypeOK'
  <2>1. IsVersion(task[t].ver, edits)
    BY <1>1, <1>8 DEF PushSave, TaskOK
  <2>2. RowsOK(mocks', edits)
    BY <1>8, <2>1, SaveRowKeepsType DEF PushSave, TypeOK
  <2>3. TasksOK(task', edits)
    BY <1>8, NextOfBatchKeepsType DEF PushSave
  <2>4. QED
    BY <1>8, <2>2, <2>3 DEF PushSave, TypeOK
<1>9. QED
  BY <1>2, <1>3, <1>4, <1>5, <1>6, <1>7, <1>8 DEF HandlerStep

LEMMA NextKeepsType == TypeOK /\ [Next]_vars => TypeOK'
<1> SUFFICES ASSUME TypeOK, [Next]_vars
             PROVE  TypeOK'
  OBVIOUS
<1>1. CASE Next
  BY <1>1, ProxyStepKeepsType, RequestArrivesKeepsType, HandlerStepKeepsType DEF Next
<1>2. CASE UNCHANGED vars
  BY <1>2 DEF vars, TypeOK
<1>3. QED
  BY <1>1, <1>2

LEMMA InitType == Init => TypeOK
<1> SUFFICES ASSUME Init
             PROVE  TypeOK
  OBVIOUS
<1>1. TasksOK(task, edits)
  BY IdleType DEF Init, TasksOK
<1>2. QED
  BY <1>1 DEF Init, TypeOK, RowsOK, ConflictsOK, ConflictOK, HeldOK, DraftsOK, IsRow

\* The tables, the handlers' findings and the proxies' copies stay well formed
\* under every interleaving of the handlers, for any number of them.
THEOREM CentralTypeOK == Spec => []TypeOK
<1>1. QED
  BY InitType, NextKeepsType, PTL DEF Spec

-----------------------------------------------------------------------------
(* Conflict records are forks.                                             *)

\* Rows are filed under the id they carry.
FiledById == \A c \in Config : mocks[c] # Absent => mocks[c].id = c

\* What sync_push has found about the configuration in hand, between its read
\* of the row and its insertion of the record: the findings are about one
\* configuration and the versions are concurrent, whatever the other handlers
\* have done to the row meanwhile.
PendingIsFork ==
  \A t \in Task : task[t].pc = "pushConflict" =>
    /\ task[t].ver.id = task[t].id
    /\ task[t].row.id = task[t].id
    /\ ConcurrentWith(task[t].ver.vv, task[t].row.vv)

ForkInv == TypeOK /\ FiledById /\ PendingIsFork /\ ConflictRecordsAreForks

LEMMA SaveRowFiles ==
  ASSUME TypeOK, FiledById, NEW v, IsVersion(v, edits) \/ IsVersion(v, edits + 1),
         SaveRow(v)
  PROVE  FiledById'
<1>1. v.id \in Config
  BY DEF IsVersion
<1>2. QED
  BY <1>1 DEF FiledById, SaveRow, TypeOK, RowsOK

\* A task that starts, ends or goes on is no obstacle unless it goes to
\* pushConflict.
LEMMA BecomeKeepsPending ==
  ASSUME TypeOK, PendingIsFork, NEW t \in Task, NEW k, k.pc # "pushConflict",
         Become(t, k)
  PROVE  PendingIsFork'
BY DEF Become, PendingIsFork, TypeOK, TasksOK

LEMMA IdleIsNoFork == Idle.pc # "pushConflict"
BY DEF Idle

LEMMA FiledByIdKept == TypeOK /\ FiledById /\ Next => FiledById'
<1> SUFFICES ASSUME TypeOK, FiledById, Next
             PROVE  FiledById'
  OBVIOUS
<1>1. \A v \in Live : IsVersion(v, edits)
  BY LiveType
<1>2. CASE ProxyStep
  <2>1. UNCHANGED mocks
    BY <1>2 DEF ProxyStep, LocalCreate, LocalUpdateRead, LocalUpdateSave, LocalDelete, LocalPull
  <2>2. QED
    BY <2>1 DEF FiledById
<1>3. ASSUME NEW c \in Config, CreateMock(c) \/ DeleteMock(c) \/ Dismiss(c)
      PROVE  FiledById'
  <2>1. CASE CreateMock(c)
    BY <2>1, NewVersionType, SaveRowFiles DEF CreateMock, TypeOK
  <2>2. CASE DeleteMock(c)
    BY <2>2 DEF DeleteMock, FiledById, TypeOK, RowsOK
  <2>3. CASE Dismiss(c)
    BY <2>3 DEF Dismiss, FiledById
  <2>4. QED
    BY <1>3, <2>1, <2>2, <2>3
<1>4. ASSUME NEW v \in Live, PublicKeepLocal(v)
      PROVE  FiledById'
  <2>1. IsVersion(Touched(v, FreshId), edits + 1)
    BY <1>1, TouchedType, FreshIdIsReplica DEF TypeOK
  <2>2. QED
    BY <1>4, <2>1, SaveRowFiles DEF PublicKeepLocal
<1>5. CASE \E t \in Task :
             \/ \E c \in Config : \E seen \in LiveOf(c) \cup {Absent} : UpdateRead(t, c, seen)
             \/ \E p \in Proxy, cs \in (SUBSET Config) \ {{}} : PushStart(t, p, cs)
             \/ \E vs \in (SUBSET Live) \ {{}} : ImportStart(t, vs)
             \/ \E c \in Config : PublicMergeRead(t, c)
             \/ \E c \in Config, how \in {"keep_local", "keep_central"} :
                  ResolveRead(t, c, how, Absent)
             \/ \E c \in Config, body \in Live : ResolveRead(t, c, "merge", body)
  <2>1. UNCHANGED mocks
    BY <1>5 DEF UpdateRead, PushStart, ImportStart, PublicMergeRead, ResolveRead
  <2>2. QED
    BY <2>1 DEF FiledById
<1>6. ASSUME NEW t \in Task, HandlerStep(t)
      PROVE  FiledById'
  <2>1. TaskOK(task[t], edits)
    BY DEF TypeOK, TasksOK
  <2>2. CASE SaveAndReply(t) \/ ResolveSave(t)
    <3>1. IsVersion(task[t].ver, edits) /\ SaveRow(task[t].ver)
      BY <2>1, <2>2 DEF SaveAndReply, ResolveSave, TaskOK
    <3>2. QED
      BY <3>1, SaveRowFiles
  <2>3. CASE ResolveDelete(t) \/ HandlerFails(t)
    BY <2>3 DEF ResolveDelete, HandlerFails, FiledById
  <2>4. ASSUME NEW v \in task[t].todo, NEW fails \in BOOLEAN, PushRead(t, v, fails)
        PROVE  FiledById'
    BY <2>4 DEF PushRead, FiledById
  <2>5. ASSUME NEW v \in task[t].todo, NEW fails \in BOOLEAN, ImportSave(t, v, fails)
        PROVE  FiledById'
    <3>1. IsVersion(v, edits)
      BY <2>1 DEF TaskOK
    <3>2. UNCHANGED mocks \/ SaveRow(v)
      BY <2>5 DEF ImportSave
    <3>3. QED
      BY <3>1, <3>2, SaveRowFiles DEF FiledById
  <2>6. ASSUME NEW fails \in BOOLEAN, PushUpsertConflict(t, fails)
        PROVE  FiledById'
    BY <2>6 DEF PushUpsertConflict, FiledById
  <2>7. ASSUME NEW fails \in BOOLEAN, PushSave(t, fails)
        PROVE  FiledById'
    <3>1. IsVersion(task[t].ver, edits)
      BY <2>1, <2>7 DEF PushSave, TaskOK
    <3>2. UNCHANGED mocks \/ SaveRow(task[t].ver)
      BY <2>7 DEF PushSave
    <3>3. QED
      BY <3>1, <3>2, SaveRowFiles DEF FiledById
  <2>8. QED
    BY <1>6, <2>2, <2>3, <2>4, <2>5, <2>6, <2>7 DEF HandlerStep
<1>7. CASE RequestArrives
  BY <1>3, <1>4, <1>5, <1>7, Zenon DEF RequestArrives
<1>8. QED
  BY <1>2, <1>6, <1>7 DEF Next

LEMMA PendingIsForkKept == TypeOK /\ FiledById /\ PendingIsFork /\ Next => PendingIsFork'
<1> SUFFICES ASSUME TypeOK, FiledById, PendingIsFork, Next
             PROVE  PendingIsFork'
  OBVIOUS
<1>1. ASSUME UNCHANGED task
      PROVE  PendingIsFork'
  BY <1>1 DEF PendingIsFork
<1>2. CASE ProxyStep
  BY <1>1, <1>2 DEF ProxyStep, LocalCreate, LocalUpdateRead, LocalUpdateSave, LocalDelete, LocalPull
<1>3. CASE \E c \in Config : CreateMock(c) \/ DeleteMock(c) \/ Dismiss(c)
  BY <1>1, <1>3 DEF CreateMock, DeleteMock, Dismiss
<1>4. CASE \E v \in Live : PublicKeepLocal(v)
  BY <1>1, <1>4 DEF PublicKeepLocal
<1>5. ASSUME NEW t \in Task,
             \/ \E c \in Config : \E seen \in LiveOf(c) \cup {Absent} : UpdateRead(t, c, seen)
             \/ \E p \in Proxy, cs \in (SUBSET Config) \ {{}} : PushStart(t, p, cs)
             \/ \E vs \in (SUBSET Live) \ {{}} : ImportStart(t, vs)
             \/ \E c \in Config : PublicMergeRead(t, c)
             \/ \E c \in Config, how \in {"keep_local", "keep_central"} :
                  ResolveRead(t, c, how, Absent)
             \/ \E c \in Config, body \in Live : ResolveRead(t, c, "merge", body)
      PROVE  PendingIsFork'
  <2>1. PICK k : k.pc # "pushConflict" /\ Become(t, k)
    BY <1>5 DEF UpdateRead, PushStart, ImportStart, PublicMergeRead, ResolveRead, Idle
  <2>2. QED
    BY <2>1, BecomeKeepsPending
<1>6. ASSUME NEW t \in Task, HandlerStep(t)
      PROVE  PendingIsFork'
  <2>1. TaskOK(task[t], edits)
    BY DEF TypeOK, TasksOK
  <2>2. CASE SaveAndReply(t) \/ ResolveDelete(t) \/ HandlerFails(t)
    BY <2>2, IdleIsNoFork, BecomeKeepsPending DEF SaveAndReply, ResolveDelete, HandlerFails
  <2>3. CASE ResolveSave(t)
    BY <2>3, BecomeKeepsPending DEF ResolveSave, Idle
  <2>4. ASSUME NEW pc \in {"push", "import"}, NextOfBatch(t, pc)
        PROVE  PendingIsFork'
    BY <2>4, BecomeKeepsPending DEF NextOfBatch, Idle
  <2>5. CASE \E fails \in BOOLEAN : PushUpsertConflict(t, fails) \/ PushSave(t, fails)
    BY <2>4, <2>5 DEF PushUpsertConflict, PushSave
  <2>6. ASSUME NEW v \in task[t].todo, NEW fails \in BOOLEAN, ImportSave(t, v, fails)
        PROVE  PendingIsFork'
    <3> DEFINE k == [task[t] EXCEPT !.todo = task[t].todo \ {v}]
    <3>1. k.pc # "pushConflict"
      BY <2>1, <2>6 DEF ImportSave, TaskOK, TaskField
    <3>2. Become(t, Idle) \/ Become(t, k)
      BY <2>6 DEF ImportSave
    <3> HIDE DEF k
    <3>3. QED
      BY <3>1, <3>2, IdleIsNoFork, BecomeKeepsPending
  <2>7. ASSUME NEW v \in task[t].todo, NEW fails \in BOOLEAN, PushRead(t, v, fails)
        PROVE  PendingIsFork'
    <3> DEFINE row == IF fails THEN Absent ELSE mocks[v.id]
               clash == row # Absent /\ PushIsConflict(row, v)
               pc == IF clash THEN "pushConflict" ELSE "pushSave"
               k == [task[t] EXCEPT !.pc = pc, !.id = v.id, !.ver = v, !.row = row,
                                    !.todo = task[t].todo \ {v}]
    <3>1. v.id \in Config
      BY <2>1 DEF TaskOK, IsVersion
    <3>2. clash => row.id = v.id /\ ConcurrentWith(v.vv, row.vv)
      BY <3>1, ConcurrentSymmetric DEF FiledById, PushIsConflict
    <3>3. pc = "pushConflict" => clash
      OBVIOUS
    <3>4. Become(t, k)
      BY <2>7 DEF PushRead
    <3> HIDE DEF row, clash, pc
    <3>5. k.pc = pc /\ k.id = v.id /\ k.ver = v /\ k.row = row
      BY <2>1 DEF TaskOK, TaskField
    <3> HIDE DEF k
    <3>6. QED
      BY <3>2, <3>3, <3>4, <3>5 DEF Become, PendingIsFork, TypeOK, TasksOK
  <2>8. QED
    BY <1>6, <2>2, <2>3, <2>5, <2>6, <2>7 DEF HandlerStep
<1>7. CASE RequestArrives
  BY <1>3, <1>4, <1>5, <1>7, Zenon DEF RequestArrives
<1>8. QED
  BY <1>2, <1>6, <1>7 DEF Next

LEMMA RecordsKept ==
  TypeOK /\ PendingIsFork /\ ConflictRecordsAreForks /\ Next => ConflictRecordsAreForks'
<1> SUFFICES ASSUME TypeOK, PendingIsFork, ConflictRecordsAreForks, Next
             PROVE  ConflictRecordsAreForks'
  OBVIOUS
<1>1. ASSUME UNCHANGED conflicts
      PROVE  ConflictRecordsAreForks'
  BY <1>1 DEF ConflictRecordsAreForks
<1>2. ASSUME NEW c \in Config, DropConflict(c)
      PROVE  ConflictRecordsAreForks'
  BY <1>2 DEF DropConflict, ConflictRecordsAreForks, TypeOK, ConflictsOK
<1>3. CASE ProxyStep
  BY <1>1, <1>3 DEF ProxyStep, LocalCreate, LocalUpdateRead, LocalUpdateSave, LocalDelete, LocalPull
<1>4. CASE \E c \in Config : CreateMock(c) \/ DeleteMock(c) \/ Dismiss(c)
  BY <1>1, <1>2, <1>4 DEF CreateMock, DeleteMock, Dismiss
<1>5. CASE \E v \in Live : PublicKeepLocal(v)
  BY <1>1, <1>5 DEF PublicKeepLocal
<1>6. ASSUME NEW t \in Task,
             \/ \E c \in Config : \E seen \in LiveOf(c) \cup {Absent} : UpdateRead(t, c, seen)
             \/ \E p \in Proxy, cs \in (SUBSET Config) \ {{}} : PushStart(t, p, cs)
             \/ \E vs \in (SUBSET Live) \ {{}} : ImportStart(t, vs)
             \/ \E c \in Config : PublicMergeRead(t, c)
             \/ \E c \in Config, how \in {"keep_local", "keep_central"} :
                  ResolveRead(t, c, how, Absent)
             \/ \E c \in Config, body \in Live : ResolveRead(t, c, "merge", body)
      PROVE  ConflictRecordsAreForks'
  BY <1>1, <1>6 DEF UpdateRead, PushStart, ImportStart, PublicMergeRead, ResolveRead
<1>7. ASSUME NEW t \in Task, HandlerStep(t)
      PROVE  ConflictRecordsAreForks'
  <2>1. TaskOK(task[t], edits)
    BY DEF TypeOK, TasksOK
  <2>2. CASE SaveAndReply(t) \/ ResolveSave(t) \/ HandlerFails(t)
    BY <1>1, <2>2 DEF SaveAndReply, ResolveSave, HandlerFails
  <2>3. CASE ResolveDelete(t)
    BY <1>2, <2>1, <2>3 DEF ResolveDelete, TaskOK
  <2>4. CASE \E v \in task[t].todo, fails \in BOOLEAN :
               PushRead(t, v, fails) \/ ImportSave(t, v, fails)
    BY <1>1, <2>4 DEF PushRead, ImportSave
  <2>5. CASE \E fails \in BOOLEAN : PushSave(t, fails)
    BY <1>1, <2>5 DEF PushSave
  <2>6. ASSUME NEW fails \in BOOLEAN, PushUpsertConflict(t, fails)
        PROVE  ConflictRecordsAreForks'
    <3> DEFINE k == [local |-> task[t].ver, central |-> task[t].row]
    <3>1. /\ task[t].id \in Config
          /\ k.local.id = task[t].id /\ k.central.id = task[t].id
          /\ ConcurrentWith(k.local.vv, k.central.vv)
      BY <2>1, <2>6 DEF PushUpsertConflict, PendingIsFork, TaskOK
    <3>2. UNCHANGED conflicts \/ conflicts' = [conflicts EXCEPT ![task[t].id] = k]
      BY <2>6 DEF PushUpsertConflict
    <3> HIDE DEF k
    <3>3. QED
      BY <3>1, <3>2 DEF ConflictRecordsAreForks, TypeOK, ConflictsOK
  <2>7. QED
    BY <1>7, <2>2, <2>3, <2>4, <2>5, <2>6 DEF HandlerStep
<1>8. CASE RequestArrives
  BY <1>4, <1>5, <1>6, <1>8, Zenon DEF RequestArrives
<1>9. QED
  BY <1>3, <1>7, <1>8 DEF Next

LEMMA InitIsFork == Init => ForkInv
<1>1. Init => FiledById /\ PendingIsFork /\ ConflictRecordsAreForks
  BY DEF Init, Idle, FiledById, PendingIsFork, ConflictRecordsAreForks
<1>2. QED
  BY <1>1, InitType DEF ForkInv

LEMMA ForkInvKept == ForkInv /\ [Next]_vars => ForkInv'
<1> SUFFICES ASSUME ForkInv, [Next]_vars
             PROVE  ForkInv'
  OBVIOUS
<1>1. TypeOK'
  BY NextKeepsType DEF ForkInv
<1>2. CASE Next
  BY <1>1, <1>2, FiledByIdKept, PendingIsForkKept, RecordsKept DEF ForkInv
<1>3. CASE UNCHANGED vars
  BY <1>1, <1>3 DEF vars, ForkInv, FiledById, PendingIsFork, ConflictRecordsAreForks
<1>4. QED
  BY <1>2, <1>3

\* Whatever the interleaving of the handlers, a conflict record pairs two
\* concurrent versions of the configuration it is filed under: sync_push never
\* records a version that is ordered with the row it read.
THEOREM RecordsAlwaysForks == Spec => []ConflictRecordsAreForks
<1>1. ForkInv => ConflictRecordsAreForks
  BY DEF ForkInv
<1>2. QED
  BY <1>1, InitIsFork, ForkInvKept, PTL DEF Spec

-----------------------------------------------------------------------------
(* A merge resolution absorbs both sides.                                  *)

LEMMA MergeResolutionDominates ==
  ASSUME TypeOK, NEW t \in Task, NEW c \in Config, NEW body, IsVersion(body, edits),
         ResolveRead(t, c, "merge", body)
  PROVE  /\ task'[t].id = c
         /\ Dominates(task'[t].ver.vv, conflicts[c].local.vv)
         /\ Dominates(task'[t].ver.vv, conflicts[c].central.vv)
<1> DEFINE k == conflicts[c]
           m == MergeBoth(k, body)
           v == Touched(m, FreshId)
<1>1. IsVersion(k.local, edits) /\ IsVersion(k.central, edits)
  BY DEF ResolveRead, TypeOK, ConflictsOK, ConflictOK
<1>2. /\ IsVersion(m, edits)
      /\ m.vv = Merge(Merge(body.vv, k.local.vv), k.central.vv)
  BY <1>1, MergeBothType
<1>3. FreshId \in Replica
  BY FreshIdIsReplica DEF TypeOK
<1> HIDE DEF m
<1>4. v.vv = Increment(m.vv, FreshId)
  BY <1>2, <1>3, TouchedType DEF TypeOK
<1>5. Dominates(v.vv, k.local.vv) /\ Dominates(v.vv, k.central.vv)
  BY <1>1, <1>2, <1>3, <1>4, BumpedMergeDominates DEF IsVersion
<1>6. task'[t].id = c /\ task'[t].ver = v
  BY DEF ResolveRead, Become, TypeOK, TasksOK, Idle, Resolution, m
<1> HIDE DEF v
<1>7. QED
  BY <1>5, <1>6

LEMMA NextAbsorbs == TypeOK /\ Next => \A t \in Task : ResolutionAbsorbs(t)
<1> SUFFICES ASSUME TypeOK, Next, NEW s \in Task,
                    task[s].pc = "idle", task'[s].how = "merge"
             PROVE  LET k == conflicts[task'[s].id]
                    IN /\ Dominates(task'[s].ver.vv, k.local.vv)
                       /\ Dominates(task'[s].ver.vv, k.central.vv)
  BY DEF ResolutionAbsorbs
<1>1. task[s].how = "none"
  BY DEF TypeOK, TasksOK, TaskOK, Idle
<1>2. ~UNCHANGED task
  BY <1>1
<1>3. ASSUME NEW t \in Task, NEW k, Become(t, k)
      PROVE  t = s /\ k.how = "merge"
  BY <1>1, <1>3 DEF Become, TypeOK, TasksOK
<1>4. CASE ProxyStep
  BY <1>2, <1>4 DEF ProxyStep, LocalCreate, LocalUpdateRead, LocalUpdateSave, LocalDelete, LocalPull
<1>5. CASE \E c \in Config : CreateMock(c) \/ DeleteMock(c) \/ Dismiss(c)
  BY <1>2, <1>5 DEF CreateMock, DeleteMock, Dismiss
<1>6. CASE \E v \in Live : PublicKeepLocal(v)
  BY <1>2, <1>6 DEF PublicKeepLocal
<1>7. ASSUME NEW t \in Task,
             \/ \E c \in Config : \E seen \in LiveOf(c) \cup {Absent} : UpdateRead(t, c, seen)
             \/ \E p \in Proxy, cs \in (SUBSET Config) \ {{}} : PushStart(t, p, cs)
             \/ \E vs \in (SUBSET Live) \ {{}} : ImportStart(t, vs)
             \/ \E c \in Config : PublicMergeRead(t, c)
             \/ \E c \in Config, how \in {"keep_local", "keep_central"} :
                  ResolveRead(t, c, how, Absent)
      PROVE  FALSE
  <2>1. PICK k : k.how # "merge" /\ Become(t, k)
    BY <1>7 DEF UpdateRead, PushStart, ImportStart, PublicMergeRead, ResolveRead, Idle
  <2>2. QED
    BY <1>3, <2>1
<1>8. ASSUME NEW t \in Task, NEW c \in Config, NEW body \in Live,
             ResolveRead(t, c, "merge", body)
      PROVE  LET k == conflicts[task'[s].id]
             IN /\ Dominates(task'[s].ver.vv, k.local.vv)
                /\ Dominates(task'[s].ver.vv, k.central.vv)
  <2>1. IsVersion(body, edits)
    BY LiveType
  <2>2. t = s
    BY <1>3, <1>8 DEF ResolveRead
  <2>3. QED
    BY <1>8, <2>1, <2>2, MergeResolutionDominates
<1>9. ASSUME NEW t \in Task, HandlerStep(t)
      PROVE  FALSE
  <2>1. PICK k : task[t].pc # "idle" /\ Become(t, k)
    BY <1>9 DEF HandlerStep, SaveAndReply, ResolveSave, ResolveDelete, HandlerFails,
                PushRead, ImportSave, PushUpsertConflict, PushSave, NextOfBatch
  <2>2. QED
    BY <1>3, <2>1
<1>10. CASE RequestArrives
  BY <1>5, <1>6, <1>7, <1>8, <1>10, Zenon DEF RequestArrives
<1>11. QED
  BY <1>4, <1>9, <1>10 DEF Next

\* handlers/conflicts.rs, strategy merge: whatever body the resolver sends, the
\* configuration saved is newer than the proxy's side and than the central side
\* of the record it resolves.
THEOREM MergeAlwaysAbsorbs == Spec => MergeAbsorbsBothSides
<1>1. TypeOK /\ [Next]_vars => [\A t \in Task : ResolutionAbsorbs(t)]_vars
  BY NextAbsorbs
<1>2. QED
  BY <1>1, CentralTypeOK, PTL DEF Spec, MergeAbsorbsBothSides

-----------------------------------------------------------------------------
(* Version vectors track the edits.                                        *)

(* The argument needs what no variable stores: which counter of which id    *)
(* stands for which edit.  A stamp <<c, r, k, e>> says that counter k of id  *)
(* r, in vectors of configuration c, was used for edit e.  The invariant     *)
(* says that some set of stamps explains every version there is.            *)

\* The stamps S explain the version v: v has reached the counters of its edits,
\* each counter v has reached was used for an edit of v, and each edit of v has a
\* counter.
Explains(S, v) ==
  /\ v.hist # {}
  /\ Canonical(v.vv)
  /\ \A r, k, e : <<v.id, r, k, e>> \in S /\ e \in v.hist => k <= Get(v.vv, r)
  /\ \A r : \A k \in 1 .. Get(v.vv, r) : \E e \in v.hist : <<v.id, r, k, e>> \in S
  /\ \A e \in v.hist : \E r, k : <<v.id, r, k, e>> \in S

ExplainsRow(S, v) == v = Absent \/ Explains(S, v)

\* A stamp is of an edit made to a configuration there is, with a counter its
\* proxy has drawn or a fresh UUID, which is used for one edit; and only a counter
\* that was drawn again has two stamps.
StampsOK(S) ==
  /\ \A c, r, k, e : <<c, r, k, e>> \in S =>
       /\ c \in born
       /\ k \in Nat \ {0}
       /\ e \in 1 .. edits
       /\ r \in Proxy => <<r, c, k>> \in drawn
       /\ r \in Nat => r = e
  /\ \A c, r, k, e, f : <<c, r, k, e>> \in S /\ <<c, r, k, f>> \in S /\ e # f =>
       <<r, c, k>> \in reused

RowsExplained(S, rows) == \A c \in Config : ExplainsRow(S, rows[c])

ConflictsExplained(S, records) ==
  \A c \in Config : records[c] # Absent =>
    Explains(S, records[c].local) /\ Explains(S, records[c].central)

TaskExplained(S, k) ==
  /\ ExplainsRow(S, k.ver) /\ ExplainsRow(S, k.row) /\ ExplainsRow(S, k.seen)
  /\ k.pc = "pushConflict" => Explains(S, k.ver)
  /\ \A v \in k.todo : Explains(S, v)

TasksExplained(S, tasks) == \A t \in Task : TaskExplained(S, tasks[t])

HeldExplained(S, copies) == \A p \in Proxy : RowsExplained(S, copies[p])

DraftsExplained(S, ds) == \A d \in ds : Explains(S, d[2])

Explained(S) ==
  /\ RowsExplained(S, mocks)
  /\ ConflictsExplained(S, conflicts)
  /\ TasksExplained(S, task)
  /\ HeldExplained(S, held)
  /\ DraftsExplained(S, drafts)

\* A proxy files its copies under their ids.
HeldFiled == \A p \in Proxy, c \in Config : held[p][c] # Absent => held[p][c].id = c

History == \E S : StampsOK(S) /\ Explained(S)

HistoryInv == ForkInv /\ HeldFiled /\ History

-----------------------------------------------------------------------------
(* What an explanation says of two versions of one configuration.          *)

LEMMA ExplainedVectorsTrack ==
  ASSUME NEW S, StampsOK(S), NEW n, NEW a, NEW b, IsVersion(a, n), IsVersion(b, n),
         Explains(S, a), Explains(S, b), a.id = b.id, ~Confusable(a, b)
  PROVE  /\ Dominates(a.vv, b.vv) <=> b.hist \subseteq a.hist /\ a.hist # b.hist
         /\ a.vv = b.vv <=> a.hist = b.hist
<1>1. ASSUME NEW v, NEW w, IsVersion(v, n), IsVersion(w, n),
             Explains(S, v), Explains(S, w), v.id = w.id, ~Confusable(v, w)
      PROVE  Leq(w.vv, v.vv, Replica) <=> w.hist \subseteq v.hist
  <2>1. ASSUME NEW u, IsVersion(u, n) PROVE \A r : Get(u.vv, r) \in Nat
    BY <2>1, GetType DEF IsVersion
  <2>2. ASSUME Leq(w.vv, v.vv, Replica), NEW e \in w.hist
        PROVE  e \in v.hist
    <3>1. PICK r, k : <<w.id, r, k, e>> \in S
      BY <1>1 DEF Explains
    <3>2. k <= Get(w.vv, r) /\ k \in Nat \ {0}
      BY <1>1, <3>1 DEF Explains, StampsOK
    <3>3. k <= Get(v.vv, r)
      <4>1. CASE r \in Replica
        <5>1. Get(w.vv, r) <= Get(v.vv, r)
          BY <2>2, <4>1 DEF Leq
        <5>2. Get(w.vv, r) \in Nat /\ Get(v.vv, r) \in Nat
          BY <1>1, <2>1
        <5>3. QED
          BY <3>2, <5>1, <5>2
      <4>2. CASE r \notin Replica
        BY <1>1, <3>2, <4>2 DEF Get, IsVersion, IsVector
      <4>3. QED
        BY <4>1, <4>2
    <3>4. Get(v.vv, r) \in Nat
      BY <1>1, <2>1
    <3>5. k \in 1 .. Get(v.vv, r)
      BY <3>2, <3>3, <3>4
    <3>6. PICK f \in v.hist : <<v.id, r, k, f>> \in S
      BY <1>1, <3>5 DEF Explains
    <3>7. f = e
      <4> SUFFICES ASSUME f # e
                   PROVE  FALSE
        OBVIOUS
      <4>1. <<r, w.id, k>> \in reused
        BY <1>1, <3>1, <3>6 DEF StampsOK
      <4>2. <<r, w.id, k>>[1] = r /\ <<r, w.id, k>>[2] = w.id /\ <<r, w.id, k>>[3] = k
        OBVIOUS
      <4>3. Confusable(v, w)
        BY <1>1, <3>2, <3>3, <4>1, <4>2 DEF Confusable
      <4>4. QED
        BY <1>1, <4>3
    <3>8. QED
      BY <3>7
  <2>3. ASSUME w.hist \subseteq v.hist, NEW r \in Replica
        PROVE  Get(w.vv, r) <= Get(v.vv, r)
    <3> DEFINE k == Get(w.vv, r)
    <3>1. k \in Nat /\ Get(v.vv, r) \in Nat
      BY <1>1, <2>1
    <3> HIDE DEF k
    <3>2. CASE k = 0
      BY <3>1, <3>2 DEF k
    <3>3. CASE k # 0
      <4>1. k \in 1 .. k
        BY <3>1, <3>3
      <4>2. PICK e \in w.hist : <<w.id, r, k, e>> \in S
        BY <1>1, <4>1 DEF Explains, k
      <4>3. e \in v.hist
        BY <2>3
      <4>4. k <= Get(v.vv, r)
        BY <1>1, <4>2, <4>3 DEF Explains
      <4>5. QED
        BY <4>4 DEF k
    <3>4. QED
      BY <3>2, <3>3
  <2>4. QED
    BY <2>2, <2>3 DEF Leq
<1>11. ~Confusable(b, a)
  BY DEF Confusable
<1>2. Canonical(a.vv) /\ Canonical(b.vv) /\ IsVector(a.vv, Replica) /\ IsVector(b.vv, Replica)
  BY DEF Explains, IsVersion
<1>3. a.vv = b.vv <=> Leq(a.vv, b.vv, Replica) /\ Leq(b.vv, a.vv, Replica)
  <2>1. a.vv = b.vv => Leq(a.vv, b.vv, Replica) /\ Leq(b.vv, a.vv, Replica)
    <3>1. \A r : Get(a.vv, r) \in Nat
      BY <1>2, GetType
    <3>2. QED
      BY <3>1 DEF Leq
  <2>2. ASSUME Leq(a.vv, b.vv, Replica), Leq(b.vv, a.vv, Replica), a.vv # b.vv
        PROVE  FALSE
    BY <1>2, <2>2, DominatesIsStrictOrder, DominatesAsymmetric
  <2>3. QED
    BY <2>1, <2>2
<1>4. Leq(b.vv, a.vv, Replica) <=> b.hist \subseteq a.hist
  BY <1>1
<1>5. Leq(a.vv, b.vv, Replica) <=> a.hist \subseteq b.hist
  BY <1>1, <1>11
<1>6. a.vv = b.vv <=> a.hist = b.hist
  BY <1>3, <1>4, <1>5
<1>7. Dominates(a.vv, b.vv) <=> Leq(b.vv, a.vv, Replica) /\ a.vv # b.vv
  BY <1>2, DominatesIsStrictOrder
<1>8. QED
  BY <1>4, <1>6, <1>7

-----------------------------------------------------------------------------
(* What the operations make is explained.                                  *)

LEMMA GetIncrement ==
  ASSUME NEW Id, NEW v, IsVector(v, Id), NEW i, NEW j
  PROVE  Get(Increment(v, i), j) = IF j = i THEN Get(v, i) + 1 ELSE Get(v, j)
BY DEF Get, Increment

LEMMA GetMerge ==
  ASSUME NEW Id, NEW v, IsVector(v, Id), NEW w, IsVector(w, Id), NEW j
  PROVE  Get(Merge(v, w), j) = IF Get(v, j) >= Get(w, j) THEN Get(v, j) ELSE Get(w, j)
<1>1. Get(v, j) \in Nat /\ Get(w, j) \in Nat
  BY GetType
<1>2. CASE j \in DOMAIN v \cup DOMAIN w
  BY <1>2 DEF Get, Merge
<1>3. CASE j \notin DOMAIN v \cup DOMAIN w
  BY <1>3 DEF Get, Merge
<1>4. QED
  BY <1>2, <1>3

\* A stamp of a new edit explains what was explained before.
LEMMA StampKeepsExplanations ==
  ASSUME edits \in Nat, NEW S, NEW c, NEW r, NEW k,
         NEW u, IsVersion(u, edits), Explains(S, u)
  PROVE  Explains(S \cup {<<c, r, k, edits + 1>>}, u)
<1> DEFINE T == S \cup {<<c, r, k, edits + 1>>}
<1>1. edits + 1 \notin u.hist
  BY DEF IsVersion
<1>2. \A q, j, e : <<u.id, q, j, e>> \in T /\ e \in u.hist => j <= Get(u.vv, q)
  BY <1>1 DEF Explains
<1>3. QED
  BY <1>2 DEF Explains

\* touch and the central bump: the new edit's stamp has the counter drawn.
LEMMA TouchedIsExplained ==
  ASSUME edits \in Nat, NEW S, StampsOK(S), NEW v, IsVersion(v, edits), Explains(S, v),
         NEW r \in Replica
  PROVE  Explains(S \cup {<<v.id, r, Get(v.vv, r) + 1, edits + 1>>}, Touched(v, r))
<1> DEFINE k == Get(v.vv, r) + 1
           T == S \cup {<<v.id, r, k, edits + 1>>}
           w == Touched(v, r)
<1>1. /\ w.id = v.id
      /\ w.vv = Increment(v.vv, r)
      /\ w.hist = v.hist \cup {edits + 1}
  <2>1. w.id = v.id /\ w.vv = Increment(v.vv, r)
    BY TouchedType
  <2>2. w = [id |-> v.id, vv |-> Increment(v.vv, r), hist |-> v.hist \cup {edits + 1}]
    BY ReplaceHistory DEF Touched
  <2>3. QED
    BY <2>1, <2>2
<1>2. \A q : Get(v.vv, q) \in Nat
  BY GetType DEF IsVersion
<1>3. \A q : Get(w.vv, q) = IF q = r THEN k ELSE Get(v.vv, q)
  BY <1>1, GetIncrement DEF IsVersion
<1> HIDE DEF w
<1>4. Canonical(w.vv)
  <2>1. \A i \in DOMAIN v.vv : v.vv[i] > 0
    BY DEF Explains, Canonical
  <2>2. k > 0
    BY <1>2
  <2>3. QED
    BY <1>1, <2>1, <2>2 DEF Canonical, Increment
<1>5. \A q, j, e : <<w.id, q, j, e>> \in T /\ e \in w.hist => j <= Get(w.vv, q)
  <2> SUFFICES ASSUME NEW q, NEW j, NEW e, <<w.id, q, j, e>> \in T, e \in w.hist
               PROVE  j <= Get(w.vv, q)
    OBVIOUS
  <2>1. CASE <<w.id, q, j, e>> \in S
    <3>1. j \in Nat /\ e \in 1 .. edits
      BY <2>1 DEF StampsOK
    <3>2. j <= Get(v.vv, q)
      BY <1>1, <2>1, <3>1 DEF Explains
    <3>3. QED
      BY <1>2, <1>3, <3>1, <3>2
  <2>2. CASE q = r /\ j = k /\ e = edits + 1
    BY <1>2, <1>3, <2>2
  <2>3. QED
    BY <1>1, <2>1, <2>2
<1>6. \A q : \A j \in 1 .. Get(w.vv, q) : \E e \in w.hist : <<w.id, q, j, e>> \in T
  <2> SUFFICES ASSUME NEW q, NEW j \in 1 .. Get(w.vv, q)
               PROVE  \E e \in w.hist : <<w.id, q, j, e>> \in T
    OBVIOUS
  <2>1. CASE q = r /\ j = k
    BY <1>1, <2>1
  <2>2. CASE ~(q = r /\ j = k)
    <3>1. j \in 1 .. Get(v.vv, q)
      BY <1>2, <1>3, <2>2
    <3>2. QED
      BY <1>1, <3>1 DEF Explains
  <2>3. QED
    BY <2>1, <2>2
<1>7. \A e \in w.hist : \E q, j : <<w.id, q, j, e>> \in T
  BY <1>1 DEF Explains
<1>8. w.hist # {}
  BY <1>1
<1>9. Explains(T, w)
  BY <1>4, <1>5, <1>6, <1>7, <1>8 DEF Explains
<1>10. QED
  BY <1>9 DEF w

\* MockConfiguration::new.
LEMMA NewIsExplained ==
  ASSUME edits \in Nat, NEW S, StampsOK(S), NEW c \in Config \ born
  PROVE  Explains(S \cup {<<c, c, 1, edits + 1>>}, NewVersion(c))
<1> DEFINE T == S \cup {<<c, c, 1, edits + 1>>}
           w == NewVersion(c)
<1>1. w.id = c /\ w.vv = WithInstance(c) /\ w.hist = {edits + 1}
  BY DEF NewVersion
<1>2. \A q : Get(w.vv, q) = IF q = c THEN 1 ELSE 0
  BY <1>1 DEF Get, WithInstance
<1>3. Canonical(w.vv)
  BY <1>1 DEF Canonical, WithInstance
<1>4. \A q, j, e : <<w.id, q, j, e>> \in T <=> q = c /\ j = 1 /\ e = edits + 1
  BY <1>1 DEF StampsOK
<1> HIDE DEF w, T
<1>5. \A q : \A j \in 1 .. Get(w.vv, q) : \E e \in w.hist : <<w.id, q, j, e>> \in T
  <2> SUFFICES ASSUME NEW q, NEW j \in 1 .. Get(w.vv, q)
               PROVE  \E e \in w.hist : <<w.id, q, j, e>> \in T
    OBVIOUS
  <2>1. q = c /\ j = 1
    BY <1>2
  <2>2. QED
    BY <1>1, <1>4, <2>1
<1>6. \A q, j, e : <<w.id, q, j, e>> \in T /\ e \in w.hist => j <= Get(w.vv, q)
  <2>1. 1 <= Get(w.vv, c)
    BY <1>1, <1>2
  <2>2. QED
    BY <1>4, <2>1
<1>7. \A e \in w.hist : \E q, j : <<w.id, q, j, e>> \in T
  BY <1>1, <1>4
<1>8. Explains(T, w)
  BY <1>1, <1>3, <1>5, <1>6, <1>7 DEF Explains
<1>9. QED
  BY <1>8 DEF w, T

\* A merge contains exactly the edits of what is merged.
LEMMA MergeIsExplained ==
  ASSUME NEW n, NEW S, NEW v, NEW w, NEW m, StampsOK(S),
         IsVersion(v, n), IsVersion(w, n), Explains(S, v), Explains(S, w), v.id = w.id,
         m.id = v.id, m.vv = Merge(v.vv, w.vv), m.hist = v.hist \cup w.hist
  PROVE  Explains(S, m)
<1>1. \A q : Get(v.vv, q) \in Nat /\ Get(w.vv, q) \in Nat
  BY GetType DEF IsVersion
<1>2. \A q : Get(m.vv, q) = IF Get(v.vv, q) >= Get(w.vv, q) THEN Get(v.vv, q) ELSE Get(w.vv, q)
  BY GetMerge DEF IsVersion
<1>3. Canonical(m.vv)
  <2>1. \A i \in DOMAIN v.vv : Get(v.vv, i) > 0
    BY DEF Explains, Canonical, Get
  <2>2. \A i \in DOMAIN w.vv : Get(w.vv, i) > 0
    BY DEF Explains, Canonical, Get
  <2>3. \A i \in DOMAIN m.vv : m.vv[i] > 0
    <3> SUFFICES ASSUME NEW i \in DOMAIN m.vv
                 PROVE  m.vv[i] > 0
      OBVIOUS
    <3>1. i \in DOMAIN v.vv \/ i \in DOMAIN w.vv
      BY DEF Merge
    <3>2. m.vv[i] = Get(m.vv, i)
      BY DEF Get
    <3>3. QED
      BY <1>1, <1>2, <2>1, <2>2, <3>1, <3>2
  <2>4. QED
    BY <2>3 DEF Canonical
<1>4. ASSUME NEW q, NEW j, NEW e, <<m.id, q, j, e>> \in S, e \in m.hist
      PROVE  j <= Get(m.vv, q)
  <2>1. j \in Nat
    BY <1>4 DEF StampsOK
  <2>2. j <= Get(v.vv, q) \/ j <= Get(w.vv, q)
    BY <1>4 DEF Explains
  <2>3. QED
    BY <1>1, <1>2, <2>1, <2>2
<1>5. ASSUME NEW q, NEW j \in 1 .. Get(m.vv, q)
      PROVE  \E e \in m.hist : <<m.id, q, j, e>> \in S
  <2>1. j \in 1 .. Get(v.vv, q) \/ j \in 1 .. Get(w.vv, q)
    BY <1>1, <1>2
  <2>2. QED
    BY <2>1 DEF Explains
<1>6. \A e \in m.hist : \E q, j : <<m.id, q, j, e>> \in S
  BY DEF Explains
<1>7. m.hist # {}
  BY DEF Explains
<1>8. QED
  BY <1>3, <1>4, <1>5, <1>6, <1>7 DEF Explains

LEMMA MergeBothIsExplained ==
  ASSUME NEW n, NEW S, StampsOK(S), NEW k, NEW body,
         IsVersion(k.local, n), IsVersion(k.central, n), IsVersion(body, n),
         Explains(S, k.local), Explains(S, k.central), Explains(S, body),
         k.local.id = body.id, k.central.id = body.id
  PROVE  Explains(S, MergeBoth(k, body))
<1> DEFINE h == body.hist \cup k.local.hist
           m == [id |-> body.id, vv |-> Merge(body.vv, k.local.vv), hist |-> h]
           b == MergeBoth(k, body)
<1>1. Explains(S, m)
  <2>1. m.id = body.id /\ m.vv = Merge(body.vv, k.local.vv)
        /\ m.hist = body.hist \cup k.local.hist
    OBVIOUS
  <2> HIDE DEF m
  <2>2. QED
    BY <2>1, MergeIsExplained
<1>2. IsVersion(m, n)
  <2>1. IsVector(Merge(body.vv, k.local.vv), Replica)
    BY MergeType DEF IsVersion
  <2>2. h \subseteq 1 .. n /\ body.id \in Config
    BY DEF IsVersion
  <2> HIDE DEF h
  <2>3. QED
    BY <2>1, <2>2 DEF IsVersion
<1>3. /\ b.id = m.id
      /\ b.vv = Merge(m.vv, k.central.vv)
      /\ b.hist = m.hist \cup k.central.hist
  <2>1. b.id = body.id /\ b.vv = Merge(Merge(body.vv, k.local.vv), k.central.vv)
    BY MergeBothType
  <2>2. b = [id |-> body.id, vv |-> Merge(Merge(body.vv, k.local.vv), k.central.vv),
             hist |-> body.hist \cup k.local.hist \cup k.central.hist]
    <3> DEFINE x == Merge(Merge(body.vv, k.local.vv), k.central.vv)
               g == body.hist \cup k.local.hist \cup k.central.hist
    <3>1. b = [body EXCEPT !.vv = x, !.hist = g]
      BY DEF MergeBoth
    <3> HIDE DEF x, g, b
    <3>2. b = [id |-> body.id, vv |-> x, hist |-> g]
      BY <3>1, ReplaceHistory
    <3>3. QED
      BY <3>2 DEF x, g
  <2> HIDE DEF b
  <2>3. QED
    BY <2>1, <2>2
<1> HIDE DEF m, b
<1>4. m.id = body.id
  BY DEF m
<1>5. Explains(S, b)
  BY <1>1, <1>2, <1>3, <1>4, MergeIsExplained
<1>6. QED
  BY <1>5 DEF b
-----------------------------------------------------------------------------
(* The stamps after a step.                                                *)

LEMMA StampsStay ==
  ASSUME NEW S, StampsOK(S), UNCHANGED <<edits, born, drawn, reused>>
  PROVE  StampsOK(S)'
BY DEF StampsOK

\* A new stamp whose counter had none, or is now known to be drawn again.
LEMMA StampAdded ==
  ASSUME edits \in Nat, NEW S, StampsOK(S), edits' = edits + 1, born \subseteq born',
         drawn \subseteq drawn', reused \subseteq reused',
         NEW c, c \in born', NEW r, NEW k \in Nat \ {0},
         r \in Proxy => <<r, c, k>> \in drawn', r \in Nat => r = edits + 1,
         \A e : <<c, r, k, e>> \in S => <<r, c, k>> \in reused',
         NEW T, T = S \cup {<<c, r, k, edits + 1>>}
  PROVE  StampsOK(T)'
<1>1. ASSUME NEW d, NEW q, NEW j, NEW e, <<d, q, j, e>> \in T
      PROVE  /\ d \in born'
             /\ j \in Nat \ {0}
             /\ e \in 1 .. edits'
             /\ q \in Proxy => <<q, d, j>> \in drawn'
             /\ q \in Nat => q = e
  <2>1. CASE <<d, q, j, e>> \in S
    <3>1. /\ d \in born /\ j \in Nat \ {0} /\ e \in 1 .. edits
          /\ q \in Proxy => <<q, d, j>> \in drawn
          /\ q \in Nat => q = e
      BY <2>1 DEF StampsOK
    <3>2. QED
      BY <3>1
  <2>2. CASE d = c /\ q = r /\ j = k /\ e = edits + 1
    BY <2>2
  <2>3. QED
    BY <1>1, <2>1, <2>2
<1>2. ASSUME NEW d, NEW q, NEW j, NEW e, NEW f,
             <<d, q, j, e>> \in T, <<d, q, j, f>> \in T, e # f
      PROVE  <<q, d, j>> \in reused'
  <2>1. CASE <<d, q, j, e>> \in S /\ <<d, q, j, f>> \in S
    BY <1>2, <2>1 DEF StampsOK
  <2>2. CASE <<d, q, j, e>> \notin S
    <3>1. d = c /\ q = r /\ j = k /\ e = edits + 1
      BY <1>2, <2>2
    <3>2. <<d, q, j, f>> \in S
      BY <1>2, <3>1
    <3>3. QED
      BY <3>1, <3>2
  <2>3. CASE <<d, q, j, f>> \notin S
    <3>1. d = c /\ q = r /\ j = k /\ f = edits + 1
      BY <1>2, <2>3
    <3>2. <<d, q, j, e>> \in S
      BY <1>2, <3>1
    <3>3. QED
      BY <3>1, <3>2
  <2>4. QED
    BY <2>1, <2>2, <2>3
<1>3. QED
  BY <1>1, <1>2 DEF StampsOK

LEMMA ExplainedIsBorn ==
  ASSUME NEW S, StampsOK(S), NEW v, Explains(S, v)
  PROVE  v.id \in born
BY DEF StampsOK, Explains

\* More stamps explain a state when they explain each of its versions.
LEMMA ExplainedGrows ==
  ASSUME TypeOK, NEW S, Explained(S), NEW T,
         \A u : IsVersion(u, edits) /\ Explains(S, u) => Explains(T, u)
  PROVE  Explained(T)
<1>1. RowsExplained(T, mocks)
  BY DEF TypeOK, RowsOK, IsRow, Explained, RowsExplained, ExplainsRow
<1>2. ConflictsExplained(T, conflicts)
  BY DEF TypeOK, ConflictsOK, ConflictOK, Explained, ConflictsExplained
<1>3. TasksExplained(T, task)
  <2> SUFFICES ASSUME NEW t \in Task
               PROVE  TaskExplained(T, task[t])
    BY DEF TasksExplained
  <2>1. TaskOK(task[t], edits) /\ TaskExplained(S, task[t])
    BY DEF TypeOK, TasksOK, Explained, TasksExplained
  <2>2. IsRow(task[t].ver, edits)
    BY <2>1 DEF TaskOK, IsRow
  <2>3. QED
    BY <2>1, <2>2 DEF TaskOK, TaskExplained, ExplainsRow, IsRow
<1>4. HeldExplained(T, held)
  BY DEF TypeOK, HeldOK, RowsOK, IsRow, Explained, HeldExplained, RowsExplained, ExplainsRow
<1>5. DraftsExplained(T, drafts)
  BY DEF TypeOK, DraftsOK, Explained, DraftsExplained
<1>6. QED
  BY <1>1, <1>2, <1>3, <1>4, <1>5 DEF Explained

LEMMA LiveExplained ==
  ASSUME NEW S, Explained(S)
  PROVE  \A v \in Live : Explains(S, v)
<1> SUFFICES ASSUME NEW v \in Live
             PROVE  Explains(S, v)
  OBVIOUS
<1>1. CASE \E c \in Config : v = mocks[c]
  BY <1>1 DEF Explained, RowsExplained, ExplainsRow, Live
<1>2. CASE \E c \in Config : conflicts[c] # Absent
                 /\ v \in {conflicts[c].local, conflicts[c].central}
  BY <1>2 DEF Explained, ConflictsExplained
<1>3. CASE \E p \in Proxy, c \in Config : v = held[p][c]
  BY <1>3 DEF Explained, HeldExplained, RowsExplained, ExplainsRow, Live
<1>4. CASE \E t \in Task : v \in {task[t].ver, task[t].row, task[t].seen} \cup task[t].todo
  BY <1>4 DEF Explained, TasksExplained, TaskExplained, ExplainsRow, Live
<1>5. QED
  BY <1>1, <1>2, <1>3, <1>4 DEF Live

LEMMA RowPutExplained ==
  ASSUME NEW n, NEW rows, RowsOK(rows, n), NEW S, RowsExplained(S, rows),
         NEW c \in Config, NEW v, ExplainsRow(S, v)
  PROVE  RowsExplained(S, [rows EXCEPT ![c] = v])
BY DEF RowsOK, RowsExplained

LEMMA HeldPutExplained ==
  ASSUME NEW n, NEW copies, HeldOK(copies, n), NEW S, HeldExplained(S, copies),
         NEW p \in Proxy, NEW c \in Config, NEW v, ExplainsRow(S, v)
  PROVE  HeldExplained(S, [copies EXCEPT ![p][c] = v])
<1>1. RowsExplained(S, [copies[p] EXCEPT ![c] = v])
  BY RowPutExplained DEF HeldOK, HeldExplained
<1>2. QED
  BY <1>1 DEF HeldOK, HeldExplained

LEMMA BecomeExplained ==
  ASSUME TypeOK, NEW S, Explained(S), NEW t \in Task, NEW k, TaskExplained(S, k),
         Become(t, k)
  PROVE  TasksExplained(S, task')
BY DEF TypeOK, TasksOK, Explained, TasksExplained, Become

LEMMA IdleExplained == ASSUME NEW S PROVE TaskExplained(S, Idle)
BY DEF TaskExplained, ExplainsRow, Idle

LEMMA SaveRowExplained ==
  ASSUME TypeOK, NEW S, Explained(S), NEW n, NEW v, IsVersion(v, n), Explains(S, v),
         SaveRow(v)
  PROVE  RowsExplained(S, mocks')
<1>1. v.id \in Config /\ ExplainsRow(S, v)
  BY DEF IsVersion, ExplainsRow
<1>2. RowsExplained(S, [mocks EXCEPT ![v.id] = v])
  BY <1>1, RowPutExplained DEF TypeOK, Explained
<1>3. QED
  BY <1>2 DEF SaveRow

\* A bump with a fresh UUID: some stamps explain the state and the bumped
\* version, whatever the rest of the step does with it.
LEMMA BumpIsExplained ==
  ASSUME TypeOK, NEW S, StampsOK(S), Explained(S), NEW v, IsVersion(v, edits),
         Explains(S, v), edits' = edits + 1, UNCHANGED <<born, drawn, reused>>
  PROVE  \E T : StampsOK(T)' /\ Explained(T) /\ Explains(T, Touched(v, FreshId))
<1> DEFINE r == FreshId
           k == Get(v.vv, r) + 1
<1>1. edits \in Nat /\ r = edits + 1 /\ r \in Replica /\ r \notin Proxy
  BY IdAssumption DEF TypeOK, FreshId, Replica
<1>2. Get(v.vv, r) \in Nat
  BY GetType DEF IsVersion
<1>3. k \in Nat \ {0}
  BY <1>2
<1> HIDE DEF r
<1>4. \A j, e : <<v.id, r, j, e>> \notin S
  <2> SUFFICES ASSUME NEW j, NEW e, <<v.id, r, j, e>> \in S
               PROVE  FALSE
    OBVIOUS
  <2>1. r \in Nat
    BY <1>1
  <2>2. e \in 1 .. edits /\ r = e
    BY <2>1 DEF StampsOK
  <2>3. QED
    BY <1>1, <2>2
<1>5. v.id \in born'
  BY ExplainedIsBorn
<1>7. PICK T : T = S \cup {<<v.id, r, k, edits + 1>>}
  OBVIOUS
<1>8. Explains(T, Touched(v, r))
  BY <1>1, <1>7, TouchedIsExplained
<1> HIDE DEF k
<1>9. StampsOK(T)'
  BY <1>1, <1>3, <1>4, <1>5, <1>7, StampAdded
<1>10. \A u : IsVersion(u, edits) /\ Explains(S, u) => Explains(T, u)
  BY <1>1, <1>7, StampKeepsExplanations
<1>11. Explained(T)
  BY <1>10, ExplainedGrows
<1>12. QED
  BY <1>8, <1>9, <1>11 DEF r

LEMMA CreationIsExplained ==
  ASSUME TypeOK, NEW S, StampsOK(S), Explained(S), NEW c \in Config \ born,
         edits' = edits + 1, born' = born \cup {c}, UNCHANGED <<drawn, reused>>
  PROVE  \E T : StampsOK(T)' /\ Explained(T) /\ Explains(T, NewVersion(c))
<1>1. edits \in Nat /\ c \notin Proxy /\ c \notin Nat
  BY IdAssumption DEF TypeOK
<1>2. \A q, j, e : <<c, q, j, e>> \notin S
  BY DEF StampsOK
<1>3. PICK T : T = S \cup {<<c, c, 1, edits + 1>>}
  OBVIOUS
<1>4. StampsOK(T)'
  <2>1. 1 \in Nat \ {0}
    OBVIOUS
  <2>2. QED
    BY <1>1, <1>2, <1>3, <2>1, StampAdded
<1>5. Explained(T)
  <2>1. \A u : IsVersion(u, edits) /\ Explains(S, u) => Explains(T, u)
    BY <1>1, <1>3, StampKeepsExplanations
  <2>2. QED
    BY <2>1, ExplainedGrows
<1>6. Explains(T, NewVersion(c))
  BY <1>1, <1>3, NewIsExplained
<1>7. QED
  BY <1>4, <1>5, <1>6
-----------------------------------------------------------------------------
(* Every action leaves the versions explained.                             *)

LEMMA LocalCreateExplained ==
  ASSUME TypeOK, History, NEW p \in Proxy, NEW c \in Config, LocalCreate(p, c)
  PROVE  History'
<1> DEFINE v == [NewVersion(c) EXCEPT !.vv = Increment(WithInstance(c), p)]
<1>1. PICK S : StampsOK(S) /\ Explained(S)
  BY DEF History
<1>2. /\ edits \in Nat /\ edits' = edits + 1
      /\ c \in Config \ born /\ born' = born \cup {c}
      /\ drawn' = drawn \cup {<<p, c, 1>>} /\ reused \subseteq reused'
      /\ held' = [held EXCEPT ![p][c] = v]
      /\ c \notin Proxy /\ c # p /\ c \notin Nat /\ p \notin Nat
  BY IdAssumption DEF LocalCreate, Draw, CountEdit, TypeOK
<1>3. v = [id |-> c, vv |-> Increment(WithInstance(c), p), hist |-> {edits + 1}]
  BY DEF NewVersion
<1>4. \A q, j, e : <<c, q, j, e>> \notin S
  BY <1>1, <1>2 DEF StampsOK
<1>5. PICK R : R = S \cup {<<c, c, 1, edits + 1>>}
  OBVIOUS
<1>6. PICK T : T = R \cup {<<c, p, 1, edits + 1>>}
  OBVIOUS
<1>7. \A q, j, e : <<c, q, j, e>> \in T <=> q \in {c, p} /\ j = 1 /\ e = edits + 1
  BY <1>4, <1>5, <1>6
<1> HIDE DEF v
<1>8. StampsOK(T)'
  <2>1. ASSUME NEW d, NEW q, NEW j, NEW e, <<d, q, j, e>> \in T
        PROVE  /\ d \in born'
               /\ j \in Nat \ {0}
               /\ e \in 1 .. edits'
               /\ q \in Proxy => <<q, d, j>> \in drawn'
               /\ q \in Nat => q = e
    <3>1. CASE d = c
      <4>1. q \in {c, p} /\ j = 1 /\ e = edits + 1
        BY <1>7, <2>1, <3>1
      <4>2. QED
        BY <1>2, <3>1, <4>1
    <3>2. CASE d # c
      <4>1. <<d, q, j, e>> \in S
        BY <1>5, <1>6, <2>1, <3>2
      <4>2. /\ d \in born /\ j \in Nat \ {0} /\ e \in 1 .. edits
            /\ q \in Proxy => <<q, d, j>> \in drawn
            /\ q \in Nat => q = e
        BY <1>1, <4>1 DEF StampsOK
      <4>3. QED
        BY <1>2, <4>2
    <3>3. QED
      BY <3>1, <3>2
  <2>2. ASSUME NEW d, NEW q, NEW j, NEW e, NEW f,
               <<d, q, j, e>> \in T, <<d, q, j, f>> \in T, e # f
        PROVE  <<q, d, j>> \in reused'
    <3>1. d # c
      BY <1>7, <2>2
    <3>2. <<d, q, j, e>> \in S /\ <<d, q, j, f>> \in S
      BY <1>5, <1>6, <2>2, <3>1
    <3>3. QED
      BY <1>1, <1>2, <2>2, <3>2 DEF StampsOK
  <2>3. QED
    BY <2>1, <2>2 DEF StampsOK
<1>9. Explained(T)
  <2>1. \A u : IsVersion(u, edits) /\ Explains(S, u) => Explains(R, u)
    BY <1>2, <1>5, StampKeepsExplanations
  <2>2. \A u : IsVersion(u, edits) /\ Explains(R, u) => Explains(T, u)
    BY <1>2, <1>6, StampKeepsExplanations
  <2>3. QED
    BY <1>1, <2>1, <2>2, ExplainedGrows
<1>10. Explains(T, v)
  <2>1. v.id = c /\ v.vv = Increment(WithInstance(c), p) /\ v.hist = {edits + 1}
    BY <1>3
  <2>2. \A q : Get(v.vv, q) = IF q \in {c, p} THEN 1 ELSE 0
    BY <1>2, <2>1 DEF Get, Increment, WithInstance
  <2>3. Canonical(v.vv)
    BY <1>2, <2>1 DEF Canonical, Get, Increment, WithInstance
  <2>4. \A q, j, e : <<v.id, q, j, e>> \in T /\ e \in v.hist => j <= Get(v.vv, q)
    <3>1. 1 <= Get(v.vv, c) /\ 1 <= Get(v.vv, p)
      BY <2>1, <2>2
    <3>2. QED
      BY <1>7, <2>1, <3>1
  <2>5. ASSUME NEW q, NEW j \in 1 .. Get(v.vv, q)
        PROVE  \E e \in v.hist : <<v.id, q, j, e>> \in T
    <3>1. q \in {c, p} /\ j = 1
      BY <2>2, <2>5
    <3>2. QED
      BY <1>7, <2>1, <3>1
  <2>6. \A e \in v.hist : \E q, j : <<v.id, q, j, e>> \in T
    BY <1>7, <2>1
  <2>7. v.hist # {}
    BY <2>1
  <2>8. QED
    BY <2>3, <2>4, <2>5, <2>6, <2>7 DEF Explains
<1>11. HeldExplained(T, held')
  <2>1. HeldExplained(T, [held EXCEPT ![p][c] = v])
    BY <1>9, <1>10, HeldPutExplained DEF TypeOK, Explained, ExplainsRow
  <2>2. QED
    BY <1>2, <2>1
<1>12. Explained(T)'
  BY <1>9, <1>11 DEF LocalCreate, Explained
<1>13. QED
  BY <1>8, <1>12 DEF History

LEMMA LocalUpdateReadExplained ==
  ASSUME TypeOK, HeldFiled, History, NEW p \in Proxy, NEW c \in Config, LocalUpdateRead(p, c)
  PROVE  History'
<1> DEFINE v == held[p][c]
           k == Get(v.vv, p) + 1
<1>1. PICK S : StampsOK(S) /\ Explained(S)
  BY DEF History
<1>2. IsVersion(v, edits) /\ v.id = c /\ Explains(S, v)
  BY <1>1 DEF LocalUpdateRead, TypeOK, HeldOK, RowsOK, IsRow, HeldFiled,
              Explained, HeldExplained, RowsExplained, ExplainsRow
<1>3. Get(v.vv, p) \in Nat
  BY <1>2, GetType DEF IsVersion
<1>4. /\ edits \in Nat /\ edits' = edits + 1 /\ born' = born
      /\ drawn' = drawn \cup {<<p, c, k>>}
      /\ reused' = reused \cup ({<<p, c, k>>} \cap drawn)
      /\ drafts' = drafts \cup {<<p, Touched(v, p)>>}
      /\ p \in Replica /\ p \notin Nat
  BY IdAssumption DEF LocalUpdateRead, Draw, CountEdit, TypeOK, Replica
<1>5. PICK T : T = S \cup {<<v.id, p, k, edits + 1>>}
  OBVIOUS
<1>6. Explains(T, Touched(v, p))
  BY <1>1, <1>2, <1>4, <1>5, TouchedIsExplained
<1>7. k \in Nat \ {0} /\ v.id \in born'
  BY <1>1, <1>2, <1>3, <1>4, ExplainedIsBorn
<1>8. StampsOK(T)'
  <2> HIDE DEF k, v
  <2>1. \A e : <<v.id, p, k, e>> \in S => <<p, v.id, k>> \in reused'
    BY <1>1, <1>2, <1>4 DEF StampsOK
  <2>2. <<p, v.id, k>> \in drawn' /\ drawn \subseteq drawn' /\ reused \subseteq reused'
    BY <1>2, <1>4
  <2>3. QED
    BY <1>1, <1>4, <1>5, <1>7, <2>1, <2>2, StampAdded
<1>9. Explained(T)
  <2> HIDE DEF k, v
  <2>1. \A u : IsVersion(u, edits) /\ Explains(S, u) => Explains(T, u)
    BY <1>4, <1>5, StampKeepsExplanations
  <2>2. QED
    BY <1>1, <2>1, ExplainedGrows
<1>10. DraftsExplained(T, drafts')
  <2> HIDE DEF k, v
  <2>1. QED
    BY <1>4, <1>6, <1>9 DEF Explained, DraftsExplained
<1>11. Explained(T)'
  BY <1>9, <1>10 DEF LocalUpdateRead, Explained
<1>12. QED
  BY <1>8, <1>11 DEF History

LEMMA ProxyStepExplained ==
  ASSUME TypeOK, HeldFiled, History, ProxyStep
  PROVE  History'
<1>1. PICK S : StampsOK(S) /\ Explained(S)
  BY DEF History
<1>2. ASSUME NEW p \in Proxy, NEW c \in Config, LocalDelete(p, c)
      PROVE  History'
  <2>1. HeldExplained(S, held')
    BY <1>1, <1>2, HeldPutExplained DEF LocalDelete, TypeOK, Explained, ExplainsRow
  <2>2. QED
    BY <1>1, <1>2, <2>1, StampsStay DEF LocalDelete, Explained, History
<1>3. ASSUME NEW p \in Proxy, NEW c \in Config, LocalPull(p, c)
      PROVE  History'
  <2>1. HeldExplained(S, held')
    BY <1>1, <1>3, HeldPutExplained DEF LocalPull, TypeOK, Explained, RowsExplained
  <2>2. QED
    BY <1>1, <1>3, <2>1, StampsStay DEF LocalPull, Explained, History
<1>4. ASSUME NEW d \in drafts, LocalUpdateSave(d)
      PROVE  History'
  <2>1. d[1] \in Proxy /\ d[2].id \in Config /\ ExplainsRow(S, d[2])
    BY <1>1 DEF TypeOK, DraftsOK, IsVersion, Explained, DraftsExplained, ExplainsRow
  <2>2. HeldExplained(S, held')
    BY <1>1, <1>4, <2>1, HeldPutExplained DEF LocalUpdateSave, TypeOK, Explained
  <2>3. DraftsExplained(S, drafts')
    BY <1>1, <1>4 DEF LocalUpdateSave, Explained, DraftsExplained
  <2>4. QED
    BY <1>1, <1>4, <2>2, <2>3, StampsStay DEF LocalUpdateSave, Explained, History
<1>5. QED
  BY <1>2, <1>3, <1>4, LocalCreateExplained, LocalUpdateReadExplained DEF ProxyStep

LEMMA CreateMockExplained ==
  ASSUME TypeOK, History, NEW c \in Config, CreateMock(c)
  PROVE  History'
<1>1. PICK S : StampsOK(S) /\ Explained(S)
  BY DEF History
<1>2. PICK T : StampsOK(T)' /\ Explained(T) /\ Explains(T, NewVersion(c))
  BY <1>1, CreationIsExplained DEF CreateMock, CountEdit
<1>3. IsVersion(NewVersion(c), edits + 1) /\ SaveRow(NewVersion(c))
  BY NewVersionType DEF CreateMock, TypeOK
<1>4. RowsExplained(T, mocks')
  BY <1>2, <1>3, SaveRowExplained
<1>5. QED
  BY <1>2, <1>4 DEF CreateMock, Explained, History

LEMMA DeleteMockExplained ==
  ASSUME TypeOK, History, NEW c \in Config, DeleteMock(c)
  PROVE  History'
<1>1. PICK S : StampsOK(S) /\ Explained(S)
  BY DEF History
<1>2. RowsExplained(S, mocks')
  BY <1>1, RowPutExplained DEF DeleteMock, TypeOK, Explained, ExplainsRow
<1>3. QED
  BY <1>1, <1>2, StampsStay DEF DeleteMock, Explained, History

LEMMA DropConflictExplained ==
  ASSUME TypeOK, NEW S, Explained(S), NEW c \in Config, DropConflict(c)
  PROVE  ConflictsExplained(S, conflicts')
BY DEF DropConflict, TypeOK, ConflictsOK, Explained, ConflictsExplained

LEMMA DismissExplained ==
  ASSUME TypeOK, History, NEW c \in Config, Dismiss(c)
  PROVE  History'
<1>1. PICK S : StampsOK(S) /\ Explained(S)
  BY DEF History
<1>2. ConflictsExplained(S, conflicts')
  BY <1>1, DropConflictExplained DEF Dismiss
<1>3. QED
  BY <1>1, <1>2, StampsStay DEF Dismiss, Explained, History

LEMMA PublicKeepLocalExplained ==
  ASSUME TypeOK, History, NEW v \in Live, PublicKeepLocal(v)
  PROVE  History'
<1>1. PICK S : StampsOK(S) /\ Explained(S)
  BY DEF History
<1>2. IsVersion(v, edits) /\ Explains(S, v)
  BY <1>1, LiveType, LiveExplained
<1>3. PICK T : StampsOK(T)' /\ Explained(T) /\ Explains(T, Touched(v, FreshId))
  BY <1>1, <1>2, BumpIsExplained DEF PublicKeepLocal, CountEdit
<1>4. IsVersion(Touched(v, FreshId), edits + 1)
  BY <1>2, TouchedType, FreshIdIsReplica DEF TypeOK
<1>5. RowsExplained(T, mocks')
  BY <1>3, <1>4, SaveRowExplained DEF PublicKeepLocal
<1>6. QED
  BY <1>3, <1>5 DEF PublicKeepLocal, Explained, History

\* A task that starts with what is there, or with a bump of the row it read.
LEMMA UpdateReadExplained ==
  ASSUME TypeOK, History, NEW t \in Task, NEW c \in Config, NEW seen,
         seen \in LiveOf(c) \cup {Absent}, UpdateRead(t, c, seen)
  PROVE  History'
<1> DEFINE v == mocks[c]
           w == Touched(v, FreshId)
           k == [Idle EXCEPT !.pc = "save", !.id = c, !.how = "update", !.seen = seen,
                             !.ver = w, !.row = v]
<1>1. PICK S : StampsOK(S) /\ Explained(S)
  BY DEF History
<1>2. IsVersion(v, edits) /\ Explains(S, v)
  BY <1>1 DEF UpdateRead, TypeOK, RowsOK, IsRow, Explained, RowsExplained, ExplainsRow
<1>3. PICK T : StampsOK(T)' /\ Explained(T) /\ Explains(T, w)
  BY <1>1, <1>2, BumpIsExplained DEF UpdateRead, CountEdit
<1>4. ExplainsRow(T, v) /\ ExplainsRow(T, seen)
  BY <1>3, LiveExplained DEF Explained, RowsExplained, ExplainsRow, LiveOf
<1> HIDE DEF v, w
<1>5. k.ver = w /\ k.row = v /\ k.seen = seen /\ k.todo = {}
  BY DEF Idle
<1>6. Become(t, k)
  BY DEF UpdateRead, v, w
<1> HIDE DEF k
<1>7. TaskExplained(T, k)
  BY <1>3, <1>4, <1>5 DEF TaskExplained, ExplainsRow
<1>8. TasksExplained(T, task')
  BY <1>3, <1>6, <1>7, BecomeExplained
<1>9. QED
  BY <1>3, <1>8 DEF UpdateRead, Explained, History

LEMMA PublicMergeReadExplained ==
  ASSUME TypeOK, History, NEW t \in Task, NEW c \in Config, PublicMergeRead(t, c)
  PROVE  History'
<1> DEFINE v == mocks[c]
           w == Touched(v, FreshId)
           k == [Idle EXCEPT !.pc = "save", !.id = c, !.how = "publicMerge", !.ver = w,
                             !.row = v]
<1>1. PICK S : StampsOK(S) /\ Explained(S)
  BY DEF History
<1>2. IsVersion(v, edits) /\ Explains(S, v)
  BY <1>1 DEF PublicMergeRead, TypeOK, RowsOK, IsRow, Explained, RowsExplained, ExplainsRow
<1>3. PICK T : StampsOK(T)' /\ Explained(T) /\ Explains(T, w)
  BY <1>1, <1>2, BumpIsExplained DEF PublicMergeRead, CountEdit
<1>31. ExplainsRow(T, v)
  BY <1>3 DEF Explained, RowsExplained
<1> HIDE DEF v, w
<1>4. k.ver = w /\ k.row = v /\ k.seen = Absent /\ k.todo = {}
  BY DEF Idle
<1>5. Become(t, k)
  BY DEF PublicMergeRead, v, w
<1> HIDE DEF k
<1>6. TaskExplained(T, k)
  BY <1>3, <1>31, <1>4 DEF TaskExplained, ExplainsRow
<1>7. TasksExplained(T, task')
  BY <1>3, <1>5, <1>6, BecomeExplained
<1>8. QED
  BY <1>3, <1>7 DEF PublicMergeRead, Explained, History

LEMMA PushStartExplained ==
  ASSUME TypeOK, History, NEW t \in Task, NEW p \in Proxy, NEW cs \in SUBSET Config,
         PushStart(t, p, cs)
  PROVE  History'
<1> DEFINE k == [Idle EXCEPT !.pc = "push", !.todo = {held[p][c] : c \in cs}]
<1>1. PICK S : StampsOK(S) /\ Explained(S)
  BY DEF History
<1>2. \A v \in {held[p][c] : c \in cs} : Explains(S, v)
  BY <1>1 DEF PushStart, Explained, HeldExplained, RowsExplained, ExplainsRow
<1>3. TaskExplained(S, k)
  BY <1>2 DEF TaskExplained, ExplainsRow, Idle
<1>4. TasksExplained(S, task')
  BY <1>1, <1>3, BecomeExplained DEF PushStart
<1>5. QED
  BY <1>1, <1>4, StampsStay DEF PushStart, Explained, History

LEMMA ImportStartExplained ==
  ASSUME TypeOK, History, NEW t \in Task, NEW vs \in SUBSET Live, ImportStart(t, vs)
  PROVE  History'
<1> DEFINE k == [Idle EXCEPT !.pc = "import", !.todo = vs]
<1>1. PICK S : StampsOK(S) /\ Explained(S)
  BY DEF History
<1>2. \A v \in vs : Explains(S, v)
  BY <1>1, LiveExplained
<1>3. TaskExplained(S, k)
  BY <1>2 DEF TaskExplained, ExplainsRow, Idle
<1>4. TasksExplained(S, task')
  BY <1>1, <1>3, BecomeExplained DEF ImportStart
<1>5. QED
  BY <1>1, <1>4, StampsStay DEF ImportStart, Explained, History

\* The resolution of a record, made of the record's versions and the body's.
LEMMA ResolveReadExplained ==
  ASSUME TypeOK, ConflictRecordsAreForks, History, NEW t \in Task, NEW c \in Config,
         NEW how, NEW body,
         how \in {"keep_local", "keep_central"} \/ (how = "merge" /\ body \in Live),
         ResolveRead(t, c, how, body)
  PROVE  History'
<1> DEFINE r == conflicts[c]
           ver == Resolution(r, how, body)
           row == r.central
           k == [Idle EXCEPT !.pc = "resolveSave", !.id = c, !.how = how, !.ver = ver,
                             !.row = row]
<1>1. PICK S : StampsOK(S) /\ Explained(S)
  BY DEF History
<1>2. /\ IsVersion(r.local, edits) /\ IsVersion(r.central, edits)
      /\ Explains(S, r.local) /\ Explains(S, r.central)
      /\ r.local.id = c /\ r.central.id = c
  BY <1>1 DEF ResolveRead, TypeOK, ConflictsOK, ConflictOK, Explained, ConflictsExplained,
              ConflictRecordsAreForks
<1>3. \E T : StampsOK(T)' /\ Explained(T) /\ Explains(T, ver)
  <2>1. CASE how = "keep_central"
    <3>1. UNCHANGED <<edits, born, drawn, reused>> /\ ver = r.central
      BY <2>1 DEF ResolveRead, Resolution
    <3>2. QED
      BY <1>1, <1>2, <3>1, StampsStay
  <2>2. ASSUME NEW v, IsVersion(v, edits), Explains(S, v), ver = Touched(v, FreshId),
               how # "keep_central"
        PROVE  \E T : StampsOK(T)' /\ Explained(T) /\ Explains(T, ver)
    <3>1. edits' = edits + 1 /\ UNCHANGED <<born, drawn, reused>>
      BY <2>2 DEF ResolveRead, CountEdit
    <3> HIDE DEF ver
    <3>2. QED
      BY <1>1, <2>2, <3>1, BumpIsExplained
  <2>3. CASE how = "keep_local"
    BY <1>2, <2>2, <2>3 DEF Resolution
  <2>4. CASE how = "merge"
    <3>1. IsVersion(body, edits) /\ Explains(S, body) /\ body.id = c
      BY <1>1, <2>4, LiveType, LiveExplained DEF ResolveRead
    <3> HIDE DEF r
    <3>2. IsVersion(MergeBoth(r, body), edits)
      BY <1>2, <3>1, MergeBothType
    <3>3. Explains(S, MergeBoth(r, body))
      BY <1>1, <1>2, <3>1, MergeBothIsExplained
    <3>4. QED
      BY <2>2, <2>4, <3>2, <3>3 DEF Resolution
  <2>5. QED
    BY <2>1, <2>3, <2>4
<1>4. PICK T : StampsOK(T)' /\ Explained(T) /\ Explains(T, ver)
  BY <1>3
<1>41. Explains(T, row)
  BY <1>4 DEF ResolveRead, Explained, ConflictsExplained
<1> HIDE DEF ver, row
<1>5. k.ver = ver /\ k.row = row /\ k.seen = Absent /\ k.todo = {}
  BY DEF Idle
<1>6. Become(t, k)
  BY DEF ResolveRead, ver, row
<1> HIDE DEF k
<1>7. TaskExplained(T, k)
  BY <1>4, <1>41, <1>5 DEF TaskExplained, ExplainsRow
<1>8. TasksExplained(T, task')
  BY <1>4, <1>6, <1>7, BecomeExplained
<1>9. QED
  BY <1>4, <1>8 DEF ResolveRead, Explained, History

LEMMA RequestArrivesExplained ==
  TypeOK /\ ConflictRecordsAreForks /\ History /\ RequestArrives => History'
<1> SUFFICES ASSUME TypeOK, ConflictRecordsAreForks, History, RequestArrives
             PROVE  History'
  OBVIOUS
<1>1. CASE \E c \in Config : CreateMock(c) \/ DeleteMock(c) \/ Dismiss(c)
  BY <1>1, CreateMockExplained, DeleteMockExplained, DismissExplained
<1>2. CASE \E v \in Live : PublicKeepLocal(v)
  BY <1>2, PublicKeepLocalExplained
<1>3. ASSUME NEW t \in Task, NEW c \in Config, NEW seen \in LiveOf(c) \cup {Absent},
             UpdateRead(t, c, seen)
      PROVE  History'
  BY <1>3, UpdateReadExplained
<1>4. ASSUME NEW t \in Task, NEW p \in Proxy, NEW cs \in (SUBSET Config) \ {{}},
             PushStart(t, p, cs)
      PROVE  History'
  BY <1>4, PushStartExplained
<1>5. ASSUME NEW t \in Task, NEW vs \in (SUBSET Live) \ {{}}, ImportStart(t, vs)
      PROVE  History'
  BY <1>5, ImportStartExplained
<1>6. ASSUME NEW t \in Task, NEW c \in Config, PublicMergeRead(t, c)
      PROVE  History'
  BY <1>6, PublicMergeReadExplained
<1>7. ASSUME NEW t \in Task, NEW c \in Config, NEW how \in {"keep_local", "keep_central"},
             ResolveRead(t, c, how, Absent)
      PROVE  History'
  BY <1>7, ResolveReadExplained
<1>8. ASSUME NEW t \in Task, NEW c \in Config, NEW body \in Live,
             ResolveRead(t, c, "merge", body)
      PROVE  History'
  BY <1>8, ResolveReadExplained
<1>9. ASSUME NEW t \in Task,
              \/ \E c \in Config : \E seen \in LiveOf(c) \cup {Absent} : UpdateRead(t, c, seen)
              \/ \E p \in Proxy, cs \in (SUBSET Config) \ {{}} : PushStart(t, p, cs)
              \/ \E vs \in (SUBSET Live) \ {{}} : ImportStart(t, vs)
              \/ \E c \in Config : PublicMergeRead(t, c)
              \/ \E c \in Config, how \in {"keep_local", "keep_central"} :
                   ResolveRead(t, c, how, Absent)
              \/ \E c \in Config, body \in Live : ResolveRead(t, c, "merge", body)
      PROVE  History'
  BY <1>3, <1>4, <1>5, <1>6, <1>7, <1>8, <1>9, Zenon
<1>10. QED
  BY <1>1, <1>2, <1>9, Zenon DEF RequestArrives

LEMMA NextOfBatchExplained ==
  ASSUME TypeOK, NEW S, Explained(S), NEW t \in Task,
         NEW pc \in {"push", "import"}, NextOfBatch(t, pc)
  PROVE  TasksExplained(S, task')
<1> DEFINE k == [Idle EXCEPT !.pc = pc, !.todo = task[t].todo]
<1>1. \A v \in task[t].todo : Explains(S, v)
  BY DEF Explained, TasksExplained, TaskExplained
<1>2. TaskExplained(S, k)
  BY <1>1 DEF TaskExplained, ExplainsRow, Idle
<1>3. Become(t, Idle) \/ Become(t, k)
  BY DEF NextOfBatch
<1> HIDE DEF k
<1>4. QED
  BY <1>2, <1>3, IdleExplained, BecomeExplained

LEMMA HandlerStepExplained ==
  ASSUME TypeOK, History, NEW t \in Task, HandlerStep(t)
  PROVE  History'
<1>1. PICK S : StampsOK(S) /\ Explained(S)
  BY DEF History
<1>2. TaskOK(task[t], edits) /\ TaskExplained(S, task[t])
  BY <1>1 DEF TypeOK, TasksOK, Explained, TasksExplained
<1>3. ASSUME task[t].pc \in {"save", "pushConflict", "pushSave", "resolveSave"}
      PROVE  IsVersion(task[t].ver, edits) /\ ExplainsRow(S, task[t].ver)
  BY <1>2, <1>3 DEF TaskOK, TaskExplained
<1>4. ASSUME NEW v, IsVersion(v, edits), ExplainsRow(S, v), SaveRow(v)
      PROVE  RowsExplained(S, mocks')
  <2>1. v.id \in Config
    BY <1>4 DEF IsVersion
  <2>2. RowsExplained(S, [mocks EXCEPT ![v.id] = v])
    BY <1>1, <1>4, <2>1, RowPutExplained DEF TypeOK, Explained
  <2>3. QED
    BY <1>4, <2>2 DEF SaveRow
<1>5. CASE SaveAndReply(t)
  <2>1. RowsExplained(S, mocks')
    BY <1>3, <1>4, <1>5 DEF SaveAndReply
  <2>2. TasksExplained(S, task')
    BY <1>1, <1>5, IdleExplained, BecomeExplained DEF SaveAndReply
  <2>3. QED
    BY <1>1, <1>5, <2>1, <2>2, StampsStay DEF SaveAndReply, Explained, History
<1>6. CASE ResolveSave(t)
  <2>1. RowsExplained(S, mocks')
    BY <1>3, <1>4, <1>6 DEF ResolveSave
  <2> DEFINE k == [Idle EXCEPT !.pc = "resolveDelete", !.id = task[t].id]
  <2>2. TaskExplained(S, k)
    BY DEF TaskExplained, ExplainsRow, Idle
  <2>3. TasksExplained(S, task')
    BY <1>1, <1>6, <2>2, BecomeExplained DEF ResolveSave
  <2>4. QED
    BY <1>1, <1>6, <2>1, <2>3, StampsStay DEF ResolveSave, Explained, History
<1>7. CASE ResolveDelete(t)
  <2>1. task[t].id \in Config
    BY <1>2, <1>7 DEF ResolveDelete, TaskOK
  <2>2. ConflictsExplained(S, conflicts')
    BY <1>1, <1>7, <2>1, DropConflictExplained DEF ResolveDelete
  <2>3. TasksExplained(S, task')
    BY <1>1, <1>7, IdleExplained, BecomeExplained DEF ResolveDelete
  <2>4. QED
    BY <1>1, <1>7, <2>2, <2>3, StampsStay DEF ResolveDelete, Explained, History
<1>8. CASE HandlerFails(t)
  <2>1. TasksExplained(S, task')
    BY <1>1, <1>8, IdleExplained, BecomeExplained DEF HandlerFails
  <2>2. QED
    BY <1>1, <1>8, <2>1, StampsStay DEF HandlerFails, Explained, History
<1>9. ASSUME NEW v \in task[t].todo, NEW fails \in BOOLEAN, PushRead(t, v, fails)
      PROVE  History'
  <2> DEFINE row == IF fails THEN Absent ELSE mocks[v.id]
             clash == row # Absent /\ PushIsConflict(row, v)
             pc == IF clash THEN "pushConflict" ELSE "pushSave"
             rest == task[t].todo \ {v}
             k == [task[t] EXCEPT !.pc = pc, !.id = v.id, !.ver = v, !.row = row,
                                  !.todo = rest]
  <2>1. v.id \in Config /\ Explains(S, v) /\ \A u \in rest : Explains(S, u)
    BY <1>2 DEF TaskOK, IsVersion, TaskExplained
  <2>2. ExplainsRow(S, row)
    BY <1>1, <2>1 DEF Explained, RowsExplained, ExplainsRow
  <2>3. Become(t, k)
    BY <1>9 DEF PushRead
  <2> HIDE DEF row, clash, pc, rest
  <2>4. k.ver = v /\ k.row = row /\ k.todo = rest /\ k.seen = task[t].seen
    BY <1>2 DEF TaskOK, TaskField
  <2> HIDE DEF k
  <2>5. TaskExplained(S, k)
    BY <1>2, <2>1, <2>2, <2>4 DEF TaskExplained, ExplainsRow
  <2>6. TasksExplained(S, task')
    BY <1>1, <2>3, <2>5, BecomeExplained
  <2>7. QED
    BY <1>1, <1>9, <2>6, StampsStay DEF PushRead, Explained, History
<1>10. ASSUME NEW v \in task[t].todo, NEW fails \in BOOLEAN, ImportSave(t, v, fails)
       PROVE  History'
  <2> DEFINE rest == task[t].todo \ {v}
             k == [task[t] EXCEPT !.todo = rest]
  <2>1. IsVersion(v, edits) /\ ExplainsRow(S, v)
    BY <1>2 DEF TaskOK, TaskExplained, ExplainsRow
  <2>2. RowsExplained(S, mocks')
    BY <1>1, <1>4, <1>10, <2>1 DEF ImportSave, Explained
  <2>3. Become(t, Idle) \/ Become(t, k)
    BY <1>10 DEF ImportSave
  <2>4. /\ k.ver = task[t].ver /\ k.row = task[t].row /\ k.seen = task[t].seen
        /\ k.todo = rest /\ k.pc = task[t].pc
    BY <1>2 DEF TaskOK, TaskField
  <2> HIDE DEF k
  <2>5. TaskExplained(S, k)
    BY <1>2, <2>4 DEF TaskExplained
  <2>6. TasksExplained(S, task')
    BY <1>1, <2>3, <2>5, IdleExplained, BecomeExplained
  <2>7. QED
    BY <1>1, <1>10, <2>2, <2>6, StampsStay DEF ImportSave, Explained, History
<1>11. ASSUME NEW fails \in BOOLEAN, PushUpsertConflict(t, fails)
       PROVE  History'
  <2> DEFINE k == [local |-> task[t].ver, central |-> task[t].row]
  <2>1. task[t].id \in Config /\ task[t].row # Absent
    BY <1>2, <1>11 DEF PushUpsertConflict, TaskOK
  <2>2. Explains(S, task[t].ver) /\ Explains(S, task[t].row)
    BY <1>2, <1>11, <2>1 DEF PushUpsertConflict, TaskExplained, ExplainsRow
  <2>3. conflicts' = conflicts \/ conflicts' = [conflicts EXCEPT ![task[t].id] = k]
    BY <1>11 DEF PushUpsertConflict
  <2>4. k.local = task[t].ver /\ k.central = task[t].row
    OBVIOUS
  <2> HIDE DEF k
  <2>5. ConflictsExplained(S, conflicts')
    BY <1>1, <2>1, <2>2, <2>3, <2>4 DEF TypeOK, ConflictsOK, Explained, ConflictsExplained
  <2>6. TasksExplained(S, task')
    BY <1>1, <1>11, NextOfBatchExplained DEF PushUpsertConflict
  <2>7. QED
    BY <1>1, <1>11, <2>5, <2>6, StampsStay DEF PushUpsertConflict, Explained, History
<1>12. ASSUME NEW fails \in BOOLEAN, PushSave(t, fails)
       PROVE  History'
  <2>1. RowsExplained(S, mocks')
    BY <1>1, <1>3, <1>4, <1>12 DEF PushSave, Explained
  <2>2. TasksExplained(S, task')
    BY <1>1, <1>12, NextOfBatchExplained DEF PushSave
  <2>3. QED
    BY <1>1, <1>12, <2>1, <2>2, StampsStay DEF PushSave, Explained, History
<1>13. QED
  BY <1>5, <1>6, <1>7, <1>8, <1>9, <1>10, <1>11, <1>12 DEF HandlerStep
-----------------------------------------------------------------------------
(* The inductive invariant.                                                *)

LEMMA HeldPutFiled ==
  ASSUME TypeOK, HeldFiled, NEW p \in Proxy, NEW c \in Config,
         NEW v, v = Absent \/ v.id = c, held' = [held EXCEPT ![p][c] = v]
  PROVE  HeldFiled'
BY DEF TypeOK, HeldOK, RowsOK, HeldFiled

LEMMA HeldFiledKept == TypeOK /\ FiledById /\ HeldFiled /\ Next => HeldFiled'
<1> SUFFICES ASSUME TypeOK, FiledById, HeldFiled, Next
             PROVE  HeldFiled'
  OBVIOUS
<1>1. ASSUME UNCHANGED held
      PROVE  HeldFiled'
  BY <1>1 DEF HeldFiled
<1>2. CASE RequestArrives
  <2>1. UNCHANGED held
    BY <1>2 DEF RequestArrives, CreateMock, DeleteMock, Dismiss, PublicKeepLocal, UpdateRead,
                PushStart, ImportStart, PublicMergeRead, ResolveRead
  <2>2. QED
    BY <1>1, <2>1
<1>3. CASE \E t \in Task : HandlerStep(t)
  <2>1. UNCHANGED held
    BY <1>3 DEF HandlerStep, SaveAndReply, ResolveSave, ResolveDelete, HandlerFails,
                PushRead, ImportSave, PushUpsertConflict, PushSave
  <2>2. QED
    BY <1>1, <2>1
<1>4. ASSUME NEW p \in Proxy, NEW c \in Config, LocalCreate(p, c)
      PROVE  HeldFiled'
  <2> DEFINE v == [NewVersion(c) EXCEPT !.vv = Increment(WithInstance(c), p)]
  <2>1. v.id = c /\ held' = [held EXCEPT ![p][c] = v]
    BY <1>4 DEF LocalCreate, NewVersion
  <2> HIDE DEF v
  <2>2. QED
    BY <2>1, HeldPutFiled
<1>5. ASSUME NEW p \in Proxy, NEW c \in Config, LocalUpdateRead(p, c)
      PROVE  HeldFiled'
  BY <1>1, <1>5 DEF LocalUpdateRead
<1>6. ASSUME NEW p \in Proxy, NEW c \in Config, LocalDelete(p, c)
      PROVE  HeldFiled'
  BY <1>6, HeldPutFiled DEF LocalDelete
<1>7. ASSUME NEW p \in Proxy, NEW c \in Config, LocalPull(p, c)
      PROVE  HeldFiled'
  BY <1>7, HeldPutFiled DEF LocalPull, FiledById
<1>8. ASSUME NEW d \in drafts, LocalUpdateSave(d)
      PROVE  HeldFiled'
  <2>1. d[1] \in Proxy /\ d[2].id \in Config
    BY DEF TypeOK, DraftsOK, IsVersion
  <2>2. QED
    BY <1>8, <2>1, HeldPutFiled DEF LocalUpdateSave
<1>9. QED
  BY <1>2, <1>3, <1>4, <1>5, <1>6, <1>7, <1>8 DEF Next, ProxyStep

LEMMA InitHistory == Init => HistoryInv
<1> SUFFICES ASSUME Init
             PROVE  HistoryInv
  OBVIOUS
<1>1. ForkInv
  BY InitIsFork
<1>2. HeldFiled
  BY DEF Init, HeldFiled
<1>3. StampsOK({}) /\ Explained({})
  BY IdleExplained DEF Init, StampsOK, Explained, RowsExplained, ConflictsExplained,
     TasksExplained, HeldExplained, DraftsExplained, ExplainsRow
<1>4. QED
  BY <1>1, <1>2, <1>3 DEF HistoryInv, History

LEMMA HistoryInvKept == HistoryInv /\ [Next]_vars => HistoryInv'
<1> SUFFICES ASSUME HistoryInv, [Next]_vars
             PROVE  HistoryInv'
  OBVIOUS
<1>1. ForkInv'
  BY ForkInvKept DEF HistoryInv
<1>2. CASE UNCHANGED vars
  <2>1. HeldFiled'
    BY <1>2 DEF vars, HistoryInv, HeldFiled
  <2>2. PICK S : StampsOK(S) /\ Explained(S)
    BY DEF HistoryInv, History
  <2>3. StampsOK(S)' /\ Explained(S)'
    BY <1>2, <2>2, StampsStay DEF vars, Explained
  <2>4. QED
    BY <1>1, <2>1, <2>3 DEF HistoryInv, History
<1>3. CASE Next
  <2>1. TypeOK /\ FiledById /\ ConflictRecordsAreForks /\ HeldFiled /\ History
    BY DEF HistoryInv, ForkInv
  <2>2. HeldFiled'
    BY <1>3, <2>1, HeldFiledKept
  <2>3. History'
    BY <1>3, <2>1, ProxyStepExplained, RequestArrivesExplained, HandlerStepExplained DEF Next
  <2>4. QED
    BY <1>1, <2>2, <2>3 DEF HistoryInv
<1>4. QED
  BY <1>2, <1>3

LEMMA HistoryInvTracks == HistoryInv => VectorsTrackHistory
<1> SUFFICES ASSUME HistoryInv, NEW a \in Live, NEW b \in Live, a.id = b.id,
                    ~Confusable(a, b)
             PROVE  /\ Dominates(a.vv, b.vv) <=> b.hist \subseteq a.hist /\ a.hist # b.hist
                    /\ a.vv = b.vv <=> a.hist = b.hist
  BY DEF VectorsTrackHistory
<1>1. PICK S : StampsOK(S) /\ Explained(S)
  BY DEF HistoryInv, History
<1>2. IsVersion(a, edits) /\ IsVersion(b, edits)
  BY LiveType DEF HistoryInv, ForkInv
<1>3. Explains(S, a) /\ Explains(S, b)
  BY <1>1, LiveExplained
<1>4. QED
  BY <1>1, <1>2, <1>3, ExplainedVectorsTrack

\* Whatever the proxies, handlers, failures and deliveries do, overlapping updates
\* and overwriting pulls included: of two versions of a mock, one dominates when it
\* contains the other's edits and more, and equal vectors mean equal content,
\* unless both have reached a counter that their proxy gave to two edits (dominates
\* and is_concurrent_with of models.rs, touch, and the bumps of the central
\* handlers).
THEOREM VectorsAlwaysTrack == Spec => []VectorsTrackHistory
<1>1. QED
  BY InitHistory, HistoryInvKept, HistoryInvTracks, PTL DEF Spec

-----------------------------------------------------------------------------
(* Saves are causal.                                                       *)

\* A version that is not concurrent with the row, of the same configuration.
Ordered(row, v) == row.id = v.id /\ ~ConcurrentWith(row.vv, v.vv)

\* What a task that is about to save knows of the row (or the central side of the
\* record) it read: an update or a merge contains it, a push was found in order
\* with it, and so was the version an update's client saw.
WorksFrom(k) ==
  /\ Absent \notin k.todo
  /\ k.pc # "save" => k.seen = Absent
  /\ k.pc = "pushSave" => k.ver # Absent
  /\ k.row # Absent =>
       /\ k.pc = "save" => k.row.hist \subseteq k.ver.hist
       /\ k.pc = "pushSave" => Ordered(k.row, k.ver)
       /\ k.pc = "resolveSave" /\ k.how # "keep_local" => k.row.hist \subseteq k.ver.hist
       /\ k.seen # Absent => Ordered(k.row, k.seen)

TasksWorkFrom == \A t \in Task : WorksFrom(task[t])

LEMMA BecomeKeepsWork ==
  ASSUME TypeOK, TasksWorkFrom, NEW t \in Task, NEW k, WorksFrom(k), Become(t, k)
  PROVE  TasksWorkFrom'
BY DEF Become, TasksWorkFrom, TypeOK, TasksOK

LEMMA IdleWorks == WorksFrom(Idle)
BY DEF WorksFrom, Idle

\* A task without a row it knows.
LEMMA BlankWorks ==
  ASSUME NEW k, k.row = Absent, k.seen = Absent, k.pc # "pushSave", Absent \notin k.todo
  PROVE  WorksFrom(k)
BY DEF WorksFrom

\* A bump adds an edit and keeps the rest.
LEMMA TouchedContains ==
  ASSUME NEW n, NEW v, IsVersion(v, n), NEW r
  PROVE  v.hist \subseteq Touched(v, r).hist
<1> DEFINE w == Increment(v.vv, r)
           h == v.hist \cup {edits + 1}
<1>1. Touched(v, r) = [v EXCEPT !.vv = w, !.hist = h]
  BY DEF Touched
<1> HIDE DEF w, h
<1>2. Touched(v, r) = [id |-> v.id, vv |-> w, hist |-> h]
  BY <1>1, ReplaceHistory
<1>3. QED
  BY <1>2 DEF h

\* A merge resolution contains both sides of its record.
LEMMA MergeContains ==
  ASSUME NEW n, NEW k, NEW body, IsVersion(body, n)
  PROVE  k.central.hist \subseteq MergeBoth(k, body).hist
<1> DEFINE w == Merge(Merge(body.vv, k.local.vv), k.central.vv)
           h == body.hist \cup k.local.hist \cup k.central.hist
<1>1. MergeBoth(k, body) = [body EXCEPT !.vv = w, !.hist = h]
  BY DEF MergeBoth
<1> HIDE DEF w, h
<1>2. MergeBoth(k, body) = [id |-> body.id, vv |-> w, hist |-> h]
  BY <1>1, ReplaceHistory
<1>3. QED
  BY <1>2 DEF h

LEMMA ResolveReadWorks ==
  ASSUME TypeOK, TasksWorkFrom, NEW t \in Task, NEW c \in Config, NEW how, NEW body,
         how \in {"keep_local", "keep_central"} \/ (how = "merge" /\ body \in Live),
         ResolveRead(t, c, how, body)
  PROVE  TasksWorkFrom'
<1> DEFINE r == conflicts[c]
           ver == Resolution(r, how, body)
           row == r.central
           k == [Idle EXCEPT !.pc = "resolveSave", !.id = c, !.how = how, !.ver = ver,
                             !.row = row]
<1>1. how # "keep_local" => row.hist \subseteq ver.hist
  <2>1. CASE how = "keep_central"
    BY <2>1 DEF Resolution
  <2>2. CASE how = "merge"
    <3>1. IsVersion(body, edits)
      BY <2>2, LiveType
    <3>2. IsVersion(r.local, edits) /\ IsVersion(r.central, edits)
      BY DEF ResolveRead, TypeOK, ConflictsOK, ConflictOK
    <3> HIDE DEF r
    <3>3. IsVersion(MergeBoth(r, body), edits) /\ row.hist \subseteq MergeBoth(r, body).hist
      BY <3>1, <3>2, MergeBothType, MergeContains
    <3>4. ver = Touched(MergeBoth(r, body), FreshId)
      BY <2>2 DEF Resolution
    <3>5. MergeBoth(r, body).hist \subseteq ver.hist
      BY <3>3, <3>4, TouchedContains
    <3>6. QED
      BY <3>3, <3>5
  <2>3. QED
    BY <2>1, <2>2
<1>2. Become(t, k)
  BY DEF ResolveRead
<1> HIDE DEF ver, row
<1>3. k.pc = "resolveSave" /\ k.how = how /\ k.ver = ver /\ k.row = row /\ k.seen = Absent
      /\ k.todo = {}
  BY DEF Idle
<1> HIDE DEF k
<1>4. WorksFrom(k)
  BY <1>1, <1>3 DEF WorksFrom
<1>5. QED
  BY <1>2, <1>4, BecomeKeepsWork

LEMMA WorkKept == TypeOK /\ FiledById /\ TasksWorkFrom /\ Next => TasksWorkFrom'
<1> SUFFICES ASSUME TypeOK, FiledById, TasksWorkFrom, Next
             PROVE  TasksWorkFrom'
  OBVIOUS
<1>1. ASSUME UNCHANGED task
      PROVE  TasksWorkFrom'
  BY <1>1 DEF TasksWorkFrom
<1>2. CASE ProxyStep
  BY <1>1, <1>2 DEF ProxyStep, LocalCreate, LocalUpdateRead, LocalUpdateSave, LocalDelete, LocalPull
<1>3. CASE \E c \in Config : CreateMock(c) \/ DeleteMock(c) \/ Dismiss(c)
  BY <1>1, <1>3 DEF CreateMock, DeleteMock, Dismiss
<1>4. CASE \E v \in Live : PublicKeepLocal(v)
  BY <1>1, <1>4 DEF PublicKeepLocal
<1>5. ASSUME NEW t \in Task,
             \/ \E p \in Proxy, cs \in (SUBSET Config) \ {{}} : PushStart(t, p, cs)
             \/ \E vs \in (SUBSET Live) \ {{}} : ImportStart(t, vs)
      PROVE  TasksWorkFrom'
  <2>1. ASSUME NEW pc \in {"push", "import"}, NEW todo, Absent \notin todo,
               Become(t, [Idle EXCEPT !.pc = pc, !.todo = todo])
        PROVE  TasksWorkFrom'
    <3> DEFINE k == [Idle EXCEPT !.pc = pc, !.todo = todo]
    <3>1. /\ k.row = Absent /\ k.seen = Absent /\ k.pc # "pushSave"
          /\ Absent \notin k.todo
      BY <2>1 DEF Idle
    <3>2. Become(t, k)
      BY <2>1
    <3> HIDE DEF k
    <3>3. QED
      BY <3>1, <3>2, BlankWorks, BecomeKeepsWork
  <2>2. CASE \E p \in Proxy, cs \in (SUBSET Config) \ {{}} : PushStart(t, p, cs)
    <3>1. PICK p \in Proxy, cs \in (SUBSET Config) \ {{}} : PushStart(t, p, cs)
      BY <2>2
    <3> DEFINE todo == {held[p][c] : c \in cs}
    <3>2. Absent \notin todo /\ Become(t, [Idle EXCEPT !.pc = "push", !.todo = todo])
      BY <3>1 DEF PushStart
    <3> HIDE DEF todo
    <3>3. QED
      BY <2>1, <3>2
  <2>3. CASE \E vs \in (SUBSET Live) \ {{}} : ImportStart(t, vs)
    <3>1. PICK vs \in (SUBSET Live) \ {{}} : ImportStart(t, vs)
      BY <2>3
    <3>2. Absent \notin vs
      BY <3>1 DEF Live
    <3>3. Become(t, [Idle EXCEPT !.pc = "import", !.todo = vs])
      BY <3>1 DEF ImportStart
    <3>4. QED
      BY <2>1, <3>2, <3>3
  <2>4. QED
    BY <1>5, <2>2, <2>3
<1>6. ASSUME NEW t \in Task, NEW c \in Config, NEW seen \in LiveOf(c) \cup {Absent},
             UpdateRead(t, c, seen)
      PROVE  TasksWorkFrom'
  <2> DEFINE v == mocks[c]
             w == Touched(v, FreshId)
             k == [Idle EXCEPT !.pc = "save", !.id = c, !.how = "update", !.seen = seen,
                               !.ver = w, !.row = v]
  <2>1. seen # Absent => Ordered(v, seen)
    BY <1>6 DEF UpdateRead, FiledById, LiveOf, Ordered
  <2>2. v.hist \subseteq w.hist
    BY <1>6, TouchedContains DEF UpdateRead, TypeOK, RowsOK, IsRow
  <2>3. Become(t, k)
    BY <1>6 DEF UpdateRead
  <2> HIDE DEF v, w
  <2>4. k.pc = "save" /\ k.row = v /\ k.seen = seen /\ k.ver = w /\ k.todo = {}
    BY DEF Idle
  <2> HIDE DEF k
  <2>5. WorksFrom(k)
    BY <2>1, <2>2, <2>4 DEF WorksFrom
  <2>6. QED
    BY <2>3, <2>5, BecomeKeepsWork
<1>7. ASSUME NEW t \in Task, NEW c \in Config, PublicMergeRead(t, c)
      PROVE  TasksWorkFrom'
  <2> DEFINE v == mocks[c]
             w == Touched(v, FreshId)
             k == [Idle EXCEPT !.pc = "save", !.id = c, !.how = "publicMerge", !.ver = w,
                               !.row = v]
  <2>1. v.hist \subseteq w.hist
    BY <1>7, TouchedContains DEF PublicMergeRead, TypeOK, RowsOK, IsRow
  <2>2. Become(t, k)
    BY <1>7 DEF PublicMergeRead
  <2> HIDE DEF v, w
  <2>3. k.pc = "save" /\ k.row = v /\ k.seen = Absent /\ k.ver = w /\ k.todo = {}
    BY DEF Idle
  <2> HIDE DEF k
  <2>4. WorksFrom(k)
    BY <2>1, <2>3 DEF WorksFrom
  <2>5. QED
    BY <2>2, <2>4, BecomeKeepsWork
<1>8. ASSUME NEW t \in Task,
             \/ \E c \in Config, how \in {"keep_local", "keep_central"} :
                  ResolveRead(t, c, how, Absent)
             \/ \E c \in Config, body \in Live : ResolveRead(t, c, "merge", body)
      PROVE  TasksWorkFrom'
  BY <1>8, ResolveReadWorks
<1>9. ASSUME NEW t \in Task, HandlerStep(t)
      PROVE  TasksWorkFrom'
  <2>1. TaskOK(task[t], edits) /\ WorksFrom(task[t])
    BY DEF TypeOK, TasksOK, TasksWorkFrom
  <2>2. CASE SaveAndReply(t) \/ ResolveDelete(t) \/ HandlerFails(t)
    BY <2>2, IdleWorks, BecomeKeepsWork DEF SaveAndReply, ResolveDelete, HandlerFails
  <2>3. ASSUME NEW k, k.row = Absent, k.seen = Absent, k.pc # "pushSave",
               Absent \notin k.todo, Become(t, k)
        PROVE  TasksWorkFrom'
    BY <2>3, BlankWorks, BecomeKeepsWork
  <2>4. CASE ResolveSave(t)
    BY <2>3, <2>4 DEF ResolveSave, Idle
  <2>5. CASE \E fails \in BOOLEAN : PushUpsertConflict(t, fails) \/ PushSave(t, fails)
    BY <2>1, <2>3, <2>5 DEF PushUpsertConflict, PushSave, NextOfBatch, Idle, WorksFrom
  <2>6. ASSUME NEW v \in task[t].todo, NEW fails \in BOOLEAN, ImportSave(t, v, fails)
        PROVE  TasksWorkFrom'
    <3> DEFINE k == [task[t] EXCEPT !.todo = task[t].todo \ {v}]
    <3>1. /\ k.pc = "import" /\ k.row = task[t].row /\ k.seen = task[t].seen
          /\ task[t].pc = "import" /\ k.todo \subseteq task[t].todo
      BY <2>1, <2>6 DEF ImportSave, TaskOK, TaskField
    <3>2. Become(t, Idle) \/ Become(t, k)
      BY <2>6 DEF ImportSave
    <3> HIDE DEF k
    <3>3. WorksFrom(k)
      BY <2>1, <3>1 DEF WorksFrom
    <3>4. QED
      BY <3>2, <3>3, IdleWorks, BecomeKeepsWork
  <2>7. ASSUME NEW v \in task[t].todo, NEW fails \in BOOLEAN, PushRead(t, v, fails)
        PROVE  TasksWorkFrom'
    <3> DEFINE row == IF fails THEN Absent ELSE mocks[v.id]
               clash == row # Absent /\ PushIsConflict(row, v)
               pc == IF clash THEN "pushConflict" ELSE "pushSave"
               k == [task[t] EXCEPT !.pc = pc, !.id = v.id, !.ver = v, !.row = row,
                                    !.todo = task[t].todo \ {v}]
    <3>1. v.id \in Config
      BY <2>1 DEF TaskOK, IsVersion
    <3>2. row # Absent /\ ~clash => Ordered(row, v)
      BY <3>1 DEF FiledById, PushIsConflict, Ordered
    <3>3. (pc = "pushSave" => ~clash) /\ pc \in {"pushSave", "pushConflict"}
      OBVIOUS
    <3>4. Become(t, k)
      BY <2>7 DEF PushRead
    <3>5. task[t].seen = Absent /\ Absent \notin task[t].todo
      BY <2>1, <2>7 DEF PushRead, WorksFrom
    <3> HIDE DEF row, clash, pc
    <3>6. /\ k.pc = pc /\ k.ver = v /\ k.row = row /\ k.seen = Absent
          /\ k.todo = task[t].todo \ {v} /\ v # Absent
      BY <2>1, <3>5 DEF TaskOK, TaskField
    <3> HIDE DEF k
    <3>7. WorksFrom(k)
      BY <3>2, <3>3, <3>5, <3>6 DEF WorksFrom
    <3>8. QED
      BY <3>4, <3>7, BecomeKeepsWork
  <2>8. QED
    BY <1>9, <2>2, <2>4, <2>5, <2>6, <2>7 DEF HandlerStep
<1>10. CASE RequestArrives
  <2>1. ASSUME NEW t \in Task,
                \/ \E c \in Config : \E seen \in LiveOf(c) \cup {Absent} : UpdateRead(t, c, seen)
                \/ \E p \in Proxy, cs \in (SUBSET Config) \ {{}} : PushStart(t, p, cs)
                \/ \E vs \in (SUBSET Live) \ {{}} : ImportStart(t, vs)
                \/ \E c \in Config : PublicMergeRead(t, c)
                \/ \E c \in Config, how \in {"keep_local", "keep_central"} :
                     ResolveRead(t, c, how, Absent)
                \/ \E c \in Config, body \in Live : ResolveRead(t, c, "merge", body)
        PROVE  TasksWorkFrom'
    BY <1>5, <1>6, <1>7, <1>8, <2>1, Zenon
  <2>2. QED
    BY <1>3, <1>4, <1>10, <2>1, Zenon DEF RequestArrives
<1>11. QED
  BY <1>2, <1>9, <1>10 DEF Next

\* What the save of a task that works from its row loses.
LEMMA WorkLosesNothing ==
  ASSUME VectorsTrackHistory, TypeOK, TasksWorkFrom, NEW t \in Task, Saves(t),
         task[t].row # Absent
  PROVE  LosesNothingSeen(task[t]) /\ SawNoFork(task[t])
<1> DEFINE k == task[t]
<1>1. WorksFrom(k) /\ k.pc \in {"save", "pushSave", "resolveSave"} /\ k.row # Absent
  BY DEF TasksWorkFrom, Saves
<1>2. Lost(k.id) \cap k.ver.hist = {}
  BY DEF Saves, Lost
<1>3. ASSUME NEW a \in Live, NEW b \in Live, Ordered(a, b), ~Confusable(a, b)
      PROVE  Comparable(a, b)
  <2>1. Dominates(a.vv, b.vv) \/ Dominates(b.vv, a.vv) \/ a.vv = b.vv
    BY <1>3 DEF Ordered, ConcurrentWith
  <2>2. a.id = b.id
    BY <1>3 DEF Ordered
  <2>3. ~Confusable(b, a)
    BY <1>3, <2>2 DEF Confusable
  <2>4. Dominates(a.vv, b.vv) => b.hist \subseteq a.hist
    BY <1>3, <2>2 DEF VectorsTrackHistory
  <2>5. Dominates(b.vv, a.vv) => a.hist \subseteq b.hist
    BY <2>2, <2>3 DEF VectorsTrackHistory
  <2>6. a.vv = b.vv => a.hist = b.hist
    BY <1>3, <2>2 DEF VectorsTrackHistory
  <2>7. QED
    BY <2>1, <2>4, <2>5, <2>6 DEF Comparable
<1>4. ASSUME k.row.hist \subseteq k.ver.hist
      PROVE  Lost(k.id) \cap k.row.hist = {}
  BY <1>2, <1>4
<1>5. LosesNothingSeen(k)
  <2>1. CASE k.pc = "save" \/ (k.pc = "resolveSave" /\ k.how # "keep_local")
    BY <1>1, <1>4, <2>1 DEF WorksFrom, LosesNothingSeen
  <2>2. CASE k.how = "keep_local"
    BY <2>2 DEF LosesNothingSeen
  <2>3. CASE k.pc = "pushSave"
    <3>1. k.ver # Absent
      BY <1>1, <2>3 DEF WorksFrom
    <3>2. k.row \in Live /\ k.ver \in Live
      BY <1>1, <3>1 DEF Live
    <3>3. Ordered(k.row, k.ver)
      BY <1>1, <2>3 DEF WorksFrom
    <3>4. Confusable(k.ver, k.row) \/ Comparable(k.row, k.ver)
      BY <1>3, <3>2, <3>3 DEF Confusable, Ordered
    <3>5. QED
      BY <1>4, <2>3, <3>4 DEF Comparable, LosesNothingSeen
  <2>4. QED
    BY <1>1, <2>1, <2>2, <2>3
<1>6. SawNoFork(k)
  <2> SUFFICES ASSUME k.seen # Absent
               PROVE  Comparable(k.row, k.seen) \/ Confusable(k.row, k.seen)
    BY DEF SawNoFork
  <2>1. k.row \in Live /\ k.seen \in Live
    BY <1>1 DEF Live
  <2>2. Ordered(k.row, k.seen)
    BY <1>1 DEF WorksFrom
  <2>3. QED
    BY <1>3, <2>1, <2>2
<1>7. QED
  BY <1>5, <1>6

\* Whatever interleaves: of the edits the row had when a task read it, the save of
\* that task drops none but those a resolver gave up or an old pushed version is
\* behind, and none at all against an edit made on the side, unless the two
\* versions are Confusable (the conflict checks of sync_push in routes.rs and of
\* MockService::update, and the resolutions of conflicts.rs).
THEOREM SavesStayCausal == Spec => SavesAreCausal
<1>1. Init => TasksWorkFrom
  BY IdleWorks DEF Init, TasksWorkFrom
<1>2. ForkInv /\ TasksWorkFrom /\ [Next]_vars => TasksWorkFrom'
  <2>1. UNCHANGED vars /\ TasksWorkFrom => TasksWorkFrom'
    BY DEF vars, TasksWorkFrom
  <2>2. QED
    BY <2>1, WorkKept DEF ForkInv
<1>3. Spec => []ForkInv
  BY InitIsFork, ForkInvKept, PTL DEF Spec
<1>4. Spec => []VectorsTrackHistory
  BY VectorsAlwaysTrack
<1>5. VectorsTrackHistory /\ ForkInv /\ TasksWorkFrom /\ [Next]_vars
        => [\A t \in Task : Saves(t) /\ task[t].row # Absent
              => LosesNothingSeen(task[t]) /\ SawNoFork(task[t])]_vars
  BY WorkLosesNothing DEF ForkInv
<1>6. QED
  BY <1>1, <1>2, <1>3, <1>4, <1>5, PTL DEF Spec, SavesAreCausal
=============================================================================
