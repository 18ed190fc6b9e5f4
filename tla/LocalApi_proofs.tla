--------------------------- MODULE LocalApi_proofs ---------------------------
(***************************************************************************)
(* Batches that stop at their failure, updates that keep the rest of their row *)
(* and walks of the list that miss no row, for any number of clients, rows,    *)
(* calls, failures and pulls.                                                  *)
(***************************************************************************)
EXTENDS LocalApi, FiniteSetTheorems, WellFoundedInduction, TLAPS

Fields == {"op", "body", "item", "read", "changed", "wrote", "status", "query", "seen",
           "there", "shifted"}
Columns == {"name", "path", "active", "hash", "vv", "source", "at"}

UpTo(n) == [k \in 1 .. n |-> k]

Short(wrote, length) == \E n \in Nat : n < length /\ wrote = UpTo(n)

\* How far the loop of a batch is: what it wrote is what it has come by.
Batched(call) ==
  /\ Len(call.body) \in Nat /\ call.item \in Nat
  /\ call.status \in {"running", "ok", "not found", "failed", "invalid"}
  /\ call.status = "running" =>
       /\ 1 <= call.item
       /\ call.item <= Len(call.body) + 1
       /\ call.wrote = UpTo(call.item - 1)
  /\ call.status = "ok" => call.wrote = UpTo(Len(call.body))
  /\ call.status \in {"not found", "failed"} =>
       Short(call.wrote, Len(call.body))
  /\ call.status = "invalid" => call.wrote = <<>>

\* A call is a record; the rows an update has read have all their columns.
CallOk(call) ==
  /\ DOMAIN call = Fields
  /\ call.op \in {"create", "update"} => Batched(call)
  /\ call.op = "update" => \A k \in 1 .. Len(call.body) : call.body[k].id \in Id
  /\ call.read # None => DOMAIN call.read = Columns

\* What an update has read is the row, unless it was told of another writer.
UpToDate(c) ==
  Saving(c) /\ ~calls[c].changed => mocks[Body(c).id] = calls[c].read

Inv ==
  /\ DOMAIN mocks = Id
  /\ \A i \in Rows : DOMAIN mocks[i] = Columns
  /\ DOMAIN calls = Client
  /\ \A c \in Client : CallOk(calls[c])
  /\ \A c \in Client : UpToDate(c)

-----------------------------------------------------------------------------
(* Lengths of what a batch wrote.                                           *)

LEMMA LengthUpTo ==
  ASSUME NEW n \in Nat
  PROVE  UpTo(n) \in Seq(Nat) /\ Len(UpTo(n)) = n
BY DEF UpTo

LEMMA OneMore ==
  ASSUME NEW n \in Nat
  PROVE  Append(UpTo(n), n + 1) = UpTo(n + 1)
<1>1. Append(UpTo(n), n + 1) = [i \in 1 .. n + 1 |-> IF i <= n THEN i ELSE n + 1]
  BY DEF UpTo
<1>2. \A i \in 1 .. n + 1 : (IF i <= n THEN i ELSE n + 1) = i
  OBVIOUS
<1> QED BY <1>1, <1>2 DEF UpTo

LEMMA OneBelow == ASSUME NEW k \in Nat, 1 <= k PROVE k - 1 \in Nat
OBVIOUS

LEMMA StillShort ==
  ASSUME NEW k \in Nat, NEW n \in Nat, 1 <= k, k <= n, NEW wrote, wrote = UpTo(k - 1)
  PROVE  Short(wrote, n)
<1>1. k - 1 \in Nat /\ k - 1 < n
  OBVIOUS
<1> QED BY <1>1, Zenon DEF Short

LEMMA NothingYet == UpTo(0) = <<>>
BY DEF UpTo

-----------------------------------------------------------------------------
(* The records of calls.                                                    *)

LEMMA Next1Fields ==
  ASSUME NEW call, DOMAIN call = Fields
  PROVE  /\ DOMAIN Next1(call) = Fields
         /\ Next1(call).op = call.op
         /\ Next1(call).body = call.body
         /\ Next1(call).item = call.item + 1
         /\ Next1(call).read = None
         /\ Next1(call).wrote = Append(call.wrote, call.item)
         /\ Next1(call).status = IF call.item = Len(call.body) THEN "ok" ELSE "running"
BY DEF Next1, Fields

LEMMA SkippedFields ==
  ASSUME NEW call, DOMAIN call = Fields
  PROVE  /\ DOMAIN Skipped(call) = Fields
         /\ Skipped(call).op = call.op
         /\ Skipped(call).body = call.body
         /\ Skipped(call).read = None
         /\ Skipped(call).wrote = call.wrote
BY DEF Skipped, Next1, Fields

LEMMA CalledFields ==
  ASSUME NEW op, NEW body, NEW valid \in BOOLEAN
  PROVE  /\ DOMAIN Called(op, body, valid) = Fields
         /\ Called(op, body, valid).op = op
         /\ Called(op, body, valid).body = body
         /\ Called(op, body, valid).item = 1
         /\ Called(op, body, valid).read = None
         /\ Called(op, body, valid).wrote = <<>>
         /\ Called(op, body, valid).status = IF valid THEN "running" ELSE "invalid"
BY DEF Called, Idle, Fields

\* A batch whose item at hand was written goes on or is done.
LEMMA Next1Batched ==
  ASSUME NEW call, CallOk(call), call.op \in {"create", "update"},
         call.status = "running", call.item <= Len(call.body)
  PROVE  CallOk(Next1(call))
<1> DEFINE n == Len(call.body)  k == call.item
<1>1. DOMAIN call = Fields /\ Batched(call) /\ n \in Nat /\ k \in Nat /\ 1 <= k /\ k <= n
  BY DEF CallOk, Batched
<1>2. call.wrote = UpTo(k - 1)
  BY <1>1 DEF Batched
<1>3. Append(call.wrote, k) = UpTo(k)
  <2>1. k - 1 \in Nat /\ (k - 1) + 1 = k
    BY <1>1
  <2> HIDE DEF k
  <2> QED BY <2>1, <1>2, OneMore
<1>4. Next1(call).status \in {"ok", "running"}
      /\ (Next1(call).status = "ok" => k = n)
      /\ (Next1(call).status = "running" => k # n)
  BY <1>1, Next1Fields
<1>5. Batched(Next1(call))
  <2> DEFINE next == Next1(call)
  <2>1. next.body = call.body /\ next.item = k + 1 /\ next.wrote = UpTo(k)
    BY <1>1, <1>3, Next1Fields
  <2>2. next.status \in {"ok", "running"}
        /\ (next.status = "ok" => k = n)
        /\ (next.status = "running" => k # n)
    BY <1>4
  <2> HIDE DEF next
  <2>3. Len(next.body) = n
    BY <2>1
  <2>4. next.status = "running" =>
          /\ 1 <= next.item /\ next.item <= n + 1
          /\ next.wrote = UpTo(next.item - 1)
    <3>1. (k + 1) - 1 = k
      BY <1>1
    <3> QED BY <1>1, <2>1, <2>2, <3>1
  <2>5. next.status = "ok" => next.wrote = UpTo(n)
    BY <2>1, <2>2
  <2>6. next.item \in Nat
    BY <1>1, <2>1
  <2>7. Batched(next)
    BY <1>1, <2>2, <2>3, <2>4, <2>5, <2>6 DEF Batched
  <2> QED BY <2>7 DEF next
<1> QED BY <1>1, <1>5, Next1Fields DEF CallOk

\* One that leaves its item out, or is over.
LEMMA EndsBatched ==
  ASSUME NEW call, CallOk(call),
         call.op \in {"create", "update"}
           => call.status = "running" /\ call.item <= Len(call.body),
         NEW s \in {"not found", "failed"}
  PROVE  CallOk([call EXCEPT !.status = s])
<1> DEFINE next == [call EXCEPT !.status = s]
<1>1. DOMAIN call = Fields
  BY DEF CallOk
<1>2. /\ DOMAIN next = Fields
      /\ next.op = call.op
      /\ next.body = call.body
      /\ next.item = call.item
      /\ next.read = call.read
      /\ next.wrote = call.wrote
      /\ next.status = s
  BY <1>1 DEF Fields
<1> HIDE DEF next
<1>3. ASSUME call.op \in {"create", "update"}
      PROVE  Batched(next)
  <2>1. Batched(call) /\ call.item \in Nat /\ Len(call.body) \in Nat
    BY <1>3 DEF CallOk, Batched
  <2>2. call.wrote = UpTo(call.item - 1) /\ 1 <= call.item
    BY <1>3, <2>1 DEF Batched
  <2>3. Short(call.wrote, Len(call.body))
    <3>1. call.item \in Nat /\ Len(call.body) \in Nat /\ 1 <= call.item
      BY <2>1, <2>2
    <3>2. call.item <= Len(call.body)
      BY <1>3
    <3>3. call.wrote = UpTo(call.item - 1)
      BY <2>2
    <3> QED BY <3>1, <3>2, <3>3, StillShort
  <2>4. Short(next.wrote, Len(next.body))
    BY <1>2, <2>3
  <2>5. Len(next.body) \in Nat /\ next.item \in Nat
    BY <1>2, <2>1
  <2>6. next.status \in {"not found", "failed"} /\ next.status # "running" /\ next.status # "ok" /\ next.status # "invalid"
    BY <1>2
  <2>7. next.status \in {"not found", "failed"} =>
          Short(next.wrote, Len(next.body))
    BY <2>4
  <2> QED BY <2>5, <2>6, <2>7, Zenon DEF Batched
<1>4. CallOk(next)
  BY <1>2, <1>3 DEF CallOk
<1> QED BY <1>4 DEF next

\* A call that is no batch only keeps its shape.
LEMMA OtherOk ==
  ASSUME NEW call, DOMAIN call = Fields, call.op \notin {"create", "update"},
         call.read = None
  PROVE  CallOk(call)
BY DEF CallOk

-----------------------------------------------------------------------------
(* What a step does to the calls it is not of.                               *)

\* A call of which another step changes no more than what it knows of the table.
Alike(old, new) ==
  /\ DOMAIN new = DOMAIN old
  /\ new.op = old.op
  /\ new.body = old.body
  /\ new.item = old.item
  /\ new.read = old.read
  /\ new.wrote = old.wrote
  /\ new.status = old.status

LEMMA AlikeOk ==
  ASSUME NEW old, NEW new, CallOk(old), Alike(old, new)
  PROVE  CallOk(new)
<1>1. Batched(old) => Batched(new)
  BY DEF Batched, Alike
<1> QED BY <1>1 DEF CallOk, Alike

LEMMA NoticedAlike ==
  ASSUME Inv, NEW c, NEW i, NEW row, NEW d \in Client, d # c
  PROVE  /\ Alike(calls[d], Noticed(c, i, row)[d])
         /\ ~Noticed(c, i, row)[d].changed =>
              ~calls[d].changed /\ ~(Saving(d) /\ Body(d).id = i)
<1> DEFINE call == calls[d]
           shifts == Withdraws(i, row, calls[d].query)
           hears == Saving(d) /\ Body(d).id = i
           next == [call EXCEPT !.changed = @ \/ hears, !.there = @ \ {i},
                                !.shifted = @ \/ shifts]
<1>1. Noticed(c, i, row)[d] = next
  BY DEF Noticed
<1>2. DOMAIN call = Fields
  BY DEF Inv, CallOk
<1> HIDE DEF hears, shifts, call
<1>3. Alike(call, next)
  BY <1>2 DEF Alike, Fields
<1>4. next.changed = (call.changed \/ hears)
  BY <1>2 DEF Fields
<1>5. ~next.changed => ~call.changed /\ ~hears
  BY <1>4
<1> QED BY <1>1, <1>3, <1>5 DEF hears, call

\* The item at hand of an update names a configuration.
LEMMA KnownId ==
  ASSUME Inv, NEW d \in Client, Working(d, "update")
  PROVE  Body(d).id \in Id
<1> DEFINE n == Len(calls[d].body)  k == calls[d].item
<1>1. CallOk(calls[d]) /\ calls[d].op = "update"
  BY DEF Working, Inv
<1>2. Batched(calls[d]) /\ calls[d].status = "running" /\ k <= n
  BY <1>1 DEF Working, CallOk
<1>3. n \in Nat /\ k \in Nat /\ 1 <= k
  BY <1>2 DEF Batched
<1>4. \A j \in 1 .. n : calls[d].body[j].id \in Id
  BY <1>1 DEF CallOk
<1>5. calls[d].body[k].id \in Id
  <2> HIDE DEF n, k
  <2> QED BY <1>2, <1>3, <1>4
<1> QED BY <1>5 DEF Body

\* A step of client c that leaves the table alone: only its own call needs a look.
LEMMA CallStep ==
  ASSUME Inv, NEW c \in Client, UNCHANGED mocks,
         NEW new, calls' = [calls EXCEPT ![c] = new],
         CallOk(new),
         (new.op = "update" /\ new.status = "running" /\ new.read # None /\ ~new.changed)
           => mocks[new.body[new.item].id] = new.read
  PROVE  Inv'
<1>1. DOMAIN mocks' = Id /\ \A i \in Rows' : DOMAIN mocks'[i] = Columns
  BY DEF Inv, Rows
<1>2. DOMAIN calls' = Client
  BY DEF Inv
<1>3. calls'[c] = new /\ \A d \in Client \ {c} : calls'[d] = calls[d]
  BY DEF Inv
<1>4. \A d \in Client : CallOk(calls'[d])
  BY <1>3 DEF Inv
<1>5. ASSUME NEW d \in Client
      PROVE  UpToDate(d)'
  <2>1. CASE d = c
    BY <2>1, <1>3 DEF UpToDate, Saving, Working, Body
  <2>2. CASE d # c
    BY <2>2, <1>3 DEF UpToDate, Saving, Working, Body, Inv
  <2> QED BY <2>1, <2>2
<1> QED BY <1>1, <1>2, <1>4, <1>5 DEF Inv

\* A call that has heard of no write of its row has read what is there.
LEMMA UpToDateStays ==
  ASSUME Inv, NEW i, NEW row, NEW d \in Client,
         mocks' = [mocks EXCEPT ![i] = row],
         Alike(calls[d], calls'[d]),
         ~calls'[d].changed => ~calls[d].changed /\ ~(Saving(d) /\ Body(d).id = i)
  PROVE  UpToDate(d)'
<1> SUFFICES ASSUME Saving(d)', ~calls'[d].changed
             PROVE  mocks'[Body(d)'.id] = calls'[d].read
  BY DEF UpToDate
<1>1. Saving(d) /\ Body(d)' = Body(d) /\ calls'[d].read = calls[d].read
  BY DEF Alike, Saving, Working, Body
<1>2. ~calls[d].changed /\ Body(d).id # i
  BY <1>1
<1>3. Body(d).id \in Id
  BY <1>1, KnownId DEF Saving
<1>4. mocks'[Body(d).id] = mocks[Body(d).id]
  BY <1>2, <1>3 DEF Inv
<1>5. mocks[Body(d).id] = calls[d].read
  BY <1>1, <1>2 DEF Inv, UpToDate
<1> QED BY <1>1, <1>4, <1>5

\* A step of client c that writes row i.
LEMMA WriteStep ==
  ASSUME Inv, NEW c \in Client, NEW i, NEW row, NEW new,
         Write(c, i, row, new), row # None => DOMAIN row = Columns,
         CallOk(new), new.read = None
  PROVE  Inv'
<1>1. mocks' = [mocks EXCEPT ![i] = row] /\ calls' = [Noticed(c, i, row) EXCEPT ![c] = new]
  BY DEF Write
<1>2. DOMAIN mocks' = Id /\ \A j \in Rows' : DOMAIN mocks'[j] = Columns
  BY <1>1 DEF Inv, Rows
<1>3. DOMAIN Noticed(c, i, row) = Client
  BY DEF Noticed
<1>4. /\ DOMAIN calls' = Client
      /\ calls'[c] = new
      /\ \A d \in Client \ {c} : calls'[d] = Noticed(c, i, row)[d]
  BY <1>1, <1>3
<1>5. \A d \in Client : CallOk(calls'[d])
  <2>1. ASSUME NEW d \in Client, d # c
        PROVE  CallOk(calls'[d])
    BY <1>4, <2>1, NoticedAlike, AlikeOk DEF Inv
  <2> QED BY <1>4, <2>1
<1>6. ASSUME NEW d \in Client
      PROVE  UpToDate(d)'
  <2>1. CASE d = c
    BY <2>1, <1>4 DEF UpToDate, Saving
  <2>2. CASE d # c
    BY <2>2, <1>1, <1>4, NoticedAlike, UpToDateStays
  <2> QED BY <2>1, <2>2
<1> QED BY <1>2, <1>4, <1>5, <1>6 DEF Inv

-----------------------------------------------------------------------------
(* The actions.                                                             *)

\* A new call, valid or refused as a whole.
LEMMA CalledOk ==
  ASSUME NEW op, NEW body, NEW valid \in BOOLEAN,
         op \in {"create", "update"} => Len(body) \in Nat,
         op = "update" => \A k \in 1 .. Len(body) : body[k].id \in Id
  PROVE  CallOk(Called(op, body, valid)) /\ Called(op, body, valid).read = None
<1> DEFINE call == Called(op, body, valid)
<1>1. /\ DOMAIN call = Fields
      /\ call.op = op
      /\ call.body = body
      /\ call.item = 1
      /\ call.read = None
      /\ call.wrote = <<>>
      /\ call.status \in {"running", "invalid"}
  BY CalledFields
<1> HIDE DEF call
<1>2. ASSUME op \in {"create", "update"}
      PROVE  Batched(call)
  <2>1. Len(call.body) \in Nat /\ call.item \in Nat
    BY <1>1, <1>2
  <2>2. 1 <= call.item /\ call.item <= Len(call.body) + 1
    <3> DEFINE n == Len(body)
    <3>1. n \in Nat
      BY <1>2
    <3> HIDE DEF n
    <3>2. 1 <= n + 1
      BY <3>1
    <3> QED BY <1>1, <3>2 DEF n
  <2>3. call.wrote = UpTo(call.item - 1)
    BY <1>1, NothingYet
  <2>4. call.status # "ok"
    BY <1>1
  <2>5. call.status \notin {"not found", "failed"}
    BY <1>1
  <2> QED BY <1>1, <2>1, <2>2, <2>3, <2>4, <2>5 DEF Batched
<1>3. CallOk(call)
  BY <1>1, <1>2 DEF CallOk
<1> QED BY <1>1, <1>3 DEF call

LEMMA CallsCreateKeeps == ASSUME Inv, NEW c \in Client, CallsCreate(c) PROVE Inv'
<1>1. PICK body \in Creates :
        calls' = [calls EXCEPT ![c] =
                    Called("create", body, \A k \in 1 .. Len(body) : ValidCreate(body[k]))]
  BY DEF CallsCreate, Calls
<1> DEFINE new == Called("create", body, \A k \in 1 .. Len(body) : ValidCreate(body[k]))
<1>2. CallOk(new) /\ new.read = None
  BY CalledOk, BodiesAssumption
<1>3. UNCHANGED mocks
  BY DEF CallsCreate, Calls
<1> HIDE DEF new
<1> QED BY <1>1, <1>2, <1>3, CallStep DEF new

LEMMA CallsUpdateKeeps == ASSUME Inv, NEW c \in Client, CallsUpdate(c) PROVE Inv'
<1>1. PICK body \in Updates :
        calls' = [calls EXCEPT ![c] =
                    Called("update", body, \A k \in 1 .. Len(body) : ValidUpdate(body[k]))]
  BY DEF CallsUpdate, Calls
<1> DEFINE new == Called("update", body, \A k \in 1 .. Len(body) : ValidUpdate(body[k]))
<1>2. CallOk(new) /\ new.read = None
  BY CalledOk, BodiesAssumption
<1>3. UNCHANGED mocks
  BY DEF CallsUpdate, Calls
<1> HIDE DEF new
<1> QED BY <1>1, <1>2, <1>3, CallStep DEF new

LEMMA CallsDeleteKeeps == ASSUME Inv, NEW c \in Client, CallsDelete(c) PROVE Inv'
<1>1. PICK body \in Deletes :
        calls' = [calls EXCEPT ![c] =
                    Called("delete", body, \A k \in 1 .. Len(body) : TRUE)]
  BY DEF CallsDelete, Calls
<1> DEFINE new == Called("delete", body, \A k \in 1 .. Len(body) : TRUE)
<1>2. CallOk(new) /\ new.read = None
  BY CalledOk
<1>3. UNCHANGED mocks
  BY DEF CallsDelete, Calls
<1> HIDE DEF new
<1> QED BY <1>1, <1>2, <1>3, CallStep DEF new

LEMMA CallsDeleteAllKeeps == ASSUME Inv, NEW c \in Client, CallsDeleteAll(c) PROVE Inv'
<1>1. PICK body \in Deletes :
        calls' = [calls EXCEPT ![c] =
                    Called("delete all", body, \A k \in 1 .. Len(body) : TRUE)]
  BY DEF CallsDeleteAll, Calls
<1> DEFINE new == Called("delete all", body, \A k \in 1 .. Len(body) : TRUE)
<1>2. CallOk(new) /\ new.read = None
  BY CalledOk
<1>3. UNCHANGED mocks
  BY DEF CallsDeleteAll, Calls
<1> HIDE DEF new
<1> QED BY <1>1, <1>2, <1>3, CallStep DEF new

LEMMA CallsImportKeeps == ASSUME Inv, NEW c \in Client, CallsImport(c) PROVE Inv'
<1>1. PICK body \in Imports :
        calls' = [calls EXCEPT ![c] =
                    Called("import", body, \A k \in 1 .. Len(body) : TRUE)]
  BY DEF CallsImport, Calls
<1> DEFINE new == Called("import", body, \A k \in 1 .. Len(body) : TRUE)
<1>2. CallOk(new) /\ new.read = None
  BY CalledOk
<1>3. UNCHANGED mocks
  BY DEF CallsImport, Calls
<1> HIDE DEF new
<1> QED BY <1>1, <1>2, <1>3, CallStep DEF new

LEMMA CallsListKeeps == ASSUME Inv, NEW c \in Client, CallsList(c) PROVE Inv'
<1>1. PICK query \in Queries, limited \in BOOLEAN :
        calls' = [calls EXCEPT ![c] =
                    [Idle EXCEPT !.op = "walk", !.query = query, !.there = Found(query),
                                 !.status = IF limited THEN "running" ELSE "failed"]]
  BY DEF CallsList
<1> DEFINE new == [Idle EXCEPT !.op = "walk", !.query = query, !.there = Found(query),
                               !.status = IF limited THEN "running" ELSE "failed"]
<1>2. DOMAIN new = Fields /\ new.op = "walk" /\ new.read = None
  BY DEF Idle, Fields
<1>3. UNCHANGED mocks
  BY DEF CallsList
<1> HIDE DEF new
<1>4. CallOk(new)
  BY <1>2, OtherOk
<1> QED BY <1>1, <1>2, <1>3, <1>4, CallStep DEF new

LEMMA ListPageKeeps == ASSUME Inv, NEW c \in Client, ListPage(c) PROVE Inv'
<1> DEFINE page == Page(calls[c].query, 1, calls[c].item)
           call == calls[c]
           new == [call EXCEPT !.seen = @ \cup page, !.item = @ + 1,
                               !.status = IF page = {} THEN "ok" ELSE "running"]
<1>1. CallOk(call) /\ call.op = "walk" /\ DOMAIN call = Fields /\ UNCHANGED mocks
  BY DEF ListPage, Inv, CallOk
<1>2. calls' = [calls EXCEPT ![c] = new]
  BY DEF ListPage, Inv
<1> HIDE DEF page, call
<1>3. DOMAIN new = Fields /\ new.op = "walk" /\ new.read = call.read
  BY <1>1 DEF Fields
<1> HIDE DEF new
<1>4. CallOk(new)
  BY <1>1, <1>3 DEF CallOk
<1> QED BY <1>1, <1>2, <1>3, <1>4, CallStep

\* An empty batch is done with what it wrote, nothing.
LEMMA AnswersEmptyKeeps == ASSUME Inv, NEW c \in Client, AnswersEmpty(c) PROVE Inv'
<1> DEFINE call == calls[c]
           new == [call EXCEPT !.status = "ok"]
<1>1. CallOk(call) /\ call.body = <<>> /\ call.status = "running" /\ UNCHANGED mocks
  BY DEF AnswersEmpty, Inv
<1>2. calls' = [calls EXCEPT ![c] = new]
  BY DEF AnswersEmpty, Inv
<1>3. /\ DOMAIN new = Fields
      /\ new.op = call.op
      /\ new.body = call.body
      /\ new.item = call.item
      /\ new.read = call.read
      /\ new.wrote = call.wrote
      /\ new.status = "ok"
  BY <1>1 DEF CallOk, Fields
<1> HIDE DEF call, new
<1>4. ASSUME call.op \in {"create", "update"}
      PROVE  Batched(new)
  <2>1. Batched(call) /\ Len(call.body) = 0
    BY <1>1, <1>4 DEF CallOk
  <2>2. 1 <= call.item /\ call.item <= 1 /\ call.item \in Nat
        /\ call.wrote = UpTo(call.item - 1)
    BY <1>1, <2>1 DEF Batched
  <2>3. call.item = 1
    BY <2>2
  <2>4. new.wrote = UpTo(Len(new.body))
    BY <1>3, <2>1, <2>2, <2>3
  <2>5. new.status = "ok" /\ new.status # "running" /\ new.status # "invalid"
        /\ new.status \notin {"not found", "failed"}
    BY <1>3
  <2>6. Len(new.body) \in Nat /\ new.item \in Nat
    BY <1>3, <2>1, <2>2
  <2> QED BY <2>4, <2>5, <2>6 DEF Batched
<1>5. CallOk(new)
  BY <1>1, <1>3, <1>4 DEF CallOk
<1> QED BY <1>1, <1>2, <1>3, <1>5, CallStep

\* What the item at hand of a loop writes.
LEMMA CreateSavesKeeps == ASSUME Inv, NEW c \in Client, CreateSaves(c) PROVE Inv'
<1>1. PICK i \in Id : Write(c, i, Touched(Fresh(i, Body(c))), Next1(calls[c]))
  BY DEF CreateSaves
<1>2. CallOk(calls[c]) /\ DOMAIN calls[c] = Fields
  BY DEF Inv, CallOk
<1>3. CallOk(Next1(calls[c])) /\ Next1(calls[c]).read = None
  BY <1>2, Next1Batched, Next1Fields DEF CreateSaves, Working
<1>4. DOMAIN Touched(Fresh(i, Body(c))) = Columns
  BY DEF Touched, Fresh, Columns
<1> QED BY <1>1, <1>3, <1>4, WriteStep

LEMMA UpdateSavesKeeps == ASSUME Inv, NEW c \in Client, UpdateSaves(c) PROVE Inv'
<1>1. Write(c, Body(c).id, Touched(Merged(calls[c].read, Body(c))), Next1(calls[c]))
      /\ Working(c, "update") /\ calls[c].read # None
  BY DEF UpdateSaves, Saving
<1>2. CallOk(calls[c]) /\ DOMAIN calls[c] = Fields
  BY DEF Inv, CallOk
<1>3. CallOk(Next1(calls[c])) /\ Next1(calls[c]).read = None
  BY <1>1, <1>2, Next1Batched, Next1Fields DEF Working
<1>4. DOMAIN Touched(Merged(calls[c].read, Body(c))) = Columns
  BY <1>1, <1>2 DEF CallOk, Touched, Merged, Columns
<1>5. Body(c).id \in Id
  BY <1>1, KnownId
<1> QED BY <1>1, <1>3, <1>4, <1>5, WriteStep

\* A delete and an import keep no more than the shape of their call.
LEMMA OtherGoesOn ==
  ASSUME NEW call, CallOk(call), call.op \notin {"create", "update"}
  PROVE  /\ CallOk(Next1(call)) /\ Next1(call).read = None
         /\ CallOk(Skipped(call)) /\ Skipped(call).read = None
<1>1. DOMAIN call = Fields
  BY DEF CallOk
<1> QED BY <1>1, Next1Fields, SkippedFields, OtherOk

LEMMA ErasesKeeps == ASSUME Inv, NEW c \in Client, Erases(c) PROVE Inv'
<1>1. Write(c, Body(c), None, Next1(calls[c])) /\ mocks[Body(c)] # None
  BY DEF Erases
<1>2. CallOk(Next1(calls[c])) /\ Next1(calls[c]).read = None
  BY OtherGoesOn DEF Erases, Deleting, Working, Inv
<1> QED BY <1>1, <1>2, WriteStep

LEMMA ImportSavesKeeps == ASSUME Inv, NEW c \in Client, ImportSaves(c) PROVE Inv'
<1>1. PICK i \in Id : Write(c, i, Fresh(i, Body(c)), Next1(calls[c]))
  BY DEF ImportSaves
<1>2. CallOk(Next1(calls[c])) /\ Next1(calls[c]).read = None
  BY OtherGoesOn DEF ImportSaves, Working, Inv
<1>3. DOMAIN Fresh(i, Body(c)) = Columns
  BY DEF Fresh, Columns
<1> QED BY <1>1, <1>2, <1>3, WriteStep

LEMMA ImportSkipsKeeps == ASSUME Inv, NEW c \in Client, ImportSkips(c) PROVE Inv'
<1>1. CallOk(Skipped(calls[c])) /\ Skipped(calls[c]).read = None
  BY OtherGoesOn DEF ImportSkips, Working, Inv
<1>2. calls' = [calls EXCEPT ![c] = Skipped(calls[c])] /\ UNCHANGED mocks
  BY DEF ImportSkips, Inv
<1> QED BY <1>1, <1>2, CallStep

\* What an update reads is the row of its item.
LEMMA UpdateReadsKeeps == ASSUME Inv, NEW c \in Client, UpdateReads(c) PROVE Inv'
<1> DEFINE call == calls[c]
           row == mocks[Body(c).id]
           gone == [call EXCEPT !.status = "not found"]
           loaded == [call EXCEPT !.read = row]
<1>1. /\ CallOk(call) /\ DOMAIN call = Fields /\ UNCHANGED mocks
      /\ call.op = "update" /\ call.status = "running" /\ call.item <= Len(call.body)
      /\ call.read = None
  BY DEF UpdateReads, Reading, Working, Inv, CallOk
<1>2. calls' = [calls EXCEPT ![c] = IF row = None THEN gone ELSE loaded]
  BY DEF UpdateReads, Inv
<1>3. CASE row = None
  <2>1. CallOk(gone)
    BY <1>1, EndsBatched
  <2>2. gone.read = None
    BY <1>1 DEF Fields
  <2>3. calls' = [calls EXCEPT ![c] = gone]
    BY <1>2, <1>3
  <2> HIDE DEF gone, call, row
  <2> QED BY <1>1, <2>1, <2>2, <2>3, CallStep
<1>4. CASE row # None
  <2>1. /\ DOMAIN loaded = Fields
        /\ loaded.op = call.op
        /\ loaded.body = call.body
        /\ loaded.item = call.item
        /\ loaded.read = row
        /\ loaded.wrote = call.wrote
        /\ loaded.status = call.status
    BY <1>1 DEF Fields
  <2>2. DOMAIN row = Columns
    <3>1. Body(c).id \in Id
      BY KnownId DEF UpdateReads, Reading
    <3> QED BY <1>4, <3>1 DEF Inv, Rows
  <2>3. row = mocks[loaded.body[loaded.item].id]
    BY <2>1 DEF Body
  <2>4. calls' = [calls EXCEPT ![c] = loaded]
    BY <1>2, <1>4
  <2> HIDE DEF loaded, call, row
  <2>5. Batched(call) => Batched(loaded)
    BY <2>1 DEF Batched
  <2>6. CallOk(loaded)
    BY <1>1, <2>1, <2>2, <2>5 DEF CallOk
  <2> QED BY <1>1, <2>1, <2>3, <2>4, <2>6, CallStep
<1> QED BY <1>3, <1>4

LEMMA FindsNothingKeeps == ASSUME Inv, NEW c \in Client, FindsNothing(c) PROVE Inv'
<1> DEFINE call == calls[c]
           gone == [call EXCEPT !.status = "not found"]
<1>1. CallOk(call) /\ call.op \in {"delete", "delete all"} /\ UNCHANGED mocks
  BY DEF FindsNothing, Deleting, Working, Inv
<1>2. calls' = [calls EXCEPT ![c] = IF call.op = "delete" THEN gone ELSE Skipped(call)]
  BY DEF FindsNothing, Inv
<1>3. CallOk(gone) /\ gone.op = call.op
  <2>1. call.op \notin {"create", "update"}
    BY <1>1
  <2>2. CallOk(gone)
    BY <1>1, <2>1, EndsBatched
  <2> QED BY <1>1, <2>2 DEF CallOk, Fields
<1>4. CallOk(Skipped(call)) /\ Skipped(call).read = None
  BY <1>1, OtherGoesOn
<1> HIDE DEF gone, call
<1> QED BY <1>1, <1>2, <1>3, <1>4, CallStep

LEMMA StatementFailsKeeps == ASSUME Inv, NEW c \in Client, StatementFails(c) PROVE Inv'
<1> DEFINE call == calls[c]
           failed == [call EXCEPT !.status = "failed"]
<1>1. CallOk(call) /\ DOMAIN call = Fields /\ UNCHANGED mocks
  BY DEF StatementFails, Inv, CallOk
<1>2. calls' = [calls EXCEPT ![c] = IF call.op = "import" THEN Skipped(call) ELSE failed]
  BY DEF StatementFails, Inv
<1>3. CallOk(failed) /\ failed.status = "failed"
  <2>1. call.op \in {"create", "update"}
          => call.status = "running" /\ call.item <= Len(call.body)
    BY DEF StatementFails, Working
  <2>2. CallOk(failed)
    BY <1>1, <2>1, EndsBatched
  <2> QED BY <1>1, <2>2 DEF Fields
<1>4. call.op = "import" => CallOk(Skipped(call)) /\ Skipped(call).read = None
  BY <1>1, OtherGoesOn
<1> HIDE DEF failed, call
<1> QED BY <1>1, <1>2, <1>3, <1>4, CallStep

\* A pull writes a row of its own and tells every call of it.
LEMMA PullSavesKeeps == ASSUME Inv, NEW i \in Id, PullSaves(i) PROVE Inv'
<1>1. PICK body \in Pulled, at \in {clock + 1, -(clock + 1)} :
        /\ mocks' = [mocks EXCEPT ![i] = [Fresh(i, body) EXCEPT !.source = "central",
                                                               !.at = at]]
        /\ calls' = Noticed(None, i, [Fresh(i, body) EXCEPT !.source = "central",
                                                            !.at = at])
  BY DEF PullSaves
<1> DEFINE row == [Fresh(i, body) EXCEPT !.source = "central", !.at = at]
<1>2. DOMAIN row = Columns
  BY DEF Fresh, Columns
<1> HIDE DEF row
<1>3. mocks' = [mocks EXCEPT ![i] = row] /\ calls' = Noticed(None, i, row)
  BY <1>1 DEF row
<1>4. DOMAIN mocks' = Id /\ \A j \in Rows' : DOMAIN mocks'[j] = Columns
  BY <1>2, <1>3 DEF Inv, Rows
<1>5. DOMAIN calls' = Client
  BY <1>3 DEF Noticed
<1>6. ASSUME NEW d \in Client
      PROVE  /\ Alike(calls[d], calls'[d])
             /\ ~calls'[d].changed => ~calls[d].changed /\ ~(Saving(d) /\ Body(d).id = i)
  BY <1>3, NoticedAlike, NoneAssumption
<1>7. \A d \in Client : CallOk(calls'[d])
  BY <1>6, AlikeOk DEF Inv
<1>8. ASSUME NEW d \in Client
      PROVE  UpToDate(d)'
  BY <1>3, <1>6, UpToDateStays
<1> QED BY <1>4, <1>5, <1>7, <1>8 DEF Inv

-----------------------------------------------------------------------------
(* The theorems.                                                            *)

LEMMA InitInv == ASSUME Init PROVE Inv
<1>1. DOMAIN Idle = Fields /\ Idle.op = "none" /\ Idle.read = None
  BY DEF Idle, Fields
<1>2. CallOk(Idle)
  BY <1>1, OtherOk
<1>3. \A c \in Client : calls[c] = Idle
  BY DEF Init
<1>4. \A c \in Client : UpToDate(c)
  BY <1>1, <1>3 DEF UpToDate, Saving
<1> QED BY <1>2, <1>3, <1>4 DEF Init, Inv, Rows

LEMMA NextInv == ASSUME Inv, [Next]_vars PROVE Inv'
<1>1. ASSUME NEW c \in Client,
             \/ CallsCreate(c) \/ CallsUpdate(c) \/ CallsDelete(c) \/ CallsDeleteAll(c)
             \/ CallsImport(c) \/ CallsList(c)
      PROVE  Inv'
  BY <1>1, CallsCreateKeeps, CallsUpdateKeeps, CallsDeleteKeeps, CallsDeleteAllKeeps,
     CallsImportKeeps, CallsListKeeps
<1>2. ASSUME NEW c \in Client,
             \/ AnswersEmpty(c) \/ CreateSaves(c) \/ UpdateReads(c) \/ UpdateSaves(c)
             \/ Erases(c) \/ FindsNothing(c) \/ ImportSaves(c) \/ ImportSkips(c)
             \/ StatementFails(c) \/ ListPage(c)
      PROVE  Inv'
  BY <1>2, AnswersEmptyKeeps, CreateSavesKeeps, UpdateReadsKeeps, UpdateSavesKeeps,
     ErasesKeeps, FindsNothingKeeps, ImportSavesKeeps, ImportSkipsKeeps,
     StatementFailsKeeps, ListPageKeeps
<1>3. ASSUME NEW i \in Id, PullSaves(i)
      PROVE  Inv'
  BY <1>3, PullSavesKeeps
<1>4. CASE UNCHANGED vars
  BY <1>4 DEF vars, Inv, Rows, UpToDate, Saving, Working, Body
<1> QED BY <1>1, <1>2, <1>3, <1>4 DEF Next

\* What Batched says of a call is what is promised of it.
LEMMA BatchedStops == ASSUME Inv PROVE BatchesStopAtTheFailure
<1> SUFFICES ASSUME NEW c \in Client, calls[c].op \in {"create", "update"}
             PROVE  LET call == calls[c] IN
                    /\ call.wrote = [k \in 1 .. Len(call.wrote) |-> k]
                    /\ call.status = "ok" => Len(call.wrote) = Len(call.body)
                    /\ call.status \in {"not found", "failed"}
                         => Len(call.wrote) < Len(call.body)
                    /\ call.status = "invalid" => call.wrote = <<>>
  BY DEF BatchesStopAtTheFailure
<1> DEFINE call == calls[c]
<1>1. Batched(call)
  BY DEF Inv, CallOk
<1> HIDE DEF call
<1>2. \A n \in Nat : Len(UpTo(n)) = n /\ UpTo(n) = [k \in 1 .. n |-> k]
  BY LengthUpTo DEF UpTo
<1>3. CASE call.status = "running"
  <2> DEFINE n == call.item - 1
  <2>1. n \in Nat /\ call.wrote = UpTo(n)
    <3>1. call.item \in Nat /\ 1 <= call.item /\ call.wrote = UpTo(call.item - 1)
      BY <1>1, <1>3 DEF Batched
    <3> QED BY <3>1, OneBelow
  <2> HIDE DEF n
  <2>2. Len(call.wrote) = n /\ call.wrote = [k \in 1 .. n |-> k]
    BY <2>1, <1>2
  <2> QED BY <1>3, <2>2 DEF call
<1>4. CASE call.status = "ok"
  <2>1. Len(call.body) \in Nat /\ call.wrote = UpTo(Len(call.body))
    BY <1>1, <1>4 DEF Batched
  <2>2. Len(call.wrote) = Len(call.body)
        /\ call.wrote = [k \in 1 .. Len(call.wrote) |-> k]
    BY <2>1, <1>2
  <2> QED BY <1>4, <2>2 DEF call
<1>5. CASE call.status \in {"not found", "failed"}
  <2>1. PICK n \in Nat : n < Len(call.body) /\ call.wrote = UpTo(n)
    BY <1>1, <1>5, Zenon DEF Batched, Short
  <2>2. Len(call.wrote) = n /\ call.wrote = [k \in 1 .. n |-> k]
    BY <2>1, <1>2
  <2>3. Len(call.wrote) < Len(call.body)
    BY <2>1, <2>2
  <2> QED BY <1>5, <2>2, <2>3 DEF call
<1>6. CASE call.status = "invalid"
  <2>1. call.wrote = <<>>
    BY <1>1, <1>6 DEF Batched
  <2>2. Len(call.wrote) = 0 /\ call.wrote = [k \in 1 .. 0 |-> k]
    BY <2>1
  <2> QED BY <1>6, <2>1, <2>2 DEF call
<1> QED BY <1>1, <1>3, <1>4, <1>5, <1>6 DEF Batched

\* The only step that adds to what an update at its save has written is that save.
LEMMA OnlySaves ==
  ASSUME Inv, Next, NEW c \in Client, Saving(c), calls'[c].wrote # calls[c].wrote
  PROVE  UpdateSaves(c)
<1>1. ASSUME NEW d \in Client, d # c,
             \/ CallsCreate(d) \/ CallsUpdate(d) \/ CallsDelete(d) \/ CallsDeleteAll(d)
             \/ CallsImport(d)
      PROVE  FALSE
  <2>1. calls'[c] = calls[c]
    BY <1>1 DEF CallsCreate, CallsUpdate, CallsDelete, CallsDeleteAll, CallsImport, Calls,
                Inv
  <2> QED BY <2>1
<1>2. ASSUME NEW d \in Client, d # c,
             \/ CallsList(d) \/ AnswersEmpty(d) \/ UpdateReads(d) \/ FindsNothing(d)
             \/ ImportSkips(d) \/ StatementFails(d) \/ ListPage(d)
      PROVE  FALSE
  <2>1. calls'[c] = calls[c]
    BY <1>2 DEF CallsList, AnswersEmpty, UpdateReads, FindsNothing, ImportSkips,
                StatementFails, ListPage, Inv
  <2> QED BY <2>1
<1>3. ASSUME NEW d \in Client, d # c, NEW i, NEW row, NEW new, Write(d, i, row, new)
      PROVE  FALSE
  <2>1. calls'[c] = Noticed(d, i, row)[c]
    BY <1>3 DEF Write, Noticed
  <2>2. Alike(calls[c], Noticed(d, i, row)[c])
    BY <1>3, NoticedAlike
  <2> QED BY <2>1, <2>2 DEF Alike
<1>4. ASSUME NEW d \in Client, d # c,
             CreateSaves(d) \/ UpdateSaves(d) \/ Erases(d) \/ ImportSaves(d)
      PROVE  FALSE
  BY <1>3, <1>4 DEF CreateSaves, UpdateSaves, Erases, ImportSaves
<1>5. ASSUME NEW i \in Id, PullSaves(i)
      PROVE  FALSE
  <2>1. PICK row : calls' = Noticed(None, i, row)
    BY <1>5 DEF PullSaves
  <2>2. Alike(calls[c], Noticed(None, i, row)[c])
    BY NoticedAlike, NoneAssumption
  <2> QED BY <2>1, <2>2 DEF Alike
<1>6. calls[c].op = "update" /\ calls[c].status = "running" /\ calls[c].read # None
  BY DEF Saving, Working
<1>7. ~ (\/ CallsCreate(c) \/ CallsUpdate(c) \/ CallsDelete(c) \/ CallsDeleteAll(c)
         \/ CallsImport(c) \/ CallsList(c))
  BY <1>6 DEF CallsCreate, CallsUpdate, CallsDelete, CallsDeleteAll, CallsImport, Calls,
              CallsList
<1>8. ~ (\/ CreateSaves(c) \/ UpdateReads(c) \/ Erases(c) \/ FindsNothing(c)
         \/ ImportSaves(c) \/ ImportSkips(c) \/ ListPage(c))
  BY <1>6 DEF CreateSaves, UpdateReads, Reading, Erases, FindsNothing, Deleting,
              ImportSaves, ImportSkips, ListPage, Working
<1>9. DOMAIN calls[c] = Fields
  BY DEF Inv, CallOk
<1>10. ~ AnswersEmpty(c) /\ ~ StatementFails(c)
  <2>1. [calls[c] EXCEPT !.status = "ok"].wrote = calls[c].wrote
        /\ [calls[c] EXCEPT !.status = "failed"].wrote = calls[c].wrote
    BY <1>9 DEF Fields
  <2> QED BY <1>6, <2>1 DEF AnswersEmpty, StatementFails, Inv
<1> QED BY <1>1, <1>2, <1>4, <1>5, <1>7, <1>8, <1>10 DEF Next

\* The save puts the fields of its request over the row that was read.
LEMMA SaveKeepsTheRest ==
  ASSUME Inv, NEW c \in Client, UpdateSaves(c), ~calls[c].changed
  PROVE  LET i == Body(c).id IN
         /\ mocks[i] # None
         /\ Body(c).name = None => mocks'[i].name = mocks[i].name
         /\ Body(c).path = None => mocks'[i].path = mocks[i].path
         /\ Body(c).active = None => mocks'[i].active = mocks[i].active
         /\ mocks'[i].vv[Self] = Get(mocks[i].vv, Self) + 1
<1> DEFINE i == Body(c).id  body == Body(c)  row == mocks[i]
<1>1. Saving(c) /\ i \in Id
  BY KnownId DEF UpdateSaves, Saving
<1>2. row = calls[c].read /\ row # None
  BY <1>1 DEF Inv, UpToDate, Saving
<1>3. DOMAIN row = Columns
  BY <1>1, <1>2 DEF Inv, Rows
<1>4. mocks'[i] = Touched(Merged(row, body))
  BY <1>1, <1>2 DEF UpdateSaves, Write, Inv
<1> HIDE DEF i, body, row
<1> DEFINE merged == Merged(row, body)
<1>5. /\ DOMAIN merged = Columns
      /\ body.name = None => merged.name = row.name
      /\ body.path = None => merged.path = row.path
      /\ body.active = None => merged.active = row.active
      /\ merged.vv = row.vv
  BY <1>3 DEF Merged, Columns
<1> HIDE DEF merged
<1>6. /\ Touched(merged).name = merged.name
      /\ Touched(merged).path = merged.path
      /\ Touched(merged).active = merged.active
      /\ Touched(merged).vv = Increment(merged.vv, Self)
  BY <1>5 DEF Touched, Columns
<1>7. Touched(merged).vv[Self] = Get(row.vv, Self) + 1
  BY <1>5, <1>6 DEF Increment
<1>8. mocks'[i] = Touched(merged)
  BY <1>4 DEF merged
<1>9. /\ row # None
      /\ body.name = None => mocks'[i].name = row.name
      /\ body.path = None => mocks'[i].path = row.path
      /\ body.active = None => mocks'[i].active = row.active
      /\ mocks'[i].vv[Self] = Get(row.vv, Self) + 1
  BY <1>2, <1>5, <1>6, <1>7, <1>8
<1> QED BY <1>9 DEF i, body, row

LEMMA InvHolds == Spec => []Inv
<1> QED BY InitInv, NextInv, PTL DEF Spec

\* A batch that ends in an error has applied the items before the failing one and no
\* other (the loops of batch_create and batch_update in the handlers of the API).
THEOREM BatchesStop == Spec => []BatchesStopAtTheFailure
<1> QED BY InvHolds, BatchedStops, PTL

\* An update changes what its request names, unless another writer came in between
\* (repository.rs, update).
THEOREM UpdatesKeep == Spec => UpdatesKeepTheRest
<1> DEFINE A == \A c \in Client :
       (Saving(c) /\ calls'[c].wrote # calls[c].wrote /\ ~calls[c].changed)
         => LET i == Body(c).id IN
            /\ mocks[i] # None
            /\ Body(c).name = None => mocks'[i].name = mocks[i].name
            /\ Body(c).path = None => mocks'[i].path = mocks[i].path
            /\ Body(c).active = None => mocks'[i].active = mocks[i].active
            /\ mocks'[i].vv[Self] = Get(mocks[i].vv, Self) + 1
<1>1. ASSUME Inv, [Next]_vars
      PROVE  [A]_vars
  <2>1. CASE Next
    <3>1. A
      BY <1>1, <2>1, OnlySaves, SaveKeepsTheRest
    <3> QED BY <3>1
  <2>2. CASE UNCHANGED vars
    BY <2>2
  <2> QED BY <1>1, <2>1, <2>2
<1> HIDE DEF A
<1>2. Inv /\ [Next]_vars => [A]_vars
  BY <1>1
<1>3. Spec => [][A]_vars
  BY <1>2, InvHolds, PTL DEF Spec
<1> QED BY <1>3 DEF UpdatesKeepTheRest, A

-----------------------------------------------------------------------------
(* The ranks of rows on a list.                                             *)

LEMMA Smallest ==
  ASSUME NEW T, T \subseteq Nat, T # {}
  PROVE  \E x \in T : \A y \in T : x <= y
<1>1. PICK x \in T : \A y \in T : <<y, x>> \notin OpToRel(<, Nat)
  BY NatLessThanWellFounded, WFMin
<1>2. \A y \in T : y \in Nat /\ x \in Nat /\ ~(y < x)
  BY <1>1 DEF OpToRel
<1> QED BY <1>2

\* Every write of the table has its own time.
Times ==
  /\ clock \in Nat
  /\ IsFiniteSet(Rows)
  /\ \A i \in Rows : mocks[i].at \in Int /\ -clock <= mocks[i].at /\ mocks[i].at <= clock
  /\ \A i, j \in Rows : mocks[i].at = mocks[j].at => i = j

Newer(i, query) == {j \in Found(query) : mocks[j].at > mocks[i].at}

LEMMA RanksAreNumbers ==
  ASSUME Times, NEW query, NEW i
  PROVE  /\ IsFiniteSet(Newer(i, query)) /\ NewestFirst(i, query) \in Nat
         /\ NewestFirst(i, query) = Cardinality(Newer(i, query))
<1>1. Newer(i, query) \subseteq Rows
  BY DEF Newer, Found
<1>2. IsFiniteSet(Newer(i, query))
  BY <1>1, FS_Subset DEF Times
<1> QED BY <1>2, FS_CardinalityType DEF Newer, NewestFirst

\* A list has no gap: the row of a rank is there when one further back is.
LEMMA RanksHaveNoGap ==
  ASSUME Times, NEW query, NEW k \in Nat, NEW i \in Found(query), NewestFirst(i, query) >= k
  PROVE  \E j \in Found(query) : NewestFirst(j, query) = k
<1> DEFINE Behind == {j \in Found(query) : NewestFirst(j, query) >= k}
           Ranks == {NewestFirst(j, query) : j \in Behind}
<1>1. Ranks \subseteq Nat /\ NewestFirst(i, query) \in Ranks
  BY RanksAreNumbers
<1>2. PICK j \in Behind : \A m \in Behind : NewestFirst(j, query) <= NewestFirst(m, query)
  <2>1. PICK r \in Ranks : \A q \in Ranks : r <= q
    BY <1>1, Smallest
  <2>2. PICK j \in Behind : r = NewestFirst(j, query)
    BY <2>1
  <2>3. \A m \in Behind : NewestFirst(m, query) \in Ranks
    OBVIOUS
  <2> QED BY <2>1, <2>2, <2>3
<1>3. SUFFICES ASSUME NewestFirst(j, query) # k PROVE FALSE
  BY <1>2
<1>4. j \in Found(query) /\ NewestFirst(j, query) \in Nat /\ NewestFirst(j, query) > k
  BY <1>2, <1>3, RanksAreNumbers
<1>5. /\ IsFiniteSet(Newer(j, query)) /\ Newer(j, query) # {}
      /\ Cardinality(Newer(j, query)) = NewestFirst(j, query)
  BY <1>4, RanksAreNumbers, FS_EmptySet
\* The oldest of the rows that are newer comes right before it.
<1> DEFINE Ages == {clock + mocks[m].at : m \in Newer(j, query)}
<1>6. Ages \subseteq Nat /\ Ages # {}
  BY <1>5 DEF Times, Newer, Found
<1>7. PICK m \in Newer(j, query) : \A n \in Newer(j, query) : mocks[m].at <= mocks[n].at
  <2>1. PICK a \in Ages : \A b \in Ages : a <= b
    BY <1>6, Smallest
  <2>2. PICK m \in Newer(j, query) : a = clock + mocks[m].at
    BY <2>1
  <2>3. \A n \in Newer(j, query) :
          clock + mocks[m].at <= clock + mocks[n].at /\ mocks[n].at \in Int
    BY <2>1, <2>2 DEF Times, Newer, Found
  <2>4. clock \in Nat /\ mocks[m].at \in Int
    BY <2>3 DEF Times
  <2> QED BY <2>3, <2>4
<1>8. Newer(m, query) = Newer(j, query) \ {m}
  BY <1>4, <1>7 DEF Newer, Found, Times
<1>9. NewestFirst(m, query) = NewestFirst(j, query) - 1
  BY <1>5, <1>8, RanksAreNumbers, FS_RemoveElement
<1>10. m \in Behind
  BY <1>4, <1>9, <1>7 DEF Newer
<1> QED BY <1>2, <1>4, <1>9, <1>10

-----------------------------------------------------------------------------
(* Walks.                                                                   *)

\* A walk has seen all that is before its offset and has kept its place.
Walking(call) ==
  call.op = "walk" /\ ~call.shifted =>
    /\ call.query # None /\ call.item \in Nat
    /\ call.status \in {"running", "ok", "failed"}
    /\ call.status = "running" =>
         \A i \in call.there \ call.seen :
           i \in Found(call.query) /\ NewestFirst(i, call.query) >= call.item
    /\ call.status = "ok" => call.there \subseteq call.seen

WalkInv == Times /\ \A c \in Client : Walking(calls[c])

LEMMA TimesUnwritten ==
  ASSUME Times, UNCHANGED <<mocks, clock>>
  PROVE  Times'
BY DEF Times, Rows

LEMMA TimesWritten ==
  ASSUME Inv, Times, NEW i, NEW row, mocks' = [mocks EXCEPT ![i] = row],
         clock' = clock + 1, row # None => row.at \in {clock + 1, -(clock + 1)}
  PROVE  Times'
<1>1. Rows' \subseteq Rows \cup {i}
  BY DEF Inv, Rows
<1>2. IsFiniteSet(Rows')
  BY <1>1, FS_AddElement, FS_Subset DEF Times
<1>3. \A j \in Rows' : j # i => j \in Rows /\ mocks'[j] = mocks[j]
  BY DEF Inv, Rows
<1>4. i \in Rows' => mocks'[i].at \in {clock + 1, -(clock + 1)}
  BY DEF Inv, Rows
<1>5. \A j \in Rows' :
        mocks'[j].at \in Int /\ -(clock + 1) <= mocks'[j].at /\ mocks'[j].at <= clock + 1
  BY <1>3, <1>4 DEF Times
<1>6. \A j \in Rows' : i \in Rows' /\ mocks'[i].at = mocks'[j].at => j = i
  BY <1>3, <1>4 DEF Times
<1>7. \A j, m \in Rows' : mocks'[j].at = mocks'[m].at => j = m
  BY <1>3, <1>6 DEF Times
<1> QED BY <1>2, <1>5, <1>7 DEF Times

\* A write of another row that is not taken off the list keeps what comes before a row
\* there.
LEMMA RankStays ==
  ASSUME Inv, Times, Times', NEW i, NEW row, mocks' = [mocks EXCEPT ![i] = row],
         NEW query, query # None, ~Withdraws(i, row, query),
         NEW x \in Found(query), x # i
  PROVE  x \in Found(query)' /\ NewestFirst(x, query)' >= NewestFirst(x, query)
<1>1. \A j \in Id \ {i} : mocks'[j] = mocks[j]
  BY DEF Inv
<1>2. x \in Found(query)'
  BY <1>1 DEF Found, Rows
<1>3. i \in Found(query) => row # None /\ Matches(row, query) /\ ~(row.at < mocks[i].at)
  BY DEF Withdraws
<1>4. i \in Id => mocks'[i] = row
  BY DEF Inv
<1>5. Newer(x, query) \subseteq Newer(x, query)'
  <2> SUFFICES ASSUME NEW j \in Newer(x, query) PROVE j \in Newer(x, query)'
    OBVIOUS
  <2>1. j \in Found(query) /\ j \in Id /\ mocks[j].at > mocks[x].at /\ mocks'[x] = mocks[x]
    BY <1>1 DEF Newer, Found, Rows
  <2>2. CASE j # i
    BY <1>1, <2>1, <2>2 DEF Newer, Found, Rows
  <2>3. CASE j = i
    <3>1. j \in Found(query)'
      BY <1>3, <1>4, <2>1, <2>3 DEF Found, Rows
    <3>2. mocks[j].at \in Int /\ mocks[x].at \in Int /\ mocks'[j].at \in Int
      BY <2>1, <3>1 DEF Times, Found
    <3>3. mocks'[j].at > mocks'[x].at
      BY <1>3, <1>4, <2>1, <2>3, <3>2
    <3> QED BY <3>1, <3>3 DEF Newer
  <2> QED BY <2>2, <2>3
<1>6. IsFiniteSet(Newer(x, query)')
  <2>1. Newer(x, query)' \subseteq Rows'
    BY DEF Newer, Found
  <2> QED BY <2>1, FS_Subset DEF Times
<1>7. /\ Cardinality(Newer(x, query)) <= Cardinality(Newer(x, query)')
      /\ Cardinality(Newer(x, query)') \in Nat
  BY <1>5, <1>6, FS_Subset, FS_CardinalityType
<1>8. NewestFirst(x, query)' = Cardinality(Newer(x, query)')
  BY DEF NewestFirst, Newer
<1>9. NewestFirst(x, query) = Cardinality(Newer(x, query)) /\ NewestFirst(x, query) \in Nat
  BY RanksAreNumbers
<1> QED BY <1>2, <1>7, <1>8, <1>9

\* What a walk is told of a write of row i.
Told(old, new, i, row) ==
  /\ new.op = old.op /\ new.item = old.item /\ new.status = old.status
  /\ new.query = old.query /\ new.seen = old.seen
  /\ new.there = old.there \ {i}
  /\ new.shifted = (old.shifted \/ Withdraws(i, row, old.query))

LEMMA NoticedTold ==
  ASSUME Inv, NEW c, NEW i, NEW row, NEW d \in Client, d # c
  PROVE  Told(calls[d], Noticed(c, i, row)[d], i, row)
<1> DEFINE call == calls[d]
           shifts == Withdraws(i, row, calls[d].query)
           hears == Saving(d) /\ Body(d).id = i
           next == [call EXCEPT !.changed = @ \/ hears, !.there = @ \ {i},
                                !.shifted = @ \/ shifts]
<1>1. Noticed(c, i, row)[d] = next
  BY DEF Noticed
<1>2. DOMAIN call = Fields
  BY DEF Inv, CallOk
<1> HIDE DEF hears, shifts, call
<1>3. /\ next.op = call.op /\ next.item = call.item /\ next.status = call.status
      /\ next.query = call.query /\ next.seen = call.seen
      /\ next.there = call.there \ {i}
  BY <1>2 DEF Fields
<1>4. next.shifted = (call.shifted \/ shifts)
  BY <1>2 DEF Fields
<1> HIDE DEF next
<1> QED BY <1>1, <1>3, <1>4 DEF Told, call, shifts

LEMMA WalkingOn ==
  ASSUME Inv, Times, Times', NEW i, NEW row, mocks' = [mocks EXCEPT ![i] = row],
         NEW old, NEW new, Walking(old), Told(old, new, i, row)
  PROVE  Walking(new)'
<1> SUFFICES ASSUME new.op = "walk", ~new.shifted
             PROVE  /\ new.query # None /\ new.item \in Nat
                    /\ new.status \in {"running", "ok", "failed"}
                    /\ new.status = "running" =>
                         \A x \in new.there \ new.seen :
                           x \in Found(new.query)' /\ NewestFirst(x, new.query)' >= new.item
                    /\ new.status = "ok" => new.there \subseteq new.seen
  BY DEF Walking
<1>1. old.op = "walk" /\ ~old.shifted /\ ~Withdraws(i, row, old.query)
  BY DEF Told
<1>2. /\ old.query # None /\ old.item \in Nat
      /\ old.status \in {"running", "ok", "failed"}
      /\ old.status = "running" =>
           \A x \in old.there \ old.seen :
             x \in Found(old.query) /\ NewestFirst(x, old.query) >= old.item
      /\ old.status = "ok" => old.there \subseteq old.seen
  BY <1>1 DEF Walking
<1>3. ASSUME new.status = "running", NEW x \in new.there \ new.seen
      PROVE  x \in Found(new.query)' /\ NewestFirst(x, new.query)' >= new.item
  <2>1. /\ x \in old.there \ old.seen /\ x # i /\ old.status = "running"
        /\ new.query = old.query /\ new.item = old.item
    BY <1>3 DEF Told
  <2>2. x \in Found(old.query) /\ NewestFirst(x, old.query) >= old.item
    BY <1>2, <2>1
  <2>3. x \in Found(old.query)' /\ NewestFirst(x, old.query)' >= NewestFirst(x, old.query)
    BY <1>1, <1>2, <2>1, <2>2, RankStays
  <2>4. NewestFirst(x, old.query) \in Nat /\ NewestFirst(x, old.query)' \in Nat
    <3>1. Newer(x, old.query)' \subseteq Rows'
      BY DEF Newer, Found
    <3>2. NewestFirst(x, old.query)' = Cardinality(Newer(x, old.query)')
      BY DEF NewestFirst, Newer
    <3> QED BY <3>1, <3>2, RanksAreNumbers, FS_Subset, FS_CardinalityType DEF Times
  <2>5. NewestFirst(x, old.query)' >= old.item
    BY <1>2, <2>2, <2>3, <2>4
  <2> QED BY <2>1, <2>3, <2>5
<1> QED BY <1>2, <1>3 DEF Told

\* A step of client c that leaves the table alone.
LEMMA WalkCallStep ==
  ASSUME Inv, WalkInv, NEW c \in Client, UNCHANGED <<mocks, clock>>,
         NEW new, calls' = [calls EXCEPT ![c] = new], Walking(new)
  PROVE  WalkInv'
<1>1. \A call : Walking(call) => Walking(call)'
  BY DEF Walking, Found, Rows, NewestFirst
<1>2. \A d \in Client : calls'[d] = IF d = c THEN new ELSE calls[d]
  BY DEF Inv
<1>3. \A d \in Client : Walking(calls[d])'
  BY <1>1, <1>2 DEF WalkInv
<1> QED BY <1>3, TimesUnwritten DEF WalkInv

\* A step of client c that writes row i.
LEMMA WalkWriteStep ==
  ASSUME Inv, WalkInv, NEW c \in Client, NEW i, NEW row, NEW new,
         Write(c, i, row, new), row # None => row.at = clock + 1, new.op # "walk"
  PROVE  WalkInv'
<1>1. /\ mocks' = [mocks EXCEPT ![i] = row] /\ clock' = clock + 1
      /\ calls' = [Noticed(c, i, row) EXCEPT ![c] = new]
  BY DEF Write
<1>2. Times'
  BY <1>1, TimesWritten DEF WalkInv
<1>3. /\ calls'[c] = new
      /\ \A d \in Client \ {c} : calls'[d] = Noticed(c, i, row)[d]
  BY <1>1 DEF Noticed
<1>4. ASSUME NEW d \in Client PROVE Walking(calls[d])'
  <2>1. CASE d = c
    BY <1>3, <2>1 DEF Walking
  <2>2. CASE d # c
    <3>1. Told(calls[d], calls'[d], i, row)
      BY <1>3, <2>2, NoticedTold
    <3> QED BY <1>1, <1>2, <3>1, WalkingOn DEF WalkInv
  <2> QED BY <2>1, <2>2
<1> QED BY <1>2, <1>4 DEF WalkInv

\* The calls that are no walks.
LEMMA NoWalk ==
  ASSUME NEW call, DOMAIN call = Fields, call.op # "walk"
  PROVE  /\ Walking(call) /\ Walking(Skipped(call)) /\ Next1(call).op # "walk"
         /\ \A status : Walking([call EXCEPT !.status = status])
         /\ \A row : Walking([call EXCEPT !.read = row])
<1>1. Skipped(call).op # "walk" /\ Next1(call).op # "walk"
  BY SkippedFields, Next1Fields
<1>2. /\ \A status : [call EXCEPT !.status = status].op # "walk"
      /\ \A row : [call EXCEPT !.read = row].op # "walk"
  BY DEF Fields
<1>3. \A k : k.op # "walk" => Walking(k)
  BY DEF Walking
<1> QED BY <1>1, <1>2, <1>3

LEMMA WalkCalls ==
  ASSUME Inv, WalkInv, NEW c \in Client, NEW op, op # "walk", NEW bodies, NEW Valid(_),
         Calls(c, op, bodies, Valid)
  PROVE  WalkInv'
<1>1. PICK body \in bodies :
        calls' = [calls EXCEPT ![c] =
                    Called(op, body, \A k \in 1 .. Len(body) : Valid(body[k]))]
  BY DEF Calls
<1>2. PICK valid \in BOOLEAN : calls' = [calls EXCEPT ![c] = Called(op, body, valid)]
  BY <1>1
<1>3. Walking(Called(op, body, valid))
  BY CalledFields DEF Walking
<1>4. UNCHANGED <<mocks, clock>>
  BY DEF Calls
<1> QED BY <1>2, <1>3, <1>4, WalkCallStep

\* A walk begins with the rows on its list.
LEMMA WalkBegins ==
  ASSUME Inv, WalkInv, NEW c \in Client, CallsList(c)
  PROVE  WalkInv'
<1>1. PICK query \in Queries, limited \in BOOLEAN :
        calls' = [calls EXCEPT ![c] =
                    [Idle EXCEPT !.op = "walk", !.query = query, !.there = Found(query),
                                 !.status = IF limited THEN "running" ELSE "failed"]]
  BY DEF CallsList
<1> DEFINE new == [Idle EXCEPT !.op = "walk", !.query = query, !.there = Found(query),
                               !.status = IF limited THEN "running" ELSE "failed"]
<1>2. /\ new.query = query /\ new.there = Found(query) /\ new.item = 0
      /\ new.status \in {"running", "failed"}
  BY DEF Idle
<1>3. query # None
  BY NoneAssumption
<1> HIDE DEF new
<1>4. \A i : NewestFirst(i, query) >= 0
  BY RanksAreNumbers DEF WalkInv
<1>5. Walking(new)
  BY <1>2, <1>3, <1>4 DEF Walking
<1>6. UNCHANGED <<mocks, clock>>
  BY DEF CallsList
<1> QED BY <1>1, <1>5, <1>6, WalkCallStep DEF new

\* A page shows the row of its rank; when there is none, no row is further back.
LEMMA WalkGoesOn ==
  ASSUME Inv, WalkInv, NEW c \in Client, ListPage(c)
  PROVE  WalkInv'
<1> DEFINE call == calls[c]
           page == Page(call.query, 1, call.item)
           new == [call EXCEPT !.seen = @ \cup page, !.item = @ + 1,
                               !.status = IF page = {} THEN "ok" ELSE "running"]
<1>1. DOMAIN call = Fields /\ call.op = "walk" /\ call.status = "running" /\ Walking(call)
  BY DEF ListPage, Inv, CallOk, WalkInv
<1>2. calls' = [calls EXCEPT ![c] = new] /\ UNCHANGED <<mocks, clock>>
  BY DEF ListPage, Inv
<1> HIDE DEF call, page
<1>3. /\ new.op = call.op /\ new.shifted = call.shifted /\ new.query = call.query
      /\ new.there = call.there /\ new.seen = call.seen \cup page
      /\ new.item = call.item + 1 /\ new.status = IF page = {} THEN "ok" ELSE "running"
  BY <1>1 DEF Fields
<1> HIDE DEF new
<1>4. Walking(new)
  <2> SUFFICES ASSUME ~call.shifted
               PROVE  /\ call.query # None /\ call.item + 1 \in Nat
                      /\ page # {} =>
                           \A i \in call.there \ (call.seen \cup page) :
                             i \in Found(call.query)
                             /\ NewestFirst(i, call.query) >= call.item + 1
                      /\ page = {} => call.there \subseteq call.seen \cup page
    BY <1>3 DEF Walking
  <2>1. /\ call.query # None /\ call.item \in Nat
        /\ \A i \in call.there \ call.seen :
             i \in Found(call.query) /\ NewestFirst(i, call.query) >= call.item
    BY <1>1 DEF Walking
  <2>2. page = {i \in Found(call.query) : NewestFirst(i, call.query) = call.item}
    <3>1. call.item .. call.item + 1 - 1 = {call.item}
      BY <2>1
    <3> QED BY <3>1 DEF page, Page
  <2>3. ASSUME NEW i \in call.there \ (call.seen \cup page)
        PROVE  i \in Found(call.query) /\ NewestFirst(i, call.query) >= call.item + 1
    <3>1. i \in Found(call.query) /\ NewestFirst(i, call.query) >= call.item
          /\ NewestFirst(i, call.query) # call.item
      BY <2>1, <2>2, <2>3
    <3>2. NewestFirst(i, call.query) \in Nat
      BY RanksAreNumbers DEF WalkInv
    <3> QED BY <2>1, <3>1, <3>2
  <2>4. ASSUME page = {}, NEW i \in call.there \ call.seen
        PROVE  FALSE
    <3>1. i \in Found(call.query) /\ NewestFirst(i, call.query) >= call.item
      BY <2>1
    <3>2. PICK j \in Found(call.query) : NewestFirst(j, call.query) = call.item
      BY <2>1, <3>1, RanksHaveNoGap DEF WalkInv
    <3> QED BY <2>2, <2>4, <3>2
  <2> QED BY <2>1, <2>3, <2>4
<1> QED BY <1>2, <1>4, WalkCallStep

LEMMA WalkInit == ASSUME Init PROVE WalkInv
<1>1. Rows = {}
  BY DEF Init, Rows
<1>2. Times
  BY <1>1, FS_EmptySet DEF Init, Times
<1>3. \A c \in Client : Walking(calls[c])
  BY DEF Init, Idle, Walking
<1> QED BY <1>2, <1>3 DEF WalkInv

LEMMA WalkNext == ASSUME Inv, WalkInv, [Next]_vars PROVE WalkInv'
<1>1. ASSUME NEW c \in Client,
             \/ CallsCreate(c) \/ CallsUpdate(c) \/ CallsDelete(c) \/ CallsDeleteAll(c)
             \/ CallsImport(c)
      PROVE  WalkInv'
  <2>1. CASE CallsCreate(c)
    BY <2>1, WalkCalls DEF CallsCreate
  <2>2. CASE CallsUpdate(c)
    BY <2>2, WalkCalls DEF CallsUpdate
  <2>3. CASE CallsDelete(c)
    BY <2>3, WalkCalls DEF CallsDelete
  <2>4. CASE CallsDeleteAll(c)
    BY <2>4, WalkCalls DEF CallsDeleteAll
  <2>5. CASE CallsImport(c)
    BY <2>5, WalkCalls DEF CallsImport
  <2> QED BY <1>1, <2>1, <2>2, <2>3, <2>4, <2>5
<1>2. \A c \in Client : DOMAIN calls[c] = Fields
  BY DEF Inv, CallOk
<1>3. ASSUME NEW c \in Client, AnswersEmpty(c) PROVE WalkInv'
  BY <1>2, <1>3, NoWalk, WalkCallStep DEF AnswersEmpty, Inv
<1>4. ASSUME NEW c \in Client, UpdateReads(c) PROVE WalkInv'
  <2>1. calls[c].op # "walk" /\ UNCHANGED <<mocks, clock>>
    BY <1>4 DEF UpdateReads, Reading, Working
  <2>2. \/ calls' = [calls EXCEPT ![c] = [calls[c] EXCEPT !.status = "not found"]]
        \/ \E row : calls' = [calls EXCEPT ![c] = [calls[c] EXCEPT !.read = row]]
    BY <1>4 DEF UpdateReads, Inv
  <2>3. CASE calls' = [calls EXCEPT ![c] = [calls[c] EXCEPT !.status = "not found"]]
    <3>1. Walking([calls[c] EXCEPT !.status = "not found"])
      BY <1>2, <2>1, NoWalk
    <3> QED BY <2>1, <2>3, <3>1, WalkCallStep
  <2>4. ASSUME NEW row, calls' = [calls EXCEPT ![c] = [calls[c] EXCEPT !.read = row]]
        PROVE  WalkInv'
    <3>1. Walking([calls[c] EXCEPT !.read = row])
      BY <1>2, <2>1, NoWalk
    <3> QED BY <2>1, <2>4, <3>1, WalkCallStep
  <2> QED BY <2>2, <2>3, <2>4
<1>5. ASSUME NEW c \in Client, FindsNothing(c) PROVE WalkInv'
  <2>1. calls[c].op # "walk" /\ UNCHANGED <<mocks, clock>>
    BY <1>5 DEF FindsNothing, Deleting, Working
  <2>2. \/ calls' = [calls EXCEPT ![c] = [calls[c] EXCEPT !.status = "not found"]]
        \/ calls' = [calls EXCEPT ![c] = Skipped(calls[c])]
    BY <1>5 DEF FindsNothing, Inv
  <2>3. CASE calls' = [calls EXCEPT ![c] = [calls[c] EXCEPT !.status = "not found"]]
    <3>1. Walking([calls[c] EXCEPT !.status = "not found"])
      BY <1>2, <2>1, NoWalk
    <3> QED BY <2>1, <2>3, <3>1, WalkCallStep
  <2>4. CASE calls' = [calls EXCEPT ![c] = Skipped(calls[c])]
    BY <1>2, <2>1, <2>4, NoWalk, WalkCallStep
  <2> QED BY <2>2, <2>3, <2>4
<1>6. ASSUME NEW c \in Client, ImportSkips(c) PROVE WalkInv'
  <2>1. calls[c].op # "walk" /\ UNCHANGED <<mocks, clock>>
        /\ calls' = [calls EXCEPT ![c] = Skipped(calls[c])]
    BY <1>6 DEF ImportSkips, Working, Inv
  <2> QED BY <1>2, <2>1, NoWalk, WalkCallStep
<1>7. ASSUME NEW c \in Client, StatementFails(c) PROVE WalkInv'
  <2>1. UNCHANGED <<mocks, clock>>
        /\ calls' = [calls EXCEPT ![c] = IF calls[c].op = "import" THEN Skipped(calls[c])
                                         ELSE [calls[c] EXCEPT !.status = "failed"]]
    BY <1>7 DEF StatementFails, Inv
  <2>2. CASE calls[c].op # "walk"
    BY <1>2, <2>1, <2>2, NoWalk, WalkCallStep
  <2>3. CASE calls[c].op = "walk"
    <3> DEFINE new == [calls[c] EXCEPT !.status = "failed"]
    <3>1. Walking(new)
      <4>1. /\ new.op = calls[c].op /\ new.shifted = calls[c].shifted
            /\ new.query = calls[c].query /\ new.item = calls[c].item
            /\ new.status = "failed"
        BY <1>2 DEF Fields
      <4> QED BY <4>1 DEF Walking, WalkInv
    <3>2. calls' = [calls EXCEPT ![c] = new]
      BY <2>1, <2>3
    <3> HIDE DEF new
    <3> QED BY <2>1, <3>1, <3>2, WalkCallStep
  <2> QED BY <2>2, <2>3
<1>8. ASSUME NEW c \in Client, CreateSaves(c) PROVE WalkInv'
  <2>1. PICK i \in Id : Write(c, i, Touched(Fresh(i, Body(c))), Next1(calls[c]))
    BY <1>8 DEF CreateSaves
  <2>2. Touched(Fresh(i, Body(c))).at = clock + 1
    BY DEF Touched, Fresh
  <2>3. Next1(calls[c]).op # "walk"
    BY <1>2, <1>8, NoWalk DEF CreateSaves, Working
  <2> QED BY <2>1, <2>2, <2>3, WalkWriteStep
<1>9. ASSUME NEW c \in Client, UpdateSaves(c) PROVE WalkInv'
  <2>1. DOMAIN calls[c].read = Columns
    BY <1>9 DEF UpdateSaves, Saving, Inv, CallOk
  <2>2. Touched(Merged(calls[c].read, Body(c))).at = clock + 1
    BY <2>1 DEF Touched, Merged, Columns
  <2>3. Next1(calls[c]).op # "walk"
    BY <1>2, <1>9, NoWalk DEF UpdateSaves, Saving, Working
  <2> QED BY <1>9, <2>2, <2>3, WalkWriteStep DEF UpdateSaves
<1>10. ASSUME NEW c \in Client, Erases(c) PROVE WalkInv'
  <2>1. Next1(calls[c]).op # "walk"
    BY <1>2, <1>10, NoWalk DEF Erases, Deleting, Working
  <2> QED BY <1>10, <2>1, WalkWriteStep DEF Erases
<1>11. ASSUME NEW c \in Client, ImportSaves(c) PROVE WalkInv'
  <2>1. PICK i \in Id : Write(c, i, Fresh(i, Body(c)), Next1(calls[c]))
    BY <1>11 DEF ImportSaves
  <2>2. Fresh(i, Body(c)).at = clock + 1
    BY DEF Fresh
  <2>3. Next1(calls[c]).op # "walk"
    BY <1>2, <1>11, NoWalk DEF ImportSaves, Working
  <2> QED BY <2>1, <2>2, <2>3, WalkWriteStep
<1>12. ASSUME NEW i \in Id, PullSaves(i) PROVE WalkInv'
  <2>1. PICK body \in Pulled, at \in {clock + 1, -(clock + 1)} :
          /\ mocks' = [mocks EXCEPT ![i] = [Fresh(i, body) EXCEPT !.source = "central",
                                                                 !.at = at]]
          /\ calls' = Noticed(None, i, [Fresh(i, body) EXCEPT !.source = "central",
                                                              !.at = at])
    BY <1>12 DEF PullSaves
  <2> DEFINE row == [Fresh(i, body) EXCEPT !.source = "central", !.at = at]
  <2>2. row.at = at
    BY DEF Fresh
  <2> HIDE DEF row
  <2>3. /\ mocks' = [mocks EXCEPT ![i] = row] /\ calls' = Noticed(None, i, row)
        /\ clock' = clock + 1
    BY <1>12, <2>1 DEF row, PullSaves
  <2>4. Times'
    BY <2>2, <2>3, TimesWritten DEF WalkInv
  <2>5. ASSUME NEW d \in Client PROVE Walking(calls[d])'
    <3>1. Told(calls[d], calls'[d], i, row)
      BY <2>3, NoticedTold, NoneAssumption
    <3> QED BY <2>3, <2>4, <3>1, WalkingOn DEF WalkInv
  <2> QED BY <2>4, <2>5 DEF WalkInv
<1>13. CASE UNCHANGED vars
  BY <1>13, TimesUnwritten DEF vars, WalkInv, Walking, Found, Rows, NewestFirst
<1> QED
  BY <1>1, <1>3, <1>4, <1>5, <1>6, <1>7, <1>8, <1>9, <1>10, <1>11, <1>12, <1>13, WalkBegins,
     WalkGoesOn DEF Next

\* A walk that ended misses no row that stayed where it was, however many clients and
\* pulls write the table between its pages (find_all, ORDER BY updated_at DESC).
THEOREM WalksAreWhole == Spec => []WalksMissNoRow
<1>1. WalkInv => WalksMissNoRow
  BY DEF WalkInv, Walking, WalksMissNoRow
<1> QED BY <1>1, WalkInit, WalkNext, InvHolds, PTL DEF Spec
=============================================================================
