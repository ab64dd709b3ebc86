------------------------ MODULE UserDimensionProofs -------------------------
(***************************************************************************)
(* What is proved of UserDimension, for any users, requests, trackers,     *)
(* salts, payloads and bounds: its types, that a table a request may query *)
(* has been migrated to the last row, that keys are stable and distinct,   *)
(* and that a batch lands.                                                 *)
(***************************************************************************)
EXTENDS UserDimension, FiniteSetTheorems, TLAPS

\* A backfill only updates rows that exist; columns come with a table, and a
\* migration that is past its first statement has found one.
Shape ==
  /\ TypeOK
  /\ \A k \in Tasks : \A u \in todo[k] : rows[u] # None
  /\ "table" \notin columns => columns = {}
  /\ \A k \in Tasks : step[k] \in {"column", "select", "update", "index"} => "table" \in columns

KeysInv ==
  /\ \A u \in Users : rows[u] # None => rows[u].key <= lastKey
  /\ \A u, v \in Users : u # v /\ rows[u] # None /\ rows[v] # None => rows[u].key # rows[v].key

Shown == \A u \in Users : rows[u] # None => rows[u].uid = salt
Done  == "profile" \in columns /\ (salt # None => {"uid", "index"} \subseteq columns /\ Shown)
MigrationInv ==
  /\ \A k \in Tasks :
       /\ step[k] \in {"column", "select", "update", "index"} => salt # None /\ "profile" \in columns
       /\ step[k] \in {"select", "update", "index"} => "uid" \in columns
       /\ step[k] = "update" => Stale \subseteq todo[k]
       /\ step[k] = "index" => Stale = {}
  /\ ensured => Done
  /\ \A r \in Requests : step[r] = "query" => Done

InBatch(w) == step[w] \in {"write", "resolve"}
StillSeen(old, row) ==
  IF old = None THEN row = None
  ELSE /\ row # None /\ row.key = old.key /\ row.name = old.name /\ row.team = old.team
       /\ row.hash = old.hash /\ row.uid \in {old.uid, salt}
OneBatch == \A v, w \in Writers : InBatch(v) /\ InBatch(w) => v = w
BatchCurrent ==
  \A w \in Writers : step[w] = "write" => \A u \in Batch(w) : StillSeen(seen[w][u], rows[u])
BatchInv == ~raced => OneBatch /\ BatchCurrent

-----------------------------------------------------------------------------
(* Lemmas on the operators. *)

LEMMA FreshKeys ==
  ASSUME lastKey \in Nat, NEW us \in SUBSET Users
  PROVE  /\ Cardinality(us) \in Nat
         /\ \A keys \in Fresh(us) :
              /\ \A u \in us : keys[u] \in Nat /\ keys[u] > lastKey
                               /\ keys[u] <= lastKey + Cardinality(us)
              /\ \A u, v \in us : u # v => keys[u] # keys[v]
<1>1. Cardinality(us) \in Nat
  BY UsersAssumption, FS_Subset, FS_CardinalityType
<1>2. ASSUME NEW keys \in Fresh(us), NEW u \in us
      PROVE  keys[u] \in (lastKey + 1)..(lastKey + Cardinality(us))
  BY DEF Fresh
<1>3. \A n \in Nat : \A k \in (lastKey + 1)..(lastKey + n) :
        k \in Nat /\ k > lastKey /\ k <= lastKey + n
  OBVIOUS
<1>4. \A keys \in Fresh(us), u, v \in us : u # v => keys[u] # keys[v]
  BY DEF Fresh
<1> QED
  BY <1>1, <1>2, <1>3, <1>4

\* The row an upsert leaves of a user of its batch.
LEMMA UpsertedRow ==
  ASSUME TypeOK, NEW w \in Writers, NEW u \in Batch(w),
         NEW keys, rows[u] = None => keys[u] \in Nat
  PROVE  LET row == Upserted(w, u, keys)
             old == rows[u]
             p == batch[w][u]
         IN /\ row \in Rows /\ row # None
            /\ old # None => row.key = old.key
            /\ old = None => row.key = keys[u]
            /\ row.name = p.name /\ row.hash = p.profile
            /\ p.team # None => row.team = p.team
            /\ u \notin Missing(w) => row.team = Team(p, seen[w][u])
            /\ salt # None => row.uid = salt
<1>1. u \in Users /\ batch[w][u] \in Payloads /\ rows[u] \in Rows \cup {None}
      /\ seen[w][u] \in Rows \cup {None} /\ salt \in Salts
  BY DEF Batch, TypeOK
<1>2. u \notin Missing(w) => seen[w][u] \in Rows
  BY <1>1 DEF Missing
<1>3. u \notin Missing(w) => Team(batch[w][u], seen[w][u]) \in {p.team : p \in Payloads} \cup {None}
  BY <1>1, <1>2 DEF Team, Rows
<1>4. (IF u \in Missing(w) THEN batch[w][u].team ELSE Team(batch[w][u], seen[w][u]))
        \in {p.team : p \in Payloads} \cup {None}
  BY <1>1, <1>3
<1>5. Key(rows[u], keys[u]) \in Nat
  BY <1>1 DEF Key, Rows
<1>6. (IF salt # None THEN salt ELSE IF rows[u] = None THEN None ELSE rows[u].uid) \in Salts \cup {None}
  BY <1>1 DEF Rows
<1>7. Upserted(w, u, keys) \in Rows
  BY <1>1, <1>4, <1>5, <1>6 DEF Upserted, Rows
<1>8. Upserted(w, u, keys) # None
  BY <1>7, NoneAssumption
<1> QED
  BY <1>7, <1>8 DEF Upserted, Key, Team

LEMMA WrittenUsers ==
  ASSUME NEW w \in Writers
  PROVE  /\ Batch(w) \subseteq Users
         /\ Dirty(w) \cup Missing(w) \subseteq Batch(w)
         /\ \A u \in Batch(w) \ (Dirty(w) \cup Missing(w)) :
              seen[w][u] # None /\ ~Disagrees(batch[w][u], seen[w][u])
         /\ \A u \in Missing(w) : seen[w][u] = None
         /\ \A u \in Batch(w) \ Missing(w) : seen[w][u] # None
BY DEF Batch, Dirty, Missing

\* The write of a batch, as the other proofs use it.
LEMMA WriteEffect ==
  ASSUME TypeOK, NEW w \in Writers, Write(w)
  PROVE  /\ lastKey' \in Nat /\ lastKey' >= lastKey
         /\ \A u \in Users :
              \/ /\ rows'[u] = rows[u]
                 /\ u \in Batch(w) => seen[w][u] # None /\ ~Disagrees(batch[w][u], seen[w][u])
              \/ /\ u \in Batch(w) /\ rows'[u] \in Rows /\ rows'[u] # None
                 /\ rows[u] # None => rows'[u].key = rows[u].key
                 /\ rows[u] = None => rows'[u].key > lastKey /\ rows'[u].key <= lastKey'
                 /\ rows'[u].name = batch[w][u].name /\ rows'[u].hash = batch[w][u].profile
                 /\ batch[w][u].team # None => rows'[u].team = batch[w][u].team
                 /\ seen[w][u] # None => rows'[u].team = Team(batch[w][u], seen[w][u])
                 /\ salt # None => rows'[u].uid = salt
         /\ \A u, v \in Users :
              u # v /\ rows[u] = None /\ rows[v] = None /\ rows'[u] # None /\ rows'[v] # None
                => rows'[u].key # rows'[v].key
         /\ rows' \in [Users -> Rows \cup {None}]
<1> DEFINE us == Dirty(w) \cup Missing(w)
<1>1. us \subseteq Users /\ us \subseteq Batch(w)
  BY WrittenUsers
<1>2. PICK keys \in Fresh(us) : rows' = [u \in Users |-> IF u \in us THEN Upserted(w, u, keys)
                                                                  ELSE rows[u]]
  BY DEF Write
<1>3. lastKey' = lastKey + Cardinality(us)
  BY DEF Write
<1>4. lastKey \in Nat /\ rows \in [Users -> Rows \cup {None}]
  BY DEF TypeOK
<1> HIDE DEF us
<1>5. /\ Cardinality(us) \in Nat
      /\ \A u \in us : keys[u] \in Nat /\ keys[u] > lastKey /\ keys[u] <= lastKey'
      /\ \A u, v \in us : u # v => keys[u] # keys[v]
  BY <1>1, <1>3, <1>4, FreshKeys
<1>6. lastKey' \in Nat /\ lastKey' >= lastKey
  BY <1>3, <1>4, <1>5
<1>7. ASSUME NEW u \in us
      PROVE  /\ u \in Batch(w) /\ rows'[u] \in Rows /\ rows'[u] # None
             /\ rows[u] # None => rows'[u].key = rows[u].key
             /\ rows[u] = None => rows'[u].key = keys[u]
             /\ rows'[u].name = batch[w][u].name /\ rows'[u].hash = batch[w][u].profile
             /\ batch[w][u].team # None => rows'[u].team = batch[w][u].team
             /\ seen[w][u] # None => rows'[u].team = Team(batch[w][u], seen[w][u])
             /\ salt # None => rows'[u].uid = salt
  <2>1. rows'[u] = Upserted(w, u, keys) /\ u \in Batch(w)
    BY <1>1, <1>2
  <2>2. seen[w][u] # None => u \notin Missing(w)
    BY DEF Missing
  <2> QED
    BY <1>5, <2>1, <2>2, UpsertedRow
<1>8. ASSUME NEW u \in Users \ us
      PROVE  /\ rows'[u] = rows[u]
             /\ u \in Batch(w) => seen[w][u] # None /\ ~Disagrees(batch[w][u], seen[w][u])
  BY <1>2, WrittenUsers DEF us
<1>9. ASSUME NEW u \in Users, rows[u] = None, rows'[u] # None
      PROVE  u \in us /\ rows'[u].key = keys[u]
  BY <1>7, <1>8, <1>9
<1>10. ASSUME NEW u \in Users, NEW v \in Users, u # v, rows[u] = None, rows[v] = None,
              rows'[u] # None, rows'[v] # None
       PROVE  rows'[u].key # rows'[v].key
  BY <1>5, <1>9, <1>10
<1>11. rows' \in [Users -> Rows \cup {None}]
  <2>1. \A u \in Users : rows'[u] \in Rows \cup {None}
    BY <1>4, <1>7, <1>8
  <2> QED
    BY <1>2, <2>1
<1> QED
  BY <1>5, <1>6, <1>7, <1>8, <1>10, <1>11

\* One row of a backfill: only its public id changes.
LEMMA UpdateEffect ==
  ASSUME Shape, NEW k \in Tasks, UpdateRow(k)
  PROVE  \E u \in todo[k] :
           /\ u \in Users /\ rows[u] \in Rows /\ rows'[u] \in Rows /\ rows'[u] # None
           /\ rows'[u].uid = salt /\ rows'[u].key = rows[u].key /\ rows'[u].name = rows[u].name
           /\ rows'[u].team = rows[u].team /\ rows'[u].hash = rows[u].hash
           /\ \A v \in Users : v # u => rows'[v] = rows[v]
           /\ rows' \in [Users -> Rows \cup {None}]
           /\ todo' = [todo EXCEPT ![k] = @ \ {u}]
           /\ step' = [step EXCEPT ![k] = IF todo[k] = {u} THEN "index" ELSE "update"]
<1>1. PICK u \in todo[k] :
        /\ rows' = [rows EXCEPT ![u].uid = salt]
        /\ todo' = [todo EXCEPT ![k] = @ \ {u}]
        /\ step' = [step EXCEPT ![k] = IF todo[k] = {u} THEN "index" ELSE "update"]
  BY DEF UpdateRow, Goto
<1>2. u \in Users /\ rows[u] # None /\ rows \in [Users -> Rows \cup {None}] /\ salt \in Salts
  BY DEF Shape, TypeOK
<1>3. rows[u] \in Rows
  BY <1>2
<1> DEFINE new == [rows[u] EXCEPT !.uid = salt]
<1>4. /\ new \in Rows /\ new.uid = salt /\ new.key = rows[u].key /\ new.name = rows[u].name
      /\ new.team = rows[u].team /\ new.hash = rows[u].hash
  BY <1>2, <1>3 DEF Rows
<1>5. rows' = [rows EXCEPT ![u] = new]
  BY <1>1
<1> HIDE DEF new
<1>6. new # None
  BY <1>4, NoneAssumption
<1>7. rows'[u] = new /\ \A v \in Users : v # u => rows'[v] = rows[v]
  BY <1>2, <1>5
<1>8. rows' \in [Users -> Rows \cup {None}]
  BY <1>2, <1>4, <1>5
<1> QED
  BY <1>1, <1>2, <1>3, <1>4, <1>6, <1>7, <1>8

-----------------------------------------------------------------------------
(* Types. *)

LEMMA InitShape == Init => Shape
<1> SUFFICES ASSUME Init PROVE Shape
  OBVIOUS
<1>1. rows \in [Users -> Rows \cup {None}] /\ lastKey \in Nat
      /\ columns \in {{}, {"table"}, {"table", "profile", "uid"}}
  <2>1. CASE columns = {} /\ rows = NoBatch /\ lastKey = 0
    BY <2>1 DEF NoBatch
  <2>2. ASSUME NEW u \in Users, NEW p \in Payloads,
               rows = [NoBatch EXCEPT ![u] = [key |-> 1, name |-> p.name, team |-> p.team,
                                              hash |-> None, uid |-> None]]
        PROVE  rows \in [Users -> Rows \cup {None}]
    <3>1. [key |-> 1, name |-> p.name, team |-> p.team, hash |-> None, uid |-> None] \in Rows
      BY DEF Rows
    <3> QED
      BY <2>2, <3>1 DEF NoBatch
  <2> QED
    BY <2>1, <2>2 DEF Init
<1>2. step \in [Tasks -> Migration \cup {"idle", "queue", "query", "boot", "ready", "write", "resolve"}]
      /\ \A k \in Tasks : step[k] \in {"idle", "boot"}
  BY DEF Init, Initially
<1>3. /\ todo = [k \in Tasks |-> {}]
      /\ batch = [w \in Writers |-> NoBatch] /\ seen = [w \in Writers |-> NoBatch]
      /\ NoBatch \in [Users -> Payloads \cup {None}] /\ NoBatch \in [Users -> Rows \cup {None}]
  BY DEF Init, NoBatch
<1>4. /\ todo \in [Tasks -> SUBSET Users] /\ \A k \in Tasks : todo[k] = {}
      /\ batch \in [Writers -> [Users -> Payloads \cup {None}]]
      /\ seen \in [Writers -> [Users -> Rows \cup {None}]]
  BY <1>3
<1>5. ended \in BOOLEAN /\ ensured \in BOOLEAN /\ raced \in BOOLEAN /\ salt \in Salts /\ lock = None
  BY DEF Init
<1>6. faults = 0 /\ restarts = 0 /\ batches = 0
  BY DEF Init
<1>7. faults \in 0..MaxFaults /\ restarts \in 0..MaxRestarts /\ batches \in 0..MaxBatches
  BY <1>6, BoundsAssumption
<1> QED
  BY <1>1, <1>2, <1>4, <1>5, <1>7 DEF Shape, TypeOK

\* Giving up, wherever it is, leaves no trace of the task in memory.
LEMMA ForgetShape ==
  ASSUME Shape, NEW k \in Tasks, Forget(k), UNCHANGED <<columns, rows>>
  PROVE  /\ step' \in [Tasks -> Migration \cup {"idle", "queue", "query", "boot",
                                               "ready", "write", "resolve"}]
         /\ todo' \in [Tasks -> SUBSET Users]
         /\ \A j \in Tasks : todo'[j] # {} <=> step'[j] = "update"
         /\ \A j \in Tasks : \A u \in todo'[j] : rows'[u] # None
         /\ \A j \in Tasks : step'[j] \in {"column", "select", "update", "index"} => "table" \in columns'
         /\ lock' \in Requests \cup {None} /\ (lock' # None => step'[lock'] \in Migration)
BY DEF Forget, Goto, Initially, Shape, TypeOK, Tasks

LEMMA StepShape == Shape /\ [Next]_vars => Shape'
<1> SUFFICES ASSUME Shape, [Next]_vars
             PROVE  Shape'
  OBVIOUS
<1> USE DEF tableVars, batchVars, boundVars
<1>1. ASSUME NEW r \in Requests, Arrive(r) \/ Lock(r) \/ Query(r)
      PROVE  Shape'
  <2>1. UNCHANGED <<tableVars, salt, ensured, todo, batchVars, boundVars>>
    BY <1>1 DEF Arrive, Lock, Query
  <2>2. CASE Arrive(r)
    BY <2>1, <2>2 DEF Arrive, Goto, Shape, TypeOK, Tasks
  <2>3. CASE Lock(r)
    <3>1. CASE Goto(r, "query") /\ lock' = None
      BY <2>1, <2>3, <3>1 DEF Lock, Goto, Shape, TypeOK, Tasks
    <3>2. CASE Goto(r, "profile") /\ lock' = r
      BY <2>1, <2>3, <3>2 DEF Lock, Goto, Shape, TypeOK, Migration, Tasks
    <3> QED
      BY <2>3, <3>1, <3>2 DEF Lock
  <2>4. CASE Query(r)
    BY <2>1, <2>4 DEF Query, Goto, Shape, TypeOK, Migration, Tasks
  <2> QED
    BY <1>1, <2>2, <2>3, <2>4
<1>2. ASSUME NEW k \in Tasks, AddProfile(k) \/ AddColumn(k) \/ AddIndex(k)
      PROVE  Shape'
  <2>1. /\ step[k] \in {"profile", "column", "index"}
        /\ UNCHANGED <<rows, lastKey, ended, salt, todo, batchVars, boundVars>>
        /\ "table" \in columns
    BY <1>2 DEF AddProfile, AddColumn, AddIndex, Shape
  <2>2. columns' \subseteq {"table", "profile", "uid", "index"}
        /\ "table" \in columns'
    BY <1>2, <2>1 DEF AddProfile, AddColumn, AddIndex, Shape, TypeOK
  <2>3. \/ \E s \in {"column", "select"} : Goto(k, s) /\ UNCHANGED <<ensured, lock>>
        \/ k \in Requests /\ Goto(k, "query") /\ ensured' = TRUE /\ lock' = None
        \/ k \notin Requests /\ Goto(k, "ready") /\ UNCHANGED <<ensured, lock>>
    BY <1>2 DEF AddProfile, AddColumn, AddIndex, Migrated
  <2> QED
    BY <2>1, <2>2, <2>3 DEF Goto, Shape, TypeOK, Migration, Tasks
<1>3. ASSUME NEW k \in Tasks, SelectRows(k)
      PROVE  Shape'
  <2>1. Stale \subseteq Users /\ \A u \in Stale : rows[u] # None
    BY DEF Stale
  <2> HIDE DEF Stale
  <2> QED
    BY <1>3, <2>1 DEF SelectRows, Goto, Shape, TypeOK, Migration, Tasks
<1>4. ASSUME NEW k \in Tasks, UpdateRow(k)
      PROVE  Shape'
  <2>1. PICK u \in todo[k] :
           /\ u \in Users /\ rows'[u] # None
           /\ \A v \in Users : v # u => rows'[v] = rows[v]
           /\ rows' \in [Users -> Rows \cup {None}]
           /\ todo' = [todo EXCEPT ![k] = @ \ {u}]
           /\ step' = [step EXCEPT ![k] = IF todo[k] = {u} THEN "index" ELSE "update"]
    BY <1>4, UpdateEffect
  <2>2. step[k] = "update"
        /\ UNCHANGED <<columns, lastKey, ended, salt, ensured, lock, batchVars, boundVars>>
    BY <1>4 DEF UpdateRow
  <2>3. todo' \in [Tasks -> SUBSET Users]
        /\ \A j \in Tasks : todo'[j] # {} <=> step'[j] = "update"
    BY <2>1 DEF Shape, TypeOK
  <2>4. \A j \in Tasks : \A v \in todo'[j] : rows'[v] # None
    BY <2>1 DEF Shape, TypeOK
  <2> QED
    BY <2>1, <2>2, <2>3, <2>4 DEF Shape, TypeOK, Migration
<1>5. ASSUME NEW k \in Tasks, Abandon(k)
      PROVE  Shape'
  <2>1. /\ Forget(k) /\ UNCHANGED <<tableVars, salt, ensured, batchVars, restarts>>
        /\ faults' \in 0..MaxFaults
    BY <1>5, BoundsAssumption DEF Abandon, Shape, TypeOK
  <2> QED
    BY <2>1, ForgetShape DEF Shape, TypeOK
<1>6. ASSUME NEW k \in Tasks, NoTable(k)
      PROVE  Shape'
  <2>1. Forget(k) /\ UNCHANGED <<tableVars, salt, ensured, batchVars, boundVars>>
    BY <1>6 DEF NoTable
  <2> QED
    BY <2>1, ForgetShape DEF Shape, TypeOK
<1>7. ASSUME NEW w \in Writers, Boot(w)
      PROVE  Shape'
  <2>1. /\ step[w] = "boot"
        /\ step' = [step EXCEPT ![w] = "ready"] \/ step' = [step EXCEPT ![w] = "profile"]
        /\ columns' = columns \/ columns' = {"table", "profile", "uid"}
        /\ UNCHANGED <<rows, lastKey, ended, salt, ensured, lock, todo, batchVars, boundVars>>
    BY <1>7 DEF Boot, Goto, Shape
  <2>2. columns' \in SUBSET {"table", "profile", "uid", "index"}
    BY <2>1 DEF Shape, TypeOK
  <2> QED
    BY <2>1, <2>2, TasksAssumption DEF Shape, TypeOK, Migration, Tasks
<1>8. ASSUME NEW w \in Writers, Begin(w)
      PROVE  Shape'
  <2>1. PICK b : /\ b \in [Users -> Payloads \cup {None}]
                 /\ batch' = [batch EXCEPT ![w] = b]
    <3>1. PICK us \in (SUBSET Users) \ {{}} :
            \E b \in [us -> Payloads] :
              batch' = [batch EXCEPT ![w] = [u \in Users |-> IF u \in us THEN b[u] ELSE None]]
      BY <1>8 DEF Begin
    <3>2. PICK b \in [us -> Payloads] :
            batch' = [batch EXCEPT ![w] = [u \in Users |-> IF u \in us THEN b[u] ELSE None]]
      BY <3>1
    <3>3. [u \in Users |-> IF u \in us THEN b[u] ELSE None]
            \in [Users -> Payloads \cup {None}]
      BY <3>1
    <3> QED
      BY <3>2, <3>3
  <2>2. [u \in Users |-> IF batch'[w][u] = None THEN None ELSE rows[u]]
          \in [Users -> Rows \cup {None}]
    BY DEF Shape, TypeOK
  <2>3. seen' \in [Writers -> [Users -> Rows \cup {None}]]
        /\ batch' \in [Writers -> [Users -> Payloads \cup {None}]]
    BY <1>8, <2>1, <2>2 DEF Begin, Shape, TypeOK
  <2>4. /\ step[w] = "ready" /\ step' = [step EXCEPT ![w] = "write"]
        /\ batches' \in 0..MaxBatches
        /\ UNCHANGED <<tableVars, salt, ensured, lock, todo, boundVars>>
    BY <1>8, BoundsAssumption DEF Begin, Goto, Shape, TypeOK
  <2>5. raced' \in BOOLEAN
    BY <1>8 DEF Begin, Shape, TypeOK
  <2> QED
    BY <2>3, <2>4, <2>5, TasksAssumption DEF Shape, TypeOK, Migration, Tasks
<1>9. ASSUME NEW w \in Writers, Write(w)
      PROVE  Shape'
  <2>1. /\ lastKey' \in Nat /\ rows' \in [Users -> Rows \cup {None}]
        /\ \A u \in Users : rows[u] # None => rows'[u] # None
    BY <1>9, WriteEffect DEF Shape
  <2>2. /\ step[w] = "write" /\ EndBatch(w)
        /\ step' = [step EXCEPT ![w] = IF Missing(w) = {} THEN "ready" ELSE "resolve"]
        /\ UNCHANGED <<columns, ended, salt, ensured, lock, todo, batches, raced, boundVars>>
    BY <1>9 DEF Write, Goto
  <2>3. /\ batch' \in [Writers -> [Users -> Payloads \cup {None}]]
        /\ seen' \in [Writers -> [Users -> Rows \cup {None}]]
    BY <2>2 DEF EndBatch, NoBatch, Shape, TypeOK
  <2>4. /\ step' \in [Tasks -> Migration \cup {"idle", "queue", "query", "boot",
                                               "ready", "write", "resolve"}]
        /\ \A j \in Tasks : todo'[j] # {} <=> step'[j] = "update"
        /\ \A j \in Tasks : step'[j] \in {"column", "select", "update", "index"} => "table" \in columns'
        /\ lock' # None => step'[lock'] \in Migration
    BY <2>2, TasksAssumption DEF Shape, TypeOK, Migration, Tasks
  <2>5. \A j \in Tasks : \A u \in todo'[j] : rows'[u] # None
    BY <2>1, <2>2 DEF Shape, TypeOK
  <2> QED
    BY <2>1, <2>2, <2>3, <2>4, <2>5 DEF Shape, TypeOK
<1>10. ASSUME NEW w \in Writers, Resolve(w) \/ FailBatch(w)
       PROVE  Shape'
  <2>1. /\ step[w] \in {"write", "resolve"} /\ step' = [step EXCEPT ![w] = "ready"]
        /\ UNCHANGED <<tableVars, salt, ensured, lock, todo, batches, raced, restarts>>
        /\ faults' \in 0..MaxFaults
    BY <1>10, BoundsAssumption DEF Resolve, FailBatch, Goto, Shape, TypeOK
  <2>2. /\ batch' \in [Writers -> [Users -> Payloads \cup {None}]]
        /\ seen' \in [Writers -> [Users -> Rows \cup {None}]]
    <3>1. CASE UNCHANGED <<batch, seen>>
      BY <3>1 DEF Shape, TypeOK
    <3>2. CASE EndBatch(w)
      BY <3>2 DEF EndBatch, NoBatch, Shape, TypeOK
    <3> QED
      BY <1>10, <3>1, <3>2 DEF Resolve, FailBatch
  <2> QED
    BY <2>1, <2>2, TasksAssumption DEF Shape, TypeOK, Migration, Tasks
<1>11. CASE EndEvent
  BY <1>11 DEF EndEvent, Shape, TypeOK
<1>12. CASE Restart
  <2>1. /\ step' = [k \in Tasks |-> Initially(k)] /\ todo' = [k \in Tasks |-> {}]
        /\ \A k \in Tasks : Initially(k) \in {"idle", "boot"}
        /\ lock' = None /\ ensured' = FALSE /\ salt' \in Salts /\ restarts' \in 0..MaxRestarts
        /\ UNCHANGED <<tableVars, faults, batches, raced>>
    BY <1>12, BoundsAssumption DEF Restart, Initially, Shape, TypeOK
  <2>2. /\ batch' \in [Writers -> [Users -> Payloads \cup {None}]]
        /\ seen' \in [Writers -> [Users -> Rows \cup {None}]]
    BY <1>12 DEF Restart, NoBatch
  <2> QED
    BY <2>1, <2>2 DEF Shape, TypeOK
<1>13. CASE UNCHANGED vars
  BY <1>13 DEF vars, Shape, TypeOK
<1> QED
  BY <1>1, <1>2, <1>3, <1>4, <1>5, <1>6, <1>7, <1>8, <1>9, <1>10, <1>11, <1>12, <1>13
  DEF Next, Migrate

\* The table, the migration's progress and the trackers' batches keep their
\* types, whatever fails and however often the program restarts: a backfill
\* under way has rows left to update and the lock's holder is migrating.
THEOREM UsersTyped == Spec => []TypeOK
<1>1. Shape => TypeOK
  BY DEF Shape
<1> QED
  BY <1>1, InitShape, StepShape, PTL DEF Spec

-----------------------------------------------------------------------------
(* A migrated table stays migrated. *)

\* What no task takes back while the program runs: columns only come, and a
\* row that shows the salt's public id goes on showing it.
LEMMA TableGrows ==
  ASSUME Shape, [Next]_vars, ~Restart
  PROVE  /\ salt' = salt /\ columns \subseteq columns'
         /\ salt # None => Stale' \subseteq Stale
<1> USE DEF tableVars, batchVars, boundVars
<1>1. UNCHANGED <<rows, salt>> => Stale' = Stale
  BY DEF Stale
<1>2. ASSUME NEW r \in Requests, Arrive(r) \/ Lock(r) \/ Query(r)
      PROVE  UNCHANGED <<rows, salt, columns>>
  BY <1>2 DEF Arrive, Lock, Query
<1>3. ASSUME NEW k \in Tasks, AddProfile(k) \/ AddColumn(k) \/ AddIndex(k)
      PROVE  UNCHANGED <<rows, salt>> /\ columns \subseteq columns'
  BY <1>3 DEF AddProfile, AddColumn, AddIndex
<1>4. ASSUME NEW k \in Tasks, SelectRows(k) \/ Abandon(k) \/ NoTable(k)
      PROVE  UNCHANGED <<rows, salt, columns>>
  BY <1>4 DEF SelectRows, Abandon, NoTable
<1>5. ASSUME NEW k \in Tasks, UpdateRow(k)
      PROVE  UNCHANGED <<salt, columns>> /\ Stale' \subseteq Stale
  <2>1. UNCHANGED <<salt, columns>>
    BY <1>5 DEF UpdateRow
  <2>2. \A u \in Users : rows'[u] = rows[u] \/ rows'[u].uid = salt
    BY <1>5, UpdateEffect
  <2> QED
    BY <2>1, <2>2 DEF Stale
<1>6. ASSUME NEW w \in Writers, Boot(w)
      PROVE  UNCHANGED <<rows, salt>> /\ columns \subseteq columns'
  BY <1>6 DEF Boot, Shape
<1>7. ASSUME NEW w \in Writers, Write(w)
      PROVE  UNCHANGED <<salt, columns>> /\ (salt # None => Stale' \subseteq Stale)
  <2>1. UNCHANGED <<salt, columns>>
    BY <1>7 DEF Write
  <2>2. \A u \in Users : rows'[u] = rows[u] \/ (salt # None => rows'[u].uid = salt)
    BY <1>7, WriteEffect DEF Shape
  <2> QED
    BY <2>1, <2>2 DEF Stale
<1>8. ASSUME NEW w \in Writers, Begin(w) \/ Resolve(w) \/ FailBatch(w)
      PROVE  UNCHANGED <<rows, salt, columns>>
  BY <1>8 DEF Begin, Resolve, FailBatch
<1>9. CASE EndEvent \/ UNCHANGED vars
  BY <1>1, <1>9 DEF EndEvent, vars
<1> QED
  BY <1>1, <1>2, <1>3, <1>4, <1>5, <1>6, <1>7, <1>8, <1>9 DEF Next, Migrate

\* Where a task's step leads, besides giving up and starting over.
LEMMA StepsAhead ==
  ASSUME Shape, MigrationInv, [Next]_vars, ~Restart, NEW k \in Tasks
  PROVE  /\ step'[k] \in {"column", "select", "update", "index"} =>
              \/ step'[k] = step[k] /\ todo'[k] = todo[k]
              \/ step'[k] = "column" /\ salt # None /\ "profile" \in columns'
              \/ step'[k] = "select" /\ step[k] = "column" /\ "uid" \in columns'
              \/ step'[k] = "update" /\ step[k] = "select" /\ todo'[k] = Stale
              \/ step'[k] = "update" /\ step[k] = "update" /\ Stale' \subseteq todo'[k]
              \/ step'[k] = "index" /\ step[k] \in {"select", "update"} /\ Stale' = {}
         /\ ensured' => ensured \/ Done'
         /\ k \in Requests /\ step'[k] = "query" => step[k] = "query" \/ ensured \/ Done'
<1> USE DEF tableVars, batchVars, boundVars
<1> DEFINE Ahead(j) ==
  /\ step'[j] \in {"column", "select", "update", "index"} =>
       \/ step'[j] = step[j] /\ todo'[j] = todo[j]
       \/ step'[j] = "column" /\ salt # None /\ "profile" \in columns'
       \/ step'[j] = "select" /\ step[j] = "column" /\ "uid" \in columns'
       \/ step'[j] = "update" /\ step[j] = "select" /\ todo'[j] = Stale
       \/ step'[j] = "update" /\ step[j] = "update" /\ Stale' \subseteq todo'[j]
       \/ step'[j] = "index" /\ step[j] \in {"select", "update"} /\ Stale' = {}
  /\ ensured' => ensured \/ Done'
  /\ j \in Requests /\ step'[j] = "query" => step[j] = "query" \/ ensured \/ Done'
<1>1. ASSUME ensured' => ensured, UNCHANGED <<step, todo>>
      PROVE  Ahead(k)
  BY <1>1
<1>2. ASSUME NEW j \in Tasks, NEW s, step' = [step EXCEPT ![j] = s],
             s \notin {"column", "select", "update", "index", "query"},
             ensured' = ensured, todo' = todo \/ todo' = [todo EXCEPT ![j] = {}]
      PROVE  Ahead(k)
  BY <1>2 DEF Shape, TypeOK
<1>3. ASSUME NEW r \in Requests, Arrive(r) \/ Lock(r) \/ Query(r)
      PROVE  Ahead(k)
  BY <1>3 DEF Arrive, Lock, Query, Goto, Shape, TypeOK, Tasks
<1>4. ASSUME NEW j \in Tasks, AddProfile(j)
      PROVE  Ahead(k)
  <2>1. "profile" \in columns' /\ UNCHANGED <<salt, todo>>
    BY <1>4 DEF AddProfile
  <2>2. CASE salt = None /\ Migrated(j)
    <3>1. Done'
      BY <2>1, <2>2 DEF Done
    <3>2. /\ step' = [step EXCEPT ![j] = "query"] \/ step' = [step EXCEPT ![j] = "ready"]
      BY <2>2 DEF Migrated, Goto
    <3> QED
      BY <2>1, <3>1, <3>2 DEF Shape, TypeOK
  <2>3. CASE salt # None /\ Goto(j, "column") /\ UNCHANGED ensured
    BY <2>1, <2>3 DEF Goto, Shape, TypeOK
  <2> QED
    BY <1>4, <2>2, <2>3 DEF AddProfile
<1>5. ASSUME NEW j \in Tasks, AddColumn(j)
      PROVE  Ahead(k)
  BY <1>5 DEF AddColumn, Goto, Shape, TypeOK
<1>6. ASSUME NEW j \in Tasks, SelectRows(j)
      PROVE  Ahead(k)
  <2>1. /\ step[j] = "select" /\ todo' = [todo EXCEPT ![j] = Stale]
        /\ step' = [step EXCEPT ![j] = IF Stale = {} THEN "index" ELSE "update"]
        /\ Stale' = Stale /\ ensured' = ensured
    BY <1>6 DEF SelectRows, Goto, Stale
  <2> HIDE DEF Stale
  <2> QED
    BY <2>1 DEF Shape, TypeOK
<1>7. ASSUME NEW j \in Tasks, UpdateRow(j)
      PROVE  Ahead(k)
  <2>1. PICK u \in todo[j] :
           /\ rows'[u].uid = salt /\ u \in Users
           /\ todo' = [todo EXCEPT ![j] = @ \ {u}]
           /\ step' = [step EXCEPT ![j] = IF todo[j] = {u} THEN "index" ELSE "update"]
    BY <1>7, UpdateEffect
  <2>2. step[j] = "update" /\ UNCHANGED <<salt, ensured>> /\ salt # None
    BY <1>7 DEF UpdateRow, MigrationInv
  <2>3. Stale' \subseteq Stale /\ Stale \subseteq todo[j] /\ u \notin Stale'
    BY <2>1, <2>2, TableGrows DEF MigrationInv, Stale
  <2> HIDE DEF Stale
  <2>4. k # j => step'[k] = step[k] /\ todo'[k] = todo[k]
    BY <2>1 DEF Shape, TypeOK
  <2>5. /\ todo'[j] = todo[j] \ {u} /\ Stale' \subseteq todo[j] \ {u}
        /\ step'[j] = IF todo[j] = {u} THEN "index" ELSE "update"
    BY <2>1, <2>3 DEF Shape, TypeOK
  <2> QED
    BY <2>2, <2>4, <2>5
<1>8. ASSUME NEW j \in Tasks, AddIndex(j)
      PROVE  Ahead(k)
  <2>1. /\ step[j] = "index" /\ "index" \in columns' /\ columns \subseteq columns'
        /\ UNCHANGED <<rows, salt, todo>> /\ Migrated(j)
    BY <1>8 DEF AddIndex
  <2>2. Done'
    BY <2>1 DEF MigrationInv, Done, Shown, Stale
  <2>3. step' = [step EXCEPT ![j] = "query"] \/ step' = [step EXCEPT ![j] = "ready"]
    BY <2>1 DEF Migrated, Goto
  <2> QED
    BY <2>1, <2>2, <2>3 DEF Shape, TypeOK
<1>9. ASSUME NEW j \in Tasks, Abandon(j) \/ NoTable(j)
      PROVE  Ahead(k)
  BY <1>2, <1>9 DEF Abandon, NoTable, Forget, Goto, Initially
<1>10. ASSUME NEW w \in Writers, Boot(w)
       PROVE  Ahead(k)
  BY <1>2, <1>10 DEF Boot, Goto, Tasks
<1>11. ASSUME NEW w \in Writers, Begin(w) \/ Resolve(w) \/ FailBatch(w)
       PROVE  Ahead(k)
  BY <1>2, <1>11 DEF Begin, Resolve, FailBatch, Goto, Tasks
<1>12. ASSUME NEW w \in Writers, Write(w)
       PROVE  Ahead(k)
  BY <1>2, <1>12 DEF Write, Goto, Tasks
<1>13. CASE EndEvent \/ UNCHANGED vars
  BY <1>1, <1>13 DEF EndEvent, vars
<1> QED
  BY <1>3, <1>4, <1>5, <1>6, <1>7, <1>8, <1>9, <1>10, <1>11, <1>12, <1>13 DEF Next, Migrate

LEMMA StepMigration == Shape /\ MigrationInv /\ [Next]_vars => MigrationInv'
<1> SUFFICES ASSUME Shape, MigrationInv, [Next]_vars
             PROVE  MigrationInv'
  OBVIOUS
<1>1. CASE Restart
  <2>1. ensured' = FALSE /\ \A k \in Tasks : step'[k] \in {"idle", "boot"}
    BY <1>1 DEF Restart, Initially
  <2> QED
    BY <2>1 DEF MigrationInv, Tasks
<1>2. CASE ~Restart
  <2>1. salt' = salt /\ columns \subseteq columns' /\ (salt # None => Stale' \subseteq Stale)
    BY <1>2, TableGrows
  <2>2. Done => Done'
    BY <2>1 DEF Done, Shown, Stale
  <2>3. \A k \in Requests : k \in Tasks
    BY DEF Tasks
  <2>4. ensured' => Done'
    <3>1. CASE \E k \in Tasks : TRUE
      BY <1>2, <2>2, <3>1, StepsAhead DEF MigrationInv
    <3>2. CASE Tasks = {}
      BY <1>2, <2>2, <3>2 DEF Next, Tasks, EndEvent, vars, MigrationInv
    <3> QED
      BY <3>1, <3>2
  <2>5. \A r \in Requests : step'[r] = "query" => Done'
    BY <1>2, <2>2, <2>3, StepsAhead DEF MigrationInv
  <2>6. ASSUME NEW k \in Tasks
        PROVE  /\ step'[k] \in {"column", "select", "update", "index"}
                    => salt' # None /\ "profile" \in columns'
               /\ step'[k] \in {"select", "update", "index"} => "uid" \in columns'
               /\ step'[k] = "update" => Stale' \subseteq todo'[k]
               /\ step'[k] = "index" => Stale' = {}
    <3> HIDE DEF Stale
    <3> QED
      BY <1>2, <2>1, StepsAhead DEF MigrationInv
  <2> QED
    BY <2>4, <2>5, <2>6 DEF MigrationInv
<1> QED
  BY <1>1, <1>2

\* Once a request is past the migration, and ever after until the program
\* restarts, every row of the table shows a public id of the salt: trackers
\* that insert rows while the backfill runs, batches that began before it,
\* migrations that give up half way and two of them at once do not change it.
THEOREM MigratedIsExtended == Spec => []Extended
<1>1. Init => MigrationInv
  <2>1. Init => ensured = FALSE /\ \A k \in Tasks : step[k] \in {"idle", "boot"}
    BY DEF Init, Initially
  <2> QED
    BY <2>1 DEF MigrationInv, Tasks
<1>2. MigrationInv => Extended
  BY DEF MigrationInv, Done, Shown, Extended
<1> QED
  BY <1>1, <1>2, InitShape, StepShape, StepMigration, PTL DEF Spec

-----------------------------------------------------------------------------
(* Keys and batches. *)

LEMMA StepKeys == Shape /\ KeysInv /\ [Next]_vars => KeysInv'
<1> SUFFICES ASSUME Shape, KeysInv, [Next]_vars
             PROVE  KeysInv'
  OBVIOUS
<1> USE DEF tableVars, batchVars, boundVars
<1>1. UNCHANGED <<rows, lastKey>> => KeysInv'
  BY DEF KeysInv
<1>2. ASSUME NEW w \in Writers, Write(w)
      PROVE  KeysInv'
  <2>1. /\ lastKey \in Nat /\ lastKey' \in Nat /\ lastKey <= lastKey'
        /\ \A u \in Users : rows[u] # None => rows[u].key \in Nat /\ rows[u].key <= lastKey
    BY <1>2, WriteEffect DEF Shape, TypeOK, KeysInv, Rows
  <2>2. \A u \in Users : /\ rows[u] # None => rows'[u] # None /\ rows'[u].key = rows[u].key
                         /\ rows[u] = None /\ rows'[u] # None =>
                              rows'[u].key \in Nat /\ rows'[u].key > lastKey /\ rows'[u].key <= lastKey'
    BY <1>2, WriteEffect DEF Shape, Rows
  <2>3. \A u, v \in Users :
          u # v /\ rows[u] = None /\ rows[v] = None /\ rows'[u] # None /\ rows'[v] # None
            => rows'[u].key # rows'[v].key
    BY <1>2, WriteEffect DEF Shape
  <2>4. \A u \in Users : rows'[u] # None => rows'[u].key <= lastKey'
    BY <2>1, <2>2
  <2>5. ASSUME NEW u \in Users, NEW v \in Users, u # v, rows'[u] # None, rows'[v] # None
        PROVE  rows'[u].key # rows'[v].key
    <3>1. CASE rows[u] # None /\ rows[v] # None
      BY <2>2, <2>5, <3>1 DEF KeysInv
    <3>2. CASE rows[u] # None /\ rows[v] = None
      BY <2>1, <2>2, <2>5, <3>2
    <3>3. CASE rows[u] = None /\ rows[v] # None
      BY <2>1, <2>2, <2>5, <3>3
    <3>4. CASE rows[u] = None /\ rows[v] = None
      BY <2>3, <2>5, <3>4
    <3> QED
      BY <3>1, <3>2, <3>3, <3>4
  <2> QED
    BY <2>4, <2>5 DEF KeysInv
<1>3. ASSUME NEW k \in Tasks, UpdateRow(k)
      PROVE  KeysInv'
  <2>1. \A u \in Users : (rows'[u] # None <=> rows[u] # None)
                         /\ (rows[u] # None => rows'[u].key = rows[u].key)
    BY <1>3, UpdateEffect, NoneAssumption
  <2>2. lastKey' = lastKey
    BY <1>3 DEF UpdateRow
  <2> QED
    BY <2>1, <2>2 DEF KeysInv
<1>4. ASSUME NEW r \in Requests, Arrive(r) \/ Lock(r) \/ Query(r)
      PROVE  UNCHANGED <<rows, lastKey>>
  BY <1>4 DEF Arrive, Lock, Query
<1>5. ASSUME NEW k \in Tasks, Migrate(k) \/ Abandon(k), ~UpdateRow(k)
      PROVE  UNCHANGED <<rows, lastKey>>
  BY <1>5 DEF Migrate, AddProfile, AddColumn, SelectRows, AddIndex, NoTable, Abandon
<1>6. ASSUME NEW w \in Writers, Boot(w) \/ Begin(w) \/ Resolve(w) \/ FailBatch(w)
      PROVE  UNCHANGED <<rows, lastKey>>
  BY <1>6 DEF Boot, Begin, Resolve, FailBatch
<1>7. CASE EndEvent \/ Restart \/ UNCHANGED vars
  BY <1>1, <1>7 DEF EndEvent, Restart, vars
<1> QED
  BY <1>1, <1>2, <1>3, <1>4, <1>5, <1>6, <1>7 DEF Next

\* While no two trackers have batches in progress at once, a row is still as
\* its batch selected it when the batch writes it, but for a public id that a
\* backfill has renewed.
LEMMA StepBatch == Shape /\ BatchInv /\ [Next]_vars => BatchInv'
<1> SUFFICES ASSUME Shape, BatchInv, [Next]_vars, ~raced'
             PROVE  OneBatch' /\ BatchCurrent'
  BY DEF BatchInv
<1> USE DEF tableVars, batchVars, boundVars
<1>1. OneBatch /\ BatchCurrent /\ ~raced
  <2>1. ~raced
    BY DEF Next, Migrate, Arrive, Lock, Query, AddProfile, AddColumn, SelectRows, UpdateRow,
           AddIndex, NoTable, Abandon, Boot, Begin, Write, Resolve, FailBatch, EndEvent,
           Restart, vars
  <2> QED
    BY <2>1 DEF BatchInv
<1>2. ASSUME UNCHANGED <<rows, salt>>,
             \A w \in Writers : \/ step'[w] = step[w] /\ batch'[w] = batch[w] /\ seen'[w] = seen[w]
                              \/ step'[w] \notin {"write", "resolve"}
      PROVE  OneBatch' /\ BatchCurrent'
  BY <1>1, <1>2 DEF OneBatch, BatchCurrent, InBatch, StillSeen, Batch
<1>3. ASSUME NEW k \in Tasks, NEW s, step' = [step EXCEPT ![k] = s],
             s \notin {"write", "resolve"}, UNCHANGED <<rows, salt, batch, seen>>
      PROVE  OneBatch' /\ BatchCurrent'
  BY <1>2, <1>3 DEF Shape, TypeOK, Tasks
<1>4. ASSUME NEW r \in Requests, Arrive(r) \/ Lock(r) \/ Query(r)
      PROVE  OneBatch' /\ BatchCurrent'
  BY <1>3, <1>4 DEF Arrive, Lock, Query, Goto, Tasks
<1>5. ASSUME NEW k \in Tasks, AddProfile(k) \/ AddColumn(k) \/ AddIndex(k)
      PROVE  OneBatch' /\ BatchCurrent'
  BY <1>3, <1>5 DEF AddProfile, AddColumn, AddIndex, Migrated, Goto
<1>6. ASSUME NEW k \in Tasks, SelectRows(k) \/ Abandon(k) \/ NoTable(k)
      PROVE  OneBatch' /\ BatchCurrent'
  BY <1>3, <1>6 DEF SelectRows, Abandon, NoTable, Forget, Goto, Initially
<1>7. ASSUME NEW k \in Tasks, UpdateRow(k)
      PROVE  OneBatch' /\ BatchCurrent'
  <2>1. /\ UNCHANGED <<salt, batch, seen>>
        /\ \E s \in {"index", "update"} : step' = [step EXCEPT ![k] = s]
    BY <1>7 DEF UpdateRow, Goto
  <2>2. \A u \in Users :
          \/ rows'[u] = rows[u]
          \/ /\ rows[u] # None /\ rows'[u] # None /\ rows'[u].uid = salt
             /\ rows'[u].key = rows[u].key /\ rows'[u].name = rows[u].name
             /\ rows'[u].team = rows[u].team /\ rows'[u].hash = rows[u].hash
    BY <1>7, UpdateEffect, NoneAssumption
  <2>3. \A w \in Writers : step'[w] = step[w] \/ step'[w] \notin {"write", "resolve"}
    BY <2>1 DEF Shape, TypeOK, Tasks
  <2>4. OneBatch'
    BY <1>1, <2>3 DEF OneBatch, InBatch
  <2>5. \A u \in Users, w \in Writers : StillSeen(seen[w][u], rows[u]) => StillSeen(seen[w][u], rows[u])'
    BY <2>1, <2>2 DEF StillSeen
  <2>6. BatchCurrent'
    BY <1>1, <2>1, <2>3, <2>5 DEF BatchCurrent, Batch
  <2> QED
    BY <2>4, <2>6
<1>8. ASSUME NEW w \in Writers, Boot(w)
      PROVE  OneBatch' /\ BatchCurrent'
  BY <1>3, <1>8 DEF Boot, Goto, Tasks
<1>9. ASSUME NEW w \in Writers, Resolve(w) \/ FailBatch(w)
      PROVE  OneBatch' /\ BatchCurrent'
  <2>1. /\ step' = [step EXCEPT ![w] = "ready"] /\ UNCHANGED <<rows, salt>>
        /\ UNCHANGED <<batch, seen>> \/ EndBatch(w)
    BY <1>9 DEF Resolve, FailBatch, Goto
  <2> QED
    BY <1>2, <2>1 DEF EndBatch, Shape, TypeOK, Tasks
<1>10. ASSUME NEW w \in Writers, Begin(w)
       PROVE  OneBatch' /\ BatchCurrent'
  <2>1. /\ step' = [step EXCEPT ![w] = "write"] /\ UNCHANGED <<rows, salt>>
        /\ \A v \in Writers \ {w} : step[v] \notin {"write", "resolve"}
        /\ seen' = [seen EXCEPT ![w] =
                      [u \in Users |-> IF batch'[w][u] = None THEN None ELSE rows[u]]]
    BY <1>10 DEF Begin, Goto
  <2>2. \A u \in Batch(w)' : u \in Users /\ seen'[w][u] = rows[u]
    BY <2>1 DEF Batch, Shape, TypeOK
  <2>3. \A v \in Writers : InBatch(v)' => v = w
    BY <2>1 DEF InBatch, Shape, TypeOK, Tasks
  <2>4. \A u \in Batch(w)' : StillSeen(seen[w][u], rows[u])'
    BY <2>1, <2>2 DEF StillSeen
  <2> QED
    BY <2>3, <2>4 DEF OneBatch, BatchCurrent, InBatch
<1>11. ASSUME NEW w \in Writers, Write(w)
       PROVE  OneBatch' /\ BatchCurrent'
  <2>1. /\ \E s \in {"ready", "resolve"} : step' = [step EXCEPT ![w] = s]
        /\ step[w] = "write"
    BY <1>11 DEF Write, Goto
  <2>2. \A v \in Writers : (InBatch(v)' => v = w) /\ step'[v] # "write"
    BY <1>1, <2>1 DEF OneBatch, InBatch, Shape, TypeOK, Tasks
  <2> QED
    BY <2>2 DEF OneBatch, BatchCurrent
<1>12. CASE EndEvent \/ UNCHANGED vars
  BY <1>2, <1>12 DEF EndEvent, vars
<1>13. CASE Restart
  <2>1. \A w \in Writers : step'[w] \notin {"write", "resolve"}
    BY <1>13 DEF Restart, Initially, Tasks
  <2> QED
    BY <2>1 DEF OneBatch, BatchCurrent, InBatch
<1> QED
  BY <1>4, <1>5, <1>6, <1>7, <1>8, <1>9, <1>10, <1>11, <1>12, <1>13 DEF Next, Migrate

\* What a write of a batch leaves, as long as nobody else has written.
LEMMA WriteLands ==
  ASSUME Shape, BatchInv, ~raced, NEW w \in Writers, Write(w), NEW u \in Users
  PROVE  /\ u \in Batch(w) =>
              /\ rows'[u].name = batch[w][u].name
              /\ rows'[u].hash = batch[w][u].profile
              /\ batch[w][u].team # None => rows'[u].team = batch[w][u].team
              /\ salt # None => rows'[u].uid = salt
         /\ rows[u] # None /\ rows[u].team # None => rows'[u].team # None
<1>1. u \in Batch(w) => StillSeen(seen[w][u], rows[u])
  BY DEF BatchInv, BatchCurrent, Write
<1>2. \/ /\ rows'[u] = rows[u]
         /\ u \in Batch(w) => seen[w][u] # None /\ ~Disagrees(batch[w][u], seen[w][u])
      \/ /\ u \in Batch(w)
         /\ rows'[u].name = batch[w][u].name /\ rows'[u].hash = batch[w][u].profile
         /\ batch[w][u].team # None => rows'[u].team = batch[w][u].team
         /\ seen[w][u] # None => rows'[u].team = Team(batch[w][u], seen[w][u])
         /\ salt # None => rows'[u].uid = salt
  BY WriteEffect DEF Shape
<1>3. CASE rows'[u] = rows[u] /\ (u \in Batch(w) => seen[w][u] # None /\ ~Disagrees(batch[w][u], seen[w][u]))
  BY <1>1, <1>3 DEF StillSeen, Disagrees, Team
<1>4. CASE u \in Batch(w) /\ rows'[u].name = batch[w][u].name /\ rows'[u].hash = batch[w][u].profile
           /\ (batch[w][u].team # None => rows'[u].team = batch[w][u].team)
           /\ (seen[w][u] # None => rows'[u].team = Team(batch[w][u], seen[w][u]))
           /\ (salt # None => rows'[u].uid = salt)
  BY <1>1, <1>4 DEF StillSeen, Team
<1> QED
  BY <1>2, <1>3, <1>4

UsersInv == Shape /\ KeysInv /\ BatchInv

LEMMA UsersInvariant ==
  /\ Init => UsersInv
  /\ UsersInv /\ [Next]_vars => UsersInv'
<1>1. Init => KeysInv
  <2> SUFFICES ASSUME Init PROVE KeysInv
    OBVIOUS
  <2>1. CASE rows = NoBatch
    BY <2>1 DEF KeysInv, NoBatch
  <2>2. ASSUME NEW u \in Users, NEW p \in Payloads, lastKey = 1,
               rows = [NoBatch EXCEPT ![u] = [key |-> 1, name |-> p.name, team |-> p.team,
                                              hash |-> None, uid |-> None]]
        PROVE  KeysInv
    <3>1. rows[u].key = 1 /\ \A v \in Users : v # u => rows[v] = None
      BY <2>2 DEF NoBatch
    <3> QED
      BY <2>2, <3>1 DEF KeysInv
  <2> QED
    BY <2>1, <2>2 DEF Init
<1>2. Init => BatchInv
  BY DEF Init, Initially, BatchInv, OneBatch, BatchCurrent, InBatch, Tasks
<1> QED
  BY <1>1, <1>2, InitShape, StepShape, StepKeys, StepBatch DEF UsersInv

\* No migration, batch, failure or restart ever takes away a user's key or
\* gives it to another user; and a team that is known is not forgotten while
\* one tracker at a time has a batch in progress.
THEOREM KeysAreKept == Spec => RowsKept
<1>1. UsersInv /\ [Next]_vars => [KeepRows]_vars
  <2> SUFFICES ASSUME UsersInv, Next
               PROVE  KeepRows
    OBVIOUS
  <2> USE DEF tableVars, batchVars, boundVars
  <2>1. KeysInv' /\ Shape
    BY UsersInvariant DEF UsersInv
  <2>2. ASSUME NEW u \in Users, rows[u] # None
        PROVE  /\ rows'[u] # None /\ rows'[u].key = rows[u].key
               /\ ~raced /\ rows[u].team # None => rows'[u].team # None
    <3>1. CASE rows' = rows
      BY <2>2, <3>1
    <3>2. ASSUME NEW w \in Writers, Write(w)
          PROVE  /\ rows'[u] # None /\ rows'[u].key = rows[u].key
                 /\ ~raced /\ rows[u].team # None => rows'[u].team # None
      BY <2>1, <2>2, <3>2, WriteEffect, WriteLands DEF Shape, UsersInv
    <3>3. ASSUME NEW k \in Tasks, UpdateRow(k)
          PROVE  rows'[u] # None /\ rows'[u].key = rows[u].key /\ rows'[u].team = rows[u].team
      BY <2>1, <2>2, <3>3, UpdateEffect
    <3>4. ASSUME NEW k \in Tasks, Migrate(k) \/ Abandon(k), ~UpdateRow(k)
          PROVE  rows' = rows
      BY <3>4 DEF Migrate, AddProfile, AddColumn, SelectRows, AddIndex, NoTable, Abandon
    <3>5. ASSUME NEW w \in Writers, Boot(w) \/ Begin(w) \/ Resolve(w) \/ FailBatch(w)
          PROVE  rows' = rows
      BY <3>5 DEF Boot, Begin, Resolve, FailBatch
    <3>6. ASSUME NEW r \in Requests, Arrive(r) \/ Lock(r) \/ Query(r)
          PROVE  rows' = rows
      BY <3>6 DEF Arrive, Lock, Query
    <3>7. EndEvent \/ Restart => rows' = rows
      BY DEF EndEvent, Restart
    <3> QED
      BY <2>2, <3>1, <3>2, <3>3, <3>4, <3>5, <3>6, <3>7 DEF Next
  <2> QED
    BY <2>1, <2>2 DEF KeepRows, KeysInv
<1> QED
  BY <1>1, UsersInvariant, PTL DEF Spec, RowsKept

\* A batch that is written leaves its users as upstream has them, the rows it
\* skipped included, although it compared rows that it had selected before
\* and that backfills update in the meantime.
THEOREM BatchesLand == Spec => BatchLanded
<1>1. UsersInv /\ [Next]_vars => [LandBatch]_vars
  <2> SUFFICES ASSUME UsersInv
               PROVE  LandBatch
    OBVIOUS
  <2> QED
    BY WriteLands, WrittenUsers DEF LandBatch, UsersInv
<1> QED
  BY <1>1, UsersInvariant, PTL DEF Spec, BatchLanded
=============================================================================
