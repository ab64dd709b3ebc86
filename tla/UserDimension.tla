---------------------------- MODULE UserDimension ----------------------------
(***************************************************************************)
(* The users table of one event: who creates and migrates it               *)
(* (db/schema.rs, db/privacy.rs), the API requests that migrate it lazily  *)
(* under a lock (api/state.rs) before they read it, and the tracker's      *)
(* upserts (db/query/batch.rs).  Anonymisation may be switched on, off or  *)
(* to another salt between two runs of the program.                        *)
(*                                                                         *)
(* A public id is determined by the user and the salt, so a stored one is  *)
(* represented by its salt.  The profile columns are written together with *)
(* their hash and are represented by it.                                   *)
(***************************************************************************)
EXTENDS Integers, FiniteSets

CONSTANTS
  Users, Requests,
  Writers,     \* trackers that may serve the event, one in each process
  Salts,       \* the configured values; None: anonymisation is disabled
  Payloads,    \* what upstream may say of a user: [name, profile, team]
  None,
  MaxFaults, MaxRestarts, MaxBatches   \* bounds

\* A row of the table: the key that ranking rows refer to, what upstream says
\* of the user, the hash of its profile columns, the salt of its public id.
Rows == [key : Nat, name : {p.name : p \in Payloads},
         team : {p.team : p \in Payloads} \cup {None},
         hash : {p.profile : p \in Payloads} \cup {None},
         uid : Salts \cup {None}]

ASSUME TasksAssumption == Requests \cap Writers = {}
ASSUME NoneAssumption == None \notin Users \cup Requests \cup Writers \cup Payloads \cup Rows
ASSUME UsersAssumption == IsFiniteSet(Users)
ASSUME PayloadsAssumption ==
  \A p \in Payloads : DOMAIN p = {"name", "profile", "team"}
ASSUME BoundsAssumption == MaxFaults \in Nat /\ MaxRestarts \in Nat /\ MaxBatches \in Nat

VARIABLES
  columns,   \* the database: the parts of the table that exist
  rows,      \* the database: the row of a user, None when there is none
  lastKey,   \* the database: the last key that AUTO_INCREMENT has given out
  ended,     \* Redis: the event-ended flag, read by a tracker's init
  salt,      \* the configuration of the running processes
  ensured,   \* user_table_extension_cache holds this event
  lock,      \* the request that holds its write lock
  step,      \* where a request or a tracker is
  todo,      \* backfill_unique_ids: the rows it still has to update
  batch,     \* the payload a tracker is upserting: a user's record or None
  seen,      \* the rows it selected for it
  faults, restarts, batches,
  raced      \* history: two trackers have had a batch in progress at once

vars == <<columns, rows, lastKey, ended, salt, ensured, lock, step, todo, batch, seen,
          faults, restarts, batches, raced>>

tableVars == <<columns, rows, lastKey, ended>>
batchVars == <<batch, seen, batches, raced>>
boundVars == <<faults, restarts>>

Tasks == Requests \cup Writers
Migration == {"profile", "column", "select", "update", "index"}

NoBatch == [u \in Users |-> None]

TypeOK ==
  /\ columns \subseteq {"table", "profile", "uid", "index"}
  /\ lastKey \in Nat
  /\ rows \in [Users -> Rows \cup {None}] /\ seen \in [Writers -> [Users -> Rows \cup {None}]]
  /\ ended \in BOOLEAN /\ ensured \in BOOLEAN /\ raced \in BOOLEAN
  /\ salt \in Salts /\ lock \in Requests \cup {None}
  /\ step \in [Tasks -> Migration \cup {"idle", "queue", "query", "boot",
                 "ready", "write", "resolve"}]
  /\ todo \in [Tasks -> SUBSET Users]
  /\ \A k \in Tasks : todo[k] # {} <=> step[k] = "update"
  /\ batch \in [Writers -> [Users -> Payloads \cup {None}]]
  /\ faults \in 0..MaxFaults /\ restarts \in 0..MaxRestarts
  /\ batches \in 0..MaxBatches
  /\ lock # None => step[lock] \in Migration

Initially(k) == IF k \in Requests THEN "idle" ELSE "boot"

\* The event is new, or has rows of an earlier release without the profile
\* columns, or of a run without anonymisation.
Init ==
  /\ \/ columns = {} /\ rows = NoBatch /\ lastKey = 0
     \/ /\ columns \in {{"table"}, {"table", "profile", "uid"}}
        /\ lastKey = 1
        /\ \E u \in Users, p \in Payloads :
             rows = [NoBatch EXCEPT ![u] =
                       [key |-> 1, name |-> p.name, team |-> p.team,
                        hash |-> None, uid |-> None]]
  /\ ended \in BOOLEAN /\ salt \in Salts
  /\ ensured = FALSE /\ lock = None
  /\ step = [k \in Tasks |-> Initially(k)]
  /\ todo = [k \in Tasks |-> {}]
  /\ batch = [w \in Writers |-> NoBatch] /\ seen = batch
  /\ faults = 0 /\ restarts = 0 /\ batches = 0 /\ raced = FALSE

Goto(k, s) == step' = [step EXCEPT ![k] = s]

-----------------------------------------------------------------------------
(* API requests: prepare_user_id_mode and then a query of the table.  *)

\* The warm path, under a read lock: the event is known to be migrated.
Arrive(r) ==
  /\ step[r] = "idle" /\ lock = None
  /\ Goto(r, IF ensured THEN "query" ELSE "queue")
  /\ UNCHANGED <<tableVars, salt, ensured, lock, todo, batchVars, boundVars>>

\* The cold path: the write lock, and the cache is looked at once more.
Lock(r) ==
  /\ step[r] = "queue" /\ lock = None
  /\ IF ensured THEN Goto(r, "query") /\ lock' = None
                ELSE Goto(r, "profile") /\ lock' = r
  /\ UNCHANGED <<tableVars, salt, ensured, todo, batchVars, boundVars>>

\* The query itself: it decodes a public id of every row it reads, so one row
\* without is an error (see Extended).
Query(r) ==
  /\ step[r] = "query" /\ Goto(r, "idle")
  /\ UNCHANGED <<tableVars, salt, ensured, lock, todo, batchVars, boundVars>>

-----------------------------------------------------------------------------
(* ensure_user_table_extensions, run by a request that holds the lock or by *)
(* a tracker's init.  A failed statement, or a client that goes away, ends  *)
(* it where it is.                                                          *)

\* The migration is over: the request notes it in the cache and unlocks.
Migrated(k) ==
  IF k \in Requests
  THEN Goto(k, "query") /\ ensured' = TRUE /\ lock' = None
  ELSE Goto(k, "ready") /\ UNCHANGED <<ensured, lock>>

\* ensure_profile_columns; the table has to exist.
AddProfile(k) ==
  /\ step[k] = "profile" /\ "table" \in columns
  /\ columns' = columns \cup {"profile"}
  /\ IF salt = None THEN Migrated(k)
                    ELSE Goto(k, "column") /\ UNCHANGED <<ensured, lock>>
  /\ UNCHANGED <<rows, lastKey, ended, salt, todo, batchVars, boundVars>>

\* ensure_unique_id_column: a column that exists already is no error.
AddColumn(k) ==
  /\ step[k] = "column" /\ Goto(k, "select")
  /\ columns' = columns \cup {"uid"}
  /\ UNCHANGED <<rows, lastKey, ended, salt, ensured, lock, todo, batchVars, boundVars>>

Stale_NullOnly == {u \in Users : rows[u] # None /\ rows[u].uid = None}

\* The rows whose public id is not what the salt gives.
Stale == {u \in Users : rows[u] # None /\ rows[u].uid # salt}

\* backfill_unique_ids: one SELECT of all rows, then an UPDATE each.
SelectRows(k) ==
  /\ step[k] = "select"
  /\ todo' = [todo EXCEPT ![k] = Stale]
  /\ Goto(k, IF Stale = {} THEN "index" ELSE "update")
  /\ UNCHANGED <<tableVars, salt, ensured, lock, batchVars, boundVars>>

UpdateRow(k) ==
  /\ step[k] = "update"
  /\ \E u \in todo[k] :
       /\ rows' = [rows EXCEPT ![u].uid = salt]
       /\ todo' = [todo EXCEPT ![k] = @ \ {u}]
       /\ Goto(k, IF todo[k] = {u} THEN "index" ELSE "update")
  /\ UNCHANGED <<columns, lastKey, ended, salt, ensured, lock, batchVars, boundVars>>

\* ensure_unique_id_index
AddIndex(k) ==
  /\ step[k] = "index"
  /\ columns' = columns \cup {"index"}
  /\ Migrated(k)
  /\ UNCHANGED <<rows, lastKey, ended, salt, todo, batchVars, boundVars>>

Forget_Lock(k) ==
  /\ Goto(k, Initially(k)) /\ todo' = [todo EXCEPT ![k] = {}]
  /\ lock' = lock

Forget(k) ==
  /\ Goto(k, Initially(k)) /\ todo' = [todo EXCEPT ![k] = {}]
  /\ lock' = IF lock = k THEN None ELSE lock

\* A statement fails or the request's future is dropped.
Abandon(k) ==
  /\ step[k] \in Migration \cup {"queue", "query"}
  /\ faults < MaxFaults /\ faults' = faults + 1
  /\ Forget(k)
  /\ UNCHANGED <<tableVars, salt, ensured, batchVars, restarts>>

\* No such table: the first ALTER fails and the request with it.
NoTable(k) ==
  /\ step[k] = "profile" /\ "table" \notin columns
  /\ Forget(k)
  /\ UNCHANGED <<tableVars, salt, ensured, batchVars, boundVars>>

-----------------------------------------------------------------------------
(* A tracker: its init and its upserts.  *)

\* EventTrackerBase::init: with the flag set it returns before the tables
\* are looked at.  A fresh table has every column from the start.
Boot(w) ==
  /\ step[w] = "boot"
  /\ IF ended
     THEN Goto(w, "ready") /\ UNCHANGED columns
     ELSE /\ Goto(w, "profile")
          /\ columns' = IF "table" \in columns THEN columns
                        ELSE {"table", "profile", "uid"}
  /\ UNCHANGED <<rows, lastKey, ended, salt, ensured, lock, todo, batchVars, boundVars>>

\* set_event_ended
EndEvent ==
  /\ ~ended /\ "table" \in columns /\ ended' = TRUE
  /\ UNCHANGED <<columns, rows, lastKey, salt, ensured, lock, step, todo, batchVars,
                 boundVars>>

\* The columns an upsert names: without one the statement fails.
Writable == {"table", "profile"} \cup (IF salt = None THEN {} ELSE {"uid"})

\* batch_get_or_create_user_id_keys starts: the rows of the batch's users.
Begin(w) ==
  /\ step[w] = "ready" /\ batches < MaxBatches /\ batches' = batches + 1
  /\ Writable \subseteq columns
  /\ \E us \in (SUBSET Users) \ {{}} :
       \E b \in [us -> Payloads] :
         batch' = [batch EXCEPT ![w] =
                     [u \in Users |-> IF u \in us THEN b[u] ELSE None]]
  /\ seen' = [seen EXCEPT ![w] =
                [u \in Users |-> IF batch'[w][u] = None THEN None ELSE rows[u]]]
  /\ raced' = (raced \/ \E v \in Writers \ {w} : step[v] \in {"write", "resolve"})
  /\ Goto(w, "write")
  /\ UNCHANGED <<tableVars, salt, ensured, lock, todo, boundVars>>

\* The team that is written: the payload's, or else the one stored.
Team(p, row) == IF p.team = None THEN row.team ELSE p.team

\* A stored row that disagrees with the payload: its name, a team that is
\* given, its public id, or the hash of its profile.
Disagrees_NoHash(p, row) ==
  \/ row.name # p.name
  \/ Team(p, row) # row.team
  \/ salt # None /\ row.uid # salt

Disagrees(p, row) ==
  \/ row.name # p.name
  \/ Team(p, row) # row.team
  \/ salt # None /\ row.uid # salt
  \/ row.hash # p.profile

Batch(w) == {u \in Users : batch[w][u] # None}
Missing(w) == {u \in Batch(w) : seen[w][u] = None}
Dirty(w) == {u \in Batch(w) \ Missing(w) : Disagrees(batch[w][u], seen[w][u])}

Key_Fresh(old, fresh) == fresh

\* The primary key is not among the columns a conflict overwrites.
Key(old, fresh) == IF old = None THEN fresh ELSE old.key

\* The row after INSERT ... ON CONFLICT (user_id) DO UPDATE: every column but
\* the key is overwritten, the public id only when there is one.
Upserted(w, u, keys) ==
  LET p == batch[w][u]
      old == rows[u]
      team == IF u \in Missing(w) THEN p.team ELSE Team(p, seen[w][u])
  IN [key |-> Key(old, keys[u]),
      name |-> p.name, team |-> team, hash |-> p.profile,
      uid |-> IF salt # None THEN salt
              ELSE IF old = None THEN None ELSE old.uid]

\* AUTO_INCREMENT: a key of its own for every row, in any order; a row that
\* exists already leaves its key unused.
Fresh(us) == {k \in [us -> (lastKey + 1)..(lastKey + Cardinality(us))] :
                \A u, v \in us : u # v => k[u] # k[v]}

EndBatch(w) ==
  /\ batch' = [batch EXCEPT ![w] = NoBatch]
  /\ seen' = [seen EXCEPT ![w] = NoBatch]

Write(w) ==
  /\ step[w] = "write"
  /\ LET us == Dirty(w) \cup Missing(w)
     IN /\ \E keys \in Fresh(us) :
             rows' = [u \in Users |-> IF u \in us THEN Upserted(w, u, keys)
                                                  ELSE rows[u]]
        /\ lastKey' = lastKey + Cardinality(us)
  /\ Goto(w, IF Missing(w) = {} THEN "ready" ELSE "resolve")
  /\ EndBatch(w)
  /\ UNCHANGED <<columns, ended, salt, ensured, lock, todo, batches, raced,
                 boundVars>>

\* The keys of the rows that were missing are read back; none is missing
\* still, for no row is ever deleted.
Resolve(w) ==
  /\ step[w] = "resolve" /\ Goto(w, "ready")
  /\ UNCHANGED <<tableVars, salt, ensured, lock, todo, batchVars, boundVars>>

\* A statement fails: the tick is over and a later one tries again.
FailBatch(w) ==
  /\ step[w] \in {"write", "resolve"} /\ Goto(w, "ready")
  /\ faults < MaxFaults /\ faults' = faults + 1
  /\ EndBatch(w)
  /\ UNCHANGED <<tableVars, salt, ensured, lock, todo, batches, raced, restarts>>

-----------------------------------------------------------------------------

\* Everything in memory is lost; the new run may be configured differently.
Restart ==
  /\ restarts < MaxRestarts /\ restarts' = restarts + 1
  /\ salt' \in Salts
  /\ ensured' = FALSE /\ lock' = None
  /\ step' = [k \in Tasks |-> Initially(k)]
  /\ todo' = [k \in Tasks |-> {}]
  /\ batch' = [w \in Writers |-> NoBatch] /\ seen' = batch'
  /\ UNCHANGED <<tableVars, faults, batches, raced>>

Migrate(k) == AddProfile(k) \/ AddColumn(k) \/ SelectRows(k) \/ UpdateRow(k)
                \/ AddIndex(k) \/ NoTable(k)

Next ==
  \/ \E r \in Requests : Arrive(r) \/ Lock(r) \/ Query(r)
  \/ \E k \in Tasks : Migrate(k) \/ Abandon(k)
  \/ \E w \in Writers : Boot(w) \/ Begin(w) \/ Write(w) \/ Resolve(w)
                          \/ FailBatch(w)
  \/ EndEvent \/ Restart

Spec == Init /\ [][Next]_vars

-----------------------------------------------------------------------------
(* Properties. *)

\* Once a request is past ensure_user_table_extensions, and ever after until
\* the restart, every row of the table can be shown: it has the public id
\* its salt gives, though trackers insert rows while the backfill runs
\* (state.rs:93-124, privacy.rs:158-198).
Extended ==
  ensured \/ (\E r \in Requests : step[r] = "query") =>
    /\ "profile" \in columns
    /\ salt # None =>
         /\ {"uid", "index"} \subseteq columns
         /\ \A u \in Users : rows[u] # None => rows[u].uid = salt

\* What every step does to the keys and the teams of the rows.
KeepRows ==
  /\ \A u \in Users : rows[u] # None =>
       /\ rows'[u] # None /\ rows'[u].key = rows[u].key
       /\ ~raced /\ rows[u].team # None => rows'[u].team # None
  /\ \A u, v \in Users :
       u # v /\ rows'[u] # None /\ rows'[v] # None => rows'[u].key # rows'[v].key

\* The key of a user never changes, and no two users have the same, so the
\* ranking rows that refer to it stay with their user (batch.rs:291-296).  A
\* stored team is not overwritten with NULL (batch.rs:227-232), unless two
\* trackers have had batches in progress at once.
RowsKept == [][KeepRows]_vars

\* What a batch that no other one overlaps leaves in the table.
LandBatch ==
  \A w \in Writers : ~raced /\ Write(w) =>
    \A u \in Batch(w) :
      /\ rows'[u].name = batch[w][u].name
      /\ rows'[u].hash = batch[w][u].profile
      /\ batch[w][u].team # None => rows'[u].team = batch[w][u].team
      /\ salt # None => rows'[u].uid = salt

\* After a batch the table says of its users what upstream said: rows are
\* skipped only when they already did (batch.rs:214-234).
BatchLanded == [][LandBatch]_vars

=============================================================================
