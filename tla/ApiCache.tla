------------------------------ MODULE ApiCache ------------------------------
(***************************************************************************)
(* The two-level API response cache of src/api/cache.rs for ONE event and  *)
(* ONE response (one key suffix): a Redis level shared by all API          *)
(* processes, whose keys carry the event's epoch, and an in-memory level   *)
(* per process.  The tracker brackets each database update with            *)
(* begin_event_update (set the dirty flag) and finish_event_update         *)
(* (increment the epoch, then clear the flag) or abort_event_update        *)
(* (clear the flag only).                                                  *)
(*                                                                         *)
(* A response is abstracted to the database versions it was computed from: *)
(* the number of committed ranking transactions and of committed user      *)
(* upserts.  The subject of the request is absent (404) until "Appears"    *)
(* ranking transactions have committed.                                    *)
(***************************************************************************)
EXTENDS Naturals, FiniteSets

CONSTANTS
  Procs,      \* API processes, each with an L1 cache and a SingleFlight map
  Readers,    \* requests under way at the same time
  Home,       \* the process that serves each request
  MaxEpoch,   \* bound on published updates
  MaxRows,    \* bound on ranking transactions
  MaxUsers,   \* bound on user upserts
  MaxLate,    \* bound on timed-out cache writes still queued at Redis
  Appears,    \* the ranking version at which the subject exists
  Faults,     \* which faults of the tracker may happen
  None        \* no value, no L1 control, no epoch, no leader

Epochs    == 0 .. MaxEpoch
Snapshots == [rows : 0 .. MaxRows, users : 0 .. MaxUsers]
Controls  == [epoch : Epochs, dirty : BOOLEAN]
FaultKinds == {"begin_lost", "finish_lost", "abort_lost", "crash", "unacked", "slow"}

ASSUME BoundsAssumption ==
  /\ MaxEpoch \in Nat /\ MaxRows \in Nat /\ MaxUsers \in Nat
  /\ MaxLate \in Nat /\ Appears \in Nat
ASSUME ActorsAssumption == Home \in [Readers -> Procs] /\ Faults \subseteq FaultKinds
ASSUME NoneAssumption ==
  /\ None \notin Snapshots /\ None \notin Controls
  /\ None \notin Epochs

VARIABLES
  db,       \* committed database versions, by kind of transaction
  upd,      \* the tracker: "idle", "persist", "profiles" or "bumped"
  wrote,    \* has a ranking transaction of this update been acknowledged
  epoch,    \* Redis: the event's epoch
  dirty,    \* Redis: is the event's dirty flag set
  l2,       \* Redis: value stored under each epoch's key
  neg,      \* Redis: negative entry (":not_found") under each epoch's key
  late,     \* cache writes whose caller timed out but Redis may still run
  control,  \* per process: L1 control entry
  l1,       \* per process: L1 value under each epoch's key
  pc,       \* per request: where it is
  ctx,      \* per request: the epoch of its keys and write context, or None
  val,      \* per request: what it has read so far, finally its answer
  owns,     \* per request: the SingleFlight keys it owns
  waits,    \* per request: <<owner, key>> it awaits, or None
  floor     \* history: the database when each epoch was published

trackerVars == <<db, upd, wrote>>
redisVars   == <<epoch, dirty, l2, neg, late, floor>>
localVars   == <<control, l1>>
reqVars     == <<pc, ctx, val, owns, waits>>
vars        == <<trackerVars, redisVars, localVars, reqVars>>

(***************************************************************************)
(* SingleFlight keys: lookup_flight_key (None stands for the -1 used when  *)
(* the process has no L1 control) and dirty_flight_key.                    *)
(***************************************************************************)
LookupKey(e) == <<"lookup", e>>
DirtyKey(e)  == <<"dirty", e>>
FlightKeys   == {"lookup", "dirty"} \X (Epochs \cup {None})

Reading == {"readall", "dirty", "hit", "miss", "readval", "rows", "users", "write"}
PCs     == Reading \cup {"idle", "wait", "done"}

Absent(v) == v.rows < Appears

\* The types of the caches, the tracker and the requests: every key carries an
\* epoch that was published at some time.
TypeOK ==
  /\ db \in Snapshots
  /\ upd \in {"idle", "persist", "profiles", "bumped"} /\ wrote \in BOOLEAN
  /\ epoch \in Epochs /\ dirty \in BOOLEAN
  /\ l2 \in [Epochs -> Snapshots \cup {None}]
  /\ neg \in [Epochs -> Snapshots \cup {None}]
  /\ late \in SUBSET [ctx : Epochs, val : Snapshots]
  /\ control \in [Procs -> Controls \cup {None}]
  /\ l1 \in [Procs -> [Epochs -> Snapshots \cup {None}]]
  /\ pc \in [Readers -> PCs]
  /\ ctx \in [Readers -> Epochs \cup {None}]
  /\ val \in [Readers -> Snapshots \cup {None}]
  /\ owns \in [Readers -> SUBSET FlightKeys]
  /\ waits \in [Readers -> (Readers \X FlightKeys) \cup {None}]
  /\ floor \in [Epochs -> Snapshots \cup {None}]

(***************************************************************************)
(* A running system whose caches are cold.                                 *)
(***************************************************************************)
Init ==
  /\ db = [rows |-> 0, users |-> 0]
  /\ upd = "idle" /\ wrote = FALSE
  /\ epoch = 0 /\ dirty = FALSE
  /\ l2 = [e \in Epochs |-> None] /\ neg = [e \in Epochs |-> None]
  /\ late = {}
  /\ control = [p \in Procs |-> None]
  /\ l1 = [p \in Procs |-> [e \in Epochs |-> None]]
  /\ pc = [r \in Readers |-> "idle"]
  /\ ctx = [r \in Readers |-> None]
  /\ val = [r \in Readers |-> None]
  /\ owns = [r \in Readers |-> {}]
  /\ waits = [r \in Readers |-> None]
  /\ floor = [e \in Epochs |-> IF e = 0 THEN db ELSE None]

-----------------------------------------------------------------------------
(***************************************************************************)
(* The tracker's side.                                                     *)
(***************************************************************************)

\* begin_event_update; its failure is only logged and the update goes on.
BeginUpdate ==
  /\ upd = "idle" /\ epoch < MaxEpoch
  /\ upd' \in {"persist", "profiles"}
  /\ \/ dirty' = TRUE
     \/ "begin_lost" \in Faults /\ dirty' = dirty
  /\ UNCHANGED <<db, wrote, epoch, l2, neg, late, floor, localVars, reqVars>>

\* The user-dimension upsert commits on its own, before the transaction.
CommitUsers ==
  /\ upd \in {"persist", "profiles"} /\ db.users < MaxUsers
  /\ db' = [db EXCEPT !.users = @ + 1]
  /\ UNCHANGED <<upd, wrote, redisVars, localVars, reqVars>>

\* A ranking transaction commits; when its acknowledgement is lost the
\* tracker takes it for a failed insert.
CommitRows ==
  /\ upd = "persist" /\ db.rows < MaxRows
  /\ db' = [db EXCEPT !.rows = @ + 1]
  /\ \/ wrote' = TRUE
     \/ "unacked" \in Faults /\ wrote' = wrote
  /\ UNCHANGED <<upd, redisVars, localVars, reqVars>>

\* Mutant: the epoch skips a number.
FinishIncr_ByTwo ==
  /\ (upd = "profiles" \/ (upd = "persist" /\ wrote)) /\ epoch < MaxEpoch
  /\ epoch' = epoch + 2
  /\ floor' = [floor EXCEPT ![epoch + 1] = db]
  /\ upd' = "bumped"
  /\ UNCHANGED <<db, wrote, dirty, l2, neg, late, localVars, reqVars>>

\* First command of finish_event_update's pipeline: the epoch is published.
FinishIncr ==
  /\ (upd = "profiles" \/ (upd = "persist" /\ wrote)) /\ epoch < MaxEpoch
  /\ epoch' = epoch + 1
  /\ floor' = [floor EXCEPT ![epoch + 1] = db]
  /\ upd' = "bumped"
  /\ UNCHANGED <<db, wrote, dirty, l2, neg, late, localVars, reqVars>>

\* Second command of the pipeline.
FinishDel ==
  /\ upd = "bumped"
  /\ dirty' = FALSE
  /\ upd' = "idle" /\ wrote' = FALSE
  /\ UNCHANGED <<db, epoch, l2, neg, late, floor, localVars, reqVars>>

\* Mutant: the update is aborted although ranking rows were written.
AbortUpdate_Always ==
  /\ upd \in {"persist", "profiles"}
  /\ dirty' = FALSE /\ upd' = "idle" /\ wrote' = FALSE
  /\ UNCHANGED <<db, epoch, l2, neg, late, floor, localVars, reqVars>>

\* abort_event_update: no ranking row of this update was written.
AbortUpdate ==
  /\ upd \in {"persist", "profiles"} /\ ~wrote
  /\ \/ dirty' = FALSE
     \/ "abort_lost" \in Faults /\ dirty' = dirty
  /\ upd' = "idle"
  /\ UNCHANGED <<db, wrote, epoch, l2, neg, late, floor, localVars, reqVars>>

\* The pipeline fails before or between its commands (only logged), or the
\* tracker dies: in both cases nothing more of this update is executed.
LoseUpdate ==
  /\ \/ "finish_lost" \in Faults /\ (upd \in {"bumped", "profiles"} \/ wrote)
     \/ "crash" \in Faults
  /\ upd # "idle"
  /\ upd' = "idle" /\ wrote' = FALSE
  /\ UNCHANGED <<db, redisVars, localVars, reqVars>>

\* The flag's 300 s run out: after a lost finish, or under a slow update.
DirtyExpires ==
  /\ dirty
  /\ upd = "idle" \/ "slow" \in Faults
  /\ dirty' = FALSE
  /\ UNCHANGED <<trackerVars, epoch, l2, neg, late, floor, localVars, reqVars>>

Tracker ==
  \/ BeginUpdate \/ CommitUsers \/ CommitRows \/ FinishIncr \/ FinishDel
  \/ AbortUpdate \/ LoseUpdate \/ DirtyExpires

-----------------------------------------------------------------------------
(***************************************************************************)
(* Expiry and eviction.                                                    *)
(***************************************************************************)
ExpireL2(e) ==
  /\ l2[e] # None \/ neg[e] # None
  /\ \/ l2' = [l2 EXCEPT ![e] = None] /\ neg' = neg
     \/ neg' = [neg EXCEPT ![e] = None] /\ l2' = l2
  /\ UNCHANGED <<trackerVars, epoch, dirty, late, floor, localVars, reqVars>>

ExpireControl(p) ==
  /\ control[p] # None
  /\ control' = [control EXCEPT ![p] = None]
  /\ UNCHANGED <<trackerVars, redisVars, l1, reqVars>>

ExpireL1(p, e) ==
  /\ l1[p][e] # None
  /\ l1' = [l1 EXCEPT ![p][e] = None]
  /\ UNCHANGED <<trackerVars, redisVars, control, reqVars>>

-----------------------------------------------------------------------------
(***************************************************************************)
(* A request: get_or_fetch_bytes_with_options.                             *)
(***************************************************************************)

\* Where a request goes on when it runs the future guarded by a flight.
Body(key) == CASE key[1] = "dirty" -> "rows"
               [] key = LookupKey(None) -> "readall"
               [] OTHER -> "readval"

Owners(p, key) == {s \in Readers : Home[s] = p /\ key \in owns[s]}

\* SingleFlight::begin: own the key, or wait for its present owner.
EnterFlight(r, key) ==
  \/ /\ Owners(Home[r], key) = {}
     /\ owns' = [owns EXCEPT ![r] = @ \cup {key}]
     /\ pc' = [pc EXCEPT ![r] = Body(key)]
     /\ UNCHANGED waits
  \/ /\ \E s \in Owners(Home[r], key) : waits' = [waits EXCEPT ![r] = <<s, key>>]
     /\ pc' = [pc EXCEPT ![r] = "wait"]
     /\ UNCHANGED owns

\* A request arrives and consults the L1 of its process.
StartUnknown(r) ==
  /\ pc[r] = "idle" /\ control[Home[r]] = None
  /\ ctx' = [ctx EXCEPT ![r] = None]
  /\ EnterFlight(r, LookupKey(None))
  /\ UNCHANGED <<trackerVars, redisVars, localVars, val>>

StartDirty(r) ==
  /\ pc[r] = "idle" /\ control[Home[r]] # None /\ control[Home[r]].dirty
  /\ ctx' = [ctx EXCEPT ![r] = None]
  /\ EnterFlight(r, DirtyKey(control[Home[r]].epoch))
  /\ UNCHANGED <<trackerVars, redisVars, localVars, val>>

StartClean(r) ==
  /\ pc[r] = "idle" /\ control[Home[r]] # None /\ ~control[Home[r]].dirty
  /\ LET e == control[Home[r]].epoch
         v == l1[Home[r]][e]
     IN  /\ ctx' = [ctx EXCEPT ![r] = e]
         /\ \/ /\ v # None
               /\ val' = [val EXCEPT ![r] = v]
               /\ pc' = [pc EXCEPT ![r] = "done"]
               /\ UNCHANGED <<owns, waits>>
            \/ /\ v = None
               /\ EnterFlight(r, LookupKey(e))
               /\ UNCHANGED val
  /\ UNCHANGED <<trackerVars, redisVars, localVars>>

\* READ_SCRIPT runs at Redis (read_l2_combined); an error means a plain fetch.
ReadCombined(r) ==
  /\ pc[r] = "readall"
  /\ \/ /\ ctx' = [ctx EXCEPT ![r] = epoch]
        /\ LET v == IF dirty THEN None ELSE IF l2[epoch] # None THEN l2[epoch] ELSE neg[epoch]
           IN  /\ val' = [val EXCEPT ![r] = v]
               /\ pc' = [pc EXCEPT ![r] = IF dirty THEN "dirty"
                                          ELSE IF v # None THEN "hit" ELSE "miss"]
     \/ /\ pc' = [pc EXCEPT ![r] = "rows"]
        /\ UNCHANGED <<ctx, val>>
  /\ UNCHANGED <<trackerVars, redisVars, localVars, owns, waits>>

\* store_l1_control with the answer just received, however old it is by now.
StoreControl(r, isDirty) ==
  control' = [control EXCEPT ![Home[r]] = [epoch |-> ctx[r], dirty |-> isDirty]]

\* Mutant: the L1 key is built from Redis' epoch of the moment.
StoreL1_CurrentKey(r, v) ==
  IF Absent(v) THEN UNCHANGED l1 ELSE l1' = [l1 EXCEPT ![Home[r]][epoch] = v]

\* store_l1_value; 404s are never kept in L1.
StoreL1(r, v) ==
  IF Absent(v) THEN UNCHANGED l1 ELSE l1' = [l1 EXCEPT ![Home[r]][ctx[r]] = v]

ReplyDirty(r) ==
  /\ pc[r] = "dirty"
  /\ StoreControl(r, TRUE)
  /\ EnterFlight(r, DirtyKey(ctx[r]))
  /\ ctx' = [ctx EXCEPT ![r] = None]
  /\ UNCHANGED <<trackerVars, redisVars, l1, val>>

ReplyHit(r) ==
  /\ pc[r] = "hit"
  /\ StoreControl(r, FALSE)
  /\ StoreL1(r, val[r])
  /\ pc' = [pc EXCEPT ![r] = "done"]
  /\ UNCHANGED <<trackerVars, redisVars, ctx, val, owns, waits>>

ReplyMiss(r) ==
  /\ pc[r] = "miss"
  /\ StoreControl(r, FALSE)
  /\ pc' = [pc EXCEPT ![r] = "rows"]
  /\ UNCHANGED <<trackerVars, redisVars, l1, ctx, val, owns, waits>>

\* Mutant: an L2 hit also renews the L1 control it was found through.
ReadValue_RefreshControl(r) ==
  /\ pc[r] = "readval"
  /\ LET v == IF l2[ctx[r]] # None THEN l2[ctx[r]] ELSE neg[ctx[r]]
     IN  \/ /\ v # None
            /\ val' = [val EXCEPT ![r] = v]
            /\ StoreL1(r, v)
            /\ StoreControl(r, FALSE)
            /\ pc' = [pc EXCEPT ![r] = "done"]
         \/ /\ v = None
            /\ pc' = [pc EXCEPT ![r] = "rows"]
            /\ UNCHANGED <<val, l1, control>>
  /\ UNCHANGED <<trackerVars, redisVars, ctx, owns, waits>>

\* read_l2_value under the L1 control's epoch: Redis' own epoch and dirty
\* flag are not consulted on this path.
ReadValue(r) ==
  /\ pc[r] = "readval"
  /\ \/ LET v == IF l2[ctx[r]] # None THEN l2[ctx[r]] ELSE neg[ctx[r]]
        IN  /\ UNCHANGED ctx
            /\ \/ /\ v # None
                  /\ val' = [val EXCEPT ![r] = v]
                  /\ StoreL1(r, v)
                  /\ pc' = [pc EXCEPT ![r] = "done"]
               \/ /\ v = None
                  /\ pc' = [pc EXCEPT ![r] = "rows"]
                  /\ UNCHANGED <<val, l1>>
     \/ /\ ctx' = [ctx EXCEPT ![r] = None]
        /\ pc' = [pc EXCEPT ![r] = "rows"]
        /\ UNCHANGED <<val, l1>>
  /\ UNCHANGED <<trackerVars, redisVars, control, owns, waits>>

\* The handler's queries, no transaction around them: any one of its ranking
\* queries (an overview runs several, which may see different versions; what
\* holds of each holds of all), then the last look at the users.
FetchRows(r) ==
  /\ pc[r] = "rows"
  /\ val' = [val EXCEPT ![r] = [rows |-> db.rows, users |-> 0]]
  /\ pc' = [pc EXCEPT ![r] = "users"]
  /\ UNCHANGED <<trackerVars, redisVars, localVars, ctx, owns, waits>>

FetchUsers(r) ==
  /\ pc[r] = "users"
  /\ val' = [val EXCEPT ![r] = [rows |-> val[r].rows, users |-> db.users]]
  /\ pc' = [pc EXCEPT ![r] = IF ctx[r] = None THEN "done" ELSE "write"]
  /\ UNCHANGED <<trackerVars, redisVars, localVars, ctx, owns, waits>>

\* Mutant: WRITE_SCRIPT without its epoch check.
MayWrite_NoEpochCheck(e) == ~dirty

\* What WRITE_SCRIPT demands before it stores a value computed for epoch e.
MayWrite(e) == epoch = e /\ ~dirty

\* WRITE_SCRIPT's effect on Redis: a value, or a negative entry for a 404.
RunWrite(e, v) ==
  IF ~MayWrite(e) THEN UNCHANGED <<l2, neg>>
  ELSE IF Absent(v) THEN neg' = [neg EXCEPT ![e] = v] /\ UNCHANGED l2
  ELSE l2' = [l2 EXCEPT ![e] = v] /\ UNCHANGED neg

\* write_l2_if_clean answered: L1 keeps a value only if Redis took it.
WriteBack(r) ==
  /\ pc[r] = "write"
  /\ RunWrite(ctx[r], val[r])
  /\ IF MayWrite(ctx[r]) THEN StoreL1(r, val[r]) ELSE UNCHANGED l1
  /\ pc' = [pc EXCEPT ![r] = "done"]
  /\ UNCHANGED <<trackerVars, epoch, dirty, late, floor, control, ctx, val, owns, waits>>

\* write_l2_if_clean failed or timed out: answer anyway, store nothing in
\* L1; the command may have been lost or may still be executed later.
WriteTimeout(r) ==
  /\ pc[r] = "write"
  /\ \/ late' = late
     \/ /\ Cardinality(late) < MaxLate
        /\ late' = late \cup {[ctx |-> ctx[r], val |-> val[r]]}
  /\ pc' = [pc EXCEPT ![r] = "done"]
  /\ UNCHANGED <<trackerVars, epoch, dirty, l2, neg, floor, localVars, ctx, val, owns, waits>>

\* Mutant: a retried write rebuilds its context.
LateWrite_NewContext(w) ==
  /\ w \in late
  /\ RunWrite(epoch, w.val)
  /\ late' = late \ {w}
  /\ UNCHANGED <<trackerVars, epoch, dirty, floor, localVars, reqVars>>

\* A timed-out write reaches Redis after all.
LateWrite(w) ==
  /\ w \in late
  /\ RunWrite(w.ctx, w.val)
  /\ late' = late \ {w}
  /\ UNCHANGED <<trackerVars, epoch, dirty, floor, localVars, reqVars>>

Followers(r) == {s \in Readers : waits[s] # None /\ waits[s][1] = r}

\* The answer goes out, and through guard.finish to everyone waiting for it.
Finish(r) ==
  /\ pc[r] = "done"
  /\ pc' = [s \in Readers |-> IF s = r THEN "idle"
                              ELSE IF s \in Followers(r) THEN "done" ELSE pc[s]]
  /\ val' = [s \in Readers |-> IF s = r THEN None
                               ELSE IF s \in Followers(r) THEN val[r] ELSE val[s]]
  /\ waits' = [s \in Readers |-> IF s \in Followers(r) THEN None ELSE waits[s]]
  /\ owns' = [owns EXCEPT ![r] = {}]
  /\ ctx' = [ctx EXCEPT ![r] = None]
  /\ UNCHANGED <<trackerVars, redisVars, localVars>>

\* Mutant: the guard has no Drop, the key stays owned for ever.
Fail_NoGuard(r) ==
  /\ pc[r] \in Reading \cup {"wait"}
  /\ pc' = [pc EXCEPT ![r] = "idle"]
  /\ waits' = [waits EXCEPT ![r] = None]
  /\ ctx' = [ctx EXCEPT ![r] = None]
  /\ val' = [val EXCEPT ![r] = None]
  /\ UNCHANGED <<trackerVars, redisVars, localVars, owns>>

\* A database error, or the client goes away and the future is dropped: the
\* guard hands None to the waiters, each runs the guarded future by itself.
Fail(r) ==
  /\ pc[r] \in Reading \cup {"wait"}
  /\ pc' = [s \in Readers |-> IF s = r THEN "idle"
                              ELSE IF s \in Followers(r) THEN Body(waits[s][2]) ELSE pc[s]]
  /\ waits' = [s \in Readers |-> IF s = r \/ s \in Followers(r) THEN None ELSE waits[s]]
  /\ owns' = [owns EXCEPT ![r] = {}]
  /\ ctx' = [ctx EXCEPT ![r] = None]
  /\ val' = [val EXCEPT ![r] = None]
  /\ UNCHANGED <<trackerVars, redisVars, localVars>>

Start(r) == StartUnknown(r) \/ StartDirty(r) \/ StartClean(r)

Proceed(r) ==
  \/ ReadCombined(r) \/ ReplyDirty(r) \/ ReplyHit(r) \/ ReplyMiss(r)
  \/ ReadValue(r) \/ FetchRows(r) \/ FetchUsers(r)
  \/ WriteBack(r) \/ WriteTimeout(r) \/ Finish(r)

Next ==
  \/ Tracker
  \/ \E e \in Epochs : ExpireL2(e)
  \/ \E p \in Procs : ExpireControl(p) \/ \E e \in Epochs : ExpireL1(p, e)
  \/ \E w \in late : LateWrite(w)
  \/ \E r \in Readers : Start(r) \/ Proceed(r) \/ Fail(r)

Spec == Init /\ [][Next]_vars

(***************************************************************************)
(* The runtime polls every future that can go on, and every command or     *)
(* query returns (command_timeout_ms, the drivers' errors); an L1 control     *)
(* is dropped once its deadline has passed.                                *)
(***************************************************************************)
Fairness ==
  /\ \A r \in Readers : WF_vars(Proceed(r))
  /\ \A p \in Procs : WF_vars(ExpireControl(p))

FairSpec == Spec /\ Fairness

-----------------------------------------------------------------------------
(***************************************************************************)
(* Properties.                                                             *)
(***************************************************************************)
AtLeast(v, w) == v.rows >= w.rows /\ v.users >= w.users

\* Everything cached under an epoch, wherever it is cached.
CachedUnder(e) ==
  ({l2[e], neg[e]} \cup {l1[p][e] : p \in Procs}) \ {None}

\* Nothing cached under a published epoch, in Redis or in a process, misses
\* a transaction that was committed before that epoch was published: the
\* epoch in a value's key is a lower bound on its content.  It holds under
\* every fault of the tracker.
CacheFloor ==
  \A e \in Epochs : \A v \in CachedUnder(e) :
    e <= epoch /\ AtLeast(v, floor[e])

\* Without faults, everything cached under an epoch shows exactly the
\* ranking transactions that were committed when the epoch was published:
\* never a half-done update, although a request may fetch in the middle of
\* one and write its result after it.
PublishedOnly ==
  \A e \in Epochs : \A v \in CachedUnder(e) : v.rows = floor[e].rows

\* Every request is answered or fails.
RequestCompletes == \A r \in Readers : pc[r] # "idle" ~> pc[r] = "idle"

\* Once an epoch is published, from some moment on every answer contains
\* what it published: stale controls, values and flights die out and are
\* not brought back by slow requests.
EventuallyCurrent ==
  \A e \in Epochs : epoch >= e ~>
    [](\A r \in Readers : epoch >= e /\ pc[r] = "done" => AtLeast(val[r], floor[e]))

-----------------------------------------------------------------------------
(***************************************************************************)
(* What the cache is checked against is what the tracker does: as          *)
(* EventTracker's, the updates here are those of UpdateProtocol.  Once     *)
(* "bumped", an update has published and is closed for the database.       *)
(***************************************************************************)
Protocol == INSTANCE UpdateProtocol WITH
  MayLose <- Faults # {},
  phase <- CASE upd = "persist" -> "rows"
             [] upd = "profiles" -> "profiles"
             [] OTHER -> "closed",
  wrote <- upd = "persist" /\ wrote,
  unpublished <- db.rows # floor[epoch].rows

\* Every step of the tracker's side of the cache is a step of the protocol:
\* rows are committed only in an open update, and exactly those since the last
\* finish are in no published epoch.
ImplementsProtocol == Protocol!Spec
=============================================================================
