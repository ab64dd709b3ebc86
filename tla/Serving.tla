------------------------------ MODULE Serving ------------------------------
(***************************************************************************)
(* How expensive responses are served: the overview of an event, which the *)
(* cache keeps as JSON and as gzip (the encoded paths of api/cache.rs),    *)
(* and traces, whose query needs a permit of two semaphores                *)
(* (api/limiter.rs) and runs inside a SingleFlight or, for private         *)
(* look-ups, on its own.  ApiCache models the identity path with every     *)
(* fault of the tracker; here the tracker is orderly, and what matters is  *)
(* how the two encodings, the flights and the permits share their state.   *)
(*                                                                         *)
(* A response is abstracted to the version of the tables it shows and to   *)
(* whether its bytes are compressed.                                       *)
(***************************************************************************)
EXTENDS Integers, FiniteSets

CONSTANTS
  Requests,
  Suffixes,     \* what is cached: the key suffixes of responses
  Regions,      \* game servers, each with a semaphore of its own
  Kinds,        \* descriptions of requests, see KindsAssumption
  Mixes,        \* the kinds of requests that are under way together
  GlobalMax,    \* trace_global_max_concurrency, 0: unlimited
  ServerMax,    \* trace_per_server_max_concurrency, 0: unlimited
  Big,          \* suffixes and versions of precompress_min_bytes and more
  Huge,         \* those of more than max_value_bytes
  MaxUpdates, MaxFaults,   \* bounds
  None

ASSUME KindsAssumption ==
  Kinds \subseteq [cached : BOOLEAN,      \* or a private look-up
                   suffix : Suffixes,
                   gzip : BOOLEAN,        \* the client accepts gzip
                   limited : BOOLEAN,     \* the query needs a permit
                   region : Regions]
ASSUME MixesAssumption == Mixes \subseteq [Requests -> Kinds]
ASSUME BoundsAssumption ==
  /\ GlobalMax \in Nat /\ ServerMax \in Nat
  /\ Big \cup Huge \subseteq Suffixes \X Nat
  /\ MaxUpdates \in Nat /\ MaxFaults \in Nat

Versions == 0..MaxUpdates
Epochs == 0..MaxUpdates
Unknown == -1     \* the epoch in the key of a flight without an L1 control

Responses == [version : Versions, gzip : BOOLEAN]
\* CachedJson: the bytes, and the Content-Encoding they are sent with.
Answers == [version : Versions, gzip : BOOLEAN, label : BOOLEAN]

Keys == [what : {"lookup", "fetch"}, suffix : Suffixes, gzip : BOOLEAN,
         epoch : Epochs \cup {Unknown}]

ASSUME NoneAssumption ==
  /\ None \notin Keys /\ None \notin Responses /\ None \notin Answers
  /\ None \notin Int

VARIABLES
  db, update,       \* the tracker: versions committed, its place in an update
  epoch, dirty,     \* Redis: the event's epoch and dirty flag
  control,          \* L1: the epoch and dirty flag, None when expired
  l1, l2,           \* values by suffix, encoding and epoch
  late,             \* writes whose caller timed out
  kind, pc,         \* of a request: what it asks, where it is
  at,               \* the epoch of its keys and writes, Unknown, or None
  data,             \* the response it has, then its answer
  owned, awaited,   \* flights it owns; the one it waits for
  held,             \* its permits
  faults

tracker == <<db, update, epoch, dirty>>
caches  == <<control, l1, l2, late>>
flights == <<owned, awaited>>
request == <<kind, pc, at, data, flights, held>>
vars == <<tracker, caches, request, faults>>

Entries == [Suffixes \X BOOLEAN \X Epochs -> Versions \cup {None}]
Nothing == [k \in Suffixes \X BOOLEAN \X Epochs |-> None]

Key_NoVariant(k, what, e) ==
  [what |-> what, suffix |-> k.suffix, gzip |-> FALSE, epoch |-> e]

\* lookup_flight_key, dirty_flight_key and their gzip variants.
Key(k, what, e) ==
  [what |-> what, suffix |-> k.suffix, gzip |-> k.gzip, epoch |-> e]

TypeOK ==
  /\ db \in Versions /\ epoch \in Epochs /\ dirty \in BOOLEAN
  /\ update \in {"idle", "begun", "committed", "bumped"}
  /\ control \in [epoch : Epochs, dirty : BOOLEAN] \cup {None}
  /\ l1 \in Entries /\ l2 \in Entries
  /\ late \subseteq [at : Epochs, suffix : Suffixes, gzip : BOOLEAN,
                     version : Versions]
  /\ kind \in [Requests -> Kinds]
  /\ pc \in [Requests -> {"start", "wait", "shared", "read", "global", "server",
               "query", "encode", "encodefirst", "write", "done"}]
  /\ at \in [Requests -> Epochs \cup {Unknown, None}]
  /\ data \in [Requests -> Responses \cup Answers \cup {None}]
  /\ owned \in [Requests -> SUBSET Keys]
  /\ awaited \in [Requests -> Keys \cup {None}]
  /\ held \in [Requests -> SUBSET {"global", "server"}]
  /\ faults \in 0..MaxFaults
  /\ \A r, s \in Requests : r # s => owned[r] \cap owned[s] = {}
  /\ \A r \in Requests : pc[r] = "done" => owned[r] = {}

Init ==
  /\ db = 0 /\ update = "idle" /\ epoch = 0 /\ dirty = FALSE
  /\ control = None /\ l1 = Nothing /\ l2 = Nothing /\ late = {}
  /\ kind \in Mixes
  /\ pc = [r \in Requests |-> IF kind[r].cached THEN "start" ELSE "global"]
  /\ at = [r \in Requests |-> None] /\ data = at /\ awaited = at
  /\ owned = [r \in Requests |-> {}] /\ held = owned
  /\ faults = 0

-----------------------------------------------------------------------------
(* The tracker brackets a commit with the dirty flag and the epoch.  *)

BeginUpdate ==
  /\ update = "idle" /\ db < MaxUpdates
  /\ update' = "begun" /\ dirty' = TRUE
  /\ UNCHANGED <<db, epoch, caches, request, faults>>

Commit ==
  /\ update = "begun" /\ update' = "committed" /\ db' = db + 1
  /\ UNCHANGED <<epoch, dirty, caches, request, faults>>

FinishIncr ==
  /\ update = "committed" /\ update' = "bumped" /\ epoch' = epoch + 1
  /\ UNCHANGED <<db, dirty, caches, request, faults>>

FinishDel ==
  /\ update = "bumped" /\ update' = "idle" /\ dirty' = FALSE
  /\ UNCHANGED <<db, epoch, caches, request, faults>>

-----------------------------------------------------------------------------
(* The caches lose what expires or is evicted.  *)

ExpireControl ==
  /\ control # None /\ control' = None
  /\ UNCHANGED <<tracker, l1, l2, late, request, faults>>

ExpireL1 ==
  /\ \E k \in DOMAIN l1 : l1[k] # None /\ l1' = [l1 EXCEPT ![k] = None]
  /\ UNCHANGED <<tracker, control, l2, late, request, faults>>

ExpireL2 ==
  /\ \E k \in DOMAIN l2 : l2[k] # None /\ l2' = [l2 EXCEPT ![k] = None]
  /\ UNCHANGED <<tracker, control, l1, late, request, faults>>

-----------------------------------------------------------------------------
(* SingleFlight.  *)

\* What an owner does under a flight of this key, and a waiter whose owner
\* had nothing to share.
Task(key) == IF key.what = "lookup" THEN "read" ELSE "global"

Enter_Twice(r, key) ==
  /\ pc' = [pc EXCEPT ![r] = Task(key)]
  /\ owned' = [owned EXCEPT ![r] = @ \cup {key}]
  /\ UNCHANGED awaited

\* SingleFlight::begin.  A trace's query starts with the permits; a query
\* that needs none passes through.
Enter(r, key) ==
  IF \E s \in Requests : key \in owned[s]
  THEN /\ pc' = [pc EXCEPT ![r] = "wait"]
       /\ awaited' = [awaited EXCEPT ![r] = key]
       /\ UNCHANGED owned
  ELSE /\ pc' = [pc EXCEPT ![r] = Task(key)]
       /\ owned' = [owned EXCEPT ![r] = @ \cup {key}]
       /\ UNCHANGED awaited

Waiters(r) == {s \in Requests : awaited[s] # None /\ awaited[s] \in owned[r]}

\* An answer: get_or_fetch_encoded_json labels what the identity path yields
\* as identity; the encoded path passes on what it shares with its flight.
Answer(r, response) ==
  [version |-> response.version, gzip |-> response.gzip,
   label |-> kind[r].gzip /\ response.gzip]

\* The guard's finish with a result, which every waiter is given.
Finished(r, response) ==
  /\ pc' = [s \in Requests |-> IF s = r THEN "done"
                               ELSE IF s \in Waiters(r) THEN "shared" ELSE pc[s]]
  /\ data' = [s \in Requests |-> IF s = r THEN Answer(r, response)
                                 ELSE IF s \in Waiters(r) THEN response
                                 ELSE data[s]]
  /\ awaited' = [s \in Requests |-> IF s \in Waiters(r) THEN None ELSE awaited[s]]
  /\ owned' = [owned EXCEPT ![r] = {}]

Failed_Kept(r) ==
  /\ pc' = [pc EXCEPT ![r] = "done"]
  /\ data' = [data EXCEPT ![r] = None]
  /\ awaited' = [awaited EXCEPT ![r] = None]
  /\ owned' = [owned EXCEPT ![r] = {}]

\* The guard finishes with None, or is dropped with the request: every waiter
\* does the work itself, outside any flight.
Failed(r) ==
  /\ pc' = [s \in Requests |-> IF s = r THEN "done"
                               ELSE IF s \in Waiters(r) THEN Task(awaited[s])
                               ELSE pc[s]]
  /\ data' = [data EXCEPT ![r] = None]
  /\ awaited' = [s \in Requests |-> IF s = r \/ s \in Waiters(r) THEN None
                                    ELSE awaited[s]]
  /\ owned' = [owned EXCEPT ![r] = {}]

\* A waiter wakes up; it may be the owner of another flight in turn.
Share(r) ==
  /\ pc[r] = "shared" /\ Finished(r, data[r])
  /\ UNCHANGED <<tracker, caches, kind, at, held, faults>>

-----------------------------------------------------------------------------
(* get_or_fetch_bytes_with_options and its precompressed variant.  *)

IsBig(r, version) == <<kind[r].suffix, version>> \in Big
IsHuge(r, version) == <<kind[r].suffix, version>> \in Huge

Plain(version) == [version |-> version, gzip |-> FALSE]
Zipped(version) == [version |-> version, gzip |-> TRUE]
L1Value(r, zip, e) == l1[<<kind[r].suffix, zip, e>>]

StartUnknown(r) ==
  /\ pc[r] = "start" /\ control = None
  /\ at' = [at EXCEPT ![r] = Unknown]
  /\ Enter(r, Key(kind[r], "lookup", Unknown))
  /\ UNCHANGED <<tracker, caches, kind, data, held, faults>>

\* A dirty event: the query is shared but nothing is written.
StartDirty(r) ==
  /\ pc[r] = "start" /\ control # None /\ control.dirty
  /\ Enter(r, Key(kind[r], "fetch", control.epoch))
  /\ UNCHANGED <<tracker, caches, kind, at, data, held, faults>>

\* L1 may have the encoding that is asked for, or the JSON to compress.
StartClean(r) ==
  /\ pc[r] = "start" /\ control # None /\ ~control.dirty
  /\ LET e == control.epoch
         zip == kind[r].gzip
     IN \/ /\ zip /\ L1Value(r, TRUE, e) # None
           /\ Finished(r, Zipped(L1Value(r, TRUE, e)))
           /\ UNCHANGED at
        \/ /\ ~zip /\ L1Value(r, FALSE, e) # None
           /\ Finished(r, Plain(L1Value(r, FALSE, e)))
           /\ UNCHANGED at
        \/ /\ zip /\ L1Value(r, TRUE, e) = None /\ L1Value(r, FALSE, e) # None
           /\ pc' = [pc EXCEPT ![r] = "encode"]
           /\ data' = [data EXCEPT ![r] = Plain(L1Value(r, FALSE, e))]
           /\ at' = [at EXCEPT ![r] = e]
           /\ UNCHANGED flights
        \/ /\ L1Value(r, zip, e) = None /\ L1Value(r, FALSE, e) = None
           /\ at' = [at EXCEPT ![r] = e]
           /\ Enter(r, Key(kind[r], "lookup", e))
           /\ UNCHANGED data
  /\ UNCHANGED <<tracker, caches, kind, held, faults>>

\* With JSON at hand: compressed first for a client that accepts it.
Found(r, version) ==
  IF kind[r].gzip
  THEN /\ pc' = [pc EXCEPT ![r] = "encode"]
       /\ data' = [data EXCEPT ![r] = Plain(version)]
       /\ UNCHANGED flights
  ELSE Finished(r, Plain(version))

ToQuery(r) == /\ pc' = [pc EXCEPT ![r] = "global"]
              /\ UNCHANGED <<data, flights>>

\* read_l2_combined: epoch, flag and JSON in one script; the compressed value
\* is not looked for.
ReadCombined(r) ==
  /\ pc[r] = "read" /\ at[r] = Unknown
  /\ control' = [epoch |-> epoch, dirty |-> dirty]
  /\ LET entry == <<kind[r].suffix, FALSE, epoch>>
     IN \/ /\ dirty
           /\ at' = [at EXCEPT ![r] = None]
           /\ Enter(r, Key(kind[r], "fetch", epoch))
           /\ UNCHANGED <<l1, data>>
        \/ /\ ~dirty /\ l2[entry] # None
           /\ at' = [at EXCEPT ![r] = epoch]
           /\ l1' = [l1 EXCEPT ![entry] = l2[entry]]
           /\ Found(r, l2[entry])
        \/ /\ ~dirty /\ l2[entry] = None
           /\ at' = [at EXCEPT ![r] = epoch]
           /\ ToQuery(r)
           /\ UNCHANGED l1
  /\ UNCHANGED <<tracker, l2, late, kind, held, faults>>

\* read_l2_value, read_l2_encoded: under the epoch of the L1 control, and with
\* no look at the dirty flag.
ReadValue(r) ==
  /\ pc[r] = "read" /\ at[r] \in Epochs
  /\ LET plain == <<kind[r].suffix, FALSE, at[r]>>
         zipped == <<kind[r].suffix, TRUE, at[r]>>
     IN \/ /\ kind[r].gzip /\ l2[zipped] # None
           /\ l1' = [l1 EXCEPT ![zipped] = l2[zipped]]
           /\ Finished(r, Zipped(l2[zipped]))
        \/ /\ kind[r].gzip => l2[zipped] = None
           /\ l2[plain] # None
           /\ l1' = [l1 EXCEPT ![plain] = l2[plain]]
           /\ Found(r, l2[plain])
        \/ /\ kind[r].gzip => l2[zipped] = None
           /\ l2[plain] = None
           /\ ToQuery(r) /\ UNCHANGED l1
  /\ UNCHANGED <<tracker, control, l2, late, kind, at, held, faults>>

\* Redis fails or is slow: the query runs and nothing is written.
ReadFails(r) ==
  /\ pc[r] = "read" /\ faults < MaxFaults /\ faults' = faults + 1
  /\ at' = [at EXCEPT ![r] = None] /\ ToQuery(r)
  /\ UNCHANGED <<tracker, caches, kind, held>>

-----------------------------------------------------------------------------
(* ApiQueryLimiter::acquire_trace: the global permit first, then the        *)
(* region's, each waited for at most acquire_timeout_ms.                    *)

Free(limit, holders) == limit # 0 => Cardinality(holders) < limit

GlobalFree == Free(GlobalMax, {s \in Requests : "global" \in held[s]})
ServerFree(region) ==
  Free(ServerMax, {s \in Requests : "server" \in held[s] /\ kind[s].region = region})

AcquireGlobal(r) ==
  /\ pc[r] = "global"
  /\ IF kind[r].limited
     THEN /\ GlobalFree
          /\ held' = [held EXCEPT ![r] = {"global"}]
          /\ pc' = [pc EXCEPT ![r] = "server"]
     ELSE pc' = [pc EXCEPT ![r] = "query"] /\ UNCHANGED held
  /\ UNCHANGED <<tracker, caches, kind, at, data, flights, faults>>

AcquireServer(r) ==
  /\ pc[r] = "server" /\ ServerFree(kind[r].region)
  /\ held' = [held EXCEPT ![r] = @ \cup {"server"}]
  /\ pc' = [pc EXCEPT ![r] = "query"]
  /\ UNCHANGED <<tracker, caches, kind, at, data, flights, faults>>

Refuse_Leak(r) ==
  /\ \/ pc[r] = "global" /\ kind[r].limited /\ ~GlobalFree
     \/ pc[r] = "server" /\ ~ServerFree(kind[r].region)
  /\ Failed(r)
  /\ UNCHANGED <<tracker, caches, kind, at, held, faults>>

\* The wait for a permit times out; the other permit, if held, is dropped.
Refuse(r) ==
  /\ \/ pc[r] = "global" /\ kind[r].limited /\ ~GlobalFree
     \/ pc[r] = "server" /\ ~ServerFree(kind[r].region)
  /\ Failed(r)
  /\ held' = [held EXCEPT ![r] = {}]
  /\ UNCHANGED <<tracker, caches, kind, at, faults>>

\* The query; its permits end with it.  An answer that is not to be written
\* is compressed all the same.
QueryDone(r) ==
  /\ pc[r] = "query" /\ held' = [held EXCEPT ![r] = {}]
  /\ IF ~kind[r].cached \/ at[r] = None \/ IsHuge(r, db)
     THEN Finished(r, [version |-> db, gzip |-> kind[r].gzip /\ IsBig(r, db)])
     ELSE /\ pc' = [pc EXCEPT ![r] =
                      IF kind[r].gzip /\ IsBig(r, db) THEN "encodefirst" ELSE "write"]
          /\ data' = [data EXCEPT ![r] = Plain(db)]
          /\ UNCHANGED flights
  /\ UNCHANGED <<tracker, caches, kind, at, faults>>

\* The query fails, or the client goes away and the request is dropped.
Fail(r) ==
  /\ pc[r] \notin {"start", "done"}
  /\ faults < MaxFaults /\ faults' = faults + 1
  /\ Failed(r) /\ held' = [held EXCEPT ![r] = {}]
  /\ UNCHANGED <<tracker, caches, kind, at>>

-----------------------------------------------------------------------------
(* Writing back.  *)

MayWrite_Dirty(e) == epoch = e

\* WRITE_SCRIPT
MayWrite(e) == epoch = e /\ ~dirty

Stored(cache, r, zip) ==
  [cache EXCEPT ![<<kind[r].suffix, zip, at[r]>>] = data[r].version]

\* encode_response: the compressed value is stored and then, when the JSON is
\* new, the JSON.  A small response is passed on as it is.
Encode(r) ==
  /\ pc[r] \in {"encode", "encodefirst"}
  /\ LET big == IsBig(r, data[r].version)
         written == big /\ MayWrite(at[r])
     IN /\ l2' = IF written THEN Stored(l2, r, TRUE) ELSE l2
        /\ l1' = IF written THEN Stored(l1, r, TRUE) ELSE l1
        /\ IF pc[r] = "encode"
           THEN Finished(r, [data[r] EXCEPT !.gzip = big])
           ELSE pc' = [pc EXCEPT ![r] = "write"] /\ UNCHANGED <<data, flights>>
  /\ UNCHANGED <<tracker, control, late, kind, at, held, faults>>

Write(r) ==
  /\ pc[r] = "write"
  /\ LET zip == kind[r].gzip /\ IsBig(r, data[r].version)
     IN /\ IF MayWrite(at[r])
           THEN /\ l2' = Stored(l2, r, FALSE)
                /\ l1' = IF zip THEN Stored(Stored(l1, r, FALSE), r, TRUE)
                                ELSE Stored(l1, r, FALSE)
           ELSE UNCHANGED <<l1, l2>>
        /\ Finished(r, [data[r] EXCEPT !.gzip = zip])
  /\ UNCHANGED <<tracker, control, late, kind, at, held, faults>>

\* A write times out at its caller; Redis may run it later.
WriteTimesOut(r) ==
  /\ faults < MaxFaults /\ faults' = faults + 1
  /\ LET big == IsBig(r, data[r].version)
         command(zip) == [at |-> at[r], suffix |-> kind[r].suffix, gzip |-> zip,
                          version |-> data[r].version]
     IN \/ /\ pc[r] = "write" /\ late' = late \cup {command(FALSE)}
           /\ Finished(r, [data[r] EXCEPT !.gzip = kind[r].gzip /\ big])
        \/ /\ pc[r] = "encode" /\ big /\ late' = late \cup {command(TRUE)}
           /\ Finished(r, Zipped(data[r].version))
        \/ /\ pc[r] = "encodefirst" /\ late' = late \cup {command(TRUE)}
           /\ pc' = [pc EXCEPT ![r] = "write"] /\ UNCHANGED <<data, flights>>
  /\ UNCHANGED <<tracker, control, l1, l2, kind, at, held>>

LateWrite ==
  /\ \E w \in late :
       /\ late' = late \ {w}
       /\ l2' = IF MayWrite(w.at)
                THEN [l2 EXCEPT ![<<w.suffix, w.gzip, w.at>>] = w.version] ELSE l2
  /\ UNCHANGED <<tracker, control, l1, request, faults>>

-----------------------------------------------------------------------------

Step(r) ==
  \/ StartUnknown(r) \/ StartDirty(r) \/ StartClean(r) \/ Share(r)
  \/ ReadCombined(r) \/ ReadValue(r)
  \/ AcquireGlobal(r) \/ AcquireServer(r) \/ QueryDone(r)
  \/ Encode(r) \/ Write(r)

Update == BeginUpdate \/ Commit \/ FinishIncr \/ FinishDel
Lose == ExpireControl \/ ExpireL1 \/ ExpireL2

Next ==
  \/ Update \/ Lose \/ LateWrite
  \/ \E r \in Requests : Step(r) \/ ReadFails(r) \/ Refuse(r) \/ Fail(r)
                           \/ WriteTimesOut(r)

Spec == Init /\ [][Next]_vars

\* Tasks are polled and queries return; nothing else has to happen, neither a
\* refusal nor an expiry.
LiveSpec == Spec /\ \A r \in Requests : WF_vars(Step(r))

-----------------------------------------------------------------------------
(* Properties.  *)

\* A response is sent with the Content-Encoding its bytes have, and gzip only
\* to a client that accepts it, whoever computed it: a waiter is handed the
\* bytes of its flight without a look at their encoding (cache.rs:1786-1801).
Readable ==
  \A r \in Requests : pc[r] = "done" /\ data[r] # None =>
    /\ data[r].gzip = data[r].label
    /\ data[r].gzip => kind[r].gzip

\* Under one epoch both encodings, in L1 and in L2, show the version that was
\* published with it, though they are written apart, by different requests
\* and late (cache.rs:1199-1256).
VariantsAgree ==
  \A k \in DOMAIN l2 : {l1[k], l2[k]} \subseteq {k[3], None}

\* A request has permits only while it waits for the second or queries, so
\* that refusals, failures and dropped requests cost no capacity
\* (limiter.rs:57-72).
PermitsMatch ==
  \A r \in Requests :
    held[r] = CASE pc[r] = "server" -> {"global"}
                [] pc[r] = "query" /\ kind[r].limited -> {"global", "server"}
                [] OTHER -> {}

\* Every request is answered: neither a flight whose owner waits for a permit
\* or for another flight, nor an owner that fails, leaves one behind
\* (cache.rs:1768-1801).
RequestCompletes == \A r \in Requests : <>(pc[r] = "done")

=============================================================================
