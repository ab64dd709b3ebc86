--------------------------- MODULE ApiCacheProofs ---------------------------
(***************************************************************************)
(* Proofs about ApiCache, for any processes, requests and bounds: its      *)
(* types, CacheFloor and UpdateProtocol under every fault, PublishedOnly   *)
(* without faults of the tracker.                                          *)
(***************************************************************************)
EXTENDS ApiCache, TLAPS

(***************************************************************************)
(* What a request holds at each point: the epoch of its keys when it is    *)
(* about to use one, a value when it is about to store or to answer it.    *)
(* Without it TypeOK is not inductive.                                     *)
(***************************************************************************)
RequestShape ==
  \A r \in Readers :
    /\ pc[r] \in {"dirty", "hit", "miss", "readval", "write"} => ctx[r] # None
    /\ pc[r] \in {"hit", "users", "write", "done"} => val[r] # None
    /\ waits[r] # None => pc[r] = "wait"
    /\ waits[r] # None /\ Body(waits[r][2]) = "readval" => ctx[r] # None

Shape == TypeOK /\ RequestShape

\* An abstract write of WRITE_SCRIPT keeps the types of both Redis slots.
LEMMA RunWriteType ==
  ASSUME TypeOK, NEW e \in Epochs, NEW v \in Snapshots, RunWrite(e, v)
  PROVE  /\ l2' \in [Epochs -> Snapshots \cup {None}]
         /\ neg' \in [Epochs -> Snapshots \cup {None}]
BY DEF TypeOK, RunWrite, MayWrite

\* Storing a value in a process' L1 keeps its type.
LEMMA StoreL1Type ==
  ASSUME TypeOK, NEW r \in Readers, NEW v \in Snapshots, ctx[r] # None, StoreL1(r, v)
  PROVE  l1' \in [Procs -> [Epochs -> Snapshots \cup {None}]]
<1>1. Home[r] \in Procs /\ ctx[r] \in Epochs
  BY ActorsAssumption DEF TypeOK
<1>2. [l1[Home[r]] EXCEPT ![ctx[r]] = v] \in [Epochs -> Snapshots \cup {None}]
  BY <1>1 DEF TypeOK
<1> QED
  BY <1>1, <1>2 DEF TypeOK, StoreL1

\* Joining or opening a flight keeps the types of the SingleFlight state.
LEMMA EnterFlightType ==
  ASSUME TypeOK, NEW r \in Readers, NEW key \in FlightKeys, EnterFlight(r, key)
  PROVE  /\ owns' \in [Readers -> SUBSET FlightKeys]
         /\ waits' \in [Readers -> (Readers \X FlightKeys) \cup {None}]
         /\ pc' \in [Readers -> PCs]
<1>1. Body(key) \in PCs
  BY DEF Body, PCs, Reading
<1>2. pc' = [pc EXCEPT ![r] = Body(key)] \/ pc' = [pc EXCEPT ![r] = "wait"]
  BY DEF EnterFlight
<1>3. pc' \in [Readers -> PCs]
  BY <1>1, <1>2 DEF TypeOK, PCs
<1>4. owns' \in [Readers -> SUBSET FlightKeys]
  <2>1. owns[r] \cup {key} \in SUBSET FlightKeys
    BY DEF TypeOK
  <2> QED
    BY <2>1 DEF EnterFlight, TypeOK
<1>5. waits' \in [Readers -> (Readers \X FlightKeys) \cup {None}]
  <2>1. CASE UNCHANGED waits
    BY <2>1 DEF TypeOK
  <2>2. ASSUME NEW s \in Owners(Home[r], key), waits' = [waits EXCEPT ![r] = <<s, key>>]
        PROVE  waits' \in [Readers -> (Readers \X FlightKeys) \cup {None}]
    <3>1. <<s, key>> \in Readers \X FlightKeys
      BY DEF Owners
    <3> QED
      BY <2>2, <3>1 DEF TypeOK
  <2> QED
    BY <2>1, <2>2 DEF EnterFlight
<1> QED
  BY <1>3, <1>4, <1>5

\* Every version the tracker can reach stays within its bound.
LEMMA TrackerType ==
  ASSUME TypeOK, Tracker
  PROVE  TypeOK' /\ UNCHANGED <<pc, ctx, val, waits>>
<1> USE BoundsAssumption DEF TypeOK, reqVars, localVars, redisVars, trackerVars
<1>1. CASE BeginUpdate
  BY <1>1 DEF BeginUpdate
<1>2. CASE CommitUsers
  <2>1. db.users \in 0 .. MaxUsers /\ db.users + 1 \in 0 .. MaxUsers
    BY <1>2 DEF CommitUsers, Snapshots
  <2>2. db' \in Snapshots
    BY <1>2, <2>1 DEF CommitUsers, Snapshots
  <2> QED
    BY <1>2, <2>2 DEF CommitUsers
<1>3. CASE CommitRows
  <2>1. db.rows \in 0 .. MaxRows /\ db.rows + 1 \in 0 .. MaxRows
    BY <1>3 DEF CommitRows, Snapshots
  <2>2. db' \in Snapshots
    BY <1>3, <2>1 DEF CommitRows, Snapshots
  <2> QED
    BY <1>3, <2>2 DEF CommitRows
<1>6. CASE AbortUpdate
  BY <1>6 DEF AbortUpdate
<1>5. CASE FinishDel
  BY <1>5 DEF FinishDel
<1>7. CASE LoseUpdate
  BY <1>7 DEF LoseUpdate
<1>8. CASE DirtyExpires
  BY <1>8 DEF DirtyExpires
<1>4. CASE FinishIncr
  BY <1>4 DEF FinishIncr, Epochs
<1> QED
  BY <1>1, <1>2, <1>3, <1>4, <1>5, <1>6, <1>7, <1>8 DEF Tracker

\* The keys of the two kinds of flight, and where their futures start.
LEMMA KeyFacts ==
  /\ \A e \in Epochs \cup {None} : LookupKey(e) \in FlightKeys /\ DirtyKey(e) \in FlightKeys
  /\ \A e \in Epochs \cup {None} : Body(DirtyKey(e)) = "rows"
  /\ \A e \in Epochs : Body(LookupKey(e)) = "readval"
  /\ Body(LookupKey(None)) = "readall"
  /\ \A key : Body(key) \in {"rows", "readall", "readval"}
BY NoneAssumption DEF LookupKey, DirtyKey, FlightKeys, Body

\* Joining a flight with no epoch, or a lookup with the key's own epoch,
\* keeps the shape of the request.
LEMMA EnterFlightShape ==
  ASSUME Shape, NEW r \in Readers, NEW key \in FlightKeys, EnterFlight(r, key),
         ctx' \in [Readers -> Epochs \cup {None}],
         \A s \in Readers \ {r} : ctx'[s] = ctx[s],
         UNCHANGED val,
         waits[r] = None,
         Body(key) = "readval" => ctx'[r] # None
  PROVE  RequestShape'
<1>1. Body(key) \in {"rows", "readall", "readval"}
  BY KeyFacts
<1>2. ASSUME NEW s \in Readers, s # r
      PROVE  pc'[s] = pc[s] /\ waits'[s] = waits[s] /\ ctx'[s] = ctx[s]
  BY <1>2 DEF EnterFlight, Shape, TypeOK
<1>3. CASE pc' = [pc EXCEPT ![r] = Body(key)] /\ UNCHANGED waits
  BY <1>1, <1>2, <1>3 DEF Shape, TypeOK, RequestShape
<1>4. CASE pc' = [pc EXCEPT ![r] = "wait"]
           /\ \E s \in Owners(Home[r], key) : waits' = [waits EXCEPT ![r] = <<s, key>>]
  <2>1. pc'[r] = "wait" /\ (waits'[r] # None => waits'[r][2] = key)
    BY <1>4 DEF Shape, TypeOK
  <2> QED
    BY <2>1, <1>2 DEF Shape, TypeOK, RequestShape
<1> QED
  BY <1>3, <1>4 DEF EnterFlight

\* A request's arrival.
LEMMA StartShape ==
  ASSUME Shape, NEW r \in Readers, Start(r)
  PROVE  Shape'
<1> USE DEF Shape
<1>0. waits[r] = None /\ Home[r] \in Procs
  BY ActorsAssumption DEF Start, StartUnknown, StartDirty, StartClean, RequestShape
<1>1. CASE StartUnknown(r)
  <2>1. LookupKey(None) \in FlightKeys /\ Body(LookupKey(None)) # "readval"
    BY KeyFacts
  <2>2. ctx' \in [Readers -> Epochs \cup {None}]
    BY <1>1 DEF StartUnknown, TypeOK
  <2>3. RequestShape'
    BY <1>0, <1>1, <2>1, <2>2, EnterFlightShape DEF StartUnknown, TypeOK
  <2>4. TypeOK'
    BY <1>1, <2>1, <2>2, EnterFlightType
    DEF StartUnknown, TypeOK, trackerVars, redisVars, localVars
  <2> QED
    BY <2>3, <2>4
<1>2. CASE StartDirty(r)
  <2> DEFINE key == DirtyKey(control[Home[r]].epoch)
  <2>1. control[Home[r]].epoch \in Epochs
    BY <1>0, <1>2 DEF StartDirty, TypeOK, Controls
  <2>2. key \in FlightKeys /\ Body(key) # "readval"
    BY <2>1, KeyFacts
  <2>3. ctx' \in [Readers -> Epochs \cup {None}]
    BY <1>2 DEF StartDirty, TypeOK
  <2>4. EnterFlight(r, key)
    BY <1>2 DEF StartDirty
  <2> HIDE DEF key
  <2>5. RequestShape'
    BY <1>0, <1>2, <2>2, <2>3, <2>4, EnterFlightShape DEF StartDirty, TypeOK
  <2>6. TypeOK'
    BY <1>2, <2>2, <2>3, <2>4, EnterFlightType
    DEF StartDirty, TypeOK, trackerVars, redisVars, localVars
  <2> QED
    BY <2>5, <2>6
<1>3. CASE StartClean(r)
  <2> DEFINE e == control[Home[r]].epoch
             v == l1[Home[r]][e]
  <2>1. e \in Epochs
    BY <1>0, <1>3 DEF StartClean, TypeOK, Controls
  <2>2. LookupKey(e) \in FlightKeys
    BY <2>1, KeyFacts
  <2>3. ctx' \in [Readers -> Epochs \cup {None}] /\ ctx'[r] # None
        /\ \A s \in Readers \ {r} : ctx'[s] = ctx[s]
    BY <1>3, <2>1, NoneAssumption DEF StartClean, TypeOK
  <2>4. v \in Snapshots \cup {None}
    BY <1>0, <2>1 DEF TypeOK
  <2>5. CASE v # None /\ val' = [val EXCEPT ![r] = v]
             /\ pc' = [pc EXCEPT ![r] = "done"] /\ UNCHANGED <<owns, waits>>
    <3>1. TypeOK'
      BY <1>3, <2>3, <2>4, <2>5
      DEF StartClean, TypeOK, trackerVars, redisVars, localVars, PCs
    <3>2. RequestShape'
      BY <1>0, <2>3, <2>4, <2>5 DEF TypeOK, RequestShape
    <3> QED
      BY <3>1, <3>2
  <2>6. CASE v = None /\ EnterFlight(r, LookupKey(e)) /\ UNCHANGED val
    <3> HIDE DEF e, v
    <3>1. RequestShape'
      BY <1>0, <2>2, <2>3, <2>6, EnterFlightShape
    <3>2. TypeOK'
      BY <1>3, <2>2, <2>3, <2>6, EnterFlightType
      DEF StartClean, TypeOK, trackerVars, redisVars, localVars
    <3> QED
      BY <3>1, <3>2
  <2> QED
    BY <1>3, <2>5, <2>6 DEF StartClean
<1> QED
  BY <1>1, <1>2, <1>3 DEF Start

\* Reads from Redis, the handler's queries and the replies.
LEMMA ReadShape ==
  ASSUME Shape, NEW r \in Readers,
         \/ ReadCombined(r) \/ ReplyDirty(r) \/ ReplyHit(r) \/ ReplyMiss(r)
         \/ ReadValue(r) \/ FetchRows(r) \/ FetchUsers(r)
  PROVE  Shape'
<1> USE DEF Shape, trackerVars, redisVars, localVars
<1>0. Home[r] \in Procs
  BY ActorsAssumption
<1>a. ASSUME ctx[r] # None, NEW b \in BOOLEAN, StoreControl(r, b)
      PROVE  control' \in [Procs -> Controls \cup {None}]
  BY <1>0, <1>a DEF StoreControl, TypeOK, Controls
<1>1. CASE ReadCombined(r)
  <2> DEFINE v == IF dirty THEN None ELSE IF l2[epoch] # None THEN l2[epoch] ELSE neg[epoch]
             at == IF dirty THEN "dirty" ELSE IF v # None THEN "hit" ELSE "miss"
  <2>1. /\ epoch \in Epochs /\ epoch # None
        /\ v \in Snapshots \cup {None}
        /\ waits[r] = None
    BY <1>1, NoneAssumption DEF ReadCombined, TypeOK, RequestShape
  <2>2. CASE ctx' = [ctx EXCEPT ![r] = epoch] /\ val' = [val EXCEPT ![r] = v]
             /\ pc' = [pc EXCEPT ![r] = at]
    <3>1. at \in {"dirty", "hit", "miss"} /\ (at = "hit" => v # None)
      OBVIOUS
    <3> HIDE DEF v, at
    <3>2. TypeOK'
      BY <1>1, <2>1, <2>2, <3>1 DEF ReadCombined, TypeOK, PCs, Reading
    <3>3. RequestShape'
      BY <1>1, <2>1, <2>2, <3>1 DEF ReadCombined, TypeOK, RequestShape
    <3> QED
      BY <3>2, <3>3
  <2>3. CASE pc' = [pc EXCEPT ![r] = "rows"] /\ UNCHANGED <<ctx, val>>
    <3>1. TypeOK'
      BY <1>1, <2>3 DEF ReadCombined, TypeOK, PCs, Reading
    <3>2. RequestShape'
      BY <1>1, <2>1, <2>3 DEF ReadCombined, TypeOK, RequestShape
    <3> QED
      BY <3>1, <3>2
  <2> QED
    BY <1>1, <2>2, <2>3 DEF ReadCombined
<1>2. CASE ReplyDirty(r)
  <2> DEFINE key == DirtyKey(ctx[r])
  <2>1. ctx[r] # None /\ waits[r] = None /\ key \in FlightKeys /\ Body(key) # "readval"
    BY <1>2, KeyFacts DEF ReplyDirty, RequestShape, TypeOK
  <2>2. ctx' \in [Readers -> Epochs \cup {None}]
        /\ (\A s \in Readers \ {r} : ctx'[s] = ctx[s]) /\ UNCHANGED val
    BY <1>2 DEF ReplyDirty, TypeOK
  <2>3. EnterFlight(r, key) /\ StoreControl(r, TRUE)
    BY <1>2 DEF ReplyDirty
  <2> HIDE DEF key
  <2>4. RequestShape'
    BY <2>1, <2>2, <2>3, EnterFlightShape
  <2>5. control' \in [Procs -> Controls \cup {None}]
    BY <1>a, <2>1, <2>3
  <2>6. TypeOK'
    BY <1>2, <2>1, <2>2, <2>3, <2>5, EnterFlightType DEF ReplyDirty, TypeOK
  <2> QED
    BY <2>4, <2>6
<1>3. CASE ReplyHit(r)
  <2>1. ctx[r] # None /\ val[r] \in Snapshots /\ waits[r] = None
    BY <1>3 DEF ReplyHit, RequestShape, TypeOK
  <2>2. control' \in [Procs -> Controls \cup {None}]
    BY <1>3, <1>a, <2>1 DEF ReplyHit
  <2>3. l1' \in [Procs -> [Epochs -> Snapshots \cup {None}]]
    BY <1>3, <2>1, StoreL1Type DEF ReplyHit
  <2>4. TypeOK'
    BY <1>3, <2>2, <2>3 DEF ReplyHit, TypeOK, PCs
  <2>5. RequestShape'
    BY <1>3, <2>1 DEF ReplyHit, TypeOK, RequestShape
  <2> QED
    BY <2>4, <2>5
<1>4. CASE ReplyMiss(r)
  <2>1. ctx[r] # None /\ waits[r] = None
    BY <1>4 DEF ReplyMiss, RequestShape
  <2>2. control' \in [Procs -> Controls \cup {None}]
    BY <1>4, <1>a, <2>1 DEF ReplyMiss
  <2>3. TypeOK'
    BY <1>4, <2>2 DEF ReplyMiss, TypeOK, PCs, Reading
  <2>4. RequestShape'
    BY <1>4, <2>1 DEF ReplyMiss, TypeOK, RequestShape
  <2> QED
    BY <2>3, <2>4
<1>5. CASE ReadValue(r)
  <2> DEFINE v == IF l2[ctx[r]] # None THEN l2[ctx[r]] ELSE neg[ctx[r]]
  <2>1. ctx[r] # None /\ ctx[r] \in Epochs /\ waits[r] = None
    BY <1>5 DEF ReadValue, RequestShape, TypeOK
  <2>2. v \in Snapshots \cup {None}
    BY <2>1 DEF TypeOK
  <2>3. CASE UNCHANGED ctx /\ v # None /\ val' = [val EXCEPT ![r] = v]
             /\ StoreL1(r, v) /\ pc' = [pc EXCEPT ![r] = "done"]
    <3> HIDE DEF v
    <3>1. l1' \in [Procs -> [Epochs -> Snapshots \cup {None}]]
      BY <2>1, <2>2, <2>3, StoreL1Type
    <3>2. TypeOK'
      BY <1>5, <2>2, <2>3, <3>1 DEF ReadValue, TypeOK, PCs
    <3>3. RequestShape'
      BY <1>5, <2>1, <2>2, <2>3 DEF ReadValue, TypeOK, RequestShape
    <3> QED
      BY <3>2, <3>3
  <2>4. CASE /\ UNCHANGED ctx \/ ctx' = [ctx EXCEPT ![r] = None]
             /\ pc' = [pc EXCEPT ![r] = "rows"] /\ UNCHANGED <<val, l1>>
    <3>1. TypeOK'
      BY <1>5, <2>4 DEF ReadValue, TypeOK, PCs, Reading
    <3>2. RequestShape'
      BY <1>5, <2>1, <2>4 DEF ReadValue, TypeOK, RequestShape
    <3> QED
      BY <3>1, <3>2
  <2> QED
    BY <1>5, <2>3, <2>4 DEF ReadValue
<1>6. CASE FetchRows(r)
  <2>1. [rows |-> db.rows, users |-> 0] \in Snapshots
    BY BoundsAssumption DEF TypeOK, Snapshots
  <2>2. TypeOK'
    BY <1>6, <2>1 DEF FetchRows, TypeOK, PCs, Reading
  <2>3. RequestShape'
    BY <1>6, <2>1, NoneAssumption DEF FetchRows, TypeOK, RequestShape
  <2> QED
    BY <2>2, <2>3
<1>7. CASE FetchUsers(r)
  <2> DEFINE v == [rows |-> val[r].rows, users |-> db.users]
  <2>1. v \in Snapshots
    BY <1>7 DEF FetchUsers, RequestShape, TypeOK, Snapshots
  <2>2. val' = [val EXCEPT ![r] = v]
    BY <1>7 DEF FetchUsers
  <2> HIDE DEF v
  <2>3. TypeOK'
    BY <1>7, <2>1, <2>2 DEF FetchUsers, TypeOK, PCs, Reading
  <2>4. RequestShape'
    BY <1>7, <2>1, <2>2, NoneAssumption DEF FetchUsers, TypeOK, RequestShape
  <2> QED
    BY <2>3, <2>4
<1> QED
  BY <1>1, <1>2, <1>3, <1>4, <1>5, <1>6, <1>7

\* Writes, answered, timed out or late.
LEMMA WriteShape ==
  ASSUME Shape,
         \/ \E r \in Readers : WriteBack(r) \/ WriteTimeout(r)
         \/ \E w \in late : LateWrite(w)
  PROVE  Shape'
<1> USE DEF Shape, trackerVars, redisVars, localVars, reqVars
<1>1. ASSUME NEW r \in Readers, WriteBack(r)
      PROVE  Shape'
  <2>1. ctx[r] \in Epochs /\ ctx[r] # None /\ val[r] \in Snapshots /\ waits[r] = None
    BY <1>1 DEF WriteBack, RequestShape, TypeOK
  <2>2. /\ l2' \in [Epochs -> Snapshots \cup {None}]
        /\ neg' \in [Epochs -> Snapshots \cup {None}]
    BY <1>1, <2>1, RunWriteType DEF WriteBack
  <2>3. l1' \in [Procs -> [Epochs -> Snapshots \cup {None}]]
    BY <1>1, <2>1, StoreL1Type DEF WriteBack, TypeOK
  <2>4. TypeOK'
    BY <1>1, <2>2, <2>3 DEF WriteBack, TypeOK, PCs
  <2>5. RequestShape'
    BY <1>1, <2>1 DEF WriteBack, TypeOK, RequestShape
  <2> QED
    BY <2>4, <2>5
<1>2. ASSUME NEW r \in Readers, WriteTimeout(r)
      PROVE  Shape'
  <2>1. ctx[r] \in Epochs /\ val[r] \in Snapshots /\ waits[r] = None
    BY <1>2 DEF WriteTimeout, RequestShape, TypeOK
  <2>2. late' \in SUBSET [ctx : Epochs, val : Snapshots]
    BY <1>2, <2>1 DEF WriteTimeout, TypeOK
  <2>3. TypeOK'
    BY <1>2, <2>2 DEF WriteTimeout, TypeOK, PCs
  <2>4. RequestShape'
    BY <1>2, <2>1, NoneAssumption DEF WriteTimeout, TypeOK, RequestShape
  <2> QED
    BY <2>3, <2>4
<1>3. ASSUME NEW w \in late, LateWrite(w)
      PROVE  Shape'
  <2>1. w.ctx \in Epochs /\ w.val \in Snapshots
    BY DEF TypeOK
  <2>2. /\ l2' \in [Epochs -> Snapshots \cup {None}]
        /\ neg' \in [Epochs -> Snapshots \cup {None}]
    BY <1>3, <2>1, RunWriteType DEF LateWrite
  <2>3. TypeOK'
    BY <1>3, <2>2 DEF LateWrite, TypeOK
  <2>4. RequestShape'
    BY <1>3 DEF LateWrite, RequestShape
  <2> QED
    BY <2>3, <2>4
<1> QED
  BY <1>1, <1>2, <1>3

\* The end of a request, and what its followers get.
LEMMA EndShape ==
  ASSUME Shape, NEW r \in Readers, Finish(r) \/ Fail(r)
  PROVE  Shape'
<1> USE DEF Shape, trackerVars, redisVars, localVars
<1>1. CASE Finish(r)
  <2>1. val[r] \in Snapshots
    BY <1>1 DEF Finish, RequestShape, TypeOK
  <2>2. TypeOK'
    BY <1>1, <2>1 DEF Finish, TypeOK, PCs, Reading
  <2>3. RequestShape'
    BY <1>1, <2>1, NoneAssumption DEF Finish, TypeOK, RequestShape
  <2> QED
    BY <2>2, <2>3
<1>2. CASE Fail(r)
  <2>1. \A key : Body(key) \in {"rows", "readall", "readval"}
    BY KeyFacts
  <2>2. TypeOK'
    BY <1>2, <2>1 DEF Fail, TypeOK, PCs, Reading
  <2>3. ASSUME NEW s \in Readers
        PROVE  RequestShape!(s)'
    <3>1. CASE s = r
      BY <1>2, <3>1 DEF Fail, TypeOK
    <3>2. CASE s # r /\ s \in Followers(r)
      BY <1>2, <2>1, <3>2 DEF Fail, TypeOK, RequestShape, Followers
    <3>3. CASE s # r /\ s \notin Followers(r)
      BY <1>2, <3>3 DEF Fail, TypeOK, RequestShape
    <3> QED
      BY <3>1, <3>2, <3>3
  <2>4. RequestShape'
    BY <2>3 DEF RequestShape
  <2> QED
    BY <2>2, <2>4
<1> QED
  BY <1>1, <1>2

\* Expiry of a cached entry.
LEMMA ExpireShape ==
  ASSUME Shape,
         \/ \E e \in Epochs : ExpireL2(e)
         \/ \E p \in Procs : ExpireControl(p) \/ \E e \in Epochs : ExpireL1(p, e)
  PROVE  Shape'
<1> USE DEF Shape, RequestShape, TypeOK, trackerVars, redisVars, localVars, reqVars
<1>1. ASSUME NEW e \in Epochs, ExpireL2(e)
      PROVE  Shape'
  BY <1>1 DEF ExpireL2
<1>2. ASSUME NEW p \in Procs, ExpireControl(p)
      PROVE  Shape'
  BY <1>2 DEF ExpireControl
<1>3. ASSUME NEW p \in Procs, NEW e \in Epochs, ExpireL1(p, e)
      PROVE  Shape'
  <2>1. [l1[p] EXCEPT ![e] = None] \in [Epochs -> Snapshots \cup {None}]
    OBVIOUS
  <2> QED
    BY <1>3, <2>1 DEF ExpireL1
<1> QED
  BY <1>1, <1>2, <1>3

LEMMA ShapeInit == Init => Shape
<1> SUFFICES ASSUME Init
             PROVE  Shape
  OBVIOUS
<1>1. db \in Snapshots /\ epoch \in Epochs
  BY BoundsAssumption DEF Init, Snapshots, Epochs
<1>2. floor \in [Epochs -> Snapshots \cup {None}]
  BY <1>1 DEF Init
<1>3. TypeOK
  BY <1>1, <1>2 DEF Init, TypeOK, PCs
<1>4. RequestShape
  BY DEF Init, RequestShape
<1> QED
  BY <1>3, <1>4 DEF Shape

LEMMA ShapeStep == Shape /\ [Next]_vars => Shape'
<1> SUFFICES ASSUME Shape, [Next]_vars
             PROVE  Shape'
  OBVIOUS
<1>1. CASE Tracker
  BY <1>1, TrackerType DEF Shape, RequestShape
<1>2. CASE \E r \in Readers : Start(r) \/ Proceed(r) \/ Fail(r)
  BY <1>2, StartShape, ReadShape, WriteShape, EndShape DEF Proceed
<1>3. CASE UNCHANGED vars
  BY <1>3 DEF Shape, RequestShape, TypeOK, vars, trackerVars, redisVars, localVars, reqVars
<1>4. CASE \E w \in late : LateWrite(w)
  BY <1>4, WriteShape
<1> QED
  BY <1>1, <1>2, <1>3, <1>4, ExpireShape DEF Next

\* Every variable keeps its type, and every request holds what its next
\* step uses, in all behaviours of the cache.
THEOREM ShapeInvariant == Spec => []Shape
BY ShapeInit, ShapeStep, PTL DEF Spec

THEOREM TypeCorrect == Spec => []TypeOK
<1>1. Shape => TypeOK
  BY DEF Shape
<1> QED
  BY <1>1, ShapeInvariant, PTL

-----------------------------------------------------------------------------
(***************************************************************************)
(* CacheFloor.  The invariant follows a value from the moment its epoch is *)
(* known: the epoch is read first, the database later, and the database    *)
(* only grows, so whatever is on its way into a cache is at least as new   *)
(* as the publication of the epoch it will be stored under.                *)
(***************************************************************************)
Floored(e, v) == e <= epoch /\ AtLeast(v, floor[e])

FloorHistory ==
  \A e \in Epochs : e <= epoch => floor[e] \in Snapshots /\ AtLeast(db, floor[e])

FlooredL2 ==
  \A e \in Epochs : /\ l2[e] # None => Floored(e, l2[e])
                    /\ neg[e] # None => Floored(e, neg[e])
FlooredL1 == \A p \in Procs, e \in Epochs : l1[p][e] # None => Floored(e, l1[p][e])
FlooredLate == \A w \in late : Floored(w.ctx, w.val)
KnownControls == \A p \in Procs : control[p] # None => control[p].epoch <= epoch

FlooredRequests ==
  \A r \in Readers : ctx[r] # None =>
    /\ ctx[r] <= epoch
    /\ pc[r] = "users" => val[r].rows >= floor[ctx[r]].rows
    /\ pc[r] \in {"hit", "write"} => AtLeast(val[r], floor[ctx[r]])

FloorInv ==
  /\ FloorHistory /\ FlooredL2 /\ FlooredL1 /\ FlooredLate
  /\ KnownControls /\ FlooredRequests

LEMMA FloorImpliesCacheFloor == FloorInv => CacheFloor
BY DEF FloorInv, FlooredL2, FlooredL1, Floored, CacheFloor, CachedUnder

\* Epochs and versions are numbers.
LEMMA Numbers ==
  ASSUME TypeOK
  PROVE  /\ epoch \in Nat /\ \A e \in Epochs : e \in Nat
         /\ \A v \in Snapshots : v.rows \in Nat /\ v.users \in Nat
         /\ \A v \in Snapshots : AtLeast(v, v)
         /\ \A u, v, w \in Snapshots : AtLeast(u, v) /\ AtLeast(v, w) => AtLeast(u, w)
BY BoundsAssumption DEF TypeOK, Epochs, Snapshots, AtLeast

\* The tracker never changes a floor, lowers the epoch or undoes a commit.
LEMMA TrackerMonotone ==
  ASSUME Shape, Tracker
  PROVE  /\ epoch <= epoch'
         /\ \A e \in Epochs : e <= epoch => floor'[e] = floor[e]
         /\ AtLeast(db', db)
         /\ \/ epoch' = epoch /\ floor' = floor
            \/ epoch' = epoch + 1 /\ epoch' \in Epochs /\ floor'[epoch'] = db /\ db' = db
         /\ UNCHANGED <<l2, neg, late, localVars, reqVars>>
<1> USE Numbers, BoundsAssumption DEF Shape, TypeOK, AtLeast, Snapshots
<1>1. CASE BeginUpdate
  BY <1>1 DEF BeginUpdate
<1>2. CASE CommitUsers
  BY <1>2 DEF CommitUsers, redisVars
<1>3. CASE CommitRows
  BY <1>3 DEF CommitRows, redisVars
<1>4. CASE FinishIncr
  <2>1. epoch \in 0 .. MaxEpoch /\ epoch + 1 \in Epochs
    BY <1>4 DEF FinishIncr, Epochs
  <2> QED
    BY <1>4, <2>1 DEF FinishIncr, Epochs
<1>5. CASE FinishDel
  BY <1>5 DEF FinishDel
<1>6. CASE AbortUpdate
  BY <1>6 DEF AbortUpdate
<1>7. CASE LoseUpdate
  BY <1>7 DEF LoseUpdate, redisVars
<1>8. CASE DirtyExpires
  BY <1>8 DEF DirtyExpires, trackerVars
<1> QED
  BY <1>1, <1>2, <1>3, <1>4, <1>5, <1>6, <1>7, <1>8 DEF Tracker

\* Floors survive every step of the tracker.
LEMMA FloorTracker ==
  ASSUME Shape, FloorInv, Tracker, Shape'
  PROVE  FloorInv'
<1> USE Numbers DEF Shape
<1>1. /\ epoch <= epoch' /\ epoch \in Nat /\ epoch' \in Nat
      /\ \A e \in Epochs : e <= epoch => floor'[e] = floor[e]
      /\ UNCHANGED <<l2, neg, late, control, l1, pc, ctx, val>>
  BY TrackerMonotone DEF localVars, reqVars, TypeOK, Epochs
<1>2. ASSUME NEW e \in Epochs, NEW v, Floored(e, v)
      PROVE  Floored(e, v)'
  BY <1>1, <1>2 DEF Floored, AtLeast
<1>3. FloorHistory'
  <2>1. db \in Snapshots /\ db' \in Snapshots /\ AtLeast(db', db)
    BY TrackerMonotone DEF TypeOK
  <2> SUFFICES ASSUME NEW e \in Epochs, e <= epoch'
               PROVE  floor'[e] \in Snapshots /\ AtLeast(db', floor'[e])
    BY DEF FloorHistory, AtLeast
  <2>2. CASE e <= epoch
    BY <1>1, <2>1, <2>2 DEF FloorInv, FloorHistory
  <2>3. CASE e > epoch
    <3>1. e = epoch' /\ floor'[e] = db
      BY <1>1, <2>3, TrackerMonotone
    <3> QED
      BY <2>1, <3>1
  <2> QED
    BY <1>1, <2>2, <2>3
<1>4. FlooredL2' /\ FlooredL1' /\ FlooredLate'
  BY <1>1, <1>2 DEF FloorInv, FlooredL2, FlooredL1, FlooredLate, TypeOK
<1>5. KnownControls'
  <2> SUFFICES ASSUME NEW q \in Procs, control[q] # None
               PROVE  control[q].epoch <= epoch'
    BY <1>1 DEF KnownControls
  <2>1. control[q].epoch \in Epochs /\ control[q].epoch <= epoch
    BY DEF TypeOK, Controls, FloorInv, KnownControls
  <2>2. control[q].epoch \in Nat
    BY <2>1
  <2> QED
    BY <1>1, <2>1, <2>2
<1>6. FlooredRequests'
  <2> SUFFICES ASSUME NEW r \in Readers, ctx[r] # None
               PROVE  FlooredRequests!(r)'
    BY <1>1 DEF FlooredRequests
  <2>1. ctx[r] \in Epochs /\ ctx[r] <= epoch
    BY DEF TypeOK, FloorInv, FlooredRequests
  <2>2. floor'[ctx[r]] = floor[ctx[r]] /\ ctx[r] <= epoch'
    BY <1>1, <2>1
  <2> QED
    BY <1>1, <2>1, <2>2 DEF FloorInv, FlooredRequests, AtLeast
<1> QED
  BY <1>3, <1>4, <1>5, <1>6 DEF FloorInv

\* A value that honours its epoch's floor may be stored in L1 under it.
LEMMA FloorStoreL1 ==
  ASSUME Shape, FlooredL1, NEW r \in Readers, NEW v, ctx[r] \in Epochs,
         Floored(ctx[r], v), StoreL1(r, v), UNCHANGED <<epoch, floor>>
  PROVE  FlooredL1'
<1>1. Home[r] \in Procs
  BY ActorsAssumption
<1>2. \A q \in Procs, e \in Epochs :
        l1'[q][e] = l1[q][e] \/ (e = ctx[r] /\ l1'[q][e] = v)
  BY <1>1 DEF Shape, TypeOK, StoreL1
<1> QED
  BY <1>2 DEF FlooredL1, Floored, AtLeast

\* ... and in Redis.
LEMMA FloorRunWrite ==
  ASSUME Shape, FlooredL2, NEW e \in Epochs, NEW v,
         Floored(e, v), RunWrite(e, v), UNCHANGED <<epoch, floor>>
  PROVE  FlooredL2'
BY DEF Shape, TypeOK, FlooredL2, Floored, AtLeast, RunWrite

\* A control that is stored carries the epoch of an answer of Redis.
LEMMA FloorStoreControl ==
  ASSUME Shape, FloorInv, NEW r \in Readers, NEW b, ctx[r] # None,
         StoreControl(r, b), UNCHANGED epoch
  PROVE  KnownControls'
BY DEF Shape, TypeOK, FloorInv, KnownControls, FlooredRequests, StoreControl

\* Arrivals take over epochs of L1 controls, reads take values that are
\* already floored, fetches read a database that is past every floor.
LEMMA FloorRequest ==
  ASSUME Shape, FloorInv, NEW r \in Readers,
         \/ Start(r) \/ ReadCombined(r) \/ ReplyDirty(r) \/ ReplyHit(r) \/ ReplyMiss(r)
         \/ ReadValue(r) \/ FetchRows(r) \/ FetchUsers(r)
  PROVE  FloorInv'
<1> USE Numbers DEF Shape, trackerVars, redisVars, localVars
<1>0. Home[r] \in Procs
  BY ActorsAssumption
<1>1. UNCHANGED <<db, epoch, floor, l2, neg, late>>
  BY DEF Start, StartUnknown, StartDirty, StartClean, ReadCombined, ReplyDirty,
         ReplyHit, ReplyMiss, ReadValue, FetchRows, FetchUsers
<1>2. FloorHistory' /\ FlooredL2' /\ FlooredLate'
  BY <1>1 DEF FloorInv, FloorHistory, FlooredL2, FlooredLate, Floored, AtLeast
<1>3. \A s \in Readers : s # r => pc'[s] = pc[s] /\ ctx'[s] = ctx[s] /\ val'[s] = val[s]
  BY DEF Start, StartUnknown, StartDirty, StartClean, ReadCombined, ReplyDirty, EnterFlight,
         ReplyHit, ReplyMiss, ReadValue, FetchRows, FetchUsers, TypeOK
<1> DEFINE Mine ==
      ctx'[r] # None =>
        /\ ctx'[r] <= epoch
        /\ pc'[r] = "users" => val'[r].rows >= floor[ctx'[r]].rows
        /\ pc'[r] \in {"hit", "write"} => AtLeast(val'[r], floor[ctx'[r]])
<1>4. ASSUME Mine
      PROVE  FlooredRequests'
  BY <1>1, <1>3, <1>4 DEF FloorInv, FlooredRequests, AtLeast
<1>5. ASSUME UNCHANGED <<control, l1>>
      PROVE  FlooredL1' /\ KnownControls'
  BY <1>1, <1>5 DEF FloorInv, FlooredL1, KnownControls, Floored, AtLeast
<1>6. ASSUME UNCHANGED l1
      PROVE  FlooredL1'
  BY <1>1, <1>6 DEF FloorInv, FlooredL1, Floored, AtLeast
<1>7. ASSUME UNCHANGED control
      PROVE  KnownControls'
  BY <1>1, <1>7 DEF FloorInv, KnownControls
<1>8. ASSUME NEW key, EnterFlight(r, key)
      PROVE  pc'[r] \in {"rows", "readall", "readval", "wait"}
  BY <1>8, KeyFacts DEF EnterFlight, TypeOK
<1>a. CASE StartUnknown(r) \/ StartDirty(r)
  <2>1. ctx'[r] = None
    BY <1>a DEF StartUnknown, StartDirty, TypeOK
  <2> QED
    BY <1>a, <1>2, <1>4, <1>5, <2>1 DEF StartUnknown, StartDirty, FloorInv
<1>b. CASE StartClean(r)
  <2>1. ctx'[r] = control[Home[r]].epoch /\ pc'[r] \in {"done", "rows", "readall", "readval", "wait"}
    BY <1>b, <1>8 DEF StartClean, TypeOK
  <2>2. Mine
    BY <1>0, <1>b, <2>1 DEF StartClean, FloorInv, KnownControls
  <2> QED
    BY <1>b, <1>2, <1>4, <1>5, <2>2 DEF StartClean, FloorInv
<1>c. CASE ReadCombined(r)
  <2> DEFINE v == IF dirty THEN None ELSE IF l2[epoch] # None THEN l2[epoch] ELSE neg[epoch]
  <2>1. ASSUME ctx' = [ctx EXCEPT ![r] = epoch] /\ val' = [val EXCEPT ![r] = v],
               pc' = [pc EXCEPT ![r] = IF dirty THEN "dirty" ELSE IF v # None THEN "hit" ELSE "miss"]
        PROVE  Mine
    <3>1. epoch \in Epochs /\ (v # None => Floored(epoch, v))
      BY DEF TypeOK, FloorInv, FlooredL2
    <3>2. ctx'[r] = epoch /\ val'[r] = v /\ pc'[r] \in {"dirty", "hit", "miss"}
          /\ (pc'[r] = "hit" => v # None)
      BY <2>1 DEF TypeOK
    <3>3. epoch <= epoch
      BY <3>1
    <3> HIDE DEF v
    <3> QED
      BY <3>1, <3>2, <3>3 DEF Floored
  <2>2. ASSUME pc' = [pc EXCEPT ![r] = "rows"], UNCHANGED <<ctx, val>>
        PROVE  Mine
    <3>1. pc'[r] = "rows" /\ ctx'[r] = ctx[r]
      BY <2>2 DEF TypeOK
    <3> QED
      BY <3>1 DEF FloorInv, FlooredRequests
  <2> HIDE DEF Mine
  <2>3. Mine
    BY <1>c, <2>1, <2>2 DEF ReadCombined
  <2> QED
    BY <1>c, <1>2, <1>4, <1>5, <2>3 DEF ReadCombined, FloorInv
<1>d. CASE ReplyDirty(r)
  <2>1. ctx'[r] = None /\ ctx[r] # None
    BY <1>d DEF ReplyDirty, TypeOK, RequestShape
  <2>2. KnownControls'
    BY <1>d, <1>1, <2>1, FloorStoreControl DEF ReplyDirty
  <2> QED
    BY <1>d, <1>2, <1>4, <1>6, <2>1, <2>2 DEF ReplyDirty, FloorInv
<1>e. CASE ReplyHit(r)
  <2>1. ctx[r] # None /\ ctx[r] \in Epochs
    BY <1>e DEF ReplyHit, TypeOK, RequestShape
  <2>2. Floored(ctx[r], val[r])
    BY <1>e, <2>1 DEF ReplyHit, FloorInv, FlooredRequests, Floored
  <2>3. KnownControls' /\ FlooredL1'
    BY <1>e, <1>1, <2>1, <2>2, FloorStoreControl, FloorStoreL1 DEF ReplyHit, FloorInv
  <2>4. ctx'[r] = ctx[r] /\ pc'[r] = "done"
    BY <1>e DEF ReplyHit, TypeOK
  <2>5. Mine
    BY <2>2, <2>4 DEF Floored
  <2> QED
    BY <1>2, <1>4, <2>3, <2>5 DEF FloorInv
<1>f. CASE ReplyMiss(r)
  <2>1. ctx[r] # None /\ ctx'[r] = ctx[r] /\ pc'[r] = "rows"
    BY <1>f DEF ReplyMiss, TypeOK, RequestShape
  <2>2. KnownControls'
    BY <1>f, <1>1, <2>1, FloorStoreControl DEF ReplyMiss
  <2>3. Mine
    BY <2>1 DEF FloorInv, FlooredRequests
  <2> QED
    BY <1>f, <1>2, <1>4, <1>6, <2>2, <2>3 DEF ReplyMiss, FloorInv
<1>g. CASE ReadValue(r)
  <2> DEFINE v == IF l2[ctx[r]] # None THEN l2[ctx[r]] ELSE neg[ctx[r]]
  <2>1. ctx[r] \in Epochs /\ ctx[r] <= epoch
    BY <1>g DEF ReadValue, TypeOK, RequestShape, FloorInv, FlooredRequests
  <2>2. CASE UNCHANGED ctx /\ v # None /\ StoreL1(r, v) /\ pc' = [pc EXCEPT ![r] = "done"]
    <3>1. Floored(ctx[r], v)
      BY <2>1, <2>2 DEF FloorInv, FlooredL2
    <3> HIDE DEF v
    <3>2. FlooredL1'
      BY <1>1, <2>1, <2>2, <3>1, FloorStoreL1 DEF FloorInv
    <3>3. ctx'[r] = ctx[r] /\ pc'[r] = "done"
      BY <2>2 DEF TypeOK
    <3>4. Mine
      BY <2>1, <3>3
    <3> QED
      BY <1>g, <1>2, <1>4, <1>7, <3>2, <3>4 DEF ReadValue, FloorInv
  <2>3. CASE /\ UNCHANGED ctx \/ ctx' = [ctx EXCEPT ![r] = None]
             /\ pc' = [pc EXCEPT ![r] = "rows"] /\ UNCHANGED <<val, l1>>
    <3>1. pc'[r] = "rows" /\ (ctx'[r] = ctx[r] \/ ctx'[r] = None)
      BY <2>3 DEF TypeOK
    <3>2. Mine
      BY <2>1, <3>1
    <3> QED
      BY <1>g, <1>2, <1>4, <1>6, <1>7, <2>3, <3>2 DEF ReadValue, FloorInv
  <2> QED
    BY <1>g, <2>2, <2>3 DEF ReadValue
<1>h. CASE FetchRows(r)
  <2>1. ctx'[r] = ctx[r] /\ pc'[r] = "users" /\ val'[r].rows = db.rows
    BY <1>h DEF FetchRows, TypeOK
  <2>2. Mine
    BY <2>1 DEF TypeOK, FloorInv, FlooredRequests, FloorHistory, AtLeast
  <2> QED
    BY <1>h, <1>2, <1>4, <1>5, <2>2 DEF FetchRows, FloorInv
<1>i. CASE FetchUsers(r)
  <2>1. ctx'[r] = ctx[r] /\ pc[r] = "users" /\ pc'[r] \in {"done", "write"}
        /\ val'[r].rows = val[r].rows /\ val'[r].users = db.users
    BY <1>i DEF FetchUsers, TypeOK
  <2>2. Mine
    BY <2>1 DEF TypeOK, FloorInv, FlooredRequests, FloorHistory, AtLeast
  <2> QED
    BY <1>i, <1>2, <1>4, <1>5, <2>2 DEF FetchUsers, FloorInv
<1> QED
  BY <1>a, <1>b, <1>c, <1>d, <1>e, <1>f, <1>g, <1>h, <1>i DEF Start

\* Writes store a floored value under its own epoch, now or late.
LEMMA FloorWrite ==
  ASSUME Shape, FloorInv,
         \/ \E r \in Readers : WriteBack(r) \/ WriteTimeout(r)
         \/ \E w \in late : LateWrite(w)
  PROVE  FloorInv'
<1> USE DEF Shape, trackerVars, redisVars, localVars, reqVars
<1>1. ASSUME NEW r \in Readers, pc[r] = "write"
      PROVE  ctx[r] \in Epochs /\ Floored(ctx[r], val[r])
  BY <1>1 DEF TypeOK, RequestShape, FloorInv, FlooredRequests, Floored
<1>2. ASSUME UNCHANGED <<db, epoch, floor>>
      PROVE  FloorHistory'
  BY <1>2 DEF FloorInv, FloorHistory, AtLeast
<1>3. ASSUME NEW r \in Readers, pc' = [pc EXCEPT ![r] = "done"], UNCHANGED <<ctx, val, epoch, floor>>
      PROVE  FlooredRequests'
  BY <1>3 DEF TypeOK, FloorInv, FlooredRequests, AtLeast
<1>4. ASSUME NEW r \in Readers, WriteBack(r)
      PROVE  FloorInv'
  <2>1. /\ UNCHANGED <<db, epoch, floor, control, late>>
        /\ ctx[r] \in Epochs /\ Floored(ctx[r], val[r])
    BY <1>1, <1>4 DEF WriteBack
  <2>2. FlooredL2'
    BY <1>4, <2>1, FloorRunWrite DEF WriteBack, FloorInv
  <2>3. FlooredL1'
    <3>1. CASE StoreL1(r, val[r])
      BY <2>1, <3>1, FloorStoreL1 DEF FloorInv
    <3>2. CASE UNCHANGED l1
      BY <2>1, <3>2 DEF FloorInv, FlooredL1, Floored, AtLeast
    <3> QED
      BY <1>4, <3>1, <3>2 DEF WriteBack
  <2>4. FlooredLate' /\ KnownControls'
    BY <2>1 DEF FloorInv, FlooredLate, KnownControls, Floored, AtLeast
  <2> QED
    BY <1>2, <1>3, <1>4, <2>1, <2>2, <2>3, <2>4 DEF WriteBack, FloorInv
<1>5. ASSUME NEW r \in Readers, WriteTimeout(r)
      PROVE  FloorInv'
  <2>1. Floored(ctx[r], val[r])
    BY <1>1, <1>5 DEF WriteTimeout
  <2>2. UNCHANGED <<db, epoch, floor, l2, neg, control, l1>>
    BY <1>5 DEF WriteTimeout
  <2>3. FlooredLate'
    <3>1. \A w \in late' : w \in late \/ w = [ctx |-> ctx[r], val |-> val[r]]
      BY <1>5 DEF WriteTimeout
    <3> QED
      BY <2>1, <2>2, <3>1 DEF FloorInv, FlooredLate, Floored, AtLeast
  <2>4. FlooredL2' /\ FlooredL1' /\ KnownControls'
    BY <2>2 DEF FloorInv, FlooredL2, FlooredL1, KnownControls, Floored, AtLeast
  <2> QED
    BY <1>2, <1>3, <1>5, <2>2, <2>3, <2>4 DEF WriteTimeout, FloorInv
<1>6. ASSUME NEW w \in late, LateWrite(w)
      PROVE  FloorInv'
  <2>1. w.ctx \in Epochs /\ Floored(w.ctx, w.val)
    BY DEF TypeOK, FloorInv, FlooredLate
  <2>2. UNCHANGED <<db, epoch, floor, control, l1, pc, ctx, val>> /\ late' \subseteq late
    BY <1>6 DEF LateWrite
  <2>3. FlooredL2'
    BY <1>6, <2>1, <2>2, FloorRunWrite DEF LateWrite, FloorInv
  <2>4. FlooredL1' /\ FlooredLate' /\ KnownControls' /\ FlooredRequests'
    BY <2>2 DEF FloorInv, FlooredL1, FlooredLate, KnownControls, FlooredRequests, Floored, AtLeast
  <2> QED
    BY <1>2, <2>2, <2>3, <2>4 DEF FloorInv
<1> QED
  BY <1>4, <1>5, <1>6

\* Answers, failures and expiry put nothing new anywhere.
LEMMA FloorQuiet ==
  ASSUME Shape, FloorInv,
         \/ \E r \in Readers : Finish(r) \/ Fail(r)
         \/ \E e \in Epochs : ExpireL2(e)
         \/ \E p \in Procs : ExpireControl(p) \/ \E e \in Epochs : ExpireL1(p, e)
         \/ UNCHANGED vars
  PROVE  FloorInv'
<1> USE DEF Shape, trackerVars, redisVars, localVars, reqVars
<1>1. UNCHANGED <<db, epoch, floor, late>>
  BY DEF Finish, Fail, ExpireL2, ExpireControl, ExpireL1, vars
<1>2. \A e \in Epochs : l2'[e] \in {l2[e], None} /\ neg'[e] \in {neg[e], None}
  BY DEF Finish, Fail, ExpireL2, ExpireControl, ExpireL1, vars, TypeOK
<1>3. \A p \in Procs : control'[p] \in {control[p], None}
  BY DEF Finish, Fail, ExpireL2, ExpireControl, ExpireL1, vars, TypeOK
<1>4. \A p \in Procs, e \in Epochs : l1'[p][e] \in {l1[p][e], None}
  BY DEF Finish, Fail, ExpireL2, ExpireControl, ExpireL1, vars, TypeOK
<1>5. ASSUME NEW r \in Readers
      PROVE  \/ ctx'[r] = None
             \/ ctx'[r] = ctx[r] /\ pc'[r] \in {"done", "rows", "readall", "readval"}
             \/ ctx'[r] = ctx[r] /\ pc'[r] = pc[r] /\ val'[r] = val[r]
  BY <1>5, KeyFacts DEF Finish, Fail, ExpireL2, ExpireControl, ExpireL1, vars, TypeOK
<1>6. FloorHistory' /\ FlooredL2' /\ FlooredLate'
  BY <1>1, <1>2 DEF FloorInv, FloorHistory, FlooredL2, FlooredLate, Floored, AtLeast
<1>7. FlooredL1' /\ KnownControls'
  BY <1>1, <1>3, <1>4 DEF FloorInv, FlooredL1, KnownControls, Floored, AtLeast
<1>8. FlooredRequests'
  BY <1>1, <1>5 DEF FloorInv, FlooredRequests, AtLeast
<1> QED
  BY <1>6, <1>7, <1>8 DEF FloorInv

LEMMA FloorInit == Init => FloorInv
<1> SUFFICES ASSUME Init
             PROVE  FloorInv
  OBVIOUS
<1>1. db \in Snapshots /\ AtLeast(db, db)
  BY BoundsAssumption DEF Init, Snapshots, AtLeast
<1>2. FloorHistory
  BY <1>1 DEF Init, FloorHistory, Epochs
<1>3. FlooredL2 /\ FlooredL1 /\ FlooredLate /\ KnownControls /\ FlooredRequests
  BY DEF Init, FlooredL2, FlooredL1, FlooredLate, KnownControls, FlooredRequests
<1> QED
  BY <1>2, <1>3 DEF FloorInv

LEMMA FloorStep == Shape /\ FloorInv /\ [Next]_vars => FloorInv'
<1> SUFFICES ASSUME Shape, FloorInv, [Next]_vars
             PROVE  FloorInv'
  OBVIOUS
<1>1. Shape'
  BY ShapeStep
<1>2. CASE Tracker
  BY <1>1, <1>2, FloorTracker
<1>3. CASE \E r \in Readers : Start(r) \/ Proceed(r) \/ Fail(r)
  BY <1>3, FloorRequest, FloorWrite, FloorQuiet DEF Proceed
<1>4. CASE \E w \in late : LateWrite(w)
  BY <1>4, FloorWrite
<1> QED
  BY <1>2, <1>3, <1>4, FloorQuiet DEF Next

THEOREM FloorInvariant == Spec => []FloorInv
BY FloorInit, FloorStep, ShapeInvariant, PTL DEF Spec

\* The epoch in a cached value's key is a lower bound on its content,
\* whatever the tracker loses: a failed or crashed update, an expired dirty
\* flag or a cache write that arrives late never puts a response under an
\* epoch that has already published something newer.
THEOREM CachedNotOlderThanEpoch == Spec => []CacheFloor
BY FloorInvariant, FloorImpliesCacheFloor, PTL

-----------------------------------------------------------------------------
(***************************************************************************)
(* UpdateProtocol.  A flag that an update has written is never left behind *)
(* by it, and the floor of the present epoch is not ahead of the database: *)
(* a commit always makes the two differ.                                   *)
(***************************************************************************)
FlagOfUpdate == wrote => upd \in {"persist", "bumped"}

\* Requests, late writes and expiries publish nothing and commit nothing.
LEMMA OthersPublishNothing ==
  ASSUME [Next]_vars, ~Tracker
  PROVE  UNCHANGED <<trackerVars, epoch, floor>>
BY DEF Next, vars, redisVars, ExpireL2, ExpireControl, ExpireL1, LateWrite, Fail, Start,
       StartUnknown, StartDirty, StartClean, Proceed, ReadCombined, ReplyDirty, ReplyHit,
       ReplyMiss, ReadValue, FetchRows, FetchUsers, WriteBack, WriteTimeout, Finish

LEMMA StepFlag == FlagOfUpdate /\ [Next]_vars => FlagOfUpdate'
<1> SUFFICES ASSUME FlagOfUpdate, [Next]_vars
             PROVE  FlagOfUpdate'
  OBVIOUS
<1>1. CASE Tracker
  BY <1>1 DEF Tracker, BeginUpdate, CommitUsers, CommitRows, FinishIncr, FinishDel,
              AbortUpdate, LoseUpdate, DirtyExpires, trackerVars, FlagOfUpdate
<1>2. CASE ~Tracker
  BY <1>2, OthersPublishNothing DEF trackerVars, FlagOfUpdate
<1> QED
  BY <1>1, <1>2

\* One step of the tracker's side is one of the protocol, or none: to commit
\* rows is Commit, to increment the epoch is Finish, and the second half of a
\* finish, a user upsert and the flag are not seen.
LEMMA StepProtocol ==
  Shape /\ FloorInv /\ FlagOfUpdate /\ [Next]_vars => [Protocol!Next]_(Protocol!vars)
<1> SUFFICES ASSUME Shape, FloorInv, FlagOfUpdate, [Next]_vars
             PROVE  [Protocol!Next]_(Protocol!vars)
  OBVIOUS
<1> USE DEF Protocol!vars, Protocol!Next
<1>0. /\ epoch \in Epochs /\ floor[epoch] \in Snapshots /\ db \in Snapshots
      /\ AtLeast(db, floor[epoch]) /\ wrote \in BOOLEAN
      /\ db.rows \in Nat /\ floor[epoch].rows \in Nat
  <2>1. epoch \in Epochs /\ db \in Snapshots /\ wrote \in BOOLEAN
    BY DEF Shape, TypeOK
  <2>2. floor[epoch] \in Snapshots /\ AtLeast(db, floor[epoch])
    BY <2>1 DEF FloorInv, FloorHistory, Epochs
  <2> QED
    BY <2>1, <2>2, BoundsAssumption DEF Snapshots
<1>1. CASE BeginUpdate
  BY <1>1 DEF BeginUpdate, FlagOfUpdate, Protocol!Begin
<1>2. CASE CommitUsers
  BY <1>0, <1>2 DEF CommitUsers, redisVars, Snapshots
<1>3. CASE CommitRows
  <2>1. /\ upd = "persist" /\ upd' = "persist" /\ epoch' = epoch /\ floor' = floor
        /\ db'.rows = db.rows + 1
        /\ wrote' = TRUE \/ (Faults # {} /\ wrote' = wrote)
    BY <1>0, <1>3 DEF CommitRows, redisVars, Snapshots
  <2>2. db'.rows # floor[epoch].rows
    BY <1>0, <2>1 DEF AtLeast
  <2> QED
    BY <2>1, <2>2 DEF Protocol!Commit
<1>4. CASE FinishIncr
  <2>1. /\ upd = "profiles" \/ (upd = "persist" /\ wrote)
        /\ upd' = "bumped" /\ epoch' = epoch + 1 /\ db' = db /\ epoch < MaxEpoch
        /\ floor' = [floor EXCEPT ![epoch + 1] = db]
    BY <1>4 DEF FinishIncr
  <2>2. epoch' \in Epochs
    BY <1>0, <2>1, BoundsAssumption DEF Epochs
  <2>3. floor'[epoch'] = db
    BY <2>1, <2>2 DEF Shape, TypeOK
  <2> QED
    BY <2>1, <2>3 DEF Protocol!Finish
<1>5. CASE FinishDel
  BY <1>5 DEF FinishDel
<1>6. CASE AbortUpdate
  BY <1>6 DEF AbortUpdate, Protocol!Abort
<1>7. CASE LoseUpdate
  BY <1>7 DEF LoseUpdate, redisVars, Protocol!Lose
<1>8. CASE DirtyExpires
  BY <1>8 DEF DirtyExpires, trackerVars
<1>9. CASE ~Tracker
  BY <1>9, OthersPublishNothing DEF trackerVars
<1> QED
  BY <1>1, <1>2, <1>3, <1>4, <1>5, <1>6, <1>7, <1>8, <1>9 DEF Tracker

\* The environment of the cache is a tracker that keeps to UpdateProtocol, for
\* all bounds and under every fault: with KeepsToProtocol of EventTracker, the
\* cache and the tracker are proved against one contract.
THEOREM EnvironmentKeepsToProtocol == Spec => ImplementsProtocol
<1>1. Init => FlagOfUpdate /\ Protocol!Init
  <2> SUFFICES ASSUME Init
               PROVE  FlagOfUpdate /\ Protocol!Init
    OBVIOUS
  <2>1. upd = "idle" /\ wrote = FALSE
    BY DEF Init
  <2>2. floor[epoch] = db
    BY BoundsAssumption DEF Init, Epochs
  <2> QED
    BY <2>1, <2>2 DEF FlagOfUpdate, Protocol!Init
<1>2. Shape /\ FloorInv /\ FlagOfUpdate /\ [Next]_vars
        => FlagOfUpdate' /\ [Protocol!Next]_(Protocol!vars)
  BY StepFlag, StepProtocol
<1> QED
  BY <1>1, <1>2, ShapeInvariant, FloorInvariant, PTL DEF Spec, ImplementsProtocol, Protocol!Spec

-----------------------------------------------------------------------------
(***************************************************************************)
(* PublishedOnly, without faults of the tracker.  The dirty flag covers    *)
(* the whole update, and outside an update that has written rows the       *)
(* database is what the present epoch published.  A value fetched in the   *)
(* middle of such an update is still on its way to a cache, but its epoch  *)
(* is over before the flag is cleared.                                     *)
(***************************************************************************)
Writing == upd = "persist" /\ wrote

UpdateGuarded ==
  /\ upd # "idle" => dirty
  /\ wrote => upd \in {"persist", "bumped"}
  /\ ~Writing => db.rows = floor[epoch].rows

Exact(e, v)    == v.rows = floor[e].rows
Harmless(e, v) == Exact(e, v) \/ e < epoch \/ Writing

ExactL2 == \A e \in Epochs : /\ l2[e] # None => Exact(e, l2[e])
                             /\ neg[e] # None => Exact(e, neg[e])
ExactL1 == \A p \in Procs, e \in Epochs : l1[p][e] # None => Exact(e, l1[p][e])
HarmlessLate == \A w \in late : Harmless(w.ctx, w.val)
HarmlessRequests ==
  \A r \in Readers : ctx[r] # None =>
    /\ pc[r] \in {"users", "write"} => Harmless(ctx[r], val[r])
    /\ pc[r] = "hit" => Exact(ctx[r], val[r])

PublishedInv ==
  /\ UpdateGuarded /\ ExactL2 /\ ExactL1 /\ HarmlessLate /\ HarmlessRequests

LEMMA PublishedImplies == PublishedInv => PublishedOnly
BY DEF PublishedInv, ExactL2, ExactL1, Exact, PublishedOnly, CachedUnder

\* The tracker keeps the flag up while it writes, and what it does to the
\* epoch and the floors leaves every pending value exact or harmless.
LEMMA PublishedTracker ==
  ASSUME Faults = {}, Shape, FloorInv, PublishedInv, Tracker
  PROVE  PublishedInv'
<1> USE DEF Shape
<1>0. /\ epoch \in Nat /\ epoch <= epoch' /\ \A e \in Epochs : e \in Nat
      /\ \A e \in Epochs : e <= epoch => floor'[e] = floor[e]
      /\ UNCHANGED <<l2, neg, late, control, l1, pc, ctx, val>>
  BY Numbers, TrackerMonotone DEF localVars, reqVars
<1>1. UpdateGuarded'
  <2> USE DEF PublishedInv, UpdateGuarded, Writing, TypeOK
  <2>1. CASE BeginUpdate
    BY <2>1 DEF BeginUpdate
  <2>2. CASE CommitUsers
    BY <2>2 DEF CommitUsers, redisVars, Snapshots
  <2>3. CASE CommitRows
    BY <2>3 DEF CommitRows, redisVars
  <2>4. CASE FinishIncr
    BY <2>4, TrackerMonotone, <1>0 DEF FinishIncr
  <2>5. CASE FinishDel
    BY <2>5 DEF FinishDel
  <2>6. CASE AbortUpdate
    BY <2>6 DEF AbortUpdate
  <2>7. CASE LoseUpdate
    BY <2>7 DEF LoseUpdate
  <2>8. CASE DirtyExpires
    BY <2>8 DEF DirtyExpires, trackerVars
  <2> QED
    BY <2>1, <2>2, <2>3, <2>4, <2>5, <2>6, <2>7, <2>8 DEF Tracker
<1>2. Writing => Writing' \/ epoch' = epoch + 1
  <2> USE DEF PublishedInv, UpdateGuarded, Writing, TypeOK
  <2>1. CASE FinishIncr
    BY <2>1 DEF FinishIncr
  <2>2. CASE CommitUsers \/ CommitRows \/ DirtyExpires
    BY <2>2 DEF CommitUsers, CommitRows, DirtyExpires, trackerVars
  <2> QED
    BY <2>1, <2>2 DEF Tracker, BeginUpdate, FinishDel, AbortUpdate, LoseUpdate
<1>3. ASSUME NEW e \in Epochs, e <= epoch, NEW v, Harmless(e, v)
      PROVE  Harmless(e, v)'
  <2>1. e \in Nat /\ epoch' \in Nat /\ floor'[e] = floor[e]
    BY <1>0, <1>3, TrackerMonotone DEF TypeOK
  <2>2. CASE Exact(e, v)
    BY <2>1, <2>2 DEF Harmless, Exact
  <2>3. CASE e < epoch
    BY <1>0, <2>1, <2>3 DEF Harmless
  <2>4. CASE Writing
    BY <1>0, <1>2, <1>3, <2>1, <2>4 DEF Harmless
  <2> QED
    BY <1>3, <2>2, <2>3, <2>4 DEF Harmless
<1>4. ASSUME NEW e \in Epochs, e <= epoch, NEW v, Exact(e, v)
      PROVE  Exact(e, v)'
  BY <1>0, <1>4 DEF Exact
<1>5. ExactL2' /\ ExactL1'
  BY <1>0, <1>4 DEF PublishedInv, ExactL2, ExactL1, FloorInv, FlooredL2, FlooredL1, Floored
<1>6. HarmlessLate'
  BY <1>0, <1>3 DEF PublishedInv, HarmlessLate, FloorInv, FlooredLate, Floored, TypeOK
<1>7. HarmlessRequests'
  <2> SUFFICES ASSUME NEW r \in Readers, ctx[r] # None
               PROVE  HarmlessRequests!(r)'
    BY <1>0 DEF HarmlessRequests
  <2>1. ctx[r] \in Epochs /\ ctx[r] <= epoch
    BY DEF TypeOK, FloorInv, FlooredRequests
  <2> QED
    BY <1>0, <1>3, <1>4, <2>1 DEF PublishedInv, HarmlessRequests
<1> QED
  BY <1>1, <1>5, <1>6, <1>7 DEF PublishedInv

LEMMA PublishedStoreL1 ==
  ASSUME Shape, ExactL1, NEW r \in Readers, NEW v, ctx[r] \in Epochs,
         Exact(ctx[r], v), StoreL1(r, v), UNCHANGED floor
  PROVE  ExactL1'
<1>1. Home[r] \in Procs
  BY ActorsAssumption
<1>2. \A q \in Procs, e \in Epochs :
        l1'[q][e] = l1[q][e] \/ (e = ctx[r] /\ l1'[q][e] = v)
  BY <1>1 DEF Shape, TypeOK, StoreL1
<1> QED
  BY <1>2 DEF ExactL1, Exact

\* WRITE_SCRIPT only runs outside updates, and then a harmless value of the
\* present epoch is exact.
LEMMA PublishedRunWrite ==
  ASSUME Shape, UpdateGuarded, ExactL2, NEW e \in Epochs, NEW v,
         Harmless(e, v), RunWrite(e, v), UNCHANGED floor
  PROVE  /\ ExactL2'
         /\ MayWrite(e) => Exact(e, v)
<1>1. MayWrite(e) => Exact(e, v)
  BY Numbers DEF Shape, MayWrite, UpdateGuarded, Harmless, Writing
<1> QED
  BY <1>1 DEF Shape, TypeOK, ExactL2, Exact, RunWrite

\* Requests keep what they carry exact or harmless: a cache read returns an
\* exact value, a fetch outside an update reads what the epoch published.
LEMMA PublishedRequest ==
  ASSUME Shape, FloorInv, PublishedInv, NEW r \in Readers,
         \/ Start(r) \/ ReadCombined(r) \/ ReplyDirty(r) \/ ReplyHit(r) \/ ReplyMiss(r)
         \/ ReadValue(r) \/ FetchRows(r) \/ FetchUsers(r)
  PROVE  PublishedInv'
<1> USE DEF Shape, trackerVars, redisVars, localVars
<1>1. UNCHANGED <<db, upd, wrote, epoch, dirty, floor, l2, neg, late>>
  BY DEF Start, StartUnknown, StartDirty, StartClean, ReadCombined, ReplyDirty,
         ReplyHit, ReplyMiss, ReadValue, FetchRows, FetchUsers
<1>2. UpdateGuarded' /\ ExactL2' /\ HarmlessLate'
  BY <1>1 DEF PublishedInv, UpdateGuarded, Writing, ExactL2, HarmlessLate, Harmless, Exact
<1>3. \A s \in Readers : s # r => pc'[s] = pc[s] /\ ctx'[s] = ctx[s] /\ val'[s] = val[s]
  BY DEF Start, StartUnknown, StartDirty, StartClean, ReadCombined, ReplyDirty, EnterFlight,
         ReplyHit, ReplyMiss, ReadValue, FetchRows, FetchUsers, TypeOK
<1> DEFINE Mine ==
      ctx'[r] # None =>
        /\ pc'[r] \in {"users", "write"} => Harmless(ctx'[r], val'[r])
        /\ pc'[r] = "hit" => Exact(ctx'[r], val'[r])
<1>4. ASSUME Mine
      PROVE  HarmlessRequests'
  BY <1>1, <1>3, <1>4 DEF PublishedInv, HarmlessRequests, Harmless, Exact, Writing
<1>5. ASSUME UNCHANGED l1
      PROVE  ExactL1'
  BY <1>1, <1>5 DEF PublishedInv, ExactL1, Exact
<1>6. ASSUME NEW key, EnterFlight(r, key)
      PROVE  pc'[r] \in {"rows", "readall", "readval", "wait"}
  BY <1>6, KeyFacts DEF EnterFlight, TypeOK
<1>a. CASE Start(r) \/ ReplyDirty(r) \/ ReplyMiss(r)
  <2>1. pc'[r] \in {"done", "rows", "readall", "readval", "wait"}
    BY <1>a, <1>6 DEF Start, StartUnknown, StartDirty, StartClean, ReplyDirty, ReplyMiss, TypeOK
  <2>2. UNCHANGED l1
    BY <1>a DEF Start, StartUnknown, StartDirty, StartClean, ReplyDirty, ReplyMiss
  <2> QED
    BY <1>2, <1>4, <1>5, <2>1, <2>2 DEF PublishedInv
<1>c. CASE ReadCombined(r)
  <2> DEFINE v == IF dirty THEN None ELSE IF l2[epoch] # None THEN l2[epoch] ELSE neg[epoch]
  <2>1. ASSUME ctx' = [ctx EXCEPT ![r] = epoch] /\ val' = [val EXCEPT ![r] = v],
               pc' = [pc EXCEPT ![r] = IF dirty THEN "dirty" ELSE IF v # None THEN "hit" ELSE "miss"]
        PROVE  Mine
    <3>1. epoch \in Epochs /\ (v # None => Exact(epoch, v))
      BY DEF TypeOK, PublishedInv, ExactL2
    <3>2. ctx'[r] = epoch /\ val'[r] = v /\ pc'[r] \in {"dirty", "hit", "miss"}
          /\ (pc'[r] = "hit" => v # None)
      BY <2>1 DEF TypeOK
    <3> HIDE DEF v
    <3> QED
      BY <3>1, <3>2
  <2>2. ASSUME pc' = [pc EXCEPT ![r] = "rows"]
        PROVE  Mine
    BY <2>2 DEF TypeOK
  <2> HIDE DEF Mine
  <2>3. Mine
    BY <1>c, <2>1, <2>2 DEF ReadCombined
  <2> QED
    BY <1>c, <1>2, <1>4, <1>5, <2>3 DEF ReadCombined, PublishedInv
<1>e. CASE ReplyHit(r)
  <2>1. ctx[r] \in Epochs /\ Exact(ctx[r], val[r]) /\ pc'[r] = "done"
    BY <1>e DEF ReplyHit, TypeOK, RequestShape, PublishedInv, HarmlessRequests
  <2>2. ExactL1'
    BY <1>e, <1>1, <2>1, PublishedStoreL1 DEF ReplyHit, PublishedInv
  <2> QED
    BY <1>2, <1>4, <2>1, <2>2 DEF PublishedInv
<1>g. CASE ReadValue(r)
  <2> DEFINE v == IF l2[ctx[r]] # None THEN l2[ctx[r]] ELSE neg[ctx[r]]
  <2>1. ctx[r] \in Epochs
    BY <1>g DEF ReadValue, TypeOK, RequestShape
  <2>2. pc'[r] \in {"done", "rows"}
    BY <1>g DEF ReadValue, TypeOK
  <2>3. CASE v # None /\ StoreL1(r, v)
    <3>1. Exact(ctx[r], v)
      BY <2>1, <2>3 DEF PublishedInv, ExactL2
    <3> HIDE DEF v
    <3>2. ExactL1'
      BY <1>1, <2>1, <2>3, <3>1, PublishedStoreL1 DEF PublishedInv
    <3> QED
      BY <1>2, <1>4, <2>2, <3>2 DEF PublishedInv
  <2>4. CASE UNCHANGED l1
    BY <1>2, <1>4, <1>5, <2>2, <2>4 DEF PublishedInv
  <2> QED
    BY <1>g, <2>3, <2>4 DEF ReadValue
<1>h. CASE FetchRows(r)
  <2>1. ctx'[r] = ctx[r] /\ val'[r].rows = db.rows /\ pc'[r] = "users"
    BY <1>h DEF FetchRows, TypeOK
  <2>2. ctx[r] # None => ctx[r] \in Nat /\ epoch \in Nat /\ ctx[r] <= epoch
    BY Numbers DEF TypeOK, FloorInv, FlooredRequests
  <2>3. Mine
    BY <2>1, <2>2 DEF PublishedInv, UpdateGuarded, Harmless, Exact
  <2> QED
    BY <1>h, <1>2, <1>4, <1>5, <2>3 DEF FetchRows, PublishedInv
<1>i. CASE FetchUsers(r)
  <2>1. ctx'[r] = ctx[r] /\ pc[r] = "users" /\ pc'[r] \in {"done", "write"}
        /\ val'[r].rows = val[r].rows
    BY <1>i DEF FetchUsers, TypeOK
  <2>2. Mine
    BY <2>1 DEF PublishedInv, HarmlessRequests, Harmless, Exact
  <2> QED
    BY <1>i, <1>2, <1>4, <1>5, <2>2 DEF FetchUsers, PublishedInv
<1> QED
  BY <1>a, <1>c, <1>e, <1>g, <1>h, <1>i

LEMMA PublishedWrite ==
  ASSUME Shape, PublishedInv,
         \/ \E r \in Readers : WriteBack(r) \/ WriteTimeout(r)
         \/ \E w \in late : LateWrite(w)
  PROVE  PublishedInv'
<1> USE DEF Shape, trackerVars, redisVars, localVars, reqVars
<1>1. UNCHANGED <<db, upd, wrote, epoch, dirty, floor, control>>
  BY DEF WriteBack, WriteTimeout, LateWrite
<1>2. UpdateGuarded'
  BY <1>1 DEF PublishedInv, UpdateGuarded, Writing
<1>3. ASSUME NEW r \in Readers, pc' = [pc EXCEPT ![r] = "done"], UNCHANGED <<ctx, val>>
      PROVE  HarmlessRequests'
  BY <1>1, <1>3 DEF TypeOK, PublishedInv, HarmlessRequests, Harmless, Exact, Writing
<1>4. ASSUME NEW r \in Readers, pc[r] = "write"
      PROVE  ctx[r] \in Epochs /\ Harmless(ctx[r], val[r])
  BY <1>4 DEF TypeOK, RequestShape, PublishedInv, HarmlessRequests
<1>5. ASSUME NEW r \in Readers, WriteBack(r)
      PROVE  PublishedInv'
  <2>1. ctx[r] \in Epochs /\ Harmless(ctx[r], val[r]) /\ RunWrite(ctx[r], val[r])
    BY <1>4, <1>5 DEF WriteBack
  <2>2. ExactL2' /\ (MayWrite(ctx[r]) => Exact(ctx[r], val[r]))
    BY <1>1, <2>1, PublishedRunWrite DEF PublishedInv
  <2>3. ExactL1'
    <3>1. CASE MayWrite(ctx[r])
      BY <1>1, <1>5, <2>1, <2>2, <3>1, PublishedStoreL1 DEF WriteBack, PublishedInv
    <3>2. CASE ~MayWrite(ctx[r])
      BY <1>1, <1>5, <3>2 DEF WriteBack, PublishedInv, ExactL1, Exact
    <3> QED
      BY <3>1, <3>2
  <2>4. HarmlessLate'
    <3>1. late' = late
      BY <1>5 DEF WriteBack
    <3> QED
      BY <1>1, <3>1 DEF PublishedInv, HarmlessLate, Harmless, Exact, Writing
  <2>5. HarmlessRequests'
    BY <1>3, <1>5 DEF WriteBack
  <2> QED
    BY <1>2, <2>2, <2>3, <2>4, <2>5 DEF PublishedInv
<1>6. ASSUME NEW r \in Readers, WriteTimeout(r)
      PROVE  PublishedInv'
  <2>1. \A w \in late' : w \in late \/ w = [ctx |-> ctx[r], val |-> val[r]]
    BY <1>6 DEF WriteTimeout
  <2>2. HarmlessLate'
    BY <1>1, <1>4, <1>6, <2>1 DEF WriteTimeout, PublishedInv, HarmlessLate, Harmless, Exact, Writing
  <2>3. ExactL2' /\ ExactL1'
    BY <1>6 DEF WriteTimeout, PublishedInv, ExactL2, ExactL1, Exact
  <2> QED
    BY <1>2, <1>3, <1>6, <2>2, <2>3 DEF WriteTimeout, PublishedInv
<1>7. ASSUME NEW w \in late, LateWrite(w)
      PROVE  PublishedInv'
  <2>1. w.ctx \in Epochs /\ Harmless(w.ctx, w.val) /\ RunWrite(w.ctx, w.val)
    BY <1>7 DEF TypeOK, PublishedInv, HarmlessLate, LateWrite
  <2>2. ExactL2'
    BY <1>1, <2>1, PublishedRunWrite DEF PublishedInv
  <2>3. HarmlessLate' /\ HarmlessRequests' /\ ExactL1'
    BY <1>1, <1>7
    DEF LateWrite, PublishedInv, HarmlessLate, HarmlessRequests, ExactL1, Harmless, Exact, Writing
  <2> QED
    BY <1>2, <2>2, <2>3 DEF PublishedInv
<1> QED
  BY <1>5, <1>6, <1>7

LEMMA PublishedQuiet ==
  ASSUME Shape, PublishedInv,
         \/ \E r \in Readers : Finish(r) \/ Fail(r)
         \/ \E e \in Epochs : ExpireL2(e)
         \/ \E p \in Procs : ExpireControl(p) \/ \E e \in Epochs : ExpireL1(p, e)
         \/ UNCHANGED vars
  PROVE  PublishedInv'
<1> USE DEF Shape, trackerVars, redisVars, localVars, reqVars
<1>1. UNCHANGED <<db, upd, wrote, epoch, dirty, floor, late>>
  BY DEF Finish, Fail, ExpireL2, ExpireControl, ExpireL1, vars
<1>2. \A e \in Epochs : l2'[e] \in {l2[e], None} /\ neg'[e] \in {neg[e], None}
  BY DEF Finish, Fail, ExpireL2, ExpireControl, ExpireL1, vars, TypeOK
<1>3. \A p \in Procs, e \in Epochs : l1'[p][e] \in {l1[p][e], None}
  BY DEF Finish, Fail, ExpireL2, ExpireControl, ExpireL1, vars, TypeOK
<1>4. ASSUME NEW r \in Readers
      PROVE  \/ ctx'[r] = None
             \/ ctx'[r] = ctx[r] /\ pc'[r] \in {"done", "rows", "readall", "readval"}
             \/ ctx'[r] = ctx[r] /\ pc'[r] = pc[r] /\ val'[r] = val[r]
  BY <1>4, KeyFacts DEF Finish, Fail, ExpireL2, ExpireControl, ExpireL1, vars, TypeOK
<1>5. UpdateGuarded' /\ ExactL2' /\ ExactL1' /\ HarmlessLate'
  BY <1>1, <1>2, <1>3
  DEF PublishedInv, UpdateGuarded, ExactL2, ExactL1, HarmlessLate, Harmless, Exact, Writing
<1>6. HarmlessRequests'
  BY <1>1, <1>4 DEF PublishedInv, HarmlessRequests, Harmless, Exact, Writing
<1> QED
  BY <1>5, <1>6 DEF PublishedInv

LEMMA PublishedInit == Init => PublishedInv
BY BoundsAssumption
DEF Init, PublishedInv, UpdateGuarded, ExactL2, ExactL1, HarmlessLate, HarmlessRequests, Epochs

LEMMA PublishedStep ==
  ASSUME Faults = {}
  PROVE  Shape /\ FloorInv /\ PublishedInv /\ [Next]_vars => PublishedInv'
<1> SUFFICES ASSUME Shape, FloorInv, PublishedInv, [Next]_vars
             PROVE  PublishedInv'
  OBVIOUS
<1>1. CASE Tracker
  BY <1>1, PublishedTracker
<1>2. CASE \E r \in Readers : Start(r) \/ Proceed(r) \/ Fail(r)
  BY <1>2, PublishedRequest, PublishedWrite, PublishedQuiet DEF Proceed
<1>3. CASE \E w \in late : LateWrite(w)
  BY <1>3, PublishedWrite
<1> QED
  BY <1>1, <1>2, <1>3, PublishedQuiet DEF Next

\* When the tracker's Redis commands succeed, every response cached under an
\* epoch, in Redis or in a process, shows exactly the ranking rows the epoch
\* published: neither WRITE_SCRIPT's two checks nor the order of the update's
\* steps lets a response computed inside an update survive in a cache.
THEOREM CachedIsPublished ==
  ASSUME Faults = {}
  PROVE  Spec => []PublishedOnly
<1>1. Shape /\ FloorInv /\ PublishedInv /\ [Next]_vars => PublishedInv'
  BY PublishedStep
<1>2. Init => PublishedInv
  BY PublishedInit
<1> QED
  BY <1>1, <1>2, ShapeInvariant, FloorInvariant, PublishedImplies, PTL DEF Spec
=============================================================================
