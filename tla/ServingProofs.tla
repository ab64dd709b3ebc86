--------------------------- MODULE ServingProofs ---------------------------
(***************************************************************************)
(* Proofs about Serving, for every number of requests, mix of their kinds, *)
(* limits and bounds: its types, that answers are readable, that permits   *)
(* are held only where they should be, and that the cached encodings of a  *)
(* response agree.                                                         *)
(***************************************************************************)
EXTENDS Serving, TLAPS

-----------------------------------------------------------------------------
(* The inductive invariant behind the types: what the place of a request   *)
(* says of its epoch, its data and its flights.                             *)

ReqOK(r) ==
  /\ pc[r] = "start" => at[r] = None
  /\ pc[r] = "wait" <=> awaited[r] # None
  /\ awaited[r] # None =>
       /\ awaited[r].gzip = kind[r].gzip
       /\ awaited[r].what = "lookup" => at[r] # None
       /\ awaited[r].what = "fetch" => at[r] = None
  /\ pc[r] = "read" => at[r] # None
  /\ pc[r] \in {"global", "server", "query"} => at[r] # Unknown
  /\ pc[r] = "server" => kind[r].limited
  /\ pc[r] \in {"encode", "encodefirst", "write"} =>
       at[r] \in Epochs /\ data[r] \in Responses /\ ~data[r].gzip
  /\ pc[r] \in {"encode", "encodefirst"} => kind[r].gzip
  /\ pc[r] = "shared" =>
       data[r] \in Responses /\ (data[r].gzip => kind[r].gzip)
  /\ pc[r] = "done" /\ data[r] # None =>
       /\ data[r] \in Answers /\ data[r].gzip = data[r].label
       /\ data[r].gzip => kind[r].gzip
  /\ \A k \in owned[r] : k.gzip = kind[r].gzip

\* The flag is set throughout an update, and the epoch counts the commits
\* that were published.
TrackerOK ==
  /\ dirty <=> update # "idle"
  /\ db = IF update = "committed" THEN epoch + 1 ELSE epoch
  /\ update = "begun" => db < MaxUpdates

IInv == TypeOK /\ TrackerOK /\ \A r \in Requests : ReqOK(r)

Places == {"start", "wait", "shared", "read", "global", "server", "query",
           "encode", "encodefirst", "write", "done"}

\* The part of TypeOK and IInv that speaks of the requests' progress.
ReqTypes ==
  /\ pc \in [Requests -> Places]
  /\ data \in [Requests -> Responses \cup Answers \cup {None}]
  /\ owned \in [Requests -> SUBSET Keys]
  /\ awaited \in [Requests -> Keys \cup {None}]
  /\ \A r, s \in Requests : r # s => owned[r] \cap owned[s] = {}
  /\ \A r \in Requests : pc[r] = "done" => owned[r] = {}

\* The rest of TypeOK.
RestTypes ==
  /\ db \in Versions /\ epoch \in Epochs /\ dirty \in BOOLEAN
  /\ update \in {"idle", "begun", "committed", "bumped"}
  /\ control \in [epoch : Epochs, dirty : BOOLEAN] \cup {None}
  /\ l1 \in Entries /\ l2 \in Entries
  /\ late \subseteq [at : Epochs, suffix : Suffixes, gzip : BOOLEAN,
                     version : Versions]
  /\ kind \in [Requests -> Kinds]
  /\ at \in [Requests -> Epochs \cup {Unknown, None}]
  /\ held \in [Requests -> SUBSET {"global", "server"}]
  /\ faults \in 0..MaxFaults

LEMMA TypeParts ==
  ASSUME RestTypes', ReqTypes', TrackerOK', \A s \in Requests : ReqOK(s)'
  PROVE  IInv'
BY DEF IInv, TypeOK, RestTypes, ReqTypes, Places

\* A request that finishes with a response its client can read leaves every
\* request in order: itself, those that waited for it, and the others.
LEMMA FinishedOK ==
  ASSUME IInv, NEW r \in Requests, NEW response \in Responses,
         response.gzip => kind[r].gzip,
         Finished(r, response), pc[r] # "wait", kind' = kind,
         \A s \in Requests \ {r} : at'[s] = at[s]
  PROVE  ReqTypes' /\ \A s \in Requests : ReqOK(s)'
<1> USE DEF IInv
<1>1. /\ pc' = [s \in Requests |-> IF s = r THEN "done"
                 ELSE IF s \in Waiters(r) THEN "shared" ELSE pc[s]]
      /\ data' = [s \in Requests |-> IF s = r THEN Answer(r, response)
                 ELSE IF s \in Waiters(r) THEN response ELSE data[s]]
      /\ awaited' = [s \in Requests |-> IF s \in Waiters(r) THEN None ELSE awaited[s]]
      /\ owned' = [owned EXCEPT ![r] = {}]
  BY DEF Finished
<1>2. /\ response.version \in Versions /\ response.gzip \in BOOLEAN
      /\ kind[r].gzip \in BOOLEAN
  BY KindsAssumption DEF Responses, TypeOK
<1>3. Answer(r, response) \in Answers
  BY <1>2 DEF Answer, Answers
<1>4. ReqTypes'
  BY <1>1, <1>3 DEF ReqTypes, TypeOK, Places
<1>5. ASSUME NEW s \in Requests PROVE ReqOK(s)'
  <2>1. CASE s = r
    <3>1. /\ pc'[s] = "done" /\ data'[s] = Answer(r, response) /\ owned'[s] = {}
      BY <2>1, <1>1 DEF TypeOK
    <3>2. awaited'[s] = None
      BY <2>1, <1>1 DEF TypeOK, Waiters, ReqOK
    <3>3. /\ Answer(r, response).gzip = Answer(r, response).label
          /\ Answer(r, response).gzip => kind[r].gzip
      BY <1>2 DEF Answer
    <3> QED BY <2>1, <3>1, <3>2, <3>3, <1>3 DEF ReqOK
  <2>2. CASE s # r /\ s \in Waiters(r)
    <3>1. /\ pc'[s] = "shared" /\ data'[s] = response /\ owned'[s] = owned[s]
          /\ awaited'[s] = None
      BY <2>2, <1>1 DEF TypeOK
    <3>2. kind[s].gzip = kind[r].gzip
      BY <2>2 DEF Waiters, ReqOK
    <3> QED BY <2>2, <3>1, <3>2 DEF ReqOK
  <2>3. CASE s # r /\ s \notin Waiters(r)
    <3>1. /\ pc'[s] = pc[s] /\ data'[s] = data[s] /\ owned'[s] = owned[s]
          /\ awaited'[s] = awaited[s] /\ at'[s] = at[s]
      BY <2>3, <1>1 DEF TypeOK
    <3> QED BY <3>1 DEF ReqOK
  <2> QED BY <2>1, <2>2, <2>3
<1> QED BY <1>4, <1>5

\* So does one that fails: those that waited for it go on by themselves.
LEMMA FailedOK ==
  ASSUME IInv, NEW r \in Requests, Failed(r), kind' = kind, at' = at
  PROVE  ReqTypes' /\ \A s \in Requests : ReqOK(s)'
<1> USE DEF IInv
<1>1. /\ pc' = [s \in Requests |-> IF s = r THEN "done"
                 ELSE IF s \in Waiters(r) THEN Task(awaited[s]) ELSE pc[s]]
      /\ data' = [data EXCEPT ![r] = None]
      /\ awaited' = [s \in Requests |-> IF s = r \/ s \in Waiters(r) THEN None
                                        ELSE awaited[s]]
      /\ owned' = [owned EXCEPT ![r] = {}]
  BY DEF Failed
<1>2. ReqTypes'
  BY <1>1 DEF ReqTypes, TypeOK, Places, Task
<1>3. ASSUME NEW s \in Requests PROVE ReqOK(s)'
  <2>1. CASE s = r
    <3>1. /\ pc'[s] = "done" /\ data'[s] = None /\ owned'[s] = {}
          /\ awaited'[s] = None
      BY <2>1, <1>1 DEF TypeOK
    <3> QED BY <3>1 DEF ReqOK
  <2>2. CASE s # r /\ s \in Waiters(r)
    <3>1. /\ pc'[s] = Task(awaited[s]) /\ owned'[s] = owned[s]
          /\ awaited'[s] = None /\ at'[s] = at[s]
      BY <2>2, <1>1 DEF TypeOK
    <3>2. awaited[s] \in Keys /\ awaited[s] # None
      BY <2>2 DEF Waiters, TypeOK
    <3>3. awaited[s].what \in {"lookup", "fetch"}
      BY <3>2 DEF Keys
    <3>4. CASE awaited[s].what = "lookup"
      BY <3>1, <3>2, <3>4 DEF ReqOK, Task
    <3>5. CASE awaited[s].what = "fetch"
      BY <3>1, <3>2, <3>5, NoneAssumption DEF ReqOK, Task, Unknown
    <3> QED BY <3>3, <3>4, <3>5
  <2>3. CASE s # r /\ s \notin Waiters(r)
    <3>1. /\ pc'[s] = pc[s] /\ data'[s] = data[s] /\ owned'[s] = owned[s]
          /\ awaited'[s] = awaited[s] /\ at'[s] = at[s]
      BY <2>3, <1>1 DEF TypeOK
    <3> QED BY <3>1 DEF ReqOK
  <2> QED BY <2>1, <2>2, <2>3
<1> QED BY <1>2, <1>3

\* A request that enters a flight under a key of its own variant.
LEMMA EnterOK ==
  ASSUME IInv, NEW r \in Requests, NEW what \in {"lookup", "fetch"},
         NEW e \in Epochs \cup {Unknown},
         Enter(r, Key(kind[r], what, e)), pc[r] \notin {"wait", "done"},
         kind' = kind, data' = data,
         \A s \in Requests \ {r} : at'[s] = at[s],
         what = "lookup" => at'[r] # None,
         what = "fetch" => at'[r] = None
  PROVE  ReqTypes' /\ \A s \in Requests : ReqOK(s)'
<1> USE DEF IInv
<1> DEFINE key == Key(kind[r], what, e)
<1>1. kind[r] \in Kinds /\ kind[r].suffix \in Suffixes /\ kind[r].gzip \in BOOLEAN
  BY KindsAssumption DEF TypeOK
<1>2. /\ key \in Keys /\ key.what = what /\ key.gzip = kind[r].gzip
      /\ key # None
  BY <1>1, NoneAssumption DEF Key, Keys
<1>3. awaited[r] = None
  BY DEF ReqOK
<1> HIDE DEF key
<1>4. CASE \E s \in Requests : key \in owned[s]
  <2>1. /\ pc' = [pc EXCEPT ![r] = "wait"]
        /\ awaited' = [awaited EXCEPT ![r] = key]
        /\ owned' = owned
    BY <1>4 DEF Enter, key
  <2>2. ReqTypes'
    BY <1>2, <2>1 DEF ReqTypes, TypeOK, Places
  <2>3. ASSUME NEW s \in Requests PROVE ReqOK(s)'
    <3>1. CASE s = r
      <4>1. pc'[s] = "wait" /\ awaited'[s] = key
        BY <2>1, <3>1 DEF TypeOK
      <4> QED BY <1>2, <2>1, <3>1, <4>1 DEF ReqOK
    <3>2. CASE s # r
      <4>1. pc'[s] = pc[s] /\ awaited'[s] = awaited[s] /\ at'[s] = at[s]
        BY <2>1, <3>2 DEF TypeOK
      <4> QED BY <2>1, <4>1 DEF ReqOK
    <3> QED BY <3>1, <3>2
  <2> QED BY <2>2, <2>3
<1>5. CASE ~ \E s \in Requests : key \in owned[s]
  <2>1. /\ pc' = [pc EXCEPT ![r] = Task(key)]
        /\ owned' = [owned EXCEPT ![r] = @ \cup {key}]
        /\ awaited' = awaited
    BY <1>5 DEF Enter, key
  <2>2. ReqTypes'
    BY <1>2, <1>5, <2>1 DEF ReqTypes, TypeOK, Places, Task
  <2>3. ASSUME NEW s \in Requests PROVE ReqOK(s)'
    <3>1. CASE s = r
      <4>1. /\ pc'[s] = Task(key) /\ awaited'[s] = None
            /\ owned'[s] = owned[s] \cup {key}
        BY <1>3, <2>1, <3>1 DEF TypeOK
      <4>2. \A k \in owned'[s] : k.gzip = kind[s].gzip
        BY <1>2, <3>1, <4>1 DEF ReqOK
      <4>3. CASE what = "lookup"
        BY <1>2, <3>1, <4>1, <4>2, <4>3 DEF ReqOK, Task
      <4>4. CASE what = "fetch"
        BY <1>2, <3>1, <4>1, <4>2, <4>4, NoneAssumption DEF ReqOK, Task, Unknown
      <4> QED BY <4>3, <4>4
    <3>2. CASE s # r
      <4>1. /\ pc'[s] = pc[s] /\ awaited'[s] = awaited[s] /\ at'[s] = at[s]
            /\ owned'[s] = owned[s]
        BY <2>1, <3>2 DEF TypeOK
      <4> QED BY <4>1 DEF ReqOK
    <3> QED BY <3>1, <3>2
  <2> QED BY <2>2, <2>3
<1> QED BY <1>4, <1>5

\* A request that goes on to another place of its own work.
LEMMA MoveOK ==
  ASSUME IInv, NEW r \in Requests,
         NEW p \in Places \ {"start", "wait", "done"},
         NEW d \in Responses \cup Answers \cup {None},
         pc[r] # "wait", pc' = [pc EXCEPT ![r] = p],
         data' = [data EXCEPT ![r] = d],
         UNCHANGED <<owned, awaited, kind>>,
         \A s \in Requests \ {r} : at'[s] = at[s],
         p = "read" => at'[r] # None,
         p \in {"global", "server", "query"} => at'[r] # Unknown,
         p \in {"encode", "encodefirst", "write"} =>
           at'[r] \in Epochs /\ d \in Responses /\ ~d.gzip,
         p \in {"encode", "encodefirst"} => kind[r].gzip,
         p = "server" => kind[r].limited,
         p # "shared"
  PROVE  ReqTypes' /\ \A s \in Requests : ReqOK(s)'
<1> USE DEF IInv
<1>1. ReqTypes'
  BY DEF ReqTypes, TypeOK, Places
<1>2. ASSUME NEW s \in Requests PROVE ReqOK(s)'
  <2>1. CASE s = r
    <3>1. pc'[s] = p /\ data'[s] = d /\ awaited[s] = None
      BY <2>1 DEF TypeOK, ReqOK
    <3> QED BY <2>1, <3>1 DEF ReqOK
  <2>2. CASE s # r
    <3>1. pc'[s] = pc[s] /\ data'[s] = data[s] /\ at'[s] = at[s]
      BY <2>2 DEF TypeOK
    <3> QED BY <3>1 DEF ReqOK
  <2> QED BY <2>1, <2>2
<1> QED BY <1>1, <1>2

\* A step that is not a request's leaves the requests in order.
LEMMA SameRequests ==
  ASSUME IInv, UNCHANGED request
  PROVE  ReqTypes' /\ \A s \in Requests : ReqOK(s)'
BY DEF IInv, request, flights, ReqTypes, ReqOK, TypeOK, Places

LEMMA InitIInv == Init => IInv
<1> SUFFICES ASSUME Init PROVE IInv
  OBVIOUS
<1>1. TypeOK
  <2>1. /\ db \in Versions /\ epoch \in Epochs /\ faults \in 0..MaxFaults
    BY BoundsAssumption DEF Init, Versions, Epochs
  <2>2. kind \in [Requests -> Kinds]
    BY MixesAssumption DEF Init
  <2>3. l1 \in Entries /\ l2 \in Entries
    BY DEF Init, Entries, Nothing
  <2>4. ReqTypes
    BY DEF Init, ReqTypes, Places
  <2> QED BY <2>1, <2>2, <2>3, <2>4 DEF Init, ReqTypes, TypeOK, Places
<1>2. TrackerOK
  BY DEF Init, TrackerOK
<1>3. ASSUME NEW r \in Requests PROVE ReqOK(r)
  BY NoneAssumption DEF Init, ReqOK, Unknown
<1> QED BY <1>1, <1>2, <1>3 DEF IInv

\* The steps of the tracker, of the caches and of Redis.
LEMMA EnvironmentIInv ==
  ASSUME IInv, Update \/ Lose \/ LateWrite
  PROVE  IInv'
<1> USE BoundsAssumption DEF IInv, tracker, caches
<1>1. UNCHANGED request
  BY DEF Update, BeginUpdate, Commit, FinishIncr, FinishDel, Lose, ExpireControl,
         ExpireL1, ExpireL2, LateWrite
<1>2. TrackerOK' /\ db' \in Versions /\ epoch' \in Epochs /\ dirty' \in BOOLEAN
        /\ update' \in {"idle", "begun", "committed", "bumped"}
  <2>1. CASE Update
    <3>1. db \in Nat /\ epoch \in Nat /\ db <= MaxUpdates /\ MaxUpdates \in Nat
      BY DEF TypeOK, Versions, Epochs
    <3>2. CASE BeginUpdate
      BY <3>1, <3>2 DEF BeginUpdate, TrackerOK, TypeOK
    <3>3. CASE Commit
      BY <3>1, <3>3 DEF Commit, TrackerOK, TypeOK, Versions
    <3>4. CASE FinishIncr
      BY <3>1, <3>4 DEF FinishIncr, TrackerOK, TypeOK, Epochs
    <3>5. CASE FinishDel
      BY <3>1, <3>5 DEF FinishDel, TrackerOK, TypeOK
    <3> QED BY <2>1, <3>2, <3>3, <3>4, <3>5 DEF Update
  <2>2. CASE Lose \/ LateWrite
    BY <2>2 DEF Lose, ExpireControl, ExpireL1, ExpireL2, LateWrite, TrackerOK, TypeOK
  <2> QED BY <2>1, <2>2
<1>3. RestTypes'
  <2>1. CASE Update
    BY <1>1, <1>2, <2>1 DEF Update, BeginUpdate, Commit, FinishIncr, FinishDel,
            TypeOK, RestTypes, request
  <2>2. CASE ExpireControl
    BY <1>1, <1>2, <2>2 DEF ExpireControl, TypeOK, RestTypes, request
  <2>3. CASE ExpireL1
    BY <1>1, <1>2, <2>3 DEF ExpireL1, TypeOK, RestTypes, request, Entries
  <2>4. CASE ExpireL2
    BY <1>1, <1>2, <2>4 DEF ExpireL2, TypeOK, RestTypes, request, Entries
  <2>5. CASE LateWrite
    <3>1. PICK w \in late :
            /\ late' = late \ {w}
            /\ l2' = IF MayWrite(w.at)
                     THEN [l2 EXCEPT ![<<w.suffix, w.gzip, w.at>>] = w.version]
                     ELSE l2
      BY <2>5 DEF LateWrite
    <3>2. w.version \in Versions
      BY DEF TypeOK
    <3>3. l2' \in Entries
      BY <3>1, <3>2 DEF TypeOK, Entries
    <3> QED BY <1>1, <1>2, <2>5, <3>1, <3>3 DEF LateWrite, TypeOK, RestTypes, request
  <2> QED BY <2>1, <2>2, <2>3, <2>4, <2>5 DEF Lose
<1> QED BY <1>1, <1>2, <1>3, SameRequests, TypeParts

\* What is known of a request and of the cached values it looks at.
LEMMA RequestFacts ==
  ASSUME TypeOK, NEW r \in Requests
  PROVE  /\ kind[r] \in Kinds /\ kind[r].suffix \in Suffixes
         /\ kind[r].gzip \in BOOLEAN
         /\ pc[r] \in Places /\ at[r] \in Epochs \cup {Unknown, None}
         /\ data[r] \in Responses \cup Answers \cup {None}
         /\ None \notin Epochs /\ Unknown \notin Epochs /\ None # Unknown
         /\ \A v \in Versions : Plain(v) \in Responses /\ ~Plain(v).gzip
         /\ \A v \in Versions : Zipped(v) \in Responses
<1>1. /\ kind[r] \in Kinds /\ kind[r].suffix \in Suffixes
      /\ kind[r].gzip \in BOOLEAN
  BY KindsAssumption DEF TypeOK
<1>2. /\ pc[r] \in Places /\ at[r] \in Epochs \cup {Unknown, None}
      /\ data[r] \in Responses \cup Answers \cup {None}
  BY DEF TypeOK, Places
<1>3. None \notin Epochs /\ Unknown \notin Epochs /\ None # Unknown
  BY NoneAssumption, BoundsAssumption DEF Epochs, Unknown
<1>4. /\ \A v \in Versions : Plain(v) \in Responses /\ ~Plain(v).gzip
      /\ \A v \in Versions : Zipped(v) \in Responses
  BY DEF Plain, Zipped, Responses
<1> QED BY <1>1, <1>2, <1>3, <1>4

LEMMA EntryFacts ==
  ASSUME TypeOK, NEW r \in Requests, NEW zip \in BOOLEAN, NEW e \in Epochs
  PROVE  /\ L1Value(r, zip, e) \in Versions \cup {None}
         /\ l2[<<kind[r].suffix, zip, e>>] \in Versions \cup {None}
BY RequestFacts DEF L1Value, TypeOK, Entries

LEMMA SameTracker ==
  ASSUME TrackerOK, UNCHANGED tracker
  PROVE  TrackerOK'
BY DEF TrackerOK, tracker

\* A request starts, or is handed the response of its flight.
LEMMA StartIInv ==
  ASSUME IInv, NEW r \in Requests,
         StartUnknown(r) \/ StartDirty(r) \/ StartClean(r) \/ Share(r)
  PROVE  IInv'
<1> USE RequestFacts DEF IInv
<1>1. TrackerOK' /\ kind' = kind
  <2>1. UNCHANGED <<tracker, kind>>
    BY DEF StartUnknown, StartDirty, StartClean, Share
  <2> QED BY <2>1, SameTracker
<1>2. CASE StartUnknown(r)
  <2>1. RestTypes'
    BY <1>2 DEF StartUnknown, RestTypes, TypeOK, tracker, caches
  <2>2. ReqTypes' /\ \A s \in Requests : ReqOK(s)'
    <3>1. /\ Enter(r, Key(kind[r], "lookup", Unknown)) /\ pc[r] = "start"
          /\ data' = data /\ at'[r] = Unknown
          /\ \A s \in Requests \ {r} : at'[s] = at[s]
      BY <1>2 DEF StartUnknown, TypeOK
    <3> QED BY <1>1, <3>1, EnterOK
  <2> QED BY <1>1, <2>1, <2>2, TypeParts
<1>3. CASE StartDirty(r)
  <2>1. RestTypes'
    BY <1>3 DEF StartDirty, RestTypes, TypeOK, tracker, caches
  <2>2. ReqTypes' /\ \A s \in Requests : ReqOK(s)'
    <3>1. /\ Enter(r, Key(kind[r], "fetch", control.epoch)) /\ pc[r] = "start"
          /\ data' = data /\ at' = at
          /\ control \in [epoch : Epochs, dirty : BOOLEAN]
      BY <1>3 DEF StartDirty, TypeOK
    <3>2. control.epoch \in Epochs /\ at[r] = None
      BY <3>1 DEF ReqOK
    <3> QED BY <1>1, <3>1, <3>2, EnterOK
  <2> QED BY <1>1, <2>1, <2>2, TypeParts
<1>4. CASE StartClean(r)
  <2> DEFINE e == control.epoch
             zip == kind[r].gzip
  <2>1. /\ e \in Epochs /\ zip \in BOOLEAN /\ pc[r] = "start"
        /\ L1Value(r, zip, e) \in Versions \cup {None}
        /\ L1Value(r, FALSE, e) \in Versions \cup {None}
    <3>1. control \in [epoch : Epochs, dirty : BOOLEAN]
      BY <1>4 DEF StartClean, TypeOK
    <3> QED BY <1>4, <3>1, EntryFacts DEF StartClean
  <2>2. UNCHANGED <<tracker, caches, kind, held, faults>>
    BY <1>4 DEF StartClean
  <2>3. RestTypes' /\ \A s \in Requests \ {r} : at'[s] = at[s]
    <3>1. at' = at \/ at' = [at EXCEPT ![r] = e]
      BY <1>4 DEF StartClean
    <3>2. /\ at' \in [Requests -> Epochs \cup {Unknown, None}]
          /\ \A s \in Requests \ {r} : at'[s] = at[s]
      BY <2>1, <3>1 DEF TypeOK
    <3> QED BY <2>2, <3>2 DEF RestTypes, TypeOK, tracker, caches
  <2>4. ReqTypes' /\ \A s \in Requests : ReqOK(s)'
    <3>1. CASE /\ zip /\ L1Value(r, TRUE, e) # None
               /\ Finished(r, Zipped(L1Value(r, TRUE, e)))
      <4>1. Zipped(L1Value(r, TRUE, e)) \in Responses
        BY <2>1, <3>1, EntryFacts
      <4> QED BY <1>1, <2>1, <2>3, <3>1, <4>1, FinishedOK
    <3>2. CASE /\ ~zip /\ L1Value(r, FALSE, e) # None
               /\ Finished(r, Plain(L1Value(r, FALSE, e)))
      <4>1. /\ Plain(L1Value(r, FALSE, e)) \in Responses
            /\ ~Plain(L1Value(r, FALSE, e)).gzip
        BY <2>1, <3>2
      <4> QED BY <1>1, <2>1, <2>3, <3>2, <4>1, FinishedOK
    <3>3. CASE /\ zip /\ L1Value(r, TRUE, e) = None /\ L1Value(r, FALSE, e) # None
               /\ pc' = [pc EXCEPT ![r] = "encode"]
               /\ data' = [data EXCEPT ![r] = Plain(L1Value(r, FALSE, e))]
               /\ at' = [at EXCEPT ![r] = e]
               /\ UNCHANGED flights
      <4>1. /\ Plain(L1Value(r, FALSE, e)) \in Responses
            /\ ~Plain(L1Value(r, FALSE, e)).gzip
        BY <2>1, <3>3
      <4>2. at'[r] = e /\ UNCHANGED <<owned, awaited>>
        BY <3>3 DEF TypeOK, flights
      <4> QED BY <1>1, <2>1, <2>3, <3>3, <4>1, <4>2, MoveOK DEF Places
    <3>4. CASE /\ at' = [at EXCEPT ![r] = e]
               /\ Enter(r, Key(kind[r], "lookup", e))
               /\ UNCHANGED data
      <4>1. at'[r] = e
        BY <3>4 DEF TypeOK
      <4> QED BY <1>1, <2>1, <2>3, <3>4, <4>1, EnterOK
    <3> QED BY <1>4, <3>1, <3>2, <3>3, <3>4 DEF StartClean
  <2> QED BY <1>1, <2>3, <2>4, TypeParts
<1>5. CASE Share(r)
  <2>1. RestTypes'
    BY <1>5 DEF Share, RestTypes, TypeOK, tracker, caches
  <2>2. ReqTypes' /\ \A s \in Requests : ReqOK(s)'
    <3>1. /\ data[r] \in Responses /\ (data[r].gzip => kind[r].gzip)
          /\ Finished(r, data[r]) /\ pc[r] = "shared" /\ at' = at
      BY <1>5 DEF Share, ReqOK
    <3> QED BY <1>1, <3>1, FinishedOK
  <2> QED BY <1>1, <2>1, <2>2, TypeParts
<1> QED BY <1>2, <1>3, <1>4, <1>5

\* A request looks into Redis.
LEMMA ReadIInv ==
  ASSUME IInv, NEW r \in Requests,
         ReadCombined(r) \/ ReadValue(r) \/ ReadFails(r)
  PROVE  IInv'
<1> USE RequestFacts DEF IInv
<1>1. TrackerOK' /\ kind' = kind
  <2>1. UNCHANGED <<tracker, kind>>
    BY DEF ReadCombined, ReadValue, ReadFails
  <2> QED BY <2>1, SameTracker
<1>2. pc[r] = "read"
  BY DEF ReadCombined, ReadValue, ReadFails
\* Found and ToQuery, at an epoch the request has by then.
<1>3. ASSUME NEW v \in Versions, Found(r, v), at'[r] \in Epochs,
             \A s \in Requests \ {r} : at'[s] = at[s]
      PROVE  ReqTypes' /\ \A s \in Requests : ReqOK(s)'
  <2>1. CASE kind[r].gzip
    <3>1. /\ pc' = [pc EXCEPT ![r] = "encode"]
          /\ data' = [data EXCEPT ![r] = Plain(v)]
          /\ UNCHANGED <<owned, awaited>>
      BY <1>3, <2>1 DEF Found, flights
    <3> QED BY <1>1, <1>2, <1>3, <2>1, <3>1, MoveOK DEF Places
  <2>2. CASE ~kind[r].gzip
    <3>1. Finished(r, Plain(v))
      BY <1>3, <2>2 DEF Found
    <3> QED BY <1>1, <1>2, <1>3, <3>1, FinishedOK
  <2> QED BY <2>1, <2>2
<1>4. ASSUME ToQuery(r), at'[r] # Unknown, \A s \in Requests \ {r} : at'[s] = at[s]
      PROVE  ReqTypes' /\ \A s \in Requests : ReqOK(s)'
  <2>1. /\ pc' = [pc EXCEPT ![r] = "global"] /\ data' = [data EXCEPT ![r] = data[r]]
        /\ UNCHANGED <<owned, awaited>>
    BY <1>4 DEF ToQuery, flights, TypeOK
  <2> QED BY <1>1, <1>2, <1>4, <2>1, MoveOK DEF Places
<1>5. CASE ReadCombined(r)
  <2> DEFINE entry == <<kind[r].suffix, FALSE, epoch>>
  <2>1. /\ epoch \in Epochs /\ l2[entry] \in Versions \cup {None}
        /\ control' \in [epoch : Epochs, dirty : BOOLEAN]
    <3>1. epoch \in Epochs /\ dirty \in BOOLEAN
      BY DEF TypeOK
    <3> QED BY <1>5, <3>1, EntryFacts DEF ReadCombined
  <2>2. UNCHANGED <<tracker, l2, late, kind, held, faults>>
    BY <1>5 DEF ReadCombined
  <2>3. ASSUME NEW x \in Epochs \cup {None}, at' = [at EXCEPT ![r] = x],
               l1' \in Entries
        PROVE  /\ RestTypes' /\ at'[r] = x
               /\ \A s \in Requests \ {r} : at'[s] = at[s]
    BY <2>1, <2>2, <2>3 DEF TypeOK, RestTypes, tracker
  <2>4. CASE /\ at' = [at EXCEPT ![r] = None]
             /\ Enter(r, Key(kind[r], "fetch", epoch))
             /\ UNCHANGED <<l1, data>>
    <3>1. l1' \in Entries
      BY <2>4 DEF TypeOK
    <3> QED BY <1>1, <1>2, <2>1, <2>3, <2>4, <3>1, EnterOK, TypeParts
  <2>5. CASE /\ l2[entry] # None
             /\ at' = [at EXCEPT ![r] = epoch]
             /\ l1' = [l1 EXCEPT ![entry] = l2[entry]]
             /\ Found(r, l2[entry])
    <3>1. l1' \in Entries
      BY <2>1, <2>5 DEF TypeOK, Entries
    <3>2. l2[entry] \in Versions
      BY <2>1, <2>5
    <3>3. /\ RestTypes' /\ at'[r] \in Epochs
          /\ \A s \in Requests \ {r} : at'[s] = at[s]
      BY <2>1, <2>3, <2>5, <3>1
    <3> HIDE DEF entry
    <3>4. ReqTypes' /\ \A s \in Requests : ReqOK(s)'
      BY <1>3, <2>5, <3>2, <3>3
    <3> QED BY <1>1, <3>3, <3>4, TypeParts
  <2>6. CASE at' = [at EXCEPT ![r] = epoch] /\ ToQuery(r) /\ UNCHANGED l1
    <3>1. l1' \in Entries
      BY <2>6 DEF TypeOK
    <3> QED BY <1>1, <1>4, <2>1, <2>3, <2>6, <3>1, TypeParts
  <2> QED BY <1>5, <2>4, <2>5, <2>6 DEF ReadCombined
<1>6. CASE ReadValue(r)
  <2> DEFINE plain == <<kind[r].suffix, FALSE, at[r]>>
             zipped == <<kind[r].suffix, TRUE, at[r]>>
  <2>1. /\ at[r] \in Epochs /\ at' = at
        /\ l2[plain] \in Versions \cup {None} /\ l2[zipped] \in Versions \cup {None}
    <3>1. at[r] \in Epochs /\ at' = at
      BY <1>6 DEF ReadValue
    <3> QED BY <3>1, EntryFacts
  <2>2. UNCHANGED <<tracker, control, l2, late, kind, at, held, faults>>
    BY <1>6 DEF ReadValue
  <2>3. ASSUME l1' \in Entries PROVE RestTypes'
    BY <2>2, <2>3 DEF TypeOK, RestTypes, tracker
  <2>4. CASE /\ kind[r].gzip /\ l2[zipped] # None
             /\ l1' = [l1 EXCEPT ![zipped] = l2[zipped]]
             /\ Finished(r, Zipped(l2[zipped]))
    <3>1. l1' \in Entries
      BY <2>1, <2>4 DEF TypeOK, Entries
    <3>2. Zipped(l2[zipped]) \in Responses
      BY <2>1, <2>4
    <3> QED BY <1>1, <1>2, <2>1, <2>3, <2>4, <3>1, <3>2, FinishedOK, TypeParts
  <2>5. CASE /\ l2[plain] # None
             /\ l1' = [l1 EXCEPT ![plain] = l2[plain]]
             /\ Found(r, l2[plain])
    <3>1. l1' \in Entries
      BY <2>1, <2>5 DEF TypeOK, Entries
    <3> QED BY <1>1, <1>3, <2>1, <2>3, <2>5, <3>1, TypeParts
  <2>6. CASE ToQuery(r) /\ UNCHANGED l1
    <3>1. l1' \in Entries
      BY <2>6 DEF TypeOK
    <3> QED BY <1>1, <1>4, <2>1, <2>3, <2>6, <3>1, TypeParts
  <2> QED BY <1>6, <2>4, <2>5, <2>6 DEF ReadValue
<1>7. CASE ReadFails(r)
  <2>1. RestTypes'
    BY <1>7, BoundsAssumption DEF ReadFails, RestTypes, TypeOK, tracker, caches
  <2>2. /\ ToQuery(r) /\ at'[r] = None
        /\ \A s \in Requests \ {r} : at'[s] = at[s]
    BY <1>7 DEF ReadFails, TypeOK
  <2> QED BY <1>1, <1>4, <2>1, <2>2, TypeParts
<1> QED BY <1>5, <1>6, <1>7

\* A request waits for permits, queries, or gives up.
LEMMA QueryIInv ==
  ASSUME IInv, NEW r \in Requests,
         AcquireGlobal(r) \/ AcquireServer(r) \/ QueryDone(r) \/ Refuse(r) \/ Fail(r)
  PROVE  IInv'
<1> USE RequestFacts DEF IInv
<1>1. TrackerOK' /\ kind' = kind /\ at' = at /\ caches' = caches
  <2>1. UNCHANGED <<tracker, kind, at, caches>>
    BY DEF AcquireGlobal, AcquireServer, QueryDone, Refuse, Fail
  <2> QED BY <2>1, SameTracker
<1>2. RestTypes'
  <2>1. held' \in [Requests -> SUBSET {"global", "server"}]
    BY DEF AcquireGlobal, AcquireServer, QueryDone, Refuse, Fail, TypeOK
  <2>2. faults' \in 0..MaxFaults /\ UNCHANGED tracker
    BY BoundsAssumption
    DEF AcquireGlobal, AcquireServer, QueryDone, Refuse, Fail, TypeOK
  <2> QED BY <1>1, <2>1, <2>2 DEF RestTypes, TypeOK, tracker, caches
<1>3. ReqTypes' /\ \A s \in Requests : ReqOK(s)'
  <2>1. CASE AcquireGlobal(r) \/ AcquireServer(r)
    <3>1. PICK p \in {"server", "query"} :
            pc' = [pc EXCEPT ![r] = p] /\ (p = "server" => kind[r].limited)
      BY <2>1 DEF AcquireGlobal, AcquireServer
    <3>2. /\ pc[r] \in {"global", "server"} /\ data' = [data EXCEPT ![r] = data[r]]
          /\ UNCHANGED <<owned, awaited>>
      BY <2>1 DEF AcquireGlobal, AcquireServer, TypeOK, flights
    <3>3. at[r] # Unknown
      BY <3>2 DEF ReqOK
    <3> QED BY <1>1, <3>1, <3>2, <3>3, MoveOK DEF Places
  <2>2. CASE QueryDone(r)
    <3>1. pc[r] = "query" /\ db \in Versions /\ at[r] # Unknown
      BY <2>2 DEF QueryDone, ReqOK, TypeOK
    <3>2. CASE ~kind[r].cached \/ at[r] = None \/ IsHuge(r, db)
      <4> DEFINE zip == kind[r].gzip /\ IsBig(r, db)
                 response == [version |-> db, gzip |-> zip]
      <4>1. zip \in BOOLEAN
        OBVIOUS
      <4>2. response \in Responses /\ (response.gzip => kind[r].gzip)
        BY <3>1, <4>1 DEF Responses
      <4>3. Finished(r, response)
        BY <2>2, <3>2 DEF QueryDone
      <4> HIDE DEF response
      <4> QED BY <1>1, <3>1, <4>2, <4>3, FinishedOK
    <3>3. CASE ~(~kind[r].cached \/ at[r] = None \/ IsHuge(r, db))
      <4>1. /\ pc' = [pc EXCEPT ![r] = IF kind[r].gzip /\ IsBig(r, db)
                                       THEN "encodefirst" ELSE "write"]
            /\ data' = [data EXCEPT ![r] = Plain(db)]
            /\ UNCHANGED <<owned, awaited>>
        BY <2>2, <3>3 DEF QueryDone, flights
      <4>2. at[r] \in Epochs /\ Plain(db) \in Responses /\ ~Plain(db).gzip
        BY <3>1, <3>3
      <4>3. CASE kind[r].gzip /\ IsBig(r, db)
        BY <1>1, <3>1, <4>1, <4>2, <4>3, MoveOK DEF Places
      <4>4. CASE ~(kind[r].gzip /\ IsBig(r, db))
        BY <1>1, <3>1, <4>1, <4>2, <4>4, MoveOK DEF Places
      <4> QED BY <4>3, <4>4
    <3> QED BY <3>2, <3>3
  <2>3. CASE Refuse(r) \/ Fail(r)
    BY <1>1, <2>3, FailedOK DEF Refuse, Fail
  <2> QED BY <2>1, <2>2, <2>3
<1> QED BY <1>1, <1>2, <1>3, TypeParts

\* A request writes back.
LEMMA WriteIInv ==
  ASSUME IInv, NEW r \in Requests,
         Encode(r) \/ Write(r) \/ WriteTimesOut(r)
  PROVE  IInv'
<1> USE RequestFacts DEF IInv
<1>1. TrackerOK' /\ UNCHANGED <<tracker, control, kind, at, held>>
  <2>1. UNCHANGED <<tracker, control, kind, at, held>>
    BY DEF Encode, Write, WriteTimesOut
  <2> QED BY <2>1, SameTracker DEF IInv
<1>2. /\ pc[r] \in {"encode", "encodefirst", "write"} /\ at[r] \in Epochs
      /\ data[r] \in Responses /\ ~data[r].gzip /\ data[r].version \in Versions
  <2>1. pc[r] \in {"encode", "encodefirst", "write"}
    BY DEF Encode, Write, WriteTimesOut
  <2> QED BY <2>1 DEF ReqOK, Responses
<1>3. ASSUME NEW cache \in Entries, NEW zip \in BOOLEAN
      PROVE  Stored(cache, r, zip) \in Entries
  BY <1>2 DEF Stored, Entries
<1>4. RestTypes'
  <2>1. l1' \in Entries /\ l2' \in Entries
    <3>1. l1 \in Entries /\ l2 \in Entries
      BY DEF TypeOK
    <3>2. /\ Stored(l1, r, FALSE) \in Entries /\ Stored(l2, r, FALSE) \in Entries
          /\ Stored(l1, r, TRUE) \in Entries /\ Stored(l2, r, TRUE) \in Entries
          /\ Stored(Stored(l1, r, FALSE), r, TRUE) \in Entries
      BY <1>3, <3>1
    <3>3. CASE Encode(r)
      BY <3>1, <3>2, <3>3 DEF Encode
    <3>4. CASE Write(r)
      BY <3>1, <3>2, <3>4 DEF Write
    <3>5. CASE WriteTimesOut(r)
      BY <3>1, <3>5 DEF WriteTimesOut
    <3> QED BY <3>3, <3>4, <3>5
  <2>2. late' \subseteq [at : Epochs, suffix : Suffixes, gzip : BOOLEAN,
                        version : Versions]
    <3>1. ASSUME NEW zip \in BOOLEAN
          PROVE  [at |-> at[r], suffix |-> kind[r].suffix, gzip |-> zip,
                  version |-> data[r].version]
                   \in [at : Epochs, suffix : Suffixes, gzip : BOOLEAN,
                       version : Versions]
      BY <1>2
    <3>2. CASE Encode(r) \/ Write(r)
      BY <3>2 DEF Encode, Write, TypeOK
    <3>3. CASE WriteTimesOut(r)
      <4>1. PICK zip \in BOOLEAN :
              late' = late \cup {[at |-> at[r], suffix |-> kind[r].suffix,
                                  gzip |-> zip, version |-> data[r].version]}
        BY <3>3 DEF WriteTimesOut
      <4> QED BY <3>1, <4>1 DEF TypeOK
    <3> QED BY <3>2, <3>3
  <2>3. faults' \in 0..MaxFaults
    <3>1. faults' = faults \/ (faults < MaxFaults /\ faults' = faults + 1)
      BY DEF Encode, Write, WriteTimesOut
    <3> QED BY <3>1, BoundsAssumption DEF TypeOK
  <2> QED BY <1>1, <2>1, <2>2, <2>3 DEF RestTypes, TypeOK, tracker
<1>5. ASSUME NEW zip \in BOOLEAN, zip => kind[r].gzip,
             Finished(r, [data[r] EXCEPT !.gzip = zip])
      PROVE  ReqTypes' /\ \A s \in Requests : ReqOK(s)'
  <2> DEFINE response == [data[r] EXCEPT !.gzip = zip]
  <2>1. response \in Responses /\ (response.gzip => kind[r].gzip)
    BY <1>2, <1>5 DEF Responses
  <2> HIDE DEF response
  <2> QED BY <1>1, <1>2, <1>5, <2>1, FinishedOK DEF response
<1>6. ASSUME pc' = [pc EXCEPT ![r] = "write"], UNCHANGED <<data, flights>>
      PROVE  ReqTypes' /\ \A s \in Requests : ReqOK(s)'
  <2>1. data' = [data EXCEPT ![r] = data[r]] /\ UNCHANGED <<owned, awaited>>
    BY <1>6 DEF flights, TypeOK
  <2> QED BY <1>1, <1>2, <1>6, <2>1, MoveOK DEF Places
<1>7. pc[r] \in {"encode", "encodefirst"} => kind[r].gzip
  BY DEF ReqOK
<1>8. ReqTypes' /\ \A s \in Requests : ReqOK(s)'
  <2>1. CASE Encode(r)
    <3> DEFINE big == IsBig(r, data[r].version)
    <3>1. CASE pc[r] = "encode"
      <4>1. Finished(r, [data[r] EXCEPT !.gzip = big]) /\ kind[r].gzip
        BY <1>7, <2>1, <3>1 DEF Encode
      <4>2. big \in BOOLEAN
        BY DEF IsBig
      <4> HIDE DEF big
      <4> QED BY <1>5, <4>1, <4>2
    <3>2. CASE pc[r] # "encode"
      BY <1>6, <2>1, <3>2 DEF Encode
    <3> QED BY <3>1, <3>2
  <2>2. CASE Write(r)
    <3> DEFINE zip == kind[r].gzip /\ IsBig(r, data[r].version)
    <3>1. Finished(r, [data[r] EXCEPT !.gzip = zip])
      BY <2>2 DEF Write
    <3>2. zip \in BOOLEAN /\ (zip => kind[r].gzip)
      OBVIOUS
    <3> HIDE DEF zip
    <3> QED BY <1>5, <3>1, <3>2
  <2>3. CASE WriteTimesOut(r)
    <3> DEFINE zip == kind[r].gzip /\ IsBig(r, data[r].version)
    <3>1. zip \in BOOLEAN /\ (zip => kind[r].gzip)
      OBVIOUS
    <3>2. Zipped(data[r].version) \in Responses
      BY <1>2
    <3>3. \/ pc[r] = "write" /\ Finished(r, [data[r] EXCEPT !.gzip = zip])
          \/ pc[r] = "encode" /\ Finished(r, Zipped(data[r].version))
          \/ pc' = [pc EXCEPT ![r] = "write"] /\ UNCHANGED <<data, flights>>
      BY <2>3 DEF WriteTimesOut
    <3> HIDE DEF zip
    <3>4. CASE Finished(r, [data[r] EXCEPT !.gzip = zip])
      BY <1>5, <3>1, <3>4
    <3>5. CASE pc[r] = "encode" /\ Finished(r, Zipped(data[r].version))
      BY <1>1, <1>2, <1>7, <3>2, <3>5, FinishedOK
    <3> QED BY <1>6, <3>3, <3>4, <3>5
  <2> QED BY <2>1, <2>2, <2>3
<1> QED BY <1>1, <1>4, <1>8, TypeParts

LEMMA NextIInv ==
  ASSUME IInv, [Next]_vars
  PROVE  IInv'
<1>1. CASE Update \/ Lose \/ LateWrite
  BY <1>1, EnvironmentIInv
<1>2. ASSUME NEW r \in Requests,
             Step(r) \/ ReadFails(r) \/ Refuse(r) \/ Fail(r) \/ WriteTimesOut(r)
      PROVE  IInv'
  BY <1>2, StartIInv, ReadIInv, QueryIInv, WriteIInv DEF Step
<1>3. CASE UNCHANGED vars
  <2>1. UNCHANGED <<tracker, caches, request, faults>>
    BY <1>3 DEF vars
  <2>2. RestTypes'
    BY <2>1 DEF IInv, RestTypes, TypeOK, tracker, caches, request
  <2> QED BY <2>1, <2>2, SameRequests, SameTracker, TypeParts DEF IInv
<1> QED BY <1>1, <1>2, <1>3 DEF Next

\* The inductive invariant: every place of a request goes with an epoch, data
\* and flights of its own variant.
THEOREM ServingInvariant == Spec => []IInv
<1>1. Init => IInv
  BY InitIInv
<1>2. IInv /\ [Next]_vars => IInv'
  BY NextIInv
<1> QED BY <1>1, <1>2, PTL DEF Spec

\* Every variable keeps its type, no flight has two owners, and a request that
\* is over owns none (cache.rs:1694-1784).
THEOREM ServingTyped == Spec => []TypeOK
<1>1. IInv => TypeOK
  BY DEF IInv
<1> QED BY <1>1, ServingInvariant, PTL

\* No client is sent bytes in an encoding it does not accept or is not told of,
\* whichever request computed them (cache.rs:1786-1819).
THEOREM AnswersReadable == Spec => []Readable
<1>1. IInv => Readable
  BY DEF IInv, ReqOK, Readable
<1> QED BY <1>1, ServingInvariant, PTL

-----------------------------------------------------------------------------
(* Permits.  *)

\* The permits that go with a place.
PlaceHolds(p, limited) ==
  CASE p = "server" -> {"global"}
    [] p = "query" /\ limited -> {"global", "server"}
    [] OTHER -> {}

Resting == Places \ {"server", "query"}

\* A step of one request wakes up others at most.
OthersRest(r) ==
  \A s \in Requests \ {r} :
    \/ pc'[s] = pc[s]
    \/ pc[s] \in Resting /\ pc'[s] \in Resting

LEMMA RestingPlaces ==
  ASSUME IInv, NEW r \in Requests
  PROVE  /\ \A d : Finished(r, d) => pc'[r] \in Resting /\ OthersRest(r)
         /\ Failed(r) => pc'[r] \in Resting /\ OthersRest(r)
         /\ \A k : Enter(r, k) => pc'[r] \in Resting /\ OthersRest(r)
         /\ \A p \in Places :
              pc' = [pc EXCEPT ![r] = p] => pc'[r] = p /\ OthersRest(r)
<1>1. pc \in [Requests -> Places]
  BY DEF IInv, TypeOK, Places
<1>2. \A s \in Waiters(r) : s \in Requests /\ pc[s] = "wait"
  BY DEF Waiters, IInv, ReqOK
<1>3. \A k : Task(k) \in {"read", "global"}
  BY DEF Task
<1>4. {"read", "global", "wait", "shared", "done"} \subseteq Resting
  BY DEF Resting, Places
<1>5. ASSUME NEW d, Finished(r, d) PROVE pc'[r] \in Resting /\ OthersRest(r)
  <2>1. pc' = [s \in Requests |-> IF s = r THEN "done"
                 ELSE IF s \in Waiters(r) THEN "shared" ELSE pc[s]]
    BY <1>5 DEF Finished
  <2> QED BY <1>2, <1>4, <2>1 DEF OthersRest
<1>6. ASSUME Failed(r) PROVE pc'[r] \in Resting /\ OthersRest(r)
  <2>1. pc' = [s \in Requests |-> IF s = r THEN "done"
                 ELSE IF s \in Waiters(r) THEN Task(awaited[s]) ELSE pc[s]]
    BY <1>6 DEF Failed
  <2> QED BY <1>2, <1>3, <1>4, <2>1 DEF OthersRest
<1>7. ASSUME NEW p \in Places, pc' = [pc EXCEPT ![r] = p]
      PROVE  pc'[r] = p /\ OthersRest(r)
  BY <1>1, <1>7 DEF OthersRest
<1>8. ASSUME NEW k, Enter(r, k) PROVE pc'[r] \in Resting /\ OthersRest(r)
  <2>1. PICK p \in {"wait", "read", "global"} : pc' = [pc EXCEPT ![r] = p]
    BY <1>3, <1>8 DEF Enter
  <2> QED BY <1>1, <1>4, <2>1 DEF OthersRest
<1> QED BY <1>5, <1>6, <1>7, <1>8

\* A step between two places without permits.
LEMMA RestingStep ==
  ASSUME IInv, NEW r \in Requests,
         \/ StartUnknown(r) \/ StartDirty(r) \/ StartClean(r) \/ Share(r)
         \/ ReadCombined(r) \/ ReadValue(r) \/ ReadFails(r)
         \/ Encode(r) \/ Write(r) \/ WriteTimesOut(r)
  PROVE  /\ pc[r] \in Resting /\ pc'[r] \in Resting /\ OthersRest(r)
         /\ UNCHANGED <<held, kind>>
<1>1. pc[r] \in Resting
  BY DEF StartUnknown, StartDirty, StartClean, Share, ReadCombined, ReadValue,
         ReadFails, Encode, Write, WriteTimesOut, Resting, Places
<1>2. UNCHANGED <<held, kind>>
  BY DEF StartUnknown, StartDirty, StartClean, Share, ReadCombined, ReadValue,
         ReadFails, Encode, Write, WriteTimesOut
<1>3. \/ \E d : Finished(r, d)
      \/ \E k : Enter(r, k)
      \/ \E p \in {"encode", "write", "global"} : pc' = [pc EXCEPT ![r] = p]
  <2>1. CASE StartUnknown(r) \/ StartDirty(r) \/ StartClean(r) \/ Share(r)
    BY <2>1 DEF StartUnknown, StartDirty, StartClean, Share
  <2>2. CASE ReadCombined(r) \/ ReadValue(r) \/ ReadFails(r)
    BY <2>2 DEF ReadCombined, ReadValue, ReadFails, Found, ToQuery
  <2>3. CASE Encode(r) \/ Write(r) \/ WriteTimesOut(r)
    BY <2>3 DEF Encode, Write, WriteTimesOut
  <2> QED BY <2>1, <2>2, <2>3
<1>4. {"encode", "write", "global"} \subseteq Resting \cap Places
  BY DEF Resting, Places
<1> QED BY <1>1, <1>2, <1>3, <1>4, RestingPlaces

\* Permits are acquired, or given back with the query, a refusal or a failure.
LEMMA PermitStep ==
  ASSUME IInv, PermitsMatch, NEW r \in Requests,
         AcquireGlobal(r) \/ AcquireServer(r) \/ QueryDone(r) \/ Refuse(r) \/ Fail(r)
  PROVE  /\ held'[r] = PlaceHolds(pc'[r], kind'[r].limited) /\ OthersRest(r)
         /\ kind' = kind /\ \A s \in Requests \ {r} : held'[s] = held[s]
<1>1. held \in [Requests -> SUBSET {"global", "server"}] /\ kind[r].limited \in BOOLEAN
  BY KindsAssumption DEF IInv, TypeOK
<1>2. kind' = kind /\ \A s \in Requests \ {r} : held'[s] = held[s]
  BY <1>1 DEF AcquireGlobal, AcquireServer, QueryDone, Refuse, Fail
<1>3. \A p \in Resting : PlaceHolds(p, kind[r].limited) = {}
  BY DEF PlaceHolds, Resting, Places
<1>4. {"server", "query", "write", "encodefirst"} \subseteq Places
        /\ {"write", "encodefirst"} \subseteq Resting
  BY DEF Resting, Places
<1>5. CASE AcquireGlobal(r)
  <2>1. CASE kind[r].limited
    <3>1. pc' = [pc EXCEPT ![r] = "server"] /\ held'[r] = {"global"}
      BY <1>1, <1>5, <2>1 DEF AcquireGlobal
    <3> QED BY <1>2, <1>4, <3>1, RestingPlaces DEF PlaceHolds
  <2>2. CASE ~kind[r].limited
    <3>1. pc' = [pc EXCEPT ![r] = "query"] /\ held' = held /\ held[r] = {}
      BY <1>5, <2>2 DEF AcquireGlobal, PermitsMatch
    <3> QED BY <1>2, <1>4, <2>2, <3>1, RestingPlaces DEF PlaceHolds
  <2> QED BY <2>1, <2>2
<1>6. CASE AcquireServer(r)
  <2>1. /\ pc' = [pc EXCEPT ![r] = "query"] /\ held'[r] = held[r] \cup {"server"}
        /\ held[r] = {"global"}
    BY <1>1, <1>6 DEF AcquireServer, PermitsMatch
  <2>2. kind[r].limited
    BY <1>6 DEF AcquireServer, IInv, ReqOK
  <2> QED BY <1>2, <1>4, <2>1, <2>2, RestingPlaces DEF PlaceHolds
<1>7. CASE QueryDone(r) \/ Refuse(r) \/ Fail(r)
  <2>1. held'[r] = {}
    BY <1>1, <1>7 DEF QueryDone, Refuse, Fail
  <2>2. \/ \E d : Finished(r, d)
        \/ Failed(r)
        \/ \E p \in {"write", "encodefirst"} : pc' = [pc EXCEPT ![r] = p]
    BY <1>7 DEF QueryDone, Refuse, Fail
  <2>3. pc'[r] \in Resting /\ OthersRest(r)
    BY <1>4, <2>2, RestingPlaces
  <2> QED BY <1>2, <1>3, <2>1, <2>3
<1> QED BY <1>5, <1>6, <1>7

LEMMA PermitsKept ==
  ASSUME IInv, PermitsMatch, [Next]_vars
  PROVE  PermitsMatch'
<1> SUFFICES ASSUME NEW s \in Requests
             PROVE  held'[s] = PlaceHolds(pc'[s], kind'[s].limited)
  BY DEF PermitsMatch, PlaceHolds
<1>1. held[s] = PlaceHolds(pc[s], kind[s].limited)
  BY DEF PermitsMatch, PlaceHolds
<1>2. \A p \in Resting : PlaceHolds(p, kind[s].limited) = {}
  BY DEF PlaceHolds, Resting, Places
<1>3. CASE UNCHANGED <<held, pc, kind>>
  BY <1>1, <1>3
<1>4. ASSUME NEW r \in Requests,
             Step(r) \/ ReadFails(r) \/ Refuse(r) \/ Fail(r) \/ WriteTimesOut(r)
      PROVE  held'[s] = PlaceHolds(pc'[s], kind'[s].limited)
  <2>1. CASE AcquireGlobal(r) \/ AcquireServer(r) \/ QueryDone(r) \/ Refuse(r) \/ Fail(r)
    BY <1>1, <1>2, <2>1, PermitStep DEF OthersRest
  <2>2. CASE ~(AcquireGlobal(r) \/ AcquireServer(r) \/ QueryDone(r) \/ Refuse(r) \/ Fail(r))
    BY <1>1, <1>2, <1>4, <2>2, RestingStep DEF OthersRest, Step
  <2> QED BY <2>1, <2>2
<1>5. CASE Update \/ Lose \/ LateWrite
  BY <1>3, <1>5 DEF Update, BeginUpdate, Commit, FinishIncr, FinishDel, Lose,
     ExpireControl, ExpireL1, ExpireL2, LateWrite, request
<1>6. CASE UNCHANGED vars
  BY <1>3, <1>6 DEF vars, request
<1> QED BY <1>4, <1>5, <1>6 DEF Next

\* Permits are held by the requests that wait for the second one or query, and
\* by no other: no refusal, failure or dropped request costs capacity
\* (limiter.rs:57-99).
THEOREM PermitsAccounted == Spec => []PermitsMatch
<1>1. Init => PermitsMatch
  BY DEF Init, PermitsMatch
<1>2. IInv /\ PermitsMatch /\ [Next]_vars => PermitsMatch'
  BY PermitsKept
<1> QED BY <1>1, <1>2, ServingInvariant, PTL DEF Spec

-----------------------------------------------------------------------------
(***************************************************************************)
(* VariantsAgree: what is stored under an epoch is the version that was    *)
(* published with it, although the two encodings are written by different  *)
(* steps, requests and late writes.                                        *)
(***************************************************************************)
Writing == {"encode", "encodefirst", "write"}

\* The epoch a request writes under is not newer than Redis', and what it is
\* about to write is at least as new as that epoch.
Dated(r) ==
  /\ at[r] \in Epochs => at[r] <= epoch
  /\ pc[r] \in Writing => at[r] <= data[r].version /\ data[r].version <= db

CacheKeys == Suffixes \X BOOLEAN \X Epochs

Exact(cache) == \A k \in CacheKeys : cache[k] = None \/ cache[k] = k[3]

LateDated == \A w \in late : w.at <= w.version /\ w.version <= db

Current == control # None => control.epoch <= epoch

VInv ==
  /\ Exact(l1) /\ Exact(l2) /\ LateDated /\ Current
  /\ \A r \in Requests : Dated(r)

\* The numbers are numbers, and the epoch never runs ahead of the tables.
LEMMA Numbers ==
  ASSUME IInv
  PROVE  /\ epoch \in Int /\ db \in Int /\ epoch <= db
         /\ Epochs \subseteq Int /\ Versions \subseteq Int
         /\ None \notin Epochs /\ None \notin Versions
BY BoundsAssumption, NoneAssumption DEF IInv, TypeOK, TrackerOK, Epochs, Versions

\* The only moment at which a write is let through: nothing is committed that
\* is not published under the epoch of the write.
LEMMA MayWriteExact ==
  ASSUME IInv, NEW e \in Epochs, NEW v \in Versions, MayWrite(e), e <= v, v <= db
  PROVE  v = e
<1>1. epoch = e /\ db = epoch
  BY DEF MayWrite, IInv, TrackerOK
<1> QED BY <1>1, Numbers

LEMMA ExactNext ==
  ASSUME NEW cache, l1' = cache, Exact(cache)
  PROVE  Exact(l1)'
BY DEF Exact, CacheKeys

LEMMA StoredExact ==
  ASSUME NEW cache, NEW s \in Suffixes, NEW z \in BOOLEAN, NEW e \in Epochs,
         Exact(cache), cache \in Entries
  PROVE  Exact([cache EXCEPT ![<<s, z, e>>] = e])
<1>1. DOMAIN cache = CacheKeys
  BY DEF Entries, CacheKeys
<1> QED BY <1>1 DEF Exact, CacheKeys

\* Redis' epoch and the tables only advance, and a request does not move them.
LEMMA Clock ==
  ASSUME IInv, [Next]_vars
  PROVE  epoch <= epoch' /\ db <= db'
<1>1. epoch' = epoch \/ epoch' = epoch + 1
  BY DEF Next, vars, tracker, Update, BeginUpdate, Commit, FinishIncr, FinishDel,
     Lose, ExpireControl, ExpireL1, ExpireL2, LateWrite, Step, StartUnknown,
     StartDirty, StartClean, Share, ReadCombined, ReadValue, ReadFails,
     AcquireGlobal, AcquireServer, QueryDone, Refuse, Fail, Encode, Write,
     WriteTimesOut
<1>2. db' = db \/ db' = db + 1
  BY DEF Next, vars, tracker, Update, BeginUpdate, Commit, FinishIncr, FinishDel,
     Lose, ExpireControl, ExpireL1, ExpireL2, LateWrite, Step, StartUnknown,
     StartDirty, StartClean, Share, ReadCombined, ReadValue, ReadFails,
     AcquireGlobal, AcquireServer, QueryDone, Refuse, Fail, Encode, Write,
     WriteTimesOut
<1> QED BY <1>1, <1>2, Numbers

\* A request that nothing happens to stays dated.
LEMMA SameDated ==
  ASSUME IInv, IInv', NEW s \in Requests, Dated(s), at'[s] = at[s],
         epoch <= epoch', db <= db',
         pc'[s] \in Writing => pc'[s] = pc[s] /\ data'[s] = data[s]
  PROVE  Dated(s)'
<1>1. at'[s] \in Epochs => at'[s] <= epoch'
  <2>1. epoch' \in Int
    BY BoundsAssumption DEF IInv, TypeOK, Epochs
  <2> QED BY <2>1, Numbers DEF Dated
<1>2. ASSUME pc'[s] \in Writing
      PROVE  at'[s] <= data'[s].version /\ data'[s].version <= db'
  <2>1. pc[s] \in Writing /\ data'[s] = data[s]
    BY <1>2
  <2>2. at[s] \in Epochs /\ data[s] \in Responses
    BY <2>1 DEF IInv, ReqOK, Writing
  <2>3. data[s].version \in Versions
    BY <2>2 DEF Responses
  <2>4. db' \in Int
    BY BoundsAssumption DEF IInv, TypeOK, Versions
  <2> QED BY <2>1, <2>2, <2>3, <2>4, Numbers DEF Dated
<1> QED BY <1>1, <1>2 DEF Dated
-----------------------------------------------------------------------------
(* Steps of a request leave the others where they write, or take them       *)
(* somewhere else.                                                          *)

\* What a step of request r does to another one.
OthersKept(r) ==
  \A s \in Requests \ {r} :
    /\ at'[s] = at[s]
    /\ pc'[s] \in Writing => pc'[s] = pc[s] /\ data'[s] = data[s]

LEMMA FlightsKeep ==
  ASSUME IInv, NEW r \in Requests, at' = at \/ \E x : at' = [at EXCEPT ![r] = x]
  PROVE  /\ \A d : Finished(r, d) => OthersKept(r) /\ pc'[r] \notin Writing
         /\ Failed(r) => OthersKept(r) /\ pc'[r] \notin Writing
         /\ \A k : Enter(r, k) /\ data' = data => OthersKept(r) /\ pc'[r] \notin Writing
         /\ \A p, d : pc' = [pc EXCEPT ![r] = p] /\ data' = [data EXCEPT ![r] = d]
                        => OthersKept(r) /\ pc'[r] = p /\ data'[r] = d
<1>1. /\ pc \in [Requests -> Places] /\ data \in [Requests -> Responses \cup Answers \cup {None}]
      /\ at \in [Requests -> Epochs \cup {Unknown, None}]
  BY DEF IInv, TypeOK, Places
<1>2. \A s \in Requests \ {r} : at'[s] = at[s]
  BY <1>1
<1>3. \A k : Task(k) \notin Writing
  BY DEF Task, Writing
<1>4. ASSUME NEW d, Finished(r, d) PROVE OthersKept(r) /\ pc'[r] \notin Writing
  <2>1. /\ pc' = [s \in Requests |-> IF s = r THEN "done"
                   ELSE IF s \in Waiters(r) THEN "shared" ELSE pc[s]]
        /\ data' = [s \in Requests |-> IF s = r THEN Answer(r, d)
                   ELSE IF s \in Waiters(r) THEN d ELSE data[s]]
    BY <1>4 DEF Finished
  <2> QED BY <1>2, <2>1 DEF OthersKept, Writing
<1>5. ASSUME Failed(r) PROVE OthersKept(r) /\ pc'[r] \notin Writing
  <2>1. /\ pc' = [s \in Requests |-> IF s = r THEN "done"
                   ELSE IF s \in Waiters(r) THEN Task(awaited[s]) ELSE pc[s]]
        /\ data' = [data EXCEPT ![r] = None]
    BY <1>5 DEF Failed
  <2> QED BY <1>1, <1>2, <1>3, <2>1 DEF OthersKept, Writing
<1>6. ASSUME NEW p, NEW d, pc' = [pc EXCEPT ![r] = p], data' = [data EXCEPT ![r] = d]
      PROVE  OthersKept(r) /\ pc'[r] = p /\ data'[r] = d
  BY <1>1, <1>2, <1>6 DEF OthersKept
<1>7. ASSUME NEW k, Enter(r, k), data' = data
      PROVE  OthersKept(r) /\ pc'[r] \notin Writing
  <2>1. PICK p \in {"wait", "read", "global"} : pc' = [pc EXCEPT ![r] = p]
    BY <1>7 DEF Enter, Task
  <2> QED BY <1>1, <1>2, <1>7, <2>1 DEF OthersKept, Writing
<1> QED BY <1>4, <1>5, <1>6, <1>7

\* So a step of r keeps all requests dated if it leaves r so.
LEMMA RequestsDated ==
  ASSUME IInv, [Next]_vars, NEW r \in Requests, \A s \in Requests : Dated(s),
         OthersKept(r), Dated(r)'
  PROVE  \A s \in Requests : Dated(s)'
<1>1. IInv'
  BY NextIInv
<1>2. epoch <= epoch' /\ db <= db'
  BY Clock
<1>3. ASSUME NEW s \in Requests \ {r} PROVE Dated(s)'
  BY <1>1, <1>2, <1>3, SameDated DEF OthersKept
<1> QED BY <1>3

-----------------------------------------------------------------------------
(* The steps.                                                             *)

\* Steps of a request that leave the caches alone.
LEMMA QuietVInv ==
  ASSUME IInv, [Next]_vars, VInv, NEW r \in Requests,
         \/ StartUnknown(r) \/ StartDirty(r) \/ Share(r) \/ ReadFails(r)
         \/ AcquireGlobal(r) \/ AcquireServer(r) \/ QueryDone(r)
         \/ Refuse(r) \/ Fail(r)
  PROVE  VInv'
<1>1. UNCHANGED <<epoch, db, control, l1, l2, late>>
  BY DEF StartUnknown, StartDirty, Share, ReadFails, AcquireGlobal, AcquireServer,
     QueryDone, Refuse, Fail, tracker, caches
<1>2. Exact(l1)' /\ Exact(l2)' /\ LateDated' /\ Current'
  BY <1>1 DEF VInv, Exact, LateDated, Current
<1>3. at[r] \in Epochs => at[r] <= epoch
  BY DEF VInv, Dated
<1>4. /\ at' = at \/ \E x : at' = [at EXCEPT ![r] = x]
      /\ at'[r] \in {at[r], Unknown, None}
  BY DEF StartUnknown, StartDirty, Share, ReadFails, AcquireGlobal, AcquireServer,
     QueryDone, Refuse, Fail, IInv, TypeOK
<1>5. at'[r] \in Epochs => at'[r] <= epoch'
  <2>1. Unknown \notin Epochs /\ None \notin Epochs
    BY RequestFacts DEF IInv
  <2> QED BY <1>1, <1>3, <1>4, <2>1
<1>6. CASE /\ pc' = [pc EXCEPT ![r] = "encodefirst"] \/ pc' = [pc EXCEPT ![r] = "write"]
           /\ data' = [data EXCEPT ![r] = Plain(db)]
           /\ at' = at /\ at[r] \in Epochs
  <2>1. OthersKept(r) /\ data'[r] = Plain(db)
    BY <1>6, FlightsKeep
  <2>2. at'[r] <= data'[r].version /\ data'[r].version <= db'
    BY <1>1, <1>3, <1>6, <2>1, Numbers DEF Plain
  <2>3. Dated(r)'
    BY <1>5, <2>2 DEF Dated
  <2> QED BY <1>2, <2>1, <2>3, RequestsDated DEF VInv
<1>7. CASE \/ \E d : Finished(r, d)
           \/ Failed(r)
           \/ \E k : Enter(r, k) /\ data' = data
           \/ \E p \in Places \ Writing : /\ pc' = [pc EXCEPT ![r] = p]
                                          /\ data' = [data EXCEPT ![r] = data[r]]
  <2>1. OthersKept(r) /\ pc'[r] \notin Writing
    <3>1. CASE \/ \E d : Finished(r, d)
               \/ Failed(r)
               \/ \E k : Enter(r, k) /\ data' = data
      BY <1>4, <3>1, FlightsKeep
    <3>2. CASE \E p \in Places \ Writing : /\ pc' = [pc EXCEPT ![r] = p]
                                           /\ data' = [data EXCEPT ![r] = data[r]]
      <4>1. PICK p \in Places \ Writing : pc' = [pc EXCEPT ![r] = p]
        BY <3>2
      <4>2. OthersKept(r) /\ pc'[r] = p
        BY <1>4, <3>2, <4>1, FlightsKeep
      <4> QED BY <4>1, <4>2
    <3> QED BY <1>7, <3>1, <3>2
  <2>2. Dated(r)'
    BY <1>5, <2>1 DEF Dated
  <2> QED BY <1>2, <2>1, <2>2, RequestsDated DEF VInv
<1>8. data = [data EXCEPT ![r] = data[r]]
  BY DEF IInv, TypeOK
<1>9. {"global", "server", "query"} \subseteq Places \ Writing
  BY DEF Places, Writing
<1>10. CASE StartUnknown(r) \/ StartDirty(r) \/ Share(r)
  BY <1>7, <1>10 DEF StartUnknown, StartDirty, Share
<1>11. CASE ReadFails(r)
  BY <1>7, <1>8, <1>9, <1>11 DEF ReadFails, ToQuery
<1>12. CASE AcquireGlobal(r) \/ AcquireServer(r)
  BY <1>7, <1>8, <1>9, <1>12 DEF AcquireGlobal, AcquireServer
<1>13. CASE Refuse(r) \/ Fail(r)
  BY <1>7, <1>13 DEF Refuse, Fail
<1>14. CASE QueryDone(r)
  <2>1. CASE ~kind[r].cached \/ at[r] = None \/ IsHuge(r, db)
    BY <1>7, <1>14, <2>1 DEF QueryDone
  <2>2. CASE ~(~kind[r].cached \/ at[r] = None \/ IsHuge(r, db))
    <3>1. at[r] \in Epochs
      BY <1>14, <2>2 DEF QueryDone, IInv, ReqOK, TypeOK
    <3> QED BY <1>6, <1>14, <2>2, <3>1 DEF QueryDone
  <2> QED BY <2>1, <2>2
<1> QED BY <1>10, <1>11, <1>12, <1>13, <1>14

\* A request starts with what L1 has.
LEMMA StartCleanVInv ==
  ASSUME IInv, [Next]_vars, VInv, NEW r \in Requests, StartClean(r)
  PROVE  VInv'
<1> DEFINE e == control.epoch
           zip == kind[r].gzip
<1>1. UNCHANGED <<epoch, db, control, l1, l2, late>>
  BY DEF StartClean, tracker, caches
<1>2. Exact(l1)' /\ Exact(l2)' /\ LateDated' /\ Current'
  BY <1>1 DEF VInv, Exact, LateDated, Current
<1>3. e \in Epochs /\ e <= epoch
  BY DEF StartClean, VInv, Current, IInv, TypeOK
<1>4. at' = at \/ at' = [at EXCEPT ![r] = e]
  BY DEF StartClean
<1>5. at'[r] \in Epochs => at'[r] <= epoch'
  BY <1>1, <1>3, <1>4 DEF VInv, Dated, IInv, TypeOK
<1> HIDE DEF e, zip
<1>6. ASSUME OthersKept(r), pc'[r] \notin Writing
      PROVE  VInv'
  BY <1>2, <1>5, <1>6, RequestsDated DEF VInv, Dated
<1>7. CASE \E d : Finished(r, d)
  BY <1>4, <1>6, <1>7, FlightsKeep
<1>8. CASE \E k : Enter(r, k) /\ data' = data
  BY <1>4, <1>6, <1>8, FlightsKeep
<1>9. CASE /\ L1Value(r, FALSE, e) # None
           /\ pc' = [pc EXCEPT ![r] = "encode"]
           /\ data' = [data EXCEPT ![r] = Plain(L1Value(r, FALSE, e))]
           /\ at' = [at EXCEPT ![r] = e]
  <2>1. L1Value(r, FALSE, e) = e
    BY <1>3, <1>9, RequestFacts DEF VInv, Exact, L1Value, CacheKeys, IInv
  <2>2. OthersKept(r) /\ data'[r] = Plain(e)
    <3>1. data' = [data EXCEPT ![r] = Plain(e)]
      BY <1>9, <2>1
    <3> QED BY <1>9, <3>1, FlightsKeep
  <2>3. at'[r] = e
    BY <1>9 DEF IInv, TypeOK
  <2>4. at'[r] <= data'[r].version /\ data'[r].version <= db'
    <3>1. data'[r].version = e
      BY <2>2 DEF Plain
    <3>2. e \in Int /\ epoch \in Int /\ db \in Int /\ e <= epoch /\ epoch <= db
      BY <1>3, Numbers
    <3> QED BY <1>1, <2>3, <3>1, <3>2
  <2> QED BY <1>2, <1>5, <2>2, <2>4, RequestsDated DEF VInv, Dated
<1> QED BY <1>7, <1>8, <1>9 DEF StartClean, e, zip

\* A request looks into Redis and takes what it finds into L1.
LEMMA ReadVInv ==
  ASSUME IInv, [Next]_vars, VInv, NEW r \in Requests,
         ReadCombined(r) \/ ReadValue(r)
  PROVE  VInv'
<1>1. UNCHANGED <<epoch, db, l2, late>> /\ pc[r] = "read"
  BY DEF ReadCombined, ReadValue, tracker
<1>2. Exact(l2)' /\ LateDated'
  BY <1>1 DEF VInv, Exact, LateDated
<1>3. epoch \in Epochs /\ kind[r].suffix \in Suffixes /\ l1 \in Entries
        /\ None \notin Epochs /\ Unknown \notin Epochs
  BY RequestFacts DEF IInv, TypeOK
<1>4. Current'
  <2>1. control' = control \/ control' = [epoch |-> epoch, dirty |-> dirty]
    BY DEF ReadCombined, ReadValue
  <2> QED BY <1>1, <1>3, <2>1, Numbers DEF VInv, Current
<1>5. /\ at' = at \/ \E x : at' = [at EXCEPT ![r] = x]
      /\ at'[r] \in {at[r], epoch, None}
  BY DEF ReadCombined, ReadValue, IInv, TypeOK
<1>6. at'[r] \in Epochs => at'[r] <= epoch'
  BY <1>1, <1>3, <1>5, Numbers DEF VInv, Dated
\* An entry of L2 under the epoch that the request has.
<1>7. ASSUME NEW zip \in BOOLEAN, NEW e \in Epochs,
             l2[<<kind[r].suffix, zip, e>>] # None
      PROVE  /\ l2[<<kind[r].suffix, zip, e>>] = e
             /\ Exact([l1 EXCEPT ![<<kind[r].suffix, zip, e>>] = e])
  <2>1. l2[<<kind[r].suffix, zip, e>>] = e
    BY <1>3, <1>7 DEF VInv, Exact, CacheKeys
  <2> QED BY <1>3, <2>1, StoredExact DEF VInv
<1>8. ASSUME Exact(l1)', OthersKept(r),
             pc'[r] \in Writing => at'[r] <= data'[r].version /\ data'[r].version <= db'
      PROVE  VInv'
  BY <1>2, <1>4, <1>6, <1>8, RequestsDated DEF VInv, Dated
<1>9. ASSUME NEW e \in Epochs, Found(r, e), Exact(l1)', at'[r] = e, e <= db
      PROVE  VInv'
  <2>1. CASE kind[r].gzip
    <3>1. OthersKept(r) /\ data'[r] = Plain(e)
      BY <1>5, <1>9, <2>1, FlightsKeep DEF Found
    <3> QED BY <1>1, <1>8, <1>9, <3>1, Numbers DEF Plain
  <2>2. CASE ~kind[r].gzip
    <3>1. OthersKept(r) /\ pc'[r] \notin Writing
      BY <1>5, <1>9, <2>2, FlightsKeep DEF Found
    <3> QED BY <1>8, <1>9, <3>1
  <2> QED BY <2>1, <2>2
<1>10. ASSUME ToQuery(r), UNCHANGED l1 PROVE VInv'
  <2>1. data' = [data EXCEPT ![r] = data[r]] /\ pc' = [pc EXCEPT ![r] = "global"]
    BY <1>10 DEF ToQuery, IInv, TypeOK
  <2>2. OthersKept(r) /\ pc'[r] \notin Writing
    BY <1>5, <2>1, FlightsKeep DEF Writing
  <2> QED BY <1>8, <1>10, <2>2 DEF VInv, Exact
<1>11. CASE ReadCombined(r)
  <2> DEFINE entry == <<kind[r].suffix, FALSE, epoch>>
  <2>1. CASE Enter(r, Key(kind[r], "fetch", epoch)) /\ UNCHANGED <<l1, data>>
    <3>1. OthersKept(r) /\ pc'[r] \notin Writing
      BY <1>5, <2>1, FlightsKeep
    <3> QED BY <1>8, <2>1, <3>1 DEF VInv, Exact
  <2>2. CASE /\ l2[entry] # None
             /\ at' = [at EXCEPT ![r] = epoch]
             /\ l1' = [l1 EXCEPT ![entry] = l2[entry]]
             /\ Found(r, l2[entry])
    <3>1. l2[entry] = epoch /\ Exact(l1)'
      <4>1. l2[entry] = epoch /\ Exact([l1 EXCEPT ![entry] = epoch])
        BY <1>3, <1>7, <2>2
      <4> QED BY <2>2, <4>1, ExactNext
    <3>2. at'[r] = epoch
      BY <2>2 DEF IInv, TypeOK
    <3> QED BY <1>3, <1>9, <2>2, <3>1, <3>2, Numbers
  <2>3. CASE ToQuery(r) /\ UNCHANGED l1
    BY <1>10, <2>3
  <2> QED BY <1>11, <2>1, <2>2, <2>3 DEF ReadCombined
<1>12. CASE ReadValue(r)
  <2> DEFINE plain == <<kind[r].suffix, FALSE, at[r]>>
             zipped == <<kind[r].suffix, TRUE, at[r]>>
  <2>1. at[r] \in Epochs /\ at' = at /\ at[r] <= db
    BY <1>12, Numbers DEF ReadValue, VInv, Dated
  <2>2. CASE /\ l2[zipped] # None
             /\ l1' = [l1 EXCEPT ![zipped] = l2[zipped]]
             /\ Finished(r, Zipped(l2[zipped]))
    <3>1. Exact(l1)'
      <4>1. l2[zipped] = at[r] /\ Exact([l1 EXCEPT ![zipped] = at[r]])
        BY <1>7, <2>1, <2>2
      <4> QED BY <2>2, <4>1, ExactNext
    <3>2. OthersKept(r) /\ pc'[r] \notin Writing
      BY <1>5, <2>2, FlightsKeep
    <3> QED BY <1>8, <3>1, <3>2
  <2>3. CASE /\ l2[plain] # None
             /\ l1' = [l1 EXCEPT ![plain] = l2[plain]]
             /\ Found(r, l2[plain])
    <3>1. l2[plain] = at[r] /\ Exact(l1)'
      <4>1. l2[plain] = at[r] /\ Exact([l1 EXCEPT ![plain] = at[r]])
        BY <1>7, <2>1, <2>3
      <4> QED BY <2>3, <4>1, ExactNext
    <3> QED BY <1>9, <2>1, <2>3, <3>1
  <2>4. CASE ToQuery(r) /\ UNCHANGED l1
    BY <1>10, <2>4
  <2> QED BY <1>12, <2>2, <2>3, <2>4 DEF ReadValue
<1> QED BY <1>11, <1>12

\* A request writes back, now or later.
LEMMA WriteVInv ==
  ASSUME IInv, [Next]_vars, VInv, NEW r \in Requests,
         Encode(r) \/ Write(r) \/ WriteTimesOut(r)
  PROVE  VInv'
<1>1. UNCHANGED <<epoch, db, control, at>>
  BY DEF Encode, Write, WriteTimesOut, tracker
<1>2. pc[r] \in Writing
  BY DEF Encode, Write, WriteTimesOut, Writing
<1>3. /\ at[r] \in Epochs /\ data[r].version \in Versions
      /\ at[r] <= data[r].version /\ data[r].version <= db
      /\ kind[r].suffix \in Suffixes
  <2>1. at[r] \in Epochs /\ data[r] \in Responses
    BY <1>2 DEF IInv, ReqOK, Writing
  <2>2. kind[r].suffix \in Suffixes
    BY RequestFacts DEF IInv
  <2> QED BY <1>2, <2>1, <2>2 DEF VInv, Dated, Responses
<1>4. ASSUME NEW cache \in Entries, Exact(cache), NEW zip \in BOOLEAN, MayWrite(at[r])
      PROVE  Exact(Stored(cache, r, zip)) /\ Stored(cache, r, zip) \in Entries
  <2>1. data[r].version = at[r]
    BY <1>3, <1>4, MayWriteExact
  <2>2. Exact(Stored(cache, r, zip))
    BY <1>3, <1>4, <2>1, StoredExact DEF Stored
  <2>3. Stored(cache, r, zip) \in Entries
    BY <1>3, <1>4 DEF Stored, Entries
  <2> QED BY <2>2, <2>3
<1>5. Exact(l1)' /\ Exact(l2)'
  <2>1. l1 \in Entries /\ l2 \in Entries /\ Exact(l1) /\ Exact(l2)
    BY DEF IInv, TypeOK, VInv
  <2>2. CASE ~MayWrite(at[r]) \/ UNCHANGED <<l1, l2>>
    <3>1. UNCHANGED <<l1, l2>>
      BY <2>2 DEF Encode, Write, WriteTimesOut
    <3> QED BY <2>1, <3>1 DEF Exact
  <2>3. CASE MayWrite(at[r]) /\ ~UNCHANGED <<l1, l2>>
    <3>1. /\ Exact(Stored(l1, r, FALSE)) /\ Exact(Stored(l2, r, FALSE))
          /\ Exact(Stored(l1, r, TRUE)) /\ Exact(Stored(l2, r, TRUE))
          /\ Exact(Stored(Stored(l1, r, FALSE), r, TRUE))
      BY <1>4, <2>1, <2>3
    <3>2. /\ l2' \in {l2, Stored(l2, r, FALSE), Stored(l2, r, TRUE)}
          /\ l1' \in {l1, Stored(l1, r, FALSE), Stored(l1, r, TRUE),
                      Stored(Stored(l1, r, FALSE), r, TRUE)}
      BY DEF Encode, Write, WriteTimesOut
    <3> QED BY <2>1, <3>1, <3>2 DEF Exact
  <2> QED BY <2>2, <2>3
<1>6. LateDated'
  <2>1. ASSUME NEW w \in late' PROVE w.at <= w.version /\ w.version <= db
    <3>1. \/ w \in late
          \/ w.at = at[r] /\ w.version = data[r].version
      <4>1. CASE late' = late
        BY <2>1, <4>1
      <4>2. CASE WriteTimesOut(r)
        BY <2>1, <4>2 DEF WriteTimesOut
      <4> QED BY <4>1, <4>2 DEF Encode, Write
    <3> QED BY <1>3, <3>1 DEF VInv, LateDated
  <2> QED BY <1>1, <2>1 DEF LateDated
<1>7. Current'
  BY <1>1 DEF VInv, Current
<1>8. OthersKept(r) /\ (pc'[r] \in Writing => data'[r] = data[r])
  <2>1. CASE \E d : Finished(r, d)
    BY <1>1, <2>1, FlightsKeep
  <2>2. CASE pc' = [pc EXCEPT ![r] = "write"] /\ UNCHANGED data
    <3>1. data' = [data EXCEPT ![r] = data[r]]
      BY <2>2 DEF IInv, TypeOK
    <3> QED BY <1>1, <2>2, <3>1, FlightsKeep
  <2> QED BY <2>1, <2>2 DEF Encode, Write, WriteTimesOut
<1>9. Dated(r)'
  BY <1>1, <1>3, <1>8 DEF VInv, Dated
<1> QED BY <1>5, <1>6, <1>7, <1>8, <1>9, RequestsDated DEF VInv

\* The tracker, expiry and late writes.
LEMMA EnvironmentVInv ==
  ASSUME IInv, [Next]_vars, VInv, Update \/ Lose \/ LateWrite
  PROVE  VInv'
<1>1. IInv' /\ epoch <= epoch' /\ db <= db'
  BY NextIInv, Clock
<1>2. UNCHANGED <<pc, at, data>>
  BY DEF Update, BeginUpdate, Commit, FinishIncr, FinishDel, Lose, ExpireControl,
     ExpireL1, ExpireL2, LateWrite, request
<1>3. \A r \in Requests : Dated(r)'
  BY <1>1, <1>2, SameDated DEF VInv
<1>4. epoch \in Int /\ db \in Int /\ epoch' \in Int /\ db' \in Int
  BY <1>1, BoundsAssumption DEF IInv, TypeOK, Epochs, Versions
<1>5. ASSUME NEW w \in late
      PROVE  w.at \in Epochs /\ w.version \in Versions /\ w.suffix \in Suffixes
             /\ w.gzip \in BOOLEAN
  BY DEF IInv, TypeOK
<1>6. LateDated'
  <2>1. late' \subseteq late
    BY DEF Update, BeginUpdate, Commit, FinishIncr, FinishDel, Lose, ExpireControl,
       ExpireL1, ExpireL2, LateWrite, caches
  <2>2. ASSUME NEW w \in late' PROVE w.at <= w.version /\ w.version <= db'
    <3>1. w \in late
      BY <2>1, <2>2
    <3> QED BY <1>1, <1>4, <1>5, <3>1, Numbers DEF VInv, LateDated
  <2> QED BY <2>2 DEF LateDated
<1>7. Current'
  <2>1. control' = control \/ control' = None
    BY DEF Update, BeginUpdate, Commit, FinishIncr, FinishDel, Lose, ExpireControl,
       ExpireL1, ExpireL2, LateWrite, caches
  <2>2. control # None => control.epoch \in Epochs
    BY DEF IInv, TypeOK
  <2> QED BY <1>1, <1>4, <2>1, <2>2, Numbers DEF VInv, Current
<1>8. Exact(l1)' /\ Exact(l2)'
  <2>1. l1 \in Entries /\ l2 \in Entries /\ Exact(l1) /\ Exact(l2)
    BY DEF IInv, TypeOK, VInv
  <2>2. ASSUME NEW cache \in Entries, Exact(cache), NEW k
        PROVE  Exact([cache EXCEPT ![k] = None])
    BY <2>2 DEF Exact, Entries, CacheKeys
  <2>3. CASE Update \/ ExpireControl
    <3>1. UNCHANGED <<l1, l2>>
      BY <2>3 DEF Update, BeginUpdate, Commit, FinishIncr, FinishDel, ExpireControl, caches
    <3> QED BY <2>1, <3>1 DEF Exact
  <2>4. CASE ExpireL1
    BY <2>1, <2>2, <2>4 DEF ExpireL1, Exact
  <2>5. CASE ExpireL2
    BY <2>1, <2>2, <2>5 DEF ExpireL2, Exact
  <2>6. CASE LateWrite
    <3>1. PICK w \in late :
            l2' = IF MayWrite(w.at)
                  THEN [l2 EXCEPT ![<<w.suffix, w.gzip, w.at>>] = w.version] ELSE l2
      BY <2>6 DEF LateWrite
    <3>2. MayWrite(w.at) => w.version = w.at
      BY <1>5, MayWriteExact DEF VInv, LateDated
    <3>3. Exact([l2 EXCEPT ![<<w.suffix, w.gzip, w.at>>] = w.at])
      BY <1>5, <2>1, StoredExact
    <3>4. Exact(l2)'
      BY <2>1, <3>1, <3>2, <3>3 DEF Exact
    <3> QED BY <2>1, <2>6, <3>4 DEF LateWrite, Exact
  <2> QED BY <2>3, <2>4, <2>5, <2>6 DEF Lose
<1> QED BY <1>3, <1>6, <1>7, <1>8 DEF VInv

LEMMA NextVInv ==
  ASSUME IInv, [Next]_vars, VInv
  PROVE  VInv'
<1>1. CASE Update \/ Lose \/ LateWrite
  BY <1>1, EnvironmentVInv
<1>2. ASSUME NEW r \in Requests,
             Step(r) \/ ReadFails(r) \/ Refuse(r) \/ Fail(r) \/ WriteTimesOut(r)
      PROVE  VInv'
  BY <1>2, QuietVInv, StartCleanVInv, ReadVInv, WriteVInv DEF Step
<1>3. CASE UNCHANGED vars
  BY <1>3 DEF vars, tracker, caches, request, VInv, Exact, LateDated, Current, Dated
<1> QED BY <1>1, <1>2, <1>3 DEF Next

\* Under one epoch both encodings, in L1 and in L2, show the version that was
\* published with it, for any number of requests and updates, and whichever
\* writes fail or come late (cache.rs:1199-1256).
THEOREM EncodingsAgree == Spec => []VariantsAgree
<1>1. Init => VInv
  <2>1. ASSUME Init PROVE Exact(l1) /\ Exact(l2)
    BY <2>1 DEF Init, Nothing, Exact, CacheKeys
  <2>2. ASSUME Init PROVE LateDated /\ Current
    BY <2>2 DEF Init, LateDated, Current
  <2>3. ASSUME Init, NEW r \in Requests PROVE Dated(r)
    BY <2>3, NoneAssumption DEF Init, Dated, Writing, Epochs
  <2> QED BY <2>1, <2>2, <2>3 DEF VInv
<1>2. IInv /\ VInv /\ [Next]_vars => VInv'
  BY NextVInv
<1>3. IInv /\ VInv => VariantsAgree
  BY DEF IInv, TypeOK, VInv, Exact, Entries, CacheKeys, VariantsAgree
<1> QED BY <1>1, <1>2, <1>3, ServingInvariant, PTL DEF Spec

=============================================================================
