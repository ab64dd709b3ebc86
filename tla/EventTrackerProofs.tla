------------------------- MODULE EventTrackerProofs -------------------------
(***************************************************************************)
(* What is proved of EventTracker: its types; that the tracker never       *)
(* remembers, in memory or in Redis, a ranking the database lacks; that it *)
(* keeps to the cache's update protocol and leaves no row unpublished;     *)
(* that it inserts no unchanged row again; and that a tick which reports   *)
(* success leaves the tables showing what it fetched.                      *)
(***************************************************************************)
EXTENDS EventTracker, TLAPS

LEMMA InitTyped == Init => TypeOK
<1> SUFFICES ASSUME Init PROVE TypeOK
  OBVIOUS
<1>1. /\ mem \in [Ranks -> Maybe(Row)] /\ saved \in [Ranks -> Maybe(Row)]
      /\ latest \in [Ranks -> Maybe(Row)]
  BY DEF Init, NoRows, Maybe
<1>2. wlMem \in [WlKeys -> 0 .. MaxScore] /\ wlLatest \in [WlKeys -> 0 .. MaxScore]
  BY BoundsAssumption DEF Init, NoWl
<1>3. up \in Payload /\ status \in {"ongoing", "aggregating", "ended"}
      /\ changes \in 0 .. MaxChanges /\ faults \in 0 .. MaxFaults
  BY BoundsAssumption DEF Init
<1> QED
  BY <1>1, <1>2, <1>3 DEF Init, TypeOK, PCs, Modes, Maybe

\* What the steps of a tick work on is well typed.
LEMMA WorkTyped ==
  ASSUME TypeOK, data \in Payload
  PROVE  /\ Merge(data) \in [Ranks -> Row]
         /\ ChangedRanks \subseteq DOMAIN Rankings /\ DOMAIN Rankings \subseteq Ranks
         /\ \A r \in DOMAIN Rankings : Rankings[r] = Merge(data)[r] /\ Rankings[r] \in Row
         /\ Records \subseteq ChangedRanks
         /\ WlChanged \subseteq WlRows /\ WlRows \subseteq WlKeys
         /\ \A k \in WlRows : data.wl[k] \in Scores
<1>1. Merge(data) \in [Ranks -> Row]
  BY DEF Merge, Payload, Ranks
<1>2. DOMAIN Rankings \subseteq Ranks
      /\ \A r \in DOMAIN Rankings : Rankings[r] = Merge(data)[r]
  BY DEF Rankings, Ranks
<1>3. \A k \in WlRows : data.wl[k] \in Scores
  BY BoundsAssumption DEF WlRows, Payload, Scores
<1> QED
  BY <1>1, <1>2, <1>3 DEF ChangedRanks, Records, WlChanged, WlRows

\* A tick that is past its fetch works on a payload.
HasData == pc \notin {"idle", "return"} => data \in Payload

LEMMA CommitMainTyped ==
  ASSUME TypeOK, data \in Payload, CommitMain
  PROVE  /\ latest' \in [Ranks -> Maybe(Row)] /\ landed' \in SUBSET (Ranks \X Row)
         /\ seen' \in SUBSET Users /\ repeated' \in BOOLEAN /\ unpublished' \in BOOLEAN
<1>1. \A r \in Records : r \in Ranks /\ Rankings[r] \in Row /\ Rankings[r].user \in Users
  BY WorkTyped DEF Row
<1> HIDE DEF Records, Rankings
<1> QED
  BY <1>1 DEF CommitMain, TypeOK, Maybe

LEMMA RememberRanksTyped ==
  ASSUME TypeOK, data \in Payload, RememberRanks
  PROVE  mem' \in [Ranks -> Maybe(Row)] /\ changed' \in SUBSET Ranks
<1>1. \A r \in ChangedRanks : r \in Ranks /\ Rankings[r] \in Row
  BY WorkTyped
<1> HIDE DEF ChangedRanks, Rankings
<1>2. mem \in [Ranks -> Maybe(Row)]
  BY DEF TypeOK
<1> QED
  BY <1>1, <1>2 DEF RememberRanks, Maybe

LEMMA CommitWlTyped ==
  ASSUME TypeOK, data \in Payload, CommitWl
  PROVE  /\ wlLatest' \in [WlKeys -> 0 .. MaxScore] /\ wlLanded' \in SUBSET (WlKeys \X Scores)
         /\ wlSeen' \in SUBSET WlKeys /\ repeated' \in BOOLEAN /\ unpublished' \in BOOLEAN
<1>1. \A k \in WlChanged : k \in WlKeys /\ data.wl[k] \in Scores /\ data.wl[k] \in 0 .. MaxScore
  BY WorkTyped DEF Payload
<1> HIDE DEF WlChanged
<1> QED
  BY <1>1 DEF CommitWl, TypeOK

LEMMA RememberWlTyped ==
  ASSUME TypeOK, data \in Payload
  PROVE  /\ RememberWl => wlMem' \in [WlKeys -> 0 .. MaxScore]
         /\ LearnUsers => wlKnown' \in SUBSET Users
<1>1. data.wl \in [WlKeys -> 0 .. MaxScore] /\ WlRows \subseteq WlKeys
  BY WorkTyped DEF Payload
<1> HIDE DEF WlChanged, WlRows
<1> QED
  BY <1>1, UsersAssumption DEF RememberWl, LearnUsers, TypeOK

LEMMA FaultTyped ==
  ASSUME TypeOK, NEW kind, Fault(kind)
  PROVE  faults' \in 0 .. MaxFaults
BY BoundsAssumption DEF Fault, TypeOK

LEMMA StepTyped == TypeOK /\ HasData /\ [Next]_vars => TypeOK' /\ HasData'
<1> SUFFICES ASSUME TypeOK, HasData, [Next]_vars
             PROVE  TypeOK' /\ HasData'
  OBVIOUS
<1> USE DEF envVars, tickVars, memVars, redisVars, mainVars, wlVars, histVars
<1>1. CASE UpstreamChanges
  BY <1>1, BoundsAssumption DEF UpstreamChanges, TypeOK, HasData
<1>2. CASE Advance
  BY <1>2 DEF Advance, TypeOK, HasData
<1>3. ASSUME NEW m \in Modes, FetchOk(m)
      PROVE  TypeOK' /\ HasData'
  BY <1>3, FaultTyped DEF FetchOk, TypeOK, HasData, PCs, Maybe, Payload
<1>4. ASSUME NEW m \in Modes, FetchError(m)
      PROVE  TypeOK' /\ HasData'
  BY <1>4, FaultTyped DEF FetchError, TypeOK, HasData, PCs, Maybe
<1>5. CASE Begin
  BY <1>5 DEF Begin, TypeOK, HasData, PCs
<1>6. CASE InsertMain
  <2>1. data \in Payload
    BY <1>6 DEF InsertMain, HasData
  <2>2. /\ latest' \in [Ranks -> Maybe(Row)] /\ landed' \in SUBSET (Ranks \X Row)
        /\ seen' \in SUBSET Users /\ repeated' \in BOOLEAN /\ unpublished' \in BOOLEAN
    <3>1. CASE CommitMain
      BY <2>1, <3>1, CommitMainTyped
    <3>2. CASE UNCHANGED <<mainVars, repeated, unpublished>>
      BY <3>2 DEF TypeOK
    <3> QED
      BY <1>6, <3>1, <3>2 DEF InsertMain
  <2>3. mem' \in [Ranks -> Maybe(Row)] /\ changed' \in SUBSET Ranks
    <3>1. CASE RememberRanks
      BY <2>1, <3>1, RememberRanksTyped
    <3>2. CASE UNCHANGED <<changed, mem>>
      BY <3>2 DEF TypeOK
    <3> QED
      BY <1>6, <3>1, <3>2 DEF InsertMain
  <2>4. faults' \in 0 .. MaxFaults /\ batch' \in BOOLEAN /\ pc' \in {"wl", "failed"}
    BY <1>6, FaultTyped DEF InsertMain, TypeOK
  <2> QED
    BY <1>6, <2>1, <2>2, <2>3, <2>4 DEF InsertMain, TypeOK, HasData, PCs
<1>7. CASE InsertWl
  <2>1. data \in Payload
    BY <1>7 DEF InsertWl, HasData
  <2>2. /\ wlLatest' \in [WlKeys -> 0 .. MaxScore] /\ wlLanded' \in SUBSET (WlKeys \X Scores)
        /\ wlSeen' \in SUBSET WlKeys /\ repeated' \in BOOLEAN /\ unpublished' \in BOOLEAN
    <3>1. CASE CommitWl
      BY <2>1, <3>1, CommitWlTyped
    <3>2. CASE UNCHANGED <<wlVars, repeated, unpublished>>
      BY <3>2 DEF TypeOK
    <3> QED
      BY <1>7, <3>1, <3>2 DEF InsertWl
  <2>3. wlMem' \in [WlKeys -> 0 .. MaxScore]
    <3>1. CASE RememberWl
      BY <2>1, <3>1, RememberWlTyped
    <3>2. CASE UNCHANGED wlMem
      BY <3>2 DEF TypeOK
    <3> QED
      BY <1>7, <3>1, <3>2 DEF InsertWl
  <2>4. wlKnown' \in SUBSET Users
    <3>1. CASE LearnUsers
      BY <2>1, <3>1, RememberWlTyped
    <3>2. CASE UNCHANGED wlKnown
      BY <3>2 DEF TypeOK
    <3> QED
      BY <1>7, <3>1, <3>2 DEF InsertWl
  <2>5. /\ faults' \in 0 .. MaxFaults /\ batch' \in BOOLEAN /\ pc' \in {"close", "failed"}
        /\ phase' \in {phase, "closed"}
    BY <1>7, FaultTyped DEF InsertWl, TypeOK
  <2> QED
    BY <1>7, <2>1, <2>2, <2>3, <2>4, <2>5 DEF InsertWl, TypeOK, HasData, PCs
<1>8. CASE CloseFailed
  BY <1>8, FaultTyped DEF CloseFailed, Publish, Withdraw, TypeOK, HasData, PCs
<1>9. CASE Close
  BY <1>9, FaultTyped DEF Close, Publish, TypeOK, HasData, PCs, Maybe
<1>10. CASE StoreBorder
  <2>1. hash' \in Maybe([BorderRanks -> Row])
    BY <1>10 DEF StoreBorder, TypeOK, HasData, Payload, Maybe
  <2> QED
    BY <1>10, <2>1, FaultTyped DEF StoreBorder, TypeOK, HasData, PCs
<1>11. CASE SaveRankState
  BY <1>11, FaultTyped DEF SaveRankState, TypeOK, HasData, PCs
<1>12. CASE BeginProfiles
  BY <1>12 DEF BeginProfiles, TypeOK, HasData, PCs
<1>13. CASE UpsertProfiles
  BY <1>13, FaultTyped DEF UpsertProfiles, Publish, TypeOK, HasData, PCs
<1>14. CASE Return
  BY <1>14, FaultTyped DEF Return, TickOver, TypeOK, HasData, PCs, Modes, Maybe
<1>15. CASE Restart
  <2>1. mem' \in [Ranks -> Maybe(Row)]
    BY <1>15 DEF Restart, TypeOK, NoRows, Maybe
  <2>2. wlMem' \in [WlKeys -> 0 .. MaxScore] /\ wlKnown' \in SUBSET Users
    BY <1>15, BoundsAssumption DEF Restart, NoWl
  <2>3. ended' \in BOOLEAN /\ faults' \in 0 .. MaxFaults
    BY <1>15, FaultTyped DEF Restart
  <2>4. TickOver /\ UNCHANGED <<envVars, redisVars, mainVars, wlVars, repeated, unpublished>>
    BY <1>15 DEF Restart
  <2> QED
    BY <2>1, <2>2, <2>3, <2>4 DEF TickOver, TypeOK, HasData, PCs, Modes, Maybe
<1>16. CASE UNCHANGED vars
  BY <1>16 DEF vars, TypeOK, HasData
<1> QED
  BY <1>1, <1>2, <1>3, <1>4, <1>5, <1>6, <1>7, <1>8, <1>9, <1>10, <1>11, <1>12, <1>13,
     <1>14, <1>15, <1>16 DEF Next, Tick

\* The variables of the tracker, of Redis and of the tables keep their types
\* through every tick, failure and restart, for all ranks, users and bounds.
THEOREM TrackerTyped == Spec => []TypeOK
<1>1. Init => TypeOK /\ HasData
  BY InitTyped DEF Init, HasData
<1> QED
  BY <1>1, StepTyped, PTL DEF Spec

-----------------------------------------------------------------------------
(***************************************************************************)
(* What is remembered has landed: provided that upstream lists each user   *)
(* once and by name, and that no two ticks share a second.                 *)
(***************************************************************************)
Orderly == ~InFlight /\ Nameless = {} /\ "same_second" \notin Faults

\* Before the insert the tick's second is unused; after it every border row
\* that was looked at is in the database.
FreshSecond == pc \in {"begin", "main"} => seen = {}
BorderDone ==
  pc \in {"wl", "close", "border"} /\ mode # "chapter" /\ ~hit =>
    \A r \in BorderRanks \ TopRanks : <<r, data.border[r]>> \in landed
WellFormedData == WellFormed(up) /\ (pc \notin {"idle", "return"} => WellFormed(data))

LandedInv ==
  /\ RememberedLanded /\ HashLanded
  /\ FreshSecond /\ BorderDone /\ WellFormedData

LEMMA InitLanded == Init => LandedInv
BY DEF Init, LandedInv, RememberedLanded, HashLanded, FreshSecond, BorderDone,
       WellFormedData, NoRows

\* In an orderly payload every changed rank is recorded.
LEMMA EveryChangeRecorded ==
  ASSUME Orderly, TypeOK, data \in Payload, WellFormed(data)
  PROVE  Records = ChangedRanks
<1>1. \A q, r \in ChangedRanks : q # r => Rankings[q].user # Rankings[r].user
  BY WorkTyped DEF Orderly, WellFormed
<1>2. \A q \in ChangedRanks : q \in Nat
  BY WorkTyped, RanksAssumption DEF Ranks
<1>3. \A r \in ChangedRanks : Named(r)
  BY DEF Named, Orderly
<1> HIDE DEF ChangedRanks, Rankings, Named
<1> QED
  BY <1>1, <1>2, <1>3 DEF Records

LEMMA InsertMainLanded ==
  ASSUME Orderly, TypeOK, HasData, LandedInv, InsertMain
  PROVE  LandedInv'
<1>1. /\ pc = "main" /\ data \in Payload /\ WellFormed(data) /\ seen = {}
      /\ UNCHANGED <<mode, data, hit, up, saved, hash>>
      /\ pc' \in {"wl", "failed"}
  BY DEF InsertMain, HasData, LandedInv, FreshSecond, WellFormedData, envVars, redisVars
<1>2. Records = ChangedRanks
  BY <1>1, EveryChangeRecorded
<1>3. /\ ChangedRanks \subseteq DOMAIN Rankings /\ DOMAIN Rankings \subseteq Ranks
      /\ \A r \in DOMAIN Rankings : Rankings[r] = Merge(data)[r] /\ Rankings[r] \in Row
  BY <1>1, WorkTyped
<1>4. CommitMain => landed' = landed \cup {<<r, Rankings[r]>> : r \in ChangedRanks}
  BY <1>1, <1>2 DEF CommitMain
<1>5. landed \subseteq landed'
  BY <1>4 DEF InsertMain, mainVars
<1>6. pc' = "wl" => /\ RememberRanks
                    /\ \A r \in ChangedRanks : <<r, Rankings[r]>> \in landed'
  BY <1>2, <1>4 DEF InsertMain
<1>7. pc' # "wl" => mem' = mem
  BY <1>1 DEF InsertMain
<1>8. \A r \in Ranks : mem'[r] # None => <<r, mem'[r]>> \in landed'
  <2>1. CASE pc' = "wl"
    <3> HIDE DEF ChangedRanks, Rankings
    <3> QED
      BY <1>5, <1>6, <2>1 DEF RememberRanks, LandedInv, RememberedLanded
  <2>2. CASE pc' # "wl"
    BY <1>5, <1>7, <2>2 DEF LandedInv, RememberedLanded
  <2> QED
    BY <2>1, <2>2
<1>9. RememberedLanded' /\ HashLanded'
  BY <1>1, <1>5, <1>8 DEF LandedInv, RememberedLanded, HashLanded
<1>10. BorderDone'
  <2> SUFFICES ASSUME pc' = "wl", mode # "chapter", ~hit, NEW r \in BorderRanks \ TopRanks
               PROVE  <<r, data.border[r]>> \in landed'
    BY <1>1 DEF BorderDone
  <2>1. r \in DOMAIN Rankings /\ r \in Ranks
    BY DEF Rankings, Ranks
  <2>2. Rankings[r] = data.border[r] /\ Rankings[r] \in Row /\ Rankings[r] # None
    BY <1>3, <2>1, NoneAssumption DEF Merge
  <2>3. CASE r \in ChangedRanks
    BY <1>6, <2>2, <2>3
  <2>4. CASE r \notin ChangedRanks
    <3>1. mem[r] = Rankings[r]
      BY <2>1, <2>4 DEF ChangedRanks
    <3> QED
      BY <1>5, <2>1, <2>2, <3>1 DEF LandedInv, RememberedLanded
  <2> QED
    BY <2>3, <2>4
<1> QED
  BY <1>1, <1>9, <1>10 DEF LandedInv, FreshSecond, WellFormedData, WellFormed, Merge

LEMMA StepLanded ==
  ASSUME Orderly
  PROVE  TypeOK /\ HasData /\ LandedInv /\ [Next]_vars => LandedInv'
<1> SUFFICES ASSUME TypeOK, HasData, LandedInv, [Next]_vars
             PROVE  LandedInv'
  OBVIOUS
<1> USE DEF envVars, tickVars, memVars, redisVars, mainVars, wlVars, histVars
<1> DEFINE Kept == UNCHANGED <<mem, saved, hash, landed>>
<1>1. ASSUME Kept
      PROVE  RememberedLanded' /\ HashLanded'
  BY <1>1 DEF LandedInv, RememberedLanded, HashLanded
<1>2. CASE InsertMain
  BY <1>2, InsertMainLanded
<1>3. CASE UpstreamChanges \/ Advance
  <2>1. Kept /\ UNCHANGED <<pc, mode, data, hit, seen>> /\ WellFormed(up')
    BY <1>3 DEF UpstreamChanges, Advance, LandedInv, WellFormedData, WellFormed, Merge
  <2> QED
    BY <1>1, <2>1 DEF LandedInv, FreshSecond, BorderDone, WellFormedData
<1>4. ASSUME NEW m \in Modes, FetchOk(m) \/ FetchError(m)
      PROVE  LandedInv'
  <2>1. Kept /\ up' = up /\ pc' \in {"begin", "return"}
        /\ (pc' = "begin" => data' = up /\ seen' = {})
    BY <1>4 DEF FetchOk, FetchError, Orderly
  <2> QED
    BY <1>1, <2>1 DEF LandedInv, FreshSecond, BorderDone, WellFormedData, WellFormed, Merge
<1>5. CASE Begin \/ InsertWl \/ CloseFailed \/ Close \/ BeginProfiles \/ UpsertProfiles
  <2>1. Kept /\ UNCHANGED <<up, mode, data, hit, seen>>
    BY <1>5 DEF Begin, InsertWl, CloseFailed, Close, BeginProfiles, UpsertProfiles
  <2>2. /\ pc # "idle" /\ pc # "return"
        /\ pc' = "main" => pc = "begin"
        /\ pc' # "begin"
        /\ pc' = "close" => pc = "wl"
        /\ pc' = "border" => pc = "close"
        /\ pc' # "wl"
    BY <1>5 DEF Begin, InsertWl, CloseFailed, Close, BeginProfiles, UpsertProfiles
  <2> QED
    BY <1>1, <2>1, <2>2 DEF LandedInv, FreshSecond, BorderDone, WellFormedData, WellFormed, Merge
<1>6. CASE StoreBorder
  <2>1. UNCHANGED <<mem, saved, landed, up, data>> /\ pc = "border" /\ pc' = "save"
        /\ (hash' = hash \/ (mode # "chapter" /\ ~hit /\ hash' = data.border))
    BY <1>6 DEF StoreBorder
  <2>2. HashLanded'
    BY <2>1 DEF LandedInv, HashLanded, BorderDone
  <2>3. RememberedLanded'
    BY <2>1 DEF LandedInv, RememberedLanded
  <2> QED
    BY <2>1, <2>2, <2>3 DEF LandedInv, FreshSecond, BorderDone, WellFormedData, WellFormed, Merge
<1>7. CASE SaveRankState
  <2>1. UNCHANGED <<mem, hash, landed, up, data>> /\ pc = "save" /\ pc' \in {"profiles", "return"}
    BY <1>7 DEF SaveRankState
  <2>2. \A r \in Ranks : saved'[r] \in {mem[r], saved[r]}
    BY <1>7 DEF SaveRankState
  <2>3. RememberedLanded'
    BY <2>1, <2>2 DEF LandedInv, RememberedLanded
  <2> QED
    BY <2>1, <2>3
    DEF LandedInv, HashLanded, FreshSecond, BorderDone, WellFormedData, WellFormed, Merge
<1>8. CASE Return
  <2>1. Kept /\ up' = up /\ pc' = "idle"
    BY <1>8 DEF Return, TickOver
  <2> QED
    BY <1>1, <2>1 DEF LandedInv, FreshSecond, BorderDone, WellFormedData, WellFormed, Merge
<1>9. CASE Restart
  <2>1. UNCHANGED <<saved, hash, landed, up>> /\ pc' = "idle" /\ mem' \in {saved, NoRows}
    BY <1>9 DEF Restart, TickOver
  <2>2. RememberedLanded'
    BY <2>1 DEF LandedInv, RememberedLanded, NoRows
  <2> QED
    BY <2>1, <2>2
    DEF LandedInv, HashLanded, FreshSecond, BorderDone, WellFormedData, WellFormed, Merge
<1>10. CASE UNCHANGED vars
  BY <1>1, <1>10
  DEF vars, LandedInv, FreshSecond, BorderDone, WellFormedData, WellFormed, Merge
<1> QED
  BY <1>2, <1>3, <1>4, <1>5, <1>6, <1>7, <1>8, <1>9, <1>10 DEF Next, Tick

\* With orderly payloads, whatever fails and whenever the process dies, a rank
\* remembered in memory or in Redis has been committed to the database: the
\* order "insert, memory, border hash, rank state" never suppresses a row.
THEOREM RememberedIsLanded ==
  ASSUME Orderly
  PROVE  Spec => []RememberedLanded
<1>1. Init => TypeOK /\ HasData /\ LandedInv
  BY InitTyped, InitLanded DEF Init, HasData
<1>2. TypeOK /\ HasData /\ LandedInv /\ [Next]_vars => (TypeOK /\ HasData /\ LandedInv)'
  BY StepTyped, StepLanded
<1>3. LandedInv => RememberedLanded
  BY DEF LandedInv
<1> QED
  BY <1>1, <1>2, <1>3, PTL DEF Spec

\* Under the same assumption the border hash in Redis only ever vouches for
\* border rows that are in the database, so a cache hit skips nothing new.
THEOREM HashIsLanded ==
  ASSUME Orderly
  PROVE  Spec => []HashLanded
<1>1. Init => TypeOK /\ HasData /\ LandedInv
  BY InitTyped, InitLanded DEF Init, HasData
<1>2. TypeOK /\ HasData /\ LandedInv /\ [Next]_vars => (TypeOK /\ HasData /\ LandedInv)'
  BY StepTyped, StepLanded
<1>3. LandedInv => HashLanded
  BY DEF LandedInv
<1> QED
  BY <1>1, <1>2, <1>3, PTL DEF Spec

-----------------------------------------------------------------------------
(***************************************************************************)
(* A tick keeps to the cache's update protocol.  What the step under way   *)
(* knows about the open update: which kind it is and, with batch, whether  *)
(* it has written rows.                                                    *)
(***************************************************************************)
PhaseInv ==
  /\ pc \in {"idle", "begin", "border", "save", "profiles", "return"} => phase = "closed"
  /\ pc \in {"idle", "begin", "main"} => ~batch
  /\ pc = "main" => phase = (IF Records # {} \/ WlRows # {} THEN "rows" ELSE "closed")
  /\ pc = "wl" => phase = (IF batch \/ WlRows # {} THEN "rows" ELSE "closed")
  /\ pc = "close" => phase = (IF batch THEN "rows" ELSE "closed")
  /\ pc = "upsert" => phase = "profiles" /\ ~batch
  /\ pc = "failed" => phase = "rows" \/ (phase = "profiles" /\ ~batch)

\* What a tick has to write only depends on its payload and the memory.
LEMMA WorkKept ==
  /\ UNCHANGED <<mode, mem, data, hit>> => Records' = Records
  /\ UNCHANGED <<data, wlMem, wlKnown>> => WlRows' = WlRows
<1>1. UNCHANGED <<data, hit>> => Rankings' = Rankings
  BY DEF Rankings, Merge
<1>2. UNCHANGED <<mode, mem, data, hit>> => ChangedRanks' = ChangedRanks
  BY <1>1 DEF ChangedRanks
<1>3. UNCHANGED <<mode, mem, data, hit>> => Records' = Records
  BY <1>1, <1>2 DEF Records, Named
<1> QED
  BY <1>3 DEF WlRows

LEMMA StepPhase == TypeOK /\ PhaseInv /\ [Next]_vars => PhaseInv'
<1> SUFFICES ASSUME TypeOK, PhaseInv, [Next]_vars
             PROVE  PhaseInv'
  OBVIOUS
<1> USE DEF envVars, tickVars, memVars, redisVars, mainVars, wlVars, histVars
<1>1. CASE UpstreamChanges \/ Advance
  <2>1. UNCHANGED <<pc, phase, batch>> /\ Records' = Records /\ WlRows' = WlRows
    BY <1>1, WorkKept DEF UpstreamChanges, Advance
  <2> QED
    BY <2>1 DEF PhaseInv
<1>2. ASSUME NEW m \in Modes, FetchOk(m) \/ FetchError(m)
      PROVE  PhaseInv'
  BY <1>2 DEF FetchOk, FetchError, Due, PhaseInv
<1>3. CASE Begin
  <2>1. Records' = Records /\ WlRows' = WlRows
    BY <1>3, WorkKept DEF Begin
  <2> QED
    BY <1>3, <2>1 DEF Begin, PhaseInv
<1>4. CASE InsertMain
  <2>1. WlRows' = WlRows /\ phase' = phase /\ pc = "main"
    BY <1>4, WorkKept DEF InsertMain
  <2>2. \/ Records = {} /\ pc' = "wl" /\ ~batch'
        \/ Records # {} /\ pc' = "wl" /\ batch'
        \/ Records # {} /\ pc' = "failed"
    BY <1>4 DEF InsertMain, PhaseInv
  <2> HIDE DEF Records, WlRows
  <2> QED
    BY <2>1, <2>2 DEF PhaseInv
<1>5. CASE InsertWl
  <2>1. WlChanged \subseteq WlRows /\ pc = "wl"
    BY <1>5 DEF InsertWl, WlChanged
  <2>2. \/ pc' = "close" /\ batch' = batch
           /\ phase' = (IF batch \/ WlRows = {} THEN phase ELSE "closed")
        \/ WlRows # {} /\ pc' = "close" /\ batch' /\ phase' = phase
        \/ WlRows # {} /\ pc' = "failed" /\ UNCHANGED <<batch, phase>>
    BY <1>5, <2>1 DEF InsertWl
  <2> HIDE DEF WlChanged, WlRows
  <2> QED
    BY <2>1, <2>2 DEF PhaseInv
<1>6. CASE CloseFailed \/ Close
  BY <1>6 DEF CloseFailed, Close, Publish, Withdraw, PhaseInv
<1>7. CASE StoreBorder \/ SaveRankState \/ BeginProfiles \/ UpsertProfiles
  BY <1>7 DEF StoreBorder, SaveRankState, BeginProfiles, UpsertProfiles, Publish, PhaseInv
<1>8. CASE Return \/ Restart
  BY <1>8 DEF Return, Restart, TickOver, PhaseInv
<1>9. CASE UNCHANGED vars
  <2>1. UNCHANGED <<pc, phase, batch>> /\ Records' = Records /\ WlRows' = WlRows
    BY <1>9, WorkKept DEF vars
  <2> QED
    BY <2>1 DEF PhaseInv
<1> QED
  BY <1>1, <1>2, <1>3, <1>4, <1>5, <1>6, <1>7, <1>8, <1>9 DEF Next, Tick

\* Each step of the tracker is a step of the protocol, or none at all.
LEMMA StepProtocol ==
  TypeOK /\ PhaseInv /\ [Next]_vars => [Protocol!Next]_(Protocol!vars)
<1> SUFFICES ASSUME TypeOK, PhaseInv, [Next]_vars
             PROVE  Protocol!Next \/ UNCHANGED <<phase, phase = "rows" /\ batch, unpublished>>
  BY DEF Protocol!vars
<1> USE DEF envVars, tickVars, memVars, redisVars, mainVars, wlVars, histVars
<1>1. CASE UpstreamChanges \/ Advance \/ StoreBorder \/ SaveRankState \/ Return
  BY <1>1 DEF UpstreamChanges, Advance, StoreBorder, SaveRankState, Return, TickOver, PhaseInv
<1>2. ASSUME NEW m \in Modes, FetchOk(m) \/ FetchError(m)
      PROVE  UNCHANGED <<phase, phase = "rows" /\ batch, unpublished>>
  BY <1>2 DEF FetchOk, FetchError
<1>3. CASE Begin
  BY <1>3 DEF Begin, PhaseInv, Protocol!Next, Protocol!Begin
<1>4. CASE InsertMain
  <2>1. CASE UNCHANGED unpublished /\ (Records = {} \/ pc' = "failed")
    BY <1>4, <2>1 DEF InsertMain, PhaseInv
  <2>2. CASE Records # {} /\ CommitMain
    BY <1>4, <2>2 DEF InsertMain, CommitMain, Fault, PhaseInv, Protocol!Next, Protocol!Commit
  <2> QED
    BY <1>4, <2>1, <2>2 DEF InsertMain
<1>5. CASE InsertWl
  <2>1. WlChanged \subseteq WlRows /\ pc = "wl"
    BY <1>5 DEF InsertWl, WlChanged
  <2>2. CASE WlChanged = {} /\ UNCHANGED <<batch, unpublished>> /\ pc' = "close"
    BY <1>5, <2>1, <2>2 DEF InsertWl, PhaseInv, Protocol!Next, Protocol!Abort
  <2>3. CASE UNCHANGED <<batch, unpublished, phase>>
    BY <2>3
  <2>4. CASE /\ WlChanged # {} /\ CommitWl /\ UNCHANGED phase
             /\ batch' = TRUE \/ ("unacked" \in Faults /\ UNCHANGED batch)
    <3>1. phase = "rows" /\ phase' = phase /\ unpublished' = TRUE
      BY <2>1, <2>4 DEF CommitWl, PhaseInv
    <3>2. CASE batch' = TRUE
      BY <3>1, <3>2 DEF Protocol!Next, Protocol!Commit
    <3>3. CASE "unacked" \in Faults /\ UNCHANGED batch
      <4>1. Faults \cap {"unacked", "finish_lost", "crash"} # {}
        BY <3>3
      <4> QED
        BY <3>1, <3>3, <4>1 DEF Protocol!Next, Protocol!Commit
    <3> QED
      BY <2>4, <3>2, <3>3
  <2> QED
    BY <1>5, <2>2, <2>3, <2>4 DEF InsertWl, Fault
<1>6. CASE CloseFailed
  BY <1>6 DEF CloseFailed, Publish, Withdraw, Fault, PhaseInv,
              Protocol!Next, Protocol!Finish, Protocol!Abort, Protocol!Lose
<1>7. CASE Close
  BY <1>7 DEF Close, Publish, Fault, PhaseInv, Protocol!Next, Protocol!Finish, Protocol!Lose
<1>8. CASE BeginProfiles
  BY <1>8 DEF BeginProfiles, PhaseInv, Protocol!Next, Protocol!Begin
<1>9. CASE UpsertProfiles
  BY <1>9 DEF UpsertProfiles, Publish, Fault, PhaseInv, Protocol!Next, Protocol!Finish, Protocol!Lose
<1>10. CASE Restart
  BY <1>10 DEF Restart, TickOver, Fault, TypeOK, PhaseInv, Protocol!Next, Protocol!Lose
<1>11. CASE UNCHANGED vars
  BY <1>11 DEF vars
<1> QED
  BY <1>1, <1>2, <1>3, <1>4, <1>5, <1>6, <1>7, <1>8, <1>9, <1>10, <1>11 DEF Next, Tick

\* Every tick, whatever of it fails and wherever the process dies, opens and
\* closes the cache's updates as UpdateProtocol allows: it commits rows only
\* inside an update for rows, finishes exactly the updates that wrote, and
\* loses one only where a crash, a lost finish or a lost acknowledgement may.
THEOREM KeepsToProtocol == Spec => ImplementsProtocol
<1>1. Init => TypeOK /\ HasData /\ PhaseInv /\ Protocol!Init
  <2>1. Init => PhaseInv
    BY DEF Init, PhaseInv
  <2>2. Init => Protocol!Init
    BY DEF Init, Protocol!Init
  <2> QED
    BY <2>1, <2>2, InitTyped DEF Init, HasData
<1>2. TypeOK /\ HasData /\ PhaseInv /\ [Next]_vars
        => (TypeOK /\ HasData /\ PhaseInv)' /\ [Protocol!Next]_(Protocol!vars)
  BY StepTyped, StepPhase, StepProtocol
<1> QED
  BY <1>1, <1>2, PTL DEF Spec, ImplementsProtocol, Protocol!Spec

\* What the protocol is worth to the cache: while no update can be lost, rows
\* without an epoch are those of an open update that knows it has written.
LEMMA ProtocolPublishes ==
  ASSUME {"unacked", "finish_lost", "crash"} \cap Faults = {}
  PROVE  Protocol!Spec => [](unpublished => phase = "rows" /\ batch)
<1> DEFINE Accounted == unpublished => phase = "rows" /\ batch
<1>1. Protocol!Init => Accounted
  BY DEF Protocol!Init
<1>2. Accounted /\ [Protocol!Next]_(Protocol!vars) => Accounted'
  BY DEF Protocol!Next, Protocol!Begin, Protocol!Commit, Protocol!Finish, Protocol!Abort,
         Protocol!Lose, Protocol!vars
<1> QED
  BY <1>1, <1>2, PTL DEF Protocol!Spec

\* Provided that no update is lost, every way out of a tick publishes the
\* rows it committed: they never stay behind when the update closes.
THEOREM RowsArePublished ==
  ASSUME {"unacked", "finish_lost", "crash"} \cap Faults = {}
  PROVE  Spec => []Published
<1>1. Spec => Protocol!Spec
  BY KeepsToProtocol DEF ImplementsProtocol
<1>2. (unpublished => phase = "rows" /\ batch) => Published
  BY DEF Published
<1> QED
  BY <1>1, <1>2, ProtocolPublishes, PTL

-----------------------------------------------------------------------------
(***************************************************************************)
(* The World Bloom rows.  Two ticks in one second are what the remembered  *)
(* World Bloom rows do not survive (the unique second drops the row of the *)
(* later tick); without them they have landed, for every payload.          *)
(***************************************************************************)
FreshWlSecond == pc \in {"begin", "main", "wl"} => wlSeen = {}

LEMMA StepWlLanded ==
  ASSUME "same_second" \notin Faults
  PROVE  TypeOK /\ HasData /\ WlRememberedLanded /\ FreshWlSecond /\ [Next]_vars
           => WlRememberedLanded' /\ FreshWlSecond'
<1> SUFFICES ASSUME TypeOK, HasData, WlRememberedLanded, FreshWlSecond, [Next]_vars
             PROVE  WlRememberedLanded' /\ FreshWlSecond'
  OBVIOUS
<1> USE DEF envVars, tickVars, memVars, redisVars, mainVars, wlVars, histVars
<1>1. CASE InsertWl
  <2>1. pc = "wl" /\ data \in Payload /\ wlSeen = {} /\ pc' \in {"close", "failed"}
    BY <1>1 DEF InsertWl, HasData, FreshWlSecond
  <2>2. CommitWl => /\ wlLanded \subseteq wlLanded'
                    /\ \A k \in WlChanged : <<k, data.wl[k]>> \in wlLanded'
    BY <2>1 DEF CommitWl
  <2>3. wlMem' = wlMem \/ (CommitWl /\ RememberWl)
    BY <1>1 DEF InsertWl
  <2>4. wlLanded \subseteq wlLanded'
    BY <1>1, <2>2 DEF InsertWl
  <2>5. CASE wlMem' = wlMem
    BY <2>1, <2>4, <2>5 DEF WlRememberedLanded, FreshWlSecond
  <2>6. CASE CommitWl /\ RememberWl
    <3> HIDE DEF WlChanged
    <3> QED
      BY <2>1, <2>2, <2>4, <2>6 DEF RememberWl, WlRememberedLanded, FreshWlSecond
  <2> QED
    BY <2>3, <2>5, <2>6
<1>2. ASSUME NEW m \in Modes, FetchOk(m) \/ FetchError(m)
      PROVE  WlRememberedLanded' /\ FreshWlSecond'
  BY <1>2 DEF FetchOk, FetchError, WlRememberedLanded, FreshWlSecond
<1>3. CASE Begin \/ InsertMain
  BY <1>3 DEF Begin, InsertMain, WlRememberedLanded, FreshWlSecond
<1>4. CASE UpstreamChanges \/ Advance \/ CloseFailed \/ Close \/ StoreBorder \/ SaveRankState
           \/ BeginProfiles \/ UpsertProfiles
  BY <1>4 DEF UpstreamChanges, Advance, CloseFailed, Close, StoreBorder, SaveRankState,
              BeginProfiles, UpsertProfiles, WlRememberedLanded, FreshWlSecond
<1>5. CASE Return \/ Restart
  BY <1>5 DEF Return, Restart, TickOver, NoWl, WlRememberedLanded, FreshWlSecond
<1>6. CASE UNCHANGED vars
  BY <1>6 DEF vars, WlRememberedLanded, FreshWlSecond
<1> QED
  BY <1>1, <1>2, <1>3, <1>4, <1>5, <1>6 DEF Next, Tick

\* A World Bloom score the tracker remembers is in the database, whatever
\* fails, unless two ticks fall into one second: the run that finds them
\* apart needs nothing else, and nothing else can part them.
THEOREM WlRememberedIsLanded ==
  ASSUME "same_second" \notin Faults
  PROVE  Spec => []WlRememberedLanded
<1>1. Init => TypeOK /\ HasData /\ WlRememberedLanded /\ FreshWlSecond
  BY InitTyped DEF Init, HasData, WlRememberedLanded, FreshWlSecond, NoWl
<1>2. TypeOK /\ HasData /\ WlRememberedLanded /\ FreshWlSecond /\ [Next]_vars
        => (TypeOK /\ HasData /\ WlRememberedLanded /\ FreshWlSecond)'
  BY StepTyped, StepWlLanded
<1> QED
  BY <1>1, <1>2, PTL DEF Spec

-----------------------------------------------------------------------------
(***************************************************************************)
(* Where rows come from, and the order they come in: provided that         *)
(* upstream never returns to a row it has moved on from, what is           *)
(* remembered and what is stored was listed upstream no later than the     *)
(* payload at hand.                                                        *)
(***************************************************************************)
InTick == pc \notin {"idle", "return"}

\* Upstream may list the row "new" at the rank where it listed "old".
Follows(old, new) == new = old \/ new.score > old.score

LEMMA FollowsOrders ==
  ASSUME NEW a \in Row, NEW b \in Row, NEW c \in Row
  PROVE  /\ Follows(a, b) /\ Follows(b, c) => Follows(a, c)
         /\ Follows(a, b) /\ Follows(b, a) => a = b
<1>1. a.score \in Nat /\ b.score \in Nat /\ c.score \in Nat
  BY BoundsAssumption DEF Row, Scores
<1> QED
  BY <1>1 DEF Follows

\* One step takes a row from upstream's payload, while it is inserted, or
\* from where the tracker already keeps it.
LEMMA RowSources ==
  ASSUME TypeOK, HasData, [Next]_vars, NEW r \in Ranks
  PROVE  /\ mem'[r] \in {mem[r], saved[r], None} \/ (pc = "main" /\ mem'[r] = Merge(data)[r])
         /\ saved'[r] \in {saved[r], mem[r]}
         /\ latest'[r] = latest[r] \/ (pc = "main" /\ latest'[r] = Merge(data)[r])
<1> USE DEF envVars, tickVars, memVars, redisVars, mainVars, wlVars, histVars
<1>1. CASE InsertMain
  <2>1. pc = "main" /\ data \in Payload /\ UNCHANGED saved
    BY <1>1 DEF InsertMain, HasData
  <2>2. /\ Records \subseteq ChangedRanks /\ ChangedRanks \subseteq DOMAIN Rankings
        /\ \A q \in DOMAIN Rankings : Rankings[q] = Merge(data)[q]
    BY <2>1, WorkTyped
  <2>3. UNCHANGED mem \/ RememberRanks
    BY <1>1 DEF InsertMain
  <2>4. UNCHANGED latest \/ CommitMain
    BY <1>1 DEF InsertMain
  <2> HIDE DEF Records, ChangedRanks, Rankings, Merge
  <2>5. mem'[r] = mem[r] \/ mem'[r] = Merge(data)[r]
    BY <2>2, <2>3 DEF RememberRanks
  <2>6. latest'[r] = latest[r] \/ latest'[r] = Merge(data)[r]
    BY <2>2, <2>4 DEF CommitMain
  <2> QED
    BY <2>1, <2>5, <2>6
<1>2. CASE SaveRankState
  BY <1>2 DEF SaveRankState
<1>3. CASE Restart
  BY <1>3 DEF Restart, TickOver, NoRows
<1>4. ASSUME NEW m \in Modes, FetchOk(m) \/ FetchError(m)
      PROVE  UNCHANGED <<mem, saved, latest>>
  BY <1>4 DEF FetchOk, FetchError
<1>5. CASE UpstreamChanges \/ Advance \/ Begin \/ InsertWl \/ CloseFailed \/ Close \/ StoreBorder
  BY <1>5 DEF UpstreamChanges, Advance, Begin, InsertWl, CloseFailed, Close, StoreBorder
<1>6. CASE BeginProfiles \/ UpsertProfiles \/ Return \/ UNCHANGED vars
  BY <1>6 DEF BeginProfiles, UpsertProfiles, Return, TickOver, vars
<1> QED
  BY <1>1, <1>2, <1>3, <1>4, <1>5, <1>6 DEF Next, Tick

LEMMA WlSources ==
  ASSUME TypeOK, HasData, [Next]_vars, NEW k \in WlKeys
  PROVE  /\ wlMem'[k] \in {wlMem[k], 0} \/ (pc = "wl" /\ wlMem'[k] = data.wl[k])
         /\ wlLatest'[k] = wlLatest[k] \/ (pc = "wl" /\ wlLatest'[k] = data.wl[k])
<1> USE DEF envVars, tickVars, memVars, redisVars, mainVars, wlVars, histVars
<1>1. CASE InsertWl
  <2>1. pc = "wl" /\ (UNCHANGED wlMem \/ RememberWl) /\ (UNCHANGED wlLatest \/ CommitWl)
    BY <1>1 DEF InsertWl
  <2> HIDE DEF WlChanged
  <2> QED
    BY <2>1 DEF RememberWl, CommitWl
<1>2. CASE Restart
  BY <1>2 DEF Restart, NoWl
<1>3. ASSUME NEW m \in Modes, FetchOk(m) \/ FetchError(m)
      PROVE  UNCHANGED <<wlMem, wlLatest>>
  BY <1>3 DEF FetchOk, FetchError
<1>4. CASE UpstreamChanges \/ Advance \/ Begin \/ InsertMain \/ CloseFailed \/ Close \/ StoreBorder
  BY <1>4 DEF UpstreamChanges, Advance, Begin, InsertMain, CloseFailed, Close, StoreBorder
<1>5. CASE SaveRankState \/ BeginProfiles \/ UpsertProfiles \/ Return \/ UNCHANGED vars
  BY <1>5 DEF SaveRankState, BeginProfiles, UpsertProfiles, Return, TickOver, vars
<1> QED
  BY <1>1, <1>2, <1>3, <1>4, <1>5 DEF Next, Tick

\* The payload of a tick is what upstream listed when the tick began.
LEMMA PayloadSources ==
  ASSUME ~Recur, TypeOK, HasData, [Next]_vars
  PROVE  /\ InTick' => (InTick /\ data' = data) \/ (data' = up /\ up' = up)
         /\ \A r \in Ranks : Follows(Merge(up)[r], Merge(up')[r])
         /\ \A k \in WlKeys : up.wl[k] <= up'.wl[k]
<1> USE DEF envVars, tickVars, memVars, redisVars, mainVars, wlVars, histVars
<1>1. ASSUME up' = up
      PROVE  /\ \A r \in Ranks : Follows(Merge(up)[r], Merge(up')[r])
             /\ \A k \in WlKeys : up.wl[k] <= up'.wl[k]
  BY <1>1, BoundsAssumption DEF Follows, TypeOK, Payload
<1>2. CASE UpstreamChanges
  <2>1. \A r \in Ranks : Follows(Merge(up)[r], Merge(up')[r])
    BY <1>2 DEF UpstreamChanges, Moved, Merge, Follows, Ranks
  <2>2. \A k \in WlKeys : up.wl[k] <= up'.wl[k]
    BY <1>2, BoundsAssumption DEF UpstreamChanges, TypeOK, Payload
  <2> QED
    BY <1>2, <2>1, <2>2 DEF UpstreamChanges, InTick
<1>3. ASSUME NEW m \in Modes, FetchOk(m) \/ FetchError(m)
      PROVE  up' = up /\ (InTick' => data' = up)
  BY <1>3 DEF FetchOk, FetchError, InTick
<1>4. CASE Begin \/ InsertMain \/ InsertWl \/ CloseFailed \/ Close \/ StoreBorder \/ SaveRankState
           \/ BeginProfiles \/ UpsertProfiles
  <2>1. UNCHANGED <<up, data>> /\ InTick
    BY <1>4 DEF Begin, InsertMain, InsertWl, CloseFailed, Close, StoreBorder, SaveRankState,
                BeginProfiles, UpsertProfiles, InTick
  <2> QED
    BY <1>1, <2>1
<1>5. CASE Advance \/ UNCHANGED vars
  BY <1>1, <1>5 DEF Advance, vars, InTick
<1>6. CASE Return \/ Restart
  BY <1>1, <1>6 DEF Return, Restart, TickOver, InTick
<1> QED
  BY <1>1, <1>2, <1>3, <1>4, <1>5, <1>6 DEF Next, Tick

ListedBefore(row, r) ==
  row # None => /\ Follows(row, Merge(up)[r])
                /\ InTick => Follows(row, Merge(data)[r])
RowsListed ==
  \A r \in Ranks :
    /\ ListedBefore(mem[r], r) /\ ListedBefore(saved[r], r) /\ ListedBefore(latest[r], r)
    /\ InTick => Follows(Merge(data)[r], Merge(up)[r])
WlListed ==
  \A k \in WlKeys :
    /\ wlMem[k] <= up.wl[k] /\ wlLatest[k] <= up.wl[k]
    /\ InTick => wlMem[k] <= data.wl[k] /\ wlLatest[k] <= data.wl[k] /\ data.wl[k] <= up.wl[k]

LEMMA StepRowsListed ==
  ASSUME ~Recur, TypeOK, HasData, RowsListed, [Next]_vars
  PROVE  RowsListed'
<1> SUFFICES ASSUME NEW r \in Ranks
             PROVE  /\ ListedBefore(mem[r], r)' /\ ListedBefore(saved[r], r)'
                    /\ ListedBefore(latest[r], r)'
                    /\ InTick' => Follows(Merge(data')[r], Merge(up')[r])
  BY DEF RowsListed, Merge
<1>1. TypeOK' /\ HasData'
  BY StepTyped
<1>2. /\ Merge(up)[r] \in Row /\ Merge(up')[r] \in Row
      /\ InTick => Merge(data)[r] \in Row
      /\ InTick' => Merge(data')[r] \in Row
  BY <1>1 DEF TypeOK, HasData, InTick, Payload, Merge, Ranks
<1> DEFINE U == Merge(up)[r]
           V == Merge(up')[r]
           D == Merge(data)[r]
           E == Merge(data')[r]
<1>3. Follows(U, V) /\ (InTick' => (InTick /\ E = D) \/ (E = U /\ V = U))
  BY PayloadSources
<1>4. InTick => Follows(D, U)
  BY DEF RowsListed
<1>5. ASSUME NEW row \in Row, Follows(row, U), InTick => Follows(row, D)
      PROVE  Follows(row, V) /\ (InTick' => Follows(row, E))
  <2> HIDE DEF U, V, D, E
  <2> QED
    BY <1>2, <1>3, <1>5, FollowsOrders DEF U, V, D, E
<1>6. InTick' => Follows(E, V)
  <2>1. InTick => Follows(D, V)
    BY <1>2, <1>3, <1>4, FollowsOrders
  <2> QED
    BY <1>3, <2>1 DEF Follows
<1>7. ASSUME NEW row, row \in Maybe(Row), ListedBefore(row, r)
      PROVE  row # None => Follows(row, V) /\ (InTick' => Follows(row, E))
  BY <1>5, <1>7 DEF Maybe, ListedBefore
<1>8. pc = "main" => InTick /\ D \in Row /\ ListedBefore(D, r)
  BY <1>2, <1>4 DEF InTick, ListedBefore, Follows
<1>9. /\ mem[r] \in Maybe(Row) /\ saved[r] \in Maybe(Row) /\ latest[r] \in Maybe(Row)
      /\ ListedBefore(mem[r], r) /\ ListedBefore(saved[r], r) /\ ListedBefore(latest[r], r)
  BY DEF TypeOK, RowsListed
<1>10. D \in Row => D \in Maybe(Row)
  BY DEF Maybe
<1> QED
  BY <1>6, <1>7, <1>8, <1>9, <1>10, RowSources DEF ListedBefore, Merge

LEMMA StepWlListed ==
  ASSUME ~Recur, TypeOK, HasData, WlListed, [Next]_vars
  PROVE  WlListed'
<1> SUFFICES ASSUME NEW k \in WlKeys
             PROVE  /\ wlMem'[k] <= up'.wl[k] /\ wlLatest'[k] <= up'.wl[k]
                    /\ InTick' => /\ wlMem'[k] <= data'.wl[k] /\ wlLatest'[k] <= data'.wl[k]
                                  /\ data'.wl[k] <= up'.wl[k]
  BY DEF WlListed
<1> DEFINE U == up.wl[k]
           V == up'.wl[k]
           D == data.wl[k]
           E == data'.wl[k]
           m == wlMem[k]
           n == wlLatest[k]
<1>1. TypeOK' /\ HasData'
  BY StepTyped
<1>2. U \in Nat /\ V \in Nat /\ m \in Nat /\ n \in Nat /\ (InTick => D \in Nat)
  BY <1>1, BoundsAssumption DEF TypeOK, HasData, InTick, Payload
<1>3. U <= V /\ (InTick' => (InTick /\ E = D) \/ (E = U /\ V = U))
  BY PayloadSources
<1>4. /\ m <= U /\ n <= U
      /\ InTick => m <= D /\ n <= D /\ D <= U
  BY DEF WlListed
<1>5. /\ wlMem'[k] \in {m, 0} \/ (InTick /\ wlMem'[k] = D)
      /\ wlLatest'[k] = n \/ (InTick /\ wlLatest'[k] = D)
  BY WlSources DEF InTick
<1> HIDE DEF U, V, D, E, m, n
<1>6. \A x \in Nat : x <= U /\ (InTick => x <= D) => x <= V /\ (InTick' => x <= E)
  BY <1>2, <1>3
<1>7. InTick' => E <= V
  BY <1>2, <1>3, <1>4
<1>8. /\ wlMem'[k] \in Nat /\ wlMem'[k] <= U /\ (InTick => wlMem'[k] <= D)
      /\ wlLatest'[k] \in Nat /\ wlLatest'[k] <= U /\ (InTick => wlLatest'[k] <= D)
  BY <1>2, <1>4, <1>5
<1> QED
  BY <1>6, <1>7, <1>8 DEF V, E

ListedInv == TypeOK /\ HasData /\ RowsListed /\ WlListed

LEMMA ListedInvariant ==
  ASSUME ~Recur
  PROVE  /\ Init => ListedInv
         /\ ListedInv /\ [Next]_vars => ListedInv'
<1>1. Init => RowsListed /\ WlListed
  BY DEF Init, RowsListed, WlListed, ListedBefore, InTick, NoRows, NoWl
<1>2. Init => HasData
  BY DEF Init, HasData
<1> QED
  BY <1>1, <1>2, InitTyped, StepTyped, StepRowsListed, StepWlListed DEF ListedInv

-----------------------------------------------------------------------------
(***************************************************************************)
(* No row twice: while no commit goes unnoticed and the process lives, the *)
(* memory is never behind the newest rows, so a row that is stored is not  *)
(* found changed.  Nothing is assumed of the payloads: players without a   *)
(* name or at two ranks, and ticks of one second, may keep the memory      *)
(* ahead of the rows.                                                      *)
(***************************************************************************)
MemoryAhead ==
  /\ \A r \in Ranks : latest[r] # None => mem[r] # None /\ Follows(latest[r], mem[r])
  /\ \A k \in WlKeys : wlLatest[k] <= wlMem[k]

LEMMA InsertMainAhead ==
  ASSUME "unacked" \notin Faults, ListedInv, MemoryAhead, NoRepeats, InsertMain
  PROVE  MemoryAhead' /\ NoRepeats'
<1>1. /\ TypeOK /\ data \in Payload /\ InTick
      /\ UNCHANGED <<wlMem, wlLatest>>
  BY DEF InsertMain, ListedInv, HasData, InTick, wlVars
<1>2. /\ Records \subseteq ChangedRanks /\ ChangedRanks \subseteq DOMAIN Rankings
      /\ DOMAIN Rankings \subseteq Ranks
      /\ \A r \in DOMAIN Rankings : Rankings[r] = Merge(data)[r] /\ Rankings[r] \in Row
  BY <1>1, WorkTyped
<1>3. \A r \in ChangedRanks : mem[r] # Rankings[r]
  BY DEF ChangedRanks
<1>4. \A r \in Ranks : /\ mem[r] \in Maybe(Row) /\ latest[r] \in Maybe(Row)
                       /\ mem[r] # None => Follows(mem[r], Merge(data)[r])
                       /\ latest[r] # None => mem[r] # None /\ Follows(latest[r], mem[r])
  BY <1>1 DEF TypeOK, ListedInv, RowsListed, ListedBefore, MemoryAhead
<1>5. \/ RememberRanks /\ UNCHANGED <<latest, repeated>>
      \/ RememberRanks /\ CommitMain
      \/ UNCHANGED <<mem, latest, repeated>>
  BY DEF InsertMain, Fault, mainVars
<1>6. \A r \in ChangedRanks : latest[r] # Rankings[r]
  <2> SUFFICES ASSUME NEW r \in ChangedRanks, latest[r] = Rankings[r]
               PROVE  FALSE
    OBVIOUS
  <2>1. r \in Ranks /\ Rankings[r] \in Row /\ Rankings[r] = Merge(data)[r] /\ Rankings[r] # None
    BY <1>2, NoneAssumption
  <2>2. mem[r] \in Row /\ Follows(mem[r], Rankings[r]) /\ Follows(Rankings[r], mem[r])
    BY <1>4, <2>1 DEF Maybe
  <2> QED
    BY <1>3, <2>1, <2>2, FollowsOrders
<1>7. RememberRanks => \A r \in Ranks :
        /\ mem'[r] = mem[r] \/ (mem'[r] = Merge(data)[r] /\ mem'[r] \in Row)
        /\ r \in ChangedRanks => mem'[r] = Rankings[r] /\ mem'[r] \in Row
  BY <1>2 DEF RememberRanks
<1>8. CommitMain => /\ \A r \in Ranks : latest'[r] = latest[r]
                                      \/ (r \in ChangedRanks /\ latest'[r] = Rankings[r])
                    /\ ~repeated'
  <2>1. CommitMain => \A r \in Ranks : latest'[r] = latest[r]
                                      \/ (r \in ChangedRanks /\ latest'[r] = Rankings[r])
    BY <1>2 DEF CommitMain
  <2>2. CommitMain => ~repeated'
    <3> HIDE DEF Records, ChangedRanks, Rankings
    <3> QED
      BY <1>2, <1>6 DEF CommitMain, NoRepeats
  <2> QED
    BY <2>1, <2>2
<1>9. NoRepeats'
  BY <1>5, <1>8 DEF NoRepeats
<1>10. ASSUME NEW r \in Ranks, latest'[r] # None
       PROVE  mem'[r] # None /\ Follows(latest'[r], mem'[r])
  <2>1. CASE UNCHANGED <<mem, latest>>
    BY <1>4, <1>10, <2>1
  <2>2. CASE RememberRanks /\ latest'[r] = latest[r]
    <3>1. latest[r] \in Row /\ mem[r] \in Row /\ Follows(latest[r], mem[r])
          /\ Follows(mem[r], Merge(data)[r])
      BY <1>4, <1>10, <2>2 DEF Maybe
    <3>2. CASE mem'[r] = mem[r]
      BY <3>1, <3>2, <2>2, NoneAssumption
    <3>3. CASE mem'[r] = Merge(data)[r] /\ mem'[r] \in Row
      BY <3>1, <3>3, <2>2, FollowsOrders, NoneAssumption
    <3> QED
      BY <1>7, <2>2, <3>2, <3>3
  <2>3. CASE RememberRanks /\ r \in ChangedRanks /\ latest'[r] = Rankings[r]
    BY <1>7, <2>3, NoneAssumption DEF Follows
  <2> QED
    BY <1>5, <1>8, <2>1, <2>2, <2>3
<1> QED
  BY <1>1, <1>9, <1>10 DEF MemoryAhead

LEMMA InsertWlAhead ==
  ASSUME "unacked" \notin Faults, ListedInv, MemoryAhead, NoRepeats, InsertWl
  PROVE  MemoryAhead' /\ NoRepeats'
<1>1. /\ TypeOK /\ data \in Payload /\ InTick
      /\ UNCHANGED <<mem, latest>>
  BY DEF InsertWl, ListedInv, HasData, InTick, mainVars
<1>2. \A k \in WlKeys : /\ wlMem[k] \in Nat /\ wlLatest[k] \in Nat /\ data.wl[k] \in Nat
                        /\ wlLatest[k] <= wlMem[k] /\ wlMem[k] <= data.wl[k]
  BY <1>1, BoundsAssumption DEF TypeOK, Payload, ListedInv, WlListed, MemoryAhead
<1>3. \A k \in WlChanged : k \in WlKeys /\ wlMem[k] # data.wl[k]
  BY DEF WlChanged, WlRows
<1>4. \/ UNCHANGED <<wlMem, wlLatest, repeated>>
      \/ CommitWl /\ RememberWl
  BY DEF InsertWl, Fault, wlVars
<1>5. CASE UNCHANGED <<wlMem, wlLatest, repeated>>
  BY <1>1, <1>5 DEF MemoryAhead, NoRepeats
<1>6. CASE CommitWl /\ RememberWl
  <2> HIDE DEF WlChanged
  <2>1. \A k \in WlChanged : wlLatest[k] # data.wl[k]
    BY <1>2, <1>3
  <2>2. ~repeated'
    BY <1>6, <2>1 DEF CommitWl, NoRepeats
  <2>3. \A k \in WlKeys : \/ wlLatest'[k] = wlLatest[k] /\ wlMem'[k] \in {wlMem[k], data.wl[k]}
                          \/ wlLatest'[k] = data.wl[k] /\ wlMem'[k] = data.wl[k]
    BY <1>6 DEF CommitWl, RememberWl
  <2>4. \A k \in WlKeys : wlLatest'[k] <= wlMem'[k]
    BY <1>2, <2>3
  <2> QED
    BY <1>1, <2>2, <2>4 DEF MemoryAhead, NoRepeats
<1> QED
  BY <1>4, <1>5, <1>6

LEMMA StepAhead ==
  ASSUME {"unacked", "crash"} \cap Faults = {}
  PROVE  ListedInv /\ MemoryAhead /\ NoRepeats /\ [Next]_vars => MemoryAhead' /\ NoRepeats'
<1> SUFFICES ASSUME ListedInv, MemoryAhead, NoRepeats, [Next]_vars
             PROVE  MemoryAhead' /\ NoRepeats'
  OBVIOUS
<1> USE DEF envVars, tickVars, memVars, redisVars, mainVars, wlVars, histVars
<1> DEFINE Kept == UNCHANGED <<mem, latest, wlMem, wlLatest, repeated>>
<1>1. Kept => MemoryAhead' /\ NoRepeats'
  BY DEF MemoryAhead, NoRepeats
<1>2. CASE InsertMain \/ InsertWl
  BY <1>2, InsertMainAhead, InsertWlAhead
<1>3. ASSUME NEW m \in Modes, FetchOk(m) \/ FetchError(m)
      PROVE  Kept
  BY <1>3 DEF FetchOk, FetchError
<1>4. CASE UpstreamChanges \/ Advance \/ Begin \/ CloseFailed \/ Close \/ StoreBorder
  BY <1>1, <1>4 DEF UpstreamChanges, Advance, Begin, CloseFailed, Close, StoreBorder
<1>5. CASE SaveRankState \/ BeginProfiles \/ UpsertProfiles \/ Return \/ UNCHANGED vars
  BY <1>1, <1>5 DEF SaveRankState, BeginProfiles, UpsertProfiles, Return, TickOver, vars
<1>6. ~Restart
  BY DEF Restart, Fault
<1> QED
  BY <1>1, <1>2, <1>3, <1>4, <1>5, <1>6 DEF Next, Tick

\* Provided that upstream does not return to a row it has moved on from, that
\* the process lives and that it learns the outcome of its commits, no
\* player's unchanged row is inserted a second time: not after failed inserts,
\* failed Redis calls or a border skipped for its hash.
THEOREM NoRowTwice ==
  ASSUME ~Recur, {"unacked", "crash"} \cap Faults = {}
  PROVE  Spec => []NoRepeats
<1>1. Init => MemoryAhead /\ NoRepeats
  BY BoundsAssumption DEF Init, MemoryAhead, NoRepeats, NoRows, NoWl
<1>2. ListedInv /\ MemoryAhead /\ NoRepeats /\ [Next]_vars
        => (ListedInv /\ MemoryAhead /\ NoRepeats)'
  BY ListedInvariant, StepAhead
<1> QED
  BY <1>1, <1>2, ListedInvariant, PTL DEF Spec

-----------------------------------------------------------------------------
(***************************************************************************)
(* Caught up: with orderly payloads the newest rows are never behind what  *)
(* is remembered in memory or in Redis, nor ahead of the payload.  A row   *)
(* the tick does not insert, because it is remembered or because the       *)
(* border's hash is, is thus pinned between the two.                       *)
(***************************************************************************)
Behind(row, r) == row # None => latest[r] # None /\ Follows(row, latest[r])

MemoryBehind ==
  /\ \A r \in Ranks : Behind(mem[r], r) /\ Behind(saved[r], r)
  /\ hash # None => \A r \in BorderRanks \ TopRanks : Behind(hash[r], r)
  /\ \A k \in WlKeys : wlMem[k] <= wlLatest[k]

HitBorder == pc \in {"begin", "main"} /\ hit => hash = data.border

\* What a tick has caught up with once it is past its inserts.
MainDone == pc \in {"wl", "close", "border", "save", "profiles", "upsert"}
            \/ (pc = "return" /\ outcome = "ok")
MainCaughtUp == MainDone /\ mode # "chapter" => \A r \in Ranks : latest[r] = Merge(data)[r]
WlCaughtUp ==
  MainDone /\ pc # "wl" => \A k \in WlKeys : data.wl[k] # 0 => wlLatest[k] = data.wl[k]

OrderlyInv == ListedInv /\ FreshSecond /\ FreshWlSecond /\ WellFormedData
ProgressInv == MemoryBehind /\ HitBorder /\ MainCaughtUp /\ WlCaughtUp

LEMMA OrderlyInvariant ==
  ASSUME Orderly, ~Recur
  PROVE  /\ Init => OrderlyInv
         /\ OrderlyInv /\ [Next]_vars => OrderlyInv'
<1> USE DEF envVars, tickVars, memVars, redisVars, mainVars, wlVars, histVars
<1>1. Init => FreshSecond /\ FreshWlSecond /\ WellFormedData
  BY DEF Init, FreshSecond, FreshWlSecond, WellFormedData
<1>2. ASSUME OrderlyInv, [Next]_vars
      PROVE  FreshSecond' /\ FreshWlSecond' /\ WellFormedData'
  <2> USE <1>2 DEF OrderlyInv, FreshSecond, FreshWlSecond, WellFormedData
  <2>1. CASE UpstreamChanges \/ Advance \/ UNCHANGED vars
    BY <2>1 DEF UpstreamChanges, Advance, vars, WellFormed, Merge
  <2>2. ASSUME NEW m \in Modes, FetchOk(m) \/ FetchError(m)
        PROVE  FreshSecond' /\ FreshWlSecond' /\ WellFormedData'
    BY <2>2 DEF FetchOk, FetchError, Orderly, WellFormed, Merge
  <2>3. CASE Begin \/ InsertMain \/ InsertWl
    BY <2>3 DEF Begin, InsertMain, InsertWl, WellFormed, Merge
  <2>4. CASE CloseFailed \/ Close \/ StoreBorder \/ SaveRankState \/ BeginProfiles \/ UpsertProfiles
    BY <2>4 DEF CloseFailed, Close, StoreBorder, SaveRankState, BeginProfiles, UpsertProfiles,
                WellFormed, Merge
  <2>5. CASE Return \/ Restart
    BY <2>5 DEF Return, Restart, TickOver, WellFormed, Merge
  <2> QED
    BY <2>1, <2>2, <2>3, <2>4, <2>5 DEF Next, Tick
<1> QED
  BY <1>1, <1>2, ListedInvariant DEF OrderlyInv

\* The insert of the main rankings: the newest rows move from rows at or
\* before the payload's to the payload's.
LEMMA InsertMainProgress ==
  ASSUME Orderly, OrderlyInv, ProgressInv, InsertMain
  PROVE  ProgressInv'
<1>1. /\ pc = "main" /\ data \in Payload /\ WellFormed(data) /\ seen = {} /\ TypeOK /\ InTick
      /\ UNCHANGED <<mode, data, hit, saved, hash, wlMem, wlLatest>>
      /\ pc' \in {"wl", "failed"}
  BY DEF InsertMain, OrderlyInv, ListedInv, HasData, FreshSecond, WellFormedData, InTick,
         redisVars, wlVars
<1>2. Records = ChangedRanks
  BY <1>1, EveryChangeRecorded
<1>3. /\ ChangedRanks \subseteq DOMAIN Rankings /\ DOMAIN Rankings \subseteq Ranks
      /\ \A r \in DOMAIN Rankings : Rankings[r] = Merge(data)[r] /\ Rankings[r] \in Row
      /\ \A r \in Ranks : Merge(data)[r] \in Row
  BY <1>1, WorkTyped
<1>4. \A r \in Ranks :
        /\ mem[r] \in Maybe(Row) /\ saved[r] \in Maybe(Row) /\ latest[r] \in Maybe(Row)
        /\ latest[r] # None => latest[r] \in Row /\ Follows(latest[r], Merge(data)[r])
        /\ Behind(mem[r], r) /\ Behind(saved[r], r)
  BY <1>1 DEF TypeOK, OrderlyInv, ListedInv, RowsListed, ListedBefore, ProgressInv, MemoryBehind,
              Maybe
<1>5. CommitMain => \A r \in Ranks :
        latest'[r] = IF r \in ChangedRanks THEN Rankings[r] ELSE latest[r]
  BY <1>1, <1>2 DEF CommitMain
<1>6. \A r \in Ranks : \/ latest'[r] = latest[r]
                       \/ latest'[r] = Merge(data)[r] /\ latest'[r] \in Row
  BY <1>3, <1>5 DEF InsertMain, mainVars
<1>7. ASSUME NEW r \in Ranks, NEW row \in Maybe(Row), Behind(row, r)
      PROVE  row # None => latest'[r] # None /\ Follows(row, latest'[r])
  <2> SUFFICES ASSUME row # None, latest'[r] # latest[r]
               PROVE  latest'[r] # None /\ Follows(row, latest'[r])
    BY <1>7 DEF Behind
  <2>1. latest'[r] = Merge(data)[r] /\ latest'[r] \in Row
    BY <1>6
  <2>2. row \in Row /\ latest[r] \in Row /\ Follows(row, latest[r])
        /\ Follows(latest[r], Merge(data)[r])
    BY <1>4, <1>7 DEF Behind, Maybe
  <2> QED
    BY <2>1, <2>2, FollowsOrders, NoneAssumption
<1>8. pc' = "wl" => /\ RememberRanks
                    /\ CommitMain \/ (ChangedRanks = {} /\ latest' = latest)
  BY <1>2 DEF InsertMain, mainVars
<1>9. pc' # "wl" => mem' = mem
  BY <1>1 DEF InsertMain
<1>10. pc' = "wl" => \A r \in ChangedRanks : latest'[r] = Rankings[r]
  BY <1>3, <1>5, <1>8
\* A rank found unchanged, or not looked at, shows the payload's row already.
<1>11. ASSUME mode # "chapter", NEW r \in Ranks \ ChangedRanks
       PROVE  latest[r] = Merge(data)[r]
  <2>1. Merge(data)[r] \in Row /\ Merge(data)[r] # None
    BY <1>3, NoneAssumption
  <2>2. CASE r \in DOMAIN Rankings
    <3>1. mem[r] = Merge(data)[r]
      BY <1>3, <1>11, <2>2 DEF ChangedRanks
    <3>2. latest[r] \in Row /\ Follows(Merge(data)[r], latest[r])
          /\ Follows(latest[r], Merge(data)[r])
      BY <1>4, <2>1, <3>1 DEF Behind
    <3> QED
      BY <2>1, <3>2, FollowsOrders
  <2>3. CASE r \notin DOMAIN Rankings
    <3>1. hit /\ r \in BorderRanks \ TopRanks
      BY <2>3 DEF Rankings, Ranks
    <3>2. hash = data.border /\ Merge(data)[r] = data.border[r]
      BY <1>1, <3>1 DEF ProgressInv, HitBorder, Merge
    <3>3. hash # None
      BY <1>1, <3>2, NoneAssumption DEF Payload
    <3>4. Behind(Merge(data)[r], r)
      BY <3>1, <3>2, <3>3 DEF ProgressInv, MemoryBehind
    <3>5. latest[r] \in Row /\ Follows(Merge(data)[r], latest[r])
          /\ Follows(latest[r], Merge(data)[r])
      BY <1>4, <2>1, <3>4 DEF Behind
    <3> QED
      BY <2>1, <3>5, FollowsOrders
  <2> QED
    BY <2>2, <2>3
<1>12. MainCaughtUp'
  <2> SUFFICES ASSUME pc' = "wl", mode # "chapter", NEW r \in Ranks
               PROVE  latest'[r] = Merge(data)[r]
    BY <1>1 DEF MainCaughtUp, MainDone, Merge
  <2>1. CASE r \in ChangedRanks
    BY <1>3, <1>10, <2>1
  <2>2. CASE r \notin ChangedRanks
    BY <1>5, <1>8, <1>11, <2>2
  <2> QED
    BY <2>1, <2>2
<1>13. \A r \in Ranks : Behind(mem[r], r)'
  <2>1. ASSUME NEW r \in Ranks
        PROVE  mem'[r] = mem[r] \/ (mem'[r] = latest'[r] /\ latest'[r] \in Row)
    BY <1>3, <1>8, <1>9, <1>10 DEF RememberRanks
  <2> QED
    BY <1>4, <1>7, <2>1, NoneAssumption DEF Behind, Follows
<1>14. \A r \in Ranks : Behind(saved[r], r)'
  BY <1>1, <1>4, <1>7 DEF Behind
<1>15. hash' # None => \A r \in BorderRanks \ TopRanks : Behind(hash[r], r)'
  <2> SUFFICES ASSUME hash # None, NEW r \in BorderRanks \ TopRanks
               PROVE  hash[r] # None => latest'[r] # None /\ Follows(hash[r], latest'[r])
    BY <1>1 DEF Behind
  <2>1. r \in Ranks /\ hash[r] \in Maybe(Row) /\ Behind(hash[r], r)
    BY <1>1 DEF TypeOK, Maybe, Ranks, ProgressInv, MemoryBehind
  <2> QED
    BY <1>7, <2>1
<1>16. HitBorder' /\ WlCaughtUp' /\ \A k \in WlKeys : wlMem'[k] <= wlLatest'[k]
  BY <1>1 DEF HitBorder, WlCaughtUp, MainDone, ProgressInv, MemoryBehind
<1> QED
  BY <1>12, <1>13, <1>14, <1>15, <1>16 DEF ProgressInv, MemoryBehind

LEMMA InsertWlProgress ==
  ASSUME Orderly, OrderlyInv, ProgressInv, InsertWl
  PROVE  ProgressInv'
<1>1. /\ pc = "wl" /\ data \in Payload /\ wlSeen = {} /\ TypeOK /\ InTick
      /\ UNCHANGED <<mode, data, hit, outcome, mem, saved, hash, latest>>
      /\ pc' \in {"close", "failed"}
  BY DEF InsertWl, OrderlyInv, ListedInv, HasData, FreshWlSecond, InTick, redisVars, mainVars
<1>2. \A k \in WlKeys : /\ wlMem[k] \in Nat /\ wlLatest[k] \in Nat /\ data.wl[k] \in Nat
                        /\ wlMem[k] <= wlLatest[k] /\ wlLatest[k] <= data.wl[k]
  BY <1>1, BoundsAssumption DEF TypeOK, Payload, OrderlyInv, ListedInv, WlListed,
                                ProgressInv, MemoryBehind
<1>3. \A k \in WlKeys \ WlChanged : data.wl[k] # 0 => wlMem[k] = data.wl[k]
  BY DEF WlChanged, WlRows, Orderly
<1>4. \A k \in WlKeys : /\ wlMem'[k] = wlMem[k] \/ wlMem'[k] = wlLatest'[k]
                        /\ wlLatest'[k] = wlLatest[k] \/ wlLatest'[k] = data.wl[k]
  BY <1>1 DEF InsertWl, CommitWl, RememberWl, wlVars
<1>5. pc' = "close" => \A k \in WlChanged : wlLatest'[k] = data.wl[k]
  <2>1. pc' = "close" => WlChanged = {} \/ CommitWl
    BY DEF InsertWl
  <2>2. WlChanged \subseteq WlKeys
    BY DEF WlChanged, WlRows
  <2> HIDE DEF WlChanged
  <2> QED
    BY <1>1, <2>1, <2>2 DEF CommitWl
<1>6. \A k \in WlKeys : wlMem'[k] <= wlLatest'[k]
  BY <1>2, <1>4
<1>7. WlCaughtUp'
  <2> SUFFICES ASSUME pc' = "close", NEW k \in WlKeys, data.wl[k] # 0
               PROVE  wlLatest'[k] = data.wl[k]
    BY <1>1 DEF WlCaughtUp, MainDone
  <2> HIDE DEF WlChanged
  <2> QED
    BY <1>2, <1>3, <1>4, <1>5
<1>8. MainCaughtUp' /\ HitBorder'
  BY <1>1 DEF ProgressInv, MainCaughtUp, MainDone, HitBorder, Merge
<1> QED
  BY <1>1, <1>6, <1>7, <1>8 DEF ProgressInv, MemoryBehind, Behind

LEMMA StepProgress ==
  ASSUME Orderly
  PROVE  OrderlyInv /\ ProgressInv /\ [Next]_vars => ProgressInv'
<1> SUFFICES ASSUME OrderlyInv, ProgressInv, [Next]_vars
             PROVE  ProgressInv'
  OBVIOUS
<1> USE DEF envVars, tickVars, memVars, redisVars, mainVars, wlVars, histVars
<1> DEFINE Kept == UNCHANGED <<latest, wlLatest>>
<1>1. CASE InsertMain \/ InsertWl
  BY <1>1, InsertMainProgress, InsertWlProgress
<1>2. Kept /\ UNCHANGED <<mem, saved, hash, wlMem>> => MemoryBehind'
  BY DEF ProgressInv, MemoryBehind, Behind
<1>3. Kept /\ UNCHANGED <<mode, data>> /\ (MainDone' => MainDone) /\ (MainDone' /\ pc' # "wl" => pc # "wl")
        => MainCaughtUp' /\ WlCaughtUp'
  BY DEF ProgressInv, MainCaughtUp, WlCaughtUp, Merge
<1>4. CASE UpstreamChanges \/ Advance \/ UNCHANGED vars
  BY <1>2, <1>3, <1>4 DEF UpstreamChanges, Advance, vars, MainDone, ProgressInv, HitBorder
<1>5. ASSUME NEW m \in Modes, FetchOk(m) \/ FetchError(m)
      PROVE  ProgressInv'
  BY <1>2, <1>5 DEF FetchOk, FetchError, MainDone, MainCaughtUp, WlCaughtUp, ProgressInv, HitBorder
<1>6. CASE Begin \/ CloseFailed \/ Close \/ BeginProfiles \/ UpsertProfiles
  <2>1. Kept /\ UNCHANGED <<mem, saved, hash, wlMem, mode, data, hit>>
    BY <1>6 DEF Begin, CloseFailed, Close, BeginProfiles, UpsertProfiles
  <2>2. /\ MainDone' => MainDone /\ pc # "wl"
        /\ pc' \in {"begin", "main"} => pc \in {"begin", "main"}
    BY <1>6 DEF Begin, CloseFailed, Close, BeginProfiles, UpsertProfiles, MainDone
  <2> QED
    BY <1>2, <1>3, <2>1, <2>2 DEF ProgressInv, HitBorder
<1>7. CASE StoreBorder
  <2>1. /\ Kept /\ UNCHANGED <<mem, saved, wlMem, mode, data, hit, outcome>>
        /\ pc = "border" /\ pc' = "save" /\ data \in Payload
        /\ hash' = hash \/ (mode # "chapter" /\ hash' = data.border)
    BY <1>7 DEF StoreBorder, OrderlyInv, ListedInv, HasData
  <2>2. MainCaughtUp' /\ WlCaughtUp' /\ HitBorder'
    BY <1>3, <2>1 DEF MainDone, HitBorder
  <2>3. hash' # None => \A r \in BorderRanks \ TopRanks : Behind(hash[r], r)'
    <3>1. CASE hash' = hash
      BY <2>1, <3>1 DEF ProgressInv, MemoryBehind, Behind
    <3>2. CASE mode # "chapter" /\ hash' = data.border
      <4>1. \A r \in BorderRanks \ TopRanks : latest[r] = data.border[r]
        BY <2>1, <3>2 DEF ProgressInv, MainCaughtUp, MainDone, Merge, Ranks
      <4> QED
        BY <2>1, <3>2, <4>1 DEF Behind, Follows
    <3> QED
      BY <2>1, <3>1, <3>2
  <2> QED
    BY <2>1, <2>2, <2>3 DEF ProgressInv, MemoryBehind, Behind
<1>8. CASE SaveRankState
  <2>1. /\ Kept /\ UNCHANGED <<mem, hash, wlMem, mode, data, hit, outcome>>
        /\ pc = "save" /\ pc' \in {"profiles", "return"}
    BY <1>8 DEF SaveRankState
  <2>2. \A r \in Ranks : saved'[r] \in {mem[r], saved[r]}
    BY <1>8 DEF SaveRankState
  <2>3. MainCaughtUp' /\ WlCaughtUp' /\ HitBorder'
    BY <1>3, <2>1 DEF MainDone, HitBorder
  <2> QED
    BY <2>1, <2>2, <2>3 DEF ProgressInv, MemoryBehind, Behind
<1>9. CASE Return \/ Restart
  <2>1. /\ Kept /\ UNCHANGED <<saved, hash>> /\ pc' = "idle"
        /\ mem' \in {mem, saved, NoRows} /\ wlMem' \in {wlMem, NoWl}
    BY <1>9 DEF Return, Restart, TickOver
  <2>2. \A k \in WlKeys : wlLatest[k] \in Nat
    BY BoundsAssumption DEF OrderlyInv, ListedInv, TypeOK
  <2>3. MemoryBehind'
    BY <2>1, <2>2 DEF ProgressInv, MemoryBehind, Behind, NoRows, NoWl
  <2> QED
    BY <2>1, <2>3 DEF ProgressInv, HitBorder, MainCaughtUp, WlCaughtUp, MainDone
<1> QED
  BY <1>1, <1>4, <1>5, <1>6, <1>7, <1>8, <1>9 DEF Next, Tick

\* With orderly payloads that never return to a former row, a tick that
\* reports success leaves the tables showing what it fetched, whatever failed
\* in earlier ticks: an insert whose outcome was lost, a crash between the
\* insert and the rank state, a border hash stored, kept or not read.
THEOREM SuccessMeansCaughtUp ==
  ASSUME Orderly, ~Recur
  PROVE  Spec => []CaughtUp
<1>1. Init => ProgressInv
  BY BoundsAssumption
  DEF Init, ProgressInv, MemoryBehind, Behind, HitBorder, MainCaughtUp, WlCaughtUp, MainDone,
      NoRows, NoWl
<1>2. OrderlyInv /\ ProgressInv /\ [Next]_vars => (OrderlyInv /\ ProgressInv)'
  BY OrderlyInvariant, StepProgress
<1>3. ProgressInv => CaughtUp
  BY DEF ProgressInv, MainCaughtUp, WlCaughtUp, MainDone, CaughtUp
<1> QED
  BY <1>1, <1>2, <1>3, OrderlyInvariant, PTL DEF Spec
=============================================================================
