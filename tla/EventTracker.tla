---------------------------- MODULE EventTracker ----------------------------
(***************************************************************************)
(* EventTrackerBase of src/tracker/base.rs for one event: a tick fetches   *)
(* the upstream rankings, compares them with what it remembers, commits    *)
(* the changed rows, closes the API cache's update and only then moves     *)
(* what it remembers in Redis (border hash, rank state).  Every step may   *)
(* fail and the process may die between any two of them.                   *)
(*                                                                         *)
(* Left out: the content of user profiles, the tables' creation, and the   *)
(* wall clock (only whether two ticks fall into one second matters).       *)
(***************************************************************************)
EXTENDS Naturals, FiniteSets

CONSTANTS
  TopRanks,     \* ranks listed by the top-100 response, always
  BorderRanks,  \* ranks listed by the border response
  Users,
  Nameless,     \* users whose upstream rows lack a name
  WlKeys,       \* <<user, character>> pairs of the World Bloom rankings
  MaxScore,     \* bound on scores and on World Bloom versions
  InFlight,     \* may upstream list one user at two ranks at once
  Recur,        \* may upstream return to a row it has moved on from
  Faults,       \* what may go wrong
  MaxFaults,    \* bound on the number of faults
  MaxChanges,   \* bound on the number of upstream changes
  None          \* no row, no hash, no payload

Ranks  == TopRanks \cup BorderRanks
Scores == 1 .. MaxScore
Row    == [user : Users, score : Scores]
Payload == [top : [TopRanks -> Row], border : [BorderRanks -> Row],
            wl : [WlKeys -> 0 .. MaxScore]]
FaultKinds == {"fetch", "insert", "unacked", "redis", "finish_lost", "crash", "same_second"}

ASSUME RanksAssumption == TopRanks \subseteq Nat /\ BorderRanks \subseteq Nat
ASSUME UsersAssumption == Nameless \subseteq Users /\ \A k \in WlKeys : k[1] \in Users
ASSUME BoundsAssumption == MaxScore \in Nat /\ MaxFaults \in Nat /\ MaxChanges \in Nat
ASSUME FlagsAssumption == InFlight \in BOOLEAN /\ Recur \in BOOLEAN /\ Faults \subseteq FaultKinds
ASSUME NoneAssumption == None \notin Row /\ None \notin Payload /\ None \notin [BorderRanks -> Row]

VARIABLES
  status, up, changes, faults,               \* the event, upstream, the bounds
  pc, mode, data, hit, changed, batch, phase, outcome,  \* the tick under way
  mem, wlMem, wlKnown, ended,                \* the tracker's memory
  saved, hash, flag,                         \* Redis: rank_state, border hash, ended
  latest, landed, seen,                      \* ranking table: newest row by rank, all rows,
                                             \* users with a row in the present second
  wlLatest, wlLanded, wlSeen,                \* the same of the World Bloom table
  beat,                                      \* the tick's heartbeat row
  repeated, unpublished                      \* history: a row inserted twice in
                                             \* succession; rows without an epoch

envVars   == <<status, up, changes>>
tickVars  == <<pc, mode, data, hit, changed, batch, phase, outcome>>
memVars   == <<mem, wlMem, wlKnown, ended>>
redisVars == <<saved, hash, flag>>
mainVars  == <<latest, landed, seen>>
wlVars    == <<wlLatest, wlLanded, wlSeen>>
histVars  == <<beat, repeated, unpublished>>
vars == <<envVars, faults, tickVars, memVars, redisVars, mainVars, wlVars, histVars>>

PCs   == {"idle", "begin", "main", "wl", "close", "border", "save",
          "profiles", "upsert", "failed", "return"}
Modes == {"live", "chapter", "final", "post"}

NoRows   == [r \in Ranks |-> None]
NoWl     == [k \in WlKeys |-> 0]
Maybe(S) == S \cup {None}

\* The types of the tracker's, Redis' and the tables' state.
TypeOK ==
  /\ status \in {"ongoing", "aggregating", "ended"} /\ up \in Payload
  /\ changes \in 0 .. MaxChanges /\ faults \in 0 .. MaxFaults
  /\ phase \in {"closed", "rows", "profiles"}
  /\ pc \in PCs /\ mode \in Modes /\ data \in Maybe(Payload)
  /\ changed \in SUBSET Ranks /\ outcome \in {"ok", "error"}
  /\ {hit, batch, ended, flag, repeated, unpublished} \subseteq BOOLEAN
  /\ mem \in [Ranks -> Maybe(Row)] /\ saved \in [Ranks -> Maybe(Row)]
  /\ wlMem \in [WlKeys -> 0 .. MaxScore] /\ wlKnown \in SUBSET Users
  /\ hash \in Maybe([BorderRanks -> Row])
  /\ latest \in [Ranks -> Maybe(Row)] /\ landed \in SUBSET (Ranks \X Row)
  /\ seen \in SUBSET Users
  /\ wlLatest \in [WlKeys -> 0 .. MaxScore] /\ wlLanded \in SUBSET (WlKeys \X Scores)
  /\ wlSeen \in SUBSET WlKeys
  /\ beat \in Maybe({0, 1})

\* merge_rankings: border rows fill the ranks the top 100 leaves open.
Merge(p) == [r \in Ranks |-> IF r \in TopRanks THEN p.top[r] ELSE p.border[r]]

WellFormed(p) ==
  InFlight \/ \A q, r \in Ranks : q # r => Merge(p)[q].user # Merge(p)[r].user

Init ==
  /\ status = "ongoing" /\ up \in Payload /\ WellFormed(up)
  /\ \A r \in Ranks : Merge(up)[r].score = 1
  /\ \A r \in BorderRanks : up.border[r].score = 1
  /\ up.wl = NoWl
  /\ changes = 0 /\ faults = 0
  /\ pc = "idle" /\ mode = "live" /\ data = None /\ hit = FALSE /\ changed = {}
  /\ batch = FALSE /\ phase = "closed" /\ outcome = "ok"
  /\ mem = NoRows /\ wlMem = NoWl /\ wlKnown = {} /\ ended = FALSE
  /\ saved = NoRows /\ hash = None /\ flag = FALSE
  /\ latest = NoRows /\ landed = {} /\ seen = {}
  /\ wlLatest = NoWl /\ wlLanded = {} /\ wlSeen = {}
  /\ beat = None /\ repeated = FALSE /\ unpublished = FALSE

-----------------------------------------------------------------------------
(***************************************************************************)
(* The environment: upstream moves on, the event passes through its        *)
(* phases (get_current_event_status).                                      *)
(***************************************************************************)
Moved(old, new) == new = old \/ Recur \/ new.score > old.score

UpstreamChanges ==
  /\ changes < MaxChanges
  /\ changes' = changes + 1
  /\ up' \in Payload /\ up' # up /\ WellFormed(up')
  /\ \A r \in TopRanks : Moved(up.top[r], up'.top[r])
  /\ \A r \in BorderRanks : Moved(up.border[r], up'.border[r])
  /\ \A k \in WlKeys : up'.wl[k] >= up.wl[k] \/ (Recur /\ up'.wl[k] # 0)
  /\ UNCHANGED <<status, faults, tickVars, memVars, redisVars, mainVars, wlVars, histVars>>

Advance ==
  /\ \/ status = "ongoing" /\ status' = "aggregating"
     \/ status = "aggregating" /\ status' = "ended"
  /\ UNCHANGED <<up, changes, faults, tickVars, memVars, redisVars, mainVars, wlVars, histVars>>

Fault(kind) ==
  /\ kind \in Faults /\ faults < MaxFaults
  /\ faults' = faults + 1

-----------------------------------------------------------------------------
(***************************************************************************)
(* What a tick works on.                                                   *)
(***************************************************************************)

\* The fetched rankings; without the border's if its hash is the stored one.
Rankings ==
  [r \in TopRanks \cup (IF hit THEN {} ELSE BorderRanks) |-> Merge(data)[r]]

\* diff_rank_based; a World-Bloom-only tick leaves the main rankings alone.
ChangedRanks ==
  IF mode = "chapter" THEN {} ELSE {r \in DOMAIN Rankings : mem[r] # Rankings[r]}

\* build_event_records: no row without a name, one row for each user.
Named(r) == Rankings[r].user \notin Nameless
Records ==
  {r \in ChangedRanks : Named(r) /\ \A q \in ChangedRanks :
      q < r /\ Named(q) => Rankings[q].user # Rankings[r].user}

\* build_world_bloom_rows with its pre-diff, and the diff before the insert.
WlRows ==
  {k \in WlKeys : /\ data.wl[k] # 0 /\ k[1] \notin Nameless
                  /\ ~(k[1] \in wlKnown /\ wlMem[k] = data.wl[k])}
WlChanged == {k \in WlRows : wlMem[k] # data.wl[k]}

-----------------------------------------------------------------------------
(***************************************************************************)
(* The steps of a tick.                                                    *)
(***************************************************************************)

\* Which tick the daemon may run: "chapter" (a World Bloom chapter ended)
\* and "live" ones, a "final" one when the event ends, then "post" ones.
Due(m) ==
  /\ pc = "idle"
  /\ ended <=> m = "post"
  /\ m = "final" => status = "ended"
  /\ m \in {"live", "chapter"} => status = "ongoing"

\* Mutant: the hash of the border is stored when it is checked.
FetchOk_StoreHash(m) ==
  /\ Due(m)
  /\ mode' = m /\ data' = up /\ pc' = "begin"
  /\ hit' = (hash = up.border) /\ hash' = up.border
  /\ seen' = {} /\ wlSeen' = {}
  /\ UNCHANGED <<envVars, faults, changed, batch, phase, outcome, memVars, saved, flag,
                 latest, landed, wlLatest, wlLanded, histVars>>

\* handle_ranking_data succeeds.  A failed check of the hash is a miss.
FetchOk(m) ==
  /\ Due(m)
  /\ mode' = m /\ data' = up /\ pc' = "begin"
  /\ \/ hit' = (hash = up.border) /\ UNCHANGED faults
     \/ hit' = FALSE /\ Fault("redis")
  /\ \/ seen' = {} /\ wlSeen' = {}
     \/ "same_second" \in Faults /\ UNCHANGED <<seen, wlSeen>>
  /\ UNCHANGED <<envVars, changed, batch, phase, outcome, memVars, redisVars,
                 latest, landed, wlLatest, wlLanded, histVars>>

\* An upstream error: a live tick writes a heartbeat with status 1.
FetchError(m) ==
  /\ Due(m) /\ Fault("fetch")
  /\ mode' = m /\ outcome' = "error" /\ pc' = "return"
  /\ beat' = IF m = "post" THEN None ELSE 1
  /\ UNCHANGED <<envVars, data, hit, changed, batch, phase, memVars, redisVars,
                 mainVars, wlVars, repeated, unpublished>>

\* Mutant: the update is only announced for the main rankings.
Begin_MainOnly ==
  /\ pc = "begin"
  /\ phase' = IF Records # {} THEN "rows" ELSE "closed"
  /\ pc' = "main"
  /\ UNCHANGED <<envVars, faults, mode, data, hit, changed, batch, outcome, memVars,
                 redisVars, mainVars, wlVars, histVars>>

\* begin_event_update, if there is something to write.
Begin ==
  /\ pc = "begin"
  /\ phase' = IF Records # {} \/ WlRows # {} THEN "rows" ELSE "closed"
  /\ pc' = "main"
  /\ UNCHANGED <<envVars, faults, mode, data, hit, changed, batch, outcome, memVars,
                 redisVars, mainVars, wlVars, histVars>>

\* The transaction of batch_insert_event_rankings: rows are unique by user
\* and second, a second one is dropped (DO NOTHING).
CommitMain ==
  LET new == {r \in Records : Rankings[r].user \notin seen}
  IN  /\ latest' = [r \in Ranks |-> IF r \in new THEN Rankings[r] ELSE latest[r]]
      /\ landed' = landed \cup {<<r, Rankings[r]>> : r \in new}
      /\ seen' = seen \cup {Rankings[r].user : r \in Records}
      /\ repeated' = (repeated \/ \E r \in new : latest[r] = Rankings[r])
      /\ unpublished' = TRUE

\* prev_rank_state takes every changed rank, recorded or not.
RememberRanks ==
  /\ changed' = ChangedRanks
  /\ mem' = [r \in Ranks |-> IF r \in ChangedRanks THEN Rankings[r] ELSE mem[r]]

\* Mutant: the rank state moves on before the outcome of the insert is known.
InsertMain_StateFirst ==
  /\ pc = "main" /\ RememberRanks
  /\ \/ /\ Records = {} /\ pc' = "wl"
        /\ UNCHANGED <<batch, faults, mainVars, repeated, unpublished>>
     \/ /\ Records # {} /\ CommitMain /\ batch' = TRUE /\ pc' = "wl"
        /\ UNCHANGED faults
     \/ /\ Records # {} /\ Fault("insert") /\ pc' = "failed"
        /\ UNCHANGED <<batch, mainVars, repeated, unpublished>>
  /\ UNCHANGED <<envVars, mode, data, hit, phase, outcome, wlMem, wlKnown, ended,
                 redisVars, wlVars, beat>>

\* Nothing to insert, inserted, failed, or committed without the tracker
\* learning it; the rank state only moves on in the first two cases.
InsertMain ==
  /\ pc = "main"
  /\ \/ /\ Records = {} /\ RememberRanks /\ pc' = "wl"
        /\ UNCHANGED <<batch, faults, mainVars, repeated, unpublished>>
     \/ /\ Records # {} /\ CommitMain /\ RememberRanks /\ batch' = TRUE /\ pc' = "wl"
        /\ UNCHANGED faults
     \/ /\ Records # {} /\ Fault("insert") /\ pc' = "failed"
        /\ UNCHANGED <<batch, changed, mem, mainVars, repeated, unpublished>>
     \/ /\ Records # {} /\ Fault("unacked") /\ CommitMain /\ pc' = "failed"
        /\ UNCHANGED <<batch, changed, mem>>
  /\ UNCHANGED <<envVars, mode, data, hit, phase, outcome, wlMem, wlKnown, ended,
                 redisVars, wlVars, beat>>

\* The transaction of batch_insert_world_bloom_rankings.
CommitWl ==
  LET new == WlChanged \ wlSeen
  IN  /\ wlLatest' = [k \in WlKeys |-> IF k \in new THEN data.wl[k] ELSE wlLatest[k]]
      /\ wlLanded' = wlLanded \cup {<<k, data.wl[k]>> : k \in new}
      /\ wlSeen' = wlSeen \cup WlChanged
      /\ repeated' = (repeated \/ \E k \in new : wlLatest[k] = data.wl[k])
      /\ unpublished' = TRUE

RememberWl == wlMem' = [k \in WlKeys |-> IF k \in WlChanged THEN data.wl[k] ELSE wlMem[k]]

\* Mutant: keys instead of users.
LearnUsers_Keys == wlKnown' = wlKnown \cup WlRows

LearnUsers == wlKnown' = wlKnown \cup {k[1] : k \in WlRows}

\* Mutant: the World Bloom state does not follow the insert.
InsertWl_NoState ==
  /\ pc = "wl" /\ pc' = "close" /\ CommitWl /\ LearnUsers /\ batch' = TRUE
  /\ UNCHANGED <<envVars, mode, data, hit, changed, phase, outcome, mem, wlMem, ended,
                 faults, redisVars, mainVars, beat>>

\* No changed row (a no-op insert aborts the update unless ranking rows
\* were written), inserted, failed before or in the transaction, or
\* committed without the tracker learning it.
InsertWl ==
  /\ pc = "wl"
  /\ \/ /\ WlChanged = {} /\ pc' = "close"
        /\ phase' = IF batch \/ WlRows = {} THEN phase ELSE "closed"
        /\ LearnUsers
        /\ UNCHANGED <<faults, batch, wlMem, wlVars, repeated, unpublished>>
     \/ /\ WlChanged # {} /\ CommitWl /\ RememberWl /\ LearnUsers /\ batch' = TRUE
        /\ pc' = "close"
        /\ UNCHANGED <<faults, phase>>
     \/ /\ WlRows # {} /\ Fault("insert") /\ pc' = "failed"
        /\ LearnUsers \/ UNCHANGED wlKnown
        /\ UNCHANGED <<batch, phase, wlMem, wlVars, repeated, unpublished>>
     \/ /\ WlChanged # {} /\ Fault("unacked") /\ CommitWl /\ LearnUsers /\ pc' = "failed"
        /\ UNCHANGED <<batch, phase, wlMem>>
  /\ UNCHANGED <<envVars, mode, data, hit, changed, outcome, mem, ended, redisVars,
                 mainVars, beat>>

\* finish_event_update; when it is lost the rows stay without an epoch.
Publish ==
  /\ phase' = "closed"
  /\ \/ unpublished' = FALSE /\ UNCHANGED faults
     \/ Fault("finish_lost") /\ UNCHANGED unpublished

Withdraw == phase' = "closed" /\ UNCHANGED <<unpublished, faults>>

\* Mutant: a failed World Bloom insert aborts although rankings were written.
CloseFailed_AlwaysAbort ==
  /\ pc = "failed"
  /\ Withdraw
  /\ outcome' = "error" /\ pc' = "return"
  /\ UNCHANGED <<envVars, mode, data, hit, changed, batch, memVars, redisVars,
                 mainVars, wlVars, beat, repeated>>

\* The way out of a failed insert: finish if rankings were written, or abort.
CloseFailed ==
  /\ pc = "failed"
  /\ IF batch THEN Publish ELSE Withdraw
  /\ outcome' = "error" /\ pc' = "return"
  /\ UNCHANGED <<envVars, mode, data, hit, changed, batch, memVars, redisVars,
                 mainVars, wlVars, beat, repeated>>

\* Rows written: publish.  Otherwise a heartbeat with status 0, which may fail.
Close ==
  /\ pc = "close"
  /\ \/ /\ batch /\ Publish
        /\ pc' = "border" /\ UNCHANGED <<beat, outcome>>
     \/ /\ ~batch /\ beat' = IF mode = "post" THEN None ELSE 0
        /\ pc' = "border" /\ UNCHANGED <<phase, unpublished, faults, outcome>>
     \/ /\ ~batch /\ mode # "post" /\ Fault("insert")
        /\ pc' = "return" /\ outcome' = "error" /\ UNCHANGED <<phase, unpublished, beat>>
  /\ UNCHANGED <<envVars, mode, data, hit, changed, batch, memVars, redisVars,
                 mainVars, wlVars, repeated>>

\* Mutant: a World-Bloom-only tick stores the hash of rows it never merged.
StoreBorder_AnyMode ==
  /\ pc = "border" /\ pc' = "save"
  /\ hash' = IF ~hit THEN data.border ELSE hash
  /\ UNCHANGED <<envVars, faults, mode, data, hit, changed, batch, phase, outcome, memVars,
                 saved, flag, mainVars, wlVars, histVars>>

\* store_cache, once the merged rows are persisted; failure is only logged.
StoreBorder ==
  /\ pc = "border" /\ pc' = "save"
  /\ \/ hash' = (IF mode # "chapter" /\ ~hit THEN data.border ELSE hash) /\ UNCHANGED faults
     \/ mode # "chapter" /\ ~hit /\ Fault("redis") /\ hash' = hash
  /\ UNCHANGED <<envVars, mode, data, hit, changed, batch, phase, outcome, memVars,
                 saved, flag, mainVars, wlVars, histVars>>

\* save_rank_state of the changed ranks; failure is only logged.
SaveRankState ==
  /\ pc = "save"
  /\ pc' = IF mode = "post" THEN "profiles" ELSE "return"
  /\ \/ saved' = [r \in Ranks |-> IF r \in changed THEN mem[r] ELSE saved[r]] /\ UNCHANGED faults
     \/ changed # {} /\ Fault("redis") /\ saved' = saved
  /\ UNCHANGED <<envVars, mode, data, hit, changed, batch, phase, outcome, memVars,
                 hash, flag, mainVars, wlVars, histVars>>

\* refresh_after_end goes on with an update of its own for the user profiles.
BeginProfiles ==
  /\ pc = "profiles"
  /\ LET visible == ({Rankings[r].user : r \in DOMAIN Rankings}
                      \cup {k[1] : k \in {j \in WlKeys : data.wl[j] # 0}}) \ Nameless
     IN  /\ phase' = IF visible # {} THEN "profiles" ELSE "closed"
         /\ pc' = IF visible = {} THEN "return" ELSE "upsert"
  /\ batch' = FALSE
  /\ UNCHANGED <<envVars, faults, mode, data, hit, changed, outcome, memVars, redisVars,
                 mainVars, wlVars, histVars>>

UpsertProfiles ==
  /\ pc = "upsert"
  /\ \/ Publish /\ pc' = "return"
     \/ Fault("insert") /\ pc' = "failed" /\ UNCHANGED <<phase, unpublished>>
  /\ UNCHANGED <<envVars, mode, data, hit, changed, batch, outcome, memVars, redisVars,
                 mainVars, wlVars, beat, repeated>>

TickOver ==
  /\ pc' = "idle" /\ mode' = "live" /\ data' = None /\ hit' = FALSE /\ changed' = {}
  /\ batch' = FALSE /\ phase' = "closed" /\ outcome' = "ok" /\ beat' = None

\* The tick is over; after the final one, however it went, the event counts
\* as ended (set_event_ended).
Return ==
  /\ pc = "return"
  /\ TickOver
  /\ \/ /\ ended' = (ended \/ mode = "final") /\ flag' = (flag \/ mode = "final")
        /\ UNCHANGED faults
     \/ mode = "final" /\ ended' = TRUE /\ flag' = flag /\ Fault("redis")
  /\ UNCHANGED <<envVars, mem, wlMem, wlKnown, saved, hash, mainVars, wlVars,
                 repeated, unpublished>>

\* The process dies and comes back: the rank state is reloaded unless the
\* event is flagged as ended or Redis fails, the World Bloom state is gone.
Restart ==
  /\ Fault("crash")
  /\ TickOver
  /\ ended' = (flag \/ status = "ended")
  /\ mem' \in (IF flag THEN {} ELSE {saved}) \cup
              (IF flag \/ "redis" \in Faults THEN {NoRows} ELSE {})
  /\ wlMem' = NoWl /\ wlKnown' = {}
  /\ UNCHANGED <<envVars, redisVars, mainVars, wlVars, repeated, unpublished>>

Tick ==
  \/ \E m \in Modes : FetchOk(m) \/ FetchError(m)
  \/ Begin \/ InsertMain \/ InsertWl \/ CloseFailed \/ Close
  \/ StoreBorder \/ SaveRankState \/ BeginProfiles \/ UpsertProfiles \/ Return

Next == UpstreamChanges \/ Advance \/ Tick \/ Restart

Spec == Init /\ [][Next]_vars

(***************************************************************************)
(* The scheduler keeps firing, every await returns, an aggregating event   *)
(* ends (its times are fixed in the master data), and World-Bloom-only     *)
(* ticks, one for each chapter, do not crowd out the others.               *)
(***************************************************************************)
Fairness ==
  /\ WF_vars(Tick)
  /\ WF_vars(status = "aggregating" /\ Advance)
  /\ SF_vars(\E m \in Modes \ {"chapter"} : FetchOk(m))
FairSpec == Spec /\ Fairness

-----------------------------------------------------------------------------
(***************************************************************************)
(* Properties.                                                             *)
(***************************************************************************)

\* A rank the tracker remembers, in memory or in Redis, is in the database:
\* no failed insert, crash or lost acknowledgement lets the remembered state
\* run ahead of the rows and so suppress them in later ticks.
RememberedLanded ==
  \A r \in Ranks :
    /\ mem[r] # None => <<r, mem[r]>> \in landed
    /\ saved[r] # None => <<r, saved[r]>> \in landed

\* The same for World Bloom rows.
WlRememberedLanded == \A k \in WlKeys : wlMem[k] # 0 => <<k, wlMem[k]>> \in wlLanded

\* The border hash in Redis vouches for rows in the database.
HashLanded ==
  hash # None => \A r \in BorderRanks \ TopRanks : <<r, hash[r]>> \in landed

\* When a tick reports success, the newest row of every rank and of every
\* World Bloom player is the one upstream listed, whatever failed before and
\* although an unchanged border is not even looked at.
CaughtUp ==
  pc = "return" /\ outcome = "ok" =>
    /\ mode # "chapter" => \A r \in Ranks : latest[r] = Merge(data)[r]
    /\ \A k \in WlKeys : data.wl[k] # 0 => wlLatest[k] = data.wl[k]

\* No player's row is inserted again while nothing about it has changed.
NoRepeats == ~repeated

\* Rows are only without an epoch while the update that wrote them is open:
\* every way out of a tick closes its update, and closes it the right way.
Published == unpublished => phase = "rows"

\* The cache's view of a tick.
Protocol == INSTANCE UpdateProtocol WITH
  MayLose <- Faults \cap {"unacked", "finish_lost", "crash"} # {},
  phase <- phase, wrote <- phase = "rows" /\ batch,
  unpublished <- unpublished

\* Every tick opens and closes the cache's updates as UpdateProtocol allows,
\* however its inserts and its Redis calls end.
ImplementsProtocol == Protocol!Spec

\* After the last fault and the last change upstream, the tables end up
\* showing what upstream shows.
Converges == <>[](\A r \in Ranks : latest[r] = Merge(up)[r])
=============================================================================
