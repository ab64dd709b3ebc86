----------------------- MODULE ApiCacheAnswersProofs ------------------------
(***************************************************************************)
(* Proof of AnswerFresh under every fault, for any processes, requests and *)
(* bounds.                                                                 *)
(***************************************************************************)
EXTENDS ApiCacheAnswers, ApiCacheProofs, WellFoundedInduction

(***************************************************************************)
(* A request is good for an epoch e when nothing it still may answer with  *)
(* misses what e published.                                                *)
(***************************************************************************)
Good(s, e) ==
  /\ pc[s] = "readval" => e <= ctx[s]
  /\ pc[s] = "wait" /\ ctx[s] # None => e <= ctx[s]
  /\ pc[s] = "users" => val[s].rows >= floor[e].rows
  /\ pc[s] \in {"hit", "write", "done"} => AtLeast(val[s], floor[e])

DirtyFlight(key) == key[1] = "dirty"

\* The flights: whom a request waits for, where the owner of a dirty flight
\* is, and that only a dirty flight is waited for by the owner of another.
Flights ==
  \A r \in Readers :
    /\ pc[r] = "idle" => owns[r] = {}
    /\ waits[r] # None =>
         /\ Home[waits[r][1]] = Home[r]
         /\ waits[r][2] \in owns[waits[r][1]]
         /\ owns[r] # {} => DirtyFlight(waits[r][2])
    /\ \A key \in owns[r] :
         DirtyFlight(key) => pc[r] \in {"rows", "users", "done"} /\ ctx[r] = None

\* A later epoch published more.
FloorsGrow ==
  \A e, f \in Epochs : e <= f /\ f <= epoch => AtLeast(floor[f], floor[e])

Entitled(r) ==
  /\ entitled[r] \in Epochs /\ entitled[r] <= epoch
  /\ Good(r, entitled[r])
  /\ waits[r] # None => Good(waits[r][1], entitled[r])
  /\ \A t \in Readers :
       Home[t] = Home[r] /\ (\E key \in owns[t] : DirtyFlight(key))
         => Good(t, entitled[r])

AnswerInv ==
  /\ Flights /\ FloorsGrow
  /\ \A r \in Readers : pc[r] # "idle" => Entitled(r)

-----------------------------------------------------------------------------
(* Facts about the least of some numbers, about floors and about Good.      *)

\* A set of natural numbers has a least element, and Min names it.
LEMMA MinOfNats ==
  ASSUME NEW S \in SUBSET Nat, S # {}
  PROVE  Min(S) \in S /\ \A y \in S : Min(S) <= y
<1>1. \E x \in S : \A y \in S : <<y, x>> \notin OpToRel(<, Nat)
  BY WFMin, NatLessThanWellFounded, Zenon
<1>2. PICK x \in S : \A y \in S : <<y, x>> \notin OpToRel(<, Nat)
  BY <1>1
<1>3. ASSUME NEW y \in S
      PROVE  ~ (y < x)
  BY <1>2, Zenon DEF OpToRel
<1>4. \A y \in S : x <= y
  <2> TAKE y \in S
  <2>1. x \in Nat /\ y \in Nat /\ ~ (y < x)
    BY <1>3
  <2> QED
    BY <2>1
<1> QED
  BY <1>4 DEF Min

\* What a request counts on when it arrives is published, is not newer than
\* its process' control, and no active request of the process counts on less.
LEMMA EntitlementBounds ==
  ASSUME Shape, FloorInv, AnswerInv, NEW r \in Readers
  PROVE  /\ Entitlement(r) \in Epochs /\ Entitlement(r) <= epoch
         /\ \A s \in Active(Home[r]) : Entitlement(r) <= entitled[s]
         /\ control[Home[r]] # None => Entitlement(r) <= control[Home[r]].epoch
<1> DEFINE p == Home[r]
           S == {epoch} \cup {entitled[s] : s \in Active(p)}
                  \cup (IF control[p] = None THEN {} ELSE {control[p].epoch})
<1>1. p \in Procs
  BY ActorsAssumption
<1>2. epoch \in Epochs /\ \A s \in Active(p) : entitled[s] \in Epochs
  BY DEF Shape, TypeOK, AnswerInv, Entitled, Active
<1>3. control[p] # None => control[p].epoch \in Epochs
  BY <1>1 DEF Shape, TypeOK, Controls
<1>4. S \subseteq Epochs /\ S # {} /\ Epochs \subseteq Nat
  BY <1>2, <1>3 DEF Epochs
<1>5. Min(S) \in S /\ \A y \in S : Min(S) <= y
  BY <1>4, MinOfNats
<1>6. Entitlement(r) = Min(S)
  BY DEF Entitlement
<1> QED
  BY <1>4, <1>5, <1>6

LEMMA FloorNumbers ==
  ASSUME Shape, FloorInv, NEW e \in Epochs, e <= epoch
  PROVE  /\ e \in Nat /\ epoch \in Nat
         /\ floor[e] \in Snapshots /\ floor[e].rows \in Nat /\ floor[e].users \in Nat
         /\ db.rows >= floor[e].rows /\ db.users >= floor[e].users
         /\ db.rows \in Nat /\ db.users \in Nat
BY Numbers DEF FloorInv, FloorHistory, AtLeast, Shape, TypeOK

\* Good for an epoch, good for the ones before it.
LEMMA GoodDown ==
  ASSUME Shape, FloorInv, FloorsGrow, NEW s \in Readers, NEW d \in Epochs, NEW e \in Epochs,
         d <= e, e <= epoch, Good(s, e)
  PROVE  Good(s, d)
<1>1. /\ d \in Nat /\ e \in Nat /\ epoch \in Nat /\ d <= epoch
      /\ AtLeast(floor[e], floor[d])
  BY Numbers DEF FloorsGrow, Shape
<1>2. floor[e] \in Snapshots /\ floor[d] \in Snapshots
  BY <1>1, FloorNumbers
<1>3. pc[s] \in {"users", "hit", "write", "done"} => val[s] \in Snapshots
  BY DEF Shape, TypeOK, RequestShape
<1>4. ctx[s] # None => ctx[s] \in Nat
  BY Numbers DEF Shape, TypeOK
<1>5. pc[s] = "readval" => ctx[s] # None
  BY DEF Shape, RequestShape
<1>6. pc[s] \in {"readval", "wait"} /\ ctx[s] # None /\ e <= ctx[s] => d <= ctx[s]
  BY <1>1, <1>4
<1>7. pc[s] = "users" => val[s].rows >= floor[d].rows
  BY <1>1, <1>2, <1>3, Numbers DEF Good, AtLeast, Shape
<1>8. pc[s] \in {"hit", "write", "done"} => AtLeast(val[s], floor[d])
  BY <1>1, <1>2, <1>3, Numbers DEF Good, Shape
<1> QED
  BY <1>5, <1>6, <1>7, <1>8 DEF Good

\* Published floors stay as they are, and grow.
LEMMA FloorsStep ==
  ASSUME Shape, FloorInv, FloorsGrow, [Next]_vars
  PROVE  /\ epoch <= epoch' /\ \A e \in Epochs : e <= epoch => floor'[e] = floor[e]
         /\ FloorsGrow'
<1>1. CASE Tracker
  <2>1. /\ epoch <= epoch' /\ \A e \in Epochs : e <= epoch => floor'[e] = floor[e]
        /\ \/ epoch' = epoch /\ floor' = floor
           \/ epoch' = epoch + 1 /\ epoch' \in Epochs /\ floor'[epoch'] = db
    BY <1>1, TrackerMonotone
  <2>2. CASE epoch' = epoch /\ floor' = floor
    BY <2>1, <2>2 DEF FloorsGrow, AtLeast
  <2>3. CASE epoch' = epoch + 1 /\ epoch' \in Epochs /\ floor'[epoch'] = db
    <3> SUFFICES ASSUME NEW e \in Epochs, NEW f \in Epochs, e <= f, f <= epoch'
                 PROVE  AtLeast(floor'[f], floor'[e])
      BY <2>1 DEF FloorsGrow, AtLeast
    <3>1. e \in Nat /\ f \in Nat /\ epoch \in Nat
      BY Numbers DEF Shape
    <3>2. CASE f <= epoch
      BY <2>1, <3>1, <3>2 DEF FloorsGrow
    <3>3. CASE f = epoch' /\ e = epoch'
      BY <2>3, <3>3, Numbers DEF Shape, TypeOK
    <3>4. CASE f = epoch' /\ e <= epoch
      BY <2>1, <2>3, <3>4 DEF FloorInv, FloorHistory
    <3> QED
      BY <2>3, <3>1, <3>2, <3>3, <3>4
  <2> QED
    BY <2>1, <2>2, <2>3
<1>2. CASE ~Tracker
  <2>1. UNCHANGED <<epoch, floor>>
    BY <1>2, OthersPublishNothing
  <2>2. epoch \in Nat
    BY Numbers DEF Shape
  <2> QED
    BY <2>1, <2>2 DEF FloorsGrow, AtLeast
<1> QED
  BY <1>1, <1>2

\* A request that does not move stays good.
LEMMA GoodRests ==
  ASSUME Shape, FloorInv, FloorsGrow, [Next]_vars,
         NEW s \in Readers, NEW e \in Epochs, e <= epoch, Good(s, e),
         pc'[s] = pc[s], ctx'[s] = ctx[s], val'[s] = val[s]
  PROVE  Good(s, e)'
BY FloorsStep DEF Good, AtLeast

-----------------------------------------------------------------------------
(* Flights is kept.  *)

\* To join or to open a flight: on arrival, or after a dirty answer, when only
\* a dirty flight is entered.
LEMMA EnterFlights ==
  ASSUME Shape, Flights, NEW r \in Readers, NEW key \in FlightKeys, EnterFlight(r, key),
         pc[r] \in {"idle", "dirty"}, owns[r] # {} => DirtyFlight(key),
         \A s \in Readers \ {r} : ctx'[s] = ctx[s],
         DirtyFlight(key) => ctx'[r] = None
  PROVE  /\ Flights'
         /\ \A t \in Readers \ {r} : pc'[t] = pc[t] /\ owns'[t] = owns[t] /\ waits'[t] = waits[t]
         /\ \/ pc'[r] = Body(key) /\ waits'[r] = None
            \/ /\ pc'[r] = "wait" /\ owns'[r] = owns[r]
               /\ \E s \in Owners(Home[r], key) : waits'[r] = <<s, key>>
<1> USE DEF Shape, TypeOK
<1>1. /\ waits[r] = None
      /\ \A k \in owns[r] : ~DirtyFlight(k)
      /\ Body(key) \in {"rows", "readall", "readval"}
      /\ DirtyFlight(key) => Body(key) = "rows"
  <2>1. waits[r] = None /\ \A k \in owns[r] : ~DirtyFlight(k)
    BY DEF RequestShape, Flights
  <2>2. Body(key) \in {"rows", "readall", "readval"}
    BY KeyFacts
  <2>3. DirtyFlight(key) => Body(key) = "rows"
    BY DEF Body, DirtyFlight, LookupKey
  <2> QED
    BY <2>1, <2>2, <2>3
<1>2. \A t \in Readers \ {r} : pc'[t] = pc[t] /\ owns'[t] = owns[t] /\ waits'[t] = waits[t]
  BY DEF EnterFlight
<1>3. CASE /\ Owners(Home[r], key) = {}
           /\ owns' = [owns EXCEPT ![r] = @ \cup {key}]
           /\ pc' = [pc EXCEPT ![r] = Body(key)]
           /\ UNCHANGED waits
  <2>1. /\ pc'[r] = Body(key) /\ waits'[r] = None /\ owns'[r] = owns[r] \cup {key}
    BY <1>1, <1>3
  <2>2. ASSUME NEW t \in Readers
        PROVE  Flights!(t)'
    <3>1. waits'[t] # None => /\ waits'[t] = waits[t] /\ t # r
                              /\ waits[t][1] \in Readers
                              /\ owns[waits[t][1]] \subseteq owns'[waits[t][1]]
      BY <1>2, <1>3, <2>1
    <3>2. CASE t = r
      BY <1>1, <2>1, <3>1, <3>2
    <3>3. CASE t # r
      BY <1>2, <3>1, <3>3 DEF Flights
    <3> QED
      BY <3>2, <3>3
  <2>3. Flights'
    BY <2>2 DEF Flights
  <2> QED
    BY <1>2, <2>1, <2>3
<1>4. CASE /\ \E s \in Owners(Home[r], key) : waits' = [waits EXCEPT ![r] = <<s, key>>]
           /\ pc' = [pc EXCEPT ![r] = "wait"]
           /\ UNCHANGED owns
  <2>1. PICK s \in Owners(Home[r], key) : waits' = [waits EXCEPT ![r] = <<s, key>>]
    BY <1>4
  <2>2. /\ s \in Readers /\ Home[s] = Home[r] /\ key \in owns[s]
        /\ pc'[r] = "wait" /\ waits'[r] = <<s, key>> /\ owns' = owns
    BY <1>4, <2>1 DEF Owners
  <2>3. ASSUME NEW t \in Readers
        PROVE  Flights!(t)'
    <3>1. CASE t = r
      BY <1>1, <2>2, <3>1
    <3>2. CASE t # r
      BY <1>2, <2>2, <3>2 DEF Flights
    <3> QED
      BY <3>1, <3>2
  <2>4. Flights'
    BY <2>3 DEF Flights
  <2> QED
    BY <1>2, <2>2, <2>4
<1> QED
  BY <1>3, <1>4 DEF EnterFlight

-----------------------------------------------------------------------------
(* The steps of a request.  *)

\* Every step between arrival and answer but the one that enters a flight.
Advance(r) ==
  \/ ReadCombined(r) \/ ReplyHit(r) \/ ReplyMiss(r) \/ ReadValue(r)
  \/ FetchRows(r) \/ FetchUsers(r) \/ WriteBack(r) \/ WriteTimeout(r)

\* Such a step moves one request and no flight, and leads from a dirty flight
\* to its end; a request that was good for an epoch remains so.
LEMMA AdvanceStep ==
  ASSUME Shape, FloorInv, FloorsGrow, NEW r \in Readers, Advance(r)
  PROVE  /\ UNCHANGED <<owns, waits, epoch, floor>>
         /\ \A t \in Readers \ {r} : pc'[t] = pc[t] /\ ctx'[t] = ctx[t] /\ val'[t] = val[t]
         /\ pc[r] \notin {"idle", "wait"} /\ pc'[r] \notin {"idle", "wait"}
         /\ pc[r] \in {"rows", "users", "done"} /\ ctx[r] = None
              => pc'[r] \in {"rows", "users", "done"} /\ ctx'[r] = None
         /\ \A e \in Epochs : e <= epoch /\ Good(r, e) => Good(r, e)'
<1> USE DEF Shape, TypeOK
<1>0. /\ Home[r] \in Procs /\ epoch \in Epochs
      /\ \A e \in Epochs : e \in Nat
      /\ epoch \in Nat /\ floor[epoch] \in Snapshots
  BY ActorsAssumption, Numbers DEF FloorInv, FloorHistory
<1>1. /\ UNCHANGED <<owns, waits, epoch, floor>>
      /\ \A t \in Readers \ {r} : pc'[t] = pc[t] /\ ctx'[t] = ctx[t] /\ val'[t] = val[t]
      /\ pc[r] \notin {"idle", "wait"} /\ pc'[r] \notin {"idle", "wait"}
  BY DEF Advance, ReadCombined, ReplyHit, ReplyMiss, ReadValue, FetchRows, FetchUsers,
         WriteBack, WriteTimeout, redisVars
<1>2. pc[r] \in {"rows", "users", "done"} /\ ctx[r] = None
        => pc'[r] \in {"rows", "users", "done"} /\ ctx'[r] = None
  BY DEF Advance, ReadCombined, ReplyHit, ReplyMiss, ReadValue, FetchRows, FetchUsers,
         WriteBack, WriteTimeout
<1>3. ASSUME NEW e \in Epochs, e <= epoch, Good(r, e)
      PROVE  Good(r, e)'
  <2>0. /\ floor'[e] = floor[e] /\ floor[e] \in Snapshots
        /\ floor[e].rows \in Nat /\ floor[e].users \in Nat
        /\ db.rows >= floor[e].rows /\ db.users >= floor[e].users
    BY <1>1, <1>3, FloorNumbers
  <2>1. CASE ReadCombined(r)
    <3> DEFINE v == IF dirty THEN None ELSE IF l2[epoch] # None THEN l2[epoch] ELSE neg[epoch]
    <3>1. \/ /\ val'[r] = v
             /\ pc'[r] = "dirty" \/ (pc'[r] = "hit" /\ v # None) \/ pc'[r] = "miss"
          \/ pc'[r] = "rows"
      BY <2>1 DEF ReadCombined
    <3>2. v # None => v \in Snapshots /\ AtLeast(v, floor[epoch])
      BY <1>0 DEF FloorInv, FlooredL2, Floored
    <3>3. AtLeast(floor[epoch], floor[e])
      BY <1>0, <1>3 DEF FloorsGrow
    <3>4. v # None => AtLeast(v, floor[e])
      BY <1>0, <2>0, <3>2, <3>3, Numbers
    <3> QED
      BY <2>0, <3>1, <3>4 DEF Good, AtLeast
  <2>2. CASE ReplyHit(r)
    BY <1>3, <2>0, <2>2 DEF ReplyHit, Good, AtLeast
  <2>3. CASE ReplyMiss(r)
    BY <2>3 DEF ReplyMiss, Good
  <2>4. CASE ReadValue(r)
    <3> DEFINE v == IF l2[ctx[r]] # None THEN l2[ctx[r]] ELSE neg[ctx[r]]
    <3>1. \/ val'[r] = v /\ pc'[r] = "done" /\ v # None
          \/ pc'[r] = "rows"
      BY <2>4 DEF ReadValue
    <3>2. ctx[r] \in Epochs /\ e <= ctx[r] /\ ctx[r] <= epoch
      BY <1>3, <2>4 DEF ReadValue, RequestShape, Good, FloorInv, FlooredRequests
    <3>3. v # None => v \in Snapshots /\ AtLeast(v, floor[ctx[r]])
      BY <3>2 DEF FloorInv, FlooredL2, Floored
    <3>4. AtLeast(floor[ctx[r]], floor[e]) /\ floor[ctx[r]] \in Snapshots
      BY <3>2, FloorNumbers DEF FloorsGrow
    <3>5. v # None => AtLeast(v, floor[e])
      BY <2>0, <3>3, <3>4, Numbers
    <3> QED
      BY <2>0, <3>1, <3>5 DEF Good, AtLeast
  <2>5. CASE FetchRows(r)
    <3>1. pc'[r] = "users" /\ val'[r].rows = db.rows
      BY <2>5 DEF FetchRows
    <3> QED
      BY <2>0, <3>1 DEF Good
  <2>6. CASE FetchUsers(r)
    <3>1. /\ pc[r] = "users" /\ pc'[r] \in {"done", "write"}
          /\ val'[r].rows = val[r].rows /\ val'[r].users = db.users
      BY <2>6 DEF FetchUsers
    <3> QED
      BY <1>3, <2>0, <3>1 DEF Good, AtLeast
  <2>7. CASE WriteBack(r)
    BY <1>3, <2>0, <2>7 DEF WriteBack, Good, AtLeast
  <2>8. CASE WriteTimeout(r)
    BY <1>3, <2>0, <2>8 DEF WriteTimeout, Good, AtLeast
  <2> QED
    BY <2>1, <2>2, <2>3, <2>4, <2>5, <2>6, <2>7, <2>8 DEF Advance
<1> QED
  BY <1>1, <1>2, <1>3

\* The requests stay entitled to what they were.
LEMMA AnswerAdvance ==
  ASSUME Shape, FloorInv, AnswerInv, [HNext]_hvars, [Next]_vars, NEW r \in Readers, Advance(r)
  PROVE  AnswerInv'
<1> USE DEF AnswerInv
<1>1. /\ UNCHANGED <<owns, waits, epoch, floor>>
      /\ \A t \in Readers \ {r} : pc'[t] = pc[t] /\ ctx'[t] = ctx[t] /\ val'[t] = val[t]
      /\ pc[r] \notin {"idle", "wait"} /\ pc'[r] \notin {"idle", "wait"}
      /\ pc[r] \in {"rows", "users", "done"} /\ ctx[r] = None
           => pc'[r] \in {"rows", "users", "done"} /\ ctx'[r] = None
  BY AdvanceStep
<1>2. ASSUME NEW t \in Readers, NEW e \in Epochs, e <= epoch, Good(t, e)
      PROVE  Good(t, e)'
  BY <1>1, <1>2, AdvanceStep, GoodRests
<1>3. Flights'
  BY <1>1 DEF Flights, Shape, TypeOK
<1>4. FloorsGrow'
  BY FloorsStep
<1>5. ASSUME NEW s \in Readers, pc'[s] # "idle"
      PROVE  Entitled(s)'
  <2>1. pc[s] # "idle" /\ entitled'[s] = entitled[s]
    BY <1>1, <1>5 DEF HNext, hvars
  <2>2. waits[s] # None => waits[s][1] \in Readers
    BY DEF Shape, TypeOK
  <2> QED
    BY <1>1, <1>2, <2>1, <2>2 DEF Entitled
<1> QED
  BY <1>3, <1>4, <1>5

\* Redis is being written to: the request goes to the database, alone or in
\* the flight of another, who will be as good to it as it needs.
LEMMA AnswerReplyDirty ==
  ASSUME Shape, FloorInv, AnswerInv, [HNext]_hvars, [Next]_vars, NEW r \in Readers, ReplyDirty(r)
  PROVE  AnswerInv'
<1> USE DEF AnswerInv
<1> DEFINE key == DirtyKey(ctx[r])
<1>0. /\ pc[r] = "dirty" /\ EnterFlight(r, key) /\ ctx' = [ctx EXCEPT ![r] = None]
      /\ UNCHANGED <<epoch, floor, val>> /\ ctx[r] \in Epochs
  BY DEF ReplyDirty, Shape, TypeOK, RequestShape, redisVars
<1>1. key \in FlightKeys /\ DirtyFlight(key) /\ Body(key) = "rows"
  BY <1>0, KeyFacts DEF DirtyFlight, DirtyKey
<1> HIDE DEF key
<1>2. /\ Flights'
      /\ \A t \in Readers \ {r} : pc'[t] = pc[t] /\ owns'[t] = owns[t] /\ waits'[t] = waits[t]
      /\ \/ pc'[r] = "rows" /\ waits'[r] = None
         \/ /\ pc'[r] = "wait" /\ owns'[r] = owns[r]
            /\ \E s \in Owners(Home[r], key) : waits'[r] = <<s, key>>
  BY <1>0, <1>1, EnterFlights DEF Shape, TypeOK
<1>3. ASSUME NEW t \in Readers, NEW e \in Epochs, e <= epoch, Good(t, e)
      PROVE  Good(t, e)'
  <2>1. CASE t = r
    BY <1>0, <1>2, <2>1 DEF Good, Shape, TypeOK
  <2>2. CASE t # r
    BY <1>0, <1>2, <1>3, <2>2, GoodRests DEF Shape, TypeOK
  <2> QED
    BY <2>1, <2>2
<1>4. FloorsGrow'
  BY FloorsStep
<1>5. ASSUME NEW q \in Readers, pc'[q] # "idle"
      PROVE  Entitled(q)'
  <2>1. pc[q] # "idle" /\ entitled'[q] = entitled[q] /\ Entitled(q)
    BY <1>0, <1>2, <1>5 DEF HNext, hvars
  <2>2. PICK e \in Epochs : e = entitled[q] /\ e <= epoch
    BY <2>1 DEF Entitled
  <2>3. ASSUME NEW t \in Readers, Home[t] = Home[q], NEW k \in owns'[t], DirtyFlight(k)
        PROVE  Good(t, e)'
    <3>1. CASE k \in owns[t]
      BY <1>3, <2>1, <2>2, <2>3, <3>1 DEF Entitled
    <3>2. CASE k \notin owns[t]
      <4>1. t = r /\ pc'[t] = "rows"
        BY <1>2, <3>2, <2>3
      <4> QED
        BY <4>1 DEF Good
    <3> QED
      BY <3>1, <3>2
  <2>4. ASSUME NEW s \in Readers, waits'[q] # None, s = waits'[q][1]
        PROVE  Good(s, e)'
    <3>1. CASE q = r
      <4>1. Home[s] = Home[q] /\ key \in owns[s]
        BY <1>2, <2>4, <3>1 DEF Owners
      <4> QED
        BY <1>1, <1>3, <2>1, <2>2, <4>1 DEF Entitled
    <3>2. CASE q # r
      BY <1>2, <1>3, <2>1, <2>2, <2>4, <3>2 DEF Entitled
    <3> QED
      BY <3>1, <3>2
  <2>5. waits'[q] # None => waits'[q][1] \in Readers
    BY <1>2 DEF Shape, TypeOK, Owners
  <2>6. Good(q, e)'
    BY <1>3, <2>1, <2>2 DEF Entitled
  <2> QED
    BY <1>0, <2>1, <2>2, <2>3, <2>4, <2>5, <2>6 DEF Entitled
<1> QED
  BY <1>2, <1>4, <1>5

\* What an arrival leads to: a flight, or an answer from L1.  The epoch it goes
\* on with is that of its process' control.
LEMMA StartFacts ==
  ASSUME Shape, FloorInv, AnswerInv, NEW r \in Readers, Start(r),
         NEW d \in Epochs, d = Entitlement(r)
  PROVE  /\ pc[r] = "idle" /\ pc'[r] # "idle" /\ UNCHANGED <<epoch, floor>>
         /\ \A t \in Readers \ {r} : /\ pc'[t] = pc[t] /\ ctx'[t] = ctx[t] /\ val'[t] = val[t]
                                     /\ owns'[t] = owns[t] /\ waits'[t] = waits[t]
         /\ Flights'
         /\ Good(r, d)'
         /\ \A k \in owns'[r] : DirtyFlight(k) => pc'[r] = "rows"
         /\ waits'[r] # None => \E s \in Readers : /\ waits'[r][1] = s /\ s # r
                                                   /\ Home[s] = Home[r] /\ pc[s] # "idle"
<1> USE DEF Shape, TypeOK, AnswerInv
<1> DEFINE c == control[Home[r]]
<1>0. /\ pc[r] = "idle" /\ waits[r] = None /\ owns[r] = {} /\ Home[r] \in Procs
      /\ UNCHANGED <<epoch, floor>>
      /\ epoch \in Epochs /\ \A e \in Epochs : e \in Nat
  BY ActorsAssumption, Numbers
  DEF Start, StartUnknown, StartDirty, StartClean, RequestShape, Flights, redisVars
<1>1. /\ d \in Nat /\ d <= epoch
      /\ c # None => d <= c.epoch
      /\ c # None => c.epoch \in Epochs /\ c.epoch <= epoch
  BY <1>0, EntitlementBounds DEF FloorInv, KnownControls, Controls
<1>2. ASSUME NEW key \in FlightKeys, EnterFlight(r, key),
             UNCHANGED val, \A s \in Readers \ {r} : ctx'[s] = ctx[s],
             DirtyFlight(key) => ctx'[r] = None,
             ctx'[r] # None => d <= ctx'[r],
             Body(key) = "readval" => ctx'[r] # None
      PROVE  /\ Flights' /\ Good(r, d)' /\ pc'[r] # "idle"
             /\ \A t \in Readers \ {r} : /\ pc'[t] = pc[t] /\ ctx'[t] = ctx[t] /\ val'[t] = val[t]
                                         /\ owns'[t] = owns[t] /\ waits'[t] = waits[t]
             /\ \A k \in owns'[r] : DirtyFlight(k) => pc'[r] = "rows"
             /\ waits'[r] # None => \E s \in Readers : /\ waits'[r][1] = s /\ s # r
                                                       /\ Home[s] = Home[r] /\ pc[s] # "idle"
  <2>1. /\ Flights'
        /\ \A t \in Readers \ {r} : pc'[t] = pc[t] /\ owns'[t] = owns[t] /\ waits'[t] = waits[t]
        /\ \/ pc'[r] = Body(key) /\ waits'[r] = None
           \/ /\ pc'[r] = "wait" /\ owns'[r] = owns[r]
              /\ \E s \in Owners(Home[r], key) : waits'[r] = <<s, key>>
    BY <1>0, <1>2, EnterFlights
  <2>2. owns'[r] \subseteq {key}
    BY <1>0, <1>2 DEF EnterFlight
  <2>3. /\ Body(key) \in {"rows", "readall", "readval"}
        /\ DirtyFlight(key) => Body(key) = "rows"
    <3>1. Body(key) \in {"rows", "readall", "readval"}
      BY KeyFacts
    <3>2. DirtyFlight(key) => Body(key) = "rows"
      BY DEF Body, DirtyFlight, LookupKey
    <3> QED
      BY <3>1, <3>2
  <2>4. ASSUME NEW s \in Owners(Home[r], key)
        PROVE  s \in Readers /\ s # r /\ Home[s] = Home[r] /\ pc[s] # "idle"
    BY <1>0, <2>4 DEF Owners, Flights
  <2>5. Good(r, d)' /\ pc'[r] # "idle"
    BY <1>2, <2>1, <2>3 DEF Good
  <2> QED
    BY <1>0, <1>2, <2>1, <2>2, <2>3, <2>4, <2>5
<1>3. CASE StartUnknown(r)
  <2>1. LookupKey(None) \in FlightKeys /\ ~DirtyFlight(LookupKey(None))
        /\ Body(LookupKey(None)) = "readall"
    BY KeyFacts DEF LookupKey, DirtyFlight
  <2>2. /\ EnterFlight(r, LookupKey(None)) /\ UNCHANGED val
        /\ ctx'[r] = None /\ \A s \in Readers \ {r} : ctx'[s] = ctx[s]
    BY <1>3 DEF StartUnknown
  <2> QED
    BY <1>0, <1>2, <2>1, <2>2
<1>4. CASE StartDirty(r)
  <2>1. DirtyKey(c.epoch) \in FlightKeys /\ Body(DirtyKey(c.epoch)) = "rows"
    BY <1>1, <1>4, KeyFacts DEF StartDirty
  <2>2. /\ EnterFlight(r, DirtyKey(c.epoch)) /\ UNCHANGED val
        /\ ctx'[r] = None /\ \A s \in Readers \ {r} : ctx'[s] = ctx[s]
    BY <1>4 DEF StartDirty
  <2> QED
    BY <1>0, <1>2, <2>1, <2>2
<1>5. CASE StartClean(r)
  <2> DEFINE v == l1[Home[r]][c.epoch]
  <2>1. c # None /\ c.epoch \in Epochs /\ d <= c.epoch /\ c.epoch <= epoch
    BY <1>1, <1>5 DEF StartClean
  <2>2. ctx'[r] = c.epoch /\ \A s \in Readers \ {r} : ctx'[s] = ctx[s]
    BY <1>5 DEF StartClean
  <2>3. CASE v # None /\ val' = [val EXCEPT ![r] = v]
             /\ pc' = [pc EXCEPT ![r] = "done"] /\ UNCHANGED <<owns, waits>>
    <3>1. v \in Snapshots /\ AtLeast(v, floor[c.epoch])
      BY <1>0, <2>1, <2>3 DEF FloorInv, FlooredL1, Floored
    <3>2. AtLeast(floor[c.epoch], floor[d]) /\ floor[c.epoch] \in Snapshots /\ floor[d] \in Snapshots
      BY <1>1, <2>1, FloorNumbers DEF FloorsGrow
    <3>3. AtLeast(v, floor[d])
      BY <3>1, <3>2, Numbers
    <3>4. Good(r, d)' /\ pc'[r] # "idle"
      BY <1>0, <2>3, <3>3 DEF Good, AtLeast
    <3>5. Flights'
      BY <1>0, <2>2, <2>3 DEF Flights
    <3> QED
      BY <1>0, <2>2, <2>3, <3>4, <3>5
  <2>4. CASE v = None /\ EnterFlight(r, LookupKey(c.epoch)) /\ UNCHANGED val
    <3>1. LookupKey(c.epoch) \in FlightKeys /\ ~DirtyFlight(LookupKey(c.epoch))
      BY <2>1, KeyFacts DEF LookupKey, DirtyFlight
    <3> QED
      BY <1>0, <1>2, <2>1, <2>2, <2>4, <3>1, NoneAssumption
  <2> QED
    BY <1>5, <2>3, <2>4 DEF StartClean
<1> QED
  BY <1>3, <1>4, <1>5 DEF Start

\* A request that arrives is entitled to no more than those it may share with,
\* and they are good for what they are entitled to.
LEMMA AnswerStart ==
  ASSUME Shape, FloorInv, AnswerInv, [HNext]_hvars, [Next]_vars, NEW r \in Readers, Start(r)
  PROVE  AnswerInv'
<1> USE DEF AnswerInv
<1>1. PICK d \in Epochs : /\ d = Entitlement(r) /\ d <= epoch
                          /\ \A s \in Active(Home[r]) : d <= entitled[s]
  BY EntitlementBounds
<1>2. /\ pc[r] = "idle" /\ pc'[r] # "idle" /\ UNCHANGED <<epoch, floor>>
      /\ \A t \in Readers \ {r} : /\ pc'[t] = pc[t] /\ ctx'[t] = ctx[t] /\ val'[t] = val[t]
                                  /\ owns'[t] = owns[t] /\ waits'[t] = waits[t]
      /\ Flights'
      /\ Good(r, d)'
      /\ \A k \in owns'[r] : DirtyFlight(k) => pc'[r] = "rows"
      /\ waits'[r] # None => \E s \in Readers : /\ waits'[r][1] = s /\ s # r
                                                /\ Home[s] = Home[r] /\ pc[s] # "idle"
  BY <1>1, StartFacts
<1>3. ASSUME NEW t \in Readers, t # r, NEW e \in Epochs, e <= epoch, Good(t, e)
      PROVE  Good(t, e)'
  BY <1>2, <1>3, GoodRests
<1>4. FloorsGrow'
  BY FloorsStep
<1>5. HNext
  BY <1>2 DEF hvars, vars, reqVars
<1>6. ASSUME NEW e \in Epochs, NEW k \in owns'[r], DirtyFlight(k)
      PROVE  Good(r, e)'
  BY <1>2, <1>6 DEF Good
<1>7. ASSUME NEW q \in Readers, q # r, pc'[q] # "idle"
      PROVE  Entitled(q)'
  <2>1. pc[q] # "idle" /\ entitled'[q] = entitled[q] /\ Entitled(q)
    BY <1>2, <1>5, <1>7 DEF HNext
  <2>2. PICK e \in Epochs : e = entitled[q] /\ e <= epoch
    BY <2>1 DEF Entitled
  <2>3. Good(q, e)'
    BY <1>3, <1>7, <2>1, <2>2 DEF Entitled
  <2>4. ASSUME NEW t \in Readers, Home[t] = Home[q], NEW k \in owns'[t], DirtyFlight(k)
        PROVE  Good(t, e)'
    <3>1. CASE t = r
      BY <1>6, <2>4, <3>1
    <3>2. CASE t # r
      BY <1>2, <1>3, <2>1, <2>2, <2>4, <3>2 DEF Entitled
    <3> QED
      BY <3>1, <3>2
  <2>5. ASSUME NEW s \in Readers, waits'[q] # None, s = waits'[q][1]
        PROVE  Good(s, e)'
    <3>1. waits'[q] = waits[q] /\ owns[s] # {}
      BY <1>2, <1>7, <2>5 DEF Flights
    <3>2. s # r
      BY <1>2, <3>1 DEF Flights
    <3> QED
      BY <1>3, <2>1, <2>2, <2>5, <3>1, <3>2 DEF Entitled
  <2>6. waits'[q] # None => waits'[q][1] \in Readers
    BY <1>2, <1>7 DEF Shape, TypeOK
  <2> QED
    BY <1>2, <2>1, <2>2, <2>3, <2>4, <2>5, <2>6 DEF Entitled
<1>8. Entitled(r)'
  <2>1. entitled'[r] = d
    BY <1>1, <1>2, <1>5 DEF HNext
  <2>2. ASSUME NEW s \in Readers, s # r, Home[s] = Home[r], pc[s] # "idle"
        PROVE  Good(s, d)'
    <3>1. /\ entitled[s] \in Epochs /\ entitled[s] <= epoch /\ Good(s, entitled[s])
          /\ d <= entitled[s]
      BY <1>1, <2>2 DEF Entitled, Active
    <3>2. Good(s, d)
      BY <3>1, GoodDown
    <3> QED
      BY <1>1, <1>3, <2>2, <3>2
  <2>3. ASSUME NEW t \in Readers, Home[t] = Home[r], NEW k \in owns'[t], DirtyFlight(k)
        PROVE  Good(t, d)'
    <3>1. CASE t = r
      BY <1>6, <2>3, <3>1
    <3>2. CASE t # r
      BY <1>2, <2>2, <2>3, <3>2 DEF Flights
    <3> QED
      BY <3>1, <3>2
  <2> QED
    BY <1>1, <1>2, <2>1, <2>2, <2>3 DEF Entitled
<1> QED
  BY <1>2, <1>4, <1>7, <1>8

\* An answer reaches those who waited for it.  A follower that others wait for
\* was in a dirty flight, and that one is good for everybody.
LEMMA AnswerFinish ==
  ASSUME Shape, FloorInv, AnswerInv, [HNext]_hvars, [Next]_vars, NEW r \in Readers, Finish(r)
  PROVE  AnswerInv'
<1> USE DEF AnswerInv
<1>1. /\ pc[r] = "done" /\ pc'[r] = "idle" /\ owns'[r] = {} /\ waits'[r] = waits[r]
      /\ waits[r] = None
      /\ UNCHANGED <<epoch, floor>>
      /\ \A t \in Readers \ {r} : owns'[t] = owns[t] /\ ctx'[t] = ctx[t]
      /\ \A t \in Readers \ {r} : t \in Followers(r) =>
           /\ pc'[t] = "done" /\ val'[t] = val[r] /\ waits'[t] = None
      /\ \A t \in Readers \ {r} : t \notin Followers(r) =>
           /\ pc'[t] = pc[t] /\ val'[t] = val[t] /\ waits'[t] = waits[t]
  BY DEF Finish, Shape, TypeOK, RequestShape, redisVars, Followers
<1>2. ASSUME NEW t \in Readers, t # r, t \notin Followers(r),
             NEW e \in Epochs, e <= epoch, Good(t, e)
      PROVE  Good(t, e)'
  BY <1>1, <1>2, GoodRests
<1>3. ASSUME NEW t \in Readers, t # r, t \in Followers(r),
             NEW e \in Epochs, e <= epoch, Good(r, e)
      PROVE  Good(t, e)'
  <2>1. AtLeast(val[r], floor[e]) /\ floor'[e] = floor[e]
    BY <1>1, <1>3 DEF Good
  <2> QED
    BY <1>1, <1>3, <2>1 DEF Good, AtLeast
<1>4. Flights'
  <2> SUFFICES ASSUME NEW t \in Readers
               PROVE  Flights!(t)'
    BY DEF Flights
  <2>1. CASE t = r
    BY <1>1, <2>1
  <2>2. CASE t # r /\ t \in Followers(r)
    <3>1. /\ waits[t] # None /\ pc[t] = "wait"
      BY <2>2 DEF Followers, Shape, RequestShape
    <3>2. \A k \in owns[t] : ~DirtyFlight(k)
      BY <3>1 DEF Flights
    <3> QED
      BY <1>1, <2>2, <3>2
  <2>3. CASE t # r /\ t \notin Followers(r)
    <3>1. waits[t] # None => waits[t][1] \in Readers /\ waits[t][1] # r
      BY <2>3 DEF Followers, Shape, TypeOK
    <3> QED
      BY <1>1, <2>3, <3>1 DEF Flights
  <2> QED
    BY <2>1, <2>2, <2>3
<1>5. FloorsGrow'
  BY FloorsStep
<1>6. ASSUME NEW q \in Readers, pc'[q] # "idle"
      PROVE  Entitled(q)'
  <2>1. q # r /\ pc[q] # "idle"
    BY <1>1, <1>6 DEF Followers, Shape, RequestShape
  <2>2. entitled'[q] = entitled[q] /\ Entitled(q)
    BY <1>6, <2>1 DEF HNext, hvars
  <2>3. PICK e \in Epochs : e = entitled[q] /\ e <= epoch
    BY <2>2 DEF Entitled
  <2>4. Good(q, e)'
    BY <1>2, <1>3, <2>1, <2>2, <2>3 DEF Entitled, Followers
  <2>5. ASSUME NEW t \in Readers, Home[t] = Home[q], NEW k \in owns'[t], DirtyFlight(k)
        PROVE  Good(t, e)'
    <3>1. t # r /\ k \in owns[t] /\ waits[t] = None
      BY <1>1, <2>5 DEF Flights, Shape, RequestShape
    <3> QED
      BY <1>2, <2>2, <2>3, <2>5, <3>1 DEF Entitled, Followers
  <2>6. ASSUME NEW s \in Readers, waits'[q] # None, s = waits'[q][1]
        PROVE  Good(s, e)'
    <3>1. waits'[q] = waits[q] /\ s # r
      BY <1>1, <2>1, <2>6 DEF Followers
    <3>2. owns[s] # {} /\ Home[s] = Home[q] /\ Good(s, e)
      BY <2>2, <2>3, <2>6, <3>1 DEF Flights, Entitled
    <3>3. CASE s \notin Followers(r)
      BY <1>2, <2>3, <3>1, <3>2, <3>3
    <3>4. CASE s \in Followers(r)
      <4>1. waits[s] # None /\ waits[s][1] = r
        BY <3>4 DEF Followers
      <4>2. /\ Home[r] = Home[s] /\ waits[s][2] \in owns[r] /\ DirtyFlight(waits[s][2])
        BY <3>2, <4>1 DEF Flights
      <4>3. Good(r, e)
        BY <2>2, <2>3, <3>2, <4>2 DEF Entitled
      <4> QED
        BY <1>3, <2>3, <3>1, <3>4, <4>3
    <3> QED
      BY <3>3, <3>4
  <2>7. waits'[q] # None => waits'[q][1] \in Readers
    BY <1>1, <2>1 DEF Shape, TypeOK
  <2> QED
    BY <1>1, <2>2, <2>3, <2>4, <2>5, <2>6, <2>7 DEF Entitled
<1> QED
  BY <1>4, <1>5, <1>6

\* When the owner fails, everyone who waited runs the future, from its start.
LEMMA AnswerFail ==
  ASSUME Shape, FloorInv, AnswerInv, [HNext]_hvars, [Next]_vars, NEW r \in Readers, Fail(r)
  PROVE  AnswerInv'
<1> USE DEF AnswerInv
<1>1. /\ pc[r] # "idle" /\ pc'[r] = "idle" /\ owns'[r] = {} /\ waits'[r] = None
      /\ UNCHANGED <<epoch, floor>>
      /\ \A t \in Readers \ {r} : owns'[t] = owns[t] /\ ctx'[t] = ctx[t] /\ val'[t] = val[t]
      /\ \A t \in Readers \ {r} : t \in Followers(r) =>
           pc'[t] = Body(waits[t][2]) /\ waits'[t] = None
      /\ \A t \in Readers \ {r} : t \notin Followers(r) =>
           pc'[t] = pc[t] /\ waits'[t] = waits[t]
  BY DEF Fail, Shape, TypeOK, Reading, redisVars, Followers
<1>2. \A key : /\ Body(key) \in {"rows", "readall", "readval"}
               /\ DirtyFlight(key) => Body(key) = "rows"
  <2>1. \A key : Body(key) \in {"rows", "readall", "readval"}
    BY KeyFacts
  <2>2. \A key : DirtyFlight(key) => Body(key) = "rows"
    BY DEF Body, DirtyFlight, LookupKey
  <2> QED
    BY <2>1, <2>2
<1>3. ASSUME NEW t \in Readers, t # r, NEW e \in Epochs, e <= epoch, Good(t, e)
      PROVE  Good(t, e)'
  <2>1. CASE t \notin Followers(r)
    BY <1>1, <1>3, <2>1, GoodRests
  <2>2. CASE t \in Followers(r)
    <3>1. /\ waits[t] # None /\ pc[t] = "wait" /\ pc'[t] \in {"rows", "readall", "readval"}
          /\ pc'[t] = Body(waits[t][2])
      BY <1>1, <1>2, <1>3, <2>2 DEF Followers, Shape, RequestShape
    <3>2. pc'[t] = "readval" => ctx[t] # None
      BY <3>1 DEF Shape, RequestShape
    <3> QED
      BY <1>1, <1>3, <3>1, <3>2 DEF Good
  <2> QED
    BY <2>1, <2>2
<1>4. Flights'
  <2> SUFFICES ASSUME NEW t \in Readers
               PROVE  Flights!(t)'
    BY DEF Flights
  <2>1. CASE t = r
    BY <1>1, <2>1
  <2>2. CASE t # r /\ t \in Followers(r)
    <3>1. waits[t] # None /\ pc[t] = "wait"
      BY <2>2 DEF Followers, Shape, RequestShape
    <3>2. \A k \in owns[t] : ~DirtyFlight(k)
      BY <3>1 DEF Flights
    <3>3. pc'[t] # "idle"
      BY <1>1, <1>2, <2>2
    <3> QED
      BY <1>1, <2>2, <3>2, <3>3
  <2>3. CASE t # r /\ t \notin Followers(r)
    <3>1. waits[t] # None => waits[t][1] \in Readers /\ waits[t][1] # r
      BY <2>3 DEF Followers, Shape, TypeOK
    <3> QED
      BY <1>1, <2>3, <3>1 DEF Flights
  <2> QED
    BY <2>1, <2>2, <2>3
<1>5. FloorsGrow'
  BY FloorsStep
<1>6. ASSUME NEW q \in Readers, pc'[q] # "idle"
      PROVE  Entitled(q)'
  <2>1. q # r /\ pc[q] # "idle"
    BY <1>1, <1>6 DEF Followers, Shape, RequestShape
  <2>2. entitled'[q] = entitled[q] /\ Entitled(q)
    BY <1>6, <2>1 DEF HNext, hvars
  <2>3. PICK e \in Epochs : e = entitled[q] /\ e <= epoch
    BY <2>2 DEF Entitled
  <2>4. Good(q, e)'
    BY <1>3, <2>1, <2>2, <2>3 DEF Entitled
  <2>5. ASSUME NEW t \in Readers, Home[t] = Home[q], NEW k \in owns'[t], DirtyFlight(k)
        PROVE  Good(t, e)'
    BY <1>1, <1>3, <2>2, <2>3, <2>5 DEF Entitled
  <2>6. ASSUME NEW s \in Readers, waits'[q] # None, s = waits'[q][1]
        PROVE  Good(s, e)'
    <3>1. waits'[q] = waits[q] /\ s # r
      BY <1>1, <2>1, <2>6 DEF Followers
    <3> QED
      BY <1>3, <2>2, <2>3, <2>6, <3>1 DEF Entitled
  <2>7. waits'[q] # None => waits'[q][1] \in Readers
    BY <1>1, <2>1 DEF Shape, TypeOK
  <2> QED
    BY <1>1, <2>2, <2>3, <2>4, <2>5, <2>6, <2>7 DEF Entitled
<1> QED
  BY <1>4, <1>5, <1>6

\* The tracker, expiries and late writes move no request.
LEMMA AnswerQuiet ==
  ASSUME Shape, FloorInv, AnswerInv, [HNext]_hvars, [Next]_vars, UNCHANGED reqVars
  PROVE  AnswerInv'
<1> USE DEF AnswerInv, reqVars
<1>1. ASSUME NEW t \in Readers, NEW e \in Epochs, e <= epoch, Good(t, e)
      PROVE  Good(t, e)'
  BY <1>1, GoodRests
<1>2. epoch <= epoch' /\ FloorsGrow'
  BY FloorsStep
<1>3. ASSUME NEW q \in Readers, pc'[q] # "idle"
      PROVE  Entitled(q)'
  <2>1. pc[q] # "idle" /\ entitled'[q] = entitled[q] /\ Entitled(q)
    BY <1>3 DEF HNext, hvars
  <2>2. PICK e \in Epochs : e = entitled[q] /\ e <= epoch
    BY <2>1 DEF Entitled
  <2>3. waits[q] # None => waits[q][1] \in Readers
    BY DEF Shape, TypeOK
  <2>4. e <= epoch'
    <3>1. Shape'
      BY ShapeStep
    <3>2. epoch \in Nat /\ epoch' \in Nat /\ e \in Nat
      BY <3>1, Numbers DEF Shape, TypeOK, Epochs
    <3> QED
      BY <1>2, <2>2, <3>2
  <2> QED
    BY <1>1, <2>1, <2>2, <2>3, <2>4 DEF Entitled
<1> QED
  BY <1>2, <1>3 DEF Flights

-----------------------------------------------------------------------------
LEMMA AnswerInit == HInit => AnswerInv
<1> SUFFICES ASSUME HInit
             PROVE  AnswerInv
  OBVIOUS
<1>1. epoch = 0 /\ floor[0] = [rows |-> 0, users |-> 0] /\ \A e \in Epochs : e \in Nat
  BY BoundsAssumption DEF HInit, Init, Epochs
<1>2. \A r \in Readers : pc[r] = "idle" /\ owns[r] = {} /\ waits[r] = None
  BY DEF HInit, Init
<1>3. FloorsGrow
  <2> SUFFICES ASSUME NEW e \in Epochs, NEW f \in Epochs, e <= f, f <= epoch
               PROVE  AtLeast(floor[f], floor[e])
    BY DEF FloorsGrow
  <2>1. e = 0 /\ f = 0
    BY <1>1
  <2> QED
    BY <1>1, <2>1 DEF AtLeast
<1> QED
  BY <1>2, <1>3 DEF AnswerInv, Flights

LEMMA AnswerStep == Shape /\ FloorInv /\ AnswerInv /\ [HNext]_hvars => AnswerInv'
<1> SUFFICES ASSUME Shape, FloorInv, AnswerInv, [HNext]_hvars
             PROVE  AnswerInv'
  OBVIOUS
<1>0. [Next]_vars
  BY DEF HNext, hvars
<1>1. CASE \E r \in Readers : Start(r) \/ Proceed(r) \/ Fail(r)
  BY <1>0, <1>1, AnswerStart, AnswerAdvance, AnswerReplyDirty, AnswerFinish, AnswerFail
  DEF Proceed, Advance
<1>2. CASE ~ \E r \in Readers : Start(r) \/ Proceed(r) \/ Fail(r)
  <2>1. UNCHANGED reqVars
    BY <1>0, <1>2 DEF Next, vars, Tracker, BeginUpdate, CommitUsers, CommitRows, FinishIncr,
       FinishDel, AbortUpdate, LoseUpdate, DirtyExpires, ExpireL2, ExpireControl, ExpireL1,
       LateWrite
  <2> QED
    BY <1>0, <2>1, AnswerQuiet
<1> QED
  BY <1>1, <1>2

\* Whatever the tracker loses, however late writes arrive and whoever fails in
\* a flight: an answer contains everything published up to the epoch that the
\* request was entitled to when it arrived.
THEOREM AnswersAreFresh == HSpec => []AnswerFresh
<1>1. HSpec => Spec
  <2>1. HInit => Init
    BY DEF HInit
  <2>2. [HNext]_hvars => [Next]_vars
    BY DEF HNext, hvars
  <2> QED
    BY <2>1, <2>2, PTL DEF HSpec, Spec
<1>2. AnswerInv => AnswerFresh
  BY DEF AnswerInv, Entitled, Good, AnswerFresh
<1> QED
  BY <1>1, <1>2, AnswerInit, AnswerStep, ShapeInvariant, FloorInvariant, PTL DEF HSpec
=============================================================================
