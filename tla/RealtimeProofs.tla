--------------------------- MODULE RealtimeProofs ---------------------------
(***************************************************************************)
(* Proofs about Realtime, for every number of connections, topics and      *)
(* tickets and every capacity of the channel: tickets admit once, the      *)
(* hub's counts are exact, updates are lost only by lagging, and every     *)
(* variable keeps its type.                                                *)
(***************************************************************************)
EXTENDS Realtime, TLAPS, FiniteSetTheorems, SequenceTheorems

-----------------------------------------------------------------------------
(* Tickets.  *)

\* A stored ticket has not been used, and one not issued is nowhere.
TicketInv ==
  /\ now \in Nat \ {0}
  /\ tickets \in [Tickets -> Nat] /\ expiry \in [Tickets -> Nat]
  /\ uses \in [Tickets -> Nat]
  /\ \A k \in Tickets : /\ tickets[k] \in {0, expiry[k]}
                        /\ tickets[k] # 0 => uses[k] = 0
                        /\ expiry[k] = 0 => uses[k] = 0

LEMMA TicketsInit == Init => TicketInv
BY DEF Init, TicketInv

LEMMA TicketStep ==
  ASSUME TicketInv, [Next]_vars
  PROVE  /\ TicketInv'
         /\ \A k \in Tickets : uses'[k] # uses[k] =>
              uses[k] = 0 /\ uses'[k] = 1 /\ now < expiry[k]
<1> USE DEF TicketInv
<1>1. CASE UNCHANGED ticketVars
  BY <1>1 DEF ticketVars
<1>2. CASE Tick
  BY <1>2 DEF Tick
<1>3. ASSUME NEW k \in Tickets, Issue(k)
      PROVE  TicketInv' /\ uses' = uses
  <2>1. /\ expiry[k] = 0 /\ now' = now /\ uses' = uses
        /\ tickets' = [Pruned EXCEPT ![k] = now + Ttl]
        /\ expiry' = [expiry EXCEPT ![k] = now + Ttl]
    BY <1>3 DEF Issue
  <2>2. \A j \in Tickets : Pruned[j] \in {0, tickets[j]} /\ Pruned \in [Tickets -> Nat]
    BY DEF Pruned
  <2> QED BY <2>1, <2>2, TtlAssumption
<1>4. ASSUME NEW c \in Conns, NEW k \in Tickets, Connect(c, k)
      PROVE  /\ TicketInv'
             /\ \A j \in Tickets : uses'[j] # uses[j] =>
                  uses[j] = 0 /\ uses'[j] = 1 /\ now < expiry[j]
  <2>1. /\ now' = now /\ expiry' = expiry /\ tickets' = [Pruned EXCEPT ![k] = 0]
        /\ \/ uses' = uses
           \/ Live(tickets[k]) /\ uses' = [uses EXCEPT ![k] = @ + 1]
    BY <1>4 DEF Connect, Consumed
  <2>2. \A j \in Tickets : Pruned[j] \in {0, tickets[j]} /\ Pruned \in [Tickets -> Nat]
    BY DEF Pruned
  <2> QED BY <2>1, <2>2 DEF Live
<1>5. CASE Next
  <2>1. ASSUME \/ \E t \in Topics : NotifyUpdate(t)
               \/ \E c \in Conns, t \in Topics : Subscribe(c, t) \/ Unsubscribe(c, t)
               \/ \E c \in Conns : Work(c) \/ UpgradeFails(c) \/ Proxy(c) \/ Close(c)
        PROVE  UNCHANGED ticketVars
    BY <2>1 DEF NotifyUpdate, Subscribe, Unsubscribe, Work, UpgradeFails, Proxy,
       Close, Open, Ready, Add, Drop, Tell, Reply, Proxied, Deliver, Leave, Gone
  <2> QED BY <1>1, <1>2, <1>3, <1>4, <1>5, <2>1 DEF Next
<1> QED BY <1>1, <1>5 DEF vars, ticketVars

\* A ticket admits one connection at most, and none once it has expired, for
\* any number of clients that present it (ws_ticket.rs, consume).
THEOREM TicketsAdmitOnce == Spec => AdmittedOnce
<1>1. TicketInv /\ [Next]_vars => TicketInv'
  BY TicketStep
<1>2. TicketInv /\ [Next]_vars =>
        [\A k \in Tickets :
           uses'[k] # uses[k] => uses[k] = 0 /\ uses'[k] = 1 /\ now < expiry[k]]_vars
  BY TicketStep
<1> QED BY <1>1, <1>2, TicketsInit, PTL DEF Spec, AdmittedOnce

-----------------------------------------------------------------------------
(* Counts.  *)

CountTypes ==
  /\ pc \in [Conns -> Steps]
  /\ arg \in [Conns -> Topics \cup {None}]
  /\ topics \in [Conns -> SUBSET Topics]
  /\ online \in [Topics -> Nat] /\ total \in Nat

\* The topic in a task's hands is in its set until it is counted, and out of
\* it before it is taken off the count.
ArgOK(c) ==
  /\ pc[c] \in {"add", "drop", "tell", "leaving", "parting"} => arg[c] \in Topics
  /\ pc[c] = "add" => arg[c] \in topics[c]
  /\ pc[c] \in {"drop", "leaving"} => arg[c] \notin topics[c]

CountInv == CountTypes /\ OnlineExact /\ \A c \in Conns : ArgOK(c)

One(p) == IF p THEN 1 ELSE 0

\* Sets of connections that differ in one at most.
LEMMA Recount ==
  ASSUME NEW S \in SUBSET Conns, NEW T \in SUBSET Conns, NEW c \in Conns,
         \A d \in Conns \ {c} : d \in S <=> d \in T
  PROVE  /\ Cardinality(S) \in Nat /\ Cardinality(T) \in Nat
         /\ Cardinality(T) = Cardinality(S) + One(c \in T) - One(c \in S)
<1>1. IsFiniteSet(S) /\ IsFiniteSet(T)
  BY ConnsAssumption, FS_Subset
<1>2. S \ {c} = T \ {c}
  OBVIOUS
<1>3. /\ Cardinality(S) \in Nat /\ Cardinality(T) \in Nat
      /\ Cardinality(S \ {c}) = Cardinality(S) - One(c \in S)
      /\ Cardinality(T \ {c}) = Cardinality(T) - One(c \in T)
  BY <1>1, FS_CardinalityType, FS_RemoveElement DEF One
<1>4. Cardinality(S \ {c}) = Cardinality(T \ {c})
  BY <1>2
<1>5. One(c \in S) \in Nat /\ One(c \in T) \in Nat
  BY DEF One
<1> QED BY <1>3, <1>4, <1>5

\* What a step of c does to the counts and to what is counted.
Moves(c) ==
  /\ pc' \in [Conns -> Steps]
  /\ arg' \in [Conns -> Topics \cup {None}]
  /\ topics' \in [Conns -> SUBSET Topics]
  /\ \A d \in Conns \ {c} :
       pc'[d] = pc[d] /\ arg'[d] = arg[d] /\ topics'[d] = topics[d]
  /\ ArgOK(c)'
  /\ online' \in [Topics -> Int]
  /\ \A t \in Topics :
       online'[t] = online[t] + One(Counted(c, t)') - One(Counted(c, t))
  /\ total' = total + One(c \in Serving') - One(c \in Serving)

LEMMA MoveCounts ==
  ASSUME CountInv, NEW c \in Conns, Moves(c)
  PROVE  CountInv'
<1> USE DEF CountInv
<1>1. ASSUME NEW t \in Topics
      PROVE  /\ online'[t] \in Nat
             /\ online'[t] = Cardinality({d \in Conns : Counted(d, t)'})
  <2>1. \A d \in Conns \ {c} : Counted(d, t)' <=> Counted(d, t)
    BY DEF Moves, Counted
  <2> DEFINE S == {d \in Conns : Counted(d, t)}
             T == {d \in Conns : Counted(d, t)'}
  <2>2. /\ Cardinality(T) \in Nat
        /\ Cardinality(T) = Cardinality(S) + One(c \in T) - One(c \in S)
    <3>1. S \in SUBSET Conns /\ T \in SUBSET Conns
      OBVIOUS
    <3>2. \A d \in Conns \ {c} : d \in S <=> d \in T
      BY <2>1
    <3> HIDE DEF S, T
    <3> QED BY <3>1, <3>2, Recount
  <2>3. online[t] = Cardinality(S)
    BY DEF OnlineExact
  <2>4. One(c \in T) = One(Counted(c, t)') /\ One(c \in S) = One(Counted(c, t))
    BY DEF One
  <2>5. online'[t] = online[t] + One(Counted(c, t)') - One(Counted(c, t))
    BY DEF Moves
  <2> HIDE DEF S, T
  <2>6. online'[t] = Cardinality(T)
    BY <2>2, <2>3, <2>4, <2>5
  <2> QED BY <2>2, <2>6 DEF T
<1>2. total' \in Nat /\ total' = Cardinality(Serving')
  <2>1. Serving \in SUBSET Conns /\ Serving' \in SUBSET Conns
    BY DEF Serving, Listening
  <2>2. \A d \in Conns \ {c} : d \in Serving <=> d \in Serving'
    BY DEF Serving, Listening, Moves
  <2>3. /\ Cardinality(Serving') \in Nat
        /\ Cardinality(Serving') =
             Cardinality(Serving) + One(c \in Serving') - One(c \in Serving)
    BY <2>1, <2>2, Recount
  <2> QED BY <2>3 DEF OnlineExact, Moves
<1>3. CountTypes'
  BY <1>1, <1>2 DEF CountTypes, Moves
<1>4. \A d \in Conns : ArgOK(d)'
  BY DEF ArgOK, Moves
<1> QED BY <1>1, <1>2, <1>3, <1>4 DEF OnlineExact

\* A connection that is counted somewhere makes the count positive.
LEMMA Positive ==
  ASSUME CountInv, NEW c \in Conns, NEW t \in Topics
  PROVE  /\ Counted(c, t) => online[t] > 0
         /\ c \in Serving => total > 0
<1>1. ASSUME NEW S \in SUBSET Conns, c \in S PROVE Cardinality(S) > 0
  <2>1. IsFiniteSet(S)
    BY ConnsAssumption, FS_Subset
  <2> QED BY <1>1, <2>1, FS_EmptySet, FS_CardinalityType
<1>2. Serving \in SUBSET Conns /\ {d \in Conns : Counted(d, t)} \in SUBSET Conns
  BY DEF Serving, Listening
<1> QED BY <1>1, <1>2 DEF CountInv, OnlineExact

LEMMA StepCounts ==
  ASSUME CountInv, NEW c \in Conns,
         \/ \E k \in Tickets : Connect(c, k)
         \/ \E t \in Topics : Subscribe(c, t) \/ Unsubscribe(c, t)
         \/ Work(c) \/ UpgradeFails(c) \/ Proxy(c) \/ Close(c)
  PROVE  Moves(c)
<1> USE DEF CountInv, CountTypes, ArgOK, Steps, Counted, One, Serving, Listening, Moves
<1>1. CASE \E k \in Tickets : Connect(c, k)
  BY <1>1 DEF Connect, hubVars, taskVars
<1>2. ASSUME NEW t \in Topics, Subscribe(c, t) PROVE Moves(c)
  BY <1>2 DEF Subscribe, Request, hubVars
<1>3. ASSUME NEW t \in Topics, Unsubscribe(c, t) PROVE Moves(c)
  BY <1>3 DEF Unsubscribe, Request, hubVars
<1>4. CASE Open(c)
  BY <1>4 DEF Open, taskVars
<1>5. CASE Ready(c) \/ Proxied(c) \/ UpgradeFails(c) \/ Proxy(c) \/ Deliver(c)
  BY <1>5 DEF Ready, Proxied, UpgradeFails, Proxy, Deliver, Request, taskVars, hubVars
<1>6. CASE Add(c)
  BY <1>6 DEF Add
<1>7. CASE Drop(c)
  <2>1. Counted(c, arg[c]) /\ arg[c] \in Topics
    BY <1>7 DEF Drop
  <2>2. online[arg[c]] > 0
    BY <2>1, Positive
  <2> QED BY <1>7, <2>1, <2>2 DEF Drop, Removed
<1>8. CASE Tell(c)
  BY <1>8 DEF Tell, hubVars, taskVars
<1>9. CASE Reply(c) \/ Gone(c)
  BY <1>9 DEF Reply, Gone, Return, hubVars
<1>10. CASE Close(c)
  BY <1>10 DEF Close, Return
<1>11. CASE Leave(c)
  BY <1>11 DEF Leave, hubVars
<1> QED BY <1>1, <1>2, <1>3, <1>4, <1>5, <1>6, <1>7, <1>8, <1>9, <1>10, <1>11 DEF Work

LEMMA CountInit == Init => CountInv
<1> SUFFICES ASSUME Init PROVE CountInv
  OBVIOUS
<1>1. CountTypes /\ \A c \in Conns : ArgOK(c)
  BY DEF Init, CountTypes, ArgOK, Steps
<1>2. Serving = {} /\ \A t \in Topics : {c \in Conns : Counted(c, t)} = {}
  BY DEF Init, Serving, Listening, Counted
<1> QED BY <1>1, <1>2, FS_EmptySet DEF Init, CountInv, OnlineExact

LEMMA CountNext ==
  ASSUME CountInv, [Next]_vars
  PROVE  CountInv'
<1>1. CASE \/ Tick \/ (\E k \in Tickets : Issue(k)) \/ UNCHANGED vars
           \/ \E t \in Topics : NotifyUpdate(t)
  <2>1. UNCHANGED <<pc, arg, topics, online, total>>
    BY <1>1 DEF Tick, Issue, NotifyUpdate, vars, hubVars, taskVars
  <2> QED BY <2>1 DEF CountInv, CountTypes, OnlineExact, ArgOK, Counted, Serving, Listening
<1> QED BY <1>1, StepCounts, MoveCounts DEF Next

\* The hub's counts are the subscriptions there are, for any number of
\* connections and topics and in any order of their steps (realtime.rs:60-140).
THEOREM CountsExact == Spec => []OnlineExact
<1>1. CountInv => OnlineExact
  BY DEF CountInv
<1>2. CountInv /\ [Next]_vars => CountInv'
  BY CountNext
<1> QED BY <1>1, <1>2, CountInit, PTL DEF Spec

-----------------------------------------------------------------------------
(* Updates.  *)

WireTypes ==
  /\ sent \in Nat \ {0}
  /\ rx \in [Conns -> Seq(Messages)] /\ \A c \in Conns : Len(rx[c]) <= Capacity
  /\ last \in [Conns -> Nat] /\ due \in [Conns -> SUBSET Nat]

\* A receiver holds exactly the latest messages, without a gap; of the updates
\* owed to it those it holds are of topics it has, and the others are so old
\* that Capacity later ones came after them.
QueueOK(c) ==
  /\ c \notin Listening => rx[c] = <<>>
  /\ due[c] # {} => c \in Serving
  /\ last[c] < sent - Len(rx[c])
  /\ \A i \in 1..Len(rx[c]) :
       /\ rx[c][i].id = sent - Len(rx[c]) + i - 1
       /\ rx[c][i].id \in due[c] => rx[c][i].topic \in topics[c]
  /\ \A u \in due[c] :
       u < sent /\ (u >= sent - Len(rx[c]) \/ u < sent - Capacity)

\* Arithmetic of places in a receiver.
LEMMA Position ==
  \A s, n, u \in Nat : u < s /\ u >= s - n =>
    u - s + n + 1 \in 1..n /\ s - n + (u - s + n + 1) - 1 = u
OBVIOUS

LEMMA Ascending == \A s, n, i \in Int : s - n + i - 2 < s - n + i - 1
OBVIOUS

LEMMA Later ==
  \A l, s, n, i \in Int : l < s - n /\ i >= 1 => l < s - n + i - 1
OBVIOUS

LEMMA Shift ==
  \A s, n, i \in Int : s - n + i = s - (n - 1) + i - 1
OBVIOUS

WireInv == WireTypes /\ \A c \in Conns : QueueOK(c)

\* A queue to which a message was added.
LEMMA QueuedMessages ==
  ASSUME NEW q \in Seq(Messages), NEW m \in Messages, Len(q) <= Capacity
  PROVE  /\ Queued(q, m) \in Seq(Messages) /\ Len(Queued(q, m)) <= Capacity
         /\ Queued(q, m)[Len(Queued(q, m))] = m
         /\ Len(Queued(q, m)) \in {Len(q), Len(q) + 1}
         /\ Len(Queued(q, m)) = Len(q) => Len(q) = Capacity
         /\ \A i \in 1..(Len(Queued(q, m)) - 1) :
              /\ i + Len(q) + 1 - Len(Queued(q, m)) \in 1..Len(q)
              /\ Queued(q, m)[i] = q[i + Len(q) + 1 - Len(Queued(q, m))]
<1>1. Len(q) \in Nat /\ Capacity \in Nat \ {0}
  BY CapacityAssumption
<1>2. CASE Len(q) < Capacity
  <2>1. Queued(q, m) = Append(q, m)
    BY <1>2 DEF Queued
  <2>2. /\ Append(q, m) \in Seq(Messages) /\ Len(Append(q, m)) = Len(q) + 1
        /\ Append(q, m)[Len(q) + 1] = m
        /\ \A i \in 1..Len(q) : Append(q, m)[i] = q[i]
    BY AppendProperties
  <2> QED BY <1>1, <1>2, <2>1, <2>2
<1>3. CASE Len(q) = Capacity
  <2>1. Queued(q, m) = Append(Tail(q), m) /\ q # <<>>
    BY <1>1, <1>3 DEF Queued
  <2>2. /\ Tail(q) \in Seq(Messages) /\ Len(Tail(q)) = Len(q) - 1
        /\ \A i \in 1..Len(Tail(q)) : Tail(q)[i] = q[i + 1]
    BY <2>1, HeadTailProperties
  <2>3. /\ Append(Tail(q), m) \in Seq(Messages)
        /\ Len(Append(Tail(q), m)) = Len(Tail(q)) + 1
        /\ Append(Tail(q), m)[Len(Tail(q)) + 1] = m
        /\ \A i \in 1..Len(Tail(q)) : Append(Tail(q), m)[i] = Tail(q)[i]
    BY <2>2, AppendProperties
  <2> QED BY <1>1, <1>3, <2>1, <2>2, <2>3
<1>4. Len(q) < Capacity \/ Len(q) = Capacity
  BY <1>1
<1> QED BY <1>2, <1>3, <1>4, Zenon

LEMMA BroadcastQueue ==
  ASSUME WireInv, NEW kind \in {"updated", "online"}, NEW t \in Topics,
         Broadcast(kind, t), NEW d \in Conns,
         last'[d] = last[d], topics'[d] = topics[d],
         d \in Listening' <=> d \in Listening, d \in Serving' <=> d \in Serving,
         \/ due'[d] = due[d]
         \/ due'[d] = due[d] \cup {sent} /\ d \in Serving /\ t \in topics[d]
  PROVE  QueueOK(d)' /\ rx'[d] \in Seq(Messages) /\ Len(rx'[d]) <= Capacity
<1> DEFINE m == [id |-> sent, kind |-> kind, topic |-> t]
           q == rx[d]
           p == rx'[d]
<1>1. /\ sent \in Nat /\ sent' = sent + 1 /\ m \in Messages
      /\ q \in Seq(Messages) /\ Len(q) \in Nat /\ Len(q) <= Capacity
      /\ last[d] \in Nat /\ due[d] \in SUBSET Nat /\ Capacity \in Nat
      /\ m.id = sent /\ m.topic = t
  <2>1. sent \in Nat /\ sent' = sent + 1
    BY DEF WireInv, WireTypes, Broadcast
  <2>2. m \in Messages /\ m.id = sent /\ m.topic = t
    BY <2>1 DEF Messages
  <2>3. /\ q \in Seq(Messages) /\ Len(q) <= Capacity
        /\ last[d] \in Nat /\ due[d] \in SUBSET Nat
    BY DEF WireInv, WireTypes
  <2>4. Len(q) \in Nat
    BY <2>3
  <2> QED BY <2>1, <2>2, <2>3, <2>4, CapacityAssumption
<1>2. p = IF d \in Listening THEN Queued(q, m) ELSE q
  BY DEF Broadcast
<1>3. QueueOK(d)
  BY DEF WireInv
<1>4. CASE d \notin Listening
  <2>1. p = <<>> /\ q = <<>> /\ Len(q) = 0
    BY <1>2, <1>3, <1>4 DEF QueueOK
  <2>2. due'[d] = {} /\ due[d] = {}
    BY <1>3, <1>4 DEF QueueOK, Serving
  <2> QED BY <1>1, <1>3, <1>4, <2>1, <2>2 DEF QueueOK
<1>5. CASE d \in Listening
  <2>1. p = Queued(q, m)
    BY <1>2, <1>5
  <2> HIDE DEF m, q, p
  <2>2. /\ p \in Seq(Messages) /\ Len(p) \in Nat /\ Len(p) <= Capacity
        /\ Len(p) \in {Len(q), Len(q) + 1} /\ p[Len(p)] = m
        /\ Len(p) = Len(q) => Len(q) = Capacity
        /\ \A i \in 1..(Len(p) - 1) : /\ i + Len(q) + 1 - Len(p) \in 1..Len(q)
                                      /\ p[i] = q[i + Len(q) + 1 - Len(p)]
    <3>1. /\ Queued(q, m) \in Seq(Messages) /\ Len(Queued(q, m)) <= Capacity
          /\ Queued(q, m)[Len(Queued(q, m))] = m
          /\ Len(Queued(q, m)) \in {Len(q), Len(q) + 1}
          /\ Len(Queued(q, m)) = Len(q) => Len(q) = Capacity
          /\ \A i \in 1..(Len(Queued(q, m)) - 1) :
               /\ i + Len(q) + 1 - Len(Queued(q, m)) \in 1..Len(q)
               /\ Queued(q, m)[i] = q[i + Len(q) + 1 - Len(Queued(q, m))]
      BY <1>1, QueuedMessages
    <3>2. Len(p) \in Nat
      BY <2>1, <3>1
    <3> QED BY <2>1, <3>1, <3>2, Zenon
  <2>3. /\ last[d] < sent - Len(q)
        /\ \A i \in 1..Len(q) :
             q[i].id = sent - Len(q) + i - 1 /\ (q[i].id \in due[d] => q[i].topic \in topics[d])
        /\ \A u \in due[d] : u < sent /\ (u >= sent - Len(q) \/ u < sent - Capacity)
    BY <1>3 DEF QueueOK, q
  <2>4. ASSUME NEW i \in 1..Len(p)
        PROVE  /\ p[i].id = sent' - Len(p) + i - 1
               /\ p[i].id \in due'[d] => p[i].topic \in topics'[d]
    <3>1. CASE i = Len(p)
      <4>1. p[i].id = sent /\ p[i].topic = t
        BY <1>1, <2>2, <3>1
      <4>2. sent \notin due[d]
        BY <1>1, <2>3
      <4> QED BY <1>1, <2>2, <3>1, <4>1, <4>2
    <3>2. CASE i # Len(p)
      <4> DEFINE j == i + Len(q) + 1 - Len(p)
      <4>1. i \in 1..(Len(p) - 1)
        BY <2>2, <3>2
      <4>2. j \in 1..Len(q) /\ p[i] = q[j]
        BY <2>2, <4>1
      <4>3. /\ p[i].id = sent - Len(q) + j - 1
            /\ p[i].id \in due[d] => p[i].topic \in topics[d]
        BY <2>3, <4>2
      <4>4. p[i].id # sent
        BY <1>1, <4>2, <4>3
      <4>5. p[i].id = sent' - Len(p) + i - 1
        BY <1>1, <2>2, <4>3
      <4> QED BY <4>3, <4>4, <4>5
    <3> QED BY <3>1, <3>2
  <2>5. last'[d] < sent' - Len(p)
    BY <1>1, <2>2, <2>3
  <2>6. ASSUME NEW u \in due'[d]
        PROVE  u < sent' /\ (u >= sent' - Len(p) \/ u < sent' - Capacity)
    <3>1. CASE u \in due[d]
      <4>1. u \in Nat
        BY <1>1, <3>1
      <4> QED BY <1>1, <2>2, <2>3, <3>1, <4>1
    <3>2. CASE u = sent
      <4>1. Len(p) >= 1
        BY <1>1, <2>2, CapacityAssumption
      <4> QED BY <1>1, <2>2, <3>2, <4>1
    <3> QED BY <3>1, <3>2
  <2>7. due'[d] # {} => d \in Serving'
    BY <1>3 DEF QueueOK
  <2> QED BY <1>5, <2>2, <2>4, <2>5, <2>6, <2>7 DEF QueueOK, p
<1> QED BY <1>4, <1>5

\* Steps of c without a broadcast.
LEMMA QuietQueue ==
  ASSUME CountInv, WireInv, NEW c \in Conns,
         \/ \E k \in Tickets : Connect(c, k)
         \/ \E t \in Topics : Subscribe(c, t) \/ Unsubscribe(c, t)
         \/ Open(c) \/ Ready(c) \/ Add(c) \/ Drop(c) \/ Reply(c) \/ Proxied(c)
         \/ Leave(c) \/ Gone(c) \/ UpgradeFails(c) \/ Proxy(c) \/ Close(c)
  PROVE  WireInv'
<1>1. /\ sent' = sent /\ \A d \in Conns \ {c} :
           /\ pc'[d] = pc[d] /\ topics'[d] = topics[d]
           /\ rx'[d] = rx[d] /\ last'[d] = last[d] /\ due'[d] = due[d]
  BY DEF Connect, Subscribe, Unsubscribe, Open, Ready, Add, Drop, Reply, Proxied,
     Leave, Gone, UpgradeFails, Proxy, Close, wireVars, taskVars, CountInv,
     CountTypes, WireInv, WireTypes
<1>2. /\ rx' = rx \/ rx' = [rx EXCEPT ![c] = <<>>]
      /\ last' = last \/ last' = [last EXCEPT ![c] = 0]
      /\ due' = due \/ due' = [due EXCEPT ![c] = {}]
      /\ rx' # rx => last' = [last EXCEPT ![c] = 0]
      /\ last' # last => rx' = [rx EXCEPT ![c] = <<>>]
  BY DEF Connect, Subscribe, Unsubscribe, Open, Ready, Add, Drop, Reply, Proxied,
     Leave, Gone, UpgradeFails, Proxy, Close, wireVars
<1>3. WireTypes'
  <2>1. <<>> \in Seq(Messages) /\ Len(<<>>) <= Capacity
    BY CapacityAssumption
  <2>2. sent' \in Nat \ {0} /\ last' \in [Conns -> Nat] /\ due' \in [Conns -> SUBSET Nat]
    <3>1. sent' \in Nat \ {0}
      BY <1>1 DEF WireInv, WireTypes
    <3>2. last' \in [Conns -> Nat]
      <4>1. last \in [Conns -> Nat]
        BY DEF WireInv, WireTypes
      <4> QED BY <1>2, <4>1
    <3>3. due' \in [Conns -> SUBSET Nat]
      BY <1>2 DEF WireInv, WireTypes
    <3> QED BY <3>1, <3>2, <3>3
  <2>3. rx' \in [Conns -> Seq(Messages)] /\ \A d \in Conns : Len(rx'[d]) <= Capacity
    <3>1. CASE rx' = rx
      BY <3>1 DEF WireInv, WireTypes
    <3>2. CASE rx' = [rx EXCEPT ![c] = <<>>]
      BY <2>1, <3>2 DEF WireInv, WireTypes
    <3> QED BY <1>2, <3>1, <3>2
  <2> QED BY <2>2, <2>3 DEF WireTypes
<1>4. ASSUME NEW d \in Conns \ {c} PROVE QueueOK(d)'
  BY <1>1, <1>4 DEF QueueOK, WireInv, Listening, Serving
<1>5. /\ c \in Listening => c \in Listening' \/ rx'[c] = <<>>
      /\ c \notin Listening => c \notin Listening' \/ rx'[c] = <<>>
      /\ due'[c] # {} => due' = due /\ c \in Serving' /\ topics[c] \subseteq topics'[c]
      /\ rx' # rx \/ last' # last => due'[c] = {}
  <2> USE DEF CountInv, CountTypes, WireInv, WireTypes, QueueOK, Listening, Serving
  <2>1. CASE (\E k \in Tickets : Connect(c, k)) \/ UpgradeFails(c)
    BY <2>1 DEF Connect, UpgradeFails, taskVars, wireVars
  <2>2. CASE \E t \in Topics : Subscribe(c, t) \/ Unsubscribe(c, t)
    BY <2>2 DEF Subscribe, Unsubscribe, Request, wireVars
  <2>3. CASE Open(c) \/ Ready(c) \/ Reply(c) \/ Proxied(c) \/ Proxy(c)
    BY <2>3 DEF Open, Ready, Reply, Proxied, Proxy, Request, taskVars, wireVars
  <2>4. CASE Add(c)
    BY <2>4 DEF Add, wireVars
  <2>5. CASE Drop(c)
    BY <2>5 DEF Drop, wireVars
  <2>6. CASE Leave(c) \/ Gone(c) \/ Close(c)
    BY <2>6 DEF Leave, Gone, Close, wireVars
  <2> QED BY <2>1, <2>2, <2>3, <2>4, <2>5, <2>6
<1>6. QueueOK(c)'
  <2>1. QueueOK(c) /\ rx[c] \in Seq(Messages) /\ sent \in Nat
    BY DEF WireInv, WireTypes
  <2>2. CASE rx' = rx /\ last' = last
    BY <1>1, <1>2, <1>5, <2>1, <2>2 DEF QueueOK
  <2>3. CASE rx' # rx \/ last' # last
    <3>1. /\ rx'[c] = <<>> /\ Len(rx'[c]) = 0 /\ last'[c] = 0 /\ due'[c] = {}
      BY <1>2, <1>5, <2>3 DEF WireInv, WireTypes
    <3>2. sent' \in Nat \ {0}
      BY <1>3 DEF WireTypes
    <3>3. 1..Len(rx'[c]) = {} /\ last'[c] < sent' - Len(rx'[c])
      <4>1. 0 < sent' - 0
        <5>1. \A s \in Nat \ {0} : 0 < s - 0
          OBVIOUS
        <5> QED BY <3>2, <5>1
      <4>2. 1..0 = {}
        OBVIOUS
      <4> QED BY <3>1, <4>1, <4>2, Zenon
    <3> QED BY <3>1, <3>3 DEF QueueOK
  <2> QED BY <2>2, <2>3
<1> QED BY <1>3, <1>4, <1>6 DEF WireInv

LEMMA DeliverQueue ==
  ASSUME CountInv, WireInv, NEW c \in Conns, Deliver(c)
  PROVE  WireInv'
<1> DEFINE q == rx[c]
<1>1. /\ sent' = sent /\ pc' = pc /\ topics' = topics /\ q # <<>>
      /\ rx' = [rx EXCEPT ![c] = Tail(q)]
      /\ last' = [last EXCEPT ![c] = Head(q).id]
      /\ due' = [due EXCEPT ![c] = IF Head(q).topic \in topics[c]
                                   THEN due[c] \ {Head(q).id} ELSE due[c]]
  BY DEF Deliver, taskVars
<1>2. /\ q \in Seq(Messages) /\ Len(q) \in Nat \ {0} /\ Len(q) <= Capacity
      /\ Head(q) = q[1] /\ Head(q) \in Messages /\ Tail(q) \in Seq(Messages)
      /\ Len(Tail(q)) = Len(q) - 1
      /\ \A i \in 1..Len(Tail(q)) : Tail(q)[i] = q[i + 1]
  <2>1. q \in Seq(Messages) /\ Len(q) <= Capacity
    BY DEF WireInv, WireTypes
  <2>2. Len(q) \in Nat \ {0}
    BY <1>1, <2>1
  <2>3. Head(q) = q[1]
    BY <1>1, <2>1
  <2> QED BY <1>1, <2>1, <2>2, <2>3, HeadTailProperties
<1>3. /\ sent \in Nat /\ Capacity \in Nat /\ due[c] \in SUBSET Nat /\ QueueOK(c)
      /\ Head(q).id \in Nat
  BY <1>2, CapacityAssumption DEF WireInv, WireTypes, Messages
<1>4. /\ rx'[c] = Tail(q) /\ last'[c] = q[1].id
      /\ due'[c] = IF q[1].topic \in topics[c] THEN due[c] \ {q[1].id} ELSE due[c]
  BY <1>1, <1>2 DEF WireInv, WireTypes
<1>5. WireTypes'
  <2>1. Len(Tail(q)) <= Capacity
    BY <1>2, <1>3
  <2>2. sent' \in Nat \ {0} /\ last' \in [Conns -> Nat] /\ due' \in [Conns -> SUBSET Nat]
    BY <1>1, <1>3 DEF WireInv, WireTypes
  <2>3. rx' \in [Conns -> Seq(Messages)] /\ \A d \in Conns : Len(rx'[d]) <= Capacity
    BY <1>1, <1>2, <2>1 DEF WireInv, WireTypes
  <2> QED BY <2>2, <2>3 DEF WireTypes
<1>6. ASSUME NEW d \in Conns \ {c} PROVE QueueOK(d)'
  BY <1>1, <1>6 DEF QueueOK, WireInv, WireTypes, Listening, Serving
<1>7. QueueOK(c)'
  <2> HIDE DEF q
  <2>1. /\ c \in Listening => c \in Listening'
        /\ c \in Serving => c \in Serving'
        /\ c \notin Listening => q = <<>>
        /\ due[c] # {} => c \in Serving
    BY <1>1, <1>3 DEF QueueOK, Listening, Serving, q
  <2>2. /\ \A i \in 1..Len(q) : /\ q[i].id = sent - Len(q) + i - 1
                                /\ q[i].id \in due[c] => q[i].topic \in topics[c]
        /\ \A u \in due[c] :
             u < sent /\ (u >= sent - Len(q) \/ u < sent - Capacity)
    BY <1>3 DEF QueueOK, q
  <2>3. last'[c] < sent' - Len(rx'[c])
    BY <1>1, <1>2, <1>3, <1>4, <2>2
  <2>4. ASSUME NEW i \in 1..Len(rx'[c])
        PROVE  /\ rx'[c][i].id = sent' - Len(rx'[c]) + i - 1
               /\ rx'[c][i].id \in due'[c] => rx'[c][i].topic \in topics'[c]
    <3>1. i + 1 \in 1..Len(q) /\ rx'[c][i] = q[i + 1]
      BY <1>2, <1>4
    <3>2. /\ q[i + 1].id = sent - Len(q) + i
          /\ q[i + 1].id \in due[c] => q[i + 1].topic \in topics[c]
      BY <1>2, <1>3, <2>2, <3>1
    <3>3. rx'[c][i].id = sent' - Len(rx'[c]) + i - 1
      <4>1. rx'[c][i].id = sent - Len(q) + i
        BY <3>1, <3>2
      <4>2. Len(rx'[c]) = Len(q) - 1 /\ sent' = sent /\ i \in Int
        <5>1. i \in Int
          OBVIOUS
        <5> QED BY <1>1, <1>2, <1>4, <5>1
      <4>3. Len(q) \in Int /\ sent \in Int
        BY <1>2, <1>3
      <4>4. sent - Len(q) + i = sent - (Len(q) - 1) + i - 1
        BY <4>2, <4>3, Shift
      <4> QED BY <4>1, <4>2, <4>4, Zenon
    <3>4. due'[c] \subseteq due[c]
      BY <1>4
    <3> QED BY <1>1, <3>1, <3>2, <3>3, <3>4
  <2>5. ASSUME NEW u \in due'[c]
        PROVE  u < sent' /\ (u >= sent' - Len(rx'[c]) \/ u < sent' - Capacity)
    <3>1. u \in due[c] /\ u \in Nat
      BY <1>3, <1>4, <2>5
    <3>2. 1 \in 1..Len(q) /\ q[1].id = sent - Len(q)
      BY <1>2, <1>3, <2>2
    <3>3. u # q[1].id
      BY <1>4, <2>2, <2>5, <3>2
    <3>4. Len(rx'[c]) = Len(q) - 1 /\ Len(q) \in Nat
      BY <1>2, <1>4
    <3>5. u < sent /\ (u >= sent - Len(q) \/ u < sent - Capacity)
      BY <2>2, <3>1
    <3>6. u # sent - Len(q)
      BY <3>2, <3>3
    <3>7. u < sent /\ (u >= sent - (Len(q) - 1) \/ u < sent - Capacity)
      BY <1>3, <3>1, <3>4, <3>5, <3>6
    <3> QED BY <1>1, <3>4, <3>7, Zenon
  <2>6. c \notin Listening' => rx'[c] = <<>>
    BY <1>1, <2>1 DEF Listening
  <2>7. due'[c] # {} => c \in Serving'
    BY <1>4, <2>1
  <2> QED BY <2>3, <2>4, <2>5, <2>6, <2>7 DEF QueueOK
<1> QED BY <1>5, <1>6, <1>7 DEF WireInv

LEMMA BroadcastWire ==
  ASSUME CountInv, WireInv,
         \/ \E t \in Topics : NotifyUpdate(t)
         \/ \E c \in Conns : Tell(c)
  PROVE  WireInv'
<1>1. ASSUME NEW kind \in {"updated", "online"}, NEW t \in Topics, Broadcast(kind, t),
             last' = last, topics' = topics, due' \in [Conns -> SUBSET Nat],
             \A d \in Conns :
               /\ d \in Listening' <=> d \in Listening
               /\ d \in Serving' <=> d \in Serving
               /\ \/ due'[d] = due[d]
                  \/ due'[d] = due[d] \cup {sent} /\ d \in Serving /\ t \in topics[d]
      PROVE  WireInv'
  <2>1. ASSUME NEW d \in Conns
        PROVE  QueueOK(d)' /\ rx'[d] \in Seq(Messages) /\ Len(rx'[d]) <= Capacity
    BY <1>1, BroadcastQueue
  <2>2. rx' = [d \in Conns |-> rx'[d]]
    BY <1>1 DEF Broadcast
  <2>3. rx' \in [Conns -> Seq(Messages)]
    BY <2>1, <2>2
  <2>4. sent' \in Nat \ {0} /\ last' \in [Conns -> Nat]
    BY <1>1 DEF Broadcast, WireInv, WireTypes
  <2> QED BY <1>1, <2>1, <2>3, <2>4 DEF WireInv, WireTypes
<1>2. ASSUME NEW t \in Topics, NotifyUpdate(t) PROVE WireInv'
  <2>1. /\ Broadcast("updated", t) /\ last' = last /\ pc' = pc /\ topics' = topics
        /\ due' = [d \in Conns |-> IF d \in Serving /\ t \in topics[d]
                                   THEN due[d] \cup {sent} ELSE due[d]]
    BY <1>2 DEF NotifyUpdate, taskVars
  <2>2. due' \in [Conns -> SUBSET Nat]
    BY <2>1 DEF WireInv, WireTypes
  <2>3. Listening' = Listening /\ Serving' = Serving
    BY <2>1 DEF Listening, Serving
  <2>4. \A d \in Conns :
          \/ due'[d] = due[d]
          \/ due'[d] = due[d] \cup {sent} /\ d \in Serving /\ t \in topics[d]
    BY <2>1
  <2> QED BY <1>1, <2>1, <2>2, <2>3, <2>4
<1>3. ASSUME NEW c \in Conns, Tell(c) PROVE WireInv'
  <2>1. /\ Broadcast("online", arg[c]) /\ last' = last /\ due' = due /\ topics' = topics
        /\ pc[c] \in {"tell", "parting"}
        /\ pc' = [pc EXCEPT ![c] = IF pc[c] = "tell" THEN "reply" ELSE "leave"]
    BY <1>3 DEF Tell, taskVars
  <2>2. arg[c] \in Topics
    BY <2>1 DEF CountInv, ArgOK
  <2>3. Listening' = Listening /\ Serving' = Serving
    BY <2>1 DEF Listening, Serving, CountInv, CountTypes
  <2>4. due' \in [Conns -> SUBSET Nat]
    BY <2>1 DEF WireInv, WireTypes
  <2> QED BY <1>1, <2>1, <2>2, <2>3, <2>4
<1> QED BY <1>2, <1>3

LEMMA WireInit == Init => WireInv
<1> SUFFICES ASSUME Init PROVE WireInv
  OBVIOUS
<1>1. <<>> \in Seq(Messages) /\ Len(<<>>) = 0
  OBVIOUS
<1>2. WireTypes
  BY <1>1, CapacityAssumption DEF Init, WireTypes
<1>3. ASSUME NEW c \in Conns PROVE QueueOK(c)
  BY <1>1 DEF Init, QueueOK
<1> QED BY <1>2, <1>3 DEF WireInv

LEMMA WireNext ==
  ASSUME CountInv, WireInv, [Next]_vars
  PROVE  WireInv'
<1>1. CASE Tick \/ (\E k \in Tickets : Issue(k)) \/ UNCHANGED vars
  <2>1. UNCHANGED <<pc, topics, wireVars>>
    BY <1>1 DEF Tick, Issue, vars, taskVars, wireVars
  <2> QED BY <2>1 DEF WireInv, WireTypes, QueueOK, wireVars, Listening, Serving
<1> QED BY <1>1, QuietQueue, DeliverQueue, BroadcastWire DEF Next, Work

\* For any number of connections and every capacity of the channel, an update
\* broadcast to a subscriber waits for it, was sent on, or was pushed out by
\* Capacity later messages; and messages come in order (ws.rs, realtime.rs).
THEOREM UpdatesAreKept == Spec => []UpdatesKept
<1>1. WireInv => UpdatesKept
  <2> SUFFICES ASSUME WireInv, NEW c \in Conns
               PROVE  /\ \A u \in due[c] : \/ \E i \in 1..Len(rx[c]) : rx[c][i].id = u
                                           \/ sent - u > Capacity
                      /\ \A i \in 1..Len(rx[c]) :
                           /\ last[c] < rx[c][i].id
                           /\ i > 1 => rx[c][i - 1].id < rx[c][i].id
    BY DEF UpdatesKept
  <2>1. /\ sent \in Nat /\ Len(rx[c]) \in Nat /\ last[c] \in Nat /\ Capacity \in Nat
        /\ due[c] \in SUBSET Nat /\ QueueOK(c)
    BY CapacityAssumption DEF WireInv, WireTypes
  <2> DEFINE n == Len(rx[c])
  <2>4. /\ \A i \in 1..n : rx[c][i].id = sent - n + i - 1
        /\ last[c] < sent - n
    BY <2>1 DEF QueueOK
  <2>2. ASSUME NEW u \in due[c]
        PROVE  (\E i \in 1..Len(rx[c]) : rx[c][i].id = u) \/ sent - u > Capacity
    <3>1. u \in Nat /\ u < sent /\ (u >= sent - Len(rx[c]) \/ u < sent - Capacity)
      BY <2>1 DEF QueueOK
    <3>2. CASE u >= sent - n
      <4> DEFINE i == u - sent + n + 1
      <4>1. i \in 1..n /\ sent - n + i - 1 = u
        BY <2>1, <3>1, <3>2, Position
      <4> QED BY <2>4, <4>1
    <3> QED BY <2>1, <3>1, <3>2
  <2>3. ASSUME NEW i \in 1..n
        PROVE  last[c] < rx[c][i].id /\ (i > 1 => rx[c][i - 1].id < rx[c][i].id)
    <3>1. rx[c][i].id = sent - n + i - 1
      BY <2>4
    <3>2. ASSUME i > 1 PROVE rx[c][i - 1].id = sent - n + i - 2
      <4> DEFINE j == i - 1
      <4>1. j \in 1..n /\ sent - n + j - 1 = sent - n + i - 2
        BY <2>1, <3>2
      <4> QED BY <2>4, <4>1
    <3>3. i >= 1 /\ {last[c], sent, n, i} \subseteq Int
      BY <2>1
    <3>4. last[c] < rx[c][i].id
      BY <2>4, <3>1, <3>3, Later
    <3>5. i > 1 => rx[c][i - 1].id < rx[c][i].id
      <4>1. sent - n + i - 2 < sent - n + i - 1
        BY <3>3, Ascending
      <4> QED BY <3>1, <3>2, <4>1, Zenon
    <3> QED BY <3>4, <3>5
  <2> QED BY <2>2, <2>3
<1>2. CountInv /\ WireInv /\ [Next]_vars => CountInv' /\ WireInv'
  BY CountNext, WireNext
<1> QED BY <1>1, <1>2, CountInit, WireInit, PTL DEF Spec

-----------------------------------------------------------------------------
(* Types.  *)

Bounded == now \in 0..MaxClock /\ requests \in 0..MaxRequests

LEMMA BoundedInit == Init => Bounded
BY BoundsAssumption DEF Init, Bounded

LEMMA BoundedNext ==
  ASSUME Bounded, [Next]_vars
  PROVE  Bounded'
<1>1. now' = now \/ (now < MaxClock /\ now' = now + 1)
  BY DEF Next, vars, Tick, Issue, Connect, NotifyUpdate, Subscribe, Unsubscribe, Work,
     UpgradeFails, Proxy, Close, Open, Ready, Add, Drop, Tell, Reply, Proxied,
     Deliver, Leave, Gone, ticketVars
<1>2. requests' = requests \/ (requests < MaxRequests /\ requests' = requests + 1)
  BY DEF Next, vars, Tick, Issue, Connect, NotifyUpdate, Subscribe, Unsubscribe, Work,
     UpgradeFails, Proxy, Close, Open, Ready, Add, Drop, Tell, Reply, Proxied,
     Deliver, Leave, Gone, Request
<1> QED BY <1>1, <1>2, BoundsAssumption DEF Bounded

\* Every variable keeps its type; in particular no count goes below zero and
\* no receiver above the capacity.
THEOREM HubTyped == Spec => []TypeOK
<1>1. TicketInv /\ CountInv /\ WireInv /\ Bounded => TypeOK
  BY DEF TicketInv, CountInv, CountTypes, WireInv, WireTypes, Bounded, TypeOK
<1>2. TicketInv /\ CountInv /\ WireInv /\ Bounded /\ [Next]_vars
        => TicketInv' /\ CountInv' /\ WireInv' /\ Bounded'
  BY TicketStep, CountNext, WireNext, BoundedNext
<1> QED
  BY <1>1, <1>2, TicketsInit, CountInit, WireInit, BoundedInit, PTL DEF Spec

=============================================================================
