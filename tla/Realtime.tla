------------------------------ MODULE Realtime ------------------------------
(***************************************************************************)
(* The WebSocket side of the API: tickets (api/ws_ticket.rs) that admit a  *)
(* connection once, the hub that counts connections and broadcasts to them *)
(* (api/realtime.rs), and the task that serves one connection (api/ws.rs). *)
(*                                                                         *)
(* Every lock of the code is one step; between two locks, or between a     *)
(* lock and the broadcast that follows it, other tasks run.  A socket is   *)
(* reused after its task has ended, as a reconnecting client would.        *)
(***************************************************************************)
EXTENDS Integers, Sequences, FiniteSets

CONSTANTS
  Conns,      \* the connections
  Topics,     \* (server, event) pairs
  MaxTickets, \* bound: tickets issued
  None,
  Ttl,        \* TICKET_TTL
  Capacity,   \* of the broadcast channel
  MaxClock, MaxMessages, MaxRequests   \* bounds: time, broadcasts, requests

ASSUME CapacityAssumption == Capacity \in Nat \ {0}
ASSUME TtlAssumption == Ttl \in Nat \ {0}
ASSUME ConnsAssumption == IsFiniteSet(Conns)
ASSUME BoundsAssumption ==
  {MaxTickets, MaxMessages, MaxRequests} \subseteq Nat /\ MaxClock \in Nat \ {0}
ASSUME NoneAssumption == None \notin Topics

\* generate_ticket never repeats a name: tickets are numbered as issued.
Tickets == 1..MaxTickets

VARIABLES
  now,        \* Instant::now()
  tickets,    \* WsTicketStore: expires_at of the ticket, 0 when not stored
  total,      \* online_total
  online,     \* online_by_topic, 0 for a missing entry
  pc,         \* where the task of a connection is
  arg,        \* the topic of the request or of the removal in progress
  topics,     \* the task's own set of topics
  rx,         \* the messages its receiver has not taken yet
  sent,       \* messages broadcast so far: the number of the next one
  requests,   \* requests received so far
  expiry,     \* history: expires_at of every ticket issued, 0 before
  uses,       \* history: the connections a ticket has admitted
  due,        \* history: updates broadcast while subscribed, not yet sent on
  last        \* history: the last message taken from the receiver

vars == <<now, tickets, total, online, pc, arg, topics, rx, sent,
          requests, expiry, uses, due, last>>

ticketVars == <<now, tickets, expiry, uses>>
hubVars    == <<total, online>>
taskVars   == <<arg, topics>>
wireVars   == <<rx, sent, due, last>>

Steps == {"off", "upgrading", "ready", "open", "add", "drop", "tell", "reply",
          "proxy", "leave", "leaving", "parting"}

\* The tasks that hold a receiver: from hub.subscribe() until they return.
Listening == {c \in Conns : pc[c] \notin {"off", "upgrading"}}

\* Those of them that still serve their client.
Serving == {c \in Listening : pc[c] \notin {"leave", "leaving", "parting"}}

Messages == [id : Nat, kind : {"updated", "online"}, topic : Topics]

TypeOK ==
  /\ now \in 0..MaxClock /\ sent \in Nat /\ requests \in 0..MaxRequests
  /\ tickets \in [Tickets -> Nat] /\ expiry \in [Tickets -> Nat]
  /\ uses \in [Tickets -> Nat]
  /\ total \in Nat /\ online \in [Topics -> Nat]
  /\ pc \in [Conns -> Steps]
  /\ arg \in [Conns -> Topics \cup {None}]
  /\ topics \in [Conns -> SUBSET Topics]
  /\ rx \in [Conns -> Seq(Messages)]
  /\ \A c \in Conns : Len(rx[c]) <= Capacity
  /\ last \in [Conns -> Nat]
  /\ due \in [Conns -> SUBSET Nat]

Init ==
  /\ now = 1 /\ sent = 1 /\ requests = 0
  /\ tickets = [k \in Tickets |-> 0] /\ expiry = tickets /\ uses = tickets
  /\ total = 0 /\ online = [t \in Topics |-> 0]
  /\ pc = [c \in Conns |-> "off"]
  /\ arg = [c \in Conns |-> None]
  /\ topics = [c \in Conns |-> {}]
  /\ rx = [c \in Conns |-> <<>>] /\ last = [c \in Conns |-> 0]
  /\ due = [c \in Conns |-> {}]

-----------------------------------------------------------------------------
(* Tickets. *)

\* A stored ticket that is still worth something.
Live(expires) == expires > now

\* prune_expired: what the store keeps.
Pruned == [k \in Tickets |-> IF Live(tickets[k]) THEN tickets[k] ELSE 0]

Issue(k) ==
  /\ expiry[k] = 0 /\ \A i \in 1..(k - 1) : expiry[i] # 0
  /\ tickets' = [Pruned EXCEPT ![k] = now + Ttl]
  /\ expiry' = [expiry EXCEPT ![k] = now + Ttl]
  /\ UNCHANGED <<now, uses, total, online, pc, requests, taskVars, wireVars>>

Consumed_Kept(k) == Pruned

\* What consume leaves in the store.
Consumed(k) == [Pruned EXCEPT ![k] = 0]

\* A ticket presented to /ws: consumed and admitted, or refused with 401.
Connect(c, k) ==
  /\ pc[c] = "off"
  /\ tickets' = Consumed(k)
  /\ IF Live(tickets[k])
     THEN pc' = [pc EXCEPT ![c] = "upgrading"]
          /\ uses' = [uses EXCEPT ![k] = @ + 1]
     ELSE UNCHANGED <<pc, uses>>
  /\ UNCHANGED <<now, expiry, requests, hubVars, taskVars, wireVars>>

Tick ==
  /\ now < MaxClock /\ now' = now + 1
  /\ UNCHANGED <<tickets, expiry, uses, pc, requests, hubVars, taskVars,
                 wireVars>>

-----------------------------------------------------------------------------
(* The hub. *)

Queued_Unbounded(queue, m) == Append(queue, m)

Queued_DropNew(queue, m) == IF Len(queue) < Capacity THEN Append(queue, m) ELSE queue

\* A broadcast reaches every receiver; a full one drops its oldest message,
\* and the receiver learns only that it lagged.
Queued(queue, m) ==
  IF Len(queue) < Capacity THEN Append(queue, m) ELSE Append(Tail(queue), m)

Broadcast(kind, t) ==
  /\ sent' = sent + 1
  /\ rx' = [c \in Conns |->
              IF c \in Listening
              THEN Queued(rx[c], [id |-> sent, kind |-> kind, topic |-> t])
              ELSE rx[c]]

\* notify_update, called by the tracker when a record was published.
NotifyUpdate(t) ==
  /\ sent < MaxMessages
  /\ Broadcast("updated", t)
  /\ due' = [c \in Conns |->
               IF c \in Serving /\ t \in topics[c] THEN due[c] \cup {sent}
                                                   ELSE due[c]]
  /\ UNCHANGED <<last, pc, requests, ticketVars, hubVars, taskVars>>

\* handle_socket starts: a receiver, a count, and the "ready" event to send.
Open(c) ==
  /\ pc[c] = "upgrading"
  /\ pc' = [pc EXCEPT ![c] = "ready"]
  /\ total' = total + 1
  /\ rx' = [rx EXCEPT ![c] = <<>>] /\ last' = [last EXCEPT ![c] = 0]
  /\ UNCHANGED <<sent, due, online, requests, ticketVars, taskVars>>

\* The client is gone before the upgrade: the ticket stays spent.
UpgradeFails(c) ==
  /\ pc[c] = "upgrading" /\ pc' = [pc EXCEPT ![c] = "off"]
  /\ UNCHANGED <<requests, ticketVars, hubVars, taskVars, wireVars>>

\* The send of the "ready" event succeeded.
Ready(c) ==
  /\ pc[c] = "ready" /\ pc' = [pc EXCEPT ![c] = "open"]
  /\ UNCHANGED <<requests, ticketVars, hubVars, taskVars, wireVars>>

-----------------------------------------------------------------------------
(* The requests of a connection, one at a time. *)

Request(c) ==
  pc[c] = "open" /\ requests < MaxRequests /\ requests' = requests + 1

Subscribe_Twice(c, t) ==
  /\ Request(c)
  /\ topics' = [topics EXCEPT ![c] = @ \cup {t}]
  /\ arg' = [arg EXCEPT ![c] = t]
  /\ pc' = [pc EXCEPT ![c] = "add"]
  /\ UNCHANGED <<hubVars, ticketVars, wireVars>>

\* subscribe_topic: only a new topic of this connection is counted.
Subscribe(c, t) ==
  /\ Request(c)
  /\ topics' = [topics EXCEPT ![c] = @ \cup {t}]
  /\ arg' = [arg EXCEPT ![c] = t]
  /\ pc' = [pc EXCEPT ![c] = IF t \in topics[c] THEN "reply" ELSE "add"]
  /\ UNCHANGED <<hubVars, ticketVars, wireVars>>

\* unsubscribe_topic
Unsubscribe(c, t) ==
  /\ Request(c)
  /\ topics' = [topics EXCEPT ![c] = @ \ {t}]
  /\ due' = [due EXCEPT ![c] = {}]   \* what it still gets is not owed
  /\ arg' = [arg EXCEPT ![c] = t]
  /\ pc' = [pc EXCEPT ![c] = IF t \in topics[c] THEN "drop" ELSE "reply"]
  /\ UNCHANGED <<rx, sent, last, hubVars, ticketVars>>

\* add_topic_subscription, under the lock.
Add(c) ==
  /\ pc[c] = "add" /\ pc' = [pc EXCEPT ![c] = "tell"]
  /\ online' = [online EXCEPT ![arg[c]] = @ + 1]
  /\ UNCHANGED <<total, requests, arg, topics, ticketVars, wireVars>>

\* remove_topic_subscription, under the lock: a missing entry is left alone
\* and nothing is broadcast; a count that reaches 0 removes its entry.
Removed(count) == IF count = 0 THEN 0 ELSE count - 1

Drop(c) ==
  /\ pc[c] \in {"drop", "leaving"}
  /\ pc' = [pc EXCEPT ![c] =
              CASE online[arg[c]] > 0 -> IF @ = "drop" THEN "tell" ELSE "parting"
                [] @ = "drop" -> "reply"
                [] OTHER -> "leave"]
  /\ online' = [online EXCEPT ![arg[c]] = Removed(@)]
  /\ UNCHANGED <<total, requests, arg, topics, ticketVars, wireVars>>

\* broadcast_online, after the lock is released: two connections may tell
\* their counts in the other order.  No property here needs the count.
Tell(c) ==
  /\ pc[c] \in {"tell", "parting"}
  /\ pc' = [pc EXCEPT ![c] = IF @ = "tell" THEN "reply" ELSE "leave"]
  /\ Broadcast("online", arg[c])
  /\ UNCHANGED <<due, last, requests, hubVars, taskVars, ticketVars>>

\* The locals of a request go out of scope.
Return(c) == arg' = [arg EXCEPT ![c] = None]

\* The answer; one to a subscription reads the topic's count once more.
Reply(c) ==
  /\ pc[c] = "reply" /\ pc' = [pc EXCEPT ![c] = "open"]
  /\ Return(c)
  /\ UNCHANGED <<topics, requests, ticketVars, hubVars, wireVars>>

\* handle_proxy_request: the task waits for the HTTP handlers and takes no
\* message from its receiver meanwhile.
Proxy(c) ==
  /\ Request(c) /\ pc' = [pc EXCEPT ![c] = "proxy"]
  /\ UNCHANGED <<ticketVars, hubVars, taskVars, wireVars>>

Proxied(c) ==
  /\ pc[c] = "proxy" /\ pc' = [pc EXCEPT ![c] = "reply"]
  /\ UNCHANGED <<requests, ticketVars, hubVars, taskVars, wireVars>>

-----------------------------------------------------------------------------
(* Messages to the client, and the end of a connection. *)

Deliver_Clear(c) ==
  /\ pc[c] = "open" /\ rx[c] # <<>>
  /\ rx' = [rx EXCEPT ![c] = <<>>]
  /\ last' = [last EXCEPT ![c] = Head(rx[c]).id]
  /\ due' = [due EXCEPT ![c] = @ \ {Head(rx[c]).id}]
  /\ UNCHANGED <<sent, pc, requests, ticketVars, hubVars, taskVars>>

\* handle_realtime_message: sent on if the topic is subscribed now.
Deliver(c) ==
  /\ pc[c] = "open" /\ rx[c] # <<>>
  /\ rx' = [rx EXCEPT ![c] = Tail(@)]
  /\ last' = [last EXCEPT ![c] = Head(rx[c]).id]
  /\ due' = [due EXCEPT ![c] = IF Head(rx[c]).topic \in topics[c]
                               THEN @ \ {Head(rx[c]).id} ELSE @]
  /\ UNCHANGED <<sent, pc, requests, ticketVars, hubVars, taskVars>>

\* The client closes, a receive fails, or a send fails: out of the loop, and
\* connection_closed takes the connection off the total.
Close(c) ==
  /\ pc[c] \in {"ready", "open", "reply"}
  /\ pc' = [pc EXCEPT ![c] = "leave"]
  /\ total' = total - 1 /\ due' = [due EXCEPT ![c] = {}]
  /\ Return(c)
  /\ UNCHANGED <<online, rx, sent, last, requests, topics, ticketVars>>

\* connection_closed: the topics one after the other, then the task returns.
Leave(c) ==
  /\ pc[c] = "leave" /\ topics[c] # {}
  /\ \E t \in topics[c] :
       /\ topics' = [topics EXCEPT ![c] = @ \ {t}]
       /\ arg' = [arg EXCEPT ![c] = t]
  /\ pc' = [pc EXCEPT ![c] = "leaving"]
  /\ UNCHANGED <<requests, hubVars, ticketVars, wireVars>>

Gone(c) ==
  /\ pc[c] = "leave" /\ topics[c] = {}
  /\ pc' = [pc EXCEPT ![c] = "off"]
  /\ rx' = [rx EXCEPT ![c] = <<>>] /\ last' = [last EXCEPT ![c] = 0]
  /\ Return(c)
  /\ UNCHANGED <<topics, sent, due, requests, hubVars, ticketVars>>

-----------------------------------------------------------------------------

\* What a task does by itself once it is in the middle of something.
Work(c) == Open(c) \/ Ready(c) \/ Add(c) \/ Drop(c) \/ Tell(c) \/ Reply(c)
             \/ Proxied(c) \/ Deliver(c) \/ Leave(c) \/ Gone(c)

Next ==
  \/ Tick
  \/ \E k \in Tickets : Issue(k)
  \/ \E c \in Conns, k \in Tickets : Connect(c, k)
  \/ \E t \in Topics : NotifyUpdate(t)
  \/ \E c \in Conns, t \in Topics : Subscribe(c, t) \/ Unsubscribe(c, t)
  \/ \E c \in Conns : Work(c) \/ UpgradeFails(c) \/ Proxy(c) \/ Close(c)

Spec == Init /\ [][Next]_vars

\* Tasks are run by the executor; a send or a proxied request ends somehow.
\* Nothing obliges a client to send requests or to close.
LiveSpec == Spec /\ \A c \in Conns : WF_vars(Work(c))

-----------------------------------------------------------------------------
(* Properties. *)

\* A ticket admits one connection at most, and none from the instant it
\* expires on, however often, late or concurrently it is presented
\* (ws_ticket.rs, consume and prune_expired).
AdmittedOnce ==
  [][\A k \in Tickets :
       uses'[k] # uses[k] => uses[k] = 0 /\ uses'[k] = 1 /\ now < expiry[k]]_vars

\* A connection counted under topic t: its subscription went through the
\* hub's lock and its removal did not yet.
Counted(c, t) ==
  \/ t \in topics[c] /\ ~(pc[c] = "add" /\ arg[c] = t)
  \/ pc[c] \in {"drop", "leaving"} /\ arg[c] = t

\* The hub's counts are the subscriptions of the connections there are, at
\* every moment and in every order of subscribing, unsubscribing and closing:
\* saturating_sub and the early return for a missing entry never hide a loss,
\* and the answer to a subscription, which reads the count again after the
\* lock was released, counts the subscriber itself (ws.rs, subscribe_topic).
OnlineExact ==
  /\ \A t \in Topics :
       online[t] = Cardinality({c \in Conns : Counted(c, t)})
  /\ total = Cardinality(Serving)

\* A subscriber is sent every update of its topic broadcast while it was
\* subscribed, unless Capacity later messages pushed it out while the task
\* was busy (ws.rs, RecvError::Lagged), and all in the order of broadcast.
UpdatesKept ==
  \A c \in Conns :
    /\ \A u \in due[c] : \/ \E i \in 1..Len(rx[c]) : rx[c][i].id = u
                         \/ sent - u > Capacity
    /\ \A i \in 1..Len(rx[c]) : /\ last[c] < rx[c][i].id
                               /\ i > 1 => rx[c][i - 1].id < rx[c][i].id

\* An update broadcast to a subscriber is sent on, pushed out or no longer
\* wanted: a receiver is never left with a message for ever.
UpdateArrives ==
  \A c \in Conns : due[c] # {} ~>
    (\A u \in due[c] : sent - u > Capacity)

=============================================================================
