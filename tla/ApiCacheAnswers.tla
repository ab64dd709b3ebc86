-------------------------- MODULE ApiCacheAnswers ---------------------------
(***************************************************************************)
(* ApiCache with a history variable: how recent an answer a request may    *)
(* count on when it arrives.                                               *)
(***************************************************************************)
EXTENDS ApiCache, FiniteSetsExt

\* entitled[r]: the newest epoch whose content request r may count on.
VARIABLE entitled
hvars == <<vars, entitled>>

Active(p) == {s \in Readers : Home[s] = p /\ pc[s] # "idle"}

\* On arrival: Redis' epoch, unless the process holds an older L1 control
\* or is already serving a request that is entitled to less.
Entitlement(r) ==
  LET p == Home[r]
  IN  Min({epoch} \cup {entitled[s] : s \in Active(p)}
                  \cup (IF control[p] = None THEN {} ELSE {control[p].epoch}))

HInit == Init /\ entitled = [r \in Readers |-> 0]
HNext ==
  /\ Next
  /\ entitled' = [r \in Readers |->
       IF pc[r] = "idle" /\ pc'[r] # "idle" THEN Entitlement(r)
       ELSE IF pc'[r] = "idle" THEN 0 ELSE entitled[r]]
HSpec == HInit /\ [][HNext]_hvars
HFairSpec == HSpec /\ Fairness

\* An answer contains everything published up to the epoch the request was
\* entitled to when it arrived: staleness comes from an unexpired L1 control
\* or from sharing an older request's lookup, from nowhere else.
AnswerFresh ==
  \A r \in Readers : pc[r] = "done" => AtLeast(val[r], floor[entitled[r]])
=============================================================================
