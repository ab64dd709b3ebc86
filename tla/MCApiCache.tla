----------------------------- MODULE MCApiCache -----------------------------
(***************************************************************************)
(* Instances of ApiCache, with its history variable, for TLC.              *)
(***************************************************************************)
EXTENDS ApiCacheAnswers, TLC

CONSTANTS p1, r1, r2

\* Requests of one process differ only in name.
SameReaders == Permutations(Readers)

HomeSame == [r \in Readers |-> p1]
AllFaults == FaultKinds
NoFaults  == {}
=============================================================================
