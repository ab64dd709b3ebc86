--------------------------- MODULE MCUserDimension ---------------------------
EXTENDS UserDimension, TLC

CONSTANTS u1, u2, r1, r2, w1, w2, s1, s2

MCUsers == {u1, u2}
MCRequests == {r1, r2}
MCWriters == {w1, w2}
MCSalts == {None, s1, s2}

\* A renamed user, one whose profile changed, one who has joined a team.
MCPayloads == {[name |-> "n", profile |-> "p", team |-> None],
               [name |-> "n", profile |-> "q", team |-> 1]}

Symmetry == Permutations(MCUsers) \cup Permutations(MCRequests)
              \cup Permutations(MCWriters) \cup Permutations({s1, s2})

=============================================================================
