----------------------------- MODULE MCLogins -------------------------------
EXTENDS Logins, TLC

CONSTANTS r1, r2, q1

MCReqs == {r1, r2}
MCSettings == {q1}
MCTTLs == {2}
MCSymmetry == Permutations(MCReqs)
=============================================================================
