------------------------------ MODULE MCSites -------------------------------
EXTENDS Sites, TLC

CONSTANTS r1, r2, d1, d2

MCOneRequest == {r1}
MCTwoRequests == {r1, r2}
MCSymmetry == Permutations({r1, r2})
MCOneDomain == {d1}
MCTwoDomains == {d1, d2}
MCStatic == {"static"}
MCNode == {"node"}
MCDeploy == {"site.create", "site.delete"}
MCReconfigure == {"site.create", "config"}
MCPortFaults == {"insert", "crash"}
\* A restart is a start that does not need a port, a stop takes none.
MCPortOps == {"site.create", "site.delete", "config", "app.start"}
MCNoFaults == {}

\* What follows an overlap is not explored: the property says nothing of it.
MCNotOverlapped == ~overlapped

\* Bound: only the first site is started.
MCOneApp == \A r \in Requests : requests[r].op \in AppOps => requests[r].site = 1

MCBound == MCNotOverlapped /\ MCOneApp
=============================================================================
