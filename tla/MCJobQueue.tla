----------------------------- MODULE MCJobQueue -----------------------------
(* JobQueue with the constants TLC needs: a meeting with one reminder, due *)
(* a unit of time before its start, and its ring.                          *)
EXTENDS JobQueue, TLC

CONSTANTS t1, t2, c1, c2

MCJobs == {"remind", "ring"}
RingOnly == {"ring"}
TickSymmetry == Permutations({t1, t2})
MCLead == [j \in Jobs |-> IF j = "remind" THEN 1 ELSE 0]
=============================================================================
