---------------------------- MODULE MCRingEngine ----------------------------
(***************************************************************************)
(* RingEngine with the constants TLC needs.                                *)
(* OverlapSpec has two kinds of behaviour, on the same variables:          *)
(*   "people"   two people, the second invited half-way; no answers;       *)
(*   "answers"  one person, who answers, declines and comes while rounds   *)
(*              run, one of which is cut short.                            *)
(***************************************************************************)
EXTENDS RingEngine, TLC

CONSTANTS p1, p2, r1, r2

VARIABLE focus

\* Rounds are interchangeable.
RoundsAlike == Permutations(Rounds)
\* Everything but `settled` and the counts of rings and messages: no action
\* depends on them, and LeftAlone only on whether a step adds a ring.
WithoutCounts ==
  <<focus, state, invited, where, calls, job, round, response, again, responses, failures, stands>>

Answers == INSTANCE RingEngine WITH
  WithDevice <- {p1}, Busy <- {p1}, MaxResponses <- 3, MaxFailures <- 1

\* Who has not been invited stays away.
NobodyElse == invited' = invited /\ where'[p2] = where[p2]

OverlapInit == focus \in {"people", "answers"} /\ Init

OverlapNext ==
  /\ UNCHANGED focus
  /\ \/ focus = "people" /\ Next
     \/ focus = "answers" /\ Answers!Next /\ NobodyElse

OverlapSpec == OverlapInit /\ [][OverlapNext]_<<focus, vars>>
=============================================================================
