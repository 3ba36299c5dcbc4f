----------------------------- MODULE AtMostOnce -----------------------------
(***************************************************************************)
(* What the bulk sends (lib/comms/sends.ts) and the automation rules       *)
(* (lib/automation/runner.ts) promise, whatever workers and ticks do: an   *)
(* item is first taken, by one of them; only what has been taken is given, *)
(* and never a second time.  What is taken and never given is lost: both   *)
(* prefer that to giving twice.                                            *)
(***************************************************************************)
EXTENDS Naturals

CONSTANT Items

VARIABLES
  taken,   \* the items somebody has taken
  given    \* how often each has been given

vars == <<taken, given>>

Init ==
  /\ taken = {}
  /\ given = [x \in Items |-> 0]

Take ==
  /\ \E S \in SUBSET (Items \ taken) : taken' = taken \cup S
  /\ UNCHANGED given

Give ==
  \E S \in SUBSET taken :
    /\ \A x \in S : given[x] = 0
    /\ given' = [x \in Items |-> IF x \in S THEN 1 ELSE given[x]]
    /\ UNCHANGED taken

Next == Take \/ Give

Spec == Init /\ [][Next]_vars

\* Where what was taken in vain is handed back for somebody to take again
\* (lib/automation/runner.ts).
HandBack ==
  /\ \E S \in SUBSET {x \in taken : given[x] = 0} : taken' = taken \ S
  /\ UNCHANGED given

SpecWithReturns == Init /\ [][Next \/ HandBack]_vars
=============================================================================
