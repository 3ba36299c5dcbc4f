----------------------------- MODULE MCBulkSend -----------------------------
(***************************************************************************)
(* BulkSend with the constants TLC needs: two people, the first of them on *)
(* both pages of the audience; e-mail may not reach the second.            *)
(* There are two kinds of behaviour, on the same variables:                *)
(*   "overlap"  two workers, a control at any time, workers stopped        *)
(*              anywhere;                                                  *)
(*   "in turn"  one worker, no control between a save's two calls, no      *)
(*              worker stopped while it lists people; more controls and    *)
(*              deaths, and the send has an end time.                      *)
(***************************************************************************)
EXTENDS BulkSend

CONSTANTS p1, p2, w1, w2, a1

MCPages == <<{p1}, {p1, p2}>>
MCOn == <<"inApp", "email">>
MCUnsure == {<<p2, "email">>}

VARIABLE focus

InTurn == INSTANCE BulkSend WITH
  HasEnd <- TRUE, MaxControls <- 3, MaxDeaths <- 2, ListingDies <- FALSE, Overlap <- FALSE

SendsInit == focus \in {"overlap", "in turn"} /\ Init

SendsNext ==
  /\ UNCHANGED focus
  /\ \/ focus = "overlap" /\ Next
     \/ focus = "in turn" /\ InTurn!Next /\ worker'[w2] = worker[w2]

\* BulkSend's fairness, of the behaviours in turn.
InTurnFairness ==
  /\ WF_vars(focus = "in turn" /\ InTurn!LeaseExpires)
  /\ WF_vars(focus = "in turn" /\ InTurn!StartFromTick(w1))
  /\ SF_vars(focus = "in turn" /\ InTurn!ListPage(w1))
  /\ WF_vars(focus = "in turn" /\ InTurn!WorkerSteps(w1))
  /\ WF_vars(focus = "in turn" /\ InTurn!AdminSteps(a1))

SendsSpec == SendsInit /\ [][SendsNext]_<<focus, vars>> /\ InTurnFairness

----------------------------------------------------------------------------

\* In turn, a send that ran to its end has an answer for everyone.
NobodyForgottenInTurn == focus = "in turn" => NobodyForgotten

\* In turn, a cancel stands.
CancelStandsInTurn == [][focus = "in turn" => KeepsCancel]_<<focus, vars>>

\* In turn, a confirmed send is worked on until it is over.
WorkGoesOnInTurn == focus = "in turn" => WorkGoesOn
=============================================================================
