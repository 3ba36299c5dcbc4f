----------------------------- MODULE MCDispatch -----------------------------
(***************************************************************************)
(* What the dispatchers' ticks must get done, whoever stops calling: small *)
(* instances of two protocols, one per behaviour (`focus`) while the       *)
(* variables of the other stand still:                                     *)
(*   "queue"  the meetings' job queue;                                     *)
(*   "cron"   a cron job that an automation rule replaces.                 *)
(***************************************************************************)
EXTENDS MCJobQueue

VARIABLES
  focus,
  rule, key, dispatch, admin, up, ruleDue, cronDue, ran, changes, stops

Cron == INSTANCE Takeover WITH MaxChanges <- 3, MaxStops <- 2
cronVars == <<rule, key, dispatch, admin, up, ruleDue, cronDue, ran, changes, stops>>

DispatchInit ==
  /\ focus \in {"queue", "cron"}
  /\ Init /\ Cron!Init
  /\ focus # "cron" => rule = "paused"

DispatchNext ==
  /\ UNCHANGED focus
  /\ \/ focus = "queue" /\ Next /\ UNCHANGED cronVars
     \/ focus = "cron" /\ Cron!Next /\ UNCHANGED vars

\* JobQueue's fairness and Takeover's, of the behaviours in which they move.
QueueFairness ==
  /\ WF_vars(focus = "queue" /\ Tick)
  /\ WF_vars(focus = "queue" /\ \E t \in Ticks : BeginTick(t))
  /\ \A t \in Ticks : WF_vars(focus = "queue" /\ TickSteps(t))
  /\ \A c \in Callers : WF_vars(focus = "queue" /\ CallerSteps(c))

CronFairness ==
  /\ WF_cronVars(focus = "cron" /\ (Cron!NewDay \/ Cron!CronRoute))
  /\ WF_cronVars(focus = "cron" /\ Cron!KeyExpires)
  /\ WF_cronVars(focus = "cron" /\ Cron!AdminSyncs)
  /\ WF_cronVars(focus = "cron" /\ (Cron!ReadRules \/ Cron!SyncReplacements \/ Cron!RunDueRule))

DispatchSpec ==
  /\ DispatchInit /\ [][DispatchNext]_<<focus, vars, cronVars>>
  /\ QueueFairness /\ CronFairness

----------------------------------------------------------------------------

\* Takeover: the replaced job runs again and again.
NeverLeftWithNobody == focus = "cron" => Cron!NeverLeftWithNobody
=============================================================================
