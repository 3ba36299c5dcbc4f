----------------------------- MODULE Takeover -----------------------------
(***************************************************************************)
(* lib/automation/runner.ts and lib/ops/cron.ts: a rule that replaces a    *)
(* cron job.  While the rule is active the dispatcher's ticks keep a key   *)
(* there, and the cron's own run stands down when it finds it.  Pausing    *)
(* the rule deletes the key; it expires when the ticks stop.               *)
(*                                                                         *)
(* Rule and cron are due once a day, at the same time.                     *)
(***************************************************************************)
EXTENDS Integers

CONSTANTS
  MaxChanges,  \* bound: how often an administrator pauses or resumes the rule
  MaxStops     \* bound: how often the dispatcher stops being called

VARIABLES
  rule,      \* its status
  key,       \* whether the cron's key is there
  dispatch,  \* the dispatcher's tick: where it is, the status it read
  admin,     \* a pause or resume that still has to see to the key
  up,        \* whether the dispatcher is called
  ruleDue, cronDue,   \* what the day has still to bring
  ran,       \* whether the job has run today
  changes, stops      \* the bounds' counters

vars == <<rule, key, dispatch, admin, up, ruleDue, cronDue, ran, changes, stops>>

Statuses == {"active", "paused"}
Idle == [pc |-> "idle", seen |-> "paused"]

Init ==
  /\ rule \in Statuses
  /\ key = FALSE
  /\ dispatch = Idle /\ admin = Idle
  /\ up = TRUE
  /\ ruleDue = FALSE /\ cronDue = FALSE /\ ran = FALSE
  /\ changes = 0 /\ stops = 0

----------------------------------------------------------------------------
(* The dispatcher.                                                         *)

ReadRules ==
  /\ dispatch = Idle /\ up
  /\ dispatch' = [pc |-> "sync", seen |-> rule]
  /\ UNCHANGED <<rule, key, admin, up, ruleDue, cronDue, ran, changes, stops>>

\* Mutant: a paused rule leaves the key.
OnlySets(status) == key \/ status = "active"
\* Set while active; deleted when its rule is paused.
KeyFor(status) == status = "active"

SyncReplacements ==
  /\ dispatch.pc = "sync"
  /\ key' = KeyFor(dispatch.seen)
  /\ dispatch' = IF dispatch.seen = "active" THEN [dispatch EXCEPT !.pc = "run"] ELSE Idle
  /\ UNCHANGED <<rule, admin, up, ruleDue, cronDue, ran, changes, stops>>

RunDueRule ==
  /\ dispatch.pc = "run"
  /\ ran' = (ran \/ ruleDue)
  /\ ruleDue' = FALSE
  /\ dispatch' = Idle
  /\ UNCHANGED <<rule, key, admin, up, cronDue, changes, stops>>

\* Vercel stops or starts calling it; thirty minutes without ticks.
Stops ==
  /\ up /\ stops < MaxStops
  /\ stops' = stops + 1
  /\ up' = FALSE /\ dispatch' = Idle
  /\ UNCHANGED <<rule, key, admin, ruleDue, cronDue, ran, changes>>

Starts ==
  /\ ~up /\ up' = TRUE
  /\ UNCHANGED <<rule, key, dispatch, admin, ruleDue, cronDue, ran, changes, stops>>

Lapsed == key /\ ~up

KeyExpires ==
  /\ Lapsed
  /\ key' = FALSE
  /\ UNCHANGED <<rule, dispatch, admin, up, ruleDue, cronDue, ran, changes, stops>>

----------------------------------------------------------------------------
(* The cron, the day, the administrator.                                   *)

NewDay ==
  /\ ~cronDue
  /\ ruleDue' = TRUE /\ cronDue' = TRUE /\ ran' = FALSE
  /\ UNCHANGED <<rule, key, dispatch, admin, up, changes, stops>>

CronRoute ==
  /\ cronDue
  /\ cronDue' = FALSE
  /\ ran' = (ran \/ ~key)
  /\ UNCHANGED <<rule, key, dispatch, admin, up, ruleDue, changes, stops>>

\* Saved and rescheduled (from now: the next run is tomorrow's), then synced.
SetStatus(status) ==
  /\ admin = Idle /\ rule # status /\ changes < MaxChanges
  /\ changes' = changes + 1
  /\ rule' = status
  /\ ruleDue' = FALSE
  /\ admin' = [pc |-> "sync", seen |-> status]
  /\ UNCHANGED <<key, dispatch, up, cronDue, ran, stops>>

AdminSyncs ==
  /\ admin.pc = "sync"
  /\ key' = KeyFor(admin.seen)
  /\ admin' = Idle
  /\ UNCHANGED <<rule, dispatch, up, ruleDue, cronDue, ran, changes, stops>>

----------------------------------------------------------------------------

Next ==
  \/ ReadRules \/ SyncReplacements \/ RunDueRule \/ Stops \/ Starts \/ KeyExpires
  \/ NewDay \/ CronRoute \/ AdminSyncs
  \/ \E status \in Statuses : SetStatus(status)

Spec == Init /\ [][Next]_vars

\* The cron is called every day, requests run on, and a dispatcher that is
\* called ticks every five minutes.
Fairness ==
  /\ WF_vars(NewDay \/ CronRoute) /\ WF_vars(KeyExpires) /\ WF_vars(AdminSyncs)
  /\ WF_vars(ReadRules \/ SyncReplacements \/ RunDueRule)

FairSpec == Spec /\ Fairness

----------------------------------------------------------------------------
(* Properties.                                                             *)

\* Every variable has its type.
TypeOK ==
  /\ rule \in Statuses /\ {key, up, ruleDue, cronDue, ran} \subseteq BOOLEAN
  /\ dispatch \in [pc : {"idle", "sync", "run"}, seen : Statuses]
  /\ admin \in [pc : {"idle", "sync"}, seen : Statuses]
  /\ changes \in 0 .. MaxChanges /\ stops \in 0 .. MaxStops

\* "The job is never left with nobody": whatever is paused, resumed or
\* stops, it runs again and again (though a day may be missed).
NeverLeftWithNobody == []<>ran
=============================================================================
