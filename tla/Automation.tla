----------------------------- MODULE Automation -----------------------------
(***************************************************************************)
(* lib/automation/runner.ts and lib/ops/jobs.ts: one automation rule.  The *)
(* dispatcher's tick and an administrator's "Run now" run it under the     *)
(* rule's lock; each subject it finds is claimed before it is acted on and *)
(* handed back when that fails.  A rule that fails several times in a row  *)
(* is marked failing and raises an alert.  The rule's state is read and    *)
(* written back whole, outside the lock.                                   *)
(*                                                                         *)
(* Subjects are the ones found throughout, each with the period it is      *)
(* for; a failed action is one that did nothing.  Left out: cooldowns,     *)
(* actions that keep claims of their own, dry runs, run histories; that a  *)
(* claim expires after 400 days.                                           *)
(***************************************************************************)
EXTENDS Integers, FiniteSets

CONSTANTS
  Subjects,     \* what the rule finds to act on, with its period
  Calls,        \* requests that may be in flight at once
  Kinds,        \* of what kinds in this instance
  MaxPerRun,    \* options.maxPerRun
  Threshold,    \* options.failureThreshold
  MaxCalls,     \* bound: how many of an administrator's requests are made
  MaxFailures,  \* bound: how often finding or acting fails
  MaxSkips,     \* bound: how often there is nothing to send to
  MaxDeaths,    \* bound: how many calls die while they act
  Overlap       \* whether a request begins while another is in flight

VARIABLES
  active,    \* the rule's status
  state,     \* its stored state: when it runs next, its failures
  lock,      \* the rule's job lock
  claims,    \* who has claimed each subject
  done,      \* how often each has been acted on
  alert,     \* whether the failure alert is open
  call,      \* each request
  calls, failures, skips, deaths,  \* the bounds' counters
  lastRun    \* history: how the last finished run went

bounds == <<calls, failures, skips, deaths>>
vars == <<active, state, lock, claims, done, alert, call, bounds, lastRun>>

\* nextRunAt is null, still to come, or past.
States == [next : {"none", "later", "due"}, streak : 0 .. Threshold, failing : BOOLEAN]
NewState == [next |-> "none", streak |-> 0, failing |-> FALSE]

IdleCall == [kind |-> "none", pc |-> "idle", todo |-> {}, at |-> {}, good |-> FALSE,
             bad |-> FALSE, active |-> FALSE, copy |-> NewState]

Init ==
  /\ active \in BOOLEAN
  /\ state = NewState
  /\ lock = "none"
  /\ claims = [s \in Subjects |-> "none"]
  /\ done = [s \in Subjects |-> 0]
  /\ alert = FALSE
  /\ call = [c \in Calls |-> IdleCall]
  /\ calls = 0 /\ failures = 0 /\ skips = 0 /\ deaths = 0
  /\ lastRun = "none"

At(c, kind, pc) == call[c].kind = kind /\ call[c].pc = pc
Goes(c, next) == call' = [call EXCEPT ![c] = next]
To(c, pc) == Goes(c, [call[c] EXCEPT !.pc = pc])
Finished(c) == Goes(c, IdleCall)
InFlight == {c \in Calls : call[c].pc # "idle"}
Free(c) == call[c].pc = "idle" /\ (~Overlap => InFlight = {})

----------------------------------------------------------------------------
(* The dispatcher's tick (two never overlap), and Run now.                 *)

Tick(c) ==
  /\ Free(c) /\ \A o \in Calls : call[o].kind # "tick"
  /\ active
  /\ Goes(c, [IdleCall EXCEPT !.kind = "tick", !.pc = "due"])
  /\ UNCHANGED <<active, state, lock, claims, done, alert, bounds, lastRun>>

\* Never scheduled: from now.  Due in its quiet hours: held back.
WhetherDue(c) ==
  /\ At(c, "tick", "due")
  /\ \/ /\ state.next = "later" /\ Finished(c)
     \/ /\ state.next \in {"none", "due"}
        /\ Goes(c, [call[c] EXCEPT !.pc = "next", !.copy = state])
     \/ /\ state.next = "due" /\ To(c, "lock")
  /\ UNCHANGED <<active, state, lock, claims, done, alert, bounds, lastRun>>

AdminMay(c, kind) ==
  /\ kind \in Kinds /\ Free(c) /\ calls < MaxCalls
  /\ calls' = calls + 1

\* Works on a paused rule too.
RunNow(c) ==
  /\ AdminMay(c, "run now")
  /\ Goes(c, [IdleCall EXCEPT !.kind = "run now", !.pc = "lock"])
  /\ UNCHANGED <<active, state, lock, claims, done, alert, failures, skips, deaths, lastRun>>

----------------------------------------------------------------------------
(* The run, under the job's lock.                                          *)

TakeLock(c) ==
  /\ call[c].pc = "lock"
  /\ IF lock = "none"
     THEN lock' = c /\ To(c, "find")
     ELSE UNCHANGED lock /\ To(c, "locked")
  /\ UNCHANGED <<active, state, claims, done, alert, bounds, lastRun>>

\* "Another run was in progress" is written into the state, read first.
ReadToSayLocked(c) ==
  /\ call[c].pc = "locked"
  /\ Goes(c, [call[c] EXCEPT !.pc = "say locked", !.copy = state])
  /\ UNCHANGED <<active, state, lock, claims, done, alert, bounds, lastRun>>

SayLocked(c) ==
  /\ call[c].pc = "say locked"
  /\ state' = call[c].copy
  /\ Finished(c)
  /\ UNCHANGED <<active, lock, claims, done, alert, bounds, lastRun>>

Unclaimed == {s \in Subjects : claims[s] = "none"}

\* Mutant: stops one short of what it may reach.
OneShort == {S \in SUBSET Unclaimed : Cardinality(S) < MaxPerRun}

\* Of those nobody has claimed, as many as one run may reach.
Allowed == {S \in SUBSET Unclaimed :
              Cardinality(S) = IF Cardinality(Unclaimed) < MaxPerRun THEN Cardinality(Unclaimed)
                               ELSE MaxPerRun}

Find(c) ==
  /\ call[c].pc = "find"
  /\ \E S \in Allowed : Goes(c, [call[c] EXCEPT !.pc = "act", !.todo = S])
  /\ UNCHANGED <<active, state, lock, claims, done, alert, bounds, lastRun>>

FindFails(c) ==
  /\ call[c].pc = "find" /\ failures < MaxFailures
  /\ failures' = failures + 1
  /\ Goes(c, [call[c] EXCEPT !.pc = "act", !.bad = TRUE])
  /\ UNCHANGED <<active, state, lock, claims, done, alert, calls, skips, deaths, lastRun>>

ClaimWon(s) == claims[s] = "none"

Claim(c) ==
  /\ call[c].pc = "act"
  /\ \E s \in call[c].todo :
       IF ClaimWon(s)
       THEN /\ claims' = [claims EXCEPT ![s] = c]
            /\ Goes(c, [call[c] EXCEPT !.pc = "perform", !.todo = @ \ {s}, !.at = {s}])
       ELSE /\ UNCHANGED claims
            /\ Goes(c, [call[c] EXCEPT !.todo = @ \ {s}])
  /\ UNCHANGED <<active, state, lock, done, alert, bounds, lastRun>>

Perform(c) ==
  /\ call[c].pc = "perform"
  /\ done' = [s \in Subjects |-> IF s \in call[c].at THEN done[s] + 1 ELSE done[s]]
  /\ Goes(c, [call[c] EXCEPT !.pc = "act", !.at = {}, !.good = TRUE])
  /\ UNCHANGED <<active, state, lock, claims, alert, bounds, lastRun>>

PerformFails(c) ==
  /\ call[c].pc = "perform" /\ failures < MaxFailures
  /\ failures' = failures + 1
  /\ Goes(c, [call[c] EXCEPT !.pc = "release", !.bad = TRUE])
  /\ UNCHANGED <<active, state, lock, claims, done, alert, calls, skips, deaths, lastRun>>

NothingToSendTo(c) ==
  /\ call[c].pc = "perform" /\ skips < MaxSkips
  /\ skips' = skips + 1
  /\ To(c, "release")
  /\ UNCHANGED <<active, state, lock, claims, done, alert, calls, failures, deaths, lastRun>>

\* Mutant: hands back all that the run has claimed.
AllHandedBack(c) == [s \in Subjects |-> IF claims[s] = c THEN "none" ELSE claims[s]]

HandedBack(c) == [s \in Subjects |-> IF s \in call[c].at /\ claims[s] = c THEN "none" ELSE claims[s]]

Release(c) ==
  /\ call[c].pc = "release"
  /\ claims' = HandedBack(c)
  /\ Goes(c, [call[c] EXCEPT !.pc = "act", !.at = {}])
  /\ UNCHANGED <<active, state, lock, done, alert, bounds, lastRun>>

\* It failed when it could not start, or all it tried failed.
Failed(c) == call[c].bad /\ ~call[c].good

Unlock(c) ==
  /\ call[c].pc = "act" /\ call[c].todo = {}
  /\ lock' = IF lock = c THEN "none" ELSE lock
  /\ lastRun' = IF Failed(c) THEN "failed" ELSE "good"
  /\ To(c, "after")
  /\ UNCHANGED <<active, state, claims, done, alert, bounds>>

ReadAfter(c) ==
  /\ call[c].pc = "after"
  /\ Goes(c, [call[c] EXCEPT !.pc = "judge", !.copy = state])
  /\ UNCHANGED <<active, state, lock, claims, done, alert, bounds, lastRun>>

\* Mutant: a good run ends the streak and nothing else.
StreakOnly(s, failed) ==
  [s EXCEPT !.streak = IF ~failed THEN 0 ELSE IF @ < Threshold THEN @ + 1 ELSE @,
            !.failing = @ \/ (failed /\ s.streak + 1 >= Threshold)]
\* The streak is counted up to the threshold.
Judged(s, failed) ==
  [s EXCEPT !.streak = IF ~failed THEN 0 ELSE IF @ < Threshold THEN @ + 1 ELSE @,
            !.failing = failed /\ (@ \/ s.streak + 1 >= Threshold)]

\* The alert follows `failing` when it changes, before it is stored.
Judge(c) ==
  LET before == call[c].copy
      after == Judged(before, Failed(c))
  IN /\ call[c].pc = "judge"
     /\ alert' = IF after.failing # before.failing THEN after.failing ELSE alert
     /\ Goes(c, [call[c] EXCEPT !.pc = "save", !.copy = after])
     /\ UNCHANGED <<active, state, lock, claims, done, bounds, lastRun>>

Save(c) ==
  /\ call[c].pc = "save"
  /\ state' = call[c].copy
  /\ IF call[c].kind = "tick" THEN To(c, "again") ELSE Finished(c)
  /\ UNCHANGED <<active, lock, claims, done, alert, bounds, lastRun>>

ReadAgain(c) ==
  /\ At(c, "tick", "again")
  /\ Goes(c, [call[c] EXCEPT !.pc = "next", !.copy = state])
  /\ UNCHANGED <<active, state, lock, claims, done, alert, bounds, lastRun>>

SaveNext(c) ==
  /\ At(c, "tick", "next")
  /\ state' = [call[c].copy EXCEPT !.next = "later"]
  /\ Finished(c)
  /\ UNCHANGED <<active, lock, claims, done, alert, bounds, lastRun>>

----------------------------------------------------------------------------
(* Pause and resume: the rule is saved, then rescheduled; a resumed one    *)
(* starts with no failures.                                                *)

SetStatus(c) ==
  /\ AdminMay(c, "status")
  /\ active' = ~active
  /\ Goes(c, [IdleCall EXCEPT !.kind = "status", !.pc = "read", !.active = ~active])
  /\ UNCHANGED <<state, lock, claims, done, alert, failures, skips, deaths, lastRun>>

ReadToReschedule(c) ==
  /\ At(c, "status", "read")
  /\ Goes(c, [call[c] EXCEPT !.pc = "reschedule", !.copy =
                [state EXCEPT !.next = IF call[c].active THEN "later" ELSE "none"]])
  /\ UNCHANGED <<active, state, lock, claims, done, alert, bounds, lastRun>>

Reschedule(c) ==
  /\ At(c, "status", "reschedule")
  /\ state' = call[c].copy
  /\ IF call[c].active THEN To(c, "fresh start") ELSE Finished(c)
  /\ UNCHANGED <<active, lock, claims, done, alert, bounds, lastRun>>

FreshStart(c) ==
  /\ At(c, "status", "fresh start")
  /\ state' = [call[c].copy EXCEPT !.streak = 0]
  /\ Finished(c)
  /\ UNCHANGED <<active, lock, claims, done, alert, bounds, lastRun>>

----------------------------------------------------------------------------
(* Time, and calls killed at their time limit while they act.              *)

TimeComes ==
  /\ state.next = "later"
  /\ state' = [state EXCEPT !.next = "due"]
  /\ UNCHANGED <<active, lock, claims, done, alert, call, bounds, lastRun>>

Dies(c) ==
  /\ call[c].pc \in {"find", "act", "perform", "release"} /\ deaths < MaxDeaths
  /\ deaths' = deaths + 1
  /\ lock' = "dead"
  /\ claims' = [s \in Subjects |-> IF claims[s] = c THEN "dead" ELSE claims[s]]
  /\ Finished(c)
  /\ UNCHANGED <<active, state, done, alert, calls, failures, skips, lastRun>>

LockExpires ==
  /\ lock = "dead"
  /\ lock' = "none"
  /\ UNCHANGED <<active, state, claims, done, alert, call, bounds, lastRun>>

----------------------------------------------------------------------------

RunSteps(c) ==
  \/ WhetherDue(c) \/ TakeLock(c) \/ ReadToSayLocked(c) \/ SayLocked(c)
  \/ Find(c) \/ Claim(c) \/ Perform(c) \/ Release(c) \/ Unlock(c)
  \/ ReadAfter(c) \/ Judge(c) \/ Save(c) \/ ReadAgain(c) \/ SaveNext(c)
  \/ ReadToReschedule(c) \/ Reschedule(c) \/ FreshStart(c)
Mishaps(c) == FindFails(c) \/ PerformFails(c) \/ NothingToSendTo(c) \/ Dies(c)

Next ==
  \/ TimeComes \/ LockExpires
  \/ \E c \in Calls : Tick(c) \/ RunNow(c) \/ SetStatus(c) \/ RunSteps(c) \/ Mishaps(c)

Spec == Init /\ [][Next]_vars

\* The cron calls every five minutes, calls run on, a tick does not find the
\* rule in its quiet hours for ever.
Fairness ==
  /\ WF_vars(TimeComes) /\ WF_vars(LockExpires)
  /\ \A c \in Calls :
       /\ WF_vars(RunSteps(c))
       /\ SF_vars(Tick(c))
       /\ SF_vars(At(c, "tick", "due") /\ state.next = "due" /\ To(c, "lock") /\ WhetherDue(c))

FairSpec == Spec /\ Fairness

----------------------------------------------------------------------------
(* Properties.                                                             *)

\* Every variable has its type.
TypeOK ==
  /\ active \in BOOLEAN /\ alert \in BOOLEAN
  /\ state \in States
  /\ lock \in Calls \cup {"none", "dead"}
  /\ claims \in [Subjects -> Calls \cup {"none", "dead"}]
  /\ done \in [Subjects -> Nat]
  /\ \A c \in Calls :
       /\ call[c].todo \cup call[c].at \subseteq Subjects
       /\ call[c].copy \in States
  /\ \A n \in {calls, failures, skips, deaths} : n \in Nat
  /\ lastRun \in {"none", "good", "failed"}

Once == INSTANCE AtMostOnce WITH
  Items <- Subjects, taken <- {s \in Subjects : claims[s] # "none"}, given <- done

\* "A rule that runs twice, or a run retried after it died half-way, reaches
\* each person once per period": never twice, and only after a claim.
ReachesEachOnce == Once!SpecWithReturns

\* Nobody is left for the next run for ever: as long as the rule is active in
\* the end, everyone it finds is reached, but for those whose run died
\* between claiming them and acting.
NobodyLeftOut ==
  <>[]active => \A s \in Subjects : <>(done[s] > 0 \/ claims[s] = "dead")

\* "Its next good run clears both": when nothing is in flight and the last
\* run was good, the rule is not failing and its alert is not open.  (With
\* runs one at a time; and no call dies between the alert and the state.)
GoodRunClears ==
  InFlight = {} /\ lastRun = "good" => ~state.failing /\ ~alert
=============================================================================
