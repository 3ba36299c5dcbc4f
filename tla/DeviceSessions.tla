--------------------------- MODULE DeviceSessions ---------------------------
(***************************************************************************)
(* lib/deviceSessions.ts: one device at a time, for one account.  Clerk    *)
(* keeps the sessions; the first request of each claims its record here    *)
(* and signs out the sessions created before it, unless the account allows *)
(* several devices.  Left out: what a server remembers for ten seconds     *)
(* instead of reading the record again, and the device cookies.            *)
(***************************************************************************)
EXTENDS Integers, FiniteSets

CONSTANTS
  Sessions,     \* sessions the account may have
  BeforeRule,   \* those created before ONE_DEVICE_SINCE
  MaxTime,      \* bound: sessions are created at times 1 .. MaxTime
  MaxChanges,   \* bound: how often the person signs devices out or sets the policy
  MaxFailures,  \* bound: how often Clerk gives no list, or a handler stops half-way
  MaxRefusals,  \* bound: how many sessions Clerk does not end
  Ties          \* whether two sessions may be created in the same millisecond

VARIABLES
  created,   \* when Clerk created each session; 0: not yet
  clerk,     \* whether it is active at Clerk
  record,    \* its record here
  multi,     \* the policy: several devices
  check,     \* each session's first request: where it is, whom it signs out
  setting,   \* the same for a sign-out or a change of policy, by `by`
  clock, changes, failures, refusals,   \* time and the bounds' counters
  dismissed  \* history: sessions the person signed out, or left

vars == <<created, clerk, record, multi, check, setting, clock, changes, failures, refusals,
          dismissed>>

IdleCheck == [pc |-> "idle", ends |-> {}]
IdleSetting == [pc |-> "idle", by |-> {}, ends |-> {}]

Init ==
  /\ created = [s \in Sessions |-> 0]
  /\ clerk = [s \in Sessions |-> "none"]
  /\ record = [s \in Sessions |-> "none"]
  /\ multi = FALSE
  /\ check = [s \in Sessions |-> IdleCheck]
  /\ setting = IdleSetting
  /\ clock = 1 /\ changes = 0 /\ failures = 0 /\ refusals = 0
  /\ dismissed = {}

Active == {s \in Sessions : clerk[s] = "active"}
Checks(s, next) == check' = [check EXCEPT ![s] = next]

----------------------------------------------------------------------------
(* Clerk: a sign-in, a sign-out on the device itself, time.                *)

SignIn(s) ==
  /\ created[s] = 0
  /\ Ties \/ clock \notin {created[t] : t \in Sessions}
  /\ s \in BeforeRule <=> clock = 1
  /\ created' = [created EXCEPT ![s] = clock]
  /\ clerk' = [clerk EXCEPT ![s] = "active"]
  /\ UNCHANGED <<record, multi, check, setting, clock, changes, failures, dismissed, refusals>>

SignsOut(s) ==
  /\ clerk[s] = "active" /\ changes < MaxChanges
  /\ changes' = changes + 1
  /\ clerk' = [clerk EXCEPT ![s] = "ended"]
  /\ dismissed' = dismissed \cup {s}
  /\ UNCHANGED <<created, record, multi, check, setting, clock, failures, refusals>>

Ticks ==
  /\ clock < MaxTime
  /\ clock' = clock + 1
  /\ UNCHANGED <<created, clerk, record, multi, check, setting, changes, failures, dismissed, refusals>>

----------------------------------------------------------------------------
(* checkDevice and claim, for the requests that find no record.            *)

ReadRecord(s) ==
  /\ clerk[s] = "active" /\ record[s] = "none" /\ check[s].pc = "idle"
  /\ Checks(s, [pc |-> "claim", ends |-> {}])
  /\ UNCHANGED <<created, clerk, record, multi, setting, clock, changes, failures, dismissed, refusals>>

\* SET NX: one request wins; the others, or one that finds it revoked, are done.
Claim(s) ==
  /\ check[s].pc = "claim"
  /\ record' = IF record[s] = "none" THEN [record EXCEPT ![s] = "active"] ELSE record
  /\ Checks(s, IF record[s] = "none" THEN [pc |-> "list", ends |-> {}] ELSE IdleCheck)
  /\ UNCHANGED <<created, clerk, multi, setting, clock, changes, failures, dismissed, refusals>>

\* Mutants: it signs out all the others; only those created after it.
AllOthers(s) == {t \in Active : t # s}
Younger(s) == {t \in Active : t # s /\ created[t] > created[s]}
Older(s) == {t \in Active : t # s /\ created[t] <= created[s]}

\* The active sessions at Clerk: nobody is signed out by one that has ended,
\* or that was there before the rule.
ListSessions(s) ==
  /\ check[s].pc = "list"
  /\ Checks(s, IF s \in Active /\ s \notin BeforeRule THEN [pc |-> "policy", ends |-> Older(s)] ELSE IdleCheck)
  /\ UNCHANGED <<created, clerk, record, multi, setting, clock, changes, failures, dismissed, refusals>>

\* Clerk does not answer: the claim is taken back, whatever has become of it.
ListFails(s) ==
  /\ check[s].pc = "list" /\ failures < MaxFailures
  /\ failures' = failures + 1
  /\ record' = [record EXCEPT ![s] = "none"]
  /\ Checks(s, IdleCheck)
  /\ UNCHANGED <<created, clerk, multi, setting, clock, changes, dismissed, refusals>>

\* Those of S are marked as signed out.
Marks(S) == record' = [t \in Sessions |-> IF t \in S THEN "revoked" ELSE record[t]]

\* A KV call fails, or the function stops: the request is let through, a
\* claim stands, and of those to be signed out some are marked.
CheckStops(s) ==
  /\ check[s].pc # "idle" /\ failures < MaxFailures
  /\ failures' = failures + 1
  /\ \E S \in SUBSET check[s].ends : (S = {} \/ check[s].pc = "mark") /\ Marks(S)
  /\ Checks(s, IdleCheck)
  /\ UNCHANGED <<created, clerk, multi, setting, clock, changes, dismissed, refusals>>

ReadPolicy(s) ==
  /\ check[s].pc = "policy"
  /\ Checks(s, IF multi \/ check[s].ends = {} THEN IdleCheck ELSE [check[s] EXCEPT !.pc = "mark"])
  /\ UNCHANGED <<created, clerk, record, multi, setting, clock, changes, failures, dismissed, refusals>>

----------------------------------------------------------------------------
(* revoke: when all are marked, they are revoked at Clerk, where it may    *)
(* fail.                                                                   *)

MarkOlder(s) ==
  /\ check[s].pc = "mark"
  /\ Marks(check[s].ends)
  /\ Checks(s, [check[s] EXCEPT !.pc = "clerk"])
  /\ UNCHANGED <<created, clerk, multi, setting, clock, changes, failures, dismissed, refusals>>

\* Clerk ends those of S it can.
Ends(S) ==
  \E refused \in SUBSET S :
    /\ refusals + Cardinality(refused) <= MaxRefusals
    /\ refusals' = refusals + Cardinality(refused)
    /\ clerk' = [t \in Sessions |-> IF t \in S \ refused THEN "ended" ELSE clerk[t]]

RevokeAtClerk(s) ==
  /\ check[s].pc = "clerk"
  /\ Ends(check[s].ends)
  /\ Checks(s, IdleCheck)
  /\ UNCHANGED <<created, record, multi, setting, clock, changes, failures, dismissed>>

----------------------------------------------------------------------------
(* Settings: sign out one device or all others, allow several or not.      *)

\* Whoever may use the account.  (A request whose check fails is let through
\* too, that once.)
LetIn(s) == clerk[s] = "active" /\ record[s] = "active" /\ check[s].pc = "idle"

Begins(s, pc) ==
  /\ LetIn(s) /\ setting.pc = "idle" /\ changes < MaxChanges
  /\ changes' = changes + 1
  /\ setting' = [pc |-> pc, by |-> {s}, ends |-> {}]

SignOutDevice(s, t) ==
  /\ s # t /\ t \in Active
  /\ LetIn(s) /\ setting.pc = "idle" /\ changes < MaxChanges
  /\ changes' = changes + 1
  /\ setting' = [pc |-> "mark", by |-> {s}, ends |-> {t}]
  /\ UNCHANGED <<created, clerk, record, multi, check, clock, failures, dismissed, refusals>>

SignOutOthers(s) ==
  /\ Begins(s, "list")
  /\ UNCHANGED <<created, clerk, record, multi, check, clock, failures, dismissed, refusals>>

AllowSeveral(s) ==
  /\ LetIn(s) /\ ~multi /\ changes < MaxChanges
  /\ changes' = changes + 1
  /\ multi' = TRUE
  /\ UNCHANGED <<created, clerk, record, check, setting, clock, failures, dismissed, refusals>>

AllowOne(s) ==
  /\ multi /\ Begins(s, "list")
  /\ multi' = FALSE
  /\ UNCHANGED <<created, clerk, record, check, clock, failures, dismissed, refusals>>

OtherDevices == Active \ setting.by

ListOthers ==
  /\ setting.pc = "list"
  /\ setting' = [setting EXCEPT !.pc = "mark", !.ends = OtherDevices]
  /\ UNCHANGED <<created, clerk, record, multi, check, clock, changes, failures, dismissed, refusals>>

\* Clerk gives no list, a KV call fails, or the function stops.
SettingStops ==
  /\ setting.pc # "idle" /\ failures < MaxFailures
  /\ failures' = failures + 1
  /\ \E S \in SUBSET setting.ends :
       /\ S = {} \/ setting.pc = "mark"
       /\ Marks(S)
       /\ dismissed' = dismissed \cup S
  /\ setting' = IdleSetting
  /\ UNCHANGED <<created, clerk, multi, check, clock, changes, refusals>>

MarkOthers ==
  /\ setting.pc = "mark"
  /\ Marks(setting.ends)
  /\ dismissed' = dismissed \cup setting.ends
  /\ setting' = [setting EXCEPT !.pc = "clerk"]
  /\ UNCHANGED <<created, clerk, multi, check, clock, changes, failures, refusals>>

RevokeOthers ==
  /\ setting.pc = "clerk"
  /\ Ends(setting.ends)
  /\ setting' = IdleSetting
  /\ UNCHANGED <<created, record, multi, check, clock, changes, failures, dismissed>>

----------------------------------------------------------------------------

CheckSteps(s) ==
  ReadRecord(s) \/ Claim(s) \/ ListSessions(s) \/ ReadPolicy(s) \/ MarkOlder(s) \/ RevokeAtClerk(s)
SettingSteps == ListOthers \/ MarkOthers \/ RevokeOthers

Next ==
  \/ Ticks \/ SettingSteps \/ SettingStops
  \/ \E s \in Sessions :
       \/ SignIn(s) \/ SignsOut(s) \/ CheckSteps(s) \/ ListFails(s) \/ CheckStops(s)
       \/ SignOutOthers(s) \/ AllowSeveral(s) \/ AllowOne(s)
       \/ \E t \in Sessions : SignOutDevice(s, t)

Spec == Init /\ [][Next]_vars

----------------------------------------------------------------------------
(* Properties.                                                             *)

\* Every variable has its type.
TypeOK ==
  /\ created \in [Sessions -> 0 .. MaxTime]
  /\ clerk \in [Sessions -> {"none", "active", "ended"}]
  /\ record \in [Sessions -> {"none", "active", "revoked"}]
  /\ multi \in BOOLEAN
  /\ check \in [Sessions -> [pc : {"idle", "claim", "list", "policy", "mark", "clerk"}, ends : SUBSET Sessions]]
  /\ setting \in [pc : {"idle", "list", "mark", "clerk"}, by : SUBSET Sessions, ends : SUBSET Sessions]
  /\ clock \in 1 .. MaxTime /\ changes \in 0 .. MaxChanges /\ failures \in 0 .. MaxFailures
  /\ refusals \in 0 .. MaxRefusals
  /\ dismissed \subseteq Sessions

\* Two devices signing in do not end each other: whoever signed in last is
\* not signed out by the rule, in whatever order the first requests run.
NewestStaysIn ==
  \A s \in Sessions :
    (clerk[s] # "none" /\ \A t \in Sessions \ {s} : created[t] < created[s])
      => record[s] # "revoked" \/ s \in dismissed

\* The account allows one device and nothing is in flight.
Quiet == ~multi /\ setting = IdleSetting /\ \A s \in Sessions : check[s] = IdleCheck

\* Of any two devices that are let in, both were there before the rule.
OneIsIn == \A s, t \in {x \in Sessions : LetIn(x)} : s = t \/ {s, t} \subseteq BeforeRule

\* One device: with nothing in flight, also when Clerk does not end what it
\* was told to end ("the mark alone already keeps the device out"), unless
\* Clerk once gave no list or a handler stopped half-way.
OneDevice == Quiet /\ failures = 0 => OneIsIn

\* What claim takes its record back for: "so a later request of this session
\* tries again rather than the sign-in never signing the others out".
\* Not kept when the handler stops after the claim (README).
SignInEndsOthers == Quiet => OneIsIn
=============================================================================
