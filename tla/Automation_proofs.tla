------------------------- MODULE Automation_proofs -------------------------
(***************************************************************************)
(* Automation for any subjects, any calls in flight and any bounds: its    *)
(* types; that it implements AtMostOnce, calls overlapping, failing and    *)
(* dying; and, with calls one at a time, that a good run clears the        *)
(* failing mark and the alert.                                             *)
(***************************************************************************)
EXTENDS Automation, TLAPS

\* What the theorems take of the constants: no call is named like the
\* absence of one, the threshold is a number.
Instance ==
  /\ "none" \notin Calls /\ "dead" \notin Calls
  /\ Threshold \in Nat

CallPcs == {"idle", "due", "next", "lock", "locked", "say locked", "find", "act", "perform",
            "release", "after", "judge", "save", "again", "read", "reschedule", "fresh start"}
CallType == [kind : {"none", "tick", "run now", "status"}, pc : CallPcs, todo : SUBSET Subjects,
             at : SUBSET Subjects, good : BOOLEAN, bad : BOOLEAN, active : BOOLEAN, copy : States]

IndTypeOK == TypeOK /\ call \in [Calls -> CallType]

----------------------------------------------------------------------------
(* The states and the calls.                                               *)

LEMMA NewStateIs == ASSUME Instance PROVE NewState \in States
<1>1. 0 \in 0 .. Threshold BY DEF Instance
<1>. QED BY <1>1 DEF NewState, States

\* Time, and a rescheduling, change when it runs next and nothing else.
LEMMA NextIs ==
  ASSUME NEW st \in States, NEW when \in {"none", "later", "due"}
  PROVE  /\ [st EXCEPT !.next = when] \in States
         /\ [st EXCEPT !.next = when].failing = st.failing
BY DEF States

\* Starting afresh forgets the streak and nothing else.
LEMMA FreshIs ==
  ASSUME Instance, NEW st \in States
  PROVE  [st EXCEPT !.streak = 0] \in States /\ [st EXCEPT !.streak = 0].failing = st.failing
<1>1. 0 \in 0 .. Threshold BY DEF Instance
<1>. QED BY <1>1 DEF States

\* A judgement counts up to the threshold; a good run is not failing.
LEMMA JudgedIs ==
  ASSUME Instance, NEW st \in States, NEW failed \in BOOLEAN
  PROVE  Judged(st, failed) \in States /\ (~failed => ~Judged(st, failed).failing)
<1> DEFINE streak == IF ~failed THEN 0 ELSE IF st.streak < Threshold THEN st.streak + 1 ELSE st.streak
           failing == failed /\ (st.failing \/ st.streak + 1 >= Threshold)
<1>1. Judged(st, failed) = [st EXCEPT !.streak = streak, !.failing = failing] BY DEF Judged, States
<1>2. st.streak \in 0 .. Threshold BY DEF States
<1>3. streak \in 0 .. Threshold BY <1>2 DEF Instance
<1>4. failing \in BOOLEAN OBVIOUS
<1>5. ~failed => ~failing OBVIOUS
<1> HIDE DEF streak, failing
<1>6. [st EXCEPT !.streak = streak, !.failing = failing] \in States BY <1>3, <1>4 DEF States
<1>7. [st EXCEPT !.streak = streak, !.failing = failing].failing = failing BY DEF States
<1>. QED BY <1>1, <1>5, <1>6, <1>7

LEMMA IdleIs ==
  ASSUME Instance
  PROVE  IdleCall \in CallType /\ IdleCall.pc = "idle"
BY NewStateIs DEF IdleCall, CallType, CallPcs

\* A call goes on to another place, with all it has.
LEMMA ToIs ==
  ASSUME NEW k \in CallType, NEW pc \in CallPcs
  PROVE  /\ [k EXCEPT !.pc = pc] \in CallType
         /\ [k EXCEPT !.pc = pc].pc = pc
         /\ [k EXCEPT !.pc = pc].at = k.at
         /\ [k EXCEPT !.pc = pc].copy = k.copy
         /\ [k EXCEPT !.pc = pc].good = k.good
         /\ [k EXCEPT !.pc = pc].bad = k.bad
BY DEF CallType

OthersStay(c) == \A d \in Calls : d # c => call'[d] = call[d]

LEMMA GoesIs ==
  ASSUME call \in [Calls -> CallType], NEW c \in Calls, NEW n \in CallType, Goes(c, n)
  PROVE  call' \in [Calls -> CallType] /\ call'[c] = n /\ OthersStay(c)
BY DEF Goes, OthersStay

----------------------------------------------------------------------------
(* The invariant: who acts on a subject has its claim, and nobody has yet. *)

Holds(k, c, claim, reached) ==
  k.pc \in {"perform", "release"} => \E s \in Subjects : k.at = {s} /\ claim[s] = c /\ reached[s] = 0

Hands == \A c \in Calls : Holds(call[c], c, claims, done)

\* Who has been acted on is claimed for good.
Reached == \A s \in Subjects : done[s] # 0 => claims[s] # "none"

Sound == IndTypeOK /\ Hands /\ Reached

\* A call's step that leaves the other calls' claims alone.
LEMMA StepSound ==
  ASSUME Sound, NEW c \in Calls, NEW n \in CallType, Goes(c, n),
         Holds(n, c, claims', done'),
         \A d \in Calls \ {c}, s \in Subjects :
           claims[s] = d /\ done[s] = 0 => claims'[s] = d /\ done'[s] = 0,
         Reached', TypeOK'
  PROVE  Sound'
<1>1. call' \in [Calls -> CallType] /\ call'[c] = n /\ OthersStay(c)
  BY GoesIs DEF Sound, IndTypeOK
<1>2. Hands'
  <2>1. SUFFICES ASSUME NEW d \in Calls PROVE Holds(call'[d], d, claims', done') BY DEF Hands
  <2>2. CASE d = c BY <1>1, <2>2
  <2>3. CASE d # c
    <3>1. call'[d] = call[d] BY <1>1, <2>3 DEF OthersStay
    <3>2. Holds(call[d], d, claims, done) BY DEF Sound, Hands
    <3>. QED BY <2>3, <3>1, <3>2 DEF Holds
  <2>. QED BY <2>2, <2>3
<1>. QED BY <1>1, <1>2 DEF Sound, IndTypeOK

\* A call's step that claims, acts and hands back nothing.
LEMMA QuietSound ==
  ASSUME Sound, NEW c \in Calls, NEW n \in CallType, Goes(c, n),
         n.pc \in {"perform", "release"} => n.at = call[c].at /\ call[c].pc \in {"perform", "release"},
         UNCHANGED <<claims, done>>,
         active' \in BOOLEAN, alert' \in BOOLEAN, state' \in States,
         lock' \in Calls \cup {"none", "dead"},
         calls' \in Nat, failures' \in Nat, skips' \in Nat, deaths' \in Nat,
         lastRun' \in {"none", "good", "failed"}
  PROVE  Sound'
<1>1. call' \in [Calls -> CallType] BY GoesIs DEF Sound, IndTypeOK
<1>2. \A d \in Calls : /\ call'[d].todo \cup call'[d].at \subseteq Subjects
                       /\ call'[d].copy \in States
  BY <1>1 DEF CallType
<1>3. TypeOK'
  <2>1. \A i \in {calls', failures', skips', deaths'} : i \in Nat OBVIOUS
  <2>. QED BY <1>2, <2>1 DEF Sound, IndTypeOK, TypeOK
<1>4. Holds(n, c, claims', done')
  <2>1. Holds(call[c], c, claims, done) BY DEF Sound, Hands
  <2>. QED BY <2>1 DEF Holds
<1>5. Reached' BY DEF Sound, Reached
<1>. QED BY <1>3, <1>4, <1>5, StepSound

----------------------------------------------------------------------------
(* What a call in flight knows of the failing mark and the alert: its copy *)
(* of the state says what the state says, and so does the alert, but for   *)
(* one between judging and saving; after a good run it will say no.        *)

CopyPcs == {"say locked", "next", "judge", "reschedule", "fresh start"}

Knows(k, failing, alarm, last) ==
  /\ k.pc \in CopyPcs => (k.copy.failing <=> failing)
  /\ k.pc = "save" => (alarm <=> k.copy.failing) /\ (last = "good" => ~k.copy.failing)
  /\ k.pc # "save" => (alarm <=> failing)
  /\ k.pc \in {"after", "judge"} => (last = "good" => ~(k.bad /\ ~k.good))
  /\ k.pc \notin {"after", "judge", "save"} => (last = "good" => ~failing)

\* A step of c's that leaves it knowing as much.
Advances(c) ==
  \E n \in CallType :
    /\ Goes(c, n)
    /\ Knows(call[c], state.failing, alert, lastRun) => Knows(n, state'.failing, alert', lastRun')

\* Its places where neither matters.
PlainPcs == CallPcs \ (CopyPcs \cup {"save", "after", "judge"})

LEMMA KnowsPlain ==
  ASSUME NEW k, NEW n, k.pc \in PlainPcs, n.pc \in PlainPcs,
         NEW failing, NEW alarm, NEW last, Knows(k, failing, alarm, last)
  PROVE  Knows(n, failing, alarm, last)
BY DEF Knows, PlainPcs

\* The steps that only go from one plain place to another.
PlainSteps(c) ==
  Tick(c) \/ RunNow(c) \/ SetStatus(c) \/ TakeLock(c) \/ Find(c) \/ FindFails(c)
    \/ PerformFails(c) \/ NothingToSendTo(c)

LEMMA PlainSound ==
  ASSUME Instance, Sound, NEW c \in Calls, PlainSteps(c)
  PROVE  Sound' /\ Advances(c)
<1>. USE DEF Instance
<1>1. /\ call[c] \in CallType /\ active \in BOOLEAN /\ alert \in BOOLEAN /\ state \in States
      /\ lock \in Calls \cup {"none", "dead"} /\ lastRun \in {"none", "good", "failed"}
      /\ calls \in Nat /\ failures \in Nat /\ skips \in Nat /\ deaths \in Nat
  BY DEF Sound, IndTypeOK, TypeOK
<1>2. UNCHANGED <<state, claims, done, alert, deaths, lastRun>>
  BY DEF PlainSteps, Tick, RunNow, SetStatus, TakeLock, Find, FindFails, PerformFails,
         NothingToSendTo, bounds
<1>3. ASSUME NEW n \in CallType, Goes(c, n), n.pc \in PlainPcs, call[c].pc \in PlainPcs,
             n.pc \in {"perform", "release"} => n.at = call[c].at /\ call[c].pc = "perform",
             active' \in BOOLEAN, lock' \in Calls \cup {"none", "dead"},
             calls' \in Nat, failures' \in Nat, skips' \in Nat
      PROVE  Sound' /\ Advances(c)
  <2>1. Sound' BY <1>1, <1>2, <1>3, QuietSound
  <2>2. Knows(call[c], state.failing, alert, lastRun) => Knows(n, state'.failing, alert', lastRun')
    BY <1>2, <1>3, KnowsPlain
  <2>. QED BY <1>3, <2>1, <2>2 DEF Advances
<1>4. PlainPcs = {"idle", "due", "lock", "locked", "find", "act", "perform", "release", "again", "read"}
  BY DEF PlainPcs, CallPcs, CopyPcs
<1>5. PlainPcs \subseteq CallPcs BY DEF PlainPcs
<1>6. ASSUME NEW kind \in {"tick", "run now", "status"}, NEW pc \in {"due", "lock", "read"},
             NEW a \in BOOLEAN, NEW n, Goes(c, n), call[c].pc = "idle",
             \/ n = [IdleCall EXCEPT !.kind = kind, !.pc = pc]
             \/ n = [IdleCall EXCEPT !.kind = kind, !.pc = pc, !.active = a],
             active' \in BOOLEAN, calls' \in Nat,
             UNCHANGED <<lock, failures, skips>>
      PROVE  Sound' /\ Advances(c)
  <2>1. IdleCall \in CallType BY IdleIs
  <2>2. n \in CallType /\ n.pc = pc BY <1>4, <1>5, <1>6, <2>1 DEF CallType
  <2>. QED BY <1>1, <1>3, <1>4, <1>6, <2>2
<1>7. CASE Tick(c)
  <2>1. /\ Goes(c, [IdleCall EXCEPT !.kind = "tick", !.pc = "due"]) /\ call[c].pc = "idle"
        /\ UNCHANGED <<active, calls, lock, failures, skips>>
    BY <1>7 DEF Tick, Free, bounds
  <2>. QED BY <1>1, <1>6, <2>1
<1>8. CASE RunNow(c)
  <2>1. /\ Goes(c, [IdleCall EXCEPT !.kind = "run now", !.pc = "lock"]) /\ call[c].pc = "idle"
        /\ calls' = calls + 1 /\ UNCHANGED <<active, lock, failures, skips>>
    BY <1>8 DEF RunNow, AdminMay, Free
  <2>2. calls' \in Nat BY <1>1, <2>1
  <2>. QED BY <1>1, <1>6, <2>1, <2>2
<1>9. CASE SetStatus(c)
  <2>1. /\ Goes(c, [IdleCall EXCEPT !.kind = "status", !.pc = "read", !.active = ~active])
        /\ call[c].pc = "idle" /\ active' = ~active
        /\ calls' = calls + 1 /\ UNCHANGED <<lock, failures, skips>>
    BY <1>9 DEF SetStatus, AdminMay, Free
  <2>2. calls' \in Nat BY <1>1, <2>1
  <2>. QED BY <1>1, <1>6, <2>1, <2>2
\* The steps of a run that go on with what the call has.
<1>10. ASSUME NEW pc \in {"find", "locked", "release"}, To(c, pc),
              call[c].pc \in {"lock", "perform"}, pc = "release" <=> call[c].pc = "perform",
              lock' \in Calls \cup {"none", "dead"},
              UNCHANGED <<active, calls, failures>>, skips' \in Nat
       PROVE  Sound' /\ Advances(c)
  <2> DEFINE n == [call[c] EXCEPT !.pc = pc]
  <2>1. n \in CallType /\ n.pc = pc /\ n.at = call[c].at BY <1>1, <1>4, <1>5, <1>10, ToIs
  <2>2. Goes(c, n) BY <1>10 DEF To
  <2> HIDE DEF n
  <2>. QED BY <1>1, <1>3, <1>4, <1>10, <2>1, <2>2
<1>11. CASE TakeLock(c)
  <2>1. /\ call[c].pc = "lock"
        /\ \E pc \in {"find", "locked"} : To(c, pc)
        /\ lock' = c \/ UNCHANGED lock
        /\ UNCHANGED <<active, calls, failures, skips>>
    BY <1>11 DEF TakeLock, bounds
  <2>2. lock' \in Calls \cup {"none", "dead"} BY <1>1, <2>1
  <2>. QED BY <1>1, <1>10, <2>1, <2>2
<1>12. CASE NothingToSendTo(c)
  <2>1. /\ call[c].pc = "perform" /\ To(c, "release") /\ skips' = skips + 1
        /\ UNCHANGED <<active, lock, calls, failures>>
    BY <1>12 DEF NothingToSendTo
  <2>2. skips' \in Nat BY <1>1, <2>1
  <2>. QED BY <1>1, <1>10, <2>1, <2>2
<1>13. CASE Find(c)
  <2>1. PICK S \in Allowed : Goes(c, [call[c] EXCEPT !.pc = "act", !.todo = S]) BY <1>13 DEF Find
  <2>2. S \subseteq Subjects BY DEF Allowed, Unclaimed
  <2> DEFINE n == [call[c] EXCEPT !.pc = "act", !.todo = S]
  <2>3. n \in CallType /\ n.pc = "act" BY <1>1, <1>4, <1>5, <2>2 DEF CallType
  <2>4. call[c].pc = "find" /\ UNCHANGED <<active, lock, calls, failures, skips>> BY <1>13 DEF Find, bounds
  <2> HIDE DEF n
  <2>5. Goes(c, n) BY <2>1 DEF n
  <2>. QED BY <1>1, <1>3, <1>4, <2>3, <2>4, <2>5
<1>14. CASE FindFails(c)
  <2> DEFINE n == [call[c] EXCEPT !.pc = "act", !.bad = TRUE]
  <2>1. n \in CallType /\ n.pc = "act" BY <1>1, <1>4, <1>5 DEF CallType
  <2>2. /\ Goes(c, n) /\ call[c].pc = "find" /\ failures' = failures + 1
        /\ UNCHANGED <<active, lock, calls, skips>>
    BY <1>14 DEF FindFails
  <2> HIDE DEF n
  <2>3. failures' \in Nat BY <1>1, <2>2
  <2>. QED BY <1>1, <1>3, <1>4, <2>1, <2>2, <2>3
<1>15. CASE PerformFails(c)
  <2> DEFINE n == [call[c] EXCEPT !.pc = "release", !.bad = TRUE]
  <2>1. n \in CallType /\ n.pc = "release" /\ n.at = call[c].at BY <1>1, <1>4, <1>5 DEF CallType
  <2>2. /\ Goes(c, n) /\ call[c].pc = "perform" /\ failures' = failures + 1
        /\ UNCHANGED <<active, lock, calls, skips>>
    BY <1>15 DEF PerformFails
  <2> HIDE DEF n
  <2>3. failures' \in Nat BY <1>1, <2>2
  <2>. QED BY <1>1, <1>3, <1>4, <2>1, <2>2, <2>3
<1>. QED BY <1>7, <1>8, <1>9, <1>11, <1>12, <1>13, <1>14, <1>15 DEF PlainSteps

\* The steps that read or write the rule's state, and end the run.
StateSteps(c) ==
  \/ WhetherDue(c) \/ ReadToSayLocked(c) \/ SayLocked(c) \/ Unlock(c) \/ ReadAfter(c) \/ Judge(c)
  \/ Save(c) \/ ReadAgain(c) \/ SaveNext(c) \/ ReadToReschedule(c) \/ Reschedule(c) \/ FreshStart(c)

LEMMA StateSound ==
  ASSUME Instance, Sound, NEW c \in Calls, StateSteps(c)
  PROVE  Sound' /\ Advances(c)
<1>. USE DEF Instance
<1>1. /\ call[c] \in CallType /\ active \in BOOLEAN /\ alert \in BOOLEAN /\ state \in States
      /\ lock \in Calls \cup {"none", "dead"} /\ lastRun \in {"none", "good", "failed"}
      /\ calls \in Nat /\ failures \in Nat /\ skips \in Nat /\ deaths \in Nat
  BY DEF Sound, IndTypeOK, TypeOK
<1>2. call[c].copy \in States /\ call[c].good \in BOOLEAN /\ call[c].bad \in BOOLEAN
  BY <1>1 DEF CallType
<1>3. UNCHANGED <<active, claims, done, calls, failures, skips, deaths>>
  BY DEF StateSteps, WhetherDue, ReadToSayLocked, SayLocked, Unlock, ReadAfter, Judge, Save,
         ReadAgain, SaveNext, ReadToReschedule, Reschedule, FreshStart, bounds
<1>4. ASSUME NEW n \in CallType, Goes(c, n), n.pc \notin {"perform", "release"},
             state' \in States, alert' \in BOOLEAN, lock' \in Calls \cup {"none", "dead"},
             lastRun' \in {"none", "good", "failed"},
             Knows(call[c], state.failing, alert, lastRun) => Knows(n, state'.failing, alert', lastRun')
      PROVE  Sound' /\ Advances(c)
  <2>1. Sound' BY <1>1, <1>3, <1>4, QuietSound
  <2>. QED BY <1>4, <2>1 DEF Advances
<1>5. IdleCall \in CallType /\ IdleCall.pc = "idle" BY IdleIs
\* Reading the state: the copy says what it says.
<1>6. ASSUME NEW pc \in {"next", "say locked", "judge", "reschedule"}, NEW st \in States,
             Goes(c, [call[c] EXCEPT !.pc = pc, !.copy = st]), st.failing = state.failing,
             call[c].pc \in {"due", "again", "locked", "after", "read"},
             pc = "judge" <=> call[c].pc = "after",
             UNCHANGED <<state, alert, lock, lastRun>>
      PROVE  Sound' /\ Advances(c)
  <2> DEFINE n == [call[c] EXCEPT !.pc = pc, !.copy = st]
  <2>1. pc \in CallPcs BY <1>6 DEF CallPcs
  <2>2. n \in CallType /\ n.pc = pc /\ n.copy = st /\ n.good = call[c].good /\ n.bad = call[c].bad
    BY <1>1, <1>6, <2>1 DEF CallType
  <2> HIDE DEF n
  <2>3. Goes(c, n) BY <1>6 DEF n
  <2>4. Knows(call[c], state.failing, alert, lastRun) => Knows(n, state'.failing, alert', lastRun')
    BY <1>6, <2>2 DEF Knows, CopyPcs
  <2>. QED BY <1>1, <1>4, <1>6, <2>2, <2>3, <2>4
\* Writing a copy back that says what the state says, and being done with it.
<1>7. ASSUME NEW n \in CallType, Goes(c, n), n.pc \in {"idle", "fresh start", "again"},
             n.pc = "fresh start" => n.copy = call[c].copy,
             state' \in States, state'.failing = call[c].copy.failing,
             call[c].pc \in {"say locked", "next", "save", "reschedule", "fresh start"},
             UNCHANGED <<alert, lock, lastRun>>
      PROVE  Sound' /\ Advances(c)
  <2>1. Knows(call[c], state.failing, alert, lastRun) => Knows(n, state'.failing, alert', lastRun')
    BY <1>7 DEF Knows, CopyPcs
  <2>. QED BY <1>1, <1>4, <1>7, <2>1
<1>8. {"lock", "after", "again", "fresh start"} \subseteq CallPcs BY DEF CallPcs
<1>9. CASE WhetherDue(c)
  <2>1. call[c].pc = "due" /\ UNCHANGED <<state, alert, lock, lastRun>> BY <1>9 DEF WhetherDue, At
  <2>2. \/ Goes(c, IdleCall) \/ Goes(c, [call[c] EXCEPT !.pc = "next", !.copy = state])
        \/ Goes(c, [call[c] EXCEPT !.pc = "lock"])
    BY <1>9 DEF WhetherDue, Finished, To
  <2>3. CASE Goes(c, IdleCall)
    <3>1. Knows(call[c], state.failing, alert, lastRun) =>
            Knows(IdleCall, state'.failing, alert', lastRun')
      BY <1>5, <2>1 DEF Knows, CopyPcs
    <3>. QED BY <1>1, <1>4, <1>5, <2>1, <2>3, <3>1
  <2>4. CASE Goes(c, [call[c] EXCEPT !.pc = "next", !.copy = state]) BY <1>1, <1>6, <2>1, <2>4
  <2>5. CASE Goes(c, [call[c] EXCEPT !.pc = "lock"])
    <3> DEFINE n == [call[c] EXCEPT !.pc = "lock"]
    <3>1. n \in CallType /\ n.pc = "lock" BY <1>1, <1>8, ToIs
    <3> HIDE DEF n
    <3>2. Goes(c, n) BY <2>5 DEF n
    <3>3. Knows(call[c], state.failing, alert, lastRun) => Knows(n, state'.failing, alert', lastRun')
      BY <2>1, <3>1 DEF Knows, CopyPcs
    <3>. QED BY <1>1, <1>4, <2>1, <3>1, <3>2, <3>3
  <2>. QED BY <2>2, <2>3, <2>4, <2>5
<1>10. CASE ReadToSayLocked(c)
  BY <1>1, <1>6, <1>10 DEF ReadToSayLocked
<1>11. CASE ReadAfter(c)
  BY <1>1, <1>6, <1>11 DEF ReadAfter
<1>12. CASE ReadAgain(c)
  BY <1>1, <1>6, <1>12 DEF ReadAgain, At
<1>13. CASE ReadToReschedule(c)
  <2> DEFINE st == [state EXCEPT !.next = IF call[c].active THEN "later" ELSE "none"]
  <2>1. st \in States /\ st.failing = state.failing BY <1>1, NextIs
  <2>2. Goes(c, [call[c] EXCEPT !.pc = "reschedule", !.copy = st]) BY <1>13 DEF ReadToReschedule
  <2> HIDE DEF st
  <2>3. call[c].pc = "read" /\ UNCHANGED <<state, alert, lock, lastRun>>
    BY <1>13 DEF ReadToReschedule, At
  <2>. QED BY <1>6, <2>1, <2>2, <2>3
<1>14. CASE SayLocked(c)
  BY <1>2, <1>5, <1>7, <1>14 DEF SayLocked, Finished
<1>15. CASE SaveNext(c)
  <2>1. /\ state' = [call[c].copy EXCEPT !.next = "later"] /\ Goes(c, IdleCall)
        /\ call[c].pc = "next" /\ UNCHANGED <<alert, lock, lastRun>>
    BY <1>15 DEF SaveNext, At, Finished
  <2>2. state' \in States /\ state'.failing = call[c].copy.failing BY <1>2, <2>1, NextIs
  <2>. QED BY <1>5, <1>7, <2>1, <2>2
<1>16. CASE FreshStart(c)
  <2>1. /\ state' = [call[c].copy EXCEPT !.streak = 0] /\ Goes(c, IdleCall)
        /\ call[c].pc = "fresh start" /\ UNCHANGED <<alert, lock, lastRun>>
    BY <1>16 DEF FreshStart, At, Finished
  <2>2. state' \in States /\ state'.failing = call[c].copy.failing BY <1>2, <2>1, FreshIs
  <2>. QED BY <1>5, <1>7, <2>1, <2>2
\* Writing the copy and perhaps going on.
<1>17. ASSUME NEW pc \in {"again", "fresh start"}, To(c, pc) \/ Finished(c), state' = call[c].copy,
              call[c].pc \in {"save", "reschedule"}, UNCHANGED <<alert, lock, lastRun>>
       PROVE  Sound' /\ Advances(c)
  <2>1. CASE Finished(c) BY <1>2, <1>5, <1>7, <1>17, <2>1 DEF Finished
  <2>2. CASE To(c, pc)
    <3> DEFINE n == [call[c] EXCEPT !.pc = pc]
    <3>1. n \in CallType /\ n.pc = pc /\ n.copy = call[c].copy BY <1>1, <1>8, <1>17 DEF CallType
    <3> HIDE DEF n
    <3>2. Goes(c, n) BY <2>2 DEF To, n
    <3>. QED BY <1>2, <1>7, <1>17, <3>1, <3>2
  <2>. QED BY <1>17, <2>1, <2>2
<1>18. CASE Save(c)
  <2>1. /\ state' = call[c].copy /\ call[c].pc = "save" /\ UNCHANGED <<alert, lock, lastRun>>
        /\ To(c, "again") \/ Finished(c)
    BY <1>18 DEF Save
  <2>. QED BY <1>17, <2>1
<1>19. CASE Reschedule(c)
  <2>1. /\ state' = call[c].copy /\ call[c].pc = "reschedule" /\ UNCHANGED <<alert, lock, lastRun>>
        /\ To(c, "fresh start") \/ Finished(c)
    BY <1>19 DEF Reschedule, At
  <2>. QED BY <1>17, <2>1
<1>20. CASE Unlock(c)
  <2> DEFINE n == [call[c] EXCEPT !.pc = "after"]
  <2>1. n \in CallType /\ n.pc = "after" /\ n.good = call[c].good /\ n.bad = call[c].bad
    BY <1>1, <1>8, ToIs
  <2>2. /\ Goes(c, n) /\ UNCHANGED <<state, alert>> /\ call[c].pc = "act"
        /\ lock' = IF lock = c THEN "none" ELSE lock
        /\ lastRun' = IF Failed(c) THEN "failed" ELSE "good"
    BY <1>20 DEF Unlock, To
  <2> HIDE DEF n
  <2>3. lock' \in Calls \cup {"none", "dead"} /\ lastRun' \in {"none", "good", "failed"} BY <1>1, <2>2
  <2>4. lastRun' = "good" => ~(n.bad /\ ~n.good) BY <2>1, <2>2 DEF Failed
  <2>5. Knows(call[c], state.failing, alert, lastRun) => Knows(n, state'.failing, alert', lastRun')
    BY <2>1, <2>2, <2>4 DEF Knows, CopyPcs
  <2>. QED BY <1>1, <1>4, <2>1, <2>2, <2>3, <2>5
<1>21. CASE Judge(c)
  <2> DEFINE before == call[c].copy
             after == Judged(before, Failed(c))
             n == [call[c] EXCEPT !.pc = "save", !.copy = after]
  <2>1. Failed(c) \in BOOLEAN BY <1>2 DEF Failed
  <2>2. after \in States /\ (~Failed(c) => ~after.failing) BY <1>2, <2>1, JudgedIs
  <2>3. /\ alert' = IF after.failing # before.failing THEN after.failing ELSE alert
        /\ Goes(c, n) /\ call[c].pc = "judge" /\ UNCHANGED <<state, lock, lastRun>>
    BY <1>21 DEF Judge
  <2> HIDE DEF after
  <2>4. n \in CallType /\ n.pc = "save" /\ n.copy = after
    <3>1. "save" \in CallPcs BY DEF CallPcs
    <3>. QED BY <1>1, <2>2, <3>1 DEF CallType
  <2> HIDE DEF n
  <2>5. before.failing \in BOOLEAN /\ after.failing \in BOOLEAN BY <1>2, <2>2 DEF States
  <2>6. alert' \in BOOLEAN BY <1>1, <2>3, <2>5
  <2>7. ASSUME Knows(call[c], state.failing, alert, lastRun)
        PROVE  Knows(n, state'.failing, alert', lastRun')
    <3>1. alert <=> before.failing BY <2>3, <2>7 DEF Knows, CopyPcs
    <3>2. alert' <=> after.failing BY <1>1, <2>3, <2>5, <3>1
    <3>3. lastRun' = "good" => ~after.failing BY <2>2, <2>3, <2>7 DEF Knows, Failed
    <3>. QED BY <2>4, <3>2, <3>3 DEF Knows, CopyPcs
  <2>. QED BY <1>1, <1>4, <2>3, <2>4, <2>6, <2>7
<1>. QED BY <1>9, <1>10, <1>11, <1>12, <1>13, <1>14, <1>15, <1>16, <1>18, <1>19, <1>20, <1>21
     DEF StateSteps

----------------------------------------------------------------------------
(* Claims, each with what it is to AtMostOnce.                             *)

Taken == {s \in Subjects : claims[s] # "none"}

ClaimSteps(c) == Claim(c) \/ Perform(c) \/ Release(c) \/ Dies(c)

LEMMA ClaimSound ==
  ASSUME Instance, Sound, NEW c \in Calls, Claim(c)
  PROVE  Sound' /\ Advances(c) /\ (Once!Next \/ UNCHANGED <<claims, done>>)
<1>. USE DEF Instance
<1>1. /\ call[c] \in CallType /\ TypeOK
      /\ claims \in [Subjects -> Calls \cup {"none", "dead"}] /\ done \in [Subjects -> Nat]
  BY DEF Sound, IndTypeOK, TypeOK
<1>2. call[c].pc = "act" /\ UNCHANGED <<active, state, lock, done, alert, bounds, lastRun>>
  BY DEF Claim
<1>3. PICK s \in call[c].todo :
        IF ClaimWon(s)
        THEN /\ claims' = [claims EXCEPT ![s] = c]
             /\ Goes(c, [call[c] EXCEPT !.pc = "perform", !.todo = @ \ {s}, !.at = {s}])
        ELSE /\ UNCHANGED claims
             /\ Goes(c, [call[c] EXCEPT !.todo = @ \ {s}])
  BY DEF Claim
<1>4. s \in Subjects /\ call[c].todo \subseteq Subjects BY <1>1 DEF CallType
<1>5. CASE ~ClaimWon(s)
  <2> DEFINE n == [call[c] EXCEPT !.todo = @ \ {s}]
  <2>1. n \in CallType /\ n.pc = "act" BY <1>1, <1>2, <1>4 DEF CallType
  <2>2. Goes(c, n) /\ UNCHANGED claims BY <1>3, <1>5
  <2> HIDE DEF n
  <2>3. Sound'
    <3>1. calls' = calls /\ failures' = failures /\ skips' = skips /\ deaths' = deaths BY <1>2 DEF bounds
    <3>. QED BY <1>1, <1>2, <2>1, <2>2, <3>1, QuietSound DEF TypeOK
  <2>4. Knows(call[c], state.failing, alert, lastRun) => Knows(n, state'.failing, alert', lastRun')
    BY <1>2, <2>1 DEF Knows, CopyPcs
  <2>. QED BY <1>2, <2>1, <2>2, <2>3, <2>4 DEF Advances
<1>6. CASE ClaimWon(s)
  <2> DEFINE n == [call[c] EXCEPT !.pc = "perform", !.todo = @ \ {s}, !.at = {s}]
  <2>1. n \in CallType /\ n.pc = "perform" /\ n.at = {s} BY <1>1, <1>4 DEF CallType, CallPcs
  <2>2. Goes(c, n) /\ claims' = [claims EXCEPT ![s] = c] BY <1>3, <1>6
  <2> HIDE DEF n
  <2>3. claims[s] = "none" /\ done[s] = 0
    <3>1. claims[s] = "none" BY <1>6 DEF ClaimWon
    <3>. QED BY <1>4, <3>1 DEF Sound, Reached
  <2>4. /\ claims'[s] = c /\ \A x \in Subjects : x # s => claims'[x] = claims[x]
        /\ claims' \in [Subjects -> Calls \cup {"none", "dead"}]
    BY <1>1, <1>4, <2>2
  <2>5. Holds(n, c, claims', done') BY <1>2, <1>4, <2>1, <2>3, <2>4 DEF Holds
  <2>6. \A d \in Calls \ {c}, x \in Subjects :
          claims[x] = d /\ done[x] = 0 => claims'[x] = d /\ done'[x] = 0
    BY <1>2, <2>3, <2>4
  <2>7. Reached' BY <1>2, <2>4 DEF Sound, Reached
  <2>8. TypeOK'
    <3>1. call' \in [Calls -> CallType] BY <2>1, <2>2, GoesIs DEF Sound, IndTypeOK
    <3>2. \A d \in Calls : /\ call'[d].todo \cup call'[d].at \subseteq Subjects
                           /\ call'[d].copy \in States
      BY <3>1 DEF CallType
    <3>. QED BY <1>1, <1>2, <2>4, <3>2 DEF TypeOK, bounds
  <2>9. Sound' BY <2>1, <2>2, <2>5, <2>6, <2>7, <2>8, StepSound
  <2>10. Knows(call[c], state.failing, alert, lastRun) => Knows(n, state'.failing, alert', lastRun')
    BY <1>2, <2>1 DEF Knows, CopyPcs
  <2>11. Once!Take
    <3>1. {s} \in SUBSET (Subjects \ Taken) BY <1>4, <2>3 DEF Taken
    <3>2. Taken' = Taken \cup {s} BY <1>4, <2>4 DEF Taken
    <3>3. done' = done BY <1>2
    <3>. QED BY <3>1, <3>2, <3>3 DEF Once!Take, Taken
  <2>. QED BY <2>1, <2>2, <2>9, <2>10, <2>11 DEF Advances, Once!Next
<1>. QED BY <1>5, <1>6

LEMMA PerformSound ==
  ASSUME Instance, Sound, NEW c \in Calls, Perform(c)
  PROVE  Sound' /\ Advances(c) /\ Once!Next
<1>. USE DEF Instance
<1>1. /\ call[c] \in CallType /\ TypeOK
      /\ claims \in [Subjects -> Calls \cup {"none", "dead"}] /\ done \in [Subjects -> Nat]
  BY DEF Sound, IndTypeOK, TypeOK
<1> DEFINE n == [call[c] EXCEPT !.pc = "act", !.at = {}, !.good = TRUE]
<1>2. /\ call[c].pc = "perform" /\ UNCHANGED <<active, state, lock, claims, alert, bounds, lastRun>>
      /\ Goes(c, n)
      /\ done' = [s \in Subjects |-> IF s \in call[c].at THEN done[s] + 1 ELSE done[s]]
  BY DEF Perform
<1>3. n \in CallType /\ n.pc = "act" BY <1>1 DEF CallType, CallPcs
<1> HIDE DEF n
<1>4. PICK s \in Subjects : call[c].at = {s} /\ claims[s] = c /\ done[s] = 0
  BY <1>2 DEF Sound, Hands, Holds
<1>5. /\ done' = [x \in Subjects |-> IF x \in {s} THEN 1 ELSE done[x]]
      /\ done' \in [Subjects -> Nat]
  BY <1>1, <1>2, <1>4
<1>6. Holds(n, c, claims', done') BY <1>3 DEF Holds
<1>7. \A d \in Calls \ {c}, x \in Subjects :
        claims[x] = d /\ done[x] = 0 => claims'[x] = d /\ done'[x] = 0
  BY <1>2, <1>4, <1>5
<1>8. Reached' BY <1>2, <1>4, <1>5 DEF Sound, Reached
<1>9. TypeOK'
  <2>1. call' \in [Calls -> CallType] BY <1>2, <1>3, GoesIs DEF Sound, IndTypeOK
  <2>2. \A d \in Calls : /\ call'[d].todo \cup call'[d].at \subseteq Subjects
                         /\ call'[d].copy \in States
    BY <2>1 DEF CallType
  <2>. QED BY <1>1, <1>2, <1>5, <2>2 DEF TypeOK, bounds
<1>10. Sound' BY <1>2, <1>3, <1>6, <1>7, <1>8, <1>9, StepSound
<1>11. Knows(call[c], state.failing, alert, lastRun) => Knows(n, state'.failing, alert', lastRun')
  BY <1>2, <1>3 DEF Knows, CopyPcs
<1>12. Once!Give
  <2>1. {s} \in SUBSET Taken BY <1>4 DEF Taken
  <2>2. \A x \in {s} : done[x] = 0 BY <1>4
  <2>3. Taken' = Taken BY <1>2 DEF Taken
  <2>. QED BY <1>5, <2>1, <2>2, <2>3 DEF Once!Give, Taken
<1>. QED BY <1>2, <1>3, <1>10, <1>11, <1>12 DEF Advances, Once!Next

LEMMA ReleaseSound ==
  ASSUME Instance, Sound, NEW c \in Calls, Release(c)
  PROVE  Sound' /\ Advances(c) /\ Once!HandBack
<1>. USE DEF Instance
<1>1. /\ call[c] \in CallType /\ TypeOK
      /\ claims \in [Subjects -> Calls \cup {"none", "dead"}] /\ done \in [Subjects -> Nat]
  BY DEF Sound, IndTypeOK, TypeOK
<1> DEFINE n == [call[c] EXCEPT !.pc = "act", !.at = {}]
<1>2. /\ call[c].pc = "release" /\ UNCHANGED <<active, state, lock, done, alert, bounds, lastRun>>
      /\ Goes(c, n)
      /\ claims' = [s \in Subjects |-> IF s \in call[c].at /\ claims[s] = c THEN "none" ELSE claims[s]]
  BY DEF Release, HandedBack
<1>3. n \in CallType /\ n.pc = "act" BY <1>1 DEF CallType, CallPcs
<1> HIDE DEF n
<1>4. PICK s \in Subjects : call[c].at = {s} /\ claims[s] = c /\ done[s] = 0
  BY <1>2 DEF Sound, Hands, Holds
<1>5. claims' = [x \in Subjects |-> IF x = s THEN "none" ELSE claims[x]] BY <1>2, <1>4
<1>6. claims' \in [Subjects -> Calls \cup {"none", "dead"}] BY <1>1, <1>5
<1>7. Holds(n, c, claims', done') BY <1>3 DEF Holds
<1>8. \A d \in Calls \ {c}, x \in Subjects :
        claims[x] = d /\ done[x] = 0 => claims'[x] = d /\ done'[x] = 0
  BY <1>2, <1>4, <1>5
<1>9. Reached' BY <1>2, <1>4, <1>5 DEF Sound, Reached
<1>10. TypeOK'
  <2>1. call' \in [Calls -> CallType] BY <1>2, <1>3, GoesIs DEF Sound, IndTypeOK
  <2>2. \A d \in Calls : /\ call'[d].todo \cup call'[d].at \subseteq Subjects
                         /\ call'[d].copy \in States
    BY <2>1 DEF CallType
  <2>. QED BY <1>1, <1>2, <1>6, <2>2 DEF TypeOK, bounds
<1>11. Sound' BY <1>2, <1>3, <1>7, <1>8, <1>9, <1>10, StepSound
<1>12. Knows(call[c], state.failing, alert, lastRun) => Knows(n, state'.failing, alert', lastRun')
  BY <1>2, <1>3 DEF Knows, CopyPcs
<1>13. Once!HandBack
  <2>1. {s} \in SUBSET {x \in Taken : done[x] = 0} BY <1>4 DEF Taken
  <2>2. Taken' = Taken \ {s} BY <1>5 DEF Taken
  <2>. QED BY <1>2, <2>1, <2>2 DEF Once!HandBack, Taken
<1>. QED BY <1>2, <1>3, <1>11, <1>12, <1>13 DEF Advances

\* What a call that dies has claimed stays claimed, by nobody.
LEMMA DiesSound ==
  ASSUME Instance, Sound, NEW c \in Calls, Dies(c)
  PROVE  Sound' /\ Advances(c) /\ UNCHANGED <<Taken, done>>
<1>. USE DEF Instance
<1>1. /\ call[c] \in CallType /\ TypeOK
      /\ claims \in [Subjects -> Calls \cup {"none", "dead"}] /\ done \in [Subjects -> Nat]
      /\ deaths \in Nat
  BY DEF Sound, IndTypeOK, TypeOK
<1>2. /\ call[c].pc \in {"find", "act", "perform", "release"}
      /\ UNCHANGED <<active, state, done, alert, calls, failures, skips, lastRun>>
      /\ Goes(c, IdleCall) /\ lock' = "dead" /\ deaths' = deaths + 1
      /\ claims' = [s \in Subjects |-> IF claims[s] = c THEN "dead" ELSE claims[s]]
  BY DEF Dies, Finished
<1>3. IdleCall \in CallType /\ IdleCall.pc = "idle" BY IdleIs
<1>4. /\ claims' \in [Subjects -> Calls \cup {"none", "dead"}]
      /\ \A s \in Subjects : claims'[s] = "none" <=> claims[s] = "none"
  BY <1>1, <1>2
<1>5. Holds(IdleCall, c, claims', done') BY <1>3 DEF Holds
<1>6. \A d \in Calls \ {c}, x \in Subjects :
        claims[x] = d /\ done[x] = 0 => claims'[x] = d /\ done'[x] = 0
  BY <1>2
<1>7. Reached' BY <1>2, <1>4 DEF Sound, Reached
<1>8. TypeOK'
  <2>1. call' \in [Calls -> CallType] BY <1>2, <1>3, GoesIs DEF Sound, IndTypeOK
  <2>2. \A d \in Calls : /\ call'[d].todo \cup call'[d].at \subseteq Subjects
                         /\ call'[d].copy \in States
    BY <2>1 DEF CallType
  <2>3. deaths' \in Nat BY <1>1, <1>2
  <2>. QED BY <1>1, <1>2, <1>4, <2>2, <2>3 DEF TypeOK
<1>9. Sound' BY <1>2, <1>3, <1>5, <1>6, <1>7, <1>8, StepSound
<1>10. Knows(call[c], state.failing, alert, lastRun) =>
         Knows(IdleCall, state'.failing, alert', lastRun')
  BY <1>2, <1>3 DEF Knows, CopyPcs
<1>11. Taken' = Taken BY <1>4 DEF Taken
<1>. QED BY <1>2, <1>3, <1>9, <1>10, <1>11 DEF Advances

----------------------------------------------------------------------------
(* Every step, and the theorems.                                           *)

TimeSteps == TimeComes \/ LockExpires

LEMMA Steps ==
  ASSUME Next
  PROVE  \/ TimeSteps
         \/ \E c \in Calls : PlainSteps(c) \/ StateSteps(c) \/ ClaimSteps(c)
BY DEF Next, RunSteps, Mishaps, TimeSteps, PlainSteps, StateSteps, ClaimSteps

LEMMA TimeSound ==
  ASSUME Instance, Sound, TimeSteps
  PROVE  /\ Sound' /\ UNCHANGED <<claims, done, call, alert, lastRun>>
         /\ state'.failing = state.failing
<1>. USE DEF Sound, IndTypeOK
<1>1. UNCHANGED <<active, claims, done, alert, call, bounds, lastRun>>
  BY DEF TimeSteps, TimeComes, LockExpires
<1>2. state \in States BY DEF TypeOK
<1>3. state' \in States /\ state'.failing = state.failing
  <2>1. state' = state \/ state' = [state EXCEPT !.next = "due"] BY DEF TimeSteps, TimeComes, LockExpires
  <2>. QED BY <1>2, <2>1, NextIs
<1>4. lock' \in Calls \cup {"none", "dead"} BY DEF TimeSteps, TimeComes, LockExpires, TypeOK
<1>5. TypeOK' BY <1>1, <1>3, <1>4 DEF TypeOK, bounds
<1>6. Hands' /\ Reached' BY <1>1 DEF Hands, Reached
<1>. QED BY <1>1, <1>3, <1>5, <1>6

LEMMA InitSound == ASSUME Instance, Init PROVE Sound
<1>. USE DEF Init
<1>1. IdleCall \in CallType /\ IdleCall.pc = "idle" BY IdleIs
<1>2. call \in [Calls -> CallType] BY <1>1
<1>3. \A c \in Calls : call[c].todo \cup call[c].at \subseteq Subjects /\ call[c].copy \in States
  BY <1>2 DEF CallType
<1>4. state \in States BY NewStateIs
<1>5. TypeOK
  <2>1. active \in BOOLEAN /\ alert \in BOOLEAN OBVIOUS
  <2>2. /\ claims \in [Subjects -> Calls \cup {"none", "dead"}] /\ done \in [Subjects -> Nat]
        /\ \A i \in {calls, failures, skips, deaths} : i \in Nat
    OBVIOUS
  <2>. QED BY <1>3, <1>4, <2>1, <2>2 DEF TypeOK
<1>6. Hands BY <1>1 DEF Hands, Holds
<1>7. Reached BY DEF Reached
<1>. QED BY <1>2, <1>5, <1>6, <1>7 DEF Sound, IndTypeOK

LEMMA SoundIsInvariant == Instance => (Spec => []Sound)
<1>. SUFFICES ASSUME Instance PROVE Spec => []Sound OBVIOUS
<1>1. Init => Sound BY InitSound
<1>2. Sound /\ [Next]_vars => Sound'
  <2>1. CASE Next
    BY <2>1, Steps, TimeSound, PlainSound, StateSound, ClaimSound, PerformSound, ReleaseSound,
       DiesSound DEF ClaimSteps
  <2>2. CASE UNCHANGED vars
    BY <2>2 DEF vars, bounds, Sound, IndTypeOK, TypeOK, Hands, Reached
  <2>. QED BY <2>1, <2>2
<1>. QED BY <1>1, <1>2, PTL DEF Spec

\* Every variable has its type.
THEOREM TypeCorrect == Instance => (Spec => []TypeOK)
<1>1. Sound => TypeOK BY DEF Sound, IndTypeOK
<1>. QED BY <1>1, SoundIsInvariant, PTL

\* A rule reaches each subject once: however ticks and "Run now" overlap,
\* fail, and die half-way, nobody is acted on without a claim or a second
\* time, what is handed back not having been acted on.
THEOREM EachOnce == Instance => (Spec => ReachesEachOnce)
<1>. SUFFICES ASSUME Instance PROVE Spec => ReachesEachOnce OBVIOUS
<1>1. Init => Once!Init BY DEF Init, Once!Init
<1>2. Sound /\ [Next]_vars => [Once!Next \/ Once!HandBack]_(Once!vars)
  <2>. SUFFICES ASSUME Sound, [Next]_vars
                PROVE  Once!Next \/ Once!HandBack \/ UNCHANGED <<Taken, done>>
    BY DEF Once!vars, Taken
  <2>1. ASSUME UNCHANGED <<claims, done>> PROVE UNCHANGED <<Taken, done>>
    BY <2>1 DEF Taken
  <2>2. ASSUME NEW c \in Calls, PlainSteps(c) \/ StateSteps(c) PROVE UNCHANGED <<claims, done>>
    BY <2>2 DEF PlainSteps, StateSteps, Tick, RunNow, SetStatus, TakeLock, Find, FindFails,
                PerformFails, NothingToSendTo, WhetherDue, ReadToSayLocked, SayLocked, Unlock,
                ReadAfter, Judge, Save, ReadAgain, SaveNext, ReadToReschedule, Reschedule, FreshStart
  <2>3. ASSUME NEW c \in Calls, ClaimSteps(c)
        PROVE  Once!Next \/ Once!HandBack \/ UNCHANGED <<Taken, done>>
    BY <2>1, <2>3, ClaimSound, PerformSound, ReleaseSound, DiesSound DEF ClaimSteps
  <2>4. CASE Next BY <2>1, <2>2, <2>3, <2>4, Steps, TimeSound
  <2>5. CASE UNCHANGED vars BY <2>1, <2>5 DEF vars
  <2>. QED BY <2>4, <2>5
<1>3. Spec => []Sound BY SoundIsInvariant
<1>. QED BY <1>1, <1>2, <1>3, PTL DEF Spec, ReachesEachOnce, Once!SpecWithReturns

----------------------------------------------------------------------------
(* Calls one at a time: what the one in flight knows, it leaves behind.    *)

OneAtATime == \A c, d \in Calls : call[c].pc # "idle" /\ call[d].pc # "idle" => c = d

\* With nothing in flight the alert says what the state says, and after a
\* good run that is no.
AtRest == InFlight = {} => (alert <=> state.failing) /\ (lastRun = "good" => ~state.failing)

InTurn ==
  /\ OneAtATime /\ AtRest
  /\ \A c \in InFlight : Knows(call[c], state.failing, alert, lastRun)

\* Who begins finds nothing in flight, who goes on is the one.
LEMMA Mover ==
  ASSUME ~Overlap, NEW c \in Calls, PlainSteps(c) \/ StateSteps(c) \/ ClaimSteps(c)
  PROVE  call[c].pc # "idle" \/ InFlight = {}
<1>1. CASE Tick(c) \/ RunNow(c) \/ SetStatus(c)
  BY <1>1 DEF Tick, RunNow, SetStatus, AdminMay, Free
<1>2. CASE ~(Tick(c) \/ RunNow(c) \/ SetStatus(c))
  BY <1>2 DEF PlainSteps, StateSteps, ClaimSteps, TakeLock, Find, FindFails, PerformFails,
              NothingToSendTo, WhetherDue, ReadToSayLocked, SayLocked, Unlock, ReadAfter, Judge,
              Save, ReadAgain, SaveNext, ReadToReschedule, Reschedule, FreshStart, Claim, Perform,
              Release, Dies, At
<1>. QED BY <1>1, <1>2

LEMMA InTurnStep ==
  ASSUME Sound, InTurn, NEW c \in Calls, call[c].pc # "idle" \/ InFlight = {}, Advances(c)
  PROVE  InTurn'
<1>1. PICK n \in CallType :
        /\ Goes(c, n)
        /\ Knows(call[c], state.failing, alert, lastRun) => Knows(n, state'.failing, alert', lastRun')
  BY DEF Advances
<1>2. \A d \in Calls : d # c => call[d].pc = "idle" BY DEF InTurn, OneAtATime, InFlight
<1>3. Knows(call[c], state.failing, alert, lastRun)
  <2>1. CASE call[c].pc # "idle" BY <2>1 DEF InTurn, InFlight
  <2>2. CASE call[c].pc = "idle" /\ InFlight = {} BY <2>2 DEF InTurn, AtRest, Knows, CopyPcs
  <2>. QED BY <2>1, <2>2
<1>4. Knows(n, state'.failing, alert', lastRun') BY <1>1, <1>3
<1>5. call'[c] = n /\ OthersStay(c) BY <1>1, GoesIs DEF Sound, IndTypeOK
<1>6. \A d \in Calls : d # c => call'[d].pc = "idle" BY <1>2, <1>5 DEF OthersStay
<1>7. OneAtATime' BY <1>6 DEF OneAtATime
<1>8. AtRest'
  <2>1. SUFFICES ASSUME InFlight' = {}
                 PROVE  (alert' <=> state'.failing) /\ (lastRun' = "good" => ~state'.failing)
    BY DEF AtRest
  <2>2. n.pc = "idle" BY <1>5, <2>1 DEF InFlight
  <2>. QED BY <1>4, <2>2 DEF Knows
<1>9. \A d \in InFlight' : Knows(call'[d], state'.failing, alert', lastRun')
  BY <1>4, <1>5, <1>6 DEF InFlight
<1>. QED BY <1>7, <1>8, <1>9 DEF InTurn

\* "Its next good run clears both": with calls one at a time, when nothing is
\* in flight and the last run was good, the rule is not failing and its alert
\* is not open.
THEOREM GoodRunsClear == Instance /\ ~Overlap => (Spec => []GoodRunClears)
<1>. SUFFICES ASSUME Instance, ~Overlap PROVE Spec => []GoodRunClears OBVIOUS
<1>1. Init => InTurn
  <2>. SUFFICES ASSUME Init PROVE InTurn OBVIOUS
  <2>1. \A c \in Calls : call[c].pc = "idle" BY IdleIs DEF Init
  <2>2. AtRest BY DEF Init, NewState, AtRest
  <2>. QED BY <2>1, <2>2 DEF InTurn, OneAtATime, InFlight
<1>2. Sound /\ InTurn /\ [Next]_vars => InTurn'
  <2>. SUFFICES ASSUME Sound, InTurn, [Next]_vars PROVE InTurn' OBVIOUS
  <2>1. CASE TimeSteps
    <3>1. UNCHANGED <<call, alert, lastRun>> /\ state'.failing = state.failing BY <2>1, TimeSound
    <3>. QED BY <3>1 DEF InTurn, OneAtATime, AtRest, InFlight
  <2>2. ASSUME NEW c \in Calls, PlainSteps(c) \/ StateSteps(c) \/ ClaimSteps(c) PROVE InTurn'
    <3>1. Advances(c)
      BY <2>2, PlainSound, StateSound, ClaimSound, PerformSound, ReleaseSound, DiesSound
         DEF ClaimSteps
    <3>2. call[c].pc # "idle" \/ InFlight = {} BY <2>2, Mover
    <3>. QED BY <3>1, <3>2, InTurnStep
  <2>3. CASE UNCHANGED vars
    BY <2>3 DEF vars, InTurn, OneAtATime, AtRest, InFlight
  <2>. QED BY <2>1, <2>2, <2>3, Steps
<1>3. InTurn => GoodRunClears BY DEF InTurn, AtRest, GoodRunClears
<1>4. Spec => []Sound BY SoundIsInvariant
<1>. QED BY <1>1, <1>2, <1>3, <1>4, PTL DEF Spec
=============================================================================
