--------------------------- MODULE Records_proofs ---------------------------
(***************************************************************************)
(* Records for any values of the constants: each protocol by itself, and   *)
(* then beside the others.  The sessions are Records' own variables, the   *)
(* address and the refunds its instances; what holds of the rule and of    *)
(* the meeting is taken from Automation_proofs and MeetingRecord_proofs.   *)
(***************************************************************************)
EXTENDS Records, Sequences, FiniteSetTheorems, TLAPS

-----------------------------------------------------------------------------
(* The sessions of one account.                                            *)

\* What the theorems take of the constants.
SessionsInstance ==
  /\ IsFiniteSet(Sessions)
  /\ MaxTime \in Nat \ {0}
  /\ MaxChanges \in Nat /\ MaxFailures \in Nat /\ MaxRefusals \in Nat

\* Where a first request may be, and what it holds; what a setting holds.
CheckPcs == {"idle", "claim", "list", "policy", "mark", "clerk"}
CheckType == [pc : CheckPcs, ends : SUBSET Sessions]
SettingType ==
  [pc : {"idle", "list", "mark", "clerk"}, by : SUBSET Sessions, ends : SUBSET Sessions]

----------------------------------------------------------------------------
(* What the operators do.                                                  *)

\* Only s's check may have changed.
OthersStay(s) == \A t \in Sessions : t # s => check'[t] = check[t]

\* A check goes on.
LEMMA ChecksIs ==
  ASSUME check \in [Sessions -> CheckType], NEW s \in Sessions, NEW n \in CheckType, Checks(s, n)
  PROVE  check' \in [Sessions -> CheckType] /\ check'[s] = n /\ OthersStay(s)
BY DEF Checks, OthersStay

\* A check goes on with whom it signs out, or is over.
LEMMA ACheck ==
  ASSUME NEW p \in CheckPcs, NEW S \in SUBSET Sessions
  PROVE  /\ [pc |-> p, ends |-> S] \in CheckType
         /\ [pc |-> p, ends |-> S].pc = p /\ [pc |-> p, ends |-> S].ends = S
BY DEF CheckType

\* A session that asks nothing has nobody to sign out.
LEMMA AnIdleCheck == IdleCheck \in CheckType /\ IdleCheck.pc = "idle" /\ IdleCheck.ends = {}
BY DEF IdleCheck, CheckType, CheckPcs

\* Nor has a setting that nobody makes.
LEMMA AnIdleSetting == IdleSetting \in SettingType /\ IdleSetting.pc = "idle" /\ IdleSetting.ends = {}
BY DEF IdleSetting, SettingType

\* Clerk ends sessions and begins none; the count of those it did not end
\* stays within its bound.
LEMMA EndsEnd ==
  ASSUME SessionsInstance, refusals \in 0 .. MaxRefusals,
         clerk \in [Sessions -> {"none", "active", "ended"}],
         NEW S \in SUBSET {t \in Sessions : clerk[t] # "none"}, Ends(S)
  PROVE  /\ refusals' \in 0 .. MaxRefusals
         /\ clerk' \in [Sessions -> {"none", "active", "ended"}]
         /\ \A t \in Sessions : clerk'[t] = clerk[t] \/ (clerk'[t] = "ended" /\ clerk[t] # "none")
<1>1. PICK refused \in SUBSET S :
        /\ refusals + Cardinality(refused) <= MaxRefusals
        /\ refusals' = refusals + Cardinality(refused)
        /\ clerk' = [t \in Sessions |-> IF t \in S \ refused THEN "ended" ELSE clerk[t]]
  BY DEF Ends
<1>2. IsFiniteSet(refused) BY FS_Subset DEF SessionsInstance
<1>3. Cardinality(refused) \in Nat BY <1>2, FS_CardinalityType
<1>4. refusals' \in 0 .. MaxRefusals BY <1>1, <1>3 DEF SessionsInstance
<1>. QED BY <1>1, <1>4

\* Marking is for good, and for those who are to go.
LEMMA MarksMark ==
  ASSUME record \in [Sessions -> {"none", "active", "revoked"}], NEW S \in SUBSET Sessions, Marks(S)
  PROVE  /\ record' \in [Sessions -> {"none", "active", "revoked"}]
         /\ \A t \in Sessions : record'[t] = IF t \in S THEN "revoked" ELSE record[t]
BY DEF Marks

----------------------------------------------------------------------------
(* The invariant.                                                          *)

\* A session is at Clerk when it has been created, by now; at the first
\* moment those before the rule.  Before that there is nothing of it.
Born ==
  \A s \in Sessions :
    /\ created[s] = 0 <=> clerk[s] = "none"
    /\ created[s] <= clock
    /\ created[s] # 0 => (s \in BeforeRule <=> created[s] = 1)
    /\ created[s] = 0 => record[s] = "none" /\ check[s].pc = "idle"

\* A first request signs out only sessions created no later than its own.
Behind ==
  \A s \in Sessions : \A t \in check[s].ends :
    t # s /\ created[t] # 0 /\ created[t] <= created[s]

\* A setting is made by one session, and signs out only such as there are.
Settable ==
  /\ setting.pc = "list" => \E s \in Sessions : setting.by = {s}
  /\ \A t \in setting.ends : created[t] # 0

\* Who is signed out was by the person, or by one created no earlier.
Reasons ==
  \A t \in Sessions : record[t] = "revoked" =>
    t \in dismissed \/ \E s \in Sessions \ {t} : created[t] <= created[s]

\* What holds always of the sessions.
SessionsSound == TypeOK /\ Born /\ Behind /\ Settable /\ Reasons

\* It holds at first.
LEMMA SessionsInit == ASSUME SessionsInstance, Init PROVE SessionsSound
<1>. USE DEF Init
<1>1. TypeOK
  <2>1. check \in [Sessions -> CheckType] /\ setting \in SettingType BY AnIdleCheck, AnIdleSetting
  <2>2. /\ created \in [Sessions -> 0 .. MaxTime] /\ clock \in 1 .. MaxTime
        /\ changes \in 0 .. MaxChanges /\ failures \in 0 .. MaxFailures /\ refusals \in 0 .. MaxRefusals
    BY DEF SessionsInstance
  <2>3. /\ clerk \in [Sessions -> {"none", "active", "ended"}]
        /\ record \in [Sessions -> {"none", "active", "revoked"}]
    OBVIOUS
  <2>. QED BY <2>1, <2>2, <2>3 DEF TypeOK, CheckType, CheckPcs, SettingType
<1>2. Born BY AnIdleCheck DEF Born
<1>3. Behind /\ Settable /\ Reasons BY AnIdleCheck, AnIdleSetting DEF Behind, Settable, Reasons
<1>. QED BY <1>1, <1>2, <1>3 DEF SessionsSound

\* Somebody signs in: nobody else's session is touched, and it is the last.
LEMMA SignInSound ==
  ASSUME SessionsInstance, SessionsSound, NEW x \in Sessions, SignIn(x)
  PROVE  SessionsSound'
<1>. USE DEF SessionsSound, SessionsInstance
<1>1. /\ created \in [Sessions -> 0 .. MaxTime] /\ clock \in 1 .. MaxTime
      /\ clerk \in [Sessions -> {"none", "active", "ended"}]
  BY DEF TypeOK
<1>2. /\ created' = [created EXCEPT ![x] = clock] /\ clerk' = [clerk EXCEPT ![x] = "active"]
      /\ created[x] = 0 /\ (x \in BeforeRule <=> clock = 1)
      /\ UNCHANGED <<record, multi, check, setting, clock, changes, failures, dismissed, refusals>>
  BY DEF SignIn
<1>3. TypeOK'
  <2>1. created' \in [Sessions -> 0 .. MaxTime] BY <1>1, <1>2
  <2>2. clerk' \in [Sessions -> {"none", "active", "ended"}] BY <1>1, <1>2
  <2>. QED BY <1>2, <2>1, <2>2 DEF TypeOK
<1>4. /\ created'[x] = clock /\ clerk'[x] = "active"
      /\ \A s \in Sessions : s # x => created'[s] = created[s] /\ clerk'[s] = clerk[s]
      /\ \A s \in Sessions : created[s] \in Int /\ created[s] <= created'[s]
      /\ \A s \in Sessions : created[s] # 0 => created'[s] = created[s]
  BY <1>1, <1>2
<1>5. Born' BY <1>1, <1>2, <1>4 DEF Born
<1>6. check[x].ends = {}
  <2>1. check[x].ends \subseteq Sessions BY DEF TypeOK
  <2>. QED BY <1>1, <1>2, <2>1 DEF Behind
<1>7. check \in [Sessions -> CheckType] BY DEF TypeOK, CheckType, CheckPcs
<1>8. Behind'
  <2>1. SUFFICES ASSUME NEW s \in Sessions, NEW t \in check[s].ends
                 PROVE  t # s /\ created'[t] # 0 /\ created'[t] <= created'[s]
    BY <1>2 DEF Behind
  <2>2. t \in Sessions /\ s # x BY <1>6, <1>7 DEF CheckType
  <2>. QED BY <1>4, <2>2 DEF Behind
<1>9. Settable'
  <2>1. setting.ends \subseteq Sessions BY DEF TypeOK
  <2>. QED BY <1>2, <1>4, <2>1 DEF Settable
<1>10. Reasons'
  <2>1. SUFFICES ASSUME NEW t \in Sessions, record[t] = "revoked", t \notin dismissed
                 PROVE  \E s \in Sessions \ {t} : created'[t] <= created'[s]
    BY <1>2 DEF Reasons
  <2>2. created[t] # 0 BY <2>1 DEF Born
  <2>3. PICK s \in Sessions \ {t} : created[t] <= created[s] BY <2>1 DEF Reasons
  <2>4. created'[t] <= created'[s] BY <1>1, <1>4, <2>2, <2>3
  <2>. QED BY <2>4
<1>. QED BY <1>3, <1>5, <1>8, <1>9, <1>10

\* A sign-out on the device, and time.
LEMMA OutsideSound ==
  ASSUME SessionsInstance, SessionsSound, Ticks \/ \E x \in Sessions : SignsOut(x)
  PROVE  SessionsSound'
<1>. USE DEF SessionsSound, SessionsInstance
<1>1. UNCHANGED <<created, record, multi, check, setting, failures, refusals>>
  BY DEF Ticks, SignsOut
<1>2. CASE Ticks
  <2>1. clock' = clock + 1 /\ clock < MaxTime /\ UNCHANGED <<clerk, changes, dismissed>>
    BY <1>2 DEF Ticks
  <2>2. clock \in 1 .. MaxTime /\ \A s \in Sessions : created[s] \in Int BY DEF TypeOK
  <2>3. TypeOK' BY <1>1, <2>1, <2>2 DEF TypeOK
  <2>4. Born' BY <1>1, <2>1, <2>2 DEF Born
  <2>. QED BY <1>1, <2>1, <2>3, <2>4 DEF Behind, Settable, Reasons
<1>3. ASSUME NEW x \in Sessions, SignsOut(x) PROVE SessionsSound'
  <2>1. /\ clerk[x] = "active" /\ changes < MaxChanges /\ changes' = changes + 1
        /\ clerk' = [clerk EXCEPT ![x] = "ended"] /\ dismissed' = dismissed \cup {x}
        /\ UNCHANGED clock
    BY <1>3 DEF SignsOut
  <2>2. clerk \in [Sessions -> {"none", "active", "ended"}] BY DEF TypeOK
  <2>3. clerk' \in [Sessions -> {"none", "active", "ended"}] BY <2>1, <2>2
  <2>4. changes' \in 0 .. MaxChanges BY <2>1 DEF TypeOK
  <2>5. TypeOK' BY <1>1, <2>1, <2>3, <2>4 DEF TypeOK
  <2>6. \A s \in Sessions : clerk'[s] = "none" <=> clerk[s] = "none" BY <2>1, <2>2
  <2>7. Born' BY <1>1, <2>1, <2>6 DEF Born
  <2>. QED BY <1>1, <2>1, <2>5, <2>7 DEF Behind, Settable, Reasons
<1>. QED BY <1>2, <1>3

\* The steps of a session's first request, one that marks and one that ends
\* whom it marked among them.
LEMMA CheckSound ==
  ASSUME SessionsInstance, SessionsSound, NEW x \in Sessions,
         CheckSteps(x) \/ ListFails(x) \/ CheckStops(x)
  PROVE  SessionsSound'
<1>. USE DEF SessionsSound, SessionsInstance
<1>1. UNCHANGED <<created, multi, setting, clock, changes, dismissed>>
  BY DEF CheckSteps, ReadRecord, Claim, ListSessions, ReadPolicy, MarkOlder, RevokeAtClerk,
    ListFails, CheckStops
<1>2. check \in [Sessions -> CheckType] BY DEF TypeOK, CheckType, CheckPcs
<1>3. /\ created \in [Sessions -> 0 .. MaxTime]
      /\ clerk \in [Sessions -> {"none", "active", "ended"}]
      /\ record \in [Sessions -> {"none", "active", "revoked"}]
      /\ failures \in 0 .. MaxFailures /\ refusals \in 0 .. MaxRefusals
  BY DEF TypeOK
<1>4. check[x] \in CheckType /\ check[x].ends \subseteq Sessions BY <1>2 DEF CheckType
<1>5. ASSUME NEW n \in CheckType, Checks(x, n),
             \A t \in n.ends : t # x /\ created[t] # 0 /\ created[t] <= created[x],
             n.pc = "idle" \/ created[x] # 0,
             record' \in [Sessions -> {"none", "active", "revoked"}],
             \A t \in Sessions : record'[t] # record[t] =>
               /\ created[t] # 0
               /\ record'[t] = "revoked" => \E s \in Sessions \ {t} : created[t] <= created[s],
             clerk' \in [Sessions -> {"none", "active", "ended"}],
             \A t \in Sessions : clerk'[t] = clerk[t] \/ (clerk'[t] = "ended" /\ clerk[t] # "none"),
             failures' \in 0 .. MaxFailures, refusals' \in 0 .. MaxRefusals
      PROVE  SessionsSound'
  <2>1. check' \in [Sessions -> CheckType] /\ check'[x] = n /\ OthersStay(x) BY <1>2, <1>5, ChecksIs
  <2>2. TypeOK' BY <1>1, <1>5, <2>1 DEF TypeOK, CheckType, CheckPcs
  <2>3. Born'
    <3>1. \A s \in Sessions : clerk'[s] = "none" <=> clerk[s] = "none" BY <1>5
    <3>2. \A s \in Sessions : created[s] = 0 => record'[s] = "none" BY <1>5 DEF Born
    <3>3. \A s \in Sessions : created[s] = 0 => check'[s].pc = "idle"
      BY <1>5, <2>1 DEF Born, OthersStay
    <3>. QED BY <1>1, <3>1, <3>2, <3>3 DEF Born
  <2>4. Behind' BY <1>1, <1>5, <2>1 DEF Behind, OthersStay
  <2>5. Settable' BY <1>1 DEF Settable
  <2>6. Reasons' BY <1>1, <1>5 DEF Reasons
  <2>. QED BY <2>2, <2>3, <2>4, <2>5, <2>6
<1>6. \A t \in check[x].ends : t # x /\ created[t] # 0 /\ created[t] <= created[x]
  BY DEF Behind
<1>7. check[x].pc # "idle" => created[x] # 0 BY DEF Born
<1>8. CheckPcs = {"idle", "claim", "list", "policy", "mark", "clerk"} BY DEF CheckPcs
<1>9. IdleCheck \in CheckType /\ IdleCheck.pc = "idle" /\ IdleCheck.ends = {} BY AnIdleCheck
<1>10. CASE ReadRecord(x)
  <2> DEFINE n == [pc |-> "claim", ends |-> {}]
  <2>1. n \in CheckType /\ n.ends = {} BY <1>8, ACheck
  <2>2. /\ Checks(x, n) /\ clerk[x] = "active"
        /\ UNCHANGED <<record, clerk, failures, refusals>>
    BY <1>10 DEF ReadRecord
  <2>3. created[x] # 0 BY <2>2 DEF Born
  <2> HIDE DEF n
  <2>. QED BY <1>3, <1>5, <2>1, <2>2, <2>3
<1>11. CASE Claim(x)
  <2>1. check[x].pc = "claim" /\ UNCHANGED <<clerk, failures, refusals>> BY <1>11 DEF Claim
  <2>2. CASE record[x] = "none"
    <3> DEFINE n == [pc |-> "list", ends |-> {}]
    <3>1. n \in CheckType /\ n.ends = {} BY <1>8, ACheck
    <3>2. Checks(x, n) /\ record' = [record EXCEPT ![x] = "active"] BY <1>11, <2>2 DEF Claim
    <3> HIDE DEF n
    <3>. QED BY <1>3, <1>5, <1>7, <2>1, <3>1, <3>2
  <2>3. CASE record[x] # "none"
    <3>1. Checks(x, IdleCheck) /\ UNCHANGED record BY <1>11, <2>3 DEF Claim
    <3>. QED BY <1>3, <1>5, <1>9, <2>1, <3>1
  <2>. QED BY <2>2, <2>3
<1>12. CASE ListSessions(x)
  <2>1. check[x].pc = "list" /\ UNCHANGED <<record, clerk, failures, refusals>>
    BY <1>12 DEF ListSessions
  <2>2. CASE x \in Active /\ x \notin BeforeRule
    <3> DEFINE n == [pc |-> "policy", ends |-> Older(x)]
    <3>1. Older(x) \subseteq Sessions BY DEF Older, Active
    <3>2. n \in CheckType /\ n.ends = Older(x) BY <1>8, <3>1, ACheck
    <3>3. Checks(x, n) BY <1>12, <2>2 DEF ListSessions
    <3>4. \A t \in Older(x) : t # x /\ created[t] # 0 /\ created[t] <= created[x]
      BY DEF Older, Active, Born
    <3> HIDE DEF n
    <3>. QED BY <1>3, <1>5, <1>7, <2>1, <3>2, <3>3, <3>4
  <2>3. CASE ~(x \in Active /\ x \notin BeforeRule)
    <3>1. Checks(x, IdleCheck) BY <1>12, <2>3 DEF ListSessions
    <3>. QED BY <1>3, <1>5, <1>9, <2>1, <3>1
  <2>. QED BY <2>2, <2>3
<1>13. CASE ReadPolicy(x)
  <2>1. check[x].pc = "policy" /\ UNCHANGED <<record, clerk, failures, refusals>>
    BY <1>13 DEF ReadPolicy
  <2>2. CASE multi \/ check[x].ends = {}
    <3>1. Checks(x, IdleCheck) BY <1>13, <2>2 DEF ReadPolicy
    <3>. QED BY <1>3, <1>5, <1>9, <2>1, <3>1
  <2>3. CASE ~(multi \/ check[x].ends = {})
    <3> DEFINE n == [check[x] EXCEPT !.pc = "mark"]
    <3>1. n \in CheckType /\ n.ends = check[x].ends BY <1>4, <1>8 DEF CheckType
    <3>2. Checks(x, n) BY <1>13, <2>3 DEF ReadPolicy
    <3> HIDE DEF n
    <3>. QED BY <1>3, <1>5, <1>6, <1>7, <2>1, <3>1, <3>2
  <2>. QED BY <2>2, <2>3
<1>14. CASE MarkOlder(x)
  <2> DEFINE n == [check[x] EXCEPT !.pc = "clerk"]
  <2>1. /\ check[x].pc = "mark" /\ UNCHANGED <<clerk, failures, refusals>>
        /\ Marks(check[x].ends) /\ Checks(x, n)
    BY <1>14 DEF MarkOlder
  <2>2. n \in CheckType /\ n.ends = check[x].ends BY <1>4, <1>8 DEF CheckType
  <2>3. /\ record' \in [Sessions -> {"none", "active", "revoked"}]
        /\ \A t \in Sessions : record'[t] = IF t \in check[x].ends THEN "revoked" ELSE record[t]
    BY <1>3, <1>4, <2>1, MarksMark
  <2> HIDE DEF n
  <2>4. \A t \in Sessions : record'[t] # record[t] =>
          /\ created[t] # 0
          /\ record'[t] = "revoked" => \E s \in Sessions \ {t} : created[t] <= created[s]
    BY <1>6, <2>3
  <2>. QED BY <1>3, <1>5, <1>6, <1>7, <2>1, <2>2, <2>3, <2>4
<1>15. CASE RevokeAtClerk(x)
  <2>1. Checks(x, IdleCheck) /\ Ends(check[x].ends) /\ UNCHANGED <<record, failures>>
    BY <1>15 DEF RevokeAtClerk
  <2>2. check[x].ends \in SUBSET {t \in Sessions : clerk[t] # "none"} BY <1>4, <1>6 DEF Born
  <2>3. /\ refusals' \in 0 .. MaxRefusals
        /\ clerk' \in [Sessions -> {"none", "active", "ended"}]
        /\ \A t \in Sessions : clerk'[t] = clerk[t] \/ (clerk'[t] = "ended" /\ clerk[t] # "none")
    BY <1>3, <2>1, <2>2, EndsEnd
  <2>. QED BY <1>3, <1>5, <1>9, <2>1, <2>3
<1>16. CASE ListFails(x)
  <2>1. /\ check[x].pc = "list" /\ Checks(x, IdleCheck) /\ UNCHANGED <<clerk, refusals>>
        /\ failures < MaxFailures /\ failures' = failures + 1
        /\ record' = [record EXCEPT ![x] = "none"]
    BY <1>16 DEF ListFails
  <2>2. failures' \in 0 .. MaxFailures BY <1>3, <2>1
  <2>3. record' \in [Sessions -> {"none", "active", "revoked"}] BY <1>3, <2>1
  <2>4. \A t \in Sessions : record'[t] # record[t] => created[t] # 0 /\ record'[t] # "revoked"
    BY <1>3, <1>7, <2>1
  <2>. QED BY <1>3, <1>5, <1>9, <2>1, <2>2, <2>3, <2>4
<1>17. CASE CheckStops(x)
  <2>1. /\ Checks(x, IdleCheck) /\ UNCHANGED <<clerk, refusals>>
        /\ failures < MaxFailures /\ failures' = failures + 1
    BY <1>17 DEF CheckStops
  <2>2. PICK S \in SUBSET check[x].ends : Marks(S) BY <1>17 DEF CheckStops
  <2>3. failures' \in 0 .. MaxFailures BY <1>3, <2>1
  <2>4. S \subseteq Sessions BY <1>4, <2>2
  <2>5. /\ record' \in [Sessions -> {"none", "active", "revoked"}]
        /\ \A t \in Sessions : record'[t] = IF t \in S THEN "revoked" ELSE record[t]
    BY <1>3, <2>2, <2>4, MarksMark
  <2>6. \A t \in Sessions : record'[t] # record[t] =>
          /\ created[t] # 0
          /\ record'[t] = "revoked" => \E s \in Sessions \ {t} : created[t] <= created[s]
    BY <1>6, <2>2, <2>5
  <2>. QED BY <1>3, <1>5, <1>9, <2>1, <2>3, <2>5, <2>6
<1>. QED BY <1>10, <1>11, <1>12, <1>13, <1>14, <1>15, <1>16, <1>17 DEF CheckSteps

\* The steps that allow several devices, or one.
AllowSteps == \E x \in Sessions : SignOutOthers(x) \/ AllowSeveral(x) \/ AllowOne(x)

\* Every step of the settings.
SettingMoves ==
  \/ SettingSteps \/ SettingStops \/ AllowSteps
  \/ \E x, y \in Sessions : SignOutDevice(x, y)

\* The steps of the settings: whoever is signed out there is noted as such.
LEMMA SettingSound ==
  ASSUME SessionsInstance, SessionsSound, SettingMoves
  PROVE  SessionsSound'
<1>. USE DEF SessionsSound, SessionsInstance
<1>1. UNCHANGED <<created, check, clock>>
  BY DEF SettingMoves, SettingSteps, AllowSteps, ListOthers, MarkOthers, RevokeOthers,
         SettingStops, SignOutOthers, AllowSeveral, AllowOne, SignOutDevice
<1>2. /\ created \in [Sessions -> 0 .. MaxTime]
      /\ clerk \in [Sessions -> {"none", "active", "ended"}]
      /\ record \in [Sessions -> {"none", "active", "revoked"}]
      /\ setting \in SettingType
      /\ changes \in 0 .. MaxChanges
      /\ failures \in 0 .. MaxFailures /\ refusals \in 0 .. MaxRefusals
      /\ dismissed \subseteq Sessions
  BY DEF TypeOK, SettingType
<1>3. setting.ends \subseteq Sessions BY <1>2 DEF SettingType
<1>4. ASSUME setting' \in SettingType,
             setting'.pc = "list" => \E s \in Sessions : setting'.by = {s},
             \A t \in setting'.ends : created[t] # 0,
             record' \in [Sessions -> {"none", "active", "revoked"}],
             \A t \in Sessions : record'[t] # record[t] => created[t] # 0 /\ t \in dismissed',
             dismissed \subseteq dismissed', dismissed' \subseteq Sessions,
             clerk' \in [Sessions -> {"none", "active", "ended"}],
             \A t \in Sessions : clerk'[t] = clerk[t] \/ (clerk'[t] = "ended" /\ clerk[t] # "none"),
             multi' \in BOOLEAN, changes' \in 0 .. MaxChanges,
             failures' \in 0 .. MaxFailures, refusals' \in 0 .. MaxRefusals
      PROVE  SessionsSound'
  <2>1. TypeOK' BY <1>1, <1>4 DEF TypeOK, SettingType
  <2>2. Born'
    <3>1. \A s \in Sessions : clerk'[s] = "none" <=> clerk[s] = "none" BY <1>4
    <3>2. \A s \in Sessions : created[s] = 0 => record'[s] = "none" BY <1>4 DEF Born
    <3>. QED BY <1>1, <3>1, <3>2 DEF Born
  <2>3. Behind' BY <1>1 DEF Behind
  <2>4. Settable' BY <1>1, <1>4 DEF Settable
  <2>5. Reasons' BY <1>1, <1>4 DEF Reasons
  <2>. QED BY <2>1, <2>2, <2>3, <2>4, <2>5
<1>5. \A t \in setting.ends : created[t] # 0 BY DEF Settable
<1>6. multi \in BOOLEAN BY DEF TypeOK
<1>7. \A p \in {"idle", "list", "mark", "clerk"}, B, S \in SUBSET Sessions :
        LET n == [pc |-> p, by |-> B, ends |-> S]
        IN  n \in SettingType /\ n.pc = p /\ n.by = B /\ n.ends = S
  BY DEF SettingType
<1>8. ASSUME NEW x \in Sessions, SignOutOthers(x) \/ AllowOne(x) PROVE SessionsSound'
  <2>1. /\ setting' = [pc |-> "list", by |-> {x}, ends |-> {}]
        /\ changes < MaxChanges /\ changes' = changes + 1
        /\ UNCHANGED <<clerk, record, failures, dismissed, refusals>>
    BY <1>8 DEF SignOutOthers, AllowOne, Begins
  <2>2. setting' \in SettingType /\ setting'.by = {x} /\ setting'.ends = {} BY <1>7, <2>1
  <2>3. changes' \in 0 .. MaxChanges BY <1>2, <2>1
  <2>4. multi' \in BOOLEAN BY <1>6, <1>8 DEF SignOutOthers, AllowOne
  <2>. QED BY <1>2, <1>4, <2>1, <2>2, <2>3, <2>4
<1>9. ASSUME NEW x \in Sessions, AllowSeveral(x) PROVE SessionsSound'
  <2>1. /\ changes < MaxChanges /\ changes' = changes + 1
        /\ UNCHANGED <<clerk, record, setting, failures, dismissed, refusals>>
    BY <1>9 DEF AllowSeveral
  <2>2. changes' \in 0 .. MaxChanges BY <1>2, <2>1
  <2>3. multi' \in BOOLEAN BY <1>9 DEF AllowSeveral
  <2>. QED BY <1>2, <1>4, <1>5, <2>1, <2>2, <2>3 DEF Settable
<1>10. ASSUME NEW x \in Sessions, NEW y \in Sessions, SignOutDevice(x, y) PROVE SessionsSound'
  <2>1. /\ setting' = [pc |-> "mark", by |-> {x}, ends |-> {y}] /\ clerk[y] = "active"
        /\ changes < MaxChanges /\ changes' = changes + 1
        /\ UNCHANGED <<clerk, record, multi, failures, dismissed, refusals>>
    BY <1>10 DEF SignOutDevice, Active
  <2>2. setting' \in SettingType /\ setting'.pc = "mark" /\ setting'.ends = {y} BY <1>7, <2>1
  <2>3. changes' \in 0 .. MaxChanges BY <1>2, <2>1
  <2>4. created[y] # 0 BY <2>1 DEF Born
  <2>. QED BY <1>2, <1>4, <1>6, <2>1, <2>2, <2>3, <2>4
<1>11. CASE ListOthers
  <2>1. /\ setting' = [setting EXCEPT !.pc = "mark", !.ends = OtherDevices]
        /\ UNCHANGED <<clerk, record, multi, changes, failures, dismissed, refusals>>
    BY <1>11 DEF ListOthers
  <2>2. OtherDevices \subseteq Sessions /\ \A t \in OtherDevices : created[t] # 0
    BY DEF OtherDevices, Active, Born
  <2>3. setting' \in SettingType /\ setting'.pc = "mark" /\ setting'.ends = OtherDevices
    BY <1>2, <2>1, <2>2 DEF SettingType
  <2>. QED BY <1>2, <1>4, <1>6, <2>1, <2>2, <2>3
<1>12. CASE SettingStops
  <2>1. /\ setting' = IdleSetting /\ failures < MaxFailures /\ failures' = failures + 1
        /\ UNCHANGED <<clerk, multi, changes, refusals>>
    BY <1>12 DEF SettingStops
  <2>2. failures' \in 0 .. MaxFailures BY <1>2, <2>1
  <2>3. PICK S \in SUBSET setting.ends : Marks(S) /\ dismissed' = dismissed \cup S
    BY <1>12 DEF SettingStops
  <2>4. S \subseteq Sessions BY <1>3, <2>3
  <2>5. /\ record' \in [Sessions -> {"none", "active", "revoked"}]
        /\ \A t \in Sessions : record'[t] = IF t \in S THEN "revoked" ELSE record[t]
    BY <1>2, <2>3, <2>4, MarksMark
  <2>. QED BY <1>2, <1>4, <1>5, <1>6, <2>1, <2>2, <2>3, <2>4, <2>5, AnIdleSetting
<1>13. CASE MarkOthers
  <2>1. /\ Marks(setting.ends) /\ dismissed' = dismissed \cup setting.ends
        /\ setting' = [setting EXCEPT !.pc = "clerk"]
        /\ UNCHANGED <<clerk, multi, changes, failures, refusals>>
    BY <1>13 DEF MarkOthers
  <2>2. setting' \in SettingType /\ setting'.pc = "clerk" /\ setting'.ends = setting.ends
    BY <1>2, <2>1 DEF SettingType
  <2>3. /\ record' \in [Sessions -> {"none", "active", "revoked"}]
        /\ \A t \in Sessions : record'[t] = IF t \in setting.ends THEN "revoked" ELSE record[t]
    BY <1>2, <1>3, <2>1, MarksMark
  <2>. QED BY <1>2, <1>3, <1>4, <1>5, <1>6, <2>1, <2>2, <2>3
<1>14. CASE RevokeOthers
  <2>1. /\ setting' = IdleSetting /\ Ends(setting.ends)
        /\ UNCHANGED <<record, multi, changes, failures, dismissed>>
    BY <1>14 DEF RevokeOthers
  <2>2. setting.ends \in SUBSET {t \in Sessions : clerk[t] # "none"} BY <1>3, <1>5 DEF Born
  <2>3. /\ refusals' \in 0 .. MaxRefusals
        /\ clerk' \in [Sessions -> {"none", "active", "ended"}]
        /\ \A t \in Sessions : clerk'[t] = clerk[t] \/ (clerk'[t] = "ended" /\ clerk[t] # "none")
    BY <1>2, <2>1, <2>2, EndsEnd
  <2>. QED BY <1>2, <1>4, <1>6, <2>1, <2>3, AnIdleSetting
<1>. QED BY <1>8, <1>9, <1>10, <1>11, <1>12, <1>13, <1>14 DEF SettingMoves, SettingSteps, AllowSteps

\* Every step is one of these.
LEMMA SessionsStep ==
  ASSUME Next
  PROVE  \/ \E x \in Sessions : SignIn(x)
         \/ Ticks \/ \E x \in Sessions : SignsOut(x)
         \/ \E x \in Sessions : CheckSteps(x) \/ ListFails(x) \/ CheckStops(x)
         \/ SettingMoves
BY DEF Next, SettingMoves, AllowSteps

\* It is an invariant.
LEMMA SessionsAreSound == SessionsInstance => (Spec => []SessionsSound)
<1>. SUFFICES ASSUME SessionsInstance PROVE Spec => []SessionsSound OBVIOUS
<1>1. Init => SessionsSound BY SessionsInit
<1>2. SessionsSound /\ [Next]_vars => SessionsSound'
  <2>1. CASE Next BY <2>1, SessionsStep, SignInSound, OutsideSound, CheckSound, SettingSound
  <2>2. CASE UNCHANGED vars
    BY <2>2 DEF vars, SessionsSound, TypeOK, Born, Behind, Settable, Reasons
  <2>. QED BY <2>1, <2>2
<1>. QED BY <1>1, <1>2, PTL DEF Spec

\* Every variable has its type.
THEOREM SessionsTypeCorrect == SessionsInstance => (Spec => []TypeOK)
<1>1. SessionsSound => TypeOK BY DEF SessionsSound
<1>. QED BY <1>1, SessionsAreSound, PTL

\* Two devices signing in do not end each other: the one created after all
\* the others is not signed out by the rule, whatever the order of the first
\* requests, the failures of Clerk and the changes of policy.
THEOREM LastStaysIn == SessionsInstance => (Spec => []NewestStaysIn)
<1>1. ASSUME SessionsSound PROVE NewestStaysIn
  <2>1. SUFFICES ASSUME NEW s \in Sessions, \A t \in Sessions \ {s} : created[t] < created[s],
                        record[s] = "revoked"
                 PROVE  s \in dismissed
    BY DEF NewestStaysIn
  <2>2. \A t \in Sessions : created[t] \in Int BY <1>1 DEF SessionsSound, TypeOK
  <2>3. s \in dismissed \/ \E t \in Sessions \ {s} : created[s] <= created[t]
    BY <1>1, <2>1 DEF SessionsSound, Reasons
  <2>. QED BY <2>1, <2>2, <2>3
<1>. QED BY <1>1, SessionsAreSound, PTL

----------------------------------------------------------------------------
(* One device: of two that may both be let in, at least one after the      *)
(* rule, something is still to sign one of them out, unless several are    *)
(* allowed or Clerk once did not say who is signed in.                     *)

\* Two sessions that are let in and that the rule does not leave together.
Rivals(s, t) ==
  /\ s # t /\ clerk[s] = "active" /\ clerk[t] = "active"
  /\ record[s] # "revoked" /\ record[t] # "revoked"
  /\ ~({s, t} \subseteq BeforeRule)

\* s will sign out t, when its first request is made or goes on.
Pending(s, t) ==
  /\ s \notin BeforeRule /\ created[t] <= created[s]
  /\ \/ record[s] = "none" \/ check[s].pc = "list"
     \/ check[s].pc \in {"policy", "mark"} /\ t \in check[s].ends

\* The rule is off, or Clerk has failed.
Excused == multi \/ failures # 0

\* A setting will sign out one of them.
Chosen(s, t) ==
  setting.pc = "list" \/ (setting.pc = "mark" /\ (s \in setting.ends \/ t \in setting.ends))

\* Of two rivals the older is on its way out.
Settled ==
  \A s, t \in Sessions :
    Rivals(s, t) => Excused \/ Chosen(s, t) \/ Pending(s, t) \/ Pending(t, s)

\* Where rivals were rivals before, and what was going to part them still
\* will, all stays settled.
LEMMA SettledStays ==
  ASSUME Settled,
         \A s, t \in Sessions : Rivals(s, t)' => Rivals(s, t),
         Excused => Excused',
         \A s, t \in Sessions : Rivals(s, t)' /\ Chosen(s, t) => Chosen(s, t)' \/ Excused',
         \A s, t \in Sessions : Rivals(s, t)' /\ (Pending(s, t) \/ Pending(t, s)) =>
                                  Pending(s, t)' \/ Pending(t, s)' \/ Chosen(s, t)' \/ Excused'
  PROVE  Settled'
BY DEF Settled

\* Somebody signs in: there is no record of it, so all before it are to go.
LEMMA SignInSettled ==
  ASSUME SessionsSound, Settled, NEW x \in Sessions, SignIn(x)
  PROVE  Settled'
<1>1. /\ created \in [Sessions -> 0 .. MaxTime] /\ clock \in 1 .. MaxTime
      /\ clerk \in [Sessions -> {"none", "active", "ended"}]
  BY DEF SessionsSound, TypeOK
<1>2. /\ created' = [created EXCEPT ![x] = clock] /\ clerk' = [clerk EXCEPT ![x] = "active"]
      /\ created[x] = 0 /\ (x \in BeforeRule <=> clock = 1)
      /\ UNCHANGED <<record, multi, check, setting, failures>>
  BY DEF SignIn
<1>3. /\ created'[x] = clock
      /\ \A s \in Sessions : s # x => created'[s] = created[s] /\ clerk'[s] = clerk[s]
      /\ \A s \in Sessions : created[s] <= clock /\ created[s] \in Int
  BY <1>1, <1>2 DEF SessionsSound, Born
<1>4. ASSUME NEW s \in Sessions, NEW t \in Sessions, Rivals(s, t)', s # x, t # x
      PROVE  Excused' \/ Chosen(s, t)' \/ Pending(s, t)' \/ Pending(t, s)'
  <2>1. Rivals(s, t) BY <1>2, <1>3, <1>4 DEF Rivals
  <2>2. Excused \/ Chosen(s, t) \/ Pending(s, t) \/ Pending(t, s) BY <2>1 DEF Settled
  <2>3. Excused => Excused' BY <1>2 DEF Excused
  <2>4. Chosen(s, t) => Chosen(s, t)' BY <1>2 DEF Chosen
  <2>5. Pending(s, t) => Pending(s, t)' BY <1>2, <1>3, <1>4 DEF Pending
  <2>6. Pending(t, s) => Pending(t, s)' BY <1>2, <1>3, <1>4 DEF Pending
  <2>. QED BY <2>2, <2>3, <2>4, <2>5, <2>6
<1>5. ASSUME NEW t \in Sessions, t # x, ~({x, t} \subseteq BeforeRule), clerk'[t] = "active"
      PROVE  Pending(x, t)'
  <2>1. clerk[t] = "active" BY <1>3, <1>5
  <2>2. created[t] # 0 /\ (t \in BeforeRule <=> created[t] = 1) BY <2>1 DEF SessionsSound, Born
  <2>3. clock = 1 => created[t] = 1 BY <1>1, <1>3, <2>2
  <2>4. x \notin BeforeRule BY <1>2, <1>5, <2>2, <2>3
  <2>5. record[x] = "none" BY <1>2 DEF SessionsSound, Born
  <2>6. created'[t] <= created'[x] BY <1>3, <1>5
  <2>. QED BY <1>2, <2>4, <2>5, <2>6 DEF Pending
<1>6. ASSUME NEW s \in Sessions, NEW t \in Sessions, Rivals(s, t)'
      PROVE  Excused' \/ Chosen(s, t)' \/ Pending(s, t)' \/ Pending(t, s)'
  <2>1. CASE s = x
    <3>1. t # x /\ ~({x, t} \subseteq BeforeRule) /\ clerk'[t] = "active" BY <1>6, <2>1 DEF Rivals
    <3>. QED BY <1>5, <2>1, <3>1
  <2>2. CASE t = x
    <3>1. s # x /\ ~({x, s} \subseteq BeforeRule) /\ clerk'[s] = "active" BY <1>6, <2>2 DEF Rivals
    <3>. QED BY <1>5, <2>2, <3>1
  <2>3. CASE s # x /\ t # x BY <1>4, <1>6, <2>3
  <2>. QED BY <2>1, <2>2, <2>3
<1>. QED BY <1>6 DEF Settled

\* A sign-out on the device, and time.
LEMMA OutsideSettled ==
  ASSUME SessionsSound, Settled, Ticks \/ \E x \in Sessions : SignsOut(x)
  PROVE  Settled'
<1>1. UNCHANGED <<created, record, multi, check, setting, failures>> BY DEF Ticks, SignsOut
<1>2. clerk \in [Sessions -> {"none", "active", "ended"}] BY DEF SessionsSound, TypeOK
<1>3. \A s \in Sessions : clerk'[s] = "active" => clerk[s] = "active"
  BY <1>2 DEF Ticks, SignsOut
<1>4. \A s, t \in Sessions : Rivals(s, t)' => Rivals(s, t) BY <1>1, <1>3 DEF Rivals
<1>5. Excused => Excused' BY <1>1 DEF Excused
<1>6. \A s, t \in Sessions : Chosen(s, t) => Chosen(s, t)' BY <1>1 DEF Chosen
<1>7. \A s, t \in Sessions : Pending(s, t) => Pending(s, t)' BY <1>1 DEF Pending
<1>. QED BY <1>4, <1>5, <1>6, <1>7, SettledStays

\* The steps of a session's first request.
LEMMA CheckSettled ==
  ASSUME SessionsInstance, SessionsSound, Settled, NEW x \in Sessions,
         CheckSteps(x) \/ ListFails(x) \/ CheckStops(x)
  PROVE  Settled'
<1>. USE DEF SessionsInstance
<1>1. UNCHANGED <<created, multi, setting>>
  BY DEF CheckSteps, ReadRecord, Claim, ListSessions, ReadPolicy, MarkOlder, RevokeAtClerk,
    ListFails, CheckStops
<1>2. check \in [Sessions -> CheckType] BY DEF SessionsSound, TypeOK, CheckType, CheckPcs
<1>3. /\ created \in [Sessions -> 0 .. MaxTime]
      /\ clerk \in [Sessions -> {"none", "active", "ended"}]
      /\ record \in [Sessions -> {"none", "active", "revoked"}]
      /\ failures \in 0 .. MaxFailures /\ refusals \in 0 .. MaxRefusals
  BY DEF SessionsSound, TypeOK
<1>4. check[x] \in CheckType /\ check[x].ends \subseteq Sessions BY <1>2 DEF CheckType
<1>5. CheckPcs = {"idle", "claim", "list", "policy", "mark", "clerk"} BY DEF CheckPcs
<1>6. IdleCheck \in CheckType /\ IdleCheck.pc = "idle" /\ IdleCheck.ends = {} BY AnIdleCheck
<1>7. \A s, t \in Sessions : Chosen(s, t) => Chosen(s, t)' BY <1>1 DEF Chosen
\* One step that marks and ends sessions, or only goes on with x's check.
<1>8. ASSUME NEW n \in CheckType, Checks(x, n),
             \A s \in Sessions : clerk'[s] = "active" => clerk[s] = "active",
             \A s \in Sessions : record'[s] # "revoked" => record[s] # "revoked",
             \A s \in Sessions : s # x /\ record'[s] # "revoked" => record'[s] = record[s],
             Excused => Excused',
             \A t \in Sessions : Rivals(x, t)' /\ Pending(x, t) =>
               \/ record'[x] = "none" \/ n.pc = "list"
               \/ n.pc \in {"policy", "mark"} /\ t \in n.ends
               \/ Excused'
      PROVE  Settled'
  <2>1. check'[x] = n /\ OthersStay(x) BY <1>2, <1>8, ChecksIs
  <2>2. \A s, t \in Sessions : Rivals(s, t)' => Rivals(s, t) BY <1>8 DEF Rivals
  <2>3. ASSUME NEW s \in Sessions, NEW t \in Sessions,
               Rivals(s, t)' \/ Rivals(t, s)', Pending(s, t)
        PROVE  Pending(s, t)' \/ Excused'
    <3>1. Rivals(s, t)' BY <2>3 DEF Rivals
    <3>2. CASE s = x BY <1>1, <1>8, <2>1, <2>3, <3>1, <3>2 DEF Pending
    <3>3. CASE s # x
      <4>1. check'[s] = check[s] BY <2>1, <3>3 DEF OthersStay
      <4>2. record'[s] = record[s] BY <1>8, <3>1, <3>3 DEF Rivals
      <4>. QED BY <1>1, <2>3, <4>1, <4>2 DEF Pending
    <3>. QED BY <3>2, <3>3
  <2>4. \A s, t \in Sessions : Rivals(s, t)' <=> Rivals(t, s)' BY DEF Rivals
  <2>5. \A s, t \in Sessions : Rivals(s, t)' /\ (Pending(s, t) \/ Pending(t, s)) =>
          Pending(s, t)' \/ Pending(t, s)' \/ Chosen(s, t)' \/ Excused'
    BY <2>3, <2>4
  <2>. QED BY <1>7, <1>8, <2>2, <2>5, SettledStays
<1>9. CASE ReadRecord(x)
  <2> DEFINE n == [pc |-> "claim", ends |-> {}]
  <2>1. n \in CheckType BY <1>5, ACheck
  <2>2. /\ Checks(x, n) /\ record[x] = "none"
        /\ UNCHANGED <<record, clerk, failures>>
    BY <1>9 DEF ReadRecord
  <2>3. Excused => Excused' BY <1>1, <2>2 DEF Excused
  <2> HIDE DEF n
  <2>. QED BY <1>8, <2>1, <2>2, <2>3
<1>10. CASE Claim(x)
  <2>1. check[x].pc = "claim" /\ UNCHANGED <<clerk, failures>> BY <1>10 DEF Claim
  <2>2. Excused => Excused' BY <1>1, <2>1 DEF Excused
  <2>3. CASE record[x] = "none"
    <3> DEFINE n == [pc |-> "list", ends |-> {}]
    <3>1. n \in CheckType /\ n.pc = "list" BY <1>5, ACheck
    <3>2. Checks(x, n) /\ record' = [record EXCEPT ![x] = "active"] BY <1>10, <2>3 DEF Claim
    <3> HIDE DEF n
    <3>3. \A s \in Sessions : record'[s] # "revoked" => record[s] # "revoked" BY <1>3, <2>3, <3>2
    <3>4. \A s \in Sessions : s # x => record'[s] = record[s] BY <1>3, <3>2
    <3>. QED BY <1>8, <2>1, <2>2, <3>1, <3>2, <3>3, <3>4
  <2>4. CASE record[x] # "none"
    <3>1. Checks(x, IdleCheck) /\ UNCHANGED record BY <1>10, <2>4 DEF Claim
    <3>2. \A t \in Sessions : ~Pending(x, t) BY <2>1, <2>4 DEF Pending
    <3>. QED BY <1>6, <1>8, <2>1, <2>2, <3>1, <3>2
  <2>. QED BY <2>3, <2>4
<1>11. CASE ListSessions(x)
  <2>1. check[x].pc = "list" /\ UNCHANGED <<record, clerk, failures>> BY <1>11 DEF ListSessions
  <2>2. Excused => Excused' BY <1>1, <2>1 DEF Excused
  <2>3. CASE x \in Active /\ x \notin BeforeRule
    <3> DEFINE n == [pc |-> "policy", ends |-> Older(x)]
    <3>1. Older(x) \subseteq Sessions BY DEF Older, Active
    <3>2. n \in CheckType /\ n.pc = "policy" /\ n.ends = Older(x) BY <1>5, <3>1, ACheck
    <3>3. Checks(x, n) BY <1>11, <2>3 DEF ListSessions
    <3>4. ASSUME NEW t \in Sessions, Rivals(x, t)', Pending(x, t) PROVE t \in Older(x)
      BY <2>1, <3>4 DEF Older, Active, Rivals, Pending
    <3> HIDE DEF n
    <3>. QED BY <1>8, <2>1, <2>2, <3>2, <3>3, <3>4
  <2>4. CASE ~(x \in Active /\ x \notin BeforeRule)
    <3>1. Checks(x, IdleCheck) BY <1>11, <2>4 DEF ListSessions
    <3>2. \A t \in Sessions : ~(Rivals(x, t)' /\ Pending(x, t))
      BY <2>1, <2>4 DEF Rivals, Pending, Active
    <3>. QED BY <1>6, <1>8, <2>1, <2>2, <3>1, <3>2
  <2>. QED BY <2>3, <2>4
<1>12. CASE ReadPolicy(x)
  <2>1. check[x].pc = "policy" /\ UNCHANGED <<record, clerk, failures>> BY <1>12 DEF ReadPolicy
  <2>2. Excused => Excused' BY <1>1, <2>1 DEF Excused
  <2>3. CASE multi \/ check[x].ends = {}
    <3>1. Checks(x, IdleCheck) BY <1>12, <2>3 DEF ReadPolicy
    <3>2. multi => Excused' BY <1>1 DEF Excused
    <3>3. \A t \in Sessions : Pending(x, t) => record'[x] = "none" \/ Excused'
      BY <2>1, <2>3, <3>2 DEF Pending
    <3>. QED BY <1>6, <1>8, <2>1, <2>2, <3>1, <3>3
  <2>4. CASE ~(multi \/ check[x].ends = {})
    <3> DEFINE n == [check[x] EXCEPT !.pc = "mark"]
    <3>1. n \in CheckType /\ n.pc = "mark" /\ n.ends = check[x].ends BY <1>4, <1>5 DEF CheckType
    <3>2. Checks(x, n) BY <1>12, <2>4 DEF ReadPolicy
    <3> HIDE DEF n
    <3>3. \A t \in Sessions : Pending(x, t) => record'[x] = "none" \/ t \in n.ends
      BY <2>1, <3>1 DEF Pending
    <3>. QED BY <1>8, <2>1, <2>2, <3>1, <3>2, <3>3
  <2>. QED BY <2>3, <2>4
<1>13. CASE MarkOlder(x)
  <2> DEFINE n == [check[x] EXCEPT !.pc = "clerk"]
  <2>1. /\ check[x].pc = "mark" /\ UNCHANGED <<clerk, failures>>
        /\ Marks(check[x].ends) /\ Checks(x, n)
    BY <1>13 DEF MarkOlder
  <2>2. n \in CheckType BY <1>4, <1>5 DEF CheckType
  <2>3. \A t \in Sessions : record'[t] = IF t \in check[x].ends THEN "revoked" ELSE record[t]
    BY <1>3, <1>4, <2>1, MarksMark
  <2>4. Excused => Excused' BY <1>1, <2>1 DEF Excused
  <2> HIDE DEF n
  <2>5. \A t \in Sessions : Rivals(x, t)' /\ Pending(x, t) => record'[x] = "none"
    BY <2>1, <2>3 DEF Rivals, Pending
  <2>. QED BY <1>8, <2>1, <2>2, <2>3, <2>4, <2>5
<1>14. CASE RevokeAtClerk(x)
  <2>1. /\ Checks(x, IdleCheck) /\ Ends(check[x].ends) /\ UNCHANGED <<record, failures>>
        /\ check[x].pc = "clerk"
    BY <1>14 DEF RevokeAtClerk
  <2>2. check[x].ends \in SUBSET {t \in Sessions : clerk[t] # "none"}
    BY <1>4 DEF SessionsSound, Behind, Born
  <2>3. \A t \in Sessions : clerk'[t] = clerk[t] \/ clerk'[t] = "ended"
    BY <1>3, <2>1, <2>2, EndsEnd
  <2>4. Excused => Excused' BY <1>1, <2>1 DEF Excused
  <2>5. \A t \in Sessions : Pending(x, t) => record'[x] = "none" BY <2>1 DEF Pending
  <2>. QED BY <1>6, <1>8, <2>1, <2>3, <2>4, <2>5
<1>15. CASE ListFails(x) \/ CheckStops(x)
  <2>1. Excused' BY <1>3, <1>15 DEF ListFails, CheckStops, Excused
  <2>. QED BY <2>1 DEF Settled
<1>. QED BY <1>9, <1>10, <1>11, <1>12, <1>13, <1>14, <1>15 DEF CheckSteps

\* The steps of the settings.
LEMMA SettingSettled ==
  ASSUME SessionsInstance, SessionsSound, Settled, SettingMoves
  PROVE  Settled'
<1>. USE DEF SessionsInstance
<1>1. UNCHANGED <<created, check>>
  BY DEF SettingMoves, SettingSteps, AllowSteps, ListOthers, MarkOthers, RevokeOthers,
         SettingStops, SignOutOthers, AllowSeveral, AllowOne, SignOutDevice
<1>2. /\ clerk \in [Sessions -> {"none", "active", "ended"}]
      /\ record \in [Sessions -> {"none", "active", "revoked"}]
      /\ setting \in SettingType
      /\ failures \in 0 .. MaxFailures /\ refusals \in 0 .. MaxRefusals
  BY DEF SessionsSound, TypeOK, SettingType
<1>3. setting.ends \subseteq Sessions BY <1>2 DEF SettingType
<1>4. ASSUME NEW x \in Sessions, SignOutOthers(x) \/ AllowOne(x) PROVE Settled'
  <2>1. setting' = [pc |-> "list", by |-> {x}, ends |-> {}]
    BY <1>4 DEF SignOutOthers, AllowOne, Begins
  <2>2. setting'.pc = "list" BY <2>1
  <2>. QED BY <2>2 DEF Settled, Chosen
<1>5. ASSUME NEW x \in Sessions, AllowSeveral(x) PROVE Settled'
  <2>1. Excused' BY <1>5 DEF AllowSeveral, Excused
  <2>. QED BY <2>1 DEF Settled
\* The other steps leave the policy as it is.
<1>6. ASSUME UNCHANGED <<multi, failures>>,
             \A s \in Sessions : clerk'[s] = "active" => clerk[s] = "active",
             \A s \in Sessions : record'[s] # "revoked" => record'[s] = record[s],
             \A s, t \in Sessions : Rivals(s, t)' /\ Chosen(s, t) => Chosen(s, t)'
      PROVE  Settled'
  <2>1. \A s, t \in Sessions : Rivals(s, t)' => Rivals(s, t) BY <1>6 DEF Rivals
  <2>2. Excused => Excused' BY <1>6 DEF Excused
  <2>3. \A s, t \in Sessions : Rivals(s, t)' =>
          record'[s] = record[s] /\ record'[t] = record[t]
    BY <1>6 DEF Rivals
  <2>4. \A s, t \in Sessions : Rivals(s, t)' /\ (Pending(s, t) \/ Pending(t, s)) =>
          Pending(s, t)' \/ Pending(t, s)'
    BY <1>1, <2>3 DEF Pending
  <2>. QED BY <1>6, <2>1, <2>2, <2>4, SettledStays
<1>7. ASSUME NEW x \in Sessions, NEW y \in Sessions, SignOutDevice(x, y) PROVE Settled'
  <2>1. setting.pc = "idle" /\ UNCHANGED <<clerk, record, multi, failures>>
    BY <1>7 DEF SignOutDevice
  <2>2. \A s, t \in Sessions : ~Chosen(s, t) BY <2>1 DEF Chosen
  <2>. QED BY <1>6, <2>1, <2>2
<1>8. CASE ListOthers
  <2>1. /\ setting' = [setting EXCEPT !.pc = "mark", !.ends = OtherDevices] /\ setting.pc = "list"
        /\ UNCHANGED <<clerk, record, multi, failures>>
    BY <1>8 DEF ListOthers
  <2>2. setting'.pc = "mark" /\ setting'.ends = OtherDevices BY <1>2, <2>1 DEF SettingType
  <2>3. PICK u \in Sessions : setting.by = {u} BY <2>1 DEF SessionsSound, Settable
  <2>4. \A s, t \in Sessions : Rivals(s, t)' => Chosen(s, t)'
    BY <2>1, <2>2, <2>3 DEF Rivals, Chosen, OtherDevices, Active
  <2>. QED BY <1>6, <2>1, <2>4
<1>9. CASE SettingStops
  <2>1. Excused' BY <1>2, <1>9 DEF SettingStops, Excused
  <2>. QED BY <2>1 DEF Settled
<1>10. CASE MarkOthers
  <2>1. setting.pc = "mark" /\ Marks(setting.ends) /\ UNCHANGED <<clerk, multi, failures>>
    BY <1>10 DEF MarkOthers
  <2>2. \A t \in Sessions : record'[t] = IF t \in setting.ends THEN "revoked" ELSE record[t]
    BY <1>2, <1>3, <2>1, MarksMark
  <2>3. \A s, t \in Sessions : Rivals(s, t)' => ~Chosen(s, t) BY <2>1, <2>2 DEF Rivals, Chosen
  <2>. QED BY <1>6, <2>1, <2>2, <2>3
<1>11. CASE RevokeOthers
  <2>1. setting.pc = "clerk" /\ Ends(setting.ends) /\ UNCHANGED <<record, multi, failures>>
    BY <1>11 DEF RevokeOthers
  <2>2. setting.ends \in SUBSET {t \in Sessions : clerk[t] # "none"}
    BY <1>3 DEF SessionsSound, Settable, Born
  <2>3. \A t \in Sessions : clerk'[t] = clerk[t] \/ clerk'[t] = "ended"
    BY <1>2, <2>1, <2>2, EndsEnd
  <2>4. \A s, t \in Sessions : ~Chosen(s, t) BY <2>1 DEF Chosen
  <2>. QED BY <1>6, <2>1, <2>3, <2>4
<1>. QED BY <1>4, <1>5, <1>7, <1>8, <1>9, <1>10, <1>11 DEF SettingMoves, SettingSteps, AllowSteps

\* It is an invariant.
LEMMA SettledIsInvariant == SessionsInstance => (Spec => []Settled)
<1>. SUFFICES ASSUME SessionsInstance PROVE Spec => []Settled OBVIOUS
<1>1. Init => Settled BY DEF Init, Settled, Rivals
<1>2. SessionsSound /\ Settled /\ [Next]_vars => Settled'
  <2>1. CASE Next BY <2>1, SessionsStep, SignInSettled, OutsideSettled, CheckSettled, SettingSettled
  <2>2. CASE UNCHANGED vars
    BY <2>2 DEF vars, Settled, Rivals, Excused, Chosen, Pending
  <2>. QED BY <2>1, <2>2
<1>3. Spec => []SessionsSound BY SessionsAreSound
<1>. QED BY <1>1, <1>2, <1>3, PTL DEF Spec

\* One device is left: where several are not allowed and nothing is in
\* flight, of two that are let in both were there before the rule, whether or
\* not Clerk ends whom it is told to and whether or not any two were created
\* in the same millisecond.
THEOREM OneIsLeft == SessionsInstance => (Spec => []OneDevice)
<1>1. ASSUME Settled PROVE OneDevice
  <2>1. SUFFICES ASSUME ~multi, failures = 0, setting = IdleSetting,
                        \A s \in Sessions : check[s] = IdleCheck,
                        NEW s \in Sessions, NEW t \in Sessions, LetIn(s), LetIn(t),
                        s # t, ~({s, t} \subseteq BeforeRule)
                 PROVE  FALSE
    BY DEF OneDevice, Quiet, OneIsIn
  <2>2. Rivals(s, t) BY <2>1 DEF Rivals, LetIn
  <2>3. ~Excused BY <2>1 DEF Excused
  <2>4. ~Chosen(s, t) BY <2>1, AnIdleSetting DEF Chosen
  <2>5. ~Pending(s, t) /\ ~Pending(t, s) BY <2>1, AnIdleCheck DEF Pending, LetIn
  <2>. QED BY <1>1, <2>2, <2>3, <2>4, <2>5 DEF Settled
<1>. QED BY <1>1, SettledIsInvariant, PTL

-----------------------------------------------------------------------------
(* Which meeting an address opens.                                         *)

\* What the theorems take of the constants.
AddressInstance ==
  /\ "none" \notin Events /\ Leftover \in Events /\ Events \ {Leftover} # {}
  /\ Slugs # {}
  /\ MaxBegun \in Nat

\* What a request holds.
WorkType == [kind : Address!Kinds, pc : Address!Pcs, e : Events, slug : Slugs,
            prev : Address!Records \cup {Address!Gone}, todo : SUBSET Slugs]

\* A request that is not at work is one.
LEMMA AddressIdle ==
  ASSUME AddressInstance
  PROVE  Address!Idle \in WorkType /\ Address!Idle.kind = "none"
<1>1. Address!AnEvent \in Events /\ Address!ASlug \in Slugs
  BY DEF Address!AnEvent, Address!ASlug, AddressInstance
<1>. QED BY <1>1 DEF Address!Idle, WorkType, Address!Kinds, Address!Pcs

\* A record's addresses are addresses.
LEMMA SlugsAre ==
  ASSUME NEW p \in Address!Records \cup {Address!Gone}
  PROVE  p \in Address!Records => Address!SlugsOf(p) \subseteq Slugs
BY DEF Address!Records, Address!SlugsOf

\* One request's record changes.
OthersWait(r) == \A q \in Requests : q # r => work'[q] = work[q]

\* A request goes on; the others wait.
LEMMA WorkIs ==
  ASSUME Address!TypeOK, NEW r \in Requests, NEW m \in WorkType, work' = [work EXCEPT ![r] = m]
  PROVE  work' \in [Requests -> WorkType] /\ work'[r] = m /\ OthersWait(r)
BY DEF Address!TypeOK, WorkType, OthersWait

\* It goes on where it was.
LEMMA AddressGoesIs ==
  ASSUME Address!TypeOK, NEW r \in Requests, NEW pc \in Address!Pcs, Address!Goes(r, pc)
  PROVE  LET m == [work[r] EXCEPT !.pc = pc]
         IN /\ m \in WorkType /\ work' = [work EXCEPT ![r] = m]
            /\ m.kind = work[r].kind /\ m.e = work[r].e /\ m.slug = work[r].slug /\ m.pc = pc
<1>1. work[r] \in WorkType BY DEF Address!TypeOK, WorkType
<1>. QED BY <1>1 DEF Address!Goes, WorkType

\* The types at first.
LEMMA AddressInitTypes == ASSUME AddressInstance, Address!Init PROVE Address!TypeOK
<1>1. PICK e \in Events \ {Leftover} :
        /\ event = [x \in Events |->
                      IF x \in {e, Leftover} THEN [slug |-> Address!ASlug, alias |-> {}]
                      ELSE Address!Gone]
        /\ index = [s \in Slugs |-> IF s = Address!ASlug THEN e ELSE "none"]
        /\ copies = [x \in Events |-> {}]
        /\ used = {e, Leftover} /\ work = [r \in Requests |-> Address!Idle] /\ ops = 0
  BY DEF Address!Init
<1>2. [slug |-> Address!ASlug, alias |-> {}] \in Address!Records
  BY DEF Address!ASlug, AddressInstance, Address!Records
<1>3. ops \in 0 .. MaxBegun BY <1>1 DEF AddressInstance
<1>4. work \in [Requests -> WorkType] BY <1>1, AddressIdle
<1>. QED BY <1>1, <1>2, <1>3, <1>4 DEF Address!TypeOK, WorkType, AddressInstance

\* The copy a rename, a restore or a removal goes by is a record.
Prepared(q) ==
  q.kind \in {"rename", "restore"} \/ (q.kind = "delete" /\ q.pc = "remove") => q.prev \in Address!Records

\* The types, and what the copies are.
AddressTyped == Address!TypeOK /\ \A r \in Requests : Prepared(work[r])

\* A request's step.
LEMMA TypesGo ==
  ASSUME AddressInstance, AddressTyped, NEW r \in Requests, NEW m \in WorkType,
         work' = [work EXCEPT ![r] = m], Prepared(m),
         event' \in [Events -> Address!Records \cup {Address!Gone}],
             index' \in [Slugs -> Events \cup {"none"}],
         copies' \in [Events -> SUBSET Address!Records], used' \subseteq Events, ops' \in 0 .. MaxBegun
  PROVE  AddressTyped'
<1>1. work' \in [Requests -> WorkType] /\ work'[r] = m /\ OthersWait(r) BY WorkIs DEF AddressTyped
<1>. QED BY <1>1 DEF AddressTyped, Address!TypeOK, WorkType, OthersWait

\* A request is done.
LEMMA DoneIs ==
  ASSUME AddressInstance, AddressTyped, NEW r \in Requests, Address!Done(r)
  PROVE  work' = [work EXCEPT ![r] = Address!Idle] /\ Address!Idle \in WorkType /\ Prepared(Address!Idle)
BY AddressIdle DEF Address!Done, Prepared

\* A request that is begun.
Begun(kind, pc, e, slug, prev) ==
  [kind |-> kind, pc |-> pc, e |-> e, slug |-> slug, prev |-> prev, todo |-> {}]

\* What a request that is begun holds.
LEMMA BeginTypes ==
  ASSUME AddressInstance, AddressTyped, NEW r \in Requests, NEW kind \in Address!Kinds,
         NEW pc \in Address!Pcs,
         NEW e \in Events, NEW slug \in Slugs, NEW prev \in Address!Records \cup {Address!Gone},
         Address!Begins(r, kind, pc, e, slug, prev), UNCHANGED <<event, index>>,
         copies' \in [Events -> SUBSET Address!Records], used' \subseteq Events,
         kind \in {"rename", "restore"} => prev \in Address!Records, kind = "delete" => pc # "remove"
  PROVE  AddressTyped'
<1> DEFINE m == Begun(kind, pc, e, slug, prev)
<1>1. m \in WorkType /\ work' = [work EXCEPT ![r] = m] BY DEF Address!Begins, WorkType, Begun
<1>2. Prepared(m) BY DEF Prepared, Begun
<1>3. ops' \in 0 .. MaxBegun BY DEF Address!Begins, AddressTyped, Address!TypeOK, AddressInstance
<1> HIDE DEF m
<1>. QED BY <1>1, <1>2, <1>3, TypesGo DEF AddressTyped, Address!TypeOK

\* A meeting that is stored is one.
LEMMA StoredIs ==
  ASSUME AddressTyped, NEW e \in Events, Address!Stored(e)
  PROVE  event[e] \in Address!Records
BY DEF AddressTyped, Address!TypeOK, Address!Stored


\* Requests begin with the types they go on with.
LEMMA BeginsTyped ==
  ASSUME AddressInstance, AddressTyped, NEW r \in Requests, Address!Begin(r)
  PROVE  AddressTyped'
<1>1. CASE Address!BeginCreate(r) \/ Address!BeginAdopt(r)
  <2>1. PICK e \in Events, s \in Slugs, kind \in {"create", "adopt"}, pc \in {"store", "claim"} :
          Address!Begins(r, kind, pc, e, s, Address!Gone) /\ Address!Draws(e)
              /\ UNCHANGED <<event, index, copies>>
    BY <1>1 DEF Address!BeginCreate, Address!BeginAdopt
  <2>2. used' \subseteq Events BY <2>1 DEF Address!Draws, AddressTyped, Address!TypeOK
  <2>3. kind \in Address!Kinds \ {"rename", "restore", "delete"} /\ pc \in Address!Pcs
    BY DEF Address!Kinds, Address!Pcs
  <2>4. copies' \in [Events -> SUBSET Address!Records] BY <2>1 DEF AddressTyped, Address!TypeOK
  <2>. QED BY <2>1, <2>2, <2>3, <2>4, BeginTypes
<1>2. CASE Address!BeginRename(r)
  <2>1. PICK e \in Address!Opened, s \in Slugs :
          Address!Begins(r, "rename", "check", e, s, event[e]) /\ UNCHANGED <<event, index, copies, used>>
    BY <1>2 DEF Address!BeginRename
  <2>2. e \in Events /\ event[e] \in Address!Records BY StoredIs DEF Address!Opened
  <2>. QED BY <2>1, <2>2, BeginTypes DEF AddressTyped, Address!TypeOK, Address!Kinds, Address!Pcs
<1>3. CASE Address!BeginEdit(r)
  <2>1. PICK e \in Events :
          Address!Stored(e) /\ Address!Begins(r, "edit", "store", e, Address!ASlug, event[e])
              /\ UNCHANGED <<event, index, copies, used>>
    BY <1>3 DEF Address!BeginEdit
  <2>2. event[e] \in Address!Records BY <2>1, StoredIs
  <2>3. Address!ASlug \in Slugs BY DEF Address!ASlug, AddressInstance
  <2>. QED
    BY <2>1, <2>2, <2>3, BeginTypes DEF AddressTyped, Address!TypeOK, Address!Kinds, Address!Pcs
<1>4. CASE Address!BeginDelete(r)
  <2>1. PICK e \in Events :
          /\ Address!Stored(e) /\ Address!Begins(r, "delete", "read", e, Address!ASlug,
             Address!Gone) /\ UNCHANGED <<event, index, used>>
          /\ copies' = [copies EXCEPT ![e] = @ \cup {event[e]}] \/ UNCHANGED copies
    BY <1>4 DEF Address!BeginDelete
  <2>2. event[e] \in Address!Records BY <2>1, StoredIs
  <2>3. Address!ASlug \in Slugs BY DEF Address!ASlug, AddressInstance
  <2>4. copies' \in [Events -> SUBSET Address!Records]
    BY <2>1, <2>2 DEF AddressTyped, Address!TypeOK
  <2>5. used' \subseteq Events BY <2>1 DEF AddressTyped, Address!TypeOK
  <2>. QED BY <2>1, <2>3, <2>4, <2>5, BeginTypes DEF Address!Kinds, Address!Pcs
<1>5. CASE Address!BeginRestore(r)
  <2>1. PICK e \in Events : \E copy \in copies[e] :
          Address!Begins(r, "restore", "store", e, Address!ASlug, copy)
              /\ UNCHANGED <<event, index, copies, used>>
    BY <1>5 DEF Address!BeginRestore
  <2>2. PICK copy \in copies[e] :
          Address!Begins(r, "restore", "store", e, Address!ASlug, copy)
              /\ UNCHANGED <<event, index, copies, used>>
    BY <2>1
  <2>3. copy \in Address!Records BY DEF AddressTyped, Address!TypeOK
  <2>4. Address!ASlug \in Slugs BY DEF Address!ASlug, AddressInstance
  <2>. QED
    BY <2>2, <2>3, <2>4, BeginTypes DEF AddressTyped, Address!TypeOK, Address!Kinds, Address!Pcs
<1>. QED BY <1>1, <1>2, <1>3, <1>4, <1>5 DEF Address!Begin

\* A request that goes on, and is as prepared as it was.
LEMMA GoesTyped ==
  ASSUME AddressInstance, AddressTyped, NEW r \in Requests, NEW pc \in Address!Pcs, Address!Goes(r, pc),
         work[r].kind # "delete" \/ pc # "remove",
         event' \in [Events -> Address!Records \cup {Address!Gone}],
             index' \in [Slugs -> Events \cup {"none"}],
         UNCHANGED <<copies, used, ops>>
  PROVE  AddressTyped'
<1> DEFINE m == [work[r] EXCEPT !.pc = pc]
<1>1. work[r] \in WorkType BY DEF AddressTyped, Address!TypeOK, WorkType
<1>2. m \in WorkType /\ work' = [work EXCEPT ![r] = m] BY <1>1 DEF Address!Goes, WorkType
<1>3. m.kind = work[r].kind /\ m.prev = work[r].prev /\ m.pc = pc BY <1>1 DEF WorkType
<1>4. Prepared(m) BY <1>3 DEF AddressTyped, Prepared
<1> HIDE DEF m
<1>. QED BY <1>2, <1>4, TypesGo DEF AddressTyped, Address!TypeOK

\* A request is done: the types.
LEMMA DoneTyped ==
  ASSUME AddressInstance, AddressTyped, NEW r \in Requests, Address!Done(r),
         event' \in [Events -> Address!Records \cup {Address!Gone}],
             index' \in [Slugs -> Events \cup {"none"}],
         copies' \in [Events -> SUBSET Address!Records], UNCHANGED <<used, ops>>
  PROVE  AddressTyped'
BY DoneIs, TypesGo DEF AddressTyped, Address!TypeOK

\* A claimed slug opens a meeting.
LEMMA Claims ==
  ASSUME AddressTyped, NEW s, NEW e \in Events
  PROVE  Address!SetIfFree(s, e) \in [Slugs -> Events \cup {"none"}]
BY DEF Address!SetIfFree, AddressTyped, Address!TypeOK

\* Writing the record keeps the types,
LEMMA StoresTyped ==
  ASSUME AddressInstance, AddressTyped, NEW r \in Requests, Address!Store(r)
  PROVE  AddressTyped'
<1>0. work[r] \in WorkType BY DEF AddressTyped, Address!TypeOK, WorkType
<1>1. CASE Address!StoreCreated(r) \/ Address!StoreAdopted(r)
  <2>1. Address!New(work[r].slug) \in Address!Records
    BY <1>0 DEF Address!New, Address!Records, WorkType
  <2>2. event' \in [Events -> Address!Records \cup {Address!Gone}]
    BY <1>0, <1>1, <2>1 DEF Address!StoreCreated, Address!StoreAdopted, AddressTyped,
      Address!TypeOK, WorkType
  <2>3. index' \in [Slugs -> Events \cup {"none"}] /\ copies' \in [Events -> SUBSET Address!Records]
    BY <1>1 DEF Address!StoreCreated, Address!StoreAdopted, AddressTyped, Address!TypeOK
  <2>. QED
    BY <1>1, <2>2, <2>3, GoesTyped, DoneTyped DEF Address!StoreCreated, Address!StoreAdopted,
      Address!At, Address!Pcs
<1>2. CASE Address!StoreRenamed(r)
  <2>1. work[r].prev \in Address!Records
    BY <1>2 DEF Address!StoreRenamed, Address!At, AddressTyped, Prepared
  <2>2. Address!Renamed(work[r].prev, work[r].slug) \in Address!Records
    BY <1>0, <2>1 DEF Address!Renamed, Address!SlugsOf, Address!Records, WorkType
  <2>3. event' \in [Events -> Address!Records \cup {Address!Gone}]
    BY <1>0, <1>2, <2>2 DEF Address!StoreRenamed, AddressTyped, Address!TypeOK, WorkType
  <2>4. index' \in [Slugs -> Events \cup {"none"}]
    BY <1>2 DEF Address!StoreRenamed, AddressTyped, Address!TypeOK
  <2>. QED BY <1>2, <2>3, <2>4, GoesTyped DEF Address!StoreRenamed, Address!At, Address!Pcs
<1>3. CASE Address!SaveEdit(r)
  <2>1. event' \in [Events -> Address!Records \cup {Address!Gone}]
    BY <1>0, <1>3 DEF Address!SaveEdit, AddressTyped, Address!TypeOK, WorkType
  <2>. QED BY <1>3, <2>1, DoneTyped DEF Address!SaveEdit, AddressTyped, Address!TypeOK
<1>4. CASE Address!ReadToDelete(r)
  <2>1. CASE Address!Stored(work[r].e)
    <3> DEFINE m == [work[r] EXCEPT !.prev = event[work[r].e], !.pc = "remove"]
    <3>1. event[work[r].e] \in Address!Records BY <1>0, <2>1, StoredIs DEF WorkType
    <3>2. m \in WorkType /\ m.prev \in Address!Records BY <1>0, <3>1 DEF WorkType, Address!Pcs
    <3>3. work' = [work EXCEPT ![r] = m]
      BY <1>0, <1>4, <2>1 DEF Address!ReadToDelete, WorkType, AddressTyped, Address!TypeOK
    <3>4. Prepared(m) BY <3>2 DEF Prepared
    <3> HIDE DEF m
    <3>. QED
      BY <1>4, <3>2, <3>3, <3>4, TypesGo DEF Address!ReadToDelete, AddressTyped, Address!TypeOK
  <2>2. CASE ~Address!Stored(work[r].e)
    BY <1>4, <2>2, DoneTyped DEF Address!ReadToDelete, AddressTyped, Address!TypeOK
  <2>. QED BY <2>1, <2>2
<1>5. CASE Address!RemoveRecord(r)
  <2> DEFINE m == [work[r] EXCEPT !.pc = "look", !.todo = Address!SlugsOf(work[r].prev)]
  <2>1. work[r].kind = "delete" /\ work[r].prev \in Address!Records
    BY <1>5 DEF Address!RemoveRecord, Address!At, AddressTyped, Prepared
  <2>2. Address!SlugsOf(work[r].prev) \subseteq Slugs BY <2>1, SlugsAre
  <2>3. m \in WorkType /\ m.kind = "delete" /\ m.pc = "look"
    BY <1>0, <2>1, <2>2 DEF WorkType, Address!Pcs
  <2>4. work' = [work EXCEPT ![r] = m]
    BY <1>0, <1>5 DEF Address!RemoveRecord, WorkType, AddressTyped, Address!TypeOK
  <2>5. Prepared(m) BY <2>3 DEF Prepared
  <2>6. event' \in [Events -> Address!Records \cup {Address!Gone}]
    BY <1>0, <1>5 DEF Address!RemoveRecord, AddressTyped, Address!TypeOK, WorkType
  <2> HIDE DEF m
  <2>. QED
    BY <1>5, <2>3, <2>4, <2>5, <2>6, TypesGo DEF Address!RemoveRecord, AddressTyped, Address!TypeOK
<1>6. CASE Address!RestoreRecord(r)
  <2> DEFINE m == [work[r] EXCEPT !.pc = "reclaim", !.todo = Address!SlugsOf(work[r].prev)]
  <2>1. work[r].prev \in Address!Records
    BY <1>6 DEF Address!RestoreRecord, Address!At, AddressTyped, Prepared
  <2>2. Address!SlugsOf(work[r].prev) \subseteq Slugs BY <2>1, SlugsAre
  <2>3. m \in WorkType /\ m.prev \in Address!Records BY <1>0, <2>1, <2>2 DEF WorkType, Address!Pcs
  <2>4. work' = [work EXCEPT ![r] = m]
    BY <1>0, <1>6 DEF Address!RestoreRecord, WorkType, AddressTyped, Address!TypeOK
  <2>5. Prepared(m) BY <2>3 DEF Prepared
  <2>6. event' \in [Events -> Address!Records \cup {Address!Gone}]
    BY <1>0, <1>6, <2>1 DEF Address!RestoreRecord, AddressTyped, Address!TypeOK, WorkType
  <2> HIDE DEF m
  <2>. QED
    BY <1>6, <2>3, <2>4, <2>5, <2>6, TypesGo DEF Address!RestoreRecord, AddressTyped, Address!TypeOK
<1>7. CASE Address!Restored(r)
  <2>1. copies' \in [Events -> SUBSET Address!Records]
    BY <1>0, <1>7 DEF Address!Restored, AddressTyped, Address!TypeOK, WorkType
  <2>. QED BY <1>7, <2>1, DoneTyped DEF Address!Restored, AddressTyped, Address!TypeOK
<1>. QED BY <1>1, <1>2, <1>3, <1>4, <1>5, <1>6, <1>7 DEF Address!Store

\* and so does writing the index.
LEMMA IndexTyped ==
  ASSUME AddressInstance, AddressTyped, NEW r \in Requests, Address!Index(r)
  PROVE  AddressTyped'
<1>0. work[r] \in WorkType /\ work[r].e \in Events BY DEF AddressTyped, Address!TypeOK, WorkType
<1>1. CASE Address!IndexCreated(r) \/ Address!IndexRenamed(r)
  <2>1. index' \in [Slugs -> Events \cup {"none"}]
    BY <1>0, <1>1 DEF Address!IndexCreated, Address!IndexRenamed, AddressTyped, Address!TypeOK
  <2>2. event' \in [Events -> Address!Records \cup {Address!Gone}]
      /\ copies' \in [Events -> SUBSET Address!Records]
    BY <1>1 DEF Address!IndexCreated, Address!IndexRenamed, AddressTyped, Address!TypeOK
  <2>. QED
    BY <1>1, <2>1, <2>2, GoesTyped, DoneTyped DEF Address!IndexCreated, Address!IndexRenamed,
      Address!At, Address!Pcs
<1>2. CASE Address!ClaimSlug(r) \/ Address!KeepOldSlug(r)
  <2>1. index' \in [Slugs -> Events \cup {"none"}]
    BY <1>0, <1>2, Claims DEF Address!ClaimSlug, Address!KeepOldSlug
  <2>2. event' \in [Events -> Address!Records \cup {Address!Gone}]
      /\ copies' \in [Events -> SUBSET Address!Records]
    BY <1>2 DEF Address!ClaimSlug, Address!KeepOldSlug, AddressTyped, Address!TypeOK
  <2>3. Address!Goes(r, "store") \/ Address!Done(r)
    BY <1>2 DEF Address!ClaimSlug, Address!KeepOldSlug
  <2>. QED
    BY <1>2, <2>1, <2>2, <2>3, GoesTyped, DoneTyped DEF Address!ClaimSlug, Address!KeepOldSlug,
      Address!Pcs
<1>3. CASE Address!CheckNewSlug(r)
  <2>1. Address!Goes(r, "store") \/ Address!Done(r) BY <1>3 DEF Address!CheckNewSlug
  <2>. QED
    BY <1>3, <2>1, GoesTyped, DoneTyped DEF Address!CheckNewSlug, Address!Pcs, AddressTyped,
      Address!TypeOK
<1>4. CASE Address!LookAtSlug(r)
  <2>1. PICK s \in work[r].todo :
          /\ Address!At(r, "delete", "look")
          /\ work' = [work EXCEPT ![r].slug = s, ![r].todo = @ \ {s},
                                ![r].pc = IF Address!OwnEntry(s, work[r].e) THEN "release" ELSE "look"]
          /\ UNCHANGED <<event, index, copies, used, ops>>
    BY <1>4 DEF Address!LookAtSlug
  <2> DEFINE m == [work[r] EXCEPT !.slug = s, !.todo = @ \ {s},
                                 !.pc = IF Address!OwnEntry(s, work[r].e) THEN "release" ELSE "look"]
  <2>2. s \in Slugs BY <1>0 DEF WorkType
  <2>3. m \in WorkType /\ m.kind = "delete" /\ m.pc # "remove"
    BY <1>0, <2>1, <2>2 DEF Address!At, WorkType, Address!Pcs
  <2>4. work' = [work EXCEPT ![r] = m] BY <1>0, <2>1 DEF WorkType, AddressTyped, Address!TypeOK
  <2>5. Prepared(m) BY <2>3 DEF Prepared
  <2> HIDE DEF m
  <2>. QED BY <2>1, <2>3, <2>4, <2>5, TypesGo DEF AddressTyped, Address!TypeOK
<1>5. CASE Address!ReleaseSlug(r)
  <2>1. index' \in [Slugs -> Events \cup {"none"}]
    BY <1>5 DEF Address!ReleaseSlug, AddressTyped, Address!TypeOK
  <2>. QED
    BY <1>5, <2>1, GoesTyped DEF Address!ReleaseSlug, Address!Pcs, AddressTyped, Address!TypeOK
<1>6. CASE Address!Deleted(r) BY <1>6, DoneTyped DEF Address!Deleted, AddressTyped, Address!TypeOK
<1>7. CASE Address!ReclaimSlug(r)
  <2>1. PICK s \in work[r].todo :
          /\ Address!At(r, "restore", "reclaim") /\ index' = Address!SetIfFree(s, work[r].e)
          /\ work' = [work EXCEPT ![r].todo = @ \ {s}] /\ UNCHANGED <<event, copies, used, ops>>
    BY <1>7 DEF Address!ReclaimSlug
  <2> DEFINE m == [work[r] EXCEPT !.todo = @ \ {s}]
  <2>2. work[r].prev \in Address!Records BY <2>1 DEF Address!At, AddressTyped, Prepared
  <2>3. m \in WorkType /\ m.prev \in Address!Records BY <1>0, <2>2 DEF WorkType
  <2>4. work' = [work EXCEPT ![r] = m] BY <1>0, <2>1 DEF WorkType, AddressTyped, Address!TypeOK
  <2>5. Prepared(m) BY <2>3 DEF Prepared
  <2>6. index' \in [Slugs -> Events \cup {"none"}] BY <1>0, <2>1, Claims
  <2> HIDE DEF m
  <2>. QED BY <2>1, <2>3, <2>4, <2>5, <2>6, TypesGo DEF AddressTyped, Address!TypeOK
<1>. QED BY <1>1, <1>2, <1>3, <1>4, <1>5, <1>6, <1>7 DEF Address!Index

\* Every step keeps the types.
LEMMA AddressStepTyped ==
  ASSUME AddressInstance, AddressTyped, [Address!Next]_(Address!vars)
  PROVE  AddressTyped'
<1>1. CASE Address!Next
  <2>1. PICK r \in Requests : Address!Begin(r) \/ Address!Store(r) \/ Address!Index(r) \/ Address!Dies(r)
    BY <1>1 DEF Address!Next
  <2>2. CASE Address!Dies(r) BY <2>2, DoneTyped DEF Address!Dies, AddressTyped, Address!TypeOK
  <2>. QED BY <2>1, <2>2, BeginsTyped, StoresTyped, IndexTyped
<1>2. CASE UNCHANGED Address!vars BY <1>2 DEF Address!vars, AddressTyped, Address!TypeOK
<1>. QED BY <1>1, <1>2

\* They hold at first.
LEMMA AddressInitTyped == ASSUME AddressInstance, Address!Init PROVE AddressTyped
<1>1. work = [r \in Requests |-> Address!Idle] BY DEF Address!Init
<1>. QED BY <1>1, AddressInitTypes, AddressIdle DEF AddressTyped, Prepared
----------------------------------------------------------------------------
(* The invariant: requests at work are about different meetings and of     *)
(* kinds that may meet; and what each has looked at is still so.           *)

\* Requests at work are about different meetings, and may meet.
Turns ==
  \A q, r \in Requests : q # r /\ work[q] # Address!Idle /\ work[r] # Address!Idle =>
    work[q].e # work[r].e /\ work[q].kind \notin Address!Clashes(work[r].kind)

\* What a create found free opens no meeting but its own; what a rename may
\* take nobody else has; the meeting that is edited is there, the one that is
\* deleted is not, and the entry it releases is its own.
AddressFits(q, events, entries) ==
  /\ q.kind = "create" =>
       \A x \in Events : entries[q.slug] = x /\ x # q.e => events[x] = Address!Gone
  /\ q.kind = "rename" /\ q.pc \in {"store", "index"} => entries[q.slug] \in {"none", q.e}
  /\ q.kind = "edit" => events[q.e] # Address!Gone
  /\ q.kind = "delete" /\ q.pc \in {"look", "release"} => events[q.e] = Address!Gone
  /\ q.kind = "delete" /\ q.pc = "release" => entries[q.slug] = q.e

\* Of every request.
AddressAllFit == \A r \in Requests : AddressFits(work[r], event, index)

\* What holds always of the addresses.
AddressSound == AddressTyped /\ Turns /\ AddressAllFit

\* A request that is not at work takes nothing for granted.
LEMMA AddressIdleFits ==
  ASSUME AddressInstance, NEW events, NEW entries
  PROVE  AddressFits(Address!Idle, events, entries)
BY AddressIdle DEF AddressFits

\* A request's step.
LEMMA AddressStepSound ==
  ASSUME AddressInstance, AddressSound, AddressTyped', NEW r \in Requests, NEW m \in WorkType,
         work' = [work EXCEPT ![r] = m],
         m = Address!Idle \/ (work[r] # Address!Idle /\ m.kind = work[r].kind /\ m.e = work[r].e),
         AddressFits(m, event', index'),
         \A q \in Requests : q # r => AddressFits(work[q], event', index')
  PROVE  AddressSound'
<1>1. work' \in [Requests -> WorkType] /\ work'[r] = m /\ OthersWait(r)
  BY WorkIs DEF AddressSound, AddressTyped
<1>2. Turns' BY <1>1 DEF AddressSound, Turns, OthersWait
<1>3. AddressAllFit' BY <1>1 DEF AddressAllFit, OthersWait
<1>. QED BY <1>2, <1>3 DEF AddressSound

\* A request that begins, with those it must not meet at rest.
LEMMA AddressBeginSound ==
  ASSUME AddressInstance, Apart, AddressSound, AddressTyped', NEW r \in Requests,
         NEW kind \in Address!Kinds, NEW pc \in Address!Pcs,
         NEW e \in Events, NEW slug \in Slugs, NEW prev \in Address!Records \cup {Address!Gone},
         Address!Begins(r, kind, pc, e, slug, prev), UNCHANGED <<event, index>>,
         AddressFits(Begun(kind, pc, e, slug, prev), event, index)
  PROVE  AddressSound'
<1> DEFINE m == Begun(kind, pc, e, slug, prev)
<1>1. m \in WorkType /\ work' = [work EXCEPT ![r] = m] /\ Address!Alone(kind, e) /\ work[r] = Address!Idle
  BY DEF Address!Begins, WorkType, Begun
<1>2. m.kind = kind /\ m.e = e BY DEF Begun
<1> HIDE DEF m
<1>3. work' \in [Requests -> WorkType] /\ work'[r] = m /\ OthersWait(r)
  BY <1>1, WorkIs DEF AddressSound, AddressTyped
<1>4. \A q \in Requests : q # r /\ work[q] # Address!Idle => work[q].e # e
    /\ work[q].kind \notin Address!Clashes(kind)
  BY <1>1 DEF Address!Alone
<1>5. \A k \in Address!Kinds : k \notin Address!Clashes(kind) => kind \notin Address!Clashes(k)
  BY DEF Address!Clashes, Address!Kinds
<1>6. \A q \in Requests : work[q].kind \in Address!Kinds
  BY DEF AddressSound, AddressTyped, Address!TypeOK
<1>7. Turns' BY <1>2, <1>3, <1>4, <1>5, <1>6 DEF AddressSound, Turns, OthersWait
<1>8. AddressAllFit' BY <1>3 DEF AddressSound, AddressAllFit, OthersWait, m
<1>. QED BY <1>7, <1>8 DEF AddressSound

\* Whoever else is at work.
LEMMA AtWork ==
  ASSUME AddressInstance, AddressSound, NEW q \in Requests, NEW r \in Requests, q # r, work[r].kind # "none"
  PROVE  /\ work[q].kind = "none" \/ (work[q].e # work[r].e
            /\ work[q].kind \notin Address!Clashes(work[r].kind))
         /\ work[q] \in WorkType /\ AddressFits(work[q], event, index)
<1>1. Address!Idle.kind = "none" BY AddressIdle
<1>. QED BY <1>1 DEF AddressSound, AddressTyped, Turns, AddressAllFit, Address!TypeOK, WorkType

\* A request writes its own meeting's record: nothing to the others.
LEMMA RecordFits ==
  ASSUME AddressInstance, AddressSound, NEW r \in Requests, work[r].kind # "none", NEW rec,
         event' = [event EXCEPT ![work[r].e] = rec], UNCHANGED index,
         NEW q \in Requests, q # r
  PROVE  AddressFits(work[q], event', index')
<1>1. /\ work[q].kind = "none" \/ (work[q].e # work[r].e
         /\ work[q].kind \notin Address!Clashes(work[r].kind))
      /\ work[q] \in WorkType /\ AddressFits(work[q], event, index)
  BY AtWork
<1>2. work[r] \in WorkType /\ AddressFits(work[r], event, index)
  BY DEF AddressSound, AddressTyped, Address!TypeOK, WorkType, AddressAllFit
<1>3. CASE work[q].kind = "create"
  <2>1. work[r].kind = "edit" BY <1>1, <1>2, <1>3 DEF Address!Clashes, WorkType, Address!Kinds
  <2>2. event[work[r].e] # Address!Gone BY <1>2, <2>1 DEF AddressFits
  <2>3. \A x \in Events : index[work[q].slug] = x /\ x # work[q].e => event[x] = Address!Gone
    BY <1>1, <1>3 DEF AddressFits
  <2>4. \A x \in Events : x # work[r].e => event'[x] = event[x]
    BY DEF AddressSound, AddressTyped, Address!TypeOK
  <2>. QED BY <1>3, <2>2, <2>3, <2>4 DEF AddressFits
<1>4. CASE work[q].kind \in {"rename", "none", "adopt", "restore"} BY <1>1, <1>4 DEF AddressFits
<1>5. CASE work[q].kind \in {"edit", "delete"}
  <2>1. event'[work[q].e] = event[work[q].e]
    BY <1>1, <1>5 DEF AddressSound, AddressTyped, Address!TypeOK, WorkType
  <2>. QED BY <1>1, <1>5, <2>1 DEF AddressFits
<1>. QED BY <1>1, <1>3, <1>4, <1>5 DEF WorkType, Address!Kinds

\* A request claims an entry: nobody else is at a slug that matters.
LEMMA ClaimFits ==
  ASSUME AddressInstance, AddressSound, NEW r \in Requests,
         work[r].kind \in {"adopt", "rename", "restore"}, NEW s,
         index' = Address!SetIfFree(s, work[r].e), UNCHANGED event,
         NEW q \in Requests, q # r
  PROVE  AddressFits(work[q], event', index')
<1>1. /\ work[q].kind = "none" \/ (work[q].e # work[r].e
         /\ work[q].kind \notin Address!Clashes(work[r].kind))
      /\ work[q] \in WorkType /\ AddressFits(work[q], event, index)
  BY AtWork
<1>2. work[q].kind \notin {"create", "rename"} BY <1>1 DEF Address!Clashes
<1>3. CASE work[q].kind = "delete"
  <2>1. index[work[q].slug] = work[q].e => index'[work[q].slug] = work[q].e
    BY <1>1 DEF Address!SetIfFree, AddressSound, AddressTyped, Address!TypeOK, WorkType,
      AddressInstance
  <2>. QED BY <1>1, <1>3, <2>1 DEF AddressFits
<1>. QED BY <1>1, <1>2, <1>3 DEF AddressFits

\* A request writes an entry that nobody has.
LEMMA EntryFits ==
  ASSUME AddressInstance, AddressSound, NEW r \in Requests,
         Address!At(r, "create", "index") \/ Address!At(r, "rename", "index"),
         index' = [index EXCEPT ![work[r].slug] = work[r].e], UNCHANGED event,
         NEW q \in Requests, q # r
  PROVE  AddressFits(work[q], event', index')
<1>1. /\ work[q].kind = "none" \/ (work[q].e # work[r].e
         /\ work[q].kind \notin Address!Clashes(work[r].kind))
      /\ work[q] \in WorkType /\ AddressFits(work[q], event, index)
  BY AtWork DEF Address!At
<1>2. work[r] \in WorkType /\ AddressFits(work[r], event, index)
  BY DEF AddressSound, AddressTyped, Address!TypeOK, WorkType, AddressAllFit
<1>3. work[q].kind \notin {"create", "rename"} BY <1>1 DEF Address!Clashes, Address!At
<1>4. CASE work[q].kind = "delete"
  <2>1. work[r].kind = "rename" BY <1>1, <1>4 DEF Address!At, Address!Clashes
  <2>2. index[work[r].slug] \in {"none", work[r].e} BY <1>2, <2>1 DEF Address!At, AddressFits
  <2>3. index[work[q].slug] = work[q].e => index'[work[q].slug] = work[q].e
    BY <1>1, <1>4, <2>2 DEF AddressSound, AddressTyped, Address!TypeOK, WorkType, AddressInstance
  <2>. QED BY <1>1, <1>4, <2>3 DEF AddressFits
<1>. QED BY <1>1, <1>3, <1>4 DEF AddressFits

\* A request gives up its own entry.
LEMMA ReleaseFits ==
  ASSUME AddressInstance, AddressSound, NEW r \in Requests, Address!At(r, "delete", "release"),
         index' = [index EXCEPT ![work[r].slug] = "none"], UNCHANGED event,
         NEW q \in Requests, q # r
  PROVE  AddressFits(work[q], event', index')
<1>1. /\ work[q].kind = "none" \/ (work[q].e # work[r].e
         /\ work[q].kind \notin Address!Clashes(work[r].kind))
      /\ work[q] \in WorkType /\ AddressFits(work[q], event, index)
  BY AtWork DEF Address!At
<1>2. index[work[r].slug] = work[r].e BY DEF AddressSound, AddressAllFit, AddressFits, Address!At
<1>3. work[q].kind # "create" BY <1>1 DEF Address!Clashes, Address!At
<1>4. CASE work[q].kind = "delete"
  <2>1. index[work[q].slug] = work[q].e => index'[work[q].slug] = work[q].e
    BY <1>1, <1>2, <1>4 DEF AddressSound, AddressTyped, Address!TypeOK, WorkType
  <2>. QED BY <1>1, <1>4, <2>1 DEF AddressFits
<1>5. CASE work[q].kind = "rename"
  <2>1. index[work[q].slug] \in {"none", work[q].e} => index'[work[q].slug] \in {"none", work[q].e}
    BY <1>1 DEF AddressSound, AddressTyped, Address!TypeOK, WorkType
  <2>. QED BY <1>1, <1>5, <2>1 DEF AddressFits
<1>. QED BY <1>1, <1>3, <1>4, <1>5 DEF AddressFits

\* The others, where neither the records nor the entries change.
LEMMA StillFit ==
  ASSUME AddressSound, UNCHANGED <<event, index>>, NEW q \in Requests
  PROVE  AddressFits(work[q], event', index')
BY DEF AddressSound, AddressAllFit

\* What a request begins with it may take for granted.
LEMMA BeginsSound ==
  ASSUME AddressInstance, Apart, AddressSound, NEW r \in Requests, Address!Begin(r)
  PROVE  AddressSound'
<1>0. AddressTyped' BY BeginsTyped DEF AddressSound
<1>1. CASE Address!BeginCreate(r)
  <2>1. PICK e \in Events, s \in Slugs :
          Address!Free(s) /\ Address!Begins(r, "create", "store", e, s, Address!Gone)
              /\ UNCHANGED <<event, index, copies>>
    BY <1>1 DEF Address!BeginCreate
  <2>2. AddressFits(Begun("create", "store", e, s, Address!Gone), event, index)
    BY <2>1 DEF AddressFits, Begun, Address!Free, Address!Stored
  <2>. QED BY <1>0, <2>1, <2>2, AddressBeginSound DEF Address!Kinds, Address!Pcs
<1>2. CASE Address!BeginAdopt(r)
  <2>1. PICK e \in Events, s \in Slugs :
          Address!Begins(r, "adopt", "claim", e, s, Address!Gone) /\ UNCHANGED <<event, index, copies>>
    BY <1>2 DEF Address!BeginAdopt
  <2>2. AddressFits(Begun("adopt", "claim", e, s, Address!Gone), event, index)
    BY DEF AddressFits, Begun
  <2>. QED BY <1>0, <2>1, <2>2, AddressBeginSound DEF Address!Kinds, Address!Pcs
<1>3. CASE Address!BeginRename(r)
  <2>1. PICK e \in Address!Opened, s \in Slugs :
          Address!Begins(r, "rename", "check", e, s, event[e]) /\ UNCHANGED <<event, index, copies, used>>
    BY <1>3 DEF Address!BeginRename
  <2>2. e \in Events /\ event[e] \in Address!Records \cup {Address!Gone}
    BY DEF Address!Opened, AddressSound, AddressTyped, Address!TypeOK
  <2>3. AddressFits(Begun("rename", "check", e, s, event[e]), event, index)
    BY DEF AddressFits, Begun
  <2>. QED BY <1>0, <2>1, <2>2, <2>3, AddressBeginSound DEF Address!Kinds, Address!Pcs
<1>4. CASE Address!BeginEdit(r)
  <2>1. PICK e \in Events :
          Address!Stored(e) /\ Address!Begins(r, "edit", "store", e, Address!ASlug, event[e])
              /\ UNCHANGED <<event, index, copies, used>>
    BY <1>4 DEF Address!BeginEdit
  <2>2. event[e] \in Address!Records \cup {Address!Gone} /\ Address!ASlug \in Slugs
    BY DEF AddressSound, AddressTyped, Address!TypeOK, Address!ASlug, AddressInstance
  <2>3. AddressFits(Begun("edit", "store", e, Address!ASlug, event[e]), event, index)
    BY <2>1 DEF AddressFits, Begun, Address!Stored
  <2>. QED BY <1>0, <2>1, <2>2, <2>3, AddressBeginSound DEF Address!Kinds, Address!Pcs
<1>5. CASE Address!BeginDelete(r)
  <2>1. PICK e \in Events :
          Address!Begins(r, "delete", "read", e, Address!ASlug, Address!Gone)
              /\ UNCHANGED <<event, index, used>>
    BY <1>5 DEF Address!BeginDelete
  <2>2. Address!ASlug \in Slugs BY DEF Address!ASlug, AddressInstance
  <2>3. AddressFits(Begun("delete", "read", e, Address!ASlug, Address!Gone), event, index)
    BY DEF AddressFits, Begun
  <2>. QED BY <1>0, <2>1, <2>2, <2>3, AddressBeginSound DEF Address!Kinds, Address!Pcs
<1>6. CASE Address!BeginRestore(r)
  <2>1. PICK e \in Events : \E copy \in copies[e] :
          Address!Begins(r, "restore", "store", e, Address!ASlug, copy)
              /\ UNCHANGED <<event, index, copies, used>>
    BY <1>6 DEF Address!BeginRestore
  <2>2. PICK copy \in copies[e] :
          Address!Begins(r, "restore", "store", e, Address!ASlug, copy)
              /\ UNCHANGED <<event, index, copies, used>>
    BY <2>1
  <2>3. copy \in Address!Records /\ Address!ASlug \in Slugs
    BY DEF AddressSound, AddressTyped, Address!TypeOK, Address!ASlug, AddressInstance
  <2>4. AddressFits(Begun("restore", "store", e, Address!ASlug, copy), event, index)
    BY DEF AddressFits, Begun
  <2>. QED BY <1>0, <2>2, <2>3, <2>4, AddressBeginSound DEF Address!Kinds, Address!Pcs
<1>. QED BY <1>1, <1>2, <1>3, <1>4, <1>5, <1>6 DEF Address!Begin

\* A request that goes on, or is done.
LEMMA GoesSound ==
  ASSUME AddressInstance, AddressSound, AddressTyped', NEW r \in Requests, NEW pc \in Address!Pcs,
         Address!Goes(r, pc), work[r].kind # "none",
         AddressFits([work[r] EXCEPT !.pc = pc], event', index'),
         \A q \in Requests : q # r => AddressFits(work[q], event', index')
  PROVE  AddressSound'
<1> DEFINE m == [work[r] EXCEPT !.pc = pc]
<1>1. work[r] \in WorkType BY DEF AddressSound, AddressTyped, Address!TypeOK, WorkType
<1>2. m \in WorkType /\ work' = [work EXCEPT ![r] = m] BY <1>1 DEF Address!Goes, WorkType
<1>3. m.kind = work[r].kind /\ m.e = work[r].e BY <1>1 DEF WorkType
<1>4. work[r] # Address!Idle BY AddressIdle
<1> HIDE DEF m
<1>5. AddressFits(m, event', index') BY DEF m
<1>. QED BY <1>2, <1>3, <1>4, <1>5, AddressStepSound

\* A request is done: nobody else notices.
LEMMA DoneSound ==
  ASSUME AddressInstance, AddressSound, AddressTyped', NEW r \in Requests, Address!Done(r),
         \A q \in Requests : q # r => AddressFits(work[q], event', index')
  PROVE  AddressSound'
BY DoneIs, AddressIdleFits, AddressStepSound DEF AddressSound

\* Writing the record.
LEMMA StoresSound ==
  ASSUME AddressInstance, AddressSound, NEW r \in Requests, Address!Store(r)
  PROVE  AddressSound'
<1>0. AddressTyped' BY StoresTyped DEF AddressSound
<1>1. work[r] \in WorkType /\ AddressFits(work[r], event, index)
  BY DEF AddressSound, AddressTyped, Address!TypeOK, WorkType, AddressAllFit
<1>2. CASE Address!StoreCreated(r)
  <2>1. Address!At(r, "create", "store") /\ event' = [event EXCEPT ![work[r].e] = Address!New(work[r].slug)]
        /\ Address!Goes(r, "index") /\ UNCHANGED index
    BY <1>2 DEF Address!StoreCreated
  <2>2. \A q \in Requests : q # r => AddressFits(work[q], event', index')
    BY <2>1, RecordFits DEF Address!At
  <2>3. \A x \in Events : x # work[r].e => event'[x] = event[x]
    BY <2>1 DEF AddressSound, AddressTyped, Address!TypeOK
  <2>4. AddressFits([work[r] EXCEPT !.pc = "index"], event', index')
    BY <1>1, <2>1, <2>3 DEF AddressFits, Address!At, WorkType
  <2>. QED BY <1>0, <2>1, <2>2, <2>4, GoesSound DEF Address!At, Address!Pcs
<1>3. CASE Address!StoreAdopted(r) \/ Address!SaveEdit(r)
  <2>1. \E rec : event' = [event EXCEPT ![work[r].e] = rec] /\ UNCHANGED index
    BY <1>3 DEF Address!StoreAdopted, Address!SaveEdit
  <2>2. Address!Done(r) /\ work[r].kind # "none"
    BY <1>3 DEF Address!StoreAdopted, Address!SaveEdit, Address!At
  <2>3. \A q \in Requests : q # r => AddressFits(work[q], event', index') BY <2>1, <2>2, RecordFits
  <2>. QED BY <1>0, <2>2, <2>3, DoneSound
<1>4. CASE Address!StoreRenamed(r)
  <2>1. Address!At(r, "rename", "store") /\ Address!Goes(r, "index") /\ UNCHANGED index
        /\ event' = [event EXCEPT ![work[r].e] = Address!Renamed(work[r].prev, work[r].slug)]
    BY <1>4 DEF Address!StoreRenamed
  <2>2. \A q \in Requests : q # r => AddressFits(work[q], event', index')
    BY <2>1, RecordFits DEF Address!At
  <2>3. AddressFits([work[r] EXCEPT !.pc = "index"], event', index')
    BY <1>1, <2>1 DEF AddressFits, Address!At, WorkType
  <2>. QED BY <1>0, <2>1, <2>2, <2>3, GoesSound DEF Address!At, Address!Pcs
<1>5. CASE Address!ReadToDelete(r)
  <2>1. Address!At(r, "delete", "read") /\ UNCHANGED <<event, index>>
    BY <1>5 DEF Address!ReadToDelete
  <2>2. \A q \in Requests : AddressFits(work[q], event', index') BY <2>1, StillFit
  <2>3. CASE Address!Stored(work[r].e)
    <3> DEFINE m == [work[r] EXCEPT !.prev = event[work[r].e], !.pc = "remove"]
    <3>1. event[work[r].e] \in Address!Records \cup {Address!Gone}
      BY <1>1 DEF WorkType, AddressSound, AddressTyped, Address!TypeOK
    <3>2. m \in WorkType /\ m.kind = "delete" /\ m.e = work[r].e /\ m.pc = "remove"
      BY <1>1, <2>1, <3>1 DEF WorkType, Address!Pcs, Address!At
    <3>3. work' = [work EXCEPT ![r] = m]
      BY <1>1, <1>5, <2>3 DEF Address!ReadToDelete, WorkType, AddressSound, AddressTyped,
        Address!TypeOK
    <3>4. AddressFits(m, event', index') BY <3>2 DEF AddressFits
    <3>5. work[r] # Address!Idle /\ m.kind = work[r].kind BY <2>1, <3>2, AddressIdle DEF Address!At
    <3> HIDE DEF m
    <3>. QED BY <1>0, <2>2, <3>2, <3>3, <3>4, <3>5, AddressStepSound
  <2>4. CASE ~Address!Stored(work[r].e)
    BY <1>0, <1>5, <2>2, <2>4, DoneSound DEF Address!ReadToDelete
  <2>. QED BY <2>3, <2>4
<1>6. CASE Address!RemoveRecord(r)
  <2> DEFINE m == [work[r] EXCEPT !.pc = "look", !.todo = Address!SlugsOf(work[r].prev)]
  <2>1. Address!At(r, "delete", "remove") /\ event' = [event EXCEPT ![work[r].e] = Address!Gone]
      /\ UNCHANGED index
    BY <1>6 DEF Address!RemoveRecord
  <2>2. \A q \in Requests : q # r => AddressFits(work[q], event', index')
    BY <2>1, RecordFits DEF Address!At
  <2>3. work[r].prev \in Address!Records
    BY <2>1 DEF Address!At, AddressSound, AddressTyped, Prepared
  <2>4. Address!SlugsOf(work[r].prev) \subseteq Slugs BY <2>3, SlugsAre
  <2>5. m \in WorkType /\ m.kind = "delete" /\ m.e = work[r].e /\ m.pc = "look"
    BY <1>1, <2>1, <2>4 DEF WorkType, Address!Pcs, Address!At
  <2>6. work' = [work EXCEPT ![r] = m]
    BY <1>1, <1>6 DEF Address!RemoveRecord, WorkType, AddressSound, AddressTyped, Address!TypeOK
  <2>7. event'[work[r].e] = Address!Gone
    BY <1>1, <2>1 DEF AddressSound, AddressTyped, Address!TypeOK, WorkType
  <2>8. AddressFits(m, event', index') BY <2>5, <2>7 DEF AddressFits
  <2>9. work[r] # Address!Idle /\ m.kind = work[r].kind BY <2>1, <2>5, AddressIdle DEF Address!At
  <2> HIDE DEF m
  <2>. QED BY <1>0, <2>2, <2>5, <2>6, <2>8, <2>9, AddressStepSound
<1>7. CASE Address!RestoreRecord(r)
  <2> DEFINE m == [work[r] EXCEPT !.pc = "reclaim", !.todo = Address!SlugsOf(work[r].prev)]
  <2>1. Address!At(r, "restore", "store") /\ event' = [event EXCEPT ![work[r].e] = work[r].prev]
      /\ UNCHANGED index
    BY <1>7 DEF Address!RestoreRecord
  <2>2. \A q \in Requests : q # r => AddressFits(work[q], event', index')
    BY <2>1, RecordFits DEF Address!At
  <2>3. work[r].prev \in Address!Records
    BY <2>1 DEF Address!At, AddressSound, AddressTyped, Prepared
  <2>4. Address!SlugsOf(work[r].prev) \subseteq Slugs BY <2>3, SlugsAre
  <2>5. m \in WorkType /\ m.kind = "restore" /\ m.e = work[r].e
    BY <1>1, <2>1, <2>4 DEF WorkType, Address!Pcs, Address!At
  <2>6. work' = [work EXCEPT ![r] = m]
    BY <1>1, <1>7 DEF Address!RestoreRecord, WorkType, AddressSound, AddressTyped, Address!TypeOK
  <2>7. AddressFits(m, event', index') BY <2>5 DEF AddressFits
  <2>8. work[r] # Address!Idle /\ m.kind = work[r].kind BY <2>1, <2>5, AddressIdle DEF Address!At
  <2> HIDE DEF m
  <2>. QED BY <1>0, <2>2, <2>5, <2>6, <2>7, <2>8, AddressStepSound
<1>8. CASE Address!Restored(r) BY <1>0, <1>8, StillFit, DoneSound DEF Address!Restored
<1>. QED BY <1>2, <1>3, <1>4, <1>5, <1>6, <1>7, <1>8 DEF Address!Store

\* Writing the index.
LEMMA IndexSound ==
  ASSUME AddressInstance, AddressSound, NEW r \in Requests, Address!Index(r)
  PROVE  AddressSound'
<1>0. AddressTyped' BY IndexTyped DEF AddressSound
<1>1. work[r] \in WorkType /\ AddressFits(work[r], event, index)
  BY DEF AddressSound, AddressTyped, Address!TypeOK, WorkType, AddressAllFit
<1>2. CASE Address!IndexCreated(r)
  <2>1. \A q \in Requests : q # r => AddressFits(work[q], event', index')
    BY <1>2, EntryFits DEF Address!IndexCreated
  <2>. QED BY <1>0, <1>2, <2>1, DoneSound DEF Address!IndexCreated
<1>3. CASE Address!ClaimSlug(r)
  <2>1. Address!At(r, "adopt", "claim") /\ index' = Address!SetIfFree(work[r].slug, work[r].e)
      /\ UNCHANGED event
    BY <1>3 DEF Address!ClaimSlug
  <2>2. \A q \in Requests : q # r => AddressFits(work[q], event', index')
    BY <2>1, ClaimFits DEF Address!At
  <2>3. AddressFits([work[r] EXCEPT !.pc = "store"], event', index')
    BY <1>1, <2>1 DEF AddressFits, Address!At, WorkType
  <2>. QED
    BY <1>0, <1>3, <2>1, <2>2, <2>3, GoesSound, DoneSound DEF Address!ClaimSlug, Address!At,
      Address!Pcs
<1>4. CASE Address!CheckNewSlug(r)
  <2>1. Address!At(r, "rename", "check") /\ UNCHANGED <<event, index>>
    BY <1>4 DEF Address!CheckNewSlug
  <2>2. \A q \in Requests : AddressFits(work[q], event', index') BY <2>1, StillFit
  <2>3. CASE Address!MayTake(work[r].slug, work[r].e)
    <3>1. AddressFits([work[r] EXCEPT !.pc = "store"], event', index')
      BY <1>1, <2>1, <2>3 DEF AddressFits, Address!At, WorkType, Address!MayTake
    <3>. QED
      BY <1>0, <1>4, <2>1, <2>2, <2>3, <3>1, GoesSound DEF Address!CheckNewSlug, Address!At,
        Address!Pcs
  <2>4. CASE ~Address!MayTake(work[r].slug, work[r].e)
    BY <1>0, <1>4, <2>2, <2>4, DoneSound DEF Address!CheckNewSlug
  <2>. QED BY <2>3, <2>4
<1>5. CASE Address!IndexRenamed(r)
  <2>1. Address!At(r, "rename", "index") /\ index' = [index EXCEPT ![work[r].slug] = work[r].e]
        /\ UNCHANGED event /\ Address!Goes(r, "keep")
    BY <1>5 DEF Address!IndexRenamed
  <2>2. \A q \in Requests : q # r => AddressFits(work[q], event', index') BY <2>1, EntryFits
  <2>3. AddressFits([work[r] EXCEPT !.pc = "keep"], event', index')
    BY <1>1, <2>1 DEF AddressFits, Address!At, WorkType
  <2>. QED BY <1>0, <2>1, <2>2, <2>3, GoesSound DEF Address!At, Address!Pcs
<1>6. CASE Address!KeepOldSlug(r)
  <2>1. \A q \in Requests : q # r => AddressFits(work[q], event', index')
    BY <1>6, ClaimFits DEF Address!KeepOldSlug, Address!At
  <2>. QED BY <1>0, <1>6, <2>1, DoneSound DEF Address!KeepOldSlug
<1>7. CASE Address!LookAtSlug(r)
  <2>1. PICK s \in work[r].todo :
          /\ Address!At(r, "delete", "look")
          /\ work' = [work EXCEPT ![r].slug = s, ![r].todo = @ \ {s},
                                ![r].pc = IF Address!OwnEntry(s, work[r].e) THEN "release" ELSE "look"]
          /\ UNCHANGED <<event, index, copies, used, ops>>
    BY <1>7 DEF Address!LookAtSlug
  <2> DEFINE m == [work[r] EXCEPT !.slug = s, !.todo = @ \ {s},
                                 !.pc = IF Address!OwnEntry(s, work[r].e) THEN "release" ELSE "look"]
  <2>2. s \in Slugs BY <1>1 DEF WorkType
  <2>3. /\ m \in WorkType /\ m.kind = "delete" /\ m.e = work[r].e /\ m.slug = s
        /\ m.pc = IF Address!OwnEntry(s, work[r].e) THEN "release" ELSE "look"
    BY <1>1, <2>1, <2>2 DEF Address!At, WorkType, Address!Pcs
  <2>4. work' = [work EXCEPT ![r] = m]
    BY <1>1, <2>1 DEF WorkType, AddressSound, AddressTyped, Address!TypeOK
  <2>5. event[work[r].e] = Address!Gone BY <1>1, <2>1 DEF AddressFits, Address!At
  <2>6. AddressFits(m, event', index') BY <2>1, <2>3, <2>5 DEF AddressFits, Address!OwnEntry
  <2>7. \A q \in Requests : AddressFits(work[q], event', index') BY <2>1, StillFit
  <2>8. work[r] # Address!Idle /\ m.kind = work[r].kind BY <2>1, <2>3, AddressIdle DEF Address!At
  <2> HIDE DEF m
  <2>. QED BY <1>0, <2>3, <2>4, <2>6, <2>7, <2>8, AddressStepSound
<1>8. CASE Address!ReleaseSlug(r)
  <2>1. Address!At(r, "delete", "release") /\ index' = [index EXCEPT ![work[r].slug] = "none"]
        /\ UNCHANGED event /\ Address!Goes(r, "look")
    BY <1>8 DEF Address!ReleaseSlug
  <2>2. \A q \in Requests : q # r => AddressFits(work[q], event', index') BY <2>1, ReleaseFits
  <2>3. AddressFits([work[r] EXCEPT !.pc = "look"], event', index')
    BY <1>1, <2>1 DEF AddressFits, Address!At, WorkType
  <2>. QED BY <1>0, <2>1, <2>2, <2>3, GoesSound DEF Address!At, Address!Pcs
<1>9. CASE Address!Deleted(r) BY <1>0, <1>9, StillFit, DoneSound DEF Address!Deleted
<1>10. CASE Address!ReclaimSlug(r)
  <2>1. PICK s \in work[r].todo :
          /\ Address!At(r, "restore", "reclaim") /\ index' = Address!SetIfFree(s, work[r].e)
          /\ work' = [work EXCEPT ![r].todo = @ \ {s}] /\ UNCHANGED <<event, copies, used, ops>>
    BY <1>10 DEF Address!ReclaimSlug
  <2> DEFINE m == [work[r] EXCEPT !.todo = @ \ {s}]
  <2>2. \A q \in Requests : q # r => AddressFits(work[q], event', index')
    BY <2>1, ClaimFits DEF Address!At
  <2>3. m \in WorkType /\ m.kind = "restore" /\ m.e = work[r].e
    BY <1>1, <2>1 DEF WorkType, Address!At
  <2>4. work' = [work EXCEPT ![r] = m]
    BY <1>1, <2>1 DEF WorkType, AddressSound, AddressTyped, Address!TypeOK
  <2>5. AddressFits(m, event', index') BY <2>3 DEF AddressFits
  <2>6. work[r] # Address!Idle /\ m.kind = work[r].kind BY <2>1, <2>3, AddressIdle DEF Address!At
  <2> HIDE DEF m
  <2>. QED BY <1>0, <2>2, <2>3, <2>4, <2>5, <2>6, AddressStepSound
<1>. QED BY <1>2, <1>3, <1>4, <1>5, <1>6, <1>7, <1>8, <1>9, <1>10 DEF Address!Index

\* Every step keeps it.
LEMMA AddressStepsSound ==
  ASSUME AddressInstance, Apart, AddressSound, [Address!Next]_(Address!vars)
  PROVE  AddressSound'
<1>1. CASE Address!Next
  <2>1. PICK r \in Requests : Address!Begin(r) \/ Address!Store(r) \/ Address!Index(r) \/ Address!Dies(r)
    BY <1>1 DEF Address!Next
  <2>2. CASE Address!Dies(r)
    <3>1. AddressTyped' BY AddressStepTyped DEF AddressSound
    <3>. QED BY <2>2, <3>1, StillFit, DoneSound DEF Address!Dies
  <2>. QED BY <2>1, <2>2, BeginsSound, StoresSound, IndexSound
<1>2. CASE UNCHANGED Address!vars
  <2>1. AddressTyped' BY AddressStepTyped DEF AddressSound
  <2>. QED BY <1>2, <2>1 DEF Address!vars, AddressSound, Turns, AddressAllFit
<1>. QED BY <1>1, <1>2

\* It holds at first.
LEMMA AddressInitSound == ASSUME AddressInstance, Address!Init PROVE AddressSound
<1>1. work = [r \in Requests |-> Address!Idle] BY DEF Address!Init
<1>. QED BY <1>1, AddressInitTyped, AddressIdleFits DEF AddressSound, Turns, AddressAllFit

\* Only a meeting's own entry, or nobody's, is written or given up.
LEMMA StepKeeps ==
  ASSUME AddressInstance, AddressSound, [Address!Next]_(Address!vars)
  PROVE  Address!KeepsAddresses
<1>1. CASE UNCHANGED index BY <1>1 DEF Address!KeepsAddresses
<1>2. CASE ~UNCHANGED index
  <2>1. PICK r \in Requests : Address!Begin(r) \/ Address!Store(r) \/ Address!Index(r) \/ Address!Dies(r)
    BY <1>2 DEF Address!Next, Address!vars
  <2>2. Address!Index(r)
    BY <1>2, <2>1 DEF Address!Begin, Address!Store, Address!Dies, Address!BeginCreate,
      Address!BeginAdopt, Address!BeginRename, Address!BeginEdit, Address!BeginDelete,
      Address!BeginRestore, Address!StoreCreated, Address!StoreAdopted, Address!StoreRenamed,
          Address!SaveEdit, Address!ReadToDelete, Address!RemoveRecord,
      Address!RestoreRecord, Address!Restored
  <2>3. work[r] \in WorkType /\ AddressFits(work[r], event, index)
    BY DEF AddressSound, AddressTyped, Address!TypeOK, WorkType, AddressAllFit
  <2>4. \A s \in Slugs, e \in Events : \A x,
      y : index' = Address!SetIfFree(x, y) /\ index[s] = e => index'[s] = e
    BY DEF Address!SetIfFree, AddressSound, AddressTyped, Address!TypeOK, AddressInstance
  <2>5. CASE Address!IndexCreated(r)
    <3>1. Address!At(r, "create", "index") /\ index' = [index EXCEPT ![work[r].slug] = work[r].e]
        /\ UNCHANGED event
      BY <2>5 DEF Address!IndexCreated
    <3>2. \A x \in Events : index[work[r].slug] = x /\ x # work[r].e => event[x] = Address!Gone
      BY <2>3, <3>1 DEF AddressFits, Address!At
    <3>. QED
      BY <2>3, <3>1, <3>2 DEF Address!KeepsAddresses, Address!Stored, AddressSound, AddressTyped,
        Address!TypeOK, WorkType
  <2>6. CASE Address!IndexRenamed(r)
    <3>1. Address!At(r, "rename", "index") /\ index' = [index EXCEPT ![work[r].slug] = work[r].e]
      BY <2>6 DEF Address!IndexRenamed
    <3>2. index[work[r].slug] \in {"none", work[r].e} BY <2>3, <3>1 DEF AddressFits, Address!At
    <3>. QED
      BY <2>3, <3>1, <3>2 DEF Address!KeepsAddresses, AddressSound, AddressTyped, Address!TypeOK,
        WorkType, AddressInstance
  <2>7. CASE Address!ReleaseSlug(r)
    <3>1. Address!At(r, "delete", "release") /\ index' = [index EXCEPT ![work[r].slug] = "none"]
      BY <2>7 DEF Address!ReleaseSlug
    <3>2. index[work[r].slug] = work[r].e /\ event[work[r].e] = Address!Gone
      BY <2>3, <3>1 DEF AddressFits, Address!At
    <3>. QED
      BY <2>3, <3>1, <3>2 DEF Address!KeepsAddresses, Address!Stored, AddressSound, AddressTyped,
        Address!TypeOK, WorkType
  <2>8. CASE Address!ClaimSlug(r) \/ Address!KeepOldSlug(r) \/ Address!ReclaimSlug(r)
    <3>1. \E x, y : index' = Address!SetIfFree(x, y)
      BY <2>8 DEF Address!ClaimSlug, Address!KeepOldSlug, Address!ReclaimSlug
    <3>. QED BY <2>4, <3>1 DEF Address!KeepsAddresses
  <2>. QED
    BY <1>2, <2>2, <2>5, <2>6, <2>7, <2>8 DEF Address!Index, Address!CheckNewSlug,
      Address!LookAtSlug, Address!Deleted
<1>. QED BY <1>1, <1>2

\* Every variable of the addresses keeps its type.
THEOREM AddressTypeCorrect == AddressInstance => (Address!Spec => []Address!TypeOK)
<1> SUFFICES ASSUME AddressInstance PROVE Address!Spec => []Address!TypeOK OBVIOUS
<1>1. Address!Init => AddressTyped BY AddressInitTyped
<1>2. AddressTyped /\ [Address!Next]_(Address!vars) => AddressTyped' BY AddressStepTyped
<1>3. AddressTyped => Address!TypeOK BY DEF AddressTyped
<1>. QED BY <1>1, <1>2, <1>3, PTL DEF Address!Spec

\* An address that opens a meeting goes on opening it, as long as the
\* meeting has it.
THEOREM AddressIsKept == AddressInstance /\ Apart => (Address!Spec => Address!AddressKept)
<1> SUFFICES ASSUME AddressInstance, Apart PROVE Address!Spec => Address!AddressKept OBVIOUS
<1>1. Address!Init => AddressSound BY AddressInitSound
<1>2. AddressSound /\ [Address!Next]_(Address!vars) => AddressSound' BY AddressStepsSound
<1>3. AddressSound /\ [Address!Next]_(Address!vars) => Address!KeepsAddresses BY StepKeeps
<1>. QED BY <1>1, <1>2, <1>3, PTL DEF Address!Spec, Address!AddressKept

-----------------------------------------------------------------------------
(* Induction, and sums.                                                    *)

\* Induction: were n not in S, adding one would fit what S has of 0..n into
\* itself without 0.
LEMMA SetInduction ==
  ASSUME NEW S, 0 \in S, \A n \in Nat : n \in S => n + 1 \in S
  PROVE  \A n \in Nat : n \in S
<1> SUFFICES ASSUME NEW n \in Nat, n \notin S PROVE FALSE OBVIOUS
<1> DEFINE A == S \cap (0 .. n)
           B == A \ {0}
           f == [k \in A |-> k + 1]
<1>1. IsFiniteSet(A) /\ IsFiniteSet(0 .. n)
  <2>1. IsFiniteSet(0 .. n) BY FS_Interval
  <2>. QED BY <2>1, FS_Intersection
<1>2. 0 \in A OBVIOUS
<1>3. IsFiniteSet(B) /\ Cardinality(B) < Cardinality(A)
  <2>1. IsFiniteSet(B) /\ Cardinality(B) = Cardinality(A) - 1
    BY <1>1, <1>2, FS_RemoveElement
  <2>2. Cardinality(A) \in Nat BY <1>1, FS_CardinalityType
  <2>. QED BY <2>1, <2>2
<1>4. f \in [A -> B]
  <2> SUFFICES ASSUME NEW k \in A PROVE k + 1 \in B OBVIOUS
  <2>1. k # n /\ k \in Nat /\ k <= n OBVIOUS
  <2>. QED BY <2>1
<1> HIDE DEF f
<1>5. \E x, y \in A : x # y /\ f[x] = f[y]
  <2> HIDE DEF A, B
  <2>. QED BY <1>1, <1>3, <1>4, FS_PigeonHole
<1>6. PICK x \in A : \E y \in A : x # y /\ f[x] = f[y] BY <1>5
<1>7. PICK y \in A : x # y /\ f[x] = f[y] BY <1>6
<1>8. f[x] = x + 1 /\ f[y] = y + 1 BY DEF f
<1>9. x \in Nat /\ y \in Nat OBVIOUS
<1> HIDE DEF A, B
<1>10. x + 1 = y + 1 BY <1>7, <1>8
<1>. QED BY <1>7, <1>9, <1>10

\* The sums of f are defined: for each n there is one function on 0..n.
LEMMA SumsAre ==
  ASSUME NEW f
  PROVE  \E s : s = [i \in Nat |-> IF i = 0 THEN 0 ELSE s[i - 1] + f[i]]
<1> DEFINE Is(s, n) == s = [i \in 0 .. n |-> IF i = 0 THEN 0 ELSE s[i - 1] + f[i]]
           S == {n \in Nat : \E s : Is(s, n)}
           T == {n \in Nat : \A p, q \in Nat : \A s, t :
                            n <= p /\ n <= q /\ Is(s, p) /\ Is(t, q) => s[n] = t[n]}
<1>0. ASSUME NEW n \in Nat, NEW s, Is(s, n)
      PROVE  s[0] = 0 /\ \A i \in 1 .. n : s[i] = s[i - 1] + f[i]
  BY <1>0
<1>1. \A n \in Nat : n \in S
  <2>1. 0 \in S
    <3>1. Is([i \in {0} |-> 0], 0) OBVIOUS
    <3>. QED BY <3>1
  <2>2. ASSUME NEW n \in Nat, n \in S PROVE n + 1 \in S
    <3>1. PICK s : Is(s, n) BY <2>2
    <3> DEFINE t == [i \in 0 .. (n + 1) |-> IF i = n + 1 THEN s[n] + f[n + 1] ELSE s[i]]
    <3>2. \A i \in 0 .. n : s[i] = IF i = 0 THEN 0 ELSE s[i - 1] + f[i] BY <3>1
    <3>3. \A i \in 0 .. (n + 1) : t[i] = IF i = 0 THEN 0 ELSE t[i - 1] + f[i]
      <4> TAKE i \in 0 .. (n + 1)
      <4>1. CASE i = 0 BY <4>1, <3>2
      <4>2. CASE i = n + 1
        <5>1. t[n] = s[n] /\ i # 0 /\ i - 1 = n BY <4>2
        <5>. QED BY <4>2, <5>1
      <4>3. CASE i \in 1 .. n
        <5>1. t[i] = s[i] /\ t[i - 1] = s[i - 1] BY <4>3
        <5>. QED BY <4>3, <5>1, <3>2
      <4>. QED BY <4>1, <4>2, <4>3
    <3>4. Is(t, n + 1)
      <4> DEFINE u == [i \in 0 .. (n + 1) |-> IF i = 0 THEN 0 ELSE t[i - 1] + f[i]]
      <4> HIDE DEF t
      <4>1. t = [i \in 0 .. (n + 1) |-> t[i]] BY DEF t
      <4>. QED BY <3>3, <4>1
    <3> HIDE DEF t
    <3>. QED BY <3>4
  <2> HIDE DEF S
  <2>. QED BY <2>1, <2>2, SetInduction
<1>2. \A n \in Nat : n \in T
  <2> HIDE DEF Is
  <2>1. 0 \in T BY <1>0
  <2>2. ASSUME NEW n \in Nat, n \in T PROVE n + 1 \in T
    <3> SUFFICES ASSUME NEW p \in Nat, NEW q \in Nat, NEW s, NEW t, n + 1 <= p, n + 1 <= q,
                        Is(s, p), Is(t, q)
                 PROVE  s[n + 1] = t[n + 1]
      OBVIOUS
    <3>1. s[n] = t[n] BY <2>2
    <3>2. \A i \in 1 .. p : s[i] = s[i - 1] + f[i] BY <1>0
    <3>3. \A i \in 1 .. q : t[i] = t[i - 1] + f[i] BY <1>0
    <3>4. n + 1 \in 1 .. p /\ n + 1 \in 1 .. q /\ (n + 1) - 1 = n OBVIOUS
    <3>. QED BY <3>1, <3>2, <3>3, <3>4
  <2> HIDE DEF T
  <2>. QED BY <2>1, <2>2, SetInduction
<1> DEFINE a == [n \in Nat |-> CHOOSE s : Is(s, n)]
           s == [n \in Nat |-> a[n][n]]
<1>3. \A n \in Nat : Is(a[n], n) BY <1>1
<1> HIDE DEF Is, a
<1>4. \A i \in Nat : s[i] = IF i = 0 THEN 0 ELSE s[i - 1] + f[i]
  <2> TAKE i \in Nat
  <2>1. s[i] = a[i][i] OBVIOUS
  <2>2. Is(a[i], i) BY <1>3
  <2>3. CASE i = 0 BY <1>0, <2>1, <2>2, <2>3
  <2>4. CASE i # 0
    <3>1. i - 1 \in Nat /\ i - 1 <= i BY <2>4
    <3>2. s[i - 1] = a[i - 1][i - 1] /\ Is(a[i - 1], i - 1) BY <1>3, <3>1
    <3>3. i - 1 \in T BY <1>2, <3>1
    <3>4. a[i][i - 1] = a[i - 1][i - 1] BY <2>2, <3>1, <3>2, <3>3
    <3>5. a[i][i] = a[i][i - 1] + f[i]
      <4>1. \A k \in 1 .. i : a[i][k] = a[i][k - 1] + f[k] BY <1>0, <2>2
      <4>. QED BY <2>4, <4>1
    <3>. QED BY <2>1, <2>4, <3>2, <3>4, <3>5
  <2>. QED BY <2>3, <2>4
<1>5. s = [i \in Nat |-> s[i]] OBVIOUS
<1> HIDE DEF s
<1>. QED BY <1>4, <1>5

\* The sum of none is 0, and one more adds itself.
LEMMA SumStep ==
  ASSUME NEW f
  PROVE  /\ Refund!SumUpTo(f, 0) = 0
         /\ \A n \in Nat : Refund!SumUpTo(f, n + 1) = Refund!SumUpTo(f, n) + f[n + 1]
<1> DEFINE Is(s) == s = [i \in Nat |-> IF i = 0 THEN 0 ELSE s[i - 1] + f[i]]
           s == CHOOSE s : Is(s)
<1>1. Is(s) BY SumsAre
<1>2. \A n : Refund!SumUpTo(f, n) = s[n] BY DEF Refund!SumUpTo
<1> HIDE DEF s
<1>3. s[0] = 0 /\ \A n \in Nat : s[n + 1] = s[n] + f[n + 1] BY <1>1
<1>. QED BY <1>2, <1>3

\* Sums of naturals: they grow with what is added up.
LEMMA SumType ==
  ASSUME NEW N \in Nat, NEW f, \A i \in 1 .. N : f[i] \in Nat
  PROVE  \A n \in 0 .. N : Refund!SumUpTo(f, n) \in Nat
<1> DEFINE S == {n \in Nat : n <= N => Refund!SumUpTo(f, n) \in Nat}
<1>1. 0 \in S BY SumStep
<1>2. \A n \in Nat : n \in S => n + 1 \in S BY SumStep
<1>3. \A n \in Nat : n \in S
  <2> HIDE DEF S
  <2>. QED BY <1>1, <1>2, SetInduction
<1>. QED BY <1>3

\* A sum of larger numbers is larger.
LEMMA SumGrows ==
  ASSUME NEW N \in Nat, NEW f, NEW g,
         \A i \in 1 .. N : f[i] \in Nat /\ g[i] \in Nat /\ f[i] <= g[i]
  PROVE  /\ Refund!SumUpTo(f, N) <= Refund!SumUpTo(g, N)
         /\ \A k \in 1 .. N : f[k] < g[k] => Refund!SumUpTo(f, N) < Refund!SumUpTo(g, N)
<1> DEFINE S == {n \in Nat : n <= N =>
                   /\ Refund!SumUpTo(f, n) <= Refund!SumUpTo(g, n)
                   /\ \A k \in 1 .. n : f[k] < g[k] => Refund!SumUpTo(f, n) < Refund!SumUpTo(g, n)}
<1>1. \A n \in 0 .. N : Refund!SumUpTo(f, n) \in Nat /\ Refund!SumUpTo(g, n) \in Nat BY SumType
<1>2. 0 \in S BY SumStep
<1>3. ASSUME NEW n \in Nat, n \in S PROVE n + 1 \in S
  <2> SUFFICES ASSUME n + 1 <= N
      PROVE /\ Refund!SumUpTo(f, n + 1) <= Refund!SumUpTo(g, n + 1)
            /\ \A k \in 1 .. (n + 1) : f[k] < g[k] => Refund!SumUpTo(f, n + 1) < Refund!SumUpTo(g, n + 1)
    OBVIOUS
  <2>1. Refund!SumUpTo(f, n + 1) = Refund!SumUpTo(f, n) + f[n + 1]
      /\ Refund!SumUpTo(g, n + 1) = Refund!SumUpTo(g, n) + g[n + 1]
    BY SumStep
  <2>2. Refund!SumUpTo(f, n) \in Nat /\ Refund!SumUpTo(g, n) \in Nat /\ f[n + 1] \in Nat /\ g[n + 1] \in Nat
    BY <1>1
  <2>3. Refund!SumUpTo(f, n) <= Refund!SumUpTo(g, n) /\ f[n + 1] <= g[n + 1] BY <1>3
  <2>4. \A k \in 1 .. n : f[k] < g[k] => Refund!SumUpTo(f, n) < Refund!SumUpTo(g, n) BY <1>3
  <2>. QED BY <2>1, <2>2, <2>3, <2>4
<1>4. \A n \in Nat : n \in S
  <2> HIDE DEF S
  <2>. QED BY <1>2, <1>3, SetInduction
<1>. QED BY <1>4

\* A sum depends on what it adds.
LEMMA SumSame ==
  ASSUME NEW N \in Nat, NEW f, NEW g, \A i \in 1 .. N : f[i] = g[i]
  PROVE  Refund!SumUpTo(f, N) = Refund!SumUpTo(g, N)
<1> DEFINE S == {n \in Nat : n <= N => Refund!SumUpTo(f, n) = Refund!SumUpTo(g, n)}
<1>1. 0 \in S BY SumStep
<1>2. \A n \in Nat : n \in S => n + 1 \in S BY SumStep
<1>3. \A n \in Nat : n \in S
  <2> HIDE DEF S
  <2>. QED BY <1>1, <1>2, SetInduction
<1>. QED BY <1>3

\* A sum of positive numbers is no less than how many they are.
LEMMA SumAtLeast ==
  ASSUME NEW N \in Nat, NEW f, \A i \in 1 .. N : f[i] \in Nat /\ f[i] >= 1
  PROVE  Refund!SumUpTo(f, N) >= N
<1> DEFINE S == {n \in Nat : n <= N => Refund!SumUpTo(f, n) >= n}
<1>1. \A n \in 0 .. N : Refund!SumUpTo(f, n) \in Nat BY SumType
<1>2. 0 \in S BY SumStep
<1>3. \A n \in Nat : n \in S => n + 1 \in S BY <1>1, SumStep
<1>4. \A n \in Nat : n \in S
  <2> HIDE DEF S
  <2>. QED BY <1>2, <1>3, SetInduction
<1>. QED BY <1>4

\* A sum of more is no less.
LEMMA SumsGrow ==
  ASSUME NEW N \in Nat, NEW f, \A i \in 1 .. N : f[i] \in Nat
  PROVE  \A n \in 0 .. N : Refund!SumUpTo(f, n) <= Refund!SumUpTo(f, N)
<1> SUFFICES ASSUME NEW m \in 0 .. N PROVE Refund!SumUpTo(f, m) <= Refund!SumUpTo(f, N) OBVIOUS
<1> DEFINE S == {n \in Nat : m <= n /\ n <= N => Refund!SumUpTo(f, m) <= Refund!SumUpTo(f, n)}
<1>1. \A n \in 0 .. N : Refund!SumUpTo(f, n) \in Nat BY SumType
<1>2. 0 \in S BY <1>1
<1>3. ASSUME NEW n \in Nat, n \in S PROVE n + 1 \in S
  <2> SUFFICES ASSUME m <= n + 1, n + 1 <= N PROVE Refund!SumUpTo(f, m) <= Refund!SumUpTo(f, n + 1) OBVIOUS
  <2>1. Refund!SumUpTo(f, n + 1) = Refund!SumUpTo(f, n) + f[n + 1] BY SumStep
  <2>2. CASE m = n + 1 BY <2>2, <1>1
  <2>3. CASE m <= n
    <3>1. Refund!SumUpTo(f, m) <= Refund!SumUpTo(f, n) BY <1>3, <2>3
    <3>. QED BY <1>1, <2>1, <3>1
  <2>. QED BY <2>2, <2>3
<1>4. \A n \in Nat : n \in S
  <2> HIDE DEF S
  <2>. QED BY <1>2, <1>3, SetInduction
<1>. QED BY <1>4

----------------------------------------------------------------------------
(* What Stripe has returned.                                               *)

\* What each refund of t returned; a refund at Stripe.
Amounts(t) == [i \in 1 .. Len(t) |-> t[i].amount]
RefundType == [key : Nat \X Nat, amount : Nat \ {0}]

\* What was returned, and how it grows.
LEMMA Totals ==
  ASSUME NEW t \in Seq(RefundType)
  PROVE  /\ \A n \in 0 .. Len(t) :
              /\ Refund!SumUpTo(Amounts(t), n) \in Nat
              /\ Refund!SumUpTo(Amounts(t), n) <= Refund!SumUpTo(Amounts(t), Len(t))
         /\ Len(t) <= Refund!SumUpTo(Amounts(t), Len(t))
<1>1. Len(t) \in Nat /\ \A i \in 1 .. Len(t) : Amounts(t)[i] \in Nat /\ Amounts(t)[i] >= 1
  <2>1. Len(t) \in Nat /\ \A i \in 1 .. Len(t) : t[i] \in RefundType OBVIOUS
  <2>2. \A i \in 1 .. Len(t) : Amounts(t)[i] = t[i].amount BY DEF Amounts
  <2>3. \A r \in RefundType : r.amount \in Nat /\ r.amount >= 1 BY DEF RefundType
  <2>. QED BY <2>1, <2>2, <2>3
<1>2. \A n \in 0 .. Len(t) : Refund!SumUpTo(Amounts(t), n) \in Nat BY <1>1, SumType
<1>3. \A n \in 0 .. Len(t) : Refund!SumUpTo(Amounts(t), n) <= Refund!SumUpTo(Amounts(t), Len(t))
  BY <1>1, SumsGrow
<1>4. Refund!SumUpTo(Amounts(t), Len(t)) >= Len(t) BY <1>1, SumAtLeast
<1>5. Refund!SumUpTo(Amounts(t), Len(t)) \in Nat BY <1>1, <1>2
<1>. QED BY <1>1, <1>2, <1>3, <1>4, <1>5

\* One refund more.
LEMMA TotalAppend ==
  ASSUME NEW t \in Seq(RefundType), NEW refund \in RefundType
  PROVE  LET u == Append(t, refund)
         IN /\ u \in Seq(RefundType) /\ Len(u) = Len(t) + 1 /\ u[Len(t) + 1] = refund
            /\ \A i \in 1 .. Len(t) : u[i] = t[i]
            /\ Refund!SumUpTo(Amounts(u), Len(u)) = Refund!SumUpTo(Amounts(t), Len(t)) + refund.amount
<1> DEFINE u == Append(t, refund)
<1>1. /\ u \in Seq(RefundType) /\ Len(u) = Len(t) + 1 /\ u[Len(t) + 1] = refund
      /\ Len(t) \in Nat /\ \A i \in 1 .. Len(t) : u[i] = t[i]
  OBVIOUS
<1> HIDE DEF u
<1>2. \A i \in 1 .. Len(t) : Amounts(u)[i] = Amounts(t)[i] BY <1>1 DEF Amounts
<1>3. Refund!SumUpTo(Amounts(u), Len(t)) = Refund!SumUpTo(Amounts(t), Len(t)) BY <1>1, <1>2, SumSame
<1>4. Refund!SumUpTo(Amounts(u), Len(t) + 1) = Refund!SumUpTo(Amounts(u), Len(t)) + Amounts(u)[Len(t) + 1]
  BY <1>1, SumStep
<1>5. Amounts(u)[Len(t) + 1] = refund.amount BY <1>1 DEF Amounts
<1>6. Refund!SumUpTo(Amounts(u), Len(u)) = Refund!SumUpTo(Amounts(t), Len(t)) + refund.amount
  BY <1>1, <1>3, <1>4, <1>5
<1>. QED BY <1>1, <1>6 DEF u

\* What Stripe has returned.
Total == Refund!SumUpTo(Amounts(sent), Len(sent))

\* The model's name for it.
LEMMA ReturnedIs == \A n : Refund!Returned(n) = Refund!SumUpTo(Amounts(sent), n)
BY DEF Refund!Returned, Amounts

----------------------------------------------------------------------------
(* The entries of a sale.                                                  *)

\* What the theorems take of the constants.
RefundInstance ==
  /\ Price \in Nat /\ MaxRequests \in Nat /\ MaxDeaths \in Nat /\ MaxErrors \in Nat
  /\ "none" \notin Requests /\ "dead" \notin Requests
  /\ ~Slow

\* A sale's record: the entries of each refund, and their sum.
SaleType == [on : [Refund!Refs -> Nat], refunded : 0 .. Price]

\* Its entries are counted,
LEMMA EntriesAre ==
  ASSUME RefundInstance, NEW s \in SaleType
  PROVE  Refund!Entries(s) \in Nat
<1>1. \A i \in 1 .. Price : s.on[i] \in Nat BY DEF SaleType, Refund!Refs
<1>. QED BY <1>1, SumType DEF Refund!Entries, RefundInstance

\* and more of them count for more.
LEMMA EntriesGrow ==
  ASSUME RefundInstance, NEW s \in SaleType, NEW t \in SaleType, \A i \in Refund!Refs : s.on[i] <= t.on[i]
  PROVE  /\ Refund!Entries(s) <= Refund!Entries(t)
         /\ \A i \in Refund!Refs : s.on[i] < t.on[i] => Refund!Entries(s) < Refund!Entries(t)
<1>1. \A i \in 1 .. Price : s.on[i] \in Nat /\ t.on[i] \in Nat /\ s.on[i] <= t.on[i]
  BY DEF SaleType, Refund!Refs
<1>. QED BY <1>1, SumGrows DEF Refund!Entries, RefundInstance, Refund!Refs

\* Of a sale with each refund on it at most once, no more than was returned.
LEMMA AddedUpIs ==
  ASSUME RefundInstance, sent \in Seq(RefundType), NEW s, Len(sent) <= Price,
         \A i \in Refund!Refs : s.on[i] \in {0, 1}
  PROVE  Refund!AddedUp(s) \in Nat /\ Refund!AddedUp(s) <= Total
<1> DEFINE f == [i \in 1 .. Len(sent) |-> s.on[i] * sent[i].amount]
<1>1. Len(sent) \in Nat OBVIOUS
<1>2. \A i \in 1 .. Len(sent) : f[i] \in Nat /\ Amounts(sent)[i] \in Nat /\ f[i] <= Amounts(sent)[i]
  <2> TAKE i \in 1 .. Len(sent)
  <2>0. i \in Refund!Refs /\ sent[i] \in RefundType BY DEF Refund!Refs, RefundInstance
  <2>1. s.on[i] \in {0, 1} /\ sent[i].amount \in Nat BY <2>0 DEF RefundType
  <2>2. f[i] = s.on[i] * sent[i].amount /\ Amounts(sent)[i] = sent[i].amount BY DEF Amounts
  <2>3. CASE s.on[i] = 0 BY <2>1, <2>2, <2>3
  <2>4. CASE s.on[i] = 1 BY <2>1, <2>2, <2>4
  <2>. QED BY <2>1, <2>3, <2>4
<1>3. Refund!AddedUp(s) = Refund!SumUpTo(f, Len(sent)) BY DEF Refund!AddedUp
<1> HIDE DEF f
<1>4. \A n \in 0 .. Len(sent) : Refund!SumUpTo(f, n) \in Nat BY <1>1, <1>2, SumType
<1>5. Refund!SumUpTo(f, Len(sent)) <= Refund!SumUpTo(Amounts(sent), Len(sent))
  BY <1>1, <1>2, SumGrows
<1>. QED BY <1>1, <1>3, <1>4, <1>5 DEF Total

----------------------------------------------------------------------------
(* The invariant.                                                          *)

\* What a request, and a call from Stripe, hold.
RequestPcs == {"idle", "lock", "look", "stripe", "fresh", "save", "unlock"}
RequestType == [pc : RequestPcs, amount : Nat, ref : 0 .. Price, copy : SaleType]
MirrorType == [event : Nat, read : BOOLEAN, copy : SaleType]

\* The types.
RefundTypes ==
  /\ sale \in SaleType
  /\ refundLock \in Requests \cup {"none", "dead"}
  /\ sent \in Seq(RefundType) /\ Total <= Price
  /\ request \in [Requests -> RequestType]
  /\ mirror \in MirrorType
  /\ heard \subseteq 1 .. Len(sent)
  /\ requests \in 0 .. MaxRequests /\ died \in 0 .. MaxDeaths /\ errors \in 0 .. MaxErrors

\* What a request at work may go by, its record being w: it alone has the
\* lock, its copy is the sale, and the refund it is to enter is not on it.
RefundFits(q, w, holder, s, n) ==
  /\ w.pc \in {"look", "stripe", "fresh", "save", "unlock"} => holder = q
  /\ w.pc \in {"lock", "look", "stripe"} => w.amount # 0
  /\ w.pc \in {"stripe", "save"} => w.copy = s
  /\ w.pc \in {"fresh", "save"} => w.ref # 0 /\ s.on[w.ref] = 0
  /\ w.ref <= n

\* Of every request.
RefundAllFit == \A q \in Requests : RefundFits(q, request[q], refundLock, sale, Len(sent))

\* What is on the sale.  The key of a refund that is on it is of a time when
\* it had fewer entries.
Listed ==
  /\ \A i \in Refund!Refs : sale.on[i] \in {0, 1} /\ (i > Len(sent) => sale.on[i] = 0)
  /\ \A i \in 1 .. Len(sent) :
       sent[i].key[1] <= Refund!Entries(sale) /\ (sale.on[i] = 1 => sent[i].key[1] < Refund!Entries(sale))
  /\ \A i \in heard : sale.on[i] = 1
  /\ heard = 1 .. Len(sent) => sale.refunded = Total

\* The steps at which a request has read the sale.
Working == {"stripe", "fresh", "save"}

\* While a call is handled the sale is what it was when the call came.
Mirrors ==
  /\ ~mirror.read => mirror = Refund!IdleMirror
  /\ mirror.read =>
       /\ mirror.copy = sale /\ mirror.event \in 1 .. Len(sent) /\ Refund!InOrder(mirror.event)
       /\ \A q \in Requests : request[q].pc \notin Working

\* What holds always of the refunds.
RefundSound == RefundTypes /\ RefundAllFit /\ Listed /\ Mirrors

\* Stripe has made finitely many refunds, each of something.
LEMMA SentAre ==
  ASSUME RefundInstance, RefundTypes
  PROVE  Len(sent) \in Nat /\ Len(sent) <= Price /\ Total \in Nat
<1>1. Len(sent) \in Nat BY DEF RefundTypes
<1>2. Len(sent) <= Total /\ Total \in Nat BY <1>1, Totals DEF RefundTypes, Total
<1>. QED BY <1>1, <1>2 DEF RefundTypes, RefundInstance

\* A sale without refunds, and nobody at work.
LEMMA NewSaleIs ==
  ASSUME RefundInstance
  PROVE  /\ Refund!NewSale \in SaleType /\ Refund!NewSale.refunded = 0
            /\ \A r \in Refund!Refs : Refund!NewSale.on[r] = 0
         /\ Refund!IdleRequest \in RequestType /\ Refund!IdleRequest.pc = "idle"
            /\ Refund!IdleRequest.ref = 0
         /\ Refund!IdleMirror \in MirrorType /\ ~Refund!IdleMirror.read
<1>1. Refund!NewSale \in SaleType /\ Refund!NewSale.refunded = 0
    /\ \A r \in Refund!Refs : Refund!NewSale.on[r] = 0
  BY DEF Refund!NewSale, SaleType, RefundInstance
<1> HIDE DEF Refund!NewSale
<1>2. Refund!IdleRequest \in RequestType /\ Refund!IdleRequest.pc = "idle" /\ Refund!IdleRequest.ref = 0
  BY <1>1 DEF Refund!IdleRequest, RequestType, RequestPcs, RefundInstance
<1>3. Refund!IdleMirror \in MirrorType /\ ~Refund!IdleMirror.read
  BY <1>1 DEF Refund!IdleMirror, MirrorType
<1>. QED BY <1>1, <1>2, <1>3

\* It holds at first.
LEMMA RefundInitSound == ASSUME RefundInstance, Refund!Init PROVE RefundSound
<1>1. Len(sent) = 0 /\ sent \in Seq(RefundType) BY DEF Refund!Init
<1>2. Total = 0 BY <1>1, SumStep DEF Total
<1>3. RefundTypes BY <1>1, <1>2, NewSaleIs DEF Refund!Init, RefundTypes, RefundInstance
<1>4. RefundAllFit
  <2>1. \A q \in Requests : request[q] = Refund!IdleRequest BY DEF Refund!Init
  <2>2. \A q \in Requests : RefundFits(q, Refund!IdleRequest, refundLock, sale, Len(sent))
    BY <1>1, NewSaleIs DEF RefundFits
  <2>. QED BY <2>1, <2>2 DEF RefundAllFit
<1>5. Listed BY <1>1, <1>2, NewSaleIs DEF Refund!Init, Listed
<1>6. Mirrors BY NewSaleIs DEF Refund!Init, Mirrors
<1>. QED BY <1>3, <1>4, <1>5, <1>6 DEF RefundSound

\* A request's step: the sale stays, and Stripe may have made a refund.
LEMMA RefundStepSound ==
  ASSUME RefundInstance, RefundSound, NEW q \in Requests, NEW w \in RequestType,
         request' = [request EXCEPT ![q] = w],
         UNCHANGED <<sale, mirror, heard>>,
         sent' \in Seq(RefundType), Total' <= Price, Len(sent) <= Len(sent'), Listed',
         refundLock' \in Requests \cup {"none", "dead"},
         refundLock' = refundLock \/ refundLock \in {"none", q},
         RefundFits(q, w, refundLock', sale, Len(sent')),
         mirror.read => w.pc \notin Working,
         requests' \in 0 .. MaxRequests, died' \in 0 .. MaxDeaths, errors' \in 0 .. MaxErrors
  PROVE  RefundSound'
<1>1. request' \in [Requests -> RequestType] /\ request'[q] = w
      /\ \A p \in Requests : p # q => request'[p] = request[p]
  BY DEF RefundSound, RefundTypes
<1>2. Len(sent) \in Nat /\ Len(sent') \in Nat BY DEF RefundSound, RefundTypes
<1>3. RefundTypes' BY <1>1, <1>2 DEF RefundSound, RefundTypes
<1>4. RefundAllFit'
  <2> SUFFICES ASSUME NEW p \in Requests PROVE RefundFits(p, request'[p], refundLock', sale', Len(sent'))
    BY DEF RefundAllFit
  <2>1. CASE p = q BY <1>1, <2>1
  <2>2. CASE p # q
    <3>1. RefundFits(p, request[p], refundLock, sale, Len(sent)) BY DEF RefundSound, RefundAllFit
    <3>2. request[p].ref \in Nat BY DEF RefundSound, RefundTypes, RequestType
    <3>3. refundLock = p => refundLock' = p BY <2>2 DEF RefundInstance
    <3>. QED BY <1>1, <1>2, <2>2, <3>1, <3>2, <3>3 DEF RefundFits
  <2>. QED BY <2>1, <2>2
<1>5. Mirrors'
  <2>1. mirror.read => mirror.event \in 1 .. Len(sent') BY <1>2 DEF RefundSound, Mirrors
  <2>2. mirror.read => \A p \in Requests : request'[p].pc \notin Working
    BY <1>1 DEF RefundSound, Mirrors
  <2>. QED BY <2>1, <2>2 DEF RefundSound, Mirrors, Refund!InOrder
<1>. QED BY <1>3, <1>4, <1>5 DEF RefundSound

\* A step of the kind that sends nothing.
LEMMA RefundPlainSound ==
  ASSUME RefundInstance, RefundSound, NEW q \in Requests, NEW w \in RequestType,
         request' = [request EXCEPT ![q] = w],
         UNCHANGED <<sale, sent, mirror, heard>>,
         refundLock' \in Requests \cup {"none", "dead"},
         refundLock' = refundLock \/ refundLock \in {"none", q},
         RefundFits(q, w, refundLock', sale, Len(sent)),
         mirror.read => w.pc \notin Working,
         requests' \in 0 .. MaxRequests, died' \in 0 .. MaxDeaths, errors' \in 0 .. MaxErrors
  PROVE  RefundSound'
<1>1. Listed' BY DEF RefundSound, Listed, Refund!Entries, Total, Amounts
<1>2. sent' \in Seq(RefundType) /\ Total' <= Price /\ Len(sent) <= Len(sent') /\ Len(sent') = Len(sent)
  BY DEF RefundSound, RefundTypes, Total, Amounts
<1>. QED BY <1>1, <1>2, RefundStepSound

\* Stripe makes a refund of what the request asks for.
LEMMA SendSound ==
  ASSUME RefundInstance, RefundSound, NEW q \in Requests, request[q].pc = "stripe", Refund!StripeReturns(q),
         NEW w \in RequestType, request' = [request EXCEPT ![q] = w],
         \/ w.pc = "unlock" /\ w.ref = request[q].ref
         \/ w.pc = "fresh" /\ w.ref = Len(sent) + 1,
         UNCHANGED <<sale, refundLock, mirror, heard, requests, died>>,
         errors' \in 0 .. MaxErrors
  PROVE  RefundSound'
<1> DEFINE refund == [key |-> Refund!IdempotencyKey(q), amount |-> request[q].amount]
<1>1. RefundFits(q, request[q], refundLock, sale, Len(sent)) /\ request[q] \in RequestType
  BY DEF RefundSound, RefundAllFit, RefundTypes
<1>2. Len(sent) \in Nat /\ Len(sent) <= Price /\ Total \in Nat BY SentAre DEF RefundSound
<1>3. Refund!IdempotencyKey(q) = <<Refund!Entries(sale), request[q].amount>>
  BY <1>1 DEF RefundFits, Refund!IdempotencyKey
<1>4. Refund!Entries(sale) \in Nat BY EntriesAre DEF RefundSound, RefundTypes
<1>5. request[q].amount \in Nat \ {0} BY <1>1 DEF RefundFits, RequestType
<1>6. refund \in RefundType /\ refund.key[1] = Refund!Entries(sale)
  BY <1>3, <1>4, <1>5 DEF RefundType
<1>7. sent' = Append(sent, refund) /\ Total + request[q].amount <= Price
  BY ReturnedIs DEF Refund!StripeReturns, Total
<1>8. refund.amount = request[q].amount OBVIOUS
<1> HIDE DEF refund
<1>9. /\ sent' \in Seq(RefundType) /\ Len(sent') = Len(sent) + 1 /\ sent'[Len(sent) + 1] = refund
      /\ \A i \in 1 .. Len(sent) : sent'[i] = sent[i]
      /\ Total' = Total + request[q].amount
  BY <1>6, <1>7, <1>8, TotalAppend DEF RefundSound, RefundTypes, Total
<1>10. Len(sent') <= Price
  <2>1. Len(sent') <= Total' BY <1>9, Totals DEF Total
  <2>. QED BY <1>2, <1>5, <1>7, <1>9, <2>1 DEF RefundInstance
<1>11. Listed'
  <2>1. \A i \in Refund!Refs : sale'.on[i] \in {0, 1} /\ (i > Len(sent') => sale'.on[i] = 0)
    BY <1>2, <1>9 DEF RefundSound, Listed, Refund!Refs
  <2>2. sale.on[Len(sent) + 1] = 0 BY <1>2, <1>9, <1>10 DEF RefundSound, Listed, Refund!Refs
  <2>3. Refund!Entries(sale)' = Refund!Entries(sale) BY DEF Refund!Entries
  <2>4. \A i \in 1 .. Len(sent') :
          sent'[i].key[1] <= Refund!Entries(sale)'
              /\ (sale'.on[i] = 1 => sent'[i].key[1] < Refund!Entries(sale)')
    <3> TAKE i \in 1 .. Len(sent')
    <3>1. CASE i = Len(sent) + 1 BY <1>4, <1>6, <1>9, <2>2, <2>3, <3>1
    <3>2. CASE i \in 1 .. Len(sent) BY <1>9, <2>3, <3>2 DEF RefundSound, Listed
    <3>. QED BY <1>2, <1>9, <3>1, <3>2
  <2>5. heard' # 1 .. Len(sent')
    <3>1. Len(sent) + 1 \notin heard /\ Len(sent) + 1 \in 1 .. Len(sent')
      BY <1>2, <1>9 DEF RefundSound, RefundTypes
    <3>. QED BY <3>1
  <2>6. \A i \in heard' : sale'.on[i] = 1 BY DEF RefundSound, Listed
  <2>. QED BY <2>1, <2>4, <2>5, <2>6 DEF Listed
<1>12. ~mirror.read BY DEF RefundSound, Mirrors, Working
<1>13. RefundFits(q, w, refundLock', sale, Len(sent'))
  <2>1. request[q].ref <= Len(sent) /\ request[q].ref \in Nat /\ refundLock = q
    BY <1>1 DEF RefundFits, RequestType
  <2>2. sale.on[Len(sent) + 1] = 0 BY <1>2, <1>9, <1>10 DEF RefundSound, Listed, Refund!Refs
  <2>. QED BY <1>2, <1>9, <2>1, <2>2 DEF RefundFits
<1>14. Total' <= Price BY <1>7, <1>9
<1>15. Len(sent) <= Len(sent') BY <1>2, <1>9
<1>16. /\ refundLock' \in Requests \cup {"none", "dead"} /\ requests' \in 0 .. MaxRequests
       /\ died' \in 0 .. MaxDeaths
  BY DEF RefundSound, RefundTypes
<1>. QED BY <1>9, <1>11, <1>12, <1>13, <1>14, <1>15, <1>16, RefundStepSound

\* The sale has more on it, and of each refund one entry at most.
LEMMA MoreListed ==
  ASSUME RefundInstance, RefundSound, UNCHANGED sent, sale' \in SaleType,
         \A i \in Refund!Refs : sale'.on[i] \in {0, 1} /\ sale.on[i] <= sale'.on[i],
         \A i \in Refund!Refs : i > Len(sent) => sale'.on[i] = 0,
         \A i \in heard' : sale'.on[i] = 1,
         heard' = 1 .. Len(sent) => sale'.refunded = Total
  PROVE  Listed'
<1>1. Refund!Entries(sale) \in Nat /\ Refund!Entries(sale') \in Nat
  BY EntriesAre DEF RefundSound, RefundTypes
<1>2. /\ Refund!Entries(sale) <= Refund!Entries(sale')
      /\ \A i \in Refund!Refs : sale.on[i] < sale'.on[i] => Refund!Entries(sale) < Refund!Entries(sale')
  BY EntriesGrow DEF RefundSound, RefundTypes
<1>3. Len(sent) \in Nat /\ Len(sent) <= Price BY SentAre DEF RefundSound
<1>4. \A i \in 1 .. Len(sent) : i \in Refund!Refs /\ sent[i].key[1] \in Nat
  <2>1. \A i \in 1 .. Len(sent) : sent[i] \in RefundType BY DEF RefundSound, RefundTypes
  <2>2. \A r \in RefundType : r.key[1] \in Nat BY DEF RefundType
  <2>. QED BY <1>3, <2>1, <2>2 DEF Refund!Refs, RefundInstance
<1>5. \A i \in 1 .. Len(sent) :
        sent[i].key[1] <= Refund!Entries(sale')
            /\ (sale'.on[i] = 1 => sent[i].key[1] < Refund!Entries(sale'))
  <2> TAKE i \in 1 .. Len(sent)
  <2>1. sent[i].key[1] <= Refund!Entries(sale) /\ (sale.on[i] = 1 => sent[i].key[1] < Refund!Entries(sale))
    BY DEF RefundSound, Listed
  <2>2. sale.on[i] \in {0, 1} BY <1>4 DEF RefundSound, Listed
  <2>3. CASE sale.on[i] = 1 BY <1>1, <1>2, <1>4, <2>1, <2>3
  <2>4. CASE sale.on[i] = 0 BY <1>1, <1>2, <1>4, <2>1, <2>4
  <2>. QED BY <2>2, <2>3, <2>4
<1>6. Refund!Entries(sale)' = Refund!Entries(sale') BY DEF Refund!Entries
<1>7. Total' = Total BY DEF Total, Amounts
<1>. QED BY <1>5, <1>6, <1>7 DEF Listed

\* A refund is asked for.
LEMMA AskSound ==
  ASSUME RefundInstance, RefundSound, NEW q \in Requests, Refund!Ask(q)
  PROVE  RefundSound'
<1>1. PICK amount \in 1 .. (Price - sale.refunded) :
        Refund!Goes(q, [Refund!IdleRequest EXCEPT !.pc = "lock", !.amount = amount])
  BY DEF Refund!Ask
<1> DEFINE w == [Refund!IdleRequest EXCEPT !.pc = "lock", !.amount = amount]
<1>2. amount \in Nat \ {0} BY DEF RefundSound, RefundTypes, SaleType, RefundInstance
<1>3. w \in RequestType /\ w.pc = "lock" /\ w.amount # 0 /\ w.ref = 0
  BY <1>2, NewSaleIs DEF RequestType, RequestPcs
<1> HIDE DEF w
<1>4. RefundFits(q, w, refundLock', sale, Len(sent)) BY <1>3, SentAre DEF RefundFits, RefundSound
<1>5. requests' \in 0 .. MaxRequests BY DEF Refund!Ask, RefundSound, RefundTypes, RefundInstance
<1>. QED
  BY <1>1, <1>3, <1>4, <1>5, RefundPlainSound DEF Refund!Ask, Refund!Goes, Working, RefundSound,
    RefundTypes, w

\* A request that goes on with what it has.
LEMMA ToIs ==
  ASSUME RefundInstance, RefundSound, NEW q \in Requests, NEW pc \in RequestPcs
  PROVE  LET w == [request[q] EXCEPT !.pc = pc]
         IN /\ w \in RequestType /\ w.pc = pc /\ w.amount = request[q].amount /\ w.ref = request[q].ref
            /\ w.copy = request[q].copy
            /\ Refund!To(q, pc) => request' = [request EXCEPT ![q] = w]
<1>1. request[q] \in RequestType BY DEF RefundSound, RefundTypes
<1>. QED BY <1>1 DEF RequestType, Refund!To, Refund!Goes

\* The lock is taken by one, or by nobody.
LEMMA TakeLockSound ==
  ASSUME RefundInstance, RefundSound, NEW q \in Requests, Refund!TakeLock(q)
  PROVE  RefundSound'
<1>1. RefundFits(q, request[q], refundLock, sale, Len(sent)) BY DEF RefundSound, RefundAllFit
<1>2. CASE refundLock = "none"
  <2> DEFINE w == [request[q] EXCEPT !.pc = "look"]
  <2>1. /\ w \in RequestType /\ w.pc = "look" /\ w.amount = request[q].amount /\ w.ref = request[q].ref
        /\ request' = [request EXCEPT ![q] = w]
    BY <1>2, ToIs DEF Refund!TakeLock, RequestPcs
  <2> HIDE DEF w
  <2>2. refundLock' = q BY <1>2 DEF Refund!TakeLock
  <2>3. RefundFits(q, w, refundLock', sale, Len(sent))
    BY <1>1, <2>1, <2>2 DEF RefundFits, Refund!TakeLock
  <2>. QED
    BY <1>2, <2>1, <2>2, <2>3, RefundPlainSound DEF Refund!TakeLock, Working, RefundSound,
      RefundTypes
<1>3. CASE refundLock # "none"
  <2>1. request' = [request EXCEPT ![q] = Refund!IdleRequest] /\ refundLock' = refundLock
    BY <1>3 DEF Refund!TakeLock, Refund!Goes
  <2>2. RefundFits(q, Refund!IdleRequest, refundLock', sale, Len(sent))
    BY NewSaleIs, SentAre DEF RefundFits, RefundSound
  <2>. QED
    BY <2>1, <2>2, NewSaleIs, RefundPlainSound DEF Refund!TakeLock, Working, RefundSound,
      RefundTypes
<1>. QED BY <1>2, <1>3

\* The sale is copied, for Stripe or to be saved.
LEMMA CopySound ==
  ASSUME RefundInstance, RefundSound, NEW q \in Requests, (Refund!Look(q) /\ Apart) \/ Refund!ReadFresh(q)
  PROVE  RefundSound'
<1>1. RefundFits(q, request[q], refundLock, sale, Len(sent)) /\ request[q] \in RequestType
  BY DEF RefundSound, RefundAllFit, RefundTypes
<1>2. sale \in SaleType BY DEF RefundSound, RefundTypes
<1>3. ~mirror.read BY NewSaleIs DEF Refund!Look, Refund!ReadFresh, RefundSound, Mirrors, Working
<1>4. CASE Refund!Look(q)
  <2> DEFINE w == [request[q] EXCEPT !.pc = "stripe", !.copy = sale]
  <2>1. w \in RequestType /\ w.pc = "stripe" /\ w.amount = request[q].amount
      /\ w.ref = request[q].ref /\ w.copy = sale
    BY <1>1, <1>2 DEF RequestType, RequestPcs
  <2>2. request' = [request EXCEPT ![q] = w] BY <1>4 DEF Refund!Look, Refund!Goes
  <2> HIDE DEF w
  <2>3. RefundFits(q, w, refundLock', sale, Len(sent))
    BY <1>1, <1>4, <2>1 DEF RefundFits, Refund!Look
  <2>. QED
    BY <1>3, <1>4, <2>1, <2>2, <2>3, RefundPlainSound DEF Refund!Look, RefundSound, RefundTypes
<1>5. CASE Refund!ReadFresh(q)
  <2> DEFINE w == [request[q] EXCEPT !.pc = "save", !.copy = sale]
  <2>1. w \in RequestType /\ w.pc = "save" /\ w.amount = request[q].amount
      /\ w.ref = request[q].ref /\ w.copy = sale
    BY <1>1, <1>2 DEF RequestType, RequestPcs
  <2>2. request' = [request EXCEPT ![q] = w] BY <1>5 DEF Refund!ReadFresh, Refund!Goes
  <2> HIDE DEF w
  <2>3. RefundFits(q, w, refundLock', sale, Len(sent))
    BY <1>1, <1>5, <2>1 DEF RefundFits, Refund!ReadFresh
  <2>. QED
    BY <1>3, <1>5, <2>1, <2>2, <2>3, RefundPlainSound DEF Refund!ReadFresh, RefundSound, RefundTypes
<1>. QED BY <1>4, <1>5

\* A refund whose key Stripe knows is not on the sale.
LEMMA KnownIs ==
  ASSUME RefundInstance, RefundSound, NEW q \in Requests, request[q].pc = "stripe",
         NEW i \in Refund!Known(q)
  PROVE  i \in 1 .. Len(sent) /\ i \in Refund!Refs /\ sale.on[i] = 0
<1>1. i \in 1 .. Len(sent) /\ sent[i].key = Refund!IdempotencyKey(q) BY DEF Refund!Known
<1>2. request[q].copy = sale BY DEF RefundSound, RefundAllFit, RefundFits
<1>3. sent[i].key[1] = Refund!Entries(sale) BY <1>1, <1>2 DEF Refund!IdempotencyKey
<1>4. Refund!Entries(sale) \in Nat BY EntriesAre DEF RefundSound, RefundTypes
<1>5. i \in Refund!Refs BY <1>1, SentAre DEF Refund!Refs, RefundSound, RefundInstance
<1>. QED BY <1>1, <1>3, <1>4, <1>5 DEF RefundSound, Listed

\* Stripe refunds, or returns the refund that has the key already.
LEMMA StripeSound ==
  ASSUME RefundInstance, RefundSound, NEW q \in Requests, Refund!Stripe(q)
  PROVE  RefundSound'
<1>1. RefundFits(q, request[q], refundLock, sale, Len(sent)) /\ request[q] \in RequestType
    /\ request[q].pc = "stripe"
  BY DEF RefundSound, RefundAllFit, RefundTypes, Refund!Stripe
<1>2. Len(sent) \in Nat /\ Len(sent) <= Price BY SentAre DEF RefundSound
<1>3. errors' \in 0 .. MaxErrors /\ UNCHANGED <<sale, refundLock, mirror, heard, requests, died, errors>>
  BY DEF Refund!Stripe, RefundSound, RefundTypes
<1>4. ~mirror.read BY <1>1 DEF RefundSound, Mirrors, Working
<1>5. CASE /\ Refund!StripeReturns(q)
           /\ Refund!Goes(q, [request[q] EXCEPT !.pc = "fresh", !.ref = Len(sent) + 1])
  <2> DEFINE w == [request[q] EXCEPT !.pc = "fresh", !.ref = Len(sent) + 1]
  <2>1. Len(sent) + 1 <= Price
    <3>1. Len(sent) <= Total /\ Total \in Nat BY <1>2, Totals DEF RefundSound, RefundTypes, Total
    <3>2. Total + request[q].amount <= Price BY <1>5, ReturnedIs DEF Refund!StripeReturns, Total
    <3>3. request[q].amount \in Nat \ {0} BY <1>1 DEF RefundFits, RequestType
    <3>. QED BY <1>2, <3>1, <3>2, <3>3 DEF RefundInstance
  <2>5. Len(sent) + 1 \in 0 .. Price BY <1>2, <2>1 DEF RefundInstance
  <2>2. w \in RequestType /\ w.pc = "fresh" /\ w.ref = Len(sent) + 1
    BY <1>1, <2>5 DEF RequestType, RequestPcs
  <2>3. request' = [request EXCEPT ![q] = w] BY <1>5 DEF Refund!Goes
  <2> HIDE DEF w
  <2>. QED BY <1>1, <1>3, <1>5, <2>2, <2>3, SendSound
<1>6. CASE /\ Refund!Known(q) # {}
           /\ Refund!Goes(q, [request[q] EXCEPT !.pc = "fresh",
              !.ref = CHOOSE i \in Refund!Known(q) : TRUE])
           /\ UNCHANGED sent
  <2> DEFINE ref == CHOOSE i \in Refund!Known(q) : TRUE
             w == [request[q] EXCEPT !.pc = "fresh", !.ref = ref]
  <2>1. ref \in Refund!Known(q) BY <1>6
  <2>2. request' = [request EXCEPT ![q] = w] BY <1>6 DEF Refund!Goes
  <2> HIDE DEF ref
  <2>3. ref \in 1 .. Len(sent) /\ ref \in Refund!Refs /\ sale.on[ref] = 0 BY <1>1, <2>1, KnownIs
  <2>4. ref \in 0 .. Price BY <2>3 DEF Refund!Refs, RefundInstance
  <2>5. w \in RequestType /\ w.pc = "fresh" /\ w.ref = ref BY <1>1, <2>4 DEF RequestType, RequestPcs
  <2> HIDE DEF w
  <2>6. RefundFits(q, w, refundLock', sale, Len(sent))
    BY <1>1, <1>2, <1>3, <2>3, <2>5 DEF RefundFits
  <2>. QED BY <1>3, <1>4, <1>6, <2>2, <2>5, <2>6, RefundPlainSound DEF RefundSound, RefundTypes
<1>7. CASE Refund!To(q, "unlock") /\ UNCHANGED sent
  <2> DEFINE w == [request[q] EXCEPT !.pc = "unlock"]
  <2>1. w \in RequestType /\ w.pc = "unlock" /\ w.ref = request[q].ref
      /\ request' = [request EXCEPT ![q] = w]
    BY <1>7, ToIs DEF RequestPcs
  <2> HIDE DEF w
  <2>2. RefundFits(q, w, refundLock', sale, Len(sent)) BY <1>1, <1>3, <2>1 DEF RefundFits
  <2>. QED BY <1>3, <1>4, <1>7, <2>1, <2>2, RefundPlainSound DEF RefundSound, RefundTypes
<1>. QED BY <1>5, <1>6, <1>7 DEF Refund!Stripe

\* Stripe fails: nothing is returned.
LEMMA StripeFailsSound ==
  ASSUME RefundInstance, RefundSound, NEW q \in Requests, Refund!StripeFails(q)
  PROVE  RefundSound'
<1>1. RefundFits(q, request[q], refundLock, sale, Len(sent)) /\ request[q].pc = "stripe"
  BY DEF RefundSound, RefundAllFit, Refund!StripeFails
<1>2. errors' \in 0 .. MaxErrors BY DEF Refund!StripeFails, RefundSound, RefundTypes, RefundInstance
<1> DEFINE w == [request[q] EXCEPT !.pc = "unlock"]
<1>3. w \in RequestType /\ w.pc = "unlock" /\ w.ref = request[q].ref /\ request' = [request EXCEPT ![q] = w]
  BY ToIs DEF RequestPcs, Refund!StripeFails
<1> HIDE DEF w
<1>4. CASE Refund!StripeReturns(q) BY <1>1, <1>2, <1>3, <1>4, SendSound DEF Refund!StripeFails
<1>5. CASE UNCHANGED sent
  <2>1. RefundFits(q, w, refundLock', sale, Len(sent))
    BY <1>1, <1>3 DEF RefundFits, Refund!StripeFails
  <2>. QED
    BY <1>2, <1>3, <1>5, <2>1, RefundPlainSound DEF Refund!StripeFails, Working, RefundSound,
      RefundTypes
<1>. QED BY <1>4, <1>5 DEF Refund!StripeFails

\* A request ends, with its lock.
LEMMA LeaveSound ==
  ASSUME RefundInstance, RefundSound, NEW q \in Requests, Refund!Unlock(q) \/ Refund!Dies(q)
  PROVE  RefundSound'
<1>1. RefundFits(q, request[q], refundLock, sale, Len(sent)) /\ request[q] \in RequestType
  BY DEF RefundSound, RefundAllFit, RefundTypes
<1>2. refundLock = q BY <1>1 DEF RefundFits, RequestType, RequestPcs, Refund!Unlock, Refund!Dies
<1>3. request' = [request EXCEPT ![q] = Refund!IdleRequest] /\ refundLock' \in {"none", "dead"}
  BY <1>2 DEF Refund!Unlock, Refund!Dies, Refund!Goes
<1>4. RefundFits(q, Refund!IdleRequest, refundLock', sale, Len(sent))
  BY NewSaleIs, SentAre DEF RefundFits, RefundSound
<1>5. died' \in 0 .. MaxDeaths
  BY DEF Refund!Unlock, Refund!Dies, RefundSound, RefundTypes, RefundInstance
<1>. QED
  BY <1>2, <1>3, <1>4, <1>5, NewSaleIs, RefundPlainSound DEF Refund!Unlock, Refund!Dies, Working,
    RefundSound, RefundTypes

\* A lock left by a request that died expires.
LEMMA LockExpiresSound == ASSUME RefundInstance, RefundSound, Refund!LockExpires PROVE RefundSound'
<1>1. RefundTypes' BY DEF Refund!LockExpires, RefundSound, RefundTypes, Total, Amounts
<1>2. RefundAllFit'
  <2> SUFFICES ASSUME NEW p \in Requests PROVE RefundFits(p, request'[p], refundLock', sale', Len(sent'))
    BY DEF RefundAllFit
  <2>1. RefundFits(p, request[p], refundLock, sale, Len(sent)) /\ refundLock # p
    BY DEF RefundSound, RefundAllFit, Refund!LockExpires, RefundInstance
  <2>. QED BY <2>1 DEF RefundFits, Refund!LockExpires
<1>3. Listed' BY DEF Refund!LockExpires, RefundSound, Listed, Refund!Entries, Total, Amounts
<1>4. Mirrors' BY DEF Refund!LockExpires, RefundSound, Mirrors, Refund!InOrder
<1>. QED BY <1>1, <1>2, <1>3, <1>4 DEF RefundSound

\* The refund is entered in the sale.
LEMMA SaveSound ==
  ASSUME RefundInstance, RefundSound, NEW q \in Requests, Refund!Save(q)
  PROVE  RefundSound'
<1>1. RefundFits(q, request[q], refundLock, sale, Len(sent)) /\ request[q] \in RequestType
    /\ request[q].pc = "save"
  BY DEF RefundSound, RefundAllFit, RefundTypes, Refund!Save
<1> DEFINE ref == request[q].ref
           on == [sale.on EXCEPT ![ref] = @ + 1]
           w == [request[q] EXCEPT !.pc = "unlock"]
<1>2. Len(sent) \in Nat /\ Len(sent) <= Price /\ Total \in Nat /\ Total <= Price
  BY SentAre DEF RefundSound, RefundTypes
<1>3. ref \in 1 .. Len(sent) /\ ref \in Refund!Refs /\ sale.on[ref] = 0
  BY <1>1, <1>2 DEF RefundFits, RequestType, Refund!Refs, RefundInstance
<1>4. sale \in SaleType /\ sale.on \in [Refund!Refs -> Nat]
  BY DEF RefundSound, RefundTypes, SaleType
<1>5. on \in [Refund!Refs -> Nat] /\ on[ref] = 1 /\ \A i \in Refund!Refs : i # ref => on[i] = sale.on[i]
  BY <1>3, <1>4
<1>6. sale' = [on |-> on, refunded |-> Refund!AddedUp([sale EXCEPT !.on = on])]
  BY <1>1 DEF Refund!Save, Refund!WithEntry, RefundFits
<1>7. \A i \in Refund!Refs : sale.on[i] \in {0, 1} /\ (i > Len(sent) => sale.on[i] = 0)
  BY DEF RefundSound, Listed
<1>8. \A i \in Refund!Refs : on[i] \in {0, 1} /\ sale.on[i] <= on[i] /\ (i > Len(sent) => on[i] = 0)
  BY <1>2, <1>3, <1>5, <1>7 DEF Refund!Refs
<1>9. Refund!AddedUp([sale EXCEPT !.on = on]) \in 0 .. Price
  <2> DEFINE s == [sale EXCEPT !.on = on]
  <2>1. s.on = on BY <1>4 DEF SaleType
  <2> HIDE DEF s, on
  <2>2. Refund!AddedUp(s) \in Nat /\ Refund!AddedUp(s) <= Total
    BY <1>2, <1>8, <2>1, AddedUpIs DEF RefundSound, RefundTypes
  <2>. QED BY <1>2, <2>2 DEF s, RefundInstance
<1>10. /\ w \in RequestType /\ w.pc = "unlock" /\ w.ref = ref /\ request' = [request EXCEPT ![q] = w]
  BY ToIs DEF Refund!Save, RequestPcs
<1> HIDE DEF on, w
<1>11. sale' \in SaleType /\ sale'.on = on BY <1>5, <1>6, <1>9 DEF SaleType
<1>12. ref \notin heard BY <1>3 DEF RefundSound, Listed
<1>13. heard # 1 .. Len(sent) BY <1>3, <1>12
<1>14. \A i \in heard : i \in Refund!Refs /\ i # ref /\ sale.on[i] = 1
  BY <1>2, <1>12 DEF RefundSound, RefundTypes, Listed, Refund!Refs, RefundInstance
<1>15. \A i \in heard : on[i] = 1 BY <1>5, <1>14
<1>16. Listed' BY <1>8, <1>11, <1>13, <1>15, MoreListed DEF Refund!Save
<1>17. request' \in [Requests -> RequestType] /\ request'[q] = w
       /\ \A p \in Requests : p # q => request'[p] = request[p]
  BY <1>10 DEF RefundSound, RefundTypes
<1>18. RefundTypes' BY <1>11, <1>17 DEF Refund!Save, RefundSound, RefundTypes, Total, Amounts
<1>19. RefundAllFit'
  <2> SUFFICES ASSUME NEW p \in Requests PROVE RefundFits(p, request'[p], refundLock', sale', Len(sent'))
    BY DEF RefundAllFit
  <2>1. CASE p = q BY <1>1, <1>10, <1>17, <2>1 DEF RefundFits, Refund!Save
  <2>2. CASE p # q
    <3>1. RefundFits(p, request[p], refundLock, sale, Len(sent)) /\ refundLock = q
      BY <1>1 DEF RefundSound, RefundAllFit, RefundFits
    <3>. QED BY <1>17, <2>2, <3>1 DEF RefundFits, Refund!Save
  <2>. QED BY <2>1, <2>2
<1>20. ~mirror.read BY <1>1 DEF RefundSound, Mirrors, Working
<1>21. Mirrors' BY <1>20 DEF Refund!Save, RefundSound, Mirrors
<1>. QED BY <1>16, <1>18, <1>19, <1>21 DEF RefundSound

\* A call from Stripe reads the sale.
LEMMA MirrorReadsSound ==
  ASSUME RefundInstance, Apart, RefundSound, Refund!MirrorReads
  PROVE  RefundSound'
<1>1. PICK last \in 1 .. Len(sent) :
        Refund!UnderWay = {} /\ Refund!InOrder(last)
            /\ mirror' = [event |-> last, read |-> TRUE, copy |-> sale]
  BY DEF Refund!MirrorReads
<1>2. mirror' \in MirrorType /\ mirror'.read /\ mirror'.copy = sale /\ mirror'.event = last
  BY <1>1 DEF MirrorType, RefundSound, RefundTypes
<1>3. RefundTypes' BY <1>2 DEF Refund!MirrorReads, RefundSound, RefundTypes, Total, Amounts
<1>4. RefundAllFit' BY DEF Refund!MirrorReads, RefundSound, RefundAllFit
<1>5. Listed' BY DEF Refund!MirrorReads, RefundSound, Listed, Refund!Entries, Total, Amounts
<1>6. \A q \in Requests : request[q].pc \notin Working BY <1>1 DEF Refund!UnderWay, Working
<1>7. Mirrors' BY <1>1, <1>2, <1>6 DEF Refund!MirrorReads, Mirrors, Refund!InOrder
<1>. QED BY <1>3, <1>4, <1>5, <1>7 DEF RefundSound

\* It enters what is not there.
LEMMA MirrorSavesSound == ASSUME RefundInstance, RefundSound, Refund!MirrorSaves PROVE RefundSound'
<1> DEFINE last == mirror.event
           on == Refund!Mirrored(mirror.copy, last)
<1>1. /\ mirror.copy = sale /\ last \in 1 .. Len(sent) /\ Refund!InOrder(last)
      /\ \A q \in Requests : request[q].pc \notin Working
  BY DEF Refund!MirrorSaves, RefundSound, Mirrors
<1>2. Len(sent) \in Nat /\ Len(sent) <= Price /\ Total \in Nat /\ Total <= Price
  BY SentAre DEF RefundSound, RefundTypes
<1>3. on = [r \in Refund!Refs |-> IF r \in 1 .. last /\ sale.on[r] = 0 THEN 1 ELSE sale.on[r]]
  BY <1>1 DEF Refund!Mirrored
<1>4. sale' = [on |-> on, refunded |-> Refund!Returned(last)] BY DEF Refund!MirrorSaves
<1>5. \A i \in Refund!Refs : sale.on[i] \in {0, 1} /\ (i > Len(sent) => sale.on[i] = 0)
  BY DEF RefundSound, Listed
<1>6. \A i \in Refund!Refs : on[i] \in {0, 1} /\ sale.on[i] <= on[i] /\ (i > Len(sent) => on[i] = 0)
  BY <1>1, <1>2, <1>3, <1>5 DEF Refund!Refs
<1>7. on \in [Refund!Refs -> Nat]
  <2>1. sale.on \in [Refund!Refs -> Nat] BY DEF RefundSound, RefundTypes, SaleType
  <2>. QED BY <1>3, <2>1
<1>8. \A i \in 1 .. last : i \in Refund!Refs BY <1>1, <1>2 DEF Refund!Refs, RefundInstance
<1>9. \A i \in 1 .. last : on[i] = 1 BY <1>3, <1>5, <1>8
<1> HIDE DEF on
<1>10. Refund!Returned(last) \in 0 .. Price
  <2>1. Refund!Returned(last) \in Nat /\ Refund!Returned(last) <= Total
    BY <1>1, ReturnedIs, Totals DEF RefundSound, RefundTypes, Total
  <2>. QED BY <1>2, <2>1 DEF RefundInstance
<1>11. sale' \in SaleType /\ sale'.on = on /\ sale'.refunded = Refund!Returned(last)
  BY <1>4, <1>7, <1>10 DEF SaleType
<1>12. heard' = 1 .. last BY <1>1 DEF Refund!MirrorSaves, Refund!InOrder
<1>13. heard' = 1 .. Len(sent) => sale'.refunded = Total
  <2>1. heard' = 1 .. Len(sent) => last = Len(sent)
    <3> SUFFICES ASSUME 1 .. Len(sent) = 1 .. last PROVE last = Len(sent) BY <1>12
    <3>1. Len(sent) \in 1 .. last BY <1>1, <1>2
    <3>. QED BY <1>1, <1>2, <3>1
  <2>. QED BY <1>11, <2>1, ReturnedIs DEF Total
<1>14. Listed' BY <1>6, <1>9, <1>11, <1>12, <1>13, MoreListed DEF Refund!MirrorSaves
<1>15. heard' \subseteq 1 .. Len(sent) BY <1>1, <1>2, <1>12
<1>16. RefundTypes'
  BY <1>11, <1>15, NewSaleIs DEF Refund!MirrorSaves, RefundSound, RefundTypes, Total, Amounts
<1>17. RefundAllFit'
  <2> SUFFICES ASSUME NEW p \in Requests PROVE RefundFits(p, request'[p], refundLock', sale', Len(sent'))
    BY DEF RefundAllFit
  <2>1. RefundFits(p, request[p], refundLock, sale, Len(sent)) BY DEF RefundSound, RefundAllFit
  <2>. QED BY <1>1, <2>1 DEF RefundFits, Refund!MirrorSaves, Working
<1>18. Mirrors' BY NewSaleIs DEF Refund!MirrorSaves, Mirrors
<1>. QED BY <1>14, <1>16, <1>17, <1>18 DEF RefundSound

\* Every step keeps it.
LEMMA RefundStepsSound ==
  ASSUME RefundInstance, Apart, RefundSound, [Refund!Next]_(Refund!vars)
  PROVE  RefundSound'
<1>1. CASE Refund!Next
  <2>1. CASE Refund!LockExpires BY <2>1, LockExpiresSound
  <2>2. CASE Refund!MirrorReads BY <2>2, MirrorReadsSound
  <2>3. CASE Refund!MirrorSaves BY <2>3, MirrorSavesSound
  <2>4. ASSUME NEW q \in Requests,
               \/ Refund!Ask(q) \/ Refund!TakeLock(q) \/ Refund!Look(q) \/ Refund!Stripe(q)
                   \/ Refund!StripeFails(q)
               \/ Refund!ReadFresh(q) \/ Refund!Save(q) \/ Refund!Unlock(q) \/ Refund!Dies(q)
        PROVE  RefundSound'
    BY <2>4, AskSound, TakeLockSound, CopySound, StripeSound, StripeFailsSound, SaveSound,
      LeaveSound
  <2>. QED BY <1>1, <2>1, <2>2, <2>3, <2>4 DEF Refund!Next
<1>2. CASE UNCHANGED Refund!vars
  <2>1. RefundTypes' BY <1>2 DEF Refund!vars, RefundSound, RefundTypes, Total, Amounts
  <2>2. RefundAllFit' BY <1>2 DEF Refund!vars, RefundSound, RefundAllFit
  <2>3. Listed' BY <1>2 DEF Refund!vars, RefundSound, Listed, Refund!Entries, Total, Amounts
  <2>4. Mirrors' BY <1>2 DEF Refund!vars, RefundSound, Mirrors, Refund!InOrder
  <2>. QED BY <2>1, <2>2, <2>3, <2>4 DEF RefundSound
<1>. QED BY <1>1, <1>2

\* Every variable of the refunds keeps its type.
THEOREM RefundTypeCorrect == RefundInstance /\ Apart => (Refund!Spec => []Refund!TypeOK)
<1> SUFFICES ASSUME RefundInstance, Apart PROVE Refund!Spec => []Refund!TypeOK OBVIOUS
<1>1. Refund!Init => RefundSound BY RefundInitSound
<1>2. RefundSound /\ [Refund!Next]_(Refund!vars) => RefundSound' BY RefundStepsSound
<1>3. RefundSound => Refund!TypeOK
  <2> SUFFICES ASSUME RefundSound PROVE Refund!TypeOK OBVIOUS
  <2>1. \A q \in Requests : request[q].ref \in 0 .. Len(sent)
    <3> TAKE q \in Requests
    <3>1. request[q].ref \in Nat BY DEF RefundSound, RefundTypes, RequestType
    <3>2. request[q].ref <= Len(sent) BY DEF RefundSound, RefundAllFit, RefundFits
    <3>. QED BY <3>1, <3>2, SentAre DEF RefundSound
  <2>. QED BY <2>1, SentAre DEF RefundSound, RefundTypes, Refund!TypeOK, SaleType
<1>. QED BY <1>1, <1>2, <1>3, PTL DEF Refund!Spec

\* When Stripe has been heard of every refund, the sale has the sum of them.
THEOREM RefundsSettle == RefundInstance /\ Apart => (Refund!Spec => []Refund!RecordSettles)
<1> SUFFICES ASSUME RefundInstance, Apart PROVE Refund!Spec => []Refund!RecordSettles OBVIOUS
<1>1. Refund!Init => RefundSound BY RefundInitSound
<1>2. RefundSound /\ [Refund!Next]_(Refund!vars) => RefundSound' BY RefundStepsSound
<1>3. RefundSound => Refund!RecordSettles
  BY ReturnedIs DEF RefundSound, Listed, Refund!RecordSettles, Total
<1>. QED BY <1>1, <1>2, <1>3, PTL DEF Refund!Spec

----------------------------------------------------------------------------
(* The rule's and the meeting's theorems, which are those of Automation    *)
(* and of MeetingRecord: instances of one module by two ways are the same. *)

\* What the theorems take of the constants.
RuleInstance ==
  /\ "none" \notin Calls /\ "dead" \notin Calls
  /\ Threshold \in Nat

\* What MeetingRecord and Lifecycle assume of their constants.
MeetingInstance ==
  /\ Ops \subseteq Meeting!AllOps
  /\ InitState \in Meeting!States
  /\ LastTime \in Nat /\ MaxOps \in Nat /\ MaxSessions \in Nat
  /\ LossyHooks \in BOOLEAN /\ IsPermanent \in BOOLEAN
  /\ ScheduledAt \in Nat /\ EarlyStart \in Nat /\ Grace \in Nat

\* Automation and MeetingRecord with what is proved of them.
RuleProofs == INSTANCE Automation_proofs WITH
  Kinds <- CallKinds, MaxFailures <- MaxFaults, failures <- faults
MeetingProofs == INSTANCE MeetingRecord_proofs WITH
  Requests <- Handlers, MaxTime <- LastTime, clock <- time, req <- handler

\* How many a set has does not depend on the instance.
LEMMA SameSize == ASSUME NEW S PROVE OneCall!Cardinality(S) = RuleProofs!Cardinality(S)
BY Zenon DEF OneCall!Cardinality, RuleProofs!Cardinality

\* Every step of the rule is a step of the rule that was proved about.
LEMMA RuleSteps == [OneCall!Next]_ruleVars => [RuleProofs!Next]_(RuleProofs!vars)
<1>1. OneCall!TimeComes => RuleProofs!TimeComes
  BY DEF
    OneCall!TimeComes, OneCall!bounds, RuleProofs!TimeComes, RuleProofs!bounds
<1>2. OneCall!LockExpires => RuleProofs!LockExpires
  BY DEF
    OneCall!LockExpires, OneCall!bounds, RuleProofs!LockExpires, RuleProofs!bounds
<1>3. ASSUME NEW c \in Calls, OneCall!Tick(c) PROVE RuleProofs!Tick(c)
  BY <1>3 DEF
    OneCall!Tick, OneCall!Free, OneCall!InFlight, OneCall!Goes, OneCall!IdleCall,
    OneCall!NewState, OneCall!bounds, RuleProofs!Tick, RuleProofs!Free, RuleProofs!InFlight,
    RuleProofs!Goes, RuleProofs!IdleCall, RuleProofs!NewState, RuleProofs!bounds
<1>4. ASSUME NEW c \in Calls, OneCall!RunNow(c) PROVE RuleProofs!RunNow(c)
  BY <1>4 DEF
    OneCall!RunNow, OneCall!AdminMay, OneCall!Free, OneCall!InFlight, OneCall!Goes,
    OneCall!IdleCall, OneCall!NewState, RuleProofs!RunNow, RuleProofs!AdminMay,
    RuleProofs!Free, RuleProofs!InFlight, RuleProofs!Goes, RuleProofs!IdleCall,
    RuleProofs!NewState
<1>5. ASSUME NEW c \in Calls, OneCall!SetStatus(c) PROVE RuleProofs!SetStatus(c)
  BY <1>5 DEF
    OneCall!SetStatus, OneCall!AdminMay, OneCall!Free, OneCall!InFlight, OneCall!Goes,
    OneCall!IdleCall, OneCall!NewState, RuleProofs!SetStatus, RuleProofs!AdminMay,
    RuleProofs!Free, RuleProofs!InFlight, RuleProofs!Goes, RuleProofs!IdleCall,
    RuleProofs!NewState
<1>6. ASSUME NEW c \in Calls, OneCall!WhetherDue(c) PROVE RuleProofs!WhetherDue(c)
  BY <1>6 DEF
    OneCall!WhetherDue, OneCall!At, OneCall!Finished, OneCall!Goes, OneCall!IdleCall,
    OneCall!NewState, OneCall!To, OneCall!bounds, RuleProofs!WhetherDue, RuleProofs!At,
    RuleProofs!Finished, RuleProofs!Goes, RuleProofs!IdleCall, RuleProofs!NewState,
    RuleProofs!To, RuleProofs!bounds
<1>7. ASSUME NEW c \in Calls, OneCall!TakeLock(c) PROVE RuleProofs!TakeLock(c)
  BY <1>7 DEF
    OneCall!TakeLock, OneCall!To, OneCall!Goes, OneCall!bounds, RuleProofs!TakeLock,
    RuleProofs!To, RuleProofs!Goes, RuleProofs!bounds
<1>8. ASSUME NEW c \in Calls, OneCall!ReadToSayLocked(c) PROVE RuleProofs!ReadToSayLocked(c)
  BY <1>8 DEF
    OneCall!ReadToSayLocked, OneCall!Goes, OneCall!bounds, RuleProofs!ReadToSayLocked,
    RuleProofs!Goes, RuleProofs!bounds
<1>9. ASSUME NEW c \in Calls, OneCall!SayLocked(c) PROVE RuleProofs!SayLocked(c)
  BY <1>9 DEF
    OneCall!SayLocked, OneCall!Finished, OneCall!Goes, OneCall!IdleCall, OneCall!NewState,
    OneCall!bounds, RuleProofs!SayLocked, RuleProofs!Finished, RuleProofs!Goes,
    RuleProofs!IdleCall, RuleProofs!NewState, RuleProofs!bounds
<1>10. ASSUME NEW c \in Calls, OneCall!Find(c) PROVE RuleProofs!Find(c)
  <2>1. OneCall!Allowed = RuleProofs!Allowed
    BY SameSize DEF OneCall!Allowed, OneCall!Unclaimed, RuleProofs!Allowed, RuleProofs!Unclaimed
  <2>. QED BY <1>10, <2>1 DEF OneCall!Find, OneCall!Goes, OneCall!bounds, RuleProofs!Find,
    RuleProofs!Goes, RuleProofs!bounds
<1>11. ASSUME NEW c \in Calls, OneCall!Claim(c) PROVE RuleProofs!Claim(c)
  BY <1>11 DEF
    OneCall!Claim, OneCall!ClaimWon, OneCall!Goes, OneCall!bounds, RuleProofs!Claim,
    RuleProofs!ClaimWon, RuleProofs!Goes, RuleProofs!bounds
<1>12. ASSUME NEW c \in Calls, OneCall!Perform(c) PROVE RuleProofs!Perform(c)
  BY <1>12 DEF
    OneCall!Perform, OneCall!Goes, OneCall!bounds, RuleProofs!Perform, RuleProofs!Goes,
    RuleProofs!bounds
<1>13. ASSUME NEW c \in Calls, OneCall!Release(c) PROVE RuleProofs!Release(c)
  BY <1>13 DEF
    OneCall!Release, OneCall!HandedBack, OneCall!Goes, OneCall!bounds, RuleProofs!Release,
    RuleProofs!HandedBack, RuleProofs!Goes, RuleProofs!bounds
<1>14. ASSUME NEW c \in Calls, OneCall!Unlock(c) PROVE RuleProofs!Unlock(c)
  BY <1>14 DEF
    OneCall!Unlock, OneCall!Failed, OneCall!To, OneCall!Goes, OneCall!bounds,
    RuleProofs!Unlock, RuleProofs!Failed, RuleProofs!To, RuleProofs!Goes, RuleProofs!bounds
<1>15. ASSUME NEW c \in Calls, OneCall!ReadAfter(c) PROVE RuleProofs!ReadAfter(c)
  BY <1>15 DEF
    OneCall!ReadAfter, OneCall!Goes, OneCall!bounds, RuleProofs!ReadAfter, RuleProofs!Goes,
    RuleProofs!bounds
<1>16. ASSUME NEW c \in Calls, OneCall!Judge(c) PROVE RuleProofs!Judge(c)
  BY <1>16 DEF
    OneCall!Judge, OneCall!Judged, OneCall!Failed, OneCall!Goes, OneCall!bounds,
    RuleProofs!Judge, RuleProofs!Judged, RuleProofs!Failed, RuleProofs!Goes, RuleProofs!bounds
<1>17. ASSUME NEW c \in Calls, OneCall!Save(c) PROVE RuleProofs!Save(c)
  BY <1>17 DEF
    OneCall!Save, OneCall!To, OneCall!Goes, OneCall!Finished, OneCall!IdleCall,
    OneCall!NewState, OneCall!bounds, RuleProofs!Save, RuleProofs!To, RuleProofs!Goes,
    RuleProofs!Finished, RuleProofs!IdleCall, RuleProofs!NewState, RuleProofs!bounds
<1>18. ASSUME NEW c \in Calls, OneCall!ReadAgain(c) PROVE RuleProofs!ReadAgain(c)
  BY <1>18 DEF
    OneCall!ReadAgain, OneCall!At, OneCall!Goes, OneCall!bounds, RuleProofs!ReadAgain,
    RuleProofs!At, RuleProofs!Goes, RuleProofs!bounds
<1>19. ASSUME NEW c \in Calls, OneCall!SaveNext(c) PROVE RuleProofs!SaveNext(c)
  BY <1>19 DEF
    OneCall!SaveNext, OneCall!At, OneCall!Finished, OneCall!Goes, OneCall!IdleCall,
    OneCall!NewState, OneCall!bounds, RuleProofs!SaveNext, RuleProofs!At, RuleProofs!Finished,
    RuleProofs!Goes, RuleProofs!IdleCall, RuleProofs!NewState, RuleProofs!bounds
<1>20. ASSUME NEW c \in Calls, OneCall!ReadToReschedule(c) PROVE RuleProofs!ReadToReschedule(c)
  BY <1>20 DEF
    OneCall!ReadToReschedule, OneCall!At, OneCall!Goes, OneCall!bounds,
    RuleProofs!ReadToReschedule, RuleProofs!At, RuleProofs!Goes, RuleProofs!bounds
<1>21. ASSUME NEW c \in Calls, OneCall!Reschedule(c) PROVE RuleProofs!Reschedule(c)
  BY <1>21 DEF
    OneCall!Reschedule, OneCall!At, OneCall!To, OneCall!Goes, OneCall!Finished,
    OneCall!IdleCall, OneCall!NewState, OneCall!bounds, RuleProofs!Reschedule, RuleProofs!At,
    RuleProofs!To, RuleProofs!Goes, RuleProofs!Finished, RuleProofs!IdleCall,
    RuleProofs!NewState, RuleProofs!bounds
<1>22. ASSUME NEW c \in Calls, OneCall!FreshStart(c) PROVE RuleProofs!FreshStart(c)
  BY <1>22 DEF
    OneCall!FreshStart, OneCall!At, OneCall!Finished, OneCall!Goes, OneCall!IdleCall,
    OneCall!NewState, OneCall!bounds, RuleProofs!FreshStart, RuleProofs!At,
    RuleProofs!Finished, RuleProofs!Goes, RuleProofs!IdleCall, RuleProofs!NewState,
    RuleProofs!bounds
<1>23. ASSUME NEW c \in Calls, OneCall!FindFails(c) PROVE RuleProofs!FindFails(c)
  BY <1>23 DEF
    OneCall!FindFails, OneCall!Goes, RuleProofs!FindFails, RuleProofs!Goes
<1>24. ASSUME NEW c \in Calls, OneCall!PerformFails(c) PROVE RuleProofs!PerformFails(c)
  BY <1>24 DEF
    OneCall!PerformFails, OneCall!Goes, RuleProofs!PerformFails, RuleProofs!Goes
<1>25. ASSUME NEW c \in Calls, OneCall!NothingToSendTo(c) PROVE RuleProofs!NothingToSendTo(c)
  BY <1>25 DEF
    OneCall!NothingToSendTo, OneCall!To, OneCall!Goes, RuleProofs!NothingToSendTo,
    RuleProofs!To, RuleProofs!Goes
<1>26. ASSUME NEW c \in Calls, OneCall!Dies(c) PROVE RuleProofs!Dies(c)
  BY <1>26 DEF
    OneCall!Dies, OneCall!Finished, OneCall!Goes, OneCall!IdleCall, OneCall!NewState,
    RuleProofs!Dies, RuleProofs!Finished, RuleProofs!Goes, RuleProofs!IdleCall,
    RuleProofs!NewState
<1>. SUFFICES ASSUME OneCall!Next \/ UNCHANGED ruleVars
              PROVE  RuleProofs!Next \/ UNCHANGED RuleProofs!vars
  OBVIOUS
<1>27. CASE UNCHANGED ruleVars
  BY <1>27 DEF ruleVars, RuleProofs!vars, RuleProofs!bounds
<1>28. CASE OneCall!Next
  BY <1>28, <1>1, <1>2, <1>3, <1>4, <1>5, <1>6, <1>7, <1>8, <1>9, <1>10, <1>11, <1>12, <1>13, <1>14,
     <1>15, <1>16, <1>17, <1>18, <1>19, <1>20, <1>21, <1>22, <1>23, <1>24, <1>25, <1>26
  DEF OneCall!Next, OneCall!RunSteps, OneCall!Mishaps,
      RuleProofs!Next, RuleProofs!RunSteps, RuleProofs!Mishaps
<1>. QED BY <1>27, <1>28

\* The rule begins, and is judged, alike in both.
LEMMA RuleSame ==
  /\ OneCall!Init => RuleProofs!Init
  /\ RuleProofs!GoodRunClears => OneCall!GoodRunClears
  /\ RuleProofs!TypeOK => OneCall!TypeOK
<1>1. OneCall!Init => RuleProofs!Init
  BY DEF
    OneCall!Init, OneCall!NewState, OneCall!IdleCall, RuleProofs!Init, RuleProofs!NewState,
    RuleProofs!IdleCall
<1>2. RuleProofs!GoodRunClears => OneCall!GoodRunClears
  BY DEF
    OneCall!GoodRunClears, OneCall!InFlight, RuleProofs!GoodRunClears, RuleProofs!InFlight
<1>3. RuleProofs!TypeOK => OneCall!TypeOK
  BY DEF
    OneCall!TypeOK, OneCall!States, RuleProofs!TypeOK, RuleProofs!States
<1>. QED BY <1>1, <1>2, <1>3

\* So does the meeting, which also moves alike.
LEMMA MeetingSame ==
  /\ Meeting!Init => MeetingProofs!Init
  /\ [Meeting!Next]_meetingVars => [MeetingProofs!Next]_(MeetingProofs!vars)
  /\ MeetingProofs!KeepsEnd => Meeting!KeepsEnd
  /\ MeetingProofs!TypeOK => Meeting!TypeOK
<1>1. Meeting!Init => MeetingProofs!Init
  BY DEF
    Meeting!Init, Meeting!None, Meeting!Idle, Meeting!Request, Meeting!Blank,
    MeetingProofs!Init, MeetingProofs!None, MeetingProofs!Idle, MeetingProofs!Request,
    MeetingProofs!Blank
<1>2. [Meeting!Next]_meetingVars => [MeetingProofs!Next]_(MeetingProofs!vars)
  BY DEF meetingVars,
    Meeting!Next, Meeting!Tick, Meeting!RoomOpens, Meeting!TimeLeft, Meeting!RoomCloses,
    Meeting!HookLost, Meeting!BeginStart, Meeting!Asked, Meeting!Take, Meeting!Idle,
    Meeting!Request, Meeting!None, Meeting!Blank, Meeting!Reread, Meeting!BeginEnd,
    Meeting!CanEnd, Meeting!Updating, Meeting!DeletingRoom, Meeting!BeginArchive,
    Meeting!BeginEdit, Meeting!BeginJoin, Meeting!ReopensOnJoin, Meeting!Receives,
    Meeting!ReceiveRoomStarted, Meeting!GoesLiveWhenRoomStarts, Meeting!EndedByEmptyRoom,
    Meeting!ReceiveRoomFinished, Meeting!Clearing, Meeting!Deciding, Meeting!BeginSweep,
    Meeting!IsInProgress, Meeting!Steps, Meeting!DecideRoomFinished,
    Meeting!EndsWhenRoomFinishes, Meeting!DecideSweep, Meeting!SweepEnds, Meeting!UpdateRead,
    Meeting!UpdateWrite, Meeting!Patched, Meeting!WentLive, Meeting!NotedStart,
    Meeting!EndedAs, Meeting!Archived, Meeting!Reopened, Meeting!AllOps, Meeting!States,
    Meeting!DeleteRoom, Meeting!vars, MeetingProofs!Next, MeetingProofs!Tick,
    MeetingProofs!RoomOpens, MeetingProofs!TimeLeft, MeetingProofs!RoomCloses,
    MeetingProofs!HookLost, MeetingProofs!BeginStart, MeetingProofs!Asked, MeetingProofs!Take,
    MeetingProofs!Idle, MeetingProofs!Request, MeetingProofs!None, MeetingProofs!Blank,
    MeetingProofs!Reread, MeetingProofs!BeginEnd, MeetingProofs!CanEnd, MeetingProofs!Updating,
    MeetingProofs!DeletingRoom, MeetingProofs!BeginArchive, MeetingProofs!BeginEdit,
    MeetingProofs!BeginJoin, MeetingProofs!ReopensOnJoin, MeetingProofs!Receives,
    MeetingProofs!ReceiveRoomStarted, MeetingProofs!GoesLiveWhenRoomStarts,
    MeetingProofs!EndedByEmptyRoom, MeetingProofs!ReceiveRoomFinished, MeetingProofs!Clearing,
    MeetingProofs!Deciding, MeetingProofs!BeginSweep, MeetingProofs!IsInProgress,
    MeetingProofs!Steps, MeetingProofs!DecideRoomFinished, MeetingProofs!EndsWhenRoomFinishes,
    MeetingProofs!DecideSweep, MeetingProofs!SweepEnds, MeetingProofs!UpdateRead,
    MeetingProofs!UpdateWrite, MeetingProofs!Patched, MeetingProofs!WentLive,
    MeetingProofs!NotedStart, MeetingProofs!EndedAs, MeetingProofs!Archived,
    MeetingProofs!Reopened, MeetingProofs!AllOps, MeetingProofs!States,
    MeetingProofs!DeleteRoom, MeetingProofs!vars
<1>3. MeetingProofs!KeepsEnd => Meeting!KeepsEnd
  BY DEF
    Meeting!KeepsEnd, Meeting!EndedOnPurpose, Meeting!Wrote, MeetingProofs!KeepsEnd,
    MeetingProofs!EndedOnPurpose, MeetingProofs!Wrote
<1>4. MeetingProofs!TypeOK => Meeting!TypeOK
  BY DEF
    Meeting!TypeOK, Meeting!Records, Meeting!States, Meeting!EndedBy, Meeting!Times,
    Meeting!None, Meeting!Hooks, Meeting!Reqs, Meeting!OpNames, Meeting!AllOps, Meeting!Pcs,
    MeetingProofs!TypeOK, MeetingProofs!Records, MeetingProofs!States, MeetingProofs!EndedBy,
    MeetingProofs!Times, MeetingProofs!None, MeetingProofs!Hooks, MeetingProofs!Reqs,
    MeetingProofs!OpNames, MeetingProofs!AllOps, MeetingProofs!Pcs
<1>. QED BY <1>1, <1>2, <1>3, <1>4

\* MeetingRecord's assumptions hold of the instance.
LEMMA MeetingAssumed ==
  ASSUME MeetingInstance
  PROVE  MeetingProofs!RecordAssumption /\ MeetingProofs!LifecycleAssumption
BY DEF MeetingInstance, Meeting!AllOps, Meeting!States, MeetingProofs!RecordAssumption,
  MeetingProofs!LifecycleAssumption, MeetingProofs!AllOps, MeetingProofs!States

----------------------------------------------------------------------------
(* Records: what holds of each protocol alone holds beside the others.     *)

\* Each protocol's own behaviour within Records.
LEMMA RecordsImplements ==
  RecordsSpec => Spec /\ Address!Spec /\ Refund!Spec /\ RuleProofs!Spec /\ MeetingProofs!Spec
<1>1. RecordsInit => /\ Init /\ Address!Init /\ Refund!Init
                     /\ RuleProofs!Init /\ MeetingProofs!Init
  BY RuleSame, MeetingSame DEF RecordsInit
<1>2. [RecordsNext]_recordsVars => [Next]_vars
  BY DEF RecordsNext, recordsVars
<1>3. [RecordsNext]_recordsVars => [Address!Next]_(Address!vars)
  BY DEF RecordsNext, recordsVars, addressVars, Address!vars
<1>4. [RecordsNext]_recordsVars => [Refund!Next]_(Refund!vars)
  BY DEF RecordsNext, recordsVars, refundVars, Refund!vars
<1>5. [RecordsNext]_recordsVars => [RuleProofs!Next]_(RuleProofs!vars)
  <2>1. [RecordsNext]_recordsVars => [OneCall!Next]_ruleVars
    BY DEF RecordsNext, recordsVars
  <2>. QED BY <2>1, RuleSteps
<1>6. [RecordsNext]_recordsVars => [MeetingProofs!Next]_(MeetingProofs!vars)
  <2>1. [RecordsNext]_recordsVars => [Meeting!Next]_meetingVars
    BY DEF RecordsNext, recordsVars
  <2>. QED BY <2>1, MeetingSame
<1>. QED BY <1>1, <1>2, <1>3, <1>4, <1>5, <1>6, PTL
  DEF RecordsSpec, Spec, Address!Spec, Refund!Spec, RuleProofs!Spec, MeetingProofs!Spec

\* Saving a meeting, changing its address and deleting it, in whatever order
\* their reads and writes fall, never lets an address that opens one meeting
\* open another, requests on one slug being kept apart.
THEOREM AddressesAreKept == AddressInstance /\ Apart => (RecordsSpec => AddressKept)
<1>. SUFFICES ASSUME AddressInstance, Apart PROVE RecordsSpec => AddressKept OBVIOUS
<1>1. [Address!KeepsAddresses]_(Address!vars) /\ [RecordsNext]_recordsVars
      => [focus = "address" => Address!KeepsAddresses]_recordsVars
  <2>. SUFFICES ASSUME [Address!KeepsAddresses]_(Address!vars), RecordsNext, focus = "address"
                PROVE  Address!KeepsAddresses \/ UNCHANGED recordsVars
    OBVIOUS
  <2>. QED BY DEF RecordsNext, recordsVars, addressVars, Address!vars
<1>. QED BY <1>1, RecordsImplements, AddressIsKept, PTL
  DEF RecordsSpec, AddressKept, Address!AddressKept

\* A sale's record and Stripe's come to agree, whichever refunds are asked
\* for, fail, or die half-way, and in whatever order Stripe reports them.
THEOREM RecordsSettle == RefundInstance /\ Apart => (RecordsSpec => []RecordSettles)
<1>. SUFFICES ASSUME RefundInstance, Apart PROVE RecordsSpec => []RecordSettles OBVIOUS
<1>1. Refund!RecordSettles => RecordSettles BY DEF RecordSettles
<1>. QED BY <1>1, RecordsImplements, RefundsSettle, PTL

\* A good run of a rule ends its failing and closes its alert, one run at a
\* time.
THEOREM GoodRunsClear == RuleInstance /\ ~Overlap => (RecordsSpec => []GoodRunClears)
<1>. SUFFICES ASSUME RuleInstance, ~Overlap PROVE RecordsSpec => []GoodRunClears OBVIOUS
<1>1. RuleProofs!Instance BY DEF RuleInstance, RuleProofs!Instance
<1>2. RuleProofs!Spec => []RuleProofs!GoodRunClears BY <1>1, RuleProofs!GoodRunsClear
<1>3. RuleProofs!GoodRunClears => GoodRunClears BY RuleSame DEF GoodRunClears
<1>. QED BY <1>2, <1>3, RecordsImplements, PTL

\* A meeting that its host ended stays ended until somebody starts or
\* archives it, its requests being handled one at a time.
THEOREM HostsEndIsKept ==
  MeetingInstance /\ (\A r, s \in Handlers : r = s) => (RecordsSpec => EndedOnPurposeStays)
<1>. SUFFICES ASSUME MeetingInstance, \A r, s \in Handlers : r = s
              PROVE  RecordsSpec => EndedOnPurposeStays
  OBVIOUS
<1>1. MeetingProofs!OneRequest BY DEF MeetingProofs!OneRequest
<1>2. MeetingProofs!Spec => MeetingProofs!EndedOnPurposeStays
  BY <1>1, MeetingAssumed, MeetingProofs!HostsEndStays
<1>3. [MeetingProofs!KeepsEnd]_(MeetingProofs!vars) /\ [RecordsNext]_recordsVars
      => [focus = "meeting" => Meeting!KeepsEnd]_recordsVars
  <2>. SUFFICES ASSUME [MeetingProofs!KeepsEnd]_(MeetingProofs!vars), focus = "meeting"
                PROVE  Meeting!KeepsEnd
    OBVIOUS
  <2>1. CASE MeetingProofs!KeepsEnd BY <2>1, MeetingSame
  <2>2. CASE UNCHANGED MeetingProofs!vars
    BY <2>2 DEF MeetingProofs!vars, Meeting!KeepsEnd, Meeting!EndedOnPurpose
  <2>. QED BY <2>1, <2>2
<1>. QED BY <1>2, <1>3, RecordsImplements, PTL
  DEF RecordsSpec, EndedOnPurposeStays, MeetingProofs!EndedOnPurposeStays

\* Every variable of every protocol keeps its type.
THEOREM TypesCorrect ==
  /\ SessionsInstance /\ AddressInstance /\ RefundInstance /\ Apart
  /\ RuleInstance /\ MeetingInstance
  => (RecordsSpec => []TypesOK)
<1>. SUFFICES ASSUME SessionsInstance, AddressInstance, RefundInstance, Apart,
                     RuleInstance, MeetingInstance
              PROVE  RecordsSpec => []TypesOK
  OBVIOUS
<1>1. RuleProofs!Instance BY DEF RuleInstance, RuleProofs!Instance
<1>2. RuleProofs!Spec => []RuleProofs!TypeOK BY <1>1, RuleProofs!TypeCorrect
<1>3. MeetingProofs!Spec => []MeetingProofs!TypeOK
  BY MeetingAssumed, MeetingProofs!TypeCorrect
<1>4. /\ TypeOK /\ Address!TypeOK /\ Refund!TypeOK
      /\ RuleProofs!TypeOK /\ MeetingProofs!TypeOK
      => TypesOK
  BY RuleSame, MeetingSame DEF TypesOK
<1>. QED BY <1>2, <1>3, <1>4, RecordsImplements, SessionsTypeCorrect, AddressTypeCorrect,
  RefundTypeCorrect, PTL

\* The newest of an account's sessions is not signed out by the rule.
THEOREM RecordsLastStaysIn == SessionsInstance => (RecordsSpec => []NewestStaysIn)
BY RecordsImplements, LastStaysIn, PTL

\* One of an account's sessions is let in once all has settled.
THEOREM RecordsOneIsLeft == SessionsInstance => (RecordsSpec => []OneDevice)
BY RecordsImplements, OneIsLeft, PTL
=============================================================================
