----------------------------- MODULE JoinCodes -----------------------------
(***************************************************************************)
(* lib/participantCodes.ts, lib/joinLock.ts and api/video/join: one join   *)
(* code of a video room.  A device claims it to send its camera on the     *)
(* code's slot; a claim whose slot is not live on the media server can be  *)
(* taken over; each joined page keeps asking whether it may stay.          *)
(* Left out: the limit on attempts, the expiry of claims after 12 hours.   *)
(***************************************************************************)
EXTENDS Integers, FiniteSets

CONSTANTS
  Devices,
  MaxJoins,     \* bound: how many joins begin
  MaxStaff,     \* bound: how often staff sign out, release, lock
  MaxDrops      \* bound: how often a camera's connection drops

VARIABLES
  holder,   \* the claim: a device, or "none"
  mark,     \* when the code was last signed out; 0: never
  locked,   \* the join page's lock
  page,     \* each device's page: its request, its camera, its session's time
  staff,    \* a sign-out in flight
  now, joins, acts, drops,   \* time and the bounds' counters
  signedOut  \* history: who had joined when the code was signed out, and is still there

vars == <<holder, mark, locked, page, staff, now, joins, acts, drops, signedOut>>

Pcs == {"idle", "lock", "claim", "holder", "free", "live", "take", "session", "leave", "check"}
NewPage == [pc |-> "idle", camera |-> "off", at |-> 0]

Init ==
  /\ holder = "none" /\ mark = 0 /\ locked = FALSE
  /\ page = [d \in Devices |-> NewPage]
  /\ staff = "idle"
  /\ now = 1 /\ joins = 0 /\ acts = 0 /\ drops = 0
  /\ signedOut = {}

Goes(d, next) == page' = [page EXCEPT ![d] = next]
OnAir == {d \in Devices : page[d].camera = "on"}
Joined(d) == page[d].at > 0

----------------------------------------------------------------------------
(* Joining.                                                                *)

EnterCode(d) ==
  /\ page[d].pc = "idle" /\ ~Joined(d) /\ joins < MaxJoins
  /\ joins' = joins + 1
  /\ Goes(d, [page[d] EXCEPT !.pc = IF locked THEN "lock" ELSE "claim"])
  /\ UNCHANGED <<holder, mark, locked, staff, now, acts, drops, signedOut>>

\* The page is locked: only whoever holds the code goes on.
LockedOut(d) ==
  /\ page[d].pc = "lock"
  /\ Goes(d, [page[d] EXCEPT !.pc = IF holder = d THEN "claim" ELSE "idle"])
  /\ UNCHANGED <<holder, mark, locked, staff, now, joins, acts, drops, signedOut>>

\* The code is looked up, and claimed with SET NX.
Claim(d) ==
  /\ page[d].pc = "claim"
  /\ IF holder = "none"
     THEN holder' = d /\ Goes(d, [page[d] EXCEPT !.pc = "session"])
     ELSE UNCHANGED holder /\ Goes(d, [page[d] EXCEPT !.pc = "holder"])
  /\ UNCHANGED <<mark, locked, staff, now, joins, acts, drops, signedOut>>

ReadHolder(d) ==
  /\ page[d].pc = "holder"
  /\ Goes(d, [page[d] EXCEPT !.pc = CASE holder = d -> "session"
                                      [] holder = "none" -> "take"
                                      [] OTHER -> "live"])
  /\ UNCHANGED <<holder, mark, locked, staff, now, joins, acts, drops, signedOut>>

SlotIsLive == OnAir # {}

\* The media server is asked; one that does not answer counts as live.
AskWhetherLive(d) ==
  /\ page[d].pc = "live"
  /\ \/ Goes(d, [page[d] EXCEPT !.pc = IF SlotIsLive THEN "idle" ELSE "take"])
     \/ Goes(d, [page[d] EXCEPT !.pc = "idle"])
  /\ UNCHANGED <<holder, mark, locked, staff, now, joins, acts, drops, signedOut>>

\* A plain set: whoever holds it by now.
TakeOver(d) ==
  /\ page[d].pc = "take"
  /\ holder' = d
  /\ Goes(d, [page[d] EXCEPT !.pc = "session"])
  /\ UNCHANGED <<mark, locked, staff, now, joins, acts, drops, signedOut>>

\* The join session, and the page's camera.
StartSession(d) ==
  /\ page[d].pc = "session"
  /\ Goes(d, [page[d] EXCEPT !.pc = "idle", !.camera = "on", !.at = now])
  /\ UNCHANGED <<holder, mark, locked, staff, now, joins, acts, drops, signedOut>>

----------------------------------------------------------------------------
(* A joined page.                                                          *)

\* Its connection drops, or its camera was stopped at the server; it
\* reconnects by itself.
Drops(d) ==
  /\ page[d].camera = "on" /\ drops < MaxDrops
  /\ drops' = drops + 1
  /\ Goes(d, [page[d] EXCEPT !.camera = "dropped"])
  /\ UNCHANGED <<holder, mark, locked, staff, now, joins, acts, signedOut>>

Reconnects(d) ==
  /\ page[d].camera = "dropped"
  /\ Goes(d, [page[d] EXCEPT !.camera = "on"])
  /\ UNCHANGED <<holder, mark, locked, staff, now, joins, acts, drops, signedOut>>

Leave(d) ==
  /\ Joined(d) /\ page[d].pc = "idle"
  /\ Goes(d, [NewPage EXCEPT !.pc = "leave"])
  /\ signedOut' = signedOut \ {d}
  /\ UNCHANGED <<holder, mark, locked, staff, now, joins, acts, drops>>

\* releaseCode: whoever holds it.
ReleaseOnLeaving(d) ==
  /\ page[d].pc = "leave"
  /\ holder' = "none"
  /\ Goes(d, NewPage)
  /\ UNCHANGED <<mark, locked, staff, now, joins, acts, drops, signedOut>>

\* checkJoinSession: first the sign-out mark, then the holder.
Check(d) ==
  /\ Joined(d) /\ page[d].pc = "idle"
  /\ Goes(d, IF mark >= page[d].at THEN NewPage ELSE [page[d] EXCEPT !.pc = "check"])
  /\ signedOut' = IF mark >= page[d].at THEN signedOut \ {d} ELSE signedOut
  /\ UNCHANGED <<holder, mark, locked, staff, now, joins, acts, drops>>

\* Mutant: a page stays until it is signed out.
NeverElsewhere(d) == FALSE
Elsewhere(d) == holder \notin {d, "none"}

CheckHolder(d) ==
  /\ page[d].pc = "check"
  /\ Goes(d, IF Elsewhere(d) THEN NewPage ELSE [page[d] EXCEPT !.pc = "idle"])
  /\ signedOut' = IF Elsewhere(d) THEN signedOut \ {d} ELSE signedOut
  /\ UNCHANGED <<holder, mark, locked, staff, now, joins, acts, drops>>

----------------------------------------------------------------------------
(* Staff.                                                                  *)

Acts == acts < MaxStaff /\ acts' = acts + 1

\* Mutant: the pages are not told.
NoMark == mark
SignOutMark == now

\* Signed out: marked, and then freed.
SignOut ==
  /\ staff = "idle" /\ Acts
  /\ mark' = SignOutMark
  /\ staff' = "release"
  /\ signedOut' = {d \in Devices : Joined(d)}
  /\ UNCHANGED <<holder, locked, page, now, joins, drops>>

ReleaseSignedOut ==
  /\ staff = "release"
  /\ holder' = "none"
  /\ staff' = "idle"
  /\ UNCHANGED <<mark, locked, page, now, joins, acts, drops, signedOut>>

Release ==
  /\ Acts
  /\ holder' = "none"
  /\ UNCHANGED <<mark, locked, page, staff, now, joins, drops, signedOut>>

Lock ==
  /\ Acts
  /\ locked' = ~locked
  /\ UNCHANGED <<holder, mark, page, staff, now, joins, drops, signedOut>>

\* Time passes between a sign-out and the next join.
TimePasses ==
  /\ now = mark
  /\ now' = now + 1
  /\ UNCHANGED <<holder, mark, locked, page, staff, joins, acts, drops, signedOut>>

----------------------------------------------------------------------------

JoinSteps(d) ==
  \/ LockedOut(d) \/ Claim(d) \/ ReadHolder(d) \/ AskWhetherLive(d) \/ TakeOver(d) \/ StartSession(d)
PageSteps(d) == Check(d) \/ CheckHolder(d) \/ ReleaseOnLeaving(d)

Next ==
  \/ SignOut \/ ReleaseSignedOut \/ Release \/ Lock \/ TimePasses
  \/ \E d \in Devices :
       \/ EnterCode(d) \/ JoinSteps(d) \/ PageSteps(d)
       \/ Drops(d) \/ Reconnects(d) \/ Leave(d)

Spec == Init /\ [][Next]_vars

\* Requests run on, and a joined page asks every ten seconds.
Fairness ==
  /\ WF_vars(ReleaseSignedOut) /\ WF_vars(TimePasses)
  /\ \A d \in Devices : WF_vars(JoinSteps(d)) /\ WF_vars(PageSteps(d))

FairSpec == Spec /\ Fairness

----------------------------------------------------------------------------
(* Properties.                                                             *)

\* Every variable has its type.
TypeOK ==
  /\ holder \in Devices \cup {"none"}
  /\ mark \in Nat /\ locked \in BOOLEAN
  /\ page \in [Devices -> [pc : Pcs, camera : {"off", "on", "dropped"}, at : Nat]]
  /\ staff \in {"idle", "release"}
  /\ {now, joins, acts, drops} \subseteq Nat
  /\ signedOut \subseteq Devices

\* "two people pasting the same code must not both go live": two devices may
\* both be told that they have the code, but while somebody holds it they do
\* not both keep it.  (A code that is free stops nobody.)
SettlesOnOneCamera ==
  <>[](holder # "none" => Cardinality({d \in Devices : page[d].camera # "off"}) <= 1)

\* A sign-out reaches every page that had joined, also while others join.
SignedOutStops == \A d \in Devices : d \in signedOut ~> d \notin signedOut
=============================================================================
