----------------------------- MODULE WaitingRoom -----------------------------
(***************************************************************************)
(* The waiting room of one meeting: the queue and its switch, kept in the  *)
(* meeting's record, and the requests that change them.  (lib/waitingRoom, *)
(* api/waiting-room, api/events/[id]/waiting, the token route's gate and   *)
(* the webhook's reset when the room has emptied.)                         *)
(*                                                                         *)
(* As in MeetingRecord, a handler reads the record to decide, and          *)
(* eventStore.update then reads it again and writes it back whole: three   *)
(* KV steps with other requests between them.                              *)
(*                                                                         *)
(* People are those who have to wait: hosts, moderators and pre-approved   *)
(* people pass every check and never enter the queue.  Times are abstract: *)
(* a refusal is "refused" while it holds and "spent" after its minute, a   *)
(* person's knock key is there or has expired.  When an entry was          *)
(* requested is left out; the update that sets it is not.                  *)
(***************************************************************************)
EXTENDS Integers, FiniteSets

CONSTANTS
  People,       \* who may ask to enter
  Invited,      \* those of them a group meeting invites
  Requests,     \* other requests that may be in flight at once
  Ops,          \* their kinds in this instance
  MaxOps,       \* bound: how many of them are made
  MaxSessions,  \* bound: how often the room opens
  Serial        \* whether requests are made one at a time

AllOps == {"admit", "deny", "on", "off", "enqueue", "edit"}

ASSUME WaitingAssumption ==
  /\ People # {} /\ Invited \subseteq People
  /\ Requests \cap People = {}
  /\ Ops \subseteq AllOps
  /\ MaxOps \in Nat /\ MaxSessions \in Nat
  /\ Serial \in BOOLEAN

VARIABLES
  rec,       \* the stored record: the switch and the queue
  knocking,  \* whose knock key has not expired
  room,      \* whether LiveKit has the room open
  inside,    \* who is in it
  tokens,    \* who holds a token and has not connected yet
  hooks,     \* room_finished calls on their way
  req,       \* each request: what it is doing and the copy it will write
  opsLeft, sessions,  \* the bounds' counters
  letIn,     \* history: who has ever been admitted by a host, or invited
  vouched    \* history: those of them since the room last closed

livekit == <<room, inside, tokens, hooks, sessions>>
vars == <<rec, knocking, livekit, req, opsLeft, letIn, vouched>>

Statuses == {"none", "pending", "admitted", "refused", "spent"}
Records == [on : BOOLEAN, queue : [People -> Statuses]]

OpNames == {"none", "knock", "touch", "invite", "admit", "deny", "on", "off",
            "enqueue", "let_in", "clear", "edit"}
Pcs == {"idle", "last", "reread", "write", "note"}
Slots == People \cup Requests

Empty == [on |-> TRUE, queue |-> [p \in People |-> "none"]]
Request(op, pc, who, prev) == [op |-> op, pc |-> pc, who |-> who, prev |-> prev]
Nobody == CHOOSE p \in People : TRUE
Idle == Request("none", "idle", Nobody, Empty)

Init ==
  /\ rec = Empty
  /\ knocking = {}
  /\ room = FALSE /\ inside = {} /\ tokens = {} /\ hooks = 0 /\ sessions = 0
  /\ req = [s \in Slots |-> Idle]
  /\ opsLeft = MaxOps
  /\ letIn = {}
  /\ vouched = {}

Take(s, op, pc, who, prev) ==
  /\ req[s] = Idle
  /\ Serial => \A t \in Slots : req[t] = Idle
  /\ req' = [req EXCEPT ![s] = Request(op, pc, who, prev)]

Done(s) == req' = [req EXCEPT ![s] = Idle]
Goes(s, pc) == req' = [req EXCEPT ![s].pc = pc]

----------------------------------------------------------------------------
(* A person's knock, from their own client: one at a time.                 *)

\* Mutant: a refusal is never the answer.
NoRefusalHolds(status) == FALSE

\* Mutant: any refusal is still the answer.
AnyRefusalHolds(status) == status \in {"refused", "spent"}

RefusalHolds(status) == status = "refused"

\* What a knock is answered with at once; otherwise it is a new request.
Answered(status) == status \in {"pending", "admitted"} \/ RefusalHolds(status)

\* What the first read of a knock leads to: for those invited, and for those
\* who wait.
KnockInvited(p) ==
  /\ rec.on /\ p \in Invited
  /\ Take(p, "invite", "reread", p, Empty)

KnockNew(p) ==
  /\ rec.on /\ p \notin Invited
  /\ ~Answered(rec.queue[p])
  /\ Take(p, "knock", "reread", p, Empty)

KnockAgain(p) ==
  /\ rec.on /\ p \notin Invited
  /\ Answered(rec.queue[p]) /\ rec.queue[p] = "pending"
  /\ Take(p, "touch", "last", p, Empty)

BeginKnock(p) ==
  /\ p \notin inside \cup tokens
  /\ KnockInvited(p) \/ KnockNew(p) \/ KnockAgain(p)
  /\ UNCHANGED <<rec, knocking, livekit, opsLeft, letIn, vouched>>

\* lastKnocks: someone back after leaving starts a new wait.
ReadLastKnock(p) ==
  /\ req[p].pc = "last"
  /\ Goes(p, IF p \in knocking THEN "note" ELSE "reread")
  /\ UNCHANGED <<rec, knocking, livekit, opsLeft, letIn, vouched>>

\* noteKnock: best effort, so it may also not be recorded.  (Bound: as
\* often as there are requests left.)
NoteKnock(p) ==
  /\ req[p].pc = "note"
  /\ knocking' = knocking \cup {p}
  /\ Done(p)
  /\ UNCHANGED <<rec, livekit, opsLeft, letIn, vouched>>

NoteKnockFails(p) ==
  /\ req[p].pc = "note" /\ opsLeft > 0 /\ opsLeft' = opsLeft - 1
  /\ Done(p)
  /\ UNCHANGED <<rec, knocking, livekit, letIn, vouched>>

\* Thirty seconds without a knock; a minute since a refusal, in the record
\* and in every copy of it.
KnockExpires(p) ==
  /\ p \in knocking
  /\ knocking' = knocking \ {p}
  /\ UNCHANGED <<rec, livekit, req, opsLeft, letIn, vouched>>

Spent(r, p) == IF r.queue[p] = "refused" THEN [r EXCEPT !.queue[p] = "spent"] ELSE r

RefusalSpent(p) ==
  /\ rec.queue[p] = "refused"
  /\ rec' = Spent(rec, p)
  /\ req' = [s \in Slots |-> [req[s] EXCEPT !.prev = Spent(@, p)]]
  /\ UNCHANGED <<knocking, livekit, opsLeft, letIn, vouched>>

----------------------------------------------------------------------------
(* The other requests.  What each decides on its first read is in Begin.   *)

Asked(r, op) ==
  /\ op \in Ops
  /\ opsLeft > 0 /\ opsLeft' = opsLeft - 1
  /\ UNCHANGED <<rec, knocking, livekit, letIn, vouched>>

\* A host's answer.  api/waiting-room looks for the entry first, the
\* dashboard's route does not; who has none is left as they are.
BeginDecide(r) ==
  \E op \in {"admit", "deny"}, p \in People :
    Asked(r, op) /\ Take(r, op, "reread", p, Empty)

BeginSet(r) ==
  \E op \in {"on", "off"} : Asked(r, op) /\ Take(r, op, "reread", Nobody, Empty)

\* PUT events/[id]/waiting: puts the caller in the queue, or, when its first
\* read finds the waiting room off, past it.
BeginEnqueue(r) ==
  \E p \in People :
    /\ Asked(r, "enqueue")
    /\ Take(r, IF rec.on THEN "enqueue" ELSE "let_in", "reread", p, Empty)

\* Any other handler that saves the record: it writes the queue back as its
\* update read it.
BeginEdit(r) == Asked(r, "edit") /\ Take(r, "edit", "reread", Nobody, Empty)

\* Mutant: the refusals go, the admissions stay.
ClearedOfRefusals(r) ==
  [r EXCEPT !.queue = [p \in People |-> IF r.queue[p] \in {"pending", "admitted"} THEN r.queue[p] ELSE "none"]]

\* Mutant: no queue at all.
ClearedAway(r) == [r EXCEPT !.queue = <<>>]

\* clearedForNewSession: only those still waiting stay in the queue.
Cleared(r) ==
  [r EXCEPT !.queue = [p \in People |-> IF r.queue[p] = "pending" THEN "pending" ELSE "none"]]

\* room_finished: skipped when there is nothing to clear.
ReceiveRoomFinished(r) ==
  /\ hooks > 0 /\ hooks' = hooks - 1
  /\ IF Cleared(rec) = rec
     THEN req[r] = Idle /\ UNCHANGED req
     ELSE Take(r, "clear", "reread", Nobody, Empty)
  /\ UNCHANGED <<rec, knocking, room, inside, tokens, sessions, opsLeft, letIn, vouched>>

----------------------------------------------------------------------------
(* eventStore.update.                                                      *)

UpdateRead(s) ==
  /\ req[s].pc = "reread"
  /\ req' = [req EXCEPT ![s].prev = rec, ![s].pc = "write"]
  /\ UNCHANGED <<rec, knocking, livekit, opsLeft, letIn, vouched>>

\* Mutant: decides about whoever is in the queue.
PatchedForAll(r, op, p) ==
  LET to(status) == [r EXCEPT !.queue = [q \in People |-> IF r.queue[q] = "none" THEN "none" ELSE status]]
  IN CASE op = "admit" -> to("admitted")
       [] op = "deny" -> to("refused")
       [] op \in {"knock", "enqueue"} -> [r EXCEPT !.queue[p] = "pending"]
       [] op \in {"invite", "let_in"} -> [r EXCEPT !.queue[p] = "admitted"]
       [] OTHER -> r

\* What each handler's patch makes of the copy; a touch or an edit leaves
\* all this as it is.
Patched(r, op, p) ==
  LET decided(status) == IF r.queue[p] = "none" THEN r ELSE [r EXCEPT !.queue[p] = status]
  IN CASE op = "admit" -> decided("admitted")
       [] op = "deny" -> decided("refused")
       [] op \in {"knock", "enqueue"} -> [r EXCEPT !.queue[p] = "pending"]
       [] op \in {"invite", "let_in"} -> [r EXCEPT !.queue[p] = "admitted"]
       [] op \in {"on", "off"} -> [r EXCEPT !.on = (op = "on")]
       [] op = "clear" -> Cleared(r)
       [] OTHER -> r

UpdateWrite(s) ==
  LET op == req[s].op
      p == req[s].who
      admits == \/ op \in {"invite", "let_in"}
                \/ op = "admit" /\ req[s].prev.queue[p] # "none"
  IN /\ req[s].pc = "write"
     /\ rec' = Patched(req[s].prev, op, p)
     /\ req' = [req EXCEPT ![s] = IF op \in {"knock", "touch"} THEN Request(op, "note", p, Empty) ELSE Idle]
     /\ letIn' = IF admits THEN letIn \cup {p} ELSE letIn
     /\ vouched' = IF admits THEN vouched \cup {p} ELSE IF op = "deny" THEN vouched \ {p} ELSE vouched
     /\ UNCHANGED <<knocking, livekit, opsLeft>>

----------------------------------------------------------------------------
(* Getting in.                                                             *)

PassesGate(status) == status = "admitted"

Issue(p) ==
  /\ p \notin inside \cup tokens
  /\ tokens' = tokens \cup {p}
  /\ UNCHANGED <<rec, knocking, room, inside, hooks, sessions, req, opsLeft, letIn, vouched>>

\* GET livekit/token asks the waiting room when the client names the meeting
\* (?event=); its other gates are left out.
GetToken(p) ==
  /\ ~rec.on \/ PassesGate(rec.queue[p])
  /\ Issue(p)

\* It issues the token all the same when the client names no meeting, or
\* when asking fails.
GetTokenUnasked(p) == Issue(p)

Connect(p) ==
  /\ p \in tokens
  /\ room \/ sessions < MaxSessions
  /\ room' = TRUE
  /\ sessions' = IF room THEN sessions ELSE sessions + 1
  /\ tokens' = tokens \ {p}
  /\ inside' = inside \cup {p}
  /\ UNCHANGED <<rec, knocking, hooks, req, opsLeft, letIn, vouched>>

\* A connection ends or drops.
Leave(p) ==
  /\ p \in inside
  /\ inside' = inside \ {p}
  /\ UNCHANGED <<rec, knocking, room, tokens, hooks, sessions, req, opsLeft, letIn, vouched>>

RoomCloses ==
  /\ room /\ inside = {}
  /\ room' = FALSE
  /\ hooks' = hooks + 1
  /\ vouched' = {}
  /\ UNCHANGED <<rec, knocking, inside, tokens, sessions, req, opsLeft, letIn>>

----------------------------------------------------------------------------
KnockSteps(p) == ReadLastKnock(p) \/ NoteKnock(p)
UpdateSteps(s) == UpdateRead(s) \/ UpdateWrite(s)

Next ==
  \/ \E p \in People :
       \/ BeginKnock(p) \/ KnockSteps(p) \/ NoteKnockFails(p) \/ KnockExpires(p) \/ RefusalSpent(p)
       \/ GetToken(p) \/ GetTokenUnasked(p) \/ Connect(p) \/ Leave(p)
  \/ \E r \in Requests :
       \/ BeginDecide(r) \/ BeginSet(r) \/ BeginEnqueue(r) \/ BeginEdit(r) \/ ReceiveRoomFinished(r)
  \/ \E s \in Slots : UpdateSteps(s)
  \/ RoomCloses

Spec == Init /\ [][Next]_vars

\* Requests run on, time passes, and a client knocks for as long as its
\* person waits.
Fairness ==
  /\ \A p \in People : WF_vars(BeginKnock(p)) /\ WF_vars(KnockSteps(p)) /\ WF_vars(RefusalSpent(p))
  /\ \A s \in Slots : WF_vars(UpdateSteps(s))

FairSpec == Spec /\ Fairness

----------------------------------------------------------------------------
(* Properties.                                                             *)

\* Every variable has its type.
TypeOK ==
  /\ rec \in Records
  /\ knocking \subseteq People /\ inside \subseteq People /\ tokens \subseteq People
  /\ room \in BOOLEAN /\ hooks \in 0..MaxSessions /\ sessions \in 0..MaxSessions
  /\ req \in [Slots -> [op : OpNames, pc : Pcs, who : People, prev : Records]]
  /\ opsLeft \in 0..MaxOps
  /\ letIn \subseteq People /\ vouched \subseteq People

Admitted(p) == rec.queue[p] = "admitted"

\* Nobody is past the waiting room whom no host has admitted and no group
\* has invited, whatever stale copies of the queue are written back.
OnlyHostsAdmit == \A p \in People : Admitted(p) => p \in letIn

\* Someone who keeps knocking is heard: again and again, in the host's list
\* or past it, and never refused for good.
Listed(p) == rec.queue[p] = "pending" /\ p \in knocking
AskersAreHeard ==
  \A p \in People : []<>(~rec.on \/ Listed(p) \/ Admitted(p) \/ p \in inside \cup tokens)

\* What a host answered stands: who is admitted stays admitted until a host
\* refuses them or the room's end is handled, and a refusal is the answer
\* for its minute unless a host changes their mind about them or the room's
\* end is handled.
Writing(op, p) ==
  \E s \in Slots : /\ req[s].pc = "write" /\ req'[s] # req[s] /\ req[s].op = op
                   /\ op = "clear" \/ req[s].who = p
AnswerKept(p) ==
  /\ Admitted(p) => Admitted(p)' \/ Writing("deny", p) \/ Writing("clear", p)
  /\ rec.queue[p] = "refused"
       => rec'.queue[p] \in {"refused", "spent"} \/ Writing("admit", p) \/ Writing("clear", p)
KeepsAnswers == \A p \in People : AnswerKept(p)
AnswersStand == [][KeepsAnswers]_vars

\* An admission lasts for one session: once the end of the last one has been
\* handled, only those admitted since it are admitted.
AdmissionEnds ==
  hooks = 0 /\ (\A s \in Slots : req[s].op # "clear") => \A p \in People : Admitted(p) => p \in vouched

\* What waitingRoom.ts says of an admission: it lasts until the room empties
\* and closes, so nobody a host has let in since it last did is sent back to
\* the queue.  Not kept when room_finished comes late (README).
NotSentBack == \A p \in vouched : Admitted(p)
=============================================================================
