----------------------------- MODULE RingEngine -----------------------------
(***************************************************************************)
(* lib/ringEngine.ts: the calling of one group meeting.  Each person's     *)
(* call is a record in a hash; a round reads all of them, then calls one   *)
(* person after another and writes their record, and at its end queues the *)
(* next.  Rounds come from the job queue (JobQueue), from Start now, from  *)
(* people being added and from Ring again; meanwhile people answer,        *)
(* decline, join and leave.                                                *)
(***************************************************************************)
EXTENDS Integers, FiniteSets

CONSTANTS
  People,        \* who may be invited; whoever made the meeting is not among them
  Early,         \* those invited from the start
  WithDevice,    \* those with a browser registered for alerts
  Busy,          \* those who may be in another meeting
  Rounds,        \* rounds that may be running at once
  MaxAttempts,   \* group.settings.maxAttempts
  MaxAgain,      \* bound: how often Ring again is used
  MaxResponses,  \* bound: how many answers and joins begin
  MaxFailures,   \* bound: how many rounds are cut short
  Overlap        \* whether rounds and responses may overlap

ASSUME RingAssumption ==
  /\ Early \subseteq People /\ WithDevice \subseteq People /\ Busy \subseteq People
  /\ MaxAttempts \in Nat \ {0}
  /\ {MaxAgain, MaxResponses, MaxFailures} \subseteq Nat
  /\ Overlap \in BOOLEAN

VARIABLES
  state,      \* the meeting's: scheduled, live or over
  invited,
  where,      \* each person's presence: in this meeting, in another, nowhere
  calls,      \* the hash: status, attempts, kcSent
  job,        \* whether the meeting's ring job is queued
  round,      \* each round: where it is and what it holds
  response,   \* each person's answer or join in flight
  again, responses, failures,   \* the bounds' counters
  rings,      \* history: rings to each person since they last started over
  messages,   \* history: fallback messages to each person
  settled,    \* history: who has answered, declined or come, and not started over
  stands      \* history: those of them whom no round was about to call by then

vars == <<state, invited, where, calls, job, round, response, again, responses,
          failures, rings, messages, settled, stands>>

Statuses == {"none", "ringing", "answered", "joined", "declined", "missed", "busy"}
Settled(c) == c.status \in {"joined", "answered", "declined"}
Calls == [status : Statuses, attempts : 0 .. MaxAttempts, kc : BOOLEAN]
\* No record, or a blank one.
NoCall == [status |-> "none", attempts |-> 0, kc |-> FALSE]

RoundPcs == {"idle", "again", "begin", "each", "set", "queue"}
\* `only`: whom the round is for; `todo`: those of them left; `read`: their
\* records, as getCalls gave them; `new`: the record about to be written, for
\* the one in `who`; `late`: a late job's round, which rings nobody.
IdleRound == [pc |-> "idle", late |-> FALSE, only |-> {}, todo |-> {},
              read |-> [p \in People |-> NoCall], who |-> {}, new |-> NoCall]
NewRound(S) == [IdleRound EXCEPT !.pc = "begin", !.only = S]
IdleResponse == [pc |-> "idle", new |-> NoCall]

\* A meeting that was scheduled has its first ring queued; one that starts
\* now is rung by the route that made it.
Init ==
  /\ invited = Early
  /\ where = [p \in People |-> "away"]
  /\ calls = [p \in People |-> NoCall]
  /\ response = [p \in People |-> IdleResponse]
  /\ \/ /\ state = "scheduled" /\ job = "queued"
        /\ round = [r \in Rounds |-> IdleRound]
     \/ /\ state = "live" /\ job = "none"
        /\ \E first \in Rounds :
             round = [r \in Rounds |-> IF r = first THEN NewRound(People) ELSE IdleRound]
  /\ again = 0 /\ responses = 0 /\ failures = 0
  /\ rings = [p \in People |-> 0]
  /\ messages = [p \in People |-> 0]
  /\ settled = {} /\ stands = {}

Turns(r, next) == round' = [round EXCEPT ![r] = next]
RoundsIdle == \A r \in Rounds : round[r].pc = "idle"
ResponsesIdle == \A p \in People : response[p].pc = "idle"
MayBegin(r) == round[r].pc = "idle" /\ (Overlap \/ (RoundsIdle /\ ResponsesIdle))

----------------------------------------------------------------------------
(* The meeting and the people.                                             *)

\* The host comes; the meeting ends or is cancelled.
StateMoves ==
  /\ \/ state = "scheduled" /\ state' \in {"live", "over"}
     \/ state = "live" /\ state' = "over"
  /\ UNCHANGED <<invited, where, calls, job, round, response, again, responses,
                 failures, rings, messages, settled, stands>>

\* Into another meeting, out of it, or out of this one.
Moves(p) ==
  /\ response[p].pc = "idle"
  /\ \/ where' = [where EXCEPT ![p] = "away"]
     \/ p \in Busy /\ where' = [where EXCEPT ![p] = "elsewhere"]
  /\ UNCHANGED <<state, invited, calls, job, round, response, again, responses,
                 failures, rings, messages, settled, stands>>

\* Add participants, a new member: into a live meeting they are rung, and
\* only they.
AddPerson(p, r) ==
  /\ p \notin invited /\ state # "over"
  /\ invited' = invited \cup {p}
  /\ IF state = "live"
     THEN MayBegin(r) /\ Turns(r, NewRound({p}))
     ELSE UNCHANGED round
  /\ UNCHANGED <<state, where, calls, job, response, again, responses, failures,
                 rings, messages, settled, stands>>

----------------------------------------------------------------------------
(* Answers and joins: read, and write it all back with a new status.       *)

MayRespond(p) ==
  /\ p \in invited /\ response[p].pc = "idle" /\ responses < MaxResponses
  /\ Overlap \/ RoundsIdle
  /\ responses' = responses + 1

Writes(p, next) ==
  /\ response' = [response EXCEPT ![p] = [pc |-> "write", new |-> next]]
  /\ UNCHANGED <<state, invited, calls, job, round, again, failures, rings,
                 messages, settled, stands>>

\* Mutant: a decline is noted as a missed call.
DeclineMissed(c) == [c EXCEPT !.status = "missed"]
Declined(c) == [c EXCEPT !.status = "declined"]

BeginAnswer(p) ==
  /\ MayRespond(p)
  /\ Writes(p, [calls[p] EXCEPT !.status = IF @ = "joined" THEN @ ELSE "answered"])
  /\ UNCHANGED where

BeginDecline(p) ==
  /\ MayRespond(p)
  /\ Writes(p, Declined(calls[p]))
  /\ UNCHANGED where

\* They are in the room: presence says so, and the recorded join reads the
\* call, if there is one.
BeginJoin(p) ==
  /\ MayRespond(p) /\ state = "live" /\ where[p] # "here"
  /\ where' = [where EXCEPT ![p] = "here"]
  /\ IF calls[p].status = "none"
     THEN UNCHANGED <<state, invited, calls, job, round, response, again,
                      failures, rings, messages, settled, stands>>
     ELSE Writes(p, [calls[p] EXCEPT !.status = "joined"])

\* A round holds an older record of somebody who has settled their call: it
\* read them before, and has still to look at them or to write.
Holds(me, p) ==
  \/ me.pc \in {"each", "set"} /\ p \in me.todo /\ ~Settled(me.read[p])
  \/ p \in me.who /\ ~Settled(me.new)
Unheld(S) == {p \in S : \A r \in Rounds : ~Holds(round[r], p)}

RespondWrite(p) ==
  /\ response[p].pc = "write"
  /\ calls' = [calls EXCEPT ![p] = response[p].new]
  /\ settled' = settled \cup {p}
  /\ stands' = stands \cup Unheld({p})
  /\ response' = [response EXCEPT ![p] = IdleResponse]
  /\ UNCHANGED <<state, invited, where, job, round, again, responses, failures,
                 rings, messages>>

----------------------------------------------------------------------------
(* Rounds.                                                                 *)

\* The tick takes the queued job, in time or more than STALE_RING_MS late.
Claim(r, late) ==
  /\ MayBegin(r) /\ job = "queued"
  /\ job' = "none"
  /\ Turns(r, [NewRound(People) EXCEPT !.late = late])
  /\ UNCHANGED <<state, invited, where, calls, response, again, responses,
                 failures, rings, messages, settled, stands>>

ClaimInTime(r) == Claim(r, FALSE)
ClaimLate(r) == Claim(r, TRUE)

\* Ring again: the route looks at the meeting, ringAgain reads the calls once.
RingAgain(r) ==
  \E S \in SUBSET invited \ {{}} :
    /\ MayBegin(r) /\ state = "live" /\ again < MaxAgain
    /\ again' = again + 1
    /\ Turns(r, [NewRound(S) EXCEPT !.pc = "again", !.todo = S, !.read = calls])
    /\ UNCHANGED <<state, invited, where, calls, job, response, responses,
                   failures, rings, messages, settled, stands>>

StartedOver(c) == [c EXCEPT !.status = "missed", !.attempts = 0]

\* Each of them starts over, unless never rung, or joined and still there,
\* or gone so lately that they count as there.
StartsOver(r) ==
  \E p \in round[r].todo :
    LET c == round[r].read[p]
    IN /\ round[r].pc = "again" /\ c.status # "none"
       /\ ~(c.status = "joined" /\ where[p] = "here")
       /\ calls' = [calls EXCEPT ![p] = StartedOver(c)]
       /\ rings' = [rings EXCEPT ![p] = 0]
       /\ settled' = settled \ {p} /\ stands' = stands \ {p}
       /\ Turns(r, [round[r] EXCEPT !.todo = @ \ {p}])
       /\ UNCHANGED <<state, invited, where, job, response, again, responses,
                      failures, messages>>

StaysAsTheyAre(r) ==
  \E p \in round[r].todo :
    /\ round[r].pc = "again" /\ round[r].read[p].status \in {"none", "joined"}
    /\ Turns(r, [round[r] EXCEPT !.todo = @ \ {p}])
    /\ UNCHANGED <<state, invited, where, calls, job, response, again, responses,
                   failures, rings, messages, settled, stands>>

\* The meeting, who is invited, and all the calls; a late job is for those
\* who are still ringing.
Begin(r) ==
  LET targets == {p \in round[r].only \cap invited : round[r].late => calls[p].status = "ringing"}
  IN /\ round[r].pc \in {"again", "begin"} /\ round[r].todo = {}
     /\ Turns(r, IF state = "over" THEN IdleRound
                 ELSE [IdleRound EXCEPT !.pc = "each", !.late = round[r].late, !.todo = targets,
                                       !.read = [p \in People |-> IF p \in targets THEN calls[p] ELSE NoCall]])
     /\ UNCHANGED <<state, invited, where, calls, job, response, again, responses,
                    failures, rings, messages, settled, stands>>

\* p is next, and their record will be `next`.
Without(me, p) == [me EXCEPT !.todo = @ \ {p}, !.read[p] = NoCall]
WillSet(r, p, next) == Turns(r, [Without(round[r], p) EXCEPT !.pc = "set", !.who = {p}, !.new = next])
NoRing == UNCHANGED <<rings, messages>>

\* Mutant: being rung once more than the group allows.
OneMore(c) == c.attempts > MaxAttempts
Spent(c) == c.attempts >= MaxAttempts

\* Who has come, answered or declined, or been rung as often as allowed.
PassOver(r, p, c) ==
  /\ Settled(c) \/ (where[p] # "here" /\ Spent(c))
  /\ Turns(r, Without(round[r], p))
  /\ NoRing

FindHere(r, p, c) ==
  /\ ~Settled(c) /\ where[p] = "here"
  /\ WillSet(r, p, [c EXCEPT !.status = "joined"])
  /\ NoRing

\* Told quietly; it counts as an attempt.
FindBusy(r, p, c) ==
  /\ ~Settled(c) /\ ~Spent(c) /\ where[p] = "elsewhere"
  /\ WillSet(r, p, [c EXCEPT !.status = "busy", !.attempts = @ + 1])
  /\ NoRing

\* Mutant: without looking whether it has gone out.
FallbackAnyway(c, p) == c.attempts >= 1 \/ p \notin WithDevice
\* c: as it stands before this ring.
FallbackDue(c, p) ==
  ~c.kc /\ ((c.attempts = 0 /\ p \notin WithDevice) \/ (c.attempts >= 1 /\ p \in WithDevice))

\* The ring on their devices, and the fallback when it is due; one that
\* cannot be tried does not count as sent.
Ring(r, p, c) ==
  /\ ~Settled(c) /\ ~Spent(c) /\ where[p] = "away"
  /\ rings' = [rings EXCEPT ![p] = @ + 1]
  /\ \E sent \in {FALSE, FallbackDue(c, p)} :
       /\ messages' = IF sent THEN [messages EXCEPT ![p] = @ + 1] ELSE messages
       /\ WillSet(r, p, [status |-> "ringing", attempts |-> c.attempts + 1, kc |-> c.kc \/ sent])

MarkMissed(r, p, c) ==
  /\ WillSet(r, p, [c EXCEPT !.status = "missed"])
  /\ NoRing

Each(r) ==
  /\ round[r].pc = "each"
  /\ \E p \in round[r].todo :
       LET c == round[r].read[p]
       IN IF round[r].late THEN MarkMissed(r, p, c)
          ELSE PassOver(r, p, c) \/ FindHere(r, p, c) \/ FindBusy(r, p, c) \/ Ring(r, p, c)
  /\ UNCHANGED <<state, invited, where, calls, job, response, again, responses,
                 failures, settled, stands>>

SetCall(r) ==
  /\ round[r].pc = "set"
  /\ calls' = [p \in People |-> IF p \in round[r].who THEN round[r].new ELSE calls[p]]
  /\ IF Settled(round[r].new)
     THEN settled' = settled \cup round[r].who /\ stands' = stands \cup Unheld(round[r].who)
     ELSE UNCHANGED <<settled, stands>>
  /\ Turns(r, [round[r] EXCEPT !.pc = "each", !.who = {}, !.new = NoCall])
  /\ UNCHANGED <<state, invited, where, job, response, again, responses, failures,
                 rings, messages>>

Pending(c) == ~Settled(c) /\ ~Spent(c)

\* Mutant: whoever is being rung has been dealt with.
Unrung == {p \in invited : calls[p].status \in {"none", "missed", "busy"} /\ ~Spent(calls[p])}
ToRing == {p \in invited : Pending(calls[p])}

\* queueNextRound: reads who is invited and the calls again, and queues the
\* next round if somebody can still be rung; the meeting is the copy the
\* round began with, which was not over.
LookForPending(r) ==
  /\ round[r].pc = "each" /\ round[r].todo = {}
  /\ Turns(r, IF ToRing # {} THEN [IdleRound EXCEPT !.pc = "queue"] ELSE IdleRound)
  /\ UNCHANGED <<state, invited, where, calls, job, response, again, responses,
                 failures, rings, messages, settled, stands>>

QueueNext(r) ==
  /\ round[r].pc = "queue"
  /\ job' = "queued"
  /\ Turns(r, IdleRound)
  /\ UNCHANGED <<state, invited, where, calls, response, again, responses,
                 failures, rings, messages, settled, stands>>

\* A call throws or the function is stopped: the job is claimed, and nothing
\* queues another.
Fails(r) ==
  /\ round[r].pc # "idle" /\ failures < MaxFailures
  /\ failures' = failures + 1
  /\ Turns(r, IdleRound)
  /\ UNCHANGED <<state, invited, where, calls, job, response, again, responses,
                 rings, messages, settled, stands>>

----------------------------------------------------------------------------

RoundSteps(r) ==
  \/ StartsOver(r) \/ StaysAsTheyAre(r) \/ Begin(r) \/ Each(r) \/ SetCall(r)
  \/ LookForPending(r) \/ QueueNext(r)

Next ==
  \/ StateMoves
  \/ \E p \in People :
       \/ Moves(p) \/ BeginAnswer(p) \/ BeginDecline(p) \/ BeginJoin(p) \/ RespondWrite(p)
       \/ \E r \in Rounds : AddPerson(p, r)
  \/ \E r \in Rounds :
       ClaimInTime(r) \/ ClaimLate(r) \/ RingAgain(r) \/ RoundSteps(r) \/ Fails(r)

Spec == Init /\ [][Next]_vars

\* Ticks keep coming, and not all of them late; what has begun runs on.
Fairness ==
  /\ SF_vars(\E r \in Rounds : ClaimInTime(r))
  /\ \A r \in Rounds : WF_vars(RoundSteps(r))
  /\ \A p \in People : WF_vars(RespondWrite(p))

FairSpec == Spec /\ Fairness

----------------------------------------------------------------------------
(* Properties.                                                             *)

\* Every variable has its type.
TypeOK ==
  /\ state \in {"scheduled", "live", "over"}
  /\ invited \subseteq People
  /\ where \in [People -> {"here", "elsewhere", "away"}]
  /\ calls \in [People -> Calls]
  /\ job \in {"none", "queued"}
  /\ round \in [Rounds -> [pc : RoundPcs, late : BOOLEAN, only : SUBSET People, todo : SUBSET People,
                           read : [People -> Calls], who : SUBSET People, new : Calls]]
  /\ response \in [People -> [pc : {"idle", "write"}, new : Calls]]
  /\ {again, responses, failures} \subseteq Nat
  /\ rings \in [People -> Nat] /\ messages \in [People -> Nat]
  /\ settled \subseteq People /\ stands \subseteq People

\* The calling goes on by itself: with no round in progress and none ever
\* cut short, whoever has a call that is neither settled nor spent has a
\* next round queued, however rounds, answers and Ring again interleave.
CallingGoesOn ==
  (RoundsIdle /\ failures = 0 /\ state # "over") =>
    ((\E p \in invited : calls[p].status # "none" /\ Pending(calls[p])) => job = "queued")

\* "rung as often as the group allows", and "KingsChat is the fallback, once
\* per person per meeting": since they last started over nobody has been
\* rung more often than the group's maxAttempts or messaged twice, except
\* once for every round cut short before it had written what it did.
WithinMeasure ==
  \A p \in People : rings[p] <= MaxAttempts + failures /\ messages[p] <= 1 + failures

\* Rounds and answers may overlap: whoever answered, declined or came while
\* no round was about to call them is not rung again, by the rounds in
\* progress, by those that follow or by what any of them write; only Ring
\* again rings them after that.
LeftAlone ==
  [][\A p \in People : rings'[p] = rings[p] + 1 => p \notin stands]_vars

\* What respondToRing's comment says of everybody: "A decline ends their rings
\* for this meeting; an answer stops them until the room confirms the join."
\* Not kept when a round that has read their call is about to call them (README).
AnswerStopsRings ==
  [][\A p \in People : rings'[p] = rings[p] + 1 => p \notin settled]_vars

\* Whoever has been called in a live meeting answers, declines, comes or is
\* called as often as the group allows, unless the meeting ends first or a
\* round is cut short.
CalledToTheEnd ==
  \A p \in People :
    (state = "live" /\ p \in invited /\ calls[p].status # "none")
      ~> (~Pending(calls[p]) \/ state = "over" \/ failures > 0)
=============================================================================
