------------------------- MODULE WaitingRoom_proofs -------------------------
(***************************************************************************)
(* Nobody is past the waiting room without having been let in, however     *)
(* many requests overlap: the argument is that every copy of the record    *)
(* a request holds admits only people who have been let in, too.           *)
(***************************************************************************)
EXTENDS WaitingRoom, TLAPS

Reqs == [op : OpNames, pc : Pcs, who : People, prev : Records]

\* A copy of the record admits only people who have been let in.
Vetted(r) == \A p \in People : r.queue[p] = "admitted" => p \in letIn

\* The inductive invariant: the types it needs, and that the record and
\* every copy of it are vetted.
AllVetted ==
  /\ rec \in Records
  /\ req \in [Slots -> Reqs]
  /\ Vetted(rec)
  /\ \A s \in Slots : Vetted(req[s].prev)

LEMMA EmptyRecord == Empty \in Records /\ \A p \in People : Empty.queue[p] = "none"
BY DEF Empty, Records, Statuses

LEMMA RequestType ==
  ASSUME NEW op \in OpNames, NEW pc \in Pcs, NEW p \in People, NEW r \in Records
  PROVE  /\ Request(op, pc, p, r) \in Reqs /\ Request(op, pc, p, r).prev = r
         /\ Idle \in Reqs /\ Idle.prev = Empty /\ Nobody \in People
<1>1. Nobody \in People
  BY WaitingAssumption DEF Nobody
<1> QED
  BY <1>1, EmptyRecord DEF Request, Reqs, Idle, OpNames, Pcs

LEMMA InitVetted == Init => AllVetted
<1> SUFFICES ASSUME Init PROVE AllVetted OBVIOUS
<1>1. Idle \in Reqs /\ Idle.prev = Empty
  BY WaitingAssumption, EmptyRecord DEF Idle, Request, Reqs, OpNames, Pcs, Nobody
<1> QED
  BY <1>1, EmptyRecord DEF Init, AllVetted, Vetted

\* A step that leaves the record and replaces one request by one whose copy
\* is vetted.
LEMMA OneRequest ==
  ASSUME AllVetted, UNCHANGED <<rec, letIn>>, NEW s \in Slots, NEW q \in Reqs,
         Vetted(q.prev), req' = [req EXCEPT ![s] = q]
  PROVE  AllVetted'
<1>1. req' \in [Slots -> Reqs] /\ \A t \in Slots : req'[t] = req[t] \/ req'[t] = q
  BY DEF AllVetted
<1>2. (\A t \in Slots : Vetted(req[t].prev))'
  BY <1>1 DEF AllVetted, Vetted
<1> QED
  BY <1>1, <1>2 DEF AllVetted, Vetted

LEMMA TakeVetted ==
  ASSUME AllVetted, UNCHANGED <<rec, letIn>>, NEW s \in Slots, NEW op \in OpNames, NEW pc \in Pcs,
         NEW p \in People, Take(s, op, pc, p, Empty)
  PROVE  AllVetted'
<1> DEFINE q == Request(op, pc, p, Empty)
<1>1. q \in Reqs /\ q.prev = Empty
  BY EmptyRecord, RequestType
<1>2. Vetted(q.prev)
  BY <1>1, EmptyRecord DEF Vetted
<1> QED
  BY <1>1, <1>2, OneRequest DEF Take

LEMMA DoneVetted ==
  ASSUME AllVetted, UNCHANGED <<rec, letIn>>, NEW s \in Slots, NEW pc \in Pcs, Goes(s, pc) \/ Done(s)
  PROVE  AllVetted'
<1>1. Idle \in Reqs /\ Vetted(Idle.prev)
  BY WaitingAssumption, EmptyRecord DEF Idle, Request, Reqs, OpNames, Pcs, Nobody, Vetted
<1>2. CASE Done(s)
  BY <1>1, <1>2, OneRequest DEF Done
<1>3. CASE Goes(s, pc)
  <2> DEFINE q == [req[s] EXCEPT !.pc = pc]
  <2>1. q \in Reqs /\ q.prev = req[s].prev
    BY DEF AllVetted, Reqs
  <2>2. Vetted(q.prev)
    BY <2>1 DEF AllVetted
  <2> QED
    BY <1>3, <2>1, <2>2, OneRequest DEF Goes
<1> QED
  BY <1>2, <1>3

----------------------------------------------------------------------------
(* What a patch may do to a copy.                                          *)

Admits(r, op, p) == op \in {"invite", "let_in"} \/ (op = "admit" /\ r.queue[p] # "none")

LEMMA SetStatus ==
  ASSUME NEW r \in Records, NEW p \in People, NEW status \in Statuses
  PROVE  /\ [r EXCEPT !.queue[p] = status] \in Records
         /\ [r EXCEPT !.queue[p] = status].queue[p] = status
         /\ \A q \in People \ {p} : [r EXCEPT !.queue[p] = status].queue[q] = r.queue[q]
BY DEF Records

LEMMA PatchedAdmits ==
  ASSUME NEW r \in Records, NEW p \in People, NEW op \in OpNames
  PROVE  /\ Patched(r, op, p) \in Records
         /\ \A q \in People : Patched(r, op, p).queue[q] = "admitted"
              => r.queue[q] = "admitted" \/ (q = p /\ Admits(r, op, p))
<1> DEFINE set(status) == [r EXCEPT !.queue[p] = status]
<1>1. "pending" \in Statuses /\ "admitted" \in Statuses /\ "refused" \in Statuses /\ "none" \in Statuses
  BY DEF Statuses
<1>2. CASE op = "admit"
  <2>1. Patched(r, op, p) = IF r.queue[p] = "none" THEN r ELSE set("admitted")
    BY <1>2 DEF Patched
  <2>2. CASE r.queue[p] = "none"
    BY <2>1, <2>2
  <2>3. CASE r.queue[p] # "none"
    <3>1. Patched(r, op, p) = set("admitted") /\ Admits(r, op, p)
      BY <1>2, <2>1, <2>3 DEF Admits
    <3> QED
      BY <1>1, <3>1, SetStatus
  <2> QED
    BY <2>2, <2>3
<1>3. CASE op = "deny"
  <2>1. Patched(r, op, p) = IF r.queue[p] = "none" THEN r ELSE set("refused")
    BY <1>3 DEF Patched
  <2> QED
    BY <1>1, <2>1, SetStatus
<1>4. CASE op \in {"knock", "enqueue"}
  <2>1. Patched(r, op, p) = set("pending")
    BY <1>4 DEF Patched
  <2> QED
    BY <1>1, <2>1, SetStatus
<1>5. CASE op \in {"invite", "let_in"}
  <2>1. Patched(r, op, p) = set("admitted")
    BY <1>5 DEF Patched
  <2> QED
    BY <1>1, <1>5, <2>1, SetStatus DEF Admits
<1>6. CASE op \in {"on", "off"}
  <2>1. Patched(r, op, p) = [r EXCEPT !.on = (op = "on")]
    BY <1>6 DEF Patched
  <2> QED
    BY <2>1 DEF Records
<1>7. CASE op = "clear"
  <2>1. Patched(r, op, p) = Cleared(r)
    BY <1>7 DEF Patched
  <2> QED
    BY <1>1, <2>1 DEF Cleared, Records
<1>8. CASE op \in {"none", "touch", "edit"}
  BY <1>8 DEF Patched
<1> QED
  BY <1>2, <1>3, <1>4, <1>5, <1>6, <1>7, <1>8 DEF OpNames

LEMMA SpentAdmits ==
  ASSUME NEW r \in Records, NEW p \in People
  PROVE  Spent(r, p) \in Records /\ \A q \in People : Spent(r, p).queue[q] = "admitted" => r.queue[q] = "admitted"
<1>1. "spent" \in Statuses
  BY DEF Statuses
<1> QED
  BY <1>1, SetStatus DEF Spent

----------------------------------------------------------------------------
(* The steps.                                                              *)

LEMMA UpdateReadVetted ==
  ASSUME AllVetted, NEW s \in Slots, UpdateRead(s)
  PROVE  AllVetted'
<1> DEFINE q == [req[s] EXCEPT !.prev = rec, !.pc = "write"]
<1>1. q \in Reqs /\ q.prev = rec
  BY DEF AllVetted, Reqs, Pcs
<1>2. req' = [req EXCEPT ![s] = q]
  BY DEF UpdateRead, AllVetted
<1>3. Vetted(q.prev) /\ UNCHANGED <<rec, letIn>>
  BY <1>1 DEF UpdateRead, AllVetted
<1> HIDE DEF q
<1> QED
  BY <1>1, <1>2, <1>3, OneRequest

LEMMA UpdateWriteVetted ==
  ASSUME AllVetted, NEW s \in Slots, UpdateWrite(s)
  PROVE  AllVetted'
<1> DEFINE op == req[s].op
           p == req[s].who
           r == req[s].prev
<1>1. op \in OpNames /\ p \in People /\ r \in Records /\ Vetted(r)
  BY DEF AllVetted, Reqs
<1> DEFINE next == IF op \in {"knock", "touch"} THEN Request(op, "note", p, Empty) ELSE Idle
<1>2. rec' = Patched(r, op, p) /\ req' = [req EXCEPT ![s] = next]
      /\ letIn' = IF Admits(r, op, p) THEN letIn \cup {p} ELSE letIn
  BY DEF UpdateWrite, Admits
<1>3. letIn \subseteq letIn' /\ (Admits(r, op, p) => p \in letIn')
  BY <1>2
<1>4. rec' \in Records /\ \A q \in People : rec'.queue[q] = "admitted" => q \in letIn'
  BY <1>1, <1>2, <1>3, PatchedAdmits DEF Vetted
<1>5. Idle \in Reqs /\ \A q \in People : Idle.prev.queue[q] # "admitted"
  BY WaitingAssumption, EmptyRecord DEF Idle, Request, Reqs, OpNames, Pcs, Nobody
<1>6. next \in Reqs /\ next.prev = Idle.prev
  BY <1>1, <1>5, EmptyRecord DEF Idle, Request, Reqs, Pcs
<1> HIDE DEF next
<1>7. req' \in [Slots -> Reqs]
  BY <1>2, <1>6 DEF AllVetted
<1>8. \A t \in Slots : req'[t].prev = req[t].prev \/ req'[t].prev = Idle.prev
  BY <1>2, <1>6 DEF AllVetted
<1>9. (\A t \in Slots : Vetted(req[t].prev))'
  BY <1>3, <1>5, <1>8 DEF AllVetted, Vetted
<1>10. Vetted(rec)'
  BY <1>4 DEF Vetted
<1> QED
  BY <1>4, <1>7, <1>9, <1>10 DEF AllVetted

LEMMA RefusalSpentVetted ==
  ASSUME AllVetted, NEW p \in People, RefusalSpent(p)
  PROVE  AllVetted'
<1> DEFINE q(s) == [req[s] EXCEPT !.prev = Spent(@, p)]
<1>1. \A s \in Slots : req[s] \in Reqs /\ req[s].prev \in Records /\ Vetted(req[s].prev)
  BY DEF AllVetted, Reqs
<1>2. \A s \in Slots : q(s) \in Reqs /\ q(s).prev = Spent(req[s].prev, p)
  BY <1>1, SpentAdmits DEF Reqs
<1>3. req' = [s \in Slots |-> q(s)] /\ rec' = Spent(rec, p) /\ letIn' = letIn
  BY DEF RefusalSpent
<1> HIDE DEF q
<1>4. req' \in [Slots -> Reqs] /\ \A s \in Slots : req'[s].prev = Spent(req[s].prev, p)
  BY <1>2, <1>3
<1>5. (\A s \in Slots : Vetted(req[s].prev))'
  BY <1>1, <1>3, <1>4, SpentAdmits DEF Vetted
<1>6. rec' \in Records /\ Vetted(rec)'
  BY <1>3, SpentAdmits DEF AllVetted, Vetted
<1> QED
  BY <1>4, <1>5, <1>6 DEF AllVetted

LEMMA NextVetted == AllVetted /\ [Next]_vars => AllVetted'
<1> SUFFICES ASSUME AllVetted, [Next]_vars PROVE AllVetted' OBVIOUS
<1>1. Nobody \in People
  BY WaitingAssumption DEF Nobody
<1>2. ASSUME UNCHANGED <<rec, req, letIn>> PROVE AllVetted'
  BY <1>2 DEF AllVetted, Vetted
<1>3. ASSUME NEW p \in People, BeginKnock(p) PROVE AllVetted'
  BY <1>3, TakeVetted DEF BeginKnock, KnockInvited, KnockNew, KnockAgain, Slots, OpNames, Pcs
<1>4. ASSUME NEW p \in People, KnockSteps(p) \/ NoteKnockFails(p) PROVE AllVetted'
  BY <1>4, DoneVetted DEF KnockSteps, ReadLastKnock, NoteKnock, NoteKnockFails, Slots, Pcs
<1>5. ASSUME NEW p \in People, KnockExpires(p) \/ GetToken(p) \/ GetTokenUnasked(p) \/ Connect(p) \/ Leave(p)
      PROVE  AllVetted'
  BY <1>2, <1>5 DEF KnockExpires, GetToken, GetTokenUnasked, Issue, Connect, Leave
<1>6. ASSUME NEW r \in Requests, BeginDecide(r) PROVE AllVetted'
  BY <1>6, TakeVetted DEF BeginDecide, Asked, Slots, OpNames, Pcs
<1>7. ASSUME NEW r \in Requests, BeginSet(r) PROVE AllVetted'
  BY <1>1, <1>7, TakeVetted DEF BeginSet, Asked, Slots, OpNames, Pcs
<1>8. ASSUME NEW r \in Requests, BeginEnqueue(r) PROVE AllVetted'
  BY <1>8, TakeVetted DEF BeginEnqueue, Asked, Slots, OpNames, Pcs
<1>9. ASSUME NEW r \in Requests, BeginEdit(r) PROVE AllVetted'
  BY <1>1, <1>9, TakeVetted DEF BeginEdit, Asked, Slots, OpNames, Pcs
<1>10. ASSUME NEW r \in Requests, ReceiveRoomFinished(r) PROVE AllVetted'
  BY <1>1, <1>2, <1>10, TakeVetted DEF ReceiveRoomFinished, Slots, OpNames, Pcs
<1>11. CASE RoomCloses \/ UNCHANGED vars
  BY <1>2, <1>11 DEF RoomCloses, vars
<1> QED
  BY <1>3, <1>4, <1>5, <1>6, <1>7, <1>8, <1>9, <1>10, <1>11,
     RefusalSpentVetted, UpdateReadVetted, UpdateWriteVetted DEF Next, UpdateSteps

LEMMA AlwaysVetted == Spec => []AllVetted
BY InitVetted, NextVetted, PTL DEF Spec

\* Whoever is past the waiting room has been let in: by a host, by the
\* group's invitation, or while it was off.
THEOREM HostsAdmit == Spec => []OnlyHostsAdmit
<1>1. AllVetted => OnlyHostsAdmit
  BY DEF AllVetted, Vetted, OnlyHostsAdmit, Admitted
<1> QED
  BY <1>1, AlwaysVetted, PTL

----------------------------------------------------------------------------
(* Types.  LiveKit sends one room_finished for each session that is over.  *)

Typed ==
  /\ AllVetted
  /\ TypeOK
  /\ hooks + (IF room THEN 1 ELSE 0) <= sessions

LEMMA InitTyped == Init => Typed
<1> SUFFICES ASSUME Init PROVE Typed OBVIOUS
<1>1. AllVetted
  BY InitVetted
<1>2. req \in [Slots -> Reqs] /\ rec \in Records
  BY <1>1 DEF AllVetted
<1>3. knocking \subseteq People /\ inside \subseteq People /\ tokens \subseteq People
      /\ room = FALSE /\ hooks = 0 /\ sessions = 0 /\ opsLeft = MaxOps
      /\ letIn \subseteq People /\ vouched \subseteq People
  BY DEF Init
<1>4. MaxOps \in Nat /\ MaxSessions \in Nat
  BY WaitingAssumption
<1> QED
  <2>1. (IF room THEN 1 ELSE 0) = 0
    BY <1>3
  <2>2. hooks + (IF room THEN 1 ELSE 0) <= sessions
    BY <1>3, <2>1
  <2>3. TypeOK
    <3>1. hooks \in 0..MaxSessions /\ sessions \in 0..MaxSessions /\ opsLeft \in 0..MaxOps
      BY <1>3, <1>4
    <3>2. room \in BOOLEAN
      BY <1>3
    <3> QED
      BY <1>2, <1>3, <3>1, <3>2 DEF TypeOK, Reqs
  <2> QED
    BY <1>1, <2>2, <2>3 DEF Typed

LEMMA NextTyped == Typed /\ [Next]_vars => Typed'
<1> SUFFICES ASSUME Typed, [Next]_vars PROVE Typed' OBVIOUS
<1> DEFINE Bounded == /\ knocking \subseteq People /\ inside \subseteq People /\ tokens \subseteq People
                      /\ room \in BOOLEAN /\ hooks \in 0..MaxSessions /\ sessions \in 0..MaxSessions
                      /\ opsLeft \in 0..MaxOps
                      /\ letIn \subseteq People /\ vouched \subseteq People
                      /\ hooks + (IF room THEN 1 ELSE 0) <= sessions
<1>1. AllVetted'
  BY NextVetted DEF Typed
<1>2. ASSUME Bounded' PROVE Typed'
  BY <1>1, <1>2 DEF Typed, TypeOK, AllVetted, Reqs
<1>3. Bounded /\ MaxSessions \in Nat /\ MaxOps \in Nat
  BY WaitingAssumption DEF Typed, TypeOK
<1>4. \A s \in Slots : req[s].who \in People
  BY DEF Typed, AllVetted, Reqs
<1>5. ASSUME NEW p \in People, BeginKnock(p) \/ ReadLastKnock(p) \/ NoteKnock(p) \/ KnockExpires(p) \/ RefusalSpent(p)
      PROVE  Bounded'
  BY <1>3, <1>5 DEF BeginKnock, ReadLastKnock, NoteKnock, KnockExpires, RefusalSpent, livekit
<1>6. ASSUME NEW p \in People, NoteKnockFails(p) PROVE Bounded'
  BY <1>3, <1>6 DEF NoteKnockFails, livekit
<1>7. ASSUME NEW p \in People, GetToken(p) \/ GetTokenUnasked(p) \/ Connect(p) \/ Leave(p) PROVE Bounded'
  <2>1. CASE GetToken(p) \/ GetTokenUnasked(p)
    BY <1>3, <2>1 DEF GetToken, GetTokenUnasked, Issue
  <2>2. CASE Connect(p) /\ room
    BY <1>3, <2>2 DEF Connect
  <2>3. CASE Connect(p) /\ ~room
    BY <1>3, <2>3 DEF Connect
  <2>4. CASE Leave(p)
    BY <1>3, <2>4 DEF Leave
  <2> QED
    BY <1>7, <2>1, <2>2, <2>3, <2>4
<1>8. ASSUME NEW op, NEW r, Asked(r, op) PROVE Bounded'
  BY <1>3, <1>8 DEF Asked, livekit
<1>9. ASSUME NEW r \in Requests, BeginDecide(r) \/ BeginSet(r) \/ BeginEnqueue(r) \/ BeginEdit(r) PROVE Bounded'
  BY <1>8, <1>9 DEF BeginDecide, BeginSet, BeginEnqueue, BeginEdit
<1>10. ASSUME NEW r \in Requests, ReceiveRoomFinished(r) PROVE Bounded'
  BY <1>3, <1>10 DEF ReceiveRoomFinished
<1>11. ASSUME NEW s \in Slots, UpdateRead(s) PROVE Bounded'
  BY <1>3, <1>11 DEF UpdateRead, livekit
<1>12. ASSUME NEW s \in Slots, UpdateWrite(s) PROVE Bounded'
  <2>1. letIn' \subseteq letIn \cup {req[s].who} /\ vouched' \subseteq vouched \cup {req[s].who}
        /\ UNCHANGED <<knocking, livekit, opsLeft>>
    BY <1>12 DEF UpdateWrite
  <2> QED
    BY <1>3, <1>4, <2>1 DEF livekit
<1>13. ASSUME RoomCloses PROVE Bounded'
  <2>1. room /\ room' = FALSE /\ hooks' = hooks + 1 /\ vouched' = {}
        /\ UNCHANGED <<knocking, inside, tokens, sessions, opsLeft, letIn>>
    BY <1>13 DEF RoomCloses
  <2>2. (IF room THEN 1 ELSE 0) = 1 /\ (IF room' THEN 1 ELSE 0) = 0
    BY <2>1
  <2>3. hooks + 1 <= sessions /\ hooks \in Nat /\ sessions \in 0..MaxSessions
    BY <1>3, <2>2
  <2>4. hooks' \in 0..MaxSessions /\ hooks' + (IF room' THEN 1 ELSE 0) <= sessions'
    BY <1>3, <2>1, <2>2, <2>3
  <2> QED
    BY <1>3, <2>1, <2>4
<1>14. ASSUME UNCHANGED vars PROVE Bounded'
  BY <1>3, <1>14 DEF vars, livekit
<1> HIDE DEF Bounded
<1> QED
  BY <1>2, <1>5, <1>6, <1>7, <1>9, <1>10, <1>11, <1>12, <1>13, <1>14 DEF Next, KnockSteps, UpdateSteps

\* Every variable keeps its type, for any people, requests and bounds.
THEOREM TypeCorrect == Spec => []TypeOK
<1>1. Typed => TypeOK
  BY DEF Typed
<1> QED
  BY <1>1, InitTyped, NextTyped, PTL DEF Spec

----------------------------------------------------------------------------
(* Requests in turn (Serial).  The copy that is written back is the record *)
(* itself, so a patch changes what it means to change and nothing else.    *)

OneAtATime == \A s, t \in Slots : req[s] # Idle /\ req[t] # Idle => s = t

\* A request while the record is r.
Right(q, r) ==
  /\ q.pc = "write" => q.prev = r
  /\ q.pc = "last" => q.op = "touch"
  /\ q.pc = "note" => q.op \in {"knock", "touch"}
  /\ q.op = "knock" /\ q.pc \in {"reread", "write"} => r.queue[q.who] \in {"none", "spent"}
  /\ q.op = "invite" => q.who \in Invited
  /\ q.op \in {"enqueue", "let_in"} => "enqueue" \in Ops

InTurn ==
  /\ Typed
  /\ OneAtATime
  /\ \A s \in Slots : Right(req[s], rec)

LEMMA IdleIsRight ==
  /\ Idle.op = "none" /\ Idle.pc = "idle" /\ Idle.prev = Empty
  /\ \A r : Right(Idle, r)
BY DEF Idle, Request, Right

LEMMA InitInTurn == Init => InTurn
<1> SUFFICES ASSUME Init PROVE InTurn OBVIOUS
<1>1. \A s \in Slots : req[s] = Idle
  BY DEF Init
<1> QED
  BY <1>1, InitTyped, IdleIsRight DEF InTurn, OneAtATime

\* While one request is at work the others are idle.
LEMMA OthersIdle ==
  ASSUME InTurn, NEW s \in Slots, req[s].pc # "idle"
  PROVE  \A t \in Slots \ {s} : req[t] = Idle
BY IdleIsRight DEF InTurn, OneAtATime

LEMMA OneMoves ==
  ASSUME InTurn, Typed', NEW s \in Slots, \A t \in Slots \ {s} : req[t] = Idle,
         NEW q \in Reqs, req' = [req EXCEPT ![s] = q], Right(q, rec')
  PROVE  InTurn'
<1>1. req \in [Slots -> Reqs]
  BY DEF InTurn, Typed, AllVetted
<1>2. req'[s] = q /\ \A t \in Slots \ {s} : req'[t] = Idle
  BY <1>1
<1>3. OneAtATime'
  BY <1>2 DEF OneAtATime
<1>4. \A t \in Slots : Right(req'[t], rec')
  BY <1>2, IdleIsRight
<1> QED
  BY <1>3, <1>4 DEF InTurn, Right

LEMMA TakeInTurn ==
  ASSUME InTurn, Typed', Serial, NEW s \in Slots, NEW op \in OpNames, NEW pc \in {"last", "reread"},
         NEW p \in People, Take(s, op, pc, p, Empty), Right(Request(op, pc, p, Empty), rec')
  PROVE  InTurn'
<1>1. \A t \in Slots : req[t] = Idle
  BY DEF Take
<1>2. Request(op, pc, p, Empty) \in Reqs
  BY EmptyRecord, RequestType DEF Pcs
<1> QED
  BY <1>1, <1>2, OneMoves DEF Take

LEMMA DoneInTurn ==
  ASSUME InTurn, Typed', UNCHANGED rec, NEW s \in Slots, req[s].pc # "idle", Done(s)
  PROVE  InTurn'
<1>1. Idle \in Reqs
  BY WaitingAssumption, EmptyRecord DEF Idle, Request, Reqs, OpNames, Pcs, Nobody
<1> QED
  BY <1>1, OthersIdle, IdleIsRight, OneMoves DEF Done

LEMMA KnockInTurn ==
  ASSUME InTurn, Typed', NEW p \in People,
         ReadLastKnock(p) \/ NoteKnock(p) \/ NoteKnockFails(p)
  PROVE  InTurn'
<1>1. p \in Slots /\ req[p].pc # "idle" /\ UNCHANGED rec
  BY DEF Slots, ReadLastKnock, NoteKnock, NoteKnockFails
<1>2. CASE ReadLastKnock(p)
  <2> DEFINE pc == IF p \in knocking THEN "note" ELSE "reread"
             q == [req[p] EXCEPT !.pc = pc]
  <2>1. req[p] \in Reqs /\ Right(req[p], rec) /\ req[p].pc = "last" /\ req' = [req EXCEPT ![p] = q]
    BY <1>1, <1>2 DEF InTurn, Typed, AllVetted, ReadLastKnock, Goes
  <2>2. q \in Reqs /\ q.pc \in {"note", "reread"} /\ q.op = "touch"
    BY <2>1 DEF Reqs, Pcs, Right
  <2>3. Right(q, rec')
    BY <2>2 DEF Right
  <2> HIDE DEF q
  <2> QED
    BY <1>1, <2>1, <2>2, <2>3, OthersIdle, OneMoves
<1>3. CASE NoteKnock(p) \/ NoteKnockFails(p)
  BY <1>1, <1>3, DoneInTurn DEF NoteKnock, NoteKnockFails
<1> QED
  BY <1>2, <1>3

LEMMA UpdateReadInTurn ==
  ASSUME InTurn, Typed', NEW s \in Slots, UpdateRead(s)
  PROVE  InTurn'
<1> DEFINE q == [req[s] EXCEPT !.prev = rec, !.pc = "write"]
<1>1. req[s] \in Reqs /\ Right(req[s], rec) /\ rec \in Records /\ req \in [Slots -> Reqs]
  BY DEF InTurn, Typed, AllVetted
<1>2. req[s].pc = "reread" /\ req' = [req EXCEPT ![s] = q] /\ rec' = rec
  BY <1>1 DEF UpdateRead
<1>3. q \in Reqs /\ q.prev = rec /\ q.pc = "write" /\ q.op = req[s].op /\ q.who = req[s].who
  BY <1>1 DEF Reqs, Pcs
<1>4. Right(q, rec')
  BY <1>1, <1>2, <1>3 DEF Right
<1> HIDE DEF q
<1> QED
  BY <1>2, <1>3, <1>4, OthersIdle, OneMoves

LEMMA UpdateWriteInTurn ==
  ASSUME InTurn, Typed', NEW s \in Slots, UpdateWrite(s)
  PROVE  InTurn'
<1> DEFINE op == req[s].op
           p == req[s].who
           q == IF op \in {"knock", "touch"} THEN Request(op, "note", p, Empty) ELSE Idle
<1>1. op \in OpNames /\ p \in People /\ req[s].pc = "write"
  BY DEF InTurn, Typed, AllVetted, Reqs, UpdateWrite
<1>2. q \in Reqs
  BY <1>1, EmptyRecord, RequestType DEF Pcs
<1>3. Right(q, rec')
  <2>1. CASE op \in {"knock", "touch"}
    BY <2>1 DEF Request, Right
  <2>2. CASE op \notin {"knock", "touch"}
    BY <2>2, IdleIsRight
  <2> QED
    BY <2>1, <2>2
<1>4. req' = [req EXCEPT ![s] = q]
  BY DEF UpdateWrite
<1> HIDE DEF q
<1> QED
  BY <1>1, <1>2, <1>3, <1>4, OthersIdle, OneMoves

LEMMA SpentEmpty ==
  ASSUME NEW p \in People
  PROVE  /\ Spent(Empty, p) = Empty
         /\ [Idle EXCEPT !.prev = Spent(@, p)] = Idle
<1>1. Spent(Empty, p) = Empty
  BY EmptyRecord DEF Spent
<1> QED
  BY <1>1 DEF Idle, Request

LEMMA RefusalSpentInTurn ==
  ASSUME InTurn, Typed', NEW p \in People, RefusalSpent(p)
  PROVE  InTurn'
<1>1. rec \in Records /\ req \in [Slots -> Reqs]
  BY DEF InTurn, Typed, AllVetted
<1>2. rec' = Spent(rec, p) /\ req' = [s \in Slots |-> [req[s] EXCEPT !.prev = Spent(@, p)]]
  BY DEF RefusalSpent
<1>3. \A s \in Slots : req[s] = Idle => req'[s] = Idle
  BY <1>2, SpentEmpty
<1>4. \A s \in Slots : /\ req'[s].op = req[s].op /\ req'[s].pc = req[s].pc /\ req'[s].who = req[s].who
                       /\ req'[s].prev = Spent(req[s].prev, p)
  BY <1>1, <1>2 DEF Reqs
<1>5. \A x \in People : rec.queue[x] \in {"none", "spent"} => rec'.queue[x] \in {"none", "spent"}
  BY <1>1, <1>2, SetStatus DEF Spent, Statuses
<1>6. OneAtATime'
  BY <1>3 DEF InTurn, OneAtATime
<1>7. ASSUME NEW s \in Slots PROVE Right(req'[s], rec')
  <2>1. req[s].who \in People /\ Right(req[s], rec)
    BY <1>1 DEF InTurn, Reqs
  <2>2. req[s].pc = "write" => req'[s].prev = rec'
    BY <1>2, <1>4, <2>1 DEF Right
  <2> QED
    BY <1>4, <1>5, <2>1, <2>2 DEF Right
<1> QED
  BY <1>6, <1>7 DEF InTurn, Right

LEMMA NextInTurn == Serial /\ InTurn /\ [Next]_vars => InTurn'
<1> SUFFICES ASSUME Serial, InTurn, [Next]_vars PROVE InTurn' OBVIOUS
<1>1. Typed'
  BY NextTyped DEF InTurn
<1>2. Nobody \in People /\ Invited \subseteq People
  BY WaitingAssumption DEF Nobody
<1>3. ASSUME UNCHANGED <<rec, req>> PROVE InTurn'
  BY <1>1, <1>3 DEF InTurn, OneAtATime, Right
<1>4. ASSUME NEW p \in People, BeginKnock(p) PROVE InTurn'
  <2>1. p \in Slots /\ rec' = rec /\ rec.queue[p] \in Statuses
    BY <1>4 DEF BeginKnock, Slots, InTurn, Typed, AllVetted, Records
  <2>2. CASE KnockInvited(p)
    <3>1. Right(Request("invite", "reread", p, Empty), rec')
      BY <2>2 DEF KnockInvited, Request, Right
    <3> QED
      BY <1>1, <2>1, <2>2, <3>1, TakeInTurn DEF KnockInvited, OpNames
  <2>3. CASE KnockNew(p)
    <3>1. rec.queue[p] \in {"none", "spent"}
      BY <2>1, <2>3 DEF KnockNew, Answered, RefusalHolds, Statuses
    <3>2. Right(Request("knock", "reread", p, Empty), rec')
      BY <2>1, <3>1 DEF Request, Right
    <3> QED
      BY <1>1, <2>1, <2>3, <3>2, TakeInTurn DEF KnockNew, OpNames
  <2>4. CASE KnockAgain(p)
    <3>1. Right(Request("touch", "last", p, Empty), rec')
      BY DEF Request, Right
    <3> QED
      BY <1>1, <2>1, <2>4, <3>1, TakeInTurn DEF KnockAgain, OpNames
  <2> QED
    BY <1>4, <2>2, <2>3, <2>4 DEF BeginKnock
<1>5. ASSUME NEW p \in People, KnockExpires(p) \/ GetToken(p) \/ GetTokenUnasked(p) \/ Connect(p) \/ Leave(p)
      PROVE  InTurn'
  BY <1>3, <1>5 DEF KnockExpires, GetToken, GetTokenUnasked, Issue, Connect, Leave
<1>6. ASSUME NEW s \in Slots, NEW op \in OpNames, NEW p \in People, Take(s, op, "reread", p, Empty),
             op \notin {"knock", "invite"}, op \in {"enqueue", "let_in"} => "enqueue" \in Ops
      PROVE  InTurn'
  <2>1. Right(Request(op, "reread", p, Empty), rec')
    BY <1>6 DEF Request, Right
  <2> QED
    BY <1>1, <1>6, <2>1, TakeInTurn
<1>7. ASSUME NEW r \in Requests, BeginDecide(r) \/ BeginSet(r) \/ BeginEdit(r) PROVE InTurn'
  BY <1>2, <1>6, <1>7 DEF BeginDecide, BeginSet, BeginEdit, Slots, OpNames
<1>8. ASSUME NEW r \in Requests, BeginEnqueue(r) PROVE InTurn'
  BY <1>6, <1>8 DEF BeginEnqueue, Asked, Slots, OpNames
<1>9. ASSUME NEW r \in Requests, ReceiveRoomFinished(r) PROVE InTurn'
  BY <1>2, <1>3, <1>6, <1>9 DEF ReceiveRoomFinished, Slots, OpNames
<1>10. CASE RoomCloses \/ UNCHANGED vars
  BY <1>3, <1>10 DEF RoomCloses, vars
<1> QED
  BY <1>1, <1>4, <1>5, <1>7, <1>8, <1>9, <1>10, KnockInTurn, RefusalSpentInTurn, UpdateReadInTurn,
     UpdateWriteInTurn DEF Next, KnockSteps, UpdateSteps

LEMMA AlwaysInTurn == Serial => (Spec => []InTurn)
<1> SUFFICES ASSUME Serial PROVE Spec => []InTurn OBVIOUS
<1>1. InTurn /\ [Next]_vars => InTurn'
  BY NextInTurn
<1> QED
  BY <1>1, InitInTurn, PTL DEF Spec

\* What a patch may take from people other than, and from, whom it is about.
LEMMA PatchedTakes ==
  ASSUME NEW r \in Records, NEW p \in People, NEW op \in OpNames, NEW q \in People
  PROVE  LET after == Patched(r, op, p).queue[q]
         IN /\ r.queue[q] = "admitted" /\ after # "admitted"
                 => op = "clear" \/ (q = p /\ op \in {"deny", "knock", "enqueue"})
            /\ r.queue[q] = "refused" /\ after \notin {"refused", "spent"}
                 => op = "clear" \/ (q = p /\ op \in {"admit", "knock", "enqueue", "invite", "let_in"})
            /\ op = "clear" \/ (op = "deny" /\ q = p) => after # "admitted"
<1> DEFINE set(status) == [r EXCEPT !.queue[p] = status]
<1>1. /\ {"pending", "admitted", "refused", "none"} \subseteq Statuses
      /\ \A status \in Statuses : set(status).queue[p] = status /\ (q # p => set(status).queue[q] = r.queue[q])
  <2>1. {"pending", "admitted", "refused", "none"} \subseteq Statuses
    BY DEF Statuses
  <2>2. ASSUME NEW status \in Statuses
        PROVE  set(status).queue[p] = status /\ (q # p => set(status).queue[q] = r.queue[q])
    BY DEF Records
  <2> QED
    BY <2>1, <2>2
<1> HIDE DEF set
<1>2. CASE op = "admit"
  <2>1. Patched(r, op, p) = IF r.queue[p] = "none" THEN r ELSE set("admitted")
    BY <1>2 DEF Patched, set
  <2> QED
    BY <1>1, <1>2, <2>1
<1>3. CASE op = "deny"
  <2>1. Patched(r, op, p) = IF r.queue[p] = "none" THEN r ELSE set("refused")
    BY <1>3 DEF Patched, set
  <2> QED
    BY <1>1, <1>3, <2>1
<1>4. CASE op \in {"knock", "enqueue"}
  <2>1. Patched(r, op, p) = set("pending")
    BY <1>4 DEF Patched, set
  <2> QED
    BY <1>1, <1>4, <2>1
<1>5. CASE op \in {"invite", "let_in"}
  <2>1. Patched(r, op, p) = set("admitted")
    BY <1>5 DEF Patched, set
  <2> QED
    BY <1>1, <1>5, <2>1
<1>6. CASE op = "clear"
  <2>1. Patched(r, op, p).queue[q] \in {"pending", "none"}
    BY <1>6 DEF Patched, Cleared, Records
  <2> QED
    BY <1>6, <2>1
<1>7. CASE op \in {"on", "off", "none", "touch", "edit"}
  <2>1. Patched(r, op, p).queue = r.queue
    BY <1>7 DEF Patched, Records
  <2> QED
    BY <1>7, <2>1
<1> QED
  BY <1>2, <1>3, <1>4, <1>5, <1>6, <1>7 DEF OpNames

----------------------------------------------------------------------------
(* An admission lasts for one session.                                     *)

LEMMA WriteEnds ==
  ASSUME InTurn, AdmissionEnds, NEW s \in Slots, UpdateWrite(s)
  PROVE  AdmissionEnds'
<1> DEFINE op == req[s].op
           p == req[s].who
<1>1. /\ op \in OpNames /\ p \in People /\ req[s].pc = "write" /\ rec \in Records /\ req[s].prev = rec
      /\ req \in [Slots -> Reqs]
  BY DEF InTurn, Typed, AllVetted, Reqs, UpdateWrite, Right
<1>2. /\ rec' = Patched(rec, op, p) /\ hooks' = hooks
      /\ vouched' = IF Admits(rec, op, p) THEN vouched \cup {p}
                    ELSE IF op = "deny" THEN vouched \ {p} ELSE vouched
  BY <1>1 DEF UpdateWrite, Admits, livekit
<1>3. SUFFICES ASSUME hooks = 0, NEW x \in People, rec'.queue[x] = "admitted" PROVE x \in vouched'
  BY <1>2 DEF AdmissionEnds, Admitted
<1>4. op # "clear" /\ ~(op = "deny" /\ x = p)
  BY <1>1, <1>2, <1>3, PatchedTakes
<1>5. \A t \in Slots : req[t].op # "clear"
  BY <1>1, <1>4, OthersIdle, IdleIsRight
<1>6. CASE x = p /\ Admits(rec, op, p)
  BY <1>2, <1>6
<1>7. CASE rec.queue[x] = "admitted"
  <2>1. x \in vouched
    BY <1>3, <1>5, <1>7 DEF AdmissionEnds, Admitted
  <2> QED
    BY <1>2, <1>4, <2>1
<1> QED
  BY <1>1, <1>2, <1>3, <1>6, <1>7, PatchedAdmits

LEMMA NextEnds == InTurn /\ InTurn' /\ AdmissionEnds /\ [Next]_vars => AdmissionEnds'
<1> SUFFICES ASSUME InTurn, InTurn', AdmissionEnds, [Next]_vars PROVE AdmissionEnds' OBVIOUS
<1>1. req \in [Slots -> Reqs] /\ rec \in Records
  BY DEF InTurn, Typed, AllVetted
<1>2. ASSUME UNCHANGED <<rec, hooks, vouched>>, \A s \in Slots : req[s].op = "clear" => req'[s].op = "clear"
      PROVE  AdmissionEnds'
  BY <1>2 DEF AdmissionEnds, Admitted
<1>3. ASSUME NEW s \in Slots, NEW op, NEW pc, NEW p, Take(s, op, pc, p, Empty), UNCHANGED <<rec, hooks, vouched>>
      PROVE  AdmissionEnds'
  BY <1>1, <1>2, <1>3, IdleIsRight DEF Take
<1>4. ASSUME NEW p \in People, BeginKnock(p) PROVE AdmissionEnds'
  BY <1>3, <1>4 DEF BeginKnock, KnockInvited, KnockNew, KnockAgain, Slots, livekit
<1>5. ASSUME NEW p \in People, ReadLastKnock(p) PROVE AdmissionEnds'
  BY <1>1, <1>2, <1>5 DEF ReadLastKnock, Goes, Reqs, livekit
<1>6. ASSUME NEW p \in People, NoteKnock(p) \/ NoteKnockFails(p) PROVE AdmissionEnds'
  <2>1. req[p].op # "clear" /\ p \in Slots
    BY <1>6 DEF InTurn, Right, NoteKnock, NoteKnockFails, Slots
  <2> QED
    BY <1>1, <1>2, <1>6, <2>1 DEF NoteKnock, NoteKnockFails, Done, livekit
<1>7. ASSUME NEW p \in People, KnockExpires(p) \/ GetToken(p) \/ GetTokenUnasked(p) \/ Connect(p) \/ Leave(p)
      PROVE  AdmissionEnds'
  BY <1>2, <1>7 DEF KnockExpires, GetToken, GetTokenUnasked, Issue, Connect, Leave, livekit
<1>8. ASSUME NEW p \in People, RefusalSpent(p) PROVE AdmissionEnds'
  <2>1. \A s \in Slots : req'[s].op = req[s].op
    BY <1>1, <1>8 DEF RefusalSpent, Reqs
  <2>2. \A x \in People : Admitted(x)' => Admitted(x)
    BY <1>1, <1>8, SpentAdmits DEF RefusalSpent, Admitted
  <2>3. UNCHANGED <<hooks, vouched>>
    BY <1>8 DEF RefusalSpent, livekit
  <2> QED
    BY <2>1, <2>2, <2>3 DEF AdmissionEnds
<1>9. ASSUME NEW r \in Requests, BeginDecide(r) \/ BeginSet(r) \/ BeginEnqueue(r) \/ BeginEdit(r)
      PROVE  AdmissionEnds'
  BY <1>3, <1>9 DEF BeginDecide, BeginSet, BeginEnqueue, BeginEdit, Asked, Slots, livekit
<1>10. ASSUME NEW r \in Requests, ReceiveRoomFinished(r) PROVE AdmissionEnds'
  <2>1. CASE Cleared(rec) = rec
    <3>1. \A x \in People : rec.queue[x] # "admitted"
      BY <1>1, <2>1 DEF Cleared, Records
    <3> QED
      BY <1>10, <3>1 DEF ReceiveRoomFinished, AdmissionEnds, Admitted
  <2>2. CASE Cleared(rec) # rec
    <3>1. r \in Slots /\ req'[r].op = "clear"
      BY <1>1, <1>10, <2>2 DEF ReceiveRoomFinished, Take, Request, Slots
    <3> QED
      BY <3>1 DEF AdmissionEnds
  <2> QED
    BY <2>1, <2>2
<1>11. ASSUME NEW s \in Slots, UpdateRead(s) PROVE AdmissionEnds'
  BY <1>1, <1>2, <1>11 DEF UpdateRead, Reqs, livekit
<1>12. ASSUME RoomCloses PROVE AdmissionEnds'
  <2>1. hooks' # 0
    BY <1>12 DEF RoomCloses, InTurn, Typed, TypeOK
  <2> QED
    BY <2>1 DEF AdmissionEnds
<1>13. ASSUME UNCHANGED vars PROVE AdmissionEnds'
  BY <1>2, <1>13 DEF vars, livekit
<1> QED
  BY <1>4, <1>5, <1>6, <1>7, <1>8, <1>9, <1>10, <1>11, <1>12, <1>13, WriteEnds DEF Next, KnockSteps, UpdateSteps

\* With requests in turn an admission lasts for one session: once the end of
\* the last one has been handled, only those admitted since are admitted,
\* for any people, invited or not, and any requests.
THEOREM AdmissionsEnd == Serial => (Spec => []AdmissionEnds)
<1> SUFFICES ASSUME Serial PROVE Spec => []AdmissionEnds OBVIOUS
<1>1. Init => AdmissionEnds
  BY EmptyRecord DEF Init, AdmissionEnds, Admitted
<1> QED
  BY <1>1, NextEnds, AlwaysInTurn, PTL DEF Spec

----------------------------------------------------------------------------
(* What a host answered stands.  Those the group invites are let in by     *)
(* their next knock even if a host has just refused them.                  *)

LEMMA WriteKeeps ==
  ASSUME InTurn, "enqueue" \notin Ops, NEW s \in Slots, UpdateWrite(s), NEW x \in People \ Invited
  PROVE  AnswerKept(x)
<1> DEFINE op == req[s].op
           p == req[s].who
<1>1. /\ op \in OpNames /\ p \in People /\ req[s].pc = "write" /\ rec \in Records /\ req[s].prev = rec
      /\ req \in [Slots -> Reqs] /\ Right(req[s], rec)
  BY DEF InTurn, Typed, AllVetted, Reqs, UpdateWrite, Right
<1>2. rec' = Patched(rec, op, p)
  BY <1>1 DEF UpdateWrite
<1>3. req'[s] # req[s]
  <2>1. req'[s].pc \in {"note", "idle"}
    BY <1>1, IdleIsRight DEF UpdateWrite, Request
  <2> QED
    BY <1>1, <2>1
<1>4. op = "clear" \/ x = p => Writing(op, x)
  BY <1>1, <1>3 DEF Writing
<1>5. rec.queue[x] \in {"admitted", "refused"} => ~(x = p /\ op \in {"knock", "enqueue", "invite", "let_in"})
  BY <1>1 DEF Right
<1> QED
  BY <1>1, <1>2, <1>4, <1>5, PatchedTakes DEF AnswerKept, Admitted

LEMMA NextKeeps ==
  ASSUME InTurn, "enqueue" \notin Ops, [Next]_vars, NEW x \in People \ Invited
  PROVE  AnswerKept(x)
<1>1. ASSUME UNCHANGED rec PROVE AnswerKept(x)
  BY <1>1 DEF AnswerKept, Admitted
<1>2. ASSUME NEW p \in People, RefusalSpent(p) PROVE AnswerKept(x)
  <2>1. rec \in Records /\ rec' = Spent(rec, p)
    BY <1>2 DEF RefusalSpent, InTurn, Typed, AllVetted
  <2> QED
    BY <2>1, SetStatus DEF Spent, AnswerKept, Admitted, Statuses
<1> QED
  BY <1>1, <1>2, WriteKeeps DEF Next, BeginKnock, KnockSteps, ReadLastKnock, NoteKnock, NoteKnockFails,
     KnockExpires, GetToken, GetTokenUnasked, Issue, Connect, Leave, BeginDecide, BeginSet, BeginEnqueue,
    BeginEdit, Asked,
     ReceiveRoomFinished, UpdateSteps, UpdateRead, RoomCloses, vars

\* With requests in turn, and nobody putting themselves in the queue by PUT,
\* what a host answered anyone who is not invited stands.
THEOREM AnswersKept ==
  Serial /\ "enqueue" \notin Ops => (Spec => [][\A p \in People \ Invited : AnswerKept(p)]_vars)
<1> SUFFICES ASSUME Serial, "enqueue" \notin Ops
             PROVE  Spec => [][\A p \in People \ Invited : AnswerKept(p)]_vars
  OBVIOUS
<1>1. InTurn /\ [Next]_vars => \A p \in People \ Invited : AnswerKept(p)
  BY NextKeeps
<1> QED
  BY <1>1, AlwaysInTurn, PTL DEF Spec

\* So where nobody is invited, what a host answered stands.
THEOREM HostsAnswersStand ==
  Serial /\ "enqueue" \notin Ops /\ Invited = {} => (Spec => AnswersStand)
<1> SUFFICES ASSUME Serial, "enqueue" \notin Ops, Invited = {} PROVE Spec => AnswersStand
  OBVIOUS
<1>1. InTurn /\ [Next]_vars => KeepsAnswers
  BY NextKeeps DEF KeepsAnswers
<1> QED
  BY <1>1, AlwaysInTurn, PTL DEF Spec, AnswersStand
=============================================================================
