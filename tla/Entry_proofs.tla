---------------------------- MODULE Entry_proofs ----------------------------
(***************************************************************************)
(* Entry for any values of the constants: each protocol by itself, and     *)
(* then beside the others.  Of a partner zone's sessions: the types, that  *)
(* a connection is recorded in one session (nothing kept apart), and that  *)
(* with reads of the pointer kept apart the open session is the zone's     *)
(* current one.  What holds of the waiting room is taken from              *)
(* WaitingRoom_proofs.                                                     *)
(***************************************************************************)
EXTENDS Entry, TLAPS

----------------------------------------------------------------------------
(* A partner zone's sessions.                                              *)

\* What the theorems take of the constants: "none" is no session's id,
\* there is a connection to name, the bounds are numbers.
PrayerInstance ==
  /\ "none" \notin Sessions
  /\ Connections # {}
  /\ MaxCalls \in Nat /\ MaxStale \in Nat

----------------------------------------------------------------------------
(* What the operators do to the calls.                                     *)

ReqType == [op : Ops, pc : Pcs, who : Connections, s : SessionOrNone, old : SessionOrNone]

\* Only r's call may have changed.
OthersStay(r) == \A q \in Requests : q # r => req'[q] = req[q]

\* Somebody is a connection, and Idle a call.
LEMMA IdleIsACall == ASSUME Connections # {} PROVE Somebody \in Connections /\ Idle \in ReqType
<1>1. Somebody \in Connections BY DEF Somebody
<1>. QED BY <1>1 DEF Idle, ReqType, Ops, Pcs, SessionOrNone

\* A call begins with the fields it is given; it was idle.
LEMMA BeginsIs ==
  ASSUME req \in [Requests -> ReqType], calls \in 0 .. MaxCalls, MaxCalls \in Nat,
         NEW r \in Requests, NEW op \in Ops, NEW pc \in Pcs, NEW who \in Connections,
         NEW s \in SessionOrNone, Begins(r, op, pc, who, s)
  PROVE  /\ req' \in [Requests -> ReqType]
         /\ req'[r].pc = pc /\ req'[r].who = who /\ req'[r].s = s /\ req'[r].old = "none"
         /\ req[r].pc = "idle"
         /\ OthersStay(r)
         /\ calls' \in 0 .. MaxCalls
<1> DEFINE n == [op |-> op, pc |-> pc, who |-> who, s |-> s, old |-> "none"]
<1>1. n \in ReqType BY DEF ReqType, SessionOrNone
<1>2. n.pc = pc /\ n.who = who /\ n.s = s /\ n.old = "none" OBVIOUS
<1>3. req' = [req EXCEPT ![r] = n] BY DEF Begins
<1>4. req[r].pc = "idle" BY DEF Begins, Idle
<1>5. calls' \in 0 .. MaxCalls BY DEF Begins
<1> HIDE DEF n
<1>. QED BY <1>1, <1>2, <1>3, <1>4, <1>5 DEF OthersStay

\* A call goes on to another place.
LEMMA GoesIs ==
  ASSUME req \in [Requests -> ReqType], NEW r \in Requests, NEW pc \in Pcs, Goes(r, pc)
  PROVE  /\ req' \in [Requests -> ReqType]
         /\ req'[r].pc = pc /\ req'[r].who = req[r].who /\ req'[r].s = req[r].s
         /\ req'[r].old = req[r].old
         /\ OthersStay(r)
<1> DEFINE n == [req[r] EXCEPT !.pc = pc]
<1>0. req[r] \in ReqType OBVIOUS
<1>1. n \in ReqType BY <1>0 DEF ReqType
<1>2. n.pc = pc /\ n.who = req[r].who /\ n.s = req[r].s /\ n.old = req[r].old BY <1>0 DEF ReqType
<1>3. req' = [req EXCEPT ![r] = n] BY DEF Goes
<1> HIDE DEF n
<1>. QED BY <1>1, <1>2, <1>3 DEF OthersStay

\* A call goes on with a session.
LEMMA GoesWithIs ==
  ASSUME req \in [Requests -> ReqType], NEW r \in Requests, NEW pc \in Pcs,
         NEW s \in SessionOrNone, GoesWith(r, pc, s)
  PROVE  /\ req' \in [Requests -> ReqType]
         /\ req'[r].pc = pc /\ req'[r].who = req[r].who /\ req'[r].s = s
         /\ req'[r].old = req[r].old
         /\ OthersStay(r)
<1> DEFINE n == [req[r] EXCEPT !.pc = pc, !.s = s]
<1>0. req[r] \in ReqType OBVIOUS
<1>1. n \in ReqType BY <1>0 DEF ReqType
<1>2. n.pc = pc /\ n.who = req[r].who /\ n.s = s /\ n.old = req[r].old BY <1>0 DEF ReqType
<1>3. req' = [req EXCEPT ![r] = n] BY DEF GoesWith
<1> HIDE DEF n
<1>. QED BY <1>1, <1>2, <1>3 DEF OthersStay

\* A call is over.
LEMMA DoneIs ==
  ASSUME req \in [Requests -> ReqType], Connections # {}, NEW r \in Requests, Done(r)
  PROVE  /\ req' \in [Requests -> ReqType]
         /\ req'[r].pc = "idle"
         /\ OthersStay(r)
<1>1. Idle \in ReqType BY IdleIsACall
<1>2. Idle.pc = "idle" BY DEF Idle
<1>3. req' = [req EXCEPT ![r] = Idle] BY DEF Done
<1>. QED BY <1>1, <1>2, <1>3 DEF OthersStay

----------------------------------------------------------------------------
(* The invariant: what a call has in hand.                                 *)

\* A call that maps, writes or closes has a session; one that records or ends
\* a connection has the session it belongs to; one that is verified is new or
\* recorded there, one that ends is recorded.
Mine(q, belong, record) ==
  /\ q.pc \in {"map", "write", "close"} => q.s \in Sessions
  /\ q.pc \in {"current", "stale"} => q.old \in Sessions
  /\ q.pc \in {"record", "end"} => q.s \in Sessions /\ q.s = belong[q.who]
  /\ q.pc = "end" => <<q.s, q.who>> \in record
  /\ q.pc = "verify" =>
       q.s = "none" \/ (q.s \in Sessions /\ q.s = belong[q.who] /\ <<q.s, q.who>> \in record)

AllMine == \A r \in Requests : Mine(req[r], belongs, recorded)

\* Where a connection is recorded is where it belongs.
Belonging == \A c \in Connections, s \in Sessions : <<s, c>> \in recorded => belongs[c] = s

Kept == TypeOK /\ AllMine /\ Belonging

\* What has been said of a connection stands.
Lasting ==
  /\ \A c \in Connections : belongs[c] # "none" => belongs'[c] = belongs[c]
  /\ recorded \subseteq recorded'

\* When it does, what is true of one call's session stays so for the others.
LEMMA MineLasts ==
  ASSUME "none" \notin Sessions, req \in [Requests -> ReqType], AllMine, Lasting,
         NEW r \in Requests, OthersStay(r), Mine(req'[r], belongs', recorded')
  PROVE  AllMine'
<1>1. SUFFICES ASSUME NEW q \in Requests, q # r PROVE Mine(req'[q], belongs', recorded')
  BY DEF AllMine
<1>2. req'[q] = req[q] BY <1>1 DEF OthersStay
<1>3. Mine(req[q], belongs, recorded) BY DEF AllMine
<1>4. req[q].who \in Connections BY DEF ReqType
<1>5. req[q].s \in Sessions /\ req[q].s = belongs[req[q].who] => req[q].s = belongs'[req[q].who]
  BY <1>4 DEF Lasting
<1>6. recorded \subseteq recorded' BY DEF Lasting
<1>. QED BY <1>2, <1>3, <1>5, <1>6 DEF Mine

LEMMA InitKept == ASSUME PrayerInstance, Init PROVE Kept
<1>1. "none" \in SessionOrNone BY DEF SessionOrNone
<1>2. Idle \in ReqType BY IdleIsACall DEF PrayerInstance
<1>3. TypeOK BY <1>1, <1>2 DEF Init, TypeOK, ReqType, PrayerInstance
<1>4. Idle.pc = "idle" BY DEF Idle
<1>5. AllMine BY <1>4 DEF Init, AllMine, Mine
<1>6. Belonging BY DEF Init, Belonging
<1>. QED BY <1>3, <1>5, <1>6 DEF Kept

\* A step of LiveKit's, or the passing of time, is nothing to the calls.
LEMMA OutsideKept ==
  ASSUME PrayerInstance, Kept,
         \/ \E c \in Connections : Connect(c) \/ Disconnect(c)
         \/ \E s \in Sessions : GoesStale(s)
  PROVE  Kept'
<1>. USE DEF Kept, PrayerInstance
<1>1. UNCHANGED <<pointer, session, belongs, recorded, left, req, calls>>
  BY DEF Connect, Disconnect, GoesStale
<1>2. /\ here' \subseteq came' /\ came' \subseteq Connections
      /\ stale' \subseteq Sessions /\ lulls' \in 0 .. MaxStale
  BY DEF TypeOK, Connect, Disconnect, GoesStale, livekit
<1>3. TypeOK' BY <1>1, <1>2 DEF TypeOK
<1>4. AllMine' /\ Belonging' BY <1>1 DEF AllMine, Belonging
<1>. QED BY <1>3, <1>4

\* A call begins.
LEMMA BeginKept ==
  ASSUME PrayerInstance, Kept, NEW r \in Requests, Begin(r)
  PROVE  Kept'
<1>. USE DEF Kept, PrayerInstance
<1>1. UNCHANGED <<pointer, session, stale, belongs, recorded, left, livekit, lulls>>
  BY DEF Begin, BeginFinished, BeginLook, BeginOpened, BeginHost, HostLeft, BeginBeat, BeginLeft
<1>2. req \in [Requests -> ReqType] /\ calls \in 0 .. MaxCalls BY DEF TypeOK, ReqType
<1>3. Lasting BY <1>1 DEF Lasting
<1>4. Somebody \in Connections BY IdleIsACall
<1>5. "none" \in SessionOrNone /\ pointer \in SessionOrNone BY DEF SessionOrNone, TypeOK
<1>6. IsOpen(pointer) => pointer \in Sessions BY <1>5 DEF IsOpen, SessionOrNone
<1>7. \A c \in came : c \in Connections /\ belongs[c] \in SessionOrNone BY DEF TypeOK
<1>8. recorded \subseteq Sessions \X Connections BY DEF TypeOK
<1>9. ASSUME /\ req' \in [Requests -> ReqType]
             /\ OthersStay(r)
             /\ calls' \in 0 .. MaxCalls
             /\ Mine(req'[r], belongs', recorded')
      PROVE  Kept'
  <2>1. AllMine' BY <1>2, <1>3, <1>9, MineLasts
  <2>2. TypeOK' BY <1>1, <1>9 DEF TypeOK, ReqType, livekit
  <2>3. Belonging' BY <1>1 DEF Belonging
  <2>. QED BY <2>1, <2>2, <2>3
<1>10. CASE BeginFinished(r) \/ BeginLook(r)
  <2>1. PICK op \in Ops : Begins(r, op, "close", Somebody, pointer) /\ IsOpen(pointer)
    BY <1>10 DEF BeginFinished, BeginLook, Ops
  <2>2. "close" \in Pcs BY DEF Pcs
  <2>3. /\ req' \in [Requests -> ReqType] /\ OthersStay(r) /\ calls' \in 0 .. MaxCalls
        /\ req'[r].pc = "close" /\ req'[r].s = pointer
    BY <1>2, <1>4, <1>5, <2>1, <2>2, BeginsIs
  <2>. QED BY <1>6, <1>9, <2>1, <2>3 DEF Mine
<1>11. CASE BeginOpened(r)
  <2>1. PICK c \in came : Begins(r, "opened", "mapped", c, "none") BY <1>11 DEF BeginOpened
  <2>2. "opened" \in Ops /\ "mapped" \in Pcs BY DEF Ops, Pcs
  <2>3. /\ req' \in [Requests -> ReqType] /\ OthersStay(r) /\ calls' \in 0 .. MaxCalls
        /\ req'[r].pc = "mapped"
    BY <1>2, <1>5, <1>7, <2>1, <2>2, BeginsIs
  <2>. QED BY <1>9, <2>3 DEF Mine
<1>12. CASE BeginHost(r)
  <2>2. "host" \in Ops /\ "pointer" \in Pcs BY DEF Ops, Pcs
  <2>3. /\ req' \in [Requests -> ReqType] /\ OthersStay(r) /\ calls' \in 0 .. MaxCalls
        /\ req'[r].pc = "pointer"
    BY <1>2, <1>4, <1>5, <1>12, <2>2, BeginsIs DEF BeginHost
  <2>. QED BY <1>9, <2>3 DEF Mine
<1>13. CASE HostLeft(r)
  <2>1. PICK pc \in {"close", "touch"} : Begins(r, "host", pc, Somebody, pointer) /\ IsOpen(pointer)
    BY <1>13 DEF HostLeft
  <2>2. "host" \in Ops /\ pc \in Pcs BY DEF Ops, Pcs
  <2>3. /\ req' \in [Requests -> ReqType] /\ OthersStay(r) /\ calls' \in 0 .. MaxCalls
        /\ req'[r].pc = pc /\ req'[r].s = pointer
    BY <1>2, <1>4, <1>5, <2>1, <2>2, BeginsIs
  <2>. QED BY <1>6, <1>9, <2>1, <2>3 DEF Mine
<1>14. CASE BeginBeat(r)
  <2>1. PICK c \in came :
          \/ belongs[c] = "none" /\ Begins(r, "beat", "verify", c, "none")
          \/ /\ <<belongs[c], c>> \in recorded \ left
             /\ \E pc \in {"touch", "verify"} : Begins(r, "beat", pc, c, belongs[c])
    BY <1>14 DEF BeginBeat
  <2>2. PICK pc \in {"touch", "verify"} :
          /\ Begins(r, "beat", pc, c, belongs[c])
          /\ belongs[c] = "none" \/ <<belongs[c], c>> \in recorded
    BY <2>1
  <2>3. "beat" \in Ops /\ pc \in Pcs BY DEF Ops, Pcs
  <2>4. /\ req' \in [Requests -> ReqType] /\ OthersStay(r) /\ calls' \in 0 .. MaxCalls
        /\ req'[r].pc = pc /\ req'[r].s = belongs[c] /\ req'[r].who = c
    BY <1>2, <1>7, <2>2, <2>3, BeginsIs
  <2>5. belongs' = belongs /\ recorded' = recorded BY <1>1
  <2>. QED BY <1>8, <1>9, <2>2, <2>4, <2>5 DEF Mine
<1>15. CASE BeginLeft(r)
  <2>1. PICK c \in came :
          /\ belongs[c] # "none" /\ <<belongs[c], c>> \in recorded
          /\ Begins(r, "left", "end", c, belongs[c])
    BY <1>15 DEF BeginLeft
  <2>3. "left" \in Ops /\ "end" \in Pcs BY DEF Ops, Pcs
  <2>4. /\ req' \in [Requests -> ReqType] /\ OthersStay(r) /\ calls' \in 0 .. MaxCalls
        /\ req'[r].pc = "end" /\ req'[r].s = belongs[c] /\ req'[r].who = c
    BY <1>2, <1>7, <2>1, <2>3, BeginsIs
  <2>5. belongs' = belongs /\ recorded' = recorded BY <1>1
  <2>. QED BY <1>8, <1>9, <2>1, <2>4, <2>5 DEF Mine
<1>. QED BY <1>10, <1>11, <1>12, <1>13, <1>14, <1>15 DEF Begin

\* MovePointer draws a session, that nobody has.
LEMMA DrawnIsNew ==
  ASSUME NEW r \in Requests, MovePointer(r), pointer = req[r].old
  PROVE  /\ pointer' \in Sessions \ Drawn
         /\ GoesWith(r, "write", pointer')
BY DEF MovePointer

\* A call looks for its session.
LEMMA EnsureKept ==
  ASSUME PrayerInstance, Kept, NEW r \in Requests, Ensure(r)
  PROVE  Kept'
<1>. USE DEF Kept, PrayerInstance
<1>1. UNCHANGED <<belongs, recorded, left, livekit, calls, lulls>>
  BY DEF Ensure, ReadPointer, ReadCurrent, CloseStale, MovePointer, WriteSession
<1>2. req \in [Requests -> ReqType] BY DEF TypeOK, ReqType
<1>3. Lasting BY <1>1 DEF Lasting
<1>4. Mine(req[r], belongs, recorded) BY DEF AllMine
<1>5. req[r].old \in SessionOrNone /\ pointer \in SessionOrNone BY <1>2 DEF ReqType, TypeOK
<1>6. session \in [Sessions -> {"none", "open", "ended"}] BY DEF TypeOK
<1>7. {"move", "current", "stale", "write", "map", "touch", "pointer"} \subseteq Pcs BY DEF Pcs
<1>8. InHand(r) \in {"map", "touch"} BY DEF InHand
<1>9. ASSUME /\ req' \in [Requests -> ReqType]
             /\ OthersStay(r)
             /\ Mine(req'[r], belongs', recorded')
             /\ pointer' \in SessionOrNone
             /\ session' \in [Sessions -> {"none", "open", "ended"}]
             /\ stale' \subseteq Sessions
      PROVE  Kept'
  <2>1. AllMine' BY <1>2, <1>3, <1>9, MineLasts
  <2>2. TypeOK' BY <1>1, <1>9 DEF TypeOK, ReqType, livekit
  <2>3. Belonging' BY <1>1 DEF Belonging
  <2>. QED BY <2>1, <2>2, <2>3
<1>10. CASE ReadPointer(r)
  <2> DEFINE pc == IF pointer = "none" THEN "move" ELSE "current"
             n == [req[r] EXCEPT !.old = pointer, !.pc = pc]
  <2>1. req' = [req EXCEPT ![r] = n] BY <1>10 DEF ReadPointer
  <2>2. n \in ReqType BY <1>2, <1>5, <1>7 DEF ReqType
  <2>3. n.pc = pc /\ n.old = pointer BY <1>2 DEF ReqType
  <2>4. Mine(n, belongs', recorded') BY <1>5, <2>3 DEF Mine, SessionOrNone
  <2> HIDE DEF n
  <2>5. req' \in [Requests -> ReqType] /\ OthersStay(r) /\ req'[r] = n BY <1>2, <2>1, <2>2 DEF OthersStay
  <2>6. UNCHANGED <<pointer, session, stale>> BY <1>10 DEF ReadPointer
  <2>. QED BY <1>5, <1>6, <1>9, <2>4, <2>5, <2>6 DEF TypeOK
<1>11. CASE ReadCurrent(r)
  <2>1. UNCHANGED <<pointer, session, stale>> BY <1>11 DEF ReadCurrent
  <2>2. req[r].old \in Sessions BY <1>4, <1>11 DEF ReadCurrent, Mine
  <2>3. \/ GoesWith(r, InHand(r), req[r].old)
        \/ Goes(r, "stale") \/ Goes(r, "move")
    BY <1>11 DEF ReadCurrent
  <2>4. CASE GoesWith(r, InHand(r), req[r].old)
    <3>1. /\ req' \in [Requests -> ReqType] /\ OthersStay(r)
          /\ req'[r].pc = InHand(r) /\ req'[r].s = req[r].old
      BY <1>2, <1>5, <1>7, <1>8, <2>4, GoesWithIs
    <3>. QED BY <1>5, <1>6, <1>8, <1>9, <2>1, <2>2, <3>1 DEF Mine, TypeOK
  <2>5. CASE Goes(r, "stale") \/ Goes(r, "move")
    <3>1. /\ req' \in [Requests -> ReqType] /\ OthersStay(r)
          /\ req'[r].pc \in {"stale", "move"} /\ req'[r].old = req[r].old
      BY <1>2, <1>7, <2>5, GoesIs
    <3>. QED BY <1>5, <1>6, <1>9, <2>1, <2>2, <3>1 DEF Mine, TypeOK
  <2>. QED BY <2>3, <2>4, <2>5
<1>12. CASE CloseStale(r)
  <2>1. /\ UNCHANGED pointer
        /\ session' \in [Sessions -> {"none", "open", "ended"}]
        /\ stale' \subseteq Sessions
    BY <1>6, <1>12 DEF CloseStale, ClosedBefore, Closed, TypeOK
  <2>2. /\ req' \in [Requests -> ReqType] /\ OthersStay(r)
        /\ req'[r].pc = "move"
    BY <1>2, <1>7, <1>12, GoesIs DEF CloseStale
  <2>. QED BY <1>5, <1>9, <2>1, <2>2 DEF Mine
<1>13. CASE MovePointer(r)
  <2>1. UNCHANGED <<session, stale>> BY <1>13 DEF MovePointer
  <2>2. CASE pointer = req[r].old
    <3>1. pointer' \in Sessions /\ GoesWith(r, "write", pointer') BY <1>13, <2>2, DrawnIsNew
    <3>2. pointer' \in SessionOrNone BY <3>1 DEF SessionOrNone
    <3>3. /\ req' \in [Requests -> ReqType] /\ OthersStay(r)
          /\ req'[r].pc = "write" /\ req'[r].s = pointer'
      BY <1>2, <1>7, <3>1, <3>2, GoesWithIs
    <3>. QED BY <1>6, <1>9, <2>1, <3>1, <3>2, <3>3 DEF Mine, TypeOK
  <2>3. CASE pointer # req[r].old
    <3>1. UNCHANGED pointer /\ Goes(r, "pointer") BY <1>13, <2>3 DEF MovePointer
    <3>2. /\ req' \in [Requests -> ReqType] /\ OthersStay(r)
          /\ req'[r].pc = "pointer"
      BY <1>2, <1>7, <3>1, GoesIs
    <3>. QED BY <1>5, <1>6, <1>9, <2>1, <3>1, <3>2 DEF Mine, TypeOK
  <2>. QED BY <2>2, <2>3
<1>14. CASE WriteSession(r)
  <2>1. /\ UNCHANGED <<pointer, stale>>
        /\ session' \in [Sessions -> {"none", "open", "ended"}]
    BY <1>6, <1>14 DEF WriteSession
  <2>2. req[r].s \in Sessions BY <1>4, <1>14 DEF WriteSession, Mine
  <2>3. /\ req' \in [Requests -> ReqType] /\ OthersStay(r)
        /\ req'[r].pc = InHand(r) /\ req'[r].s = req[r].s
    BY <1>2, <1>7, <1>8, <1>14, GoesIs DEF WriteSession
  <2>. QED BY <1>5, <1>8, <1>9, <2>1, <2>2, <2>3 DEF Mine, TypeOK
<1>. QED BY <1>10, <1>11, <1>12, <1>13, <1>14 DEF Ensure

\* A call keeps what it has to.
LEMMA KeepKept ==
  ASSUME PrayerInstance, Kept, NEW r \in Requests, Keep(r)
  PROVE  Kept'
<1>. USE DEF Kept, PrayerInstance
<1>1. UNCHANGED <<pointer, livekit, calls, lulls>>
  BY DEF Keep, ReadMapped, MapConnection, Record, Verify, RecordEnd, Touch, Close
<1>2. req \in [Requests -> ReqType] BY DEF TypeOK, ReqType
<1>3. req[r].who \in Connections /\ req[r].s \in SessionOrNone BY <1>2 DEF ReqType
<1>4. Mine(req[r], belongs, recorded) BY DEF AllMine
<1>5. /\ belongs \in [Connections -> SessionOrNone]
      /\ session \in [Sessions -> {"none", "open", "ended"}]
      /\ stale \subseteq Sessions /\ left \subseteq recorded
      /\ recorded \subseteq Sessions \X Connections
  BY DEF TypeOK
<1>6. {"pointer", "record", "touch", "mapped", "end"} \subseteq Pcs BY DEF Pcs
<1>7. ASSUME /\ req' \in [Requests -> ReqType]
             /\ OthersStay(r)
             /\ Mine(req'[r], belongs', recorded')
             /\ Lasting
             /\ belongs' \in [Connections -> SessionOrNone]
             /\ session' \in [Sessions -> {"none", "open", "ended"}]
             /\ stale' \subseteq Sessions /\ left' \subseteq recorded'
             /\ recorded' \subseteq Sessions \X Connections
             /\ Belonging'
      PROVE  Kept'
  <2>1. AllMine' BY <1>2, <1>7, MineLasts
  <2>2. TypeOK' BY <1>1, <1>7 DEF TypeOK, ReqType, livekit
  <2>. QED BY <1>7, <2>1, <2>2
<1>8. ASSUME /\ req' \in [Requests -> ReqType]
             /\ OthersStay(r)
             /\ Mine(req'[r], belongs', recorded')
             /\ session' \in [Sessions -> {"none", "open", "ended"}]
             /\ stale' \subseteq Sessions /\ left' \subseteq recorded'
             /\ UNCHANGED <<belongs, recorded>>
      PROVE  Kept'
  <2>1. Lasting BY <1>8 DEF Lasting
  <2>2. Belonging' BY <1>8 DEF Belonging
  <2>. QED BY <1>5, <1>7, <1>8, <2>1, <2>2
<1>9. CASE ReadMapped(r)
  <2>1. UNCHANGED <<session, stale, belongs, recorded, left>> BY <1>9 DEF ReadMapped
  <2>2. belongs[req[r].who] \in SessionOrNone BY <1>3, <1>5
  <2>3. CASE belongs[req[r].who] = "none"
    <3>1. /\ req' \in [Requests -> ReqType] /\ OthersStay(r)
          /\ req'[r].pc = "pointer"
      BY <1>2, <1>6, <1>9, <2>3, GoesIs DEF ReadMapped
    <3>. QED BY <1>5, <1>8, <2>1, <3>1 DEF Mine
  <2>4. CASE belongs[req[r].who] # "none"
    <3>1. /\ req' \in [Requests -> ReqType] /\ OthersStay(r)
          /\ req'[r].pc = "record" /\ req'[r].who = req[r].who
          /\ req'[r].s = belongs[req[r].who]
      BY <1>2, <1>6, <1>9, <2>2, <2>4, GoesWithIs DEF ReadMapped
    <3>2. req'[r].s \in Sessions BY <2>2, <2>4, <3>1 DEF SessionOrNone
    <3>. QED BY <1>5, <1>8, <2>1, <3>1, <3>2 DEF Mine
  <2>. QED BY <2>3, <2>4
<1>10. CASE MapConnection(r)
  <2>1. req[r].s \in Sessions BY <1>4, <1>10 DEF MapConnection, Mine
  <2>2. MappedTo(r) \in Sessions BY <1>3, <1>5, <2>1 DEF MappedTo, SessionOrNone
  <2>3. MappedTo(r) \in SessionOrNone BY <2>2 DEF SessionOrNone
  <2>4. belongs' = [belongs EXCEPT ![req[r].who] = MappedTo(r)] BY <1>10 DEF MapConnection
  <2>5. UNCHANGED <<session, stale, recorded, left>> BY <1>10 DEF MapConnection
  <2>6. /\ req' \in [Requests -> ReqType] /\ OthersStay(r)
        /\ req'[r].pc = "record" /\ req'[r].who = req[r].who /\ req'[r].s = MappedTo(r)
    BY <1>2, <1>6, <1>10, <2>3, GoesWithIs DEF MapConnection
  <2>7. belongs[req[r].who] # "none" => MappedTo(r) = belongs[req[r].who] BY DEF MappedTo
  <2>8. /\ belongs' \in [Connections -> SessionOrNone]
        /\ belongs'[req[r].who] = MappedTo(r)
    BY <1>3, <1>5, <2>3, <2>4
  <2>9. \A c \in Connections : belongs[c] # "none" => belongs'[c] = belongs[c]
    BY <1>3, <1>5, <2>4, <2>7
  <2>10. Lasting BY <2>5, <2>9 DEF Lasting
  <2>11. Belonging' BY <2>5, <2>9 DEF Belonging
  <2>12. Mine(req'[r], belongs', recorded') BY <2>2, <2>6, <2>8 DEF Mine
  <2>. QED BY <1>5, <1>7, <2>5, <2>6, <2>8, <2>10, <2>11, <2>12
<1>11. CASE Record(r)
  <2>1. req[r].s \in Sessions /\ req[r].s = belongs[req[r].who]
    BY <1>4, <1>11 DEF Record, Mine
  <2>2. /\ recorded' = recorded \cup {<<req[r].s, req[r].who>>}
        /\ UNCHANGED <<session, stale, belongs, left>>
    BY <1>11 DEF Record
  <2>3. /\ req' \in [Requests -> ReqType] /\ OthersStay(r)
        /\ req'[r].pc = "touch"
    BY <1>2, <1>6, <1>11, GoesIs DEF Record
  <2>4. Lasting BY <2>2 DEF Lasting
  <2>5. recorded' \subseteq Sessions \X Connections /\ left' \subseteq recorded'
    BY <1>3, <1>5, <2>1, <2>2
  <2>6. Belonging' BY <2>1, <2>2 DEF Belonging
  <2>7. Mine(req'[r], belongs', recorded') BY <2>3 DEF Mine
  <2>. QED BY <1>5, <1>7, <2>2, <2>3, <2>4, <2>5, <2>6, <2>7
<1>12. CASE Verify(r)
  <2>1. UNCHANGED <<session, stale, belongs, recorded, left>> BY <1>12 DEF Verify
  <2>2. req[r].pc = "verify" BY <1>12 DEF Verify
  <2>3. \/ Goes(r, "mapped") \/ Goes(r, "touch")
        \/ Done(r)
        \/ Goes(r, "end") /\ req[r].s # "none"
    BY <1>12 DEF Verify
  <2>4. CASE Goes(r, "mapped") \/ Goes(r, "touch")
    <3>1. /\ req' \in [Requests -> ReqType] /\ OthersStay(r)
          /\ req'[r].pc \in {"mapped", "touch"}
      BY <1>2, <1>6, <2>4, GoesIs
    <3>. QED BY <1>5, <1>8, <2>1, <3>1 DEF Mine
  <2>5. CASE Done(r)
    <3>1. /\ req' \in [Requests -> ReqType] /\ OthersStay(r)
          /\ req'[r].pc = "idle"
      BY <1>2, <2>5, DoneIs
    <3>. QED BY <1>5, <1>8, <2>1, <3>1 DEF Mine
  <2>6. CASE Goes(r, "end") /\ req[r].s # "none"
    <3>1. /\ req' \in [Requests -> ReqType] /\ OthersStay(r)
          /\ req'[r].pc = "end" /\ req'[r].s = req[r].s /\ req'[r].who = req[r].who
      BY <1>2, <1>6, <2>6, GoesIs
    <3>2. Mine(req'[r], belongs', recorded') BY <1>4, <2>1, <2>2, <2>6, <3>1 DEF Mine
    <3>. QED BY <1>5, <1>8, <2>1, <3>1, <3>2
  <2>. QED BY <2>3, <2>4, <2>5, <2>6
<1>13. CASE RecordEnd(r)
  <2>1. <<req[r].s, req[r].who>> \in recorded BY <1>4, <1>13 DEF RecordEnd, Mine
  <2>2. /\ left' = left \cup {<<req[r].s, req[r].who>>}
        /\ UNCHANGED <<session, stale, belongs, recorded>>
    BY <1>13 DEF RecordEnd
  <2>3. /\ req' \in [Requests -> ReqType] /\ OthersStay(r)
        /\ req'[r].pc = "touch"
    BY <1>2, <1>6, <1>13, GoesIs DEF RecordEnd
  <2>. QED BY <1>5, <1>8, <2>1, <2>2, <2>3 DEF Mine
<1>14. CASE Touch(r)
  <2>1. /\ UNCHANGED <<session, belongs, recorded, left>>
        /\ stale' \subseteq Sessions
    BY <1>5, <1>14 DEF Touch
  <2>2. /\ req' \in [Requests -> ReqType] /\ OthersStay(r)
        /\ req'[r].pc = "idle"
    BY <1>2, <1>14, DoneIs DEF Touch
  <2>. QED BY <1>5, <1>8, <2>1, <2>2 DEF Mine
<1>15. CASE Close(r)
  <2>1. /\ UNCHANGED <<belongs, recorded, left>>
        /\ session' \in [Sessions -> {"none", "open", "ended"}]
        /\ stale' \subseteq Sessions
    BY <1>5, <1>15 DEF Close, Closed
  <2>2. /\ req' \in [Requests -> ReqType] /\ OthersStay(r)
        /\ req'[r].pc = "idle"
    BY <1>2, <1>15, DoneIs DEF Close
  <2>. QED BY <1>5, <1>8, <2>1, <2>2 DEF Mine
<1>. QED BY <1>9, <1>10, <1>11, <1>12, <1>13, <1>14, <1>15 DEF Keep

LEMMA KeptIsInvariant == PrayerInstance => (Spec => []Kept)
<1>. SUFFICES ASSUME PrayerInstance PROVE Spec => []Kept OBVIOUS
<1>1. Init => Kept BY InitKept
<1>2. Kept /\ [Next]_vars => Kept'
  <2>1. CASE Next BY <2>1, OutsideKept, BeginKept, EnsureKept, KeepKept DEF Next
  <2>2. CASE UNCHANGED vars BY <2>2 DEF vars, livekit, Kept, TypeOK, AllMine, Belonging
  <2>. QED BY <2>1, <2>2
<1>. QED BY <1>1, <1>2, PTL DEF Spec

\* Every variable has its type, in any number of calls and connections: in
\* particular nobody is recorded as gone who was not recorded as there.
THEOREM PrayerTypeCorrect == PrayerInstance => (Spec => []TypeOK)
<1>1. Kept => TypeOK BY DEF Kept
<1>. QED BY <1>1, KeptIsInvariant, PTL

\* A visitor's time is counted once: a connection is recorded in one session,
\* whoever is first, late or repeated, nothing being kept apart.
THEOREM CountsOnce == PrayerInstance => (Spec => []CountedOnce)
<1>1. Kept => CountedOnce BY DEF Kept, Belonging, CountedOnce
<1>. QED BY <1>1, KeptIsInvariant, PTL

----------------------------------------------------------------------------
(* One session, with reads of the pointer kept apart: who reads it finds   *)
(* nothing or a session that is written, so that whoever moves it moves it *)
(* off one that has ended, and nobody moves it off one being written.      *)

\* What a call has read is written, what it moves the pointer off has ended,
\* what it writes is current and not there yet, what it closes is there.
Turn(q, current, sess) ==
  /\ q.pc \in {"current", "stale"} => sess[q.old] # "none"
  /\ q.pc = "move" => q.old = "none" \/ sess[q.old] = "ended"
  /\ q.pc = "write" => q.s = current /\ sess[q.s] = "none"
  /\ q.pc = "close" => sess[q.s] # "none"

AllTurn == \A r \in Requests : Turn(req[r], pointer, session)

\* The current session is there or being written, by one call.
CurrentIsThere == pointer # "none" => session[pointer] # "none" \/ BeingWritten
OneWriter == \A q, r \in Requests : req[q].pc = "write" /\ req[r].pc = "write" => q = r

Single == AllTurn /\ CurrentIsThere /\ OneWriter /\ OneSession

\* Sessions that are there stay, the ended ones ended; none is opened.
NoneOpened ==
  \A s \in Sessions :
    /\ session'[s] = "none" <=> session[s] = "none"
    /\ session[s] = "ended" => session'[s] = "ended"
    /\ session'[s] = "open" => session[s] = "open"

LEMMA QuietSingle ==
  ASSUME Kept, Single, NEW r \in Requests, OthersStay(r),
         UNCHANGED pointer, NoneOpened,
         req[r].pc # "write", req'[r].pc # "write",
         Turn(req'[r], pointer', session')
  PROVE  Single'
<1>1. AllTurn'
  <2>1. SUFFICES ASSUME NEW q \in Requests, q # r PROVE Turn(req'[q], pointer', session')
    BY DEF AllTurn
  <2>2. req'[q] = req[q] BY <2>1 DEF OthersStay
  <2>3. Turn(req[q], pointer, session) BY DEF Single, AllTurn
  <2>4. Mine(req[q], belongs, recorded) /\ req[q].old \in SessionOrNone
    BY DEF Kept, AllMine, TypeOK
  <2>. QED BY <2>2, <2>3, <2>4 DEF Turn, Mine, NoneOpened, SessionOrNone
<1>2. \A q \in Requests : req'[q].pc = "write" <=> req[q].pc = "write" BY DEF OthersStay
<1>3. CurrentIsThere'
  <2>1. pointer # "none" => pointer \in Sessions BY DEF Kept, TypeOK, SessionOrNone
  <2>. QED BY <1>2, <2>1 DEF Single, CurrentIsThere, BeingWritten, NoneOpened
<1>4. OneWriter' BY <1>2 DEF Single, OneWriter
<1>5. OneSession' BY DEF Single, OneSession, NoneOpened
<1>. QED BY <1>1, <1>3, <1>4, <1>5 DEF Single

LEMMA InitSingle == ASSUME PrayerInstance, Init PROVE Single
<1>1. \A r \in Requests : req[r].pc = "idle" BY DEF Init, Idle
<1>2. AllTurn BY <1>1 DEF AllTurn, Turn
<1>3. CurrentIsThere /\ OneWriter /\ OneSession BY <1>1 DEF Init, CurrentIsThere, OneWriter, OneSession
<1>. QED BY <1>2, <1>3 DEF Single

LEMMA BeginSingle ==
  ASSUME PrayerInstance, Kept, Single, NEW r \in Requests, Begin(r)
  PROVE  Single'
<1>. USE DEF PrayerInstance
<1>1. UNCHANGED <<pointer, session, stale, belongs, recorded, left, livekit, lulls>>
  BY DEF Begin, BeginFinished, BeginLook, BeginOpened, BeginHost, HostLeft, BeginBeat, BeginLeft
<1>2. /\ req \in [Requests -> ReqType] /\ calls \in 0 .. MaxCalls
      /\ pointer \in SessionOrNone /\ came \subseteq Connections
      /\ belongs \in [Connections -> SessionOrNone]
  BY DEF Kept, TypeOK, ReqType
<1>3. Somebody \in Connections BY IdleIsACall
<1>4. "none" \in SessionOrNone BY DEF SessionOrNone
<1>5. PICK op \in Ops, pc \in Pcs, c \in Connections, s \in SessionOrNone :
        /\ Begins(r, op, pc, c, s)
        /\ pc \in {"close", "mapped", "pointer", "touch", "verify", "end"}
        /\ pc = "close" => IsOpen(s)
  <2>1. {"opened", "host", "beat", "left", "look", "finished"} \subseteq Ops BY DEF Ops
  <2>2. {"close", "mapped", "pointer", "touch", "verify", "end"} \subseteq Pcs BY DEF Pcs
  <2>3. CASE BeginFinished(r) BY <1>2, <1>3, <2>1, <2>2, <2>3 DEF BeginFinished
  <2>4. CASE BeginLook(r) BY <1>2, <1>3, <2>1, <2>2, <2>4 DEF BeginLook
  <2>5. CASE BeginOpened(r) BY <1>2, <1>4, <2>1, <2>2, <2>5 DEF BeginOpened
  <2>6. CASE BeginHost(r) BY <1>3, <1>4, <2>1, <2>2, <2>6 DEF BeginHost
  <2>7. CASE HostLeft(r)
    <3>1. PICK pc \in {"close", "touch"} : Begins(r, "host", pc, Somebody, pointer) /\ IsOpen(pointer)
      BY <2>7 DEF HostLeft
    <3>. QED BY <1>2, <1>3, <2>1, <2>2, <3>1
  <2>8. CASE BeginBeat(r)
    <3>1. PICK c \in came, pc \in {"touch", "verify"} : Begins(r, "beat", pc, c, belongs[c])
      BY <2>8 DEF BeginBeat
    <3>. QED BY <1>2, <2>1, <2>2, <3>1
  <2>9. CASE BeginLeft(r) BY <1>2, <2>1, <2>2, <2>9 DEF BeginLeft
  <2>. QED BY <2>3, <2>4, <2>5, <2>6, <2>7, <2>8, <2>9 DEF Begin
<1>6. /\ OthersStay(r)
      /\ req'[r].pc = pc /\ req'[r].s = s /\ req[r].pc = "idle"
  BY <1>2, <1>5, BeginsIs
<1>7. Turn(req'[r], pointer', session') BY <1>1, <1>5, <1>6 DEF Turn, IsOpen
<1>8. NoneOpened BY <1>1 DEF NoneOpened
<1>. QED BY <1>1, <1>5, <1>6, <1>7, <1>8, QuietSingle

\* A call draws a session and makes it the current one.
LEMMA MoveSingle ==
  ASSUME PrayerInstance, Kept, Single, NEW r \in Requests, MovePointer(r), pointer = req[r].old
  PROVE  Single'
<1>. USE DEF PrayerInstance
<1>1. /\ req \in [Requests -> ReqType]
      /\ session \in [Sessions -> {"none", "open", "ended"}]
      /\ pointer \in SessionOrNone
  BY DEF Kept, TypeOK, ReqType
<1>2. req[r].pc = "move" /\ UNCHANGED session BY DEF MovePointer
<1>3. pointer = "none" \/ (pointer \in Sessions /\ session[pointer] = "ended")
  BY <1>1, <1>2 DEF Single, AllTurn, Turn, SessionOrNone
<1>4. pointer' \in Sessions \ Drawn /\ GoesWith(r, "write", pointer') BY DrawnIsNew
<1>5. /\ session[pointer'] = "none"
      /\ \A q \in Requests : req[q].s # pointer'
  BY <1>1, <1>4 DEF Drawn
<1>6. OthersStay(r) /\ req'[r].pc = "write" /\ req'[r].s = pointer'
  <2>1. "write" \in Pcs /\ pointer' \in SessionOrNone BY <1>4 DEF Pcs, SessionOrNone
  <2>. QED BY <1>1, <1>4, <2>1, GoesWithIs
<1>7. \A q \in Requests : req[q].pc # "write"
  <2>1. SUFFICES ASSUME NEW q \in Requests, req[q].pc = "write" PROVE FALSE OBVIOUS
  <2>2. req[q].s = pointer /\ session[req[q].s] = "none" BY <2>1 DEF Single, AllTurn, Turn
  <2>3. req[q].s \in Sessions BY <2>1 DEF Kept, AllMine, Mine
  <2>. QED BY <1>3, <2>2, <2>3
<1>8. AllTurn'
  <2>1. Turn(req'[r], pointer', session') BY <1>2, <1>5, <1>6 DEF Turn
  <2>2. ASSUME NEW q \in Requests, q # r PROVE Turn(req'[q], pointer', session')
    <3>1. req'[q] = req[q] BY <1>6, <2>2 DEF OthersStay
    <3>2. Turn(req[q], pointer, session) BY DEF Single, AllTurn
    <3>. QED BY <1>2, <1>7, <3>1, <3>2 DEF Turn
  <2>. QED BY <2>1, <2>2 DEF AllTurn
<1>9. CurrentIsThere' BY <1>6 DEF CurrentIsThere, BeingWritten
<1>10. OneWriter' BY <1>6, <1>7 DEF OneWriter, OthersStay
<1>11. OneSession' BY <1>2, <1>3 DEF Single, OneSession
<1>. QED BY <1>8, <1>9, <1>10, <1>11 DEF Single

\* A call writes the session it has drawn.
LEMMA WriteSingle ==
  ASSUME PrayerInstance, Kept, Single, NEW r \in Requests, WriteSession(r)
  PROVE  Single'
<1>. USE DEF PrayerInstance
<1>1. /\ req \in [Requests -> ReqType]
      /\ session \in [Sessions -> {"none", "open", "ended"}]
  BY DEF Kept, TypeOK, ReqType
<1>2. /\ req[r].pc = "write" /\ UNCHANGED pointer
      /\ session' = [session EXCEPT ![req[r].s] = "open"]
      /\ Goes(r, InHand(r))
  BY DEF WriteSession
<1>3. req[r].s \in Sessions BY <1>2 DEF Kept, AllMine, Mine
<1>4. req[r].s = pointer /\ session[pointer] = "none" BY <1>2 DEF Single, AllTurn, Turn
<1>5. OthersStay(r) /\ req'[r].pc \in {"map", "touch"}
  <2>1. InHand(r) \in Pcs /\ InHand(r) \in {"map", "touch"} BY DEF InHand, Pcs
  <2>. QED BY <1>1, <1>2, <2>1, GoesIs
<1>6. \A q \in Requests : q # r => req[q].pc # "write" BY <1>2 DEF Single, OneWriter
<1>7. \A s \in Sessions : session'[s] = IF s = pointer THEN "open" ELSE session[s]
  BY <1>1, <1>2, <1>3, <1>4
<1>8. AllTurn'
  <2>1. Turn(req'[r], pointer', session') BY <1>5 DEF Turn
  <2>2. ASSUME NEW q \in Requests, q # r PROVE Turn(req'[q], pointer', session')
    <3>1. req'[q] = req[q] BY <1>5, <2>2 DEF OthersStay
    <3>2. Turn(req[q], pointer, session) BY DEF Single, AllTurn
    <3>3. Mine(req[q], belongs, recorded) /\ req[q].old \in SessionOrNone
      BY <1>1 DEF Kept, AllMine, ReqType
    <3>4. req[q].pc # "write" BY <1>6, <2>2
    <3>. QED BY <1>3, <1>4, <1>7, <3>1, <3>2, <3>3, <3>4 DEF Turn, Mine, SessionOrNone
  <2>. QED BY <2>1, <2>2 DEF AllTurn
<1>9. CurrentIsThere' BY <1>2, <1>3, <1>4, <1>7 DEF CurrentIsThere
<1>10. OneWriter' BY <1>5, <1>6 DEF OneWriter, OthersStay
<1>11. OneSession' BY <1>2, <1>7 DEF Single, OneSession
<1>. QED BY <1>8, <1>9, <1>10, <1>11 DEF Single

\* A call reads the pointer or what it names, or closes it.
LEMMA EnsureSingle ==
  ASSUME PrayerInstance, Apart, Kept, Single, NEW r \in Requests, Ensure(r)
  PROVE  Single'
<1>. USE DEF PrayerInstance
<1>1. /\ req \in [Requests -> ReqType]
      /\ session \in [Sessions -> {"none", "open", "ended"}]
      /\ pointer \in SessionOrNone
  BY DEF Kept, TypeOK, ReqType
<1>2. {"move", "current", "stale", "write", "map", "touch", "pointer"} \subseteq Pcs BY DEF Pcs
<1>3. Turn(req[r], pointer, session) /\ Mine(req[r], belongs, recorded)
  BY DEF Single, AllTurn, Kept, AllMine
<1>4. req[r].old \in SessionOrNone BY <1>1 DEF ReqType
<1>5. CASE ReadPointer(r)
  <2> DEFINE pc == IF pointer = "none" THEN "move" ELSE "current"
             n == [req[r] EXCEPT !.old = pointer, !.pc = pc]
  <2>1. req' = [req EXCEPT ![r] = n] /\ req[r].pc = "pointer" /\ UNCHANGED <<pointer, session>>
    BY <1>5 DEF ReadPointer
  <2>2. n.pc = pc /\ n.old = pointer BY <1>1 DEF ReqType
  <2>3. pointer # "none" => session[pointer] # "none"
    BY <1>5 DEF ReadPointer, Single, CurrentIsThere
  <2>4. Turn(n, pointer', session') BY <2>1, <2>2, <2>3 DEF Turn
  <2>5. n.pc # "write" BY <2>2
  <2> HIDE DEF n
  <2>6. OthersStay(r) /\ req'[r] = n BY <1>1, <2>1 DEF OthersStay
  <2>7. NoneOpened BY <2>1 DEF NoneOpened
  <2>. QED BY <2>1, <2>4, <2>5, <2>6, <2>7, QuietSingle
<1>6. CASE ReadCurrent(r)
  <2>1. UNCHANGED <<pointer, session>> /\ req[r].pc = "current" BY <1>6 DEF ReadCurrent
  <2>2. session[req[r].old] # "none" /\ req[r].old \in Sessions BY <1>3, <2>1 DEF Turn, Mine
  <2>3. \/ GoesWith(r, InHand(r), req[r].old)
        \/ Goes(r, "stale")
        \/ Goes(r, "move") /\ ~IsOpen(req[r].old)
    BY <1>6 DEF ReadCurrent
  <2>4. NoneOpened BY <2>1 DEF NoneOpened
  <2>5. CASE GoesWith(r, InHand(r), req[r].old)
    <3>1. InHand(r) \in {"map", "touch"} BY DEF InHand
    <3>2. OthersStay(r) /\ req'[r].pc = InHand(r) BY <1>1, <1>2, <1>4, <2>5, <3>1, GoesWithIs
    <3>. QED BY <2>1, <2>4, <3>1, <3>2, QuietSingle DEF Turn
  <2>6. CASE Goes(r, "stale")
    <3>1. OthersStay(r) /\ req'[r].pc = "stale" /\ req'[r].old = req[r].old
      BY <1>1, <1>2, <2>6, GoesIs
    <3>. QED BY <2>1, <2>2, <2>4, <3>1, QuietSingle DEF Turn
  <2>7. CASE Goes(r, "move") /\ ~IsOpen(req[r].old)
    <3>1. OthersStay(r) /\ req'[r].pc = "move" /\ req'[r].old = req[r].old
      BY <1>1, <1>2, <2>7, GoesIs
    <3>2. session[req[r].old] = "ended" BY <1>1, <2>2, <2>7 DEF IsOpen
    <3>. QED BY <2>1, <2>4, <3>1, <3>2, QuietSingle DEF Turn
  <2>. QED BY <2>3, <2>5, <2>6, <2>7
<1>7. CASE CloseStale(r)
  <2>1. /\ UNCHANGED pointer /\ req[r].pc = "stale"
        /\ session' = [session EXCEPT ![req[r].old] = "ended"]
    BY <1>7 DEF CloseStale, ClosedBefore, Closed
  <2>2. session[req[r].old] # "none" /\ req[r].old \in Sessions BY <1>3, <2>1 DEF Turn, Mine
  <2>3. NoneOpened BY <1>1, <2>1, <2>2 DEF NoneOpened
  <2>4. OthersStay(r) /\ req'[r].pc = "move" /\ req'[r].old = req[r].old
    BY <1>1, <1>2, <1>7, GoesIs DEF CloseStale
  <2>5. session'[req[r].old] = "ended" BY <1>1, <2>1, <2>2
  <2>. QED BY <2>1, <2>3, <2>4, <2>5, QuietSingle DEF Turn
<1>8. CASE MovePointer(r)
  <2>1. CASE pointer = req[r].old BY <1>8, <2>1, MoveSingle
  <2>2. CASE pointer # req[r].old
    <3>1. /\ UNCHANGED <<pointer, session>> /\ Goes(r, "pointer") /\ req[r].pc = "move"
      BY <1>8, <2>2 DEF MovePointer
    <3>2. OthersStay(r) /\ req'[r].pc = "pointer" BY <1>1, <1>2, <3>1, GoesIs
    <3>3. NoneOpened BY <3>1 DEF NoneOpened
    <3>. QED BY <3>1, <3>2, <3>3, QuietSingle DEF Turn
  <2>. QED BY <2>1, <2>2
<1>9. CASE WriteSession(r) BY <1>9, WriteSingle
<1>. QED BY <1>5, <1>6, <1>7, <1>8, <1>9 DEF Ensure

\* What a call keeps of its connection leaves the sessions alone; a close
\* ends one that is there.
LEMMA KeepSingle ==
  ASSUME PrayerInstance, Kept, Single, NEW r \in Requests, Keep(r)
  PROVE  Single'
<1>. USE DEF PrayerInstance
<1>1. /\ req \in [Requests -> ReqType]
      /\ session \in [Sessions -> {"none", "open", "ended"}]
      /\ belongs \in [Connections -> SessionOrNone]
  BY DEF Kept, TypeOK, ReqType
<1>2. req[r].who \in Connections /\ req[r].s \in SessionOrNone BY <1>1 DEF ReqType
<1>3. Turn(req[r], pointer, session) /\ Mine(req[r], belongs, recorded)
  BY DEF Single, AllTurn, Kept, AllMine
<1> DEFINE Places == {"pointer", "record", "touch", "mapped", "end"}
<1>4. Places \subseteq Pcs BY DEF Pcs
<1>5. CASE Close(r)
  <2>1. /\ UNCHANGED pointer /\ req[r].pc = "close"
        /\ session' = [session EXCEPT ![req[r].s] = "ended"]
    BY <1>5 DEF Close, Closed
  <2>2. session[req[r].s] # "none" /\ req[r].s \in Sessions BY <1>3, <2>1 DEF Turn, Mine
  <2>3. NoneOpened BY <1>1, <2>1, <2>2 DEF NoneOpened
  <2>4. OthersStay(r) /\ req'[r].pc = "idle" BY <1>1, <1>5, DoneIs DEF Close
  <2>. QED BY <2>1, <2>3, <2>4, QuietSingle DEF Turn
<1>6. CASE ReadMapped(r) \/ MapConnection(r) \/ Record(r) \/ Verify(r) \/ RecordEnd(r) \/ Touch(r)
  <2>1. UNCHANGED <<pointer, session>> /\ req[r].pc # "write"
    BY <1>6 DEF ReadMapped, MapConnection, Record, Verify, RecordEnd, Touch
  <2>2. NoneOpened BY <2>1 DEF NoneOpened
  <2>3. \/ \E pc \in Places : Goes(r, pc)
        \/ \E pc \in Places, s \in SessionOrNone : GoesWith(r, pc, s)
        \/ Done(r)
    <3>1. CASE ReadMapped(r)
      <4>1. belongs[req[r].who] \in SessionOrNone BY <1>1, <1>2
      <4>. QED BY <3>1, <4>1 DEF ReadMapped
    <3>2. CASE MapConnection(r)
      <4>1. MappedTo(r) \in SessionOrNone BY <1>1, <1>2 DEF MappedTo
      <4>. QED BY <3>2, <4>1 DEF MapConnection
    <3>3. CASE Record(r) \/ Verify(r) \/ RecordEnd(r) \/ Touch(r)
      BY <3>3 DEF Record, Verify, RecordEnd, Touch
    <3>. QED BY <1>6, <3>1, <3>2, <3>3
  <2>4. OthersStay(r) /\ req'[r].pc \in Places \cup {"idle"}
    BY <1>1, <1>4, <2>3, GoesIs, GoesWithIs, DoneIs
  <2>. QED BY <2>1, <2>2, <2>4, QuietSingle DEF Turn
<1>. QED BY <1>5, <1>6 DEF Keep

\* Whatever is open is the zone's current session, in any number of calls,
\* late, repeated and in any order, as long as nobody reads the pointer
\* between the move of it and the write of the session it names.  (Without
\* that it is false: the run one_session.)
THEOREM OpenIsCurrent == PrayerInstance /\ Apart => (Spec => []OneSession)
<1>. SUFFICES ASSUME PrayerInstance, Apart PROVE Spec => []OneSession OBVIOUS
<1>1. Init => Single BY InitSingle
<1>2. Kept /\ Single /\ [Next]_vars => Single'
  <2>1. CASE \/ \E c \in Connections : Connect(c) \/ Disconnect(c)
             \/ \E s \in Sessions : GoesStale(s)
    <3>1. UNCHANGED <<pointer, session, req>> BY <2>1 DEF Connect, Disconnect, GoesStale
    <3>. QED BY <3>1 DEF Single, AllTurn, CurrentIsThere, BeingWritten, OneWriter, OneSession
  <2>2. CASE \E r \in Requests : Begin(r) \/ Ensure(r) \/ Keep(r)
    BY <2>2, BeginSingle, EnsureSingle, KeepSingle
  <2>3. CASE UNCHANGED vars
    BY <2>3 DEF vars, Single, AllTurn, CurrentIsThere, BeingWritten, OneWriter, OneSession
  <2>. QED BY <2>1, <2>2, <2>3 DEF Next
<1>3. Single => OneSession BY DEF Single
<1>4. Spec => []Kept BY KeptIsInvariant
<1>. QED BY <1>1, <1>2, <1>3, <1>4, PTL DEF Spec

----------------------------------------------------------------------------
(* The waiting room's theorems, which are those of WaitingRoom.            *)

\* WaitingRoom with what is proved of it, requests in turn and overlapping.
WaitProofs == INSTANCE WaitingRoom_proofs WITH
  Requests <- Handlers, Ops <- HostOps, Serial <- TRUE, req <- asking
HeardProofs == INSTANCE WaitingRoom_proofs WITH
  People <- Askers, Invited <- {}, Requests <- Handlers, Ops <- AnyOps,
  MaxSessions <- MaxHeard, Serial <- FALSE, req <- asking

\* Instances of one module by two ways are the same.
LEMMA WaitingSame ==
  /\ Waiting!Init => WaitProofs!Init
  /\ [Waiting!Next]_waitingVars => [WaitProofs!Next]_(WaitProofs!vars)
  /\ WaitProofs!TypeOK => Waiting!TypeOK
  /\ WaitProofs!AdmissionEnds => Waiting!AdmissionEnds
  /\ WaitProofs!KeepsAnswers => Waiting!KeepsAnswers
<1>1. Waiting!Init => WaitProofs!Init
  BY DEF
    Waiting!Init, Waiting!Empty, Waiting!Slots, Waiting!Idle, Waiting!Request, Waiting!Nobody,
    WaitProofs!Init, WaitProofs!Empty, WaitProofs!Slots, WaitProofs!Idle, WaitProofs!Request,
    WaitProofs!Nobody
<1>2. [Waiting!Next]_waitingVars => [WaitProofs!Next]_(WaitProofs!vars)
  BY DEF waitingVars,
    Waiting!Next, Waiting!BeginKnock, Waiting!KnockInvited, Waiting!Take, Waiting!Idle,
    Waiting!Request, Waiting!Nobody, Waiting!Empty, Waiting!Slots, Waiting!KnockNew,
    Waiting!Answered, Waiting!RefusalHolds, Waiting!KnockAgain, Waiting!livekit,
    Waiting!KnockSteps, Waiting!ReadLastKnock, Waiting!Goes, Waiting!NoteKnock, Waiting!Done,
    Waiting!NoteKnockFails, Waiting!KnockExpires, Waiting!RefusalSpent, Waiting!Spent,
    Waiting!GetToken, Waiting!GetTokenUnasked, Waiting!Issue, Waiting!PassesGate, Waiting!Connect,
    Waiting!Leave, Waiting!BeginDecide,
    Waiting!Asked, Waiting!BeginSet, Waiting!BeginEnqueue, Waiting!BeginEdit,
    Waiting!ReceiveRoomFinished, Waiting!Cleared, Waiting!UpdateSteps, Waiting!UpdateRead,
    Waiting!UpdateWrite, Waiting!Patched, Waiting!RoomCloses, Waiting!vars, WaitProofs!Next,
    WaitProofs!BeginKnock, WaitProofs!KnockInvited, WaitProofs!Take, WaitProofs!Idle,
    WaitProofs!Request, WaitProofs!Nobody, WaitProofs!Empty, WaitProofs!Slots,
    WaitProofs!KnockNew, WaitProofs!Answered, WaitProofs!RefusalHolds, WaitProofs!KnockAgain,
    WaitProofs!livekit, WaitProofs!KnockSteps, WaitProofs!ReadLastKnock, WaitProofs!Goes,
    WaitProofs!NoteKnock, WaitProofs!Done, WaitProofs!NoteKnockFails, WaitProofs!KnockExpires,
    WaitProofs!RefusalSpent, WaitProofs!Spent, WaitProofs!GetToken, WaitProofs!GetTokenUnasked,
    WaitProofs!Issue, WaitProofs!PassesGate,
    WaitProofs!Connect, WaitProofs!Leave, WaitProofs!BeginDecide, WaitProofs!Asked,
    WaitProofs!BeginSet, WaitProofs!BeginEnqueue, WaitProofs!BeginEdit,
    WaitProofs!ReceiveRoomFinished, WaitProofs!Cleared, WaitProofs!UpdateSteps,
    WaitProofs!UpdateRead, WaitProofs!UpdateWrite, WaitProofs!Patched, WaitProofs!RoomCloses,
    WaitProofs!vars
<1>3. WaitProofs!TypeOK => Waiting!TypeOK
  BY DEF
    Waiting!TypeOK, Waiting!Records, Waiting!Statuses, Waiting!Slots, Waiting!OpNames,
    Waiting!Pcs, WaitProofs!TypeOK, WaitProofs!Records, WaitProofs!Statuses, WaitProofs!Slots,
    WaitProofs!OpNames, WaitProofs!Pcs
<1>4. WaitProofs!AdmissionEnds => Waiting!AdmissionEnds
  BY DEF
    Waiting!AdmissionEnds, Waiting!Slots, Waiting!Admitted, WaitProofs!AdmissionEnds,
    WaitProofs!Slots, WaitProofs!Admitted
<1>5. WaitProofs!KeepsAnswers => Waiting!KeepsAnswers
  BY DEF
    Waiting!KeepsAnswers, Waiting!AnswerKept, Waiting!Admitted, Waiting!Writing, Waiting!Slots,
    WaitProofs!KeepsAnswers, WaitProofs!AnswerKept, WaitProofs!Admitted, WaitProofs!Writing,
    WaitProofs!Slots
<1>. QED BY <1>1, <1>2, <1>3, <1>4, <1>5

\* So are they with requests overlapping.
LEMMA HeardSame ==
  /\ Heard!Init => HeardProofs!Init
  /\ [Heard!Next]_waitingVars => [HeardProofs!Next]_(HeardProofs!vars)
  /\ HeardProofs!TypeOK => Heard!TypeOK
<1>1. Heard!Init => HeardProofs!Init
  BY DEF
    Heard!Init, Heard!Empty, Heard!Slots, Heard!Idle, Heard!Request, Heard!Nobody,
    HeardProofs!Init, HeardProofs!Empty, HeardProofs!Slots, HeardProofs!Idle,
    HeardProofs!Request, HeardProofs!Nobody
<1>2. [Heard!Next]_waitingVars => [HeardProofs!Next]_(HeardProofs!vars)
  BY DEF waitingVars,
    Heard!Next, Heard!BeginKnock, Heard!KnockInvited, Heard!Take, Heard!Idle, Heard!Request,
    Heard!Nobody, Heard!Empty, Heard!Slots, Heard!KnockNew, Heard!Answered, Heard!RefusalHolds,
    Heard!KnockAgain, Heard!livekit, Heard!KnockSteps, Heard!ReadLastKnock, Heard!Goes,
    Heard!NoteKnock, Heard!Done, Heard!NoteKnockFails, Heard!KnockExpires, Heard!RefusalSpent,
    Heard!Spent, Heard!GetToken, Heard!GetTokenUnasked, Heard!Issue, Heard!PassesGate, Heard!Connect, Heard!Leave,
    Heard!BeginDecide, Heard!Asked, Heard!BeginSet, Heard!BeginEnqueue, Heard!BeginEdit,
    Heard!ReceiveRoomFinished, Heard!Cleared, Heard!UpdateSteps, Heard!UpdateRead,
    Heard!UpdateWrite, Heard!Patched, Heard!RoomCloses, Heard!vars, HeardProofs!Next,
    HeardProofs!BeginKnock, HeardProofs!KnockInvited, HeardProofs!Take, HeardProofs!Idle,
    HeardProofs!Request, HeardProofs!Nobody, HeardProofs!Empty, HeardProofs!Slots,
    HeardProofs!KnockNew, HeardProofs!Answered, HeardProofs!RefusalHolds,
    HeardProofs!KnockAgain, HeardProofs!livekit, HeardProofs!KnockSteps,
    HeardProofs!ReadLastKnock, HeardProofs!Goes, HeardProofs!NoteKnock, HeardProofs!Done,
    HeardProofs!NoteKnockFails, HeardProofs!KnockExpires, HeardProofs!RefusalSpent,
    HeardProofs!Spent, HeardProofs!GetToken, HeardProofs!GetTokenUnasked, HeardProofs!Issue,
    HeardProofs!PassesGate, HeardProofs!Connect,
    HeardProofs!Leave, HeardProofs!BeginDecide, HeardProofs!Asked, HeardProofs!BeginSet,
    HeardProofs!BeginEnqueue, HeardProofs!BeginEdit, HeardProofs!ReceiveRoomFinished,
    HeardProofs!Cleared, HeardProofs!UpdateSteps, HeardProofs!UpdateRead,
    HeardProofs!UpdateWrite, HeardProofs!Patched, HeardProofs!RoomCloses, HeardProofs!vars
<1>3. HeardProofs!TypeOK => Heard!TypeOK
  BY DEF
    Heard!TypeOK, Heard!Records, Heard!Statuses, Heard!Slots, Heard!OpNames, Heard!Pcs,
    HeardProofs!TypeOK, HeardProofs!Records, HeardProofs!Statuses, HeardProofs!Slots,
    HeardProofs!OpNames, HeardProofs!Pcs
<1>. QED BY <1>1, <1>2, <1>3

----------------------------------------------------------------------------
(* A join code's types.                                                    *)

\* What a device's page holds.
PageType == [pc : Code!Pcs, camera : {"off", "on", "dropped"}, at : Nat]

\* A page goes on.
LEMMA PageGoes ==
  ASSUME page \in [Devices -> PageType], NEW d \in Devices, NEW n \in PageType, Code!Goes(d, n)
  PROVE  page' \in [Devices -> PageType]
BY DEF Code!Goes

\* Every step of a page, joining, joined, or leaving.
LEMMA PageTyped ==
  ASSUME Code!TypeOK, NEW d \in Devices,
         \/ Code!EnterCode(d) \/ Code!JoinSteps(d) \/ Code!PageSteps(d)
         \/ Code!Drops(d) \/ Code!Reconnects(d) \/ Code!Leave(d)
  PROVE  Code!TypeOK'
<1>1. page \in [Devices -> PageType] /\ page[d] \in PageType BY DEF Code!TypeOK, PageType
<1>2. now \in Nat /\ joins \in Nat /\ drops \in Nat /\ signedOut \subseteq Devices BY DEF Code!TypeOK
<1>3. Code!NewPage \in PageType /\ [Code!NewPage EXCEPT !.pc = "leave"] \in PageType
  BY DEF Code!NewPage, PageType, Code!Pcs
<1>4. \A pc \in Code!Pcs : [page[d] EXCEPT !.pc = pc] \in PageType BY <1>1 DEF PageType
<1>5. \A c \in {"off", "on", "dropped"} : [page[d] EXCEPT !.camera = c] \in PageType
  BY <1>1 DEF PageType
<1>6. [page[d] EXCEPT !.pc = "idle", !.camera = "on", !.at = now] \in PageType
  BY <1>1, <1>2 DEF PageType, Code!Pcs
<1>7. PICK n \in PageType : Code!Goes(d, n)
  BY <1>3, <1>4, <1>5, <1>6 DEF Code!EnterCode, Code!JoinSteps, Code!PageSteps, Code!Drops,
    Code!Reconnects, Code!Leave, Code!LockedOut, Code!Claim, Code!ReadHolder, Code!AskWhetherLive,
    Code!TakeOver, Code!StartSession, Code!Check, Code!CheckHolder, Code!ReleaseOnLeaving, Code!Pcs
<1>8. page' \in [Devices -> PageType] BY <1>1, <1>7, PageGoes
<1>9. /\ holder' \in Devices \cup {"none"} /\ signedOut' \subseteq Devices
      /\ joins' \in Nat /\ drops' \in Nat
      /\ UNCHANGED <<mark, locked, staff, now, acts>>
  BY <1>2 DEF Code!TypeOK, Code!EnterCode, Code!JoinSteps, Code!PageSteps, Code!Drops,
    Code!Reconnects, Code!Leave, Code!LockedOut, Code!Claim, Code!ReadHolder, Code!AskWhetherLive,
    Code!TakeOver, Code!StartSession, Code!Check, Code!CheckHolder, Code!ReleaseOnLeaving
<1>. QED BY <1>8, <1>9 DEF Code!TypeOK, PageType

\* A join code's variables keep their types, for any devices and bounds.
LEMMA CodeTypeCorrect == Code!Spec => []Code!TypeOK
<1>1. Code!Init => Code!TypeOK
  <2>. SUFFICES ASSUME Code!Init PROVE Code!TypeOK OBVIOUS
  <2>1. Code!NewPage \in PageType BY DEF Code!NewPage, PageType, Code!Pcs
  <2>2. page \in [Devices -> PageType] BY <2>1 DEF Code!Init
  <2>3. {now, joins, acts, drops} \subseteq Nat BY DEF Code!Init
  <2>. QED BY <2>2, <2>3 DEF Code!Init, Code!TypeOK, PageType
<1>2. Code!TypeOK /\ [Code!Next]_(Code!vars) => Code!TypeOK'
  <2>. SUFFICES ASSUME Code!TypeOK, Code!Next \/ UNCHANGED Code!vars PROVE Code!TypeOK'
    OBVIOUS
  <2>1. CASE Code!SignOut \/ Code!ReleaseSignedOut \/ Code!Release \/ Code!Lock \/ Code!TimePasses
    <3>1. now \in Nat /\ joins \in Nat /\ acts \in Nat /\ drops \in Nat BY DEF Code!TypeOK
    <3>2. /\ holder' \in Devices \cup {"none"} /\ signedOut' \subseteq Devices
          /\ locked' \in BOOLEAN /\ staff' \in {"idle", "release"} /\ UNCHANGED page
      BY <2>1 DEF Code!TypeOK, Code!SignOut, Code!ReleaseSignedOut, Code!Release, Code!Lock,
        Code!TimePasses
    <3>3. mark' \in Nat /\ now' \in Nat /\ joins' \in Nat /\ acts' \in Nat /\ drops' \in Nat
      BY <2>1, <3>1 DEF Code!TypeOK, Code!SignOut, Code!ReleaseSignedOut, Code!Release,
        Code!Lock, Code!TimePasses, Code!Acts, Code!SignOutMark
    <3>4. {now', joins', acts', drops'} \subseteq Nat BY <3>3
    <3>. QED BY <3>2, <3>3, <3>4 DEF Code!TypeOK
  <2>2. CASE UNCHANGED Code!vars BY <2>2 DEF Code!vars, Code!TypeOK
  <2>. QED BY <2>1, <2>2, PageTyped DEF Code!Next
<1>. QED BY <1>1, <1>2, PTL DEF Code!Spec

----------------------------------------------------------------------------
(* Entry: what holds of each protocol alone holds beside the others.       *)

\* Requests at the waiting room one at a time, and overlapping: what
\* WaitingRoom assumes of its constants.
WaitingInstance ==
  /\ People # {} /\ Invited \subseteq People /\ Handlers \cap People = {}
  /\ HostOps \subseteq Waiting!AllOps
  /\ MaxOps \in Nat /\ MaxSessions \in Nat
HeardInstance ==
  /\ Askers # {} /\ Handlers \cap Askers = {}
  /\ AnyOps \subseteq Heard!AllOps
  /\ MaxOps \in Nat /\ MaxHeard \in Nat

\* They hold of the instances.
LEMMA WaitingAssumed == ASSUME WaitingInstance PROVE WaitProofs!WaitingAssumption
BY DEF WaitingInstance, WaitProofs!WaitingAssumption, WaitProofs!AllOps, Waiting!AllOps
LEMMA HeardAssumed == ASSUME HeardInstance PROVE HeardProofs!WaitingAssumption
BY DEF HeardInstance, HeardProofs!WaitingAssumption, HeardProofs!AllOps, Heard!AllOps

\* Each protocol's own behaviour within Entry.
LEMMA EntryImplements ==
  EntrySpec => /\ Spec /\ Code!Spec
               /\ focus # "heard" => WaitProofs!Spec
               /\ focus = "heard" => HeardProofs!Spec
<1>1. EntryInit => /\ Init /\ Code!Init
                   /\ focus # "heard" => WaitProofs!Init
                   /\ focus = "heard" => HeardProofs!Init
  BY WaitingSame, HeardSame DEF EntryInit
<1>2. [EntryNext]_entryVars => [Next]_vars
  BY DEF EntryNext, entryVars
<1>3. [EntryNext]_entryVars => [Code!Next]_(Code!vars)
  BY DEF EntryNext, entryVars, codeVars, Code!vars
<1>4. [EntryNext]_entryVars => focus' = focus
  BY DEF EntryNext, entryVars
<1>5. focus # "heard" /\ [EntryNext]_entryVars => [WaitProofs!Next]_(WaitProofs!vars)
  <2>1. focus # "heard" /\ [EntryNext]_entryVars => [Waiting!Next]_waitingVars
    BY DEF EntryNext, entryVars
  <2>. QED BY <2>1, WaitingSame
<1>6. focus = "heard" /\ [EntryNext]_entryVars => [HeardProofs!Next]_(HeardProofs!vars)
  <2>1. focus = "heard" /\ [EntryNext]_entryVars => [Heard!Next]_waitingVars
    BY DEF EntryNext, entryVars
  <2>. QED BY <2>1, HeardSame
<1>7. focus # "heard" /\ focus' = focus => (focus # "heard")'
  OBVIOUS
<1>8. focus = "heard" /\ focus' = focus => (focus = "heard")'
  OBVIOUS
<1>. QED BY <1>1, <1>2, <1>3, <1>4, <1>5, <1>6, <1>7, <1>8, PTL
  DEF EntrySpec, Spec, Code!Spec, WaitProofs!Spec, HeardProofs!Spec

\* With requests in turn, only those admitted since the end of the last
\* session was handled are admitted, invited or not.
THEOREM EntryAdmissionsEnd == WaitingInstance => (EntrySpec => []AdmissionEnds)
<1>. SUFFICES ASSUME WaitingInstance PROVE EntrySpec => []AdmissionEnds OBVIOUS
<1>1. WaitProofs!Spec => []WaitProofs!AdmissionEnds BY WaitingAssumed, WaitProofs!AdmissionsEnd
<1>2. WaitProofs!AdmissionEnds => AdmissionEnds BY WaitingSame DEF AdmissionEnds
<1>3. focus = "heard" => AdmissionEnds BY DEF AdmissionEnds
<1>4. focus = "heard" /\ [EntryNext]_entryVars => (focus = "heard")'
  BY DEF EntryNext, entryVars
<1>5. focus = "heard" \/ focus # "heard" OBVIOUS
<1>. QED BY <1>1, <1>2, <1>3, <1>4, <1>5, EntryImplements, PTL DEF EntrySpec

\* With requests in turn, nobody putting themselves in the queue and nobody
\* invited, what a host answered stands.
THEOREM EntryAnswersStand ==
  WaitingInstance /\ "enqueue" \notin HostOps /\ Invited = {} => (EntrySpec => AnswersStand)
<1>. SUFFICES ASSUME WaitingInstance, "enqueue" \notin HostOps, Invited = {}
              PROVE  EntrySpec => AnswersStand
  OBVIOUS
<1>1. WaitProofs!Spec => WaitProofs!AnswersStand
  BY WaitingAssumed, WaitProofs!HostsAnswersStand
<1>2. [WaitProofs!KeepsAnswers]_(WaitProofs!vars) /\ [EntryNext]_entryVars
      => [focus = "waiting" => Waiting!KeepsAnswers]_entryVars
  <2>. SUFFICES ASSUME [WaitProofs!KeepsAnswers]_(WaitProofs!vars), EntryNext, focus = "waiting"
                PROVE  Waiting!KeepsAnswers
    BY DEF EntryNext
  <2>1. CASE WaitProofs!KeepsAnswers BY <2>1, WaitingSame
  <2>2. CASE UNCHANGED WaitProofs!vars
    BY <2>2 DEF WaitProofs!vars, Waiting!KeepsAnswers, Waiting!AnswerKept, Waiting!Admitted
  <2>. QED BY <2>1, <2>2
<1>3. [EntryNext]_entryVars /\ focus # "waiting"
      => [focus = "waiting" => Waiting!KeepsAnswers]_entryVars
  OBVIOUS
<1>4. focus = "waiting" => focus # "heard" OBVIOUS
<1>5. focus # "waiting" /\ [EntryNext]_entryVars => (focus # "waiting")'
  BY DEF EntryNext, entryVars
<1>6. focus = "waiting" \/ focus # "waiting" OBVIOUS
<1>. QED BY <1>1, <1>2, <1>3, <1>4, <1>5, <1>6, EntryImplements, PTL
  DEF EntrySpec, AnswersStand, WaitProofs!AnswersStand

\* Every variable of every protocol keeps its type.
THEOREM EntryTypesCorrect ==
  PrayerInstance /\ WaitingInstance /\ HeardInstance => (EntrySpec => []TypesOK)
<1>. SUFFICES ASSUME PrayerInstance, WaitingInstance, HeardInstance
              PROVE  EntrySpec => []TypesOK
  OBVIOUS
<1>1. WaitProofs!Spec => []WaitProofs!TypeOK BY WaitingAssumed, WaitProofs!TypeCorrect
<1>2. HeardProofs!Spec => []HeardProofs!TypeOK BY HeardAssumed, HeardProofs!TypeCorrect
<1>3. /\ TypeOK /\ Code!TypeOK
      /\ focus # "heard" => WaitProofs!TypeOK
      /\ focus = "heard" => HeardProofs!TypeOK
      => TypesOK
  BY WaitingSame, HeardSame DEF TypesOK
<1>4. focus = "heard" /\ [EntryNext]_entryVars => (focus = "heard")'
  BY DEF EntryNext, entryVars
<1>5. focus # "heard" /\ [EntryNext]_entryVars => (focus # "heard")'
  BY DEF EntryNext, entryVars
<1>6. focus # "heard" <=> ~(focus = "heard") OBVIOUS
<1>. QED BY <1>1, <1>2, <1>3, <1>4, <1>5, <1>6, EntryImplements, PrayerTypeCorrect,
  CodeTypeCorrect, PTL
  DEF EntrySpec

\* A connection is recorded in one session at most.
THEOREM EntryCountsOnce == PrayerInstance => (EntrySpec => []CountedOnce)
BY EntryImplements, CountsOnce, PTL

\* With reads of the pointer kept apart, the open session is the zone's
\* current one.
THEOREM EntryOpenIsCurrent == PrayerInstance /\ Apart => (EntrySpec => []OneSession)
BY EntryImplements, OpenIsCurrent, PTL
=============================================================================
