-------------------------- MODULE BulkSend_proofs --------------------------
(***************************************************************************)
(* Bulk sends, for any audience, chunks, workers and controls.  The types; *)
(* as long as no worker outlives its lease, that nobody is sent to twice   *)
(* and that what is recorded is what happened; as long as no control comes *)
(* between a save's two calls, that a cancelled send stays cancelled; and  *)
(* with both, and no worker stopped in the middle of a page, that a send   *)
(* done has an answer for everyone listed.                                 *)
(***************************************************************************)
EXTENDS BulkSend, FiniteSetTheorems, TLAPS

WorkerRecs == [pc : WorkerPcs, s : Sends, did : BOOLEAN, list : SUBSET People,
               mine : [Pairs -> States], changed : SUBSET People,
               ch : Nat, todo : SUBSET People, go : SUBSET People,
               fresh : SUBSET People,
               after : {"read", "srem", "done", "end"}, cur : Statuses]
AdminRecs == [pc : {"idle", "write", "active"}, s : Sends]

\* A worker at the gate with somebody in hand is on one of the channels.
Placed(me) ==
  /\ me.pc \in {"read", "load"} => me.todo = {} /\ me.go = {}
  /\ me.pc = "gate" /\ (me.todo # {} \/ me.go # {}) => me.ch \in DOMAIN On

\* Type correctness as an inductive invariant.
IndTypeOK == TypeOK /\ \A w \in Workers : Placed(worker[w])

LEMMA FixedTypes ==
  /\ Draft \in Sends /\ NoStates \in [Pairs -> States]
  /\ IdleWorker \in WorkerRecs /\ Placed(IdleWorker)
  /\ IdleAdmin \in AdminRecs
<1>1. Draft \in Sends
  BY DEF Draft, Sends, Statuses
<1>2. NoStates \in [Pairs -> States]
  BY DEF NoStates, States
<1> QED
  BY <1>1, <1>2 DEF IdleWorker, WorkerRecs, WorkerPcs, Statuses, IdleAdmin, AdminRecs, Placed

LEMMA InitType == Init => IndTypeOK
<1> SUFFICES ASSUME Init PROVE IndTypeOK OBVIOUS
<1>1. worker \in [Workers -> WorkerRecs] /\ admin \in [Admins -> AdminRecs]
  BY FixedTypes DEF Init
<1>2. \A w \in Workers : Placed(worker[w])
  BY FixedTypes DEF Init
<1>3. st \in [Keys -> States] /\ given \in [Pairs -> Nat]
  BY DEF Init, States
<1> QED
  BY <1>1, <1>2, <1>3, FixedTypes DEF Init, IndTypeOK, TypeOK, WorkerRecs, AdminRecs

LEMMA WorkerGoes ==
  ASSUME IndTypeOK, NEW w \in Workers, NEW next \in WorkerRecs, Placed(next), Goes(w, next)
  PROVE  worker' \in [Workers -> WorkerRecs] /\ \A v \in Workers : Placed(worker'[v])
BY DEF Goes, IndTypeOK, TypeOK, WorkerRecs

\* A save keeps the worker's type whatever it writes.
LEMMA SaveThenType ==
  ASSUME NEW me \in WorkerRecs, NEW s \in Sends, NEW after \in {"read", "srem", "done", "end"}
  PROVE  SaveThen(me, s, after) \in WorkerRecs /\ Placed(SaveThen(me, s, after))
BY DEF SaveThen, WorkerRecs, WorkerPcs, Placed

LEMMA StatusSet ==
  ASSUME NEW s \in Sends, NEW status \in Statuses, NEW cut \in BOOLEAN
  PROVE  /\ [s EXCEPT !.status = status, !.cut = cut] \in Sends
         /\ [s EXCEPT !.status = status, !.cut = cut].counts = s.counts
         /\ [s EXCEPT !.status = status] \in Sends /\ [s EXCEPT !.status = status].counts = s.counts
BY DEF Sends

LEMMA ListedSet ==
  ASSUME NEW s \in Sends, NEW cursor \in Nat, NEW listed \in BOOLEAN
  PROVE  /\ [s EXCEPT !.cursor = cursor, !.listed = listed] \in Sends
         /\ [s EXCEPT !.cursor = cursor, !.listed = listed].counts = s.counts
BY DEF Sends

LEMMA MergedType ==
  ASSUME NEW me \in WorkerRecs
  PROVE  Merged(me) \in Sends
<1>1. me.s \in Sends /\ me.cur \in Statuses
  BY DEF WorkerRecs
<1> QED
  BY <1>1, StatusSet DEF Merged

LEMMA ControlledType ==
  ASSUME NEW s \in Sends, NEW action \in {"confirm", "pause", "resume", "cancel"}
  PROVE  Controlled(action, s) \in Sends /\ Controlled(action, s).counts = s.counts
<1> DEFINE status == CASE action = "confirm" -> "queued"
                       [] action = "pause" -> "paused"
                       [] action = "cancel" -> "cancelled"
                       [] OTHER -> IF s.nextChunk > 0 \/ s.chunks > 0
                                   THEN "sending" ELSE "queued"
<1>1. status \in Statuses
  BY DEF Statuses
<1>2. Controlled(action, s) = [s EXCEPT !.status = status]
  BY DEF Controlled
<1> HIDE DEF status
<1> QED
  BY <1>1, <1>2, StatusSet

\* What a status set in memory does to a worker's record.
Marked(mine, S, c, state) == [x \in Pairs |-> IF x[1] \in S /\ x[2] = c THEN state ELSE mine[x]]
Raised(counts, S, c) == [counts EXCEPT ![c] = @ + Cardinality(S)]

LEMMA SetsEffect ==
  ASSUME NEW me \in WorkerRecs, NEW S \in SUBSET People, NEW state \in States,
         me.ch \in DOMAIN On
  PROVE  LET m == Sets(me, S, state)
         IN /\ m \in WorkerRecs
            /\ m.pc = me.pc /\ m.ch = me.ch /\ m.todo = me.todo /\ m.go = me.go
            /\ m.list = me.list /\ m.fresh = me.fresh /\ m.changed = me.changed \cup S
            /\ m.mine = Marked(me.mine, S, Channel(me), state)
            /\ m.s.nextChunk = me.s.nextChunk /\ m.s.counts = Raised(me.s.counts, S, Channel(me))
            /\ m.s.status = me.s.status /\ m.s.cut = me.s.cut /\ m.s.chunks = me.s.chunks
            /\ m.s.cursor = me.s.cursor /\ m.s.listed = me.s.listed
<1>1. Channel(me) \in Channels
  BY DEF Channel, Channels
<1>2. Cardinality(S) \in Nat
  BY SendAssumption, FS_Subset, FS_CardinalityType
<1> DEFINE mine == Marked(me.mine, S, Channel(me), state)
           s == [me.s EXCEPT !.counts[Channel(me)] = @ + Cardinality(S)]
<1>3. mine \in [Pairs -> States]
  BY DEF WorkerRecs, Marked
<1>4. s \in Sends
  BY <1>1, <1>2 DEF WorkerRecs, Sends
<1>5. Sets(me, S, state) = [me EXCEPT !.mine = mine, !.changed = @ \cup S, !.s = s]
  BY DEF Sets, WorkerRecs, Marked
<1>6. s.nextChunk = me.s.nextChunk /\ s.counts = Raised(me.s.counts, S, Channel(me))
      /\ s.status = me.s.status /\ s.cut = me.s.cut /\ s.chunks = me.s.chunks
      /\ s.cursor = me.s.cursor /\ s.listed = me.s.listed
  BY DEF WorkerRecs, Sends, Raised
<1> HIDE DEF mine, s
<1>7. LET r == Sets(me, S, state)
      IN /\ r \in WorkerRecs /\ r.pc = me.pc /\ r.ch = me.ch /\ r.todo = me.todo /\ r.go = me.go
         /\ r.list = me.list /\ r.fresh = me.fresh /\ r.changed = me.changed \cup S
         /\ r.s = s /\ r.mine = mine
  BY <1>3, <1>4, <1>5 DEF WorkerRecs
<1> QED
  BY <1>6, <1>7 DEF mine

\* A step that changes one worker, and nothing else.
Rest == <<send, chunk, st, claims, seen, active, lease, over, admin, controls, deaths, given, paused>>

LEMMA WorkerOnly ==
  ASSUME IndTypeOK, UNCHANGED Rest, NEW w \in Workers, NEW next \in WorkerRecs, Placed(next), Goes(w, next)
  PROVE  IndTypeOK'
BY WorkerGoes DEF IndTypeOK, TypeOK, WorkerRecs, Rest

LEMMA ReadingType ==
  ASSUME IndTypeOK, NEW w \in Workers,
         ReadStopped(w) \/ ReadOver(w) \/ ReadSpent(w) \/ ReadWork(w) \/ SaveRead(w)
  PROVE  IndTypeOK'
<1> DEFINE me == worker[w]
<1>1. me \in WorkerRecs /\ send \in Sends /\ Placed(me)
  BY DEF IndTypeOK, TypeOK, WorkerRecs
<1>2. CASE ReadStopped(w) \/ ReadSpent(w)
  <2>1. PICK pc \in {"srem", "end"} : Goes(w, [me EXCEPT !.pc = pc]) /\ UNCHANGED Rest
    BY <1>2 DEF ReadStopped, ReadSpent, Rest
  <2>2. [me EXCEPT !.pc = pc] \in WorkerRecs /\ Placed([me EXCEPT !.pc = pc])
    BY <1>1 DEF WorkerRecs, WorkerPcs, Placed
  <2> QED
    BY <2>1, <2>2, WorkerOnly
<1>3. CASE ReadOver(w)
  <2> DEFINE s == [send EXCEPT !.status = "done", !.cut = TRUE]
  <2>1. s \in Sends
    BY <1>1, StatusSet DEF Statuses
  <2>2. Goes(w, SaveThen(me, s, "srem")) /\ UNCHANGED Rest
    BY <1>3 DEF ReadOver, Rest
  <2> QED
    BY <1>1, <2>1, <2>2, SaveThenType, WorkerOnly
<1>4. CASE ReadWork(w)
  <2> DEFINE s == [send EXCEPT !.status = "sending"]
             m == [me EXCEPT !.s = s, !.did = TRUE]
             d == [s EXCEPT !.status = "done"]
  <2>1. s \in Sends /\ d \in Sends
    BY <1>1 DEF Sends, Statuses
  <2>2. m \in WorkerRecs /\ me.pc = "read" /\ me.todo = {} /\ me.go = {}
    BY <1>1, <1>4, <2>1 DEF WorkerRecs, Placed, ReadWork
  <2>3. \A pc \in {"load", "list"} : [m EXCEPT !.pc = pc] \in WorkerRecs /\ Placed([m EXCEPT !.pc = pc])
    BY <2>1, <2>2 DEF WorkerRecs, WorkerPcs, Placed
  <2>4. SaveThen(m, d, "done") \in WorkerRecs /\ Placed(SaveThen(m, d, "done"))
    BY <2>1, <2>2, SaveThenType
  <2>5. Goes(w, [m EXCEPT !.pc = "load"]) \/ Goes(w, [m EXCEPT !.pc = "list"]) \/ Goes(w, SaveThen(m, d, "done"))
    BY <1>4 DEF ReadWork
  <2>6. UNCHANGED Rest
    BY <1>4 DEF ReadWork, Rest
  <2> HIDE DEF m, d, s
  <2> QED
    BY <2>3, <2>4, <2>5, <2>6, WorkerOnly
<1>5. CASE SaveRead(w)
  <2> DEFINE m == [me EXCEPT !.cur = send.status, !.pc = "write"]
  <2>1. m \in WorkerRecs /\ Placed(m)
    BY <1>1 DEF WorkerRecs, WorkerPcs, Placed, Sends
  <2>2. Goes(w, m) /\ UNCHANGED Rest
    BY <1>5 DEF SaveRead, Rest
  <2> QED
    BY <2>1, <2>2, WorkerOnly
<1> QED
  BY <1>2, <1>3, <1>4, <1>5

LEMMA SavingType ==
  ASSUME IndTypeOK, NEW w \in Workers, SaveWrite(w) \/ Srem(w) \/ End(w) \/ Dies(w) \/ Start(w)
  PROVE  IndTypeOK'
<1> DEFINE me == worker[w]
<1>1. me \in WorkerRecs /\ Placed(me)
  BY DEF IndTypeOK, TypeOK, WorkerRecs
<1>2. CASE SaveWrite(w)
  <2> DEFINE m == [IdleWorker EXCEPT !.pc = AfterSave(me), !.did = TRUE]
  <2>1. AfterSave(me) \in {"read", "srem", "end"}
    BY <1>1 DEF AfterSave, WorkerRecs
  <2>2. m \in WorkerRecs /\ Placed(m)
    BY <2>1, FixedTypes DEF WorkerRecs, WorkerPcs, Placed, IdleWorker
  <2>3. send' \in Sends /\ Goes(w, m)
    BY <1>1, <1>2, MergedType DEF SaveWrite
  <2>4. worker' \in [Workers -> WorkerRecs] /\ \A v \in Workers : Placed(worker'[v])
    BY <2>2, <2>3, WorkerGoes
  <2> QED
    BY <1>2, <2>3, <2>4 DEF SaveWrite, IndTypeOK, TypeOK, WorkerRecs
<1>3. CASE Srem(w)
  <2> DEFINE m == [me EXCEPT !.pc = "end"]
  <2>1. m \in WorkerRecs /\ Placed(m)
    BY <1>1 DEF WorkerRecs, WorkerPcs, Placed
  <2>2. worker' \in [Workers -> WorkerRecs] /\ \A v \in Workers : Placed(worker'[v])
    BY <1>3, <2>1, WorkerGoes DEF Srem
  <2> QED
    BY <1>3, <2>2 DEF Srem, IndTypeOK, TypeOK, WorkerRecs
<1>4. CASE End(w) \/ Dies(w)
  <2>1. worker' \in [Workers -> WorkerRecs] /\ \A v \in Workers : Placed(worker'[v])
    BY <1>4, FixedTypes, WorkerGoes DEF End, Dies
  <2>2. lease' \in Workers \cup {"free", "left"}
    BY <1>4 DEF End, Dies, IndTypeOK, TypeOK
  <2> QED
    BY <1>4, <2>1, <2>2 DEF End, Dies, IndTypeOK, TypeOK, WorkerRecs
<1>5. CASE Start(w)
  <2> DEFINE m == [IdleWorker EXCEPT !.pc = "read"]
  <2>1. m \in WorkerRecs /\ Placed(m)
    BY FixedTypes DEF WorkerRecs, WorkerPcs, Placed, IdleWorker
  <2>2. worker' \in [Workers -> WorkerRecs] /\ \A v \in Workers : Placed(worker'[v])
    BY <1>5, <2>1, WorkerGoes DEF Start
  <2> QED
    BY <1>5, <2>2 DEF Start, IndTypeOK, TypeOK, WorkerRecs
<1> QED
  BY <1>2, <1>3, <1>4, <1>5

LEMMA ListingType ==
  ASSUME IndTypeOK, NEW w \in Workers,
         ListPage(w) \/ ListingFails(w) \/ Sismember(w) \/ Sadd(w) \/ Listed(w) \/ WriteChunk(w) \/ EndPage(w)
  PROVE  IndTypeOK'
<1> DEFINE me == worker[w]
<1>1. me \in WorkerRecs /\ Placed(me)
  BY DEF IndTypeOK, TypeOK, WorkerRecs
<1>2. CASE ListPage(w)
  <2> DEFINE page == Pages[me.s.cursor + 1]
             m == [me EXCEPT !.pc = "sismember", !.todo = page]
  <2>1. page \in SUBSET People
    BY <1>2, SendAssumption DEF ListPage
  <2>2. m \in WorkerRecs /\ Placed(m)
    BY <1>1, <2>1 DEF WorkerRecs, WorkerPcs, Placed
  <2>3. Goes(w, m) /\ UNCHANGED Rest
    BY <1>2 DEF ListPage, Rest
  <2> QED
    BY <2>2, <2>3, WorkerOnly
<1>3. CASE ListingFails(w)
  <2>1. me.s \in Sends /\ Goes(w, SaveThen(me, me.s, "end")) /\ UNCHANGED Rest
    BY <1>1, <1>3 DEF ListingFails, Rest, WorkerRecs
  <2> QED
    BY <1>1, <2>1, SaveThenType, WorkerOnly
<1>4. CASE Sismember(w)
  <2>1. PICK p \in me.todo :
            Goes(w, IF IsFresh(p) THEN [me EXCEPT !.todo = @ \ {p}, !.go = {p}, !.pc = "sadd"]
                    ELSE [me EXCEPT !.todo = @ \ {p}])
    BY <1>4 DEF Sismember
  <2> DEFINE m1 == [me EXCEPT !.todo = @ \ {p}, !.go = {p}, !.pc = "sadd"]
             m2 == [me EXCEPT !.todo = @ \ {p}]
  <2>2. UNCHANGED Rest /\ me.pc = "sismember" /\ p \in People
    BY <1>1, <1>4 DEF Sismember, Rest, WorkerRecs
  <2>3. m1 \in WorkerRecs /\ Placed(m1) /\ m2 \in WorkerRecs /\ Placed(m2)
    BY <1>1, <2>2 DEF WorkerRecs, WorkerPcs, Placed
  <2>4. Goes(w, m1) \/ Goes(w, m2)
    BY <2>1
  <2> HIDE DEF m1, m2
  <2> QED
    BY <2>2, <2>3, <2>4, WorkerOnly
<1>5. CASE Sadd(w)
  <2> DEFINE m == [me EXCEPT !.fresh = @ \cup me.go, !.go = {}, !.pc = "sismember"]
  <2>1. m \in WorkerRecs /\ Placed(m) /\ me.go \subseteq People
    BY <1>1 DEF WorkerRecs, WorkerPcs, Placed
  <2>2. worker' \in [Workers -> WorkerRecs] /\ \A v \in Workers : Placed(worker'[v])
    BY <1>5, <2>1, WorkerGoes DEF Sadd
  <2> QED
    BY <1>5, <2>1, <2>2 DEF Sadd, IndTypeOK, TypeOK, WorkerRecs
<1>6. CASE Listed(w)
  <2> DEFINE m == [me EXCEPT !.pc = "chunk"]
  <2>1. m \in WorkerRecs /\ Placed(m)
    BY <1>1 DEF WorkerRecs, WorkerPcs, Placed
  <2>2. Goes(w, m) /\ UNCHANGED Rest
    BY <1>6 DEF Listed, Rest
  <2> QED
    BY <2>1, <2>2, WorkerOnly
<1>7. CASE WriteChunk(w)
  <2>1. PICK S \in SUBSET me.fresh :
            /\ chunk' = [chunk EXCEPT ![me.s.chunks] = S]
            /\ Goes(w, [me EXCEPT !.s.chunks = @ + 1, !.fresh = @ \ S])
    BY <1>7 DEF WriteChunk
  <2> DEFINE s == [me.s EXCEPT !.chunks = @ + 1]
             m == [me EXCEPT !.s = s, !.fresh = @ \ S]
  <2>1a. me.s \in Sends /\ me.fresh \subseteq People /\ me.pc = "chunk"
    BY <1>1, <1>7 DEF WriteChunk, WorkerRecs
  <2>1b. s \in Sends
    BY <2>1a DEF Sends
  <2>2. m \in WorkerRecs /\ Placed(m)
    BY <1>1, <2>1a, <2>1b DEF WorkerRecs, Placed
  <2>3. worker' \in [Workers -> WorkerRecs] /\ \A v \in Workers : Placed(worker'[v])
    BY <1>1, <2>1, <2>2, WorkerGoes DEF WorkerRecs
  <2>4. chunk' \in [Slots -> SUBSET People]
    BY <2>1, <2>1a DEF IndTypeOK, TypeOK
  <2> QED
    BY <1>7, <2>3, <2>4 DEF WriteChunk, IndTypeOK, TypeOK, WorkerRecs
<1>8. CASE EndPage(w)
  <2> DEFINE s == [me.s EXCEPT !.cursor = @ + 1, !.listed = ListedAll(me.s.cursor + 1)]
  <2>1. ListedAll(me.s.cursor + 1) \in BOOLEAN /\ me.s.cursor + 1 \in Nat /\ me.s \in Sends
    BY <1>1 DEF ListedAll, WorkerRecs, Sends
  <2>1a. s \in Sends
    BY <2>1, ListedSet
  <2>2. Goes(w, SaveThen(me, s, "read")) /\ UNCHANGED Rest
    BY <1>8 DEF EndPage, Rest
  <2> QED
    BY <1>1, <2>1a, <2>2, SaveThenType, WorkerOnly
<1> QED
  BY <1>2, <1>3, <1>4, <1>5, <1>6, <1>7, <1>8

LEMMA GateType ==
  ASSUME IndTypeOK, NEW w \in Workers, Gate(w) \/ Deliver(w)
  PROVE  IndTypeOK'
<1> DEFINE me == worker[w]
<1>1. me \in WorkerRecs /\ me.pc = "gate" /\ me.ch \in DOMAIN On
      /\ me.todo \subseteq People /\ me.go \subseteq People
  BY DEF IndTypeOK, TypeOK, WorkerRecs, Placed, Gate, Deliver
<1>2. FoundClaimed \in States /\ \A state \in NotSent(me) : state \in States
  BY DEF FoundClaimed, States, NotSent
<1>3. ASSUME NEW todo \in SUBSET People, NEW go \in SUBSET People,
             NEW m, m = [me EXCEPT !.todo = todo, !.go = go]
      PROVE  m \in WorkerRecs /\ Placed(m) /\ m.ch = me.ch /\ m.pc = "gate"
  BY <1>1, <1>3 DEF WorkerRecs, Placed
<1>4. ASSUME NEW m \in WorkerRecs, m.ch = me.ch, m.pc = "gate", NEW S \in SUBSET People, NEW state \in States
      PROVE  Sets(m, S, state) \in WorkerRecs /\ Placed(Sets(m, S, state))
  BY <1>1, <1>4, SetsEffect DEF Placed
<1>5. CASE Gate(w)
  <2>1. PICK p \in me.todo :
          /\ GateDone(w, p) \/ GateSkipped(w, p) \/ GateClaimed(w, p) \/ GateOpen(w, p)
          /\ UNCHANGED <<send, chunk, st, seen, active, lease, over, admin, controls,
                         deaths, given, paused>>
    BY <1>5 DEF Gate
  <2> DEFINE passed == [me EXCEPT !.todo = @ \ {p}]
             taken == [me EXCEPT !.todo = @ \ {p}, !.go = @ \cup {p}]
  <2>2. p \in People /\ me.todo \ {p} \in SUBSET People /\ me.go \cup {p} \in SUBSET People
    BY <1>1
  <2>3. taken \in WorkerRecs /\ Placed(taken)
    BY <1>3, <2>2
  <2>5. passed \in WorkerRecs /\ Placed(passed) /\ passed.ch = me.ch /\ passed.pc = "gate"
    BY <1>1, <2>2 DEF WorkerRecs, Placed
  <2>6. /\ Sets(passed, {p}, "skipped") \in WorkerRecs /\ Placed(Sets(passed, {p}, "skipped"))
        /\ Sets(passed, {p}, FoundClaimed) \in WorkerRecs /\ Placed(Sets(passed, {p}, FoundClaimed))
    BY <1>2, <1>4, <2>2, <2>5 DEF States
  <2>7. ClaimKey(me, p) \in Nat \X Pairs
    BY <1>1, <2>2 DEF ClaimKey, Pairs, Channel, Channels, WorkerRecs, Sends
  <2>8. claims' \subseteq Nat \X Pairs
    BY <2>1, <2>7 DEF GateDone, GateSkipped, GateClaimed, GateOpen, IndTypeOK, TypeOK
  <2>9. \/ Goes(w, passed) \/ Goes(w, taken)
        \/ Goes(w, Sets(passed, {p}, "skipped")) \/ Goes(w, Sets(passed, {p}, FoundClaimed))
    BY <2>1 DEF GateDone, GateSkipped, GateClaimed, GateOpen
  <2> HIDE DEF passed, taken
  <2>10. worker' \in [Workers -> WorkerRecs] /\ \A v \in Workers : Placed(worker'[v])
    BY <2>3, <2>5, <2>6, <2>9, WorkerGoes
  <2> QED
    BY <2>1, <2>8, <2>10 DEF IndTypeOK, TypeOK, WorkerRecs
<1>6. CASE Deliver(w)
  <2>1. PICK S \in Batches(me) :
       LET m == [me EXCEPT !.go = @ \ S]
       IN \/ /\ given' = [x \in Pairs |-> IF x[1] \in S /\ x[2] = Channel(m)
                                          THEN given[x] + 1 ELSE given[x]]
             /\ Goes(w, Sets(m, S, "sent"))
          \/ /\ \E state \in NotSent(m) : Goes(w, Sets(m, S, state))
             /\ UNCHANGED given
    BY <1>6 DEF Deliver
  <2> DEFINE m == [me EXCEPT !.go = @ \ S]
  <2>2. S \subseteq me.go /\ S \subseteq People /\ me.go \ S \in SUBSET People
    BY <1>1 DEF Batches
  <2>4. m \in WorkerRecs /\ m.ch = me.ch /\ m.pc = "gate"
    BY <1>1, <2>2 DEF WorkerRecs
  <2>5. \A state \in States : Sets(m, S, state) \in WorkerRecs /\ Placed(Sets(m, S, state))
    BY <1>4, <2>2, <2>4
  <2>6. given' \in [Pairs -> Nat]
    BY <2>1 DEF IndTypeOK, TypeOK
  <2>7. \E state \in States : Goes(w, Sets(m, S, state))
    BY <2>1 DEF NotSent, States
  <2> HIDE DEF m
  <2>8. worker' \in [Workers -> WorkerRecs] /\ \A v \in Workers : Placed(worker'[v])
    BY <2>5, <2>7, WorkerGoes
  <2> QED
    BY <1>6, <2>6, <2>8 DEF Deliver, IndTypeOK, TypeOK, WorkerRecs
<1> QED
  BY <1>5, <1>6

LEMMA DeliveryType ==
  ASSUME IndTypeOK, NEW w \in Workers, Load(w) \/ NextChannel(w) \/ Hset(w)
  PROVE  IndTypeOK'
<1> DEFINE me == worker[w]
<1>1. me \in WorkerRecs /\ Placed(me) /\ me.s \in Sends
  BY DEF IndTypeOK, TypeOK, WorkerRecs
<1>2. CASE Load(w)
  <2> DEFINE list == chunk[me.s.nextChunk]
             mine == [x \in Pairs |-> st[<<me.s.nextChunk, x>>]]
             m == [me EXCEPT !.list = list, !.mine = mine, !.pc = "gate"]
  <2>1. list \in SUBSET People /\ mine \in [Pairs -> States]
    BY <1>2 DEF Load, IndTypeOK, TypeOK, Keys
  <2>2. me.todo = {} /\ me.go = {}
    BY <1>1, <1>2 DEF Load, Placed
  <2>3. Goes(w, m) /\ UNCHANGED Rest
    BY <1>2 DEF Load, Rest
  <2> HIDE DEF list, mine
  <2>4. m \in WorkerRecs /\ Placed(m)
    BY <1>1, <2>1, <2>2 DEF WorkerRecs, WorkerPcs, Placed
  <2> QED
    BY <2>3, <2>4, WorkerOnly
<1>3. CASE NextChannel(w)
  <2> DEFINE next == me.ch + 1
             m1 == [me EXCEPT !.pc = "hset"]
             m2 == [me EXCEPT !.ch = next, !.todo = me.list]
             m3 == [me EXCEPT !.ch = next]
  <2>1. me.ch \in Nat /\ me.pc = "gate" /\ me.todo = {} /\ me.go = {} /\ UNCHANGED Rest
    BY <1>1, <1>3 DEF NextChannel, Rest, WorkerRecs
  <2>2. next \in Nat /\ (next > Len(On) \/ next \in DOMAIN On)
    BY <2>1, SendAssumption
  <2> HIDE DEF next
  <2>3. m1 \in WorkerRecs /\ Placed(m1) /\ m3 \in WorkerRecs /\ Placed(m3)
    BY <1>1, <2>1, <2>2 DEF WorkerRecs, WorkerPcs, Placed
  <2>4. next \in DOMAIN On => m2 \in WorkerRecs /\ Placed(m2)
    BY <1>1, <2>1, <2>2 DEF WorkerRecs, WorkerPcs, Placed
  <2>5. Goes(w, m1) \/ (next \in DOMAIN On /\ Goes(w, m2)) \/ Goes(w, m3)
    BY <1>3, <2>2 DEF NextChannel, next
  <2> HIDE DEF m1, m2, m3
  <2> QED
    BY <2>1, <2>3, <2>4, <2>5, WorkerOnly
<1>4. CASE Hset(w)
  <2> DEFINE s == [me.s EXCEPT !.nextChunk = @ + 1]
  <2>1. s \in Sends
    BY <1>1 DEF Sends
  <2>2. Goes(w, SaveThen(me, s, "read"))
    BY <1>4 DEF Hset
  <2>3. worker' \in [Workers -> WorkerRecs] /\ \A v \in Workers : Placed(worker'[v])
    BY <1>1, <2>1, <2>2, SaveThenType, WorkerGoes
  <2>4. st' = [k \in Keys |-> IF k[1] = me.s.nextChunk /\ k[2][1] \in Changed(me)
                              THEN me.mine[k[2]] ELSE st[k]]
    BY <1>4 DEF Hset
  <2>5. \A k \in Keys : me.mine[k[2]] \in States
    BY <1>1 DEF WorkerRecs, Keys
  <2>6. st' \in [Keys -> States]
    BY <2>4, <2>5 DEF IndTypeOK, TypeOK
  <2> QED
    BY <1>4, <2>3, <2>6 DEF Hset, IndTypeOK, TypeOK, WorkerRecs
<1> QED
  BY <1>2, <1>3, <1>4

LEMMA ControlType ==
  ASSUME IndTypeOK, NEW a \in Admins, BeginControl(a) \/ ControlWrite(a) \/ ControlActive(a)
  PROVE  IndTypeOK'
<1>1. CASE BeginControl(a)
  <2>1. PICK action \in Actions : /\ AdminGoes(a, [pc |-> "write", s |-> Controlled(action, send)])
                                  /\ controls' = controls + 1
    BY <1>1 DEF BeginControl
  <2>2. Controlled(action, send) \in Sends
    BY ControlledType, SendAssumption DEF IndTypeOK, TypeOK
  <2>3. admin' \in [Admins -> AdminRecs]
    BY <2>1, <2>2 DEF AdminGoes, AdminRecs, IndTypeOK, TypeOK
  <2> QED
    BY <1>1, <2>1, <2>3 DEF BeginControl, IndTypeOK, TypeOK, AdminRecs
<1>2. CASE ControlWrite(a)
  <2>1. send' \in Sends /\ admin' \in [Admins -> AdminRecs] /\ paused' \in BOOLEAN
    BY <1>2 DEF ControlWrite, AdminGoes, AdminRecs, IndTypeOK, TypeOK
  <2> QED
    BY <1>2, <2>1 DEF ControlWrite, IndTypeOK, TypeOK, AdminRecs
<1>3. CASE ControlActive(a)
  <2>1. admin' \in [Admins -> AdminRecs]
    BY <1>3, FixedTypes DEF ControlActive, AdminGoes, AdminRecs, IndTypeOK, TypeOK
  <2>2. active' \in BOOLEAN
    BY <1>3 DEF ControlActive, ActiveAfter, Running
  <2> QED
    BY <1>3, <2>1, <2>2 DEF ControlActive, IndTypeOK, TypeOK, AdminRecs
<1> QED
  BY <1>1, <1>2, <1>3

LEMMA NextType == IndTypeOK /\ [Next]_vars => IndTypeOK'
<1> SUFFICES ASSUME IndTypeOK, [Next]_vars PROVE IndTypeOK' OBVIOUS
<1>1. CASE EndsAt \/ LeaseExpires \/ UNCHANGED vars
  BY <1>1 DEF EndsAt, LeaseExpires, vars, IndTypeOK, TypeOK
<1>2. ASSUME NEW w \in Workers, StartFromTick(w) \/ StartFromPage(w) PROVE IndTypeOK'
  BY <1>2, SavingType DEF StartFromTick, StartFromPage
<1>3. ASSUME NEW w \in Workers, WorkerSteps(w) PROVE IndTypeOK'
  BY <1>3, ReadingType, SavingType, ListingType, GateType, DeliveryType DEF WorkerSteps
<1> QED
  BY <1>1, <1>2, <1>3, SavingType, ControlType DEF Next, AdminSteps

LEMMA AlwaysTyped == Spec => []IndTypeOK
BY InitType, NextType, PTL DEF Spec

\* Every variable keeps its type, whatever the audience and the bounds.
THEOREM TypeCorrect == Spec => []TypeOK
BY AlwaysTyped, PTL DEF IndTypeOK

----------------------------------------------------------------------------
(* The invariant behind both promises.  Whoever is at work holds the       *)
(* lease; a person is in one chunk at most, the one every claim on them    *)
(* names; and what any copy of the statuses or the counts says is so.      *)

LeaseHeld == \A w \in Workers : worker[w].pc # "idle" => lease = w

OneChunkEach ==
  /\ \A n, m \in Slots : \A p \in chunk[n] : p \in chunk[m] => n = m
  /\ \A k \in claims, n \in Slots : k[2][1] \in chunk[n] => k[1] = n
  /\ \A n \in Slots : chunk[n] \subseteq seen
  /\ \A k \in claims : k[2][1] \in seen

GivenOnce ==
  \A x \in Pairs : given[x] \in {0, 1} /\ (given[x] = 1 => \E k \in claims : k[2] = x)

\* What a status says of the pair, and of the slot it was reached from, given
\* the claims there are and how often each pair was reached.
Says(state, k, claimed, reached) ==
  /\ state \in {"sent", "failed"} => k \in claimed
  /\ state = "sent" => reached[k[2]] = 1
  /\ state = "failed" => reached[k[2]] = 0

StatusesTrue == \A k \in Keys : Says(st[k], k, claims, given)

\* Who has been answered for, and whom the worker adds to those; counts that
\* say no more than that, channel by channel.
Answered == {k \in Keys : st[k] # "none"}
Adding(w) == {k \in Keys : k[1] = worker[w].s.nextChunk /\ worker[w].mine[k[2]] # "none"}
Within(counts, K) == \A ch \in Channels : counts[ch] <= Cardinality({k \in K : k[2][2] = ch})

Counted ==
  /\ Within(send.counts, Answered)
  /\ \A a \in Admins : admin[a].pc # "idle" => Within(admin[a].s.counts, Answered)

\* Whoever is about to be written into a chunk is in none and unclaimed.
NewHere(w) ==
  /\ worker[w].fresh \subseteq seen
  /\ \A p \in worker[w].fresh : (\A n \in Slots : p \notin chunk[n]) /\ \A k \in claims : k[2][1] # p
  /\ worker[w].pc = "sadd" => worker[w].go \cap seen = {}

\* Whom the worker is about to send to is its to send to, and not reached yet.
InHand(w) ==
  worker[w].pc = "gate" =>
    LET me == worker[w]
    IN /\ me.s.nextChunk \in Slots /\ me.list = chunk[me.s.nextChunk] /\ me.todo \subseteq me.list
       /\ me.go \cap me.todo = {}
       /\ \A p \in me.go : /\ p \in me.list /\ ClaimKey(me, p) \in claims
                           /\ given[<<p, Channel(me)>>] = 0
                           /\ me.mine[<<p, Channel(me)>>] = "none"

\* What the worker knows of its chunk is true, and what it adds is marked.
Knows(w) ==
  worker[w].pc \in {"gate", "hset"} =>
    LET me == worker[w]
    IN \A x \in Pairs :
         /\ Says(me.mine[x], <<me.s.nextChunk, x>>, claims, given)
         /\ me.mine[x] = "none" => st[<<me.s.nextChunk, x>>] = "none"
         /\ me.mine[x] # "none" /\ st[<<me.s.nextChunk, x>>] = "none" => x[1] \in me.changed

CountsRight(w) ==
  /\ worker[w].pc \in {"gate", "hset"} => Within(worker[w].s.counts, Answered \cup Adding(w))
  /\ worker[w].pc \notin {"gate", "hset"} => Within(worker[w].s.counts, Answered)

AtWork(w) == worker[w].pc # "idle" => NewHere(w) /\ InHand(w) /\ Knows(w) /\ CountsRight(w)

AllTrue == OneChunkEach /\ GivenOnce /\ StatusesTrue /\ Counted
Sound == LeaseHeld /\ AllTrue /\ \A w \in Workers : AtWork(w)

----------------------------------------------------------------------------
(* Counting.                                                               *)

LEMMA KeysFinite == \A K \in SUBSET Keys : IsFiniteSet(K) /\ Cardinality(K) \in Nat
<1>1. IsFiniteSet(Slots)
  BY SendAssumption, FS_Interval DEF Slots
<1>2. IsFiniteSet(Channels)
  <2>1. IsFiniteSet(({"inApp"} \cup {"push"}) \cup {"email"})
    BY FS_Singleton, FS_AddElement
  <2>2. Channels \subseteq ({"inApp"} \cup {"push"}) \cup {"email"}
    BY SendAssumption DEF Channels
  <2> QED
    BY <2>1, <2>2, FS_Subset
<1>3. IsFiniteSet(Pairs)
  BY <1>2, SendAssumption, FS_Product DEF Pairs
<1>4. IsFiniteSet(Keys)
  BY <1>1, <1>3, FS_Product DEF Keys
<1> QED
  BY <1>4, FS_Subset, FS_CardinalityType

LEMMA WithinGrows ==
  ASSUME NEW counts \in [Channels -> Nat], NEW K \in SUBSET Keys, NEW L \in SUBSET Keys,
         K \subseteq L, Within(counts, K)
  PROVE  Within(counts, L)
<1> SUFFICES ASSUME NEW ch \in Channels PROVE counts[ch] <= Cardinality({k \in L : k[2][2] = ch})
  BY DEF Within
<1> DEFINE Kc == {k \in K : k[2][2] = ch}
           Lc == {k \in L : k[2][2] = ch}
<1>1. Kc \subseteq Lc /\ Kc \in SUBSET Keys /\ Lc \in SUBSET Keys
  OBVIOUS
<1>2. counts[ch] \in Nat /\ counts[ch] <= Cardinality(Kc)
  BY DEF Within
<1> HIDE DEF Kc, Lc
<1>3. Cardinality(Kc) <= Cardinality(Lc) /\ Cardinality(Kc) \in Nat /\ Cardinality(Lc) \in Nat
  BY <1>1, KeysFinite, FS_Subset
<1> QED
  BY <1>2, <1>3 DEF Lc

\* A set of people, none of them answered for yet, answered for on a channel.
LEMMA WithinAdds ==
  ASSUME NEW counts \in [Channels -> Nat], NEW K \in SUBSET Keys, Within(counts, K),
         NEW n \in Slots, NEW c \in Channels, NEW S \in SUBSET People,
         \A p \in S : <<n, <<p, c>>>> \notin K
  PROVE  Within([counts EXCEPT ![c] = @ + Cardinality(S)], K \cup {<<n, <<p, c>>>> : p \in S})
<1> DEFINE N == {<<n, <<p, c>>>> : p \in S}
           after == [counts EXCEPT ![c] = @ + Cardinality(S)]
           Of(L, ch) == {k \in L : k[2][2] = ch}
<1>1. N \in SUBSET Keys /\ K \cap N = {}
  BY DEF Keys, Pairs
<1>2. IsFiniteSet(S) /\ Cardinality(S) \in Nat
  BY SendAssumption, FS_Subset, FS_CardinalityType
<1>3. Cardinality(N) = Cardinality(S)
  <2> DEFINE f == [p \in S |-> <<n, <<p, c>>>>]
  <2>1. f \in Bijection(S, N)
    BY DEF Bijection, Injection, Surjection, IsInjective
  <2> QED
    BY <1>2, <2>1, FS_Bijection DEF ExistsBijection
<1> SUFFICES ASSUME NEW ch \in Channels PROVE after[ch] <= Cardinality(Of(K \cup N, ch))
  BY DEF Within
<1>4. counts[ch] \in Nat /\ counts[ch] <= Cardinality(Of(K, ch)) /\ Of(K, ch) \in SUBSET Keys
  BY DEF Within
<1>5. CASE ch = c
  <2>1. Of(K \cup N, ch) = Of(K, ch) \cup N /\ Of(K, ch) \cap N = {}
    BY <1>1, <1>5
  <2> HIDE DEF Of, N
  <2>2. Cardinality(Of(K, ch) \cup N) = Cardinality(Of(K, ch)) + Cardinality(N) - Cardinality(Of(K, ch) \cap N)
    BY <1>1, <1>4, KeysFinite, FS_Union
  <2>3. Cardinality(Of(K, ch) \cap N) = 0
    BY <2>1, FS_EmptySet
  <2>4. Cardinality(Of(K, ch)) \in Nat
    BY <1>4, KeysFinite
  <2>5. Cardinality(Of(K \cup N, ch)) = Cardinality(Of(K, ch) \cup N)
    BY <2>1
  <2>5a. Cardinality(Of(K \cup N, ch)) = Cardinality(Of(K, ch)) + Cardinality(S)
    BY <1>2, <1>3, <2>5, <2>2, <2>3, <2>4
  <2>6. after[ch] = counts[ch] + Cardinality(S)
    BY <1>5
  <2> QED
    BY <1>2, <1>4, <2>4, <2>5a, <2>6
<1>6. CASE ch # c
  <2>1. Of(K \cup N, ch) = Of(K, ch)
    BY <1>6
  <2>2. after[ch] = counts[ch]
    BY <1>6
  <2> QED
    BY <1>4, <2>1, <2>2
<1> QED
  BY <1>5, <1>6

LEMMA IdleIsCounted == \A K \in SUBSET Keys : Within(Draft.counts, K)
<1>1. \A ch \in Channels : Draft.counts[ch] = 0
  BY DEF Draft
<1>2. \A K \in SUBSET Keys, ch \in Channels : {k \in K : k[2][2] = ch} \in SUBSET Keys
  OBVIOUS
<1>3. \A K \in SUBSET Keys, ch \in Channels : 0 <= Cardinality({k \in K : k[2][2] = ch})
  BY <1>2, KeysFinite
<1> QED
  BY <1>1, <1>3 DEF Within

----------------------------------------------------------------------------

LEMMA InitSound == Init => Sound
<1> SUFFICES ASSUME Init PROVE Sound OBVIOUS
<1>1. \A w \in Workers : worker[w].pc = "idle"
  BY DEF Init, IdleWorker
<1>2. LeaseHeld /\ \A w \in Workers : AtWork(w)
  BY <1>1 DEF LeaseHeld, AtWork
<1>3. OneChunkEach
  BY DEF Init, OneChunkEach
<1>4. GivenOnce /\ StatusesTrue
  BY DEF Init, GivenOnce, StatusesTrue, Says
<1>5. Answered \in SUBSET Keys
  BY DEF Answered
<1>6. Counted
  BY <1>5, IdleIsCounted DEF Init, Counted, IdleAdmin
<1> QED
  BY <1>2, <1>3, <1>4, <1>6 DEF Sound, AllTrue

\* The lease keeps the others out: a step of whoever is at work is sound when
\* it leaves what is shared true, and that worker with what is so.
LEMMA SoundStep ==
  ASSUME IndTypeOK, Sound, NEW w \in Workers, worker[w].pc # "idle",
         NEW m \in WorkerRecs, Goes(w, m), AllTrue', AtWork(w)', m.pc # "idle" => lease' = lease
  PROVE  Sound'
<1>1. \A v \in Workers \ {w} : worker[v].pc = "idle"
  BY DEF Sound, LeaseHeld
<1>2. worker'[w] = m /\ \A v \in Workers \ {w} : worker'[v] = worker[v]
  BY DEF Goes, IndTypeOK, TypeOK
<1>3. LeaseHeld'
  BY <1>1, <1>2 DEF LeaseHeld, Sound
<1>4. \A v \in Workers \ {w} : AtWork(v)'
  BY <1>1, <1>2 DEF AtWork
<1> QED
  BY <1>3, <1>4 DEF Sound

World == <<chunk, st, claims, seen, given>>

LEMMA SameWorld ==
  ASSUME AllTrue, UNCHANGED World, UNCHANGED <<send, admin>>
  PROVE  AllTrue'
<1>1. OneChunkEach'
  BY DEF World, OneChunkEach, AllTrue
<1>2. GivenOnce'
  BY DEF World, GivenOnce, AllTrue
<1>3. StatusesTrue'
  BY DEF World, StatusesTrue, Says, AllTrue
<1>4. Answered' = Answered
  BY DEF World, Answered
<1>5. Counted'
  BY <1>4 DEF Counted, AllTrue
<1> QED
  BY <1>1, <1>2, <1>3, <1>5 DEF AllTrue

\* The worker as it is.
LEMMA Working ==
  ASSUME IndTypeOK, Sound, NEW w \in Workers
  PROVE  worker[w] \in WorkerRecs /\ Placed(worker[w]) /\ worker[w].s \in Sends /\ send \in Sends
         /\ AtWork(w) /\ AllTrue /\ Within(send.counts, Answered)
BY DEF IndTypeOK, TypeOK, WorkerRecs, Sound, AllTrue, Counted

\* A worker on its way elsewhere than to the gate or to somebody new.
Elsewhere == {"read", "srem", "load", "list", "sismember", "chunk", "save", "write", "end"}
LEMMA GoesElsewhere ==
  ASSUME IndTypeOK, Sound, NEW w \in Workers, worker[w].pc # "idle",
         UNCHANGED World, UNCHANGED lease, AllTrue',
         NEW m \in WorkerRecs, Goes(w, m), m.pc \in Elsewhere, m.fresh \subseteq worker[w].fresh,
         Within(m.s.counts, Answered)
  PROVE  Sound'
<1>1. worker'[w] = m
  BY DEF Goes, IndTypeOK, TypeOK
<1>3. NewHere(w)'
  BY <1>1 DEF World, NewHere, Elsewhere, Sound, AtWork
<1>4. InHand(w)' /\ Knows(w)'
  BY <1>1 DEF InHand, Knows, Elsewhere
<1>5. CountsRight(w)'
  <2>1. Answered' = Answered
    BY DEF World, Answered
  <2> QED
    BY <1>1, <2>1 DEF CountsRight, Elsewhere
<1> QED
  BY <1>3, <1>4, <1>5, SoundStep DEF AtWork

LEMMA RestSame ==
  ASSUME Sound, UNCHANGED Rest
  PROVE  UNCHANGED World /\ UNCHANGED <<send, admin, lease>> /\ AllTrue'
BY SameWorld DEF Rest, World, Sound

LEMMA ReadingSound ==
  ASSUME IndTypeOK, Sound, NEW w \in Workers,
         ReadStopped(w) \/ ReadOver(w) \/ ReadSpent(w) \/ ReadWork(w) \/ SaveRead(w)
  PROVE  Sound'
<1> DEFINE me == worker[w]
<1>1. me \in WorkerRecs /\ me.s \in Sends /\ send \in Sends /\ AtWork(w) /\ Within(send.counts, Answered)
  BY Working
<1>2. me.pc \in {"read", "save"} /\ UNCHANGED Rest
  BY DEF ReadStopped, ReadOver, ReadSpent, ReadWork, SaveRead, Rest
<1>3. Within(me.s.counts, Answered)
  BY <1>1, <1>2 DEF AtWork, CountsRight
<1>4. SUFFICES ASSUME NEW m \in WorkerRecs, Goes(w, m), m.pc \in Elsewhere, m.fresh = me.fresh,
                      m.s.counts = me.s.counts \/ m.s.counts = send.counts
               PROVE  Sound'
  <2>1. CASE ReadStopped(w) \/ ReadSpent(w)
    <3>1. PICK pc \in {"srem", "end"} : Goes(w, [me EXCEPT !.pc = pc])
      BY <2>1 DEF ReadStopped, ReadSpent
    <3> QED
      BY <1>1, <1>4, <3>1 DEF WorkerRecs, WorkerPcs, Elsewhere
  <2>2. CASE ReadOver(w)
    <3> DEFINE s == [send EXCEPT !.status = "done", !.cut = TRUE]
    <3>1. s \in Sends /\ s.counts = send.counts
      BY <1>1, StatusSet DEF Statuses
    <3>2. Goes(w, SaveThen(me, s, "srem"))
      BY <2>2 DEF ReadOver
    <3>3. SaveThen(me, s, "srem") \in WorkerRecs /\ SaveThen(me, s, "srem").pc = "save"
          /\ SaveThen(me, s, "srem").fresh = me.fresh /\ SaveThen(me, s, "srem").s = s
      BY <1>1, <3>1, SaveThenType DEF SaveThen, WorkerRecs
    <3> QED
      BY <1>4, <3>1, <3>2, <3>3 DEF Elsewhere
  <2>3. CASE ReadWork(w)
    <3> DEFINE s == [send EXCEPT !.status = "sending"]
               d == [s EXCEPT !.status = "done"]
               q == [me EXCEPT !.s = s, !.did = TRUE]
    <3>1. s \in Sends /\ d \in Sends /\ s.counts = send.counts /\ d.counts = send.counts
      BY <1>1 DEF Sends, Statuses
    <3>2. q \in WorkerRecs /\ q.s = s /\ q.fresh = me.fresh
      BY <1>1, <3>1 DEF WorkerRecs
    <3>3. Goes(w, [q EXCEPT !.pc = "load"]) \/ Goes(w, [q EXCEPT !.pc = "list"]) \/ Goes(w, SaveThen(q, d, "done"))
      BY <2>3 DEF ReadWork
    <3> HIDE DEF q, d, s
    <3>4. \A pc \in {"load", "list"} : LET m == [q EXCEPT !.pc = pc]
          IN m \in WorkerRecs /\ m.pc = pc /\ m.fresh = me.fresh /\ m.s = s
      BY <3>1, <3>2 DEF WorkerRecs, WorkerPcs
    <3>5. LET m == SaveThen(q, d, "done")
          IN m \in WorkerRecs /\ m.pc = "save" /\ m.fresh = me.fresh /\ m.s = d
      BY <3>1, <3>2, SaveThenType DEF SaveThen, WorkerRecs
    <3> QED
      BY <1>4, <3>1, <3>3, <3>4, <3>5 DEF Elsewhere
  <2>4. CASE SaveRead(w)
    <3> DEFINE m == [me EXCEPT !.cur = send.status, !.pc = "write"]
    <3>1. m \in WorkerRecs /\ m.pc = "write" /\ m.fresh = me.fresh /\ m.s = me.s
      BY <1>1 DEF WorkerRecs, WorkerPcs, Sends
    <3>2. Goes(w, m)
      BY <2>4 DEF SaveRead
    <3> QED
      BY <1>4, <3>1, <3>2 DEF Elsewhere
  <2> QED
    BY <2>1, <2>2, <2>3, <2>4
<1> QED
  BY <1>1, <1>2, <1>3, <1>4, GoesElsewhere, RestSame

\* A step of nobody's, or of a control.
LEMMA NobodyMoves ==
  ASSUME Sound, UNCHANGED World, UNCHANGED <<worker, lease>>, AllTrue'
  PROVE  Sound'
<1>1. LeaseHeld'
  BY DEF LeaseHeld, Sound
<1>2. Answered' = Answered /\ \A w \in Workers : Adding(w)' = Adding(w)
  BY DEF World, Answered, Adding
<1>3. ASSUME NEW w \in Workers, AtWork(w) PROVE AtWork(w)'
  <2>1. NewHere(w) => NewHere(w)'
    BY DEF World, NewHere
  <2>2. InHand(w) => InHand(w)'
    BY DEF World, InHand, ClaimKey, Channel
  <2>3. Knows(w) => Knows(w)'
    BY DEF World, Knows, Says
  <2>4. CountsRight(w) => CountsRight(w)'
    BY <1>2 DEF CountsRight
  <2> QED
    BY <1>3, <2>1, <2>2, <2>3, <2>4 DEF AtWork
<1> QED
  BY <1>1, <1>3 DEF Sound

LEMMA ControlSound ==
  ASSUME IndTypeOK, Sound, NEW a \in Admins, BeginControl(a) \/ ControlWrite(a) \/ ControlActive(a)
  PROVE  Sound'
<1>1. UNCHANGED World /\ UNCHANGED <<worker, lease>>
  BY DEF BeginControl, ControlWrite, ControlActive, World
<1>2. Answered' = Answered
  BY <1>1 DEF World, Answered
<1>3. OneChunkEach' /\ GivenOnce' /\ StatusesTrue'
  BY <1>1 DEF World, OneChunkEach, GivenOnce, StatusesTrue, Says, Sound, AllTrue
<1>4. Within(send.counts, Answered) /\ \A b \in Admins : admin[b].pc # "idle" => Within(admin[b].s.counts, Answered)
  BY DEF Sound, AllTrue, Counted
<1>5. CASE BeginControl(a)
  <2>1. PICK action \in Actions : AdminGoes(a, [pc |-> "write", s |-> Controlled(action, send)])
    BY <1>5 DEF BeginControl
  <2>1a. action \in {"confirm", "pause", "resume", "cancel"}
    BY SendAssumption
  <2>2. Controlled(action, send).counts = send.counts /\ UNCHANGED send
    BY <1>5, <2>1a, ControlledType DEF BeginControl, IndTypeOK, TypeOK
  <2>3. admin'[a].s.counts = send.counts /\ \A b \in Admins \ {a} : admin'[b] = admin[b]
    BY <2>1, <2>2 DEF AdminGoes, IndTypeOK, TypeOK
  <2>4. Counted'
    BY <1>2, <1>4, <2>2, <2>3 DEF Counted
  <2> QED
    BY <1>1, <1>3, <2>4, NobodyMoves DEF AllTrue
<1>6. CASE ControlWrite(a)
  <2>1. /\ send'.counts = admin[a].s.counts /\ admin[a].pc # "idle"
        /\ \A b \in Admins : admin'[b].s = admin[b].s
        /\ \A b \in Admins : admin'[b].pc # "idle" => admin[b].pc # "idle"
    BY <1>6 DEF ControlWrite, AdminGoes, IndTypeOK, TypeOK
  <2>2. Counted'
    BY <1>2, <1>4, <2>1 DEF Counted
  <2> QED
    BY <1>1, <1>3, <2>2, NobodyMoves DEF AllTrue
<1>7. CASE ControlActive(a)
  <2>1. send' = send /\ admin'[a].pc = "idle" /\ \A b \in Admins \ {a} : admin'[b] = admin[b]
    BY <1>7 DEF ControlActive, AdminGoes, IndTypeOK, TypeOK, IdleAdmin
  <2>2. Counted'
    BY <1>2, <1>4, <2>1 DEF Counted
  <2> QED
    BY <1>1, <1>3, <2>2, NobodyMoves DEF AllTrue
<1> QED
  BY <1>5, <1>6, <1>7

LEMMA SavingSound ==
  ASSUME IndTypeOK, Sound, NEW w \in Workers, SaveWrite(w) \/ Srem(w) \/ End(w) \/ Dies(w)
  PROVE  Sound'
<1> DEFINE me == worker[w]
<1>1. me \in WorkerRecs /\ me.s \in Sends /\ AtWork(w) /\ AllTrue
  BY Working
<1>2. UNCHANGED World /\ UNCHANGED admin /\ me.pc # "idle"
  BY DEF SaveWrite, Srem, End, Dies, World
<1>3. CASE SaveWrite(w)
  <2> DEFINE m == [IdleWorker EXCEPT !.pc = AfterSave(me), !.did = TRUE]
  <2>1. AfterSave(me) \in {"read", "srem", "end"}
    BY <1>1 DEF AfterSave, WorkerRecs
  <2>2. m \in WorkerRecs /\ m.pc \in Elsewhere /\ m.fresh = {} /\ m.s = Draft
    BY <2>1, FixedTypes DEF WorkerRecs, WorkerPcs, IdleWorker, Elsewhere
  <2>3. Goes(w, m) /\ UNCHANGED lease
    BY <1>3 DEF SaveWrite
  <2>4. Answered' = Answered /\ Answered \in SUBSET Keys
    BY <1>2 DEF World, Answered
  <2>5. send' = Merged(me) /\ Merged(me).counts = me.s.counts /\ me.pc = "write"
    BY <1>1, <1>3, StatusSet DEF SaveWrite, Merged, WorkerRecs
  <2>6. Within(send'.counts, Answered')
    BY <1>1, <2>4, <2>5 DEF AtWork, CountsRight
  <2>7. AllTrue'
    <3>1. OneChunkEach' /\ GivenOnce' /\ StatusesTrue'
      BY <1>1, <1>2 DEF World, OneChunkEach, GivenOnce, StatusesTrue, Says, AllTrue
    <3>2. Counted'
      BY <1>1, <1>2, <2>4, <2>6 DEF Counted, AllTrue
    <3> QED
      BY <3>1, <3>2 DEF AllTrue
  <2>8. Within(m.s.counts, Answered)
    BY <2>2, <2>4, IdleIsCounted
  <2> HIDE DEF m
  <2> QED
    BY <1>2, <2>2, <2>3, <2>7, <2>8, GoesElsewhere
<1>4. CASE Srem(w)
  <2> DEFINE m == [me EXCEPT !.pc = "end"]
  <2>1. m \in WorkerRecs /\ m.pc = "end" /\ m.fresh = me.fresh /\ m.s = me.s
    BY <1>1 DEF WorkerRecs, WorkerPcs
  <2>2. Goes(w, m) /\ UNCHANGED <<lease, send>> /\ me.pc = "srem"
    BY <1>4 DEF Srem
  <2>3. Within(me.s.counts, Answered)
    BY <1>1, <2>2 DEF AtWork, CountsRight
  <2> HIDE DEF m
  <2> QED
    BY <1>1, <1>2, <2>1, <2>2, <2>3, SameWorld, GoesElsewhere DEF Elsewhere
<1>5. CASE End(w) \/ Dies(w)
  <2>1. Goes(w, IdleWorker) /\ UNCHANGED send
    BY <1>5 DEF End, Dies
  <2>2. worker'[w] = IdleWorker
    BY <2>1 DEF Goes, IndTypeOK, TypeOK
  <2>3. AtWork(w)' /\ IdleWorker.pc = "idle"
    BY <2>2 DEF AtWork, IdleWorker
  <2> QED
    BY <1>1, <1>2, <2>1, <2>3, FixedTypes, SameWorld, SoundStep
<1> QED
  BY <1>3, <1>4, <1>5

LEMMA StartSound ==
  ASSUME IndTypeOK, Sound, NEW w \in Workers, Start(w)
  PROVE  Sound'
<1> DEFINE m == [IdleWorker EXCEPT !.pc = "read"]
<1>1. worker' = [worker EXCEPT ![w] = m] /\ lease = "free" /\ lease' = w
      /\ UNCHANGED World /\ UNCHANGED <<send, admin>>
  BY DEF Start, Goes, World
<1>2. \A v \in Workers : worker[v].pc = "idle"
  BY <1>1, SendAssumption DEF Sound, LeaseHeld
<1>3. worker'[w] = m /\ \A v \in Workers \ {w} : worker'[v] = worker[v]
  BY <1>1 DEF IndTypeOK, TypeOK
<1>4. m.pc = "read" /\ m.fresh = {} /\ m.s = Draft
  BY DEF IdleWorker
<1> HIDE DEF m
<1>5. LeaseHeld'
  BY <1>1, <1>2, <1>3 DEF LeaseHeld
<1>6. AllTrue'
  BY <1>1, SameWorld DEF Sound
<1>7. NewHere(w)' /\ InHand(w)' /\ Knows(w)'
  BY <1>3, <1>4 DEF NewHere, InHand, Knows
<1>8. CountsRight(w)'
  <2>1. Answered' \in SUBSET Keys
    BY DEF Answered
  <2> QED
    BY <1>3, <1>4, <2>1, IdleIsCounted DEF CountsRight
<1>9. \A v \in Workers \ {w} : AtWork(v)'
  BY <1>2, <1>3 DEF AtWork
<1> QED
  BY <1>5, <1>6, <1>7, <1>8, <1>9 DEF Sound, AtWork

LEMMA LeaseSound ==
  ASSUME ~SlowWorkers, IndTypeOK, Sound, LeaseExpires
  PROVE  Sound'
<1>1. lease = "left" /\ UNCHANGED World /\ UNCHANGED <<send, admin, worker>>
  BY DEF LeaseExpires, World
<1>2. \A v \in Workers : worker[v].pc = "idle"
  BY <1>1, SendAssumption DEF Sound, LeaseHeld
<1>3. LeaseHeld' /\ \A v \in Workers : AtWork(v)'
  BY <1>1, <1>2 DEF LeaseHeld, AtWork
<1> QED
  BY <1>1, <1>3, SameWorld DEF Sound

LEMMA ListingSound ==
  ASSUME IndTypeOK, Sound, NEW w \in Workers,
         ListPage(w) \/ ListingFails(w) \/ Sismember(w) \/ Listed(w) \/ EndPage(w)
  PROVE  Sound'
<1> DEFINE me == worker[w]
<1>1. me \in WorkerRecs /\ me.s \in Sends /\ AtWork(w) /\ me.todo \subseteq People
  BY Working DEF WorkerRecs
<1>2. me.pc \in Listing /\ UNCHANGED Rest
  BY DEF ListPage, ListingFails, Sismember, Listed, EndPage, Listing, Rest
<1>3. Within(me.s.counts, Answered) /\ NewHere(w)
  BY <1>1, <1>2 DEF AtWork, CountsRight, Listing
<1>4. ASSUME NEW m \in WorkerRecs, Goes(w, m), m.pc \in Elsewhere, m.fresh = me.fresh, m.s.counts = me.s.counts
      PROVE  Sound'
  BY <1>2, <1>3, <1>4, GoesElsewhere, RestSame DEF Listing
<1>5. CASE ListPage(w)
  <2> DEFINE m == [me EXCEPT !.pc = "sismember", !.todo = Pages[me.s.cursor + 1]]
  <2>1. Pages[me.s.cursor + 1] \in SUBSET People
    BY <1>5, SendAssumption DEF ListPage
  <2>2. m \in WorkerRecs /\ m.pc = "sismember" /\ m.fresh = me.fresh /\ m.s = me.s
    BY <1>1, <2>1 DEF WorkerRecs, WorkerPcs
  <2>3. Goes(w, m)
    BY <1>5 DEF ListPage
  <2> HIDE DEF m
  <2> QED
    BY <1>4, <2>2, <2>3 DEF Elsewhere
<1>6. CASE ListingFails(w)
  <2> DEFINE m == SaveThen(me, me.s, "end")
  <2>1. m \in WorkerRecs /\ m.pc = "save" /\ m.fresh = me.fresh /\ m.s = me.s
    BY <1>1, SaveThenType DEF SaveThen, WorkerRecs
  <2>2. Goes(w, m)
    BY <1>6 DEF ListingFails
  <2> HIDE DEF m
  <2> QED
    BY <1>4, <2>1, <2>2 DEF Elsewhere
<1>7. CASE Sismember(w)
  <2>1. PICK p \in me.todo :
            Goes(w, IF IsFresh(p) THEN [me EXCEPT !.todo = @ \ {p}, !.go = {p}, !.pc = "sadd"]
                    ELSE [me EXCEPT !.todo = @ \ {p}])
    BY <1>7 DEF Sismember
  <2> DEFINE m1 == [me EXCEPT !.todo = @ \ {p}, !.go = {p}, !.pc = "sadd"]
             m2 == [me EXCEPT !.todo = @ \ {p}]
  <2>2. me.pc = "sismember" /\ p \in People
    BY <1>1, <1>7 DEF Sismember
  <2>3. m2 \in WorkerRecs /\ m2.pc = "sismember" /\ m2.fresh = me.fresh /\ m2.s = me.s
    BY <1>1, <2>2 DEF WorkerRecs
  <2>4. m1 \in WorkerRecs /\ m1.pc = "sadd" /\ m1.fresh = me.fresh /\ m1.s = me.s /\ m1.go = {p}
    BY <1>1, <2>2 DEF WorkerRecs, WorkerPcs
  <2>5. CASE ~IsFresh(p)
    <3>1. Goes(w, m2)
      BY <2>1, <2>5
    <3> HIDE DEF m2
    <3> QED
      BY <1>4, <2>3, <3>1 DEF Elsewhere
  <2>6. CASE IsFresh(p)
    <3>1. Goes(w, m1) /\ p \notin seen
      BY <2>1, <2>6 DEF IsFresh
    <3> HIDE DEF m1
    <3>2. worker'[w] = m1
      BY <3>1 DEF Goes, IndTypeOK, TypeOK
    <3>3. UNCHANGED World /\ UNCHANGED lease /\ AllTrue'
      BY <1>2, RestSame
    <3>4. NewHere(w)'
      BY <1>3, <2>4, <3>1, <3>2, <3>3 DEF World, NewHere
    <3>5. InHand(w)' /\ Knows(w)'
      BY <2>4, <3>2 DEF InHand, Knows
    <3>6. CountsRight(w)'
      BY <1>3, <2>4, <3>2, <3>3 DEF World, CountsRight, Answered
    <3> QED
      BY <1>2, <2>4, <3>1, <3>3, <3>4, <3>5, <3>6, SoundStep DEF AtWork, Listing
  <2> QED
    BY <2>5, <2>6
<1>8. CASE Listed(w)
  <2> DEFINE m == [me EXCEPT !.pc = "chunk"]
  <2>1. m \in WorkerRecs /\ m.pc = "chunk" /\ m.fresh = me.fresh /\ m.s = me.s
    BY <1>1 DEF WorkerRecs, WorkerPcs
  <2>2. Goes(w, m)
    BY <1>8 DEF Listed
  <2> HIDE DEF m
  <2> QED
    BY <1>4, <2>1, <2>2 DEF Elsewhere
<1>9. CASE EndPage(w)
  <2> DEFINE s == [me.s EXCEPT !.cursor = @ + 1, !.listed = ListedAll(me.s.cursor + 1)]
             m == SaveThen(me, s, "read")
  <2>1. ListedAll(me.s.cursor + 1) \in BOOLEAN /\ me.s.cursor + 1 \in Nat
    BY <1>1 DEF ListedAll, WorkerRecs, Sends
  <2>2. s \in Sends /\ s.counts = me.s.counts
    BY <1>1, <2>1, ListedSet
  <2>3. Goes(w, m)
    BY <1>9 DEF EndPage
  <2> HIDE DEF s
  <2>4. m \in WorkerRecs /\ m.pc = "save" /\ m.fresh = me.fresh /\ m.s = s
    BY <1>1, <2>2, SaveThenType DEF SaveThen, WorkerRecs
  <2> HIDE DEF m
  <2> QED
    BY <1>4, <2>2, <2>3, <2>4 DEF Elsewhere
<1> QED
  BY <1>5, <1>6, <1>7, <1>8, <1>9

\* A person noted as seen is in no chunk yet: whoever is in one was seen.
LEMMA SaddSound ==
  ASSUME IndTypeOK, Sound, NEW w \in Workers, Sadd(w)
  PROVE  Sound'
<1> DEFINE me == worker[w]
           m == [me EXCEPT !.fresh = @ \cup me.go, !.go = {}, !.pc = "sismember"]
<1>1. me \in WorkerRecs /\ AtWork(w) /\ AllTrue /\ me.pc = "sadd" /\ me.go \subseteq People
  BY Working DEF Sadd, WorkerRecs
<1>2. Goes(w, m) /\ seen' = seen \cup me.go /\ UNCHANGED <<send, chunk, st, claims, lease, admin, given>>
  BY DEF Sadd
<1>3. m \in WorkerRecs /\ m.pc = "sismember" /\ m.fresh = me.fresh \cup me.go /\ m.s = me.s
  BY <1>1 DEF WorkerRecs, WorkerPcs
<1> HIDE DEF m
<1>4. worker'[w] = m
  BY <1>2 DEF Goes, IndTypeOK, TypeOK
<1>5. OneChunkEach /\ GivenOnce /\ StatusesTrue /\ Counted /\ NewHere(w) /\ CountsRight(w)
  BY <1>1 DEF AllTrue, AtWork
<1>6. OneChunkEach'
  BY <1>2, <1>5 DEF OneChunkEach
<1>7. GivenOnce' /\ StatusesTrue'
  BY <1>2, <1>5 DEF GivenOnce, StatusesTrue, Says
<1>8. Answered' = Answered
  BY <1>2 DEF Answered
<1>9. Counted'
  BY <1>2, <1>5, <1>8 DEF Counted
<1>10. NewHere(w)'
  <2>1. me.go \cap seen = {}
    BY <1>1, <1>5 DEF NewHere
  <2>2. \A p \in me.go : (\A n \in Slots : p \notin chunk[n]) /\ \A k \in claims : k[2][1] # p
    BY <1>5, <2>1 DEF OneChunkEach
  <2> QED
    BY <1>2, <1>3, <1>4, <1>5, <2>2 DEF NewHere
<1>11. InHand(w)' /\ Knows(w)' /\ CountsRight(w)'
  BY <1>1, <1>3, <1>4, <1>5, <1>8 DEF InHand, Knows, CountsRight
<1> QED
  BY <1>1, <1>2, <1>3, <1>6, <1>7, <1>9, <1>10, <1>11, SoundStep DEF AllTrue, AtWork

\* A chunk may be written over another one, of a listing a control has set
\* back: whoever was in that one is seen, and in no chunk again.
LEMMA WriteChunkSound ==
  ASSUME IndTypeOK, Sound, NEW w \in Workers, WriteChunk(w)
  PROVE  Sound'
<1> DEFINE me == worker[w]
           c == me.s.chunks
<1>1. me \in WorkerRecs /\ me.s \in Sends /\ AtWork(w) /\ AllTrue /\ me.pc = "chunk" /\ c \in Slots
  BY Working DEF WriteChunk
<1>2. PICK S \in SUBSET me.fresh :
          /\ chunk' = [chunk EXCEPT ![c] = S]
          /\ Goes(w, [me EXCEPT !.s.chunks = @ + 1, !.fresh = @ \ S])
  BY DEF WriteChunk
<1>3. UNCHANGED <<send, st, claims, seen, lease, admin, given>>
  BY DEF WriteChunk
<1> DEFINE s == [me.s EXCEPT !.chunks = @ + 1]
           m == [me EXCEPT !.s = s, !.fresh = @ \ S]
<1>4. s \in Sends /\ s.counts = me.s.counts
  BY <1>1 DEF Sends
<1>5. m \in WorkerRecs /\ m.pc = "chunk" /\ m.fresh = me.fresh \ S /\ m.s = s
  BY <1>1, <1>4 DEF WorkerRecs
<1>6. Goes(w, m)
  BY <1>1, <1>2 DEF WorkerRecs
<1> HIDE DEF m, s
<1>7. worker'[w] = m
  BY <1>6 DEF Goes, IndTypeOK, TypeOK
<1>8. OneChunkEach /\ GivenOnce /\ StatusesTrue /\ Counted /\ NewHere(w) /\ CountsRight(w)
  BY <1>1 DEF AllTrue, AtWork
<1>9. chunk'[c] = S /\ \A n \in Slots \ {c} : chunk'[n] = chunk[n]
  BY <1>1, <1>2 DEF IndTypeOK, TypeOK
<1>10. \A p \in S : p \in seen /\ (\A n \in Slots : p \notin chunk[n]) /\ \A k \in claims : k[2][1] # p
  BY <1>8 DEF NewHere
<1>11. OneChunkEach'
  BY <1>3, <1>8, <1>9, <1>10 DEF OneChunkEach
<1>12. GivenOnce' /\ StatusesTrue'
  BY <1>3, <1>8 DEF GivenOnce, StatusesTrue, Says
<1>13. Answered' = Answered
  BY <1>3 DEF Answered
<1>14. Counted'
  BY <1>3, <1>8, <1>13 DEF Counted
<1>15. NewHere(w)'
  BY <1>3, <1>5, <1>7, <1>8, <1>9 DEF NewHere
<1>16. InHand(w)' /\ Knows(w)' /\ CountsRight(w)'
  BY <1>1, <1>4, <1>5, <1>7, <1>8, <1>13 DEF InHand, Knows, CountsRight
<1> QED
  BY <1>1, <1>3, <1>5, <1>6, <1>11, <1>12, <1>14, <1>15, <1>16, SoundStep DEF AllTrue, AtWork

LEMMA LoadSound ==
  ASSUME IndTypeOK, Sound, NEW w \in Workers, Load(w)
  PROVE  Sound'
<1> DEFINE me == worker[w]
           n == me.s.nextChunk
           list == chunk[n]
           mine == [x \in Pairs |-> st[<<n, x>>]]
           m == [me EXCEPT !.list = list, !.mine = mine, !.pc = "gate"]
<1>1. me \in WorkerRecs /\ me.s \in Sends /\ AtWork(w) /\ AllTrue /\ me.todo = {} /\ me.go = {}
      /\ me.pc = "load" /\ n \in Slots
  BY Working DEF Load, Placed
<1>2. Goes(w, m) /\ UNCHANGED Rest
  BY DEF Load, Rest
<1>3. list \in SUBSET People /\ mine \in [Pairs -> States]
  BY <1>1 DEF IndTypeOK, TypeOK, Keys
<1> HIDE DEF list, mine
<1>4. m \in WorkerRecs /\ m.list = list /\ m.mine = mine /\ m.pc = "gate" /\ m.todo = {} /\ m.go = {}
      /\ m.s = me.s /\ m.fresh = me.fresh
  BY <1>1, <1>3 DEF WorkerRecs, WorkerPcs
<1> HIDE DEF m
<1>5. worker'[w] = m
  BY <1>2 DEF Goes, IndTypeOK, TypeOK
<1>6. UNCHANGED World /\ UNCHANGED lease /\ AllTrue'
  BY <1>2, RestSame
<1>7. NewHere(w)'
  BY <1>1, <1>4, <1>5, <1>6 DEF NewHere, World, AtWork
<1>8. InHand(w)'
  BY <1>1, <1>4, <1>5, <1>6 DEF InHand, World, list
<1>9. Knows(w)'
  <2>1. \A x \in Pairs : mine[x] = st[<<n, x>>] /\ <<n, x>> \in Keys
    BY <1>1 DEF mine, Keys
  <2>2. \A x \in Pairs : Says(mine[x], <<n, x>>, claims', given')
    BY <1>1, <1>6, <2>1 DEF AllTrue, StatusesTrue, Says, World
  <2> QED
    BY <1>4, <1>5, <1>6, <2>1, <2>2 DEF Knows, World
<1>10. CountsRight(w)'
  <2>1. Answered' = Answered /\ Answered \in SUBSET Keys /\ Answered \cup Adding(w)' \in SUBSET Keys
    BY <1>6 DEF World, Answered, Adding
  <2>2. Within(me.s.counts, Answered) /\ me.s.counts \in [Channels -> Nat]
    BY <1>1 DEF AtWork, CountsRight, Sends
  <2>3. Within(me.s.counts, Answered \cup Adding(w)')
    BY <2>1, <2>2, WithinGrows
  <2> QED
    BY <1>4, <1>5, <2>1, <2>3 DEF CountsRight
<1> QED
  BY <1>1, <1>2, <1>4, <1>6, <1>7, <1>8, <1>9, <1>10, SoundStep DEF AtWork

LEMMA NextChannelSound ==
  ASSUME IndTypeOK, Sound, NEW w \in Workers, NextChannel(w)
  PROVE  Sound'
<1> DEFINE me == worker[w]
<1>1. me \in WorkerRecs /\ AtWork(w) /\ AllTrue /\ me.todo = {} /\ me.go = {} /\ me.pc = "gate" /\ me.ch \in Nat
  BY Working DEF NextChannel, WorkerRecs
<1>2. UNCHANGED Rest
  BY DEF NextChannel, Rest
<1>3. SUFFICES ASSUME NEW m \in WorkerRecs, Goes(w, m), m.pc \in {"gate", "hset"}, m.s = me.s, m.mine = me.mine,
                      m.list = me.list, m.todo \subseteq me.list, m.go = {}, m.fresh = me.fresh, m.changed = me.changed
               PROVE  Sound'
  <2> DEFINE next == me.ch + 1
             m1 == [me EXCEPT !.pc = "hset"]
             m2 == [me EXCEPT !.ch = next, !.todo = me.list]
             m3 == [me EXCEPT !.ch = next]
  <2>1. next \in Nat
    BY <1>1
  <2>2. Goes(w, m1) \/ Goes(w, m2) \/ Goes(w, m3)
    BY DEF NextChannel
  <2> HIDE DEF next
  <2>3. \A m \in {m1, m2, m3} :
           m \in WorkerRecs /\ m.pc \in {"gate", "hset"} /\ m.s = me.s /\ m.mine = me.mine
           /\ m.list = me.list /\ m.todo \subseteq me.list /\ m.go = {} /\ m.fresh = me.fresh /\ m.changed = me.changed
    BY <1>1, <2>1 DEF WorkerRecs, WorkerPcs
  <2> HIDE DEF m1, m2, m3
  <2> QED
    BY <1>3, <2>2, <2>3
<1>4. worker'[w] = m
  BY <1>3 DEF Goes, IndTypeOK, TypeOK
<1>5. UNCHANGED World /\ UNCHANGED lease /\ AllTrue'
  BY <1>2, RestSame
<1>6. NewHere(w) /\ InHand(w) /\ Knows(w) /\ CountsRight(w)
  BY <1>1 DEF AtWork
<1>7. NewHere(w)'
  BY <1>1, <1>3, <1>4, <1>5, <1>6 DEF NewHere, World
<1>8. InHand(w)'
  BY <1>1, <1>3, <1>4, <1>5, <1>6 DEF InHand, World
<1>9. Knows(w)'
  BY <1>1, <1>3, <1>4, <1>5, <1>6 DEF Knows, World, Says
<1>10. CountsRight(w)'
  <2>1. Answered' = Answered /\ Adding(w)' = Adding(w)
    BY <1>3, <1>4, <1>5 DEF World, Answered, Adding
  <2> QED
    BY <1>1, <1>3, <1>4, <1>6, <2>1 DEF CountsRight
<1> QED
  BY <1>1, <1>3, <1>5, <1>7, <1>8, <1>9, <1>10, SoundStep DEF AtWork

\* A status set in memory: for people nothing is recorded of, and true.
LEMMA SetsSound ==
  ASSUME IndTypeOK, Sound, NEW w \in Workers, worker[w].pc = "gate", worker[w].ch \in DOMAIN On,
         NEW todo \in SUBSET worker[w].todo, NEW go \in SUBSET worker[w].go, NEW S \in SUBSET People,
         S \cap go = {}, NEW state \in States \ {"none"},
         \A p \in S : worker[w].mine[<<p, Channel(worker[w])>>] = "none",
         UNCHANGED <<chunk, st, claims, seen, lease>>, AllTrue',
         \A x \in Pairs : given'[x] = given[x] \/ (x[1] \in S /\ x[2] = Channel(worker[w])),
         \A p \in S : Says(state, <<worker[w].s.nextChunk, <<p, Channel(worker[w])>>>>, claims', given'),
         Goes(w, Sets([worker[w] EXCEPT !.todo = todo, !.go = go], S, state))
  PROVE  Sound'
<1> DEFINE me == worker[w]
           c == Channel(me)
           n == me.s.nextChunk
           held == [me EXCEPT !.todo = todo, !.go = go]
           m == Sets(held, S, state)
<1>1. me \in WorkerRecs /\ me.s \in Sends /\ NewHere(w) /\ InHand(w) /\ Knows(w) /\ CountsRight(w)
      /\ me.todo \subseteq People /\ me.go \subseteq People
  BY Working DEF AtWork, WorkerRecs
<1>2. held \in WorkerRecs /\ held.ch = me.ch /\ held.pc = "gate" /\ held.todo = todo /\ held.go = go
      /\ held.s = me.s /\ held.mine = me.mine /\ held.list = me.list /\ held.fresh = me.fresh
      /\ held.changed = me.changed
  BY <1>1 DEF WorkerRecs
<1>3. Channel(held) = c /\ c \in Channels /\ n \in Slots
  BY <1>1, <1>2 DEF Channel, Channels, InHand
<1> DEFINE mine == Marked(me.mine, S, c, state)
<1> HIDE DEF held
<1>4. /\ m \in WorkerRecs /\ m.pc = "gate" /\ m.ch = me.ch /\ m.todo = todo /\ m.go = go /\ m.list = me.list
      /\ m.fresh = me.fresh /\ m.changed = me.changed \cup S /\ m.s.nextChunk = n
      /\ m.s.counts = Raised(me.s.counts, S, c) /\ m.mine = mine
  BY <1>2, <1>3, SetsEffect
<1>5. Goes(w, m)
  BY DEF held
<1> HIDE DEF m, mine
<1>6. worker'[w] = m
  BY <1>5 DEF Goes, IndTypeOK, TypeOK
<1>7. Channel(m) = c
  BY <1>4 DEF Channel
<1>8. NewHere(w)'
  BY <1>1, <1>4, <1>6 DEF NewHere
<1>9. InHand(w)'
  <2>1. \A p \in go : <<p, c>> \in Pairs /\ p \notin S
    BY <1>1, <1>3 DEF Pairs
  <2>2. \A p \in go : given'[<<p, c>>] = 0 /\ mine[<<p, c>>] = "none" /\ p \in me.list
                      /\ <<n, <<p, c>>>> \in claims
    BY <1>1, <2>1 DEF InHand, mine, Marked, ClaimKey
  <2> QED
    BY <1>1, <1>3, <1>4, <1>6, <1>7, <2>2 DEF InHand, ClaimKey
<1>10. Knows(w)'
  <2>1. ASSUME NEW x \in Pairs
        PROVE  /\ Says(mine[x], <<n, x>>, claims', given')
               /\ mine[x] = "none" => st[<<n, x>>] = "none"
               /\ mine[x] # "none" /\ st[<<n, x>>] = "none" => x[1] \in me.changed \cup S
    <3>1. CASE x[1] \in S /\ x[2] = c
      <4>1. x = <<x[1], c>> /\ mine[x] = state
        BY <3>1 DEF mine, Marked, Pairs
      <4>2. \A p \in S : Says(state, <<n, <<p, c>>>>, claims', given')
        OBVIOUS
      <4>3. Says(state, <<n, x>>, claims', given')
        BY <3>1, <4>1, <4>2
      <4> QED
        BY <3>1, <4>1, <4>3 DEF Says
    <3>2. CASE ~(x[1] \in S /\ x[2] = c)
      <4>1. mine[x] = me.mine[x] /\ given'[x] = given[x]
        BY <3>2 DEF mine, Marked
      <4> QED
        BY <1>1, <4>1 DEF Knows, Says
    <3> QED
      BY <3>1, <3>2
  <2> QED
    BY <1>4, <1>6, <2>1 DEF Knows
<1>11. CountsRight(w)'
  <2> DEFINE N == {<<n, <<p, c>>>> : p \in S}
             K == Answered \cup Adding(w)
  <2>1. \A p \in S : <<n, <<p, c>>>> \in Keys /\ <<p, c>> \in Pairs
    BY <1>3 DEF Keys, Pairs
  <2>2. \A p \in S : <<n, <<p, c>>>> \notin K
    BY <1>1, <2>1 DEF Answered, Adding, Knows
  <2>3. K \in SUBSET Keys /\ Within(me.s.counts, K) /\ me.s.counts \in [Channels -> Nat]
    BY <1>1 DEF Answered, Adding, CountsRight, Sends
  <2>4. Within(m.s.counts, K \cup N)
    BY <1>3, <1>4, <2>2, <2>3, WithinAdds DEF Raised
  <2>5. K \cup N = Answered' \cup Adding(w)'
    <3>1. Answered' = Answered
      BY DEF Answered
    <3>2. Adding(w)' = {k \in Keys : k[1] = n /\ mine[k[2]] # "none"}
      BY <1>4, <1>6 DEF Adding
    <3>3. \A k \in Keys : k[2] \in Pairs /\ k = <<k[1], <<k[2][1], k[2][2]>>>>
      BY DEF Keys, Pairs
    <3>4. \A k \in Keys : k[1] = n => (mine[k[2]] # "none" <=> me.mine[k[2]] # "none" \/ (k[2][1] \in S /\ k[2][2] = c))
      BY <3>3 DEF mine, Marked
    <3>5. \A k \in Keys : k \in N <=> k[1] = n /\ k[2][1] \in S /\ k[2][2] = c
      BY <3>3
    <3>6. \A k \in Keys : k \in Adding(w)' <=> k \in Adding(w) \/ k \in N
      BY <3>2, <3>4, <3>5 DEF Adding
    <3> HIDE DEF N
    <3>7. N \subseteq Keys /\ Adding(w)' \subseteq Keys /\ Adding(w) \subseteq Keys
      BY <2>1, <3>2 DEF N, Adding
    <3> QED
      BY <3>1, <3>6, <3>7
  <2> QED
    BY <1>4, <1>6, <2>4, <2>5 DEF CountsRight
<1> QED
  BY <1>4, <1>5, <1>8, <1>9, <1>10, <1>11, SoundStep DEF AtWork

\* A claim is another slot's only if the person is in another chunk.
LEMMA Unclaimed ==
  ASSUME IndTypeOK, Sound, NEW w \in Workers, worker[w].pc = "gate", worker[w].ch \in DOMAIN On,
         NEW p \in worker[w].list, ClaimKey(worker[w], p) \notin claims
  PROVE  given[<<p, Channel(worker[w])>>] = 0
<1> DEFINE me == worker[w]
           x == <<p, Channel(me)>>
<1>1. InHand(w) /\ AllTrue /\ me.list \subseteq People
  BY Working DEF AtWork, WorkerRecs
<1>2. x \in Pairs /\ x[1] = p /\ p \in chunk[me.s.nextChunk] /\ me.s.nextChunk \in Slots
  BY <1>1 DEF Pairs, Channel, Channels, InHand
<1>3. \A k \in claims : k[2] = x => k = ClaimKey(me, p)
  <2> SUFFICES ASSUME NEW k \in claims, k[2] = x PROVE k = ClaimKey(me, p) OBVIOUS
  <2>1. k[1] = me.s.nextChunk
    BY <1>1, <1>2 DEF AllTrue, OneChunkEach
  <2>2. k = <<k[1], k[2]>>
    BY DEF IndTypeOK, TypeOK
  <2> QED
    BY <2>1, <2>2 DEF ClaimKey
<1>4. given[x] \in {0, 1} /\ given[x] # 1
  BY <1>1, <1>2, <1>3 DEF AllTrue, GivenOnce
<1> QED
  BY <1>4

LEMMA GateSound ==
  ASSUME IndTypeOK, Sound, NEW w \in Workers, Gate(w)
  PROVE  Sound'
<1> DEFINE me == worker[w]
<1>1. PICK p \in me.todo :
        /\ GateDone(w, p) \/ GateSkipped(w, p) \/ GateClaimed(w, p) \/ GateOpen(w, p)
        /\ UNCHANGED <<send, chunk, st, seen, active, lease, over, admin, controls,
                       deaths, given, paused>>
  BY DEF Gate
<1>2. /\ me \in WorkerRecs /\ me.pc = "gate" /\ me.ch \in DOMAIN On /\ AllTrue
      /\ NewHere(w) /\ InHand(w) /\ Knows(w) /\ CountsRight(w)
      /\ me.todo \subseteq People /\ me.go \subseteq People /\ p \in me.list /\ p \in chunk[me.s.nextChunk]
      /\ me.s.nextChunk \in Slots /\ p \notin me.go
  BY <1>1, Working DEF AtWork, WorkerRecs, Placed, Gate, InHand
<1> DEFINE passed == [me EXCEPT !.todo = @ \ {p}]
           taken == [me EXCEPT !.todo = @ \ {p}, !.go = @ \cup {p}]
<1>3. CASE GateDone(w, p)
  <2>1. /\ passed \in WorkerRecs /\ passed.pc = "gate" /\ passed.ch = me.ch /\ passed.todo = me.todo \ {p}
        /\ passed.go = me.go /\ passed.s = me.s /\ passed.mine = me.mine /\ passed.list = me.list
        /\ passed.fresh = me.fresh /\ passed.changed = me.changed
    BY <1>2 DEF WorkerRecs
  <2>2. Goes(w, passed) /\ UNCHANGED World /\ UNCHANGED <<send, admin, lease>>
    BY <1>1, <1>3 DEF GateDone, World
  <2> HIDE DEF passed
  <2>3. worker'[w] = passed
    BY <2>2 DEF Goes, IndTypeOK, TypeOK
  <2>4. AllTrue'
    BY <1>2, <2>2, SameWorld
  <2>5. NewHere(w)' /\ InHand(w)'
    BY <1>2, <2>1, <2>2, <2>3 DEF NewHere, InHand, World, ClaimKey, Channel
  <2>6. Knows(w)'
    BY <1>2, <2>1, <2>2, <2>3 DEF Knows, World, Says
  <2>7. Answered' = Answered /\ Adding(w)' = Adding(w)
    BY <2>1, <2>2, <2>3 DEF Answered, Adding, World
  <2>8. CountsRight(w)'
    BY <1>2, <2>1, <2>3, <2>7 DEF CountsRight
  <2> QED
    BY <1>2, <2>1, <2>2, <2>4, <2>5, <2>6, <2>8, SoundStep DEF AtWork
<1>4. CASE GateSkipped(w, p) \/ GateClaimed(w, p)
  <2>1. PICK state \in {"skipped", "unknown"} :
             Goes(w, Sets(passed, {p}, state)) /\ me.mine[<<p, Channel(me)>>] = "none" /\ UNCHANGED claims
    BY <1>4 DEF GateSkipped, GateClaimed, FoundClaimed
  <2>2. passed = [me EXCEPT !.todo = me.todo \ {p}, !.go = me.go]
    BY <1>2 DEF WorkerRecs
  <2>3. Goes(w, Sets([me EXCEPT !.todo = me.todo \ {p}, !.go = me.go], {p}, state))
    BY <2>1, <2>2
  <2>4. AllTrue'
    BY <1>1, <1>2, <2>1, SameWorld DEF World
  <2>5. \A k : Says(state, k, claims', given')
    BY DEF Says
  <2>6. state \in States \ {"none"}
    BY DEF States
  <2>7. {p} \in SUBSET People /\ {p} \cap me.go = {} /\ me.todo \ {p} \in SUBSET me.todo /\ me.go \in SUBSET me.go
    BY <1>2
  <2>8. \A x \in Pairs : given'[x] = given[x] \/ (x[1] \in {p} /\ x[2] = Channel(me))
    BY <1>1
  <2>9. \A q \in {p} : me.mine[<<q, Channel(me)>>] = "none"
    BY <2>1
  <2>10. \A q \in {p} : Says(state, <<me.s.nextChunk, <<q, Channel(me)>>>>, claims', given')
    BY <2>5
  <2>11. UNCHANGED <<chunk, st, claims, seen, lease>>
    BY <1>1, <2>1
  <2> HIDE DEF passed, taken
  <2> QED
    BY <1>2, <2>3, <2>4, <2>6, <2>7, <2>8, <2>9, <2>10, <2>11, SetsSound
<1>5. CASE GateOpen(w, p)
  <2> DEFINE key == ClaimKey(me, p)
             x == <<p, Channel(me)>>
  <2>1. Goes(w, taken) /\ claims' = claims \cup {key} /\ key \notin claims /\ me.mine[x] = "none"
        /\ UNCHANGED <<send, chunk, st, seen, lease, admin, given>>
    BY <1>1, <1>5 DEF GateOpen, Claimable
  <2>2. /\ taken \in WorkerRecs /\ taken.pc = "gate" /\ taken.ch = me.ch /\ taken.todo = me.todo \ {p}
        /\ taken.go = me.go \cup {p} /\ taken.s = me.s /\ taken.mine = me.mine /\ taken.list = me.list
        /\ taken.fresh = me.fresh /\ taken.changed = me.changed
    BY <1>2 DEF WorkerRecs
  <2> HIDE DEF taken
  <2>3. worker'[w] = taken
    BY <2>1 DEF Goes, IndTypeOK, TypeOK
  <2>4. key[1] = me.s.nextChunk /\ key[2] = x /\ key[2][1] = p /\ x \in Pairs
    BY <1>2 DEF ClaimKey, Pairs, Channel, Channels
  <2>5. given[x] = 0
    BY <1>2, <2>1, Unclaimed
  <2>6. OneChunkEach /\ GivenOnce /\ StatusesTrue /\ Counted
    BY <1>2 DEF AllTrue
  <2>7. OneChunkEach'
    <3>1. \A n \in Slots : p \in chunk[n] => n = me.s.nextChunk
      BY <1>2, <2>6 DEF OneChunkEach
    <3>2. p \in seen
      BY <1>2, <2>6 DEF OneChunkEach
    <3> HIDE DEF key
    <3> QED
      BY <2>1, <2>4, <2>6, <3>1, <3>2 DEF OneChunkEach
  <2>8. GivenOnce' /\ StatusesTrue'
    BY <2>1, <2>6 DEF GivenOnce, StatusesTrue, Says
  <2>9. Answered' = Answered /\ Adding(w)' = Adding(w)
    BY <2>1, <2>2, <2>3 DEF Answered, Adding
  <2>10. Counted'
    BY <2>1, <2>6, <2>9 DEF Counted
  <2>11. NewHere(w)'
    <3>1. p \notin me.fresh
      BY <1>2 DEF NewHere
    <3> HIDE DEF key
    <3> QED
      BY <1>2, <2>1, <2>2, <2>3, <2>4, <3>1 DEF NewHere
  <2>12. InHand(w)'
    <3>1. Channel(taken) = Channel(me) /\ \A q : ClaimKey(taken, q) = ClaimKey(me, q)
      BY <2>2 DEF ClaimKey, Channel
    <3>2. \A q \in taken.go : /\ q \in me.list /\ ClaimKey(me, q) \in claims'
                              /\ given[<<q, Channel(me)>>] = 0 /\ me.mine[<<q, Channel(me)>>] = "none"
      BY <1>2, <2>1, <2>2, <2>5 DEF InHand
    <3>3. taken.go \cap taken.todo = {} /\ taken.todo \subseteq me.list /\ me.list = chunk[me.s.nextChunk]
      BY <1>2, <2>2 DEF InHand
    <3> HIDE DEF key
    <3> QED
      BY <1>2, <2>1, <2>2, <2>3, <3>1, <3>2, <3>3 DEF InHand
  <2>13. Knows(w)'
    BY <1>2, <2>1, <2>2, <2>3 DEF Knows, Says
  <2>14. CountsRight(w)'
    BY <1>2, <2>2, <2>3, <2>9 DEF CountsRight
  <2> QED
    BY <1>2, <2>1, <2>2, <2>7, <2>8, <2>10, <2>11, <2>12, <2>13, <2>14, SoundStep DEF AllTrue, AtWork
<1> QED
  BY <1>1, <1>3, <1>4, <1>5

\* Whoever is in hand is reached for the first time, and no status written
\* before says otherwise.
LEMMA DeliverSound ==
  ASSUME IndTypeOK, Sound, NEW w \in Workers, Deliver(w)
  PROVE  Sound'
<1> DEFINE me == worker[w]
           c == Channel(me)
           n == me.s.nextChunk
<1>1. PICK S \in Batches(me) :
       LET m == [me EXCEPT !.go = @ \ S]
       IN \/ /\ given' = [x \in Pairs |-> IF x[1] \in S /\ x[2] = Channel(m)
                                          THEN given[x] + 1 ELSE given[x]]
             /\ Goes(w, Sets(m, S, "sent"))
          \/ /\ \E state \in NotSent(m) : Goes(w, Sets(m, S, state))
             /\ UNCHANGED given
  BY DEF Deliver
<1>2. /\ me \in WorkerRecs /\ me.pc = "gate" /\ me.ch \in DOMAIN On /\ AllTrue /\ InHand(w) /\ Knows(w)
      /\ me.go \subseteq People /\ UNCHANGED <<send, chunk, st, claims, seen, lease, admin>>
  BY Working DEF AtWork, WorkerRecs, Placed, Deliver
<1>3. S \subseteq me.go /\ S \in SUBSET People
  BY <1>2 DEF Batches
<1> DEFINE m == [me EXCEPT !.go = @ \ S]
<1>4. m = [me EXCEPT !.todo = me.todo, !.go = me.go \ S] /\ Channel(m) = c
  BY <1>2 DEF WorkerRecs, Channel
<1>5. PICK state \in {"sent", "failed", "skipped"} :
        /\ Goes(w, Sets(m, S, state))
        /\ \/ state = "sent" /\ given' = [x \in Pairs |-> IF x[1] \in S /\ x[2] = c
                                                         THEN given[x] + 1 ELSE given[x]]
           \/ state # "sent" /\ UNCHANGED given
  BY <1>1, <1>4 DEF NotSent
<1>6. \A p \in S : /\ <<p, c>> \in Pairs /\ me.mine[<<p, c>>] = "none" /\ given[<<p, c>>] = 0
                   /\ <<n, <<p, c>>>> \in claims /\ p \in chunk[n] /\ n \in Slots
                   /\ st[<<n, <<p, c>>>>] = "none"
  BY <1>2, <1>3 DEF InHand, Knows, Pairs, Channel, Channels, ClaimKey
<1>7. \A x \in Pairs : x[1] \in S /\ x[2] = c => x = <<x[1], c>>
  BY DEF Pairs
<1>8. \A x \in Pairs : /\ given'[x] = given[x] \/ (x[1] \in S /\ x[2] = c)
                       /\ x[1] \in S /\ x[2] = c => given'[x] = IF state = "sent" THEN 1 ELSE 0
  <2>1. \A x \in Pairs : x[1] \in S /\ x[2] = c => given[x] = 0
    BY <1>6, <1>7
  <2>2. CASE state = "sent"
    BY <1>5, <2>1, <2>2
  <2>3. CASE state # "sent"
    BY <1>5, <2>1, <2>3
  <2> QED
    BY <2>2, <2>3
<1>9. \A p \in S : Says(state, <<n, <<p, c>>>>, claims', given')
  BY <1>2, <1>6, <1>8 DEF Says
<1>10. AllTrue'
  <2>1. OneChunkEach /\ GivenOnce /\ StatusesTrue /\ Counted
    BY <1>2 DEF AllTrue
  <2>2. OneChunkEach'
    BY <1>2, <2>1 DEF OneChunkEach
  <2>3. GivenOnce'
    <3> SUFFICES ASSUME NEW x \in Pairs
                 PROVE  given'[x] \in {0, 1} /\ (given'[x] = 1 => \E k \in claims : k[2] = x)
      BY <1>2 DEF GivenOnce
    <3>1. CASE x[1] \in S /\ x[2] = c
      <4>1. <<n, x>> \in claims /\ <<n, x>>[2] = x
        BY <1>6, <1>7, <3>1
      <4> QED
        BY <1>8, <3>1, <4>1
    <3>2. CASE ~(x[1] \in S /\ x[2] = c)
      BY <1>8, <2>1, <3>2 DEF GivenOnce
    <3> QED
      BY <3>1, <3>2
  <2>4. StatusesTrue'
    <3> SUFFICES ASSUME NEW k \in Keys PROVE Says(st[k], k, claims, given')
      BY <1>2 DEF StatusesTrue
    <3>1. k[2] \in Pairs /\ k = <<k[1], k[2]>> /\ k[1] \in Slots /\ Says(st[k], k, claims, given)
      BY <2>1 DEF Keys, StatusesTrue
    <3>2. CASE k[2][1] \in S /\ k[2][2] = c
      <4>1. k[2] = <<k[2][1], c>>
        BY <1>7, <3>1, <3>2
      <4>2. st[k] \in {"sent", "failed"} => k \in claims /\ k[1] = n
        BY <1>6, <2>1, <3>1, <3>2 DEF OneChunkEach, Says
      <4>3. k[1] = n => st[k] = "none"
        BY <1>6, <3>1, <3>2, <4>1
      <4> QED
        BY <4>2, <4>3 DEF Says
    <3>3. CASE ~(k[2][1] \in S /\ k[2][2] = c)
      <4>1. given'[k[2]] = given[k[2]]
        BY <1>8, <3>1, <3>3
      <4> QED
        BY <3>1, <4>1 DEF Says
    <3> QED
      BY <3>2, <3>3
  <2>5. Answered' = Answered
    BY <1>2 DEF Answered
  <2>6. Counted'
    BY <1>2, <2>1, <2>5 DEF Counted
  <2> QED
    BY <2>2, <2>3, <2>4, <2>6 DEF AllTrue
<1>11. Goes(w, Sets([me EXCEPT !.todo = me.todo, !.go = me.go \ S], S, state))
  BY <1>4, <1>5
<1>12. state \in States \ {"none"} /\ S \cap (me.go \ S) = {} /\ me.go \ S \in SUBSET me.go /\ me.todo \in SUBSET me.todo
  BY DEF States
<1> HIDE DEF m
<1> QED
  BY <1>2, <1>3, <1>6, <1>8, <1>9, <1>10, <1>11, <1>12, SetsSound

LEMMA HsetSound ==
  ASSUME IndTypeOK, Sound, NEW w \in Workers, Hset(w)
  PROVE  Sound'
<1> DEFINE me == worker[w]
           n == me.s.nextChunk
           s == [me.s EXCEPT !.nextChunk = @ + 1]
           m == SaveThen(me, s, "read")
<1>1. me \in WorkerRecs /\ me.s \in Sends /\ AllTrue /\ NewHere(w) /\ Knows(w) /\ CountsRight(w)
      /\ me.pc = "hset" /\ n \in Slots
  BY Working DEF AtWork, Hset
<1>2. s \in Sends /\ s.counts = me.s.counts
  BY <1>1 DEF Sends
<1>3. Goes(w, m) /\ UNCHANGED <<send, chunk, claims, seen, lease, admin, given>>
  BY DEF Hset
<1>4. st' = [k \in Keys |-> IF k[1] = n /\ k[2][1] \in me.changed THEN me.mine[k[2]] ELSE st[k]]
  BY DEF Hset, Changed
<1> HIDE DEF s
<1>5. m \in WorkerRecs /\ m.pc = "save" /\ m.fresh = me.fresh /\ m.s = s
  BY <1>1, <1>2, SaveThenType DEF SaveThen, WorkerRecs
<1> HIDE DEF m
<1>6. worker'[w] = m
  BY <1>3 DEF Goes, IndTypeOK, TypeOK
<1>7. OneChunkEach /\ GivenOnce /\ StatusesTrue /\ Counted
  BY <1>1 DEF AllTrue
<1>8. ASSUME NEW k \in Keys
      PROVE  /\ Says(st'[k], k, claims, given)
             /\ st[k] # "none" => st'[k] # "none"
             /\ k[1] = n /\ me.mine[k[2]] # "none" => st'[k] # "none"
  <2>1. k[2] \in Pairs /\ k = <<k[1], k[2]>>
    BY DEF Keys
  <2>2. CASE k[1] = n /\ k[2][1] \in me.changed
    <3>1. st'[k] = me.mine[k[2]]
      BY <1>4, <2>2
    <3>2. k = <<n, k[2]>>
      BY <2>1, <2>2
    <3> HIDE DEF n
    <3> QED
      BY <1>1, <2>1, <3>1, <3>2 DEF Knows, n
  <2>3. CASE ~(k[1] = n /\ k[2][1] \in me.changed)
    <3>1. st'[k] = st[k] /\ Says(st[k], k, claims, given)
      BY <1>4, <1>7, <2>3 DEF StatusesTrue
    <3>2. k[1] = n => k = <<n, k[2]>>
      BY <2>1
    <3>3. k[1] = n /\ me.mine[k[2]] # "none" => st[k] # "none"
      BY <1>1, <2>1, <2>3, <3>2 DEF Knows
    <3> QED
      BY <3>1, <3>3
  <2> QED
    BY <2>2, <2>3
<1>9. Answered \subseteq Answered' /\ Answered \cup Adding(w) \subseteq Answered' /\ Answered' \in SUBSET Keys
      /\ Answered \in SUBSET Keys /\ Answered \cup Adding(w) \in SUBSET Keys
  BY <1>8 DEF Answered, Adding
<1>10. OneChunkEach' /\ GivenOnce'
  BY <1>3, <1>7 DEF OneChunkEach, GivenOnce
<1>11. StatusesTrue'
  BY <1>3, <1>8 DEF StatusesTrue
<1>12. Counted'
  <2>1. send.counts \in [Channels -> Nat] /\ \A a \in Admins : admin[a].s.counts \in [Channels -> Nat]
    BY DEF IndTypeOK, TypeOK, Sends
  <2>2. Within(send.counts, Answered')
    BY <1>7, <1>9, <2>1, WithinGrows DEF Counted
  <2>3. ASSUME NEW a \in Admins, admin[a].pc # "idle" PROVE Within(admin[a].s.counts, Answered')
    BY <1>7, <1>9, <2>1, <2>3, WithinGrows DEF Counted
  <2> QED
    BY <1>3, <2>2, <2>3 DEF Counted
<1>13. CountsRight(w)'
  <2>1. Within(me.s.counts, Answered \cup Adding(w)) /\ me.s.counts \in [Channels -> Nat]
    BY <1>1 DEF CountsRight, Sends
  <2>2. Within(me.s.counts, Answered')
    BY <1>9, <2>1, WithinGrows
  <2> QED
    BY <1>2, <1>5, <1>6, <2>2 DEF CountsRight
<1>14. NewHere(w)' /\ InHand(w)' /\ Knows(w)'
  BY <1>1, <1>3, <1>5, <1>6 DEF NewHere, InHand, Knows
<1> QED
  BY <1>1, <1>3, <1>5, <1>10, <1>11, <1>12, <1>13, <1>14, SoundStep DEF AllTrue, AtWork

LEMMA NextSound == ~SlowWorkers /\ IndTypeOK /\ Sound /\ [Next]_vars => Sound'
<1> SUFFICES ASSUME ~SlowWorkers, IndTypeOK, Sound, [Next]_vars PROVE Sound' OBVIOUS
<1>1. CASE EndsAt \/ UNCHANGED vars
  <2>1. UNCHANGED World /\ UNCHANGED <<send, admin, worker, lease>>
    BY <1>1 DEF EndsAt, vars, World
  <2> QED
    BY <2>1, SameWorld, NobodyMoves DEF Sound
<1>2. ASSUME NEW w \in Workers, StartFromTick(w) \/ StartFromPage(w) PROVE Sound'
  BY <1>2, StartSound DEF StartFromTick, StartFromPage
<1>3. ASSUME NEW w \in Workers, WorkerSteps(w) PROVE Sound'
  BY <1>3, ReadingSound, SavingSound, ListingSound, SaddSound, WriteChunkSound, LoadSound, NextChannelSound,
     GateSound, DeliverSound, HsetSound DEF WorkerSteps
<1> QED
  BY <1>1, <1>2, <1>3, LeaseSound, SavingSound, ControlSound DEF Next, AdminSteps

LEMMA AlwaysSound == ~SlowWorkers => (Spec => []Sound)
<1> SUFFICES ASSUME ~SlowWorkers PROVE Spec => []Sound OBVIOUS
<1>1. IndTypeOK /\ Sound /\ [Next]_vars => Sound'
  BY NextSound
<1> QED
  BY <1>1, InitSound, AlwaysTyped, PTL DEF Spec

----------------------------------------------------------------------------

\* No two workers are ever in one send: the lease is the lock it means to be,
\* as long as nobody outlives it.
OneWorker == \A v, w \in Workers : worker[v].pc # "idle" /\ worker[w].pc # "idle" => v = w
THEOREM LeaseExcludes == ~SlowWorkers => (Spec => []OneWorker)
<1>1. Sound => OneWorker
  BY DEF Sound, LeaseHeld, OneWorker
<1> QED
  BY <1>1, AlwaysSound, PTL

\* What is recorded is what happened, and the counts say no more than the
\* statuses do, whoever was stopped and whatever control was written over it.
THEOREM AlwaysHonest == ~SlowWorkers => (Spec => []RecordIsHonest)
<1>1. Sound => RecordIsHonest
  <2> SUFFICES ASSUME Sound PROVE RecordIsHonest OBVIOUS
  <2>1. StatusIsHonest
    BY DEF StatusIsHonest, Sound, AllTrue, StatusesTrue, Says, Keys
  <2>2. CountsAreBacked
    <3> SUFFICES ASSUME NEW ch \in Channels
                 PROVE  send.counts[ch] <= Cardinality({k \in Keys : k[2][2] = ch /\ st[k] # "none"})
      BY DEF CountsAreBacked
    <3>1. {k \in Answered : k[2][2] = ch} = {k \in Keys : k[2][2] = ch /\ st[k] # "none"}
      BY DEF Answered
    <3>2. send.counts[ch] <= Cardinality({k \in Answered : k[2][2] = ch})
      BY DEF Sound, AllTrue, Counted, Within
    <3> QED
      BY <3>1, <3>2
  <2> QED
    BY <2>1, <2>2 DEF RecordIsHonest
<1> QED
  BY <1>1, AlwaysSound, PTL

----------------------------------------------------------------------------
(* The step mapping: a claim is a taking, a delivery a giving, and nothing *)
(* else touches either.                                                    *)

LEMMA MapInit == Init => Once!Init
BY DEF Init, Once!Init

LEMMA ClaimIsATaking ==
  ASSUME IndTypeOK, NEW w \in Workers, Gate(w)
  PROVE  Once!Take \/ UNCHANGED <<claims, given>>
<1> DEFINE me == worker[w]
<1>1. PICK p \in me.todo : GateDone(w, p) \/ GateSkipped(w, p) \/ GateClaimed(w, p) \/ GateOpen(w, p)
  BY DEF Gate
<1>2. UNCHANGED given
  BY DEF Gate
<1>3. CASE GateOpen(w, p)
  <2> DEFINE x == <<p, Channel(me)>>
  <2>1. claims' = claims \cup {ClaimKey(me, p)} /\ ClaimKey(me, p)[2] = x
    BY <1>3 DEF GateOpen, ClaimKey
  <2>2. p \in People /\ me.ch \in DOMAIN On
    BY DEF Gate, IndTypeOK, TypeOK, Placed
  <2>3. x \in Pairs
    BY <2>2 DEF Pairs, Channel, Channels
  <2>4. {k[2] : k \in claims'} = {k[2] : k \in claims} \cup ({x} \ {k[2] : k \in claims})
    BY <2>1
  <2>5. {x} \ {k[2] : k \in claims} \in SUBSET (Pairs \ {k[2] : k \in claims})
    BY <2>3
  <2> QED
    BY <1>2, <2>4, <2>5 DEF Once!Take
<1> QED
  BY <1>1, <1>2, <1>3 DEF GateDone, GateSkipped, GateClaimed

LEMMA DeliveryIsAGiving ==
  ASSUME IndTypeOK, Sound, NEW w \in Workers, Deliver(w)
  PROVE  Once!Give \/ UNCHANGED <<claims, given>>
<1> DEFINE me == worker[w]
           c == Channel(me)
<1>1. PICK S \in Batches(me) :
        \/ given' = [x \in Pairs |-> IF x[1] \in S /\ x[2] = Channel([me EXCEPT !.go = @ \ S])
                                     THEN given[x] + 1 ELSE given[x]]
        \/ UNCHANGED given
  BY DEF Deliver
<1>2. me \in WorkerRecs /\ me.pc = "gate" /\ me.ch \in DOMAIN On /\ InHand(w) /\ me.go \subseteq People
      /\ UNCHANGED claims
  BY Working DEF AtWork, WorkerRecs, Placed, Deliver
<1>3. S \subseteq me.go /\ Channel([me EXCEPT !.go = @ \ S]) = c
  BY <1>2 DEF Batches, Channel, WorkerRecs
<1> DEFINE X == {x \in Pairs : x[1] \in S /\ x[2] = c}
<1>4. \A x \in X : x = <<x[1], c>> /\ x[1] \in me.go
  BY <1>3 DEF Pairs
<1>5. \A x \in X : given[x] = 0 /\ <<me.s.nextChunk, x>> \in claims
  BY <1>2, <1>4 DEF InHand, ClaimKey
<1>6. X \in SUBSET {k[2] : k \in claims}
  <2> SUFFICES ASSUME NEW x \in X PROVE \E k \in claims : x = k[2]
    OBVIOUS
  <2>1. <<me.s.nextChunk, x>> \in claims /\ <<me.s.nextChunk, x>>[2] = x
    BY <1>5
  <2> QED
    BY <2>1
<1>7. CASE given' = [x \in Pairs |-> IF x[1] \in S /\ x[2] = c THEN given[x] + 1 ELSE given[x]]
  <2>1. given' = [x \in Pairs |-> IF x \in X THEN 1 ELSE given[x]]
    <3>1. \A x \in Pairs : (IF x[1] \in S /\ x[2] = c THEN given[x] + 1 ELSE given[x])
                            = (IF x \in X THEN 1 ELSE given[x])
      <4> SUFFICES ASSUME NEW x \in Pairs
                   PROVE  (IF x[1] \in S /\ x[2] = c THEN given[x] + 1 ELSE given[x])
                            = (IF x \in X THEN 1 ELSE given[x])
        OBVIOUS
      <4>1. x \in X <=> x[1] \in S /\ x[2] = c
        OBVIOUS
      <4>2. x \in X => given[x] = 0
        BY <1>5
      <4> HIDE DEF X, c
      <4> QED
        BY <4>1, <4>2
    <3> HIDE DEF X
    <3> QED
      BY <1>7, <3>1
  <2> HIDE DEF X
  <2> QED
    BY <1>2, <1>5, <1>6, <2>1 DEF Once!Give
<1> QED
  BY <1>1, <1>2, <1>3, <1>7

LEMMA MapNext == IndTypeOK /\ Sound /\ [Next]_vars => [Once!Next]_(Once!vars)
<1> SUFFICES ASSUME IndTypeOK, Sound, [Next]_vars PROVE Once!Next \/ UNCHANGED <<claims, given>>
  BY DEF Once!vars
<1>1. CASE EndsAt \/ LeaseExpires \/ UNCHANGED vars
  BY <1>1 DEF EndsAt, LeaseExpires, vars
<1>2. ASSUME NEW a \in Admins, BeginControl(a) \/ AdminSteps(a) PROVE UNCHANGED <<claims, given>>
  BY <1>2 DEF BeginControl, AdminSteps, ControlWrite, ControlActive
<1>3. ASSUME NEW w \in Workers, StartFromTick(w) \/ StartFromPage(w) \/ Dies(w) PROVE UNCHANGED <<claims, given>>
  BY <1>3 DEF StartFromTick, StartFromPage, Start, Dies
<1>4. ASSUME NEW w \in Workers, WorkerSteps(w) PROVE Once!Next \/ UNCHANGED <<claims, given>>
  <2>1. CASE Gate(w)
    BY <2>1, ClaimIsATaking DEF Once!Next
  <2>2. CASE Deliver(w)
    BY <2>2, DeliveryIsAGiving DEF Once!Next
  <2>3. CASE ReadStopped(w) \/ ReadOver(w) \/ ReadSpent(w) \/ ReadWork(w) \/ SaveRead(w) \/ SaveWrite(w)
             \/ Srem(w) \/ End(w)
    BY <2>3 DEF ReadStopped, ReadOver, ReadSpent, ReadWork, SaveRead, SaveWrite, Srem, End
  <2>4. CASE ListPage(w) \/ ListingFails(w) \/ Sismember(w) \/ Sadd(w) \/ Listed(w) \/ WriteChunk(w) \/ EndPage(w)
    BY <2>4 DEF ListPage, ListingFails, Sismember, Sadd, Listed, WriteChunk, EndPage
  <2>5. CASE Load(w) \/ NextChannel(w) \/ Hset(w)
    BY <2>5 DEF Load, NextChannel, Hset
  <2> QED
    BY <1>4, <2>1, <2>2, <2>3, <2>4, <2>5 DEF WorkerSteps
<1> QED
  BY <1>1, <1>2, <1>3, <1>4 DEF Next

\* "At most once, never twice" (sends.ts): however workers are stopped and
\* controls overlap, the sends implement AtMostOnce, the pair being taken
\* when it is claimed.
THEOREM NeverTwice == ~SlowWorkers => (Spec => KeepsToOnce)
<1> SUFFICES ASSUME ~SlowWorkers PROVE Spec => KeepsToOnce OBVIOUS
<1>1. Spec => []Sound
  BY AlwaysSound
<1> QED
  BY <1>1, MapInit, MapNext, AlwaysTyped, PTL DEF Spec, KeepsToOnce, Once!Spec

----------------------------------------------------------------------------
(* Controls and saves that take turns.                                     *)

\* At most one control is under way, on the send as it stands, and no save
\* with it; a save holds the status it has read; only a control cancels.
Turns ==
  /\ \A a, b \in Admins : admin[a].pc # "idle" /\ admin[b].pc # "idle" => a = b
  /\ \A a \in Admins, w \in Workers : admin[a].pc # "idle" => worker[w].pc \notin {"write", "srem"}
  /\ \A a \in Admins : admin[a].pc = "write" =>
       send.status # "cancelled" /\ admin[a].s = [send EXCEPT !.status = admin[a].s.status]
  /\ \A w \in Workers : worker[w].s.status # "cancelled"
  /\ \A w \in Workers : worker[w].pc = "write" =>
       (worker[w].cur = "cancelled" <=> send.status = "cancelled")

LEMMA TurnsInit == Init => Turns
BY DEF Init, Turns, IdleWorker, IdleAdmin, Draft

\* A worker's step that saves nothing.
LEMMA TurnsMove ==
  ASSUME IndTypeOK, Turns, UNCHANGED <<send, admin>>, NEW w \in Workers, NEW m, Goes(w, m),
         m.s.status # "cancelled",
         m.pc = "write" => (m.cur = "cancelled" <=> send.status = "cancelled"),
         m.pc \in {"write", "srem"} => ~Controlling
  PROVE  Turns'
<1>1. worker'[w] = m /\ \A v \in Workers \ {w} : worker'[v] = worker[v]
  BY DEF Goes, IndTypeOK, TypeOK
<1>2. m.pc \in {"write", "srem"} => \A a \in Admins : admin[a].pc = "idle"
  BY DEF Controlling
<1> QED
  BY <1>1, <1>2 DEF Turns

LEMMA TurnsRead ==
  ASSUME ~Overlap, IndTypeOK, Turns, NEW w \in Workers,
         ReadStopped(w) \/ ReadOver(w) \/ ReadSpent(w) \/ ReadWork(w) \/ SaveRead(w) \/ Srem(w)
  PROVE  Turns'
<1> DEFINE me == worker[w]
<1>1. me \in WorkerRecs /\ send \in Sends /\ me.s.status # "cancelled" /\ UNCHANGED <<send, admin>>
  BY DEF IndTypeOK, TypeOK, WorkerRecs, Turns, ReadStopped, ReadOver, ReadSpent, ReadWork, SaveRead, Srem
<1>2. CASE ReadStopped(w)
  <2> DEFINE m == [me EXCEPT !.pc = "srem"]
  <2>1. Goes(w, m) /\ ~Controlling /\ m.pc = "srem" /\ m.s = me.s
    BY <1>1, <1>2 DEF ReadStopped, WorkerRecs
  <2> HIDE DEF m
  <2> QED
    BY <1>1, <2>1, TurnsMove
<1>3. CASE ReadSpent(w) \/ Srem(w)
  <2> DEFINE m == [me EXCEPT !.pc = "end"]
  <2>1. Goes(w, m) /\ m.pc = "end" /\ m.s = me.s
    BY <1>1, <1>3 DEF ReadSpent, Srem, WorkerRecs
  <2> HIDE DEF m
  <2> QED
    BY <1>1, <2>1, TurnsMove
<1>4. CASE ReadOver(w)
  <2> DEFINE s == [send EXCEPT !.status = "done", !.cut = TRUE]
             m == SaveThen(me, s, "srem")
  <2>1. s.status = "done"
    BY <1>1 DEF Sends
  <2>2. Goes(w, m)
    BY <1>4 DEF ReadOver
  <2> HIDE DEF s
  <2>3. m.pc = "save" /\ m.s = s
    BY <1>1 DEF SaveThen, WorkerRecs
  <2> HIDE DEF m
  <2> QED
    BY <1>1, <2>1, <2>2, <2>3, TurnsMove
<1>5. CASE ReadWork(w)
  <2> DEFINE s == [send EXCEPT !.status = "sending"]
             d == [s EXCEPT !.status = "done"]
             q == [me EXCEPT !.s = s, !.did = TRUE]
  <2>1. s.status = "sending" /\ d.status = "done"
    BY <1>1 DEF Sends
  <2>2. Goes(w, [q EXCEPT !.pc = "load"]) \/ Goes(w, [q EXCEPT !.pc = "list"]) \/ Goes(w, SaveThen(q, d, "done"))
    BY <1>5 DEF ReadWork
  <2> HIDE DEF s, d
  <2>3. \A pc \in {"load", "list"} : [q EXCEPT !.pc = pc].pc = pc /\ [q EXCEPT !.pc = pc].s = s
    BY <1>1 DEF WorkerRecs
  <2>4. SaveThen(q, d, "done").pc = "save" /\ SaveThen(q, d, "done").s = d
    BY <1>1 DEF SaveThen, WorkerRecs
  <2> HIDE DEF q
  <2> QED
    BY <1>1, <2>1, <2>2, <2>3, <2>4, TurnsMove
<1>6. CASE SaveRead(w)
  <2> DEFINE m == [me EXCEPT !.cur = send.status, !.pc = "write"]
  <2>1. Goes(w, m) /\ ~Controlling
    BY <1>6 DEF SaveRead
  <2>2. m.pc = "write" /\ m.cur = send.status /\ m.s = me.s
    BY <1>1 DEF WorkerRecs
  <2> HIDE DEF m
  <2> QED
    BY <1>1, <2>1, <2>2, TurnsMove
<1> QED
  BY <1>2, <1>3, <1>4, <1>5, <1>6

LEMMA TurnsIdle ==
  ASSUME ~Overlap, IndTypeOK, Turns, NEW w \in Workers, Start(w) \/ End(w) \/ Dies(w)
  PROVE  Turns'
<1>1. PICK m \in {IdleWorker, [IdleWorker EXCEPT !.pc = "read"]} : Goes(w, m)
  BY DEF Start, End, Dies
<1>2. UNCHANGED <<send, admin>> /\ m.pc \in {"idle", "read"} /\ m.s.status = "draft"
  BY DEF Start, End, Dies, IdleWorker, Draft
<1> QED
  BY <1>1, <1>2, TurnsMove

LEMMA TurnsWork ==
  ASSUME IndTypeOK, Turns, NEW w \in Workers,
         ListPage(w) \/ ListingFails(w) \/ Sismember(w) \/ Sadd(w) \/ Listed(w) \/ WriteChunk(w) \/ EndPage(w)
           \/ Load(w) \/ NextChannel(w) \/ Hset(w)
  PROVE  Turns'
<1> DEFINE me == worker[w]
<1>1. me \in WorkerRecs /\ me.s \in Sends /\ me.s.status # "cancelled"
  BY DEF IndTypeOK, TypeOK, WorkerRecs, Turns
<1>2. UNCHANGED <<send, admin>>
  BY DEF ListPage, ListingFails, Sismember, Sadd, Listed, WriteChunk, EndPage, Load, NextChannel, Hset
<1>3. SUFFICES ASSUME NEW m, Goes(w, m), m.pc \in WorkerPcs \ {"write", "srem"}, m.s.status = me.s.status
               PROVE  Turns'
  <2>1. CASE ListPage(w) \/ Listed(w) \/ Load(w)
    BY <1>1, <1>3, <2>1 DEF ListPage, Listed, Load, WorkerRecs, WorkerPcs
  <2>2. CASE Sismember(w) \/ Sadd(w)
    BY <1>1, <1>3, <2>2 DEF Sismember, Sadd, WorkerRecs, WorkerPcs
  <2>3. CASE WriteChunk(w)
    BY <1>1, <1>3, <2>3 DEF WriteChunk, WorkerRecs, WorkerPcs, Sends
  <2>4. CASE NextChannel(w)
    BY <1>1, <1>3, <2>4 DEF NextChannel, WorkerRecs, WorkerPcs
  <2>5. ASSUME NEW s, s.status = me.s.status, NEW after, Goes(w, SaveThen(me, s, after)) PROVE Turns'
    BY <1>1, <1>3, <2>5 DEF SaveThen, WorkerRecs, WorkerPcs
  <2>6. CASE ListingFails(w)
    BY <2>5, <2>6 DEF ListingFails
  <2>7. CASE EndPage(w)
    <3>1. [me.s EXCEPT !.cursor = @ + 1, !.listed = ListedAll(me.s.cursor + 1)].status = me.s.status
      BY <1>1 DEF Sends
    <3> QED
      BY <2>5, <2>7, <3>1 DEF EndPage
  <2>8. CASE Hset(w)
    <3>1. [me.s EXCEPT !.nextChunk = @ + 1].status = me.s.status
      BY <1>1 DEF Sends
    <3> QED
      BY <2>5, <2>8, <3>1 DEF Hset
  <2> QED
    BY <2>1, <2>2, <2>3, <2>4, <2>6, <2>7, <2>8
<1> QED
  BY <1>1, <1>2, <1>3, TurnsMove

LEMMA TurnsGate ==
  ASSUME IndTypeOK, Turns, NEW w \in Workers, Gate(w) \/ Deliver(w)
  PROVE  Turns'
<1> DEFINE me == worker[w]
<1>1. me \in WorkerRecs /\ me.s.status # "cancelled" /\ me.pc = "gate" /\ me.ch \in DOMAIN On
      /\ me.todo \subseteq People /\ me.go \subseteq People /\ UNCHANGED <<send, admin>>
  BY DEF IndTypeOK, TypeOK, WorkerRecs, Turns, Placed, Gate, Deliver
<1>2. PICK todo \in SUBSET People, go \in SUBSET People, S \in SUBSET People, state \in States :
        LET m == [me EXCEPT !.todo = todo, !.go = go] IN Goes(w, m) \/ Goes(w, Sets(m, S, state))
  <2>1. CASE Gate(w)
    <3>1. PICK p \in me.todo : GateDone(w, p) \/ GateSkipped(w, p) \/ GateClaimed(w, p) \/ GateOpen(w, p)
      BY <2>1 DEF Gate
    <3>2. {p} \in SUBSET People /\ me.todo \ {p} \in SUBSET People /\ me.go \cup {p} \in SUBSET People
          /\ me.go \in SUBSET People /\ "skipped" \in States /\ "unknown" \in States
      BY <1>1 DEF States
    <3>3. [me EXCEPT !.todo = @ \ {p}] = [me EXCEPT !.todo = me.todo \ {p}, !.go = me.go]
      BY <1>1 DEF WorkerRecs
    <3>4. CASE GateOpen(w, p)
      BY <3>2, <3>4 DEF GateOpen
    <3>5. CASE GateDone(w, p)
      BY <3>2, <3>3, <3>5 DEF GateDone
    <3>6. CASE GateSkipped(w, p) \/ GateClaimed(w, p)
      BY <3>2, <3>3, <3>6 DEF GateSkipped, GateClaimed, FoundClaimed
    <3> QED
      BY <3>1, <3>4, <3>5, <3>6
  <2>2. CASE Deliver(w)
    <3>1. PICK S \in Batches(me) : \E state \in {"sent", "failed", "skipped"} : Goes(w, Sets([me EXCEPT !.go = @ \ S], S, state))
      BY <2>2 DEF Deliver, NotSent
    <3>2. [me EXCEPT !.go = @ \ S] = [me EXCEPT !.todo = me.todo, !.go = me.go \ S]
      BY <1>1 DEF WorkerRecs
    <3>3. S \in SUBSET People /\ me.go \ S \in SUBSET People /\ me.todo \in SUBSET People
          /\ {"sent", "failed", "skipped"} \subseteq States
      BY <1>1 DEF Batches, States
    <3> QED
      BY <3>1, <3>2, <3>3
  <2> QED
    BY <2>1, <2>2
<1> DEFINE m == [me EXCEPT !.todo = todo, !.go = go]
<1>3. m \in WorkerRecs /\ m.pc = "gate" /\ m.ch = me.ch /\ m.s = me.s
  BY <1>1 DEF WorkerRecs
<1> HIDE DEF m
<1>4. Sets(m, S, state).pc = "gate" /\ Sets(m, S, state).s.status = me.s.status
  BY <1>1, <1>3, SetsEffect
<1>5. Goes(w, m) \/ Goes(w, Sets(m, S, state))
  BY <1>2 DEF m
<1> QED
  BY <1>1, <1>3, <1>4, <1>5, TurnsMove

\* What a save writes: the send with what the worker has done, and with the
\* status it found if that was to stop.
LEMMA TurnsSave ==
  ASSUME ~Overlap, IndTypeOK, Turns, NEW w \in Workers, SaveWrite(w)
  PROVE  Turns' /\ (send.status = "cancelled" => send'.status = "cancelled")
<1> DEFINE me == worker[w]
           m == [IdleWorker EXCEPT !.pc = AfterSave(me), !.did = TRUE]
<1>1. me \in WorkerRecs /\ me.pc = "write" /\ send' = Merged(me) /\ Goes(w, m) /\ admin' = admin
      /\ me.s \in Sends /\ me.s.status # "cancelled" /\ (me.cur = "cancelled" <=> send.status = "cancelled")
  BY DEF IndTypeOK, TypeOK, WorkerRecs, Turns, SaveWrite
<1>2. \A a \in Admins : admin[a].pc = "idle"
  BY <1>1 DEF Turns
<1>3. m.pc \in {"read", "srem", "end"} /\ m.s = Draft /\ m.s.status = "draft"
  BY <1>1 DEF AfterSave, WorkerRecs, IdleWorker, Draft
<1>4. send'.status = "cancelled" <=> send.status = "cancelled"
  <2>1. CASE me.cur \in {"paused", "cancelled"}
    <3>1. send'.status = me.cur
      BY <1>1, <2>1 DEF Merged, Sends
    <3> QED
      BY <1>1, <2>1, <3>1
  <2>2. CASE me.cur \notin {"paused", "cancelled"}
    BY <1>1, <2>2 DEF Merged
  <2> QED
    BY <2>1, <2>2
<1> HIDE DEF m
<1>5. worker'[w] = m /\ \A v \in Workers \ {w} : worker'[v] = worker[v]
  BY <1>1 DEF Goes, IndTypeOK, TypeOK
<1> QED
  BY <1>1, <1>2, <1>3, <1>4, <1>5 DEF Turns

LEMMA ControlledStatus ==
  ASSUME NEW s \in Sends, NEW action \in {"confirm", "pause", "resume", "cancel"}
  PROVE  /\ Controlled(action, s) = [s EXCEPT !.status = Controlled(action, s).status]
         /\ Controlled(action, s) \in Sends
<1> DEFINE status == CASE action = "confirm" -> "queued"
                       [] action = "pause" -> "paused"
                       [] action = "cancel" -> "cancelled"
                       [] OTHER -> IF s.nextChunk > 0 \/ s.chunks > 0
                                   THEN "sending" ELSE "queued"
<1>1. Controlled(action, s) = [s EXCEPT !.status = status]
  BY DEF Controlled
<1> HIDE DEF status
<1>2. [s EXCEPT !.status = status].status = status
  BY DEF Sends
<1> QED
  BY <1>1, <1>2, ControlledType

LEMMA TurnsControl ==
  ASSUME ~Overlap, IndTypeOK, Turns, NEW a \in Admins, BeginControl(a) \/ AdminSteps(a)
  PROVE  Turns' /\ (send.status = "cancelled" => send'.status = "cancelled")
<1>1. send \in Sends /\ admin \in [Admins -> AdminRecs]
  BY DEF IndTypeOK, TypeOK, AdminRecs
<1>2. CASE BeginControl(a)
  <2>1. PICK action \in Actions :
          /\ ~Saving /\ ~Controlling /\ Applies(action, send)
          /\ AdminGoes(a, [pc |-> "write", s |-> Controlled(action, send)])
          /\ UNCHANGED <<send, worker>>
    BY <1>2 DEF BeginControl
  <2>2. action \in {"confirm", "pause", "resume", "cancel"}
    BY SendAssumption
  <2>3. send.status # "cancelled"
    BY <2>1, <2>2 DEF Applies, Running
  <2> DEFINE s == Controlled(action, send)
             m == [pc |-> "write", s |-> s]
  <2>4. s = [send EXCEPT !.status = s.status]
    BY <1>1, <2>2, ControlledStatus
  <2> HIDE DEF s
  <2>5. m.pc = "write" /\ m.s = [send EXCEPT !.status = m.s.status]
    BY <2>4
  <2> HIDE DEF m
  <2>6. admin'[a] = m /\ \A b \in Admins \ {a} : admin'[b] = admin[b] /\ admin[b].pc = "idle"
    BY <1>1, <2>1 DEF AdminGoes, Controlling, m, s
  <2>7. \A w \in Workers : worker[w].pc \notin {"write", "srem"}
    BY <2>1 DEF Saving
  <2> QED
    BY <2>1, <2>3, <2>5, <2>6, <2>7 DEF Turns
<1>3. CASE ControlWrite(a)
  <2> DEFINE m == [admin[a] EXCEPT !.pc = "active"]
  <2>1. send.status # "cancelled" /\ AdminGoes(a, m) /\ worker' = worker /\ admin[a].pc = "write"
    BY <1>3 DEF ControlWrite, Turns
  <2>2. m.pc = "active"
    BY <1>1 DEF AdminRecs
  <2> HIDE DEF m
  <2>3. admin'[a] = m /\ \A b \in Admins \ {a} : admin'[b] = admin[b] /\ admin[b].pc = "idle"
    BY <1>1, <2>1 DEF AdminGoes, Turns
  <2>4. \A w \in Workers : worker[w].pc \notin {"write", "srem"}
    BY <2>1 DEF Turns
  <2> QED
    BY <2>1, <2>2, <2>3, <2>4 DEF Turns
<1>4. CASE ControlActive(a)
  <2>1. UNCHANGED <<send, worker>> /\ admin'[a].pc = "idle"
        /\ \A b \in Admins \ {a} : admin'[b] = admin[b]
    BY <1>1, <1>4 DEF ControlActive, AdminGoes, IdleAdmin
  <2> QED
    BY <2>1 DEF Turns
<1> QED
  BY <1>2, <1>3, <1>4 DEF AdminSteps

LEMMA TurnsNext ==
  ASSUME ~Overlap, IndTypeOK, Turns, [Next]_vars
  PROVE  Turns' /\ (send.status = "cancelled" => send'.status = "cancelled")
<1>1. CASE UNCHANGED vars
  BY <1>1 DEF vars, Turns
<1>2. CASE EndsAt \/ LeaseExpires
  BY <1>2 DEF EndsAt, LeaseExpires, Turns
<1>3. CASE \E a \in Admins : BeginControl(a) \/ AdminSteps(a)
  BY <1>3, TurnsControl
<1>4. ASSUME NEW w \in Workers, StartFromTick(w) \/ StartFromPage(w) \/ WorkerSteps(w) \/ Dies(w)
      PROVE  Turns' /\ (send.status = "cancelled" => send'.status = "cancelled")
  <2>1. CASE SaveWrite(w)
    BY <2>1, TurnsSave
  <2>2. CASE ReadStopped(w) \/ ReadOver(w) \/ ReadSpent(w) \/ ReadWork(w) \/ SaveRead(w) \/ Srem(w)
    <3>1. send' = send
      BY <2>2 DEF ReadStopped, ReadOver, ReadSpent, ReadWork, SaveRead, Srem
    <3> QED
      BY <2>2, <3>1, TurnsRead
  <2>3. CASE Start(w) \/ End(w) \/ Dies(w)
    <3>1. send' = send
      BY <2>3 DEF Start, End, Dies
    <3> QED
      BY <2>3, <3>1, TurnsIdle
  <2>4. CASE ListPage(w) \/ ListingFails(w) \/ Sismember(w) \/ Sadd(w) \/ Listed(w) \/ WriteChunk(w)
               \/ EndPage(w) \/ Load(w) \/ NextChannel(w) \/ Hset(w)
    <3>1. send' = send
      BY <2>4 DEF ListPage, ListingFails, Sismember, Sadd, Listed, WriteChunk, EndPage, Load, NextChannel, Hset
    <3> QED
      BY <2>4, <3>1, TurnsWork
  <2>5. CASE Gate(w) \/ Deliver(w)
    <3>1. send' = send
      BY <2>5 DEF Gate, Deliver
    <3> QED
      BY <2>5, <3>1, TurnsGate
  <2> QED
    BY <1>4, <2>1, <2>2, <2>3, <2>4, <2>5 DEF StartFromTick, StartFromPage, WorkerSteps
<1> QED
  BY <1>1, <1>2, <1>3, <1>4 DEF Next

\* Where no control comes between the two calls of a save (the window that
\* controlSend and saveProgress leave open), a cancelled send stays
\* cancelled: what the loop saves afterwards does not bring it back.
THEOREM CancelIsFinal == ~Overlap => (Spec => CancelStands)
<1> SUFFICES ASSUME ~Overlap PROVE Spec => CancelStands
  OBVIOUS
<1>1. Init => Turns
  BY TurnsInit
<1>2. IndTypeOK /\ Turns /\ [Next]_vars => Turns'
  BY TurnsNext
<1>3. IndTypeOK /\ Turns /\ [Next]_vars => [KeepsCancel]_vars
  BY TurnsNext DEF KeepsCancel
<1> QED
  BY <1>1, <1>2, <1>3, AlwaysTyped, PTL DEF Spec, CancelStands

----------------------------------------------------------------------------
(* Nobody is forgotten.  The pages a record has behind it are in its        *)
(* chunks, its chunks behind it are answered for, and what the worker in    *)
(* the send is about to save has both, from what the send had and what the  *)
(* worker has done since.                                                   *)

InProgress == {"queued", "sending", "paused", "cancelled"}
Delivery == {"load", "gate", "hset"}
Saves == {"save", "write"}

\* p is in one of the first m chunks; the pages behind the cursor are.
InChunks(p, m, chunks) == \E n \in Slots : n < m /\ p \in chunks[n]
Filed(s, chunks) ==
  /\ s.cursor <= Len(Pages) /\ (s.listed => s.cursor = Len(Pages))
  /\ s.nextChunk <= s.chunks
  /\ \A i \in DOMAIN Pages : i <= s.cursor => \A p \in Pages[i] : InChunks(p, s.chunks, chunks)

\* The chunks before the next have an answer for everyone, on every channel.
Covered(s, chunks, states) ==
  \A n \in Slots : n < s.nextChunk =>
    \A p \in chunks[n], ch \in Channels : states[<<n, <<p, ch>>>>] # "none"

DoneRight(s) == s.status = "done" /\ ~s.cut => s.listed /\ s.nextChunk >= s.chunks
Unstopped(status, was) == ~was /\ status # "cancelled"

SendKept ==
  /\ Filed(send, chunk) /\ DoneRight(send)
  /\ send.status = "paused" => paused
  /\ Unstopped(send.status, paused) => Covered(send, chunk, st)

AdminKept == \A a \in Admins : admin[a].pc = "write" => admin[a].s.status \in InProgress

\* From a page's first person to the save that puts it behind; outside that,
\* whoever has been seen is in a chunk of the stored record.
MidPage(me, cursor) == me.pc \in Listing \/ (me.pc \in Saves /\ me.s.cursor # cursor)
SeenFiled ==
  (\A w \in Workers : ~MidPage(worker[w], send.cursor)) => \A p \in seen : InChunks(p, send.chunks, chunk)

Blank(me) == me.ch = 0 /\ me.fresh = {} /\ me.todo = {} /\ me.go = {}

\* A worker between its read and its save.
Afoot(me, s, chunks) ==
  /\ s.status \in InProgress /\ me.s.status \in {"sending", "done"}
  /\ DoneRight(me.s) /\ Filed(me.s, chunks)
AsRead(me, s) ==
  /\ me.s.status = "sending" /\ me.s.nextChunk = s.nextChunk /\ me.s.cursor = s.cursor
  /\ s.chunks <= me.s.chunks /\ (me.pc = "list" => me.s.chunks = s.chunks)

\* One that lists: whoever it has seen is fresh or in a chunk, and the page's
\* people are still to be asked for, or the same.
Lists(me, chunks, met) ==
  /\ \A p \in met : p \in me.fresh \/ InChunks(p, me.s.chunks, chunks)
  /\ me.pc # "sadd" => me.go = {}
  /\ me.pc = "list" => me.fresh = {}
  /\ me.pc = "chunk" => me.todo = {}
  /\ me.pc # "list" => /\ me.s.cursor + 1 \in DOMAIN Pages
                       /\ \A p \in Pages[me.s.cursor + 1] :
                            p \in me.todo \cup me.go \cup me.fresh \/ InChunks(p, me.s.chunks, chunks)

\* One that delivers: the channels before its own are settled for the chunk,
\* and its own for whoever is not still to do, unless the send was stopped.
Settled(me) ==
  \A i \in DOMAIN On, p \in me.list :
    i < me.ch \/ (i = me.ch /\ p \notin me.todo \cup me.go) => me.mine[<<p, On[i]>>] # "none"
Delivers(me, s, chunks, unstopped) ==
  /\ me.s.chunks = s.chunks /\ me.s.nextChunk < s.chunks
  /\ me.pc # "load" => me.list = chunks[me.s.nextChunk]
  /\ me.pc = "hset" => me.ch >= Len(On) /\ me.todo = {} /\ me.go = {}
  /\ me.pc # "load" /\ unstopped => Settled(me)

\* One that saves.
Saved(me, s, chunks, states, met, unstopped) ==
  /\ \A p \in met : InChunks(p, me.s.chunks, chunks)
  /\ me.s.cursor = s.cursor => me.s.chunks = s.chunks
  /\ unstopped => Covered(me.s, chunks, states)
  /\ me.pc = "write" => me.cur = s.status

Work(me, s, chunks, states, met, was) ==
  /\ me.pc \in {"read", "load", "list"} => Blank(me)
  /\ me.pc \in Delivery \cup Listing \cup Saves => Afoot(me, s, chunks)
  /\ me.pc \in Delivery \cup Listing => AsRead(me, s)
  /\ me.pc \in Listing => Lists(me, chunks, met)
  /\ me.pc \in Delivery => Delivers(me, s, chunks, Unstopped(s.status, was))
  /\ me.pc \in Saves => Saved(me, s, chunks, states, met, Unstopped(s.status, was))

Kept ==
  /\ SendKept /\ AdminKept /\ SeenFiled
  /\ \A w \in Workers : Work(worker[w], send, chunk, st, seen, paused)

\* A worker that is not in the send holds nothing.
LEMMA Away ==
  ASSUME NEW me, me.pc \in {"idle", "srem", "end"}, NEW s, NEW chunks, NEW states, NEW met, NEW was, NEW cursor
  PROVE  Work(me, s, chunks, states, met, was) /\ ~MidPage(me, cursor)
BY DEF Work, MidPage, Delivery, Listing, Saves

LEMMA InitKept == Init => Kept
<1> SUFFICES ASSUME Init PROVE Kept OBVIOUS
<1>1. send = Draft /\ seen = {} /\ \A w \in Workers : worker[w].pc = "idle"
  BY DEF Init, IdleWorker
<1>2. \A w \in Workers : Work(worker[w], send, chunk, st, seen, paused)
  BY <1>1, Away
<1>3. Len(Pages) \in Nat /\ DOMAIN Pages = 1 .. Len(Pages)
  BY SendAssumption
<1>4. SendKept
  BY <1>1, <1>3 DEF SendKept, Draft, Filed, DoneRight, Covered, Slots
<1>5. AdminKept /\ SeenFiled
  BY <1>1 DEF Init, IdleAdmin, AdminKept, SeenFiled
<1> QED
  BY <1>2, <1>4, <1>5 DEF Kept

\* A step of the worker in the send, which keeps the record and leaves the
\* worker with what it needs.
LEMMA KeptStep ==
  ASSUME IndTypeOK, LeaseHeld, NEW w \in Workers, worker[w].pc # "idle" \/ lease = "free",
         NEW m, Goes(w, m), SendKept', AdminKept',
         Work(m, send', chunk', st', seen', paused'),
         ~MidPage(m, send'.cursor) => \A p \in seen' : InChunks(p, send'.chunks, chunk')
  PROVE  Kept'
<1>1. worker'[w] = m /\ \A v \in Workers \ {w} : worker'[v] = worker[v] /\ worker[v].pc = "idle"
  BY SendAssumption DEF Goes, IndTypeOK, TypeOK, LeaseHeld
<1>2. \A v \in Workers : Work(worker'[v], send', chunk', st', seen', paused')
  BY <1>1, Away
<1>3. SeenFiled'
  BY <1>1 DEF SeenFiled
<1> QED
  BY <1>2, <1>3 DEF Kept

\* One that changes no shared state.
LEMMA KeptMove ==
  ASSUME IndTypeOK, LeaseHeld, Kept, NEW w \in Workers, worker[w].pc # "idle" \/ lease = "free",
         UNCHANGED <<send, chunk, st, seen, admin, paused>>, NEW m, Goes(w, m),
         Work(m, send, chunk, st, seen, paused),
         MidPage(worker[w], send.cursor) => MidPage(m, send.cursor)
           \/ \A p \in seen : InChunks(p, send.chunks, chunk)
  PROVE  Kept'
<1>1. SendKept' /\ AdminKept'
  BY DEF Kept, SendKept, AdminKept
<1>2. \A v \in Workers \ {w} : ~MidPage(worker[v], send.cursor)
  <2>1. \A v \in Workers \ {w} : worker[v].pc = "idle"
    BY SendAssumption DEF LeaseHeld
  <2> QED
    BY <2>1, Away
<1>3. ~MidPage(m, send.cursor) => \A p \in seen : InChunks(p, send.chunks, chunk)
  BY <1>2 DEF Kept, SeenFiled
<1> QED
  BY <1>1, <1>3, KeptStep

\* Before a page is begun and after it is saved, whoever is seen is filed.
LEMMA SeenAreFiled ==
  ASSUME LeaseHeld, Kept, NEW w \in Workers, worker[w].pc # "idle", ~MidPage(worker[w], send.cursor)
  PROVE  \A p \in seen : InChunks(p, send.chunks, chunk)
<1>1. \A v \in Workers \ {w} : worker[v].pc = "idle"
  BY DEF LeaseHeld
<1>2. \A v \in Workers : ~MidPage(worker[v], send.cursor)
  BY <1>1, Away
<1> QED
  BY <1>2 DEF Kept, SeenFiled

LEMMA ReadingKept ==
  ASSUME IndTypeOK, LeaseHeld, Kept, NEW w \in Workers,
         ReadStopped(w) \/ ReadOver(w) \/ ReadSpent(w) \/ ReadWork(w) \/ SaveRead(w)
  PROVE  Kept'
<1> DEFINE me == worker[w]
           keep == <<send, chunk, st, seen, admin, paused>>
<1>1. me \in WorkerRecs /\ send \in Sends /\ SendKept /\ UNCHANGED keep
      /\ me.pc # "idle" /\ Work(me, send, chunk, st, seen, paused)
  BY DEF IndTypeOK, TypeOK, WorkerRecs, Kept, ReadStopped, ReadOver, ReadSpent, ReadWork, SaveRead
<1>2. CASE ReadStopped(w) \/ ReadSpent(w)
  <2>1. PICK pc \in {"srem", "end"} : Goes(w, [me EXCEPT !.pc = pc])
    BY <1>2 DEF ReadStopped, ReadSpent
  <2> DEFINE m == [me EXCEPT !.pc = pc]
  <2>2. m.pc \in {"srem", "end"} /\ ~MidPage(me, send.cursor)
    BY <1>1, <1>2 DEF WorkerRecs, ReadStopped, ReadSpent, MidPage, Listing, Saves
  <2> HIDE DEF m
  <2>3. Work(m, send, chunk, st, seen, paused)
    BY <2>2, Away
  <2> QED
    BY <1>1, <2>1, <2>2, <2>3, KeptMove DEF m
<1>3. ASSUME me.pc = "read", Running(send.status)
      PROVE  /\ send.status \in InProgress /\ ~MidPage(me, send.cursor) /\ Blank(me)
             /\ \A p \in seen : InChunks(p, send.chunks, chunk)
             /\ Filed(send, chunk) /\ (Unstopped(send.status, paused) => Covered(send, chunk, st))
  <2>1. ~MidPage(me, send.cursor)
    BY <1>3 DEF MidPage, Listing, Saves
  <2>2. \A p \in seen : InChunks(p, send.chunks, chunk)
    BY <1>1, <2>1, SeenAreFiled
  <2> QED
    BY <1>1, <1>3, <2>1, <2>2 DEF Running, InProgress, SendKept, Work
<1>4. CASE ReadOver(w)
  <2> DEFINE s == [send EXCEPT !.status = "done", !.cut = TRUE]
             m == SaveThen(me, s, "srem")
  <2>1. s.status = "done" /\ s.cut /\ s.chunks = send.chunks /\ s.nextChunk = send.nextChunk
        /\ s.cursor = send.cursor /\ s.listed = send.listed
    BY <1>1 DEF Sends
  <2>2. Goes(w, m) /\ me.pc = "read" /\ Running(send.status)
    BY <1>4 DEF ReadOver
  <2> HIDE DEF s
  <2>3. m.pc = "save" /\ m.s = s
    BY <1>1 DEF SaveThen, WorkerRecs
  <2> HIDE DEF m
  <2>4. Afoot(m, send, chunk) /\ Saved(m, send, chunk, st, seen, Unstopped(send.status, paused))
    BY <1>3, <2>1, <2>2, <2>3 DEF Afoot, DoneRight, Filed, Saved, Covered
  <2>5. Work(m, send, chunk, st, seen, paused)
    BY <2>3, <2>4 DEF Work, Delivery, Listing, Saves
  <2> QED
    BY <1>1, <1>3, <2>2, <2>5, KeptMove
<1>5. CASE ReadWork(w)
  <2> DEFINE s == [send EXCEPT !.status = "sending"]
             d == [s EXCEPT !.status = "done"]
             q == [me EXCEPT !.s = s, !.did = TRUE]
  <2>1. /\ s.status = "sending" /\ s.chunks = send.chunks /\ s.nextChunk = send.nextChunk
        /\ s.cursor = send.cursor /\ s.listed = send.listed
        /\ d.status = "done" /\ d.chunks = send.chunks /\ d.nextChunk = send.nextChunk
        /\ d.cursor = send.cursor /\ d.listed = send.listed
        /\ {send.chunks, send.nextChunk, send.cursor} \subseteq Nat
    BY <1>1 DEF Sends
  <2>2. /\ me.pc = "read" /\ Running(send.status)
        /\ \/ Goes(w, [q EXCEPT !.pc = "load"]) /\ s.nextChunk < s.chunks
           \/ Goes(w, [q EXCEPT !.pc = "list"]) /\ ~s.listed
           \/ Goes(w, SaveThen(q, d, "done")) /\ ~(s.nextChunk < s.chunks) /\ s.listed
    BY <1>5 DEF ReadWork
  <2> HIDE DEF s, d
  <2>3. Blank(me) /\ \A p \in seen : InChunks(p, send.chunks, chunk)
    BY <1>3, <2>2
  <2>4. Filed(s, chunk) /\ Filed(d, chunk)
    BY <1>3, <2>1, <2>2 DEF Filed
  <2>5. CASE Goes(w, [q EXCEPT !.pc = "load"]) /\ s.nextChunk < s.chunks
    <3> DEFINE m == [q EXCEPT !.pc = "load"]
    <3>1. m.pc = "load" /\ m.s = s /\ Blank(m)
      BY <1>1, <2>3 DEF WorkerRecs, Blank
    <3> HIDE DEF m, q
    <3>2. Afoot(m, send, chunk) /\ AsRead(m, send) /\ Delivers(m, send, chunk, Unstopped(send.status, paused))
      BY <1>3, <2>1, <2>2, <2>4, <2>5, <3>1 DEF Afoot, DoneRight, AsRead, Delivers
    <3>3. Work(m, send, chunk, st, seen, paused)
      BY <3>1, <3>2 DEF Work, Delivery, Listing, Saves
    <3> QED
      BY <1>1, <1>3, <2>2, <2>5, <3>3, KeptMove DEF m
  <2>6. CASE Goes(w, [q EXCEPT !.pc = "list"])
    <3> DEFINE m == [q EXCEPT !.pc = "list"]
    <3>1. m.pc = "list" /\ m.s = s /\ Blank(m)
      BY <1>1, <2>3 DEF WorkerRecs, Blank
    <3> HIDE DEF m, q
    <3>2. Afoot(m, send, chunk) /\ AsRead(m, send) /\ Lists(m, chunk, seen)
      BY <1>3, <2>1, <2>2, <2>3, <2>4, <3>1 DEF Afoot, DoneRight, AsRead, Lists, Blank
    <3>3. Work(m, send, chunk, st, seen, paused)
      BY <3>1, <3>2 DEF Work, Delivery, Listing, Saves
    <3> QED
      BY <1>1, <1>3, <2>2, <2>6, <3>3, KeptMove DEF m
  <2>7. CASE Goes(w, SaveThen(q, d, "done")) /\ ~(s.nextChunk < s.chunks) /\ s.listed
    <3> DEFINE m == SaveThen(q, d, "done")
    <3>1. m.pc = "save" /\ m.s = d
      BY <1>1 DEF SaveThen, WorkerRecs
    <3> HIDE DEF m, q
    <3>1a. d.nextChunk >= d.chunks
      BY <2>1, <2>7
    <3>1b. d.listed
      BY <2>1, <2>7
    <3>1c. DoneRight(d)
      BY <3>1a, <3>1b DEF DoneRight
    <3>1d. Afoot(m, send, chunk)
      BY <1>3, <2>1, <2>2, <2>4, <3>1, <3>1c DEF Afoot
    <3>1e. Saved(m, send, chunk, st, seen, Unstopped(send.status, paused))
      BY <1>3, <2>1, <2>2, <2>3, <3>1 DEF Saved, Covered
    <3>3. Work(m, send, chunk, st, seen, paused)
      BY <3>1, <3>1d, <3>1e DEF Work, Delivery, Listing, Saves
    <3> QED
      BY <1>1, <1>3, <2>2, <2>7, <3>3, KeptMove DEF m
  <2> QED
    BY <2>2, <2>5, <2>6, <2>7
<1>6. CASE SaveRead(w)
  <2> DEFINE m == [me EXCEPT !.cur = send.status, !.pc = "write"]
  <2>1. Goes(w, m) /\ me.pc = "save"
    BY <1>6 DEF SaveRead
  <2>2. m.pc = "write" /\ m.cur = send.status /\ m.s = me.s
    BY <1>1 DEF WorkerRecs
  <2> HIDE DEF m
  <2>3. Afoot(m, send, chunk) /\ Saved(m, send, chunk, st, seen, Unstopped(send.status, paused))
    BY <1>1, <2>1, <2>2 DEF Work, Afoot, Saved, Saves
  <2>4. Work(m, send, chunk, st, seen, paused)
    BY <2>2, <2>3 DEF Work, Delivery, Listing, Saves
  <2>5. MidPage(me, send.cursor) => MidPage(m, send.cursor)
    BY <2>1, <2>2 DEF MidPage, Listing, Saves
  <2> QED
    BY <1>1, <2>1, <2>4, <2>5, KeptMove
<1> QED
  BY <1>2, <1>3, <1>4, <1>5, <1>6

\* The save: what the worker has made of the send, or that with the status
\* it found.
LEMMA SaveKept ==
  ASSUME IndTypeOK, LeaseHeld, Kept, NEW w \in Workers, SaveWrite(w)
  PROVE  Kept'
<1> DEFINE me == worker[w]
           m == [IdleWorker EXCEPT !.pc = AfterSave(me), !.did = TRUE]
<1>1. /\ me \in WorkerRecs /\ me.s \in Sends /\ me.pc = "write" /\ send' = Merged(me) /\ Goes(w, m)
      /\ UNCHANGED <<chunk, st, seen, admin, paused>> /\ SendKept /\ AdminKept
      /\ Work(me, send, chunk, st, seen, paused)
  BY DEF IndTypeOK, TypeOK, WorkerRecs, Kept, SaveWrite
<1>2. /\ Afoot(me, send, chunk) /\ Saved(me, send, chunk, st, seen, Unstopped(send.status, paused))
      /\ me.cur = send.status
  BY <1>1 DEF Work, Saves, Saved
<1>3. m.pc \in {"read", "srem", "end"} /\ Blank(m)
  BY <1>1 DEF AfterSave, WorkerRecs, IdleWorker, Blank
<1> HIDE DEF m
<1>4. Work(m, send', chunk', st', seen', paused') /\ ~MidPage(m, send'.cursor)
  BY <1>3 DEF Work, MidPage, Delivery, Listing, Saves
<1>5. /\ send'.chunks = me.s.chunks /\ send'.nextChunk = me.s.nextChunk
      /\ send'.cursor = me.s.cursor /\ send'.listed = me.s.listed
      /\ \/ send'.status = me.cur /\ me.cur \in {"paused", "cancelled"}
         \/ send' = me.s /\ me.cur \notin {"paused", "cancelled"}
  BY <1>1 DEF Merged, Sends
<1>6. Unstopped(send'.status, paused) => Unstopped(send.status, paused)
  BY <1>2, <1>5 DEF Unstopped
<1>7. Filed(send', chunk) /\ DoneRight(send')
  BY <1>2, <1>5 DEF Afoot, Filed, DoneRight
<1>8. send'.status = "paused" => paused
  BY <1>1, <1>2, <1>5 DEF SendKept, Afoot
<1>9. Unstopped(send'.status, paused) => Covered(send', chunk, st)
  BY <1>2, <1>5, <1>6 DEF Saved, Covered
<1>10. SendKept'
  BY <1>1, <1>7, <1>8, <1>9 DEF SendKept
<1>11. AdminKept'
  BY <1>1 DEF AdminKept
<1>12. \A p \in seen' : InChunks(p, send'.chunks, chunk')
  BY <1>1, <1>2, <1>5 DEF Saved
<1> QED
  BY <1>1, <1>4, <1>10, <1>11, <1>12, KeptStep

LEMMA ComingKept ==
  ASSUME ~ListingDies, IndTypeOK, LeaseHeld, Kept, NEW w \in Workers, Start(w) \/ Srem(w) \/ End(w) \/ Dies(w)
  PROVE  Kept'
<1> DEFINE me == worker[w]
<1>1. me \in WorkerRecs /\ UNCHANGED <<send, chunk, st, seen, admin, paused>>
      /\ (me.pc # "idle" \/ lease = "free")
  BY DEF IndTypeOK, TypeOK, WorkerRecs, Start, Srem, End, Dies
<1>2. ~MidPage(me, send.cursor)
  BY DEF Start, Srem, End, Dies, MidPage, AtListing, Listing, Saves
<1>3. PICK m : Goes(w, m) /\ m.pc \in {"idle", "read", "end"} /\ (m.pc = "read" => Blank(m))
  <2>1. CASE Start(w)
    <3>1. [IdleWorker EXCEPT !.pc = "read"].pc = "read" /\ Blank([IdleWorker EXCEPT !.pc = "read"])
      BY DEF IdleWorker, Blank
    <3> QED
      BY <2>1, <3>1 DEF Start
  <2>2. CASE Srem(w)
    <3>1. [me EXCEPT !.pc = "end"].pc = "end"
      BY <1>1 DEF WorkerRecs
    <3> QED
      BY <2>2, <3>1 DEF Srem
  <2>3. CASE End(w) \/ Dies(w)
    BY <2>3 DEF End, Dies, IdleWorker
  <2> QED
    BY <2>1, <2>2, <2>3
<1>4. Work(m, send, chunk, st, seen, paused)
  BY <1>3 DEF Work, Delivery, Listing, Saves
<1> QED
  BY <1>1, <1>2, <1>3, <1>4, KeptMove

LEMMA ControlledProgress ==
  ASSUME NEW s \in Sends, NEW action \in {"confirm", "pause", "resume", "cancel"}
  PROVE  Controlled(action, s).status \in InProgress
<1> DEFINE status == CASE action = "confirm" -> "queued"
                       [] action = "pause" -> "paused"
                       [] action = "cancel" -> "cancelled"
                       [] OTHER -> IF s.nextChunk > 0 \/ s.chunks > 0
                                   THEN "sending" ELSE "queued"
<1>1. status \in InProgress
  BY DEF InProgress
<1>2. Controlled(action, s) = [s EXCEPT !.status = status]
  BY DEF Controlled
<1> HIDE DEF status
<1> QED
  BY <1>1, <1>2 DEF Sends

\* A control that changes the status, and nothing else, under whoever works.
LEMMA ControlKept ==
  ASSUME ~Overlap, IndTypeOK, Turns, Kept, NEW a \in Admins, BeginControl(a) \/ AdminSteps(a)
  PROVE  Kept'
<1>1. send \in Sends /\ admin \in [Admins -> AdminRecs] /\ UNCHANGED <<worker, chunk, st, seen>>
      /\ SendKept /\ AdminKept
  BY DEF IndTypeOK, TypeOK, AdminRecs, BeginControl, AdminSteps, ControlWrite, ControlActive, Kept
<1>2. ASSUME UNCHANGED <<send, paused>>, AdminKept' PROVE Kept'
  BY <1>1, <1>2 DEF Kept, SendKept, SeenFiled
<1>3. CASE BeginControl(a)
  <2>1. PICK action \in Actions : AdminGoes(a, [pc |-> "write", s |-> Controlled(action, send)])
          /\ UNCHANGED <<send, paused>>
    BY <1>3 DEF BeginControl
  <2>2. Controlled(action, send).status \in InProgress
    BY <1>1, SendAssumption, ControlledProgress
  <2>3. admin'[a].s.status \in InProgress /\ \A b \in Admins \ {a} : admin'[b] = admin[b]
    BY <1>1, <2>1, <2>2 DEF AdminGoes
  <2>4. AdminKept'
    BY <1>1, <2>3 DEF AdminKept
  <2> QED
    BY <1>2, <2>1, <2>4
<1>4. CASE ControlActive(a)
  <2>1. UNCHANGED <<send, paused>> /\ admin'[a].pc = "idle" /\ \A b \in Admins \ {a} : admin'[b] = admin[b]
    BY <1>1, <1>4 DEF ControlActive, AdminGoes, IdleAdmin
  <2>2. AdminKept'
    BY <1>1, <2>1 DEF AdminKept
  <2> QED
    BY <1>2, <2>1, <2>2
<1>5. CASE ControlWrite(a)
  <2> DEFINE s == admin[a].s
  <2>1. /\ admin[a].pc = "write" /\ send' = s /\ paused' = (paused \/ s.status = "paused")
        /\ send.status # "cancelled" /\ s = [send EXCEPT !.status = s.status] /\ s.status \in InProgress
        /\ \A w \in Workers : worker[w].pc # "write"
    BY <1>1, <1>5 DEF ControlWrite, Turns, AdminKept
  <2>2. send'.chunks = send.chunks /\ send'.nextChunk = send.nextChunk /\ send'.cursor = send.cursor
        /\ send'.listed = send.listed /\ send'.status = s.status
    BY <1>1, <2>1 DEF Sends
  <2>2a. paused => paused'
    BY <2>1
  <2>3. Unstopped(send'.status, paused') => Unstopped(send.status, paused)
    BY <2>1, <2>2a DEF Unstopped
  <2>4. SendKept'
    <3>1. Filed(send', chunk)
      BY <1>1, <2>2 DEF SendKept, Filed
    <3>2. DoneRight(send')
      BY <2>1, <2>2 DEF DoneRight, InProgress
    <3>3. send'.status = "paused" => paused'
      BY <2>1, <2>2
    <3>4. Unstopped(send'.status, paused') => Covered(send', chunk, st)
      BY <1>1, <2>2, <2>3 DEF SendKept, Covered
    <3> QED
      BY <1>1, <3>1, <3>2, <3>3, <3>4 DEF SendKept
  <2>5. AdminKept'
    <3>1. \A b \in Admins : admin'[b].s = admin[b].s /\ (admin'[b].pc = "write" => admin[b].pc = "write")
      BY <1>1, <1>5 DEF ControlWrite, AdminGoes, AdminRecs
    <3> QED
      BY <1>1, <3>1 DEF AdminKept
  <2>6. SeenFiled'
    BY <1>1, <2>2 DEF Kept, SeenFiled
  <2>7. ASSUME NEW w \in Workers PROVE Work(worker'[w], send', chunk', st', seen', paused')
    <3> DEFINE me == worker[w]
    <3>1. Work(me, send, chunk, st, seen, paused) /\ me.pc # "write" /\ worker'[w] = me
      BY <1>1, <2>1 DEF Kept
    <3> HIDE DEF me
    <3>2. Afoot(me, send, chunk) => Afoot(me, send', chunk)
      BY <2>1, <2>2 DEF Afoot
    <3>3. AsRead(me, send) => AsRead(me, send')
      BY <2>2 DEF AsRead
    <3>4. Delivers(me, send, chunk, Unstopped(send.status, paused))
            => Delivers(me, send', chunk, Unstopped(send'.status, paused'))
      BY <2>2, <2>3 DEF Delivers
    <3>5. Saved(me, send, chunk, st, seen, Unstopped(send.status, paused))
            => Saved(me, send', chunk, st, seen, Unstopped(send'.status, paused'))
      BY <2>2, <2>3, <3>1 DEF Saved
    <3> QED
      BY <1>1, <3>1, <3>2, <3>3, <3>4, <3>5 DEF Work
  <2> QED
    BY <2>4, <2>5, <2>6, <2>7 DEF Kept
<1> QED
  BY <1>3, <1>4, <1>5 DEF AdminSteps

LEMMA ListingKept ==
  ASSUME ~ListingDies, IndTypeOK, LeaseHeld, Kept, NEW w \in Workers,
         ListPage(w) \/ ListingFails(w) \/ Sismember(w) \/ Listed(w) \/ EndPage(w)
  PROVE  Kept'
<1> DEFINE me == worker[w]
<1>1. /\ me \in WorkerRecs /\ me.s \in Sends /\ me.pc \in Listing /\ me.pc # "idle"
      /\ UNCHANGED <<send, chunk, st, seen, admin, paused>>
  BY DEF IndTypeOK, TypeOK, WorkerRecs, ListPage, ListingFails, Sismember, Listed, EndPage, Listing
<1>2. /\ Afoot(me, send, chunk) /\ AsRead(me, send) /\ Lists(me, chunk, seen)
      /\ Unstopped(send.status, paused) => Covered(send, chunk, st)
  BY <1>1 DEF Kept, Work, SendKept
<1>3. ASSUME NEW m, Goes(w, m), m.pc \in Listing \ {"list"}, m.s = me.s, Lists(m, chunk, seen) PROVE Kept'
  <2>1. Afoot(m, send, chunk) /\ AsRead(m, send)
    BY <1>2, <1>3 DEF Afoot, AsRead, Listing
  <2>2. Work(m, send, chunk, st, seen, paused) /\ MidPage(m, send.cursor)
    BY <1>3, <2>1 DEF Work, MidPage, Delivery, Listing, Saves
  <2> QED
    BY <1>1, <1>3, <2>2, KeptMove
<1>4. CASE ListPage(w)
  <2> DEFINE m == [me EXCEPT !.pc = "sismember", !.todo = Pages[me.s.cursor + 1]]
  <2>1. Goes(w, m) /\ me.pc = "list" /\ me.s.cursor + 1 \in DOMAIN Pages
    BY <1>4 DEF ListPage
  <2>2. m.pc = "sismember" /\ m.s = me.s /\ m.go = me.go /\ m.fresh = me.fresh /\ m.todo = Pages[me.s.cursor + 1]
    BY <1>1 DEF WorkerRecs
  <2> HIDE DEF m
  <2>3. Lists(m, chunk, seen)
    BY <1>2, <2>1, <2>2 DEF Lists
  <2> QED
    BY <1>3, <2>1, <2>2, <2>3 DEF Listing
<1>5. CASE Listed(w)
  <2> DEFINE m == [me EXCEPT !.pc = "chunk"]
  <2>1. Goes(w, m) /\ me.pc = "sismember" /\ me.todo = {}
    BY <1>5 DEF Listed
  <2>2. m.pc = "chunk" /\ m.s = me.s /\ m.go = me.go /\ m.fresh = me.fresh /\ m.todo = me.todo
    BY <1>1 DEF WorkerRecs
  <2> HIDE DEF m
  <2>3. Lists(m, chunk, seen)
    BY <1>2, <2>1, <2>2 DEF Lists
  <2> QED
    BY <1>3, <2>1, <2>2, <2>3 DEF Listing
<1>6. CASE Sismember(w)
  <2>1. PICK p \in me.todo :
          /\ me.pc = "sismember"
          /\ \/ Goes(w, [me EXCEPT !.todo = @ \ {p}, !.go = {p}, !.pc = "sadd"])
             \/ Goes(w, [me EXCEPT !.todo = @ \ {p}]) /\ p \in seen
    BY <1>6 DEF Sismember, IsFresh
  <2>2. CASE Goes(w, [me EXCEPT !.todo = @ \ {p}, !.go = {p}, !.pc = "sadd"])
    <3> DEFINE m == [me EXCEPT !.todo = @ \ {p}, !.go = {p}, !.pc = "sadd"]
    <3>1. m.pc = "sadd" /\ m.s = me.s /\ m.go = {p} /\ m.fresh = me.fresh /\ m.todo = me.todo \ {p}
      BY <1>1 DEF WorkerRecs
    <3> HIDE DEF m
    <3>2. Lists(m, chunk, seen)
      BY <1>2, <2>1, <3>1 DEF Lists
    <3> QED
      BY <1>3, <2>2, <3>1, <3>2 DEF Listing, m
  <2>3. CASE Goes(w, [me EXCEPT !.todo = @ \ {p}]) /\ p \in seen
    <3> DEFINE m == [me EXCEPT !.todo = @ \ {p}]
    <3>1. m.pc = me.pc /\ m.s = me.s /\ m.go = me.go /\ m.fresh = me.fresh /\ m.todo = me.todo \ {p}
      BY <1>1 DEF WorkerRecs
    <3> HIDE DEF m
    <3>2. Lists(m, chunk, seen)
      BY <1>2, <2>1, <2>3, <3>1 DEF Lists
    <3> QED
      BY <1>3, <2>1, <2>3, <3>1, <3>2 DEF Listing, m
  <2> QED
    BY <2>1, <2>2, <2>3
<1>7. ASSUME NEW s, NEW after, Goes(w, SaveThen(me, s, after)), \A p \in seen : InChunks(p, s.chunks, chunk),
             Filed(s, chunk), s.status = "sending", s.nextChunk = send.nextChunk,
             s.cursor = send.cursor => s.chunks = send.chunks
      PROVE  Kept'
  <2> DEFINE m == SaveThen(me, s, after)
  <2>1. m.pc = "save" /\ m.s = s
    BY <1>1 DEF SaveThen, WorkerRecs
  <2> HIDE DEF m
  <2>2. Afoot(m, send, chunk) /\ Saved(m, send, chunk, st, seen, Unstopped(send.status, paused))
    BY <1>2, <1>7, <2>1 DEF Afoot, DoneRight, Saved, Covered
  <2>3. Work(m, send, chunk, st, seen, paused)
    BY <2>1, <2>2 DEF Work, Delivery, Listing, Saves
  <2>4. MidPage(m, send.cursor) \/ \A p \in seen : InChunks(p, send.chunks, chunk)
    BY <1>7, <2>1 DEF MidPage, Saves
  <2> QED
    BY <1>1, <1>7, <2>3, <2>4, KeptMove DEF m
<1>8. CASE ListingFails(w)
  <2>1. Goes(w, SaveThen(me, me.s, "end")) /\ me.pc = "list"
    BY <1>8 DEF ListingFails
  <2>2. me.fresh = {} /\ me.s.chunks = send.chunks
    BY <1>2, <2>1 DEF Lists, AsRead
  <2>3. \A p \in seen : InChunks(p, me.s.chunks, chunk)
    BY <1>2, <2>2 DEF Lists
  <2> QED
    BY <1>2, <1>7, <2>1, <2>2, <2>3 DEF AsRead, Afoot
<1>9. CASE EndPage(w)
  <2> DEFINE s == [me.s EXCEPT !.cursor = @ + 1, !.listed = ListedAll(me.s.cursor + 1)]
  <2>1. Goes(w, SaveThen(me, s, "read")) /\ me.pc = "chunk" /\ me.fresh = {}
    BY <1>9 DEF EndPage
  <2>2. me.todo = {} /\ me.go = {} /\ me.s.cursor + 1 \in DOMAIN Pages
        /\ \A p \in Pages[me.s.cursor + 1] : InChunks(p, me.s.chunks, chunk)
    BY <1>2, <2>1 DEF Lists
  <2>3. /\ s.cursor = me.s.cursor + 1 /\ (s.listed <=> s.cursor = Len(Pages)) /\ s.status = me.s.status
        /\ s.chunks = me.s.chunks /\ s.nextChunk = me.s.nextChunk /\ me.s.cursor \in Nat
    BY <1>1 DEF Sends, ListedAll
  <2> HIDE DEF s
  <2>4. \A p \in seen : InChunks(p, s.chunks, chunk)
    BY <1>2, <2>1, <2>3 DEF Lists
  <2>5. Filed(me.s, chunk) /\ me.s.cursor = send.cursor /\ me.s.status = "sending" /\ me.s.nextChunk = send.nextChunk
    BY <1>2 DEF Afoot, AsRead
  <2>6. s.cursor <= Len(Pages) /\ Len(Pages) \in Nat /\ s.nextChunk <= s.chunks
    BY <2>2, <2>3, <2>5, SendAssumption DEF Filed
  <2>7. ASSUME NEW i \in DOMAIN Pages, i <= s.cursor, NEW p \in Pages[i] PROVE InChunks(p, s.chunks, chunk)
    <3>1. i \in Nat
      BY <2>7, SendAssumption
    <3>2. i <= me.s.cursor \/ i = me.s.cursor + 1
      <4>1. s.cursor = me.s.cursor + 1 /\ me.s.cursor \in Nat /\ i <= s.cursor
        BY <2>3, <2>7
      <4> QED
        BY <3>1, <4>1
    <3> QED
      BY <2>2, <2>3, <2>5, <2>7, <3>2 DEF Filed
  <2>8. Filed(s, chunk)
    BY <2>3, <2>6, <2>7 DEF Filed
  <2>9. s.cursor # send.cursor
    BY <2>3, <2>5
  <2> QED
    BY <1>7, <2>1, <2>3, <2>4, <2>5, <2>8, <2>9
<1> QED
  BY <1>4, <1>5, <1>6, <1>8, <1>9

LEMMA SaddKept ==
  ASSUME IndTypeOK, LeaseHeld, Kept, NEW w \in Workers, Sadd(w)
  PROVE  Kept'
<1> DEFINE me == worker[w]
           m == [me EXCEPT !.fresh = @ \cup me.go, !.go = {}, !.pc = "sismember"]
<1>1. /\ me \in WorkerRecs /\ me.pc = "sadd" /\ Goes(w, m) /\ seen' = seen \cup me.go
      /\ UNCHANGED <<send, chunk, st, admin, paused>>
  BY DEF IndTypeOK, TypeOK, WorkerRecs, Sadd
<1>2. /\ Afoot(me, send, chunk) /\ AsRead(me, send) /\ Lists(me, chunk, seen)
      /\ SendKept /\ AdminKept
  BY <1>1 DEF Kept, Work, Listing
<1>3. m.pc = "sismember" /\ m.s = me.s /\ m.go = {} /\ m.fresh = me.fresh \cup me.go /\ m.todo = me.todo
  BY <1>1 DEF WorkerRecs
<1> HIDE DEF m
<1>4. Lists(m, chunk, seen')
  BY <1>1, <1>2, <1>3 DEF Lists
<1>5. Afoot(m, send, chunk) /\ AsRead(m, send)
  BY <1>2, <1>3 DEF Afoot, AsRead
<1>6. Work(m, send', chunk', st', seen', paused') /\ MidPage(m, send'.cursor)
  BY <1>1, <1>3, <1>4, <1>5 DEF Work, MidPage, Delivery, Listing, Saves
<1>7. SendKept' /\ AdminKept'
  BY <1>1, <1>2 DEF SendKept, AdminKept
<1> QED
  BY <1>1, <1>6, <1>7, KeptStep

\* A chunk is written behind all there are, and disturbs none of them.
LEMMA WriteChunkKept ==
  ASSUME IndTypeOK, LeaseHeld, Kept, NEW w \in Workers, WriteChunk(w)
  PROVE  Kept'
<1> DEFINE me == worker[w]
           c == me.s.chunks
<1>1. PICK S \in SUBSET me.fresh :
        /\ me.pc = "chunk" /\ c \in Slots
        /\ chunk' = [chunk EXCEPT ![c] = S]
        /\ Goes(w, [me EXCEPT !.s.chunks = @ + 1, !.fresh = @ \ S])
        /\ UNCHANGED <<send, st, seen, admin, paused>>
  BY DEF WriteChunk
<1>2. /\ Afoot(me, send, chunk) /\ AsRead(me, send) /\ Lists(me, chunk, seen)
      /\ SendKept /\ AdminKept /\ me \in WorkerRecs /\ me.s \in Sends /\ send \in Sends
  BY <1>1 DEF Kept, Work, Listing, IndTypeOK, TypeOK, WorkerRecs
<1> DEFINE s == [me.s EXCEPT !.chunks = @ + 1]
           m == [me EXCEPT !.s = s, !.fresh = @ \ S]
<1>3. /\ s.chunks = c + 1 /\ s.nextChunk = me.s.nextChunk /\ s.cursor = me.s.cursor
      /\ s.listed = me.s.listed /\ s.status = me.s.status
      /\ {c, me.s.nextChunk, send.chunks, send.nextChunk} \subseteq Nat
  BY <1>2 DEF Sends
<1>4. m.pc = "chunk" /\ m.fresh = me.fresh \ S /\ m.s = s /\ m.todo = me.todo /\ m.go = me.go
  BY <1>1, <1>2 DEF WorkerRecs
<1>5. Goes(w, m)
  BY <1>1, <1>2 DEF WorkerRecs
<1> HIDE DEF m, s
<1>6. chunk'[c] = S /\ \A n \in Slots \ {c} : chunk'[n] = chunk[n]
  BY <1>1 DEF IndTypeOK, TypeOK
<1>7. /\ \A p : InChunks(p, c, chunk) => InChunks(p, c, chunk') /\ InChunks(p, s.chunks, chunk')
      /\ \A p \in S : InChunks(p, s.chunks, chunk')
      /\ \A p : InChunks(p, send.chunks, chunk) => InChunks(p, send.chunks, chunk')
  <2>1. \A n \in Slots : n \in Int
    BY DEF Slots
  <2>2. send.chunks <= c
    BY <1>2 DEF AsRead
  <2> QED
    BY <1>1, <1>3, <1>6, <2>1, <2>2 DEF InChunks
<1>8. Filed(s, chunk')
  <2>1. s.nextChunk <= s.chunks
    BY <1>2, <1>3 DEF Afoot, Filed
  <2> QED
    BY <1>2, <1>3, <1>7, <2>1 DEF Afoot, Filed
<1>9. Afoot(m, send, chunk')
  BY <1>2, <1>3, <1>4, <1>8 DEF Afoot, DoneRight, AsRead
<1>10. AsRead(m, send)
  BY <1>2, <1>3, <1>4 DEF AsRead
<1>11. Lists(m, chunk', seen)
  BY <1>1, <1>2, <1>3, <1>4, <1>7 DEF Lists
<1>12. Work(m, send', chunk', st', seen', paused') /\ MidPage(m, send'.cursor)
  BY <1>1, <1>4, <1>9, <1>10, <1>11 DEF Work, MidPage, Delivery, Listing, Saves
<1>13. SendKept'
  <2>1. Filed(send, chunk')
    BY <1>2, <1>7 DEF SendKept, Filed
  <2>2. Covered(send, chunk, st) => Covered(send, chunk', st)
    <3>1. send.nextChunk <= c
      BY <1>2, <1>3 DEF AsRead, SendKept, Filed
    <3>2. \A n \in Slots : n < send.nextChunk => chunk'[n] = chunk[n]
      BY <1>3, <1>6, <3>1 DEF Slots
    <3> QED
      BY <3>2 DEF Covered
  <2> QED
    BY <1>1, <1>2, <2>1, <2>2 DEF SendKept
<1>14. AdminKept'
  BY <1>1, <1>2 DEF AdminKept
<1> QED
  BY <1>1, <1>5, <1>12, <1>13, <1>14, KeptStep

LEMMA LoadKept ==
  ASSUME IndTypeOK, LeaseHeld, Kept, NEW w \in Workers, Load(w)
  PROVE  Kept'
<1> DEFINE me == worker[w]
           n == me.s.nextChunk
           mine == [x \in Pairs |-> st[<<n, x>>]]
           m == [me EXCEPT !.list = chunk[n], !.mine = mine, !.pc = "gate"]
<1>1. /\ me \in WorkerRecs /\ me.pc = "load" /\ Goes(w, m)
      /\ UNCHANGED <<send, chunk, st, seen, admin, paused>>
  BY DEF Load, IndTypeOK, TypeOK, WorkerRecs
<1>2. /\ Afoot(me, send, chunk) /\ AsRead(me, send) /\ Blank(me)
      /\ Delivers(me, send, chunk, Unstopped(send.status, paused))
  BY <1>1 DEF Kept, Work, Delivery
<1> HIDE DEF mine
<1>3. m.pc = "gate" /\ m.s = me.s /\ m.ch = 0 /\ m.list = chunk[n]
  BY <1>1, <1>2 DEF WorkerRecs, Blank
<1> HIDE DEF m
<1>4. Settled(m)
  <2>1. DOMAIN On = 1 .. Len(On)
    BY SendAssumption
  <2> QED
    BY <1>3, <2>1 DEF Settled
<1>5. Afoot(m, send, chunk) /\ AsRead(m, send) /\ Delivers(m, send, chunk, Unstopped(send.status, paused))
  BY <1>2, <1>3, <1>4 DEF Afoot, AsRead, Delivers
<1>6. Work(m, send, chunk, st, seen, paused) /\ ~MidPage(me, send.cursor)
  BY <1>1, <1>3, <1>5 DEF Work, MidPage, Delivery, Listing, Saves
<1> QED
  BY <1>1, <1>6, KeptMove

\* The worker stays with its chunk, and has settled no less of it.
LEMMA StaysWithChunk ==
  ASSUME IndTypeOK, LeaseHeld, Kept, NEW w \in Workers, worker[w].pc = "gate",
         UNCHANGED <<send, chunk, st, seen, admin, paused>>, NEW m, Goes(w, m), m.pc \in {"gate", "hset"},
         m.list = worker[w].list, m.s.status = worker[w].s.status, m.s.cut = worker[w].s.cut,
         m.s.chunks = worker[w].s.chunks, m.s.nextChunk = worker[w].s.nextChunk,
         m.s.cursor = worker[w].s.cursor, m.s.listed = worker[w].s.listed,
         m.pc = "hset" => m.ch >= Len(On) /\ m.todo = {} /\ m.go = {},
         Unstopped(send.status, paused) /\ Settled(worker[w]) => Settled(m)
  PROVE  Kept'
<1> DEFINE me == worker[w]
<1>1. /\ Afoot(me, send, chunk) /\ AsRead(me, send)
      /\ Delivers(me, send, chunk, Unstopped(send.status, paused))
  BY DEF Kept, Work, Delivery
<1>2. Afoot(m, send, chunk)
  BY <1>1 DEF Afoot, DoneRight, Filed
<1>3. AsRead(m, send)
  BY <1>1 DEF AsRead
<1>4. Delivers(m, send, chunk, Unstopped(send.status, paused))
  BY <1>1 DEF Delivers
<1>5. Work(m, send, chunk, st, seen, paused) /\ ~MidPage(me, send.cursor)
  BY <1>2, <1>3, <1>4 DEF Work, MidPage, Delivery, Listing, Saves
<1> QED
  BY <1>5, KeptMove

\* A channel is passed over only once the send has been stopped.
LEMMA NextChannelKept ==
  ASSUME IndTypeOK, LeaseHeld, Kept, NEW w \in Workers, NextChannel(w)
  PROVE  Kept'
<1> DEFINE me == worker[w]
           next == me.ch + 1
           m1 == [me EXCEPT !.pc = "hset"]
           m2 == [me EXCEPT !.ch = next, !.todo = me.list]
           m3 == [me EXCEPT !.ch = next]
<1>1. /\ me \in WorkerRecs /\ me.pc = "gate" /\ me.todo = {} /\ me.go = {} /\ me.ch \in Nat
      /\ UNCHANGED <<send, chunk, st, seen, admin, paused>>
      /\ \/ Goes(w, m1) /\ next > Len(On)
         \/ Goes(w, m2)
         \/ Goes(w, m3) /\ ~Running(send.status)
  BY DEF NextChannel, IndTypeOK, TypeOK, WorkerRecs
<1>2. Len(On) \in Nat /\ DOMAIN On = 1 .. Len(On)
  BY SendAssumption
<1>3. /\ m1.pc = "hset" /\ m1.ch = me.ch /\ m1.todo = {} /\ m1.go = {} /\ m1.mine = me.mine
      /\ m2.pc = "gate" /\ m2.ch = me.ch + 1 /\ m2.todo = me.list /\ m2.go = {} /\ m2.mine = me.mine
      /\ m3.pc = "gate"
      /\ \A m \in {m1, m2, m3} : m.list = me.list /\ m.s = me.s
  BY <1>1 DEF WorkerRecs
<1> HIDE DEF m1, m2, m3
<1>4. CASE Goes(w, m1) /\ next > Len(On)
  <2>1. m1.ch >= Len(On) /\ (Settled(me) => Settled(m1))
    BY <1>1, <1>2, <1>3, <1>4 DEF Settled
  <2> QED
    BY <1>1, <1>3, <1>4, <2>1, StaysWithChunk
<1>5. CASE Goes(w, m2)
  <2>1. Settled(me) => Settled(m2)
    BY <1>1, <1>2, <1>3 DEF Settled
  <2> QED
    BY <1>1, <1>3, <1>5, <2>1, StaysWithChunk
<1>6. CASE Goes(w, m3) /\ ~Running(send.status)
  <2>1. send.status \in InProgress /\ (send.status = "paused" => paused)
    BY <1>1 DEF Kept, Work, Afoot, Delivery, SendKept
  <2>2. ~Unstopped(send.status, paused)
    BY <1>6, <2>1 DEF InProgress, Running, Unstopped
  <2> QED
    BY <1>1, <1>3, <1>6, <2>2, StaysWithChunk
<1> QED
  BY <1>1, <1>4, <1>5, <1>6

\* Whoever is no longer to do has an answer.
LEMMA GateKept ==
  ASSUME IndTypeOK, LeaseHeld, Kept, NEW w \in Workers, Gate(w) \/ Deliver(w)
  PROVE  Kept'
<1> DEFINE me == worker[w]
           c == Channel(me)
<1>1. /\ me \in WorkerRecs /\ me.s \in Sends /\ me.pc = "gate" /\ me.ch \in DOMAIN On
      /\ me.todo \subseteq People /\ me.go \subseteq People
      /\ UNCHANGED <<send, chunk, st, seen, admin, paused>>
  BY DEF IndTypeOK, TypeOK, WorkerRecs, Placed, Gate, Deliver
<1>2. /\ \A i \in DOMAIN On : On[i] \in Channels
      /\ me.list \subseteq People /\ c = On[me.ch] /\ c \in Channels
  BY <1>1 DEF Channels, Channel, WorkerRecs
<1> DEFINE Now(todo, go) == [me EXCEPT !.todo = todo, !.go = go]
<1>3. ASSUME NEW todo \in SUBSET People, NEW go \in SUBSET People
      PROVE  LET m == Now(todo, go)
             IN /\ m \in WorkerRecs /\ m.pc = "gate" /\ m.ch = me.ch /\ m.s = me.s /\ m.list = me.list
                /\ m.mine = me.mine /\ m.todo = todo /\ m.go = go /\ Channel(m) = c
  BY <1>1 DEF WorkerRecs, Channel
<1> HIDE DEF Now
\* What a gate lets past without a new status: with one, or in hand.
<1>4. ASSUME NEW todo \in SUBSET People, NEW go \in SUBSET People, Goes(w, Now(todo, go)),
             \A p \in (me.todo \cup me.go) \ (todo \cup go) : me.mine[<<p, c>>] # "none"
      PROVE  Kept'
  <2> DEFINE m == Now(todo, go)
  <2>1. /\ m.pc = "gate" /\ m.ch = me.ch /\ m.s = me.s /\ m.list = me.list
        /\ m.mine = me.mine /\ m.todo = todo /\ m.go = go
    BY <1>3
  <2> HIDE DEF m
  <2>2. Settled(me) => Settled(m)
    BY <1>2, <1>4, <2>1 DEF Settled
  <2> QED
    BY <1>1, <1>4, <2>1, <2>2, StaysWithChunk DEF m
\* What it gives a status.
<1>5. ASSUME NEW todo \in SUBSET People, NEW go \in SUBSET People, NEW S \in SUBSET People,
             NEW state \in States, state # "none",
             Goes(w, Sets(Now(todo, go), S, state)),
             (me.todo \cup me.go) \ (todo \cup go) \subseteq S
      PROVE  Kept'
  <2> DEFINE m == Now(todo, go)
             r == Sets(m, S, state)
  <2>1. /\ m \in WorkerRecs /\ m.pc = "gate" /\ m.ch = me.ch /\ m.s = me.s /\ m.list = me.list
        /\ m.mine = me.mine /\ m.todo = todo /\ m.go = go /\ Channel(m) = c
    BY <1>3
  <2> HIDE DEF m
  <2>2. /\ r.pc = "gate" /\ r.ch = me.ch /\ r.list = me.list /\ r.todo = todo /\ r.go = go
        /\ r.mine = Marked(me.mine, S, c, state)
        /\ r.s.nextChunk = me.s.nextChunk /\ r.s.status = me.s.status /\ r.s.cut = me.s.cut
        /\ r.s.chunks = me.s.chunks /\ r.s.cursor = me.s.cursor /\ r.s.listed = me.s.listed
    <3>2. m.ch \in DOMAIN On
      BY <1>1, <2>1
    <3>3. /\ r.pc = m.pc /\ r.ch = m.ch /\ r.list = m.list /\ r.todo = m.todo /\ r.go = m.go
          /\ r.mine = Marked(m.mine, S, Channel(m), state)
          /\ r.s.nextChunk = m.s.nextChunk /\ r.s.status = m.s.status /\ r.s.cut = m.s.cut
          /\ r.s.chunks = m.s.chunks /\ r.s.cursor = m.s.cursor /\ r.s.listed = m.s.listed
      BY <2>1, <3>2, SetsEffect
    <3> HIDE DEF r
    <3> QED
      BY <2>1, <3>3
  <2> HIDE DEF r
  <2>3. ASSUME NEW p \in People, NEW ch \in Channels
        PROVE  /\ p \in S /\ ch = c => r.mine[<<p, ch>>] # "none"
               /\ me.mine[<<p, ch>>] # "none" => r.mine[<<p, ch>>] # "none"
    <3>1. <<p, ch>> \in Pairs /\ state # "none"
      BY <1>5 DEF Pairs
    <3> QED
      BY <2>2, <3>1 DEF Marked
  <2>4. Settled(me) => Settled(r)
    <3> SUFFICES ASSUME Settled(me), NEW i \in DOMAIN On, NEW p \in me.list,
                        i < me.ch \/ (i = me.ch /\ p \notin todo \cup go)
                 PROVE  r.mine[<<p, On[i]>>] # "none"
      BY <2>2 DEF Settled
    <3>1. CASE i = me.ch /\ p \in me.todo \cup me.go
      <4>0. p \notin todo \cup go
        BY <1>1, <3>1, SendAssumption
      <4>1. p \in S /\ p \in People /\ On[i] = c
        BY <1>2, <1>5, <3>1, <4>0
      <4> QED
        BY <1>2, <2>3, <4>1
    <3>2. CASE ~(i = me.ch /\ p \in me.todo \cup me.go)
      <4>1. me.mine[<<p, On[i]>>] # "none"
        BY <3>2 DEF Settled
      <4> QED
        BY <1>2, <2>3, <4>1
    <3> QED
      BY <3>1, <3>2
  <2> QED
    BY <1>1, <1>5, <2>2, <2>4, StaysWithChunk DEF r, m
<1>6. CASE Gate(w)
  <2>1. PICK p \in me.todo : GateDone(w, p) \/ GateSkipped(w, p) \/ GateClaimed(w, p) \/ GateOpen(w, p)
    BY <1>6 DEF Gate
  <2> DEFINE fewer == me.todo \ {p}
             more == me.go \cup {p}
  <2>2. /\ {p} \in SUBSET People /\ fewer \in SUBSET People /\ more \in SUBSET People
        /\ me.go \in SUBSET People /\ {"skipped", "unknown"} \subseteq States
        /\ [me EXCEPT !.todo = @ \ {p}] = Now(fewer, me.go)
        /\ [me EXCEPT !.todo = @ \ {p}, !.go = @ \cup {p}] = Now(fewer, more)
    BY <1>1 DEF States, WorkerRecs, Now
  <2>3. CASE GateDone(w, p)
    <3>1. Goes(w, Now(fewer, me.go)) /\ me.mine[<<p, c>>] # "none"
      BY <2>2, <2>3 DEF GateDone
    <3>2. (me.todo \cup me.go) \ (fewer \cup me.go) \subseteq {p}
      OBVIOUS
    <3> HIDE DEF fewer
    <3> QED
      BY <1>4, <2>2, <3>1, <3>2
  <2>4. CASE GateOpen(w, p)
    <3>1. Goes(w, Now(fewer, more))
      BY <2>2, <2>4 DEF GateOpen
    <3>2. (me.todo \cup me.go) \ (fewer \cup more) = {}
      OBVIOUS
    <3> HIDE DEF fewer, more
    <3> QED
      BY <1>4, <2>2, <3>1, <3>2
  <2>5. CASE GateSkipped(w, p) \/ GateClaimed(w, p)
    <3>1. PICK state \in {"skipped", "unknown"} : Goes(w, Sets(Now(fewer, me.go), {p}, state))
      BY <2>2, <2>5 DEF GateSkipped, GateClaimed, FoundClaimed
    <3>2. (me.todo \cup me.go) \ (fewer \cup me.go) \subseteq {p}
      OBVIOUS
    <3> HIDE DEF fewer
    <3> QED
      BY <1>5, <2>2, <3>1, <3>2
  <2> QED
    BY <2>1, <2>3, <2>4, <2>5
<1>7. CASE Deliver(w)
  <2>1. PICK S \in Batches(me) : \E state \in {"sent", "failed", "skipped"} :
          Goes(w, Sets([me EXCEPT !.go = @ \ S], S, state))
    BY <1>7 DEF Deliver, NotSent
  <2>2. PICK state \in {"sent", "failed", "skipped"} : Goes(w, Sets([me EXCEPT !.go = @ \ S], S, state))
    BY <2>1
  <2> DEFINE left == me.go \ S
  <2>3. S \in SUBSET People
    BY <1>1 DEF Batches
  <2>4. /\ left \in SUBSET People /\ me.todo \in SUBSET People /\ state \in States
        /\ [me EXCEPT !.go = @ \ S] = Now(me.todo, left)
        /\ (me.todo \cup me.go) \ (me.todo \cup left) \subseteq S
    BY <1>1 DEF States, WorkerRecs, Now
  <2>5. Goes(w, Sets(Now(me.todo, left), S, state))
    BY <2>2, <2>4
  <2> HIDE DEF left
  <2> QED
    BY <1>5, <2>3, <2>4, <2>5
<1> QED
  BY <1>6, <1>7

\* The chunk's statuses are written: it has an answer for everyone, and the
\* ones before it lose none.
LEMMA HsetKept ==
  ASSUME IndTypeOK, LeaseHeld, Kept, NEW w \in Workers, Knows(w), Hset(w)
  PROVE  Kept'
<1> DEFINE me == worker[w]
           n == me.s.nextChunk
           s == [me.s EXCEPT !.nextChunk = @ + 1]
           m == SaveThen(me, s, "read")
           stopped == ~Unstopped(send.status, paused)
<1>1. /\ me \in WorkerRecs /\ me.s \in Sends /\ send \in Sends /\ me.pc = "hset" /\ n \in Slots /\ Goes(w, m)
      /\ st' = [k \in Keys |-> IF k[1] = n /\ k[2][1] \in me.changed THEN me.mine[k[2]] ELSE st[k]]
      /\ UNCHANGED <<send, chunk, seen, admin, paused>>
  BY DEF Hset, Changed, IndTypeOK, TypeOK, WorkerRecs
<1>2. /\ Afoot(me, send, chunk) /\ AsRead(me, send)
      /\ Delivers(me, send, chunk, Unstopped(send.status, paused)) /\ SendKept /\ AdminKept
  BY <1>1 DEF Kept, Work, Delivery
<1>3. /\ s.nextChunk = n + 1 /\ s.chunks = me.s.chunks /\ s.cursor = me.s.cursor
      /\ s.listed = me.s.listed /\ s.status = me.s.status /\ s.cut = me.s.cut
      /\ {n, me.s.chunks, send.chunks, send.nextChunk} \subseteq Nat
  BY <1>1 DEF Sends
<1> HIDE DEF s
<1>4. m.pc = "save" /\ m.s = s
  BY <1>1 DEF SaveThen, WorkerRecs
<1> HIDE DEF m
<1>5. send.nextChunk = n /\ n < send.chunks /\ me.s.chunks = send.chunks /\ me.list = chunk[n]
      /\ me.s.cursor = send.cursor /\ me.s.status = "sending"
  BY <1>1, <1>2 DEF AsRead, Delivers
\* Everyone of the chunk, on every channel.
<1>6. ASSUME ~stopped, NEW p \in chunk[n], NEW ch \in Channels PROVE st'[<<n, <<p, ch>>>>] # "none"
  <2>1. PICK i \in DOMAIN On : ch = On[i]
    BY DEF Channels
  <2>2. me.ch \in Nat /\ i \in Nat /\ i <= Len(On) /\ Len(On) \in Nat
    BY <1>1, SendAssumption DEF WorkerRecs
  <2>3. me.ch >= Len(On) /\ me.todo = {} /\ me.go = {} /\ Settled(me) /\ p \in me.list
    BY <1>1, <1>2, <1>5, <1>6 DEF Delivers
  <2>4. i < me.ch \/ i = me.ch
    BY <2>2, <2>3
  <2>5. me.mine[<<p, ch>>] # "none"
    BY <2>1, <2>3, <2>4 DEF Settled
  <2>6. <<p, ch>> \in Pairs /\ <<n, <<p, ch>>>> \in Keys
    BY <1>1 DEF Pairs, Keys, IndTypeOK, TypeOK
  <2>7. p \notin me.changed => st[<<n, <<p, ch>>>>] # "none"
    BY <1>1, <2>5, <2>6 DEF Knows
  <2> QED
    BY <1>1, <2>5, <2>6, <2>7
<1>7. ASSUME ~stopped, NEW x \in Slots, x < n, NEW p \in chunk[x], NEW ch \in Channels
      PROVE  st'[<<x, <<p, ch>>>>] # "none"
  <2>1. Covered(send, chunk, st)
    BY <1>2, <1>7 DEF SendKept
  <2>2. <<x, <<p, ch>>>> \in Keys /\ x # n
    BY <1>3, <1>7 DEF Keys, Pairs, Slots, IndTypeOK, TypeOK
  <2>3. st[<<x, <<p, ch>>>>] # "none"
    BY <1>5, <1>7, <2>1 DEF Covered
  <2> QED
    BY <1>1, <2>2, <2>3
<1>8. ~stopped => Covered(s, chunk, st') /\ Covered(send, chunk, st')
  <2>1. ASSUME NEW x \in Slots, x < s.nextChunk PROVE x < n \/ x = n
    BY <1>3, <2>1 DEF Slots
  <2>2. ~stopped => Covered(s, chunk, st')
    BY <1>6, <1>7, <2>1 DEF Covered
  <2>3. ~stopped => Covered(send, chunk, st')
    BY <1>5, <1>7 DEF Covered
  <2> QED
    BY <2>2, <2>3
<1>9. s.nextChunk <= s.chunks
  BY <1>3, <1>5
<1>10. Filed(s, chunk)
  BY <1>2, <1>3, <1>9 DEF Afoot, Filed
<1>11. Afoot(m, send, chunk)
  BY <1>2, <1>3, <1>4, <1>5, <1>10 DEF Afoot, DoneRight
<1>12. ~MidPage(me, send.cursor) /\ ~MidPage(m, send.cursor)
  BY <1>1, <1>3, <1>4, <1>5 DEF MidPage, Listing, Saves
<1>13. \A p \in seen : InChunks(p, send.chunks, chunk)
  BY <1>1, <1>12, SeenAreFiled
<1>14. Saved(m, send, chunk, st', seen, Unstopped(send.status, paused))
  BY <1>3, <1>4, <1>5, <1>8, <1>13 DEF Saved
<1>15. Work(m, send', chunk', st', seen', paused')
  BY <1>1, <1>4, <1>11, <1>14 DEF Work, Delivery, Listing, Saves
<1>16. SendKept' /\ AdminKept'
  BY <1>1, <1>2, <1>8 DEF SendKept, AdminKept
<1> QED
  BY <1>1, <1>13, <1>15, <1>16, KeptStep

LEMMA NextKept ==
  ~Overlap /\ ~ListingDies /\ IndTypeOK /\ Turns /\ Sound /\ Kept /\ [Next]_vars => Kept'
<1> SUFFICES ASSUME ~Overlap, ~ListingDies, IndTypeOK, Turns, Sound, Kept, [Next]_vars PROVE Kept' OBVIOUS
<1>1. LeaseHeld
  BY DEF Sound
<1>2. CASE EndsAt \/ LeaseExpires \/ UNCHANGED vars
  <2>1. UNCHANGED <<send, chunk, st, seen, admin, paused, worker>>
    BY <1>2 DEF EndsAt, LeaseExpires, vars
  <2> QED
    BY <2>1 DEF Kept, SendKept, AdminKept, SeenFiled
<1>3. ASSUME NEW w \in Workers, StartFromTick(w) \/ StartFromPage(w) \/ Dies(w) PROVE Kept'
  BY <1>1, <1>3, ComingKept DEF StartFromTick, StartFromPage
<1>4. ASSUME NEW w \in Workers, WorkerSteps(w) PROVE Kept'
  <2>1. Hset(w) => Knows(w)
    BY DEF Hset, Sound, AtWork
  <2> QED
    BY <1>1, <1>4, <2>1, ReadingKept, SaveKept, ComingKept, ListingKept, SaddKept, WriteChunkKept, LoadKept,
       NextChannelKept, GateKept, HsetKept DEF WorkerSteps
<1> QED
  BY <1>2, <1>3, <1>4, ControlKept DEF Next

\* A send that ran to its end, neither paused nor cut short, has an answer
\* for everyone listed, on every channel: where workers keep to their lease,
\* no control comes between a save's two calls, and no worker is stopped in
\* the middle of a page (whom it had asked for and not yet written into a
\* chunk would be taken for seen by the next).
THEOREM ForgetsNobody == ~SlowWorkers /\ ~Overlap /\ ~ListingDies => (Spec => []NobodyForgotten)
<1> SUFFICES ASSUME ~SlowWorkers, ~Overlap, ~ListingDies PROVE Spec => []NobodyForgotten
  OBVIOUS
<1>1. Init => Turns /\ Kept
  BY TurnsInit, InitKept
<1>2. IndTypeOK /\ Sound /\ (Turns /\ Kept) /\ [Next]_vars => (Turns /\ Kept)'
  BY TurnsNext, NextKept
<1>3. IndTypeOK /\ Kept => NobodyForgotten
  <2> SUFFICES ASSUME IndTypeOK, Kept, send.status = "done", ~send.cut, ~paused,
                      NEW p \in Audience, NEW ch \in Channels
               PROVE  \E n \in Slots : st[<<n, <<p, ch>>>>] # "none"
    BY DEF NobodyForgotten
  <2>1. /\ send.cursor = Len(Pages) /\ send.nextChunk >= send.chunks /\ Filed(send, chunk)
        /\ Covered(send, chunk, st) /\ send \in Sends
    BY DEF Kept, SendKept, DoneRight, Filed, Unstopped, IndTypeOK, TypeOK
  <2>2. PICK i \in DOMAIN Pages : p \in Pages[i]
    BY DEF Audience
  <2>3. i <= send.cursor
    BY <2>1, SendAssumption
  <2>4. PICK n \in Slots : n < send.chunks /\ p \in chunk[n]
    BY <2>1, <2>2, <2>3 DEF Filed, InChunks
  <2>5. n < send.nextChunk
    BY <2>1, <2>4 DEF Slots, Sends
  <2> QED
    BY <2>1, <2>4, <2>5 DEF Covered
<1>4. Spec => []Sound
  BY AlwaysSound
<1> QED
  BY <1>1, <1>2, <1>3, <1>4, AlwaysTyped, PTL DEF Spec
=============================================================================
