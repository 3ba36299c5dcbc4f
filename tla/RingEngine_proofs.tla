-------------------------- MODULE RingEngine_proofs --------------------------
(***************************************************************************)
(* The calling of a group meeting, for any people, rounds and number of    *)
(* attempts.  The types; that the calling goes on by itself, however       *)
(* rounds and answers interleave; that nobody is rung again once they have *)
(* answered, declined or come, unless a round was just about to call them; *)
(* and, where rounds and answers take turns, that nobody is rung or        *)
(* messaged more often than the group allows.                              *)
(***************************************************************************)
EXTENDS RingEngine, TLAPS

RoundRecs == [pc : RoundPcs, late : BOOLEAN, only : SUBSET People, todo : SUBSET People,
              read : [People -> Calls], who : SUBSET People, new : Calls]
ResponseRecs == [pc : {"idle", "write"}, new : Calls]

LEMMA FixedTypes ==
  /\ NoCall \in Calls /\ IdleRound \in RoundRecs /\ IdleResponse \in ResponseRecs
  /\ \A S \in SUBSET People : NewRound(S) \in RoundRecs
<1>1. NoCall \in Calls
  BY RingAssumption DEF NoCall, Calls, Statuses
<1> QED
  BY <1>1 DEF IdleRound, NewRound, RoundRecs, RoundPcs, IdleResponse, ResponseRecs

LEMMA InitType == Init => TypeOK
<1> SUFFICES ASSUME Init PROVE TypeOK OBVIOUS
<1>1. calls \in [People -> Calls] /\ response \in [People -> ResponseRecs]
  BY FixedTypes DEF Init
<1>2. round \in [Rounds -> RoundRecs]
  BY FixedTypes DEF Init
<1> QED
  BY <1>1, <1>2, RingAssumption DEF Init, TypeOK, RoundRecs, ResponseRecs

LEMMA StatusSet ==
  ASSUME NEW c \in Calls, NEW status \in Statuses
  PROVE  LET d == [c EXCEPT !.status = status]
         IN d \in Calls /\ d.status = status /\ d.attempts = c.attempts /\ d.kc = c.kc
BY DEF Calls

\* An answer or a join notes a status that settles the call, and nothing else.
Answer(p) ==
  /\ response'[p].pc = "write" /\ response'[p].new \in Calls /\ Settled(response'[p].new)
  /\ response'[p].new.attempts = calls[p].attempts /\ response'[p].new.kc = calls[p].kc

LEMMA ResponseStep ==
  ASSUME TypeOK, NEW p \in People, BeginAnswer(p) \/ BeginDecline(p) \/ BeginJoin(p)
  PROVE  /\ response' \in [People -> ResponseRecs] /\ where' \in [People -> {"here", "elsewhere", "away"}]
         /\ responses' \in Nat
         /\ UNCHANGED <<state, invited, calls, job, round, again, failures, rings, messages, settled, stands>>
         /\ response' = response \/ (Answer(p) /\ \A q \in People \ {p} : response'[q] = response[q])
         /\ p \in invited /\ (Overlap \/ RoundsIdle)
<1>1. calls[p] \in Calls /\ responses \in Nat /\ response \in [People -> ResponseRecs]
      /\ where \in [People -> {"here", "elsewhere", "away"}]
  BY DEF TypeOK, ResponseRecs
<1>2. p \in invited /\ (Overlap \/ RoundsIdle) /\ responses' \in Nat
  BY <1>1 DEF BeginAnswer, BeginDecline, BeginJoin, MayRespond
<1>3. ASSUME NEW status \in {"answered", "joined", "declined"}, Writes(p, [calls[p] EXCEPT !.status = status]),
             where' \in [People -> {"here", "elsewhere", "away"}]
      PROVE  /\ response' \in [People -> ResponseRecs]
             /\ UNCHANGED <<state, invited, calls, job, round, again, failures, rings, messages, settled, stands>>
             /\ Answer(p) /\ \A q \in People \ {p} : response'[q] = response[q]
  <2> DEFINE d == [calls[p] EXCEPT !.status = status]
  <2>1. d \in Calls /\ d.status = status /\ d.attempts = calls[p].attempts /\ d.kc = calls[p].kc
    <3>1. status \in Statuses
      BY DEF Statuses
    <3> HIDE DEF d
    <3> QED
      BY <1>1, <3>1, StatusSet DEF d
  <2> HIDE DEF d
  <2>2. response' = [response EXCEPT ![p] = [pc |-> "write", new |-> d]]
    BY <1>3 DEF Writes, d
  <2>3. response'[p] = [pc |-> "write", new |-> d] /\ [pc |-> "write", new |-> d] \in ResponseRecs
    BY <1>1, <2>1, <2>2 DEF ResponseRecs
  <2>4. Answer(p)
    BY <1>3, <2>1, <2>3 DEF Answer, Settled
  <2> QED
    BY <1>1, <1>3, <2>2, <2>3, <2>4 DEF Writes
<1>4. CASE BeginAnswer(p)
  <2>1. Writes(p, [calls[p] EXCEPT !.status = IF calls[p].status = "joined" THEN "joined" ELSE "answered"])
        /\ where' = where
    BY <1>1, <1>4 DEF BeginAnswer, Calls
  <2> QED
    BY <1>1, <1>2, <1>3, <2>1
<1>5. CASE BeginDecline(p)
  BY <1>1, <1>2, <1>3, <1>5 DEF BeginDecline, Declined
<1>6. CASE BeginJoin(p)
  <2>1. where' \in [People -> {"here", "elsewhere", "away"}]
    BY <1>1, <1>6 DEF BeginJoin
  <2>2. CASE calls[p].status = "none"
    BY <1>1, <1>2, <1>6, <2>1, <2>2 DEF BeginJoin
  <2>3. CASE calls[p].status # "none"
    BY <1>2, <1>3, <1>6, <2>1, <2>3 DEF BeginJoin
  <2> QED
    BY <2>2, <2>3
<1> QED
  BY <1>4, <1>5, <1>6

\* A step that gives one round a new record.
LEMMA TurnsType ==
  ASSUME TypeOK, NEW r \in Rounds, NEW next \in RoundRecs, Turns(r, next)
  PROVE  /\ round' \in [Rounds -> RoundRecs] /\ round'[r] = next
         /\ \A s \in Rounds \ {r} : round'[s] = round[s]
BY DEF TypeOK, RoundRecs, Turns

\* Each of the steps a round takes, as what it makes of the round and, for
\* those that do, of the calls, the rings and the messages.
Others == <<state, invited, where, job, response, again, responses, failures>>

WithSet(me, p, next) == [Without(me, p) EXCEPT !.pc = "set", !.who = {p}, !.new = next]

\* One person less to go through.
OneLess(m, me, p) ==
  /\ m \in RoundRecs /\ m.late = me.late /\ m.todo = me.todo \ {p}
  /\ \A q \in People \ {p} : m.read[q] = me.read[q]

LEMMA PersonStep ==
  ASSUME TypeOK, NEW r \in Rounds, NEW p \in People, NEW next \in Calls
  PROVE  /\ OneLess(Without(round[r], p), round[r], p)
         /\ Without(round[r], p).pc = round[r].pc /\ Without(round[r], p).who = round[r].who
         /\ OneLess(WithSet(round[r], p, next), round[r], p)
         /\ WithSet(round[r], p, next).pc = "set" /\ WithSet(round[r], p, next).who = {p}
         /\ WithSet(round[r], p, next).new = next
<1> DEFINE me == round[r]
           read == [me.read EXCEPT ![p] = NoCall]
           W == [me EXCEPT !.todo = @ \ {p}, !.read = read]
<1>1. me \in RoundRecs /\ NoCall \in Calls /\ {p} \in SUBSET People
  BY FixedTypes DEF TypeOK, RoundRecs
<1>2. read \in [People -> Calls] /\ \A q \in People \ {p} : read[q] = me.read[q]
  BY <1>1 DEF RoundRecs
<1>3. Without(me, p) = W
  BY <1>1 DEF Without, RoundRecs
<1> HIDE DEF me, read
<1>4. W \in RoundRecs /\ W.pc = me.pc /\ W.late = me.late /\ W.todo = me.todo \ {p} /\ W.who = me.who /\ W.read = read
  BY <1>1, <1>2 DEF RoundRecs
<1> HIDE DEF W
<1> DEFINE m == [W EXCEPT !.pc = "set", !.who = {p}, !.new = next]
<1>5. /\ m \in RoundRecs /\ m.pc = "set" /\ m.who = {p} /\ m.new = next
      /\ m.late = W.late /\ m.todo = W.todo /\ m.read = W.read
  BY <1>1, <1>4 DEF RoundRecs, RoundPcs
<1> HIDE DEF m
<1> QED
  BY <1>2, <1>3, <1>4, <1>5 DEF me, m, OneLess, WithSet

\* One person's turn in a round.
Tells(r, p, next) ==
  /\ next \in Calls
  /\ \/ /\ round[r].late /\ ~Settled(next)
        /\ next.attempts = round[r].read[p].attempts /\ next.kc = round[r].read[p].kc
        /\ NoRing
     \/ /\ ~round[r].late /\ ~Settled(round[r].read[p])
        /\ round[r].read[p].attempts <= next.attempts /\ next.kc = round[r].read[p].kc
        /\ NoRing
     \/ /\ ~round[r].late /\ ~Settled(round[r].read[p])
        /\ next.attempts = round[r].read[p].attempts + 1
        /\ rings' = [rings EXCEPT ![p] = @ + 1]
        /\ \/ UNCHANGED messages /\ next.kc = round[r].read[p].kc
           \/ ~round[r].read[p].kc /\ next.kc /\ messages' = [messages EXCEPT ![p] = @ + 1]

Told(r, p, next) == WillSet(r, p, next) /\ Tells(r, p, next)

LEMMA EachStep ==
  ASSUME TypeOK, NEW r \in Rounds, Each(r)
  PROVE  /\ round[r].pc = "each" /\ UNCHANGED <<Others, calls, settled, stands>>
         /\ \E p \in round[r].todo :
              \/ Turns(r, Without(round[r], p)) /\ NoRing
              \/ \E next : Told(r, p, next)
<1>1. PICK p \in round[r].todo :
        IF round[r].late THEN MarkMissed(r, p, round[r].read[p])
        ELSE \/ PassOver(r, p, round[r].read[p]) \/ FindHere(r, p, round[r].read[p])
             \/ FindBusy(r, p, round[r].read[p]) \/ Ring(r, p, round[r].read[p])
  BY DEF Each
<1> DEFINE c == round[r].read[p]
<1>2. c \in Calls /\ round[r].late \in BOOLEAN
  BY DEF TypeOK
<1>3. round[r].pc = "each" /\ UNCHANGED <<Others, calls, settled, stands>>
  BY DEF Each, Others
<1>4. ASSUME NEW status \in Statuses
      PROVE  LET d == [c EXCEPT !.status = status]
             IN d \in Calls /\ d.status = status /\ d.attempts = c.attempts /\ d.kc = c.kc
  BY <1>2, StatusSet
<1>5. CASE round[r].late
  <2> DEFINE d == [c EXCEPT !.status = "missed"]
  <2>1. WillSet(r, p, d) /\ NoRing
    BY <1>1, <1>5 DEF MarkMissed
  <2>2. d \in Calls /\ d.status = "missed" /\ d.attempts = c.attempts /\ d.kc = c.kc
    BY <1>4 DEF Statuses
  <2> HIDE DEF d
  <2>3. Told(r, p, d)
    BY <1>5, <2>1, <2>2 DEF Told, Tells, Settled
  <2> QED
    BY <1>3, <2>3
<1>6. CASE ~round[r].late /\ PassOver(r, p, c)
  BY <1>3, <1>6 DEF PassOver
<1>7. CASE ~round[r].late /\ FindHere(r, p, c)
  <2> DEFINE d == [c EXCEPT !.status = "joined"]
  <2>1. WillSet(r, p, d) /\ NoRing /\ ~Settled(c)
    BY <1>7 DEF FindHere
  <2>2. d \in Calls /\ d.attempts = c.attempts /\ d.kc = c.kc /\ c.attempts \in Int
    BY <1>2, <1>4 DEF Statuses, Calls
  <2> HIDE DEF d
  <2>3. c.attempts <= d.attempts
    BY <2>2
  <2>4. Told(r, p, d)
    BY <1>7, <2>1, <2>2, <2>3 DEF Told, Tells
  <2> QED
    BY <1>3, <2>4
<1>8. CASE ~round[r].late /\ FindBusy(r, p, c)
  <2> DEFINE d == [c EXCEPT !.status = "busy", !.attempts = @ + 1]
  <2>1. WillSet(r, p, d) /\ NoRing /\ ~Settled(c) /\ ~Spent(c)
    BY <1>8 DEF FindBusy
  <2>2. c.attempts + 1 \in 0 .. MaxAttempts
    BY <1>2, <2>1, RingAssumption DEF Spent, Calls
  <2>3. d \in Calls /\ d.attempts = c.attempts + 1 /\ d.kc = c.kc /\ c.attempts \in Int
    <3> DEFINE n == c.attempts + 1
    <3>1. "busy" \in Statuses
      BY DEF Statuses
    <3> HIDE DEF n
    <3>2. LET e == [c EXCEPT !.status = "busy", !.attempts = n]
          IN e \in Calls /\ e.attempts = n /\ e.kc = c.kc
      BY <1>2, <2>2, <3>1 DEF Calls, n
    <3>3. c.attempts \in Int
      BY <1>2 DEF Calls
    <3> QED
      BY <3>2, <3>3 DEF n
  <2> HIDE DEF d
  <2>4. c.attempts <= d.attempts
    BY <2>3
  <2>5. Told(r, p, d)
    BY <1>8, <2>1, <2>3, <2>4 DEF Told, Tells
  <2> QED
    BY <1>3, <2>5
<1>9. CASE ~round[r].late /\ Ring(r, p, c)
  <2>1. PICK sent \in {FALSE, FallbackDue(c, p)} :
          /\ messages' = IF sent THEN [messages EXCEPT ![p] = @ + 1] ELSE messages
          /\ WillSet(r, p, [status |-> "ringing", attempts |-> c.attempts + 1, kc |-> c.kc \/ sent])
    BY <1>9 DEF Ring
  <2> DEFINE d == [status |-> "ringing", attempts |-> c.attempts + 1, kc |-> c.kc \/ sent]
  <2>2. ~Settled(c) /\ ~Spent(c) /\ rings' = [rings EXCEPT ![p] = @ + 1]
    BY <1>9 DEF Ring
  <2>3. c.attempts + 1 \in 0 .. MaxAttempts
    BY <1>2, <2>2, RingAssumption DEF Spent, Calls
  <2>4. c.kc \in BOOLEAN /\ sent \in BOOLEAN
    BY <1>2 DEF Calls, FallbackDue
  <2>5. d \in Calls /\ d.attempts = c.attempts + 1
    BY <2>3, <2>4 DEF Calls, Statuses
  <2>6. (d.kc <=> c.kc \/ sent) /\ d.kc \in BOOLEAN
    BY <2>4
  <2>7. WillSet(r, p, d)
    BY <2>1
  <2> HIDE DEF d
  <2>8. \/ UNCHANGED messages /\ d.kc = c.kc
        \/ ~c.kc /\ d.kc /\ messages' = [messages EXCEPT ![p] = @ + 1]
    <3>1. CASE sent
      <4>1. ~c.kc /\ d.kc
        BY <2>6, <3>1 DEF FallbackDue
      <4> QED
        BY <2>1, <3>1, <4>1
    <3>2. CASE ~sent
      <4>1. d.kc = c.kc
        BY <2>4, <2>6, <3>2
      <4> QED
        BY <2>1, <3>2, <4>1
    <3> QED
      BY <3>1, <3>2
  <2>9. Told(r, p, d)
    BY <1>9, <2>2, <2>5, <2>7, <2>8 DEF Told, Tells
  <2> QED
    BY <1>3, <2>9
<1> QED
  BY <1>1, <1>5, <1>6, <1>7, <1>8, <1>9

\* The same, by the record it leaves the round with.
LEMMA EachTurn ==
  ASSUME TypeOK, NEW r \in Rounds, Each(r)
  PROVE  /\ round[r].pc = "each" /\ UNCHANGED <<Others, calls, settled, stands>>
         /\ \E p \in round[r].todo : \E m \in RoundRecs :
              /\ Turns(r, m) /\ p \in People
              /\ m.late = round[r].late /\ m.todo = round[r].todo \ {p}
              /\ \A q \in People \ {p} : m.read[q] = round[r].read[q]
              /\ \/ m.pc = "each" /\ m.who = round[r].who /\ NoRing
                 \/ m.pc = "set" /\ m.who = {p} /\ Tells(r, p, m.new)
<1>1. round[r].pc = "each" /\ UNCHANGED <<Others, calls, settled, stands>>
  BY EachStep
<1>2. PICK p \in round[r].todo : \/ Turns(r, Without(round[r], p)) /\ NoRing
                               \/ \E next : Told(r, p, next)
  BY EachStep
<1>3. p \in People
  BY DEF TypeOK
<1>4. CASE Turns(r, Without(round[r], p)) /\ NoRing
  <2>1. NoCall \in Calls
    BY FixedTypes
  <2>2. /\ OneLess(Without(round[r], p), round[r], p)
        /\ Without(round[r], p).pc = "each" /\ Without(round[r], p).who = round[r].who
    BY <1>1, <1>3, <2>1, PersonStep
  <2> QED
    BY <1>1, <1>3, <1>4, <2>2 DEF OneLess
<1>5. CASE \E next : Told(r, p, next)
  <2>1. PICK next : Told(r, p, next)
    BY <1>5
  <2>2. next \in Calls /\ Turns(r, WithSet(round[r], p, next)) /\ Tells(r, p, next)
    BY <2>1 DEF Told, WillSet, Tells, WithSet
  <2>3. /\ OneLess(WithSet(round[r], p, next), round[r], p)
        /\ WithSet(round[r], p, next).pc = "set" /\ WithSet(round[r], p, next).who = {p}
        /\ WithSet(round[r], p, next).new = next
    BY <1>3, <2>2, PersonStep
  <2> DEFINE m == WithSet(round[r], p, next)
  <2> HIDE DEF m
  <2>4. Turns(r, m) /\ OneLess(m, round[r], p) /\ m.pc = "set" /\ m.who = {p} /\ Tells(r, p, m.new)
    BY <2>2, <2>3 DEF m
  <2> QED
    BY <1>1, <1>3, <2>4 DEF OneLess
<1> QED
  BY <1>2, <1>4, <1>5

LEMMA EachType ==
  ASSUME TypeOK, NEW r \in Rounds, Each(r)
  PROVE  TypeOK'
<1>1. UNCHANGED <<Others, calls, settled, stands>>
  BY EachTurn
<1>2. PICK p \in round[r].todo, m \in RoundRecs :
        Turns(r, m) /\ (NoRing \/ Tells(r, p, m.new))
  BY EachTurn
<1>3. round' \in [Rounds -> RoundRecs]
  BY <1>2, TurnsType
<1>4. rings' \in [People -> Nat] /\ messages' \in [People -> Nat]
  <2>1. rings \in [People -> Nat] /\ messages \in [People -> Nat]
    BY DEF TypeOK
  <2>2. rings' = rings \/ rings' = [rings EXCEPT ![p] = @ + 1]
    BY <1>2 DEF Tells, NoRing
  <2>3. messages' = messages \/ messages' = [messages EXCEPT ![p] = @ + 1]
    BY <1>2 DEF Tells, NoRing
  <2> QED
    BY <2>1, <2>2, <2>3
<1> QED
  BY <1>1, <1>3, <1>4 DEF TypeOK, RoundRecs, Others

\* The rest of a round's steps, by the record they leave it with.
LEMMA StartStep ==
  ASSUME TypeOK, NEW r \in Rounds, Claim(r, FALSE) \/ Claim(r, TRUE) \/ RingAgain(r)
  PROVE  /\ MayBegin(r)
         /\ \E m \in RoundRecs :
              /\ Turns(r, m) /\ m.pc \in {"begin", "again"} /\ m.who = {}
              /\ m.todo \subseteq invited /\ (m.pc = "begin" => m.todo = {})
              /\ \A p \in m.todo : m.read[p] = calls[p]
              /\ m.pc = "again" => ~m.late
         /\ UNCHANGED <<state, invited, where, calls, response, responses, failures, rings, messages, settled,
                        stands>>
         /\ job' \in {"none", "queued"} /\ again' \in Nat
<1>1. invited \subseteq People /\ calls \in [People -> Calls] /\ again \in Nat /\ job \in {"none", "queued"}
  BY DEF TypeOK
<1>2. /\ IdleRound \in RoundRecs /\ IdleRound.who = {} /\ ~IdleRound.late /\ IdleRound.todo = {}
      /\ NewRound(People) = [IdleRound EXCEPT !.pc = "begin", !.only = People]
  BY FixedTypes DEF IdleRound, NewRound
<1>3. CASE \E late \in BOOLEAN : Claim(r, late)
  <2>1. PICK late \in BOOLEAN : Claim(r, late)
    BY <1>3
  <2> DEFINE m == [[IdleRound EXCEPT !.pc = "begin", !.only = People] EXCEPT !.late = late]
  <2>2. Turns(r, m) /\ MayBegin(r) /\ job' = "none" /\ again' = again
        /\ UNCHANGED <<state, invited, where, calls, response, responses, failures, rings, messages, settled,
                       stands>>
    BY <2>1 DEF Claim, NewRound
  <2>3. m \in RoundRecs /\ m.pc = "begin" /\ m.who = {} /\ m.todo = {}
    BY <1>2 DEF RoundRecs, RoundPcs
  <2> HIDE DEF m
  <2> QED
    BY <1>1, <2>2, <2>3
<1>4. CASE RingAgain(r)
  <2>1. PICK S \in SUBSET invited : /\ MayBegin(r) /\ again' = again + 1
          /\ Turns(r, [NewRound(S) EXCEPT !.pc = "again", !.todo = S, !.read = calls])
          /\ UNCHANGED <<state, invited, where, calls, job, response, responses, failures, rings, messages,
                         settled, stands>>
    BY <1>4 DEF RingAgain
  <2> DEFINE m == [NewRound(S) EXCEPT !.pc = "again", !.todo = S, !.read = calls]
  <2>2. NewRound(S) \in RoundRecs /\ S \in SUBSET People
    BY <1>1, FixedTypes
  <2>3. NewRound(S).who = {} /\ ~NewRound(S).late
    BY <1>2 DEF NewRound, RoundRecs
  <2>4. m \in RoundRecs /\ m.pc = "again" /\ m.who = {} /\ m.todo = S /\ m.read = calls /\ ~m.late
    BY <1>1, <2>2, <2>3 DEF RoundRecs, RoundPcs
  <2> HIDE DEF m
  <2>5. Turns(r, m)
    BY <2>1 DEF m
  <2>6. /\ m.pc \in {"begin", "again"} /\ m.todo \subseteq invited
        /\ (m.pc = "begin" => m.todo = {}) /\ (m.pc = "again" => ~m.late)
        /\ \A p \in m.todo : m.read[p] = calls[p]
    BY <2>4
  <2>7. job' \in {"none", "queued"} /\ again' \in Nat
    BY <1>1, <2>1
  <2> QED
    BY <2>1, <2>4, <2>5, <2>6, <2>7
<1> QED
  BY <1>3, <1>4

\* Starting over, or not: one person less to look at.
LEMMA AgainStep ==
  ASSUME TypeOK, NEW r \in Rounds, StartsOver(r) \/ StaysAsTheyAre(r)
  PROVE  /\ UNCHANGED <<Others, messages>> /\ round[r].pc = "again"
         /\ \E p \in round[r].todo : \E m \in RoundRecs :
              /\ Turns(r, m) /\ m.pc = "again" /\ m.who = round[r].who /\ m.todo = round[r].todo \ {p}
              /\ m.read = round[r].read /\ m.late = round[r].late /\ m.new = round[r].new
              /\ \/ UNCHANGED <<calls, rings, settled, stands>>
                 \/ \E c \in Calls : /\ calls' = [calls EXCEPT ![p] = c] /\ rings' = [rings EXCEPT ![p] = 0]
                                     /\ settled' = settled \ {p} /\ stands' = stands \ {p}
                                     /\ c.kc = round[r].read[p].kc /\ c.attempts = 0
<1>1. round[r] \in RoundRecs /\ round[r].todo \subseteq People
  BY DEF TypeOK, RoundRecs
<1>2. PICK p \in round[r].todo :
        /\ Turns(r, [round[r] EXCEPT !.todo = @ \ {p}])
        /\ \/ UNCHANGED <<calls, rings, settled, stands>>
           \/ /\ calls' = [calls EXCEPT ![p] = StartedOver(round[r].read[p])]
              /\ rings' = [rings EXCEPT ![p] = 0] /\ settled' = settled \ {p} /\ stands' = stands \ {p}
  BY DEF StartsOver, StaysAsTheyAre
<1>3. UNCHANGED <<Others, messages>> /\ round[r].pc = "again"
  BY DEF StartsOver, StaysAsTheyAre, Others
<1> DEFINE m == [round[r] EXCEPT !.todo = @ \ {p}]
           c == round[r].read[p]
           d == StartedOver(c)
<1>4. /\ m \in RoundRecs /\ m.pc = "again" /\ m.who = round[r].who /\ m.todo = round[r].todo \ {p}
      /\ m.read = round[r].read /\ m.late = round[r].late /\ m.new = round[r].new
  BY <1>1, <1>3 DEF RoundRecs
<1>5. c \in Calls
  BY <1>1 DEF RoundRecs
<1> HIDE DEF m, c
<1>6. d \in Calls /\ d.kc = c.kc /\ d.attempts = 0
  <2>1. 0 \in 0 .. MaxAttempts
    BY RingAssumption
  <2>2. "missed" \in Statuses
    BY DEF Statuses
  <2> DEFINE n == 0
  <2> HIDE DEF n
  <2>3. LET e == [c EXCEPT !.status = "missed", !.attempts = n]
        IN e \in Calls /\ e.kc = c.kc /\ e.attempts = n
    BY <1>5, <2>1, <2>2 DEF Calls, n
  <2> QED
    BY <2>3 DEF StartedOver, n
<1> HIDE DEF d
<1> QED
  BY <1>2, <1>3, <1>4, <1>6 DEF m, c, d

LEMMA BeginStep ==
  ASSUME TypeOK, NEW r \in Rounds, Begin(r)
  PROVE  /\ UNCHANGED <<Others, calls, rings, messages, settled, stands>>
         /\ round[r].todo = {} /\ round[r].pc \in {"again", "begin"}
         /\ \/ Turns(r, IdleRound) /\ state = "over"
            \/ \E m \in RoundRecs :
                 /\ Turns(r, m) /\ m.pc = "each" /\ m.who = {} /\ m.todo \subseteq invited
                 /\ \A p \in m.todo : m.read[p] = calls[p]
                 /\ m.late => \A p \in m.todo : calls[p].status = "ringing"
<1> DEFINE targets == {p \in round[r].only \cap invited : round[r].late => calls[p].status = "ringing"}
           read == [p \in People |-> IF p \in targets THEN calls[p] ELSE NoCall]
           late == round[r].late
           m == [IdleRound EXCEPT !.pc = "each", !.late = late, !.todo = targets, !.read = read]
<1>1. /\ UNCHANGED <<Others, calls, rings, messages, settled, stands>>
      /\ round[r].todo = {} /\ round[r].pc \in {"again", "begin"}
      /\ Turns(r, IF state = "over" THEN IdleRound ELSE m)
  BY DEF Begin, Others
<1>2. /\ late \in BOOLEAN /\ targets \subseteq invited /\ invited \subseteq People
      /\ late => \A p \in targets : calls[p].status = "ringing"
  BY DEF TypeOK
<1> HIDE DEF targets
<1>3. read \in [People -> Calls] /\ \A p \in targets : read[p] = calls[p]
  BY <1>2, FixedTypes DEF TypeOK
<1> HIDE DEF read, late
<1>4. m \in RoundRecs /\ m.pc = "each" /\ m.who = {} /\ m.todo = targets /\ m.read = read /\ m.late = late
  <2>1. IdleRound.who = {}
    BY DEF IdleRound
  <2> QED
    BY <1>2, <1>3, <2>1, FixedTypes DEF RoundRecs, RoundPcs
<1> HIDE DEF m
<1>5. \/ Turns(r, IdleRound) /\ state = "over"
      \/ Turns(r, m)
  BY <1>1
<1> QED
  BY <1>1, <1>2, <1>3, <1>4, <1>5

LEMMA SetStep ==
  ASSUME TypeOK, NEW r \in Rounds, SetCall(r)
  PROVE  /\ UNCHANGED <<Others, rings, messages>> /\ round[r].pc = "set"
         /\ calls' = [p \in People |-> IF p \in round[r].who THEN round[r].new ELSE calls[p]]
         /\ settled' = IF Settled(round[r].new) THEN settled \cup round[r].who ELSE settled
         /\ stands' = IF Settled(round[r].new) THEN stands \cup Unheld(round[r].who) ELSE stands
         /\ \E m \in RoundRecs :
              /\ Turns(r, m) /\ m.pc = "each" /\ m.who = {} /\ m.todo = round[r].todo
              /\ m.read = round[r].read /\ m.late = round[r].late
<1> DEFINE m == [round[r] EXCEPT !.pc = "each", !.who = {}, !.new = NoCall]
<1>1. /\ m \in RoundRecs /\ m.pc = "each" /\ m.who = {} /\ m.todo = round[r].todo
      /\ m.read = round[r].read /\ m.late = round[r].late
  BY FixedTypes DEF TypeOK, RoundRecs, RoundPcs
<1>2. Turns(r, m)
  BY DEF SetCall
<1> HIDE DEF m
<1> QED
  BY <1>1, <1>2 DEF SetCall, Others

LEMMA LastStep ==
  ASSUME TypeOK, NEW r \in Rounds, LookForPending(r) \/ QueueNext(r) \/ Fails(r)
  PROVE  /\ UNCHANGED <<state, invited, where, calls, response, again, responses, rings, messages, settled, stands>>
         /\ job' \in {"none", "queued"} /\ failures' \in Nat /\ failures <= failures'
         /\ \E m \in RoundRecs : Turns(r, m) /\ m.pc \in {"idle", "queue"} /\ m.who = {} /\ m.todo = {}
<1>1. /\ IdleRound \in RoundRecs /\ IdleRound.pc = "idle" /\ IdleRound.who = {} /\ IdleRound.todo = {}
      /\ [IdleRound EXCEPT !.pc = "queue"] \in RoundRecs /\ [IdleRound EXCEPT !.pc = "queue"].pc = "queue"
      /\ [IdleRound EXCEPT !.pc = "queue"].who = {} /\ [IdleRound EXCEPT !.pc = "queue"].todo = {}
  BY FixedTypes DEF IdleRound, RoundRecs, RoundPcs
<1>2. Turns(r, IdleRound) \/ Turns(r, [IdleRound EXCEPT !.pc = "queue"])
  BY DEF LookForPending, QueueNext, Fails
<1>3. UNCHANGED <<state, invited, where, calls, response, again, responses, rings, messages, settled, stands>>
  BY DEF LookForPending, QueueNext, Fails
<1>4. job' \in {"none", "queued"} /\ failures' \in Nat /\ failures <= failures'
  BY DEF LookForPending, QueueNext, Fails, TypeOK
<1> QED
  BY <1>1, <1>2, <1>3, <1>4

\* Being added, and an answer being written.
LEMMA AddStep ==
  ASSUME TypeOK, NEW p \in People, NEW r \in Rounds, AddPerson(p, r)
  PROVE  /\ p \notin invited /\ invited' = invited \cup {p}
         /\ UNCHANGED <<state, where, calls, job, response, again, responses, failures, rings, messages,
                        settled, stands>>
         /\ \/ state = "live" /\ MayBegin(r) /\ Turns(r, NewRound({p}))
            \/ state = "scheduled" /\ UNCHANGED round
         /\ NewRound({p}) \in RoundRecs /\ NewRound({p}).pc = "begin" /\ ~NewRound({p}).late
         /\ NewRound({p}).todo = {} /\ NewRound({p}).who = {}
<1>1. /\ p \notin invited /\ invited' = invited \cup {p}
      /\ UNCHANGED <<state, where, calls, job, response, again, responses, failures, rings, messages, settled,
                     stands>>
      /\ \/ state = "live" /\ MayBegin(r) /\ Turns(r, NewRound({p}))
         \/ state = "scheduled" /\ UNCHANGED round
  BY DEF AddPerson, TypeOK
<1>2. NewRound({p}) \in RoundRecs
  BY FixedTypes
<1>3. /\ NewRound({p}).pc = "begin" /\ ~NewRound({p}).late
      /\ NewRound({p}).todo = {} /\ NewRound({p}).who = {}
  BY DEF NewRound, IdleRound
<1> QED
  BY <1>1, <1>2, <1>3

LEMMA WriteStep ==
  ASSUME TypeOK, NEW p \in People, RespondWrite(p)
  PROVE  /\ UNCHANGED <<state, invited, where, job, round, again, responses, failures, rings, messages>>
         /\ response[p].pc = "write" /\ response' \in [People -> ResponseRecs] /\ response'[p].pc = "idle"
         /\ \A q \in People \ {p} : response'[q] = response[q] /\ calls'[q] = calls[q]
         /\ calls' \in [People -> Calls] /\ calls'[p] = response[p].new /\ response[p].new \in Calls
         /\ settled' = settled \cup {p} /\ stands' = stands \cup Unheld({p})
<1>1. calls \in [People -> Calls] /\ response \in [People -> ResponseRecs] /\ response[p].new \in Calls
  BY DEF TypeOK, ResponseRecs
<1>2. IdleResponse.pc = "idle" /\ IdleResponse \in ResponseRecs
  BY FixedTypes DEF IdleResponse
<1> QED
  BY <1>1, <1>2 DEF RespondWrite

LEMMA TypeStep == TypeOK /\ [Next]_vars => TypeOK'
<1> SUFFICES ASSUME TypeOK, [Next]_vars PROVE TypeOK' OBVIOUS
<1>1. CASE StateMoves
  BY <1>1 DEF StateMoves, TypeOK
<1>2. ASSUME NEW p \in People, Moves(p) PROVE TypeOK'
  BY <1>2 DEF Moves, TypeOK
<1>3. ASSUME NEW p \in People, BeginAnswer(p) \/ BeginDecline(p) \/ BeginJoin(p) PROVE TypeOK'
  BY <1>3, ResponseStep DEF TypeOK, ResponseRecs
<1>4. ASSUME NEW p \in People, RespondWrite(p) PROVE TypeOK'
  BY <1>4, WriteStep DEF TypeOK, ResponseRecs, Unheld
<1>5. ASSUME NEW p \in People, NEW r \in Rounds, AddPerson(p, r) PROVE TypeOK'
  <2>1. round' \in [Rounds -> RoundRecs]
    BY <1>5, AddStep, TurnsType DEF TypeOK, RoundRecs
  <2>2. invited' \subseteq People
    BY <1>5, AddStep DEF TypeOK
  <2>3. UNCHANGED <<state, where, calls, job, response, again, responses, failures, rings, messages, settled,
                    stands>>
    BY <1>5, AddStep
  <2> QED
    BY <2>1, <2>2, <2>3 DEF TypeOK, RoundRecs
<1>6. ASSUME NEW r \in Rounds, Claim(r, FALSE) \/ Claim(r, TRUE) \/ RingAgain(r) PROVE TypeOK'
  <2>1. round' \in [Rounds -> RoundRecs]
    BY <1>6, StartStep, TurnsType
  <2> QED
    BY <1>6, <2>1, StartStep DEF TypeOK, RoundRecs
<1>7. ASSUME NEW r \in Rounds, StartsOver(r) \/ StaysAsTheyAre(r) PROVE TypeOK'
  <2>1. round' \in [Rounds -> RoundRecs]
    BY <1>7, AgainStep, TurnsType
  <2>2. calls' \in [People -> Calls] /\ rings' \in [People -> Nat]
        /\ settled' \subseteq People /\ stands' \subseteq People
    <3>1. PICK p \in round[r].todo : \/ UNCHANGED <<calls, rings, settled, stands>>
                                    \/ \E c \in Calls : /\ calls' = [calls EXCEPT ![p] = c]
                                                        /\ rings' = [rings EXCEPT ![p] = 0]
                                                        /\ settled' = settled \ {p}
                                                        /\ stands' = stands \ {p}
      BY <1>7, AgainStep
    <3>2. CASE UNCHANGED <<calls, rings, settled, stands>>
      BY <3>2 DEF TypeOK
    <3>3. CASE \E c \in Calls : /\ calls' = [calls EXCEPT ![p] = c]
                               /\ rings' = [rings EXCEPT ![p] = 0]
                               /\ settled' = settled \ {p} /\ stands' = stands \ {p}
      BY <3>3 DEF TypeOK
    <3> QED
      BY <3>1, <3>2, <3>3
  <2> QED
    BY <1>7, <2>1, <2>2, AgainStep DEF TypeOK, RoundRecs, Others
<1>8. ASSUME NEW r \in Rounds, Begin(r) PROVE TypeOK'
  <2>1. round' \in [Rounds -> RoundRecs]
    BY <1>8, BeginStep, TurnsType, FixedTypes
  <2> QED
    BY <1>8, <2>1, BeginStep DEF TypeOK, RoundRecs, Others
<1>9. ASSUME NEW r \in Rounds, SetCall(r) PROVE TypeOK'
  <2>1. round' \in [Rounds -> RoundRecs]
    BY <1>9, SetStep, TurnsType
  <2>2. round[r].who \subseteq People /\ round[r].new \in Calls
    BY DEF TypeOK
  <2>3. calls' \in [People -> Calls] /\ settled' \subseteq People /\ stands' \subseteq People
    <3>1. Unheld(round[r].who) \subseteq People
      BY <2>2 DEF Unheld
    <3>2. stands' = IF Settled(round[r].new) THEN stands \cup Unheld(round[r].who) ELSE stands
      BY <1>9, SetStep
    <3>3. stands' \subseteq People
      BY <3>1, <3>2 DEF TypeOK
    <3>4. calls' \in [People -> Calls] /\ settled' \subseteq People
      BY <1>9, <2>2, SetStep DEF TypeOK
    <3> QED
      BY <3>3, <3>4
  <2> QED
    BY <1>9, <2>1, <2>3, SetStep DEF TypeOK, RoundRecs, Others
<1>10. ASSUME NEW r \in Rounds, LookForPending(r) \/ QueueNext(r) \/ Fails(r) PROVE TypeOK'
  <2>1. round' \in [Rounds -> RoundRecs]
    BY <1>10, LastStep, TurnsType
  <2> QED
    BY <1>10, <2>1, LastStep DEF TypeOK, RoundRecs
<1>11. CASE UNCHANGED vars
  BY <1>11 DEF vars, TypeOK
<1> QED
  BY <1>1, <1>2, <1>3, <1>4, <1>5, <1>6, <1>7, <1>8, <1>9, <1>10, <1>11, EachType
     DEF Next, RoundSteps, ClaimInTime, ClaimLate

\* Every variable has its type, in every state of the calling.
THEOREM TypeCorrect == Spec => []TypeOK
<1> QED
  BY InitType, TypeStep, PTL DEF Spec

----------------------------------------------------------------------------
(* Whoever a round holds is invited, whoever answers settles their call,   *)
(* and nobody has a call before they are invited.                          *)

Mine(me, guests) == me.todo \cup me.who \subseteq guests
Replies(answer, guests, p) == answer.pc = "write" => p \in guests /\ Settled(answer.new)
Ours ==
  /\ \A r \in Rounds : Mine(round[r], invited)
  /\ \A p \in People : Replies(response[p], invited, p)
  /\ \A p \in People \ invited : calls[p].status = "none"

\* A round's step: its own record, and the calls of those it holds.
LEMMA OursTurn ==
  ASSUME TypeOK, Ours, NEW r \in Rounds, NEW m \in RoundRecs, Turns(r, m), Mine(m, invited),
         UNCHANGED <<invited, response>>,
         \A p \in People \ invited : calls'[p] = calls[p]
  PROVE  Ours'
<1>1. round'[r] = m /\ \A s \in Rounds \ {r} : round'[s] = round[s]
  BY TurnsType
<1> QED
  BY <1>1 DEF Ours

LEMMA InitOurs == Init => Ours
<1> SUFFICES ASSUME Init PROVE Ours OBVIOUS
<1>1. \A S \in SUBSET People : /\ IdleRound.todo = {} /\ IdleRound.who = {}
                               /\ NewRound(S).todo = {} /\ NewRound(S).who = {}
  BY DEF IdleRound, NewRound
<1>2. \A r \in Rounds : round[r].todo = {} /\ round[r].who = {}
  BY <1>1 DEF Init
<1>3. \A p \in People : calls[p].status = "none" /\ response[p].pc = "idle"
  BY DEF Init, NoCall, IdleResponse
<1> QED
  BY <1>2, <1>3 DEF Ours, Mine, Replies

LEMMA OursStep == TypeOK /\ Ours /\ [Next]_vars => Ours'
<1> SUFFICES ASSUME TypeOK, Ours, [Next]_vars PROVE Ours' OBVIOUS
<1>1. CASE StateMoves
  BY <1>1 DEF StateMoves, Ours
<1>2. ASSUME NEW p \in People, Moves(p) PROVE Ours'
  BY <1>2 DEF Moves, Ours
<1>3. ASSUME NEW p \in People, BeginAnswer(p) \/ BeginDecline(p) \/ BeginJoin(p) PROVE Ours'
  <2>1. UNCHANGED <<invited, calls, round>> /\ p \in invited
    BY <1>3, ResponseStep
  <2>2. response' = response \/ (Answer(p) /\ \A q \in People \ {p} : response'[q] = response[q])
    BY <1>3, ResponseStep
  <2> QED
    BY <2>1, <2>2 DEF Ours, Answer, Replies
<1>4. ASSUME NEW p \in People, RespondWrite(p) PROVE Ours'
  BY <1>4, WriteStep DEF Ours, Replies
<1>5. ASSUME NEW p \in People, NEW r \in Rounds, AddPerson(p, r) PROVE Ours'
  <2>1. /\ invited \subseteq invited' /\ UNCHANGED <<calls, response>>
    BY <1>5, AddStep
  <2>2. \A s \in Rounds : round'[s] = round[s] \/ (round'[s].todo = {} /\ round'[s].who = {})
    BY <1>5, AddStep, TurnsType
  <2> QED
    BY <2>1, <2>2 DEF Ours, Mine, Replies
<1>6. ASSUME NEW r \in Rounds, Claim(r, FALSE) \/ Claim(r, TRUE) \/ RingAgain(r) PROVE Ours'
  <2>1. PICK m \in RoundRecs : Turns(r, m) /\ m.who = {} /\ m.todo \subseteq invited
    BY <1>6, StartStep
  <2>2. UNCHANGED <<invited, calls, response>>
    BY <1>6, StartStep
  <2> QED
    BY <2>1, <2>2, OursTurn DEF Mine
<1>7. ASSUME NEW r \in Rounds, StartsOver(r) \/ StaysAsTheyAre(r) PROVE Ours'
  <2>1. PICK p \in round[r].todo, m \in RoundRecs :
          /\ Turns(r, m) /\ m.who = round[r].who /\ m.todo = round[r].todo \ {p}
          /\ \/ UNCHANGED calls
             \/ \E c \in Calls : calls' = [calls EXCEPT ![p] = c]
    BY <1>7, AgainStep
  <2>2. UNCHANGED <<invited, response>>
    BY <1>7, AgainStep DEF Others
  <2>3. Mine(m, invited) /\ p \in invited
    BY <2>1 DEF Ours, Mine
  <2>4. \A q \in People \ invited : calls'[q] = calls[q]
    BY <2>1, <2>3 DEF TypeOK
  <2> QED
    BY <2>1, <2>2, <2>3, <2>4, OursTurn
<1>8. ASSUME NEW r \in Rounds, Begin(r) PROVE Ours'
  <2>1. PICK m \in RoundRecs : Turns(r, m) /\ m.who = {} /\ m.todo \subseteq invited
    <3>1. IdleRound \in RoundRecs /\ IdleRound.who = {} /\ IdleRound.todo = {}
      BY FixedTypes DEF IdleRound
    <3> QED
      BY <1>8, <3>1, BeginStep
  <2>2. UNCHANGED <<invited, calls, response>>
    BY <1>8, BeginStep DEF Others
  <2> QED
    BY <2>1, <2>2, OursTurn DEF Mine
<1>9. ASSUME NEW r \in Rounds, Each(r) PROVE Ours'
  <2>1. PICK p \in round[r].todo, m \in RoundRecs :
          Turns(r, m) /\ m.todo = round[r].todo \ {p} /\ m.who \in {round[r].who, {p}}
    BY <1>9, EachTurn
  <2>2. UNCHANGED <<invited, calls, response>>
    BY <1>9, EachTurn DEF Others
  <2>3. Mine(m, invited)
    BY <2>1 DEF Ours, Mine
  <2> QED
    BY <2>1, <2>2, <2>3, OursTurn
<1>10. ASSUME NEW r \in Rounds, SetCall(r) PROVE Ours'
  <2>1. PICK m \in RoundRecs : Turns(r, m) /\ m.who = {} /\ m.todo = round[r].todo
    BY <1>10, SetStep
  <2>2. UNCHANGED <<invited, response>>
        /\ calls' = [p \in People |-> IF p \in round[r].who THEN round[r].new ELSE calls[p]]
    BY <1>10, SetStep DEF Others
  <2>3. Mine(m, invited) /\ \A p \in People \ invited : calls'[p] = calls[p]
    BY <2>1, <2>2 DEF Ours, Mine
  <2> QED
    BY <2>1, <2>2, <2>3, OursTurn
<1>11. ASSUME NEW r \in Rounds, LookForPending(r) \/ QueueNext(r) \/ Fails(r) PROVE Ours'
  <2>1. PICK m \in RoundRecs : Turns(r, m) /\ m.who = {} /\ m.todo = {}
    BY <1>11, LastStep
  <2>2. UNCHANGED <<invited, calls, response>>
    BY <1>11, LastStep
  <2> QED
    BY <2>1, <2>2, OursTurn DEF Mine
<1>12. CASE UNCHANGED vars
  BY <1>12 DEF vars, Ours
<1> QED
  BY <1>1, <1>2, <1>3, <1>4, <1>5, <1>6, <1>7, <1>8, <1>9, <1>10, <1>11, <1>12
     DEF Next, RoundSteps, ClaimInTime, ClaimLate

----------------------------------------------------------------------------
(* The calling goes on.                                                    *)

\* A step that leaves a round that is not idle owes nothing.
LEMMA StillCalling ==
  ASSUME TypeOK, NEW r \in Rounds, NEW m \in RoundRecs, Turns(r, m), m.pc # "idle"
  PROVE  CallingGoesOn'
BY TurnsType DEF CallingGoesOn, RoundsIdle

LEMMA CallingStep == TypeOK /\ Ours /\ CallingGoesOn /\ [Next]_vars => CallingGoesOn'
<1> SUFFICES ASSUME TypeOK, Ours, CallingGoesOn, [Next]_vars PROVE CallingGoesOn' OBVIOUS
<1>1. CASE StateMoves
  BY <1>1 DEF StateMoves, CallingGoesOn, RoundsIdle, ToRing, Pending, Spent
<1>2. ASSUME NEW p \in People, Moves(p) PROVE CallingGoesOn'
  BY <1>2 DEF Moves, CallingGoesOn, RoundsIdle
<1>3. ASSUME NEW p \in People, BeginAnswer(p) \/ BeginDecline(p) \/ BeginJoin(p) PROVE CallingGoesOn'
  BY <1>3, ResponseStep DEF CallingGoesOn, RoundsIdle
<1>4. ASSUME NEW p \in People, RespondWrite(p) PROVE CallingGoesOn'
  <2>1. /\ UNCHANGED <<state, invited, job, round, failures>> /\ Settled(calls'[p])
        /\ \A q \in People \ {p} : calls'[q] = calls[q]
    BY <1>4, WriteStep DEF Ours, Replies
  <2>2. \A q \in invited : Pending(calls'[q]) => q # p /\ calls'[q] = calls[q]
    BY <2>1 DEF Pending, TypeOK
  <2> QED
    BY <2>1, <2>2 DEF CallingGoesOn, RoundsIdle
<1>5. ASSUME NEW p \in People, NEW r \in Rounds, AddPerson(p, r) PROVE CallingGoesOn'
  <2>1. CASE Turns(r, NewRound({p}))
    BY <1>5, <2>1, AddStep, StillCalling
  <2>2. CASE UNCHANGED round
    <3>1. UNCHANGED <<state, calls, job, failures>> /\ invited' = invited \cup {p} /\ calls[p].status = "none"
      BY <1>5, AddStep DEF Ours
    <3> QED
      BY <2>2, <3>1 DEF CallingGoesOn, RoundsIdle
  <2> QED
    BY <1>5, <2>1, <2>2, AddStep
<1>6. ASSUME NEW r \in Rounds, Claim(r, FALSE) \/ Claim(r, TRUE) \/ RingAgain(r) PROVE CallingGoesOn'
  BY <1>6, StartStep, StillCalling
<1>7. ASSUME NEW r \in Rounds, StartsOver(r) \/ StaysAsTheyAre(r) PROVE CallingGoesOn'
  BY <1>7, AgainStep, StillCalling
<1>8. ASSUME NEW r \in Rounds, Begin(r) PROVE CallingGoesOn'
  <2>1. CASE state = "over"
    BY <1>8, <2>1, BeginStep DEF CallingGoesOn, Others
  <2>2. CASE state # "over"
    BY <1>8, <2>2, BeginStep, StillCalling
  <2> QED
    BY <2>1, <2>2
<1>9. ASSUME NEW r \in Rounds, Each(r) PROVE CallingGoesOn'
  BY <1>9, EachTurn, StillCalling
<1>10. ASSUME NEW r \in Rounds, SetCall(r) PROVE CallingGoesOn'
  BY <1>10, SetStep, StillCalling
\* The round that was the last to be in progress has looked for somebody to
\* ring, and found nobody or goes on to queue the next.
<1>11. ASSUME NEW r \in Rounds, LookForPending(r) PROVE CallingGoesOn'
  <2>1. CASE ToRing # {}
    <3>1. [IdleRound EXCEPT !.pc = "queue"] \in RoundRecs /\ [IdleRound EXCEPT !.pc = "queue"].pc # "idle"
      BY FixedTypes DEF RoundRecs, RoundPcs
    <3> QED
      BY <1>11, <2>1, <3>1, StillCalling DEF LookForPending
  <2>2. CASE ToRing = {}
    BY <1>11, <2>2 DEF LookForPending, ToRing, CallingGoesOn
  <2> QED
    BY <2>1, <2>2
<1>12. ASSUME NEW r \in Rounds, QueueNext(r) PROVE CallingGoesOn'
  BY <1>12 DEF QueueNext, CallingGoesOn
<1>13. ASSUME NEW r \in Rounds, Fails(r) PROVE CallingGoesOn'
  <2>1. failures' # 0
    BY <1>13 DEF Fails, TypeOK
  <2> QED
    BY <2>1 DEF CallingGoesOn
<1>14. CASE UNCHANGED vars
  BY <1>14 DEF vars, CallingGoesOn, RoundsIdle
<1> QED
  BY <1>1, <1>2, <1>3, <1>4, <1>5, <1>6, <1>7, <1>8, <1>9, <1>10, <1>11, <1>12, <1>13, <1>14
     DEF Next, RoundSteps, ClaimInTime, ClaimLate

\* With no round in progress and none ever cut short, whoever has a call that
\* is neither settled nor spent has a next round queued: however many rounds,
\* answers, joins and uses of Ring again interleave, in step or not.
THEOREM CallingContinues == Spec => []CallingGoesOn
<1>1. Init => CallingGoesOn
  BY RingAssumption DEF Init, CallingGoesOn, NoCall
<1> QED
  BY <1>1, InitType, InitOurs, TypeStep, OursStep, CallingStep, PTL DEF Spec

----------------------------------------------------------------------------
(* In step: one round at a time, and no answer during it.  Then what a     *)
(* round has read is what stands, and the rings are counted by the calls   *)
(* as they stand, or by the record that is about to be written.            *)

\* A round holds, of those it has still to look at, the calls that stand; it
\* writes a record for nobody who has answered or come.
Reads(me, cs) ==
  /\ me.pc # "set" => me.who = {}
  /\ me.pc \in {"idle", "begin"} => me.todo = {}
  /\ \A p \in me.todo : me.read[p] = cs[p]
  /\ \A p \in me.who : p \notin me.todo /\ ~Settled(cs[p])
  /\ me.late => \A p \in me.todo : cs[p].status = "ringing"
SameCall(answer, c) == answer.pc = "write" => answer.new.attempts = c.attempts /\ answer.new.kc = c.kc
\* n rings and k messages are within what the record says, f rounds cut short.
RungAs(n, c, f) == n <= c.attempts + f
ToldAs(k, c, f) == c.kc \/ k <= f
Unwritten(n, k, c, f) == RungAs(n, c, f) /\ ToldAs(k, c, f)
ToWrite(n, k, c, new, f) == RungAs(n, new, f) /\ ToldAs(k, new, f) /\ n <= c.attempts + 1 + f

InStep ==
  /\ \A r, s \in Rounds : round[r].pc # "idle" /\ round[s].pc # "idle" => r = s
  /\ \A r \in Rounds, p \in People : round[r].pc # "idle" => response[p].pc = "idle"
  /\ \A p \in People : SameCall(response[p], calls[p])
  /\ \A r \in Rounds : Reads(round[r], calls)
  /\ \A p \in People : messages[p] <= 1 + failures
  /\ \A p \in People : (\A r \in Rounds : p \notin round[r].who) =>
                         Unwritten(rings[p], messages[p], calls[p], failures)
  /\ \A p \in People, r \in Rounds : p \in round[r].who =>
                         ToWrite(rings[p], messages[p], calls[p], round[r].new, failures)

\* Of the rounds, only r may be in progress, and no answer is.
Only(r) ==
  /\ \A s \in Rounds \ {r} : round[s].pc = "idle" /\ round[s].who = {} /\ round[s].todo = {}
  /\ \A p \in People : response[p].pc = "idle"

LEMMA RunsAlone ==
  ASSUME InStep, ~Overlap, NEW r \in Rounds, round[r].pc # "idle" \/ MayBegin(r)
  PROVE  Only(r) /\ (MayBegin(r) => round[r].who = {})
BY DEF InStep, Only, MayBegin, RoundsIdle, ResponsesIdle, Reads

\* What the round in progress leaves is in step when its own record, the
\* calls and the counts agree.
LEMMA TurnInStep ==
  ASSUME TypeOK, NEW r \in Rounds, NEW m \in RoundRecs, Turns(r, m), Only(r), UNCHANGED response,
         Reads(m, calls'),
         \A p \in People : messages'[p] <= 1 + failures',
         \A p \in People \ m.who : Unwritten(rings'[p], messages'[p], calls'[p], failures'),
         \A p \in m.who : ToWrite(rings'[p], messages'[p], calls'[p], m.new, failures')
  PROVE  InStep'
<1>1. round'[r] = m /\ \A s \in Rounds \ {r} : round'[s] = round[s]
  BY TurnsType
<1>2. \A s \in Rounds \ {r} : round'[s].pc = "idle" /\ round'[s].who = {} /\ round'[s].todo = {}
  BY <1>1 DEF Only
<1>3. \A p \in People : response'[p].pc = "idle"
  BY DEF Only
<1>4. /\ \A s, t \in Rounds : round'[s].pc # "idle" /\ round'[t].pc # "idle" => s = t
      /\ \A s \in Rounds, p \in People : round'[s].pc # "idle" => response'[p].pc = "idle"
      /\ \A p \in People : SameCall(response'[p], calls'[p])
  BY <1>2, <1>3 DEF SameCall
<1>5. \A s \in Rounds : Reads(round'[s], calls')
  <2>1. \A s \in Rounds \ {r} : round'[s].late \in BOOLEAN
    BY <1>1 DEF TypeOK
  <2> QED
    BY <1>1, <1>2, <2>1 DEF Reads
<1>6. \A p \in People : (\A s \in Rounds : p \notin round'[s].who) =>
                          Unwritten(rings'[p], messages'[p], calls'[p], failures')
  BY <1>1
<1>7. \A p \in People, s \in Rounds : p \in round'[s].who =>
                          ToWrite(rings'[p], messages'[p], calls'[p], round'[s].new, failures')
  <2> SUFFICES ASSUME NEW p \in People, NEW s \in Rounds, p \in round'[s].who
               PROVE  ToWrite(rings'[p], messages'[p], calls'[p], round'[s].new, failures')
    OBVIOUS
  <2>1. s = r
    BY <1>2
  <2> QED
    BY <1>1, <2>1
<1> QED
  BY <1>4, <1>5, <1>6, <1>7 DEF InStep

\* The counts before a step of the round in progress.
LEMMA CountsBefore ==
  ASSUME InStep, NEW r \in Rounds, Only(r)
  PROVE  /\ \A p \in People : messages[p] <= 1 + failures
         /\ \A p \in People \ round[r].who : Unwritten(rings[p], messages[p], calls[p], failures)
         /\ \A p \in People : p \in round[r].who =>
              ToWrite(rings[p], messages[p], calls[p], round[r].new, failures)
         /\ Reads(round[r], calls)
<1>1. ASSUME NEW p \in People \ round[r].who
      PROVE  Unwritten(rings[p], messages[p], calls[p], failures)
  <2>1. \A s \in Rounds : p \notin round[s].who
    BY DEF Only
  <2> QED
    BY <2>1 DEF InStep
<1> QED
  BY <1>1 DEF InStep

LEMMA InitInStep == Init => InStep
<1> SUFFICES ASSUME Init PROVE InStep OBVIOUS
<1>1. /\ IdleRound.pc = "idle" /\ IdleRound.todo = {} /\ IdleRound.who = {}
      /\ NewRound(People).pc = "begin" /\ NewRound(People).todo = {} /\ NewRound(People).who = {}
  BY DEF IdleRound, NewRound
<1>2. \A r \in Rounds : /\ round[r].todo = {} /\ round[r].who = {}
                        /\ round[r].pc \in {"idle", "begin"}
  BY <1>1 DEF Init
<1>3. \A r, s \in Rounds : round[r].pc # "idle" /\ round[s].pc # "idle" => r = s
  BY <1>1 DEF Init
<1>4. \A p \in People : /\ response[p].pc = "idle" /\ calls[p] = NoCall
                        /\ rings[p] = 0 /\ messages[p] = 0
  BY DEF Init, IdleResponse
<1>5. failures = 0 /\ NoCall.attempts = 0
  BY DEF Init, NoCall
<1>6. \A p \in People : SameCall(response[p], calls[p])
  BY <1>4 DEF SameCall
<1>7. \A r \in Rounds : Reads(round[r], calls)
  BY <1>2 DEF Reads
<1>8. \A p \in People : /\ Unwritten(rings[p], messages[p], calls[p], failures)
                        /\ messages[p] <= 1 + failures
  BY <1>4, <1>5 DEF Unwritten, RungAs, ToldAs
<1> QED
  BY <1>2, <1>3, <1>4, <1>5, <1>6, <1>7, <1>8 DEF InStep

\* Nothing here but a status changes, and of nobody the round holds.
LEMMA WriteInStep ==
  ASSUME TypeOK, Ours, InStep, NEW p \in People, RespondWrite(p)
  PROVE  InStep'
<1>1. /\ UNCHANGED <<round, rings, messages, failures>> /\ calls'[p] = response[p].new
      /\ response[p].pc = "write" /\ response'[p].pc = "idle"
      /\ \A q \in People \ {p} : response'[q] = response[q] /\ calls'[q] = calls[q]
  BY WriteStep
<1>2. /\ calls'[p].attempts = calls[p].attempts /\ calls'[p].kc = calls[p].kc /\ Settled(calls'[p])
  BY <1>1 DEF InStep, SameCall, Ours, Replies
<1>3. \A r \in Rounds : round[r].pc = "idle" /\ round[r].who = {} /\ round[r].todo = {}
  BY <1>1 DEF InStep, Reads
<1>4. \A q \in People : calls'[q].attempts = calls[q].attempts /\ calls'[q].kc = calls[q].kc
  BY <1>1, <1>2
<1>5. \A q \in People : SameCall(response'[q], calls'[q])
  BY <1>1 DEF InStep, SameCall
<1>6. \A r \in Rounds : Reads(round'[r], calls')
  BY <1>1, <1>3 DEF InStep, Reads
<1>7. \A q \in People : Unwritten(rings'[q], messages'[q], calls'[q], failures')
  <2> SUFFICES ASSUME NEW q \in People
               PROVE  Unwritten(rings'[q], messages'[q], calls'[q], failures')
    OBVIOUS
  <2>1. Unwritten(rings[q], messages[q], calls[q], failures)
    BY <1>3 DEF InStep
  <2> QED
    BY <1>1, <1>4, <2>1 DEF Unwritten, RungAs, ToldAs
<1>9. /\ \A r, s \in Rounds : round'[r].pc # "idle" /\ round'[s].pc # "idle" => r = s
      /\ \A r \in Rounds, q \in People : round'[r].pc # "idle" => response'[q].pc = "idle"
  BY <1>1, <1>3
<1>10. \A q \in People : messages'[q] <= 1 + failures'
  BY <1>1 DEF InStep
<1> QED
  BY <1>1, <1>3, <1>5, <1>6, <1>7, <1>9, <1>10 DEF InStep

LEMMA AnswerInStep ==
  ASSUME TypeOK, InStep, ~Overlap, NEW p \in People, BeginAnswer(p) \/ BeginDecline(p) \/ BeginJoin(p)
  PROVE  InStep'
<1>1. /\ UNCHANGED <<calls, round, failures, rings, messages>>
      /\ response' = response \/ (Answer(p) /\ \A q \in People \ {p} : response'[q] = response[q])
      /\ RoundsIdle
  BY ResponseStep
<1>2. \A q \in People : SameCall(response'[q], calls'[q])
  BY <1>1 DEF InStep, SameCall, Answer
<1> QED
  BY <1>1, <1>2 DEF InStep, RoundsIdle

\* Somebody is added, a round begins: it holds nobody's record yet.
LEMMA StartInStep ==
  ASSUME TypeOK, InStep, ~Overlap, NEW r \in Rounds, NEW m \in RoundRecs, Turns(r, m), MayBegin(r),
         m.who = {}, m.pc = "begin" => m.todo = {}, m.pc # "idle", \A p \in m.todo : m.read[p] = calls[p],
         m.todo # {} => ~m.late,
         UNCHANGED <<calls, response, failures, rings, messages>>
  PROVE  InStep'
<1>1. Only(r) /\ round[r].who = {}
  BY RunsAlone
<1>2. Reads(m, calls')
  BY DEF Reads
<1>3. /\ \A p \in People : messages'[p] <= 1 + failures'
      /\ \A p \in People \ m.who : Unwritten(rings'[p], messages'[p], calls'[p], failures')
      /\ \A p \in m.who : ToWrite(rings'[p], messages'[p], calls'[p], m.new, failures')
  BY <1>1, CountsBefore
<1> QED
  BY <1>1, <1>2, <1>3, TurnInStep

\* Whoever starts over has no ring counted.
LEMMA AgainInStep ==
  ASSUME TypeOK, InStep, ~Overlap, NEW r \in Rounds, StartsOver(r) \/ StaysAsTheyAre(r)
  PROVE  InStep'
<1>1. UNCHANGED <<response, failures, messages>> /\ round[r].pc = "again"
  BY AgainStep DEF Others
<1>2. PICK p \in round[r].todo, m \in RoundRecs :
        /\ Turns(r, m) /\ m.pc = "again" /\ m.who = round[r].who /\ m.todo = round[r].todo \ {p}
        /\ m.read = round[r].read /\ m.late = round[r].late
        /\ \/ UNCHANGED <<calls, rings>>
           \/ \E c \in Calls : /\ calls' = [calls EXCEPT ![p] = c] /\ rings' = [rings EXCEPT ![p] = 0]
                               /\ c.kc = round[r].read[p].kc
                               /\ c.attempts = 0
  BY AgainStep
<1>3. Only(r)
  BY <1>1, RunsAlone
<1>4. Reads(round[r], calls) /\ round[r].who = {} /\ m.who = {} /\ p \in People /\ round[r].todo \subseteq People
  BY <1>1, <1>2, <1>3, CountsBefore DEF Reads, TypeOK
<1>5. CASE UNCHANGED <<calls, rings>>
  <2>1. Reads(m, calls')
    BY <1>1, <1>2, <1>4, <1>5 DEF Reads
  <2>2. /\ \A q \in People : messages'[q] <= 1 + failures'
        /\ \A q \in People \ m.who : Unwritten(rings'[q], messages'[q], calls'[q], failures')
        /\ \A q \in m.who : ToWrite(rings'[q], messages'[q], calls'[q], m.new, failures')
    BY <1>1, <1>3, <1>4, <1>5, CountsBefore
  <2> QED
    BY <1>1, <1>2, <1>3, <2>1, <2>2, TurnInStep
<1>6. ASSUME NEW c \in Calls, calls' = [calls EXCEPT ![p] = c], rings' = [rings EXCEPT ![p] = 0],
             c.kc = round[r].read[p].kc, c.attempts = 0
      PROVE  InStep'
  <2>1. calls \in [People -> Calls] /\ rings \in [People -> Nat] /\ failures \in Nat
    BY DEF TypeOK
  <2>2. /\ calls'[p] = c /\ rings'[p] = 0
        /\ \A q \in People \ {p} : calls'[q] = calls[q] /\ rings'[q] = rings[q]
    BY <1>4, <1>6, <2>1
  <2>3. Reads(m, calls')
    BY <1>1, <1>2, <1>4, <2>2 DEF Reads
  <2>5. \A q \in People : messages'[q] <= 1 + failures'
    BY <1>1, <1>3, CountsBefore
  <2>6. \A q \in People \ m.who : Unwritten(rings'[q], messages'[q], calls'[q], failures')
    <3>1. Unwritten(rings[p], messages[p], calls[p], failures) /\ c.kc = calls[p].kc
      BY <1>2, <1>3, <1>4, <1>6, CountsBefore DEF Reads
    <3>2. RungAs(0, c, failures)
      BY <1>6, <2>1 DEF RungAs
    <3>3. ToldAs(messages[p], c, failures)
      BY <3>1 DEF Unwritten, ToldAs
    <3>4. Unwritten(rings'[p], messages'[p], calls'[p], failures')
      BY <1>1, <2>2, <3>2, <3>3 DEF Unwritten
    <3>5. \A q \in People \ {p} : Unwritten(rings'[q], messages'[q], calls'[q], failures')
      BY <1>1, <1>3, <1>4, <2>2, CountsBefore
    <3> QED
      BY <3>4, <3>5
  <2> QED
    BY <1>1, <1>2, <1>3, <1>4, <2>3, <2>5, <2>6, TurnInStep
<1> QED
  BY <1>2, <1>5, <1>6

LEMMA BeginInStep ==
  ASSUME TypeOK, InStep, ~Overlap, NEW r \in Rounds, Begin(r)
  PROVE  InStep'
<1>1. /\ UNCHANGED <<calls, response, failures, rings, messages>>
      /\ round[r].pc \in {"again", "begin"}
  BY BeginStep DEF Others
<1>2. PICK m \in RoundRecs : /\ Turns(r, m) /\ m.who = {} /\ \A p \in m.todo : m.read[p] = calls[p]
                             /\ m.pc \in {"idle", "begin"} => m.todo = {}
                             /\ m.late => \A p \in m.todo : calls[p].status = "ringing"
  <2>1. IdleRound \in RoundRecs /\ IdleRound.who = {} /\ IdleRound.todo = {}
    BY FixedTypes DEF IdleRound
  <2> QED
    BY <2>1, BeginStep
<1>3. Only(r)
  BY <1>1, RunsAlone
<1>4. Reads(m, calls')
  BY <1>1, <1>2 DEF Reads
<1>5. round[r].who = {}
  BY <1>1, <1>3, CountsBefore DEF Reads
<1>6. /\ \A p \in People : messages'[p] <= 1 + failures'
      /\ \A p \in People \ m.who : Unwritten(rings'[p], messages'[p], calls'[p], failures')
      /\ \A p \in m.who : ToWrite(rings'[p], messages'[p], calls'[p], m.new, failures')
  BY <1>1, <1>2, <1>3, <1>5, CountsBefore
<1> QED
  BY <1>1, <1>2, <1>3, <1>4, <1>6, TurnInStep

\* The one it is about to write for is counted by the record to be written.
LEMMA EachInStep ==
  ASSUME TypeOK, InStep, ~Overlap, NEW r \in Rounds, Each(r)
  PROVE  InStep'
<1>1. UNCHANGED <<calls, response, failures>> /\ round[r].pc = "each"
  BY EachTurn DEF Others
<1>2. PICK p \in round[r].todo, m \in RoundRecs :
        /\ Turns(r, m) /\ p \in People /\ m.late = round[r].late /\ m.todo = round[r].todo \ {p}
        /\ \A q \in People \ {p} : m.read[q] = round[r].read[q]
        /\ \/ m.pc = "each" /\ m.who = round[r].who /\ NoRing
           \/ m.pc = "set" /\ m.who = {p} /\ Tells(r, p, m.new)
  BY EachTurn
<1>3. Only(r)
  BY <1>1, RunsAlone
<1>4. /\ Reads(round[r], calls) /\ round[r].who = {} /\ round[r].todo \subseteq People
      /\ round[r].read[p] = calls[p]
  BY <1>1, <1>2, <1>3, CountsBefore DEF Reads, TypeOK
<1>6. /\ \A q \in m.todo : m.read[q] = calls'[q]
      /\ m.late => \A q \in m.todo : calls'[q].status = "ringing"
  BY <1>1, <1>2, <1>4 DEF Reads
<1>7. CASE m.pc = "each" /\ m.who = round[r].who /\ NoRing
  <2>1. Reads(m, calls')
    BY <1>4, <1>6, <1>7 DEF Reads
  <2>2. /\ \A q \in People : messages'[q] <= 1 + failures'
        /\ \A q \in People \ m.who : Unwritten(rings'[q], messages'[q], calls'[q], failures')
        /\ \A q \in m.who : ToWrite(rings'[q], messages'[q], calls'[q], m.new, failures')
    BY <1>1, <1>3, <1>4, <1>7, CountsBefore DEF NoRing
  <2> QED
    BY <1>1, <1>2, <1>3, <2>1, <2>2, TurnInStep
<1>8. CASE m.pc = "set" /\ m.who = {p} /\ Tells(r, p, m.new)
  <2>1. ~Settled(calls[p])
    BY <1>2, <1>4, <1>8 DEF Tells, Reads, Settled
  <2>2. Reads(m, calls')
    BY <1>1, <1>2, <1>6, <1>8, <2>1 DEF Reads
  <2>3. /\ calls[p] \in Calls /\ m.new \in Calls /\ failures \in Nat
        /\ rings \in [People -> Nat] /\ messages \in [People -> Nat]
    BY <1>2, <1>8 DEF TypeOK, Tells
  <2>4. Unwritten(rings[p], messages[p], calls[p], failures) /\ messages[p] <= 1 + failures
    BY <1>2, <1>3, <1>4, CountsBefore
  <2>5. /\ rings' = rings \/ rings' = [rings EXCEPT ![p] = @ + 1]
        /\ messages' = messages \/ messages' = [messages EXCEPT ![p] = @ + 1]
    BY <1>8 DEF Tells, NoRing
  <2>6. \A q \in People \ {p} : rings'[q] = rings[q] /\ messages'[q] = messages[q]
    BY <2>3, <2>5
  <2>7. /\ calls[p].attempts \in Nat /\ m.new.attempts \in Nat
        /\ calls[p].kc \in BOOLEAN /\ m.new.kc \in BOOLEAN
    BY <2>3, RingAssumption DEF Calls
  <2>8. \/ rings'[p] = rings[p] /\ calls[p].attempts <= m.new.attempts
        \/ rings'[p] = rings[p] + 1 /\ m.new.attempts = calls[p].attempts + 1
    <3>1. \/ rings' = rings /\ (m.new.attempts = calls[p].attempts \/ calls[p].attempts <= m.new.attempts)
          \/ rings' = [rings EXCEPT ![p] = @ + 1] /\ m.new.attempts = calls[p].attempts + 1
      BY <1>4, <1>8 DEF Tells, NoRing
    <3> HIDE DEF Calls
    <3> QED
      BY <1>2, <2>3, <2>7, <3>1
  <2>9. rings[p] <= calls[p].attempts + failures /\ rings[p] \in Nat /\ messages[p] \in Nat
    BY <1>2, <2>3, <2>4 DEF Unwritten, RungAs
  <2>10. rings'[p] <= m.new.attempts + failures /\ rings'[p] <= calls[p].attempts + 1 + failures
    BY <2>3, <2>7, <2>8, <2>9
  <2>11. \/ messages'[p] = messages[p] /\ m.new.kc = calls[p].kc
         \/ messages'[p] = messages[p] + 1 /\ ~calls[p].kc /\ m.new.kc
    <3>1. \/ messages' = messages /\ m.new.kc = calls[p].kc
          \/ messages' = [messages EXCEPT ![p] = @ + 1] /\ ~calls[p].kc /\ m.new.kc
      BY <1>4, <1>8 DEF Tells, NoRing
    <3>2. messages' = [messages EXCEPT ![p] = @ + 1] => messages'[p] = messages[p] + 1
      BY <1>2, <2>3
    <3> QED
      BY <3>1, <3>2
  <2>12. calls[p].kc \/ messages[p] <= failures
    BY <2>4 DEF Unwritten, ToldAs
  <2>13. messages'[p] <= 1 + failures /\ (m.new.kc \/ messages'[p] <= failures)
    <3>1. CASE messages'[p] = messages[p] /\ m.new.kc = calls[p].kc
      BY <2>4, <2>12, <3>1
    <3>2. CASE messages'[p] = messages[p] + 1 /\ ~calls[p].kc /\ m.new.kc
      <4>1. messages[p] <= failures
        BY <2>12, <3>2
      <4>2. messages'[p] <= 1 + failures
        BY <2>3, <2>9, <3>2, <4>1
      <4> QED
        BY <3>2, <4>2
    <3> QED
      BY <2>11, <3>1, <3>2
  <2>14. ToWrite(rings'[p], messages'[p], calls'[p], m.new, failures')
    BY <1>1, <2>10, <2>13 DEF ToWrite, RungAs, ToldAs
  <2>15. \A q \in People : messages'[q] <= 1 + failures'
    BY <1>1, <1>3, <2>6, <2>13, CountsBefore
  <2>16. \A q \in People \ m.who : Unwritten(rings'[q], messages'[q], calls'[q], failures')
    BY <1>1, <1>3, <1>4, <1>8, <2>6, CountsBefore
  <2>17. \A q \in m.who : ToWrite(rings'[q], messages'[q], calls'[q], m.new, failures')
    BY <1>8, <2>14
  <2> QED
    BY <1>1, <1>2, <1>3, <2>2, <2>15, <2>16, <2>17, TurnInStep
<1> QED
  BY <1>2, <1>7, <1>8

\* What was written is what stands.
LEMMA SetInStep ==
  ASSUME TypeOK, InStep, ~Overlap, NEW r \in Rounds, SetCall(r)
  PROVE  InStep'
<1> DEFINE who == round[r].who
           new == round[r].new
<1>1. /\ UNCHANGED <<response, failures, rings, messages>> /\ round[r].pc = "set"
      /\ calls' = [p \in People |-> IF p \in who THEN new ELSE calls[p]]
  BY SetStep DEF Others
<1>2. PICK m \in RoundRecs : /\ Turns(r, m) /\ m.pc = "each" /\ m.who = {} /\ m.todo = round[r].todo
                             /\ m.read = round[r].read /\ m.late = round[r].late
  BY SetStep
<1>3. Only(r)
  BY <1>1, RunsAlone
<1>4. /\ Reads(round[r], calls) /\ who \subseteq People /\ round[r].todo \subseteq People
     
  BY <1>3, CountsBefore DEF TypeOK
<1>5. /\ \A p \in who : calls'[p] = new /\ p \notin round[r].todo /\ ~Settled(calls[p])
      /\ \A p \in People \ who : calls'[p] = calls[p]
  BY <1>1, <1>4 DEF Reads
<1>6. \A p \in m.todo : p \in People \ who
  BY <1>2, <1>4, <1>5
<1>7. Reads(m, calls')
  BY <1>2, <1>4, <1>5, <1>6 DEF Reads
<1>9. \A p \in People : messages'[p] <= 1 + failures'
  BY <1>1, <1>3, CountsBefore
<1>10. \A p \in People \ m.who : Unwritten(rings'[p], messages'[p], calls'[p], failures')
  <2>1. ASSUME NEW p \in who
        PROVE  Unwritten(rings'[p], messages'[p], calls'[p], failures')
    <3>1. ToWrite(rings[p], messages[p], calls[p], new, failures)
      BY <1>3, <1>4, <2>1, CountsBefore
    <3> QED
      BY <1>1, <1>5, <3>1 DEF Unwritten, ToWrite
  <2>2. ASSUME NEW p \in People \ who
        PROVE  Unwritten(rings'[p], messages'[p], calls'[p], failures')
    BY <1>1, <1>3, <1>5, CountsBefore
  <2> QED
    BY <2>1, <2>2
<1> QED
  BY <1>1, <1>2, <1>3, <1>7, <1>9, <1>10, TurnInStep

\* A round cut short before it had written leaves a ring, or a message, that
\* the record does not show: one more for each.
LEMMA LastInStep ==
  ASSUME TypeOK, InStep, ~Overlap, NEW r \in Rounds, LookForPending(r) \/ QueueNext(r) \/ Fails(r)
  PROVE  InStep'
<1>1. /\ UNCHANGED <<calls, response, rings, messages>> /\ round[r].pc # "idle"
  BY LastStep DEF LookForPending, QueueNext, Fails
<1>2. PICK m \in RoundRecs : Turns(r, m) /\ m.pc \in {"idle", "queue"} /\ m.who = {} /\ m.todo = {}
  BY LastStep
<1>3. Only(r)
  BY <1>1, RunsAlone
<1>4. Reads(m, calls')
  BY <1>2 DEF Reads
<1>5. /\ calls \in [People -> Calls] /\ failures \in Nat /\ rings \in [People -> Nat] /\ messages \in [People -> Nat]
      /\ \A p \in People : calls[p].attempts \in Nat
  BY RingAssumption DEF TypeOK, Calls
<1>6. \/ failures' = failures /\ round[r].who = {}
      \/ failures' = failures + 1
  BY <1>3, CountsBefore DEF LookForPending, QueueNext, Fails, Reads
<1>7. \A p \in People : messages'[p] <= 1 + failures'
  <2> SUFFICES ASSUME NEW p \in People PROVE messages'[p] <= 1 + failures'
    OBVIOUS
  <2>1. messages[p] <= 1 + failures /\ messages[p] \in Nat
    BY <1>3, <1>5, CountsBefore
  <2> QED
    BY <1>1, <1>5, <1>6, <2>1
<1>8. \A p \in People : Unwritten(rings'[p], messages'[p], calls'[p], failures')
  <2> SUFFICES ASSUME NEW p \in People PROVE Unwritten(rings'[p], messages'[p], calls'[p], failures')
    OBVIOUS
  <2>1. CASE p \notin round[r].who
    <3>1. RungAs(rings[p], calls[p], failures) /\ ToldAs(messages[p], calls[p], failures)
      BY <1>3, <2>1, CountsBefore DEF Unwritten
    <3>2. RungAs(rings[p], calls[p], failures')
      BY <1>5, <1>6, <3>1 DEF RungAs
    <3>3. messages[p] <= failures => messages[p] <= failures'
      BY <1>5, <1>6
    <3>4. ToldAs(messages[p], calls[p], failures')
      BY <3>1, <3>3 DEF ToldAs
    <3> QED
      BY <1>1, <3>2, <3>4 DEF Unwritten
  <2>2. CASE p \in round[r].who
    <3>1. /\ rings[p] <= calls[p].attempts + 1 + failures /\ messages[p] <= 1 + failures
          /\ failures' = failures + 1
      BY <1>3, <1>6, <2>2, CountsBefore DEF ToWrite
    <3>2. rings[p] <= calls[p].attempts + failures' /\ messages[p] <= failures'
      BY <1>5, <3>1
    <3> QED
      BY <1>1, <3>2 DEF Unwritten, RungAs, ToldAs
  <2> QED
    BY <2>1, <2>2
<1> QED
  BY <1>1, <1>2, <1>3, <1>4, <1>7, <1>8, TurnInStep

LEMMA StepInStep == ~Overlap /\ TypeOK /\ Ours /\ InStep /\ [Next]_vars => InStep'
<1> SUFFICES ASSUME ~Overlap, TypeOK, Ours, InStep, [Next]_vars PROVE InStep' OBVIOUS
<1>1. CASE StateMoves
  BY <1>1 DEF StateMoves, InStep
<1>2. ASSUME NEW p \in People, Moves(p) PROVE InStep'
  BY <1>2 DEF Moves, InStep
<1>3. ASSUME NEW p \in People, NEW r \in Rounds, AddPerson(p, r) PROVE InStep'
  <2>1. UNCHANGED <<calls, response, failures, rings, messages>>
    BY <1>3, AddStep
  <2>2. CASE Turns(r, NewRound({p})) /\ MayBegin(r)
    <3> DEFINE m == NewRound({p})
    <3>1. m \in RoundRecs /\ m.pc = "begin" /\ m.todo = {} /\ m.who = {}
      BY <1>3, AddStep
    <3> HIDE DEF m
    <3>2. Turns(r, m) /\ MayBegin(r)
      BY <2>2 DEF m
    <3> QED
      BY <2>1, <3>1, <3>2, StartInStep
  <2>3. CASE UNCHANGED round
    BY <2>1, <2>3 DEF InStep
  <2> QED
    BY <1>3, <2>2, <2>3, AddStep
<1>4. ASSUME NEW r \in Rounds, Claim(r, FALSE) \/ Claim(r, TRUE) \/ RingAgain(r) PROVE InStep'
  <2>1. PICK m \in RoundRecs :
          /\ Turns(r, m) /\ m.pc \in {"begin", "again"} /\ m.who = {} /\ (m.pc = "begin" => m.todo = {})
          /\ \A p \in m.todo : m.read[p] = calls[p]
          /\ m.pc = "again" => ~m.late
    BY <1>4, StartStep
  <2>2. MayBegin(r) /\ UNCHANGED <<calls, response, failures, rings, messages>>
    BY <1>4, StartStep
  <2>3. m.pc # "idle" /\ (m.todo # {} => ~m.late)
    BY <2>1
  <2> QED
    BY <2>1, <2>2, <2>3, StartInStep
<1>5. CASE UNCHANGED vars
  BY <1>5 DEF vars, InStep
<1> QED
  BY <1>1, <1>2, <1>3, <1>4, <1>5, AnswerInStep, WriteInStep, AgainInStep, BeginInStep, EachInStep, SetInStep,
     LastInStep DEF Next, RoundSteps, ClaimInTime, ClaimLate

LEMMA MeasureKept == TypeOK /\ InStep => WithinMeasure
<1> SUFFICES ASSUME TypeOK, InStep, NEW p \in People
             PROVE  rings[p] <= MaxAttempts + failures /\ messages[p] <= 1 + failures
  BY DEF WithinMeasure
<1>1. ASSUME NEW c \in Calls, RungAs(rings[p], c, failures)
      PROVE  rings[p] <= MaxAttempts + failures
  <2>1. /\ c.attempts \in Nat /\ c.attempts <= MaxAttempts /\ MaxAttempts \in Nat
        /\ rings[p] \in Nat /\ failures \in Nat
    BY RingAssumption DEF Calls, TypeOK
  <2> QED
    BY <1>1, <2>1 DEF RungAs
<1>2. CASE \A r \in Rounds : p \notin round[r].who
  BY <1>1, <1>2 DEF InStep, Unwritten, TypeOK
<1>3. CASE \E r \in Rounds : p \in round[r].who
  <2>1. PICK r \in Rounds : p \in round[r].who
    BY <1>3
  <2>2. round[r].new \in Calls /\ RungAs(rings[p], round[r].new, failures)
    BY <2>1 DEF InStep, ToWrite, TypeOK
  <2> QED
    BY <1>1, <2>2 DEF InStep
<1> QED
  BY <1>2, <1>3 DEF InStep

\* Where rounds and answers take turns, since they last started over nobody
\* has been rung more often than the group's maxAttempts or sent the fallback
\* twice, but once more for every round cut short before it had written.
THEOREM Measured == ~Overlap => (Spec => []WithinMeasure)
<1>1. ~Overlap /\ TypeOK /\ Ours /\ InStep /\ [Next]_vars => (TypeOK /\ Ours /\ InStep)'
  BY TypeStep, OursStep, StepInStep
<1>2. ASSUME ~Overlap PROVE Spec => []WithinMeasure
  <2>1. TypeOK /\ Ours /\ InStep /\ [Next]_vars => (TypeOK /\ Ours /\ InStep)'
    BY <1>1, <1>2
  <2> QED
    BY <2>1, InitType, InitOurs, InitInStep, MeasureKept, PTL DEF Spec
<1> QED
  BY <1>2

----------------------------------------------------------------------------
(* Whoever settled their call while no round was about to call them.  No   *)
(* round comes to hold an older record of theirs: what it reads from then  *)
(* on is settled, and a record it writes for them settles it too.          *)

\* Only a round about to write has somebody to write for, and those a late
\* round has left are ringing.
Ready(me) ==
  /\ me.pc # "set" => me.who = {}
  /\ me.pc \in {"each", "set"} /\ me.late => \A p \in me.todo : ~Settled(me.read[p])

Stood ==
  /\ \A r \in Rounds : Ready(round[r])
  /\ \A p \in stands : Settled(calls[p]) /\ \A r \in Rounds : ~Holds(round[r], p)

LEMMA InitStood == Init => Stood
<1> SUFFICES ASSUME Init PROVE Stood OBVIOUS
<1>1. /\ IdleRound.pc = "idle" /\ IdleRound.who = {}
      /\ NewRound(People).pc = "begin" /\ NewRound(People).who = {}
  BY DEF IdleRound, NewRound
<1>2. \A r \in Rounds : Ready(round[r])
  BY <1>1 DEF Init, Ready
<1> QED
  BY <1>2 DEF Init, Stood

\* A step of one round that changes no call.
LEMMA StoodTurn ==
  ASSUME TypeOK, Stood, NEW r \in Rounds, NEW m \in RoundRecs, Turns(r, m), Ready(m),
         \A p \in stands : ~Holds(m, p), UNCHANGED <<calls, stands>>
  PROVE  Stood'
<1>1. round'[r] = m /\ \A s \in Rounds \ {r} : round'[s] = round[s]
  BY TurnsType
<1> QED
  BY <1>1 DEF Stood

\* A round that holds nobody's record yet, or no longer.
LEMMA StoodFree ==
  ASSUME TypeOK, Stood, NEW r \in Rounds, NEW m \in RoundRecs, Turns(r, m),
         m.who = {}, m.pc \in {"idle", "begin", "again", "queue"}, UNCHANGED <<calls, stands>>
  PROVE  Stood'
<1>1. Ready(m) /\ \A p \in stands : ~Holds(m, p)
  BY DEF Ready, Holds
<1> QED
  BY <1>1, StoodTurn

LEMMA StoodWrite ==
  ASSUME TypeOK, Ours, Stood, NEW p \in People, RespondWrite(p)
  PROVE  Stood'
<1>1. /\ UNCHANGED round /\ calls'[p] = response[p].new /\ response[p].pc = "write"
      /\ \A q \in People \ {p} : calls'[q] = calls[q]
      /\ stands' = stands \cup Unheld({p}) /\ stands \subseteq People
  BY WriteStep DEF TypeOK
<1>2. Settled(calls'[p])
  BY <1>1 DEF Ours, Replies
<1>3. \A q \in stands' : Settled(calls'[q])
  BY <1>1, <1>2 DEF Stood, Unheld
<1>4. \A q \in stands', r \in Rounds : ~Holds(round[r], q)
  BY <1>1 DEF Stood, Unheld
<1> QED
  BY <1>1, <1>3, <1>4 DEF Stood

LEMMA StoodAgain ==
  ASSUME TypeOK, Stood, NEW r \in Rounds, StartsOver(r) \/ StaysAsTheyAre(r)
  PROVE  Stood'
<1>1. PICK p \in round[r].todo, m \in RoundRecs :
        /\ Turns(r, m) /\ m.pc = "again" /\ m.who = round[r].who
        /\ \/ UNCHANGED <<calls, stands>>
           \/ \E c : calls' = [calls EXCEPT ![p] = c] /\ stands' = stands \ {p}
  BY AgainStep
<1>2. m.who = {} /\ p \in People /\ stands \subseteq People /\ calls \in [People -> Calls]
  BY <1>1, AgainStep DEF Stood, Ready, TypeOK
<1>3. CASE UNCHANGED <<calls, stands>>
  BY <1>1, <1>2, <1>3, StoodFree
<1>4. CASE \E c : calls' = [calls EXCEPT ![p] = c] /\ stands' = stands \ {p}
  <2>1. /\ stands' \subseteq stands /\ \A q \in stands' : calls'[q] = calls[q]
    BY <1>2, <1>4
  <2>2. Ready(m) /\ \A q \in stands' : ~Holds(m, q)
    BY <1>1, <1>2 DEF Ready, Holds
  <2>3. round'[r] = m /\ \A s \in Rounds \ {r} : round'[s] = round[s]
    BY <1>1, TurnsType
  <2> QED
    BY <2>1, <2>2, <2>3 DEF Stood
<1> QED
  BY <1>1, <1>3, <1>4

LEMMA StoodBegin ==
  ASSUME TypeOK, Stood, NEW r \in Rounds, Begin(r)
  PROVE  Stood'
<1>1. UNCHANGED <<calls, stands>>
  BY BeginStep
<1>2. CASE Turns(r, IdleRound)
  <2>1. IdleRound \in RoundRecs /\ IdleRound.who = {} /\ IdleRound.pc = "idle"
    BY FixedTypes DEF IdleRound
  <2> QED
    BY <1>1, <1>2, <2>1, StoodFree
<1>3. ASSUME NEW m \in RoundRecs, Turns(r, m), m.who = {}, m.pc = "each",
             \A p \in m.todo : m.read[p] = calls[p],
             m.late => \A p \in m.todo : calls[p].status = "ringing"
      PROVE  Stood'
  <2>1. Ready(m)
    BY <1>3 DEF Ready, Settled
  <2>2. \A p \in stands : ~Holds(m, p)
    BY <1>3 DEF Stood, Holds
  <2> QED
    BY <1>1, <1>3, <2>1, <2>2, StoodTurn
<1> QED
  BY <1>2, <1>3, BeginStep

\* A round that is to write for p held an older record of theirs.
LEMMA TellsHeld ==
  ASSUME TypeOK, Stood, NEW r \in Rounds, round[r].pc = "each", NEW p \in round[r].todo,
         NEW c, Tells(r, p, c)
  PROVE  p \notin stands
<1>1. ~Settled(round[r].read[p])
  BY DEF Tells, Stood, Ready
<1> QED
  BY <1>1 DEF Stood, Holds

LEMMA StoodEach ==
  ASSUME TypeOK, Stood, NEW r \in Rounds, Each(r)
  PROVE  Stood'
<1>1. UNCHANGED <<calls, stands>> /\ round[r].pc = "each" /\ round[r].who = {} /\ round[r].todo \subseteq People
  BY EachTurn DEF Stood, Ready, TypeOK
<1>2. PICK p \in round[r].todo, m \in RoundRecs :
        /\ Turns(r, m) /\ m.late = round[r].late /\ m.todo = round[r].todo \ {p}
        /\ \A q \in People \ {p} : m.read[q] = round[r].read[q]
        /\ \/ m.pc = "each" /\ m.who = round[r].who /\ NoRing
           \/ m.pc = "set" /\ m.who = {p} /\ Tells(r, p, m.new)
  BY EachTurn
<1>3. \A q \in m.todo : q \in round[r].todo /\ m.read[q] = round[r].read[q]
  BY <1>1, <1>2
<1>4. Ready(m)
  BY <1>1, <1>2, <1>3 DEF Stood, Ready
<1>5. \A q \in stands : q \in m.todo => Settled(m.read[q])
  BY <1>1, <1>3 DEF Stood, Holds
<1>6. \A q \in stands : q \notin m.who
  BY <1>1, <1>2, TellsHeld
<1>7. \A q \in stands : ~Holds(m, q)
  BY <1>5, <1>6 DEF Holds
<1> QED
  BY <1>1, <1>2, <1>4, <1>7, StoodTurn

\* What it writes is a settled record, or for somebody who was held.
LEMMA StoodSet ==
  ASSUME TypeOK, Stood, NEW r \in Rounds, SetCall(r)
  PROVE  Stood'
<1> DEFINE who == round[r].who
           new == round[r].new
<1>1. /\ calls' = [p \in People |-> IF p \in who THEN new ELSE calls[p]] /\ round[r].pc = "set"
      /\ stands' = IF Settled(new) THEN stands \cup Unheld(who) ELSE stands
  BY SetStep
<1>2. PICK m \in RoundRecs : /\ Turns(r, m) /\ m.pc = "each" /\ m.who = {} /\ m.todo = round[r].todo
                             /\ m.read = round[r].read /\ m.late = round[r].late
  BY SetStep
<1>3. who \subseteq People /\ stands \subseteq People
  BY DEF TypeOK
<1>4. \A q \in stands', s \in Rounds : ~Holds(round[s], q)
  BY <1>1 DEF Stood, Unheld
<1>5. \A q \in stands' : Settled(calls'[q])
  <2> SUFFICES ASSUME NEW q \in stands' PROVE Settled(calls'[q])
    OBVIOUS
  <2>1. CASE q \in who
    <3>1. Settled(new)
      BY <1>4, <2>1 DEF Holds
    <3> QED
      BY <1>1, <1>3, <2>1, <3>1
  <2>2. CASE q \notin who
    <3>1. q \in stands
      BY <1>1, <2>2 DEF Unheld
    <3> QED
      BY <1>1, <1>3, <2>2, <3>1 DEF Stood
  <2> QED
    BY <2>1, <2>2
<1>6. \A q \in stands' : ~Holds(m, q)
  BY <1>1, <1>2, <1>4 DEF Holds
<1>7. Ready(m)
  BY <1>1, <1>2 DEF Stood, Ready
<1>8. round'[r] = m /\ \A s \in Rounds \ {r} : round'[s] = round[s]
  BY <1>2, TurnsType
<1> QED
  BY <1>4, <1>5, <1>6, <1>7, <1>8 DEF Stood

LEMMA StepStood == TypeOK /\ Ours /\ Stood /\ [Next]_vars => Stood'
<1> SUFFICES ASSUME TypeOK, Ours, Stood, [Next]_vars PROVE Stood' OBVIOUS
<1>1. CASE UNCHANGED <<calls, round, stands>>
  BY <1>1 DEF Stood
<1>2. CASE StateMoves \/ UNCHANGED vars \/ \E p \in People : Moves(p)
  BY <1>1, <1>2 DEF StateMoves, vars, Moves
<1>3. ASSUME NEW p \in People, BeginAnswer(p) \/ BeginDecline(p) \/ BeginJoin(p) PROVE Stood'
  BY <1>1, <1>3, ResponseStep
<1>4. ASSUME NEW p \in People, NEW r \in Rounds, AddPerson(p, r) PROVE Stood'
  <2>1. /\ UNCHANGED <<calls, stands>> /\ NewRound({p}) \in RoundRecs
        /\ NewRound({p}).pc = "begin" /\ NewRound({p}).who = {}
        /\ Turns(r, NewRound({p})) \/ UNCHANGED round
    BY <1>4, AddStep
  <2> QED
    BY <1>1, <2>1, StoodFree
<1>5. ASSUME NEW r \in Rounds, Claim(r, FALSE) \/ Claim(r, TRUE) \/ RingAgain(r) PROVE Stood'
  <2>1. PICK m \in RoundRecs : Turns(r, m) /\ m.pc \in {"begin", "again"} /\ m.who = {}
    BY <1>5, StartStep
  <2>2. UNCHANGED <<calls, stands>>
    BY <1>5, StartStep
  <2> QED
    BY <2>1, <2>2, StoodFree
<1>6. ASSUME NEW r \in Rounds, LookForPending(r) \/ QueueNext(r) \/ Fails(r) PROVE Stood'
  <2>1. PICK m \in RoundRecs : Turns(r, m) /\ m.pc \in {"idle", "queue"} /\ m.who = {}
    BY <1>6, LastStep
  <2>2. UNCHANGED <<calls, stands>>
    BY <1>6, LastStep
  <2> QED
    BY <2>1, <2>2, StoodFree
<1> QED
  BY <1>2, <1>3, <1>4, <1>5, <1>6, StoodWrite, StoodAgain, StoodBegin, StoodEach, StoodSet
     DEF Next, RoundSteps, ClaimInTime, ClaimLate

\* A ring is only ever for somebody a round holds an older record of.
LEMMA RingStep ==
  ASSUME TypeOK, Stood, [Next]_vars, NEW p \in People, rings'[p] = rings[p] + 1
  PROVE  p \notin stands
<1>1. rings \in [People -> Nat]
  BY DEF TypeOK
<1>2. ASSUME NEW r \in Rounds, Each(r) PROVE p \notin stands
  <2>1. PICK q \in round[r].todo : NoRing \/ \E c : Tells(r, q, c)
    BY <1>2, EachTurn
  <2>2. q = p /\ \E c : Tells(r, q, c)
    BY <1>1, <2>1 DEF Tells, NoRing
  <2>3. round[r].pc = "each"
    BY <1>2, EachTurn
  <2> QED
    BY <2>1, <2>2, <2>3, TellsHeld
<1>3. ASSUME NEW r \in Rounds, StartsOver(r) \/ StaysAsTheyAre(r) PROVE FALSE
  BY <1>1, <1>3, AgainStep
<1>4. CASE UNCHANGED rings
  BY <1>1, <1>4
<1>5. \/ UNCHANGED rings
      \/ \E r \in Rounds : Each(r) \/ StartsOver(r) \/ StaysAsTheyAre(r)
  BY DEF Next, StateMoves, Moves, BeginAnswer, BeginDecline, BeginJoin, Writes, RespondWrite, AddPerson,
         ClaimInTime, ClaimLate, Claim, RingAgain, RoundSteps, Begin, SetCall, LookForPending, QueueNext,
         Fails, vars
<1> QED
  BY <1>2, <1>3, <1>4, <1>5

\* However rounds and answers overlap, whoever answers, declines or comes
\* while no round is about to call them is not rung again, unless somebody
\* presses Ring again for them.
THEOREM AreLeftAlone == Spec => LeftAlone
<1>1. TypeOK /\ Ours /\ Stood /\ [Next]_vars => (TypeOK /\ Ours /\ Stood)'
  BY TypeStep, OursStep, StepStood
<1>2. TypeOK /\ Stood /\ [Next]_vars =>
        [\A p \in People : rings'[p] = rings[p] + 1 => p \notin stands]_vars
  BY RingStep
<1> QED
  BY <1>1, <1>2, InitType, InitOurs, InitStood, PTL DEF Spec, LeftAlone
=============================================================================
