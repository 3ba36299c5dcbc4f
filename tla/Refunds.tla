------------------------------ MODULE Refunds ------------------------------
(***************************************************************************)
(* lib/finance/refunds.ts: refunds of one ticket sale through Stripe, and  *)
(* lib/finance/ledger.ts: Stripe's charge.refunded calls, which mirror the *)
(* refunds on the sale, those made here among them.  Left out: refunds     *)
(* recorded by hand, ending the plan, the audit log.                       *)
(***************************************************************************)
EXTENDS Integers, Sequences

CONSTANTS
  Requests,    \* refund requests that may be in flight at once
  Price,       \* of the sale; a refund is of a whole number
  MaxRequests, \* bound: how many are made
  MaxDeaths,   \* bound: how many die on the way
  MaxErrors,   \* bound: how often Stripe's answer is an error or is lost
  Apart,       \* whether Stripe's calls come in order and while no refund is under way
  Slow         \* whether a refund may take longer than its lock's minute

VARIABLES
  sale,      \* the stored sale: how often each Stripe refund is on it, and refundedAmount
  refundLock, \* the minute's lock
  sent,      \* Stripe's refunds, in order: their idempotency key and amount
  request,   \* each request
  mirror,    \* the charge.refunded call being handled
  heard,     \* which of those have been handled
  requests, died, errors   \* the bounds' counters

vars == <<sale, refundLock, sent, request, mirror, heard, requests, died, errors>>

Refs == 1 .. Price
NewSale == [on |-> [r \in Refs |-> 0], refunded |-> 0]
IdleRequest == [pc |-> "idle", amount |-> 0, ref |-> 0, copy |-> NewSale]
IdleMirror == [event |-> 0, read |-> FALSE, copy |-> NewSale]

Init ==
  /\ sale = NewSale
  /\ refundLock = "none"
  /\ sent = <<>>
  /\ request = [q \in Requests |-> IdleRequest]
  /\ mirror = IdleMirror
  /\ heard = {}
  /\ requests = 0 /\ died = 0 /\ errors = 0

Goes(q, next) == request' = [request EXCEPT ![q] = next]
To(q, pc) == Goes(q, [request[q] EXCEPT !.pc = pc])
SumUpTo(f, n) == LET s[i \in Nat] == IF i = 0 THEN 0 ELSE s[i - 1] + f[i] IN s[n]
\* What Stripe has returned by its first n refunds.
Returned(n) == SumUpTo([i \in 1 .. Len(sent) |-> sent[i].amount], n)
\* What the entries of a sale add up to, and how many they are.
AddedUp(s) == SumUpTo([i \in 1 .. Len(sent) |-> s.on[i] * sent[i].amount], Len(sent))
Entries(s) == SumUpTo(s.on, Price)

----------------------------------------------------------------------------
(* refundPayment.                                                          *)

\* The amount is judged on the sale as read before the lock.
Ask(q) ==
  /\ request[q].pc = "idle" /\ requests < MaxRequests
  /\ requests' = requests + 1
  /\ \E amount \in 1 .. (Price - sale.refunded) :
       Goes(q, [IdleRequest EXCEPT !.pc = "lock", !.amount = amount])
  /\ UNCHANGED <<sale, refundLock, sent, mirror, heard, died, errors>>

TakeLock(q) ==
  /\ request[q].pc = "lock"
  /\ IF refundLock = "none"
     THEN refundLock' = q /\ To(q, "look")
     ELSE UNCHANGED refundLock /\ Goes(q, IdleRequest)
  /\ UNCHANGED <<sale, sent, mirror, heard, requests, died, errors>>

Look(q) ==
  /\ request[q].pc = "look"
  /\ Apart => mirror = IdleMirror
  /\ Goes(q, [request[q] EXCEPT !.pc = "stripe", !.copy = sale])
  /\ UNCHANGED <<sale, refundLock, sent, mirror, heard, requests, died, errors>>

\* Mutant: a second refund of one amount is taken for the first.
AmountOnly(q) == <<0, request[q].amount>>
IdempotencyKey(q) == <<Entries(request[q].copy), request[q].amount>>

\* Stripe answers a key it knows with the refund it made, and returns no
\* more than was paid.
Known(q) == {i \in 1 .. Len(sent) : sent[i].key = IdempotencyKey(q)}
StripeReturns(q) ==
  /\ Known(q) = {} /\ Returned(Len(sent)) + request[q].amount <= Price
  /\ sent' = Append(sent, [key |-> IdempotencyKey(q), amount |-> request[q].amount])

Stripe(q) ==
  /\ request[q].pc = "stripe"
  /\ \/ /\ StripeReturns(q)
        /\ Goes(q, [request[q] EXCEPT !.pc = "fresh", !.ref = Len(sent) + 1])
     \/ /\ Known(q) # {}
        /\ Goes(q, [request[q] EXCEPT !.pc = "fresh", !.ref = CHOOSE i \in Known(q) : TRUE])
        /\ UNCHANGED sent
     \/ /\ Known(q) = {} /\ Returned(Len(sent)) + request[q].amount > Price
        /\ To(q, "unlock")
        /\ UNCHANGED sent
  /\ UNCHANGED <<sale, refundLock, mirror, heard, requests, died, errors>>

\* An error, perhaps with the money sent.
StripeFails(q) ==
  /\ request[q].pc = "stripe" /\ errors < MaxErrors
  /\ errors' = errors + 1
  /\ To(q, "unlock")
  /\ StripeReturns(q) \/ UNCHANGED sent
  /\ UNCHANGED <<sale, refundLock, mirror, heard, requests, died>>

ReadFresh(q) ==
  /\ request[q].pc = "fresh"
  /\ Goes(q, [request[q] EXCEPT !.pc = "save", !.copy = sale])
  /\ UNCHANGED <<sale, refundLock, sent, mirror, heard, requests, died, errors>>

WithEntry(s, ref) ==
  LET on == [s.on EXCEPT ![ref] = @ + 1]
  IN [on |-> on, refunded |-> AddedUp([s EXCEPT !.on = on])]

Save(q) ==
  /\ request[q].pc = "save"
  /\ sale' = WithEntry(request[q].copy, request[q].ref)
  /\ To(q, "unlock")
  /\ UNCHANGED <<refundLock, sent, mirror, heard, requests, died, errors>>

Unlock(q) ==
  /\ request[q].pc = "unlock"
  /\ refundLock' = "none"   \* whosever it is
  /\ Goes(q, IdleRequest)
  /\ UNCHANGED <<sale, sent, mirror, heard, requests, died, errors>>

Dies(q) ==
  /\ request[q].pc \notin {"idle", "lock"} /\ died < MaxDeaths
  /\ died' = died + 1
  /\ refundLock' = IF refundLock = q THEN "dead" ELSE refundLock
  /\ Goes(q, IdleRequest)
  /\ UNCHANGED <<sale, sent, mirror, heard, requests, errors>>

\* After a minute: its request is dead, or Slow.
LockExpires ==
  /\ refundLock \in {"dead"} \cup (IF Slow THEN Requests ELSE {})
  /\ refundLock' = "none"
  /\ UNCHANGED <<sale, sent, request, mirror, heard, requests, died, errors>>

----------------------------------------------------------------------------
(* mirrorStripeRefund: the charge as it was at the event.  Stripe repeats  *)
(* a call until it is answered, and sometimes after.                       *)

UnderWay == {q \in Requests : request[q].pc \in {"stripe", "fresh", "save"}}

\* In order: the call after those handled, or the last one again.
InOrder(event) == heard = 1 .. (event - 1) \/ heard = 1 .. event

MirrorReads ==
  /\ mirror = IdleMirror
  /\ \E event \in 1 .. Len(sent) :
       /\ Apart => UnderWay = {} /\ InOrder(event)
       /\ mirror' = [event |-> event, read |-> TRUE, copy |-> sale]
  /\ UNCHANGED <<sale, refundLock, sent, request, heard, requests, died, errors>>

\* Mutant: also those on it already.
AddedToAll(s, event) == [r \in Refs |-> IF r \in 1 .. event THEN s.on[r] + 1 ELSE s.on[r]]
Mirrored(s, event) == [r \in Refs |-> IF r \in 1 .. event /\ s.on[r] = 0 THEN 1 ELSE s.on[r]]

MirrorSaves ==
  /\ mirror.read
  /\ sale' = [on |-> Mirrored(mirror.copy, mirror.event), refunded |-> Returned(mirror.event)]
  /\ heard' = heard \cup {mirror.event}
  /\ mirror' = IdleMirror
  /\ UNCHANGED <<refundLock, sent, request, requests, died, errors>>

----------------------------------------------------------------------------

Next ==
  \/ LockExpires \/ MirrorReads \/ MirrorSaves
  \/ \E q \in Requests :
       \/ Ask(q) \/ TakeLock(q) \/ Look(q) \/ Stripe(q) \/ StripeFails(q)
       \/ ReadFresh(q) \/ Save(q) \/ Unlock(q) \/ Dies(q)

Spec == Init /\ [][Next]_vars

----------------------------------------------------------------------------
(* Properties.                                                             *)

\* Every variable has its type.
TypeOK ==
  /\ sale \in [on : [Refs -> Nat], refunded : 0 .. Price]
  /\ refundLock \in Requests \cup {"none", "dead"}
  /\ Len(sent) <= Price /\ heard \subseteq 1 .. Len(sent)
  /\ \A q \in Requests : request[q].ref \in 0 .. Len(sent)
  /\ requests \in 0 .. MaxRequests /\ died \in 0 .. MaxDeaths /\ errors \in 0 .. MaxErrors

\* "The payment is marked refunded (or partly refunded)": with nothing in
\* flight and all of Stripe's calls handled, each of Stripe's refunds is on
\* the sale once and their sum is what it says was returned, whichever
\* requests died or lost Stripe's answer and were made again.
RecordSettles ==
  (\A q \in Requests : request[q].pc = "idle") /\ mirror = IdleMirror /\ heard = 1 .. Len(sent) =>
    /\ \A i \in 1 .. Len(sent) : sale.on[i] = 1
    /\ sale.refunded = Returned(Len(sent))

\* "One refund at a time per payment: a double click must not refund twice":
\* none of Stripe's refunds is entered twice.
EnteredOnce == \A r \in Refs : sale.on[r] <= 1
=============================================================================
