------------------------------- MODULE Payouts -------------------------------
(***************************************************************************)
(* An organisation's balance and the ways money leaves it: payout requests *)
(* of the artist (portal.rs), the orders staff make of them and the bank's *)
(* answers (finance.rs), and add-ons paid from the balance (migration      *)
(* 0157).  Decisions that read the withdrawable balance hold the           *)
(* organisation's advisory lock from the check to the commit; the bank's   *)
(* results, staff cancellations, holds and royalties do not take it.       *)
(*                                                                         *)
(* The bank is part of the model, because what staff record is only worth  *)
(* what the bank did: bank and notice are its truth, order and payable the *)
(* books.                                                                  *)
(***************************************************************************)
EXTENDS Integers, FiniteSets, Functions

CONSTANTS Request,     \* payout requests, by idempotency key
          Order,       \* payout orders that can be made
          Notice,      \* references of the bank's return notices
          Addon,       \* add-on orders payable from the balance
          None,        \* no order, no request
          Amounts,     \* amounts the artist may ask for
          AddonPrice,
          Credits,     \* amounts credited at a time
          MaxCredited, \* bound: everything ever credited
          MaxHolds,    \* bound: holds placed
          SmallLimit, SmallFee  \* payout_policy: SMALL_PAYOUT_LIMIT, _FEE

ASSUME PayoutsAssumption ==
    /\ Amounts \subseteq Nat \ {0} /\ Credits \subseteq Nat \ {0}
    /\ AddonPrice \in Nat \ {0} /\ MaxCredited \in Nat /\ MaxHolds \in Nat
    /\ SmallLimit \in Nat /\ SmallFee \in Nat
    /\ None \notin Request \cup Order
    /\ IsFiniteSet(Request) /\ IsFiniteSet(Order) /\ IsFiniteSet(Notice) /\ IsFiniteSet(Addon)

VARIABLES
    payable,   \* sum of the ROYALTY_PAYABLE ledger lines
    earned,    \* the part of it credited for tracks (lines with an ISRC)
    credited,  \* history: everything ever credited to the organisation
    trackHold, \* an ISRC or RELEASE hold covers the tracks
    payeeHold, \* a PARTY hold covers the payee
    holds,     \* holds placed so far
    request,   \* portal.payout_requests
    order,     \* finance.payout_orders
    addon,     \* portal.addon_orders
    booked,    \* finance.payout_returns, by bank reference
    decision,  \* the call that holds the organisation's lock
    bank,      \* what the bank did with the transfer of an order
    notice     \* what the bank sent back, and of which order

vars == <<payable, earned, credited, trackHold, payeeHold, holds, request, order,
          addon, booked, decision, bank, notice>>

ledger == <<payable, earned, credited>>
holding == <<trackHold, payeeHold, holds>>
truth == <<bank, notice>>

RequestStatus == {"NONE", "REQUESTED", "ORDERED", "CANCELLED"}

\* Orders withdrawable counts as reserved.
Open == {"PENDING_APPROVAL", "APPROVED", "SUBMITTED", "SUBMITTED_UNKNOWN"}

\* Orders out of the payout_orders_request_open index.
Over == {"NONE", "RETURNED", "FAILED", "CANCELLED"}

OrderStatus == Open \cup Over \cup {"SETTLED"}

NoRequest == [status |-> "NONE", amount |-> 0, order |-> None]
NoOrder == [status |-> "NONE", amount |-> 0, request |-> None, reissueOf |-> None,
            posted |-> FALSE]
NoNotice == [order |-> None, amount |-> 0]
Idle == [op |-> "none", id |-> None, amount |-> 0]

-----------------------------------------------------------------------------
(* Balances *)

FeeOf(amount) == IF amount <= SmallLimit THEN SmallFee ELSE 0
NetOf(amount) == amount - FeeOf(amount)

\* finance.held_payable: the lines of held tracks.
HeldPayable == IF trackHold THEN earned ELSE 0

\* What finance.withdrawable reserves, self aside.
Reserved(self) ==
    LET requests == {r \in Request : /\ request[r].status = "REQUESTED" /\ r # self
                                     /\ \A o \in Order : o = self => order[o].request # r}
        orders == {o \in Order : /\ order[o].status \in Open /\ o # self
                                 /\ (self # None => order[o].request # self)}
    IN  SumFunctionOnSet([r \in Request |-> request[r].amount], requests)
          + SumFunctionOnSet([o \in Order |-> order[o].amount], orders)

\* Mutant of Withdrawable: the balance before 0128, without what is reserved.
WithdrawableUnreserved(self) == payable - HeldPayable

Withdrawable(self) == payable - HeldPayable - Reserved(self)

\* ensure_payable, once the lock is held.
Payable(self, amount) == ~payeeHold /\ Withdrawable(self) >= amount

\* What the books say came back of an order.
Returned(o) ==
    SumFunctionOnSet([n \in Notice |-> notice[n].amount], {n \in booked : notice[n].order = o})

\* What the bank sent back of it, and what the artist therefore has of it.
SentBack(o) ==
    SumFunctionOnSet([n \in Notice |-> notice[n].amount], {n \in Notice : notice[n].order = o})
Kept(o) == IF bank[o] = "out" THEN NetOf(order[o].amount) - SentBack(o) ELSE 0

-----------------------------------------------------------------------------
Init ==
    /\ payable = 0 /\ earned = 0 /\ credited = 0
    /\ trackHold = FALSE /\ payeeHold = FALSE /\ holds = 0
    /\ request = [r \in Request |-> NoRequest]
    /\ order = [o \in Order |-> NoOrder]
    /\ addon = [a \in Addon |-> "AWAITING_PAYMENT"]
    /\ booked = {}
    /\ decision = Idle
    /\ bank = [o \in Order |-> "none"]
    /\ notice = [n \in Notice |-> NoNotice]

(* The ledger and its holds *)

\* A report, a statement or a settled share credits the balance, with an ISRC
\* or without; no lock is taken.
CreditRoyalty(amount, forTrack) ==
    /\ credited + amount <= MaxCredited
    /\ payable' = payable + amount
    /\ credited' = credited + amount
    /\ earned' = IF forTrack THEN earned + amount ELSE earned
    /\ UNCHANGED <<holding, request, order, addon, booked, decision, truth>>

StaffCredit(amount) == decision = Idle /\ CreditRoyalty(amount, FALSE)

PlaceHold ==
    /\ holds < MaxHolds
    /\ holds' = holds + 1
    /\ \/ trackHold' = TRUE /\ UNCHANGED payeeHold
       \/ payeeHold' = TRUE /\ UNCHANGED trackHold
    /\ UNCHANGED <<ledger, request, order, addon, booked, decision, truth>>

ReleaseHold ==
    /\ \/ trackHold /\ trackHold' = FALSE /\ UNCHANGED payeeHold
       \/ payeeHold /\ payeeHold' = FALSE /\ UNCHANGED trackHold
    /\ UNCHANGED <<ledger, holds, request, order, addon, booked, decision, truth>>

-----------------------------------------------------------------------------
(* Decisions: take the lock and check, then write and commit *)

Decide(op, id, amount) ==
    /\ decision = Idle
    /\ decision' = [op |-> op, id |-> id, amount |-> amount]
    /\ UNCHANGED <<ledger, holding, request, order, addon, booked, truth>>

\* A key seen before returns its request as it stands.
DecideRequest(r, amount) ==
    /\ request[r].status = "NONE"
    /\ NetOf(amount) > 0
    /\ Payable(None, amount)
    /\ Decide("request", r, amount)

DecideOrder(r) ==
    /\ request[r].status = "REQUESTED"
    /\ Payable(r, request[r].amount)
    /\ Decide("order", r, request[r].amount)

\* Only the row's existence is read before the balance is checked.
DecideApprove(o) ==
    /\ order[o].status # "NONE"
    /\ Payable(o, order[o].amount)
    /\ Decide("approve", o, order[o].amount)

DecideSubmit(o) ==
    /\ order[o].status # "NONE"
    /\ bank[o] # "none"  \* the bank's transaction id exists once the transfer does
    /\ Payable(o, order[o].amount)
    /\ Decide("submit", o, order[o].amount)

Reissuable(o) == order[o].status \in {"RETURNED", "FAILED"}

DecideReissue(o) ==
    /\ Reissuable(o)
    /\ Payable(None, order[o].amount)
    /\ Decide("reissue", o, order[o].amount)

DecideCharge(a) ==
    /\ addon[a] = "AWAITING_PAYMENT"
    /\ Withdrawable(None) >= AddonPrice
    /\ Decide("charge", a, AddonPrice)

Committing(op) == decision.op = op /\ decision' = Idle

CommitRequest ==
    /\ Committing("request")
    /\ request' = [request EXCEPT ![decision.id] =
                       [status |-> "REQUESTED", amount |-> decision.amount, order |-> None]]
    /\ UNCHANGED <<ledger, holding, order, addon, booked, truth>>

NewOrder(o, r, reissueOf) ==
    /\ order[o].status = "NONE"
    /\ order' = [order EXCEPT ![o] =
                     [status |-> "PENDING_APPROVAL", amount |-> decision.amount,
                      request |-> r, reissueOf |-> reissueOf, posted |-> FALSE]]

CommitOrder ==
    /\ Committing("order")
    /\ \E o \in Order :
          /\ NewOrder(o, decision.id, None)
          /\ request' = [request EXCEPT ![decision.id].status = "ORDERED",
                                        ![decision.id].order = o]
    /\ UNCHANGED <<ledger, holding, addon, booked, truth>>

\* The update carries the status it expects: a cancellation in between
\* leaves it without a row.
Advance(from, to) ==
    /\ order[decision.id].status = from
    /\ order' = [order EXCEPT ![decision.id].status = to]
    /\ UNCHANGED <<ledger, holding, request, addon, booked, truth>>

CommitApprove == Committing("approve") /\ Advance("PENDING_APPROVAL", "APPROVED")
CommitSubmit == Committing("submit") /\ Advance("APPROVED", "SUBMITTED")

\* Mutant of CommitReissue: neither unique index.
CommitReissueAgain ==
    /\ Committing("reissue")
    /\ \E o \in Order :
          /\ NewOrder(o, order[decision.id].request, decision.id)
          /\ request' = [request EXCEPT ![order[decision.id].request].order = o]
    /\ UNCHANGED <<ledger, holding, addon, booked, truth>>

\* Mutant of CommitReissue: the request keeps naming the order before.
CommitReissueUnnamed ==
    /\ Committing("reissue")
    /\ \A o \in Order : order[o].request = order[decision.id].request => order[o].status \in Over
    /\ \E o \in Order : NewOrder(o, order[decision.id].request, decision.id)
    /\ UNCHANGED <<ledger, holding, request, addon, booked, truth>>

\* The unique indexes refuse a second reissue and a second live order.
CommitReissue ==
    LET old == decision.id IN
    /\ Committing("reissue")
    /\ \A o \in Order : order[o].reissueOf # old
    /\ \A o \in Order : order[o].request = order[old].request => order[o].status \in Over
    /\ \E o \in Order :
          /\ NewOrder(o, order[old].request, old)
          /\ request' = [r \in Request |->
                             IF request[r].order = old THEN [request[r] EXCEPT !.order = o]
                             ELSE request[r]]
    /\ UNCHANGED <<ledger, holding, addon, booked, truth>>

CommitCharge ==
    /\ Committing("charge")
    /\ payable' = payable - decision.amount
    /\ addon' = [addon EXCEPT ![decision.id] = "SUBMITTED"]
    /\ UNCHANGED <<earned, credited, holding, request, order, booked, truth>>

\* A lost connection, or a statement no row answers.
RollBack ==
    /\ decision # Idle
    /\ decision' = Idle
    /\ UNCHANGED <<ledger, holding, request, order, addon, booked, truth>>

-----------------------------------------------------------------------------
(* Cancellations *)

\* Mutant of ArtistCancels: cancel_unsent_payout before 0100.
ArtistCancelsApproved(status) == status \in {"PENDING_APPROVAL", "APPROVED"}

\* finance.cancel_unsent_payout: before the order is approved, never after.
ArtistCancels(status) == status = "PENDING_APPROVAL"

CancelPayout(r) ==
    /\ decision = Idle
    /\ \/ /\ request[r].status = "REQUESTED"
          /\ UNCHANGED order
       \/ /\ request[r].status = "ORDERED"
          /\ ArtistCancels(order[request[r].order].status)
          /\ order' = [order EXCEPT ![request[r].order].status = "CANCELLED"]
    /\ request' = [request EXCEPT ![r].status = "CANCELLED"]
    /\ UNCHANGED <<ledger, holding, addon, booked, decision, truth>>

\* Staff cancel before the hand-over; no lock of the organisation.
CancelPayoutOrder(o) ==
    /\ order[o].status \in {"PENDING_APPROVAL", "APPROVED"}
    /\ bank[o] # "out"  \* staff do not cancel a transfer they made
    /\ order' = [order EXCEPT ![o].status = "CANCELLED"]
    /\ request' = [r \in Request |->
                       IF request[r].order = o THEN [request[r] EXCEPT !.status = "CANCELLED"]
                       ELSE request[r]]
    /\ UNCHANGED <<ledger, holding, addon, booked, decision, truth>>

-----------------------------------------------------------------------------
(* The bank and what is recorded of it *)

\* Staff transfer the net amount of an order that is approved.
Transfer(o) ==
    /\ order[o].status = "APPROVED"
    /\ bank[o] = "none"
    /\ bank' = [bank EXCEPT ![o] = "out"]
    /\ UNCHANGED <<ledger, holding, request, order, addon, booked, decision, notice>>

\* The bank turns the transfer down before anything of it is confirmed.
Refuse(o) ==
    /\ bank[o] = "out" /\ ~order[o].posted /\ SentBack(o) = 0
    /\ bank' = [bank EXCEPT ![o] = "refused"]
    /\ UNCHANGED <<ledger, holding, request, order, addon, booked, decision, notice>>

\* Part or all of a transfer comes back, under a reference of the bank.
SendBack(n, o, amount) ==
    /\ notice[n] = NoNotice
    /\ Kept(o) > 0 /\ amount <= Kept(o)
    /\ notice' = [notice EXCEPT ![n] = [order |-> o, amount |-> amount]]
    /\ UNCHANGED <<ledger, holding, request, order, addon, booked, decision, bank>>

Outcome == {"SETTLED", "FAILED", "RETURNED", "UNKNOWN"}

StatusOf(outcome) == IF outcome = "UNKNOWN" THEN "SUBMITTED_UNKNOWN" ELSE outcome

\* Mutant of Awaiting: a repeated confirmation is posted again.
AwaitingOrSettled(status) == status \in {"APPROVED", "SUBMITTED", "SUBMITTED_UNKNOWN", "SETTLED"}

Awaiting(status) == status \in {"APPROVED", "SUBMITTED", "SUBMITTED_UNKNOWN"}

\* Staff record what happened; when they cannot tell, they record that.
True(o, outcome) ==
    CASE outcome = "SETTLED" -> bank[o] = "out"
      [] outcome = "FAILED" -> bank[o] # "out"
      [] outcome = "RETURNED" -> bank[o] # "none" /\ Kept(o) = 0
      [] outcome = "UNKNOWN" -> TRUE

\* record_bank_result: the row is locked; SETTLED posts the debit with it.
RecordBankResult(o, outcome) ==
    /\ Awaiting(order[o].status)
    /\ True(o, outcome)
    /\ order' = [order EXCEPT ![o].status = StatusOf(outcome), ![o].posted = outcome = "SETTLED"]
    /\ payable' = IF outcome = "SETTLED" THEN payable - order[o].amount ELSE payable
    /\ UNCHANGED <<earned, credited, holding, request, addon, booked, decision, truth>>

\* A reference that is booked answers what it answered before.
Unbooked(n) == n \notin booked

\* record_payout_return: the amount of the notice, and with the last of it
\* the fee if staff give it back.
RecordPayoutReturn(n, refundFee) ==
    LET o == notice[n].order
        full == Returned(o) + notice[n].amount = NetOf(order[o].amount)
        fee == IF refundFee THEN FeeOf(order[o].amount) ELSE 0
    IN  /\ decision = Idle
        /\ o # None
        /\ Unbooked(n)
        /\ order[o].status = "SETTLED"
        /\ Returned(o) + notice[n].amount <= NetOf(order[o].amount)
        /\ refundFee => full /\ fee > 0
        /\ payable' = payable + notice[n].amount + fee
        /\ booked' = booked \cup {n}
        /\ order' = IF full THEN [order EXCEPT ![o].status = "RETURNED"] ELSE order
        /\ UNCHANGED <<earned, credited, holding, request, addon, decision, truth>>

-----------------------------------------------------------------------------
(* Add-ons paid from the balance *)

\* An order is cancelled or rejected; what was charged for it comes back.
CloseAddon(a) ==
    /\ addon[a] \in {"AWAITING_PAYMENT", "SUBMITTED"}
    /\ decision = Idle
    /\ addon' = [addon EXCEPT ![a] = "CANCELLED"]
    /\ payable' = IF addon[a] = "SUBMITTED" THEN payable + AddonPrice ELSE payable
    /\ UNCHANGED <<earned, credited, holding, request, order, booked, decision, truth>>

-----------------------------------------------------------------------------
Decisions ==
    \/ \E r \in Request : DecideOrder(r) \/ \E amount \in Amounts : DecideRequest(r, amount)
    \/ \E o \in Order : DecideApprove(o) \/ DecideSubmit(o) \/ DecideReissue(o)
    \/ \E a \in Addon : DecideCharge(a)
    \/ CommitRequest \/ CommitOrder \/ CommitApprove \/ CommitSubmit \/ CommitReissue
    \/ CommitCharge \/ RollBack

Next ==
    \/ Decisions
    \/ \E amount \in Credits : StaffCredit(amount) \/ \E t \in BOOLEAN : CreditRoyalty(amount, t)
    \/ PlaceHold \/ ReleaseHold
    \/ \E r \in Request : CancelPayout(r)
    \/ \E o \in Order :
          \/ CancelPayoutOrder(o) \/ Transfer(o) \/ Refuse(o)
          \/ \E outcome \in Outcome : RecordBankResult(o, outcome)
          \/ \E n \in Notice, amount \in 1 .. MaxCredited : SendBack(n, o, amount)
    \/ \E n \in Notice, refundFee \in BOOLEAN : RecordPayoutReturn(n, refundFee)
    \/ \E a \in Addon : CloseAddon(a)

Spec == Init /\ [][Next]_vars

-----------------------------------------------------------------------------
(* Properties *)

TypeOK ==
    /\ payable \in Int /\ earned \in Nat /\ credited \in 0 .. MaxCredited
    /\ trackHold \in BOOLEAN /\ payeeHold \in BOOLEAN /\ holds \in 0 .. MaxHolds
    /\ request \in [Request -> [status: RequestStatus, amount: Amounts \cup {0},
                                order: Order \cup {None}]]
    /\ order \in [Order -> [status: OrderStatus, amount: Amounts \cup {0},
                            request: Request \cup {None}, reissueOf: Order \cup {None},
                            posted: BOOLEAN]]
    /\ addon \in [Addon -> {"AWAITING_PAYMENT", "SUBMITTED", "CANCELLED"}]
    /\ booked \subseteq Notice
    /\ decision \in [op: {"none", "request", "order", "approve", "submit", "reissue", "charge"},
                     id: Request \cup Order \cup Addon \cup {None},
                     amount: Amounts \cup {0, AddonPrice}]
    /\ bank \in [Order -> {"none", "out", "refused"}]
    /\ notice \in [Notice -> [order: Order \cup {None}, amount: 0 .. MaxCredited]]

Charged == AddonPrice * Cardinality({a \in Addon : addon[a] = "SUBMITTED"})
Held(S) == SumFunctionOnSet([o \in Order |-> Kept(o)], S)

\* Money is in one place: what the artist can still ask for or spend, what
\* reached their account and what paid for add-ons never add up to more than
\* was credited, whatever was cancelled, returned or issued again (0100).
NeverTwice == payable - Reserved(None) + Held(Order) + Charged <= credited

\* What is reserved is always there: the requests and orders under way never
\* exceed the balance they will be paid from, however many calls race.
Covered == Reserved(None) <= payable

\* What the books owe to nobody: the fees.
FeesTaken == credited - payable - Charged - Held(Order)
FeesOf(S) == SumFunctionOnSet([o \in Order |-> FeeOf(order[o].amount)], S)

\* When every transfer's outcome and every return is recorded, the books
\* agree with the bank: what was credited is payable, spent on add-ons or with
\* the artist, save the fee of each order still settled and, unless staff gave
\* it back, of each order returned after its settlement.
BooksMatchBank ==
    (/\ \A o \in Order : bank[o] = "out" => order[o].posted
     /\ \A n \in Notice : notice[n].order # None => n \in booked)
        => FeesTaken \in FeesOf({o \in Order : order[o].status = "SETTLED"}) ..
                         FeesOf({o \in Order : order[o].posted})

\* A payout request is paid once: of all its orders, reissues included, the
\* artist has the money of at most one.
PaidOnce ==
    \A o, p \in Order :
        Kept(o) > 0 /\ Kept(p) > 0 /\ order[o].request = order[p].request => o = p

\* The artist cancels the order that is in flight: of the orders of a request
\* the only one that may still be paid is the one the request names.
RequestFollowsOrder ==
    \A o \in Order :
        order[o].status \in Open => request[order[o].request].order = o

=============================================================================
