---------------------------- MODULE AddonCheckout ----------------------------
(***************************************************************************)
(* The add-on orders of one release and their payment (addons.rs,          *)
(* payments.rs, migration 0157).  A card payment is opened for a set of    *)
(* unpaid orders, completed in a window of the provider and confirmed      *)
(* later; confirming and refunding call the provider in the middle of a    *)
(* database transaction, so a stop in between loses what was written and   *)
(* keeps what was taken or given back.                                     *)
(*                                                                         *)
(* Only confirm and close_and_refund wait for the provider with rows       *)
(* locked: one such call is in progress at a time, which is all that       *)
(* locked rows let meet.                                                   *)
(***************************************************************************)
EXTENDS Integers, FiniteSets, FiniteSetsExt

CONSTANTS Order,      \* the orders of a release, one of each service
          Payment,    \* card payments opened for them
          None,
          Prices,     \* prices a choice in the application can have
          Providers,  \* payment providers a deployment may be configured with
          MaxFaults   \* bound: calls that stop, or whose answer is lost

ASSUME CheckoutAssumption ==
    /\ Prices \subseteq Nat \ {0} /\ MaxFaults \in Nat
    /\ Providers \subseteq {"toss", "portone", "payple"}
    /\ None \notin Order \cup Payment

VARIABLES
    provider, \* PAYMENT_PROVIDER
    order,    \* portal.addon_orders
    charged,  \* orders with a charge in the ledger that was not refunded
    payment,  \* portal.addon_payments
    call,     \* the confirm or close that waits for the provider
    approved, \* payments the customer completed in the window
    taken,    \* what the provider took for a payment
    given,    \* how often it gave back an order's part, by payment
    back,     \* what it gave back of a payment
    faults    \* stops and lost answers so far

vars == <<provider, order, charged, payment, call, approved, taken, given, back, faults>>

books == <<order, charged, payment>>
world == <<approved, taken, given, back>>

Working == {"SUBMITTED", "IN_PROGRESS", "DELIVERED", "COMPLETED"}
Closed == {"CANCELLED", "REJECTED"}
OrderStatus == {"ABSENT", "AWAITING_PAYMENT"} \cup Working \cup Closed

\* extras: orders a confirm found paid or closed; todo: those of them whose
\* part it has yet to give back.
Idle == [kind |-> "none", id |-> None, to |-> "", pc |-> "", extras |-> {}, todo |-> {}]

NoOrder == [status |-> "ABSENT", amount |-> 0, method |-> "NONE", payment |-> None]
NoPayment == [status |-> "ABSENT", orders |-> {}, amount |-> 0]

AmountOf(S) == MapThenSumSet(LAMBDA o : order[o].amount, S)

\* Mutant of Locked: the orders are read without FOR UPDATE.
LockedByClose(o) == call.kind = "close" /\ call.id = o

\* Rows a waiting call holds FOR UPDATE.
Locked(o) ==
    \/ call.kind = "confirm" /\ o \in payment[call.id].orders
    \/ call.kind = "close" /\ o = call.id

-----------------------------------------------------------------------------
Init ==
    /\ provider \in Providers
    /\ order = [o \in Order |-> NoOrder]
    /\ charged = {}
    /\ payment = [p \in Payment |-> NoPayment]
    /\ call = Idle
    /\ approved = {}
    /\ taken = [p \in Payment |-> 0]
    /\ given = [p \in Payment |-> [o \in Order |-> 0]]
    /\ back = [p \in Payment |-> 0]
    /\ faults = 0

(* The application and the work *)

\* sync_from_submission, for a service that is chosen: a new order, or the
\* unpaid one changed.
Choose(o, amount) ==
    /\ ~Locked(o)
    /\ order[o].status \in {"ABSENT", "AWAITING_PAYMENT"}
    /\ order' = [order EXCEPT ![o].status = "AWAITING_PAYMENT", ![o].amount = amount]
    /\ UNCHANGED <<provider, charged, payment, call, world, faults>>

\* The same, for a service that is no longer chosen.
Drop(o) ==
    /\ ~Locked(o)
    /\ order[o].status = "AWAITING_PAYMENT"
    /\ order' = [order EXCEPT ![o].status = "CANCELLED"]
    /\ UNCHANGED <<provider, charged, payment, call, world, faults>>

StatusBefore(to) ==
    CASE to = "IN_PROGRESS" -> {"SUBMITTED"}
      [] to = "DELIVERED" -> {"SUBMITTED", "IN_PROGRESS"}
      [] to = "COMPLETED" -> {"SUBMITTED", "IN_PROGRESS", "DELIVERED"}
      [] to = "REJECTED" -> {"AWAITING_PAYMENT", "SUBMITTED", "IN_PROGRESS", "DELIVERED"}
      [] to = "CANCELLED" -> {"AWAITING_PAYMENT", "SUBMITTED"}

StaffUpdate(o, to) ==
    /\ ~Locked(o)
    /\ order[o].status \in StatusBefore(to)
    /\ order' = [order EXCEPT ![o].status = to]
    /\ UNCHANGED <<provider, charged, payment, call, world, faults>>

-----------------------------------------------------------------------------
(* Paying *)

Payable(S) ==
    /\ S # {}
    /\ \A o \in S : order[o].status = "AWAITING_PAYMENT" /\ ~Locked(o)

\* pay from the balance: all of the orders or none; Payouts has the balance.
PayFromBalance(S) ==
    /\ Payable(S)
    /\ order' = [o \in Order |->
                     IF o \in S THEN [order[o] EXCEPT !.status = "SUBMITTED", !.method = "SETTLEMENT"]
                     ELSE order[o]]
    /\ charged' = charged \cup S
    /\ UNCHANGED <<provider, payment, call, world, faults>>

\* pay by card: a payment for what the orders cost now.
OpenCard(p, S) ==
    /\ payment[p].status = "ABSENT"
    /\ Payable(S)
    /\ payment' = [payment EXCEPT ![p] = [status |-> "PENDING", orders |-> S,
                                          amount |-> AmountOf(S)]]
    /\ UNCHANGED <<provider, order, charged, call, world, faults>>

\* The customer completes the window. PortOne takes the money there and then,
\* the others when the payment is confirmed.
CompleteWindow(p) ==
    /\ payment[p].status = "PENDING" /\ p \notin approved
    /\ approved' = approved \cup {p}
    /\ taken' = IF provider = "portone" THEN [taken EXCEPT ![p] = payment[p].amount] ELSE taken
    /\ UNCHANGED <<provider, books, call, given, back, faults>>

-----------------------------------------------------------------------------
(* The provider *)

\* Toss answers a repeated approval as the first; PortOne is looked up and
\* must say PAID, which a part given back ends; Payple approves once.
Approves(p) ==
    /\ p \in approved
    /\ provider = "portone" => back[p] = 0
    /\ provider = "payple" => taken[p] = 0

\* Mutant of Repeated: a key of its own for each try.
NeverRepeated(p, o) == FALSE

\* Toss gives nothing back twice for one key; nobody gives back more than
\* was taken.
Repeated(p, o) == provider = "toss" /\ given[p][o] > 0
GivesBack(p, o) == Repeated(p, o) \/ back[p] + order[o].amount <= taken[p]

GiveBack(p, o) ==
    /\ GivesBack(p, o)
    /\ given' = IF Repeated(p, o) THEN given ELSE [given EXCEPT ![p][o] = @ + 1]
    /\ back' = IF Repeated(p, o) THEN back ELSE [back EXCEPT ![p] = @ + order[o].amount]

\* The call stops, or the provider's answer does not arrive: the transaction
\* rolls back and the locks are gone.
Lose == faults < MaxFaults /\ faults' = faults + 1 /\ call' = Idle

-----------------------------------------------------------------------------
(* confirm *)

\* Orders that are not waiting for this payment any more.
Extras(p) == {o \in payment[p].orders : order[o].status # "AWAITING_PAYMENT"}

BeginConfirm(p) ==
    /\ call = Idle
    /\ payment[p].status = "PENDING"
    /\ call' = [kind |-> "confirm", id |-> p, to |-> "PAID", pc |-> "approve",
                extras |-> Extras(p), todo |-> Extras(p)]
    /\ UNCHANGED <<provider, books, world, faults>>

\* The provider approves; whether the call learns of it is another matter.
Approve ==
    LET p == call.id IN
    /\ call.kind = "confirm" /\ call.pc = "approve"
    /\ Approves(p)
    /\ taken' = [taken EXCEPT ![p] = payment[p].amount]
    /\ \/ call' = [call EXCEPT !.pc = "give back"] /\ UNCHANGED faults
       \/ Lose
    /\ UNCHANGED <<provider, books, approved, given, back>>

\* Mutant of GiveBackExtra: the provider's refusal is not looked at.
GiveBackExtraAnyway(o) ==
    /\ call.kind = "confirm" /\ call.pc = "give back" /\ o \in call.todo
    /\ call' = [call EXCEPT !.todo = @ \ {o}]
    /\ \/ GiveBack(call.id, o)
       \/ ~GivesBack(call.id, o) /\ UNCHANGED <<given, back>>
    /\ UNCHANGED <<provider, books, approved, taken, faults>>

\* A part that cannot be paid with this payment goes back.
GiveBackExtra(o) ==
    LET p == call.id IN
    /\ call.kind = "confirm" /\ call.pc = "give back" /\ o \in call.todo
    /\ GiveBack(p, o)
    /\ \/ call' = [call EXCEPT !.todo = @ \ {o}] /\ UNCHANGED faults
       \/ Lose
    /\ UNCHANGED <<provider, books, approved, taken>>

CommitConfirm ==
    LET p == call.id
        paid == payment[p].orders \ call.extras
    IN  /\ call.kind = "confirm" /\ call.pc = "give back" /\ call.todo = {}
        /\ payment' = [payment EXCEPT ![p].status = "PAID"]
        /\ order' = [o \in Order |->
                         IF o \in paid
                         THEN [order[o] EXCEPT !.status = "SUBMITTED", !.method = "CARD", !.payment = p]
                         ELSE order[o]]
        /\ call' = Idle
        /\ UNCHANGED <<provider, charged, world, faults>>

-----------------------------------------------------------------------------
(* close_and_refund *)

\* cancel of the artist and REJECTED of staff.
BeginClose(o, to) ==
    /\ call = Idle
    /\ order[o].status \in StatusBefore(to)
    /\ call' = [kind |-> "close", id |-> o, to |-> to,
                pc |-> IF order[o].method = "CARD" THEN "give back" ELSE "write",
                extras |-> {}, todo |-> {}]
    /\ UNCHANGED <<provider, books, world, faults>>

\* The card part first, so that a refusal leaves the order as it was.
GiveBackPart ==
    LET o == call.id IN
    /\ call.kind = "close" /\ call.pc = "give back"
    /\ GiveBack(order[o].payment, o)
    /\ \/ call' = [call EXCEPT !.pc = "write"] /\ UNCHANGED faults
       \/ Lose
    /\ UNCHANGED <<provider, books, approved, taken>>

\* Mutant of ReadyToClose: the rows are written before the provider is asked.
ClosingAtOnce == call.kind = "close"

ReadyToClose == call.kind = "close" /\ call.pc = "write"

CommitClose ==
    LET o == call.id IN
    /\ ReadyToClose
    /\ order' = [order EXCEPT ![o].status = call.to]
    /\ charged' = charged \ {o}
    /\ call' = Idle
    /\ UNCHANGED <<provider, payment, world, faults>>

-----------------------------------------------------------------------------
\* The provider refuses and the transaction is rolled back.
Refused ==
    /\ \/ call.kind = "confirm" /\ call.pc = "approve" /\ ~Approves(call.id)
       \/ call.kind = "confirm" /\ \E o \in call.todo : call.pc = "give back" /\ ~GivesBack(call.id, o)
       \/ call.kind = "close" /\ call.pc = "give back" /\ ~GivesBack(order[call.id].payment, call.id)
    /\ call' = Idle
    /\ UNCHANGED <<provider, books, world, faults>>

Stop == call # Idle /\ Lose /\ UNCHANGED <<provider, books, world>>

Next ==
    \/ \E o \in Order :
          \/ Drop(o) \/ \E amount \in Prices : Choose(o, amount)
          \/ \E to \in {"IN_PROGRESS", "DELIVERED", "COMPLETED"} : StaffUpdate(o, to)
          \/ \E to \in Closed : BeginClose(o, to)
          \/ GiveBackExtra(o)
    \/ \E S \in SUBSET Order : PayFromBalance(S) \/ \E p \in Payment : OpenCard(p, S)
    \/ \E p \in Payment : CompleteWindow(p) \/ BeginConfirm(p)
    \/ Approve \/ CommitConfirm \/ GiveBackPart \/ CommitClose \/ Refused \/ Stop

Spec == Init /\ [][Next]_vars

-----------------------------------------------------------------------------
(* Properties *)

\* Every variable has its type; what the provider took and gave back are sums
\* over orders, which the other properties are about.
TypeOK ==
    /\ provider \in Providers
    /\ order \in [Order -> [status: OrderStatus, amount: Prices \cup {0},
                            method: {"NONE", "SETTLEMENT", "CARD"}, payment: Payment \cup {None}]]
    /\ \A o \in Order : order[o].method = "CARD" <=> order[o].payment # None
    /\ charged \subseteq Order /\ approved \subseteq Payment
    /\ DOMAIN payment = Payment
    /\ \A p \in Payment : /\ DOMAIN payment[p] = {"status", "orders", "amount"}
                          /\ payment[p].status \in {"ABSENT", "PENDING", "PAID"}
                          /\ payment[p].orders \subseteq Order
    /\ call \in [kind: {"none", "confirm", "close"}, id: Order \cup Payment \cup {None},
                 to: {"", "PAID"} \cup Closed, pc: {"", "approve", "give back", "write"},
                 extras: SUBSET Order, todo: SUBSET Order]
    /\ given \in [Payment -> [Order -> Nat]]
    /\ faults \in 0 .. MaxFaults

\* An order is paid once: by a charge in the ledger or by card, and by one
\* payment, however many windows were open for it.
PaidOnce ==
    \A o \in Order : order[o].method = "CARD" => o \notin charged

\* A paid payment paid its orders or gave their part back: nobody pays for an
\* order that was cancelled, or paid another way, while the window was open.
PaidOrGivenBack ==
    \A p \in Payment : payment[p].status = "PAID" =>
        \A o \in payment[p].orders :
            given[p][o] > 0 \/ (order[o].method = "CARD" /\ order[o].payment = p)

\* "A cancelled or rejected paid order is refunded": in the ledger or at the
\* provider, before anybody sees it closed.
ClosedIsRefunded ==
    \A o \in Order : order[o].status \in Closed =>
        /\ o \notin charged
        /\ order[o].method = "CARD" => given[order[o].payment][o] > 0

\* With a provider that knows its keys, a part is given back once, however
\* often confirm and cancel are retried after a stop.
GivenBackOnce ==
    provider = "toss" => \A p \in Payment, o \in Order : given[p][o] <= 1

\* "Confirm with the PG for exactly the payment's total, then its orders are
\* paid": what was taken for a payment covers the orders it paid.
PaidInFull ==
    \A p \in Payment :
        AmountOf({o \in Order : order[o].method = "CARD" /\ order[o].payment = p}) <= taken[p]

=============================================================================
