------------------------ MODULE AddonCheckoutProofs ------------------------
(***************************************************************************)
(* For any orders, payments, prices and providers, and any number of calls *)
(* that stop: an order is paid once, a paid payment paid its orders or     *)
(* gave their part back, a closed order is refunded, and a provider that   *)
(* knows its keys gives a part back once.  The amounts are sums over sets  *)
(* of orders and are not looked at here.                                   *)
(***************************************************************************)
EXTENDS AddonCheckout, TLAPS

\* An order that nobody paid says so, and only the balance is charged.
UnpaidIsUnpaid ==
    /\ \A o \in Order : order[o].status \in {"ABSENT", "AWAITING_PAYMENT"} => order[o].method = "NONE"
    /\ \A o \in charged : order[o].method = "SETTLEMENT"

\* What a confirm that waits for the provider found of its orders is still so,
\* and the parts it has done with are given back.
ConfirmIsFresh ==
    call.kind = "confirm" =>
       /\ call.id \in Payment /\ call.pc \in {"approve", "give back"}
       /\ payment[call.id].status = "PENDING"
       /\ call.extras = Extras(call.id) /\ call.todo \subseteq call.extras
       /\ call.pc = "approve" => call.todo = call.extras
       /\ \A o \in call.extras \ call.todo : given[call.id][o] > 0

\* A close that waits for the provider, or has its answer.
CloseIsFresh ==
    call.kind = "close" =>
       /\ call.id \in Order /\ call.to \in Closed /\ call.pc \in {"give back", "write"}
       /\ order[call.id].status \in StatusBefore(call.to)
       /\ call.pc = "give back" => order[call.id].method = "CARD"
       /\ call.pc = "write" /\ order[call.id].method = "CARD"
             => given[order[call.id].payment][call.id] > 0

CheckoutInv ==
    /\ TypeOK /\ PaidOnce /\ PaidOrGivenBack /\ ClosedIsRefunded /\ GivenBackOnce
    /\ UnpaidIsUnpaid /\ ConfirmIsFresh /\ CloseIsFresh

OrderRow == [status: OrderStatus, amount: Prices \cup {0},
             method: {"NONE", "SETTLEMENT", "CARD"}, payment: Payment \cup {None}]

CallRow == [kind: {"none", "confirm", "close"}, id: Order \cup Payment \cup {None},
            to: {"", "PAID"} \cup Closed, pc: {"", "approve", "give back", "write"},
            extras: SUBSET Order, todo: SUBSET Order]

\* The parts of the type invariant.
MethodsTyped == \A o \in Order : order[o].method = "CARD" <=> order[o].payment # None

PaymentsTyped ==
    /\ DOMAIN payment = Payment
    /\ \A p \in Payment : /\ DOMAIN payment[p] = {"status", "orders", "amount"}
                          /\ payment[p].status \in {"ABSENT", "PENDING", "PAID"}
                          /\ payment[p].orders \subseteq Order

RestTyped ==
    /\ provider \in Providers /\ charged \subseteq Order /\ approved \subseteq Payment
    /\ call \in CallRow /\ given \in [Payment -> [Order -> Nat]] /\ faults \in 0 .. MaxFaults

LEMMA TypeParts ==
    /\ TypeOK <=> order \in [Order -> OrderRow] /\ MethodsTyped /\ PaymentsTyped /\ RestTyped
    /\ TypeOK' <=> order' \in [Order -> OrderRow] /\ MethodsTyped' /\ PaymentsTyped' /\ RestTyped'
  BY Zenon DEF TypeOK, OrderRow, CallRow, MethodsTyped, PaymentsTyped, RestTyped

-----------------------------------------------------------------------------
LEMMA IdleCall == Idle \in CallRow /\ Idle.kind = "none"
  BY DEF Idle, CallRow

LEMMA InitCheckout == Init => CheckoutInv
  <1> SUFFICES ASSUME Init PROVE CheckoutInv
    OBVIOUS
  <1> USE CheckoutAssumption
  <1>1. order \in [Order -> OrderRow] /\ call \in CallRow /\ call.kind = "none"
    BY IdleCall DEF Init, NoOrder, OrderRow, OrderStatus
  <1>2. \A p \in Payment : payment[p] = NoPayment
    BY DEF Init
  <1>3. \A o \in Order : /\ order[o].status = "ABSENT" /\ order[o].method = "NONE"
                         /\ order[o].payment = None
    BY DEF Init, NoOrder
  <1>4. given \in [Payment -> [Order -> Nat]] /\ \A p \in Payment, o \in Order : given[p][o] = 0
    BY DEF Init
  <1>5. /\ faults \in 0 .. MaxFaults /\ charged = {} /\ approved = {} /\ provider \in Providers
        /\ DOMAIN payment = Payment
    BY DEF Init
  <1>6. \A p \in Payment : /\ DOMAIN payment[p] = {"status", "orders", "amount"}
                           /\ payment[p].status = "ABSENT" /\ payment[p].orders = {}
    BY <1>2 DEF NoPayment
  <1>7. TypeOK
    BY <1>1, <1>3, <1>4, <1>5, <1>6 DEF TypeOK, OrderRow, CallRow
  <1>8. PaidOnce /\ PaidOrGivenBack /\ ClosedIsRefunded /\ UnpaidIsUnpaid
    BY <1>3, <1>5, <1>6 DEF PaidOnce, PaidOrGivenBack, ClosedIsRefunded, UnpaidIsUnpaid, Closed
  <1>9. GivenBackOnce
    BY <1>4 DEF GivenBackOnce
  <1>10. ConfirmIsFresh /\ CloseIsFresh
    BY <1>1 DEF ConfirmIsFresh, CloseIsFresh
  <1>11. QED
    BY <1>7, <1>8, <1>9, <1>10 DEF CheckoutInv

-----------------------------------------------------------------------------
(* What nobody waits for *)

\* The row of an order nobody holds is written; no card is charged by that.
LEMMA RowStep ==
    ASSUME CheckoutInv, NEW o \in Order, ~Locked(o), NEW row \in OrderRow,
           order' = [order EXCEPT ![o] = row],
           row.method = order[o].method, row.payment = order[o].payment,
           row.status \in {"ABSENT", "AWAITING_PAYMENT"} => order[o].method = "NONE",
           row.status \in Closed => order[o].method = "NONE",
           UNCHANGED <<provider, charged, payment, call, world, faults>>
    PROVE  CheckoutInv'
  <1> USE CheckoutAssumption
  <1>0. /\ provider' = provider /\ charged' = charged /\ payment' = payment /\ call' = call
        /\ approved' = approved /\ given' = given /\ faults' = faults
    BY DEF world
  <1>1. order \in [Order -> OrderRow]
    BY DEF CheckoutInv, TypeOK, OrderRow
  <1>2. \A q \in Order : /\ order'[q].method = order[q].method /\ order'[q].payment = order[q].payment
                         /\ q # o => order'[q] = order[q]
    BY <1>1
  <1>3. order'[o] = row
    BY <1>1
  <1>4. TypeOK'
    <2>1. order' \in [Order -> OrderRow]
      BY <1>1
    <2>2. QED
      <3>1. PaymentsTyped /\ RestTyped /\ MethodsTyped
        BY TypeParts DEF CheckoutInv
      <3>2. MethodsTyped'
        BY <3>1, <1>2 DEF MethodsTyped
      <3>3. PaymentsTyped' /\ RestTyped'
        BY <1>0, <3>1 DEF PaymentsTyped, RestTyped
      <3>4. QED
        BY <2>1, <3>2, <3>3, TypeParts
  <1>5. PaidOnce' /\ PaidOrGivenBack' /\ GivenBackOnce' /\ UnpaidIsUnpaid'
    <2>1. PaidOnce' /\ UnpaidIsUnpaid'
      <3>1. charged \subseteq Order /\ PaidOnce /\ UnpaidIsUnpaid
        BY DEF CheckoutInv, TypeOK
      <3>2. \A q \in Order : /\ order'[q].method = order[q].method
                              /\ order'[q].status \in {"ABSENT", "AWAITING_PAYMENT"}
                                    => order[q].method = "NONE"
        BY <3>1, <1>2, <1>3 DEF UnpaidIsUnpaid
      <3>3. QED
        BY <1>0, <3>1, <3>2 DEF PaidOnce, UnpaidIsUnpaid
    <2>2. PaidOrGivenBack'
      <3>1. PaidOrGivenBack /\ \A p \in Payment : payment[p].orders \subseteq Order
        BY DEF CheckoutInv, TypeOK
      <3>2. QED
        BY <1>0, <1>2, <3>1 DEF PaidOrGivenBack
    <2>3. GivenBackOnce'
      BY <1>0 DEF CheckoutInv, GivenBackOnce
    <2>4. QED
      BY <2>1, <2>2, <2>3
  <1>6. ClosedIsRefunded'
    <2> SUFFICES ASSUME NEW q \in Order, order'[q].status \in Closed
                 PROVE  q \notin charged /\ (order[q].method = "CARD" => given[order[q].payment][q] > 0)
      BY <1>0, <1>2 DEF ClosedIsRefunded
    <2>1. CASE q = o
      BY <1>3, <2>1 DEF CheckoutInv, UnpaidIsUnpaid
    <2>2. CASE q # o
      BY <1>2, <2>2 DEF CheckoutInv, ClosedIsRefunded
    <2>3. QED
      BY <2>1, <2>2
  <1>7. ConfirmIsFresh'
    <2> SUFFICES ASSUME call.kind = "confirm" PROVE ConfirmIsFresh'
      BY <1>0 DEF ConfirmIsFresh
    <2>1. call.id \in Payment /\ o \notin payment[call.id].orders /\ payment[call.id].orders \subseteq Order
      BY DEF Locked, CheckoutInv, ConfirmIsFresh, TypeOK
    <2>2. \A q \in payment[call.id].orders : order'[q] = order[q]
      BY <1>2, <2>1
    <2>3. Extras(call.id)' = Extras(call.id)
      BY <1>0, <2>2 DEF Extras
    <2>4. QED
      BY <1>0, <2>3 DEF CheckoutInv, ConfirmIsFresh
  <1>8. CloseIsFresh'
    <2> SUFFICES ASSUME call.kind = "close" PROVE CloseIsFresh'
      BY <1>0 DEF CloseIsFresh
    <2>1. call.id \in Order /\ call.id # o
      BY DEF Locked, CheckoutInv, CloseIsFresh
    <2>2. order'[call.id] = order[call.id]
      BY <1>2, <2>1
    <2>3. QED
      BY <1>0, <2>2 DEF CheckoutInv, CloseIsFresh, StatusBefore
  <1>9. QED
    BY <1>4, <1>5, <1>6, <1>7, <1>8 DEF CheckoutInv

LEMMA ApplicationStep ==
    ASSUME CheckoutInv, NEW o \in Order,
           \/ Drop(o) \/ \E amount \in Prices : Choose(o, amount)
           \/ \E to \in {"IN_PROGRESS", "DELIVERED", "COMPLETED"} : StaffUpdate(o, to)
    PROVE  CheckoutInv'
  <1>0. order \in [Order -> OrderRow] /\ order[o] \in OrderRow
    BY DEF CheckoutInv, TypeOK, OrderRow
  <1>1. CASE Drop(o)
    <2>1. order' = [order EXCEPT ![o] = [order[o] EXCEPT !.status = "CANCELLED"]]
      BY <1>0, <1>1 DEF Drop
    <2>2. [order[o] EXCEPT !.status = "CANCELLED"] \in OrderRow
      BY <1>0 DEF OrderRow, OrderStatus, Closed
    <2>3. order[o].method = "NONE"
      BY <1>1 DEF Drop, CheckoutInv, UnpaidIsUnpaid
    <2> DEFINE row == [order[o] EXCEPT !.status = "CANCELLED"]
    <2>4. row.method = order[o].method /\ row.payment = order[o].payment
      BY <1>0 DEF OrderRow
    <2>5. QED
      BY <1>1, <2>1, <2>2, <2>3, <2>4, RowStep DEF Drop
  <1>2. ASSUME NEW amount \in Prices, Choose(o, amount) PROVE CheckoutInv'
    <2> DEFINE row == [order[o] EXCEPT !.status = "AWAITING_PAYMENT", !.amount = amount]
    <2>1. order' = [order EXCEPT ![o] = row]
      BY <1>0, <1>2 DEF Choose
    <2>2. row \in OrderRow
      BY <1>0 DEF OrderRow, OrderStatus
    <2>3. order[o].method = "NONE"
      BY <1>2 DEF Choose, CheckoutInv, UnpaidIsUnpaid
    <2>4. row.method = order[o].method /\ row.payment = order[o].payment
      BY <1>0 DEF OrderRow
    <2>5. QED
      BY <1>2, <2>1, <2>2, <2>3, <2>4, RowStep DEF Choose
  <1>3. ASSUME NEW to \in {"IN_PROGRESS", "DELIVERED", "COMPLETED"}, StaffUpdate(o, to) PROVE CheckoutInv'
    <2> DEFINE row == [order[o] EXCEPT !.status = to]
    <2>1. order' = [order EXCEPT ![o] = row]
      BY <1>0, <1>3 DEF StaffUpdate
    <2>2. row \in OrderRow
      BY <1>0 DEF OrderRow, OrderStatus, Working
    <2>3. row.status \notin Closed \cup {"ABSENT", "AWAITING_PAYMENT"}
      BY <1>0 DEF OrderRow, Closed
    <2>4. row.method = order[o].method /\ row.payment = order[o].payment
      BY <1>0 DEF OrderRow
    <2>5. QED
      BY <1>3, <2>1, <2>2, <2>3, <2>4, RowStep DEF StaffUpdate
  <1>4. QED
    BY <1>1, <1>2, <1>3
LEMMA PayFromBalanceStep ==
    ASSUME CheckoutInv, NEW S \in SUBSET Order, PayFromBalance(S)
    PROVE  CheckoutInv'
  <1> USE CheckoutAssumption
  <1>0. /\ provider' = provider /\ payment' = payment /\ call' = call
        /\ approved' = approved /\ given' = given /\ faults' = faults
        /\ charged' = charged \cup S
    BY DEF PayFromBalance, world
  <1>1. order \in [Order -> OrderRow] /\ MethodsTyped /\ PaymentsTyped /\ RestTyped
    BY TypeParts DEF CheckoutInv
  <1>2. \A q \in S : /\ order[q].status = "AWAITING_PAYMENT" /\ order[q].method = "NONE"
                     /\ order[q].payment = None /\ ~Locked(q)
    BY <1>1 DEF PayFromBalance, Payable, CheckoutInv, UnpaidIsUnpaid, MethodsTyped
  <1>3. \A q \in Order : q \notin S => order'[q] = order[q]
    BY DEF PayFromBalance
  <1>4. \A q \in S : /\ order'[q] \in OrderRow /\ order'[q].status = "SUBMITTED"
                     /\ order'[q].method = "SETTLEMENT" /\ order'[q].payment = order[q].payment
    <2> TAKE q \in S
    <2> DEFINE sent == [order[q] EXCEPT !.status = "SUBMITTED"]
    <2>1. order'[q] = [sent EXCEPT !.method = "SETTLEMENT"]
      BY Zenon DEF PayFromBalance
    <2>2. sent \in OrderRow /\ sent.status = "SUBMITTED" /\ sent.payment = order[q].payment
      BY <1>1 DEF OrderRow, OrderStatus, Working
    <2> HIDE DEF sent
    <2>3. QED
      BY <2>1, <2>2 DEF OrderRow
  <1>5. TypeOK'
    <2>1. order' \in [Order -> OrderRow]
      <3>1. order' = [q \in Order |-> order'[q]]
        BY DEF PayFromBalance
      <3>2. \A q \in Order : order'[q] \in OrderRow
        BY <1>1, <1>3, <1>4
      <3>3. QED
        BY <3>1, <3>2
    <2>2. MethodsTyped'
      BY <1>1, <1>2, <1>3, <1>4 DEF MethodsTyped
    <2>3. PaymentsTyped' /\ RestTyped'
      BY <1>0, <1>1 DEF PaymentsTyped, RestTyped
    <2>4. QED
      BY <2>1, <2>2, <2>3, TypeParts
  <1>6. PaidOnce' /\ UnpaidIsUnpaid'
    <2>1. PaidOnce /\ UnpaidIsUnpaid /\ charged \subseteq Order
      BY <1>1 DEF CheckoutInv, RestTyped
    <2>2. PaidOnce'
      BY <1>0, <1>3, <1>4, <2>1 DEF PaidOnce
    <2>3. UnpaidIsUnpaid'
      BY <1>0, <1>3, <1>4, <2>1 DEF UnpaidIsUnpaid
    <2>4. QED
      BY <2>2, <2>3
  <1>7. PaidOrGivenBack'
    <2>1. PaidOrGivenBack /\ \A p \in Payment : payment[p].orders \subseteq Order
      BY <1>1 DEF CheckoutInv, PaymentsTyped
    <2>2. QED
      BY <1>0, <1>2, <1>3, <2>1 DEF PaidOrGivenBack
  <1>8. ClosedIsRefunded'
    BY <1>0, <1>3, <1>4 DEF CheckoutInv, ClosedIsRefunded, Closed
  <1>9. GivenBackOnce'
    BY <1>0 DEF CheckoutInv, GivenBackOnce
  <1>10. ConfirmIsFresh'
    <2> SUFFICES ASSUME call.kind = "confirm" PROVE ConfirmIsFresh'
      BY <1>0 DEF ConfirmIsFresh
    <2>1. call.id \in Payment /\ payment[call.id].orders \subseteq Order
      BY <1>1 DEF CheckoutInv, ConfirmIsFresh, PaymentsTyped
    <2>2. \A q \in payment[call.id].orders : order'[q] = order[q]
      BY <1>2, <1>3, <2>1 DEF Locked
    <2>3. Extras(call.id)' = Extras(call.id)
      BY <1>0, <2>2 DEF Extras
    <2>4. QED
      BY <1>0, <2>3 DEF CheckoutInv, ConfirmIsFresh
  <1>11. CloseIsFresh'
    <2> SUFFICES ASSUME call.kind = "close" PROVE CloseIsFresh'
      BY <1>0 DEF CloseIsFresh
    <2>1. call.id \in Order /\ call.id \notin S
      BY <1>2 DEF Locked, CheckoutInv, CloseIsFresh
    <2>2. order'[call.id] = order[call.id]
      BY <1>3, <2>1
    <2>3. QED
      BY <1>0, <2>2 DEF CheckoutInv, CloseIsFresh, StatusBefore
  <1>12. QED
    BY <1>5, <1>6, <1>7, <1>8, <1>9, <1>10, <1>11 DEF CheckoutInv

LEMMA OpenCardStep ==
    ASSUME CheckoutInv, NEW S \in SUBSET Order, NEW p \in Payment, OpenCard(p, S)
    PROVE  CheckoutInv'
  <1> DEFINE row == [status |-> "PENDING", orders |-> S, amount |-> AmountOf(S)]
  <1>0. /\ provider' = provider /\ order' = order /\ charged' = charged /\ call' = call
        /\ approved' = approved /\ given' = given /\ faults' = faults
        /\ payment[p].status = "ABSENT" /\ payment' = [payment EXCEPT ![p] = row]
    BY DEF OpenCard, world
  <1>1. order \in [Order -> OrderRow] /\ MethodsTyped /\ PaymentsTyped /\ RestTyped
    BY TypeParts DEF CheckoutInv
  <1>2. /\ DOMAIN row = {"status", "orders", "amount"} /\ row.status = "PENDING" /\ row.orders = S
    OBVIOUS
  <1> HIDE DEF row
  <1>3. DOMAIN payment' = Payment /\ payment'[p] = row /\ \A q \in Payment : q # p => payment'[q] = payment[q]
    BY <1>0, <1>1 DEF PaymentsTyped
  <1>4. TypeOK'
    <2>1. PaymentsTyped'
      BY <1>1, <1>2, <1>3 DEF PaymentsTyped
    <2>2. MethodsTyped' /\ RestTyped'
      BY <1>0, <1>1 DEF MethodsTyped, RestTyped
    <2>3. QED
      BY <1>0, <1>1, <2>1, <2>2, TypeParts
  <1>5. PaidOnce' /\ ClosedIsRefunded' /\ GivenBackOnce' /\ UnpaidIsUnpaid'
    BY <1>0 DEF CheckoutInv, PaidOnce, ClosedIsRefunded, GivenBackOnce, UnpaidIsUnpaid
  <1>6. PaidOrGivenBack'
    BY <1>0, <1>2, <1>3 DEF CheckoutInv, PaidOrGivenBack
  <1>7. ConfirmIsFresh'
    <2> SUFFICES ASSUME call.kind = "confirm" PROVE ConfirmIsFresh'
      BY <1>0 DEF ConfirmIsFresh
    <2>1. call.id \in Payment /\ payment'[call.id] = payment[call.id]
      BY <1>0, <1>3 DEF CheckoutInv, ConfirmIsFresh
    <2>2. Extras(call.id)' = Extras(call.id)
      BY <1>0, <2>1 DEF Extras
    <2>3. QED
      BY <1>0, <2>1, <2>2 DEF CheckoutInv, ConfirmIsFresh
  <1>8. CloseIsFresh'
    BY <1>0 DEF CheckoutInv, CloseIsFresh, StatusBefore
  <1>9. QED
    BY <1>4, <1>5, <1>6, <1>7, <1>8 DEF CheckoutInv

-----------------------------------------------------------------------------
(* What the provider does, and the call that waits for it *)

LEMMA GiveBackGrows ==
    ASSUME CheckoutInv, NEW p \in Payment, NEW o \in Order, GiveBack(p, o), provider' = provider
    PROVE  /\ given' \in [Payment -> [Order -> Nat]]
           /\ \A q \in Payment, x \in Order : given'[q][x] >= given[q][x]
           /\ given'[p][o] > 0
           /\ GivenBackOnce'
  <1>1. given \in [Payment -> [Order -> Nat]] /\ GivenBackOnce
    BY DEF CheckoutInv, TypeOK
  <1>2. CASE Repeated(p, o)
    <2>1. given' = given
      BY <1>2 DEF GiveBack
    <2>2. QED
      BY <1>1, <1>2, <2>1 DEF Repeated, GivenBackOnce
  <1>3. CASE ~Repeated(p, o)
    <2>1. given' = [given EXCEPT ![p][o] = @ + 1]
      BY <1>3 DEF GiveBack
    <2>2. given'[p][o] = given[p][o] + 1
      BY <1>1, <2>1
    <2>3. \A q \in Payment, x \in Order : q # p \/ x # o => given'[q][x] = given[q][x]
      BY <1>1, <2>1
    <2>4. given' \in [Payment -> [Order -> Nat]]
      BY <1>1, <2>1
    <2>5. provider = "toss" => given[p][o] = 0
      BY <1>1, <1>3 DEF Repeated
    <2>6. GivenBackOnce'
      BY <1>1, <2>2, <2>3, <2>5 DEF GivenBackOnce
    <2>7. QED
      BY <1>1, <2>2, <2>3, <2>4, <2>6
  <1>4. QED
    BY <1>2, <1>3

\* A call begins, goes on or ends, and writes nothing; more may be given back.
LEMMA CallStep ==
    ASSUME CheckoutInv, UNCHANGED <<provider, books>>, approved' \subseteq Payment,
           call' \in CallRow, faults' \in 0 .. MaxFaults,
           given' \in [Payment -> [Order -> Nat]],
           \A q \in Payment, x \in Order : given'[q][x] >= given[q][x],
           GivenBackOnce', ConfirmIsFresh', CloseIsFresh'
    PROVE  CheckoutInv'
  <1>0. provider' = provider /\ order' = order /\ charged' = charged /\ payment' = payment
    BY DEF books
  <1>1. /\ order \in [Order -> OrderRow] /\ MethodsTyped /\ PaymentsTyped /\ RestTyped
        /\ given \in [Payment -> [Order -> Nat]]
    BY TypeParts DEF CheckoutInv, RestTyped
  <1>2. TypeOK'
    <2>1. MethodsTyped' /\ PaymentsTyped' /\ RestTyped'
      BY <1>0, <1>1 DEF MethodsTyped, PaymentsTyped, RestTyped
    <2>2. QED
      BY <1>0, <1>1, <2>1, TypeParts
  <1>3. \A q \in Payment, x \in Order : given[q][x] > 0 => given'[q][x] > 0
    <2> TAKE q \in Payment, x \in Order
    <2>1. given[q][x] \in Nat /\ given'[q][x] \in Nat /\ given'[q][x] >= given[q][x]
      BY <1>1
    <2>2. QED
      BY <2>1
  <1>4. PaidOnce' /\ UnpaidIsUnpaid'
    BY <1>0 DEF CheckoutInv, PaidOnce, UnpaidIsUnpaid
  <1>5. PaidOrGivenBack'
    <2>1. PaidOrGivenBack /\ \A p \in Payment : payment[p].orders \subseteq Order
      BY <1>1 DEF CheckoutInv, PaymentsTyped
    <2>2. QED
      BY <1>0, <1>3, <2>1 DEF PaidOrGivenBack
  <1>6. ClosedIsRefunded'
    <2>1. \A o \in Order : order[o].method = "CARD" => order[o].payment \in Payment
      BY <1>1 DEF MethodsTyped, OrderRow
    <2>2. QED
      BY <1>0, <1>3, <2>1 DEF CheckoutInv, ClosedIsRefunded
  <1>7. QED
    BY <1>2, <1>4, <1>5, <1>6 DEF CheckoutInv

LEMMA LoseEndsTheCall ==
    ASSUME CheckoutInv, call' = Idle
    PROVE  call' \in CallRow /\ ConfirmIsFresh' /\ CloseIsFresh'
  BY IdleCall DEF ConfirmIsFresh, CloseIsFresh

\* What holds of a call that may go on.
LEMMA CallFacts ==
    ASSUME CheckoutInv
    PROVE  /\ call \in CallRow /\ faults \in 0 .. MaxFaults /\ approved \subseteq Payment
           /\ given \in [Payment -> [Order -> Nat]] /\ GivenBackOnce
           /\ \A q \in Payment, x \in Order : given[q][x] >= given[q][x]
           /\ Lose => faults' \in 0 .. MaxFaults /\ call' = Idle
  <1> USE CheckoutAssumption
  <1>1. /\ call \in CallRow /\ faults \in 0 .. MaxFaults /\ approved \subseteq Payment
        /\ given \in [Payment -> [Order -> Nat]] /\ GivenBackOnce
    BY TypeParts DEF CheckoutInv, RestTyped
  <1>2. \A q \in Payment, x \in Order : given[q][x] >= given[q][x]
    <2> TAKE q \in Payment, x \in Order
    <2>1. given[q][x] \in Nat
      BY <1>1
    <2>2. QED
      BY <2>1
  <1>3. Lose => faults' \in 0 .. MaxFaults /\ call' = Idle
    BY <1>1 DEF Lose
  <1>4. QED
    BY <1>1, <1>2, <1>3

LEMMA CompleteWindowStep ==
    ASSUME CheckoutInv, NEW p \in Payment, CompleteWindow(p)
    PROVE  CheckoutInv'
  <1>0. /\ UNCHANGED <<provider, books>> /\ call' = call /\ given' = given /\ faults' = faults
        /\ order' = order /\ payment' = payment /\ provider' = provider
        /\ approved' = approved \cup {p}
    BY DEF CompleteWindow, books
  <1>1. ConfirmIsFresh' /\ CloseIsFresh' /\ GivenBackOnce'
    <2>1. call.kind = "confirm" => Extras(call.id)' = Extras(call.id)
      BY <1>0 DEF Extras
    <2>2. ConfirmIsFresh'
      BY <1>0, <2>1 DEF CheckoutInv, ConfirmIsFresh
    <2>3. CloseIsFresh'
      BY <1>0 DEF CheckoutInv, CloseIsFresh, StatusBefore
    <2>4. GivenBackOnce'
      BY <1>0 DEF CheckoutInv, GivenBackOnce
    <2>5. QED
      BY <2>2, <2>3, <2>4
  <1>2. approved' \subseteq Payment
    BY <1>0, CallFacts
  <1>3. QED
    BY <1>0, <1>1, <1>2, CallFacts, CallStep

LEMMA BeginConfirmStep ==
    ASSUME CheckoutInv, NEW p \in Payment, BeginConfirm(p)
    PROVE  CheckoutInv'
  <1>0. /\ UNCHANGED <<provider, books>> /\ given' = given /\ faults' = faults /\ approved' = approved
        /\ order' = order /\ payment' = payment /\ provider' = provider
        /\ payment[p].status = "PENDING"
        /\ call' = [kind |-> "confirm", id |-> p, to |-> "PAID", pc |-> "approve",
                    extras |-> Extras(p), todo |-> Extras(p)]
    BY DEF BeginConfirm, books, world
  <1>1. Extras(p) \subseteq Order /\ Extras(p)' = Extras(p)
    BY <1>0, TypeParts DEF Extras, CheckoutInv, PaymentsTyped
  <1>2. call' \in CallRow
    BY <1>0, <1>1 DEF CallRow
  <1>3. ConfirmIsFresh' /\ CloseIsFresh'
    BY <1>0, <1>1 DEF ConfirmIsFresh, CloseIsFresh
  <1>4. GivenBackOnce'
    BY <1>0 DEF CheckoutInv, GivenBackOnce
  <1>5. QED
    BY <1>0, <1>2, <1>3, <1>4, CallFacts, CallStep

LEMMA ApproveStep ==
    ASSUME CheckoutInv, Approve
    PROVE  CheckoutInv'
  <1>0. /\ UNCHANGED <<provider, books>> /\ given' = given /\ approved' = approved
        /\ order' = order /\ payment' = payment /\ provider' = provider
        /\ call.kind = "confirm" /\ call.pc = "approve"
    BY DEF Approve, books
  <1>1. GivenBackOnce'
    BY <1>0 DEF CheckoutInv, GivenBackOnce
  <1>2. CASE call' = [call EXCEPT !.pc = "give back"] /\ UNCHANGED faults
    <2>1. call \in CallRow
      BY CallFacts
    <2>2. /\ call' \in CallRow /\ call'.kind = "confirm" /\ call'.id = call.id /\ call'.pc = "give back"
          /\ call'.extras = call.extras /\ call'.todo = call.todo
      BY <1>0, <1>2, <2>1 DEF CallRow
    <2>3. Extras(call.id)' = Extras(call'.id)
      BY <1>0, <2>2 DEF Extras
    <2>4. Extras(call.id)' = Extras(call.id)
      BY <1>0, <2>2 DEF Extras
    <2>5. ConfirmIsFresh' /\ CloseIsFresh'
      <3>1. call.todo \subseteq call.extras /\ call.extras = Extras(call.id)
        BY <1>0 DEF CheckoutInv, ConfirmIsFresh
      <3>2. QED
        BY <1>0, <2>2, <2>4, <3>1 DEF CheckoutInv, ConfirmIsFresh, CloseIsFresh, Extras
    <2>6. QED
      BY <1>0, <1>1, <1>2, <2>2, <2>5, CallFacts, CallStep
  <1>3. CASE Lose
    <2>1. call' = Idle /\ faults' \in 0 .. MaxFaults
      BY <1>3, CallFacts
    <2>2. QED
      BY <1>0, <1>1, <2>1, CallFacts, LoseEndsTheCall, CallStep
  <1>4. QED
    BY <1>2, <1>3 DEF Approve

LEMMA GiveBackExtraStep ==
    ASSUME CheckoutInv, NEW o \in Order, GiveBackExtra(o)
    PROVE  CheckoutInv'
  <1>0. /\ UNCHANGED <<provider, books>> /\ approved' = approved
        /\ order' = order /\ payment' = payment /\ provider' = provider
        /\ call.kind = "confirm" /\ call.pc = "give back" /\ o \in call.todo
        /\ GiveBack(call.id, o)
    BY DEF GiveBackExtra, books
  <1>1. call.id \in Payment
    BY <1>0 DEF CheckoutInv, ConfirmIsFresh
  <1>2. /\ given' \in [Payment -> [Order -> Nat]] /\ given'[call.id][o] > 0 /\ GivenBackOnce'
        /\ \A q \in Payment, x \in Order : given'[q][x] >= given[q][x]
    BY <1>0, <1>1, GiveBackGrows
  <1>3. CASE call' = [call EXCEPT !.todo = @ \ {o}] /\ UNCHANGED faults
    <2>1. call \in CallRow
      BY CallFacts
    <2>2. /\ call' \in CallRow /\ call'.kind = "confirm" /\ call'.id = call.id /\ call'.pc = "give back"
          /\ call'.extras = call.extras /\ call'.todo = call.todo \ {o}
      BY <1>0, <1>3, <2>1 DEF CallRow
    <2>3. /\ call.extras = Extras(call.id) /\ call.todo \subseteq call.extras
          /\ payment[call.id].status = "PENDING" /\ call.extras \subseteq Order
          /\ \A x \in call.extras \ call.todo : given[call.id][x] > 0
      BY <1>0, <2>1 DEF CheckoutInv, ConfirmIsFresh, CallRow
    <2>4. \A x \in call'.extras \ call'.todo : given'[call'.id][x] > 0
      <3> SUFFICES ASSUME NEW x \in call.extras, x = o \/ x \notin call.todo
                   PROVE  given'[call.id][x] > 0
        BY <2>2
      <3>1. CASE x = o
        BY <1>2, <3>1
      <3>2. CASE x \notin call.todo
        <4>1. x \in Order /\ given[call.id][x] > 0
          BY <2>3, <3>2
        <4>2. /\ given[call.id][x] \in Nat /\ given'[call.id][x] \in Nat
              /\ given'[call.id][x] >= given[call.id][x]
          BY <1>1, <1>2, <4>1, CallFacts
        <4>3. QED
          BY <4>1, <4>2
      <3>3. QED
        BY <3>1, <3>2
    <2>5. Extras(call.id)' = Extras(call.id)
      BY <1>0, <2>2 DEF Extras
    <2>6. ConfirmIsFresh' /\ CloseIsFresh'
      BY <1>0, <1>1, <2>2, <2>3, <2>4, <2>5 DEF ConfirmIsFresh, CloseIsFresh
    <2>7. QED
      BY <1>0, <1>2, <1>3, <2>2, <2>6, CallFacts, CallStep
  <1>4. CASE Lose
    <2>1. call' = Idle /\ faults' \in 0 .. MaxFaults
      BY <1>4, CallFacts
    <2>2. QED
      BY <1>0, <1>2, <2>1, CallFacts, LoseEndsTheCall, CallStep
  <1>5. QED
    BY <1>3, <1>4 DEF GiveBackExtra

LEMMA CommitConfirmStep ==
    ASSUME CheckoutInv, CommitConfirm
    PROVE  CheckoutInv'
  <1> USE CheckoutAssumption
  <1> DEFINE p == call.id
             paid == payment[p].orders \ call.extras
  <1>0. /\ provider' = provider /\ charged' = charged /\ call' = Idle
        /\ approved' = approved /\ given' = given /\ faults' = faults
        /\ payment' = [payment EXCEPT ![p].status = "PAID"]
        /\ call.kind = "confirm" /\ call.todo = {}
    BY DEF CommitConfirm, world
  <1>1. order \in [Order -> OrderRow] /\ MethodsTyped /\ PaymentsTyped /\ RestTyped
    BY TypeParts DEF CheckoutInv
  <1>2. /\ p \in Payment /\ call.extras = Extras(p)
        /\ \A x \in call.extras : given[p][x] > 0
    BY <1>0 DEF CheckoutInv, ConfirmIsFresh
  <1>3. paid \subseteq Order /\ \A q \in paid : /\ order[q].status = "AWAITING_PAYMENT"
                                                /\ order[q].method = "NONE"
    BY <1>1, <1>2 DEF PaymentsTyped, Extras, CheckoutInv, UnpaidIsUnpaid
  <1>4. \A q \in Order : q \notin paid => order'[q] = order[q]
    BY DEF CommitConfirm
  <1>5. \A q \in paid : /\ order'[q] \in OrderRow /\ order'[q].status = "SUBMITTED"
                        /\ order'[q].method = "CARD" /\ order'[q].payment = p
    <2> TAKE q \in paid
    <2> DEFINE sent == [order[q] EXCEPT !.status = "SUBMITTED"]
               carded == [sent EXCEPT !.method = "CARD"]
    <2>1. order'[q] = [carded EXCEPT !.payment = p]
      BY <1>3, Zenon DEF CommitConfirm
    <2>2. sent \in OrderRow /\ sent.status = "SUBMITTED"
      BY <1>1, <1>3 DEF OrderRow, OrderStatus, Working
    <2> HIDE DEF sent
    <2>3. carded \in OrderRow /\ carded.status = "SUBMITTED" /\ carded.method = "CARD"
      BY <2>2 DEF OrderRow
    <2> HIDE DEF carded
    <2>4. QED
      BY <1>2, <2>1, <2>3 DEF OrderRow
  <1>6. /\ DOMAIN payment' = Payment
        /\ payment'[p].status = "PAID" /\ payment'[p].orders = payment[p].orders
        /\ DOMAIN payment'[p] = {"status", "orders", "amount"}
        /\ \A q \in Payment : q # p => payment'[q] = payment[q]
    BY <1>0, <1>1, <1>2 DEF PaymentsTyped
  <1>7. TypeOK'
    <2>1. order' \in [Order -> OrderRow]
      <3>1. order' = [q \in Order |-> order'[q]]
        BY DEF CommitConfirm
      <3>2. \A q \in Order : order'[q] \in OrderRow
        BY <1>1, <1>4, <1>5
      <3>3. QED
        BY <3>1, <3>2
    <2>2. MethodsTyped'
      BY <1>1, <1>2, <1>4, <1>5 DEF MethodsTyped
    <2>3. PaymentsTyped'
      BY <1>1, <1>2, <1>6 DEF PaymentsTyped
    <2>4. RestTyped'
      BY <1>0, <1>1, IdleCall DEF RestTyped
    <2>5. QED
      BY <2>1, <2>2, <2>3, <2>4, TypeParts
  <1>8. PaidOnce' /\ UnpaidIsUnpaid'
    <2>1. PaidOnce /\ UnpaidIsUnpaid /\ charged \subseteq Order
      BY <1>1 DEF CheckoutInv, RestTyped
    <2>2. \A q \in charged : q \notin paid
      BY <1>3, <2>1 DEF UnpaidIsUnpaid
    <2>3. PaidOnce'
      BY <1>0, <1>4, <2>1, <2>2 DEF PaidOnce
    <2>4. UnpaidIsUnpaid'
      BY <1>0, <1>4, <1>5, <2>1, <2>2 DEF UnpaidIsUnpaid
    <2>5. QED
      BY <2>3, <2>4
  <1>9. PaidOrGivenBack'
    <2> SUFFICES ASSUME NEW q \in Payment, payment'[q].status = "PAID", NEW o \in payment'[q].orders
                 PROVE  given[q][o] > 0 \/ (order'[o].method = "CARD" /\ order'[o].payment = q)
      BY <1>0 DEF PaidOrGivenBack
    <2>1. CASE q = p
      BY <1>2, <1>5, <1>6, <2>1
    <2>2. CASE q # p
      <3>1. /\ payment[q].status = "PAID" /\ o \in payment[q].orders /\ o \in Order
            /\ given[q][o] > 0 \/ (order[o].method = "CARD" /\ order[o].payment = q)
        BY <1>1, <1>6, <2>2 DEF CheckoutInv, PaidOrGivenBack, PaymentsTyped
      <3>2. o \in paid => order[o].method = "NONE"
        BY <1>3
      <3>3. QED
        BY <1>4, <3>1, <3>2
    <2>3. QED
      BY <2>1, <2>2
  <1>10. ClosedIsRefunded'
    BY <1>0, <1>4, <1>5 DEF CheckoutInv, ClosedIsRefunded, Closed
  <1>11. GivenBackOnce'
    BY <1>0 DEF CheckoutInv, GivenBackOnce
  <1>12. ConfirmIsFresh' /\ CloseIsFresh'
    BY <1>0, LoseEndsTheCall
  <1>13. QED
    BY <1>7, <1>8, <1>9, <1>10, <1>11, <1>12 DEF CheckoutInv

LEMMA BeginCloseStep ==
    ASSUME CheckoutInv, NEW o \in Order, NEW to \in Closed, BeginClose(o, to)
    PROVE  CheckoutInv'
  <1>0. /\ UNCHANGED <<provider, books>> /\ given' = given /\ faults' = faults /\ approved' = approved
        /\ order' = order /\ provider' = provider /\ order[o].status \in StatusBefore(to)
        /\ call' = [kind |-> "close", id |-> o, to |-> to,
                    pc |-> IF order[o].method = "CARD" THEN "give back" ELSE "write",
                    extras |-> {}, todo |-> {}]
    BY DEF BeginClose, books, world
  <1>1. call' \in CallRow
    BY <1>0 DEF CallRow
  <1>2. /\ call'.kind = "close" /\ call'.id = o /\ call'.to = to
        /\ call'.pc = IF order[o].method = "CARD" THEN "give back" ELSE "write"
    BY <1>0
  <1>3. StatusBefore(call.to)' = StatusBefore(to)
    BY <1>2 DEF StatusBefore
  <1>4. ConfirmIsFresh' /\ CloseIsFresh'
    BY <1>0, <1>2, <1>3 DEF ConfirmIsFresh, CloseIsFresh
  <1>5. GivenBackOnce'
    BY <1>0 DEF CheckoutInv, GivenBackOnce
  <1>6. QED
    BY <1>0, <1>1, <1>4, <1>5, CallFacts, CallStep

LEMMA GiveBackPartStep ==
    ASSUME CheckoutInv, GiveBackPart
    PROVE  CheckoutInv'
  <1>0. /\ UNCHANGED <<provider, books>> /\ approved' = approved
        /\ order' = order /\ provider' = provider
        /\ call.kind = "close" /\ call.pc = "give back"
        /\ GiveBack(order[call.id].payment, call.id)
    BY DEF GiveBackPart, books
  <1>1. /\ call.id \in Order /\ call.to \in Closed /\ order[call.id].method = "CARD"
        /\ order[call.id].status \in StatusBefore(call.to)
    BY <1>0 DEF CheckoutInv, CloseIsFresh
  <1>2. order[call.id].payment \in Payment
    BY <1>1, TypeParts DEF CheckoutInv, MethodsTyped, OrderRow
  <1>3. /\ given' \in [Payment -> [Order -> Nat]] /\ GivenBackOnce'
        /\ given'[order[call.id].payment][call.id] > 0
        /\ \A q \in Payment, x \in Order : given'[q][x] >= given[q][x]
    BY <1>0, <1>1, <1>2, GiveBackGrows
  <1>4. CASE call' = [call EXCEPT !.pc = "write"] /\ UNCHANGED faults
    <2>1. call \in CallRow
      BY CallFacts
    <2>2. /\ call' \in CallRow /\ call'.kind = "close" /\ call'.id = call.id /\ call'.pc = "write"
          /\ call'.to = call.to
      BY <1>0, <1>4, <2>1 DEF CallRow
    <2>3. StatusBefore(call.to)' = StatusBefore(call.to)
      BY <2>2 DEF StatusBefore
    <2>4. ConfirmIsFresh' /\ CloseIsFresh'
      BY <1>0, <1>1, <1>3, <2>2, <2>3 DEF ConfirmIsFresh, CloseIsFresh
    <2>5. QED
      BY <1>0, <1>3, <1>4, <2>2, <2>4, CallFacts, CallStep
  <1>5. CASE Lose
    <2>1. call' = Idle /\ faults' \in 0 .. MaxFaults
      BY <1>5, CallFacts
    <2>2. QED
      BY <1>0, <1>3, <2>1, CallFacts, LoseEndsTheCall, CallStep
  <1>6. QED
    BY <1>4, <1>5 DEF GiveBackPart

LEMMA CommitCloseStep ==
    ASSUME CheckoutInv, CommitClose
    PROVE  CheckoutInv'
  <1> USE CheckoutAssumption
  <1> DEFINE o == call.id
             row == [order[o] EXCEPT !.status = call.to]
  <1>0. /\ provider' = provider /\ payment' = payment /\ call' = Idle
        /\ approved' = approved /\ given' = given /\ faults' = faults
        /\ order' = [order EXCEPT ![o].status = call.to] /\ charged' = charged \ {o}
        /\ call.kind = "close" /\ call.pc = "write"
    BY DEF CommitClose, ReadyToClose, world
  <1>1. order \in [Order -> OrderRow] /\ MethodsTyped /\ PaymentsTyped /\ RestTyped
    BY TypeParts DEF CheckoutInv
  <1>2. /\ o \in Order /\ call.to \in Closed
        /\ order[o].method = "CARD" => given[order[o].payment][o] > 0
    BY <1>0 DEF CheckoutInv, CloseIsFresh
  <1>3. row \in OrderRow /\ row.status \in Closed
    BY <1>1, <1>2 DEF OrderRow, OrderStatus
  <1>4. \A q \in Order : /\ q # o => order'[q] = order[q]
                         /\ order'[q].method = order[q].method /\ order'[q].payment = order[q].payment
    BY <1>0, <1>1, <1>2 DEF OrderRow
  <1>5. order' = [order EXCEPT ![o] = row] /\ order'[o] = row
    BY <1>0, <1>1, <1>2
  <1> HIDE DEF row
  <1>6. TypeOK'
    <2>1. order' \in [Order -> OrderRow]
      BY <1>1, <1>3, <1>5
    <2>2. MethodsTyped'
      BY <1>1, <1>4 DEF MethodsTyped
    <2>3. PaymentsTyped' /\ RestTyped'
      BY <1>0, <1>1, IdleCall DEF PaymentsTyped, RestTyped
    <2>4. QED
      BY <2>1, <2>2, <2>3, TypeParts
  <1>7. PaidOnce' /\ UnpaidIsUnpaid'
    <2>1. PaidOnce /\ UnpaidIsUnpaid /\ charged \subseteq Order
      BY <1>1 DEF CheckoutInv, RestTyped
    <2>2. PaidOnce'
      BY <1>0, <1>4, <2>1 DEF PaidOnce
    <2>3. UnpaidIsUnpaid'
      BY <1>0, <1>3, <1>4, <1>5, <2>1 DEF UnpaidIsUnpaid, Closed
    <2>4. QED
      BY <2>2, <2>3
  <1>8. PaidOrGivenBack'
    <2>1. PaidOrGivenBack /\ \A p \in Payment : payment[p].orders \subseteq Order
      BY <1>1 DEF CheckoutInv, PaymentsTyped
    <2>2. QED
      BY <1>0, <1>4, <2>1 DEF PaidOrGivenBack
  <1>9. ClosedIsRefunded'
    <2> SUFFICES ASSUME NEW q \in Order, order'[q].status \in Closed
                 PROVE  q \notin charged \ {o}
                        /\ (order[q].method = "CARD" => given[order[q].payment][q] > 0)
      BY <1>0, <1>4 DEF ClosedIsRefunded
    <2>1. CASE q = o
      BY <1>2, <2>1
    <2>2. CASE q # o
      BY <1>4, <2>2 DEF CheckoutInv, ClosedIsRefunded
    <2>3. QED
      BY <2>1, <2>2
  <1>10. GivenBackOnce'
    BY <1>0 DEF CheckoutInv, GivenBackOnce
  <1>11. ConfirmIsFresh' /\ CloseIsFresh'
    BY <1>0, LoseEndsTheCall
  <1>12. QED
    BY <1>6, <1>7, <1>8, <1>9, <1>10, <1>11 DEF CheckoutInv

LEMMA EndOfCallStep ==
    ASSUME CheckoutInv, Refused \/ Stop
    PROVE  CheckoutInv'
  <1>1. /\ UNCHANGED <<provider, books>> /\ call' = Idle /\ approved' = approved /\ given' = given
        /\ provider' = provider
    BY DEF Refused, Stop, Lose, world
  <1>2. faults' \in 0 .. MaxFaults
    BY CallFacts DEF Refused, Stop
  <1>3. GivenBackOnce'
    BY <1>1 DEF CheckoutInv, GivenBackOnce
  <1>4. QED
    BY <1>1, <1>2, <1>3, CallFacts, LoseEndsTheCall, CallStep

LEMMA NextCheckout == CheckoutInv /\ [Next]_vars => CheckoutInv'
  <1> SUFFICES ASSUME CheckoutInv, [Next]_vars PROVE CheckoutInv'
    OBVIOUS
  <1>1. CASE UNCHANGED vars
    <2>1. /\ UNCHANGED <<provider, books>> /\ given' = given /\ faults' = faults /\ call' = call
          /\ order' = order /\ payment' = payment /\ provider' = provider /\ approved' = approved
      BY <1>1 DEF vars, books
    <2>2. call.kind = "confirm" => Extras(call.id)' = Extras(call.id)
      BY <2>1 DEF Extras
    <2>3. ConfirmIsFresh' /\ CloseIsFresh' /\ GivenBackOnce'
      BY <2>1, <2>2 DEF CheckoutInv, ConfirmIsFresh, CloseIsFresh, StatusBefore, GivenBackOnce
    <2>4. QED
      BY <2>1, <2>3, CallFacts, CallStep
  <1>2. ASSUME NEW o \in Order,
               \/ Drop(o) \/ \E amount \in Prices : Choose(o, amount)
               \/ \E to \in {"IN_PROGRESS", "DELIVERED", "COMPLETED"} : StaffUpdate(o, to)
               \/ \E to \in Closed : BeginClose(o, to)
               \/ GiveBackExtra(o)
        PROVE  CheckoutInv'
    BY <1>2, ApplicationStep, BeginCloseStep, GiveBackExtraStep
  <1>3. ASSUME NEW S \in SUBSET Order,
               PayFromBalance(S) \/ \E p \in Payment : OpenCard(p, S)
        PROVE  CheckoutInv'
    BY <1>3, PayFromBalanceStep, OpenCardStep
  <1>4. ASSUME NEW p \in Payment, CompleteWindow(p) \/ BeginConfirm(p)
        PROVE  CheckoutInv'
    BY <1>4, CompleteWindowStep, BeginConfirmStep
  <1>5. CASE Approve \/ CommitConfirm \/ GiveBackPart \/ CommitClose \/ Refused \/ Stop
    BY <1>5, ApproveStep, CommitConfirmStep, GiveBackPartStep, CommitCloseStep, EndOfCallStep
  <1>6. QED
    BY <1>1, <1>2, <1>3, <1>4, <1>5, Zenon DEF Next

-----------------------------------------------------------------------------
(* Theorems *)

\* The checkout keeps the whole invariant, above all that what a waiting
\* confirm or close read under its locks is still true when it commits.
THEOREM CheckoutInvariant == Spec => []CheckoutInv
  <1>1. Init => CheckoutInv
    BY InitCheckout
  <1>2. CheckoutInv /\ [Next]_vars => CheckoutInv'
    BY NextCheckout
  <1>3. QED
    BY <1>1, <1>2, PTL DEF Spec

\* Every variable of the checkout has its type in every reachable state.
THEOREM CheckoutTyped == Spec => []TypeOK
  BY CheckoutInvariant, PTL DEF CheckoutInv

\* An order paid by card has no charge in the ledger (pay, confirm).
THEOREM OrdersArePaidOnce == Spec => []PaidOnce
  BY CheckoutInvariant, PTL DEF CheckoutInv

\* A confirmed payment paid each of its orders or gave the part back, whatever
\* became of the order while the window was open (confirm's extras).
THEOREM PaymentsReachTheirOrders == Spec => []PaidOrGivenBack
  BY CheckoutInvariant, PTL DEF CheckoutInv

\* Nobody sees a closed order that was not refunded (close_and_refund).
THEOREM ClosedOrdersAreRefunded == Spec => []ClosedIsRefunded
  BY CheckoutInvariant, PTL DEF CheckoutInv

\* With the cancel keys of toss, retries after a stop give a part back once.
THEOREM PartsAreGivenBackOnce == Spec => []GivenBackOnce
  BY CheckoutInvariant, PTL DEF CheckoutInv
=============================================================================
