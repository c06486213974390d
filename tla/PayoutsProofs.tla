--------------------------- MODULE PayoutsProofs ---------------------------
(***************************************************************************)
(* For any number of requests, orders, notices and amounts: the variables  *)
(* keep their types, the order a request names is the only one of its      *)
(* orders that may still be paid, no request is paid twice, what is asked  *)
(* for is covered, and the books agree with the bank.                      *)
(***************************************************************************)
EXTENDS Payouts, SumLemmas, TLAPS

\* What the call that holds the lock checked is so until it commits: nobody
\* else moves the request of a request or an order under way, and an order is
\* not unmade.
DecisionHolds ==
    /\ decision.op = "request" => /\ decision.id \in Request
                                  /\ request[decision.id].status = "NONE"
    /\ decision.op = "order" => /\ decision.id \in Request
                                /\ request[decision.id].status = "REQUESTED"
    /\ decision.op \in {"approve", "submit", "reissue"} =>
          decision.id \in Order /\ order[decision.id].status # "NONE"
    /\ decision.op \in {"request", "order", "approve", "submit", "reissue"} =>
          decision.amount \in Amounts \cup {0}
    /\ decision.op = "charge" => decision.id \in Addon

\* An order is the one its request names, or was issued again.
OrdersNamed ==
    \A o \in Order :
       IF order[o].status = "NONE" THEN order[o].reissueOf = None
       ELSE /\ order[o].request \in Request
            /\ request[order[o].request].status \in {"ORDERED", "CANCELLED"}
            /\ request[order[o].request].order = o \/ \E p \in Order : order[p].reissueOf = o

\* The order a request names was made for it.
NamesOwn ==
    \A r \in Request : request[r].order # None =>
       order[request[r].order].status # "NONE" /\ order[request[r].order].request = r

\* Only an order that is over was issued again.
ReissuedIsOver ==
    \A p \in Order : order[p].reissueOf # None =>
       order[order[p].reissueOf].status \in Over \ {"NONE"}

PInv == TypeOK /\ DecisionHolds /\ OrdersNamed /\ NamesOwn /\ ReissuedIsOver

-----------------------------------------------------------------------------
\* Nothing is requested or ordered at the start.
THEOREM InitPayouts == Init => PInv
  <1> SUFFICES ASSUME Init PROVE PInv
    OBVIOUS
  <1>1. TypeOK
    <2>1. MaxCredited \in Nat /\ MaxHolds \in Nat
      BY PayoutsAssumption DEF PayoutsAssumption
    <2>2. payable \in Int /\ earned \in Nat /\ credited \in 0 .. MaxCredited /\ holds \in 0 .. MaxHolds
      <3>1. payable = 0 /\ earned = 0 /\ credited = 0 /\ holds = 0
        BY DEF Init
      <3>2. QED
        BY <2>1, <3>1
    <2>5. trackHold \in BOOLEAN /\ payeeHold \in BOOLEAN
      BY Zenon DEF Init
    <2>3. /\ request \in [Request -> [status: RequestStatus, amount: Amounts \cup {0},
                                       order: Order \cup {None}]]
          /\ order \in [Order -> [status: OrderStatus, amount: Amounts \cup {0},
                                  request: Request \cup {None}, reissueOf: Order \cup {None},
                                  posted: BOOLEAN]]
      BY DEF Init, NoRequest, NoOrder, RequestStatus, OrderStatus, Over, Open
    <2>4. /\ notice \in [Notice -> [order: Order \cup {None}, amount: 0 .. MaxCredited]]
          /\ decision \in [op: {"none", "request", "order", "approve", "submit", "reissue", "charge"},
                           id: Request \cup Order \cup Addon \cup {None},
                           amount: Amounts \cup {0, AddonPrice}]
      BY <2>1 DEF Init, NoNotice, Idle
    <2>6. booked \subseteq Notice /\ addon \in [Addon -> {"AWAITING_PAYMENT", "SUBMITTED", "CANCELLED"}]
          /\ bank \in [Order -> {"none", "out", "refused"}]
      BY DEF Init
    <2>7. QED
      BY <2>2, <2>3, <2>4, <2>5, <2>6 DEF TypeOK
  <1>2. DecisionHolds /\ OrdersNamed /\ NamesOwn /\ ReissuedIsOver
    BY DEF Init, DecisionHolds, OrdersNamed, NamesOwn, ReissuedIsOver, NoRequest, NoOrder, Idle
  <1>3. QED
    BY <1>1, <1>2 DEF PInv

-----------------------------------------------------------------------------
(* One lemma for each kind of step *)

\* A row whose status is changed is still a row.
LEMMA OrderRow ==
    ASSUME TypeOK, NEW o \in Order, NEW status \in OrderStatus
    PROVE  [order EXCEPT ![o].status = status] \in
              [Order -> [status: OrderStatus, amount: Amounts \cup {0},
                         request: Request \cup {None}, reissueOf: Order \cup {None},
                         posted: BOOLEAN]]
  <1> DEFINE Rows == [status: OrderStatus, amount: Amounts \cup {0},
                      request: Request \cup {None}, reissueOf: Order \cup {None},
                      posted: BOOLEAN]
  <1>1. order \in [Order -> Rows]
    BY DEF TypeOK
  <1>2. [order[o] EXCEPT !.status = status] \in Rows
    BY <1>1
  <1> HIDE DEF Rows
  <1>3. [order EXCEPT ![o] = [order[o] EXCEPT !.status = status]] \in [Order -> Rows]
    BY <1>1, <1>2
  <1>4. QED
    BY <1>3 DEF Rows

\* A step that leaves requests and orders alone and takes up no decision.
LEMMA OutsideStep ==
    ASSUME PInv, TypeOK', UNCHANGED <<request, order>>, decision' \in {decision, Idle}
    PROVE  PInv'
  <1>1. TypeOK /\ DecisionHolds /\ OrdersNamed /\ NamesOwn /\ ReissuedIsOver
    BY DEF PInv
  <1>2. DecisionHolds'
    BY <1>1 DEF DecisionHolds, Idle
  <1>3. OrdersNamed' /\ NamesOwn' /\ ReissuedIsOver'
    BY <1>1 DEF OrdersNamed, NamesOwn, ReissuedIsOver
  <1>4. QED
    BY <1>2, <1>3 DEF PInv

\* Royalties, holds, the bank, add-ons and a rolled back decision.
LEMMA LedgerStep ==
    ASSUME PInv,
           \/ \E amount \in Credits : StaffCredit(amount) \/ \E t \in BOOLEAN : CreditRoyalty(amount, t)
           \/ PlaceHold \/ ReleaseHold \/ CommitCharge \/ RollBack
           \/ \E a \in Addon : CloseAddon(a)
    PROVE  PInv'
  <1>1. TypeOK /\ DecisionHolds
    BY DEF PInv
  <1>2. CASE \E amount \in Credits : StaffCredit(amount) \/ \E t \in BOOLEAN : CreditRoyalty(amount, t)
    <2> PICK amount \in Credits, t \in BOOLEAN : CreditRoyalty(amount, t)
      BY <1>2 DEF StaffCredit
    <2>1. amount \in Nat
      BY PayoutsAssumption DEF PayoutsAssumption
    <2>2. TypeOK'
      BY <1>1, <2>1, PayoutsAssumption DEF TypeOK, CreditRoyalty, holding, truth, PayoutsAssumption
    <2>3. QED
      BY <2>2, OutsideStep DEF CreditRoyalty
  <1>3. CASE PlaceHold \/ ReleaseHold
    <2>1. /\ UNCHANGED <<payable, earned, credited, request, order, addon, booked, decision, bank, notice>>
          /\ trackHold' \in BOOLEAN /\ payeeHold' \in BOOLEAN /\ holds' \in 0 .. MaxHolds
      <3>1. MaxHolds \in Nat /\ trackHold \in BOOLEAN /\ payeeHold \in BOOLEAN /\ holds \in 0 .. MaxHolds
        BY <1>1, PayoutsAssumption DEF TypeOK, PayoutsAssumption
      <3>2. CASE PlaceHold
        <4>1. /\ holds < MaxHolds /\ holds' = holds + 1
              /\ trackHold' \in {TRUE, trackHold} /\ payeeHold' \in {TRUE, payeeHold}
              /\ UNCHANGED <<payable, earned, credited, request, order, addon, booked, decision, bank, notice>>
          BY <3>2 DEF PlaceHold, ledger, truth
        <4>2. holds' \in 0 .. MaxHolds
          BY <3>1, <4>1
        <4>3. trackHold' \in BOOLEAN /\ payeeHold' \in BOOLEAN
          BY <3>1, <4>1, Zenon
        <4>4. QED
          BY <4>1, <4>2, <4>3
      <3>3. CASE ReleaseHold
        BY <3>1, <3>3 DEF ReleaseHold, ledger, truth
      <3>4. QED
        BY <1>3, <3>2, <3>3
    <2>2. TypeOK'
      BY <1>1, <2>1 DEF TypeOK
    <2>3. QED
      BY <2>1, <2>2, OutsideStep
  <1>4. CASE CommitCharge
    <2>1. TypeOK'
      BY <1>1, <1>4, PayoutsAssumption
      DEF TypeOK, DecisionHolds, CommitCharge, Committing, Idle, holding, truth, PayoutsAssumption
    <2>2. QED
      BY <1>4, <2>1, OutsideStep DEF CommitCharge, Committing
  <1>5. CASE RollBack
    <2>1. TypeOK'
      BY <1>1, <1>5 DEF TypeOK, RollBack, Idle, ledger, holding, truth
    <2>2. QED
      BY <1>5, <2>1, OutsideStep DEF RollBack
  <1>6. CASE \E a \in Addon : CloseAddon(a)
    <2>1. TypeOK'
      BY <1>1, <1>6, PayoutsAssumption DEF TypeOK, CloseAddon, holding, truth, PayoutsAssumption
    <2>2. QED
      BY <1>6, <2>1, OutsideStep DEF CloseAddon
  <1>7. QED
    BY <1>2, <1>3, <1>4, <1>5, <1>6

\* What the bank does.
LEMMA BankStep ==
    ASSUME PInv, NEW o \in Order,
           \/ Transfer(o) \/ Refuse(o)
           \/ \E n \in Notice, amount \in 1 .. MaxCredited : SendBack(n, o, amount)
    PROVE  PInv'
  <1>1. TypeOK
    BY DEF PInv
  <1>2. CASE Transfer(o) \/ Refuse(o)
    <2>1. TypeOK'
      BY <1>1, <1>2 DEF TypeOK, Transfer, Refuse, ledger, holding
    <2>2. QED
      BY <1>2, <2>1, OutsideStep DEF Transfer, Refuse
  <1>3. CASE \E n \in Notice, amount \in 1 .. MaxCredited : SendBack(n, o, amount)
    <2> PICK n \in Notice, amount \in 1 .. MaxCredited : SendBack(n, o, amount)
      BY <1>3
    <2>1. TypeOK'
      BY <1>1, PayoutsAssumption DEF TypeOK, SendBack, ledger, holding, PayoutsAssumption
    <2>2. QED
      BY <2>1, OutsideStep DEF SendBack
  <1>4. QED
    BY <1>2, <1>3

\* A call takes the lock and checks.
LEMMA DecideStep ==
    ASSUME PInv,
           \/ \E r \in Request : DecideOrder(r) \/ \E amount \in Amounts : DecideRequest(r, amount)
           \/ \E o \in Order : DecideApprove(o) \/ DecideSubmit(o) \/ DecideReissue(o)
           \/ \E a \in Addon : DecideCharge(a)
    PROVE  PInv'
  <1>1. TypeOK /\ OrdersNamed /\ NamesOwn /\ ReissuedIsOver
    BY DEF PInv
  <1>2. ASSUME NEW op \in {"request", "order", "approve", "submit", "reissue", "charge"},
               NEW id \in Request \cup Order \cup Addon, NEW amount \in Amounts \cup {0, AddonPrice},
               Decide(op, id, amount), DecisionHolds'
        PROVE  PInv'
    <2>1. TypeOK'
      BY <1>1, <1>2 DEF TypeOK, Decide, ledger, holding, truth
    <2>2. OrdersNamed' /\ NamesOwn' /\ ReissuedIsOver'
      BY <1>1, <1>2 DEF OrdersNamed, NamesOwn, ReissuedIsOver, Decide
    <2>3. QED
      BY <1>2, <2>1, <2>2 DEF PInv
  <1>3. ASSUME NEW r \in Request, DecideOrder(r) PROVE PInv'
    <2>1. request[r].amount \in Amounts \cup {0}
      BY <1>1 DEF TypeOK
    <2>2. Decide("order", r, request[r].amount) /\ DecisionHolds'
      BY <1>3, <2>1 DEF DecideOrder, Decide, DecisionHolds
    <2>3. QED
      BY <1>2, <2>1, <2>2
  <1>4. ASSUME NEW r \in Request, NEW amount \in Amounts, DecideRequest(r, amount) PROVE PInv'
    <2>1. Decide("request", r, amount) /\ DecisionHolds'
      BY <1>4 DEF DecideRequest, Decide, DecisionHolds
    <2>2. QED
      BY <1>2, <2>1
  <1>5. ASSUME NEW o \in Order, DecideApprove(o) \/ DecideSubmit(o) \/ DecideReissue(o) PROVE PInv'
    <2>1. order[o].amount \in Amounts \cup {0} /\ order[o].status # "NONE"
      BY <1>1, <1>5 DEF TypeOK, DecideApprove, DecideSubmit, DecideReissue, Reissuable
    <2>2. PICK op \in {"approve", "submit", "reissue"} : Decide(op, o, order[o].amount)
      BY <1>5 DEF DecideApprove, DecideSubmit, DecideReissue
    <2>3. DecisionHolds'
      BY <2>1, <2>2 DEF Decide, DecisionHolds
    <2>4. QED
      BY <1>2, <2>1, <2>2, <2>3
  <1>6. ASSUME NEW a \in Addon, DecideCharge(a) PROVE PInv'
    <2>1. Decide("charge", a, AddonPrice) /\ DecisionHolds'
      BY <1>6 DEF DecideCharge, Decide, DecisionHolds
    <2>2. QED
      BY <1>2, <2>1
  <1>7. QED
    BY <1>3, <1>4, <1>5, <1>6

\* A step that moves orders, but none into or out of being no order or from
\* being over, and cancels requests that have an order, or cancels one that has
\* no order yet while nothing is decided.
LEMMA MovesStep ==
    ASSUME PInv, TypeOK', decision' \in {decision, Idle},
           \A o \in Order :
              /\ order'[o].request = order[o].request
              /\ order'[o].reissueOf = order[o].reissueOf
              /\ order'[o].status = "NONE" <=> order[o].status = "NONE"
              /\ order[o].status \in Over => order'[o].status = order[o].status,
           \A r \in Request :
              /\ request'[r].order = request[r].order
              /\ \/ request'[r].status = request[r].status
                 \/ request'[r].status = "CANCELLED" /\ (request[r].order # None \/ decision = Idle)
    PROVE  PInv'
  <1>1. TypeOK /\ DecisionHolds /\ OrdersNamed /\ NamesOwn /\ ReissuedIsOver
    BY DEF PInv
  <1>2. \A r \in Request : request[r].order # None =>
           request[r].order \in Order /\ request[r].status \in {"ORDERED", "CANCELLED"}
    BY <1>1 DEF TypeOK, NamesOwn, OrdersNamed
  <1>3. DecisionHolds'
    BY <1>1, <1>2 DEF DecisionHolds, Idle
  <1>4. OrdersNamed'
    BY <1>1 DEF OrdersNamed
  <1>5. NamesOwn'
    BY <1>1, <1>2 DEF NamesOwn
  <1>6. ReissuedIsOver'
    BY <1>1 DEF ReissuedIsOver, TypeOK
  <1>7. QED
    BY <1>3, <1>4, <1>5, <1>6 DEF PInv

\* Cancellations, the bank's result and returns.
LEMMA RecordStep ==
    ASSUME PInv,
           \/ \E r \in Request : CancelPayout(r)
           \/ \E o \in Order : CancelPayoutOrder(o) \/ \E outcome \in Outcome : RecordBankResult(o, outcome)
           \/ \E n \in Notice, refundFee \in BOOLEAN : RecordPayoutReturn(n, refundFee)
    PROVE  PInv'
  <1>1. TypeOK /\ NamesOwn
    BY DEF PInv
  <1>2. ASSUME NEW r \in Request, CancelPayout(r) PROVE PInv'
    <2>1. TypeOK'
      <3>1. "CANCELLED" \in RequestStatus /\ "CANCELLED" \in OrderStatus
        BY DEF RequestStatus, OrderStatus, Over
      <3>2. request' \in [Request -> [status: RequestStatus, amount: Amounts \cup {0},
                                      order: Order \cup {None}]]
        BY <1>1, <1>2, <3>1 DEF TypeOK, CancelPayout
      <3>3. order' \in [Order -> [status: OrderStatus, amount: Amounts \cup {0},
                                  request: Request \cup {None}, reissueOf: Order \cup {None},
                                  posted: BOOLEAN]]
        <4>1. order' \in {order, [order EXCEPT ![request[r].order].status = "CANCELLED"]}
          BY <1>2 DEF CancelPayout
        <4>2. QED
          <5>1. CASE order' = order
            BY <1>1, <5>1 DEF TypeOK
          <5>2. CASE order' = [order EXCEPT ![request[r].order].status = "CANCELLED"]
            <6>1. CASE request[r].order \in Order
              BY <1>1, <3>1, <5>2, <6>1, OrderRow
            <6>2. CASE request[r].order \notin Order
              BY <1>1, <5>2, <6>2 DEF TypeOK
            <6>3. QED
              BY <6>1, <6>2
          <5>3. QED
            BY <4>1, <5>1, <5>2
      <3>4. QED
        BY <1>1, <1>2, <3>2, <3>3 DEF TypeOK, CancelPayout, ledger, holding, truth
    <2>2. /\ UNCHANGED decision /\ decision = Idle
          /\ \A q \in Request : /\ request'[q].order = request[q].order
                                /\ request'[q].status \in {request[q].status, "CANCELLED"}
      BY <1>1, <1>2 DEF TypeOK, CancelPayout
    <2>3. \A o \in Order :
             /\ order'[o].request = order[o].request
             /\ order'[o].reissueOf = order[o].reissueOf
             /\ \/ order'[o].status = order[o].status
                \/ order[o].status = "PENDING_APPROVAL" /\ order'[o].status = "CANCELLED"
      BY <1>1, <1>2 DEF TypeOK, CancelPayout, ArtistCancels
    <2>4. QED
      BY <2>1, <2>2, <2>3, MovesStep DEF Over
  <1>3. ASSUME NEW o \in Order, CancelPayoutOrder(o) PROVE PInv'
    <2>1. TypeOK'
      <3>1. "CANCELLED" \in RequestStatus /\ "CANCELLED" \in OrderStatus
        BY DEF RequestStatus, OrderStatus, Over
      <3>2. request' \in [Request -> [status: RequestStatus, amount: Amounts \cup {0},
                                      order: Order \cup {None}]]
        <4> DEFINE Rows == [status: RequestStatus, amount: Amounts \cup {0}, order: Order \cup {None}]
        <4>1. \A r \in Request : request[r] \in Rows /\ [request[r] EXCEPT !.status = "CANCELLED"] \in Rows
          BY <1>1, <3>1 DEF TypeOK
        <4>2. request' = [r \in Request |->
                            IF request[r].order = o THEN [request[r] EXCEPT !.status = "CANCELLED"]
                            ELSE request[r]]
          BY <1>3 DEF CancelPayoutOrder
        <4> HIDE DEF Rows
        <4>3. request' \in [Request -> Rows]
          BY <4>1, <4>2
        <4>4. QED
          BY <4>3 DEF Rows
      <3>3. order' \in [Order -> [status: OrderStatus, amount: Amounts \cup {0},
                                  request: Request \cup {None}, reissueOf: Order \cup {None},
                                  posted: BOOLEAN]]
        BY <1>1, <1>3, <3>1, OrderRow DEF CancelPayoutOrder
      <3>4. QED
        BY <1>1, <1>3, <3>2, <3>3 DEF TypeOK, CancelPayoutOrder, ledger, holding, truth
    <2>2. /\ UNCHANGED decision
          /\ \A q \in Request :
                /\ request'[q].order = request[q].order
                /\ \/ request'[q].status = request[q].status
                   \/ request'[q].status = "CANCELLED" /\ request[q].order = o
      BY <1>1, <1>3 DEF TypeOK, CancelPayoutOrder
    <2>3. \A p \in Order :
             /\ order'[p].request = order[p].request
             /\ order'[p].reissueOf = order[p].reissueOf
             /\ \/ order'[p].status = order[p].status
                \/ order[p].status \in {"PENDING_APPROVAL", "APPROVED"} /\ order'[p].status = "CANCELLED"
      BY <1>1, <1>3 DEF TypeOK, CancelPayoutOrder
    <2>4. o # None
      BY PayoutsAssumption DEF PayoutsAssumption
    <2>5. QED
      BY <2>1, <2>2, <2>3, <2>4, MovesStep DEF Over
  <1>4. ASSUME NEW o \in Order, NEW outcome \in Outcome, RecordBankResult(o, outcome) PROVE PInv'
    <2>1. StatusOf(outcome) \in OrderStatus \ {"NONE"}
      BY DEF StatusOf, Outcome, OrderStatus, Open, Over
    <2>2. /\ order' \in [Order -> [status: OrderStatus, amount: Amounts \cup {0},
                                   request: Request \cup {None}, reissueOf: Order \cup {None},
                                   posted: BOOLEAN]]
          /\ \A p \in Order :
                /\ order'[p].request = order[p].request
                /\ order'[p].reissueOf = order[p].reissueOf
                /\ \/ order'[p].status = order[p].status
                   \/ Awaiting(order[p].status) /\ order'[p].status \in OrderStatus \ {"NONE"}
      BY <1>1, <1>4, <2>1 DEF TypeOK, RecordBankResult
    <2>3. payable' \in Int
      <3>1. order[o].amount \in Int /\ payable \in Int
        <4>1. order[o].amount \in Amounts \cup {0} /\ payable \in Int
          BY <1>1 DEF TypeOK
        <4>2. \A a \in Amounts \cup {0} : a \in Int
          BY PayoutsAssumption DEF PayoutsAssumption
        <4>3. QED
          BY <4>1, <4>2
      <3>2. QED
        BY <1>4, <3>1 DEF RecordBankResult
    <2>4. UNCHANGED <<earned, credited, holding, request, addon, booked, decision, truth>>
      BY <1>4 DEF RecordBankResult
    <2>5. TypeOK'
      BY <1>1, <2>2, <2>3, <2>4 DEF TypeOK, holding, truth
    <2>6. QED
      BY <2>2, <2>4, <2>5, MovesStep DEF Over, Awaiting
  <1>5. ASSUME NEW n \in Notice, NEW refundFee \in BOOLEAN, RecordPayoutReturn(n, refundFee) PROVE PInv'
    <2> DEFINE o == notice[n].order
    <2>1. /\ o \in Order /\ order[o].status = "SETTLED"
          /\ booked' = booked \cup {n}
          /\ order' \in {order, [order EXCEPT ![o].status = "RETURNED"]}
          /\ UNCHANGED <<earned, credited, holding, request, addon, decision, truth>>
      BY <1>1, <1>5 DEF TypeOK, RecordPayoutReturn
    <2>2. payable' \in Int
      <3>1. /\ notice[n].amount \in Int /\ payable \in Int
            /\ FeeOf(order[o].amount) \in Int
        BY <1>1, PayoutsAssumption DEF TypeOK, PayoutsAssumption, FeeOf
      <3>2. payable' = payable + notice[n].amount + (IF refundFee THEN FeeOf(order[o].amount) ELSE 0)
        BY <1>5, Zenon DEF RecordPayoutReturn
      <3> HIDE DEF o
      <3>3. QED
        BY <3>1, <3>2
    <2>3. /\ order' \in [Order -> [status: OrderStatus, amount: Amounts \cup {0},
                                   request: Request \cup {None}, reissueOf: Order \cup {None},
                                   posted: BOOLEAN]]
          /\ \A p \in Order :
                /\ order'[p].request = order[p].request
                /\ order'[p].reissueOf = order[p].reissueOf
                /\ \/ order'[p].status = order[p].status
                   \/ order[p].status = "SETTLED" /\ order'[p].status = "RETURNED"
      <3>1. "RETURNED" \in OrderStatus
        BY DEF OrderStatus, Over
      <3>2. CASE order' = order
        BY <1>1, <3>2 DEF TypeOK
      <3>3. CASE order' = [order EXCEPT ![o].status = "RETURNED"]
        BY <1>1, <2>1, <3>1, <3>3, OrderRow
      <3>4. QED
        BY <2>1, <3>2, <3>3
    <2>4. TypeOK'
      BY <1>1, <2>1, <2>2, <2>3 DEF TypeOK, holding, truth
    <2>5. QED
      BY <2>1, <2>3, <2>4, MovesStep DEF Over
  <1>6. QED
    BY <1>2, <1>3, <1>4, <1>5

\* Approval and hand-over.
LEMMA AdvanceStep ==
    ASSUME PInv, CommitApprove \/ CommitSubmit
    PROVE  PInv'
  <1>1. TypeOK /\ DecisionHolds
    BY DEF PInv
  <1>2. ASSUME NEW op \in {"approve", "submit"}, NEW from \in {"PENDING_APPROVAL", "APPROVED"},
               NEW to \in {"APPROVED", "SUBMITTED"}, Committing(op), Advance(from, to)
        PROVE  PInv'
    <2>1. decision.id \in Order
      BY <1>1, <1>2 DEF DecisionHolds, Committing
    <2>2. to \in OrderStatus
      BY DEF OrderStatus, Open
    <2>3. /\ order' = [order EXCEPT ![decision.id].status = to]
          /\ order[decision.id].status = from /\ decision' = Idle
          /\ UNCHANGED <<payable, earned, credited, trackHold, payeeHold, holds, request, addon,
                         booked, bank, notice>>
      BY <1>2 DEF Advance, Committing, ledger, holding, truth
    <2>4. order' \in [Order -> [status: OrderStatus, amount: Amounts \cup {0},
                               request: Request \cup {None}, reissueOf: Order \cup {None},
                               posted: BOOLEAN]]
      BY <1>1, <2>1, <2>2, <2>3, OrderRow
    <2>5. TypeOK'
      BY <1>1, <2>3, <2>4 DEF TypeOK, Idle
    <2>6. \A p \in Order :
             /\ order'[p].request = order[p].request
             /\ order'[p].reissueOf = order[p].reissueOf
             /\ \/ order'[p].status = order[p].status
                \/ order[p].status = from /\ order'[p].status = to
      BY <1>1, <2>3 DEF TypeOK
    <2>7. QED
      BY <2>3, <2>5, <2>6, MovesStep DEF Over
  <1>3. QED
    BY <1>2 DEF CommitApprove, CommitSubmit

\* A new request.
LEMMA RequestStep ==
    ASSUME PInv, CommitRequest
    PROVE  PInv'
  <1>1. TypeOK /\ DecisionHolds /\ OrdersNamed /\ NamesOwn /\ ReissuedIsOver
    BY DEF PInv
  <1> DEFINE r == decision.id
  <1>2. /\ r \in Request /\ request[r].status = "NONE" /\ decision.amount \in Amounts \cup {0}
        /\ decision' = Idle
        /\ request' = [request EXCEPT ![r] =
                          [status |-> "REQUESTED", amount |-> decision.amount, order |-> None]]
        /\ UNCHANGED <<payable, earned, credited, trackHold, payeeHold, holds, order, addon,
                       booked, bank, notice>>
    BY <1>1 DEF DecisionHolds, CommitRequest, Committing, ledger, holding, truth
  <1>3. "REQUESTED" \in RequestStatus
    BY DEF RequestStatus
  <1>4. request' \in [Request -> [status: RequestStatus, amount: Amounts \cup {0},
                                  order: Order \cup {None}]]
    BY <1>1, <1>2, <1>3 DEF TypeOK
  <1>5. TypeOK'
    BY <1>1, <1>2, <1>4 DEF TypeOK, Idle
  <1>6. request'[r].order = None /\ \A q \in Request \ {r} : request'[q] = request[q]
    BY <1>1, <1>2 DEF TypeOK
  <1>7. \A o \in Order : order[o].status # "NONE" => order[o].request # r
    BY <1>1, <1>2 DEF OrdersNamed
  <1>8. OrdersNamed' /\ NamesOwn' /\ ReissuedIsOver'
    BY <1>1, <1>2, <1>6, <1>7 DEF OrdersNamed, NamesOwn, ReissuedIsOver
  <1>9. DecisionHolds'
    BY <1>2 DEF DecisionHolds, Idle
  <1>10. QED
    BY <1>5, <1>8, <1>9 DEF PInv

\* The first order of a request, or one that is issued again: both make a row.
LEMMA NewOrderIs ==
    ASSUME TypeOK, decision.amount \in Amounts \cup {0}, NEW o \in Order, NEW r \in Request,
           NEW old \in Order \cup {None}, NewOrder(o, r, old)
    PROVE  /\ order[o].status = "NONE"
           /\ order'[o].status = "PENDING_APPROVAL" /\ order'[o].request = r /\ order'[o].reissueOf = old
           /\ \A p \in Order \ {o} : order'[p] = order[p]
           /\ order' \in [Order -> [status: OrderStatus, amount: Amounts \cup {0},
                                   request: Request \cup {None}, reissueOf: Order \cup {None},
                                   posted: BOOLEAN]]
  <1>1. "PENDING_APPROVAL" \in OrderStatus
    BY DEF OrderStatus, Open
  <1>2. QED
    BY <1>1 DEF NewOrder, TypeOK

\* The first order of a request.
LEMMA OrderStep ==
    ASSUME PInv, CommitOrder
    PROVE  PInv'
  <1>1. TypeOK /\ DecisionHolds /\ OrdersNamed /\ NamesOwn /\ ReissuedIsOver
    BY DEF PInv
  <1> DEFINE r == decision.id
  <1>2. PICK o \in Order : /\ NewOrder(o, r, None)
                           /\ request' = [request EXCEPT ![r].status = "ORDERED", ![r].order = o]
    BY DEF CommitOrder
  <1>3. /\ r \in Request /\ request[r].status = "REQUESTED" /\ decision.amount \in Amounts \cup {0}
        /\ decision' = Idle
        /\ UNCHANGED <<payable, earned, credited, trackHold, payeeHold, holds, addon,
                       booked, bank, notice>>
    BY <1>1 DEF DecisionHolds, CommitOrder, Committing, ledger, holding, truth
  <1>4. /\ order[o].status = "NONE"
        /\ order'[o].status = "PENDING_APPROVAL" /\ order'[o].request = r /\ order'[o].reissueOf = None
        /\ \A p \in Order \ {o} : order'[p] = order[p]
        /\ order' \in [Order -> [status: OrderStatus, amount: Amounts \cup {0},
                                request: Request \cup {None}, reissueOf: Order \cup {None},
                                posted: BOOLEAN]]
    BY <1>1, <1>2, <1>3, NewOrderIs
  <1>5. "ORDERED" \in RequestStatus
    BY DEF RequestStatus
  <1>6. /\ request' \in [Request -> [status: RequestStatus, amount: Amounts \cup {0},
                                     order: Order \cup {None}]]
        /\ request'[r].status = "ORDERED" /\ request'[r].order = o
        /\ \A q \in Request \ {r} : request'[q] = request[q]
    <2> DEFINE new == [request[r] EXCEPT !.status = "ORDERED", !.order = o]
    <2>1. request' = [request EXCEPT ![r] = new]
      BY <1>2
    <2>2. /\ new \in [status: RequestStatus, amount: Amounts \cup {0}, order: Order \cup {None}]
          /\ new.status = "ORDERED" /\ new.order = o
      <3>1. request[r] \in [status: RequestStatus, amount: Amounts \cup {0}, order: Order \cup {None}]
        BY <1>1, <1>3 DEF TypeOK
      <3>2. QED
        BY <1>5, <3>1
    <2> HIDE DEF new
    <2>3. request \in [Request -> [status: RequestStatus, amount: Amounts \cup {0},
                                  order: Order \cup {None}]]
      BY <1>1 DEF TypeOK
    <2>4. QED
      BY <1>3, <2>1, <2>2, <2>3
  <1>7. TypeOK'
    BY <1>1, <1>3, <1>4, <1>6 DEF TypeOK, Idle
  <1>8. \A p \in Order : order[p].status # "NONE" => order[p].request # r
    BY <1>1, <1>3 DEF OrdersNamed
  <1>9. order[o].reissueOf = None
    BY <1>1, <1>4 DEF OrdersNamed
  <1>10. OrdersNamed'
    <2>1. \A x, p \in Order : order[p].reissueOf = x => order'[p].reissueOf = x
      BY <1>4, <1>9
    <2>2. ASSUME NEW p \in Order, p # o, order[p].status # "NONE"
          PROVE  /\ order'[p].request \in Request
                 /\ request'[order'[p].request].status \in {"ORDERED", "CANCELLED"}
                 /\ request'[order'[p].request].order = p \/ \E x \in Order : order'[x].reissueOf = p
      <3>1. order'[p] = order[p] /\ order[p].request \in Request
        BY <1>1, <1>4, <2>2 DEF OrdersNamed
      <3>2. request'[order[p].request] = request[order[p].request]
        BY <1>6, <1>8, <2>2, <3>1
      <3>3. QED
        BY <1>1, <2>1, <2>2, <3>1, <3>2 DEF OrdersNamed
    <2>3. ASSUME NEW p \in Order, p # o, order[p].status = "NONE"
          PROVE  order'[p].status = "NONE" /\ order'[p].reissueOf = None
      BY <1>1, <1>4, <2>3 DEF OrdersNamed
    <2>4. QED
      BY <1>3, <1>4, <1>6, <2>2, <2>3 DEF OrdersNamed
  <1>11. NamesOwn'
    BY <1>1, <1>3, <1>4, <1>6 DEF NamesOwn, TypeOK
  <1>12. ReissuedIsOver'
    BY <1>1, <1>4 DEF ReissuedIsOver, TypeOK
  <1>13. DecisionHolds'
    BY <1>3 DEF DecisionHolds, Idle
  <1>14. QED
    BY <1>7, <1>10, <1>11, <1>12, <1>13 DEF PInv

\* An order that failed or came back is issued again. The request follows, since
\* the order it replaces was not issued again before and is the one it named.
LEMMA ReissueStep ==
    ASSUME PInv, CommitReissue
    PROVE  PInv'
  <1>1. TypeOK /\ DecisionHolds /\ OrdersNamed /\ NamesOwn /\ ReissuedIsOver
    BY DEF PInv
  <1> DEFINE old == decision.id
             r == order[old].request
  <1>2. PICK o \in Order :
           /\ NewOrder(o, r, old)
           /\ request' = [q \in Request |->
                             IF request[q].order = old THEN [request[q] EXCEPT !.order = o]
                             ELSE request[q]]
    BY DEF CommitReissue
  <1>3. /\ old \in Order /\ order[old].status # "NONE" /\ decision.amount \in Amounts \cup {0}
        /\ decision' = Idle
        /\ UNCHANGED <<payable, earned, credited, trackHold, payeeHold, holds, addon,
                       booked, bank, notice>>
        /\ \A p \in Order : order[p].reissueOf # old
        /\ order[old].status \in Over
    BY <1>1 DEF DecisionHolds, CommitReissue, Committing, ledger, holding, truth
  <1>4. old # None
    BY <1>3, PayoutsAssumption DEF PayoutsAssumption
  <1>5. /\ r \in Request /\ request[r].order = old
        /\ request[r].status \in {"ORDERED", "CANCELLED"}
    BY <1>1, <1>3 DEF OrdersNamed
  <1>6. \A q \in Request : request[q].order = old => q = r
    BY <1>1, <1>4 DEF NamesOwn
  <1>7. /\ order[o].status = "NONE"
        /\ order'[o].status = "PENDING_APPROVAL" /\ order'[o].request = r /\ order'[o].reissueOf = old
        /\ \A p \in Order \ {o} : order'[p] = order[p]
        /\ order' \in [Order -> [status: OrderStatus, amount: Amounts \cup {0},
                                request: Request \cup {None}, reissueOf: Order \cup {None},
                                posted: BOOLEAN]]
    BY <1>1, <1>2, <1>3, <1>5, NewOrderIs
  <1>8. /\ request'[r].order = o /\ request'[r].status = request[r].status
        /\ \A q \in Request \ {r} : request'[q] = request[q]
    BY <1>1, <1>2, <1>5, <1>6 DEF TypeOK
  <1>9. request' \in [Request -> [status: RequestStatus, amount: Amounts \cup {0},
                                  order: Order \cup {None}]]
    <2> DEFINE Rows == [status: RequestStatus, amount: Amounts \cup {0}, order: Order \cup {None}]
    <2>1. ASSUME NEW q \in Request
          PROVE  request[q] \in Rows /\ [request[q] EXCEPT !.order = o] \in Rows
      <3>1. request[q] \in Rows
        BY <1>1 DEF TypeOK
      <3>2. QED
        BY <3>1
    <2> HIDE DEF Rows
    <2>2. request' \in [Request -> Rows]
      BY <1>2, <2>1
    <2>3. QED
      BY <2>2 DEF Rows
  <1>10. TypeOK'
    BY <1>1, <1>3, <1>7, <1>9 DEF TypeOK, Idle
  <1>11. order[o].reissueOf = None /\ o # old
    BY <1>1, <1>3, <1>7 DEF OrdersNamed
  <1>12. OrdersNamed'
    <2>1. \A x, p \in Order : order[p].reissueOf = x => order'[p].reissueOf = x
      <3>1. \A x \in Order : x # None
        BY PayoutsAssumption DEF PayoutsAssumption
      <3>2. QED
        BY <1>7, <1>11, <3>1
    <2>2. ASSUME NEW p \in Order, p # o, order[p].status # "NONE"
          PROVE  /\ order'[p].request \in Request
                 /\ request'[order'[p].request].status \in {"ORDERED", "CANCELLED"}
                 /\ request'[order'[p].request].order = p \/ \E x \in Order : order'[x].reissueOf = p
      <3>1. /\ order'[p] = order[p] /\ order[p].request \in Request
            /\ request[order[p].request].status \in {"ORDERED", "CANCELLED"}
            /\ request[order[p].request].order = p \/ \E x \in Order : order[x].reissueOf = p
        BY <1>1, <1>7, <2>2 DEF OrdersNamed
      <3>2. request'[order[p].request].status = request[order[p].request].status
        BY <1>8, <3>1
      <3>3. CASE \E x \in Order : order[x].reissueOf = p
        BY <2>1, <3>1, <3>2, <3>3
      <3>4. CASE request[order[p].request].order = p
        <4>1. CASE p = old
          BY <1>7, <3>1, <3>2, <4>1
        <4>2. CASE p # old
          <5>1. order[p].request # r
            BY <1>5, <3>4, <4>2
          <5>2. QED
            BY <1>8, <3>1, <3>4, <5>1
        <4>3. QED
          BY <4>1, <4>2
      <3>5. QED
        BY <3>1, <3>3, <3>4
    <2>3. ASSUME NEW p \in Order, p # o, order[p].status = "NONE"
          PROVE  order'[p].status = "NONE" /\ order'[p].reissueOf = None
      BY <1>1, <1>7, <2>3 DEF OrdersNamed
    <2>4. QED
      BY <1>5, <1>7, <1>8, <2>2, <2>3 DEF OrdersNamed
  <1>13. NamesOwn'
    BY <1>1, <1>5, <1>7, <1>8 DEF NamesOwn, TypeOK
  <1>14. ReissuedIsOver'
    BY <1>1, <1>3, <1>7, <1>11 DEF ReissuedIsOver, TypeOK
  <1>15. DecisionHolds'
    BY <1>3 DEF DecisionHolds, Idle
  <1>16. QED
    BY <1>10, <1>12, <1>13, <1>14, <1>15 DEF PInv

-----------------------------------------------------------------------------
\* Every step keeps the invariant.
THEOREM NextPayouts == PInv /\ [Next]_vars => PInv'
  <1> SUFFICES ASSUME PInv, [Next]_vars PROVE PInv'
    OBVIOUS
  <1>1. CASE Decisions
    BY <1>1, DecideStep, RequestStep, OrderStep, AdvanceStep, ReissueStep, LedgerStep DEF Decisions
  <1>2. CASE Next /\ ~Decisions
    BY <1>2, LedgerStep, BankStep, RecordStep DEF Next
  <1>3. CASE UNCHANGED vars
    BY <1>3 DEF vars, PInv, TypeOK, DecisionHolds, OrdersNamed, NamesOwn, ReissuedIsOver
  <1>4. QED
    BY <1>1, <1>2, <1>3

\* Every variable keeps its type.
THEOREM PayoutsTyped == Spec => []TypeOK
  <1>1. PInv => TypeOK
    BY DEF PInv
  <1>2. QED
    BY InitPayouts, NextPayouts, <1>1, PTL DEF Spec

\* Of the orders of a request, only the one it names may still be paid: an
\* artist who cancels reaches the order that is in flight.
THEOREM CancelReachesTheOrder == Spec => []RequestFollowsOrder
  <1>1. PInv => RequestFollowsOrder
    <2> SUFFICES ASSUME PInv, NEW o \in Order, order[o].status \in Open
                 PROVE  request[order[o].request].order = o
      BY DEF RequestFollowsOrder
    <2>1. order[o].status # "NONE" /\ order[o].status \notin Over
      BY DEF Open, Over
    <2>2. \A p \in Order : order[p].reissueOf # o
      BY <2>1, PayoutsAssumption DEF PInv, ReissuedIsOver, PayoutsAssumption
    <2>3. QED
      BY <2>1, <2>2 DEF PInv, OrdersNamed
  <1>2. QED
    BY InitPayouts, NextPayouts, <1>1, PTL DEF Spec

-----------------------------------------------------------------------------
(* What is reserved *)

\* What each request and each order reserves of the balance.
Asked == [r \in Request |-> IF request[r].status = "REQUESTED" THEN request[r].amount ELSE 0]
UnderWay == [o \in Order |-> IF order[o].status \in Open THEN order[o].amount ELSE 0]

\* The call that holds the lock may rely on what it checked: credits add to the
\* balance, and whatever else happens outside the lock only frees some of it.
Checked ==
    /\ decision.op \in {"request", "reissue", "charge"} =>
          decision.amount + Reserved(None) <= payable
    /\ decision.op = "order" => decision.amount = request[decision.id].amount
    /\ decision.op = "charge" => /\ addon[decision.id] = "AWAITING_PAYMENT"
                                 /\ decision.amount = AddonPrice

CInv == Covered /\ Checked

LEMMA ConstantsFinite ==
    /\ IsFiniteSet(Request) /\ IsFiniteSet(Order) /\ IsFiniteSet(Notice) /\ IsFiniteSet(Addon)
    /\ None \notin Request /\ None \notin Order
    /\ \A amount \in Amounts \cup {0} : amount \in Nat
    /\ AddonPrice \in Nat /\ MaxCredited \in Nat
  BY PayoutsAssumption DEF PayoutsAssumption

ReservedParts ==
    /\ Reserved(None) = SumFunctionOnSet(Asked, Request) + SumFunctionOnSet(UnderWay, Order)
    /\ Reserved(None) \in Nat
    /\ Asked \in [Request -> Nat] /\ SumFunctionOnSet(Asked, Request) \in Nat
    /\ UnderWay \in [Order -> Nat] /\ SumFunctionOnSet(UnderWay, Order) \in Nat

\* When no request and no order is left aside, all of them count.
LEMMA ReservedIs == TypeOK => ReservedParts
  <1> SUFFICES ASSUME TypeOK PROVE ReservedParts
    OBVIOUS
  <1> DEFINE ask == [r \in Request |-> request[r].amount]
             due == [o \in Order |-> order[o].amount]
             R == {r \in Request : request[r].status = "REQUESTED"}
             O == {o \in Order : order[o].status \in Open}
  <1>1. \A r \in Request : request[r].amount \in Nat
    BY ConstantsFinite DEF TypeOK
  <1>2. \A o \in Order : order[o].amount \in Nat
    BY ConstantsFinite DEF TypeOK
  <1>3. Reserved(None) = SumFunctionOnSet(ask, R) + SumFunctionOnSet(due, O)
    <2>1. {r \in Request : /\ request[r].status = "REQUESTED" /\ r # None
                           /\ \A o \in Order : o = None => order[o].request # r} = R
      BY ConstantsFinite
    <2>2. {o \in Order : /\ order[o].status \in Open /\ o # None
                         /\ (None # None => order[o].request # None)} = O
      BY ConstantsFinite
    <2> HIDE DEF R, O
    <2>3. QED
      BY <2>1, <2>2 DEF Reserved
  <1>4. SumFunctionOnSet(ask, R) = SumFunctionOnSet(Asked, Request)
    BY <1>1, ConstantsFinite, SumPart DEF Asked
  <1>5. SumFunctionOnSet(due, O) = SumFunctionOnSet(UnderWay, Order)
    BY <1>2, ConstantsFinite, SumPart DEF UnderWay
  <1>6. Asked \in [Request -> Nat] /\ UnderWay \in [Order -> Nat]
    BY <1>1, <1>2 DEF Asked, UnderWay
  <1>7. SumFunctionOnSet(Asked, Request) \in Nat /\ SumFunctionOnSet(UnderWay, Order) \in Nat
    BY <1>6, ConstantsFinite, SumNat
  <1>8. QED
    BY <1>3, <1>4, <1>5, <1>6, <1>7 DEF ReservedParts

LEMMA ReservedIsNext == TypeOK' => ReservedParts'
  BY ReservedIs, PTL

\* Where no request asks for more and no order is under way for more, no more
\* is reserved.
LEMMA ReservedShrinks ==
    ASSUME TypeOK, TypeOK',
           \A r \in Request : Asked'[r] <= Asked[r],
           \A o \in Order : UnderWay'[o] <= UnderWay[o]
    PROVE  Reserved(None)' <= Reserved(None)
  <1>1. SumFunctionOnSet(Asked', Request) <= SumFunctionOnSet(Asked, Request)
    BY ReservedIs, ReservedIsNext, ConstantsFinite, SumMonotone DEF ReservedParts
  <1>2. SumFunctionOnSet(UnderWay', Order) <= SumFunctionOnSet(UnderWay, Order)
    BY ReservedIs, ReservedIsNext, ConstantsFinite, SumMonotone DEF ReservedParts
  <1>3. QED
    BY <1>1, <1>2, ReservedIs, ReservedIsNext DEF ReservedParts

\* One order's part changes, and that of one request or of none.
LEMMA ReservedMoves ==
    ASSUME TypeOK, TypeOK', NEW o \in Order, NEW more \in Int,
           \/ more = 0 /\ \A q \in Request : Asked'[q] = Asked[q]
           \/ \E r \in Request : /\ more = Asked'[r] - Asked[r]
                                 /\ \A q \in Request \ {r} : Asked'[q] = Asked[q],
           \A p \in Order \ {o} : UnderWay'[p] = UnderWay[p]
    PROVE  Reserved(None)' = Reserved(None) + more + UnderWay'[o] - UnderWay[o]
  <1>1. SumFunctionOnSet(UnderWay', Order) = SumFunctionOnSet(UnderWay, Order) + UnderWay'[o] - UnderWay[o]
    BY ReservedIs, ReservedIsNext, ConstantsFinite, SumChange DEF ReservedParts
  <1>2. SumFunctionOnSet(Asked', Request) = SumFunctionOnSet(Asked, Request) + more
    <2>1. CASE more = 0 /\ \A q \in Request : Asked'[q] = Asked[q]
      <3>1. SumFunctionOnSet(Asked', Request) = SumFunctionOnSet(Asked, Request)
        BY <2>1, ReservedIs, ConstantsFinite, SumSame DEF ReservedParts
      <3>2. QED
        BY <2>1, <3>1, ReservedIs DEF ReservedParts
    <2>2. ASSUME NEW r \in Request, more = Asked'[r] - Asked[r],
                 \A q \in Request \ {r} : Asked'[q] = Asked[q]
          PROVE  SumFunctionOnSet(Asked', Request) = SumFunctionOnSet(Asked, Request) + more
      <3>1. SumFunctionOnSet(Asked', Request) = SumFunctionOnSet(Asked, Request) + Asked'[r] - Asked[r]
        BY <2>2, ReservedIs, ReservedIsNext, ConstantsFinite, SumChange DEF ReservedParts
      <3>2. Asked'[r] \in Int /\ Asked[r] \in Int /\ SumFunctionOnSet(Asked, Request) \in Int
        BY ReservedIs, ReservedIsNext DEF ReservedParts
      <3>3. QED
        BY <2>2, <3>1, <3>2
    <2>3. QED
      BY <2>1, <2>2
  <1>3. UnderWay'[o] \in Int /\ UnderWay[o] \in Int
    BY ReservedIs, ReservedIsNext DEF ReservedParts
  <1>4. QED
    BY <1>1, <1>2, <1>3, ReservedIs, ReservedIsNext DEF ReservedParts

\* A step that leaves no less room in the balance keeps what was checked.
LEMMA RoomStep ==
    ASSUME TypeOK, TypeOK', CInv,
           payable - Reserved(None) <= payable' - Reserved(None)',
           \/ decision' = Idle
           \/ /\ decision' = decision /\ UNCHANGED addon
              /\ decision.op = "order" => request'[decision.id].amount = request[decision.id].amount
    PROVE  CInv'
  <1>1. /\ payable \in Int /\ payable' \in Int
        /\ Reserved(None) \in Int /\ Reserved(None)' \in Int
    BY ReservedIs, ReservedIsNext DEF TypeOK, ReservedParts
  <1>2. Covered'
    BY <1>1 DEF CInv, Covered
  <1>3. CASE decision' = Idle
    BY <1>2, <1>3 DEF CInv, Checked, Idle
  <1>4. CASE /\ decision' = decision /\ UNCHANGED addon
             /\ decision.op = "order" => request'[decision.id].amount = request[decision.id].amount
    <2>1. decision.op \in {"request", "reissue", "charge"} =>
             decision.amount + Reserved(None)' <= payable'
      <3>1. decision.amount \in Int
        BY ConstantsFinite DEF TypeOK
      <3>2. QED
        BY <1>1, <3>1 DEF CInv, Checked
    <2>2. QED
      BY <1>2, <1>4, <2>1 DEF CInv, Checked
  <1>5. QED
    BY <1>3, <1>4

\* Without a change of requests and orders, what is reserved stays.
LEMMA NothingMoves ==
    UNCHANGED <<request, order>> => Reserved(None)' = Reserved(None)
  BY DEF Reserved

\* Credits, holds, the bank, a refund or a roll back, and the statements of an
\* approval or a hand-over: what orders are under way for stays.
LEMMA CoveredOutside ==
    ASSUME TypeOK, TypeOK', CInv,
           \/ \E amount \in Credits : StaffCredit(amount) \/ \E t \in BOOLEAN : CreditRoyalty(amount, t)
           \/ PlaceHold \/ ReleaseHold \/ RollBack
           \/ \E a \in Addon : CloseAddon(a)
           \/ \E o \in Order : \/ Transfer(o) \/ Refuse(o)
                               \/ \E n \in Notice, amount \in 1 .. MaxCredited : SendBack(n, o, amount)
    PROVE  CInv'
  <1>1. /\ UNCHANGED <<request, order>>
        /\ payable <= payable'
        /\ decision' = Idle \/ (decision' = decision /\ UNCHANGED addon)
    <2>1. payable \in Int
      BY DEF TypeOK
    <2>2. CASE \E amount \in Credits : StaffCredit(amount) \/ \E t \in BOOLEAN : CreditRoyalty(amount, t)
      <3> PICK amount \in Credits, t \in BOOLEAN : CreditRoyalty(amount, t)
        BY <2>2 DEF StaffCredit
      <3>1. amount \in Nat
        BY PayoutsAssumption DEF PayoutsAssumption
      <3>2. QED
        BY <2>1, <3>1 DEF CreditRoyalty
    <2>3. CASE PlaceHold \/ ReleaseHold \/ RollBack
      BY <2>1, <2>3 DEF PlaceHold, ReleaseHold, RollBack, ledger
    <2>4. CASE \E a \in Addon : CloseAddon(a)
      BY <2>1, <2>4, ConstantsFinite DEF CloseAddon
    <2>5. CASE \E o \in Order : \/ Transfer(o) \/ Refuse(o)
                                \/ \E n \in Notice, amount \in 1 .. MaxCredited : SendBack(n, o, amount)
      BY <2>1, <2>5 DEF Transfer, Refuse, SendBack, ledger
    <2>6. QED
      BY <2>2, <2>3, <2>4, <2>5
  <1>2. Reserved(None)' = Reserved(None)
    BY <1>1, NothingMoves
  <1>3. payable - Reserved(None) <= payable' - Reserved(None)'
    BY <1>1, <1>2, ReservedIs DEF ReservedParts, TypeOK
  <1>4. QED
    BY <1>1, <1>3, RoomStep

\* A call that checks finds the room it needs.
LEMMA CoveredDecide ==
    ASSUME TypeOK, TypeOK', CInv,
           \/ \E r \in Request : DecideOrder(r) \/ \E amount \in Amounts : DecideRequest(r, amount)
           \/ \E o \in Order : DecideApprove(o) \/ DecideSubmit(o) \/ DecideReissue(o)
           \/ \E a \in Addon : DecideCharge(a)
    PROVE  CInv'
  <1>1. PICK op, id, amount : Decide(op, id, amount)
    BY DEF DecideOrder, DecideRequest, DecideApprove, DecideSubmit, DecideReissue, DecideCharge
  <1>2. /\ decision' = [op |-> op, id |-> id, amount |-> amount]
        /\ UNCHANGED <<payable, request, order, addon>>
    BY <1>1 DEF Decide, ledger
  <1>3. Reserved(None)' = Reserved(None)
    BY <1>2, NothingMoves
  <1>4. Covered'
    BY <1>2, <1>3 DEF CInv, Covered
  <1>5. HeldPayable \in Nat /\ payable \in Int /\ Reserved(None) \in Nat
    BY ReservedIs DEF HeldPayable, TypeOK, ReservedParts
  <1>6. ASSUME NEW x \in Int, Withdrawable(None) >= x
        PROVE  x + Reserved(None)' <= payable'
    BY <1>2, <1>3, <1>5, <1>6 DEF Withdrawable
  <1>7. ASSUME NEW r \in Request, DecideOrder(r) PROVE Checked'
    BY <1>2, <1>7 DEF DecideOrder, Decide, Checked
  <1>8. ASSUME NEW r \in Request, NEW x \in Amounts, DecideRequest(r, x) PROVE Checked'
    <2>1. decision' = [op |-> "request", id |-> r, amount |-> x] /\ Withdrawable(None) >= x
      BY <1>8 DEF DecideRequest, Decide, Payable
    <2>2. x + Reserved(None)' <= payable'
      BY <1>6, <2>1, ConstantsFinite
    <2>3. QED
      BY <2>1, <2>2 DEF Checked
  <1>9. ASSUME NEW o \in Order, DecideApprove(o) \/ DecideSubmit(o) PROVE Checked'
    BY <1>9 DEF DecideApprove, DecideSubmit, Decide, Checked
  <1>10. ASSUME NEW o \in Order, DecideReissue(o) PROVE Checked'
    <2>1. /\ decision' = [op |-> "reissue", id |-> o, amount |-> order[o].amount]
          /\ Withdrawable(None) >= order[o].amount
      BY <1>10 DEF DecideReissue, Decide, Payable
    <2>2. order[o].amount + Reserved(None)' <= payable'
      BY <1>6, <2>1, ConstantsFinite DEF TypeOK
    <2>3. QED
      BY <2>1, <2>2 DEF Checked
  <1>11. ASSUME NEW a \in Addon, DecideCharge(a) PROVE Checked'
    <2>1. /\ decision' = [op |-> "charge", id |-> a, amount |-> AddonPrice]
          /\ Withdrawable(None) >= AddonPrice /\ addon'[a] = "AWAITING_PAYMENT"
      BY <1>2, <1>11 DEF DecideCharge, Decide
    <2>2. AddonPrice + Reserved(None)' <= payable'
      BY <1>6, <2>1, ConstantsFinite
    <2>3. QED
      BY <2>1, <2>2 DEF Checked
  <1>12. QED
    BY <1>4, <1>7, <1>8, <1>9, <1>10, <1>11 DEF CInv

\* What is committed was checked, and is reserved once.
LEMMA CoveredCommit ==
    ASSUME PInv, TypeOK', CInv,
           CommitRequest \/ CommitOrder \/ CommitApprove \/ CommitSubmit \/ CommitReissue \/ CommitCharge
    PROVE  CInv'
  <1>1. TypeOK /\ DecisionHolds /\ Checked /\ Covered
    BY DEF PInv, CInv
  <1>2. decision' = Idle
    BY DEF CommitRequest, CommitOrder, CommitApprove, CommitSubmit, CommitReissue, CommitCharge, Committing
  <1>3. Covered' => CInv'
    BY <1>2 DEF CInv, Checked, Idle
  <1>4. /\ payable \in Int /\ payable' \in Int /\ Reserved(None) \in Int /\ Reserved(None)' \in Int
        /\ Asked \in [Request -> Nat] /\ UnderWay \in [Order -> Nat]
        /\ decision.amount \in Int
    BY <1>1, ReservedIs, ReservedIsNext, ConstantsFinite DEF TypeOK, ReservedParts
  <1>5. ASSUME CommitRequest PROVE Covered'
    <2>1. decision.id \in Request /\ request[decision.id].status = "NONE"
      BY <1>1, <1>5 DEF CommitRequest, Committing, DecisionHolds
    <2>2. UNCHANGED <<payable, order>> /\ decision.op = "request"
      BY <1>5 DEF CommitRequest, Committing, ledger
    <2>3. \A q \in Request \ {decision.id} : request'[q] = request[q]
      BY <1>1, <1>5 DEF CommitRequest, TypeOK
    <2>4. request'[decision.id] = [status |-> "REQUESTED", amount |-> decision.amount, order |-> None]
      BY <1>1, <1>5, <2>1 DEF CommitRequest, TypeOK
    <2>5. /\ Asked[decision.id] = 0 /\ Asked'[decision.id] = decision.amount
          /\ \A q \in Request \ {decision.id} : Asked'[q] = Asked[q]
      BY <2>1, <2>3, <2>4 DEF Asked
    <2>6. SumFunctionOnSet(Asked', Request) = SumFunctionOnSet(Asked, Request) + Asked'[decision.id] - Asked[decision.id]
      BY <1>1, <2>1, <2>5, ReservedIs, ReservedIsNext, ConstantsFinite, SumChange DEF ReservedParts
    <2>7. UnderWay' = UnderWay
      BY <2>2 DEF UnderWay
    <2>8. Reserved(None)' = Reserved(None) + decision.amount
      BY <1>1, <1>4, <2>5, <2>6, <2>7, ReservedIs, ReservedIsNext DEF ReservedParts
    <2>9. QED
      BY <1>1, <1>4, <2>2, <2>8 DEF Covered, Checked
  <1>6. ASSUME CommitOrder PROVE Covered'
    <2> DEFINE r == decision.id
    <2>1. r \in Request /\ request[r].status = "REQUESTED" /\ decision.amount = request[r].amount
      BY <1>1, <1>6 DEF CommitOrder, Committing, DecisionHolds, Checked
    <2>2. PICK o \in Order :
             /\ NewOrder(o, r, None)
             /\ request' = [request EXCEPT ![r].status = "ORDERED", ![r].order = o]
      BY <1>6 DEF CommitOrder
    <2>3. payable' = payable
      BY <1>6 DEF CommitOrder, ledger
    <2>4. /\ Asked[r] = decision.amount /\ Asked'[r] = 0
          /\ \A q \in Request \ {r} : Asked'[q] = Asked[q]
      BY <1>1, <2>1, <2>2 DEF Asked, TypeOK
    <2>5. /\ UnderWay[o] = 0 /\ UnderWay'[o] = decision.amount
          /\ \A p \in Order \ {o} : UnderWay'[p] = UnderWay[p]
      BY <1>1, <2>2 DEF UnderWay, TypeOK, NewOrder, Open
    <2>6. Reserved(None)' = Reserved(None) + (Asked'[r] - Asked[r]) + UnderWay'[o] - UnderWay[o]
      BY <1>1, <1>4, <2>1, <2>4, <2>5, ReservedMoves
    <2>7. QED
      BY <1>1, <1>4, <2>3, <2>4, <2>5, <2>6 DEF Covered
  <1>7. ASSUME CommitApprove \/ CommitSubmit PROVE Covered'
    <2>1. decision.id \in Order
      BY <1>1, <1>7 DEF CommitApprove, CommitSubmit, Committing, DecisionHolds
    <2>2. UNCHANGED <<payable, request>>
      BY <1>7 DEF CommitApprove, CommitSubmit, Advance, ledger
    <2>3. PICK from \in Open, to \in Open :
             /\ order[decision.id].status = from
             /\ order' = [order EXCEPT ![decision.id].status = to]
      BY <1>7 DEF CommitApprove, CommitSubmit, Advance, Open
    <2>4. Asked' = Asked /\ \A p \in Order : UnderWay'[p] = UnderWay[p]
      BY <1>1, <2>1, <2>2, <2>3 DEF Asked, UnderWay, TypeOK
    <2>5. Reserved(None)' <= Reserved(None)
      BY <1>1, <1>4, <2>4, ReservedShrinks
    <2>6. QED
      BY <1>1, <1>4, <2>2, <2>5 DEF Covered
  <1>8. ASSUME CommitReissue PROVE Covered'
    <2> DEFINE old == decision.id
    <2>1. PICK o \in Order :
             /\ NewOrder(o, order[old].request, old)
             /\ request' = [q \in Request |->
                               IF request[q].order = old THEN [request[q] EXCEPT !.order = o]
                               ELSE request[q]]
      BY <1>8 DEF CommitReissue
    <2>2. payable' = payable /\ decision.op = "reissue"
      BY <1>8 DEF CommitReissue, Committing, ledger
    <2>3. \A q \in Request : Asked'[q] = Asked[q]
      BY <1>1, <2>1 DEF Asked, TypeOK
    <2>4. /\ UnderWay[o] = 0 /\ UnderWay'[o] = decision.amount
          /\ \A p \in Order \ {o} : UnderWay'[p] = UnderWay[p]
      BY <1>1, <2>1 DEF UnderWay, TypeOK, NewOrder, Open
    <2>5. Reserved(None)' = Reserved(None) + 0 + UnderWay'[o] - UnderWay[o]
      BY <1>1, <2>3, <2>4, ReservedMoves
    <2>6. QED
      BY <1>1, <1>4, <2>2, <2>4, <2>5 DEF Covered, Checked
  <1>9. ASSUME CommitCharge PROVE Covered'
    <2>1. UNCHANGED <<request, order>> /\ payable' = payable - decision.amount /\ decision.op = "charge"
      BY <1>9 DEF CommitCharge, Committing
    <2>2. Reserved(None)' = Reserved(None)
      BY <2>1, NothingMoves
    <2>3. QED
      BY <1>1, <1>4, <2>1, <2>2 DEF Covered, Checked
  <1>10. QED
    BY <1>3, <1>5, <1>6, <1>7, <1>8, <1>9

\* Cancellations free what was reserved; a settlement takes from the balance
\* what was reserved for it; a return adds to the balance.
LEMMA CoveredRecord ==
    ASSUME PInv, TypeOK', CInv,
           \/ \E r \in Request : CancelPayout(r)
           \/ \E o \in Order : CancelPayoutOrder(o) \/ \E outcome \in Outcome : RecordBankResult(o, outcome)
           \/ \E n \in Notice, refundFee \in BOOLEAN : RecordPayoutReturn(n, refundFee)
    PROVE  CInv'
  <1>0. TypeOK /\ DecisionHolds
    BY DEF PInv
  <1>1. /\ payable \in Int /\ payable' \in Int /\ Reserved(None) \in Int /\ Reserved(None)' \in Int
        /\ Asked \in [Request -> Nat] /\ UnderWay \in [Order -> Nat]
        /\ Asked' \in [Request -> Nat] /\ UnderWay' \in [Order -> Nat]
    BY <1>0, ReservedIs, ReservedIsNext DEF TypeOK, ReservedParts
  <1>2. ASSUME payable - Reserved(None) <= payable' - Reserved(None)', UNCHANGED <<decision, addon>>,
               \A r \in Request : request'[r].amount = request[r].amount
        PROVE  CInv'
    BY <1>0, <1>2, RoomStep DEF DecisionHolds
  <1>3. ASSUME NEW r \in Request, CancelPayout(r) PROVE CInv'
    <2>1. /\ UNCHANGED <<payable, decision, addon>>
          /\ \A q \in Request : /\ request'[q].amount = request[q].amount
                                /\ request'[q].status \in {request[q].status, "CANCELLED"}
      BY <1>0, <1>3 DEF CancelPayout, TypeOK, ledger
    <2>2. \A o \in Order : /\ order'[o].amount = order[o].amount
                          /\ order'[o].status \in {order[o].status, "CANCELLED"}
      BY <1>0, <1>3, SMTT(30) DEF CancelPayout, TypeOK
    <2>3. \A q \in Request : Asked'[q] <= Asked[q]
      BY <1>1, <2>1 DEF Asked
    <2>4. \A o \in Order : UnderWay'[o] <= UnderWay[o]
      BY <1>1, <2>2 DEF UnderWay, Open
    <2>5. Reserved(None)' <= Reserved(None)
      BY <1>0, <2>3, <2>4, ReservedShrinks
    <2>6. QED
      BY <1>1, <1>2, <2>1, <2>5
  <1>4. ASSUME NEW o \in Order, CancelPayoutOrder(o) PROVE CInv'
    <2>1. /\ UNCHANGED <<payable, decision, addon>>
          /\ \A q \in Request : /\ request'[q].amount = request[q].amount
                                /\ request'[q].status \in {request[q].status, "CANCELLED"}
      BY <1>0, <1>4 DEF CancelPayoutOrder, TypeOK, ledger
    <2>2. \A p \in Order : /\ order'[p].amount = order[p].amount
                          /\ order'[p].status \in {order[p].status, "CANCELLED"}
      BY <1>0, <1>4 DEF CancelPayoutOrder, TypeOK
    <2>3. \A q \in Request : Asked'[q] <= Asked[q]
      BY <1>1, <2>1 DEF Asked
    <2>4. \A p \in Order : UnderWay'[p] <= UnderWay[p]
      BY <1>1, <2>2 DEF UnderWay, Open
    <2>5. Reserved(None)' <= Reserved(None)
      BY <1>0, <2>3, <2>4, ReservedShrinks
    <2>6. QED
      BY <1>1, <1>2, <2>1, <2>5
  <1>5. ASSUME NEW o \in Order, NEW outcome \in Outcome, RecordBankResult(o, outcome) PROVE CInv'
    <2>1. /\ UNCHANGED <<request, decision, addon>>
          /\ order[o].status \in Open /\ order[o].amount \in Nat
          /\ order'[o].amount = order[o].amount /\ order'[o].status = StatusOf(outcome)
          /\ \A p \in Order \ {o} : order'[p] = order[p]
          /\ payable' = IF outcome = "SETTLED" THEN payable - order[o].amount ELSE payable
      BY <1>0, <1>5, ConstantsFinite DEF RecordBankResult, TypeOK, Awaiting, Open
    <2>2. /\ UnderWay[o] = order[o].amount /\ UnderWay'[o] <= UnderWay[o]
          /\ outcome = "SETTLED" => UnderWay'[o] = 0
      BY <1>1, <2>1 DEF UnderWay, StatusOf, Open
    <2>3. /\ \A p \in Order \ {o} : UnderWay'[p] = UnderWay[p]
          /\ \A q \in Request : Asked'[q] = Asked[q]
      BY <2>1 DEF UnderWay, Asked
    <2>4. Reserved(None)' = Reserved(None) + 0 + UnderWay'[o] - UnderWay[o]
      BY <1>0, <2>3, ReservedMoves
    <2>5. payable - Reserved(None) <= payable' - Reserved(None)'
      BY <1>1, <2>1, <2>2, <2>4
    <2>6. QED
      BY <1>2, <2>1, <2>5
  <1>6. ASSUME NEW n \in Notice, NEW refundFee \in BOOLEAN, RecordPayoutReturn(n, refundFee) PROVE CInv'
    <2> DEFINE o == notice[n].order
    <2>1. /\ UNCHANGED <<request, decision, addon>>
          /\ o \in Order /\ order[o].status = "SETTLED"
          /\ order' \in {order, [order EXCEPT ![o].status = "RETURNED"]}
      <3>1. /\ UNCHANGED <<request, decision, addon>> /\ o # None /\ order[o].status = "SETTLED"
            /\ order' \in {order, [order EXCEPT ![o].status = "RETURNED"]}
        BY <1>6, Zenon DEF RecordPayoutReturn
      <3>2. o \in Order \cup {None}
        BY <1>0 DEF TypeOK
      <3>3. QED
        BY <3>1, <3>2
    <2>2. payable <= payable'
      <3>1. /\ payable' = payable + notice[n].amount +
                            (IF refundFee THEN FeeOf(order[o].amount) ELSE 0)
            /\ refundFee => FeeOf(order[o].amount) > 0
        BY <1>6 DEF RecordPayoutReturn
      <3>2. FeeOf(order[o].amount) \in Nat /\ notice[n].amount \in Nat
        BY <1>0, PayoutsAssumption DEF FeeOf, TypeOK, PayoutsAssumption
      <3> HIDE DEF o
      <3>3. QED
        BY <1>1, <3>1, <3>2
    <2>3. /\ \A p \in Order : UnderWay'[p] = UnderWay[p]
          /\ \A q \in Request : Asked'[q] = Asked[q]
      <3>1. \A p \in Order : order'[p].amount = order[p].amount /\
                             (order'[p].status \in Open <=> order[p].status \in Open)
        BY <1>0, <2>1 DEF TypeOK, Open
      <3>2. QED
        BY <2>1, <3>1 DEF UnderWay, Asked
    <2>4. Reserved(None)' <= Reserved(None)
      BY <1>0, <1>1, <2>3, ReservedShrinks
    <2>5. QED
      BY <1>1, <1>2, <2>1, <2>2, <2>4
  <1>7. QED
    BY <1>3, <1>4, <1>5, <1>6

\* Nothing is reserved at the start.
THEOREM InitCovered == Init => CInv
  <1> SUFFICES ASSUME Init PROVE CInv
    OBVIOUS
  <1>1. TypeOK
    BY InitPayouts DEF PInv
  <1>2. \A r \in Request : Asked[r] = 0
    BY DEF Init, Asked, NoRequest
  <1>3. \A o \in Order : UnderWay[o] = 0
    BY DEF Init, UnderWay, NoOrder, Open
  <1>4. SumFunctionOnSet(Asked, Request) = 0 /\ SumFunctionOnSet(UnderWay, Order) = 0
    BY <1>2, <1>3, ConstantsFinite, SumZero
  <1>5. Reserved(None) = 0
    BY <1>1, <1>4, ReservedIs DEF ReservedParts
  <1>6. QED
    BY <1>5 DEF CInv, Covered, Checked, Init, Idle

\* Every step keeps what was checked.
THEOREM NextCovered == PInv /\ CInv /\ [Next]_vars => CInv'
  <1> SUFFICES ASSUME PInv, CInv, [Next]_vars PROVE CInv'
    OBVIOUS
  <1>1. TypeOK /\ TypeOK'
    BY NextPayouts DEF PInv
  <1>2. CASE Decisions
    BY <1>1, <1>2, CoveredDecide, CoveredCommit, CoveredOutside DEF Decisions
  <1>3. CASE Next /\ ~Decisions
    BY <1>1, <1>3, CoveredOutside, CoveredRecord DEF Next
  <1>4. CASE UNCHANGED vars
    BY <1>4, NothingMoves DEF vars, CInv, Covered, Checked
  <1>5. QED
    BY <1>2, <1>3, <1>4

\* However many calls race, what is reserved is in the balance it will be paid
\* from: the lock holder's check stays good until it commits.
THEOREM ReservedIsCovered == Spec => []Covered
  <1>1. CInv => Covered
    BY DEF CInv
  <1>2. QED
    BY InitPayouts, NextPayouts, InitCovered, NextCovered, <1>1, PTL DEF Spec

-----------------------------------------------------------------------------
(* What was paid *)

\* What the bank did with the transfer of an order and what the books say of
\* it: nothing leaves before the approval, what is posted left, and of an order
\* that is over the artist has nothing.
BankFollows ==
    \A o \in Order :
       /\ order[o].status \in {"NONE", "PENDING_APPROVAL"} => bank[o] = "none"
       /\ order[o].posted => bank[o] = "out" /\ order[o].status \in {"SETTLED", "RETURNED"}
       /\ order[o].status = "SETTLED" => order[o].posted
       /\ order[o].status \in Over => Kept(o) <= 0

\* Only of an order that was posted a return is booked.
BookedIsPosted ==
    \A n \in booked : notice[n].order \in Order /\ order[notice[n].order].posted

\* What the books have as paid for an order and not come back, and the fee that
\* may have been given back with the last of it.
Paid == [o \in Order |-> IF order[o].posted THEN order[o].amount - Returned(o) ELSE 0]
FeeBack ==
    [o \in Order |-> IF order[o].posted /\ order[o].status = "RETURNED"
                     THEN FeeOf(order[o].amount) ELSE 0]

\* What left the balance is paid for orders and add-ons, but for fees given back.
LedgerKept ==
    /\ credited - payable - Charged <= SumFunctionOnSet(Paid, Order)
    /\ SumFunctionOnSet(Paid, Order) - SumFunctionOnSet(FeeBack, Order)
         <= credited - payable - Charged

MInv == BankFollows /\ BookedIsPosted /\ LedgerKept

\* What types say of amounts.
AmountParts ==
    /\ \A o \in Order :
          /\ Returned(o) \in Nat /\ SentBack(o) \in Nat /\ Returned(o) <= SentBack(o)
          /\ Kept(o) \in Int /\ FeeOf(order[o].amount) \in Nat /\ order[o].amount \in Nat
    /\ Paid \in [Order -> Int] /\ FeeBack \in [Order -> Nat]
    /\ Charged \in Nat
    /\ payable \in Int /\ credited \in Int

LEMMA AmountsTyped == TypeOK => AmountParts
  <1> SUFFICES ASSUME TypeOK PROVE AmountParts
    OBVIOUS
  <1> DEFINE g == [n \in Notice |-> notice[n].amount]
  <1>1. \A n \in Notice : g[n] \in Nat
    BY ConstantsFinite DEF TypeOK
  <1>2. ASSUME NEW o \in Order
        PROVE  Returned(o) \in Nat /\ SentBack(o) \in Nat /\ Returned(o) <= SentBack(o)
    <2> DEFINE B == {n \in booked : notice[n].order = o}
               A == {n \in Notice : notice[n].order = o}
               h == [n \in A |-> IF n \in B THEN g[n] ELSE 0]
    <2>1. B \in SUBSET A /\ IsFiniteSet(A) /\ IsFiniteSet(B)
      <3>1. B \in SUBSET A /\ A \in SUBSET Notice /\ B \in SUBSET Notice
        BY DEF TypeOK
      <3> HIDE DEF A, B
      <3>2. QED
        BY <3>1, ConstantsFinite, FS_Subset
    <2>2. Returned(o) = SumFunctionOnSet(g, B) /\ SentBack(o) = SumFunctionOnSet(g, A)
      BY DEF Returned, SentBack
    <2>3. \A n \in A : g[n] \in Nat /\ h[n] \in Int /\ h[n] <= g[n] /\ h[n] = IF n \in B THEN g[n] ELSE 0
      <3>1. \A n \in A : g[n] \in Nat
        BY <1>1
      <3> HIDE DEF g, A, B
      <3>2. QED
        BY <3>1
    <2> HIDE DEF g, A, B, h
    <2>4. SumFunctionOnSet(g, B) = SumFunctionOnSet(h, A)
      BY <2>1, <2>3, SumPart
    <2>5. SumFunctionOnSet(h, A) <= SumFunctionOnSet(g, A)
      BY <2>1, <2>3, SumMonotone
    <2>6. SumFunctionOnSet(g, B) \in Nat /\ SumFunctionOnSet(g, A) \in Nat
      BY <2>1, <2>3, SumNat
    <2>7. QED
      BY <2>2, <2>4, <2>5, <2>6
  <1>3. \A o \in Order : order[o].amount \in Nat /\ FeeOf(order[o].amount) \in Nat
    BY ConstantsFinite, PayoutsAssumption DEF TypeOK, FeeOf, PayoutsAssumption
  <1>4. \A o \in Order : Kept(o) \in Int
    BY <1>2, <1>3 DEF Kept, NetOf
  <1>5. Paid \in [Order -> Int] /\ FeeBack \in [Order -> Nat]
    BY <1>2, <1>3 DEF Paid, FeeBack
  <1>6. Charged \in Nat
    <2>1. Cardinality({a \in Addon : addon[a] = "SUBMITTED"}) \in Nat
      BY ConstantsFinite, FS_Subset, FS_CardinalityType
    <2>2. QED
      BY <2>1, ConstantsFinite DEF Charged
  <1>7. payable \in Int /\ credited \in Int
    BY ConstantsFinite DEF TypeOK
  <1>8. QED
    BY <1>2, <1>3, <1>4, <1>5, <1>6, <1>7 DEF AmountParts

LEMMA AmountsTypedNext == TypeOK' => AmountParts'
  BY AmountsTyped, PTL

\* Where what is paid for orders stays, the ledger may only move with it.
LEMMA LedgerSame ==
    ASSUME TypeOK, TypeOK', LedgerKept,
           \A o \in Order : Paid'[o] = Paid[o] /\ FeeBack'[o] = FeeBack[o],
           credited' - payable' - Charged' = credited - payable - Charged
    PROVE  LedgerKept'
  <1>1. Paid \in [Order -> Int] /\ FeeBack \in [Order -> Int]
    BY AmountsTyped DEF AmountParts
  <1>2. /\ SumFunctionOnSet(Paid', Order) = SumFunctionOnSet(Paid, Order)
        /\ SumFunctionOnSet(FeeBack', Order) = SumFunctionOnSet(FeeBack, Order)
    BY <1>1, ConstantsFinite, SumSame
  <1>3. QED
    BY <1>2 DEF LedgerKept

\* Orders that go on to another status, none of them posted.
LEMMA StatusMoves ==
    ASSUME TypeOK, TypeOK', MInv,
           UNCHANGED <<payable, credited, addon, booked, bank, notice>>,
           \A p \in Order :
              /\ order'[p].posted = order[p].posted /\ order'[p].amount = order[p].amount
              /\ \/ order'[p].status = order[p].status
                 \/ /\ ~order[p].posted
                    /\ order'[p].status \notin {"NONE", "PENDING_APPROVAL", "SETTLED"}
                    /\ order'[p].status \in Over => Kept(p) <= 0
    PROVE  MInv'
  <1>1. \A p \in Order : Returned(p)' = Returned(p) /\ Kept(p)' = Kept(p)
    BY DEF Returned, Kept, SentBack
  <1>2. BankFollows'
    BY <1>1 DEF MInv, BankFollows
  <1>3. BookedIsPosted'
    BY DEF MInv, BookedIsPosted
  <1>4. \A p \in Order : Paid'[p] = Paid[p] /\ FeeBack'[p] = FeeBack[p]
    BY <1>1 DEF Paid, FeeBack
  <1>5. Charged' = Charged
    BY DEF Charged
  <1>6. LedgerKept'
    BY <1>4, <1>5, LedgerSame DEF MInv
  <1>7. QED
    BY <1>2, <1>3, <1>6 DEF MInv

\* Neither orders nor the bank move.
LEMMA MoneyOutside ==
    ASSUME TypeOK, TypeOK', MInv,
           UNCHANGED <<order, booked, bank, notice>>,
           credited' - payable' - Charged' = credited - payable - Charged
    PROVE  MInv'
  <1>1. \A p \in Order : Returned(p)' = Returned(p) /\ Kept(p)' = Kept(p)
    BY DEF Returned, Kept, SentBack
  <1>2. BankFollows' /\ BookedIsPosted'
    BY <1>1 DEF MInv, BankFollows, BookedIsPosted
  <1>3. \A p \in Order : Paid'[p] = Paid[p] /\ FeeBack'[p] = FeeBack[p]
    BY <1>1 DEF Paid, FeeBack
  <1>4. LedgerKept'
    BY <1>3, LedgerSame DEF MInv
  <1>5. QED
    BY <1>2, <1>4 DEF MInv

\* One more add-on charged, or one less, changes what was charged by its price.
LEMMA ChargedMoves ==
    ASSUME NEW a \in Addon,
           NEW f \in [Addon -> {"AWAITING_PAYMENT", "SUBMITTED", "CANCELLED"}],
           NEW h \in [Addon -> {"AWAITING_PAYMENT", "SUBMITTED", "CANCELLED"}],
           h[a] = "SUBMITTED", f[a] # "SUBMITTED", \A x \in Addon \ {a} : f[x] = h[x]
    PROVE  AddonPrice * Cardinality({x \in Addon : h[x] = "SUBMITTED"}) =
              AddonPrice * Cardinality({x \in Addon : f[x] = "SUBMITTED"}) + AddonPrice
  <1> DEFINE F == {x \in Addon : f[x] = "SUBMITTED"}
             H == {x \in Addon : h[x] = "SUBMITTED"}
  <1>1. H = F \cup {a} /\ a \notin F
    OBVIOUS
  <1>2. IsFiniteSet(F)
    BY ConstantsFinite, FS_Subset
  <1> HIDE DEF F, H
  <1>3. Cardinality(H) = Cardinality(F) + 1 /\ Cardinality(F) \in Nat
    BY <1>1, <1>2, FS_AddElement, FS_CardinalityType
  <1>4. \A n \in Nat : AddonPrice * (n + 1) = AddonPrice * n + AddonPrice
    BY ConstantsFinite
  <1>5. AddonPrice * Cardinality(H) = AddonPrice * Cardinality(F) + AddonPrice
    BY <1>3, <1>4
  <1>6. QED
    BY <1>5 DEF F, H

\* Credits, holds, add-ons, and what a call decides of requests.
LEMMA MoneyLedger ==
    ASSUME TypeOK, TypeOK', PInv, CInv, MInv,
           \/ \E amount \in Credits : StaffCredit(amount) \/ \E t \in BOOLEAN : CreditRoyalty(amount, t)
           \/ PlaceHold \/ ReleaseHold \/ RollBack \/ CommitRequest \/ CommitCharge
           \/ \E op, id, amount : Decide(op, id, amount)
           \/ \E a \in Addon : CloseAddon(a)
    PROVE  MInv'
  <1>1. /\ AmountParts /\ AmountParts'
        /\ addon \in [Addon -> {"AWAITING_PAYMENT", "SUBMITTED", "CANCELLED"}]
        /\ addon' \in [Addon -> {"AWAITING_PAYMENT", "SUBMITTED", "CANCELLED"}]
    BY AmountsTyped, AmountsTypedNext DEF TypeOK
  <1>2. UNCHANGED addon => Charged' = Charged
    BY DEF Charged
  <1>3. CASE \E amount \in Credits : StaffCredit(amount) \/ \E t \in BOOLEAN : CreditRoyalty(amount, t)
    <2> PICK amount \in Credits, t \in BOOLEAN : CreditRoyalty(amount, t)
      BY <1>3 DEF StaffCredit
    <2>1. amount \in Nat
      BY PayoutsAssumption DEF PayoutsAssumption
    <2>2. /\ UNCHANGED <<order, booked, bank, notice>> /\ Charged' = Charged
          /\ payable' = payable + amount /\ credited' = credited + amount
      BY <1>2 DEF CreditRoyalty, truth
    <2>3. credited' - payable' - Charged' = credited - payable - Charged
      BY <1>1, <2>1, <2>2 DEF AmountParts
    <2>4. QED
      BY <2>2, <2>3, MoneyOutside
  <1>4. CASE \/ PlaceHold \/ ReleaseHold \/ RollBack \/ CommitRequest
             \/ \E op, id, amount : Decide(op, id, amount)
    <2>1. UNCHANGED <<order, booked, bank, notice, payable, credited, addon>>
      BY <1>4 DEF PlaceHold, ReleaseHold, RollBack, CommitRequest, Decide, ledger, truth
    <2>2. QED
      BY <1>2, <2>1, MoneyOutside
  <1>5. CASE CommitCharge
    <2> DEFINE a == decision.id
    <2>1. /\ a \in Addon /\ addon[a] = "AWAITING_PAYMENT" /\ decision.amount = AddonPrice
      BY <1>5 DEF CommitCharge, Committing, PInv, DecisionHolds, CInv, Checked
    <2>2. /\ UNCHANGED <<order, booked, bank, notice, credited>>
          /\ payable' = payable - AddonPrice
          /\ addon'[a] = "SUBMITTED" /\ \A x \in Addon \ {a} : addon[x] = addon'[x]
      BY <1>1, <1>5, <2>1 DEF CommitCharge, truth
    <2>3. Charged' = Charged + AddonPrice
      BY <1>1, <2>1, <2>2, ChargedMoves DEF Charged
    <2>4. credited' - payable' - Charged' = credited - payable - Charged
      BY <1>1, <2>2, <2>3, ConstantsFinite DEF AmountParts
    <2>5. QED
      BY <2>2, <2>4, MoneyOutside
  <1>6. CASE \E a \in Addon : CloseAddon(a)
    <2> PICK a \in Addon : CloseAddon(a)
      BY <1>6
    <2>1. /\ UNCHANGED <<order, booked, bank, notice, credited>>
          /\ addon'[a] = "CANCELLED" /\ \A x \in Addon \ {a} : addon'[x] = addon[x]
          /\ payable' = IF addon[a] = "SUBMITTED" THEN payable + AddonPrice ELSE payable
      BY <1>1 DEF CloseAddon, truth
    <2>2. Charged = IF addon[a] = "SUBMITTED" THEN Charged' + AddonPrice ELSE Charged'
      <3>1. CASE addon[a] = "SUBMITTED"
        BY <1>1, <2>1, <3>1, ChargedMoves DEF Charged
      <3>2. CASE addon[a] # "SUBMITTED"
        <4>1. {x \in Addon : addon'[x] = "SUBMITTED"} = {x \in Addon : addon[x] = "SUBMITTED"}
          BY <2>1, <3>2
        <4>2. QED
          BY <3>2, <4>1 DEF Charged
      <3>3. QED
        BY <3>1, <3>2
    <2>3. credited' - payable' - Charged' = credited - payable - Charged
      BY <1>1, <2>1, <2>2, ConstantsFinite DEF AmountParts
    <2>4. QED
      BY <2>1, <2>3, MoneyOutside
  <1>7. QED
    BY <1>3, <1>4, <1>5, <1>6

\* Approvals, hand-overs, cancellations and every result but a settlement.
LEMMA MoneyMoves ==
    ASSUME TypeOK, TypeOK', PInv, MInv,
           \/ CommitApprove \/ CommitSubmit
           \/ \E r \in Request : CancelPayout(r)
           \/ \E o \in Order : \/ CancelPayoutOrder(o)
                               \/ \E outcome \in Outcome \ {"SETTLED"} : RecordBankResult(o, outcome)
    PROVE  MInv'
  <1> DEFINE Moves ==
          \A p \in Order :
              /\ order'[p].posted = order[p].posted /\ order'[p].amount = order[p].amount
              /\ \/ order'[p].status = order[p].status
                 \/ /\ ~order[p].posted
                    /\ order'[p].status \notin {"NONE", "PENDING_APPROVAL", "SETTLED"}
                    /\ order'[p].status \in Over => Kept(p) <= 0
  <1>1. /\ \A p \in Order : order[p].posted => order[p].status \in {"SETTLED", "RETURNED"}
        /\ \A p \in Order : order[p].status = "PENDING_APPROVAL" => bank[p] = "none"
        /\ \A p \in Order : bank[p] # "out" => Kept(p) = 0
    BY DEF MInv, BankFollows, Kept
  <1>2. ASSUME CommitApprove \/ CommitSubmit PROVE Moves
    <2>1. decision.id \in Order
      BY <1>2 DEF CommitApprove, CommitSubmit, Committing, PInv, DecisionHolds
    <2>2. PICK from \in {"PENDING_APPROVAL", "APPROVED"}, to \in {"APPROVED", "SUBMITTED"} :
             /\ order[decision.id].status = from
             /\ order' = [order EXCEPT ![decision.id].status = to]
      BY <1>2 DEF CommitApprove, CommitSubmit, Advance
    <2>3. QED
      BY <1>1, <2>1, <2>2 DEF TypeOK, Over
  <1>3. ASSUME NEW r \in Request, CancelPayout(r) PROVE Moves
    BY <1>1, <1>3 DEF CancelPayout, ArtistCancels, TypeOK
  <1>4. ASSUME NEW o \in Order, CancelPayoutOrder(o) PROVE Moves
    BY <1>1, <1>4 DEF CancelPayoutOrder, TypeOK
  <1>5. ASSUME NEW o \in Order, NEW outcome \in Outcome \ {"SETTLED"}, RecordBankResult(o, outcome)
        PROVE  Moves
    <2>1. /\ Awaiting(order[o].status) /\ True(o, outcome)
          /\ order'[o].status = StatusOf(outcome) /\ order'[o].posted = FALSE
          /\ order'[o].amount = order[o].amount
          /\ \A p \in Order \ {o} : order'[p] = order[p]
      BY <1>5 DEF RecordBankResult, TypeOK
    <2>2. order[o].posted = FALSE
      BY <1>1, <2>1, SMTT(30) DEF Awaiting, TypeOK
    <2>3. StatusOf(outcome) \in {"FAILED", "RETURNED", "SUBMITTED_UNKNOWN"}
      BY DEF StatusOf, Outcome
    <2>4. StatusOf(outcome) \in Over => Kept(o) <= 0
      <3>1. CASE outcome = "FAILED"
        BY <1>1, <2>1, <3>1 DEF True
      <3>2. CASE outcome = "RETURNED"
        BY <2>1, <3>2 DEF True
      <3>3. CASE outcome = "UNKNOWN"
        BY <3>3 DEF StatusOf, Over
      <3>4. QED
        BY <3>1, <3>2, <3>3 DEF Outcome
    <2>5. QED
      BY <2>1, <2>2, <2>3, <2>4
  <1>6. UNCHANGED <<payable, credited, addon, booked, bank, notice>>
    <2>1. CASE \E o \in Order : \E outcome \in Outcome \ {"SETTLED"} : RecordBankResult(o, outcome)
      BY <2>1 DEF RecordBankResult, truth
    <2>2. CASE ~\E o \in Order : \E outcome \in Outcome \ {"SETTLED"} : RecordBankResult(o, outcome)
      BY <2>2 DEF CommitApprove, CommitSubmit, Advance, CancelPayout, CancelPayoutOrder, ledger, truth
    <2>3. QED
      BY <2>1, <2>2
  <1>7. QED
    BY <1>2, <1>3, <1>4, <1>5, <1>6, StatusMoves

\* A settlement posts the order's amount, of which nothing came back yet.
LEMMA MoneySettle ==
    ASSUME TypeOK, TypeOK', PInv, MInv, NEW o \in Order, RecordBankResult(o, "SETTLED")
    PROVE  MInv'
  <1>1. AmountParts /\ AmountParts'
    BY AmountsTyped, AmountsTypedNext
  <1>2. /\ UNCHANGED <<credited, addon, booked, bank, notice>>
        /\ payable' = payable - order[o].amount
        /\ Awaiting(order[o].status) /\ bank[o] = "out"
        /\ order'[o].status = "SETTLED" /\ order'[o].posted /\ order'[o].amount = order[o].amount
        /\ \A p \in Order \ {o} : order'[p] = order[p]
    BY DEF RecordBankResult, True, StatusOf, TypeOK, truth
  <1>3. ~order[o].posted
    BY <1>2 DEF MInv, BankFollows, Awaiting
  <1>4. \A p \in Order : Returned(p)' = Returned(p) /\ Kept(p)' = Kept(p)
    <2>1. \A p \in Order : Returned(p)' = Returned(p) /\ SentBack(p)' = SentBack(p)
      BY <1>2 DEF Returned, SentBack
    <2>2. QED
      BY <1>2, <2>1 DEF Kept
  <1>5. Returned(o) = 0
    <2>1. {n \in booked : notice[n].order = o} = {}
      BY <1>3 DEF MInv, BookedIsPosted
    <2>2. QED
      BY <2>1, SumEmpty DEF Returned
  <1>6. BankFollows'
    BY <1>2, <1>4 DEF MInv, BankFollows, Over
  <1>7. BookedIsPosted'
    BY <1>2 DEF MInv, BookedIsPosted
  <1>8. /\ Paid[o] = 0 /\ Paid'[o] = order[o].amount
        /\ \A p \in Order \ {o} : Paid'[p] = Paid[p]
        /\ \A p \in Order : FeeBack'[p] = FeeBack[p]
    BY <1>1, <1>2, <1>3, <1>4, <1>5 DEF Paid, FeeBack, AmountParts
  <1>9. SumFunctionOnSet(Paid', Order) = SumFunctionOnSet(Paid, Order) + Paid'[o] - Paid[o]
    BY <1>1, <1>8, ConstantsFinite, SumChange DEF AmountParts
  <1>10. SumFunctionOnSet(FeeBack', Order) = SumFunctionOnSet(FeeBack, Order)
    BY <1>1, <1>8, ConstantsFinite, SumSame DEF AmountParts
  <1>11. SumFunctionOnSet(Paid, Order) \in Int /\ SumFunctionOnSet(FeeBack, Order) \in Int
    BY <1>1, ConstantsFinite, SumInt DEF AmountParts
  <1>12. Charged' = Charged
    BY <1>2 DEF Charged
  <1>13. order[o].amount \in Int
    BY <1>1 DEF AmountParts
  <1>14. LedgerKept'
    BY <1>1, <1>2, <1>8, <1>9, <1>10, <1>11, <1>12, <1>13 DEF MInv, LedgerKept, AmountParts
  <1>15. QED
    BY <1>6, <1>7, <1>14 DEF MInv

\* A new order: nothing left for it.
LEMMA MoneyNewOrder ==
    ASSUME TypeOK, TypeOK', PInv, MInv, CommitOrder \/ CommitReissue
    PROVE  MInv'
  <1>1. UNCHANGED <<payable, credited, addon, booked, bank, notice>>
    BY DEF CommitOrder, CommitReissue, ledger, truth
  <1>2. PICK o \in Order : \E r, old : NewOrder(o, r, old)
    BY DEF CommitOrder, CommitReissue
  <1>3. /\ order[o].status = "NONE"
        /\ order'[o].status = "PENDING_APPROVAL" /\ order'[o].posted = FALSE
        /\ \A p \in Order \ {o} : order'[p] = order[p]
    BY <1>2 DEF NewOrder, TypeOK
  <1>4. order[o].posted = FALSE /\ bank[o] = "none"
    BY <1>3 DEF MInv, BankFollows, TypeOK
  <1>5. \A p \in Order : Returned(p)' = Returned(p) /\ SentBack(p)' = SentBack(p)
    BY <1>1 DEF Returned, SentBack
  <1>6. \A p \in Order : Kept(p)' = Kept(p)
    BY <1>1, <1>3, <1>4, <1>5 DEF Kept
  <1>7. BankFollows'
    BY <1>1, <1>3, <1>4, <1>6 DEF MInv, BankFollows, Over
  <1>8. BookedIsPosted'
    BY <1>1, <1>3, <1>4 DEF MInv, BookedIsPosted
  <1>9. \A p \in Order : Paid'[p] = Paid[p] /\ FeeBack'[p] = FeeBack[p]
    BY <1>3, <1>4, <1>5 DEF Paid, FeeBack
  <1>10. Charged' = Charged
    BY <1>1 DEF Charged
  <1>11. LedgerKept'
    BY <1>1, <1>9, <1>10, LedgerSame DEF MInv
  <1>12. QED
    BY <1>7, <1>8, <1>11 DEF MInv

\* What the bank does changes nothing in the books.
LEMMA MoneyBank ==
    ASSUME TypeOK, TypeOK', MInv, NEW o \in Order, Transfer(o) \/ Refuse(o)
    PROVE  MInv'
  <1>1. UNCHANGED <<payable, credited, addon, booked, order, notice>>
    BY DEF Transfer, Refuse, ledger
  <1>2. /\ \A p \in Order \ {o} : bank'[p] = bank[p]
        /\ \/ bank'[o] = "out" /\ order[o].status = "APPROVED" /\ bank[o] = "none"
           \/ bank'[o] = "refused" /\ bank[o] = "out" /\ ~order[o].posted
    BY DEF Transfer, Refuse, TypeOK
  <1>3. \A p \in Order : Returned(p)' = Returned(p) /\ SentBack(p)' = SentBack(p)
    BY <1>1 DEF Returned, SentBack
  <1>4. \A p \in Order : Kept(p)' = Kept(p) \/ order[p].status = "APPROVED" \/ Kept(p)' = 0
    BY <1>1, <1>2, <1>3 DEF Kept
  <1>5. BankFollows'
    BY <1>1, <1>2, <1>4 DEF MInv, BankFollows, Over
  <1>6. BookedIsPosted'
    BY <1>1 DEF MInv, BookedIsPosted
  <1>7. \A p \in Order : Paid'[p] = Paid[p] /\ FeeBack'[p] = FeeBack[p]
    BY <1>1, <1>3 DEF Paid, FeeBack
  <1>8. Charged' = Charged
    BY <1>1 DEF Charged
  <1>9. LedgerKept'
    BY <1>1, <1>7, <1>8, LedgerSame DEF MInv
  <1>10. QED
    BY <1>5, <1>6, <1>9 DEF MInv

\* Money comes back of an order the artist has money of, which is not over; it
\* is not booked yet.
LEMMA MoneyBack ==
    ASSUME TypeOK, TypeOK', MInv, NEW o \in Order, NEW n \in Notice, NEW amount \in 1 .. MaxCredited,
           SendBack(n, o, amount)
    PROVE  MInv'
  <1>1. /\ UNCHANGED <<payable, credited, addon, booked, order, bank>>
        /\ notice[n] = NoNotice /\ Kept(o) > 0
        /\ notice'[n].order = o
        /\ \A m \in Notice \ {n} : notice'[m] = notice[m]
    BY DEF SendBack, ledger, TypeOK
  <1>2. n \notin booked /\ booked \subseteq Notice
    BY <1>1, ConstantsFinite DEF MInv, BookedIsPosted, NoNotice, TypeOK
  <1> DEFINE g == [m \in Notice |-> notice[m].amount]
             h == [m \in Notice |-> notice'[m].amount]
  <1>3. \A m \in Notice \ {n} : g[m] \in Int /\ h[m] = g[m]
    <2>1. \A m \in Notice : notice[m].amount \in Int
      BY ConstantsFinite DEF TypeOK
    <2>2. QED
      BY <1>1, <2>1
  <1>4. \A p \in Order : Returned(p)' = Returned(p)
    <2> TAKE p \in Order
    <2> DEFINE B == {m \in booked : notice[m].order = p}
    <2>1. {m \in booked : notice'[m].order = p} = B
      BY <1>1, <1>2
    <2>2. B \subseteq Notice \ {n} /\ IsFiniteSet(B)
      <3>1. B \subseteq Notice \ {n}
        BY <1>2
      <3> HIDE DEF B
      <3>2. QED
        BY <3>1, ConstantsFinite, FS_Subset
    <2>3. Returned(p) = SumFunctionOnSet(g, B)
      BY DEF Returned
    <2>4. Returned(p)' = SumFunctionOnSet(h, B)
      BY <1>1, <2>1 DEF Returned
    <2> HIDE DEF g, h, B
    <2>5. QED
      BY <1>3, <2>2, <2>3, <2>4, SumSame
  <1>5. \A p \in Order \ {o} : SentBack(p)' = SentBack(p)
    <2> TAKE p \in Order \ {o}
    <2> DEFINE A == {m \in Notice : notice[m].order = p}
    <2>1. {m \in Notice : notice'[m].order = p} = A
      BY <1>1, ConstantsFinite DEF NoNotice
    <2>2. A \subseteq Notice \ {n} /\ IsFiniteSet(A)
      <3>1. A \subseteq Notice \ {n}
        BY <1>1, ConstantsFinite DEF NoNotice
      <3> HIDE DEF A
      <3>2. QED
        BY <3>1, ConstantsFinite, FS_Subset
    <2>3. SentBack(p) = SumFunctionOnSet(g, A)
      BY DEF SentBack
    <2>4. SentBack(p)' = SumFunctionOnSet(h, A)
      BY <2>1 DEF SentBack
    <2> HIDE DEF g, h, A
    <2>5. QED
      BY <1>3, <2>2, <2>3, <2>4, SumSame
  <1>6. \A p \in Order \ {o} : Kept(p)' = Kept(p)
    BY <1>1, <1>5 DEF Kept
  <1>7. order[o].status \notin Over
    <2>1. Kept(o) \in Int
      BY AmountsTyped DEF AmountParts
    <2>2. QED
      BY <1>1, <2>1 DEF MInv, BankFollows
  <1>8. BankFollows'
    BY <1>1, <1>6, <1>7 DEF MInv, BankFollows
  <1>9. BookedIsPosted'
    BY <1>1, <1>2 DEF MInv, BookedIsPosted
  <1>10. \A p \in Order : Paid'[p] = Paid[p] /\ FeeBack'[p] = FeeBack[p]
    BY <1>1, <1>4 DEF Paid, FeeBack
  <1>11. Charged' = Charged
    BY <1>1 DEF Charged
  <1>12. LedgerKept'
    BY <1>1, <1>10, <1>11, LedgerSame DEF MInv
  <1>13. QED
    BY <1>8, <1>9, <1>12 DEF MInv

\* A return is booked: what is paid for the order is less by its amount, and
\* with the last of it the order is over and its fee may be given back.
LEMMA MoneyReturn ==
    ASSUME TypeOK, TypeOK', PInv, MInv, NEW n \in Notice, NEW refundFee \in BOOLEAN,
           RecordPayoutReturn(n, refundFee)
    PROVE  MInv'
  <1>0. PICK o \in Order, x \in Nat : o = notice[n].order /\ x = notice[n].amount
    BY ConstantsFinite DEF RecordPayoutReturn, TypeOK
  <1> DEFINE full == Returned(o) + x = NetOf(order[o].amount)
             fee == IF refundFee THEN FeeOf(order[o].amount) ELSE 0
  <1>1. AmountParts /\ AmountParts'
    BY AmountsTyped, AmountsTypedNext
  <1>2. /\ booked \subseteq Notice
        /\ UNCHANGED <<credited, addon, bank, notice>>
        /\ n \notin booked /\ booked' = booked \cup {n}
        /\ order[o].status = "SETTLED"
        /\ payable' = payable + x + fee
        /\ refundFee => full
        /\ order' = IF full THEN [order EXCEPT ![o].status = "RETURNED"] ELSE order
    BY <1>0 DEF RecordPayoutReturn, Unbooked, truth, TypeOK
  <1>3. /\ \A p \in Order \ {o} : order'[p] = order[p]
        /\ order'[o].posted = order[o].posted /\ order'[o].amount = order[o].amount
        /\ order'[o].status = IF full THEN "RETURNED" ELSE "SETTLED"
    BY <1>2 DEF TypeOK
  <1>4. order[o].posted /\ bank[o] = "out"
    BY <1>2 DEF MInv, BankFollows
  <1> DEFINE g == [m \in Notice |-> notice[m].amount]
  <1>5. \A m \in Notice : g[m] \in Int
    BY ConstantsFinite DEF TypeOK
  <1>6. Returned(o)' = Returned(o) + x
    <2> DEFINE B == {m \in booked : notice[m].order = o}
               C == {m \in booked \cup {n} : notice[m].order = o}
    <2>1. Returned(o)' = SumFunctionOnSet(g, C)
      BY <1>2 DEF Returned
    <2>2. Returned(o) = SumFunctionOnSet(g, B)
      BY DEF Returned
    <2>3. n \in C /\ C \ {n} = B /\ C \subseteq Notice /\ g[n] = x
      BY <1>0, <1>2
    <2>4. IsFiniteSet(C)
      BY <2>3, ConstantsFinite, FS_Subset
    <2> HIDE DEF g, B, C
    <2>5. SumFunctionOnSet(g, C) = g[n] + SumFunctionOnSet(g, C \ {n})
      BY <1>5, <2>3, <2>4, SumRemove
    <2>6. Returned(o) \in Int
      BY <1>1, <1>2 DEF AmountParts
    <2>7. Returned(o)' = x + Returned(o)
      BY <2>1, <2>2, <2>3, <2>5
    <2>8. QED
      BY <2>6, <2>7
  <1>7. \A p \in Order \ {o} : Returned(p)' = Returned(p)
    <2> TAKE p \in Order \ {o}
    <2>1. {m \in booked \cup {n} : notice[m].order = p} = {m \in booked : notice[m].order = p}
      BY <1>0
    <2>2. QED
      BY <1>2, <2>1 DEF Returned
  <1>8. \A p \in Order : SentBack(p)' = SentBack(p) /\ Kept(p)' = Kept(p)
    <2>1. \A p \in Order : SentBack(p)' = SentBack(p)
      BY <1>2 DEF SentBack
    <2>2. QED
      BY <1>2, <1>3, <2>1 DEF Kept
  <1> HIDE DEF g
  <1>9. full => Kept(o)' <= 0
    <2> SUFFICES ASSUME full PROVE Kept(o)' <= 0
      OBVIOUS
    <2>1. /\ Returned(o)' <= SentBack(o)' /\ Returned(o)' \in Nat /\ SentBack(o)' \in Nat
          /\ order'[o].amount \in Nat /\ FeeOf(order'[o].amount) \in Nat
      BY <1>1, <1>2 DEF AmountParts
    <2>2. Returned(o)' = NetOf(order'[o].amount)
      BY <1>3, <1>6
    <2>3. Kept(o)' = NetOf(order'[o].amount) - SentBack(o)'
      BY <1>2, <1>4 DEF Kept
    <2>4. QED
      BY <2>1, <2>2, <2>3 DEF NetOf
  <1>10. BankFollows'
    BY <1>2, <1>3, <1>4, <1>8, <1>9 DEF MInv, BankFollows, Over
  <1>11. BookedIsPosted'
    <2>1. \A m \in booked : notice[m].order \in Order /\ order[notice[m].order].posted
      BY DEF MInv, BookedIsPosted
    <2>2. \A p \in Order : order'[p].posted = order[p].posted
      BY <1>3
    <2>3. QED
      BY <1>0, <1>2, <1>4, <2>1, <2>2 DEF BookedIsPosted
  <1>12. /\ Paid'[o] = Paid[o] - x
         /\ \A p \in Order \ {o} : Paid'[p] = Paid[p] /\ FeeBack'[p] = FeeBack[p]
    BY <1>1, <1>2, <1>3, <1>4, <1>6, <1>7 DEF Paid, FeeBack, AmountParts
  <1>13. /\ FeeBack[o] = 0 /\ FeeBack'[o] = IF full THEN FeeOf(order[o].amount) ELSE 0
    BY <1>2, <1>3, <1>4 DEF FeeBack
  <1>14. SumFunctionOnSet(Paid', Order) = SumFunctionOnSet(Paid, Order) + Paid'[o] - Paid[o]
    BY <1>1, <1>2, <1>12, ConstantsFinite, SumChange DEF AmountParts
  <1>15. SumFunctionOnSet(FeeBack', Order) = SumFunctionOnSet(FeeBack, Order) + FeeBack'[o] - FeeBack[o]
    BY <1>1, <1>2, <1>12, ConstantsFinite, SumChange DEF AmountParts
  <1>16. /\ SumFunctionOnSet(Paid, Order) \in Int /\ SumFunctionOnSet(FeeBack, Order) \in Int
         /\ Paid[o] \in Int /\ FeeOf(order[o].amount) \in Nat
    BY <1>1, <1>2, ConstantsFinite, SumInt DEF AmountParts
  <1>17. Charged' = Charged
    BY <1>2 DEF Charged
  <1>18. fee \in Nat /\ fee <= FeeBack'[o] /\ FeeBack'[o] \in Nat
    BY <1>2, <1>13, <1>16
  <1> HIDE DEF fee, full
  <1>19. LedgerKept'
    BY <1>1, <1>2, <1>12, <1>13, <1>14, <1>15, <1>16, <1>17, <1>18 DEF MInv, LedgerKept, AmountParts
  <1>20. QED
    BY <1>10, <1>11, <1>19 DEF MInv

\* Every step keeps the books true to the bank.
THEOREM NextMoney == PInv /\ CInv /\ MInv /\ [Next]_vars => MInv'
  <1> SUFFICES ASSUME PInv, CInv, MInv, [Next]_vars PROVE MInv'
    OBVIOUS
  <1>1. TypeOK /\ TypeOK'
    BY NextPayouts DEF PInv
  <1>2. CASE Decisions
    <2>1. CASE \/ \E r \in Request : DecideOrder(r) \/ \E amount \in Amounts : DecideRequest(r, amount)
               \/ \E o \in Order : DecideApprove(o) \/ DecideSubmit(o) \/ DecideReissue(o)
               \/ \E a \in Addon : DecideCharge(a)
      <3>1. \E op, id, amount : Decide(op, id, amount)
        BY <2>1 DEF DecideOrder, DecideRequest, DecideApprove, DecideSubmit, DecideReissue, DecideCharge
      <3>2. QED
        BY <1>1, <3>1, MoneyLedger
    <2>2. CASE CommitRequest \/ CommitCharge \/ RollBack
      BY <1>1, <2>2, MoneyLedger
    <2>3. CASE CommitOrder \/ CommitReissue
      BY <1>1, <2>3, MoneyNewOrder
    <2>4. CASE CommitApprove \/ CommitSubmit
      BY <1>1, <2>4, MoneyMoves
    <2>5. QED
      BY <1>2, <2>1, <2>2, <2>3, <2>4 DEF Decisions
  <1>3. CASE \/ \E amount \in Credits : StaffCredit(amount) \/ \E t \in BOOLEAN : CreditRoyalty(amount, t)
             \/ PlaceHold \/ ReleaseHold \/ \E a \in Addon : CloseAddon(a)
    BY <1>1, <1>3, MoneyLedger
  <1>4. CASE \/ \E r \in Request : CancelPayout(r)
             \/ \E o \in Order : CancelPayoutOrder(o)
    BY <1>1, <1>4, MoneyMoves
  <1>5. CASE \E o \in Order : \E outcome \in Outcome : RecordBankResult(o, outcome)
    BY <1>1, <1>5, MoneyMoves, MoneySettle
  <1>6. CASE \E o \in Order : \/ Transfer(o) \/ Refuse(o)
                              \/ \E n \in Notice, amount \in 1 .. MaxCredited : SendBack(n, o, amount)
    BY <1>1, <1>6, MoneyBank, MoneyBack
  <1>7. CASE \E n \in Notice, refundFee \in BOOLEAN : RecordPayoutReturn(n, refundFee)
    BY <1>1, <1>7, MoneyReturn
  <1>8. CASE UNCHANGED vars
    <2>1. Charged' = Charged
      BY <1>8 DEF vars, Charged
    <2>2. AmountParts
      BY <1>1, AmountsTyped
    <2>3. QED
      BY <1>1, <1>8, <2>1, <2>2, MoneyOutside DEF vars
  <1>9. QED
    BY <1>2, <1>3, <1>4, <1>5, <1>6, <1>7, <1>8 DEF Next

\* The inductive invariant of the books, as a theorem of the specification.
THEOREM PayoutsBooks == Spec => [](PInv /\ CInv /\ MInv)
  <1>1. Init => MInv
    <2> SUFFICES ASSUME Init PROVE MInv
      OBVIOUS
    <2>1. TypeOK /\ AmountParts
      BY InitPayouts, AmountsTyped DEF PInv
    <2>2. BankFollows /\ BookedIsPosted
      BY <2>1 DEF Init, BankFollows, BookedIsPosted, NoOrder, Kept
    <2>3. \A o \in Order : Paid[o] = 0 /\ FeeBack[o] = 0
      BY DEF Init, Paid, FeeBack, NoOrder
    <2>4. SumFunctionOnSet(Paid, Order) = 0 /\ SumFunctionOnSet(FeeBack, Order) = 0
      BY <2>3, ConstantsFinite, SumZero
    <2>5. Charged = 0
      <3>1. {a \in Addon : addon[a] = "SUBMITTED"} = {}
        BY DEF Init
      <3>2. Charged = AddonPrice * 0
        BY <3>1, FS_EmptySet, Zenon DEF Charged
      <3>3. QED
        BY <3>2, ConstantsFinite
    <2>6. QED
      BY <2>2, <2>4, <2>5 DEF MInv, LedgerKept, Init
  <1>2. QED
    BY InitPayouts, NextPayouts, InitCovered, NextCovered, NextMoney, <1>1, PTL DEF Spec

\* What the artist has of an order and what is reserved for it was taken from
\* the balance, or is still in it.
THEOREM MoneyIsNeverTwice == Spec => []NeverTwice
  <1>1. PInv /\ CInv /\ MInv => NeverTwice
    <2> SUFFICES ASSUME PInv, MInv PROVE NeverTwice
      OBVIOUS
    <2>1. TypeOK /\ AmountParts /\ ReservedParts
      BY AmountsTyped, ReservedIs DEF PInv
    <2> DEFINE kept == [o \in Order |-> Kept(o)]
               net == [o \in Order |-> Paid[o] - FeeBack[o]]
               due == [o \in Order |-> net[o] + UnderWay[o]]
    <2>2. \A o \in Order : kept[o] <= due[o]
      <3> TAKE o \in Order
      <3>1. /\ Returned(o) \in Nat /\ SentBack(o) \in Nat /\ Returned(o) <= SentBack(o)
            /\ FeeOf(order[o].amount) \in Nat /\ order[o].amount \in Nat
        BY <2>1 DEF AmountParts
      <3>2. Kept(o) = IF bank[o] = "out" THEN order[o].amount - FeeOf(order[o].amount) - SentBack(o) ELSE 0
        BY DEF Kept, NetOf
      <3>3. CASE order[o].posted
        <4>1. bank[o] = "out" /\ order[o].status \in {"SETTLED", "RETURNED"}
          BY <3>3 DEF MInv, BankFollows
        <4>2. /\ Paid[o] = order[o].amount - Returned(o) /\ UnderWay[o] = 0
              /\ FeeBack[o] \in {0, FeeOf(order[o].amount)}
          BY <3>3, <4>1 DEF Paid, FeeBack, UnderWay, Open
        <4>3. QED
          BY <3>1, <3>2, <4>1, <4>2
      <3>4. CASE ~order[o].posted
        <4>1. Paid[o] = 0 /\ FeeBack[o] = 0
          BY <3>4 DEF Paid, FeeBack
        <4>2. CASE order[o].status \in Open
          <5>1. UnderWay[o] = order[o].amount
            BY <4>2 DEF UnderWay
          <5>2. QED
            BY <3>1, <3>2, <4>1, <5>1
        <4>3. CASE order[o].status \notin Open
          <5>1. UnderWay[o] = 0 /\ order[o].status \in Over
            BY <2>1, <3>4, <4>3 DEF UnderWay, TypeOK, OrderStatus, MInv, BankFollows
          <5>2. Kept(o) <= 0
            BY <5>1 DEF MInv, BankFollows
          <5>3. QED
            BY <4>1, <5>1, <5>2
        <4>4. QED
          BY <4>2, <4>3
      <3>5. QED
        BY <3>3, <3>4
    <2>3. /\ \A o \in Order : /\ Paid[o] \in Int /\ FeeBack[o] \in Int /\ UnderWay[o] \in Int
                              /\ kept[o] \in Int /\ net[o] \in Int /\ due[o] \in Int
                              /\ Paid[o] = net[o] + FeeBack[o] /\ due[o] = net[o] + UnderWay[o]
      BY <2>1 DEF AmountParts, ReservedParts
    <2> HIDE DEF kept, net, due
    <2>4. SumFunctionOnSet(kept, Order) <= SumFunctionOnSet(due, Order)
      BY <2>2, <2>3, ConstantsFinite, SumMonotone
    <2>5. SumFunctionOnSet(due, Order) = SumFunctionOnSet(net, Order) + SumFunctionOnSet(UnderWay, Order)
      BY <2>3, ConstantsFinite, SumPlus
    <2>6. SumFunctionOnSet(Paid, Order) = SumFunctionOnSet(net, Order) + SumFunctionOnSet(FeeBack, Order)
      BY <2>3, ConstantsFinite, SumPlus
    <2>7. /\ SumFunctionOnSet(kept, Order) \in Int /\ SumFunctionOnSet(net, Order) \in Int
          /\ SumFunctionOnSet(FeeBack, Order) \in Int
      BY <2>3, ConstantsFinite, SumInt
    <2>8. Held(Order) = SumFunctionOnSet(kept, Order)
      BY DEF Held, kept
    <2>9. QED
      BY <2>1, <2>4, <2>5, <2>6, <2>7, <2>8
      DEF NeverTwice, MInv, LedgerKept, AmountParts, ReservedParts
  <1>2. QED
    BY PayoutsBooks, <1>1, PTL

\* However a request is cancelled, refused, returned or issued again, the artist
\* has the money of at most one of its orders.
THEOREM RequestIsPaidOnce == Spec => []PaidOnce
  <1>1. PInv /\ CInv /\ MInv => PaidOnce
    <2> SUFFICES ASSUME PInv, MInv, NEW o \in Order, NEW p \in Order,
                        Kept(o) > 0, Kept(p) > 0, order[o].request = order[p].request
                 PROVE  o = p
      BY DEF PaidOnce
    <2>1. ASSUME NEW x \in Order, Kept(x) > 0
          PROVE  request[order[x].request].order = x
      <3>1. order[x].status \notin Over
        <4>1. Kept(x) \in Int
          BY AmountsTyped DEF PInv, AmountParts
        <4>2. QED
          BY <2>1, <4>1 DEF MInv, BankFollows
      <3>2. \A y \in Order : order[y].reissueOf # x
        BY <3>1, PayoutsAssumption DEF PInv, ReissuedIsOver, PayoutsAssumption
      <3>3. QED
        BY <3>1, <3>2 DEF PInv, OrdersNamed, Over
    <2>2. QED
      BY <2>1
  <1>2. QED
    BY PayoutsBooks, <1>1, PTL

\* Once everything the bank did is recorded, the books agree with the bank,
\* but for the fees.
THEOREM BooksAgreeWithBank == Spec => []BooksMatchBank
  <1>1. PInv /\ CInv /\ MInv => BooksMatchBank
    <2> SUFFICES ASSUME PInv, MInv,
                        \A o \in Order : bank[o] = "out" => order[o].posted,
                        \A n \in Notice : notice[n].order # None => n \in booked
                 PROVE  FeesTaken \in FeesOf({o \in Order : order[o].status = "SETTLED"}) ..
                                      FeesOf({o \in Order : order[o].posted})
      BY DEF BooksMatchBank
    <2>1. TypeOK /\ AmountParts
      BY AmountsTyped DEF PInv
    <2> DEFINE kept == [o \in Order |-> Kept(o)]
               fees == [o \in Order |-> FeeOf(order[o].amount)]
               posted == {o \in Order : order[o].posted}
               settled == {o \in Order : order[o].status = "SETTLED"}
               ofPosted == [o \in Order |-> IF o \in posted THEN fees[o] ELSE 0]
               ofSettled == [o \in Order |-> IF o \in settled THEN fees[o] ELSE 0]
    <2>2. \A o \in Order : Returned(o) = SentBack(o)
      <3> TAKE o \in Order
      <3>1. {n \in booked : notice[n].order = o} = {n \in Notice : notice[n].order = o}
        BY <2>1, ConstantsFinite DEF TypeOK
      <3>2. QED
        BY <3>1 DEF Returned, SentBack
    <2>3. \A o \in Order : /\ Paid[o] = kept[o] + ofPosted[o]
                           /\ ofPosted[o] = ofSettled[o] + FeeBack[o]
      <3> TAKE o \in Order
      <3>1. /\ SentBack(o) \in Nat /\ FeeOf(order[o].amount) \in Nat /\ order[o].amount \in Nat
        BY <2>1 DEF AmountParts
      <3>2. Kept(o) = IF bank[o] = "out" THEN order[o].amount - FeeOf(order[o].amount) - SentBack(o) ELSE 0
        BY DEF Kept, NetOf
      <3>3. /\ order[o].posted <=> bank[o] = "out"
            /\ order[o].posted => order[o].status \in {"SETTLED", "RETURNED"}
            /\ order[o].status = "SETTLED" => order[o].posted
        BY DEF MInv, BankFollows
      <3>4. Paid[o] = kept[o] + ofPosted[o]
        BY <2>2, <3>1, <3>2, <3>3 DEF Paid
      <3>5. ofPosted[o] = ofSettled[o] + FeeBack[o]
        BY <3>1, <3>3 DEF FeeBack
      <3>6. QED
        BY <3>4, <3>5
    <2>4. \A o \in Order : /\ kept[o] \in Int /\ fees[o] \in Int /\ FeeBack[o] \in Int
                           /\ ofPosted[o] = IF o \in posted THEN fees[o] ELSE 0
                           /\ ofSettled[o] = IF o \in settled THEN fees[o] ELSE 0
      BY <2>1 DEF AmountParts
    <2>5. posted \in SUBSET Order /\ settled \in SUBSET Order
      OBVIOUS
    <2>6. /\ Held(Order) = SumFunctionOnSet(kept, Order)
          /\ FeesOf(posted) = SumFunctionOnSet(fees, posted)
          /\ FeesOf(settled) = SumFunctionOnSet(fees, settled)
      BY DEF Held, FeesOf
    <2> HIDE DEF kept, fees, posted, settled, ofPosted, ofSettled
    <2>7. /\ FeesOf(posted) = SumFunctionOnSet(ofPosted, Order)
          /\ FeesOf(settled) = SumFunctionOnSet(ofSettled, Order)
      BY <2>4, <2>5, <2>6, ConstantsFinite, SumPart
    <2>8. \A o \in Order : ofPosted[o] \in Int /\ ofSettled[o] \in Int
      BY <2>4
    <2>9. /\ SumFunctionOnSet(Paid, Order) = SumFunctionOnSet(kept, Order) + SumFunctionOnSet(ofPosted, Order)
          /\ SumFunctionOnSet(ofPosted, Order) = SumFunctionOnSet(ofSettled, Order) + SumFunctionOnSet(FeeBack, Order)
      BY <2>3, <2>4, <2>8, ConstantsFinite, SumPlus, ZenonT(40)
    <2>10. /\ SumFunctionOnSet(kept, Order) \in Int /\ SumFunctionOnSet(ofSettled, Order) \in Int
           /\ SumFunctionOnSet(FeeBack, Order) \in Int /\ SumFunctionOnSet(ofPosted, Order) \in Int
      BY <2>4, <2>8, ConstantsFinite, SumInt
    <2>11. /\ FeesTaken <= FeesOf(posted) /\ FeesOf(settled) <= FeesTaken
           /\ FeesTaken \in Int /\ FeesOf(posted) \in Int /\ FeesOf(settled) \in Int
      BY <2>1, <2>6, <2>7, <2>9, <2>10 DEF FeesTaken, MInv, LedgerKept, AmountParts
    <2>12. QED
      BY <2>11 DEF posted, settled
  <1>2. QED
    BY PayoutsBooks, <1>1, PTL

=============================================================================
