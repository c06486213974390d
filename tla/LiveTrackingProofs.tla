------------------------- MODULE LiveTrackingProofs -------------------------
(***************************************************************************)
(* For any number of handlers, polls and tries and any partner: the belief *)
(* about a delivered package never goes back, a delivery fails only when   *)
(* the partner refused it, and a poll that was done is not run again.      *)
(***************************************************************************)
EXTENDS LiveTracking, TLAPS

\* A refusal in the hands of a poll is what the partner said, and refused is
\* where a release at the partner ends.
RefusalsAreTrue ==
    \A r \in Runner :
       run[r].kind = "poll" /\ run[r].pc = "apply" /\ run[r].ans = "REJECTED" => dsp = "refused"

LiveInv == TypeOK /\ FailedIsRefusal /\ RefusalsAreTrue

-----------------------------------------------------------------------------
(* Types *)

\* A delivered package whose first poll is scheduled, or not.
LEMMA InitTyped == Init => TypeOK
  <1> SUFFICES ASSUME Init PROVE TypeOK
    OBVIOUS
  <1>1. MaxPolls \in Nat /\ MaxTries \in Nat \ {0}
    BY LiveTrackingAssumption DEF LiveTrackingAssumption
  <1>2. Absent \in Row /\ Fresh \in Row
    BY <1>1 DEF Absent, Fresh, Row
  <1>3. polls \in [PollNo -> Row] /\ takedown \in Row
    BY <1>2 DEF Init
  <1>4. run \in [Runner -> Run]
    BY <1>1 DEF Init, Idle, Run, Answer, PollNo, Verdict
  <1>5. {rid, acked, asked} \subseteq BOOLEAN
    BY Zenon DEF Init
  <1>6. QED
    BY <1>3, <1>4, <1>5 DEF Init, TypeOK

\* Rows stay rows, whatever a run does to them.
LEMMA RowsTyped ==
    ASSUME NEW row \in Row, NEW r \in Runner
    PROVE  /\ Claimable(row) => Claimed(row, r) \in Row
           /\ \A s \in {"QUEUED", "SUCCEEDED", "DEAD_LETTER"} : Ended(row, s) \in Row
           /\ Retried(row) \in Row
           /\ Absent \in Row /\ Fresh \in Row
  <1>1. MaxTries \in Nat \ {0}
    BY LiveTrackingAssumption DEF LiveTrackingAssumption
  <1>2. QED
    BY <1>1 DEF Row, Claimable, Claimed, Ended, Retried, Absent, Fresh

\* The queue's side of a run: claims, leases that run out, ends and errors.
QueueActions(r) ==
    \/ \E n \in PollNo : ClaimPoll(r, n)
    \/ ClaimTakedown(r) \/ Finish(r) \/ HandlerError(r) \/ Crash(r) \/ Schedule(r)

Sweeps == (\E n \in PollNo : ReclaimPoll(n)) \/ ReclaimTakedown \/ QueueTakedown

\* The queue's steps touch rows and runs only, and keep their types.
LEMMA QueueTyped ==
    ASSUME TypeOK, (\E r \in Runner : QueueActions(r)) \/ Sweeps
    PROVE  TypeOK'
  <1>1. /\ polls \in [PollNo -> Row] /\ takedown \in Row /\ run \in [Runner -> Run]
        /\ \A row \in Row, r \in Runner :
              /\ Claimable(row) => Claimed(row, r) \in Row
              /\ \A s \in {"QUEUED", "SUCCEEDED", "DEAD_LETTER"} : Ended(row, s) \in Row
              /\ Retried(row) \in Row
    BY RowsTyped DEF TypeOK
  <1>2. Idle \in Run
    BY LiveTrackingAssumption DEF Idle, Run, Answer, PollNo, Verdict, LiveTrackingAssumption
  <1>3. Absent \in Row /\ Fresh \in Row
    BY LiveTrackingAssumption DEF Absent, Fresh, Row, LiveTrackingAssumption
  <1>4. ASSUME NEW r \in Runner, QueueActions(r)
        PROVE  polls' \in [PollNo -> Row] /\ takedown' \in Row /\ run' \in [Runner -> Run]
    <2>1. CASE \E n \in PollNo : ClaimPoll(r, n)
      <3> PICK n \in PollNo : ClaimPoll(r, n)
        BY <2>1
      <3>1. polls' \in [PollNo -> Row] /\ takedown' \in Row
        BY <1>1 DEF ClaimPoll
      <3>2. [Idle EXCEPT !.n = n, !.pc = "ask"] \in Run
        BY <1>2 DEF Run
      <3>3. QED
        BY <1>1, <3>1, <3>2 DEF ClaimPoll
    <2>2. CASE ClaimTakedown(r)
      <3>1. [Idle EXCEPT !.kind = "takedown", !.pc = "ask"] \in Run
        BY <1>2 DEF Run
      <3>2. QED
        BY <1>1, <2>2, <3>1 DEF ClaimTakedown
    <2>3. CASE Finish(r)
      <3>1. RowOf(r) \in Row
        BY <1>1 DEF RowOf, Run
      <3>2. QED
        BY <1>1, <1>2, <2>3, <3>1 DEF Finish, SetRow
    <2>4. CASE HandlerError(r) \/ Crash(r)
      BY <1>1, <1>2, <2>4 DEF HandlerError, Crash, Goto, Run, Verdict
    <2>5. CASE Schedule(r)
      <3>1. polls' \in [PollNo -> Row]
        BY <1>1, <1>3, <2>5 DEF Schedule
      <3>2. QED
        BY <1>1, <2>5, <3>1 DEF Schedule, Goto, Run, Verdict
    <2>6. QED
      BY <1>4, <2>1, <2>2, <2>3, <2>4, <2>5 DEF QueueActions
  <1>5. ASSUME Sweeps
        PROVE  polls' \in [PollNo -> Row] /\ takedown' \in Row /\ run' \in [Runner -> Run]
    BY <1>1, <1>3, <1>5, RowsTyped DEF Sweeps, ReclaimPoll, ReclaimTakedown, QueueTakedown, Retried, Ended, Row
  <1>6. UNCHANGED <<belief, evidence, partner, seen>>
    BY DEF QueueActions, Sweeps, ClaimPoll, ClaimTakedown, Finish, HandlerError, Crash, Schedule,
           ReclaimPoll, ReclaimTakedown, QueueTakedown
  <1>7. QED
    BY <1>4, <1>5, <1>6 DEF TypeOK, belief, partner

\* What a handler asks the partner and records of it.
Handling(r) == Ask(r) \/ Apply(r) \/ CallTakedown(r) \/ RecordTakedown(r)

LEMMA HandlingTyped ==
    ASSUME TypeOK, NEW r \in Runner, Handling(r)
    PROVE  TypeOK'
  <1>1. /\ status \in {"DELIVERED", "FAILED"}
        /\ binding \in {"INGESTING", "LIVE", "TAKEDOWN_REQUESTED", "TAKEN_DOWN"}
        /\ cases \subseteq {"PARTNER_REJECTED", "MISSING_ACK", "OVERDUE_LIVE"}
        /\ run \in [Runner -> Run] /\ run[r] \in Run
        /\ dsp \in {"ingesting", "live", "refused", "removed"}
    BY DEF TypeOK
  <1>2. rid \in BOOLEAN /\ acked \in BOOLEAN /\ asked \in BOOLEAN
    BY Zenon DEF TypeOK
  <1>3. UNCHANGED <<polls, takedown, evidence, dsp, mail, seen>>
    BY DEF Handling, Ask, Apply, CallTakedown, RecordTakedown, partner, belief
  <1>4. run' \in [Runner -> Run]
    <2>1. CASE Ask(r)
      <3>1. Reply \in Answer
        BY <1>1 DEF Reply, Answer
      <3>2. QED
        BY <1>1, <2>1, <3>1 DEF Ask, Run, Verdict
    <2>2. CASE Apply(r) \/ CallTakedown(r) \/ RecordTakedown(r)
      <3>1. \E pc \in {"next", "record"} \cup Verdict : Goto(r, pc)
        BY <2>2 DEF Apply, CallTakedown, RecordTakedown, Verdict
      <3>2. QED
        BY <1>1, <3>1 DEF Goto, Run, Verdict
    <2>3. QED
      BY <2>1, <2>2 DEF Handling
  <1>5. status' \in {"DELIVERED", "FAILED"} /\ cases' \subseteq {"PARTNER_REJECTED", "MISSING_ACK", "OVERDUE_LIVE"}
    BY <1>1 DEF Handling, Ask, Apply, CallTakedown, RecordTakedown, Open, belief
  <1>6. binding' \in {"INGESTING", "LIVE", "TAKEDOWN_REQUESTED", "TAKEN_DOWN"}
    BY <1>1 DEF Handling, Ask, Apply, CallTakedown, RecordTakedown, belief
  <1>7. acked' \in BOOLEAN /\ rid' \in BOOLEAN
    <2>1. CASE Apply(r)
      <3>1. PICK ack \in Evidence(run[r].ans) : acked' = (acked \/ ack)
        BY <2>1 DEF Apply
      <3>2. acked' \in BOOLEAN
        BY <3>1, Zenon
      <3>3. rid' = (rid \/ run[r].ans = "LIVE")
        BY <2>1 DEF Apply
      <3>4. rid' \in BOOLEAN
        BY <3>3, Zenon
      <3>5. QED
        BY <3>2, <3>4
    <2>2. CASE Ask(r) \/ CallTakedown(r) \/ RecordTakedown(r)
      BY <1>2, <2>2 DEF Ask, CallTakedown, RecordTakedown, belief
    <2>3. QED
      BY <2>1, <2>2 DEF Handling
  <1>8. asked' \in BOOLEAN
    BY <1>2 DEF Handling, Ask, Apply, CallTakedown, RecordTakedown, partner
  <1>9. {rid', acked', asked'} \subseteq BOOLEAN
    BY <1>7, <1>8, Zenon
  <1>10. QED
    BY <1>3, <1>4, <1>5, <1>6, <1>9 DEF TypeOK

\* The partner and its webhooks, the staff and the reconciler.
Outside ==
    \/ Partner \/ FileEvidence \/ ReconcileAck \/ ReconcileLive
    \/ \E e \in Events : Report(e) \/ ApplyAck(e)
    \/ \E e \in {"LIVE", "TAKEN_DOWN"} : RecordEvidence(e)

LEMMA OutsideTyped ==
    ASSUME TypeOK, Outside
    PROVE  TypeOK'
  <1>1. UNCHANGED jobs /\ UNCHANGED status /\ UNCHANGED asked
    BY DEF Outside, Partner, FileEvidence, ReconcileAck, ReconcileLive, Report, ApplyAck,
           RecordEvidence, belief, partner
  <1>2. binding' \in {"INGESTING", "LIVE", "TAKEDOWN_REQUESTED", "TAKEN_DOWN"}
    <2>1. \/ UNCHANGED binding
          \/ \E e \in Events : binding' = IF e \in {"LIVE", "TAKEN_DOWN"} THEN e ELSE binding
          \/ \E e \in {"LIVE", "TAKEN_DOWN"} : binding' = IF status = "DELIVERED" THEN e ELSE binding
      BY DEF Outside, Partner, FileEvidence, ReconcileAck, ReconcileLive, Report, ApplyAck,
             RecordEvidence, belief
    <2>2. QED
      BY <2>1 DEF TypeOK
  <1>3. cases' \subseteq {"PARTNER_REJECTED", "MISSING_ACK", "OVERDUE_LIVE"}
    <2>1. UNCHANGED cases \/ Open("MISSING_ACK") \/ Open("OVERDUE_LIVE")
      BY DEF Outside, Partner, FileEvidence, ReconcileAck, ReconcileLive, Report, ApplyAck,
             RecordEvidence, belief
    <2>2. QED
      BY <2>1 DEF TypeOK, Open
  <1>4. evidence' \subseteq {"LIVE", "TAKEN_DOWN"}
    BY DEF TypeOK, Outside, Partner, FileEvidence, ReconcileAck, ReconcileLive, Report, ApplyAck,
           RecordEvidence
  <1>5. dsp' \in {"ingesting", "live", "refused", "removed"}
    BY DEF TypeOK, Outside, Partner, FileEvidence, ReconcileAck, ReconcileLive, Report, ApplyAck,
           RecordEvidence, partner
  <1>6. mail' \subseteq Events /\ seen' \subseteq mail'
    <2>1. \/ UNCHANGED <<mail, seen>>
          \/ \E e \in Events : mail' = mail \cup {e} /\ UNCHANGED seen
          \/ \E e \in mail : seen' = seen \cup {e} /\ UNCHANGED mail
      BY DEF Outside, Partner, FileEvidence, ReconcileAck, ReconcileLive, Report, ApplyAck,
             RecordEvidence, partner
    <2>2. QED
      BY <2>1 DEF TypeOK
  <1>7. rid' \in BOOLEAN /\ acked' \in BOOLEAN
    <2>1. CASE \E e \in Events : ApplyAck(e)
      <3> PICK e \in Events : ApplyAck(e)
        BY <2>1
      <3>1. acked' = (acked \/ e # "TAKEN_DOWN") /\ rid' = (rid \/ e = "LIVE")
        BY DEF ApplyAck
      <3>2. QED
        BY <3>1, Zenon
    <2>2. CASE \E e \in {"LIVE", "TAKEN_DOWN"} : RecordEvidence(e)
      <3> PICK e \in {"LIVE", "TAKEN_DOWN"} : RecordEvidence(e)
        BY <2>2
      <3>1. PICK known \in BOOLEAN :
               rid' = (rid \/ (e = "LIVE" /\ status = "DELIVERED" /\ known))
        BY DEF RecordEvidence
      <3>2. rid' \in BOOLEAN
        BY <3>1, Zenon
      <3>3. acked' = acked
        BY DEF RecordEvidence
      <3>4. acked \in BOOLEAN
        BY Zenon DEF TypeOK
      <3>5. QED
        BY <3>2, <3>3, <3>4
    <2>3. CASE UNCHANGED <<rid, acked>>
      <3>1. rid \in BOOLEAN /\ acked \in BOOLEAN
        BY Zenon DEF TypeOK
      <3>2. QED
        BY <2>3, <3>1
    <2>4. QED
      BY <2>1, <2>2, <2>3 DEF Outside, Partner, FileEvidence, ReconcileAck, ReconcileLive, Report, belief
  <1>8. asked' \in BOOLEAN
    <2>1. asked \in BOOLEAN
      BY Zenon DEF TypeOK
    <2>2. QED
      BY <1>1, <2>1
  <1>9. {rid', acked', asked'} \subseteq BOOLEAN
    BY <1>7, <1>8, Zenon
  <1>10. QED
    BY <1>1, <1>2, <1>3, <1>4, <1>5, <1>6, <1>9 DEF TypeOK, jobs

-----------------------------------------------------------------------------
(* The invariant *)

\* Every step is a step of the queue, of a handler or of the world outside.
LEMMA StepKinds ==
    ASSUME Next
    PROVE  (\E r \in Runner : QueueActions(r) \/ Handling(r)) \/ Sweeps \/ Outside
  BY DEF Next, Handle, QueueActions, Handling, Sweeps, Outside

\* Refused is where a release at the partner ends.
LEMMA RefusedStays ==
    ASSUME Next, dsp = "refused"
    PROVE  dsp' = "refused"
  <1>1. Partner \/ UNCHANGED dsp
    BY DEF Next, Handle, ClaimPoll, ClaimTakedown, Finish, HandlerError, Crash, Schedule, Ask, Apply,
           CallTakedown, RecordTakedown, ReclaimPoll, ReclaimTakedown, QueueTakedown, FileEvidence,
           ReconcileAck, ReconcileLive, Report, ApplyAck, RecordEvidence, partner
  <1>2. QED
    BY <1>1 DEF Partner

\* A delivery fails, and keeps its case, only by a refusal a poll has in hand.
LEMMA FailuresAreRefusals ==
    ASSUME LiveInv, Next
    PROVE  FailedIsRefusal' /\ RefusalsAreTrue'
  <1> USE DEF LiveInv
  <1>1. \/ UNCHANGED status /\ cases \subseteq cases'
        \/ \E r \in Runner : Apply(r)
    BY DEF Next, Handle, ClaimPoll, ClaimTakedown, Finish, HandlerError, Crash, Schedule, Ask,
           CallTakedown, RecordTakedown, ReclaimPoll, ReclaimTakedown, QueueTakedown, FileEvidence,
           ReconcileAck, ReconcileLive, Report, ApplyAck, RecordEvidence, Partner, belief, Open
  <1>2. FailedIsRefusal'
    <2>1. CASE UNCHANGED status /\ cases \subseteq cases'
      BY <2>1, RefusedStays DEF FailedIsRefusal
    <2>2. CASE \E r \in Runner : Apply(r)
      BY <2>2, RefusedStays DEF FailedIsRefusal, RefusalsAreTrue, Apply, Open
    <2>3. QED
      BY <1>1, <2>1, <2>2
  <1>3. RefusalsAreTrue'
    <2> SUFFICES ASSUME NEW q \in Runner, run'[q].kind = "poll", run'[q].pc = "apply",
                        run'[q].ans = "REJECTED"
                 PROVE  dsp' = "refused"
      BY DEF RefusalsAreTrue
    <2>1. CASE Ask(q)
      BY <2>1 DEF Ask, Reply, TypeOK, partner
    <2>2. CASE run'[q] = run[q]
      BY <2>2, RefusedStays DEF RefusalsAreTrue
    <2>3. CASE ~Ask(q) /\ run'[q] # run[q]
      <3>1. run' # run
        BY <2>3
      <3>2. PICK r \in Runner : QueueActions(r) \/ Handling(r)
        BY <3>1, StepKinds DEF Sweeps, Outside, ReclaimPoll, ReclaimTakedown, QueueTakedown,
           Partner, FileEvidence, ReconcileAck, ReconcileLive, Report, ApplyAck, RecordEvidence, jobs
      <3>3. r = q
        BY <2>3, <3>2 DEF TypeOK, QueueActions, Handling, ClaimPoll, ClaimTakedown, Finish, HandlerError,
           Crash, Schedule, Ask, Apply, CallTakedown, RecordTakedown, Goto
      <3>4. \/ run' = [run EXCEPT ![q] = Idle]
            \/ \E n \in PollNo : run' = [run EXCEPT ![q] = [Idle EXCEPT !.n = n, !.pc = "ask"]]
            \/ run' = [run EXCEPT ![q] = [Idle EXCEPT !.kind = "takedown", !.pc = "ask"]]
            \/ \E pc \in {"next", "record", "succeed", "fail", "giveup"} : Goto(q, pc)
        <4>1. CASE Handling(q)
          <5>1. Apply(q) \/ CallTakedown(q) \/ RecordTakedown(q)
            BY <2>3, <4>1 DEF Handling
          <5>2. QED
            BY <5>1 DEF Apply, CallTakedown, RecordTakedown
        <4>2. CASE HandlerError(q) \/ Schedule(q) \/ Finish(q) \/ Crash(q)
          BY <4>2 DEF HandlerError, Schedule, Finish, Crash
        <4>3. CASE ClaimTakedown(q)
          BY <4>3 DEF ClaimTakedown
        <4>4. ASSUME NEW n \in PollNo, ClaimPoll(q, n)
              PROVE  run' = [run EXCEPT ![q] = [Idle EXCEPT !.n = n, !.pc = "ask"]]
          BY <4>4 DEF ClaimPoll
        <4>5. QED
          <5>1. \/ Handling(q) \/ (HandlerError(q) \/ Schedule(q) \/ Finish(q) \/ Crash(q))
                \/ ClaimTakedown(q) \/ \E n \in PollNo : ClaimPoll(q, n)
            BY <3>2, <3>3 DEF QueueActions
          <5>2. CASE \E n \in PollNo : ClaimPoll(q, n)
            <6> PICK n \in PollNo : ClaimPoll(q, n)
              BY <5>2
            <6>1. QED
              BY <4>4
          <5>3. QED
            BY <5>1, <5>2, <4>1, <4>2, <4>3
      <3>5. run \in [Runner -> Run]
        BY DEF TypeOK
      <3>6. run'[q].pc # "apply"
        <4>1. \A to : run' = [run EXCEPT ![q] = to] => run'[q] = to
          BY <3>5
        <4>2. Idle.pc = "idle" /\ [Idle EXCEPT !.kind = "takedown", !.pc = "ask"].pc = "ask"
          BY DEF Idle
        <4>3. \A n \in PollNo : [Idle EXCEPT !.n = n, !.pc = "ask"].pc = "ask"
          BY DEF Idle
        <4>4. \A pc : Goto(q, pc) => run'[q].pc = pc
          BY <3>5 DEF Goto, Run
        <4>5. CASE \E pc \in {"next", "record", "succeed", "fail", "giveup"} : Goto(q, pc)
          BY <4>4, <4>5
        <4>6. CASE \E n \in PollNo : run' = [run EXCEPT ![q] = [Idle EXCEPT !.n = n, !.pc = "ask"]]
          <5> PICK n \in PollNo : run' = [run EXCEPT ![q] = [Idle EXCEPT !.n = n, !.pc = "ask"]]
            BY <4>6
          <5>1. QED
            BY <4>1, <4>3
        <4>7. QED
          BY <3>4, <4>1, <4>2, <4>5, <4>6
      <3>7. QED
        BY <3>6
    <2>4. QED
      BY <2>1, <2>2, <2>3
  <1>4. QED
    BY <1>2, <1>3

\* A behaviour starts with the package delivered and nothing refused.
LEMMA InitInv == Init => LiveInv
  <1> SUFFICES ASSUME Init PROVE LiveInv
    OBVIOUS
  <1>1. FailedIsRefusal /\ RefusalsAreTrue
    BY DEF Init, Idle, FailedIsRefusal, RefusalsAreTrue
  <1>2. QED
    BY <1>1, InitTyped DEF LiveInv

LEMMA StepInv == LiveInv /\ [Next]_vars => LiveInv'
  <1> SUFFICES ASSUME LiveInv, [Next]_vars PROVE LiveInv'
    OBVIOUS
  <1>1. CASE UNCHANGED vars
    BY <1>1 DEF vars, LiveInv, TypeOK, FailedIsRefusal, RefusalsAreTrue
  <1>2. CASE Next
    <2>1. TypeOK
      BY DEF LiveInv
    <2>2. TypeOK'
      BY <1>2, <2>1, StepKinds, QueueTyped, HandlingTyped, OutsideTyped
    <2>3. QED
      BY <1>2, <2>2, FailuresAreRefusals DEF LiveInv
  <1>3. QED
    BY <1>1, <1>2

\* What every reachable state of the tracking satisfies.
THEOREM LiveInvariant == Spec => []LiveInv
  <1>1. QED
    BY InitInv, StepInv, PTL DEF Spec

\* Every variable has its type in every reachable state, whatever the partner
\* calls back with and however many polls and tries there are.
THEOREM LiveTyped == Spec => []TypeOK
  <1>1. LiveInv => TypeOK
    BY DEF LiveInv
  <1>2. QED
    BY <1>1, LiveInvariant, PTL

\* A delivery that polling fails was refused by the partner and has its case,
\* however long the answer was in the poll's hands before it was recorded.
THEOREM PollingFailsOnlyTheRefused == Spec => []FailedIsRefusal
  <1>1. LiveInv => FailedIsRefusal
    BY DEF LiveInv
  <1>2. QED
    BY <1>1, LiveInvariant, PTL

-----------------------------------------------------------------------------
(* What a step may never do *)

\* How a step may write the binding.
LEMMA BindingWrites ==
    ASSUME Next
    PROVE  \/ binding' \in {binding, "LIVE", "TAKEN_DOWN"}
           \/ binding # "TAKEN_DOWN" /\ binding' = "TAKEDOWN_REQUESTED"
  <1>1. CASE \E r \in Runner : QueueActions(r) \/ Handling(r)
    <2> PICK r \in Runner : QueueActions(r) \/ Handling(r)
      BY <1>1
    <2>1. CASE QueueActions(r)
      BY <2>1 DEF QueueActions, ClaimPoll, ClaimTakedown, Finish, HandlerError, Crash, Schedule, belief
    <2>2. CASE Handling(r)
      BY <2>2 DEF Handling, Ask, Apply, CallTakedown, RecordTakedown, belief
    <2>3. QED
      BY <2>1, <2>2
  <1>2. CASE Sweeps
    BY <1>2 DEF Sweeps, ReclaimPoll, ReclaimTakedown, QueueTakedown, belief
  <1>3. CASE Outside
    BY <1>3 DEF Outside, Partner, FileEvidence, ReconcileAck, ReconcileLive, Report, ApplyAck,
           RecordEvidence, belief
  <1>4. QED
    BY <1>1, <1>2, <1>3, StepKinds

\* A poll that learnt nothing never undoes what a webhook, the staff or a
\* takedown recorded while it was asking.
THEOREM BeliefNeverGoesBack == Spec => NeverBackToIngesting
  <1>1. [Next]_vars => [binding' = "INGESTING" => binding = "INGESTING"]_vars
    BY BindingWrites DEF vars
  <1>2. QED
    BY <1>1, PTL DEF Spec, NeverBackToIngesting

\* A takedown recorded late does not reopen one the partner confirmed.
THEOREM ConfirmationsHold == Spec => ConfirmedStaysConfirmed
  <1>1. [Next]_vars => [binding = "TAKEN_DOWN" => binding' # "TAKEDOWN_REQUESTED"]_vars
    BY BindingWrites DEF vars
  <1>2. QED
    BY <1>1, PTL DEF Spec, ConfirmedStaysConfirmed

\* A step leaves the row of a poll that ended as it is.
LEMMA EndedPollsStay ==
    ASSUME TypeOK, Next, NEW n \in PollNo, polls[n].status \in {"SUCCEEDED", "DEAD_LETTER"}
    PROVE  polls'[n] = polls[n]
  <1>1. polls \in [PollNo -> Row] /\ run \in [Runner -> Run]
    BY DEF TypeOK
  <1>2. CASE \E r \in Runner : QueueActions(r) \/ Handling(r)
    <2> PICK r \in Runner : QueueActions(r) \/ Handling(r)
      BY <1>2
    <2>1. CASE \E m \in PollNo : ClaimPoll(r, m)
      BY <1>1, <2>1 DEF ClaimPoll, Claimable
    <2>2. CASE Finish(r)
      BY <1>1, <2>2 DEF Finish, SetRow, Owns, RowOf
    <2>3. CASE Schedule(r)
      BY <1>1, <2>3 DEF Schedule
    <2>4. CASE ClaimTakedown(r) \/ HandlerError(r) \/ Crash(r) \/ Handling(r)
      BY <2>4 DEF ClaimTakedown, HandlerError, Crash, Handling, Ask, Apply, CallTakedown, RecordTakedown
    <2>5. QED
      BY <2>1, <2>2, <2>3, <2>4 DEF QueueActions
  <1>3. CASE Sweeps
    BY <1>1, <1>3 DEF Sweeps, ReclaimPoll, ReclaimTakedown, QueueTakedown
  <1>4. CASE Outside
    BY <1>4 DEF Outside, Partner, FileEvidence, ReconcileAck, ReconcileLive, Report, ApplyAck,
           RecordEvidence, jobs
  <1>5. QED
    BY <1>2, <1>3, <1>4, StepKinds

\* A poll that was done is not run again, though the run that asked for it is
\* repeated after a crash.
THEOREM PollsAreScheduledOnce == Spec => NeverDoubleScheduled
  <1> DEFINE A == \A n \in PollNo : polls[n].status \in {"SUCCEEDED", "DEAD_LETTER"}
                                       => polls'[n] = polls[n]
  <1>1. LiveInv /\ [Next]_vars => [A]_vars
    BY EndedPollsStay DEF LiveInv, vars
  <1>2. QED
    BY <1>1, LiveInvariant, PTL DEF Spec, NeverDoubleScheduled

=============================================================================
