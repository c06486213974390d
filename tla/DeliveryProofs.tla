--------------------------- MODULE DeliveryProofs ---------------------------
(***************************************************************************)
(* Theorems about the send of one delivery, for any send jobs, runs,       *)
(* attempt limits, partner events and kind of adapter.                     *)
(***************************************************************************)
EXTENDS Delivery, SequenceTheorems, TLAPS

USE DeliveryAssumption

Active == {"wire", "sent"}

\* A run on the wire works on the last attempt, which is in flight, and which
\* the partner received exactly when the run is past the call.
InFlight ==
    \A r \in Runner : run[r].pc \in Active =>
        /\ Len(att) > 0 /\ run[r].no = Len(att)
        /\ att[Len(att)].out = "IN_FLIGHT"
        /\ att[Len(att)].got = (run[r].pc = "sent")

\* Although leases are lost and granted again, one run at most is on the wire.
OneOnWire ==
    \A r, q \in Runner : run[r].pc \in Active /\ run[q].pc \in Active => r = q

\* Every attempt but the last is known not to have been received.
EarlierCleared ==
    \A k \in 1..Len(att) : k < Len(att) => att[k].out = "REJECTED" /\ ~att[k].got

\* An answer the partner gave to a send it received has settled the job.
VerdictSettles ==
    \A k \in 1..Len(att) :
        att[k].out = "ACCEPTED" \/ (att[k].out = "REJECTED" /\ att[k].got) => job.status \in Settled

\* A run that still holds the delivery job's token finds it where it left it,
\* with the attempt it paid for not yet used before the send.
Held ==
    \A r \in Runner : job.by = r =>
        /\ run[r].pc \in {"prepare", "send"} => job.status = "LEASED" /\ Len(att) < job.attempts
        /\ run[r].pc = "wire" => job.status = "SENDING"

\* A parked job is nobody's, has an unresolved attempt and its case.
Parked ==
    job.status = "AWAITING_RECONCILIATION" =>
        job.by = Nobody /\ "SENT_UNKNOWN" \in cases /\ HasUnresolved

\* A job not yet created has no attempt.
Untouched == job.status = "ABSENT" => Len(att) = 0

\* A run under way drives a send job, and a running send job has been claimed.
Driven ==
    /\ \A r \in Runner : run[r].pc # "idle" => run[r].send \in Send
    /\ \A s \in Send : send[s].status = "RUNNING" => send[s].tries > 0

Sends == InFlight /\ OneOnWire /\ EarlierCleared /\ VerdictSettles /\ Held /\ Parked /\ Untouched
         /\ WireBudget
IInv == TypeOK /\ Driven /\ Sends
-----------------------------------------------------------------------------
(* Rows, runs and attempts *)

\* Replacing one attempt keeps the others, and the list a list of attempts.
LEMMA AttUpdate ==
    ASSUME att \in Seq(Attempt), NEW i \in 1..Len(att), NEW a \in Attempt
    PROVE  /\ [att EXCEPT ![i] = a] \in Seq(Attempt)
           /\ Len([att EXCEPT ![i] = a]) = Len(att)
           /\ \A k \in 1..Len(att) : [att EXCEPT ![i] = a][k] = IF k = i THEN a ELSE att[k]
BY ExceptSeq

\* The last number is the one that is below no other.
LEMMA LastIsGreatest ==
    \A n \in Nat : \A k \in 1..n : (k < n => k # n) /\ (k = n \/ k < n)
OBVIOUS

\* Replacing the last attempt keeps the earlier ones.
LEMMA AttLast ==
    ASSUME att \in Seq(Attempt), Len(att) > 0, NEW a \in Attempt,
           NEW b, b = [att EXCEPT ![Len(att)] = a]
    PROVE  /\ Len(b) = Len(att) /\ DOMAIN b = 1..Len(att) /\ DOMAIN att = 1..Len(att)
           /\ Len(att) \in 1..Len(att) /\ b[Len(att)] = a
           /\ \A k \in 1..Len(att) : k < Len(att) => b[k] = att[k]
           /\ \A k \in 1..Len(att) : k = Len(att) \/ k < Len(att)
<1>1. Len(att) \in Nat /\ Len(att) \in 1..Len(att) /\ DOMAIN att = 1..Len(att)
  OBVIOUS
<1>2. /\ b \in Seq(Attempt) /\ Len(b) = Len(att)
      /\ \A k \in 1..Len(att) : b[k] = IF k = Len(att) THEN a ELSE att[k]
  <2>1. LET c == [att EXCEPT ![Len(att)] = a]
        IN  /\ c \in Seq(Attempt) /\ Len(c) = Len(att)
            /\ \A k \in 1..Len(att) : c[k] = IF k = Len(att) THEN a ELSE att[k]
    BY <1>1, AttUpdate
  <2> QED
    BY <2>1, Zenon
<1>3. \A k \in 1..Len(att) : (k < Len(att) => k # Len(att)) /\ (k = Len(att) \/ k < Len(att))
  BY <1>1, LastIsGreatest, Zenon
<1>4. DOMAIN b = 1..Len(att)
  BY <1>2
<1> QED
  BY <1>1, <1>2, <1>3, <1>4, Zenon

\* A fresh attempt goes after those already made.
LEMMA AttAppend ==
    ASSUME att \in Seq(Attempt), NEW a \in Attempt
    PROVE  /\ Append(att, a) \in Seq(Attempt)
           /\ Len(Append(att, a)) = Len(att) + 1
           /\ \A k \in 1..Len(att) : Append(att, a)[k] = att[k]
           /\ Append(att, a)[Len(att) + 1] = a
BY AppendProperties

\* The attempts are numbered from 1.
LEMMA AttDomain ==
    ASSUME att \in Seq(Attempt)
    PROVE  DOMAIN att = 1..Len(att) /\ Len(att) \in Nat /\ \A k \in 1..Len(att) : att[k] \in Attempt
OBVIOUS

\* The delivery job's updates yield a row.
LEMMA JobTyped ==
    ASSUME job \in Job
    PROVE  /\ \A s \in Live \cup Settled, n \in 0..MaxAttempts : Unlocked(s, n) \in Job
           /\ \A s \in Live \cup Settled : [job EXCEPT !.status = s] \in Job
           /\ [job EXCEPT !.leased = FALSE] \in Job
           /\ \A s \in Live \cup Settled : Settle(s) => job' \in Job
<1>1. \A s \in Live \cup Settled, n \in 0..MaxAttempts : Unlocked(s, n) \in Job
  BY DEF Unlocked, Job
<1>2. \A s \in Live \cup Settled : [job EXCEPT !.status = s] \in Job
  BY DEF Job
<1>3. [job EXCEPT !.leased = FALSE] \in Job
  BY DEF Job
<1>4. job.attempts \in 0..MaxAttempts
  BY DEF Job
<1> QED
  BY <1>1, <1>2, <1>3, <1>4 DEF Settle

\* Moving a run on yields runs.
LEMMA RunTyped ==
    ASSUME run \in [Runner -> Run], NEW r \in Runner
    PROVE  /\ \A pc \in {"idle", "start", "blocked", "poll"} \cup Leasing \cup Verdict :
                  Goto(r, pc) => run' \in [Runner -> Run]
           /\ [run EXCEPT ![r] = Idle] \in [Runner -> Run]
<1>1. Idle \in Run
  BY DEF Idle, Run
<1>2. ASSUME NEW pc \in {"idle", "start", "blocked", "poll"} \cup Leasing \cup Verdict, Goto(r, pc)
      PROVE  run' \in [Runner -> Run]
  BY <1>2 DEF Goto, Run
<1> QED
  BY <1>1, <1>2

\* An update of a send job yields send jobs.
LEMMA SendTyped ==
    ASSUME send \in [Send -> SendJob], NEW s \in Send,
           NEW st \in {"ABSENT", "QUEUED", "RUNNING", "SUCCEEDED", "DEAD_LETTER"},
           NEW n \in 0..MaxTries, NEW b \in Runner \cup {Nobody}
    PROVE  [send EXCEPT ![s] = [status |-> st, tries |-> n, by |-> b]] \in [Send -> SendJob]
BY DEF SendJob

\* A send job queued anew is a send job.
LEMMA QueuedTyped ==
    ASSUME send \in [Send -> SendJob], NEW s \in Send, Queued(s)
    PROVE  send' \in [Send -> SendJob]
<1>1. 0 \in 0..MaxTries
  OBVIOUS
<1>2. [send EXCEPT ![s] = [status |-> "QUEUED", tries |-> 0, by |-> Nobody]] \in [Send -> SendJob]
  BY <1>1, SendTyped
<1> QED
  BY <1>2 DEF Queued

\* An event marks an attempt acknowledged and changes nothing else of it.
LEMMA AckedOnly ==
    ASSUME att \in Seq(Attempt), NEW e \in Events, ApplyAck(e)
    PROVE  /\ att' \in Seq(Attempt) /\ Len(att') = Len(att)
           /\ DOMAIN att = 1..Len(att) /\ DOMAIN att' = 1..Len(att)
           /\ \A l \in 1..Len(att) : att'[l].out = att[l].out /\ att'[l].got = att[l].got
<1>1. PICK k \in IF e = "LIVE" THEN Latest ELSE Matched :
         att' = IF e = "TAKEN_DOWN" THEN att ELSE [att EXCEPT ![k] = [@ EXCEPT !.acked = TRUE]]
  BY DEF ApplyAck
<1>2. k \in 1..Len(att) /\ att[k] \in Attempt
  BY <1>1, AttDomain DEF Latest, Matched
<1> DEFINE a == [att[k] EXCEPT !.acked = TRUE]
<1>3. a \in Attempt /\ a.out = att[k].out /\ a.got = att[k].got
  BY <1>2 DEF Attempt
<1>4. att' = att \/ att' = [att EXCEPT ![k] = a]
  BY <1>1
<1> HIDE DEF a
<1>5. CASE att' = att
  BY <1>5, AttDomain
<1>6. CASE att' = [att EXCEPT ![k] = a]
  <2>1. /\ att' \in Seq(Attempt) /\ Len(att') = Len(att)
        /\ \A l \in 1..Len(att) : att'[l] = IF l = k THEN a ELSE att[l]
    BY <1>2, <1>3, <1>6, AttUpdate
  <2>2. DOMAIN att = 1..Len(att) /\ DOMAIN att' = 1..Len(att)
    BY <2>1, AttDomain
  <2> QED
    BY <1>3, <2>1, <2>2
<1> QED
  BY <1>4, <1>5, <1>6

-----------------------------------------------------------------------------
(* Type correctness *)

\* The queue's part of a step keeps the types.
LEMMA TypeQueue ==
    ASSUME TypeOK, Driven,
           \/ CreateJob \/ FanOutLost \/ Review \/ Drift \/ LeaseExpires
           \/ \E s \in Send : FanOut(s) \/ Reclaim(s)
           \/ \E r \in Runner : Claim(r) \/ HandlerError(r) \/ Crash(r) \/ HandBack(r)
                                \/ Cancel(r) \/ Finish(r)
    PROVE  TypeOK'
<1> USE DEF TypeOK
<1>1. CASE CreateJob
  <2>1. job' \in Job
    BY <1>1, JobTyped DEF CreateJob, Live
  <2>2. fanout' \in BOOLEAN
    BY <1>1 DEF CreateJob
  <2> QED
    BY <1>1, <2>1, <2>2 DEF CreateJob, outside
<1>2. CASE FanOutLost \/ Review \/ Drift
  BY <1>2 DEF FanOutLost, Review, Drift, outside
<1>3. CASE LeaseExpires
  BY <1>3, JobTyped DEF LeaseExpires, outside
<1>4. ASSUME NEW s \in Send, FanOut(s) PROVE TypeOK'
  <2>1. send' \in [Send -> SendJob]
    BY <1>4, QueuedTyped DEF FanOut
  <2>2. fanout' \in BOOLEAN
    BY <1>4 DEF FanOut
  <2> QED
    BY <1>4, <2>1, <2>2 DEF FanOut, outside
<1>5. ASSUME NEW s \in Send, Reclaim(s) PROVE TypeOK'
  <2>1. send[s].tries \in 0..MaxTries
    BY DEF SendJob
  <2> QED
    BY <1>5, <2>1, SendTyped DEF Reclaim, outside
<1>6. ASSUME NEW r \in Runner, Claim(r) PROVE TypeOK'
  <2>1. PICK s \in Send :
          /\ send[s].tries < MaxTries
          /\ send' = [send EXCEPT ![s] = [status |-> "RUNNING", tries |-> @.tries + 1, by |-> r]]
          /\ run' = [run EXCEPT ![r] = [pc |-> "start", send |-> s, no |-> 0]]
    BY <1>6 DEF Claim
  <2>2. send[s].tries + 1 \in 0..MaxTries
    BY <2>1 DEF SendJob
  <2>3. send' \in [Send -> SendJob]
    BY <2>1, <2>2, SendTyped
  <2>4. run' \in [Runner -> Run]
    BY <2>1 DEF Run
  <2> QED
    BY <1>6, <2>3, <2>4 DEF Claim, outside
<1>7. ASSUME NEW r \in Runner, HandlerError(r) \/ Cancel(r) PROVE TypeOK'
  BY <1>7, RunTyped DEF HandlerError, Cancel, Verdict, outside
<1>8. ASSUME NEW r \in Runner, Crash(r) PROVE TypeOK'
  BY <1>8, RunTyped DEF Crash, outside
<1>9. ASSUME NEW r \in Runner, HandBack(r) PROVE TypeOK'
  <2>1. run[r].send \in Send /\ send[run[r].send].tries - 1 \in 0..MaxTries
    BY <1>9 DEF HandBack, Owns, Driven, SendJob
  <2>2. send' \in [Send -> SendJob]
    BY <1>9, <2>1, SendTyped DEF HandBack
  <2>3. run' \in [Runner -> Run]
    BY <1>9, RunTyped DEF HandBack
  <2> QED
    BY <1>9, <2>2, <2>3 DEF HandBack, outside
<1>10. ASSUME NEW r \in Runner, Finish(r) PROVE TypeOK'
  <2>1. run[r].send \in Send /\ send[run[r].send].tries \in 0..MaxTries
    BY <1>10 DEF Finish, Verdict, Driven, SendJob
  <2>2. \A st \in {"QUEUED", "SUCCEEDED", "DEAD_LETTER"}, n \in 0..MaxTries :
           [send EXCEPT ![run[r].send] = [status |-> st, tries |-> n, by |-> Nobody]]
              \in [Send -> SendJob]
    BY <2>1, SendTyped
  <2>3. send' \in [Send -> SendJob]
    <3> DEFINE Put(st, n) ==
                 [send EXCEPT ![run[r].send] = [status |-> st, tries |-> n, by |-> Nobody]]
    <3>1. 0 \in 0..MaxTries /\ \A st \in {"QUEUED", "SUCCEEDED", "DEAD_LETTER"}, n \in 0..MaxTries :
             Put(st, n) \in [Send -> SendJob]
      BY <2>2
    <3>2. \/ send' = send
          \/ send' = Put("SUCCEEDED", send[run[r].send].tries)
          \/ send' = Put("DEAD_LETTER", send[run[r].send].tries)
          \/ send' = Put("QUEUED", send[run[r].send].tries)
          \/ send' = Put("QUEUED", 0)
      BY <1>10 DEF Finish
    <3> HIDE DEF Put
    <3> QED
      BY <2>1, <3>1, <3>2
  <2>4. run' \in [Runner -> Run]
    BY <1>10, RunTyped DEF Finish
  <2> QED
    BY <1>10, <2>3, <2>4 DEF Finish, outside
<1> QED
  BY <1>1, <1>2, <1>3, <1>4, <1>5, <1>6, <1>7, <1>8, <1>9, <1>10

\* The part of a step that is the handler's keeps the types.
LEMMA TypeHandler ==
    ASSUME TypeOK, Sends, NEW r \in Runner,
           \/ Lease(r) \/ LeaseRefused(r) \/ Blocked(r) \/ Release(r) \/ Transient(r)
           \/ Refuse(r) \/ Prepared(r) \/ Park(r) \/ Begin(r) \/ Transmit(r) \/ Accepted(r)
           \/ Rejected(r) \/ Unavailable(r) \/ Unknown(r) \/ SchedulePoll(r)
    PROVE  TypeOK'
<1> USE DEF TypeOK
<1>a. job.attempts \in 0..MaxAttempts /\ job.status \in {"ABSENT"} \cup Live \cup Settled
  BY DEF Job
<1>1. CASE Lease(r)
  <2>1. job.attempts + 1 \in 0..MaxAttempts
    BY <1>1, <1>a DEF Lease, Leasable
  <2>2. job' \in Job
    BY <1>1, <2>1 DEF Lease, Job, Live
  <2> QED
    BY <1>1, <2>2, RunTyped DEF Lease, Leasing, outside
<1>2. CASE LeaseRefused(r) \/ Prepared(r)
  BY <1>2, RunTyped DEF LeaseRefused, Prepared, Leasing, outside
<1>3. CASE SchedulePoll(r)
  BY <1>3, RunTyped DEF SchedulePoll, Verdict, outside
<1>4. CASE Blocked(r)
  <2>1. job' \in Job
    BY <1>4, JobTyped DEF Blocked, Settled
  <2> QED
    BY <1>4, <2>1, RunTyped DEF Blocked, Verdict, outside
<1>5. CASE Release(r)
  <2>1. (IF job.attempts = 0 THEN 0 ELSE job.attempts - 1) \in 0..MaxAttempts
    BY <1>a
  <2>2. job' \in Job
    BY <1>5, <2>1, JobTyped DEF Release, Live
  <2> QED
    BY <1>5, <2>2, RunTyped DEF Release, Verdict, outside
<1>6. CASE Transient(r)
  <2>1. job' \in Job
    BY <1>6, <1>a, JobTyped DEF Transient, Live
  <2> QED
    BY <1>6, <2>1, RunTyped DEF Transient, Verdict, outside
<1>7. CASE Refuse(r)
  <2>1. job' \in Job
    BY <1>7, JobTyped DEF Refuse, Settled
  <2>2. cases' \subseteq CaseKind
    BY <1>7 DEF Refuse, Open, CaseKind
  <2>3. run' \in [Runner -> Run]
    BY <1>7, RunTyped DEF Refuse, Verdict
  <2> QED
    BY <1>7, <2>1, <2>2, <2>3 DEF Refuse, outside
<1>8. CASE Park(r)
  <2>1. job' \in Job
    BY <1>8, JobTyped DEF Park, Settled
  <2>2. cases' \subseteq CaseKind
    BY <1>8 DEF Park, Open, CaseKind
  <2> QED
    BY <1>8, <2>1, <2>2, RunTyped DEF Park, Verdict, outside
<1>9. CASE Begin(r)
  <2>1. Len(att) + 1 \in 0..MaxAttempts
    BY <1>9, <1>a DEF Begin, LeaseOk, Sends, Held
  <2>2. att' \in Seq(Attempt) /\ Len(att') = Len(att) + 1
    BY <1>9, AttAppend DEF Begin, Attempt
  <2>3. job' \in Job
    BY <1>9, JobTyped DEF Begin, Live
  <2>4. run' \in [Runner -> Run]
    BY <1>9, <2>1, ZenonT(40) DEF Begin, Run, Leasing
  <2> QED
    BY <1>9, <2>1, <2>2, <2>3, <2>4 DEF Begin, outside
<1>b. ASSUME run[r].pc \in Active, NEW a \in Attempt
      PROVE  /\ run[r].no \in 1..Len(att) /\ att[run[r].no] \in Attempt
             /\ [att EXCEPT ![run[r].no] = a] \in Seq(Attempt)
             /\ Len([att EXCEPT ![run[r].no] = a]) = Len(att)
  <2>1. run[r].no \in 1..Len(att)
    BY <1>b DEF Sends, InFlight
  <2> QED
    BY <2>1, <1>b, AttUpdate
<1>c. ASSUME run[r].pc \in Active, NEW o \in {"ACCEPTED", "REJECTED", "UNKNOWN"}
      PROVE  Answered(r, o) \in Seq(Attempt) /\ Len(Answered(r, o)) = Len(att)
  <2>1. att[run[r].no] \in Attempt
    BY <1>c DEF Sends, InFlight
  <2>2. [att[run[r].no] EXCEPT !.out = o, !.acked = FALSE] \in Attempt
    BY <2>1 DEF Attempt
  <2> QED
    BY <1>b, <1>c, <2>2 DEF Answered
<1>10. CASE Transmit(r)
  <2>1. run[r].pc \in Active
    BY <1>10 DEF Transmit, Active
  <2>2. att[run[r].no] \in Attempt
    BY <2>1 DEF Sends, InFlight
  <2>3. [att[run[r].no] EXCEPT !.got = TRUE] \in Attempt
    BY <2>2 DEF Attempt
  <2>4. att' \in Seq(Attempt) /\ Len(att') = Len(att)
    BY <1>10, <1>b, <2>1, <2>3 DEF Transmit
  <2>5. run' \in [Runner -> Run]
    BY <1>10, RunTyped DEF Transmit, Leasing
  <2> QED
    BY <1>10, <2>4, <2>5 DEF Transmit, outside
<1>d. ASSUME Lost(r) PROVE run' \in [Runner -> Run] /\ UNCHANGED <<job, att, binding, cases>>
  BY <1>d, RunTyped DEF Lost, Verdict
<1>11. CASE Accepted(r)
  <2>1. run[r].pc \in Active
    BY <1>11 DEF Accepted, Active
  <2>2. att[run[r].no] \in Attempt
    BY <2>1 DEF Sends, InFlight
  <2>3. [att[run[r].no] EXCEPT !.out = "ACCEPTED", !.id = TRUE, !.acked = FALSE] \in Attempt
    BY <2>2 DEF Attempt
  <2>4. CASE Fence(r)
    <3>1. att' \in Seq(Attempt) /\ Len(att') = Len(att)
      BY <1>11, <1>b, <2>1, <2>3, <2>4 DEF Accepted
    <3>2. job' \in Job /\ run' \in [Runner -> Run]
      BY <1>11, <2>4, JobTyped, RunTyped DEF Accepted, Settled
    <3> QED
      BY <1>11, <2>4, <3>1, <3>2 DEF Accepted, outside
  <2>5. CASE ~Fence(r)
    BY <1>11, <1>d, <2>5 DEF Accepted, outside
  <2> QED
    BY <2>4, <2>5
<1>12. CASE Rejected(r)
  <2>1. run[r].pc \in Active
    BY <1>12 DEF Rejected, Active
  <2>2. CASE Fence(r)
    <3>1. att' \in Seq(Attempt) /\ Len(att') = Len(att)
      BY <1>12, <1>c, <2>1, <2>2 DEF Rejected
    <3>2. job' \in Job /\ run' \in [Runner -> Run] /\ cases' \subseteq CaseKind
      BY <1>12, <2>2, JobTyped, RunTyped DEF Rejected, Settled, Verdict, Open, CaseKind
    <3> QED
      BY <1>12, <2>2, <3>1, <3>2 DEF Rejected, outside
  <2>3. CASE ~Fence(r)
    BY <1>12, <1>d, <2>3 DEF Rejected, outside
  <2> QED
    BY <2>2, <2>3
<1>13. CASE Unavailable(r)
  <2>1. run[r].pc \in Active
    BY <1>13 DEF Unavailable, Active
  <2>2. CASE job.by = r
    <3>1. att' \in Seq(Attempt) /\ Len(att') = Len(att)
      BY <1>13, <1>c, <2>1, <2>2 DEF Unavailable
    <3>2. Unlocked("QUEUED", job.attempts) \in Job
      BY <1>a, JobTyped DEF Live
    <3>3. run' \in [Runner -> Run]
      BY <1>13, <2>2, RunTyped DEF Unavailable, Verdict
    <3> QED
      BY <1>13, <2>2, <3>1, <3>2, <3>3 DEF Unavailable, outside
  <2>3. CASE job.by # r
    BY <1>13, <1>d, <2>3 DEF Unavailable, outside
  <2> QED
    BY <2>2, <2>3
<1>14. CASE Unknown(r)
  <2>1. run[r].pc \in Active
    BY <1>14 DEF Unknown, Active
  <2>2. CASE Fence(r)
    <3>1. att' \in Seq(Attempt) /\ Len(att') = Len(att)
      BY <1>14, <1>c, <2>1, <2>2 DEF Unknown
    <3>2. job' \in Job /\ run' \in [Runner -> Run] /\ cases' \subseteq CaseKind
      BY <1>14, <2>2, JobTyped, RunTyped DEF Unknown, Settled, Verdict, Open, CaseKind
    <3> QED
      BY <1>14, <2>2, <3>1, <3>2 DEF Unknown, outside
  <2>3. CASE ~Fence(r)
    BY <1>14, <1>d, <2>3 DEF Unknown, outside
  <2> QED
    BY <2>2, <2>3
<1> QED
  BY <1>1, <1>2, <1>3, <1>4, <1>5, <1>6, <1>7, <1>8, <1>9, <1>10, <1>11, <1>12, <1>13, <1>14
\* The partner's and the reconciler's parts of a step keep the types.
LEMMA TypeOutside ==
    ASSUME TypeOK, Reconcile \/ \E e \in Events : Partner(e) \/ ApplyAck(e)
    PROVE  TypeOK'
<1> USE DEF TypeOK
<1>1. CASE Reconcile
  <2>1. job.attempts \in 0..MaxAttempts
    BY DEF Job
  <2>2. Unlocked("QUEUED", job.attempts) \in Job
    BY <2>1, JobTyped DEF Live
  <2>5. job' \in Job
    BY <1>1, <2>2 DEF Reconcile
  <2>3. send' \in [Send -> SendJob]
    BY <1>1, QueuedTyped DEF Reconcile
  <2>4. cases' \subseteq CaseKind
    BY <1>1 DEF Reconcile, CaseKind
  <2> QED
    BY <1>1, <2>3, <2>4, <2>5 DEF Reconcile, outside
<1>2. ASSUME NEW e \in Events, Partner(e) PROVE TypeOK'
  BY <1>2 DEF Partner, EventKind
<1>3. ASSUME NEW e \in Events, ApplyAck(e) PROVE TypeOK'
  <2>4. att' \in Seq(Attempt) /\ Len(att') = Len(att)
    BY <1>3, AckedOnly
  <2>5. job' \in Job
    BY <1>3, JobTyped DEF ApplyAck, Unanswered, Settled
  <2>6. seen' \subseteq mail' /\ mail' \subseteq Events
    BY <1>3 DEF ApplyAck, Unanswered
  <2>7. binding' \in {"NONE", "INGESTING", "LIVE", "TAKEDOWN_REQUESTED", "TAKEN_DOWN"}
    BY <1>3 DEF ApplyAck, Unanswered
  <2> QED
    BY <1>3, <2>4, <2>5, <2>6, <2>7 DEF ApplyAck, Unanswered
<1> QED
  BY <1>1, <1>2, <1>3

-----------------------------------------------------------------------------
(* Runs drive send jobs *)

\* A step that moves a run on, or ends it, keeps what it drives.
LEMMA DrivenGoto ==
    ASSUME TypeOK, Driven, NEW r \in Runner, UNCHANGED send, run[r].pc # "idle",
           (\E pc : Goto(r, pc)) \/ run' = [run EXCEPT ![r] = Idle]
    PROVE  Driven'
<1>1. run \in [Runner -> Run]
  BY DEF TypeOK
<1>2. ASSUME NEW pc, Goto(r, pc) PROVE Driven'
  BY <1>1, <1>2 DEF Goto, Run, Driven
<1>3. CASE run' = [run EXCEPT ![r] = Idle]
  BY <1>1, <1>3 DEF Idle, Driven
<1> QED
  BY <1>2, <1>3

LEMMA DrivenStep ==
    ASSUME TypeOK, Driven, [Next]_vars
    PROVE  Driven'
<1>0. send \in [Send -> SendJob] /\ run \in [Runner -> Run]
  BY DEF TypeOK
<1>1. CASE UNCHANGED <<send, run>>
  BY <1>1 DEF Driven
<1>2. ASSUME NEW s \in Send, Queued(s), UNCHANGED run PROVE Driven'
  BY <1>0, <1>2 DEF Queued, Driven
<1>3. ASSUME NEW s \in Send, Reclaim(s) PROVE Driven'
  BY <1>0, <1>3 DEF Reclaim, Driven
<1>4. ASSUME NEW r \in Runner, Claim(r) PROVE Driven'
  <2>1. PICK s \in Send :
          /\ send' = [send EXCEPT ![s] = [status |-> "RUNNING", tries |-> @.tries + 1, by |-> r]]
          /\ run' = [run EXCEPT ![r] = [pc |-> "start", send |-> s, no |-> 0]]
    BY <1>4 DEF Claim
  <2>2. send[s].tries + 1 > 0
    BY <1>0 DEF SendJob
  <2> QED
    BY <1>0, <2>1, <2>2 DEF Driven
<1>5. ASSUME NEW r \in Runner, Finish(r) \/ HandBack(r) PROVE Driven'
  <2>1. \A q \in Runner : run'[q].pc # "idle" => run[q].pc # "idle" /\ run'[q].send = run[q].send
    BY <1>0, <1>5 DEF Finish, HandBack, Idle
  <2>2. \A s \in Send : send'[s].status = "RUNNING" => send'[s] = send[s]
    BY <1>0, <1>5 DEF Finish, HandBack
  <2> QED
    BY <2>1, <2>2 DEF Driven
<1>6. ASSUME NEW r \in Runner, HandlerError(r) \/ Crash(r) \/ Cancel(r) \/ Lease(r)
                               \/ LeaseRefused(r) \/ SchedulePoll(r)
      PROVE  Driven'
  <2>1. UNCHANGED send /\ run[r].pc # "idle"
    BY <1>6 DEF HandlerError, Crash, Cancel, Lease, LeaseRefused, SchedulePoll, Leasing
  <2>2. (\E pc : Goto(r, pc)) \/ run' = [run EXCEPT ![r] = Idle]
    BY <1>6 DEF HandlerError, Crash, Cancel, Lease, LeaseRefused, SchedulePoll
  <2> QED
    BY <2>1, <2>2, DrivenGoto
<1>7. ASSUME NEW r \in Runner, Blocked(r) \/ Release(r) \/ Transient(r) \/ Refuse(r)
                               \/ Prepared(r) \/ Park(r) \/ Transmit(r)
      PROVE  Driven'
  <2>1. UNCHANGED send /\ run[r].pc # "idle"
    BY <1>7 DEF Blocked, Release, Transient, Refuse, Prepared, Park, Transmit
  <2>2. \E pc : Goto(r, pc)
    BY <1>7 DEF Blocked, Release, Transient, Refuse, Prepared, Park, Transmit
  <2> QED
    BY <2>1, <2>2, DrivenGoto
<1>8. ASSUME NEW r \in Runner, Begin(r) PROVE Driven'
  <2>1. /\ UNCHANGED send /\ run[r].pc # "idle"
        /\ run' = [run EXCEPT ![r].pc = "wire", ![r].no = Len(att) + 1]
    BY <1>8 DEF Begin
  <2>2. \A q \in Runner : run'[q].pc # "idle" => run[q].pc # "idle" /\ run'[q].send = run[q].send
    BY <1>0, <2>1 DEF Run
  <2> QED
    BY <2>1, <2>2 DEF Driven
<1>9. ASSUME NEW r \in Runner, Accepted(r) \/ Rejected(r) \/ Unavailable(r) \/ Unknown(r)
      PROVE  Driven'
  <2>1. UNCHANGED send /\ run[r].pc # "idle"
    BY <1>9 DEF Accepted, Rejected, Unavailable, Unknown
  <2>2. \E pc : Goto(r, pc)
    BY <1>9 DEF Accepted, Rejected, Unavailable, Unknown, Lost
  <2> QED
    BY <2>1, <2>2, DrivenGoto
<1>10. ASSUME CreateJob \/ FanOutLost \/ Review \/ Drift \/ LeaseExpires PROVE Driven'
  BY <1>1, <1>10 DEF CreateJob, FanOutLost, Review, Drift, LeaseExpires
<1>11. CASE Reconcile
  BY <1>1, <1>2, <1>11 DEF Reconcile
<1>12. ASSUME NEW s \in Send, FanOut(s) PROVE Driven'
  BY <1>2, <1>12 DEF FanOut
<1>13. ASSUME NEW e \in Events, Partner(e) \/ ApplyAck(e) PROVE Driven'
  BY <1>1, <1>13 DEF Partner, ApplyAck, Unanswered
<1>14. CASE UNCHANGED vars
  BY <1>1, <1>14 DEF vars
<1> QED
  BY <1>3, <1>4, <1>5, <1>6, <1>7, <1>8, <1>9, <1>10, <1>11, <1>12, <1>13, <1>14 DEF Next, Handle

-----------------------------------------------------------------------------
(* The send *)

\* A step that leaves the delivery and the runs alone.
LEMMA SendsQuiet ==
    ASSUME Sends, UNCHANGED <<job, att, run, cases>>
    PROVE  Sends'
BY DEF Sends, InFlight, OneOnWire, EarlierCleared, VerdictSettles, Held, Parked, Untouched,
       HasUnresolved, WireBudget

\* A step of a run that leaves the delivery alone and takes the run off the
\* lease, or that moves the job only: forward, to nobody, with its attempts
\* still paid for, and parked with its case.
LEMMA SendsJob ==
    ASSUME TypeOK, Sends, NEW r \in Runner, UNCHANGED att, cases \subseteq cases',
           run' = run \/ \E x : run' = [run EXCEPT ![r] = x] /\ x.pc \notin Leasing,
           \/ job' = job
           \/ /\ job'.by = Nobody /\ job'.status # "ABSENT"
              /\ job.status \in Settled => job'.status \in Settled
              /\ job.status = "ABSENT" \/ job'.attempts >= Len(att)
              /\ job'.attempts \in Nat
              /\ job'.status = "AWAITING_RECONCILIATION" =>
                    "SENT_UNKNOWN" \in cases' /\ HasUnresolved
    PROVE  Sends'
<1>1. \A q \in Runner : run'[q] = run[q] \/ run'[q].pc \notin Leasing
  BY DEF TypeOK
<1>2. /\ Len(att) \in Nat /\ Nobody \notin Runner
      /\ \A q \in Runner : run'[q].pc \in Leasing => run'[q] = run[q]
  BY <1>1, AttDomain DEF TypeOK
<1>3. InFlight' /\ OneOnWire'
  BY <1>2 DEF Sends, InFlight, OneOnWire, Active, Leasing
<1>4. EarlierCleared'
  BY DEF Sends, EarlierCleared
<1>5. VerdictSettles' /\ Untouched'
  BY <1>2 DEF Sends, VerdictSettles, Untouched
<1>6. Held'
  BY <1>2 DEF Sends, Held, Leasing
<1>7. Parked'
  BY DEF Sends, Parked, HasUnresolved
<1>8. WireBudget'
  BY <1>2 DEF Sends, WireBudget, Untouched
<1> QED
  BY <1>3, <1>4, <1>5, <1>6, <1>7, <1>8 DEF Sends

\* The answer to the send of a run on the wire, recorded with the job.
LEMMA SendsAnswer ==
    ASSUME TypeOK, Sends, NEW r \in Runner, NEW a \in Attempt, run[r].pc \in Active,
           att' = [att EXCEPT ![run[r].no] = a], a.got = att[run[r].no].got,
           NEW pc \in Verdict \cup {"poll"}, Goto(r, pc), cases \subseteq cases',
           job'.by = Nobody, job'.attempts = job.attempts, job'.status # "ABSENT",
           a.out = "ACCEPTED" \/ (a.out = "REJECTED" /\ a.got) => job'.status \in Settled,
           job'.status = "AWAITING_RECONCILIATION" => "SENT_UNKNOWN" \in cases' /\ a.out = "UNKNOWN"
    PROVE  Sends'
<1>1. /\ run[r].no = Len(att) /\ Len(att) \in Nat /\ Len(att) > 0
      /\ \A q \in Runner : run[q].pc \in Active => q = r
  BY AttDomain DEF Sends, InFlight, OneOnWire, TypeOK
<1>2. /\ Len(att') = Len(att) /\ DOMAIN att' = 1..Len(att) /\ Len(att) \in 1..Len(att)
      /\ att'[Len(att)] = a
      /\ \A k \in 1..Len(att) : k < Len(att) => att'[k] = att[k]
      /\ \A k \in 1..Len(att) : k = Len(att) \/ k < Len(att)
  <2>1. att' = [att EXCEPT ![Len(att)] = a]
    BY <1>1
  <2> QED
    BY <1>1, <2>1, AttLast DEF TypeOK
<1>3. \A q \in Runner : run'[q].pc \notin Active /\ Nobody # q
  BY <1>1 DEF Goto, TypeOK, Active, Verdict
<1>4. InFlight' /\ OneOnWire' /\ Held' /\ Untouched' /\ WireBudget'
  <2>1. InFlight' /\ OneOnWire'
    BY <1>3 DEF InFlight, OneOnWire
  <2>2. Held'
    BY <1>3 DEF Held
  <2>3. Untouched' /\ WireBudget'
    BY <1>2 DEF Sends, Untouched, WireBudget
  <2> QED
    BY <2>1, <2>2, <2>3
<1>5. EarlierCleared' /\ VerdictSettles'
  <2>1. EarlierCleared'
    BY <1>2, Zenon DEF Sends, EarlierCleared
  <2>2. ASSUME NEW k \in 1..Len(att')
        PROVE  att'[k].out = "ACCEPTED" \/ (att'[k].out = "REJECTED" /\ att'[k].got)
                  => job'.status \in Settled
    <3>1. CASE k = Len(att)
      BY <1>2, <3>1
    <3>2. CASE k # Len(att)
      <4>1. k < Len(att')
        BY <1>2, <2>2, <3>2
      <4>2. att'[k].out = "REJECTED" /\ ~att'[k].got
        BY <2>1, <2>2, <4>1 DEF EarlierCleared
      <4> QED
        BY <4>2
    <3> QED
      BY <3>1, <3>2
  <2>3. VerdictSettles'
    BY <2>2 DEF VerdictSettles
  <2> QED
    BY <2>1, <2>3
<1>6. Parked'
  BY <1>1, <1>2 DEF Parked, HasUnresolved, Unresolved
<1> QED
  BY <1>4, <1>5, <1>6 DEF Sends

\* The steps of the queue, of staff and of the release.
LEMMA SendsQueue ==
    ASSUME TypeOK, Sends,
           \/ CreateJob \/ FanOutLost \/ Review \/ Drift \/ LeaseExpires \/ Reconcile
           \/ \E s \in Send : FanOut(s) \/ Reclaim(s)
           \/ \E e \in Events : Partner(e)
    PROVE  Sends'
<1>0. Len(att) \in Nat
  BY AttDomain DEF TypeOK
<1>1. CASE CreateJob
  <2>1. att = <<>>
    BY <1>0, <1>1 DEF CreateJob, Sends, Untouched, TypeOK
  <2>2. \A r \in Runner : run[r].pc \notin Active
    BY <2>1 DEF Sends, InFlight
  <2>3. EarlierCleared' /\ VerdictSettles' /\ InFlight' /\ OneOnWire'
    BY <1>1, <2>1, <2>2 DEF CreateJob, EarlierCleared, VerdictSettles, InFlight, OneOnWire
  <2>4. Held' /\ Parked' /\ Untouched' /\ WireBudget'
    BY <1>1, <2>1 DEF CreateJob, Unlocked, Held, Parked, Untouched, WireBudget
  <2> QED
    BY <2>3, <2>4 DEF Sends
<1>2. CASE FanOutLost \/ Review \/ Drift
  BY <1>2, SendsQuiet DEF FanOutLost, Review, Drift
<1>3. CASE LeaseExpires
  <2>1. /\ job'.status = job.status /\ job'.by = job.by /\ job'.attempts = job.attempts
        /\ UNCHANGED <<att, run, cases>>
    BY <1>3 DEF LeaseExpires, TypeOK, Job
  <2> QED
    BY <2>1 DEF Sends, InFlight, OneOnWire, EarlierCleared, VerdictSettles, Held, Parked,
                Untouched, HasUnresolved, WireBudget
<1>4. CASE Reconcile
  <2>1. cases \subseteq cases' /\ UNCHANGED <<att, run>>
    BY <1>4 DEF Reconcile
  <2>2. job' = job \/ (job.status \in {"QUEUED", "LEASED"} /\ job' = Unlocked("QUEUED", job.attempts))
    BY <1>4 DEF Reconcile, Stalled
  <2>3. job.attempts >= Len(att) /\ job.attempts \in Nat
    BY <1>0 DEF Sends, WireBudget, TypeOK, Job
  <2>4. CASE job' = job
    BY <2>1, <2>4 DEF Sends, InFlight, OneOnWire, EarlierCleared, VerdictSettles, Held, Parked,
                      Untouched, HasUnresolved, WireBudget
  <2>5. CASE job.status \in {"QUEUED", "LEASED"} /\ job' = Unlocked("QUEUED", job.attempts)
    <3>1. job'.by = Nobody /\ job'.status = "QUEUED" /\ job'.attempts = job.attempts
      BY <2>5 DEF Unlocked
    <3> QED
      BY <2>1, <2>3, <2>5, <3>1 DEF Sends, InFlight, OneOnWire, EarlierCleared, VerdictSettles,
                      Held, Parked, Untouched, WireBudget, Settled
  <2> QED
    BY <2>2, <2>4, <2>5
<1>5. ASSUME NEW s \in Send, FanOut(s) \/ Reclaim(s) PROVE Sends'
  BY <1>5, SendsQuiet DEF FanOut, Reclaim
<1>6. ASSUME NEW e \in Events, Partner(e) PROVE Sends'
  BY <1>6, SendsQuiet DEF Partner
<1> QED
  BY <1>1, <1>2, <1>3, <1>4, <1>5, <1>6

\* The steps at which a run is claimed, waits, is refused or ends.
LEMMA SendsRun ==
    ASSUME TypeOK, Sends, NEW r \in Runner,
           \/ Claim(r) \/ Finish(r) \/ HandlerError(r) \/ Crash(r) \/ HandBack(r) \/ Cancel(r)
           \/ LeaseRefused(r) \/ SchedulePoll(r)
    PROVE  Sends'
<1>0. run \in [Runner -> Run]
  BY DEF TypeOK
<1>1. UNCHANGED <<job, att, cases>>
  BY DEF Claim, Finish, HandlerError, Crash, HandBack, Cancel, LeaseRefused, SchedulePoll
<1>2. CASE Claim(r)
  <2>1. PICK s \in Send : run' = [run EXCEPT ![r] = [pc |-> "start", send |-> s, no |-> 0]]
    BY <1>2 DEF Claim
  <2>2. [pc |-> "start", send |-> s, no |-> 0].pc \notin Leasing
    BY DEF Leasing
  <2> QED
    BY <1>1, <2>1, <2>2, SendsJob
<1>3. CASE Finish(r) \/ Crash(r) \/ HandBack(r)
  <2>1. run' = [run EXCEPT ![r] = Idle] /\ Idle.pc \notin Leasing
    BY <1>3 DEF Finish, Crash, HandBack, Idle, Leasing
  <2> QED
    BY <1>1, <2>1, SendsJob
<1>4. ASSUME NEW pc \in {"fail", "blocked", "succeed"}, Goto(r, pc) PROVE Sends'
  <2>1. run' = [run EXCEPT ![r] = [run[r] EXCEPT !.pc = pc]]
    BY <1>0, <1>4 DEF Goto
  <2>2. [run[r] EXCEPT !.pc = pc].pc \notin Leasing
    BY <1>0 DEF Run, Leasing
  <2> QED
    BY <1>1, <2>1, <2>2, SendsJob
<1> QED
  BY <1>2, <1>3, <1>4 DEF HandlerError, Cancel, LeaseRefused, SchedulePoll

\* The steps that settle the job, queue it again or give it up before a send.
LEMMA SendsEnds ==
    ASSUME TypeOK, Sends, NEW r \in Runner,
           Blocked(r) \/ Release(r) \/ Transient(r) \/ Refuse(r) \/ Park(r)
    PROVE  Sends'
<1>0. /\ run \in [Runner -> Run] /\ Len(att) \in Nat /\ job.attempts \in Nat
      /\ Len(att) <= job.attempts
  BY AttDomain DEF TypeOK, Job, Sends, WireBudget
<1>1. PICK pc \in Verdict : Goto(r, pc)
  BY DEF Blocked, Release, Transient, Refuse, Park, Verdict
<1>2. run' = [run EXCEPT ![r] = [run[r] EXCEPT !.pc = pc]]
  BY <1>0, <1>1 DEF Goto
<1>3. [run[r] EXCEPT !.pc = pc].pc \notin Leasing
  BY <1>0 DEF Run, Leasing, Verdict
<1>4. UNCHANGED att /\ cases \subseteq cases'
  BY DEF Blocked, Release, Transient, Refuse, Park, Open
<1>5. ASSUME NEW s \in {"FAILED", "DEAD_LETTER"}, Settle(s) PROVE Sends'
  <2>1. job'.by = Nobody /\ job'.status = s /\ job'.attempts = job.attempts
    BY <1>5 DEF Settle, Unlocked
  <2> QED
    BY <1>0, <1>2, <1>3, <1>4, <2>1, SendsJob DEF Settled
<1>6. CASE job' = job
  BY <1>2, <1>3, <1>4, <1>6, SendsJob
<1>7. CASE Park(r)
  <2>1. /\ job'.by = Nobody /\ job'.status = "AWAITING_RECONCILIATION"
        /\ job'.attempts = job.attempts
    BY <1>7 DEF Park, Settle, Unlocked
  <2>2. "SENT_UNKNOWN" \in cases' /\ HasUnresolved
    BY <1>7 DEF Park, Open
  <2> QED
    BY <1>0, <1>2, <1>3, <1>4, <2>1, <2>2, SendsJob DEF Settled
<1>8. CASE Release(r) /\ job.by = r
  <2>1. job.status = "LEASED" /\ Len(att) < job.attempts
    BY <1>8 DEF Release, Sends, Held
  <2>2. job'.by = Nobody /\ job'.status = "QUEUED" /\ job'.attempts = job.attempts - 1
    BY <1>0, <1>8, <2>1 DEF Release, Unlocked
  <2>3. job'.attempts >= Len(att) /\ job'.attempts \in Nat
    BY <1>0, <2>1, <2>2
  <2>4. job.status \notin Settled
    BY <2>1 DEF Settled
  <2> QED
    BY <1>2, <1>3, <1>4, <2>2, <2>3, <2>4, SendsJob
<1>9. CASE Transient(r) /\ job' # job
  <2>1. /\ job'.by = Nobody /\ job'.status = "QUEUED" /\ job'.attempts = job.attempts
        /\ job.status \in {"LEASED", "SENDING"}
    BY <1>9 DEF Transient, Unlocked
  <2> QED
    BY <1>0, <1>2, <1>3, <1>4, <2>1, SendsJob DEF Settled
<1>10. Blocked(r) \/ Refuse(r) => job' = job \/ Settle("FAILED") \/ Settle("DEAD_LETTER")
  BY DEF Blocked, Refuse
<1>11. Release(r) /\ job.by # r => job' = job
  BY DEF Release
<1> QED
  BY <1>5, <1>6, <1>7, <1>8, <1>9, <1>10, <1>11

\* The lease pays for one more attempt than were made, and readiness keeps it.
LEMMA SendsLease ==
    ASSUME TypeOK, Sends, NEW r \in Runner, Lease(r) \/ Prepared(r)
    PROVE  Sends'
<1>0. /\ run \in [Runner -> Run] /\ Len(att) \in Nat /\ job.attempts \in Nat
      /\ Len(att) <= job.attempts /\ UNCHANGED <<att, cases>>
  BY AttDomain DEF TypeOK, Job, Sends, WireBudget, Lease, Prepared
<1>1. /\ \A q \in Runner : run'[q].pc \in Active => run'[q] = run[q]
      /\ \A q \in Runner \ {r} : run'[q] = run[q]
  <2>1. PICK pc \in {"prepare", "send"} : Goto(r, pc)
    BY DEF Lease, Prepared
  <2>2. run'[r].pc = pc /\ \A q \in Runner \ {r} : run'[q] = run[q]
    BY <1>0, <2>1 DEF Goto, Run
  <2> QED
    BY <2>2 DEF Active
<1>2. InFlight' /\ OneOnWire'
  BY <1>0, <1>1 DEF Sends, InFlight, OneOnWire
<1>3. EarlierCleared'
  BY <1>0 DEF Sends, EarlierCleared
<1>4. CASE Lease(r)
  <2>1. /\ job'.status = "LEASED" /\ job'.by = r /\ job'.attempts = job.attempts + 1
        /\ run'[r].pc = "prepare" /\ job.status \in {"QUEUED", "LEASED", "SENDING"}
    BY <1>0, <1>4 DEF Lease, Leasable, Goto
  <2>2. VerdictSettles' /\ Untouched' /\ Parked' /\ WireBudget'
    BY <1>0, <2>1 DEF Sends, VerdictSettles, Untouched, Parked, WireBudget, Settled
  <2>3. Held'
    BY <1>0, <1>1, <2>1 DEF Held
  <2> QED
    BY <1>2, <1>3, <2>2, <2>3 DEF Sends
<1>5. CASE Prepared(r)
  <2>1. run[r].pc = "prepare" /\ run'[r].pc = "send" /\ UNCHANGED job
    BY <1>0, <1>5 DEF Prepared, Goto
  <2>2. VerdictSettles' /\ Untouched' /\ Parked' /\ WireBudget' /\ Held'
    BY <1>0, <1>1, <2>1 DEF Sends, VerdictSettles, Untouched, Parked, WireBudget, Held, HasUnresolved
  <2> QED
    BY <1>2, <1>3, <2>2 DEF Sends
<1> QED
  BY <1>4, <1>5

\* A new attempt: every earlier one is resolved, so nobody is on the wire, and
\* the job is not settled, so none was received.
LEMMA SendsBegin ==
    ASSUME TypeOK, Sends, NEW r \in Runner, Begin(r)
    PROVE  Sends' /\ \A k \in DOMAIN att : att[k].out = "REJECTED" /\ ~att[k].got
<1>0. /\ run \in [Runner -> Run] /\ Len(att) \in Nat /\ job.attempts \in Nat
      /\ DOMAIN att = 1..Len(att) /\ \A k \in 1..Len(att) : att[k] \in Attempt
  BY AttDomain DEF TypeOK, Job
<1>1. \A q \in Runner : run[q].pc \notin Active
  BY <1>0 DEF Begin, HasUnresolved, Unresolved, Sends, InFlight
<1>2. job.status = "LEASED" /\ job.by = r /\ Len(att) < job.attempts /\ run[r].pc = "send"
  BY DEF Begin, LeaseOk, Sends, Held
<1>3. \A k \in 1..Len(att) : att[k].out = "REJECTED" /\ ~att[k].got
  <2>1. \A k \in 1..Len(att) : att[k].out \in {"ACCEPTED", "REJECTED"} /\ att[k].got \in BOOLEAN
    BY <1>0 DEF Begin, HasUnresolved, Unresolved, Attempt
  <2>2. job.status \notin Settled
    BY <1>2 DEF Settled
  <2> QED
    BY <2>1, <2>2 DEF Sends, VerdictSettles
<1> DEFINE a == [out |-> "IN_FLIGHT", id |-> PlannedId, acked |-> FALSE, got |-> FALSE]
<1>4. a \in Attempt /\ a.out = "IN_FLIGHT" /\ a.got = FALSE
  BY DEF Attempt
<1>5. /\ Len(att') = Len(att) + 1 /\ att'[Len(att) + 1] = a
      /\ \A k \in 1..Len(att) : att'[k] = att[k]
  BY <1>4, AttAppend DEF Begin, TypeOK
<1> HIDE DEF a
<1>6. /\ run'[r].pc = "wire" /\ run'[r].no = Len(att) + 1
      /\ \A q \in Runner \ {r} : run'[q] = run[q]
  BY <1>0 DEF Begin, Run
<1>7. /\ job'.status = "SENDING" /\ job'.by = r /\ job'.attempts = job.attempts
  BY <1>2 DEF Begin, TypeOK, Job
<1>8. InFlight' /\ OneOnWire'
  <2>1. \A q \in Runner : run'[q].pc \in Active => q = r
    BY <1>1, <1>6
  <2>2. Len(att') > 0 /\ run'[r].no = Len(att') /\ att'[Len(att')] = a
    BY <1>0, <1>5, <1>6
  <2> QED
    BY <1>4, <1>6, <2>1, <2>2 DEF InFlight, OneOnWire
<1>9. EarlierCleared' /\ VerdictSettles'
  BY <1>0, <1>3, <1>4, <1>5 DEF EarlierCleared, VerdictSettles
<1>10. Held' /\ Parked' /\ Untouched' /\ WireBudget'
  BY <1>0, <1>2, <1>5, <1>6, <1>7 DEF Held, Parked, Untouched, WireBudget
<1> QED
  BY <1>0, <1>3, <1>8, <1>9, <1>10 DEF Sends

\* The partner receives the one attempt on the wire.
LEMMA SendsTransmit ==
    ASSUME TypeOK, Sends, NEW r \in Runner, Transmit(r)
    PROVE  Sends'
<1>0. /\ run \in [Runner -> Run] /\ Len(att) \in Nat /\ Len(att) > 0
      /\ run[r].no = Len(att) /\ run[r].pc = "wire" /\ att[Len(att)] \in Attempt
      /\ \A q \in Runner : run[q].pc \in Active => q = r
  BY AttDomain DEF TypeOK, Transmit, Active, Sends, InFlight, OneOnWire
<1> DEFINE a == [att[Len(att)] EXCEPT !.got = TRUE]
<1>1. a \in Attempt /\ a.got = TRUE /\ a.out = "IN_FLIGHT"
  BY <1>0 DEF Attempt, Sends, InFlight, Active
<1>2. att' = [att EXCEPT ![Len(att)] = a]
  BY <1>0 DEF Transmit
<1> HIDE DEF a
<1>3. /\ Len(att') = Len(att) /\ DOMAIN att = 1..Len(att) /\ DOMAIN att' = 1..Len(att)
      /\ Len(att) \in 1..Len(att) /\ att'[Len(att)] = a
      /\ \A k \in 1..Len(att) : k < Len(att) => att'[k] = att[k]
      /\ \A k \in 1..Len(att) : k = Len(att) \/ k < Len(att)
  BY <1>0, <1>1, <1>2, AttLast DEF TypeOK
<1>4. /\ run'[r].pc = "sent" /\ run'[r].no = Len(att)
      /\ \A q \in Runner \ {r} : run'[q] = run[q]
      /\ UNCHANGED <<job, cases>>
  BY <1>0 DEF Transmit, Goto, Run
<1>5. InFlight' /\ OneOnWire'
  <2>1. \A q \in Runner : run'[q].pc \in Active => q = r
    BY <1>0, <1>4
  <2> QED
    <3>1. OneOnWire'
      BY <2>1, Zenon DEF OneOnWire
    <3>2. /\ Len(att') > 0 /\ run'[r].no = Len(att') /\ att'[Len(att')].out = "IN_FLIGHT"
          /\ att'[Len(att')].got = (run'[r].pc = "sent")
      BY <1>0, <1>1, <1>3, <1>4, Zenon
    <3>3. InFlight'
      BY <2>1, <3>2, Zenon DEF InFlight
    <3> QED
      BY <3>1, <3>3
<1>6. EarlierCleared' /\ VerdictSettles'
  <2>1. EarlierCleared'
    BY <1>3, Zenon DEF Sends, EarlierCleared
  <2>3. VerdictSettles'
    <3>1. ~(a.out = "ACCEPTED" \/ (a.out = "REJECTED" /\ a.got))
      BY <1>1
    <3> QED
      BY <1>3, <1>4, <3>1, Zenon DEF Sends, VerdictSettles
  <2> QED
    BY <2>1, <2>3
<1>7. Held' /\ Untouched' /\ WireBudget'
  <2>1. \A q \in Runner : run'[q] = run[q] \/ run'[q].pc = "sent"
    BY <1>4
  <2>2. Held'
    BY <1>3, <1>4, <2>1 DEF Sends, Held
  <2>3. Untouched' /\ WireBudget'
    BY <1>3, <1>4 DEF Sends, Untouched, WireBudget
  <2> QED
    BY <2>2, <2>3
<1>8. Parked'
  <2>1. HasUnresolved'
    <3>1. Len(att) \in DOMAIN att' /\ att'[Len(att)].out = "IN_FLIGHT"
      BY <1>1, <1>3, Zenon
    <3> QED
      BY <3>1 DEF HasUnresolved, Unresolved
  <2> QED
    BY <1>4, <2>1 DEF Sends, Parked
<1> QED
  BY <1>5, <1>6, <1>7, <1>8 DEF Sends

\* An answer whose lease is gone is rolled back with the job.
LEMMA SendsLost ==
    ASSUME TypeOK, Sends, NEW r \in Runner, Lost(r)
    PROVE  Sends'
<1>1. run' = [run EXCEPT ![r] = [run[r] EXCEPT !.pc = "fail"]]
  BY DEF Lost, Goto, TypeOK
<1>2. [run[r] EXCEPT !.pc = "fail"].pc \notin Leasing
  BY DEF TypeOK, Run, Leasing
<1> QED
  BY <1>1, <1>2, SendsJob DEF Lost

LEMMA SendsAnswered ==
    ASSUME TypeOK, Sends, NEW r \in Runner,
           Accepted(r) \/ Rejected(r) \/ Unavailable(r) \/ Unknown(r)
    PROVE  Sends'
<1>0. /\ run[r].pc \in Active /\ run[r].no \in 1..Len(att) /\ att[run[r].no] \in Attempt
      /\ att[run[r].no].got = (run[r].pc = "sent")
  BY AttDomain DEF TypeOK, Accepted, Rejected, Unavailable, Unknown, Active, Sends, InFlight
<1> DEFINE a(o) == [att[run[r].no] EXCEPT !.out = o, !.acked = FALSE]
           b == [att[run[r].no] EXCEPT !.out = "ACCEPTED", !.id = TRUE, !.acked = FALSE]
<1>1. /\ \A o \in {"REJECTED", "UNKNOWN"} :
            a(o) \in Attempt /\ a(o).out = o /\ a(o).got = att[run[r].no].got
      /\ b \in Attempt /\ b.out = "ACCEPTED" /\ b.got = att[run[r].no].got
  BY <1>0 DEF Attempt
<1>2. /\ \A o \in {"REJECTED", "UNKNOWN"} : Answered(r, o) = [att EXCEPT ![run[r].no] = a(o)]
      /\ Accepted(r) => Lost(r) \/ att' = [att EXCEPT ![run[r].no] = b]
  BY DEF Answered, Accepted
<1> HIDE DEF a, b
<1>3. CASE Accepted(r) /\ ~Lost(r)
  <2>1. /\ job'.by = Nobody /\ job'.status = "DELIVERED" /\ job'.attempts = job.attempts
        /\ Goto(r, "poll") /\ UNCHANGED cases
    BY <1>3 DEF Accepted, Settle, Unlocked
  <2> QED
    BY <1>0, <1>1, <1>2, <1>3, <2>1, SendsAnswer DEF Settled
<1>4. CASE Rejected(r) /\ ~Lost(r)
  <2>1. /\ job'.by = Nobody /\ job'.status = "FAILED" /\ job'.attempts = job.attempts
        /\ Goto(r, "giveup") /\ "giveup" \in Verdict /\ cases \subseteq cases'
        /\ att' = Answered(r, "REJECTED")
    BY <1>4 DEF Rejected, Settle, Unlocked, Open, Verdict
  <2> QED
    BY <1>0, <1>1, <1>2, <2>1, SendsAnswer DEF Settled
<1>5. CASE Unavailable(r) /\ ~Lost(r)
  <2>1. /\ job'.by = Nobody /\ job'.status = "QUEUED" /\ job'.attempts = job.attempts
        /\ Goto(r, "fail") /\ "fail" \in Verdict /\ UNCHANGED cases
        /\ att' = Answered(r, "REJECTED") /\ run[r].pc = "wire"
    BY <1>5 DEF Unavailable, Unlocked, Verdict
  <2> QED
    BY <1>0, <1>1, <1>2, <2>1, SendsAnswer
<1>6. CASE Unknown(r) /\ ~Lost(r)
  <2>1. /\ job'.by = Nobody /\ job'.status = "AWAITING_RECONCILIATION"
        /\ job'.attempts = job.attempts
        /\ Goto(r, "succeed") /\ "succeed" \in Verdict
        /\ cases \subseteq cases' /\ "SENT_UNKNOWN" \in cases'
        /\ att' = Answered(r, "UNKNOWN")
    BY <1>6 DEF Unknown, Settle, Unlocked, Open, Verdict
  <2> QED
    BY <1>0, <1>1, <1>2, <2>1, SendsAnswer
<1> QED
  BY <1>3, <1>4, <1>5, <1>6, SendsLost

\* An event can name no send of a run that is still before its call: none has
\* been received, so it settles the job of no such run.
LEMMA SendsAck ==
    ASSUME TypeOK, Sends, NEW e \in Events, ApplyAck(e)
    PROVE  Sends'
<1>0. Len(att) \in Nat /\ DOMAIN att = 1..Len(att) /\ \A k \in 1..Len(att) : att[k] \in Attempt
  BY AttDomain DEF TypeOK
<1>3. /\ Len(att') = Len(att) /\ DOMAIN att' = 1..Len(att)
      /\ \A l \in 1..Len(att) : att'[l].out = att[l].out /\ att'[l].got = att[l].got
  BY AckedOnly DEF TypeOK
<1>4. UNCHANGED <<run, cases>>
  BY DEF ApplyAck
<1>5. /\ job'.by = job.by /\ job'.attempts = job.attempts
      /\ job'.status = job.status
            \/ (job.status \in {"SENDING", "AWAITING_RECONCILIATION"}
                /\ job'.status \in {"DELIVERED", "FAILED"})
  BY DEF ApplyAck, Unanswered, TypeOK, Job
<1>6. PICK m \in 1..Len(att) : att[m].got
  BY <1>0 DEF ApplyAck, Matched
<1>7. \A r \in Runner : run[r].pc # "wire"
  <2>1. m = Len(att) /\ att[Len(att)].got
    <3>1. ~(m < Len(att))
      BY <1>6, Zenon DEF Sends, EarlierCleared
    <3>2. m = Len(att)
      BY <1>0, <1>6, <3>1, LastIsGreatest, Zenon
    <3> QED
      BY <1>6, <3>2
  <2> QED
    BY <2>1 DEF Sends, InFlight, Active
<1>8. InFlight' /\ OneOnWire' /\ EarlierCleared'
  BY <1>0, <1>3, <1>4 DEF Sends, InFlight, OneOnWire, EarlierCleared
<1>9. VerdictSettles' /\ Untouched' /\ WireBudget'
  BY <1>3, <1>5 DEF Sends, VerdictSettles, Untouched, WireBudget, Settled
<1>10. Held'
  BY <1>3, <1>4, <1>5, <1>7 DEF Sends, Held
<1>11. Parked'
  BY <1>0, <1>3, <1>4, <1>5 DEF Sends, Parked, HasUnresolved
<1> QED
  BY <1>8, <1>9, <1>10, <1>11 DEF Sends

-----------------------------------------------------------------------------
(* Theorems *)

LEMMA InitIInv == Init => IInv
<1> SUFFICES ASSUME Init PROVE IInv
  OBVIOUS
<1>1. att = <<>> /\ Len(att) = 0 /\ att \in Seq(Attempt)
  BY DEF Init
<1>2. job \in Job /\ job.status = "ABSENT" /\ job.attempts = 0 /\ job.by = Nobody
  BY DEF Init, Unlocked, Job
<1>3. \A r \in Runner : run[r] = Idle /\ Idle.pc = "idle" /\ Idle \in Run
  BY DEF Init, Idle, Run
<1>4. /\ run \in [Runner -> Run] /\ send \in [Send -> SendJob]
      /\ \A s \in Send : send[s].status = "ABSENT"
  <2>1. [status |-> "ABSENT", tries |-> 0, by |-> Nobody] \in SendJob
    BY DEF SendJob
  <2> QED
    BY <1>3, <2>1 DEF Init
<1>5. TypeOK
  <2>1. Len(att) <= MaxAttempts
    BY <1>1
  <2>2. /\ binding = "NONE" /\ cases = {} /\ fanout = FALSE /\ polled = FALSE
        /\ gate = TRUE /\ ready = TRUE /\ dsp = "none" /\ mail = {} /\ seen = {}
    BY DEF Init
  <2> QED
    BY <1>1, <1>2, <1>4, <2>1, <2>2 DEF TypeOK
<1>6. Driven
  BY <1>3, <1>4 DEF Driven
<1>7. Sends
  BY <1>1, <1>2, <1>3 DEF Sends, InFlight, OneOnWire, EarlierCleared, VerdictSettles, Held,
        Parked, Untouched, WireBudget, Active
<1> QED
  BY <1>5, <1>6, <1>7 DEF IInv

LEMMA StepIInv == IInv /\ [Next]_vars => IInv'
<1> SUFFICES ASSUME TypeOK, Driven, Sends, [Next]_vars PROVE TypeOK' /\ Driven' /\ Sends'
  BY DEF IInv
<1>1. Driven'
  BY DrivenStep
<1>2. CASE \/ CreateJob \/ FanOutLost \/ Review \/ Drift \/ LeaseExpires \/ Reconcile
           \/ \E s \in Send : FanOut(s) \/ Reclaim(s)
           \/ \E e \in Events : Partner(e)
  BY <1>1, <1>2, TypeQueue, TypeOutside, SendsQueue
<1>3. ASSUME NEW e \in Events, ApplyAck(e) PROVE TypeOK' /\ Sends'
  BY <1>3, TypeOutside, SendsAck
<1>4. ASSUME NEW r \in Runner, Claim(r) \/ HandlerError(r) \/ Crash(r) \/ HandBack(r)
                               \/ Cancel(r) \/ Finish(r)
      PROVE  TypeOK' /\ Sends'
  BY <1>4, TypeQueue, SendsRun
<1>5. ASSUME NEW r \in Runner, LeaseRefused(r) \/ SchedulePoll(r) PROVE TypeOK' /\ Sends'
  BY <1>5, TypeHandler, SendsRun
<1>6. ASSUME NEW r \in Runner, Blocked(r) \/ Release(r) \/ Transient(r) \/ Refuse(r) \/ Park(r)
      PROVE  TypeOK' /\ Sends'
  BY <1>6, TypeHandler, SendsEnds
<1>7. ASSUME NEW r \in Runner, Lease(r) \/ Prepared(r) \/ Begin(r) \/ Transmit(r)
      PROVE  TypeOK' /\ Sends'
  BY <1>7, TypeHandler, SendsLease, SendsBegin, SendsTransmit
<1>8. ASSUME NEW r \in Runner, Accepted(r) \/ Rejected(r) \/ Unavailable(r) \/ Unknown(r)
      PROVE  TypeOK' /\ Sends'
  BY <1>8, TypeHandler, SendsAnswered
<1>9. CASE UNCHANGED vars
  <2>1. Sends'
    BY <1>9, SendsQuiet DEF vars
  <2>2. TypeOK'
    BY <1>9 DEF vars, TypeOK
  <2> QED
    BY <1>1, <2>1, <2>2
<1> QED
  BY <1>1, <1>2, <1>3, <1>4, <1>5, <1>6, <1>7, <1>8, <1>9 DEF Next, Handle

LEMMA Inductive == Spec => []IInv
BY InitIInv, StepIInv, PTL DEF Spec

\* The rows keep their shape, and the attempts stay within max_attempts.
THEOREM Typed == Spec => []TypeOK
<1>1. IInv => TypeOK
  BY DEF IInv
<1> QED
  BY <1>1, Inductive, PTL

\* run_delivery never puts a package on the wire twice: the partner receives at
\* most one send, whatever crashes, expired leases, second send jobs, lost
\* answers, callbacks and reconcile passes come in between.
THEOREM AtMostOneSend == Spec => []NoDuplicateSend
<1>1. IInv => NoDuplicateSend
  <2> SUFFICES ASSUME IInv, NEW k \in 1..Len(att), NEW l \in 1..Len(att),
                      att[k].got, att[l].got
               PROVE  k = l
    BY AttDomain DEF IInv, TypeOK, NoDuplicateSend
  <2>1. Len(att) \in Nat
    BY AttDomain DEF IInv, TypeOK
  <2> QED
    BY <2>1 DEF IInv, Sends, EarlierCleared
<1> QED
  BY <1>1, Inductive, PTL

\* Every call is paid for by a lease, so max_attempts bounds the calls.
THEOREM CallsArePaidFor == Spec => []WireBudget
<1>1. IInv => WireBudget
  BY DEF IInv, Sends
<1> QED
  BY <1>1, Inductive, PTL

\* A job parked for reconciliation has its SENT_UNKNOWN case and its attempt.
THEOREM ParkedHasItsCase == Spec => []UnknownParked
<1>1. IInv => UnknownParked
  BY DEF IInv, Sends, Parked, UnknownParked
<1> QED
  BY <1>1, Inductive, PTL

\* A step opens an attempt only by Begin.
LEMMA Opens ==
    ASSUME TypeOK, Sends, [Next]_vars, Len(att') > Len(att)
    PROVE  \E r \in Runner : Begin(r)
<1>0. Len(att) \in Nat
  BY AttDomain DEF TypeOK
<1>1. ASSUME NEW i \in 1..Len(att), NEW a, att' = [att EXCEPT ![i] = a] PROVE FALSE
  <2>1. Len(att') = Len(att)
    BY <1>1, ExceptSeq DEF TypeOK
  <2> QED
    BY <1>0, <2>1
<1>2. att' # att
  BY <1>0
<1>3. ASSUME NEW r \in Runner, Transmit(r) \/ Accepted(r) \/ Rejected(r) \/ Unavailable(r) \/ Unknown(r)
      PROVE  FALSE
  <2>1. run[r].no \in 1..Len(att)
    BY <1>3 DEF Transmit, Accepted, Rejected, Unavailable, Unknown, Active, Sends, InFlight
  <2>2. \E a : att' = [att EXCEPT ![run[r].no] = a]
    BY <1>2, <1>3 DEF Transmit, Accepted, Rejected, Unavailable, Unknown, Lost, Answered
  <2> QED
    BY <1>1, <2>1, <2>2
<1>4. ASSUME NEW e \in Events, ApplyAck(e) PROVE FALSE
  <2>1. Len(att') = Len(att)
    BY <1>4, AckedOnly DEF TypeOK
  <2> QED
    BY <1>0, <2>1
<1>5. ASSUME NEW r \in Runner, Claim(r) \/ HandlerError(r) \/ Crash(r) \/ HandBack(r)
             \/ Cancel(r) \/ Finish(r) \/ Lease(r) \/ LeaseRefused(r) \/ Blocked(r) \/ Release(r)
             \/ Transient(r) \/ Refuse(r) \/ Prepared(r) \/ Park(r) \/ SchedulePoll(r)
      PROVE  FALSE
  BY <1>2, <1>5 DEF Claim, HandlerError, Crash, HandBack, Cancel, Finish, Lease, LeaseRefused,
     Blocked, Release, Transient, Refuse, Prepared, Park, SchedulePoll
<1>6. ASSUME \/ CreateJob \/ FanOutLost \/ Review \/ Drift \/ LeaseExpires \/ Reconcile
             \/ \E s \in Send : FanOut(s) \/ Reclaim(s)
             \/ \E e \in Events : Partner(e)
             \/ UNCHANGED vars
      PROVE  FALSE
  BY <1>2, <1>6 DEF CreateJob, FanOutLost, Review, Drift, LeaseExpires, Reconcile, FanOut, Reclaim,
     Partner, vars
<1> QED
  BY <1>3, <1>4, <1>5, <1>6 DEF Next, Handle

\* A new attempt opens only for the release as it stands, and only when every
\* earlier attempt is known not to have been received.
THEOREM NewAttemptsAreClear == Spec => SendsOnlyWhenClear
<1>1. IInv /\ [Next]_vars =>
         (Len(att') > Len(att) => ready /\ \A k \in DOMAIN att : att[k].out = "REJECTED")
  <2> SUFFICES ASSUME TypeOK, Sends, [Next]_vars, Len(att') > Len(att)
               PROVE  ready /\ \A k \in DOMAIN att : att[k].out = "REJECTED"
    BY DEF IInv
  <2>1. PICK r \in Runner : Begin(r)
    BY Opens
  <2> QED
    BY <2>1, SendsBegin DEF Begin
<1>2. IInv /\ [Next]_vars =>
         [Len(att') > Len(att) => ready /\ \A k \in DOMAIN att : att[k].out = "REJECTED"]_vars
  BY <1>1
<1> QED
  BY <1>2, Inductive, PTL DEF Spec, SendsOnlyWhenClear

\* No step takes a settled job back to the queue, a lease or the wire.
LEMMA StaysSettled ==
    ASSUME TypeOK, Sends, [Next]_vars, job.status \in Settled
    PROVE  job'.status \in Settled
<1>0. job.status \notin {"ABSENT"} \cup Live
  BY DEF Settled, Live
<1>1. CASE job'.status = job.status
  BY <1>1
<1>2. ASSUME NEW s \in Settled, Settle(s) PROVE job'.status \in Settled
  BY <1>2 DEF Settle, Unlocked
<1>3. ASSUME NEW r \in Runner, Lease(r) \/ Blocked(r) \/ Begin(r) PROVE job'.status \in Settled
  <2>1. Settle("DEAD_LETTER") \/ job' = job
    BY <1>0, <1>3 DEF Lease, Leasable, Blocked, Begin, LeaseOk, Live
  <2> QED
    BY <1>1, <1>2, <2>1 DEF Settled
<1>4. ASSUME NEW r \in Runner, Release(r) \/ Transient(r) \/ Unavailable(r)
      PROVE  job'.status \in Settled
  <2>1. job' = job
    BY <1>0, <1>4 DEF Release, Transient, Unavailable, Lost, Live, Sends, Held
  <2> QED
    BY <1>1, <2>1
<1>5. ASSUME NEW r \in Runner, Refuse(r) \/ Park(r) \/ Accepted(r) \/ Rejected(r) \/ Unknown(r)
      PROVE  job'.status \in Settled
  <2>1. job' = job \/ \E s \in Settled : Settle(s)
    BY <1>5 DEF Refuse, Park, Accepted, Rejected, Unknown, Lost, Settled
  <2> QED
    BY <1>1, <1>2, <2>1
<1>6. ASSUME NEW r \in Runner, Claim(r) \/ HandlerError(r) \/ Crash(r) \/ HandBack(r)
             \/ Cancel(r) \/ Finish(r) \/ LeaseRefused(r) \/ Prepared(r) \/ Transmit(r)
             \/ SchedulePoll(r)
      PROVE  job'.status \in Settled
  <2>1. job' = job
    BY <1>6 DEF Claim, HandlerError, Crash, HandBack, Cancel, Finish, LeaseRefused, Prepared,
       Transmit, SchedulePoll
  <2> QED
    BY <1>1, <2>1
<1>7. ASSUME NEW e \in Events, Partner(e) \/ ApplyAck(e) PROVE job'.status \in Settled
  BY <1>7 DEF Partner, ApplyAck, Unanswered, Settled, TypeOK, Job
<1>8. ASSUME \/ CreateJob \/ FanOutLost \/ Review \/ Drift \/ LeaseExpires \/ Reconcile
             \/ \E s \in Send : FanOut(s) \/ Reclaim(s)
             \/ UNCHANGED vars
      PROVE  job'.status \in Settled
  <2>1. job' = job \/ job' = [job EXCEPT !.leased = FALSE]
    BY <1>0, <1>8 DEF CreateJob, FanOutLost, Review, Drift, LeaseExpires, Reconcile, Stalled, FanOut,
       Reclaim, Live, vars
  <2> QED
    BY <1>1, <2>1 DEF TypeOK, Job
<1> QED
  BY <1>3, <1>4, <1>5, <1>6, <1>7, <1>8 DEF Next, Handle

\* A settled delivery is never opened again.
THEOREM SettledIsFinal == Spec => NeverReopened
<1>1. IInv /\ [Next]_vars => (job.status \in Settled => job'.status \in Settled)
  BY StaysSettled DEF IInv
<1>2. IInv /\ [Next]_vars => [job.status \in Settled => job'.status \in Settled]_vars
  BY <1>1
<1> QED
  BY <1>2, Inductive, PTL DEF Spec, NeverReopened

-----------------------------------------------------------------------------
(* The promise of a delivery *)

\* Only settling a job makes it dead-lettered, and that takes its token.
DeadIsNobodys == job.status = "DEAD_LETTER" => job.by = Nobody

LEMMA DeadStep == ASSUME TypeOK, Sends, DeadIsNobodys, [Next]_vars PROVE DeadIsNobodys'
<1>1. ASSUME NEW s, NEW n, job' = Unlocked(s, n) PROVE DeadIsNobodys'
  BY <1>1 DEF Unlocked, DeadIsNobodys
<1>2. CASE job' = job
  BY <1>2 DEF DeadIsNobodys
<1>3. ASSUME job'.status # "DEAD_LETTER" PROVE DeadIsNobodys'
  BY <1>3 DEF DeadIsNobodys
<1>4. ASSUME NEW r \in Runner, Lease(r) \/ Begin(r) PROVE DeadIsNobodys'
  BY <1>3, <1>4 DEF Lease, Begin, TypeOK, Job
<1>5. ASSUME NEW r \in Runner, Handle(r), ~Lease(r), ~Begin(r) PROVE DeadIsNobodys'
  BY <1>1, <1>2, <1>5 DEF Handle, Finish, LeaseRefused, Blocked, Release, Transient, Refuse, Prepared,
     Park, Transmit, Accepted, Rejected, Unavailable, Unknown, SchedulePoll, Lost, Settle
<1>6. ASSUME NEW r \in Runner, Claim(r) \/ HandlerError(r) \/ Crash(r) \/ HandBack(r) \/ Cancel(r)
      PROVE  DeadIsNobodys'
  BY <1>2, <1>6 DEF Claim, HandlerError, Crash, HandBack, Cancel
<1>7. ASSUME NEW e \in Events, Partner(e) \/ ApplyAck(e) PROVE DeadIsNobodys'
  BY <1>2, <1>3, <1>7 DEF Partner, ApplyAck, Unanswered, TypeOK, Job
<1>8. CASE LeaseExpires
  BY <1>8 DEF LeaseExpires, DeadIsNobodys, TypeOK, Job
<1>9. ASSUME \/ CreateJob \/ FanOutLost \/ Review \/ Drift \/ Reconcile
             \/ \E s \in Send : FanOut(s) \/ Reclaim(s)
             \/ UNCHANGED vars
      PROVE  DeadIsNobodys'
  BY <1>1, <1>2, <1>9 DEF CreateJob, FanOutLost, Review, Drift, Reconcile, FanOut, Reclaim, vars
<1> QED
  BY <1>4, <1>5, <1>6, <1>7, <1>8, <1>9 DEF Next

LEMMA DeadInvariant == Spec => []DeadIsNobodys
<1>1. Init => DeadIsNobodys
  BY DEF Init, Unlocked, DeadIsNobodys
<1>2. IInv /\ DeadIsNobodys /\ [Next]_vars => DeadIsNobodys'
  BY DeadStep DEF IInv
<1> QED
  BY <1>1, <1>2, Inductive, PTL DEF Spec

\* Of attempts that are all cleared but the last, the last one says whether any
\* is unresolved or received.
LEMMA LastSays ==
    ASSUME NEW a \in Seq(Attempt),
           \A k \in 1..Len(a) : k < Len(a) => a[k].out = "REJECTED" /\ ~a[k].got
    PROVE  /\ (\E k \in DOMAIN a : a[k].out \in Unresolved)
                 <=> (Len(a) > 0 /\ a[Len(a)].out \in Unresolved)
           /\ Len(a) > 0 /\ a[Len(a)].got => {k \in DOMAIN a : a[k].got} = {Len(a)}
           /\ ~(Len(a) > 0 /\ a[Len(a)].got) => {k \in DOMAIN a : a[k].got} = {}
<1>1. Len(a) \in Nat /\ DOMAIN a = 1..Len(a)
  OBVIOUS
<1>2. \A k \in DOMAIN a : k = Len(a) \/ (a[k].out = "REJECTED" /\ ~a[k].got)
  BY <1>1
<1>3. Len(a) > 0 <=> Len(a) \in DOMAIN a
  BY <1>1
<1>4. "REJECTED" \notin Unresolved
  BY DEF Unresolved
<1> QED
  BY <1>1, <1>2, <1>3, <1>4

\* A run on the wire: what it has out is the last attempt, and the delivery is
\* open, unless an event closed it while the run still holds the token.
LEMMA OnTheWire ==
    ASSUME TypeOK, Sends, DeadIsNobodys, NEW r \in Runner, run[r].pc \in Active
    PROVE  /\ run[r].no = Len(att) /\ Len(att) > 0 /\ HasUnresolved
           /\ att[Len(att)] \in Attempt
           /\ run[r].pc = "wire" => Received = {}
           /\ run[r].pc = "sent" => Received = {Len(att)}
           /\ job.by = r => Phase \in {"OPEN", "DELIVERED", "FAILED"}
           /\ job.by = r /\ run[r].pc = "wire" => Phase = "OPEN"
<1>1. /\ run[r].no = Len(att) /\ Len(att) > 0
      /\ att[Len(att)].out = "IN_FLIGHT" /\ att[Len(att)].got = (run[r].pc = "sent")
  BY DEF Sends, InFlight
<1>2. att \in Seq(Attempt) /\ Len(att) \in Nat /\ att[Len(att)] \in Attempt
  BY <1>1, AttDomain DEF TypeOK
<1>3. \A k \in 1..Len(att) : k < Len(att) => att[k].out = "REJECTED" /\ ~att[k].got
  BY DEF Sends, EarlierCleared
<1>4. /\ HasUnresolved
      /\ att[Len(att)].got => Received = {Len(att)}
      /\ ~att[Len(att)].got => Received = {}
  BY <1>1, <1>2, <1>3, LastSays DEF HasUnresolved, Received, Unresolved
<1>5. job.by = r => job.status \notin {"ABSENT", "AWAITING_RECONCILIATION", "DEAD_LETTER"}
  BY <1>1 DEF Sends, Parked, Untouched, DeadIsNobodys
<1>6. job.by = r => Phase \in {"OPEN", "DELIVERED", "FAILED"}
  BY <1>5 DEF Phase, TypeOK, Job, Live, Settled
<1>7. job.by = r /\ run[r].pc = "wire" => Phase = "OPEN"
  BY DEF Sends, Held, Phase, Live
<1> QED
  BY <1>1, <1>2, <1>4, <1>6, <1>7

\* The outcome of the last attempt decides what is out afterwards.
LEMMA AfterAnswer ==
    ASSUME TypeOK, Sends, DeadIsNobodys, NEW r \in Runner, run[r].pc \in Active,
           NEW a \in Attempt, a.got = att[Len(att)].got, att' = [att EXCEPT ![run[r].no] = a]
    PROVE  /\ Len(att') = Len(att) /\ Received' = Received
           /\ HasUnresolved' <=> a.out \in Unresolved
<1>1. run[r].no = Len(att) /\ Len(att) > 0 /\ att \in Seq(Attempt)
  BY OnTheWire DEF TypeOK
<1>2. /\ Len(att') = Len(att) /\ DOMAIN att' = 1..Len(att) /\ DOMAIN att = 1..Len(att)
      /\ att'[Len(att)] = a /\ Len(att) \in 1..Len(att)
      /\ \A k \in 1..Len(att) : k < Len(att) => att'[k] = att[k]
      /\ \A k \in 1..Len(att) : k = Len(att) \/ k < Len(att)
  BY <1>1, AttLast
<1>3. \A k \in 1..Len(att) : k < Len(att) => att[k].out = "REJECTED" /\ ~att[k].got
  BY DEF Sends, EarlierCleared
<1>4. Received' = Received
  BY <1>2 DEF Received
<1>5. HasUnresolved' <=> a.out \in Unresolved
  <2>1. ASSUME NEW k \in 1..Len(att), att'[k].out \in Unresolved PROVE a.out \in Unresolved
    BY <1>2, <1>3, <2>1 DEF Unresolved
  <2>2. HasUnresolved' <=> (\E k \in 1..Len(att) : att'[k].out \in Unresolved)
    BY <1>2 DEF HasUnresolved
  <2> QED
    BY <1>2, <2>1, <2>2
<1> QED
  BY <1>2, <1>4, <1>5

\* A step that leaves the attempts alone changes at most how the delivery is
\* closed.
LEMMA SameAttempts ==
    ASSUME att' = att
    PROVE  Len(att') = Len(att) /\ HasUnresolved' = HasUnresolved /\ Received' = Received
BY DEF HasUnresolved, Received

LEMMA PhaseOf ==
    ASSUME TypeOK
    PROVE  /\ job.status \in Live <=> Phase = "OPEN"
           /\ Phase = "ABSENT" <=> job.status = "ABSENT"
           /\ \A s \in Live : \A n : job' = Unlocked(s, n) => Phase' = "OPEN"
           /\ \A s \in {"DELIVERED", "FAILED"} : Settle(s) => Phase' = s
           /\ Settle("AWAITING_RECONCILIATION") => Phase' = "UNKNOWN"
           /\ Settle("DEAD_LETTER") => Phase' = "DEAD"
           /\ job' = job => Phase' = Phase
BY DEF Phase, TypeOK, Job, Live, Settled, Settle, Unlocked

\* Steps that make no call and hear of none.
LEMMA PromiseQuiet ==
    ASSUME TypeOK, Sends, att' = att, NEW r \in Runner,
           \/ Claim(r) \/ HandlerError(r) \/ Crash(r) \/ HandBack(r) \/ Cancel(r) \/ Finish(r)
           \/ LeaseRefused(r) \/ Prepared(r) \/ SchedulePoll(r) \/ Lease(r) \/ Blocked(r)
           \/ Release(r) \/ Transient(r) \/ Refuse(r) \/ Park(r)
    PROVE  [Promise!Next]_(Promise!vars)
<1>1. Len(att') = Len(att) /\ HasUnresolved' = HasUnresolved /\ Received' = Received
  BY SameAttempts
<1>2. CASE Phase' = Phase
  BY <1>1, <1>2 DEF Promise!vars
<1>3. CASE \/ Claim(r) \/ HandlerError(r) \/ Crash(r) \/ HandBack(r) \/ Cancel(r) \/ Finish(r)
           \/ LeaseRefused(r) \/ Prepared(r) \/ SchedulePoll(r)
  <2>1. job' = job
    BY <1>3 DEF Claim, HandlerError, Crash, HandBack, Cancel, Finish, LeaseRefused, Prepared,
       SchedulePoll
  <2> QED
    BY <1>2, <2>1, PhaseOf
<1>4. CASE Lease(r)
  <2>1. job.status \in Live /\ job'.status \in Live
    BY <1>4 DEF Lease, Leasable, Live
  <2>2. Phase = "OPEN" /\ Phase' = "OPEN"
    BY <2>1 DEF Phase, Live
  <2> QED
    BY <1>2, <2>2
<1>5. CASE Release(r) \/ Transient(r)
  <2>1. job' = job \/ (job.status \in Live /\ \E n : job' = Unlocked("QUEUED", n))
    BY <1>5 DEF Release, Transient, Sends, Held, Live
  <2>2. Phase' = Phase
    BY <2>1, PhaseOf DEF Live
  <2> QED
    BY <1>2, <2>2
<1>6. CASE Blocked(r)
  <2>1. job' = job \/ (job.status \in Live /\ Settle("DEAD_LETTER"))
    BY <1>6 DEF Blocked
  <2>2. Phase' = Phase \/ (Phase = "OPEN" /\ Phase' = "DEAD")
    BY <2>1, PhaseOf
  <2> QED
    BY <1>1, <1>2, <2>2 DEF Promise!Next, Promise!GiveUp
<1>7. CASE Refuse(r)
  <2>1. job' = job \/ (Fence(r) /\ Settle("FAILED"))
    BY <1>7 DEF Refuse
  <2>2. Fence(r) => job.status \in Live
    BY <1>7 DEF Refuse, Fence, Sends, Held, Live
  <2>3. Phase' = Phase \/ (Phase = "OPEN" /\ Phase' = "FAILED")
    BY <2>1, <2>2, PhaseOf
  <2> QED
    BY <1>1, <1>2, <2>3 DEF Promise!Next, Promise!GiveUp
<1>8. CASE Park(r)
  <2>1. job.status \in Live /\ HasUnresolved /\ Settle("AWAITING_RECONCILIATION")
    BY <1>8 DEF Park, LeaseOk, Live
  <2>2. Phase = "OPEN" /\ Phase' = "UNKNOWN"
    BY <2>1, PhaseOf
  <2> QED
    BY <1>1, <2>1, <2>2 DEF Promise!Next, Promise!Lose
<1> QED
  BY <1>3, <1>4, <1>5, <1>6, <1>7, <1>8

\* Steps of the queue, the staff, the clock and the reconciler.
LEMMA PromiseOutside ==
    ASSUME TypeOK, Sends,
           \/ CreateJob \/ FanOutLost \/ Review \/ Drift \/ LeaseExpires \/ Reconcile
           \/ \E s \in Send : FanOut(s) \/ Reclaim(s)
           \/ \E e \in Events : Partner(e)
           \/ UNCHANGED vars
    PROVE  [Promise!Next]_(Promise!vars)
<1>1. att' = att
  BY DEF CreateJob, FanOutLost, Review, Drift, LeaseExpires, Reconcile, FanOut, Reclaim, Partner, vars
<1>2. Len(att') = Len(att) /\ HasUnresolved' = HasUnresolved /\ Received' = Received
  BY <1>1, SameAttempts
<1>3. CASE CreateJob
  <2>1. job.status = "ABSENT" /\ job' = Unlocked("QUEUED", 0)
    BY <1>3 DEF CreateJob
  <2>2. Phase = "ABSENT" /\ Phase' = "OPEN"
    BY <2>1, PhaseOf DEF Live
  <2> QED
    BY <1>2, <2>2 DEF Promise!Next, Promise!Create
<1>4. CASE Reconcile
  <2>1. job' = job \/ (job.status \in Live /\ job' = Unlocked("QUEUED", job.attempts))
    BY <1>4 DEF Reconcile, Stalled, Live
  <2>2. Phase' = Phase
    BY <2>1, PhaseOf DEF Live
  <2> QED
    BY <1>2, <2>2 DEF Promise!vars
<1>5. CASE LeaseExpires
  <2>1. job'.status = job.status
    BY <1>5 DEF LeaseExpires, TypeOK, Job
  <2>2. Phase' = Phase
    BY <2>1 DEF Phase
  <2> QED
    BY <1>2, <2>2 DEF Promise!vars
<1>6. CASE \/ FanOutLost \/ Review \/ Drift
           \/ \E s \in Send : FanOut(s) \/ Reclaim(s)
           \/ \E e \in Events : Partner(e)
           \/ UNCHANGED vars
  <2>1. job' = job
    BY <1>6 DEF FanOutLost, Review, Drift, FanOut, Reclaim, Partner, vars
  <2> QED
    BY <1>2, <2>1, PhaseOf DEF Promise!vars
<1> QED
  BY <1>3, <1>4, <1>5, <1>6

\* An attempt is opened: nothing is out, and nothing was received.
LEMMA PromiseBegin ==
    ASSUME TypeOK, Sends, NEW r \in Runner, Begin(r)
    PROVE  Promise!Attempt
<1>1. att \in Seq(Attempt) /\ Len(att) \in Nat /\ DOMAIN att = 1..Len(att)
  BY AttDomain DEF TypeOK
<1>2. \A k \in DOMAIN att : att[k].out = "REJECTED" /\ ~att[k].got
  BY SendsBegin
<1>3. Received = {} /\ ~HasUnresolved
  BY <1>2 DEF Received, HasUnresolved, Unresolved
<1> DEFINE a == [out |-> "IN_FLIGHT", id |-> PlannedId, acked |-> FALSE, got |-> FALSE]
<1>4. a \in Attempt /\ a.out = "IN_FLIGHT" /\ a.got = FALSE /\ att' = Append(att, a)
  BY DEF Begin, Attempt
<1> HIDE DEF a
<1>5. /\ att' \in Seq(Attempt) /\ Len(att') = Len(att) + 1 /\ att'[Len(att) + 1] = a
      /\ \A k \in 1..Len(att) : att'[k] = att[k]
  BY <1>1, <1>4, AttAppend
<1>6. DOMAIN att' = 1..Len(att) + 1 /\ Len(att) + 1 \in 1..Len(att) + 1
      /\ \A k \in 1..Len(att) + 1 : k = Len(att) + 1 \/ k \in 1..Len(att)
  BY <1>1, <1>5
<1>7. Received' = {} /\ HasUnresolved'
  BY <1>1, <1>2, <1>4, <1>5, <1>6 DEF Received, HasUnresolved, Unresolved
<1>8. job.status = "LEASED" /\ Len(att) < job.attempts /\ job.attempts \in 0..MaxAttempts
  BY DEF Begin, LeaseOk, Sends, Held, TypeOK, Job
<1>9. job'.status = "SENDING"
  BY DEF Begin, TypeOK, Job
<1>10. Phase = "OPEN" /\ Phase' = "OPEN"
  BY <1>8, <1>9 DEF Phase, Live
<1>11. Len(att) < MaxAttempts
  BY <1>1, <1>8
<1> QED
  BY <1>3, <1>5, <1>7, <1>10, <1>11 DEF Promise!Attempt

\* The call of a run on the wire, and its answer.
LEMMA PromiseWire ==
    ASSUME TypeOK, Sends, DeadIsNobodys, NEW r \in Runner,
           Transmit(r) \/ Accepted(r) \/ Rejected(r) \/ Unavailable(r) \/ Unknown(r)
    PROVE  [Promise!Next]_(Promise!vars)
<1>1. run[r].pc \in Active
  BY DEF Transmit, Accepted, Rejected, Unavailable, Unknown, Active
<1>2. /\ run[r].no = Len(att) /\ Len(att) > 0 /\ HasUnresolved
      /\ att[Len(att)] \in Attempt
      /\ run[r].pc = "wire" => Received = {}
      /\ run[r].pc = "sent" => Received = {Len(att)}
      /\ job.by = r => Phase \in {"OPEN", "DELIVERED", "FAILED"}
      /\ job.by = r /\ run[r].pc = "wire" => Phase = "OPEN"
  BY <1>1, OnTheWire
<1>3. CASE Lost(r)
  <2>1. att' = att /\ job' = job
    BY <1>3 DEF Lost
  <2> QED
    BY <2>1, SameAttempts, PhaseOf DEF Promise!vars
<1>4. CASE Transmit(r)
  <2>1. run[r].pc = "wire" /\ job' = job /\ att' = [att EXCEPT ![Len(att)] = [@ EXCEPT !.got = TRUE]]
    BY <1>2, <1>4 DEF Transmit
  <2> DEFINE a == [att[Len(att)] EXCEPT !.got = TRUE]
  <2>2. /\ a \in Attempt /\ a.got = TRUE /\ a.out = att[Len(att)].out
        /\ att' = [att EXCEPT ![Len(att)] = a]
    BY <1>2, <2>1 DEF Attempt
  <2> HIDE DEF a
  <2>3. /\ Len(att') = Len(att) /\ DOMAIN att' = 1..Len(att) /\ DOMAIN att = 1..Len(att)
        /\ att'[Len(att)] = a /\ Len(att) \in 1..Len(att)
        /\ \A k \in 1..Len(att) : k < Len(att) => att'[k] = att[k]
        /\ \A k \in 1..Len(att) : k = Len(att) \/ k < Len(att)
    BY <1>2, <2>2, AttLast DEF TypeOK
  <2>4. \A k \in 1..Len(att) : k < Len(att) => ~att[k].got
    BY DEF Sends, EarlierCleared
  <2>5. Received' = {Len(att)}
    BY <2>2, <2>3, <2>4 DEF Received
  <2>6. att[Len(att)].out = "IN_FLIGHT"
    BY <1>1 DEF Sends, InFlight
  <2>7. HasUnresolved'
    BY <2>2, <2>3, <2>6 DEF HasUnresolved, Unresolved
  <2>8. HasUnresolved' = HasUnresolved /\ Phase' = Phase
    BY <1>2, <2>1, <2>7, PhaseOf
  <2> QED
    BY <1>2, <2>1, <2>3, <2>5, <2>8 DEF Promise!Next, Promise!Receive
<1>5. CASE Accepted(r) /\ Fence(r)
  <2> DEFINE a == [att[Len(att)] EXCEPT !.out = "ACCEPTED", !.id = TRUE, !.acked = FALSE]
  <2>1. /\ a \in Attempt /\ a.got = att[Len(att)].got /\ a.out = "ACCEPTED"
        /\ att' = [att EXCEPT ![run[r].no] = a]
    BY <1>2, <1>5 DEF Accepted, Attempt
  <2> HIDE DEF a
  <2>2. Len(att') = Len(att) /\ Received' = Received /\ ~HasUnresolved'
    BY <1>1, <2>1, AfterAnswer DEF Unresolved
  <2>3. run[r].pc = "sent" /\ job.by = r /\ Settle("DELIVERED")
    BY <1>5 DEF Accepted, Fence
  <2>4. Phase' = "DELIVERED"
    BY <2>3, PhaseOf
  <2> QED
    BY <1>2, <2>2, <2>3, <2>4 DEF Promise!Next, Promise!Answer, Promise!Answers
<1> DEFINE Out(o) == [att[Len(att)] EXCEPT !.out = o, !.acked = FALSE]
<1>6. \A o \in {"REJECTED", "UNKNOWN"} :
         /\ Out(o) \in Attempt /\ Out(o).got = att[Len(att)].got /\ Out(o).out = o
         /\ Answered(r, o) = [att EXCEPT ![run[r].no] = Out(o)]
  BY <1>2 DEF Attempt, Answered
<1> HIDE DEF Out
<1>7. CASE Rejected(r) /\ Fence(r)
  <2>1. att' = Answered(r, "REJECTED") /\ Settle("FAILED") /\ run[r].pc = "sent" /\ job.by = r
    BY <1>7 DEF Rejected, Fence
  <2>2. Len(att') = Len(att) /\ Received' = Received /\ ~HasUnresolved'
    BY <1>1, <1>6, <2>1, AfterAnswer DEF Unresolved
  <2>3. Phase' = "FAILED"
    BY <2>1, PhaseOf
  <2> QED
    BY <1>2, <2>1, <2>2, <2>3 DEF Promise!Next, Promise!Answer, Promise!Answers
<1>8. CASE Unavailable(r) /\ job.by = r
  <2>1. /\ att' = Answered(r, "REJECTED") /\ job' = Unlocked("QUEUED", job.attempts)
        /\ run[r].pc = "wire"
    BY <1>8 DEF Unavailable
  <2>2. Len(att') = Len(att) /\ Received' = Received /\ ~HasUnresolved'
    BY <1>1, <1>6, <2>1, AfterAnswer DEF Unresolved
  <2>3. Phase' = "OPEN"
    BY <2>1, PhaseOf DEF Live
  <2> QED
    BY <1>2, <1>8, <2>1, <2>2, <2>3 DEF Promise!Next, Promise!Clear
<1>9. CASE Unknown(r) /\ Fence(r)
  <2>1. att' = Answered(r, "UNKNOWN") /\ Settle("AWAITING_RECONCILIATION") /\ job.by = r
    BY <1>9 DEF Unknown, Fence
  <2>2. Len(att') = Len(att) /\ Received' = Received /\ HasUnresolved'
    BY <1>1, <1>6, <2>1, AfterAnswer DEF Unresolved
  <2>3. HasUnresolved' = HasUnresolved /\ Phase' = "UNKNOWN"
    BY <1>2, <2>1, <2>2, PhaseOf
  <2> QED
    BY <1>2, <2>1, <2>2, <2>3 DEF Promise!Next, Promise!Lose, Promise!Answers
<1> QED
  BY <1>3, <1>4, <1>5, <1>7, <1>8, <1>9 DEF Accepted, Rejected, Unavailable, Unknown

\* An event of the partner, of a send it received.
LEMMA PromiseEvent ==
    ASSUME TypeOK, NEW e \in Events, ApplyAck(e)
    PROVE  [Promise!Next]_(Promise!vars)
<1>1. /\ Len(att') = Len(att) /\ DOMAIN att = 1..Len(att) /\ DOMAIN att' = 1..Len(att)
      /\ \A l \in 1..Len(att) : att'[l].out = att[l].out /\ att'[l].got = att[l].got
  BY AckedOnly DEF TypeOK
<1>2. HasUnresolved' = HasUnresolved /\ Received' = Received
  BY <1>1 DEF HasUnresolved, Received
<1>3. Received # {}
  BY DEF ApplyAck, Matched, Received
<1>4. CASE job' = job
  BY <1>1, <1>2, <1>4, PhaseOf DEF Promise!vars
<1>5. CASE /\ job.status \in {"SENDING", "AWAITING_RECONCILIATION"}
           /\ job'.status \in {"DELIVERED", "FAILED"}
  <2>1. Phase \in {"OPEN", "UNKNOWN"} /\ Phase' \in {"DELIVERED", "FAILED"}
    BY <1>5 DEF Phase, Live
  <2> QED
    BY <1>1, <1>2, <1>3, <2>1 DEF Promise!Next, Promise!Event, Promise!Answers
<1> QED
  BY <1>4, <1>5 DEF ApplyAck, Unanswered, TypeOK, Job

\* Leases, tokens, send jobs, callbacks and the reconciler keep the promise of
\* one delivery, for any number of runs and send jobs (execution.rs run_delivery).
THEOREM PromiseIsKept == Spec => KeepsPromise
<1>1. Init => Promise!Init
  BY DEF Init, Promise!Init, Unlocked, Phase, Live, HasUnresolved, Received
<1>2. IInv /\ DeadIsNobodys /\ [Next]_vars => [Promise!Next]_(Promise!vars)
  <2> SUFFICES ASSUME TypeOK, Sends, DeadIsNobodys, [Next]_vars
               PROVE  [Promise!Next]_(Promise!vars)
    BY DEF IInv
  <2>1. ASSUME NEW r \in Runner,
               \/ Claim(r) \/ HandlerError(r) \/ Crash(r) \/ HandBack(r) \/ Cancel(r) \/ Finish(r)
               \/ LeaseRefused(r) \/ Prepared(r) \/ SchedulePoll(r) \/ Lease(r) \/ Blocked(r)
               \/ Release(r) \/ Transient(r) \/ Refuse(r) \/ Park(r)
        PROVE  [Promise!Next]_(Promise!vars)
    <3>1. att' = att
      BY <2>1 DEF Claim, HandlerError, Crash, HandBack, Cancel, Finish, LeaseRefused, Prepared,
         SchedulePoll, Lease, Blocked, Release, Transient, Refuse, Park
    <3> QED
      BY <2>1, <3>1, PromiseQuiet
  <2>2. ASSUME NEW r \in Runner, Begin(r) PROVE [Promise!Next]_(Promise!vars)
    BY <2>2, PromiseBegin DEF Promise!Next
  <2> QED
    BY <2>1, <2>2, PromiseWire, PromiseEvent, PromiseOutside DEF Next, Handle
<1> QED
  BY <1>1, <1>2, Inductive, DeadInvariant, PTL DEF Spec, KeepsPromise, Promise!Spec

=============================================================================
