------------------------------ MODULE Delivery ------------------------------
(***************************************************************************)
(* The send side of distribution execution (execution.rs and the           *)
(* delivery.send handler of operations.rs): one delivery job, that is one  *)
(* frozen package for one partner, the attempts made for it, the queue     *)
(* jobs of kind delivery.send that drive it, the runs of their handler,    *)
(* the partner, its callbacks and the reconciler.                          *)
(*                                                                         *)
(* A run is one execution of the handler.  A lock token (of the queue job, *)
(* of the delivery job) is named by the run it was generated for: "by = r" *)
(* with run r past its lease step says that r's token is in the row.  The  *)
(* queue itself is JobQueue; here a queue job keeps its status, its        *)
(* attempts and its token, and its lease may expire at any time.           *)
(***************************************************************************)
EXTENDS Integers, Sequences, FiniteSets

CONSTANTS Send,        \* delivery.send queue jobs: a settled one is reused for the next
          Runner,      \* runs of the handler that can be under way at once
          MaxAttempts, \* execution.delivery_jobs.max_attempts
          MaxTries,    \* operations.jobs.max_attempts
          Events,      \* kinds of event this partner calls back with
          PlannedId,   \* whether its adapter picks the message id before the call
          Nobody

EventKind == {"ACCEPTED", "REJECTED", "LIVE", "TAKEN_DOWN"}

ASSUME DeliveryAssumption ==
    /\ MaxAttempts \in Nat \ {0} /\ MaxTries \in Nat \ {0}
    /\ Events \subseteq EventKind
    /\ PlannedId \in BOOLEAN
    /\ Nobody \notin Runner /\ Nobody \notin Send

VARIABLES
    job,      \* the row of execution.delivery_jobs
    att,      \* its rows of execution.delivery_attempts, in order of attempt_no
    binding,  \* its row of execution.live_bindings
    cases,    \* its open reconciliation_cases, by kind
    send,     \* its delivery.send rows of operations.jobs
    run,      \* the handler runs
    fanout,   \* delivery.enqueue has created the job and not yet its send job
    polled,   \* the first delivery.poll was scheduled
    gate,     \* execution.delivery_gate_open: staff approval of the route
    ready,    \* what E-1 checks: release, revision, rights epoch, contract, profile
    dsp,      \* what the partner did with the package
    mail,     \* events the partner has sent, and sends again
    seen      \* execution.ack_events

vars == <<job, att, binding, cases, send, run, fanout, polled, gate, ready,
          dsp, mail, seen>>

\* What the partner and its callbacks hold, and what a run never writes.
outside == <<gate, ready, mail, seen>>

Live == {"QUEUED", "LEASED", "SENDING"}
Settled == {"DELIVERED", "FAILED", "AWAITING_RECONCILIATION", "DEAD_LETTER"}
Unresolved == {"IN_FLIGHT", "UNKNOWN"}
CaseKind == {"SENT_UNKNOWN", "PARTNER_REJECTED", "MISSING_ACK", "OVERDUE_LIVE"}

Job == [status: {"ABSENT"} \cup Live \cup Settled, attempts: 0..MaxAttempts,
        by: Runner \cup {Nobody}, leased: BOOLEAN]

\* "id": the row carries a partner message id.  "acked": its response holds an
\* ack event.  "got" is history: the partner received this send.
Attempt == [out: {"IN_FLIGHT", "ACCEPTED", "REJECTED", "UNKNOWN"},
            id: BOOLEAN, acked: BOOLEAN, got: BOOLEAN]

SendJob == [status: {"ABSENT", "QUEUED", "RUNNING", "SUCCEEDED", "DEAD_LETTER"},
            tries: 0..MaxTries, by: Runner \cup {Nobody}]

\* "prepare" to "sent" hold a delivery lease; the last four are how the
\* handler is about to finish its queue job.
Leasing == {"prepare", "send", "wire", "sent"}
Verdict == {"succeed", "fail", "giveup", "park"}
Run == [pc: {"idle", "start", "blocked", "poll"} \cup Leasing \cup Verdict,
        send: Send \cup {Nobody}, no: 0..MaxAttempts]

Idle == [pc |-> "idle", send |-> Nobody, no |-> 0]

-----------------------------------------------------------------------------
(* Rows and fences *)

\* Mutant of Alive: a dead-lettered send job still counts.
AliveUnlessDone(s) == send[s].status \notin {"ABSENT", "SUCCEEDED"}

Alive(s) == send[s].status \in {"QUEUED", "RUNNING"}

\* The queue job's fence: its token is this run's.
Owns(r) == send[run[r].send].status = "RUNNING" /\ send[run[r].send].by = r

\* job_lease_ok: the delivery job's token is this run's, unexpired.
LeaseOk(r) == job.by = r /\ job.leased /\ job.status \in {"LEASED", "SENDING"}

\* The WHERE clause of set_job_status: token and lease, whatever the status.
Fence(r) == job.by = r /\ job.leased

Leasable == /\ job.attempts < MaxAttempts
            /\ \/ job.status = "QUEUED"
               \/ job.status \in {"LEASED", "SENDING"} /\ ~job.leased
            /\ gate

Unlocked(status, attempts) ==
    [status |-> status, attempts |-> attempts, by |-> Nobody, leased |-> FALSE]

\* set_job_status with a terminal status, which clears the lock.
Settle(status) == job' = Unlocked(status, job.attempts)

Open(kind) == cases' = cases \cup {kind}

Goto(r, pc) == run' = [run EXCEPT ![r].pc = pc]

\* Mutant of HasUnresolved: an attempt left in flight is overlooked.
HasUnknown == \E k \in DOMAIN att : att[k].out = "UNKNOWN"

HasUnresolved == \E k \in DOMAIN att : att[k].out \in Unresolved

Queued(s) == send' = [send EXCEPT ![s] = [status |-> "QUEUED", tries |-> 0, by |-> Nobody]]

-----------------------------------------------------------------------------
Init ==
    /\ job = Unlocked("ABSENT", 0)
    /\ att = <<>> /\ binding = "NONE" /\ cases = {}
    /\ send = [s \in Send |-> [status |-> "ABSENT", tries |-> 0, by |-> Nobody]]
    /\ run = [r \in Runner |-> Idle]
    /\ fanout = FALSE /\ polled = FALSE
    /\ gate = TRUE /\ ready = TRUE
    /\ dsp = "none" /\ mail = {} /\ seen = {}

\* delivery.enqueue, first transaction: approvals are re-read under FOR SHARE
\* and the job is created unless it exists.
CreateJob ==
    /\ job.status = "ABSENT" /\ gate
    /\ job' = Unlocked("QUEUED", 0)
    /\ fanout' = TRUE
    /\ UNCHANGED <<att, binding, cases, send, run, polled, dsp, outside>>

\* Its second transaction queues the send job ...
FanOut(s) ==
    /\ fanout /\ ~Alive(s)
    /\ fanout' = FALSE
    /\ Queued(s)
    /\ UNCHANGED <<job, att, binding, cases, run, polled, dsp, outside>>

\* ... unless the handler dies first: its retry inserts no job and queues none.
FanOutLost ==
    /\ fanout
    /\ fanout' = FALSE
    /\ UNCHANGED <<job, att, binding, cases, send, run, polled, dsp, outside>>

\* Staff put the route on hold, or approve it again.
Review ==
    /\ gate' = ~gate
    /\ UNCHANGED <<job, att, binding, cases, send, run, fanout, polled, ready, dsp, mail, seen>>

\* The release moves on: new revision, rights epoch, contract end, profile off.
Drift ==
    /\ ready
    /\ ready' = FALSE
    /\ UNCHANGED <<job, att, binding, cases, send, run, fanout, polled, gate, dsp, mail, seen>>

-----------------------------------------------------------------------------
(* The queue job of a run *)

Claim(r) ==
    /\ run[r].pc = "idle"
    /\ \E s \in Send :
          /\ send[s].status = "QUEUED" /\ send[s].tries < MaxTries
          /\ send' = [send EXCEPT ![s] = [status |-> "RUNNING", tries |-> @.tries + 1, by |-> r]]
          /\ run' = [run EXCEPT ![r] = [pc |-> "start", send |-> s, no |-> 0]]
    /\ UNCHANGED <<job, att, binding, cases, fanout, polled, dsp, outside>>

\* The queue job's lease runs out and the sweep takes it back.
Reclaim(s) ==
    /\ send[s].status = "RUNNING"
    /\ send' = [send EXCEPT ![s] = [status |-> IF @.tries >= MaxTries THEN "DEAD_LETTER" ELSE "QUEUED",
                                    tries |-> @.tries, by |-> Nobody]]
    /\ UNCHANGED <<job, att, binding, cases, run, fanout, polled, dsp, outside>>

\* succeed, fail or park, fenced; a refusal ends the run just as well, the
\* worker's own fail being fenced in the same way.
Finish(r) ==
    LET s == run[r].send
        tries == send[s].tries
        Put(status, n) == send' = [send EXCEPT ![s] = [status |-> status, tries |-> n, by |-> Nobody]]
    IN  /\ run[r].pc \in Verdict
        /\ run' = [run EXCEPT ![r] = Idle]
        /\ \/ ~Owns(r) /\ UNCHANGED send
           \/ Owns(r) /\ run[r].pc = "succeed" /\ Put("SUCCEEDED", tries)
           \/ Owns(r) /\ run[r].pc = "giveup" /\ Put("DEAD_LETTER", tries)
           \/ Owns(r) /\ run[r].pc = "park" /\ Put("QUEUED", 0)
           \/ Owns(r) /\ run[r].pc = "fail"
              /\ Put(IF tries >= MaxTries THEN "DEAD_LETTER" ELSE "QUEUED", tries)
        /\ UNCHANGED <<job, att, binding, cases, fanout, polled, dsp, outside>>

\* A statement fails or the reply of one is lost: the worker's fallback fails
\* the queue job.
HandlerError(r) ==
    /\ run[r].pc \notin {"idle", "fail"}
    /\ Goto(r, "fail")
    /\ UNCHANGED <<job, att, binding, cases, send, fanout, polled, dsp, outside>>

\* The process dies, or the queue job's heartbeat is refused.
Crash(r) ==
    /\ run[r].pc # "idle"
    /\ run' = [run EXCEPT ![r] = Idle]
    /\ UNCHANGED <<job, att, binding, cases, send, fanout, polled, dsp, outside>>

\* Shutdown: the queue job goes back without its attempt.
HandBack(r) ==
    /\ run[r].pc # "idle" /\ Owns(r)
    /\ run' = [run EXCEPT ![r] = Idle]
    /\ send' = [send EXCEPT ![run[r].send] = [status |-> "QUEUED", tries |-> @.tries - 1, by |-> Nobody]]
    /\ UNCHANGED <<job, att, binding, cases, fanout, polled, dsp, outside>>

-----------------------------------------------------------------------------
(* E-0: the lease of the delivery job *)

Lease(r) ==
    /\ run[r].pc = "start" /\ Leasable
    /\ job' = [status |-> "LEASED", attempts |-> job.attempts + 1, by |-> r, leased |-> TRUE]
    /\ Goto(r, "prepare")
    /\ UNCHANGED <<att, binding, cases, send, fanout, polled, dsp, outside>>

LeaseRefused(r) ==
    /\ run[r].pc = "start" /\ ~Leasable
    /\ Goto(r, "blocked")
    /\ UNCHANGED <<job, att, binding, cases, send, fanout, polled, dsp, outside>>

\* delivery_lease_blocked: why not, in a later transaction.
Blocked(r) ==
    /\ run[r].pc = "blocked"
    /\ \/ job.status \in Settled /\ Goto(r, "succeed") /\ UNCHANGED job
       \/ /\ job.status \in Live /\ job.attempts >= MaxAttempts
          /\ Settle("DEAD_LETTER")
          /\ Goto(r, "giveup")
       \/ /\ job.status \in Live /\ job.attempts < MaxAttempts
          /\ Goto(r, IF gate \/ (job.status # "QUEUED" /\ job.leased) THEN "park" ELSE "succeed")
          /\ UNCHANGED job
    /\ UNCHANGED <<att, binding, cases, send, fanout, polled, dsp, outside>>

\* Nobody renews the lease in time.
LeaseExpires ==
    /\ job.leased
    /\ job' = [job EXCEPT !.leased = FALSE]
    /\ UNCHANGED <<att, binding, cases, send, run, fanout, polled, dsp, outside>>

\* The renewal beside the send is refused and the send is cancelled where it is;
\* or job_lease_ok says no, and the run ends in Conflict.
Cancel(r) ==
    /\ run[r].pc \in Leasing /\ ~LeaseOk(r)
    /\ Goto(r, "fail")
    /\ UNCHANGED <<job, att, binding, cases, send, fanout, polled, dsp, outside>>

\* release_delivery_lease: no adapter for the partner (the send job is given
\* up), or, found under the lease, no send capability (it is retried).
Release(r) ==
    /\ run[r].pc = "prepare"
    /\ job' = IF job.by = r
              THEN Unlocked("QUEUED", IF job.attempts = 0 THEN 0 ELSE job.attempts - 1)
              ELSE job
    /\ (Goto(r, "giveup") \/ (LeaseOk(r) /\ Goto(r, "fail")))
    /\ UNCHANGED <<att, binding, cases, send, fanout, polled, dsp, outside>>

-----------------------------------------------------------------------------
(* E-1 and E-2: freshness, materialize, verify storage, validate *)

\* A storage or database hiccup: requeue_delivery_job keeps the attempt.
Transient(r) ==
    /\ run[r].pc \in {"prepare", "send"}
    /\ job' = IF job.by = r /\ job.status \in {"LEASED", "SENDING"}
              THEN Unlocked("QUEUED", job.attempts) ELSE job
    /\ Goto(r, "fail")
    /\ UNCHANGED <<att, binding, cases, send, fanout, polled, dsp, outside>>

\* A verdict on the package: fail_job, which a lost lease turns into Conflict.
\* The E-2 checks of files open no case, the others do.
Refuse(r) ==
    /\ run[r].pc \in {"prepare", "send"}
    /\ \/ /\ Fence(r)
          /\ Settle("FAILED")
          /\ \/ Open("PARTNER_REJECTED")
             \/ run[r].pc = "prepare" /\ UNCHANGED cases
          /\ \E pc \in {"giveup", "fail"} : Goto(r, pc)
       \/ ~Fence(r) /\ Goto(r, "fail") /\ UNCHANGED <<job, cases>>
    /\ UNCHANGED <<att, binding, send, fanout, polled, dsp, outside>>

Prepared(r) ==
    /\ run[r].pc = "prepare" /\ LeaseOk(r) /\ ready
    /\ Goto(r, "send")
    /\ UNCHANGED <<job, att, binding, cases, send, fanout, polled, dsp, outside>>

-----------------------------------------------------------------------------
(* E-3: the send *)

\* Mutant of Park: no case is opened.
ParkSilently(r) ==
    /\ run[r].pc = "send" /\ LeaseOk(r) /\ ready /\ HasUnresolved
    /\ Settle("AWAITING_RECONCILIATION")
    /\ Goto(r, "succeed")
    /\ UNCHANGED <<att, binding, cases, send, fanout, polled, dsp, outside>>

\* An earlier run may have reached the partner: never send again.
Park(r) ==
    /\ run[r].pc = "send" /\ LeaseOk(r) /\ ready /\ HasUnresolved
    /\ Settle("AWAITING_RECONCILIATION")
    /\ Open("SENT_UNKNOWN")
    /\ Goto(r, "succeed")
    /\ UNCHANGED <<att, binding, send, fanout, polled, dsp, outside>>

\* Mutant of Begin: the freshness check is not repeated.
BeginUnchecked(r) ==
    /\ run[r].pc = "send" /\ LeaseOk(r) /\ ~HasUnresolved
    /\ att' = Append(att, [out |-> "IN_FLIGHT", id |-> PlannedId, acked |-> FALSE, got |-> FALSE])
    /\ job' = [job EXCEPT !.status = "SENDING"]
    /\ run' = [run EXCEPT ![r].pc = "wire", ![r].no = Len(att) + 1]
    /\ UNCHANGED <<binding, cases, send, fanout, polled, dsp, outside>>

\* The attempt and SENDING commit before the call.
Begin(r) ==
    /\ run[r].pc = "send" /\ LeaseOk(r) /\ ready /\ ~HasUnresolved
    /\ att' = Append(att, [out |-> "IN_FLIGHT", id |-> PlannedId, acked |-> FALSE, got |-> FALSE])
    /\ job' = [job EXCEPT !.status = "SENDING"]
    /\ run' = [run EXCEPT ![r].pc = "wire", ![r].no = Len(att) + 1]
    /\ UNCHANGED <<binding, cases, send, fanout, polled, dsp, outside>>

\* The partner receives the package.
Transmit(r) ==
    /\ run[r].pc = "wire"
    /\ att' = [att EXCEPT ![run[r].no] = [@ EXCEPT !.got = TRUE]]
    /\ dsp' = IF dsp = "none" THEN "ingesting" ELSE dsp
    /\ Goto(r, "sent")
    /\ UNCHANGED <<job, binding, cases, send, fanout, polled, outside>>

\* The answer is recorded in one transaction with the job, and rolled back
\* with it (Conflict) when the lease is gone.
Lost(r) == Goto(r, "fail") /\ UNCHANGED <<job, att, binding, cases>>

\* The answer replaces the response, and an ack event in it.
Answered(r, out) ==
    [att EXCEPT ![run[r].no] = [@ EXCEPT !.out = out, !.acked = FALSE]]

Accepted(r) ==
    /\ run[r].pc = "sent"
    /\ IF Fence(r)
       THEN /\ att' = [att EXCEPT ![run[r].no] =
                            [@ EXCEPT !.out = "ACCEPTED", !.id = TRUE, !.acked = FALSE]]
            /\ Settle("DELIVERED")
            /\ binding' = "INGESTING"
            /\ Goto(r, "poll")
            /\ UNCHANGED cases
       ELSE Lost(r)
    /\ UNCHANGED <<send, fanout, polled, dsp, outside>>

Rejected(r) ==
    /\ run[r].pc = "sent" /\ dsp = "ingesting"
    /\ dsp' = "refused"
    /\ IF Fence(r)
       THEN /\ att' = Answered(r, "REJECTED")
            /\ Settle("FAILED")
            /\ Open("PARTNER_REJECTED")
            /\ Goto(r, "giveup")
            /\ UNCHANGED binding
       ELSE Lost(r)
    /\ UNCHANGED <<send, fanout, polled, outside>>

\* Mutant of Unavailable: the attempt is given back.
UnavailableRefunded(r) ==
    /\ run[r].pc = "wire"
    /\ IF job.by = r
       THEN /\ att' = Answered(r, "REJECTED")
            /\ job' = Unlocked("QUEUED", job.attempts - 1)
            /\ UNCHANGED <<binding, cases>>
            /\ Goto(r, "fail")
       ELSE Lost(r)
    /\ UNCHANGED <<send, fanout, polled, dsp, outside>>

\* Certainly not received: the job is queued again, fenced by the token alone.
Unavailable(r) ==
    /\ run[r].pc = "wire"
    /\ IF job.by = r
       THEN /\ att' = Answered(r, "REJECTED")
            /\ job' = Unlocked("QUEUED", job.attempts)
            /\ UNCHANGED <<binding, cases>>
            /\ Goto(r, "fail")
       ELSE Lost(r)
    /\ UNCHANGED <<send, fanout, polled, dsp, outside>>

\* A timeout, an unknown state or an error of the adapter.
Unknown(r) ==
    /\ run[r].pc \in {"wire", "sent"}
    /\ IF Fence(r)
       THEN /\ att' = Answered(r, "UNKNOWN")
            /\ Settle("AWAITING_RECONCILIATION")
            /\ Open("SENT_UNKNOWN")
            /\ Goto(r, "succeed")
            /\ UNCHANGED binding
       ELSE Lost(r)
    /\ UNCHANGED <<send, fanout, polled, dsp, outside>>

\* After DELIVERED the handler schedules the first poll, in a transaction of
\* its own.
SchedulePoll(r) ==
    /\ run[r].pc = "poll"
    /\ polled' = TRUE
    /\ Goto(r, "succeed")
    /\ UNCHANGED <<job, att, binding, cases, send, fanout, dsp, outside>>

-----------------------------------------------------------------------------
(* The partner and its callbacks *)

\* The partner ingests the package, takes it live or refuses it, and says so.
Partner(e) ==
    /\ e \in Events \ mail
    /\ \/ e = "ACCEPTED" /\ dsp \in {"ingesting", "live"} /\ UNCHANGED dsp
       \/ e = "LIVE" /\ dsp = "ingesting" /\ dsp' = "live"
       \/ e = "REJECTED" /\ dsp = "ingesting" /\ dsp' = "refused"
       \/ e = "TAKEN_DOWN" /\ dsp = "live" /\ dsp' = "removed"
    /\ mail' = mail \cup {e}
    /\ UNCHANGED <<job, att, binding, cases, send, run, fanout, polled, gate, ready, seen>>

\* The attempts an event can be matched to: it carries the partner's message id
\* of a send it received.
Matched == {k \in DOMAIN att : att[k].id /\ att[k].got}

\* A LIVE event is proof of receipt for the latest send that has an id.
Latest == {k \in DOMAIN att : att[k].id /\ \A l \in DOMAIN att : att[l].id => l <= k}

\* Mutant of Unanswered: a late event undoes an answer.
NotFailed == job.status \in {"SENDING", "AWAITING_RECONCILIATION", "DELIVERED"}

\* An event settles only a send still in flight, or one nobody knows of.
Unanswered == job.status \in {"SENDING", "AWAITING_RECONCILIATION"}

\* apply_ack_event: once per event id; an event that matches no attempt is
\* dropped and changes nothing, one already seen likewise.
ApplyAck(e) ==
    /\ e \in mail \ seen /\ Matched # {}
    /\ seen' = seen \cup {e}
    /\ \E k \in IF e = "LIVE" THEN Latest ELSE Matched :
          att' = IF e = "TAKEN_DOWN" THEN att ELSE [att EXCEPT ![k] = [@ EXCEPT !.acked = TRUE]]
    /\ job' = IF Unanswered /\ e \in {"ACCEPTED", "REJECTED"}
              THEN [job EXCEPT !.status = IF e = "ACCEPTED" THEN "DELIVERED" ELSE "FAILED"]
              ELSE job
    /\ binding' = CASE e = "LIVE" -> "LIVE"
                    [] e = "TAKEN_DOWN" /\ binding # "NONE" -> "TAKEN_DOWN"
                    [] OTHER -> binding
    /\ UNCHANGED <<cases, send, run, fanout, polled, gate, ready, dsp, mail>>

-----------------------------------------------------------------------------
(* E-5: the reconciler *)

\* A delivery that has not started a wire send and that no send job drives.
Stalled == /\ job.attempts < MaxAttempts
           /\ job.status = "QUEUED" \/ (job.status = "LEASED" /\ ~job.leased)
           /\ gate
           /\ \A s \in Send : ~Alive(s)

MissingAck == job.status = "DELIVERED" /\ \A k \in DOMAIN att : ~att[k].acked
OverdueLive == job.status = "DELIVERED" /\ binding = "INGESTING"

\* reconcile_org: cases for what is past its deadline, then repair_stalled_sends
\* queues a stalled send again, in one transaction.
Reconcile ==
    /\ \E due \in SUBSET {"MISSING_ACK", "OVERDUE_LIVE"} :
          /\ "MISSING_ACK" \in due => MissingAck
          /\ "OVERDUE_LIVE" \in due => OverdueLive
          /\ cases' = cases \cup due
    /\ IF Stalled
       THEN /\ job' = Unlocked("QUEUED", job.attempts)
            /\ \E s \in Send : Queued(s)
       ELSE UNCHANGED <<job, send>>
    /\ UNCHANGED <<att, binding, run, fanout, polled, dsp, outside>>

-----------------------------------------------------------------------------
Handle(r) ==
    \/ Finish(r) \/ Lease(r) \/ LeaseRefused(r) \/ Blocked(r)
    \/ Release(r) \/ Transient(r) \/ Refuse(r) \/ Prepared(r) \/ Park(r) \/ Begin(r)
    \/ Transmit(r) \/ Accepted(r) \/ Rejected(r) \/ Unavailable(r) \/ Unknown(r)
    \/ SchedulePoll(r)

Next ==
    \/ CreateJob \/ FanOutLost \/ Review \/ Drift \/ LeaseExpires \/ Reconcile
    \/ \E s \in Send : FanOut(s) \/ Reclaim(s)
    \/ \E r \in Runner : Claim(r) \/ Handle(r) \/ HandlerError(r) \/ Crash(r)
                         \/ HandBack(r) \/ Cancel(r)
    \/ \E e \in Events : Partner(e) \/ ApplyAck(e)

Spec == Init /\ [][Next]_vars

\* A run goes on to its end: every statement and every partner call has a
\* timeout.  A worker that crashes or is shut down every single time before its
\* lease is decided is not considered.  The queue's sweep comes round, and the
\* scheduled reconcile pass comes round while there is a delivery to repair.
Fairness ==
    /\ WF_vars(\E r \in Runner : Claim(r) \/ Handle(r))
    /\ SF_vars(\E r \in Runner : Lease(r) \/ Blocked(r))
    /\ WF_vars(\E s \in Send : Reclaim(s) /\ \A r \in Runner : ~(run[r].send = s /\ Owns(r)))
    /\ WF_vars(Stalled /\ Reconcile)

FairSpec == Spec /\ Fairness

-----------------------------------------------------------------------------
TypeOK ==
    /\ job \in Job
    /\ att \in Seq(Attempt) /\ Len(att) <= MaxAttempts
    /\ binding \in {"NONE", "INGESTING", "LIVE", "TAKEDOWN_REQUESTED", "TAKEN_DOWN"}
    /\ cases \subseteq CaseKind
    /\ send \in [Send -> SendJob]
    /\ run \in [Runner -> Run]
    /\ fanout \in BOOLEAN /\ polled \in BOOLEAN /\ gate \in BOOLEAN /\ ready \in BOOLEAN
    /\ dsp \in {"none", "ingesting", "live", "refused", "removed"}
    /\ mail \subseteq Events /\ seen \subseteq mail

\* Zero duplicate sends: through crashes, expired leases, overlapping runs and lost
\* answers, the partner receives the package at most once.
NoDuplicateSend ==
    \A k, l \in DOMAIN att : att[k].got /\ att[l].got => k = l

\* A new attempt opens only for the current release, and only when every
\* earlier one is known not to have been received.
SendsOnlyWhenClear ==
    [][Len(att') > Len(att) => ready /\ \A k \in DOMAIN att : att[k].out = "REJECTED"]_vars

\* A job that awaits reconciliation has its SENT_UNKNOWN case and the attempt
\* whose outcome nobody knows.
UnknownParked ==
    job.status = "AWAITING_RECONCILIATION" => "SENT_UNKNOWN" \in cases /\ HasUnresolved

\* Wire calls are paid for by leases, however many are handed back or lost: a
\* package is never put on the wire more than max_attempts times.
WireBudget == Len(att) <= job.attempts

\* A settled delivery is never queued, leased or sent again, by a late run, a
\* second send job, the reconciler or an event.
NeverReopened == [][job.status \in Settled => job'.status \in Settled]_vars

\* What a delivery's rows say of it, without the machinery that drives it.
Phase == CASE job.status \in Live -> "OPEN"
           [] job.status = "AWAITING_RECONCILIATION" -> "UNKNOWN"
           [] job.status = "DEAD_LETTER" -> "DEAD"
           [] OTHER -> job.status

Received == {k \in DOMAIN att : att[k].got}

Promise == INSTANCE DeliveryPromise WITH
               phase <- Phase, tries <- Len(att), out <- HasUnresolved, received <- Received

\* A second lease beside a run still on the wire, a send job driven again,
\* crashes, a refusal called back under its sender or after its answer, and the
\* reconciler keep the promise of one delivery: one attempt at a time, none after
\* one that may have been received, no closed delivery opened again, and no
\* answer undone by an event.
KeepsPromise == Promise!Spec

\* A queued delivery with an attempt left and an open gate never waits for ever:
\* a lost fan-out or a dead send job is repaired by the reconciler.
StalledSendRepaired ==
    (job.status = "QUEUED" /\ job.attempts < MaxAttempts /\ gate)
        ~> (job.status # "QUEUED" \/ ~gate)

=============================================================================
