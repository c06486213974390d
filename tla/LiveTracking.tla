---------------------------- MODULE LiveTracking ----------------------------
(***************************************************************************)
(* What the platform believes about a delivered package at one partner:    *)
(* the live binding (E-4), kept by the chain of delivery.poll jobs, by the *)
(* partner's webhooks, by staff evidence and by takedowns, and watched by  *)
(* the reconciler.  A behaviour starts where Delivery recorded DELIVERED.  *)
(*                                                                         *)
(* A run is one execution of a delivery.poll or delivery.takedown handler; *)
(* what it asked the partner is in its hands until it is recorded, while   *)
(* other runs, webhooks and staff write the same binding.                  *)
(***************************************************************************)
EXTENDS Integers, FiniteSets

CONSTANTS Runner,    \* handler runs under way at once
          MaxPolls,  \* MAX_POLLS, 56 in the code
          MaxTries,  \* operations.jobs.max_attempts
          Events,    \* kinds of event this partner calls back with
          CanStatus, \* capabilities().get_release_status
          CanInquire,\* capabilities().inquire_submission
          Takedowns, \* bound: whether a takedown is asked for
          Nobody

EventKind == {"ACCEPTED", "REJECTED", "LIVE", "TAKEN_DOWN"}

ASSUME LiveTrackingAssumption ==
    /\ MaxPolls \in Nat /\ MaxTries \in Nat \ {0}
    /\ Events \subseteq EventKind
    /\ {CanStatus, CanInquire, Takedowns} \subseteq BOOLEAN
    /\ Nobody \notin Runner

VARIABLES
    status,   \* status of the delivery job
    binding,  \* live_status of its row of execution.live_bindings
    rid,      \* the binding's partner_release_id is known
    acked,    \* an attempt's response holds an ack event
    cases,    \* open reconciliation cases
    polls,    \* the delivery.poll rows of operations.jobs, by poll_no
    takedown, \* the delivery.takedown row
    run,      \* the handler runs
    evidence, \* staff evidence queued (delivery.mark_live, mark_taken_down)
    dsp,      \* the release at the partner
    asked,    \* the partner was asked to take it down
    mail,     \* events the partner has sent, and sends again
    seen      \* execution.ack_events

vars == <<status, binding, rid, acked, cases, polls, takedown, run, evidence,
          dsp, asked, mail, seen>>

belief == <<status, binding, rid, acked, cases>>
jobs == <<polls, takedown, run>>
partner == <<dsp, asked, mail>>

PollNo == 0..MaxPolls
Answer == {"INGESTING", "LIVE", "REJECTED", "TAKEN_DOWN"}
Row == [status: {"ABSENT", "QUEUED", "RUNNING", "SUCCEEDED", "DEAD_LETTER"},
        tries: 0..MaxTries, by: Runner \cup {Nobody}]
Verdict == {"succeed", "fail", "giveup"}
Run == [kind: {"poll", "takedown"}, n: PollNo, ans: Answer,
        pc: {"idle", "ask", "apply", "next", "record"} \cup Verdict]

Idle == [kind |-> "poll", n |-> 0, ans |-> "INGESTING", pc |-> "idle"]
Absent == [status |-> "ABSENT", tries |-> 0, by |-> Nobody]
Fresh == [status |-> "QUEUED", tries |-> 0, by |-> Nobody]

-----------------------------------------------------------------------------
(* The queue rows of the runs *)

RowOf(r) == IF run[r].kind = "poll" THEN polls[run[r].n] ELSE takedown
Owns(r) == RowOf(r).status = "RUNNING" /\ RowOf(r).by = r

Claimable(row) == row.status = "QUEUED" /\ row.tries < MaxTries
Claimed(row, r) == [status |-> "RUNNING", tries |-> row.tries + 1, by |-> r]
Ended(row, s) == [status |-> s, tries |-> row.tries, by |-> Nobody]
Retried(row) == Ended(row, IF row.tries >= MaxTries THEN "DEAD_LETTER" ELSE "QUEUED")

SetRow(r, row) == IF run[r].kind = "poll"
                  THEN polls' = [polls EXCEPT ![run[r].n] = row] /\ UNCHANGED takedown
                  ELSE takedown' = row /\ UNCHANGED polls

Goto(r, pc) == run' = [run EXCEPT ![r].pc = pc]

Open(kind) == cases' = cases \cup {kind}

Init ==
    /\ status = "DELIVERED" /\ binding = "INGESTING" /\ rid = FALSE
    /\ acked = FALSE /\ cases = {}
    \* the first poll is scheduled after DELIVERED commits, or not if the
    \* sender dies in between
    /\ \E first \in {Fresh, Absent} :
          polls = [n \in PollNo |-> IF n = 0 THEN first ELSE Absent]
    /\ takedown = Absent
    /\ run = [r \in Runner |-> Idle]
    /\ evidence = {}
    /\ dsp = "ingesting" /\ asked = FALSE /\ mail = {} /\ seen = {}

ClaimPoll(r, n) ==
    /\ run[r].pc = "idle" /\ Claimable(polls[n])
    /\ polls' = [polls EXCEPT ![n] = Claimed(@, r)]
    /\ run' = [run EXCEPT ![r] = [Idle EXCEPT !.n = n, !.pc = "ask"]]
    /\ UNCHANGED <<belief, takedown, evidence, partner, seen>>

ClaimTakedown(r) ==
    /\ run[r].pc = "idle" /\ Claimable(takedown)
    /\ takedown' = Claimed(takedown, r)
    /\ run' = [run EXCEPT ![r] = [Idle EXCEPT !.kind = "takedown", !.pc = "ask"]]
    /\ UNCHANGED <<belief, polls, evidence, partner, seen>>

\* The lease of a row runs out and the sweep takes the row back.
ReclaimPoll(n) ==
    /\ polls[n].status = "RUNNING"
    /\ polls' = [polls EXCEPT ![n] = Retried(@)]
    /\ UNCHANGED <<belief, takedown, run, evidence, partner, seen>>

ReclaimTakedown ==
    /\ takedown.status = "RUNNING"
    /\ takedown' = Retried(takedown)
    /\ UNCHANGED <<belief, polls, run, evidence, partner, seen>>

\* The fenced end of a run: refused, it changes nothing.
Finish(r) ==
    /\ run[r].pc \in Verdict
    /\ run' = [run EXCEPT ![r] = Idle]
    /\ \/ ~Owns(r) /\ UNCHANGED <<polls, takedown>>
       \/ Owns(r) /\ run[r].pc = "succeed" /\ SetRow(r, Ended(RowOf(r), "SUCCEEDED"))
       \/ Owns(r) /\ run[r].pc = "giveup" /\ SetRow(r, Ended(RowOf(r), "DEAD_LETTER"))
       \/ Owns(r) /\ run[r].pc = "fail" /\ SetRow(r, Retried(RowOf(r)))
    /\ UNCHANGED <<belief, evidence, partner, seen>>

\* A statement, the adapter or its registry fails: the row is failed.
HandlerError(r) ==
    /\ run[r].pc \in {"ask", "apply", "next", "record"}
    /\ Goto(r, "fail")
    /\ UNCHANGED <<belief, polls, takedown, evidence, partner, seen>>

Crash(r) ==
    /\ run[r].pc # "idle"
    /\ run' = [run EXCEPT ![r] = Idle]
    /\ UNCHANGED <<belief, polls, takedown, evidence, partner, seen>>

-----------------------------------------------------------------------------
(* poll_live and the delivery.poll handler *)

\* What the partner says of the release when asked.
Reply == CASE dsp = "ingesting" -> "INGESTING" [] dsp = "live" -> "LIVE"
           [] dsp = "refused" -> "REJECTED" [] dsp = "removed" -> "TAKEN_DOWN"

\* The release is asked about by the partner's id for it, else the submission.
\* A partner that answers neither ends the chain (or fails the poll, Gated).
Ask(r) ==
    /\ run[r].kind = "poll" /\ run[r].pc = "ask"
    /\ run' = [run EXCEPT ![r].pc = IF (rid /\ CanStatus) \/ CanInquire THEN "apply"
                                    ELSE IF CanStatus THEN "succeed" ELSE "fail",
                          ![r].ans = Reply]
    /\ UNCHANGED <<belief, polls, takedown, evidence, partner, seen>>

\* A definite answer is receipt evidence; "still unknown" and "taken down" are not.
Evidence(ans) == CASE ans \in {"LIVE", "REJECTED"} -> {TRUE}
                   [] ans = "INGESTING" -> BOOLEAN
                   [] ans = "TAKEN_DOWN" -> {FALSE}

\* Mutant of Apply: the answer replaces the binding.
ApplyRaw(r) ==
    /\ run[r].kind = "poll" /\ run[r].pc = "apply"
    /\ binding' = run[r].ans
    /\ Goto(r, "succeed")
    /\ UNCHANGED <<status, rid, acked, cases, polls, takedown, evidence, partner, seen>>

\* Mutant of Apply: a refusal opens no case.
ApplyWithoutCase(r) ==
    /\ run[r].kind = "poll" /\ run[r].pc = "apply"
    /\ status' = IF run[r].ans = "REJECTED" THEN "FAILED" ELSE status
    /\ binding' = IF run[r].ans \in {"LIVE", "TAKEN_DOWN"} THEN run[r].ans ELSE binding
    /\ Goto(r, "succeed")
    /\ UNCHANGED <<rid, acked, cases, polls, takedown, evidence, partner, seen>>

\* Another transaction records the answer, whatever was recorded meanwhile.
Apply(r) ==
    LET ans == run[r].ans
        ingesting == ans = "INGESTING" /\ binding = "INGESTING"
    IN  /\ run[r].kind = "poll" /\ run[r].pc = "apply"
        /\ \E ack \in Evidence(ans) : acked' = (acked \/ ack)
        /\ binding' = IF ans \in {"LIVE", "TAKEN_DOWN"} THEN ans ELSE binding
        /\ rid' = (rid \/ ans = "LIVE")
        /\ IF ans = "REJECTED"
           THEN status' = "FAILED" /\ Open("PARTNER_REJECTED")
           ELSE UNCHANGED <<status, cases>>
        /\ Goto(r, IF ingesting /\ run[r].n < MaxPolls THEN "next" ELSE "succeed")
        /\ UNCHANGED <<polls, takedown, evidence, partner, seen>>

\* schedule_delivery_poll: the next poll has one row, however often it is asked for.
Schedule(r) ==
    LET n == run[r].n + 1
    IN  /\ run[r].pc = "next"
        /\ polls' = [polls EXCEPT ![n] = IF @.status = "ABSENT" THEN Fresh ELSE @]
        /\ Goto(r, "succeed")
        /\ UNCHANGED <<belief, takedown, evidence, partner, seen>>

-----------------------------------------------------------------------------
(* Takedown *)

\* queue_takedowns: one job for a platform not confirmed TAKEN_DOWN.
QueueTakedown ==
    /\ Takedowns /\ status = "DELIVERED" /\ binding # "TAKEN_DOWN"
    /\ takedown.status = "ABSENT"
    /\ takedown' = Fresh
    /\ UNCHANGED <<belief, polls, run, evidence, partner, seen>>

\* The partner accepts; refuses or leaves unknown (permanent); or is unavailable.
CallTakedown(r) ==
    /\ run[r].kind = "takedown" /\ run[r].pc = "ask"
    /\ \/ asked' = TRUE /\ Goto(r, "record")
       \/ asked' \in {asked, TRUE} /\ Goto(r, "giveup")
       \/ asked' = asked /\ Goto(r, "fail")
    /\ UNCHANGED <<belief, polls, takedown, evidence, dsp, mail, seen>>

\* Mutant of RecordTakedown: over a confirmed takedown too.
RecordTakedownOver(r) ==
    /\ run[r].pc = "record"
    /\ binding' = "TAKEDOWN_REQUESTED"
    /\ Goto(r, "succeed")
    /\ UNCHANGED <<status, rid, acked, cases, polls, takedown, evidence, partner, seen>>

RecordTakedown(r) ==
    /\ run[r].pc = "record"
    /\ binding' = IF binding = "TAKEN_DOWN" THEN binding ELSE "TAKEDOWN_REQUESTED"
    /\ Goto(r, "succeed")
    /\ UNCHANGED <<status, rid, acked, cases, polls, takedown, evidence, partner, seen>>

-----------------------------------------------------------------------------
(* The partner, its webhooks and the staff *)

Partner ==
    /\ \/ dsp = "ingesting" /\ dsp' \in {"live", "refused"}
       \/ dsp \in {"ingesting", "live"} /\ asked /\ dsp' = "removed"
    /\ UNCHANGED <<belief, jobs, evidence, asked, mail, seen>>

Report(e) ==
    /\ e \in Events \ mail
    /\ \/ e = "ACCEPTED" /\ dsp \in {"ingesting", "live"}
       \/ e = "LIVE" /\ dsp = "live"
       \/ e = "REJECTED" /\ dsp = "refused"
       \/ e = "TAKEN_DOWN" /\ dsp = "removed"
    /\ mail' = mail \cup {e}
    /\ UNCHANGED <<belief, jobs, evidence, dsp, asked, seen>>

\* apply_ack_event on a DELIVERED job: a late rejection does not undo it.
ApplyAck(e) ==
    /\ e \in mail \ seen
    /\ seen' = seen \cup {e}
    /\ acked' = (acked \/ e # "TAKEN_DOWN")
    /\ binding' = IF e \in {"LIVE", "TAKEN_DOWN"} THEN e ELSE binding
    /\ rid' = (rid \/ e = "LIVE")
    /\ UNCHANGED <<status, cases, jobs, evidence, partner>>

\* Staff report what they see at the partner; the job that records it runs later.
FileEvidence ==
    /\ evidence' = evidence \cup (IF dsp = "live" THEN {"LIVE"}
                                  ELSE IF dsp = "removed" THEN {"TAKEN_DOWN"} ELSE {})
    /\ evidence' # evidence
    /\ UNCHANGED <<belief, jobs, partner, seen>>

RecordEvidence(e) ==
    /\ e \in evidence
    /\ evidence' = evidence \ {e}
    /\ binding' = IF status = "DELIVERED" THEN e ELSE binding
    /\ \E known \in BOOLEAN : rid' = (rid \/ (e = "LIVE" /\ status = "DELIVERED" /\ known))
    /\ UNCHANGED <<status, acked, cases, jobs, partner, seen>>

-----------------------------------------------------------------------------
(* reconcile_org, for what is past its deadline *)

MissingAck == status = "DELIVERED" /\ ~acked

\* Mutant of OverdueLive: an acknowledged delivery is never overdue.
OverdueUnlessAcked == status = "DELIVERED" /\ binding = "INGESTING" /\ ~acked

OverdueLive == status = "DELIVERED" /\ binding = "INGESTING"

ReconcileAck ==
    /\ MissingAck /\ Open("MISSING_ACK")
    /\ UNCHANGED <<status, binding, rid, acked, jobs, evidence, partner, seen>>

ReconcileLive ==
    /\ OverdueLive /\ Open("OVERDUE_LIVE")
    /\ UNCHANGED <<status, binding, rid, acked, jobs, evidence, partner, seen>>

-----------------------------------------------------------------------------
Handle(r) == \/ Ask(r) \/ Apply(r) \/ Schedule(r) \/ CallTakedown(r)
             \/ RecordTakedown(r) \/ Finish(r)

Next ==
    \/ \E r \in Runner : \/ \E n \in PollNo : ClaimPoll(r, n)
                         \/ ClaimTakedown(r) \/ Handle(r) \/ HandlerError(r) \/ Crash(r)
    \/ \E n \in PollNo : ReclaimPoll(n)
    \/ ReclaimTakedown \/ QueueTakedown \/ Partner \/ FileEvidence
    \/ \E e \in Events : Report(e) \/ ApplyAck(e)
    \/ \E e \in {"LIVE", "TAKEN_DOWN"} : RecordEvidence(e)
    \/ ReconcileAck \/ ReconcileLive

Spec == Init /\ [][Next]_vars

\* Handlers end, due jobs are claimed, lost ones swept, and the reconcile pass
\* comes round with deadlines past; a webhook once filed is processed.
Fairness ==
    /\ \A r \in Runner : /\ WF_vars(Handle(r)) /\ WF_vars(ClaimTakedown(r))
                         /\ \A n \in PollNo : WF_vars(ClaimPoll(r, n))
    /\ \A n \in PollNo : WF_vars(ReclaimPoll(n) /\ \A r \in Runner : ~(run[r].n = n /\ Owns(r)))
    /\ WF_vars(ReclaimTakedown /\ \A r \in Runner : ~(run[r].kind = "takedown" /\ Owns(r)))
    /\ WF_vars(ReconcileLive) /\ WF_vars(ReconcileAck)
    /\ \A e \in EventKind : WF_vars(e \in Events /\ ApplyAck(e))

FairSpec == Spec /\ Fairness

-----------------------------------------------------------------------------
\* Every variable has its type, and only events the partner sent were seen.
TypeOK ==
    /\ status \in {"DELIVERED", "FAILED"}
    /\ binding \in {"INGESTING", "LIVE", "TAKEDOWN_REQUESTED", "TAKEN_DOWN"}
    /\ {rid, acked, asked} \subseteq BOOLEAN
    /\ cases \subseteq {"PARTNER_REJECTED", "MISSING_ACK", "OVERDUE_LIVE"}
    /\ polls \in [PollNo -> Row] /\ takedown \in Row
    /\ run \in [Runner -> Run]
    /\ evidence \subseteq {"LIVE", "TAKEN_DOWN"}
    /\ dsp \in {"ingesting", "live", "refused", "removed"}
    /\ mail \subseteq Events /\ seen \subseteq mail

\* "Never move a binding back from LIVE or a takedown state": a poll that learnt
\* nothing new never undoes what a webhook, staff or a takedown recorded while
\* it was asking.
NeverBackToIngesting == [][binding' = "INGESTING" => binding = "INGESTING"]_vars

\* "never over a confirmed TAKEN_DOWN": a takedown repeated, or recorded late,
\* does not reopen one the partner confirmed.
ConfirmedStaysConfirmed ==
    [][binding = "TAKEN_DOWN" => binding' # "TAKEDOWN_REQUESTED"]_vars

\* A delivery that polling fails was refused by the partner, and has its case.
FailedIsRefusal == status = "FAILED" => dsp = "refused" /\ "PARTNER_REJECTED" \in cases

\* "a send retry or poll requeue never double-schedules the same poll": a poll
\* that was done is not run again, though the run that asked for it may be
\* repeated after a crash.
NeverDoubleScheduled ==
    [][\A n \in PollNo : polls[n].status \in {"SUCCEEDED", "DEAD_LETTER"}
                            => polls'[n] = polls[n]]_vars

\* A release that is refused or goes live at the partner never waits unseen:
\* the belief follows, or a case is opened.
OutcomeSurfaces ==
    dsp \in {"live", "refused"} ~> (binding # "INGESTING" \/ cases # {})

=============================================================================
