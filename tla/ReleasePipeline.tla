-------------------------- MODULE ReleasePipeline --------------------------
(***************************************************************************)
(* One release from submission to its first send: the artist, the stage 1, *)
(* 2 and 3 handlers of the worker, the staff who review it, its agreement  *)
(* and its rights epoch (submission.rs, review.rs, distribution.rs,        *)
(* staff.rs, rights_grants.rs, withdraw.rs, portal.rs).                    *)
(*                                                                         *)
(* A handler works outside transactions and may lose its lease at any      *)
(* moment, so two runs of one job, or runs of jobs of two revisions, meet  *)
(* in the database.  What the checks find in a file is a free choice of    *)
(* the verdict; the queue's own rows are those of JobQueue, reduced to     *)
(* what a handler can see of them.                                         *)
(***************************************************************************)
EXTENDS Integers, FiniteSets

CONSTANTS MaxRevisions,  \* bound: applications submitted for the release
          MaxTries,      \* operations.jobs.max_attempts
          MaxEpoch,      \* bound: rights facts recorded for the release
          MaxFaults      \* bound: runs that fail, stop or lose their lease

ASSUME PipelineAssumption ==
    /\ MaxRevisions \in Nat \ {0}
    /\ MaxTries \in Nat \ {0}
    /\ MaxEpoch \in Nat
    /\ MaxFaults \in Nat

VARIABLES
    status,     \* catalog.releases.status
    current,    \* catalog.releases.current_revision_id, by revision number
    job,        \* operations.jobs of the pipeline
    runs,       \* handler runs in progress
    faults,     \* runs that failed, stopped or lost their lease so far
    validated,  \* revisions with a validation package
    pinned,     \* rights epoch in each revision's verification package
    frozen,     \* revisions with a frozen distribution package
    prepared,   \* revisions with preparation artifacts
    epoch,      \* rights.rights_epochs
    agreement,  \* status of the AGREEMENT document in portal.documents
    delivery    \* delivery.enqueue, then delivery_jobs, of each revision's package

vars == <<status, current, job, runs, faults, validated, pinned, frozen, prepared,
          epoch, agreement, delivery>>

queue == <<job, runs, faults>>
packages == <<validated, pinned, frozen, prepared>>
papers == <<agreement, delivery>>

Revision == 1 .. MaxRevisions
None == -1

Editable == {"DRAFT", "STAGE1_CORRECTION", "STAGE2_CORRECTION", "STAGE3_CORRECTION"}

\* The stages a worker has under way.
Owned == {"STAGE1_RUNNING", "STAGE2_RUNNING", "STAGE3_PREPARING"}

Withdrawable == {"STAGE1_CORRECTION", "STAGE2_CORRECTION", "STAGE3_CORRECTION",
                 "STAGE2_REVIEW", "READY_FOR_DELIVERY"}

\* operations.allowed_transitions as the migrations leave it, without the
\* states no code of the repository moves a release to.
Transitions ==
    {<<from, "SUBMITTED">> : from \in Editable}
    \cup {<<from, "WITHDRAWN">> : from \in Withdrawable \cup {"SUBMITTED"}}
    \cup {<<"SUBMITTED", "STAGE1_RUNNING">>,
          <<"STAGE1_RUNNING", "STAGE1_CORRECTION">>, <<"STAGE1_RUNNING", "STAGE1_PASSED">>,
          <<"STAGE1_PASSED", "STAGE2_RUNNING">>, <<"STAGE2_REVIEW", "STAGE2_RUNNING">>,
          <<"STAGE2_RUNNING", "STAGE2_REVIEW">>, <<"STAGE2_RUNNING", "STAGE2_CORRECTION">>,
          <<"STAGE2_RUNNING", "STAGE2_PASSED">>, <<"STAGE2_PASSED", "STAGE3_PREPARING">>,
          <<"STAGE3_PREPARING", "STAGE3_CORRECTION">>, <<"STAGE3_PREPARING", "READY_FOR_DELIVERY">>,
          <<"STAGE3_CORRECTION", "STAGE3_PREPARING">>, <<"READY_FOR_DELIVERY", "STAGE3_CORRECTION">>}

ReleaseStatus == {e[1] : e \in Transitions} \cup {e[2] : e \in Transitions}

\* guard_pipeline: a changed status must be an allowed transition, an
\* unchanged one always passes; otherwise the statement raises.
Reachable(from, to) == from = to \/ <<from, to>> \in Transitions

\* "again" stands for the re-evaluations overrides queue, a key each: a bound
\* of one that has not settled.
Stage2Kinds == {"stage2", "again"}
JobKind == {"stage1", "prepare"} \cup Stage2Kinds
JobId == [kind: JobKind, rev: Revision]
Key(kind, rev) == [kind |-> kind, rev |-> rev]

Row == [st: {"ABSENT", "QUEUED", "RUNNING", "SETTLED"}, tries: 0 .. MaxTries]

\* A run: its job, whether the job's lock token is still its own, and the
\* transaction it comes to next.
Run == [job: JobId, held: BOOLEAN, pc: {"check", "freeze", "publish"}]

AgreementStatus == {"NONE", "REVIEW", "APPROVED", "NEEDS", "SIGNED", "CLOSED"}

DeliveryStatus == {"NONE", "DISPATCH", "QUEUED", "SENDING", "DELIVERED", "FAILED"}

-----------------------------------------------------------------------------
(* The queue as its handlers see it *)

\* ON CONFLICT(idempotency_key) DO NOTHING
Enqueued(k) ==
    IF job[k].st = "ABSENT" THEN [job EXCEPT ![k].st = "QUEUED"] ELSE job

\* A key no job has yet; the settled re-evaluation before it is forgotten.
Requeued(k) == [job EXCEPT ![k] = [st |-> "QUEUED", tries |-> 0]]

Pending(k) == job[k].st \in {"QUEUED", "RUNNING"}

\* The fence of a handler's transaction.
Holds(r) == r.held

SurfaceFrom(kind) ==
    CASE kind = "stage1" -> {"SUBMITTED", "STAGE1_RUNNING"}
      [] kind \in Stage2Kinds -> {"STAGE1_PASSED", "STAGE2_RUNNING"}
      [] kind = "prepare" -> {"STAGE2_PASSED", "STAGE3_PREPARING"}

SurfaceTo(kind) ==
    CASE kind = "stage1" -> "STAGE1_CORRECTION"
      [] kind \in Stage2Kinds -> "STAGE2_REVIEW"
      [] kind = "prepare" -> "STAGE3_CORRECTION"

\* Mutant of Surfaced: only a release whose stage had begun is looked at.
SurfacedIfRunning(k, s) ==
    IF k.rev = current /\ s \in SurfaceFrom(k.kind) /\ s \in Owned
    THEN SurfaceTo(k.kind) ELSE s

\* surface_dead_letter: a release still on this revision and in this stage
\* goes where a person sees it; for any other it does nothing.
Surfaced(k, s) ==
    IF k.rev = current /\ s \in SurfaceFrom(k.kind) THEN SurfaceTo(k.kind) ELSE s

\* Mutant of Reported: the last try is not seen as the last.
ReportedOneMore(k, q, s, out) ==
    LET dead == out = "failed" \/ (out = "retry" /\ q[k].tries > MaxTries)
    IN  /\ job' = [q EXCEPT ![k] = IF out = "retry" /\ ~dead
                                  THEN [@ EXCEPT !.st = "QUEUED"]
                                  ELSE [st |-> "SETTLED", tries |-> 0]]
        /\ status' = IF dead THEN Surfaced(k, s) ELSE s

\* succeed, or retry_or_surface, on top of rows q and release status s: back
\* to the queue, or dead-lettered and surfaced in one transaction.  Settled
\* rows forget their attempts: nothing reads them again.
Reported(k, q, s, out) ==
    LET dead == out = "failed" \/ (out = "retry" /\ q[k].tries = MaxTries)
    IN  /\ job' = [q EXCEPT ![k] = IF out = "retry" /\ ~dead
                                  THEN [@ EXCEPT !.st = "QUEUED"]
                                  ELSE [st |-> "SETTLED", tries |-> 0]]
        /\ status' = IF dead THEN Surfaced(k, s) ELSE s

Fault == faults < MaxFaults /\ faults' = faults + 1

\* A run's last transaction leaves rows q and status s; then it reports.  A
\* worker that stops between the two, or whose lease is over, reports nothing.
Concludes(r, q, s, out) ==
    /\ runs' = runs \ {r}
    /\ \/ Holds(r) /\ Reported(r.job, q, s, out) /\ UNCHANGED faults
       \/ ~Holds(r) /\ job' = q /\ status' = s /\ UNCHANGED faults
       \/ Holds(r) /\ Fault /\ job' = q /\ status' = s

\* A transaction that is not the last.
Continues(r, pc) == runs' = (runs \ {r}) \cup {[r EXCEPT !.pc = pc]}

-----------------------------------------------------------------------------
Init ==
    /\ status = "DRAFT" /\ current = 0
    /\ job = [k \in JobId |-> [st |-> "ABSENT", tries |-> 0]]
    /\ faults = 0
    /\ runs = {} /\ validated = {} /\ frozen = {} /\ prepared = {}
    /\ pinned = [v \in Revision |-> None]
    /\ epoch = 0
    /\ agreement = "NONE"
    /\ delivery = [v \in Revision |-> "NONE"]

-----------------------------------------------------------------------------
(* The artist *)

\* A correction goes back to staff with its agreement: the trigger on status.
Resubmitted == IF status # "DRAFT" /\ agreement = "NEEDS" THEN "REVIEW" ELSE agreement

\* submit with a changed body.  With an unchanged one, or a key seen before,
\* it only enqueues the stage 1 job the revision already has: no change.
Submit ==
    /\ status \in Editable /\ current < MaxRevisions
    /\ status' = "SUBMITTED"
    /\ current' = current + 1
    /\ job' = Enqueued(Key("stage1", current + 1))
    /\ agreement' = Resubmitted
    /\ UNCHANGED <<faults, runs, epoch, delivery, packages>>

\* record_application: a new signed application puts the agreement in review.
RecordApplication ==
    /\ status # "WITHDRAWN"
    /\ agreement \notin {"SIGNED", "CLOSED"}
    /\ agreement' = "REVIEW"
    /\ UNCHANGED <<status, current, epoch, delivery, queue, packages>>

\* A delivery.enqueue job for each package; one that already has delivery
\* jobs gets no others (ON CONFLICT DO NOTHING).
Dispatched(revs) ==
    [v \in Revision |-> IF v \in revs /\ delivery[v] = "NONE"
                        THEN "DISPATCH" ELSE delivery[v]]

LatestPackage == {v \in frozen : \A u \in frozen : u <= v}

\* sign_document: delivery waits for this signature, so E-0 runs once more.
Sign ==
    /\ agreement = "APPROVED"
    /\ agreement' = "SIGNED"
    /\ delivery' = Dispatched(LatestPackage)
    /\ UNCHANGED <<status, current, epoch, queue, packages>>

\* Mutant of Withdraw: the signed agreement is not looked at.
WithdrawSigned ==
    /\ status \in Withdrawable
    /\ status' = "WITHDRAWN"
    /\ agreement' = IF agreement = "NONE" THEN agreement ELSE "CLOSED"
    /\ UNCHANGED <<current, epoch, delivery, queue, packages>>

\* withdraw, by the artist or by staff at the artist's request.  It reads the
\* agreement's row without a lock and closes it later; a signature in between
\* is not modelled.
Withdraw ==
    /\ status \in Withdrawable
    /\ agreement # "SIGNED"
    /\ status' = "WITHDRAWN"
    /\ agreement' = IF agreement = "NONE" THEN agreement ELSE "CLOSED"
    /\ UNCHANGED <<current, epoch, delivery, queue, packages>>

-----------------------------------------------------------------------------
(* The queue: claims, completion, crashes, expired leases *)

Claim(k) ==
    /\ job[k].st = "QUEUED" /\ job[k].tries < MaxTries
    /\ job' = [job EXCEPT ![k] = [st |-> "RUNNING", tries |-> @.tries + 1]]
    /\ runs' = runs \cup {[job |-> k, held |-> TRUE, pc |-> "check"]}
    /\ UNCHANGED <<faults, status, current, epoch, packages, papers>>

\* A run whose lease went to somebody else goes on, unless all it has left is
\* to open a fenced transaction.
Late(r) == r.pc \in IF r.job.kind = "stage1" THEN {"check"} ELSE {"freeze", "publish"}

Expelled(k) ==
    {r \in runs : r.job # k} \cup
    {[r EXCEPT !.held = FALSE] : r \in {q \in runs : q.job = k /\ Late(q)}}

\* reclaim_expired: the holder may be dead, or only slow.
Reclaim(k) ==
    /\ job[k].st = "RUNNING"
    /\ IF \E r \in runs : r.job = k /\ Holds(r) THEN Fault ELSE UNCHANGED faults
    /\ Reported(k, job, status, "retry")
    /\ runs' = Expelled(k)
    /\ UNCHANGED <<current, epoch, packages, papers>>

\* Any handler may end in an error before it commits: storage, a statement
\* the trigger refuses.  A run that lost its lease reports to nobody.
Fail(r) ==
    /\ Holds(r) /\ Fault
    /\ runs' = runs \ {r}
    /\ Reported(r.job, job, status, "retry")
    /\ UNCHANGED <<current, epoch, packages, papers>>

-----------------------------------------------------------------------------
(* run_stage1: no fence, and no look at the release's current revision *)

At(r, kinds, pc) == r.job.kind \in kinds /\ r.pc = pc

Stage1Begun == IF status = "SUBMITTED" THEN "STAGE1_RUNNING" ELSE status

\* A revision that has its package is answered at once.
Stage1Done(r) ==
    /\ At(r, {"stage1"}, "check") /\ r.job.rev \in validated
    /\ Concludes(r, job, status, "ok")
    /\ UNCHANGED <<current, epoch, packages, papers>>

Stage1Retry(r) ==
    /\ At(r, {"stage1"}, "check")
    /\ Concludes(r, job, Stage1Begun, "retry")
    /\ UNCHANGED <<current, epoch, packages, papers>>

Stage1Block(r) ==
    /\ At(r, {"stage1"}, "check")
    /\ Reachable(Stage1Begun, "STAGE1_CORRECTION")
    /\ Concludes(r, job, "STAGE1_CORRECTION", "ok")
    /\ UNCHANGED <<current, epoch, packages, papers>>

\* The package is unique per revision: a second insert raises.
Stage1Pass(r) ==
    /\ At(r, {"stage1"}, "check")
    /\ r.job.rev \notin validated
    /\ Reachable(Stage1Begun, "STAGE1_PASSED")
    /\ validated' = validated \cup {r.job.rev}
    /\ Concludes(r, Enqueued(Key("stage2", r.job.rev)), "STAGE1_PASSED", "ok")
    /\ UNCHANGED <<current, pinned, frozen, prepared, epoch, papers>>

\* The trigger refuses the verdict's status: the statement raises.
Stage1Raise(r) ==
    /\ At(r, {"stage1"}, "check") /\ r.job.rev \notin validated
    /\ \E to \in {"STAGE1_CORRECTION", "STAGE1_PASSED"} : ~Reachable(Stage1Begun, to)
    /\ Concludes(r, job, status, "retry")
    /\ UNCHANGED <<current, epoch, packages, papers>>

-----------------------------------------------------------------------------
(* run_stage2: fenced on the job, under the release's row lock *)

Decidable == {"STAGE1_PASSED", "STAGE2_RUNNING", "STAGE2_REVIEW"}

\* Nothing to decide: a package is pinned, or the release has moved on.
Stage2Skip(r) ==
    /\ At(r, Stage2Kinds, "check") /\ Holds(r)
    /\ \/ pinned[r.job.rev] # None
       \/ r.job.rev # current
       \/ status \notin Decidable
    /\ Concludes(r, job, status, "ok")
    /\ UNCHANGED <<current, epoch, packages, papers>>

Stage2Due(r) ==
    /\ At(r, Stage2Kinds, "check") /\ Holds(r)
    /\ pinned[r.job.rev] = None
    /\ r.job.rev = current /\ status \in Decidable

\* A technical retry keeps STAGE2_RUNNING; a review or a correction parks.
Stage2Hold(r, verdict) ==
    /\ Stage2Due(r)
    /\ Concludes(r, job, verdict, IF verdict = "STAGE2_RUNNING" THEN "retry" ELSE "ok")
    /\ UNCHANGED <<current, epoch, packages, papers>>

\* PASS pins the rights epoch and hands over to stage 3 in one transaction.
Stage2Pass(r) ==
    /\ Stage2Due(r)
    /\ pinned' = [pinned EXCEPT ![r.job.rev] = epoch]
    /\ Concludes(r, Enqueued(Key("prepare", r.job.rev)), "STAGE2_PASSED", "ok")
    /\ UNCHANGED <<current, validated, frozen, prepared, epoch, papers>>

-----------------------------------------------------------------------------
(* run_prepare_release: two fenced transactions around the frozen package *)

PrepareDone(r) ==
    /\ At(r, {"prepare"}, "check") /\ Holds(r)
    /\ r.job.rev \in frozen /\ status = "READY_FOR_DELIVERY"
    /\ Concludes(r, job, status, "ok")
    /\ UNCHANGED <<current, epoch, packages, papers>>

\* Mutant of PrepareDue: a returned release is prepared again, as the table
\* of transitions allows.
PrepareDueReturned(r) ==
    /\ At(r, {"prepare"}, "check") /\ Holds(r)
    /\ status \in {"STAGE2_PASSED", "STAGE3_PREPARING", "STAGE3_CORRECTION"}

\* The first transaction.  It asks for the release's status, not for its
\* revision.
PrepareDue(r) ==
    /\ At(r, {"prepare"}, "check") /\ Holds(r)
    /\ status \in {"STAGE2_PASSED", "STAGE3_PREPARING"}

PrepareBegin(r) ==
    /\ PrepareDue(r) /\ epoch = pinned[r.job.rev]
    /\ status' = "STAGE3_PREPARING"
    /\ Continues(r, "freeze")
    /\ UNCHANGED <<faults, current, job, epoch, packages, papers>>

\* return_to_s2: an epoch moved since stage 2 sends the release back.
PrepareReturn(r) ==
    /\ PrepareDue(r) /\ epoch # pinned[r.job.rev]
    /\ Concludes(r, job, "STAGE3_CORRECTION", "ok")
    /\ UNCHANGED <<current, epoch, packages, papers>>

\* RELEASE_NOT_IN_STAGE3: tried again as long as there are tries.
PrepareRaise(r) ==
    /\ At(r, {"prepare"}, "check") /\ Holds(r)
    /\ ~PrepareDue(r) /\ (r.job.rev \in frozen => status # "READY_FOR_DELIVERY")
    /\ Concludes(r, job, status, "retry")
    /\ UNCHANGED <<current, epoch, packages, papers>>

\* An identifier cannot be issued, or is another release's: no retry helps,
\* and the transaction that met it rolls back.
PrepareRefused(r) ==
    /\ \/ PrepareDue(r) /\ epoch = pinned[r.job.rev]
       \/ At(r, {"prepare"}, "publish") /\ Holds(r)
    /\ Concludes(r, job, status, "failed")
    /\ UNCHANGED <<current, epoch, packages, papers>>

\* freeze_package commits on its own, unfenced; the preflight then rereads
\* the epoch.
PrepareFreeze(r) ==
    /\ At(r, {"prepare"}, "freeze")
    /\ frozen' = frozen \cup {r.job.rev}
    /\ IF epoch = pinned[r.job.rev]
       THEN Continues(r, "publish") /\ UNCHANGED <<job, status, faults>>
       ELSE Concludes(r, job, status, "retry")
    /\ UNCHANGED <<current, validated, pinned, prepared, epoch, papers>>

\* The rows the second transaction's status update moves are not counted.
Published == IF status = "STAGE3_PREPARING" THEN "READY_FOR_DELIVERY" ELSE status

PreparePublish(r) ==
    /\ At(r, {"prepare"}, "publish") /\ Holds(r)
    /\ prepared' = prepared \cup {r.job.rev}
    /\ delivery' = Dispatched({r.job.rev})
    /\ Concludes(r, job, Published, "ok")
    /\ UNCHANGED <<current, validated, pinned, frozen, epoch, agreement>>

-----------------------------------------------------------------------------
(* Staff and reviewers *)

\* The trigger on rights facts: an override or a grant bumps the epoch.
Bump(n) == epoch + n <= MaxEpoch /\ epoch' = epoch + n

\* enqueue_reevaluation: only for a release parked in review, one at a time.
Reevaluate ==
    IF status = "STAGE2_REVIEW" /\ \A a \in Stage2Kinds : job[Key(a, current)].st # "QUEUED"
    THEN ~Pending(Key("again", current)) /\ job' = Requeued(Key("again", current))
    ELSE UNCHANGED job

\* An override of one check, by the organisation's reviewers; at any status
\* once stage 2 has recorded the check.
Override ==
    /\ current > 0 /\ job[Key("stage2", current)].st # "ABSENT"
    /\ Bump(1)
    /\ Reevaluate
    /\ UNCHANGED <<faults, status, current, runs, packages, papers>>

\* decide in STAGE2_REVIEW: the open checks become overrides (none may be
\* open), stage 2 decides again, and a pending agreement is decided with it.
ApproveReview(n) ==
    /\ status = "STAGE2_REVIEW"
    /\ Bump(n)
    /\ Reevaluate
    /\ agreement' = IF agreement = "REVIEW" THEN "APPROVED" ELSE agreement
    /\ UNCHANGED <<faults, status, current, runs, delivery, packages>>

CorrectReview ==
    /\ status = "STAGE2_REVIEW"
    /\ Bump(1)
    /\ Reevaluate
    /\ agreement' = IF agreement = "REVIEW" THEN "NEEDS" ELSE agreement
    /\ UNCHANGED <<faults, status, current, runs, delivery, packages>>

\* decide_application: a release that passed every check waits on staff with
\* its agreement still pending.
ApproveApplication ==
    /\ status = "READY_FOR_DELIVERY" /\ agreement = "REVIEW"
    /\ agreement' = "APPROVED"
    /\ UNCHANGED <<status, current, epoch, delivery, queue, packages>>

CorrectApplication ==
    /\ status = "READY_FOR_DELIVERY" /\ agreement = "REVIEW"
    /\ status' = "STAGE3_CORRECTION"
    /\ agreement' = "NEEDS"
    /\ UNCHANGED <<current, epoch, delivery, queue, packages>>

\* A rejection closes every unsigned agreement of the release.
Reject ==
    /\ \/ status = "STAGE2_REVIEW"
       \/ status = "READY_FOR_DELIVERY" /\ agreement = "REVIEW"
    /\ status' = "WITHDRAWN"
    /\ agreement' = IF agreement \in {"NONE", "SIGNED"} THEN agreement ELSE "CLOSED"
    /\ UNCHANGED <<current, epoch, delivery, queue, packages>>

\* reissue_identifiers: refused once a partner has a job for the package.  The
\* query joins the release of the current revision with its frozen package.
Reissue ==
    /\ status = "READY_FOR_DELIVERY" /\ current \in frozen
    /\ delivery[current] \in {"NONE", "DISPATCH"}
    /\ status' = "STAGE3_CORRECTION"
    /\ UNCHANGED <<current, epoch, queue, packages, papers>>

\* A rights proof is approved: its grants move the epoch, and a release that
\* is ready and not delivered goes back.  The stage 2 job it queues has no
\* validation package: its run fails and surfaces nothing, so it is left out.
RecordGrants ==
    /\ Bump(1)
    /\ IF status = "READY_FOR_DELIVERY" /\ \A v \in Revision : delivery[v] # "DELIVERED"
       THEN status' = "STAGE3_CORRECTION" ELSE UNCHANGED status
    /\ UNCHANGED <<current, queue, packages, papers>>

-----------------------------------------------------------------------------
(* E-0 and E-1, which Delivery models in full *)

\* enqueue_delivery_jobs creates nothing until the agreement is signed.
Dispatch(v) ==
    /\ delivery[v] = "DISPATCH"
    /\ delivery' = [delivery EXCEPT ![v] =
                      IF v \in prepared /\ agreement = "SIGNED" THEN "QUEUED" ELSE "NONE"]
    /\ UNCHANGED <<status, current, epoch, agreement, queue, packages>>

\* freshness_check under the delivery job's lease
Fresh(v) == status = "READY_FOR_DELIVERY" /\ v = current /\ epoch = pinned[v]

StartSend(v) ==
    /\ delivery[v] = "QUEUED"
    /\ delivery' = [delivery EXCEPT ![v] = IF Fresh(v) THEN "SENDING" ELSE "FAILED"]
    /\ UNCHANGED <<status, current, epoch, agreement, queue, packages>>

EndSend(v) ==
    /\ delivery[v] = "SENDING"
    /\ delivery' = [delivery EXCEPT ![v] = "DELIVERED"]
    /\ UNCHANGED <<status, current, epoch, agreement, queue, packages>>

-----------------------------------------------------------------------------
Stage1(r) == Stage1Done(r) \/ Stage1Retry(r) \/ Stage1Block(r) \/ Stage1Pass(r) \/ Stage1Raise(r)

Stage2(r) ==
    \/ Stage2Skip(r)
    \/ \E v \in {"STAGE2_RUNNING", "STAGE2_REVIEW", "STAGE2_CORRECTION"} : Stage2Hold(r, v)
    \/ Stage2Pass(r)

Prepare(r) ==
    \/ PrepareDone(r) \/ PrepareBegin(r) \/ PrepareReturn(r) \/ PrepareRaise(r)
    \/ PrepareRefused(r)
    \/ PrepareFreeze(r) \/ PreparePublish(r)

Step(r) == Stage1(r) \/ Stage2(r) \/ Prepare(r) \/ Fail(r)

Artist == Submit \/ RecordApplication \/ Sign \/ Withdraw

Staff ==
    \/ Override \/ (\E n \in {0, 1} : ApproveReview(n)) \/ CorrectReview
    \/ ApproveApplication \/ CorrectApplication \/ Reject \/ Reissue \/ RecordGrants

Next ==
    \/ Artist \/ Staff
    \/ \E k \in JobId : Claim(k) \/ Reclaim(k)
    \/ \E r \in runs : Step(r)
    \/ \E v \in Revision : Dispatch(v) \/ StartSend(v) \/ EndSend(v)

Spec == Init /\ [][Next]_vars

\* Workers keep claiming, their runs end, and the sweeper frees dead leases;
\* nobody is assumed to submit, to decide or to sign.
Fairness ==
    /\ WF_vars(\E k \in JobId : Claim(k))
    /\ WF_vars(\E k \in JobId : Reclaim(k))
    /\ WF_vars(\E r \in runs : Step(r))

FairSpec == Spec /\ Fairness

-----------------------------------------------------------------------------
(* Properties *)

\* Every status is one the transition table knows, and every row and run has
\* its shape: the values the SQL of the handlers reads back.
TypeOK ==
    /\ status \in ReleaseStatus /\ current \in 0 .. MaxRevisions
    /\ job \in [JobId -> Row] /\ runs \subseteq Run /\ faults \in 0 .. MaxFaults
    /\ validated \subseteq Revision /\ frozen \subseteq Revision
    /\ prepared \subseteq Revision
    /\ epoch \in 0 .. MaxEpoch
    /\ pinned \in [Revision -> (0 .. MaxEpoch) \cup {None}]
    /\ agreement \in AgreementStatus
    /\ delivery \in [Revision -> DeliveryStatus]

\* The release passed stage 1 by a late verdict on an older revision: stage 2
\* of that revision has nothing to decide, and that of the current one has not
\* been handed over.
Overtaken == status = "STAGE1_PASSED" /\ current \notin validated

\* No release waits for a machine that will not come: while it is in a stage
\* of the pipeline, a job of its current revision is queued or running, in
\* spite of crashes, lost leases and late runs (surface_dead_letter and the
\* handoffs of run_stage1 and run_stage2).  The exception is a release an older
\* revision's verdict moved (Overtaken), which may wait for nothing.
RunningHasJob ==
    /\ status \in {"SUBMITTED", "STAGE1_RUNNING"} => Pending(Key("stage1", current))
    /\ (status = "STAGE1_PASSED" /\ ~Overtaken) \/ status = "STAGE2_RUNNING" =>
          \E a \in Stage2Kinds : Pending(Key(a, current))
    /\ status \in {"STAGE2_PASSED", "STAGE3_PREPARING"} => Pending(Key("prepare", current))

\* Ready for delivery means that the revision the release is on is prepared.
ReadyIsPrepared ==
    status = "READY_FOR_DELIVERY" =>
        current \in prepared /\ current \in frozen /\ pinned[current] # None

\* A result of an old revision is stale and does not change the status of the
\* application (docs/DATA_MODEL.md:51), nor let it into the next stage
\* (docs/BLUEPRINT.md:182).  run_stage1 and run_prepare_release do not look at
\* the release's current revision, so both ways are open: a late stage 1 passes
\* the newer revision, a late preparation makes it ready.
ResultsAreCurrent == ~Overtaken /\ ReadyIsPrepared

\* A cancelled release never reached a partner and never will: the withdrawal
\* looks at the agreement only, not at the delivery jobs (withdraw.rs).
CancelledStaysHome ==
    status = "WITHDRAWN" /\ agreement # "SIGNED" =>
        \A v \in Revision : delivery[v] \notin {"SENDING", "DELIVERED"}

\* A release that only a machine can move does move, to where a person sees it
\* or to the next stage, whatever errors, lost leases and late runs do to the
\* jobs (operations.rs, surface_dead_letter).  Stage 1's handover to stage 2 is
\* part of it, except for a release passed on an older revision's verdict
\* (Overtaken), which stage1_give_up leaves alone.
Waiting == Owned \cup {"SUBMITTED", "STAGE1_PASSED", "STAGE2_PASSED"}
RunningSurfaces ==
    (status \in Waiting /\ ~Overtaken) ~> (status \notin Waiting \/ Overtaken)

\* A release sent back from ready (rights re-check, staff correction, reissued
\* identifiers) is ready again only on a revision not prepared before: a run
\* of the old job, or the transition the trigger allows from
\* STAGE3_CORRECTION, does not bring the returned package back.
ReturnedStaysReturned ==
    [][status # "READY_FOR_DELIVERY" /\ status' = "READY_FOR_DELIVERY"
       => current \notin prepared]_vars

=============================================================================
