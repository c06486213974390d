------------------------------ MODULE JobQueue ------------------------------
(***************************************************************************)
(* The durable job queue: the rows of operations.jobs and the worker loops *)
(* that drain them (operations.rs, bin/audeniq-worker.rs).                 *)
(*                                                                         *)
(* Each action is one statement or one transaction of the code.  Clocks    *)
(* are abstracted: "due" says run_at has passed, "live" says lease_until   *)
(* has not, so a granted heartbeat leaves the row as it is.  The jobs of a *)
(* model share one queue; no code sets a priority, and a claim takes any   *)
(* due row because SKIP LOCKED may pass over the first ones.               *)
(***************************************************************************)
EXTENDS Integers, FiniteSets

CONSTANTS Job,          \* idempotency keys, each naming one row
          Worker,       \* worker loops, of one process or of several
          Pipeline,     \* jobs whose kind is in SURFACED_KINDS
          MaxAttempts,  \* operations.jobs.max_attempts
          MaxResets,    \* bound: parks and shutdown releases of one job
          NoJob

ASSUME QueueAssumption ==
    /\ Pipeline \subseteq Job
    /\ MaxAttempts \in Nat \ {0}
    /\ MaxResets \in Nat
    /\ NoJob \notin Job

VARIABLES
    row,       \* operations.jobs
    wk,        \* what each worker loop is doing
    surfaced,  \* pipeline jobs whose dead letter moved their release
    missed,    \* history: pipeline jobs whose savepoint rolled back in fail
    issued,    \* history: lock tokens generated per job (each claim, a UUID)
    resets,    \* history: parks and releases per job
    acked      \* history: <<job, token>> a worker was told it completed

vars == <<row, wk, surfaced, missed, issued, resets, acked>>

NoToken == 0
Status == {"ABSENT", "QUEUED", "RUNNING", "SUCCEEDED", "DEAD_LETTER"}
Row == [status: Status, attempts: Nat, due: BOOLEAN, token: Nat, live: BOOLEAN]

\* "run" the handler, "retry"/"surface" the two outcomes of the unfenced read
\* of retry_or_surface, "fallback" the worker's own fail after a handler error.
Idle == [pc |-> "idle", job |-> NoJob, token |-> NoToken]
Loop == [pc: {"idle", "run", "retry", "surface", "fallback"},
         job: Job \cup {NoJob}, token: Nat]

-----------------------------------------------------------------------------
(* Row updates *)

Unlocked(r, status, attempts, due) ==
    [status |-> status, attempts |-> attempts, due |-> due,
     token |-> NoToken, live |-> FALSE]

Claimable(r) == r.status = "QUEUED" /\ r.attempts < MaxAttempts /\ r.due

\* Mutant of Claimed: the claim does not count its attempt.
ClaimedUncounted(r, token) ==
    [status |-> "RUNNING", attempts |-> r.attempts, due |-> r.due,
     token |-> token, live |-> TRUE]

Claimed(r, token) ==
    [status |-> "RUNNING", attempts |-> r.attempts + 1, due |-> r.due,
     token |-> token, live |-> TRUE]

\* Mutant of Expired: the sweep only looks at jobs with an attempt left.
ExpiredRetryable(r) == r.status = "RUNNING" /\ ~r.live /\ r.attempts < MaxAttempts

Expired(r) == r.status = "RUNNING" /\ ~r.live

\* Mutant of Reclaimed: off by one in the attempt limit.
ReclaimedOffByOne(r) ==
    IF r.attempts > MaxAttempts
    THEN Unlocked(r, "DEAD_LETTER", r.attempts, r.due)
    ELSE Unlocked(r, "QUEUED", r.attempts, TRUE)

Reclaimed(r) ==
    IF r.attempts >= MaxAttempts
    THEN Unlocked(r, "DEAD_LETTER", r.attempts, r.due)
    ELSE Unlocked(r, "QUEUED", r.attempts, TRUE)

Failed(r, permanent) ==
    IF permanent \/ r.attempts >= MaxAttempts
    THEN Unlocked(r, "DEAD_LETTER", r.attempts, FALSE)
    ELSE Unlocked(r, "QUEUED", r.attempts, FALSE)

Released(r) ==
    Unlocked(r, "QUEUED", IF r.attempts = 0 THEN 0 ELSE r.attempts - 1, TRUE)

Swept == [j \in Job |-> IF Expired(row[j]) THEN Reclaimed(row[j]) ELSE row[j]]

\* Mutant of Holds: any live lease will do, not only the worker's own.
HoldsAnyToken(w) == row[wk[w].job].status = "RUNNING" /\ row[wk[w].job].live

\* The WHERE clause of every fenced update: token, RUNNING, lease unexpired.
Holds(w) == /\ row[wk[w].job].status = "RUNNING"
            /\ row[wk[w].job].token = wk[w].token
            /\ row[wk[w].job].live

Become(w, pc) == wk' = [wk EXCEPT ![w].pc = pc]
Rest(w) == wk' = [wk EXCEPT ![w] = Idle]

\* The handler's last statement committed; its reply reaches the worker or is
\* lost with the connection, and then the worker runs its fallback.
Answered(w) == Rest(w) \/ Become(w, "fallback")

-----------------------------------------------------------------------------
Init ==
    /\ row = [j \in Job |-> [status |-> "ABSENT", attempts |-> 0, due |-> TRUE,
                             token |-> NoToken, live |-> FALSE]]
    /\ wk = [w \in Worker |-> Idle]
    /\ surfaced = {} /\ missed = {} /\ acked = {}
    /\ issued = [j \in Job |-> 0]
    /\ resets = [j \in Job |-> 0]

\* A second enqueue of the same key and content returns the existing row
\* unchanged; the same key with other content is refused.
Enqueue(j) ==
    /\ row[j].status = "ABSENT"
    /\ row' = [row EXCEPT ![j] = Unlocked(row[j], "QUEUED", 0, TRUE)]
    /\ UNCHANGED <<wk, surfaced, missed, issued, resets, acked>>

Take(w, rows) ==
    \E j \in Job :
        /\ Claimable(rows[j])
        /\ issued' = [issued EXCEPT ![j] = @ + 1]
        /\ row' = [rows EXCEPT ![j] = Claimed(rows[j], issued[j] + 1)]
        /\ wk' = [wk EXCEPT ![w] = [pc |-> "run", job |-> j,
                                    token |-> issued[j] + 1]]

\* An ordinary poll: claim a due row, one statement.
Claim(w) ==
    /\ wk[w].pc = "idle"
    /\ Take(w, row)
    /\ UNCHANGED <<surfaced, missed, resets, acked>>

\* Mutant of SweepAndClaim: the sweep dead-letters without surfacing.
SweepSilently(w) ==
    /\ wk[w].pc = "idle"
    /\ \E j \in Job : Expired(row[j])
    /\ \/ Take(w, Swept)
       \/ row' = Swept /\ UNCHANGED <<wk, issued>>
    /\ UNCHANGED <<surfaced, missed, resets, acked>>

\* A poll with the timed sweep: expired leases are requeued or dead-lettered,
\* the pipeline dead letters are surfaced and a row is claimed, in one
\* transaction.  (An error while surfacing rolls all of it back: no step.)
SweepAndClaim(w) ==
    /\ wk[w].pc = "idle"
    /\ \E j \in Job : Expired(row[j])
    /\ surfaced' = surfaced \cup
           {j \in Pipeline : Expired(row[j]) /\ Swept[j].status = "DEAD_LETTER"}
    /\ \/ Take(w, Swept)
       \/ row' = Swept /\ UNCHANGED <<wk, issued>>
    /\ UNCHANGED <<missed, resets, acked>>

-----------------------------------------------------------------------------
(* What a handler does with its job *)

\* The fence refused the update: Error::Conflict, left to the worker's fallback.
Refused(w) ==
    /\ ~Holds(w)
    /\ Become(w, "fallback")
    /\ UNCHANGED <<row, surfaced, missed, issued, resets, acked>>

\* Mutant of Succeed: UPDATE ... WHERE id, without the fence.
SucceedUnfenced(w) ==
    /\ wk[w].pc = "run"
    /\ row' = [row EXCEPT ![wk[w].job] = Unlocked(@, "SUCCEEDED", @.attempts, @.due)]
    /\ Rest(w) /\ acked' = acked \cup {<<wk[w].job, wk[w].token>>}
    /\ UNCHANGED <<surfaced, missed, issued, resets>>

Succeed(w) ==
    /\ wk[w].pc = "run"
    /\ \/ /\ Holds(w)
          /\ row' = [row EXCEPT ![wk[w].job] = Unlocked(@, "SUCCEEDED", @.attempts, @.due)]
          /\ \/ Rest(w) /\ acked' = acked \cup {<<wk[w].job, wk[w].token>>}
             \/ Become(w, "fallback") /\ UNCHANGED acked
          /\ UNCHANGED <<surfaced, missed, issued, resets>>
       \/ Refused(w)

\* fail: one fenced update; a pipeline job it dead-letters is surfaced inside
\* a savepoint, whose failure is logged and swallowed.
FailRow(w, permanent) ==
    LET j == wk[w].job
        r == Failed(row[j], permanent)
    IN  /\ Holds(w)
        /\ row' = [row EXCEPT ![j] = r]
        /\ IF r.status = "DEAD_LETTER" /\ j \in Pipeline
           THEN \/ surfaced' = surfaced \cup {j} /\ UNCHANGED missed
                \/ missed' = missed \cup {j} /\ UNCHANGED surfaced
           ELSE UNCHANGED <<surfaced, missed>>
        /\ UNCHANGED <<issued, resets, acked>>

\* A handler outside the pipeline reports its failure directly.
Fail(w) ==
    /\ wk[w].pc = "run" /\ wk[w].job \notin Pipeline
    /\ \E permanent \in BOOLEAN :
          \/ FailRow(w, permanent) /\ Answered(w)
          \/ Refused(w)

\* retry_or_surface_with, first step: the attempt count is read outside any
\* transaction and without the fence.
ReadExhausted(w) ==
    /\ wk[w].pc = "run" /\ wk[w].job \in Pipeline
    /\ \E permanent \in BOOLEAN :
          LET exhausted == row[wk[w].job].attempts >= MaxAttempts
          IN  Become(w, IF exhausted \/ permanent THEN "surface" ELSE "retry")
    /\ UNCHANGED <<row, surfaced, missed, issued, resets, acked>>

Retry(w) ==
    /\ wk[w].pc = "retry"
    /\ \/ FailRow(w, FALSE) /\ Answered(w)
       \/ Refused(w)

\* Dead letter and release move together, or (an error) not at all.
Surface(w) ==
    /\ wk[w].pc = "surface"
    /\ \/ /\ Holds(w)
          /\ row' = [row EXCEPT ![wk[w].job] = Failed(@, TRUE)]
          /\ surfaced' = surfaced \cup {wk[w].job}
          /\ Answered(w)
          /\ UNCHANGED <<missed, issued, resets, acked>>
       \/ /\ Holds(w)
          /\ Become(w, "fallback")
          /\ UNCHANGED <<row, surfaced, missed, issued, resets, acked>>
       \/ Refused(w)

\* delivery.send waits out another holder of its delivery job.
Park(w) ==
    /\ wk[w].pc = "run" /\ wk[w].job \notin Pipeline
    /\ \/ /\ Holds(w)
          /\ resets[wk[w].job] < MaxResets
          /\ row' = [row EXCEPT ![wk[w].job] = Unlocked(@, "QUEUED", 0, FALSE)]
          /\ resets' = [resets EXCEPT ![wk[w].job] = @ + 1]
          /\ Answered(w)
          /\ UNCHANGED <<surfaced, missed, issued, acked>>
       \/ Refused(w)

\* The handler returns an error or panics before touching its job.
HandlerError(w) ==
    /\ wk[w].pc = "run"
    /\ Become(w, "fallback")
    /\ UNCHANGED <<row, surfaced, missed, issued, resets, acked>>

\* The worker's own fail; whatever it answers, the loop moves on.
Fallback(w) ==
    /\ wk[w].pc = "fallback"
    /\ Rest(w)
    /\ \/ FailRow(w, FALSE)
       \/ ~Holds(w) /\ UNCHANGED <<row, surfaced, missed, issued, resets, acked>>

-----------------------------------------------------------------------------
(* Crashes, leases and clocks *)

\* The loop leaves its job RUNNING: the process died, a heartbeat was refused
\* or could not be confirmed in time, the fallback's statement failed, or a
\* pipeline handler found its lease lost and returned without a word.
Abandon(w) ==
    /\ wk[w].pc # "idle"
    /\ Rest(w)
    /\ UNCHANGED <<row, surfaced, missed, issued, resets, acked>>

\* Shutdown, drain window over: the job goes back without its attempt.  The
\* token is checked, the lease is not; a loop in its fallback has already left
\* the in-flight registry.
ReleaseLease(w) ==
    LET j == wk[w].job
    IN  /\ wk[w].pc \in {"run", "retry", "surface"}
        /\ row[j].status = "RUNNING" /\ row[j].token = wk[w].token
        /\ resets[j] < MaxResets
        /\ row' = [row EXCEPT ![j] = Released(@)]
        /\ resets' = [resets EXCEPT ![j] = @ + 1]
        /\ Rest(w)
        /\ UNCHANGED <<surfaced, missed, issued, acked>>

LeaseExpires(j) ==
    /\ row[j].status = "RUNNING" /\ row[j].live
    /\ row' = [row EXCEPT ![j].live = FALSE]
    /\ UNCHANGED <<wk, surfaced, missed, issued, resets, acked>>

ComesDue(j) ==
    /\ row[j].status = "QUEUED" /\ ~row[j].due
    /\ row' = [row EXCEPT ![j].due = TRUE]
    /\ UNCHANGED <<wk, surfaced, missed, issued, resets, acked>>

-----------------------------------------------------------------------------
Poll(w) == Claim(w) \/ SweepAndClaim(w)

Finish(w) == Succeed(w) \/ Fail(w) \/ ReadExhausted(w) \/ Retry(w)
             \/ Surface(w) \/ HandlerError(w) \/ Fallback(w)

Next ==
    \/ \E j \in Job : Enqueue(j) \/ LeaseExpires(j) \/ ComesDue(j)
    \/ \E w \in Worker : Poll(w) \/ Finish(w) \/ Park(w) \/ Abandon(w) \/ ReleaseLease(w)

Spec == Init /\ [][Next]_vars

\* Loops poll on a timer, a handler ends one way or another (every external
\* call it makes has a timeout), clocks advance, and a lease nobody renews runs
\* out.  Nothing obliges a worker to park, crash or shut down.
Fairness ==
    /\ \A w \in Worker : WF_vars(Poll(w)) /\ WF_vars(Finish(w))
    /\ \A j \in Job : /\ WF_vars(ComesDue(j))
                      /\ WF_vars(LeaseExpires(j)
                                 /\ \A w \in Worker : wk[w].job # j \/ wk[w].token # row[j].token)

FairSpec == Spec /\ Fairness

-----------------------------------------------------------------------------
TypeOK ==
    /\ row \in [Job -> Row]
    /\ wk \in [Worker -> Loop]
    /\ surfaced \subseteq Pipeline
    /\ missed \subseteq Pipeline
    /\ issued \in [Job -> Nat]
    /\ resets \in [Job -> 0..MaxResets]
    /\ acked \subseteq Job \X Nat

\* No row waits for a claim that can never take it: a QUEUED row always has an
\* attempt left (the claim query skips the others for ever), and a row has a
\* lock token exactly while it is RUNNING (the table's CHECK constraint).
QueuedIsClaimable ==
    \A j \in Job : /\ row[j].status = "QUEUED" => row[j].attempts < MaxAttempts
                   /\ (row[j].status = "RUNNING") <=> (row[j].token # NoToken)

\* Whatever expires, crashes and is claimed again, no two worker loops ever hold
\* the same lock token of a job: two handlers may run at once, but at most one
\* of them can finish the job.
OwnerExclusive ==
    \A v, w \in Worker :
        v # w /\ wk[v].job \in Job /\ wk[v].job = wk[w].job => wk[v].token # wk[w].token

\* A worker that was told it completed a job is right for good, and no other
\* worker is ever told the same of that job.
ReportedSuccessStands ==
    \A a \in acked : /\ row[a[1]].status = "SUCCEEDED"
                     /\ \A b \in acked : a[1] = b[1] => a = b

\* However a pipeline job reaches DEAD_LETTER (a crash on every attempt, an
\* exhausted or permanent failure, the worker's fallback), its release is moved
\* out of the running state, except where fail's savepoint itself failed.
DeadLetterSurfaced ==
    \A j \in Pipeline : row[j].status = "DEAD_LETTER" => j \in surfaced \cup missed

\* A release is reported as given up only once its job really is dead.
SurfacedIsDead ==
    \A j \in surfaced \cup missed : row[j].status = "DEAD_LETTER"

\* The retry budget: a job runs at most max_attempts times between two parks
\* or shutdown releases, whichever of its workers crash.
RunsBounded == \A j \in Job : issued[j] <= MaxAttempts * (resets[j] + 1)

\* A settled job never moves again, not even by a late worker's doing.
SettledForGood ==
    [][\A j \in Job : row[j].status \in {"SUCCEEDED", "DEAD_LETTER"} => row'[j] = row[j]]_vars

\* Every enqueued job is eventually settled, through any number of crashes.
EventuallySettled ==
    \A j \in Job : row[j].status = "QUEUED" ~> row[j].status \in {"SUCCEEDED", "DEAD_LETTER"}

\* The abstract life of a job, of which the rows and loops are an implementation.
Life == INSTANCE JobLifecycle WITH
            phase <- [j \in Job |-> row[j].status],
            run <- issued,
            reported <- acked

\* Locks, leases, sweeps and retries implement that life.
ImplementsLifecycle == Life!Spec

=============================================================================
