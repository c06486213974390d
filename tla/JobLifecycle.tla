---------------------------- MODULE JobLifecycle ----------------------------
(***************************************************************************)
(* What the job queue promises, without locks, leases or workers: a job is *)
(* posted once, is run by one run at a time, numbered in order, goes back  *)
(* to waiting any number of times and is settled once; a completion is     *)
(* only ever reported by the run that is current when the job succeeds.    *)
(* Several jobs may move in one step, as when a sweep returns every        *)
(* expired job at once and grants one of them.                             *)
(***************************************************************************)
EXTENDS Integers

CONSTANT Job

VARIABLES phase,    \* where each job is
          run,      \* the number of runs each job was granted
          reported  \* <<job, run>>: this run was told that it completed the job

vars == <<phase, run, reported>>

Init == /\ phase = [j \in Job |-> "ABSENT"]
        /\ run = [j \in Job |-> 0]
        /\ reported = {}

Post(j) == phase[j] = "ABSENT" /\ phase'[j] = "QUEUED" /\ run'[j] = run[j]

\* A granted run is a new run, whether the job waited or its last run expired.
Grant(j) == /\ phase[j] \in {"QUEUED", "RUNNING"}
            /\ phase'[j] = "RUNNING" /\ run'[j] = run[j] + 1

Return(j) == phase[j] = "RUNNING" /\ phase'[j] = "QUEUED" /\ run'[j] = run[j]

Settle(j) == /\ phase[j] = "RUNNING"
             /\ phase'[j] \in {"SUCCEEDED", "DEAD_LETTER"} /\ run'[j] = run[j]

Same(j) == phase'[j] = phase[j] /\ run'[j] = run[j]

Completed == {<<j, run[j]>> : j \in {i \in Job : phase[i] # "SUCCEEDED" /\ phase'[i] = "SUCCEEDED"}}

Next == /\ phase' \in [Job -> {"ABSENT", "QUEUED", "RUNNING", "SUCCEEDED", "DEAD_LETTER"}]
        /\ run' \in [Job -> Nat]
        /\ \A j \in Job : Post(j) \/ Grant(j) \/ Return(j) \/ Settle(j) \/ Same(j)
        /\ reported \subseteq reported'
        /\ reported' \ reported \subseteq Completed

Spec == Init /\ [][Next]_vars

=============================================================================
