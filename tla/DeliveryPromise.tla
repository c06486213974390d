-------------------------- MODULE DeliveryPromise --------------------------
(***************************************************************************)
(* What the execution of a delivery promises, without leases, send jobs,   *)
(* workers or cases: an attempt is made when nothing is known to be out    *)
(* and nothing was received; the partner receives one attempt at most; a   *)
(* delivery is called delivered only of something received, and left open  *)
(* to reconciliation only with an attempt nobody can account for; once     *)
(* closed it is not opened again.  An answer that comes late, or an event  *)
(* of the partner, may still correct how it was closed.                    *)
(***************************************************************************)
EXTENDS Integers

CONSTANT MaxAttempts

VARIABLES phase,    \* "ABSENT", "OPEN", and how it was closed
          tries,    \* attempts made
          out,      \* whether the last one is unaccounted for
          received  \* the attempts the partner received

vars == <<phase, tries, out, received>>

Answers == {"DELIVERED", "FAILED"}

Init == phase = "ABSENT" /\ tries = 0 /\ out = FALSE /\ received = {}

Create == /\ phase = "ABSENT" /\ phase' = "OPEN"
          /\ UNCHANGED <<tries, out, received>>

Attempt == /\ phase = "OPEN" /\ ~out /\ received = {} /\ tries < MaxAttempts
           /\ tries' = tries + 1 /\ out' = TRUE
           /\ UNCHANGED <<phase, received>>

\* However late: what was begun may arrive after the delivery was closed.
Receive == /\ out /\ received = {} /\ received' = {tries}
           /\ UNCHANGED <<phase, tries, out>>

\* Certainly not received.
Clear == /\ phase = "OPEN" /\ out /\ received = {} /\ out' = FALSE
         /\ UNCHANGED <<phase, tries, received>>

\* The partner's answer to what it received.
Answer == /\ phase \in {"OPEN"} \cup Answers /\ out /\ received = {tries}
          /\ phase' \in Answers /\ out' = FALSE
          /\ UNCHANGED <<tries, received>>

\* No answer, or none that can be read.
Lose == /\ phase \in {"OPEN"} \cup Answers /\ out
        /\ phase' = "UNKNOWN"
        /\ UNCHANGED <<tries, out, received>>

\* What the partner says by itself, of something it received.
Event == /\ phase \in {"OPEN", "UNKNOWN"} /\ received # {}
         /\ phase' \in Answers
         /\ UNCHANGED <<tries, out, received>>

\* The package is not sent after all, or not again.
GiveUp == /\ phase = "OPEN" /\ phase' \in {"FAILED", "DEAD"}
          /\ UNCHANGED <<tries, out, received>>

Next == Create \/ Attempt \/ Receive \/ Clear \/ Answer \/ Lose \/ Event \/ GiveUp

Spec == Init /\ [][Next]_vars

=============================================================================
