--------------------------- MODULE JobQueueProofs ---------------------------
(***************************************************************************)
(* Theorems about the job queue, for any jobs, worker loops, attempt limit *)
(* and number of parks and releases.                                       *)
(***************************************************************************)
EXTENDS JobQueue, TLAPS

USE QueueAssumption DEF NoToken

\* A loop outside "idle" works on a real job, one inside retry_or_surface on a
\* pipeline job; an idle loop is exactly Idle.
LoopShape ==
    \A w \in Worker :
        /\ wk[w].pc = "idle" => wk[w] = Idle
        /\ wk[w].pc # "idle" => wk[w].job \in Job
        /\ wk[w].pc \in {"retry", "surface"} => wk[w].job \in Pipeline

\* A locked row has the last token generated for it; a loop's token is one of
\* those generated so far.
TokensIssued ==
    /\ \A j \in Job : row[j].token \in {NoToken, issued[j]}
    /\ \A w \in Worker : wk[w].pc # "idle" =>
            /\ wk[w].token # NoToken
            /\ wk[w].token <= issued[wk[w].job]

\* A row's attempts never exceed the limit, and a job that may still run has
\* at least one left.
AttemptsBounded == \A j \in Job : row[j].attempts <= MaxAttempts

-----------------------------------------------------------------------------
(* The row updates *)

\* Every row update of the queue yields a row.
LEMMA UpdatesTyped ==
    ASSUME NEW r \in Row
    PROVE  /\ \A t \in Nat : Claimed(r, t) \in Row
           /\ Reclaimed(r) \in Row
           /\ \A p \in BOOLEAN : Failed(r, p) \in Row
           /\ Released(r) \in Row
           /\ \A s \in Status, n \in Nat, d \in BOOLEAN : Unlocked(r, s, n, d) \in Row
<1>1. Reclaimed(r) \in Row
  BY DEF Reclaimed, Unlocked, Row, Status
<1>2. \A p \in BOOLEAN : Failed(r, p) \in Row
  BY DEF Failed, Unlocked, Row, Status
<1>3. Released(r) \in Row
  BY DEF Released, Unlocked, Row, Status
<1> QED
  BY <1>1, <1>2, <1>3 DEF Claimed, Unlocked, Row, Status

\* What a sweep leaves is a table of rows.
LEMMA SweptTyped ==
    ASSUME row \in [Job -> Row]
    PROVE  Swept \in [Job -> Row]
BY UpdatesTyped DEF Swept

-----------------------------------------------------------------------------
(* Type correctness *)

\* Every step of the queue keeps every variable in its type.
LEMMA TypeStep ==
    ASSUME TypeOK, LoopShape, [Next]_vars
    PROVE  TypeOK'
<1> USE DEF TypeOK
<1>1. ASSUME NEW j \in Job, Enqueue(j) PROVE TypeOK'
  BY <1>1, UpdatesTyped DEF Enqueue, Status
<1>2. ASSUME NEW j \in Job, LeaseExpires(j) PROVE TypeOK'
  BY <1>2 DEF LeaseExpires, Row
<1>3. ASSUME NEW j \in Job, ComesDue(j) PROVE TypeOK'
  BY <1>3 DEF ComesDue, Row
<1>4. ASSUME NEW w \in Worker, NEW rows \in [Job -> Row], Take(w, rows)
      PROVE  row' \in [Job -> Row] /\ wk' \in [Worker -> Loop] /\ issued' \in [Job -> Nat]
  <2>1. PICK j \in Job : /\ issued' = [issued EXCEPT ![j] = @ + 1]
                         /\ row' = [rows EXCEPT ![j] = Claimed(rows[j], issued[j] + 1)]
                         /\ wk' = [wk EXCEPT ![w] = [pc |-> "run", job |-> j, token |-> issued[j] + 1]]
    BY <1>4 DEF Take
  <2>2. rows[j] \in Row /\ issued[j] + 1 \in Nat
    OBVIOUS
  <2>3. Claimed(rows[j], issued[j] + 1) \in Row
    BY <2>2, UpdatesTyped
  <2> QED
    BY <2>1, <2>2, <2>3 DEF Loop
<1>5. ASSUME NEW w \in Worker, Claim(w) PROVE TypeOK'
  BY <1>4, <1>5 DEF Claim
<1>6. ASSUME NEW w \in Worker, SweepAndClaim(w) PROVE TypeOK'
  BY <1>4, <1>6, SweptTyped DEF SweepAndClaim
<1>7. ASSUME NEW w \in Worker PROVE Idle \in Loop
  BY DEF Idle, Loop
<1>8. ASSUME NEW w \in Worker, NEW pc \in {"retry", "surface", "fallback"}, Become(w, pc)
      PROVE  wk' \in [Worker -> Loop]
  BY <1>8 DEF Become, Loop
<1>9. ASSUME NEW w \in Worker, Answered(w) PROVE wk' \in [Worker -> Loop]
  BY <1>7, <1>8, <1>9 DEF Answered, Rest
<1>10. ASSUME NEW w \in Worker, Refused(w) PROVE TypeOK'
  BY <1>8, <1>10 DEF Refused
<1>11. ASSUME NEW w \in Worker, wk[w].pc # "idle", NEW p \in BOOLEAN, FailRow(w, p)
       PROVE  /\ row' \in [Job -> Row] /\ surfaced' \subseteq Pipeline /\ missed' \subseteq Pipeline
              /\ issued' \in [Job -> Nat] /\ resets' \in [Job -> 0..MaxResets] /\ acked' \subseteq Job \X Nat
  <2>1. wk[w].job \in Job
    BY <1>11 DEF LoopShape
  <2>2. Failed(row[wk[w].job], p) \in Row
    BY <2>1, UpdatesTyped
  <2> QED
    BY <1>11, <2>1, <2>2 DEF FailRow
<1>12. ASSUME NEW w \in Worker, Succeed(w) PROVE TypeOK'
  <2>1. wk[w].job \in Job /\ wk[w].token \in Nat
    BY <1>12 DEF Succeed, LoopShape, Loop
  <2>2. Unlocked(row[wk[w].job], "SUCCEEDED", row[wk[w].job].attempts, row[wk[w].job].due) \in Row
    BY <2>1 DEF Unlocked, Row, Status
  <2>3. CASE Refused(w)
    BY <2>3, <1>10
  <2>4. CASE ~Refused(w)
    <3>1. wk' \in [Worker -> Loop]
      BY <1>12, <2>4, <1>9 DEF Succeed, Answered
    <3> QED
      BY <1>12, <2>1, <2>2, <2>4, <3>1 DEF Succeed
  <2> QED
    BY <2>3, <2>4
<1>13. ASSUME NEW w \in Worker, Fail(w) PROVE TypeOK'
  <2>1. PICK p \in BOOLEAN : (FailRow(w, p) /\ Answered(w)) \/ Refused(w)
    BY <1>13 DEF Fail
  <2>2. wk[w].pc # "idle"
    BY <1>13 DEF Fail
  <2> QED
    BY <2>1, <2>2, <1>9, <1>10, <1>11
<1>14. ASSUME NEW w \in Worker, ReadExhausted(w) PROVE TypeOK'
  BY <1>14, <1>8 DEF ReadExhausted
<1>15. ASSUME NEW w \in Worker, Retry(w) PROVE TypeOK'
  <2>1. (FailRow(w, FALSE) /\ Answered(w)) \/ Refused(w)
    BY <1>15 DEF Retry
  <2>2. wk[w].pc # "idle"
    BY <1>15 DEF Retry
  <2> QED
    BY <2>1, <2>2, <1>9, <1>10, <1>11
<1>16. ASSUME NEW w \in Worker, Surface(w) PROVE TypeOK'
  <2>1. wk[w].job \in Job
    BY <1>16 DEF Surface, LoopShape
  <2>2. Failed(row[wk[w].job], TRUE) \in Row
    BY <2>1, UpdatesTyped
  <2>3. CASE Refused(w)
    BY <2>3, <1>10
  <2>4. CASE Become(w, "fallback") /\ UNCHANGED <<row, surfaced, missed, issued, resets, acked>>
    BY <2>4, <1>8
  <2>5. CASE /\ row' = [row EXCEPT ![wk[w].job] = Failed(@, TRUE)]
             /\ surfaced' = surfaced \cup {wk[w].job}
             /\ Answered(w)
             /\ UNCHANGED <<missed, issued, resets, acked>>
    <3>1. wk[w].job \in Pipeline
      BY <1>16 DEF Surface, LoopShape
    <3> QED
      BY <2>1, <2>2, <2>5, <3>1, <1>9
  <2> QED
    BY <1>16, <2>3, <2>4, <2>5 DEF Surface
<1>17. ASSUME NEW w \in Worker, Park(w) PROVE TypeOK'
  <2>1. wk[w].job \in Job
    BY <1>17 DEF Park, LoopShape
  <2>2. Unlocked(row[wk[w].job], "QUEUED", 0, FALSE) \in Row
    BY DEF Unlocked, Row, Status
  <2>3. CASE Refused(w)
    BY <2>3, <1>10
  <2>4. CASE /\ resets[wk[w].job] < MaxResets
             /\ row' = [row EXCEPT ![wk[w].job] = Unlocked(@, "QUEUED", 0, FALSE)]
             /\ resets' = [resets EXCEPT ![wk[w].job] = @ + 1]
             /\ Answered(w)
             /\ UNCHANGED <<surfaced, missed, issued, acked>>
    <3>1. resets[wk[w].job] + 1 \in 0..MaxResets
      BY <2>1, <2>4
    <3> QED
      BY <2>1, <2>2, <2>4, <3>1, <1>9
  <2> QED
    BY <1>17, <2>3, <2>4 DEF Park
<1>18. ASSUME NEW w \in Worker, HandlerError(w) PROVE TypeOK'
  BY <1>18, <1>8 DEF HandlerError
<1>19. ASSUME NEW w \in Worker, Fallback(w) PROVE TypeOK'
  <2>1. wk' \in [Worker -> Loop]
    BY <1>19, <1>7 DEF Fallback, Rest
  <2>2. FailRow(w, FALSE) \/ UNCHANGED <<row, surfaced, missed, issued, resets, acked>>
    BY <1>19 DEF Fallback
  <2>3. wk[w].pc # "idle"
    BY <1>19 DEF Fallback
  <2> QED
    BY <2>1, <2>2, <2>3, <1>11
<1>20. ASSUME NEW w \in Worker, Abandon(w) PROVE TypeOK'
  BY <1>20, <1>7 DEF Abandon, Rest
<1>21. ASSUME NEW w \in Worker, ReleaseLease(w) PROVE TypeOK'
  <2>1. wk[w].job \in Job
    BY <1>21 DEF ReleaseLease, LoopShape
  <2>2. Released(row[wk[w].job]) \in Row
    BY <2>1, UpdatesTyped
  <2>3. resets[wk[w].job] + 1 \in 0..MaxResets
    BY <1>21, <2>1 DEF ReleaseLease
  <2>4. wk' \in [Worker -> Loop]
    BY <1>21, <1>7 DEF ReleaseLease, Rest
  <2> QED
    BY <1>21, <2>1, <2>2, <2>3, <2>4 DEF ReleaseLease
<1>22. CASE UNCHANGED vars
  BY <1>22 DEF vars
<1> QED
  BY <1>1, <1>2, <1>3, <1>5, <1>6, <1>12, <1>13, <1>14, <1>15, <1>16, <1>17, <1>18,
     <1>19, <1>20, <1>21, <1>22 DEF Next, Poll, Finish

-----------------------------------------------------------------------------
(* What any step does to a job, to the loops and to the records kept of them *)

JobMove(j) ==
    \/ /\ row'[j] = row[j] \/ row'[j] = [row[j] EXCEPT !.live = FALSE]
                           \/ row'[j] = [row[j] EXCEPT !.due = TRUE]
       /\ row[j].status \in {"SUCCEEDED", "DEAD_LETTER"} => row'[j] = row[j]
       /\ issued'[j] = issued[j] /\ resets'[j] = resets[j]
    \/ /\ row[j].status = "ABSENT" /\ row'[j].status = "QUEUED"
       /\ row'[j].attempts = 0 /\ row'[j].token = NoToken
       /\ issued'[j] = issued[j] /\ resets'[j] = resets[j]
    \/ /\ row[j].status = "RUNNING"
       /\ \/ row'[j].status \in {"SUCCEEDED", "DEAD_LETTER"}
          \/ row'[j].status = "QUEUED" /\ row[j].attempts < MaxAttempts
       /\ row'[j].attempts = row[j].attempts /\ row'[j].token = NoToken
       /\ issued'[j] = issued[j] /\ resets'[j] = resets[j]
    \/ /\ row[j].status = "RUNNING" /\ row'[j].status = "QUEUED"
       /\ row'[j].attempts = 0 \/ row'[j].attempts = row[j].attempts - 1
       /\ row'[j].token = NoToken
       /\ issued'[j] = issued[j] /\ resets'[j] = resets[j] + 1
    \/ /\ row[j].status \in {"QUEUED", "RUNNING"} /\ row'[j].status = "RUNNING"
       /\ row[j].attempts < MaxAttempts /\ row'[j].attempts = row[j].attempts + 1
       /\ row'[j].token = issued[j] + 1
       /\ issued'[j] = issued[j] + 1 /\ resets'[j] = resets[j]

SamePost(w) == wk'[w].job = wk[w].job /\ wk'[w].token = wk[w].token

LoopMove(w) == \/ wk'[w] = wk[w]
               \/ wk'[w] = Idle
               \/ SamePost(w) /\ wk[w].pc # "idle" /\ wk'[w].pc # "idle"
                  /\ (wk'[w].pc \in {"retry", "surface"} => wk[w].job \in Pipeline)

LoopMoves ==
    \/ issued' = issued /\ \A w \in Worker : LoopMove(w)
    \/ \E w \in Worker, j \in Job :
          /\ wk' = [wk EXCEPT ![w] = [pc |-> "run", job |-> j, token |-> issued[j] + 1]]
          /\ issued' = [issued EXCEPT ![j] = @ + 1]

AckMoves ==
    \/ acked' = acked
    \/ \E w \in Worker :
          /\ wk[w].pc # "idle" /\ Holds(w)
          /\ row'[wk[w].job].status = "SUCCEEDED"
          /\ issued' = issued
          /\ acked' = acked \cup {<<wk[w].job, wk[w].token>>}

SurfaceMoves ==
    \A j \in Pipeline :
        /\ (row'[j].status = "DEAD_LETTER" /\ row[j].status # "DEAD_LETTER")
              => j \in surfaced' \cup missed'
        /\ j \in surfaced' \cup missed' =>
              j \in surfaced \cup missed \/ row'[j].status = "DEAD_LETTER"
        /\ j \in surfaced \cup missed => j \in surfaced' \cup missed'

Moves == (\A j \in Job : JobMove(j)) /\ LoopMoves /\ AckMoves /\ SurfaceMoves

\* Every step of the queue is made of those moves.
LEMMA StepMoves ==
    ASSUME TypeOK, LoopShape, [Next]_vars
    PROVE  Moves
<1> USE DEF TypeOK
<1>1. ASSUME NEW j \in Job, Enqueue(j) PROVE Moves
  BY <1>1 DEF Enqueue, Moves, JobMove, LoopMoves, LoopMove, AckMoves, SurfaceMoves, Unlocked, Row
<1>2. ASSUME NEW j \in Job, LeaseExpires(j) PROVE Moves
  BY <1>2 DEF LeaseExpires, Moves, JobMove, LoopMoves, LoopMove, AckMoves, SurfaceMoves, Row
<1>3. ASSUME NEW j \in Job, ComesDue(j) PROVE Moves
  BY <1>3 DEF ComesDue, Moves, JobMove, LoopMoves, LoopMove, AckMoves, SurfaceMoves, Row
<1>4. ASSUME NEW w \in Worker, Claim(w) PROVE Moves
  <2>1. PICK j \in Job :
           /\ Claimable(row[j])
           /\ issued' = [issued EXCEPT ![j] = @ + 1]
           /\ row' = [row EXCEPT ![j] = Claimed(row[j], issued[j] + 1)]
           /\ wk' = [wk EXCEPT ![w] = [pc |-> "run", job |-> j, token |-> issued[j] + 1]]
    BY <1>4 DEF Claim, Take
  <2>2. UNCHANGED <<surfaced, missed, resets, acked>>
    BY <1>4 DEF Claim
  <2>3. ASSUME NEW i \in Job PROVE JobMove(i)
    BY <2>1, <2>2 DEF JobMove, Claimed, Claimable, Row
  <2>4. LoopMoves /\ AckMoves
    BY <2>1, <2>2 DEF LoopMoves, AckMoves
  <2>5. SurfaceMoves
    BY <2>1, <2>2 DEF SurfaceMoves, Claimed
  <2> QED
    BY <2>3, <2>4, <2>5 DEF Moves
<1>5. ASSUME NEW w \in Worker, SweepAndClaim(w) PROVE Moves
  <2>1. UNCHANGED <<missed, resets, acked>>
        /\ surfaced' = surfaced \cup {j \in Pipeline : Expired(row[j]) /\ Swept[j].status = "DEAD_LETTER"}
    BY <1>5 DEF SweepAndClaim
  <2>2. CASE row' = Swept /\ UNCHANGED <<wk, issued>>
    <3>1. ASSUME NEW i \in Job PROVE JobMove(i)
      BY <2>1, <2>2 DEF JobMove, Swept, Reclaimed, Expired, Unlocked, Row
    <3>2. LoopMoves /\ AckMoves
      BY <2>1, <2>2 DEF LoopMoves, LoopMove, AckMoves
    <3>3. SurfaceMoves
      BY <2>1, <2>2 DEF SurfaceMoves, Swept, Reclaimed, Unlocked
    <3> QED
      BY <3>1, <3>2, <3>3 DEF Moves
  <2>3. CASE Take(w, Swept)
    <3>1. PICK j \in Job :
             /\ Claimable(Swept[j])
             /\ issued' = [issued EXCEPT ![j] = @ + 1]
             /\ row' = [Swept EXCEPT ![j] = Claimed(Swept[j], issued[j] + 1)]
             /\ wk' = [wk EXCEPT ![w] = [pc |-> "run", job |-> j, token |-> issued[j] + 1]]
      BY <2>3 DEF Take
    <3>2. ASSUME NEW i \in Job, i # j PROVE JobMove(i)
      <4>1. row'[i] = Swept[i] /\ issued'[i] = issued[i]
        BY <3>1, <3>2 DEF Swept
      <4> QED
        BY <2>1, <4>1 DEF JobMove, Swept, Reclaimed, Expired, Unlocked, Row
    <3>3. JobMove(j)
      <4>1. row'[j] = Claimed(Swept[j], issued[j] + 1) /\ issued'[j] = issued[j] + 1
        BY <3>1 DEF Swept
      <4>2. /\ Swept[j].status = "QUEUED" /\ Swept[j].attempts < MaxAttempts
            /\ Swept[j].attempts = row[j].attempts
            /\ row[j].status \in {"QUEUED", "RUNNING"}
        BY <3>1 DEF Claimable, Swept, Reclaimed, Expired, Unlocked
      <4> QED
        BY <2>1, <4>1, <4>2 DEF JobMove, Claimed
    <3>4. LoopMoves /\ AckMoves
      BY <2>1, <3>1 DEF LoopMoves, AckMoves
    <3>5. SurfaceMoves
      <4>1. ASSUME NEW i \in Job PROVE row'[i] = Swept[i] \/ (i = j /\ row'[i].status = "RUNNING" /\ Swept[i].status = "QUEUED")
        BY <3>1 DEF Swept, Claimed, Claimable
      <4> QED
        BY <2>1, <4>1 DEF SurfaceMoves, Swept, Reclaimed, Unlocked
    <3> QED
      BY <3>2, <3>3, <3>4, <3>5 DEF Moves
  <2> QED
    BY <1>5, <2>2, <2>3 DEF SweepAndClaim
<1>6. ASSUME NEW w \in Worker, wk[w].pc # "idle",
             Rest(w) \/ Become(w, "fallback")
                \/ (wk[w].job \in Pipeline /\ \E pc \in {"retry", "surface"} : Become(w, pc))
      PROVE  \A v \in Worker : LoopMove(v)
  BY <1>6 DEF Rest, Become, LoopMove, SamePost, Loop
<1>7. ASSUME NEW w \in Worker, wk[w].pc # "idle",
             \A v \in Worker : LoopMove(v),
             UNCHANGED <<row, surfaced, missed, issued, resets, acked>>
      PROVE  Moves
  BY <1>7 DEF Moves, JobMove, LoopMoves, AckMoves, SurfaceMoves
<1>8. ASSUME NEW w \in Worker, wk[w].pc # "idle", Refused(w) PROVE Moves
  BY <1>6, <1>7, <1>8 DEF Refused
<1>9. ASSUME NEW w \in Worker, wk[w].pc # "idle", NEW p \in BOOLEAN, FailRow(w, p),
             \A v \in Worker : LoopMove(v)
      PROVE  Moves
  <2> DEFINE j == wk[w].job
  <2>1. j \in Job /\ row[j].status = "RUNNING"
    BY <1>9 DEF LoopShape, FailRow, Holds
  <2>2. row' = [row EXCEPT ![j] = Failed(row[j], p)] /\ UNCHANGED <<issued, resets, acked>>
    BY <1>9 DEF FailRow
  <2>3. ASSUME NEW i \in Job PROVE JobMove(i)
    BY <2>1, <2>2 DEF JobMove, Failed, Unlocked, Row
  <2>4. LoopMoves /\ AckMoves
    BY <1>9, <2>2 DEF LoopMoves, AckMoves
  <2>5. SurfaceMoves
    BY <1>9, <2>1, <2>2 DEF SurfaceMoves, FailRow, Failed, Unlocked
  <2> QED
    BY <2>3, <2>4, <2>5 DEF Moves
<1>10. ASSUME NEW w \in Worker, Succeed(w) PROVE Moves
  <2> DEFINE j == wk[w].job
  <2>1. wk[w].pc # "idle" /\ j \in Job
    BY <1>10 DEF Succeed, LoopShape
  <2>2. CASE Refused(w)
    BY <2>1, <2>2, <1>8
  <2>3. CASE /\ Holds(w)
             /\ row' = [row EXCEPT ![j] = Unlocked(@, "SUCCEEDED", @.attempts, @.due)]
             /\ \/ Rest(w) /\ acked' = acked \cup {<<j, wk[w].token>>}
                \/ Become(w, "fallback") /\ UNCHANGED acked
             /\ UNCHANGED <<surfaced, missed, issued, resets>>
    <3>1. ASSUME NEW i \in Job PROVE JobMove(i)
      BY <2>1, <2>3 DEF JobMove, Unlocked, Holds
    <3>2. LoopMoves
      BY <2>1, <2>3, <1>6 DEF LoopMoves
    <3>3. row'[j].status = "SUCCEEDED"
      BY <2>1, <2>3 DEF Unlocked
    <3>4. AckMoves
      BY <2>1, <2>3, <3>3 DEF AckMoves
    <3>5. SurfaceMoves
      BY <2>1, <2>3 DEF SurfaceMoves, Unlocked
    <3> QED
      BY <3>1, <3>2, <3>4, <3>5 DEF Moves
  <2> QED
    BY <1>10, <2>2, <2>3 DEF Succeed
<1>11. ASSUME NEW w \in Worker, NEW p \in BOOLEAN, wk[w].pc # "idle",
              (FailRow(w, p) /\ Answered(w)) \/ Refused(w)
       PROVE  Moves
  BY <1>6, <1>8, <1>9, <1>11 DEF Answered
<1>12. ASSUME NEW w \in Worker, Fail(w) \/ Retry(w) PROVE Moves
  <2>1. wk[w].pc # "idle"
    BY <1>12 DEF Fail, Retry
  <2>2. \E p \in BOOLEAN : (FailRow(w, p) /\ Answered(w)) \/ Refused(w)
    BY <1>12 DEF Fail, Retry
  <2> QED
    BY <2>1, <2>2, <1>11
<1>13. ASSUME NEW w \in Worker, ReadExhausted(w) PROVE Moves
  <2>1. wk[w].pc # "idle" /\ wk[w].job \in Pipeline
    BY <1>13 DEF ReadExhausted
  <2>2. \E pc \in {"retry", "surface"} : Become(w, pc)
    BY <1>13 DEF ReadExhausted
  <2> QED
    BY <1>13, <2>1, <2>2, <1>6, <1>7 DEF ReadExhausted
<1>14. ASSUME NEW w \in Worker, Surface(w) PROVE Moves
  <2> DEFINE j == wk[w].job
  <2>1. wk[w].pc # "idle" /\ j \in Job
    BY <1>14 DEF Surface, LoopShape
  <2>2. CASE Refused(w)
    BY <2>1, <2>2, <1>8
  <2>3. CASE Become(w, "fallback") /\ UNCHANGED <<row, surfaced, missed, issued, resets, acked>>
    BY <2>1, <2>3, <1>6, <1>7
  <2>4. CASE /\ Holds(w)
             /\ row' = [row EXCEPT ![j] = Failed(@, TRUE)]
             /\ surfaced' = surfaced \cup {j}
             /\ Answered(w)
             /\ UNCHANGED <<missed, issued, resets, acked>>
    <3>1. ASSUME NEW i \in Job PROVE JobMove(i)
      BY <2>1, <2>4 DEF JobMove, Failed, Unlocked, Holds
    <3>2. LoopMoves /\ AckMoves
      BY <2>1, <2>4, <1>6 DEF LoopMoves, AckMoves, Answered
    <3>3. SurfaceMoves
      BY <2>1, <2>4 DEF SurfaceMoves, Failed, Unlocked
    <3> QED
      BY <3>1, <3>2, <3>3 DEF Moves
  <2> QED
    BY <1>14, <2>2, <2>3, <2>4 DEF Surface
<1>15. ASSUME NEW w \in Worker, Park(w) PROVE Moves
  <2> DEFINE j == wk[w].job
  <2>1. wk[w].pc # "idle" /\ j \in Job
    BY <1>15 DEF Park, LoopShape
  <2>2. CASE Refused(w)
    BY <2>1, <2>2, <1>8
  <2>3. CASE /\ Holds(w)
             /\ row' = [row EXCEPT ![j] = Unlocked(@, "QUEUED", 0, FALSE)]
             /\ resets' = [resets EXCEPT ![j] = @ + 1]
             /\ Answered(w)
             /\ UNCHANGED <<surfaced, missed, issued, acked>>
    <3>1. ASSUME NEW i \in Job PROVE JobMove(i)
      BY <2>1, <2>3 DEF JobMove, Unlocked, Holds
    <3>2. LoopMoves /\ AckMoves
      BY <2>1, <2>3, <1>6 DEF LoopMoves, AckMoves, Answered
    <3>3. SurfaceMoves
      BY <2>1, <2>3 DEF SurfaceMoves, Unlocked
    <3> QED
      BY <3>1, <3>2, <3>3 DEF Moves
  <2> QED
    BY <1>15, <2>2, <2>3 DEF Park
<1>16. ASSUME NEW w \in Worker, HandlerError(w) \/ Abandon(w) PROVE Moves
  BY <1>16, <1>6, <1>7 DEF HandlerError, Abandon
<1>17. ASSUME NEW w \in Worker, Fallback(w) PROVE Moves
  <2>1. wk[w].pc # "idle" /\ \A v \in Worker : LoopMove(v)
    BY <1>17, <1>6 DEF Fallback
  <2>2. FailRow(w, FALSE) \/ UNCHANGED <<row, surfaced, missed, issued, resets, acked>>
    BY <1>17 DEF Fallback
  <2> QED
    BY <2>1, <2>2, <1>7, <1>9
<1>18. ASSUME NEW w \in Worker, ReleaseLease(w) PROVE Moves
  <2> DEFINE j == wk[w].job
  <2>1. wk[w].pc # "idle" /\ j \in Job
    BY <1>18 DEF ReleaseLease, LoopShape
  <2>2. /\ row[j].status = "RUNNING" /\ row' = [row EXCEPT ![j] = Released(@)]
        /\ resets' = [resets EXCEPT ![j] = @ + 1]
        /\ Rest(w) /\ UNCHANGED <<surfaced, missed, issued, acked>>
    BY <1>18 DEF ReleaseLease
  <2>3. ASSUME NEW i \in Job PROVE JobMove(i)
    BY <2>1, <2>2 DEF JobMove, Released, Unlocked, Row
  <2>4. LoopMoves /\ AckMoves
    BY <2>1, <2>2, <1>6 DEF LoopMoves, AckMoves
  <2>5. SurfaceMoves
    BY <2>1, <2>2 DEF SurfaceMoves, Released, Unlocked
  <2> QED
    BY <2>3, <2>4, <2>5 DEF Moves
<1>19. CASE UNCHANGED vars
  BY <1>19 DEF vars, Moves, JobMove, LoopMoves, LoopMove, AckMoves, SurfaceMoves
<1> QED
  BY <1>1, <1>2, <1>3, <1>4, <1>5, <1>10, <1>12, <1>13, <1>14, <1>15, <1>16, <1>17,
     <1>18, <1>19 DEF Next, Poll, Finish

-----------------------------------------------------------------------------
(* The inductive invariant *)

\* The runs granted to a job are paid for by its attempts and its resets.
RunsPaid ==
    \A j \in Job : /\ issued[j] <= row[j].attempts + MaxAttempts * resets[j]
                   /\ row[j].status = "ABSENT" => issued[j] = 0

IInv == /\ TypeOK /\ LoopShape /\ TokensIssued /\ AttemptsBounded /\ RunsPaid
        /\ QueuedIsClaimable /\ OwnerExclusive /\ ReportedSuccessStands
        /\ DeadLetterSurfaced /\ SurfacedIsDead

\* The inductive invariant holds of the empty queue.
LEMMA InitIInv == Init => IInv
<1> SUFFICES ASSUME Init PROVE IInv
  OBVIOUS
<1>1. TypeOK
  BY DEF Init, TypeOK, Row, Status, Loop, Idle
<1>2. LoopShape /\ TokensIssued /\ AttemptsBounded /\ QueuedIsClaimable
  BY DEF Init, LoopShape, TokensIssued, AttemptsBounded, QueuedIsClaimable, Idle
<1>3. RunsPaid
  BY DEF Init, RunsPaid
<1>4. OwnerExclusive /\ ReportedSuccessStands /\ DeadLetterSurfaced /\ SurfacedIsDead
  BY DEF Init, OwnerExclusive, ReportedSuccessStands, DeadLetterSurfaced, SurfacedIsDead, Idle
<1> QED
  BY <1>1, <1>2, <1>3, <1>4 DEF IInv

\* Every step of the queue, or a stutter, keeps the inductive invariant.
LEMMA StepIInv == IInv /\ [Next]_vars => IInv'
<1> SUFFICES ASSUME IInv, [Next]_vars PROVE IInv'
  OBVIOUS
<1>1. TypeOK'
  BY TypeStep DEF IInv
<1>2. Moves
  BY StepMoves DEF IInv
<1>3. LoopShape'
  <2>1. CASE \A w \in Worker : LoopMove(w)
    BY <2>1, <1>1 DEF LoopMove, SamePost, LoopShape, IInv, Idle, TypeOK, Loop
  <2>2. CASE \E w \in Worker, j \in Job :
               wk' = [wk EXCEPT ![w] = [pc |-> "run", job |-> j, token |-> issued[j] + 1]]
    BY <2>2 DEF LoopShape, IInv, TypeOK
  <2> QED
    BY <1>2, <2>1, <2>2 DEF Moves, LoopMoves
<1>4. ASSUME NEW j \in Job
      PROVE  /\ row'[j].attempts <= MaxAttempts
             /\ row'[j].status = "QUEUED" => row'[j].attempts < MaxAttempts
             /\ (row'[j].status = "RUNNING") <=> (row'[j].token # NoToken)
             /\ row'[j].token \in {NoToken, issued'[j]}
  <2>1. JobMove(j)
    BY <1>2 DEF Moves
  <2>2. /\ row[j] \in Row /\ row'[j] \in Row
        /\ row[j].attempts \in Nat /\ row[j].token \in Nat /\ issued[j] \in Nat
    BY <1>1 DEF IInv, TypeOK, Row
  <2>3. /\ row[j].attempts <= MaxAttempts
        /\ row[j].status = "QUEUED" => row[j].attempts < MaxAttempts
        /\ (row[j].status = "RUNNING") <=> (row[j].token # NoToken)
        /\ row[j].token \in {NoToken, issued[j]}
    BY DEF IInv, AttemptsBounded, QueuedIsClaimable, TokensIssued
  <2>4. row[j].status = "RUNNING" /\ row'[j].status = "QUEUED" /\ row'[j].attempts = row[j].attempts - 1
           => row'[j].attempts < MaxAttempts
    BY <2>2, <2>3
  <2> QED
    BY <2>1, <2>2, <2>3, <2>4 DEF JobMove, Row
<1>5. AttemptsBounded' /\ QueuedIsClaimable'
  BY <1>4 DEF AttemptsBounded, QueuedIsClaimable
<1>6. RunsPaid'
  <2> SUFFICES ASSUME NEW j \in Job
               PROVE  /\ issued'[j] <= row'[j].attempts + MaxAttempts * resets'[j]
                      /\ row'[j].status = "ABSENT" => issued'[j] = 0
    BY DEF RunsPaid
  <2>1. JobMove(j)
    BY <1>2 DEF Moves
  <2>2. /\ row[j].attempts \in Nat /\ row'[j].attempts \in Nat /\ issued[j] \in Nat
        /\ resets[j] \in Nat /\ row[j].attempts <= MaxAttempts
        /\ row[j] \in Row
    BY <1>1 DEF IInv, TypeOK, Row, AttemptsBounded
  <2>3. /\ issued[j] <= row[j].attempts + MaxAttempts * resets[j]
        /\ row[j].status = "ABSENT" => issued[j] = 0
    BY DEF IInv, RunsPaid
  <2>4. MaxAttempts * (resets[j] + 1) = MaxAttempts * resets[j] + MaxAttempts
        /\ MaxAttempts * resets[j] \in Nat
    BY <2>2
  <2>5. CASE row'[j].status = "ABSENT"
    BY <2>1, <2>2, <2>3, <2>4, <2>5 DEF JobMove, Row
  <2>6. CASE row'[j].status # "ABSENT"
    <3>1. CASE resets'[j] = resets[j]
      BY <2>1, <2>2, <2>3, <2>4, <2>6, <3>1 DEF JobMove, Row
    <3>2. CASE resets'[j] = resets[j] + 1 /\ issued'[j] = issued[j]
      BY <2>2, <2>3, <2>4, <2>6, <3>2
    <3> QED
      BY <2>1, <3>1, <3>2 DEF JobMove
  <2> QED
    BY <2>5, <2>6
<1>7. TokensIssued' /\ OwnerExclusive'
  <2>1. CASE issued' = issued /\ \A w \in Worker : LoopMove(w)
    BY <1>3, <1>4, <2>1 DEF LoopMove, SamePost, LoopShape, IInv, Idle, TokensIssued, OwnerExclusive
  <2>2. CASE \E w \in Worker, j \in Job :
               /\ wk' = [wk EXCEPT ![w] = [pc |-> "run", job |-> j, token |-> issued[j] + 1]]
               /\ issued' = [issued EXCEPT ![j] = @ + 1]
    <3>1. PICK w \in Worker, j \in Job :
               /\ wk' = [wk EXCEPT ![w] = [pc |-> "run", job |-> j, token |-> issued[j] + 1]]
               /\ issued' = [issued EXCEPT ![j] = @ + 1]
      BY <2>2
    <3>2. \A i \in Job : issued[i] \in Nat /\ issued'[i] = IF i = j THEN issued[j] + 1 ELSE issued[i]
      BY <3>1 DEF IInv, TypeOK
    <3>3. /\ wk'[w].pc = "run" /\ wk'[w].job = j /\ wk'[w].token = issued[j] + 1
          /\ \A v \in Worker : v # w => wk'[v] = wk[v]
      BY <3>1 DEF IInv, TypeOK
    <3>4. \A v \in Worker : wk[v].token \in Nat
                           /\ (wk[v].pc # "idle" => wk[v].job \in Job /\ wk[v].token # NoToken
                                                    /\ wk[v].token <= issued[wk[v].job])
                           /\ (wk[v].pc = "idle" => wk[v].job = NoJob)
      BY DEF IInv, TypeOK, Loop, TokensIssued, LoopShape, Idle
    <3>5. TokensIssued'
      BY <1>4, <3>2, <3>3, <3>4 DEF TokensIssued
    <3>6. OwnerExclusive'
      BY <3>2, <3>3, <3>4 DEF OwnerExclusive, IInv
    <3> QED
      BY <3>5, <3>6
  <2> QED
    BY <1>2, <2>1, <2>2 DEF Moves, LoopMoves
<1>8. ReportedSuccessStands'
  <2>1. \A j \in Job : row[j].status = "SUCCEEDED" => row'[j] = row[j]
    BY <1>2 DEF Moves, JobMove
  <2>2. acked \subseteq Job \X Nat
    BY DEF IInv, TypeOK
  <2>3. CASE acked' = acked
    BY <2>1, <2>2, <2>3 DEF ReportedSuccessStands, IInv
  <2>4. CASE \E w \in Worker :
               /\ wk[w].pc # "idle" /\ Holds(w)
               /\ row'[wk[w].job].status = "SUCCEEDED"
               /\ acked' = acked \cup {<<wk[w].job, wk[w].token>>}
    <3>1. PICK w \in Worker :
               /\ wk[w].pc # "idle" /\ Holds(w)
               /\ row'[wk[w].job].status = "SUCCEEDED"
               /\ acked' = acked \cup {<<wk[w].job, wk[w].token>>}
      BY <2>4
    <3>2. \A a \in acked : a[1] # wk[w].job
      BY <3>1 DEF Holds, IInv, ReportedSuccessStands
    <3> QED
      BY <2>1, <2>2, <3>1, <3>2 DEF ReportedSuccessStands, IInv
  <2> QED
    BY <1>2, <2>3, <2>4 DEF Moves, AckMoves
<1>9. DeadLetterSurfaced' /\ SurfacedIsDead'
  <2>1. \A j \in Pipeline : row[j].status = "DEAD_LETTER" => row'[j] = row[j]
    BY <1>2 DEF Moves, JobMove
  <2>2. surfaced \cup missed \subseteq Pipeline /\ surfaced' \cup missed' \subseteq Pipeline
    BY <1>1 DEF IInv, TypeOK
  <2> QED
    BY <1>2, <2>1, <2>2 DEF Moves, SurfaceMoves, DeadLetterSurfaced, SurfacedIsDead, IInv
<1> QED
  BY <1>1, <1>3, <1>5, <1>6, <1>7, <1>8, <1>9 DEF IInv

\* The conjunction of the safety invariants, with what makes it inductive:
\* tokens come from the counter of tokens generated, runs are paid for by
\* attempts, and idle loops hold nothing.
THEOREM Invariance == Spec => []IInv
BY InitIInv, StepIInv, PTL DEF Spec

-----------------------------------------------------------------------------
(* What the queue guarantees *)

\* Every variable keeps its type.
THEOREM TypeCorrect == Spec => []TypeOK
BY Invariance, PTL DEF IInv

\* However many workers there are and however their leases expire, no two of
\* them hold the same lock token of a job (claim_with, heartbeat).
THEOREM OneOwner == Spec => []OwnerExclusive
BY Invariance, PTL DEF IInv

\* A completion reported to a worker (succeed) is final and reported once.
THEOREM CompletionStands == Spec => []ReportedSuccessStands
BY Invariance, PTL DEF IInv

\* No QUEUED row is invisible to the claim query, whatever max_attempts is.
THEOREM AlwaysClaimable == Spec => []QueuedIsClaimable
BY Invariance, PTL DEF IInv

\* A pipeline dead letter is surfaced on its release, or its savepoint failed.
THEOREM NoSilentDeadLetter == Spec => [](DeadLetterSurfaced /\ SurfacedIsDead)
BY Invariance, PTL DEF IInv

\* The retry budget bounds the runs of a job by its attempts and its resets.
THEOREM BoundedRuns == Spec => []RunsBounded
<1>1. IInv => RunsBounded
  <2> SUFFICES ASSUME IInv, NEW j \in Job
               PROVE  issued[j] <= MaxAttempts * (resets[j] + 1)
    BY DEF RunsBounded
  <2>1. /\ row[j].attempts \in Nat /\ row[j].attempts <= MaxAttempts
        /\ resets[j] \in Nat /\ issued[j] \in Nat
    BY DEF IInv, TypeOK, Row, AttemptsBounded
  <2>2. issued[j] <= row[j].attempts + MaxAttempts * resets[j]
    BY DEF IInv, RunsPaid
  <2>3. MaxAttempts * (resets[j] + 1) = MaxAttempts * resets[j] + MaxAttempts
        /\ MaxAttempts * resets[j] \in Nat
    BY <2>1
  <2> QED
    BY <2>1, <2>2, <2>3
<1> QED
  BY <1>1, Invariance, PTL

\* SUCCEEDED and DEAD_LETTER rows never change again: not by a late worker, a
\* sweep, a shutdown or a second enqueue.
THEOREM SettledStays == Spec => SettledForGood
<1>1. IInv /\ [Next]_vars =>
        [\A j \in Job : row[j].status \in {"SUCCEEDED", "DEAD_LETTER"} => row'[j] = row[j]]_vars
  <2> SUFFICES ASSUME IInv, [Next]_vars, NEW j \in Job, row[j].status \in {"SUCCEEDED", "DEAD_LETTER"}
               PROVE  row'[j] = row[j]
    OBVIOUS
  <2>1. JobMove(j)
    BY StepMoves DEF IInv, Moves
  <2> QED
    BY <2>1 DEF JobMove
<1> QED
  BY <1>1, Invariance, PTL DEF Spec, SettledForGood

\* The queue implements the life of a job that JobLifecycle promises.
THEOREM Refinement == Spec => ImplementsLifecycle
<1> DEFINE phase == [j \in Job |-> row[j].status]
<1>1. Init => Life!Init
  BY DEF Init, Life!Init
<1>2. IInv /\ [Next]_vars => [Life!Next]_(Life!vars)
  <2> SUFFICES ASSUME IInv, [Next]_vars PROVE Life!Next
    OBVIOUS
  <2>1. TypeOK' /\ Moves
    BY TypeStep, StepMoves DEF IInv
  <2>2. ASSUME NEW j \in Job
        PROVE  Life!Post(j) \/ Life!Grant(j) \/ Life!Return(j) \/ Life!Settle(j) \/ Life!Same(j)
    <3>1. JobMove(j) /\ phase[j] = row[j].status /\ phase'[j] = row'[j].status /\ row[j] \in Row
      BY <2>1 DEF Moves, IInv, TypeOK
    <3> QED
      BY <3>1 DEF JobMove, Row, Life!Post, Life!Grant, Life!Return, Life!Settle, Life!Same
  <2>3. phase' \in [Job -> {"ABSENT", "QUEUED", "RUNNING", "SUCCEEDED", "DEAD_LETTER"}]
        /\ issued' \in [Job -> Nat]
    BY <2>1 DEF TypeOK, Row, Status
  <2>4. acked \subseteq acked' /\ acked' \ acked \subseteq Life!Completed
    <3>1. CASE acked' = acked
      BY <3>1
    <3>2. CASE \E w \in Worker :
                 /\ wk[w].pc # "idle" /\ Holds(w)
                 /\ row'[wk[w].job].status = "SUCCEEDED"
                 /\ acked' = acked \cup {<<wk[w].job, wk[w].token>>}
      <4>1. PICK w \in Worker :
                 /\ wk[w].pc # "idle" /\ Holds(w)
                 /\ row'[wk[w].job].status = "SUCCEEDED"
                 /\ acked' = acked \cup {<<wk[w].job, wk[w].token>>}
        BY <3>2
      <4>2. wk[w].job \in Job
        BY <4>1 DEF IInv, LoopShape
      <4>3. wk[w].token = issued[wk[w].job]
        BY <4>1, <4>2 DEF Holds, IInv, TokensIssued
      <4> QED
        BY <4>1, <4>2, <4>3 DEF Life!Completed, Holds
    <3> QED
      BY <2>1, <3>1, <3>2 DEF Moves, AckMoves
  <2> QED
    BY <2>2, <2>3, <2>4 DEF Life!Next
<1> QED
  BY <1>1, <1>2, Invariance, PTL DEF Spec, ImplementsLifecycle, Life!Spec

=============================================================================
