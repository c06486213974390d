-------------------------- MODULE SubmissionProofs --------------------------
(***************************************************************************)
(* What is proved of a release on its way to its partners: of the masters  *)
(* that are uploaded for it (Uploads), of the request by which an AI       *)
(* connection submits it (AssistantRequests), and of the pipeline that     *)
(* takes the submission through its stages (ReleasePipeline).  The three   *)
(* are separate specifications; each part has its invariant and theorems.  *)
(***************************************************************************)
EXTENDS Uploads, AssistantRequests, ReleasePipeline, TLAPS

-----------------------------------------------------------------------------
(* Uploads: for any number of completions and analyses, a session ends once,    *)
(* its registered master stays in the store unless the reply of the            *)
(* registration was lost, and nothing else is left behind but by a completion  *)
(* that was cut off or that the store failed.                                  *)

\* A completion has its master in the store from its put_file to the registering
\* transaction, and only that makes an asset name it.
Stored ==
    /\ \A c \in Call : pc[c] \in {"idle", "finish", "inspect", "store"} => c \notin masters
    /\ \A c \in Call : pc[c] \in {"check", "register"} => c \in masters /\ asset.key # c
    /\ \A c \in Call : pc[c] \in {"idle", "finish", "inspect", "store", "drop"} => asset.key # c
    /\ \A c \in Call : pc[c] = "discard" /\ asset.key = c => lost

\* A completion that found another one first is not the one the asset names.
DropsDuplicates == \A c \in Call : pc[c] = "drop" => session = "COMPLETED"

\* An open session has no master and no answer yet.
OpenIsFresh ==
    /\ session = "COMPLETED" <=> asset.key # NoMaster
    /\ session # "COMPLETED" => asset.qc = "PENDING" /\ asset.by = "none" /\ reading = {}

UploadsInv ==
    UploadsTypeOK /\ Agree /\ MastersKept /\ NoOrphans /\ Stored /\ DropsDuplicates /\ OpenIsFresh

-----------------------------------------------------------------------------
LEMMA InitUploads == UploadsInit => UploadsInv
  <1> SUFFICES ASSUME UploadsInit PROVE UploadsInv
    OBVIOUS
  <1> USE UploadsAssumption
  <1>1. UploadsTypeOK
    BY DEF UploadsInit, UploadsTypeOK, Quality, Working, Answer
  <1>2. Agree /\ MastersKept /\ NoOrphans
    BY DEF UploadsInit, Agree, MastersKept, NoOrphans
  <1>3. Stored /\ DropsDuplicates /\ OpenIsFresh
    BY DEF UploadsInit, Stored, DropsDuplicates, OpenIsFresh
  <1>4. QED
    BY <1>1, <1>2, <1>3 DEF UploadsInv

\* What the device, the store, the clock and an analysis that begins do.
Outside ==
    \/ Put \/ StoreParts \/ Lifecycle \/ Expire \/ AbortParts
    \/ \E r \in Read : StartAnalysis(r)

LEMMA OutsideStep == UploadsInv /\ Outside => UploadsInv'
  <1> SUFFICES ASSUME UploadsInv, Outside PROVE UploadsInv'
    OBVIOUS
  <1>1. /\ UNCHANGED <<session, asset, masters, pc, said, strays, lost>>
        /\ session # "COMPLETED" => reading' = reading
    BY DEF Outside, Put, StoreParts, Lifecycle, Expire, AbortParts, StartAnalysis,
           UploadsInv, Agree, rows, store, calls, history
  <1>2. /\ term' \in {"url", "grace", "over"} /\ source' \in {"none", "good", "bad"}
        /\ parts' \in {"none", "open", "full", "ended"}
        /\ reading' \subseteq Read /\ analyze' \in {"none", "queued", "ended", "drift"}
    BY DEF Outside, Put, StoreParts, Lifecycle, Expire, AbortParts, StartAnalysis,
           UploadsInv, UploadsTypeOK, rows, store, calls, history
  <1>3. UploadsTypeOK'
    BY <1>1, <1>2 DEF UploadsInv, UploadsTypeOK
  <1>4. QED
    BY <1>1, <1>3 DEF UploadsInv, Agree, MastersKept, NoOrphans, Stored, DropsDuplicates, OpenIsFresh

LEMMA CancelStep == UploadsInv /\ Cancel => UploadsInv'
  <1> SUFFICES ASSUME UploadsInv, Cancel PROVE UploadsInv'
    OBVIOUS
  <1>1. /\ session = "ISSUED" /\ session' = "CANCELLED"
        /\ asset' = [asset EXCEPT !.state = "REJECTED"]
        /\ UNCHANGED <<term, source, parts, masters, pc, said, analyze, reading, strays, lost>>
    BY DEF Cancel, UploadsInv, UploadsTypeOK, Agree, store, calls, history
  <1>2. /\ asset'.key = asset.key /\ asset'.qc = asset.qc /\ asset'.by = asset.by
        /\ asset'.state = "REJECTED"
    BY <1>1 DEF UploadsInv, UploadsTypeOK
  <1>3. UploadsTypeOK'
    BY <1>1 DEF UploadsInv, UploadsTypeOK
  <1>4. QED
    BY <1>1, <1>2, <1>3
       DEF UploadsInv, Agree, MastersKept, NoOrphans, Stored, DropsDuplicates, OpenIsFresh

\* Only the quality of the asset, and who answered, change.
LEMMA QualityStep == UploadsInv /\ (Stage1Answers \/ \E r \in Read : EndAnalysis(r)) => UploadsInv'
  <1> SUFFICES ASSUME UploadsInv, Stage1Answers \/ \E r \in Read : EndAnalysis(r) PROVE UploadsInv'
    OBVIOUS
  <1>1. /\ UNCHANGED <<session, term, source, parts, masters, pc, said, strays, lost>>
        /\ reading' \subseteq reading /\ analyze' \in {analyze, "ended"}
    BY DEF Stage1Answers, EndAnalysis, store, calls, history
  <1>2. session = "COMPLETED"
    BY DEF Stage1Answers, EndAnalysis, UploadsInv, OpenIsFresh
  <1>3. \/ asset' = asset
        \/ \E qc \in Quality, by \in {"analysis", "stage1"} :
              asset' = [asset EXCEPT !.qc = qc, !.by = by]
    BY DEF Stage1Answers, EndAnalysis
  <1>4. /\ asset'.key = asset.key /\ asset'.state = asset.state
        /\ asset' \in [state: {"UPLOADING", "REGISTERED", "REJECTED"}, key: Call \cup {NoMaster},
                       qc: Quality \cup {"PENDING"}, by: {"none", "upload", "analysis", "stage1"}]
    BY <1>3 DEF UploadsInv, UploadsTypeOK
  <1>5. UploadsTypeOK'
    BY <1>1, <1>4 DEF UploadsInv, UploadsTypeOK
  <1>6. QED
    BY <1>1, <1>2, <1>4, <1>5
       DEF UploadsInv, Agree, MastersKept, NoOrphans, Stored, DropsDuplicates, OpenIsFresh

-----------------------------------------------------------------------------
(* The stages of a completion *)

\* Before a completion stores anything it only moves on, or ends refused, or is
\* told of the master that is registered.
Early(c) == Begin(c) \/ FinishParts(c) \/ Inspect(c) \/ Refuse(c)

LEMMA EarlyStep == ASSUME UploadsInv, NEW c \in Call, Early(c) PROVE UploadsInv'
  <1>1. /\ UNCHANGED <<session, term, asset, masters, analyze, reading, strays, lost>>
        /\ source' \in {"none", "good", "bad"} /\ parts' \in {"none", "open", "full", "ended"}
    BY DEF Early, Begin, FinishParts, Inspect, Refuse, rows, store, history, UploadsInv, UploadsTypeOK
  <1>2. pc[c] \in {"idle", "finish", "inspect", "store"}
    BY DEF Early, Begin, FinishParts, Inspect, Refuse
  <1>3. PICK to \in {"finish", "inspect", "store", "done"}, answer \in Answer :
           /\ pc' = [pc EXCEPT ![c] = to]
           /\ said' = [said EXCEPT ![c] = answer] \/ (said' = said /\ to # "done")
           /\ answer = "duplicate" => session = "COMPLETED"
           /\ answer # "registered"
    <2>1. CASE \E to \in {"finish", "inspect", "store"} : Goto(c, to) /\ UNCHANGED said
      BY <2>1 DEF Goto, Answer
    <2>2. CASE End(c, "refused") \/ (session = "COMPLETED" /\ End(c, "duplicate"))
      BY <2>2 DEF End, Goto, Answer
    <2>3. QED
      BY <2>1, <2>2 DEF Early, Begin, FinishParts, Inspect, Refuse, rows, store
  <1>4. UploadsTypeOK'
    BY <1>1, <1>3 DEF UploadsInv, UploadsTypeOK, Working
  <1>5. /\ pc'[c] \in {"finish", "inspect", "store", "done"}
        /\ \A d \in Call : d # c => pc'[d] = pc[d] /\ said'[d] = said[d]
        /\ said'[c] = said[c] \/ (said'[c] = "duplicate" /\ session = "COMPLETED")
           \/ said'[c] \in {"refused", "none"}
    BY <1>3 DEF UploadsInv, UploadsTypeOK, Answer
  <1>6. Agree'
    BY <1>1, <1>5 DEF UploadsInv, Agree
  <1>7. MastersKept' /\ OpenIsFresh'
    BY <1>1 DEF UploadsInv, MastersKept, OpenIsFresh
  <1>8. Stored' /\ DropsDuplicates'
    BY <1>1, <1>2, <1>5 DEF UploadsInv, Stored, DropsDuplicates
  <1>9. NoOrphans'
    <2> SUFFICES ASSUME NEW d \in masters', d # asset'.key, d \notin strays' PROVE pc'[d] \in Working
      BY DEF NoOrphans
    <2>1. d \in Call /\ pc[d] \in Working
      BY <1>1 DEF UploadsInv, NoOrphans, UploadsTypeOK
    <2>2. d # c
      BY <1>1, <1>2 DEF UploadsInv, Stored
    <2>3. QED
      BY <2>1, <2>2, <1>5
  <1>10. QED
    BY <1>4, <1>6, <1>7, <1>8, <1>9 DEF UploadsInv

\* The store has the master now, or has it and says it failed.
LEMMA StoreStep == ASSUME UploadsInv, NEW c \in Call, Store(c) PROVE UploadsInv'
  <1>1. /\ UNCHANGED <<session, term, asset, source, parts, analyze, reading, lost>>
        /\ masters' = masters \cup {c}
        /\ asset.key # c /\ session' = session
    BY DEF Store, rows, UploadsInv, Stored
  <1>2. \/ pc' = [pc EXCEPT ![c] = "check"] /\ UNCHANGED <<said, strays>>
        \/ /\ pc' = [pc EXCEPT ![c] = "done"] /\ said' = [said EXCEPT ![c] = "refused"]
           /\ strays' = strays \cup {c}
    BY DEF Store, Goto, End
  <1>3. UploadsTypeOK'
    BY <1>1, <1>2 DEF UploadsInv, UploadsTypeOK, Working, Answer
  <1>4. /\ \A d \in Call : d # c => pc'[d] = pc[d] /\ said'[d] = said[d]
        /\ pc'[c] = "check" \/ (pc'[c] = "done" /\ c \in strays')
        /\ said'[c] \in {said[c], "refused"} /\ strays \subseteq strays'
    BY <1>2 DEF UploadsInv, UploadsTypeOK
  <1>5. Agree'
    BY <1>1, <1>4 DEF UploadsInv, Agree
  <1>6. MastersKept' /\ OpenIsFresh' /\ DropsDuplicates'
    BY <1>1, <1>4 DEF UploadsInv, MastersKept, OpenIsFresh, DropsDuplicates
  <1>7. Stored'
    BY <1>1, <1>4 DEF UploadsInv, Stored
  <1>8. NoOrphans'
    BY <1>1, <1>4 DEF UploadsInv, NoOrphans, Working, UploadsTypeOK
  <1>9. QED
    BY <1>3, <1>5, <1>6, <1>7, <1>8 DEF UploadsInv

\* What was stored goes on to be registered or deleted.
LEMMA TurnStep == ASSUME UploadsInv, NEW c \in Call, CheckStored(c) \/ NotRegistered(c) PROVE UploadsInv'
  <1>1. UNCHANGED <<session, term, asset, source, parts, masters, said, analyze, reading, strays, lost>>
    BY DEF CheckStored, NotRegistered, rows, store, history
  <1>2. PICK to \in {"register", "discard", "drop"} :
           pc' = [pc EXCEPT ![c] = to] /\ (to = "drop" => session = "COMPLETED")
    BY DEF CheckStored, NotRegistered, Goto
  <1>3. asset.key # c
    BY DEF CheckStored, NotRegistered, UploadsInv, Stored
  <1>4. c \in masters
    BY DEF CheckStored, NotRegistered, UploadsInv, Stored
  <1>5. UploadsTypeOK'
    BY <1>1, <1>2 DEF UploadsInv, UploadsTypeOK, Working
  <1>6. /\ \A d \in Call : d # c => pc'[d] = pc[d]
        /\ pc'[c] \in {"register", "discard", "drop"}
        /\ pc'[c] = "drop" => session = "COMPLETED"
    BY <1>2 DEF UploadsInv, UploadsTypeOK
  <1>7. Agree' /\ MastersKept' /\ OpenIsFresh'
    BY <1>1 DEF UploadsInv, Agree, MastersKept, OpenIsFresh
  <1>8. Stored' /\ DropsDuplicates'
    BY <1>1, <1>3, <1>4, <1>6 DEF UploadsInv, Stored, DropsDuplicates
  <1>9. NoOrphans'
    BY <1>1, <1>6 DEF UploadsInv, NoOrphans, Working, UploadsTypeOK
  <1>10. QED
    BY <1>5, <1>7, <1>8, <1>9 DEF UploadsInv

\* The asset names the master of the completion that registers.
LEMMA RegisterStep == ASSUME UploadsInv, NEW c \in Call, Register(c) PROVE UploadsInv'
  <1> USE UploadsAssumption
  <1>1. /\ session = "ISSUED" /\ session' = "COMPLETED" /\ pc[c] = "register"
        /\ UNCHANGED <<term, source, parts, masters, reading, strays>> /\ analyze' = "queued"
    BY DEF Register, Registered, Open, store
  <1>2. PICK qc \in Quality \cup {"PENDING"} :
           asset' = [state |-> "REGISTERED", key |-> c, qc |-> qc,
                     by |-> IF qc = "PENDING" THEN "none" ELSE "upload"]
    BY DEF Register, Registered
  <1>3. \/ /\ pc' = [pc EXCEPT ![c] = "done"] /\ said' = [said EXCEPT ![c] = "registered"]
           /\ UNCHANGED lost
        \/ pc' = [pc EXCEPT ![c] = "discard"] /\ UNCHANGED said /\ lost' = TRUE
    BY DEF Register, Goto, End
  <1>4. c \in masters /\ asset.key = NoMaster
    BY <1>1 DEF UploadsInv, Stored, OpenIsFresh
  <1>5. UploadsTypeOK'
    <2>1. asset' \in [state: {"UPLOADING", "REGISTERED", "REJECTED"}, key: Call \cup {NoMaster},
                      qc: Quality \cup {"PENDING"}, by: {"none", "upload", "analysis", "stage1"}]
      BY <1>2
    <2>2. lost' \in BOOLEAN
      BY <1>3 DEF UploadsInv, UploadsTypeOK
    <2>3. pc' \in [Call -> Working \cup {"idle", "done"}] /\ said' \in [Call -> Answer]
      BY <1>3 DEF UploadsInv, UploadsTypeOK, Working, Answer
    <2>4. QED
      BY <1>1, <2>1, <2>2, <2>3 DEF UploadsInv, UploadsTypeOK
  <1>6. /\ \A d \in Call : d # c => pc'[d] = pc[d] /\ said'[d] = said[d]
        /\ pc'[c] = "done" \/ (pc'[c] = "discard" /\ lost')
        /\ said'[c] \in {said[c], "registered"} /\ (lost => lost')
    BY <1>3 DEF UploadsInv, UploadsTypeOK
  <1>7. asset'.state = "REGISTERED" /\ asset'.key = c
    BY <1>2
  <1>8. Agree'
    <2>1. \A d \in Call : said[d] # "registered"
      BY <1>1 DEF UploadsInv, Agree
    <2>2. QED
      BY <1>1, <1>6, <1>7, <2>1 DEF UploadsInv, Agree
  <1>9. MastersKept' /\ OpenIsFresh'
    BY <1>1, <1>4, <1>7 DEF MastersKept, OpenIsFresh
  <1>10. Stored' /\ DropsDuplicates'
    BY <1>1, <1>4, <1>6, <1>7 DEF UploadsInv, Stored, DropsDuplicates
  <1>11. NoOrphans'
    BY <1>1, <1>4, <1>6, <1>7 DEF UploadsInv, NoOrphans, UploadsTypeOK
  <1>12. QED
    BY <1>5, <1>8, <1>9, <1>10, <1>11 DEF UploadsInv

\* A completion deletes only what it stored itself.
LEMMA DiscardStep == ASSUME UploadsInv, NEW c \in Call, Discard(c) PROVE UploadsInv'
  <1>1. /\ UNCHANGED <<session, term, asset, source, parts, analyze, reading, lost>>
        /\ pc[c] \in {"discard", "drop"} /\ pc' = [pc EXCEPT ![c] = "done"]
    BY DEF Discard, rows, End, Goto
  <1>2. \/ masters' = masters \ {c} /\ strays' = strays
        \/ masters' = masters /\ strays' = strays \cup {c}
    BY DEF Discard
  <1>3. PICK answer \in {"refused", "duplicate"} :
           said' = [said EXCEPT ![c] = answer] /\ (answer = "duplicate" => session = "COMPLETED")
    BY DEF Discard, End, UploadsInv, DropsDuplicates
  <1>4. UploadsTypeOK'
    BY <1>1, <1>2, <1>3 DEF UploadsInv, UploadsTypeOK, Answer
  <1>5. /\ \A d \in Call : d # c => pc'[d] = pc[d] /\ said'[d] = said[d]
        /\ pc'[c] = "done" /\ said'[c] # "registered"
        /\ said'[c] = "duplicate" => session = "COMPLETED"
    BY <1>1, <1>3 DEF UploadsInv, UploadsTypeOK
  <1>6. Agree'
    BY <1>1, <1>5 DEF UploadsInv, Agree
  <1>7. MastersKept'
    BY <1>1, <1>2 DEF UploadsInv, MastersKept, Stored
  <1>8. OpenIsFresh' /\ DropsDuplicates'
    BY <1>1, <1>5 DEF UploadsInv, OpenIsFresh, DropsDuplicates
  <1>9. Stored'
    BY <1>1, <1>2, <1>5 DEF UploadsInv, Stored
  <1>10. NoOrphans'
    BY <1>1, <1>2, <1>5 DEF UploadsInv, NoOrphans, UploadsTypeOK
  <1>11. QED
    BY <1>4, <1>6, <1>7, <1>8, <1>9, <1>10 DEF UploadsInv

LEMMA CutOffStep == ASSUME UploadsInv, NEW c \in Call, CutOff(c) PROVE UploadsInv'
  <1>1. /\ UNCHANGED <<session, term, asset, source, parts, masters, analyze, reading, lost>>
        /\ pc' = [pc EXCEPT ![c] = "done"] /\ said' = [said EXCEPT ![c] = "none"]
        /\ strays' = strays \cup {c}
    BY DEF CutOff, rows, store, End, Goto
  <1>2. UploadsTypeOK'
    BY <1>1 DEF UploadsInv, UploadsTypeOK, Answer
  <1>3. /\ \A d \in Call : d # c => pc'[d] = pc[d] /\ said'[d] = said[d]
        /\ pc'[c] = "done" /\ said'[c] = "none"
    BY <1>1 DEF UploadsInv, UploadsTypeOK
  <1>4. Agree' /\ MastersKept' /\ OpenIsFresh' /\ DropsDuplicates'
    BY <1>1, <1>3 DEF UploadsInv, Agree, MastersKept, OpenIsFresh, DropsDuplicates
  <1>5. Stored' /\ NoOrphans'
    BY <1>1, <1>3 DEF UploadsInv, Stored, NoOrphans, UploadsTypeOK
  <1>6. QED
    BY <1>2, <1>4, <1>5 DEF UploadsInv

LEMMA NextUploads == UploadsInv /\ [UploadsNext]_uploadsVars => UploadsInv'
  <1> SUFFICES ASSUME UploadsInv, [UploadsNext]_uploadsVars PROVE UploadsInv'
    OBVIOUS
  <1>1. ASSUME NEW c \in Call, Complete(c) PROVE UploadsInv'
    <2>1. Early(c) \/ Store(c) \/ CheckStored(c) \/ NotRegistered(c) \/ Register(c) \/ Discard(c) \/ CutOff(c)
      BY <1>1 DEF Complete, Early
    <2>2. QED
      BY <2>1, EarlyStep, StoreStep, TurnStep, RegisterStep, DiscardStep, CutOffStep
  <1>2. CASE UNCHANGED uploadsVars
    BY <1>2 DEF uploadsVars, UploadsInv, UploadsTypeOK, Agree, MastersKept, NoOrphans, Stored, DropsDuplicates,
           OpenIsFresh
  <1>3. CASE UploadsNext
    <2>1. (\E c \in Call : Complete(c)) \/ Outside \/ Cancel \/ Stage1Answers \/ \E r \in Read : EndAnalysis(r)
      BY <1>3 DEF UploadsNext, Outside
    <2>2. QED
      BY <2>1, <1>1, OutsideStep, CancelStep, QualityStep
  <1>4. QED
    BY <1>2, <1>3

\* What every reachable state of an upload satisfies.
THEOREM UploadsInvariant == UploadsSpec => []UploadsInv
  <1>1. QED
    BY InitUploads, NextUploads, PTL DEF UploadsSpec

-----------------------------------------------------------------------------
\* The rows, the store and the completions keep their shape.
THEOREM UploadsTyped == UploadsSpec => []UploadsTypeOK
  <1>1. UploadsInv => UploadsTypeOK
    BY DEF UploadsInv
  <1>2. QED
    BY <1>1, UploadsInvariant, PTL

\* However many completions store and delete masters beside each other, the
\* registered one stays, unless the reply of its registration was lost.
THEOREM RegisteredMasterStays == UploadsSpec => []MastersKept
  <1>1. UploadsInv => MastersKept
    BY DEF UploadsInv
  <1>2. QED
    BY <1>1, UploadsInvariant, PTL

\* A master that no asset names is deleted by the completion that stored it,
\* unless that is cut off or the store fails it.
THEOREM NothingIsLeftBehind == UploadsSpec => []NoOrphans
  <1>1. UploadsInv => NoOrphans
    BY DEF UploadsInv
  <1>2. QED
    BY <1>1, UploadsInvariant, PTL

\* A session that ended keeps its end and its master.
LEMMA EndStays ==
    ASSUME UploadsInv, UploadsNext, session # "ISSUED"
    PROVE  session' = session /\ asset'.key = asset.key
  <1>1. CASE \E c \in Call : Complete(c)
    BY <1>1 DEF Complete, Begin, FinishParts, Inspect, Refuse, Store, CheckStored, Register, Registered,
           Open, NotRegistered, Discard, CutOff, rows
  <1>2. CASE Outside
    BY <1>2 DEF Outside, Put, StoreParts, Lifecycle, Expire, AbortParts, StartAnalysis, rows
  <1>3. CASE Cancel
    BY <1>3 DEF Cancel
  <1>4. CASE Stage1Answers \/ \E r \in Read : EndAnalysis(r)
    BY <1>4 DEF Stage1Answers, EndAnalysis, UploadsInv, UploadsTypeOK
  <1>5. QED
    BY <1>1, <1>2, <1>3, <1>4 DEF UploadsNext, Outside

\* A session is completed or cancelled once, and the asset and every answer of a
\* completion agree with how it ended.
THEOREM SessionsEndOnce == UploadsSpec => OneOutcome
  <1>1. UploadsInv => Agree
    BY DEF UploadsInv
  <1>2. UploadsInv /\ [UploadsNext]_uploadsVars
           => [session # "ISSUED" => session' = session /\ asset'.key = asset.key]_uploadsVars
    BY EndStays DEF uploadsVars
  <1>3. QED
    BY <1>1, <1>2, UploadsInvariant, PTL DEF UploadsSpec, OneOutcome

\* Only stage 1 replaces an answer on the quality of a master.
LEMMA AnswerStays ==
    ASSUME UploadsInv, UploadsNext, asset.qc # "PENDING"
    PROVE  asset' = asset \/ asset'.by = "stage1"
  <1>1. session = "COMPLETED"
    BY DEF UploadsInv, OpenIsFresh
  <1>2. CASE \E c \in Call : Complete(c)
    BY <1>1, <1>2 DEF Complete, Begin, FinishParts, Inspect, Refuse, Store, CheckStored, Register, Registered,
           Open, NotRegistered, Discard, CutOff, rows
  <1>3. CASE Outside
    BY <1>3 DEF Outside, Put, StoreParts, Lifecycle, Expire, AbortParts, StartAnalysis, rows
  <1>4. CASE Cancel
    BY <1>1, <1>4 DEF Cancel
  <1>5. CASE Stage1Answers
    BY <1>5 DEF Stage1Answers, UploadsInv, UploadsTypeOK
  <1>6. CASE \E r \in Read : EndAnalysis(r)
    BY <1>6 DEF EndAnalysis, Unanswered
  <1>7. QED
    BY <1>2, <1>3, <1>4, <1>5, <1>6 DEF UploadsNext, Outside

\* However late an analysis ends, it does not replace an answer.
THEOREM FirstAnswersStand == UploadsSpec => FirstAnswerStands
  <1>1. UploadsInv /\ [UploadsNext]_uploadsVars
           => [asset.qc # "PENDING" => asset' = asset \/ asset'.by = "stage1"]_uploadsVars
    BY AnswerStays DEF uploadsVars
  <1>2. QED
    BY <1>1, UploadsInvariant, PTL DEF UploadsSpec, FirstAnswerStands

-----------------------------------------------------------------------------
(* AssistantRequests: for any number of calls, tabs and actions, an action      *)
(* takes effect at most once, what was taken back stays so, and an answer is   *)
(* final.                                                                      *)

\* Where a Studio request holds the claim of the pending submission, and where
\* it carries out an action it approved.
Claiming == {"review", "consent", "submit", "decide", "refuse", "free"}
Carrying == {"run", "succeeded", "failed"}
TabStep == Claiming \cup Carrying \cup {"idle", "done"}

\* The rows have the columns and the statuses of their tables.
AssistantTyped ==
    /\ draft \in [status: {"EDITABLE", "INFLIGHT", "REVIEW"}, content: Contents]
    /\ held \in [status: {"ABSENT", "PENDING", "APPROVED", "REJECTED", "WITHDRAWN", "EXPIRED", "STALE"},
                 claimed: BOOLEAN]
    /\ request \in [Action -> {"ABSENT", "PENDING", "RUNNING", "DONE", "FAILED", "REJECTED",
                               "WITHDRAWN", "EXPIRED", "REVOKED"}]
    /\ tab \in [Tab -> [at: TabStep, on: Action \cup {Held}]]
    /\ ran \in [Action -> Nat] /\ direct \in BOOLEAN

\* An approved action has one Studio request that carries it out, and had no
\* effect before that.
ApprovedRuns ==
    /\ \A t \in Tab :
          tab[t].at \in Carrying => tab[t].on \in Action /\ request[tab[t].on] = "RUNNING"
    /\ \A t \in Tab : tab[t].at = "run" => ran[tab[t].on] = 0
    /\ \A t, u \in Tab :
          tab[t].at \in Carrying /\ tab[u].at \in Carrying /\ t # u => tab[t].on # tab[u].on
    /\ \A r \in Action :
          /\ ran[r] \in {0, 1}
          /\ ran[r] = 1 => request[r] \in {"RUNNING", "DONE", "FAILED"}

\* One Studio request has the claim, and while it has, the pending submission
\* is claimed and neither withdrawn nor rejected.
ClaimHeld ==
    /\ \A t, u \in Tab : tab[t].at \in Claiming /\ tab[u].at \in Claiming => t = u
    /\ \A t \in Tab :
          tab[t].at \in Claiming =>
             /\ held.status \notin {"ABSENT", "WITHDRAWN", "REJECTED"}
             /\ held.status = "PENDING" => held.claimed

\* An application only the Studio filed, to its knowledge, is approved, or too
\* late for an answer, or claimed for good by the request that will approve it.
FiledIsApproved ==
    filed # <<>> /\ ~direct /\ Held \notin misreported =>
        \/ held.status \in {"APPROVED", "EXPIRED", "STALE"}
        \/ /\ held.status = "PENDING" /\ held.claimed
           /\ \A t \in Tab : tab[t].at \in Claiming => tab[t].at = "decide"

AssistantInv ==
    AssistantTyped /\ ApprovedRuns /\ ClaimHeld /\ FiledIsApproved /\ ConfirmedIsSubmitted

-----------------------------------------------------------------------------
LEMMA InitAssistant == AssistantInit => AssistantInv
  <1> SUFFICES ASSUME AssistantInit PROVE AssistantInv
    OBVIOUS
  <1>1. AssistantTyped
    BY AssistantAssumption DEF AssistantInit, AssistantTyped, TabStep, Confirmed
  <1>2. ApprovedRuns /\ ClaimHeld
    BY DEF AssistantInit, ApprovedRuns, ClaimHeld, Carrying, Claiming
  <1>3. QED
    BY <1>1, <1>2 DEF AssistantInit, AssistantInv, FiledIsApproved, ConfirmedIsSubmitted

\* What a Studio request does to its own record it does to no other.
LEMMA TabMoves ==
    ASSUME AssistantTyped, NEW t \in Tab, NEW step \in TabStep, TabTo(t, step)
    PROVE  /\ tab' \in [Tab -> [at: TabStep, on: Action \cup {Held}]]
           /\ tab'[t].at = step /\ tab'[t].on = tab[t].on
           /\ \A u \in Tab \ {t} : tab'[u] = tab[u]
  BY DEF AssistantTyped, TabTo

\* Steps of the artist and of the connection that leave the requests alone.
Elsewhere ==
    \/ Edit \/ SubmitInStudio \/ Proceed
    \/ AskPermission \/ ClosePermission \/ PutSettings \/ Revoke
    \/ \E c \in ToolCall : StartSubmit(c) \/ Look(c) \/ Review(c) \/ Consent(c) \/ StartRequest(c)

LEMMA ElsewhereStep == AssistantInv /\ Elsewhere => AssistantInv'
  <1> SUFFICES ASSUME AssistantInv, Elsewhere PROVE AssistantInv'
    OBVIOUS
  <1>1. /\ UNCHANGED <<filed, held, request, tab, ran, direct, misreported>>
        /\ draft' \in [status: {"EDITABLE", "INFLIGHT", "REVIEW"}, content: Contents]
    BY DEF Elsewhere, Edit, SubmitInStudio, Proceed, AskPermission, ClosePermission, PutSettings,
           Revoke, StartSubmit, Look, Review, Consent, StartRequest, application, past,
           AssistantInv, AssistantTyped
  <1>2. QED
    BY <1>1 DEF AssistantInv, AssistantTyped, ApprovedRuns, ClaimHeld, FiledIsApproved,
                ConfirmedIsSubmitted

\* What is not refused is what the artist confirmed.
LEMMA FiledIsConfirmed ==
    ASSUME AssistantInv, ~Refused(Confirmed), Filed
    PROVE  /\ filed' = <<Confirmed>> /\ (filed # <<>> => filed' = filed)
           /\ draft' \in [status: {"EDITABLE", "INFLIGHT", "REVIEW"}, content: Contents]
  <1>1. CASE filed = <<>>
    <2>1. draft.content = Confirmed
      BY <1>1 DEF Refused, Mismatch, Unfit
    <2>2. filed' = Append(<<>>, Confirmed) /\ draft' = [draft EXCEPT !.status = "INFLIGHT"]
      BY <1>1, <2>1 DEF Filed
    <2>3. QED
      BY <1>1, <2>2, SMTT(30) DEF AssistantInv, AssistantTyped
  <1>2. CASE filed # <<>>
    BY <1>2 DEF Filed, AssistantInv, AssistantTyped, ConfirmedIsSubmitted
  <1>3. QED
    BY <1>1, <1>2

LEMMA SubmitNowStep == ASSUME AssistantInv, NEW c \in ToolCall, SubmitNow(c) PROVE AssistantInv'
  <1>1. UNCHANGED <<held, request, tab, ran, misreported>>
    BY DEF SubmitNow
  <1>2. CASE UNCHANGED <<draft, filed, direct>>
    BY <1>1, <1>2 DEF AssistantInv, AssistantTyped, ApprovedRuns, ClaimHeld, FiledIsApproved,
                      ConfirmedIsSubmitted
  <1>3. CASE ~Refused(Confirmed) /\ Filed /\ direct' = (direct \/ filed = <<>>)
    <2>1. /\ filed' = <<Confirmed>> /\ (filed # <<>> => filed' = filed)
          /\ draft' \in [status: {"EDITABLE", "INFLIGHT", "REVIEW"}, content: Contents]
      BY <1>3, FiledIsConfirmed
    <2>2. direct' \in BOOLEAN /\ (filed = <<>> => direct') /\ (filed # <<>> => direct' = direct)
      BY <1>3 DEF AssistantInv, AssistantTyped
    <2>3. FiledIsApproved'
      <3>1. CASE filed = <<>>
        BY <3>1, <2>2 DEF FiledIsApproved
      <3>2. CASE filed # <<>>
        BY <3>2, <1>1, <2>1, <2>2 DEF FiledIsApproved, AssistantInv
      <3>3. QED
        BY <3>1, <3>2
    <2>4. QED
      BY <1>1, <2>1, <2>2, <2>3 DEF AssistantInv, AssistantTyped, ApprovedRuns, ClaimHeld,
                                    ConfirmedIsSubmitted
  <1>4. QED
    BY <1>2, <1>3 DEF SubmitNow

-----------------------------------------------------------------------------
(* The pending submission *)

\* Its row alone: filed by the assistant, taken back by it, or lapsed.
RowStep == (\E c \in ToolCall : Hold(c)) \/ WithdrawApplication \/ LapseApplication

LEMMA RowSteps == AssistantInv /\ RowStep => AssistantInv'
  <1> SUFFICES ASSUME AssistantInv, RowStep PROVE AssistantInv'
    OBVIOUS
  <1>1. UNCHANGED <<draft, filed, request, tab, ran, direct, misreported>>
    BY DEF RowStep, Hold, WithdrawApplication, LapseApplication, past
  <1>2. \/ held.status = "ABSENT" /\ held' = [status |-> "PENDING", claimed |-> FALSE]
        \/ held.status = "PENDING" /\ ~held.claimed /\ held' = [held EXCEPT !.status = "WITHDRAWN"]
        \/ held.status = "PENDING" /\ held' = [held EXCEPT !.status = "EXPIRED"]
        \/ held' = held
    BY DEF RowStep, Hold, WithdrawApplication, LapseApplication, Decided
  <1>3. /\ held' \in [status: {"ABSENT", "PENDING", "APPROVED", "REJECTED", "WITHDRAWN",
                              "EXPIRED", "STALE"},
                     claimed: BOOLEAN]
        /\ AssistantTyped'
    <2>1. CASE held.status = "ABSENT" /\ held' = [status |-> "PENDING", claimed |-> FALSE]
      BY <1>1, <2>1 DEF AssistantInv, AssistantTyped
    <2>2. CASE held.status # "ABSENT" \/ held' = held
      BY <1>1, <1>2, <2>2 DEF AssistantInv, AssistantTyped
    <2>3. QED
      BY <1>2, <2>1, <2>2
  <1>4. ClaimHeld' /\ FiledIsApproved'
    BY <1>1, <1>2 DEF AssistantInv, AssistantTyped, ClaimHeld, FiledIsApproved
  <1>5. QED
    BY <1>1, <1>3, <1>4 DEF AssistantInv, ApprovedRuns, ConfirmedIsSubmitted

LEMMA TakeStep ==
    ASSUME AssistantInv, NEW t \in Tab, NEW then \in {"review", "refuse"}, Take(t, then)
    PROVE  AssistantInv'
  <1>1. UNCHANGED <<draft, filed, request, ran, direct, misreported>> /\ tab[t].at = "idle"
    BY DEF Take, TabAt, past
  <1>2. CASE held.status = "PENDING" /\ ~held.claimed
    <2>1. held' = [held EXCEPT !.claimed = TRUE] /\ tab' = [tab EXCEPT ![t] = [at |-> then, on |-> Held]]
      BY <1>2 DEF Take
    <2>2. /\ tab' \in [Tab -> [at: TabStep, on: Action \cup {Held}]] /\ tab'[t].at = then
          /\ \A u \in Tab \ {t} : tab'[u] = tab[u]
      BY <2>1 DEF AssistantInv, AssistantTyped, TabStep, Claiming
    <2>3. held' = [status |-> "PENDING", claimed |-> TRUE]
      BY <1>2, <2>1 DEF AssistantInv, AssistantTyped
    <2>4. \A u \in Tab : tab[u].at \notin Claiming
      BY <1>2 DEF AssistantInv, ClaimHeld
    <2>5. then \notin Carrying /\ then \in Claiming
      BY DEF Carrying, Claiming
    <2>6. AssistantTyped'
      BY <1>1, <2>2, <2>3 DEF AssistantInv, AssistantTyped
    <2>7. ApprovedRuns'
      BY <1>1, <2>2, <2>5 DEF AssistantInv, ApprovedRuns, Carrying
    <2>8. ClaimHeld'
      BY <2>2, <2>3, <2>4 DEF ClaimHeld
    <2>9. FiledIsApproved'
      BY <1>1, <1>2 DEF AssistantInv, FiledIsApproved
    <2>10. QED
      BY <1>1, <2>6, <2>7, <2>8, <2>9 DEF AssistantInv, ConfirmedIsSubmitted
  <1>3. CASE ~(held.status = "PENDING" /\ ~held.claimed)
    <2>1. TabTo(t, "done") /\ held' = held
      BY <1>3 DEF Take
    <2>2. /\ tab' \in [Tab -> [at: TabStep, on: Action \cup {Held}]] /\ tab'[t].at = "done"
          /\ \A u \in Tab \ {t} : tab'[u] = tab[u]
      BY <2>1, TabMoves DEF AssistantInv, TabStep
    <2>3. AssistantTyped'
      BY <1>1, <2>1, <2>2 DEF AssistantInv, AssistantTyped
    <2>4. ApprovedRuns' /\ ClaimHeld' /\ FiledIsApproved'
      BY <1>1, <2>1, <2>2
         DEF AssistantInv, ApprovedRuns, ClaimHeld, FiledIsApproved, Carrying, Claiming
    <2>5. QED
      BY <1>1, <2>3, <2>4 DEF AssistantInv, ConfirmedIsSubmitted
  <1>4. QED
    BY <1>2, <1>3

\* A request that has the claim and moves on, or ends with an answer: no other
\* has the claim, and no action is touched.
LEMMA ClaimantStep ==
    ASSUME AssistantInv, NEW t \in Tab, NEW step \in Claiming \cup {"done"},
           tab[t].at \in Claiming, TabTo(t, step),
           UNCHANGED <<request, ran, direct>>,
           draft' \in [status: {"EDITABLE", "INFLIGHT", "REVIEW"}, content: Contents],
           ConfirmedIsSubmitted',
           held' \in [status: {"PENDING", "APPROVED", "REJECTED", "EXPIRED", "STALE"},
                      claimed: BOOLEAN],
           step # "done" => held' = held,
           FiledIsApproved'
    PROVE  AssistantInv'
  <1>1. /\ tab' \in [Tab -> [at: TabStep, on: Action \cup {Held}]] /\ tab'[t].at = step
        /\ \A u \in Tab \ {t} : tab'[u] = tab[u]
    BY TabMoves DEF AssistantInv, TabStep
  <1>2. AssistantTyped'
    BY <1>1 DEF AssistantInv, AssistantTyped
  <1>3. step \notin Carrying
    BY DEF Claiming, Carrying
  <1>4. ApprovedRuns'
    BY <1>1, <1>3 DEF AssistantInv, ApprovedRuns, Carrying
  <1>5. \A u \in Tab \ {t} : tab[u].at \notin Claiming
    BY DEF AssistantInv, ClaimHeld
  <1>6. CASE step = "done"
    <2>1. \A u \in Tab : tab'[u].at \notin Claiming
      BY <1>1, <1>5, <1>6 DEF Claiming
    <2>2. QED
      BY <1>2, <1>4, <2>1 DEF AssistantInv, ClaimHeld
  <1>7. CASE step # "done"
    <2>1. ClaimHeld'
      BY <1>1, <1>5, <1>7 DEF AssistantInv, ClaimHeld
    <2>2. QED
      BY <1>2, <1>4, <2>1 DEF AssistantInv
  <1>8. QED
    BY <1>6, <1>7

\* What an answer may do to the row of a claimed submission.
LEMMA DecidedRow ==
    ASSUME AssistantInv, NEW t \in Tab, tab[t].at \in Claiming,
           NEW answer \in {"APPROVED", "REJECTED", "EXPIRED", "STALE"}, held' = Decided(answer)
    PROVE  /\ held' \in [status: {"PENDING", "APPROVED", "REJECTED", "EXPIRED", "STALE"},
                         claimed: BOOLEAN]
           /\ held'.status # "PENDING"
           /\ held'.status \in {answer, held.status}
           /\ held.status # "PENDING" => held' = held
  <1>1. held.status \notin {"ABSENT", "WITHDRAWN", "REJECTED"}
    BY DEF AssistantInv, ClaimHeld
  <1>2. QED
    BY <1>1 DEF AssistantInv, AssistantTyped, Decided

LEMMA RowClaimed ==
    ASSUME AssistantInv, NEW t \in Tab, tab[t].at \in Claiming
    PROVE  /\ held \in [status: {"PENDING", "APPROVED", "REJECTED", "EXPIRED", "STALE"},
                        claimed: BOOLEAN]
           /\ held.status # "REJECTED" /\ (held.status = "PENDING" => held.claimed)
           /\ tab[t].at # "decide" /\ filed # <<>> /\ ~direct /\ Held \notin misreported
                 => held.status \in {"APPROVED", "EXPIRED", "STALE"}
  <1>1. held.status \notin {"ABSENT", "WITHDRAWN", "REJECTED"}
        /\ (held.status = "PENDING" => held.claimed)
    BY DEF AssistantInv, ClaimHeld
  <1>2. QED
    BY <1>1 DEF AssistantInv, AssistantTyped, FiledIsApproved

LEMMA RecheckStep ==
    ASSUME AssistantInv, NEW t \in Tab, NEW step \in {"review", "consent"},
           NEW next \in {"consent", "submit"}, Recheck(t, step, next)
    PROVE  AssistantInv'
  <1>1. /\ UNCHANGED <<draft, filed, request, ran, direct, misreported>>
        /\ tab[t].at \in Claiming /\ tab[t].at # "decide"
    BY DEF Recheck, TabAt, past, Claiming
  <1>2. /\ draft' \in [status: {"EDITABLE", "INFLIGHT", "REVIEW"}, content: Contents]
        /\ ConfirmedIsSubmitted'
    BY <1>1 DEF AssistantInv, AssistantTyped, ConfirmedIsSubmitted
  <1>3. CASE held' = held /\ \E to \in {next, "free"} : TabTo(t, to)
    <2>1. FiledIsApproved'
      BY <1>1, <1>3, RowClaimed DEF FiledIsApproved
    <2>2. QED
      BY <1>1, <1>2, <1>3, <2>1, RowClaimed, ClaimantStep DEF Claiming
  <1>4. CASE held' = Decided("STALE") /\ TabTo(t, "done")
    <2>1. FiledIsApproved'
      BY <1>1, <1>4, RowClaimed, DecidedRow DEF FiledIsApproved
    <2>2. QED
      BY <1>1, <1>2, <1>4, <2>1, DecidedRow, ClaimantStep
  <1>5. QED
    BY <1>3, <1>4 DEF Recheck

LEMMA ApproveSubmitStep == ASSUME AssistantInv, NEW t \in Tab, ApproveSubmit(t) PROVE AssistantInv'
  <1>1. /\ UNCHANGED <<request, ran, direct>>
        /\ tab[t].at \in Claiming /\ tab[t].at # "decide"
    BY DEF ApproveSubmit, TabAt, Claiming
  <1>2. CASE UNCHANGED <<draft, filed, held, misreported>> /\ TabTo(t, "free")
    <2>1. FiledIsApproved'
      BY <1>1, <1>2, RowClaimed DEF FiledIsApproved
    <2>2. QED
      BY <1>1, <1>2, <2>1, RowClaimed, ClaimantStep
         DEF Claiming, AssistantInv, AssistantTyped, ConfirmedIsSubmitted
  <1>3. CASE UNCHANGED <<draft, filed, misreported>> /\ held' = Decided("STALE") /\ TabTo(t, "done")
    <2>1. FiledIsApproved'
      BY <1>1, <1>3, RowClaimed, DecidedRow DEF FiledIsApproved
    <2>2. QED
      BY <1>1, <1>3, <2>1, DecidedRow, ClaimantStep
         DEF AssistantInv, AssistantTyped, ConfirmedIsSubmitted
  <1>4. CASE /\ ~Refused(Confirmed) /\ Filed /\ held' = held
             /\ \/ TabTo(t, "decide") /\ misreported' = misreported
                \/ TabTo(t, "free") /\ misreported' = misreported \cup {Held}
    <2>1. /\ filed' = <<Confirmed>>
          /\ draft' \in [status: {"EDITABLE", "INFLIGHT", "REVIEW"}, content: Contents]
      BY <1>4, FiledIsConfirmed
    <2>2. ConfirmedIsSubmitted'
      BY <2>1 DEF ConfirmedIsSubmitted
    <2>3. CASE TabTo(t, "decide") /\ misreported' = misreported
      <3>1. tab'[t].at = "decide" /\ \A u \in Tab \ {t} : tab'[u] = tab[u]
        BY <2>3, TabMoves DEF AssistantInv, TabStep, Claiming
      <3>2. \A u \in Tab : tab'[u].at \in Claiming => tab'[u].at = "decide"
        BY <1>1, <3>1 DEF AssistantInv, ClaimHeld
      <3>3. held.status # "PENDING" => held.status \in {"APPROVED", "EXPIRED", "STALE"}
        BY <1>1, RowClaimed
      <3>4. FiledIsApproved'
        BY <1>1, <1>4, <3>2, <3>3, RowClaimed DEF FiledIsApproved
      <3>5. QED
        BY <1>1, <1>4, <2>1, <2>2, <2>3, <3>4, RowClaimed, ClaimantStep DEF Claiming
    <2>4. CASE TabTo(t, "free") /\ misreported' = misreported \cup {Held}
      <3>1. FiledIsApproved'
        BY <2>4 DEF FiledIsApproved
      <3>2. QED
        BY <1>1, <1>4, <2>1, <2>2, <2>4, <3>1, RowClaimed, ClaimantStep DEF Claiming
    <2>5. QED
      BY <1>4, <2>3, <2>4
  <1>5. QED
    BY <1>2, <1>3, <1>4 DEF ApproveSubmit

\* The answer the artist gave, or the claim given back.
LEMMA AnswerStep ==
    ASSUME AssistantInv, NEW t \in Tab, Approve(t) \/ RejectApplication(t) \/ Free(t)
    PROVE  AssistantInv'
  <1>1. /\ UNCHANGED <<draft, filed, request, ran, direct, misreported>>
        /\ TabTo(t, "done") /\ tab[t].at \in Claiming
    BY DEF Approve, RejectApplication, Free, TabAt, past, Claiming
  <1>2. /\ draft' \in [status: {"EDITABLE", "INFLIGHT", "REVIEW"}, content: Contents]
        /\ ConfirmedIsSubmitted'
    BY <1>1 DEF AssistantInv, AssistantTyped, ConfirmedIsSubmitted
  <1>3. CASE Approve(t)
    <2>1. held' = Decided("APPROVED")
      BY <1>3 DEF Approve
    <2>2. FiledIsApproved'
      BY <1>1, <2>1, RowClaimed, DecidedRow DEF FiledIsApproved, AssistantInv
    <2>3. QED
      BY <1>1, <1>2, <2>1, <2>2, DecidedRow, ClaimantStep
  <1>4. CASE RejectApplication(t)
    <2>1. held' = Decided("REJECTED") /\ tab[t].at # "decide"
      BY <1>4 DEF RejectApplication, TabAt
    <2>2. FiledIsApproved'
      BY <1>1, <2>1, RowClaimed, DecidedRow DEF FiledIsApproved
    <2>3. QED
      BY <1>1, <1>2, <2>1, <2>2, DecidedRow, ClaimantStep
  <1>5. CASE Free(t)
    <2>1. /\ held' = IF held.status = "PENDING" THEN [held EXCEPT !.claimed = FALSE] ELSE held
          /\ tab[t].at # "decide"
      BY <1>5 DEF Free, TabAt
    <2>2. /\ held' \in [status: {"PENDING", "APPROVED", "REJECTED", "EXPIRED", "STALE"},
                        claimed: BOOLEAN]
          /\ held'.status = held.status
      BY <1>1, <2>1, RowClaimed
    <2>3. FiledIsApproved'
      BY <1>1, <2>1, <2>2, RowClaimed DEF FiledIsApproved
    <2>4. QED
      BY <1>1, <1>2, <2>2, <2>3, ClaimantStep
  <1>6. QED
    BY <1>3, <1>4, <1>5

-----------------------------------------------------------------------------
(* Action requests *)

\* A request that no Studio request carries out changes its status, not to
\* ABSENT again, and the one decided moves on.
RequestStep ==
    \/ \E c \in ToolCall : Insert(c)
    \/ \E r \in Action : Lapse(r) \/ WithdrawRequest(r)

LEMMA RequestSteps == AssistantInv /\ RequestStep => AssistantInv'
  <1> SUFFICES ASSUME AssistantInv, RequestStep PROVE AssistantInv'
    OBVIOUS
  <1>1. UNCHANGED <<draft, filed, held, tab, ran, direct, misreported>>
    BY DEF RequestStep, Insert, Lapse, WithdrawRequest, application, past
  <1>2. PICK r \in Action, to \in {"PENDING", "EXPIRED", "WITHDRAWN"} :
           request[r] \in {"ABSENT", "PENDING"} /\ request' = [request EXCEPT ![r] = to]
    BY DEF RequestStep, Insert, Lapse, WithdrawRequest
  <1>3. AssistantTyped'
    BY <1>1, <1>2 DEF AssistantInv, AssistantTyped
  <1>4. \A s \in Action : request[s] \in {"RUNNING", "DONE", "FAILED"} => request'[s] = request[s]
    BY <1>2 DEF AssistantInv, AssistantTyped
  <1>5. ApprovedRuns'
    BY <1>1, <1>4 DEF AssistantInv, ApprovedRuns
  <1>6. QED
    BY <1>1, <1>3, <1>5 DEF AssistantInv, ClaimHeld, FiledIsApproved, ConfirmedIsSubmitted

\* A Studio request without the claim, before and after, leaves the pending
\* submission as it is.
LEMMA NoClaimant ==
    ASSUME AssistantInv, NEW t \in Tab, UNCHANGED <<draft, filed, held, direct>>,
           misreported \subseteq misreported',
           tab'[t].at \notin Claiming, \A u \in Tab \ {t} : tab'[u] = tab[u],
           AssistantTyped', ApprovedRuns'
    PROVE  AssistantInv'
  <1>1. \A u \in Tab : tab'[u].at \in Claiming => u # t /\ tab'[u] = tab[u]
    OBVIOUS
  <1>2. ClaimHeld'
    BY <1>1 DEF AssistantInv, ClaimHeld
  <1>3. FiledIsApproved'
    BY <1>1 DEF AssistantInv, FiledIsApproved
  <1>4. QED
    BY <1>2, <1>3 DEF AssistantInv, ConfirmedIsSubmitted

LEMMA DecideStep ==
    ASSUME AssistantInv, NEW t \in Tab, NEW r \in Action, NEW approve \in BOOLEAN,
           Decide(t, r, approve)
    PROVE  AssistantInv'
  <1>1. UNCHANGED <<draft, filed, held, ran, direct, misreported>> /\ tab[t].at = "idle"
    BY DEF Decide, TabAt, application, past
  <1>2. CASE TabTo(t, "done")
    <2>1. /\ tab' \in [Tab -> [at: TabStep, on: Action \cup {Held}]] /\ tab'[t].at = "done"
          /\ \A u \in Tab \ {t} : tab'[u] = tab[u]
      BY <1>2, TabMoves DEF AssistantInv, TabStep
    <2>2. \/ request' = request
          \/ request[r] = "PENDING" /\ \E answer \in {"REVOKED", "REJECTED"} :
                                           request' = [request EXCEPT ![r] = answer]
          \/ request[r] = "PENDING" /\ tab' = [tab EXCEPT ![t] = [at |-> "run", on |-> r]]
      BY DEF Decide
    <2>3. tab' # [tab EXCEPT ![t] = [at |-> "run", on |-> r]]
      BY <2>1 DEF AssistantInv, AssistantTyped
    <2>4. AssistantTyped'
      <3>1. request' \in [Action -> {"ABSENT", "PENDING", "RUNNING", "DONE", "FAILED", "REJECTED",
                                    "WITHDRAWN", "EXPIRED", "REVOKED"}]
        BY <2>2, <2>3 DEF AssistantInv, AssistantTyped
      <3>2. QED
        BY <1>1, <2>1, <3>1 DEF AssistantInv, AssistantTyped
    <2>5. \A s \in Action : request[s] \in {"RUNNING", "DONE", "FAILED"} => request'[s] = request[s]
      BY <2>2, <2>3 DEF AssistantInv, AssistantTyped
    <2>6. ApprovedRuns'
      BY <1>1, <2>1, <2>5 DEF AssistantInv, ApprovedRuns, Carrying
    <2>7. QED
      BY <1>1, <2>1, <2>4, <2>6, NoClaimant DEF Claiming
  <1>3. CASE /\ request[r] = "PENDING" /\ tab' = [tab EXCEPT ![t] = [at |-> "run", on |-> r]]
             /\ request' = [request EXCEPT ![r] = "RUNNING"]
    <2>1. /\ tab' \in [Tab -> [at: TabStep, on: Action \cup {Held}]]
          /\ tab'[t].at = "run" /\ tab'[t].on = r
          /\ \A u \in Tab \ {t} : tab'[u] = tab[u]
      BY <1>3 DEF AssistantInv, AssistantTyped, TabStep, Carrying
    <2>2. AssistantTyped'
      BY <1>1, <1>3, <2>1 DEF AssistantInv, AssistantTyped
    <2>3. request'[r] = "RUNNING" /\ \A s \in Action \ {r} : request'[s] = request[s]
      BY <1>3 DEF AssistantInv, AssistantTyped
    <2>4. ran[r] = 0
      BY <1>3 DEF AssistantInv, ApprovedRuns
    <2>5. \A u \in Tab : tab[u].at \in Carrying => tab[u].on # r
      BY <1>3 DEF AssistantInv, ApprovedRuns
    <2>6. ApprovedRuns'
      BY <1>1, <2>1, <2>3, <2>4, <2>5 DEF AssistantInv, ApprovedRuns
    <2>7. QED
      BY <1>1, <2>1, <2>2, <2>6, NoClaimant DEF Claiming
  <1>4. QED
    BY <1>2, <1>3 DEF Decide

LEMMA RunActionStep == ASSUME AssistantInv, NEW t \in Tab, RunAction(t) PROVE AssistantInv'
  <1>1. UNCHANGED <<draft, filed, held, request, direct>> /\ tab[t].at = "run"
    BY DEF RunAction, TabAt, application
  <1>2. /\ tab[t].on \in Action /\ request[tab[t].on] = "RUNNING" /\ ran[tab[t].on] = 0
        /\ \A u \in Tab \ {t} : tab[u].at \in Carrying => tab[u].on # tab[t].on
    BY <1>1 DEF AssistantInv, ApprovedRuns, Carrying
  <1>3. PICK to \in {"succeeded", "failed"} : TabTo(t, to)
    BY DEF RunAction
  <1>4. /\ tab' \in [Tab -> [at: TabStep, on: Action \cup {Held}]]
        /\ tab'[t].at = to /\ tab'[t].on = tab[t].on
        /\ \A u \in Tab \ {t} : tab'[u] = tab[u]
    BY <1>3, TabMoves DEF AssistantInv, TabStep, Carrying
  <1>5. ran' = ran \/ ran' = [ran EXCEPT ![tab[t].on] = @ + 1]
    BY DEF RunAction
  <1>6. /\ ran' \in [Action -> Nat] /\ ran'[tab[t].on] \in {0, 1}
        /\ \A r \in Action \ {tab[t].on} : ran'[r] = ran[r]
    BY <1>2, <1>5 DEF AssistantInv, AssistantTyped
  <1>7. AssistantTyped'
    BY <1>1, <1>4, <1>6 DEF AssistantInv, AssistantTyped
  <1>8. ApprovedRuns'
    <2>1. /\ \A u \in Tab :
                tab'[u].at \in Carrying => tab'[u].on \in Action /\ request'[tab'[u].on] = "RUNNING"
          /\ \A u, v \in Tab :
                tab'[u].at \in Carrying /\ tab'[v].at \in Carrying /\ u # v => tab'[u].on # tab'[v].on
      BY <1>1, <1>2, <1>4 DEF AssistantInv, ApprovedRuns
    <2>2. \A u \in Tab : tab'[u].at = "run" => ran'[tab'[u].on] = 0
      BY <1>2, <1>4, <1>6 DEF AssistantInv, ApprovedRuns, Carrying
    <2>3. \A r \in Action : /\ ran'[r] \in {0, 1}
                            /\ ran'[r] = 1 => request'[r] \in {"RUNNING", "DONE", "FAILED"}
      BY <1>1, <1>2, <1>6 DEF AssistantInv, ApprovedRuns
    <2>4. QED
      BY <2>1, <2>2, <2>3 DEF ApprovedRuns
  <1>9. misreported \subseteq misreported' /\ tab'[t].at \notin Claiming
    BY <1>4 DEF RunAction, Claiming
  <1>10. QED
    BY <1>1, <1>4, <1>7, <1>8, <1>9, NoClaimant

LEMMA OutcomeStep == ASSUME AssistantInv, NEW t \in Tab, RecordOutcome(t) PROVE AssistantInv'
  <1>1. /\ UNCHANGED <<draft, filed, held, ran, direct, misreported>>
        /\ tab[t].at \in Carrying /\ TabTo(t, "done")
    BY DEF RecordOutcome, TabAt, application, past, Carrying
  <1>2. PICK answer \in {"DONE", "FAILED"} : request' = [request EXCEPT ![tab[t].on] = answer]
    BY DEF RecordOutcome
  <1>3. /\ tab[t].on \in Action
        /\ \A u \in Tab \ {t} : tab[u].at \in Carrying => tab[u].on # tab[t].on
    BY <1>1 DEF AssistantInv, ApprovedRuns
  <1>4. /\ request'[tab[t].on] = answer
        /\ \A r \in Action \ {tab[t].on} : request'[r] = request[r]
    BY <1>2, <1>3 DEF AssistantInv, AssistantTyped
  <1>5. /\ tab' \in [Tab -> [at: TabStep, on: Action \cup {Held}]] /\ tab'[t].at = "done"
        /\ \A u \in Tab \ {t} : tab'[u] = tab[u]
    BY <1>1, TabMoves DEF AssistantInv, TabStep
  <1>6. AssistantTyped'
    BY <1>1, <1>2, <1>3, <1>5 DEF AssistantInv, AssistantTyped
  <1>7. ApprovedRuns'
    BY <1>1, <1>3, <1>4, <1>5 DEF AssistantInv, ApprovedRuns, Carrying
  <1>8. QED
    BY <1>1, <1>5, <1>6, <1>7, NoClaimant DEF Claiming

LEMMA AbandonStep == AssistantInv /\ Abandon => AssistantInv'
  <1> SUFFICES ASSUME AssistantInv, Abandon PROVE AssistantInv'
    OBVIOUS
  <1>1. UNCHANGED <<draft, filed, held, request, ran, direct, misreported>>
    BY DEF Abandon, application, past
  <1>2. CASE tab' = tab
    BY <1>1, <1>2 DEF AssistantInv, AssistantTyped, ApprovedRuns, ClaimHeld, FiledIsApproved,
                      ConfirmedIsSubmitted
  <1>3. ASSUME NEW t \in Tab, TabTo(t, "done") PROVE AssistantInv'
    <2>1. /\ tab' \in [Tab -> [at: TabStep, on: Action \cup {Held}]] /\ tab'[t].at = "done"
          /\ \A u \in Tab \ {t} : tab'[u] = tab[u]
      BY <1>3, TabMoves DEF AssistantInv, TabStep
    <2>2. AssistantTyped'
      BY <1>1, <2>1 DEF AssistantInv, AssistantTyped
    <2>3. ApprovedRuns'
      BY <1>1, <2>1 DEF AssistantInv, ApprovedRuns, Carrying
    <2>4. QED
      BY <1>1, <2>1, <2>2, <2>3, NoClaimant DEF Claiming
  <1>4. QED
    BY <1>2, <1>3 DEF Abandon

-----------------------------------------------------------------------------
LEMMA AssistantSteps ==
    ASSUME AssistantNext
    PROVE  \/ Elsewhere \/ RowStep \/ RequestStep \/ Abandon
           \/ \E c \in ToolCall : SubmitNow(c)
           \/ \E t \in Tab :
                 \/ \E then \in {"review", "refuse"} : Take(t, then)
                 \/ \E step \in {"review", "consent"}, next \in {"consent", "submit"} :
                       Recheck(t, step, next)
                 \/ ApproveSubmit(t) \/ Approve(t) \/ RejectApplication(t) \/ Free(t)
                 \/ \E r \in Action, approve \in BOOLEAN : Decide(t, r, approve)
                 \/ RunAction(t) \/ RecordOutcome(t)
  <1>1. ASSUME NEW c \in ToolCall, Tool(c)
        PROVE  Elsewhere \/ RowStep \/ RequestStep \/ SubmitNow(c)
    BY <1>1 DEF Tool, Elsewhere, RowStep, RequestStep
  <1>2. QED
    BY <1>1 DEF AssistantNext, Studio, Elsewhere, RowStep, RequestStep

LEMMA NextAssistant == AssistantInv /\ [AssistantNext]_assistantVars => AssistantInv'
  <1> SUFFICES ASSUME AssistantInv, [AssistantNext]_assistantVars PROVE AssistantInv'
    OBVIOUS
  <1>1. CASE UNCHANGED assistantVars
    BY <1>1 DEF assistantVars, AssistantInv, AssistantTyped, ApprovedRuns, ClaimHeld,
                FiledIsApproved, ConfirmedIsSubmitted
  <1>2. CASE AssistantNext
    BY <1>2, AssistantSteps, ElsewhereStep, RowSteps, RequestSteps, AbandonStep, SubmitNowStep,
       TakeStep, RecheckStep, ApproveSubmitStep, AnswerStep, DecideStep, RunActionStep, OutcomeStep
  <1>3. QED
    BY <1>1, <1>2

\* The invariant of all the requests an AI connection makes.
THEOREM AssistantInvariant == AssistantSpec => []AssistantInv
  <1>1. QED
    BY InitAssistant, NextAssistant, PTL DEF AssistantSpec

\* An application that was filed and is nevertheless taken back: what makes both
\* possible is the lost answer of a COMMIT (safety.rs:341) or a call that went
\* past the Studio, and nothing else; see NeverBoth, which the code breaks.
BothIsExplained ==
    filed # <<>> /\ held.status \in {"WITHDRAWN", "REJECTED"} => direct \/ Held \in misreported

\* For any number of calls, tabs and actions, an application is submitted and
\* taken back only in these two ways.
THEOREM BothHasTwoWays == AssistantSpec => []BothIsExplained
  <1>1. AssistantInv => BothIsExplained
    BY DEF AssistantInv, BothIsExplained, FiledIsApproved
  <1>2. QED
    BY <1>1, AssistantInvariant, PTL

\* An action that runs is the approved one, for the first time, and what the
\* artist or the assistant took back is not submitted by the Studio.
CarriedOut ==
    /\ \A r \in Action : ran'[r] # ran[r] => ran'[r] = 1 /\ request[r] = "RUNNING"
    /\ filed' # filed /\ held.status \in {"WITHDRAWN", "REJECTED"} => direct'

LEMMA NextCarriesOut == ASSUME AssistantInv, AssistantNext PROVE CarriedOut
  <1>1. CASE UNCHANGED <<filed, ran>>
    BY <1>1 DEF CarriedOut
  <1>2. CASE Elsewhere \/ Abandon \/ RowStep \/ RequestStep
    <2>1. UNCHANGED <<filed, ran>>
      BY <1>2 DEF Elsewhere, Edit, SubmitInStudio, Proceed, AskPermission, ClosePermission,
                  PutSettings, Revoke, StartSubmit, Look, Review, Consent, StartRequest, Abandon,
                  RowStep, Hold, WithdrawApplication, LapseApplication, RequestStep, Insert, Lapse,
                  WithdrawRequest, application, past
    <2>2. QED
      BY <1>1, <2>1
  <1>3. ASSUME NEW c \in ToolCall, SubmitNow(c) PROVE CarriedOut
    <2>1. ran' = ran
      BY <1>3 DEF SubmitNow
    <2>2. CASE filed = <<>> /\ direct' = (direct \/ filed = <<>>)
      BY <2>1, <2>2 DEF CarriedOut
    <2>3. CASE filed' = filed
      BY <1>1, <2>1, <2>3
    <2>4. QED
      BY <1>3, <2>2, <2>3 DEF SubmitNow, Filed
  <1>4. ASSUME NEW t \in Tab, ApproveSubmit(t) PROVE CarriedOut
    <2>1. ran' = ran /\ tab[t].at \in Claiming
      BY <1>4 DEF ApproveSubmit, TabAt, Claiming
    <2>2. held.status \notin {"WITHDRAWN", "REJECTED"}
      BY <2>1 DEF AssistantInv, ClaimHeld
    <2>3. QED
      BY <2>1, <2>2 DEF CarriedOut
  <1>5. ASSUME NEW t \in Tab, RunAction(t) PROVE CarriedOut
    <2>1. filed' = filed /\ tab[t].at = "run"
      BY <1>5 DEF RunAction, TabAt, application
    <2>2. tab[t].on \in Action /\ request[tab[t].on] = "RUNNING" /\ ran[tab[t].on] = 0
      BY <2>1 DEF AssistantInv, ApprovedRuns, Carrying
    <2>3. ran' = ran \/ ran' = [ran EXCEPT ![tab[t].on] = @ + 1]
      BY <1>5 DEF RunAction
    <2>4. \A r \in Action : ran'[r] # ran[r] => ran'[r] = 1 /\ request[r] = "RUNNING"
      BY <2>2, <2>3 DEF AssistantInv, AssistantTyped
    <2>5. QED
      BY <2>1, <2>4 DEF CarriedOut
  <1>6. ASSUME NEW t \in Tab,
               \/ \E then \in {"review", "refuse"} : Take(t, then)
               \/ \E step \in {"review", "consent"}, next \in {"consent", "submit"} :
                     Recheck(t, step, next)
               \/ Approve(t) \/ RejectApplication(t) \/ Free(t)
               \/ \E r \in Action, approve \in BOOLEAN : Decide(t, r, approve)
               \/ RecordOutcome(t)
        PROVE  CarriedOut
    <2>1. UNCHANGED <<filed, ran>>
      BY <1>6 DEF Take, Recheck, Approve, RejectApplication, Free, Decide, RecordOutcome,
                  application, past
    <2>2. QED
      BY <1>1, <2>1
  <1>7. QED
    BY AssistantSteps, <1>2, <1>3, <1>4, <1>5, <1>6

\* For any number of calls, tabs and actions, whatever was taken back stays so:
\* an action takes effect once, while its request is the approved one, and the
\* Studio does not file what was withdrawn or rejected (actions.rs, safety.rs).
THEOREM TakenBackStays == AssistantSpec => TakenBackStaysBack
  <1>1. AssistantInv /\ [AssistantNext]_assistantVars => [CarriedOut]_assistantVars
    BY NextCarriesOut
  <1>2. QED
    BY <1>1, AssistantInvariant, PTL DEF AssistantSpec, TakenBackStaysBack, CarriedOut

\* For any number of calls and tabs, one confirmation makes at most one revision,
\* of the content it was given for (tools.rs submit_now, submission.rs submit).
THEOREM OnlyTheConfirmed == AssistantSpec => []ConfirmedIsSubmitted
  <1>1. AssistantInv => ConfirmedIsSubmitted
    BY DEF AssistantInv
  <1>2. QED
    BY <1>1, AssistantInvariant, PTL

\* What an answer leaves: the row of the submission and the action requests.
AnswerKept ==
    /\ held.status \notin {"ABSENT", "PENDING"} => held'.status = held.status
    /\ \A r \in Action :
          /\ request[r] \notin {"ABSENT", "PENDING", "RUNNING"} => request'[r] = request[r]
          /\ request[r] = "RUNNING" => request'[r] \in {"RUNNING", "DONE", "FAILED"}

LEMMA NextKeepsAnswers == ASSUME AssistantInv, AssistantNext PROVE AnswerKept
  <1>1. CASE Elsewhere \/ Abandon \/ \E c \in ToolCall : SubmitNow(c)
    BY <1>1 DEF Elsewhere, Edit, SubmitInStudio, Proceed, AskPermission, ClosePermission, PutSettings,
                Revoke, StartSubmit, Look, Review, Consent, StartRequest, Abandon, SubmitNow,
                application, AnswerKept
  <1>2. CASE RowStep
    BY <1>2 DEF RowStep, Hold, WithdrawApplication, LapseApplication, Decided, AnswerKept
  <1>3. CASE RequestStep
    BY <1>3 DEF RequestStep, Insert, Lapse, WithdrawRequest, application, AnswerKept,
                AssistantInv, AssistantTyped
  <1>4. ASSUME NEW t \in Tab, NEW then \in {"review", "refuse"}, Take(t, then) PROVE AnswerKept
    BY <1>4 DEF Take, AnswerKept
  <1>5. ASSUME NEW t \in Tab, NEW step, NEW next, Recheck(t, step, next) PROVE AnswerKept
    BY <1>5 DEF Recheck, Decided, AnswerKept
  <1>6. ASSUME NEW t \in Tab, ApproveSubmit(t) \/ Approve(t) \/ RejectApplication(t) \/ Free(t)
        PROVE  AnswerKept
    BY <1>6 DEF ApproveSubmit, Approve, RejectApplication, Free, Decided, AnswerKept
  <1>7. ASSUME NEW t \in Tab, NEW r \in Action, NEW approve \in BOOLEAN, Decide(t, r, approve)
        PROVE  AnswerKept
    BY <1>7 DEF Decide, application, AnswerKept, AssistantInv, AssistantTyped
  <1>8. ASSUME NEW t \in Tab, RunAction(t) PROVE AnswerKept
    BY <1>8 DEF RunAction, application, AnswerKept
  <1>9. ASSUME NEW t \in Tab, RecordOutcome(t) PROVE AnswerKept
    <2>1. tab[t].on \in Action /\ request[tab[t].on] = "RUNNING" /\ held' = held
      BY <1>9 DEF RecordOutcome, TabAt, Carrying, application, AssistantInv, ApprovedRuns
    <2>2. PICK answer \in {"DONE", "FAILED"} : request' = [request EXCEPT ![tab[t].on] = answer]
      BY <1>9 DEF RecordOutcome
    <2>3. QED
      BY <2>1, <2>2 DEF AnswerKept, AssistantInv, AssistantTyped
  <1>10. QED
    BY AssistantSteps, <1>1, <1>2, <1>3, <1>4, <1>5, <1>6, <1>7, <1>8, <1>9

\* An answer is final, for the slower of any number of tabs, a sweep of lapsed
\* rows and an approval that finishes late (migration 0147).
THEOREM AnswersAreFinal == AssistantSpec => AnswersStand
  <1>1. AssistantInv /\ [AssistantNext]_assistantVars => [AnswerKept]_assistantVars
    BY NextKeepsAnswers
  <1>2. QED
    BY <1>1, AssistantInvariant, PTL DEF AssistantSpec, AnswersStand, AnswerKept

-----------------------------------------------------------------------------
(* ReleasePipeline: for any number of revisions, tries, rights facts and faults, a  *)
(* release in a stage has a job of its current revision under way (unless the   *)
(* late verdict of an older revision put it there), a cancelled                 *)
(* release never reached a partner, and one that was sent back does not become  *)
(* ready again on the package it had.                                           *)

\* Nothing is known of a revision before it is submitted.
NothingAhead ==
    /\ current = 0 => status = "DRAFT"
    /\ \A k \in JobId : k.rev > current => job[k].st = "ABSENT"
    /\ \A v \in Revision : v > current => v \notin validated /\ pinned[v] = None

\* A run has its job, and a lock token is held by one run of a RUNNING job.
RunsHaveJobs ==
    /\ \A r \in runs : job[r.job].st # "ABSENT" /\ (r.held => job[r.job].st = "RUNNING")
    /\ \A r, x \in runs : r.held /\ x.held /\ r.job = x.job => r = x

\* Stage 2 starts from a validation package, stage 3 from a pinned one, which
\* it prepares and no other.
StagesInOrder ==
    /\ \A v \in Revision : v \notin validated => job[Key("stage2", v)].st = "ABSENT"
    /\ \A v \in Revision : pinned[v] = None => job[Key("prepare", v)].st = "ABSENT"
    /\ \A v \in prepared : pinned[v] # None

\* Stage 2 has not passed the current revision in these statuses.
Undecided == {"SUBMITTED", "STAGE1_RUNNING", "STAGE1_PASSED", "STAGE2_RUNNING"}

\* What a stage has not decided yet of the current revision.
StageIsOpen ==
    /\ status \in {"SUBMITTED", "STAGE1_RUNNING"} => current \notin validated
    /\ status \in Undecided => pinned[current] = None
    /\ status \in {"STAGE2_PASSED", "STAGE3_PREPARING"} => current \notin prepared
    /\ status = "STAGE2_PASSED" =>
          \A r \in runs : r.job = Key("prepare", current) => r.pc = "check"

\* Delivery jobs are made under a signed agreement, which stays signed.
SignedFirst ==
    \A v \in Revision : delivery[v] \in {"QUEUED", "SENDING", "DELIVERED"} => agreement = "SIGNED"

\* The parts of the type invariant.
QueueTyped == job \in [JobId -> Row] /\ runs \subseteq Run /\ faults \in 0 .. MaxFaults
RestTyped ==
    /\ validated \subseteq Revision /\ frozen \subseteq Revision /\ prepared \subseteq Revision
    /\ epoch \in 0 .. MaxEpoch /\ pinned \in [Revision -> (0 .. MaxEpoch) \cup {None}]
    /\ agreement \in AgreementStatus /\ delivery \in [Revision -> DeliveryStatus]

QueueInv == NothingAhead /\ RunsHaveJobs /\ StagesInOrder
PipelineInv == TypeOK /\ QueueInv /\ StageIsOpen /\ RunningHasJob /\ SignedFirst

\* Stage 2 is due in status s, when the revisions in V are validated.
Stage2Awaited(s, V) == (s = "STAGE1_PASSED" /\ current \in V) \/ s = "STAGE2_RUNNING"

\* RunningHasJob of rows q, status s and validated revisions V.
HasJob(q, s, V) ==
    /\ s \in {"SUBMITTED", "STAGE1_RUNNING"} => q[Key("stage1", current)].st \in {"QUEUED", "RUNNING"}
    /\ Stage2Awaited(s, V) => \E a \in Stage2Kinds : q[Key(a, current)].st \in {"QUEUED", "RUNNING"}
    /\ s \in {"STAGE2_PASSED", "STAGE3_PREPARING"} =>
          q[Key("prepare", current)].st \in {"QUEUED", "RUNNING"}

\* The release waits for this job in status s.
Needs(s, k, V) ==
    /\ k.rev = current
    /\ \/ k.kind = "stage1" /\ s \in {"SUBMITTED", "STAGE1_RUNNING"}
       \/ k.kind \in Stage2Kinds /\ Stage2Awaited(s, V)
       \/ k.kind = "prepare" /\ s \in {"STAGE2_PASSED", "STAGE3_PREPARING"}

StatusType ==
    {"DRAFT", "SUBMITTED", "STAGE1_RUNNING", "STAGE1_CORRECTION", "STAGE1_PASSED",
     "STAGE2_RUNNING", "STAGE2_REVIEW", "STAGE2_CORRECTION", "STAGE2_PASSED",
     "STAGE3_PREPARING", "STAGE3_CORRECTION", "READY_FOR_DELIVERY", "WITHDRAWN"}

-----------------------------------------------------------------------------
(* Lemmas on the operators *)

LEMMA Edges ==
    ASSUME NEW a, NEW b
    PROVE  <<a, b>> \in Transitions <=>
              \/ a \in Editable /\ b = "SUBMITTED"
              \/ a \in Withdrawable \cup {"SUBMITTED"} /\ b = "WITHDRAWN"
              \/ a = "SUBMITTED" /\ b = "STAGE1_RUNNING"
              \/ a = "STAGE1_RUNNING" /\ b \in {"STAGE1_CORRECTION", "STAGE1_PASSED"}
              \/ a = "STAGE1_PASSED" /\ b = "STAGE2_RUNNING"
              \/ a = "STAGE2_REVIEW" /\ b = "STAGE2_RUNNING"
              \/ a = "STAGE2_RUNNING" /\ b \in {"STAGE2_REVIEW", "STAGE2_CORRECTION", "STAGE2_PASSED"}
              \/ a = "STAGE2_PASSED" /\ b = "STAGE3_PREPARING"
              \/ a = "STAGE3_PREPARING" /\ b \in {"STAGE3_CORRECTION", "READY_FOR_DELIVERY"}
              \/ a = "STAGE3_CORRECTION" /\ b = "STAGE3_PREPARING"
              \/ a = "READY_FOR_DELIVERY" /\ b = "STAGE3_CORRECTION"
  BY DEF Transitions

LEMMA Statuses == ReleaseStatus = StatusType
  <1>1. \A e \in Transitions : e[1] \in StatusType /\ e[2] \in StatusType
    BY DEF Transitions, StatusType, Editable, Withdrawable
  <1>2. ASSUME NEW s \in StatusType PROVE s \in ReleaseStatus
    <2>1. \/ \E b : <<s, b>> \in Transitions
          \/ <<"SUBMITTED", s>> \in Transitions
      BY Edges DEF StatusType, Editable, Withdrawable
    <2>2. CASE <<"SUBMITTED", s>> \in Transitions
      <3>1. <<"SUBMITTED", s>>[2] = s
        OBVIOUS
      <3>2. QED
        BY <2>2, <3>1, Zenon DEF ReleaseStatus
    <2>3. ASSUME NEW b, <<s, b>> \in Transitions PROVE s \in ReleaseStatus
      <3>1. <<s, b>>[1] = s
        OBVIOUS
      <3>2. QED
        BY <2>3, <3>1, Zenon DEF ReleaseStatus
    <2>4. QED
      BY <2>1, <2>2, <2>3
  <1>3. QED
    BY <1>1, <1>2, Zenon DEF ReleaseStatus

LEMMA Keys ==
    ASSUME NEW kind \in JobKind, NEW v \in Revision
    PROVE  /\ Key(kind, v) \in JobId /\ Key(kind, v).kind = kind /\ Key(kind, v).rev = v
           /\ \A k \in JobId : k = Key(kind, v) <=> k.kind = kind /\ k.rev = v
  BY DEF Key, JobId

LEMMA Kinds == JobKind = {"stage1", "prepare", "stage2", "again"}
  BY DEF JobKind, Stage2Kinds

LEMMA SurfacedIs ==
    ASSUME NEW k \in JobId, NEW s \in StatusType, NEW V
    PROVE  /\ Surfaced(k, s) \in StatusType
           /\ Surfaced(k, s) = s \/ Surfaced(k, s) \in {"STAGE1_CORRECTION", "STAGE2_REVIEW", "STAGE3_CORRECTION"}
           /\ Needs(s, k, V) => Surfaced(k, s) \in {"STAGE1_CORRECTION", "STAGE2_REVIEW", "STAGE3_CORRECTION"}
           /\ Surfaced(k, s) # s => current = k.rev
  <1>1. k.kind \in {"stage1", "prepare", "stage2", "again"}
    BY Kinds DEF JobId
  <1>2. CASE k.kind = "stage1"
    BY <1>2 DEF Surfaced, SurfaceFrom, SurfaceTo, Needs, Stage2Awaited, StatusType, Stage2Kinds
  <1>3. CASE k.kind = "prepare"
    BY <1>3 DEF Surfaced, SurfaceFrom, SurfaceTo, Needs, Stage2Awaited, StatusType, Stage2Kinds
  <1>4. CASE k.kind \in Stage2Kinds
    BY <1>4 DEF Surfaced, SurfaceFrom, SurfaceTo, Needs, Stage2Awaited, StatusType, Stage2Kinds
  <1>5. QED
    BY <1>1, <1>2, <1>3, <1>4 DEF Stage2Kinds

LEMMA TypeParts ==
    /\ TypeOK <=> status \in StatusType /\ current \in 0 .. MaxRevisions /\ QueueTyped /\ RestTyped
    /\ TypeOK' <=> status' \in StatusType /\ current' \in 0 .. MaxRevisions /\ QueueTyped' /\ RestTyped'
  <1>1. TypeOK <=> status \in StatusType /\ current \in 0 .. MaxRevisions /\ QueueTyped /\ RestTyped
    BY Statuses, Zenon DEF TypeOK, QueueTyped, RestTyped
  <1>2. ReleaseStatus' = StatusType
    BY Statuses DEF ReleaseStatus, Transitions, Editable, Withdrawable
  <1>3. TypeOK' <=> status' \in StatusType /\ current' \in 0 .. MaxRevisions /\ QueueTyped' /\ RestTyped'
    BY <1>2, Zenon DEF TypeOK, QueueTyped, RestTyped
  <1>4. QED
    BY <1>1, <1>3

LEMMA EnqueuedIs ==
    ASSUME job \in [JobId -> Row], NEW k \in JobId
    PROVE  /\ Enqueued(k) \in [JobId -> Row]
           /\ \A j \in JobId : j # k => Enqueued(k)[j] = job[j]
           /\ Enqueued(k)[k].st = IF job[k].st = "ABSENT" THEN "QUEUED" ELSE job[k].st
           /\ job[k].st # "ABSENT" => Enqueued(k) = job
  <1>1. CASE job[k].st = "ABSENT"
    <2>1. Enqueued(k) = [job EXCEPT ![k].st = "QUEUED"]
      BY <1>1 DEF Enqueued
    <2>2. Enqueued(k) \in [JobId -> Row]
      BY <2>1 DEF Row
    <2>3. (\A j \in JobId : j # k => Enqueued(k)[j] = job[j]) /\ Enqueued(k)[k].st = "QUEUED"
      BY <2>1 DEF Row
    <2>4. QED
      BY <1>1, <2>2, <2>3
  <1>2. CASE job[k].st # "ABSENT"
    BY <1>2 DEF Enqueued
  <1>3. QED
    BY <1>1, <1>2

LEMMA ReportedIs ==
    ASSUME NEW k \in JobId, NEW q \in [JobId -> Row], NEW s, NEW out, Reported(k, q, s, out)
    PROVE  /\ job' \in [JobId -> Row]
           /\ \A j \in JobId : j # k => job'[j] = q[j]
           /\ job'[k].st \in {"QUEUED", "SETTLED"}
           /\ status' = s \/ status' = Surfaced(k, s)
           /\ job'[k].st = "SETTLED" => (out # "retry" /\ out # "failed") \/ status' = Surfaced(k, s)
           /\ out # "retry" /\ out # "failed" => status' = s
  <1> USE PipelineAssumption
  <1> DEFINE dead == out = "failed" \/ (out = "retry" /\ q[k].tries = MaxTries)
             settled == [st |-> "SETTLED", tries |-> 0]
             again == [q[k] EXCEPT !.st = "QUEUED"]
  <1>1. /\ job' = [q EXCEPT ![k] = IF out = "retry" /\ ~dead THEN again ELSE settled]
        /\ status' = IF dead THEN Surfaced(k, s) ELSE s
    BY DEF Reported
  <1>2. again \in Row /\ settled \in Row /\ again.st = "QUEUED" /\ settled.st = "SETTLED"
    BY DEF Row
  <1> HIDE DEF settled, again
  <1>3. job' \in [JobId -> Row] /\ (\A j \in JobId : j # k => job'[j] = q[j])
        /\ job'[k] = IF out = "retry" /\ ~dead THEN again ELSE settled
    BY <1>1, <1>2
  <1>4. QED
    BY <1>1, <1>2, <1>3

\* A run's job was enqueued, so its revision was submitted.
LEMMA RunFacts ==
    ASSUME TypeOK, QueueInv, NEW r \in runs
    PROVE  /\ r \in Run /\ r.job \in JobId /\ r.job.kind \in JobKind /\ r.job.rev \in Revision
           /\ r.job.rev \in 1 .. current /\ current \in Revision
           /\ Key(r.job.kind, r.job.rev) = r.job
  <1> USE PipelineAssumption
  <1>1. r \in Run /\ r.job \in JobId /\ current \in 0 .. MaxRevisions
    BY TypeParts DEF QueueTyped, Run
  <1>2. r.job.kind \in JobKind /\ r.job.rev \in Revision
    BY <1>1 DEF JobId
  <1>3. ~(r.job.rev > current)
    BY <1>1 DEF QueueInv, NothingAhead, RunsHaveJobs
  <1>4. QED
    BY <1>1, <1>2, <1>3, Keys DEF Revision

-----------------------------------------------------------------------------
(* A run's last transaction and its report *)

LEMMA ConcludedQueue ==
    ASSUME TypeOK, QueueInv, NEW r \in runs, NEW q \in [JobId -> Row], NEW s \in StatusType, NEW out,
           \A k \in JobId : job[k].st # "ABSENT" => q[k] = job[k],
           Concludes(r, q, s, out)
    PROVE  /\ QueueTyped' /\ RunsHaveJobs' /\ runs' = runs \ {r}
           /\ \A k \in JobId : k # r.job => job'[k] = q[k]
           /\ \A k \in JobId : job'[k].st = "ABSENT" <=> q[k].st = "ABSENT"
           /\ status' = s \/ status' = Surfaced(r.job, s)
           /\ job'[r.job] = q[r.job] \/ job'[r.job].st \in {"QUEUED", "SETTLED"}
           /\ job'[r.job].st = "SETTLED" /\ job'[r.job] # q[r.job]
                => (out # "retry" /\ out # "failed") \/ status' = Surfaced(r.job, s)
  <1> USE PipelineAssumption
  <1>1. /\ job \in [JobId -> Row] /\ runs \subseteq Run /\ faults \in 0 .. MaxFaults /\ RunsHaveJobs
        /\ runs' = runs \ {r} /\ r.job \in JobId
    BY TypeParts, RunFacts DEF QueueTyped, QueueInv, Concludes
  <1>2. job[r.job].st # "ABSENT" /\ q[r.job] = job[r.job]
    BY <1>1 DEF RunsHaveJobs
  <1>3. \A x \in runs : x.job \in JobId /\ job[x.job].st # "ABSENT" /\ q[x.job] = job[x.job]
    BY <1>1 DEF RunsHaveJobs, Run
  <1>4. CASE r.held /\ Reported(r.job, q, s, out) /\ UNCHANGED faults
    <2>1. /\ job' \in [JobId -> Row]
          /\ \A j \in JobId : j # r.job => job'[j] = q[j]
          /\ job'[r.job].st \in {"QUEUED", "SETTLED"}
          /\ status' = s \/ status' = Surfaced(r.job, s)
          /\ job'[r.job].st = "SETTLED"
                => (out # "retry" /\ out # "failed") \/ status' = Surfaced(r.job, s)
      BY <1>1, <1>4, ReportedIs
    <2>2. RunsHaveJobs'
      <3>1. ASSUME NEW x \in runs'
            PROVE  job'[x.job].st # "ABSENT" /\ (x.held => job'[x.job].st = "RUNNING")
        <4>1. x \in runs /\ x # r
          BY <1>1
        <4>2. CASE x.job = r.job
          BY <1>1, <1>4, <2>1, <4>1, <4>2 DEF RunsHaveJobs
        <4>3. CASE x.job # r.job
          BY <1>1, <1>3, <2>1, <4>1, <4>3 DEF RunsHaveJobs
        <4>4. QED
          BY <4>2, <4>3
      <3>2. \A x, y \in runs' : x.held /\ y.held /\ x.job = y.job => x = y
        BY <1>1 DEF RunsHaveJobs
      <3>3. QED
        BY <3>1, <3>2 DEF RunsHaveJobs
    <2>3. QueueTyped'
      BY <1>1, <1>4, <2>1 DEF QueueTyped
    <2>4. QED
      BY <1>1, <1>2, <2>1, <2>2, <2>3
  <1>5. CASE job' = q /\ status' = s /\ faults' \in 0 .. MaxFaults
    <2>1. RunsHaveJobs'
      BY <1>1, <1>3, <1>5 DEF RunsHaveJobs
    <2>2. QueueTyped'
      BY <1>1, <1>5 DEF QueueTyped
    <2>3. QED
      BY <1>1, <1>5, <2>1, <2>2
  <1>6. Fault => faults' \in 0 .. MaxFaults
    BY <1>1 DEF Fault
  <1>7. QED
    BY <1>1, <1>4, <1>5, <1>6 DEF Concludes, Holds

\* Rows that change only for job k, and not without bringing the release
\* that needs it to a person, leave no release waiting for nothing.
LEMMA RowsHaveJob ==
    ASSUME NEW k \in JobId, NEW q, NEW s \in StatusType, current \in Revision, current' = current,
           \A j \in JobId : j # k => job'[j] = q[j],
           status' = s \/ status' = Surfaced(k, s),
           job'[k] = q[k] \/ job'[k].st \in {"QUEUED", "SETTLED"},
           job'[k].st = "SETTLED" /\ job'[k] # q[k] => ~Needs(s, k, validated') \/ status' = Surfaced(k, s),
           HasJob(q, s, validated')
    PROVE  RunningHasJob'
  <1> DEFINE Corrected == {"STAGE1_CORRECTION", "STAGE2_REVIEW", "STAGE3_CORRECTION"}
  <1>1. /\ Needs(s, k, validated') => Surfaced(k, s) \in Corrected
        /\ Surfaced(k, s) = s \/ Surfaced(k, s) \in Corrected
    BY SurfacedIs
  <1>3. CASE status' \in Corrected
    BY <1>3 DEF RunningHasJob, Overtaken
  <1>4. CASE status' \notin Corrected
    <2>1. status' = s
      BY <1>1, <1>4
    <2>2. ASSUME NEW kind \in JobKind, q[Key(kind, current)].st \in {"QUEUED", "RUNNING"},
                 Needs(s, Key(kind, current), validated')
          PROVE  job'[Key(kind, current)].st \in {"QUEUED", "RUNNING"}
      <3>1. Key(kind, current) \in JobId
        BY Keys
      <3>2. CASE Key(kind, current) # k
        BY <2>2, <3>1, <3>2
      <3>3. CASE Key(kind, current) = k
        BY <1>1, <1>4, <2>1, <2>2, <3>3
      <3>4. QED
        BY <3>2, <3>3
    <2>3. \A kind \in JobKind : /\ Key(kind, current).kind = kind
                                /\ Key(kind, current).rev = current
      BY Keys
    <2>4. s \in {"SUBMITTED", "STAGE1_RUNNING"} => job'[Key("stage1", current)].st \in {"QUEUED", "RUNNING"}
      BY <2>2, <2>3, Kinds DEF HasJob, Needs
    <2>5. Stage2Awaited(s, validated') => \E a \in Stage2Kinds : job'[Key(a, current)].st \in {"QUEUED", "RUNNING"}
      <3> SUFFICES ASSUME Stage2Awaited(s, validated')
                   PROVE  \E a \in Stage2Kinds : job'[Key(a, current)].st \in {"QUEUED", "RUNNING"}
        OBVIOUS
      <3>1. PICK a \in Stage2Kinds : q[Key(a, current)].st \in {"QUEUED", "RUNNING"}
        BY DEF HasJob
      <3>2. a \in JobKind
        BY DEF JobKind
      <3>3. Needs(s, Key(a, current), validated')
        BY <2>3, <3>2 DEF Needs
      <3>4. QED
        BY <2>2, <3>1, <3>2, <3>3
    <2>6. s \in {"STAGE2_PASSED", "STAGE3_PREPARING"}
             => job'[Key("prepare", current)].st \in {"QUEUED", "RUNNING"}
      BY <2>2, <2>3, Kinds DEF HasJob, Needs
    <2>7. QED
      BY <2>1, <2>4, <2>5, <2>6, current' = current
         DEF RunningHasJob, Overtaken, Stage2Awaited, Pending, Key, Stage2Kinds
  <1>5. QED
    BY <1>3, <1>4

\* A run's last transaction leaves rows q and status s, with packages and
\* papers that suit them.
LEMMA ConcludeStep ==
    ASSUME PipelineInv, NEW r \in runs, NEW q \in [JobId -> Row], NEW s \in StatusType, NEW out,
           \A k \in JobId : job[k].st # "ABSENT" => q[k] = job[k],
           \A k \in JobId : k.rev > current => q[k].st = "ABSENT",
           Concludes(r, q, s, out), current' = current, HasJob(q, s, validated'),
           out # "retry" /\ out # "failed" => ~Needs(s, r.job, validated'),
           RestTyped', SignedFirst',
           \A v \in Revision : v > current => v \notin validated' /\ pinned'[v] = None,
           \A v \in Revision : v \notin validated' => q[Key("stage2", v)].st = "ABSENT",
           \A v \in Revision : pinned'[v] = None => q[Key("prepare", v)].st = "ABSENT",
           \A v \in prepared' : pinned'[v] # None,
           s \in {"SUBMITTED", "STAGE1_RUNNING"} => current \notin validated',
           s \in Undecided => pinned'[current] = None,
           s \in {"STAGE2_PASSED", "STAGE3_PREPARING"} => current \notin prepared',
           s = "STAGE2_PASSED" =>
               \A x \in runs \ {r} : x.job = Key("prepare", current) => x.pc = "check"
    PROVE  PipelineInv'
  <1>1. TypeOK /\ QueueInv /\ current \in Revision /\ r.job \in JobId /\ current \in 0 .. MaxRevisions
    BY RunFacts, TypeParts DEF PipelineInv
  <1>2. /\ QueueTyped' /\ RunsHaveJobs' /\ runs' = runs \ {r}
        /\ \A k \in JobId : job'[k].st = "ABSENT" <=> q[k].st = "ABSENT"
        /\ status' = s \/ status' = Surfaced(r.job, s)
    BY <1>1, ConcludedQueue
  <1>3. /\ status' \in StatusType
        /\ status' = s \/ status' \in {"STAGE1_CORRECTION", "STAGE2_REVIEW", "STAGE3_CORRECTION"}
    BY <1>1, <1>2, SurfacedIs
  <1>4. TypeOK'
    BY <1>1, <1>2, <1>3, TypeParts
  <1>5. NothingAhead'
    <2>1. current' # 0
      BY <1>1 DEF Revision
    <2>2. QED
      BY <1>2, <2>1 DEF NothingAhead
  <1>6. StagesInOrder'
    <2>1. \A v \in Revision : Key("prepare", v) \in JobId /\ Key("stage2", v) \in JobId
      BY Keys, Kinds
    <2>2. \A a, v : Key(a, v)' = Key(a, v)
      BY DEF Key
    <2>3. QED
      BY <1>2, <2>1, Zenon DEF StagesInOrder, Key
  <1>7. StageIsOpen'
    BY <1>2, <1>3 DEF StageIsOpen, Undecided, Key
  <1>8. RunningHasJob'
    BY <1>1, ConcludedQueue, RowsHaveJob
  <1>9. QED
    BY <1>2, <1>4, <1>5, <1>6, <1>7, <1>8 DEF PipelineInv, QueueInv

\* StageIsOpen of status s.
OpenAt(s) ==
    /\ s \in {"SUBMITTED", "STAGE1_RUNNING"} => current \notin validated
    /\ s \in Undecided => pinned[current] = None
    /\ s \in {"STAGE2_PASSED", "STAGE3_PREPARING"} => current \notin prepared
    /\ s = "STAGE2_PASSED" => \A x \in runs : x.job = Key("prepare", current) => x.pc = "check"

\* The same, when the packages stay as they are.
LEMMA ConcludeSame ==
    ASSUME PipelineInv, NEW r \in runs, NEW s \in StatusType, NEW out,
           Concludes(r, job, s, out), current' = current,
           UNCHANGED <<validated, pinned, prepared, epoch, papers>>, frozen' \subseteq Revision,
           HasJob(job, s, validated), OpenAt(s),
           out # "retry" /\ out # "failed" => ~Needs(s, r.job, validated)
    PROVE  PipelineInv'
  <1>0. /\ validated' = validated /\ pinned' = pinned /\ prepared' = prepared /\ epoch' = epoch
        /\ agreement' = agreement /\ delivery' = delivery
    BY DEF papers
  <1>1. job \in [JobId -> Row] /\ RestTyped /\ SignedFirst /\ NothingAhead /\ StagesInOrder
    BY TypeParts DEF PipelineInv, QueueInv, QueueTyped
  <1>2. RestTyped' /\ SignedFirst'
    BY <1>0, <1>1 DEF RestTyped, SignedFirst
  <1>3. /\ \A k \in JobId : k.rev > current => job[k].st = "ABSENT"
        /\ \A v \in Revision : v > current => v \notin validated' /\ pinned'[v] = None
    BY <1>0, <1>1 DEF NothingAhead
  <1>4. /\ \A v \in Revision : v \notin validated' => job[Key("stage2", v)].st = "ABSENT"
        /\ \A v \in Revision : pinned'[v] = None => job[Key("prepare", v)].st = "ABSENT"
        /\ \A v \in prepared' : pinned'[v] # None
    BY <1>0, <1>1 DEF StagesInOrder
  <1>5. /\ s \in {"SUBMITTED", "STAGE1_RUNNING"} => current \notin validated'
        /\ s \in Undecided => pinned'[current] = None
        /\ s \in {"STAGE2_PASSED", "STAGE3_PREPARING"} => current \notin prepared'
        /\ s = "STAGE2_PASSED" =>
               \A x \in runs \ {r} : x.job = Key("prepare", current) => x.pc = "check"
    BY <1>0 DEF OpenAt
  <1>6. QED
    BY <1>0, <1>1, <1>2, <1>3, <1>4, <1>5, ConcludeStep

\* The status as it is suits the rows.
LEMMA AsItIs ==
    ASSUME PipelineInv
    PROVE  /\ status \in StatusType /\ HasJob(job, status, validated) /\ OpenAt(status)
           /\ Stage1Begun \in StatusType /\ HasJob(job, Stage1Begun, validated) /\ OpenAt(Stage1Begun)
           /\ job \in [JobId -> Row] /\ frozen \subseteq Revision
  <1>1. /\ status \in StatusType /\ job \in [JobId -> Row] /\ frozen \subseteq Revision
        /\ RunningHasJob /\ StageIsOpen
    BY TypeParts DEF PipelineInv, QueueTyped, RestTyped
  <1>2. HasJob(job, status, validated) /\ OpenAt(status)
    BY <1>1 DEF RunningHasJob, Overtaken, HasJob, Stage2Awaited, Pending, StageIsOpen, OpenAt
  <1>3. Stage1Begun \in StatusType /\ HasJob(job, Stage1Begun, validated) /\ OpenAt(Stage1Begun)
    BY <1>1, <1>2 DEF Stage1Begun, StatusType, HasJob, Stage2Awaited, Undecided, OpenAt
  <1>4. QED
    BY <1>1, <1>2, <1>3

\* A corrected or reviewed stage waits for no job.
LEMMA AtRest ==
    ASSUME NEW s \in {"STAGE1_CORRECTION", "STAGE2_REVIEW", "STAGE2_CORRECTION",
                      "STAGE3_CORRECTION", "READY_FOR_DELIVERY", "WITHDRAWN"}
    PROVE  /\ s \in StatusType /\ OpenAt(s) /\ \A q, V : HasJob(q, s, V)
           /\ \A k, V : ~Needs(s, k, V)
  BY DEF StatusType, OpenAt, Undecided, HasJob, Needs, Stage2Awaited

-----------------------------------------------------------------------------
(* The stages *)

LEMMA Stage1Step ==
    ASSUME PipelineInv, NEW r \in runs, Stage1(r)
    PROVE  PipelineInv'
  <1>0. /\ current' = current /\ epoch' = epoch /\ agreement' = agreement /\ delivery' = delivery
        /\ pinned' = pinned /\ frozen' = frozen /\ prepared' = prepared
        /\ UNCHANGED papers
        /\ r.job.kind = "stage1"
    BY DEF Stage1, Stage1Done, Stage1Retry, Stage1Block, Stage1Pass, Stage1Raise, packages, papers, At
  <1>1. TypeOK /\ QueueInv /\ frozen \subseteq Revision /\ RestTyped /\ SignedFirst /\ StageIsOpen
    BY TypeParts DEF PipelineInv, RestTyped
  <1>2. CASE Stage1Done(r)
    <2>1. validated' = validated /\ r.job.rev \in validated /\ Concludes(r, job, status, "ok")
      BY <1>2 DEF Stage1Done, packages
    <2>2. ~Needs(status, r.job, validated)
      BY <1>0, <1>1, <2>1 DEF Needs, StageIsOpen, Stage2Kinds
    <2>3. QED
      BY <1>0, <1>1, <2>1, <2>2, AsItIs, ConcludeSame
  <1>3. CASE Stage1Retry(r)
    <2>1. validated' = validated /\ Concludes(r, job, Stage1Begun, "retry")
      BY <1>3 DEF Stage1Retry, packages
    <2>2. QED
      BY <1>0, <1>1, <2>1, AsItIs, ConcludeSame
  <1>4. CASE Stage1Block(r)
    <2>1. validated' = validated /\ Concludes(r, job, "STAGE1_CORRECTION", "ok")
      BY <1>4 DEF Stage1Block, packages
    <2>2. QED
      BY <1>0, <1>1, <2>1, AtRest, ConcludeSame
  <1>5. CASE Stage1Pass(r)
    <2> DEFINE q == Enqueued(Key("stage2", r.job.rev))
               s == "STAGE1_PASSED"
    <2>1. /\ validated' = validated \cup {r.job.rev} /\ Concludes(r, q, s, "ok")
          /\ r.job.rev \notin validated /\ status \in Undecided
          /\ status = "STAGE1_PASSED" \/ status \in {"SUBMITTED", "STAGE1_RUNNING"}
      BY <1>5, Edges DEF Stage1Pass, Reachable, Stage1Begun, Undecided, Editable, Withdrawable
    <2>2. /\ r.job.rev \in Revision /\ r.job.rev \in 1 .. current /\ current \in Revision
          /\ Key("stage2", r.job.rev) \in JobId /\ Key("stage2", r.job.rev).rev = r.job.rev
          /\ Key("stage2", r.job.rev).kind = "stage2"
      BY <1>1, RunFacts, Keys, Kinds
    <2>11. job[Key("stage2", r.job.rev)].st = "ABSENT"
      BY <1>1, <2>1, <2>2 DEF QueueInv, StagesInOrder
    <2>3. /\ q[Key("stage2", r.job.rev)].st = "QUEUED"
          /\ q \in [JobId -> Row]
          /\ \A k \in JobId : k # Key("stage2", r.job.rev) => q[k] = job[k]
          /\ \A k \in JobId : job[k].st # "ABSENT" => q[k] = job[k]
      BY <2>2, <2>11, AsItIs, EnqueuedIs
    <2> HIDE DEF q
    <2>4. ASSUME NEW k \in JobId, k.rev > current PROVE q[k].st = "ABSENT"
      <3>1. k # Key("stage2", r.job.rev)
        BY <2>2, <2>4 DEF Revision
      <3>2. job[k].st = "ABSENT"
        BY <1>1, <2>4 DEF QueueInv, NothingAhead
      <3>3. QED
        BY <2>3, <3>1, <3>2
    <2>5. \A v \in Revision : Key("prepare", v) \in JobId /\ Key("prepare", v) # Key("stage2", r.job.rev)
      BY <2>2, Keys, Kinds
    <2>12. \A v \in Revision : v \notin validated' => q[Key("stage2", v)].st = "ABSENT"
      <3>1. \A v \in Revision : Key("stage2", v) \in JobId /\ Key("stage2", v).rev = v
        BY Keys, Kinds
      <3>2. QED
        BY <1>1, <2>1, <2>2, <2>3, <3>1 DEF QueueInv, StagesInOrder
    <2>6. /\ \A v \in Revision : pinned'[v] = None => q[Key("prepare", v)].st = "ABSENT"
          /\ \A v \in prepared' : pinned'[v] # None
      BY <1>0, <1>1, <2>3, <2>5 DEF QueueInv, StagesInOrder
    <2>7. RestTyped' /\ SignedFirst'
      BY <1>0, <1>1, <2>1, <2>2 DEF RestTyped, SignedFirst
    <2>8. \A v \in Revision : v > current => v \notin validated' /\ pinned'[v] = None
      BY <1>0, <1>1, <2>1, <2>2 DEF QueueInv, NothingAhead, Revision
    <2>9. HasJob(q, s, validated')
      <3>1. SUFFICES ASSUME current \in validated'
                     PROVE  \E a \in Stage2Kinds : q[Key(a, current)].st \in {"QUEUED", "RUNNING"}
        BY DEF HasJob, Stage2Awaited
      <3>2. CASE r.job.rev = current
        BY <2>3, <3>2 DEF Stage2Kinds
      <3>3. CASE r.job.rev # current
        <4>1. current \in validated /\ status = "STAGE1_PASSED"
          BY <1>1, <2>1, <3>1, <3>3 DEF StageIsOpen
        <4>2. PICK a \in Stage2Kinds : job[Key(a, current)].st \in {"QUEUED", "RUNNING"}
          BY <4>1, AsItIs DEF HasJob, Stage2Awaited
        <4>3. Key(a, current) \in JobId
          BY <2>2, Keys DEF JobKind
        <4>4. q[Key(a, current)] = job[Key(a, current)]
          BY <2>3, <4>2, <4>3
        <4>5. QED
          BY <4>2, <4>4
      <3>4. QED
        BY <3>2, <3>3
    <2>13. ~Needs(s, r.job, validated') /\ s \in StatusType /\ pinned'[current] = None
      BY <1>0, <1>1, <2>1 DEF Needs, StatusType, StageIsOpen, Stage2Kinds
    <2>10. QED
      BY <1>0, <2>1, <2>3, <2>4, <2>6, <2>7, <2>8, <2>9, <2>12, <2>13, ConcludeStep
  <1>6. CASE Stage1Raise(r)
    <2>1. validated' = validated /\ Concludes(r, job, status, "retry")
      BY <1>6 DEF Stage1Raise, packages
    <2>2. QED
      BY <1>0, <1>1, <2>1, AsItIs, ConcludeSame
  <1>7. QED
    BY <1>2, <1>3, <1>4, <1>5, <1>6 DEF Stage1

LEMMA Stage2Step ==
    ASSUME PipelineInv, NEW r \in runs, Stage2(r)
    PROVE  PipelineInv'
  <1> USE PipelineAssumption
  <1>0. /\ current' = current /\ epoch' = epoch /\ agreement' = agreement /\ delivery' = delivery
        /\ validated' = validated /\ frozen' = frozen /\ prepared' = prepared
        /\ UNCHANGED papers
        /\ r.job.kind \in Stage2Kinds /\ r.held
    BY DEF Stage2, Stage2Skip, Stage2Hold, Stage2Due, Stage2Pass, packages, papers, At, Holds
  <1>1. /\ TypeOK /\ QueueInv /\ frozen \subseteq Revision /\ RestTyped /\ SignedFirst /\ StageIsOpen
        /\ job \in [JobId -> Row]
    BY TypeParts DEF PipelineInv, RestTyped, QueueTyped
  <1>2. /\ r.job \in JobId /\ r.job.rev \in Revision /\ r.job.kind \in JobKind /\ current \in Revision
        /\ Key(r.job.kind, r.job.rev) = r.job
    BY <1>1, RunFacts
  <1>3. CASE Stage2Skip(r)
    <2>1. pinned' = pinned /\ Concludes(r, job, status, "ok")
      BY <1>3 DEF Stage2Skip, packages
    <2>2. ~Needs(status, r.job, validated)
      BY <1>0, <1>1, <1>3 DEF Needs, Stage2Awaited, StageIsOpen, Undecided, Stage2Skip, Decidable, Stage2Kinds
    <2>3. QED
      BY <1>0, <1>1, <2>1, <2>2, AsItIs, ConcludeSame
  <1>4. ASSUME NEW v \in {"STAGE2_RUNNING", "STAGE2_REVIEW", "STAGE2_CORRECTION"}, Stage2Hold(r, v)
        PROVE  PipelineInv'
    <2>1. /\ pinned' = pinned /\ r.job.rev = current /\ pinned[r.job.rev] = None
          /\ Concludes(r, job, v, IF v = "STAGE2_RUNNING" THEN "retry" ELSE "ok")
      BY <1>4 DEF Stage2Hold, Stage2Due, packages
    <2>2. CASE v = "STAGE2_RUNNING"
      <3>1. job[Key(r.job.kind, current)].st = "RUNNING"
        BY <1>0, <1>1, <1>2, <2>1 DEF QueueInv, RunsHaveJobs
      <3>2. HasJob(job, v, validated) /\ OpenAt(v) /\ v \in StatusType
        BY <1>0, <2>1, <2>2, <3>1 DEF HasJob, Stage2Awaited, OpenAt, Undecided, StatusType
      <3>3. Concludes(r, job, v, "retry")
        BY <2>1, <2>2
      <3>4. QED
        BY <1>0, <1>1, <2>1, <3>2, <3>3, ConcludeSame
    <2>3. CASE v # "STAGE2_RUNNING"
      <3>1. Concludes(r, job, v, "ok") /\ v \in {"STAGE2_REVIEW", "STAGE2_CORRECTION"}
        BY <2>1, <2>3
      <3>2. QED
        BY <1>0, <1>1, <2>1, <3>1, AtRest, ConcludeSame
    <2>4. QED
      BY <2>2, <2>3
  <1>5. CASE Stage2Pass(r)
    <2> DEFINE k0 == Key("prepare", r.job.rev)
               q == Enqueued(k0)
               s == "STAGE2_PASSED"
    <2>1. /\ pinned' = [pinned EXCEPT ![r.job.rev] = epoch] /\ Concludes(r, q, s, "ok")
          /\ r.job.rev = current /\ pinned[r.job.rev] = None
      BY <1>5 DEF Stage2Pass, Stage2Due
    <2>2. k0 \in JobId /\ k0.kind = "prepare" /\ k0.rev = current
      BY <1>2, <2>1, Keys, Kinds
    <2>3. job[k0].st = "ABSENT"
      BY <1>1, <1>2, <2>1 DEF QueueInv, StagesInOrder
    <2>4. /\ q \in [JobId -> Row] /\ q[k0].st = "QUEUED"
          /\ \A k \in JobId : k # k0 => q[k] = job[k]
          /\ \A k \in JobId : job[k].st # "ABSENT" => q[k] = job[k]
      BY <1>1, <2>2, <2>3, EnqueuedIs
    <2>5. HasJob(q, s, validated')
      BY <2>1, <2>4 DEF HasJob, Stage2Awaited
    <2> HIDE DEF q
    <2>6. ~Needs(s, r.job, validated') /\ s \in StatusType
      BY <1>0 DEF Needs, Stage2Awaited, Stage2Kinds, StatusType
    <2>7. ASSUME NEW k \in JobId, k.rev > current PROVE q[k].st = "ABSENT"
      <3>1. k # k0
        BY <1>2, <2>2, <2>7 DEF Revision
      <3>2. job[k].st = "ABSENT"
        BY <1>1, <2>7 DEF QueueInv, NothingAhead
      <3>3. QED
        BY <2>4, <3>1, <3>2
    <2>8. epoch \in 0 .. MaxEpoch /\ epoch # None /\ pinned \in [Revision -> (0 .. MaxEpoch) \cup {None}]
      BY <1>1 DEF RestTyped, None
    <2>9. /\ pinned'[current] = epoch /\ \A v \in Revision : v # current => pinned'[v] = pinned[v]
          /\ pinned' \in [Revision -> (0 .. MaxEpoch) \cup {None}]
      BY <1>2, <2>1, <2>8
    <2>10. ASSUME NEW v \in Revision, pinned'[v] = None
           PROVE  q[Key("prepare", v)].st = "ABSENT"
      <3>1. v # current /\ pinned[v] = None
        BY <2>8, <2>9, <2>10
      <3>2. Key("prepare", v) \in JobId /\ Key("prepare", v).rev = v
        BY Keys, Kinds
      <3>3. QED
        BY <1>1, <2>2, <2>4, <3>1, <3>2 DEF QueueInv, StagesInOrder
    <2>11. \A v \in prepared' : pinned'[v] # None
      <3>1. \A v \in prepared : v \in Revision /\ pinned[v] # None
        BY <1>1 DEF QueueInv, StagesInOrder, RestTyped
      <3>2. QED
        BY <1>0, <2>8, <2>9, <3>1
    <2>12. \A v \in Revision : v > current => v \notin validated' /\ pinned'[v] = None
      BY <1>0, <1>1, <1>2, <2>9 DEF QueueInv, NothingAhead, Revision
    <2>13. current \notin prepared'
      BY <1>0, <1>1, <2>1 DEF QueueInv, StagesInOrder
    <2>14. \A x \in runs \ {r} : x.job = Key("prepare", current) => x.pc = "check"
      BY <1>1, <2>1, <2>3 DEF QueueInv, RunsHaveJobs
    <2>17. \A v \in Revision : v \notin validated' => q[Key("stage2", v)].st = "ABSENT"
      <3>1. \A v \in Revision : Key("stage2", v) \in JobId /\ Key("stage2", v) # k0
        BY <2>2, Keys, Kinds
      <3>2. QED
        BY <1>0, <1>1, <2>4, <3>1 DEF QueueInv, StagesInOrder
    <2>18. s \notin Undecided
      BY DEF Undecided
    <2>15. RestTyped' /\ SignedFirst'
      BY <1>0, <1>1, <2>9 DEF RestTyped, SignedFirst
    <2> HIDE DEF k0
    <2>16. QED
      BY <1>0, <2>1, <2>4, <2>5, <2>6, <2>7, <2>10, <2>11, <2>12, <2>13, <2>14, <2>15,
         <2>17, <2>18, ConcludeStep
  <1>6. QED
    BY <1>3, <1>4, <1>5 DEF Stage2

\* A prepare run goes on to its next transaction.
LEMMA ContinueStep ==
    ASSUME PipelineInv, NEW r \in runs, NEW at \in {"freeze", "publish"}, Continues(r, at),
           job' = job, faults' = faults, current' = current, frozen' \subseteq Revision,
           UNCHANGED <<validated, pinned, prepared, epoch, papers>>,
           status' = status \/ status' = "STAGE3_PREPARING",
           HasJob(job, status', validated), OpenAt(status'),
           status' = "STAGE2_PASSED" => r.job # Key("prepare", current)
    PROVE  PipelineInv'
  <1> DEFINE rr == [r EXCEPT !.pc = at]
  <1>0. /\ validated' = validated /\ pinned' = pinned /\ prepared' = prepared /\ epoch' = epoch
        /\ agreement' = agreement /\ delivery' = delivery /\ runs' = (runs \ {r}) \cup {rr}
    BY DEF papers, Continues
  <1>1. /\ TypeOK /\ QueueInv /\ RestTyped /\ SignedFirst /\ QueueTyped /\ status \in StatusType
        /\ current \in 0 .. MaxRevisions
    BY TypeParts DEF PipelineInv
  <1>2. r \in Run /\ current \in Revision
    BY <1>1, RunFacts
  <1>3. rr \in Run /\ rr.job = r.job /\ rr.held = r.held /\ rr.pc = at
    BY <1>2 DEF Run
  <1> HIDE DEF rr
  <1>4. TypeOK'
    <2>1. QueueTyped' /\ RestTyped'
      BY <1>0, <1>1, <1>3 DEF QueueTyped, RestTyped
    <2>2. status' \in StatusType
      BY <1>1 DEF StatusType
    <2>3. QED
      BY <1>1, <2>1, <2>2, TypeParts
  <1>5. RunsHaveJobs'
    <2>1. RunsHaveJobs
      BY <1>1 DEF QueueInv
    <2>2. \A x \in runs' : job'[x.job].st # "ABSENT" /\ (x.held => job'[x.job].st = "RUNNING")
      BY <1>0, <1>3, <2>1 DEF RunsHaveJobs
    <2>3. ASSUME NEW x \in runs', NEW y \in runs', x.held, y.held, x.job = y.job PROVE x = y
      <3>1. CASE x = rr /\ y = rr
        BY <3>1
      <3>2. CASE x \in runs \ {r} /\ y \in runs \ {r}
        BY <2>1, <2>3, <3>2 DEF RunsHaveJobs
      <3>3. CASE x = rr /\ y \in runs \ {r}
        BY <1>3, <2>1, <2>3, <3>3 DEF RunsHaveJobs
      <3>4. CASE y = rr /\ x \in runs \ {r}
        BY <1>3, <2>1, <2>3, <3>4 DEF RunsHaveJobs
      <3>5. QED
        BY <1>0, <3>1, <3>2, <3>3, <3>4
    <2>4. QED
      BY <2>2, <2>3 DEF RunsHaveJobs
  <1>6. NothingAhead'
    <2>1. current' # 0
      BY <1>2 DEF Revision
    <2>2. QED
      BY <1>0, <1>1, <2>1 DEF QueueInv, NothingAhead
  <1>7. StagesInOrder'
    BY <1>0, <1>1 DEF QueueInv, StagesInOrder, Key
  <1>8. StageIsOpen'
    <2>1. status' = "STAGE2_PASSED" => \A x \in runs' : x.job = Key("prepare", current) => x.pc = "check"
      BY <1>0, <1>3 DEF OpenAt
    <2>2. QED
      BY <1>0, <2>1 DEF StageIsOpen, Undecided, OpenAt, Key
  <1>9. RunningHasJob'
    BY <1>0 DEF HasJob, Stage2Awaited, RunningHasJob, Overtaken, Pending, Key
  <1>10. SignedFirst'
    BY <1>0, <1>1 DEF SignedFirst
  <1>11. QED
    BY <1>4, <1>5, <1>6, <1>7, <1>8, <1>9, <1>10 DEF PipelineInv, QueueInv

LEMMA DispatchedIs ==
    ASSUME RestTyped, NEW S
    PROVE  /\ Dispatched(S) \in [Revision -> DeliveryStatus]
           /\ \A v \in Revision : Dispatched(S)[v] = delivery[v] \/ Dispatched(S)[v] = "DISPATCH"
  BY DEF Dispatched, RestTyped, DeliveryStatus

LEMMA PrepareStep ==
    ASSUME PipelineInv, NEW r \in runs, Prepare(r)
    PROVE  PipelineInv'
  <1>0. /\ current' = current /\ epoch' = epoch /\ agreement' = agreement
        /\ validated' = validated /\ pinned' = pinned
        /\ r.job.kind = "prepare"
    BY DEF Prepare, PrepareDone, PrepareBegin, PrepareReturn, PrepareRaise, PrepareRefused, PrepareFreeze,
           PreparePublish, PrepareDue, packages, papers, At
  <1>1. /\ TypeOK /\ QueueInv /\ frozen \subseteq Revision /\ RestTyped /\ SignedFirst /\ StageIsOpen
        /\ job \in [JobId -> Row]
    BY TypeParts DEF PipelineInv, RestTyped, QueueTyped
  <1>2. /\ r.job \in JobId /\ r.job.rev \in Revision /\ r.job.kind \in JobKind /\ current \in Revision
        /\ Key(r.job.kind, r.job.rev) = r.job /\ Key("prepare", current).rev = current
    BY <1>1, RunFacts, Keys, Kinds
  <1>3. CASE PrepareDone(r)
    <2>1. /\ UNCHANGED <<prepared, papers>> /\ prepared' = prepared /\ frozen' = frozen
          /\ Concludes(r, job, status, "ok") /\ status = "READY_FOR_DELIVERY"
      BY <1>3 DEF PrepareDone, packages
    <2>2. ~Needs(status, r.job, validated)
      BY <2>1, AtRest
    <2>3. QED
      BY <1>0, <1>1, <2>1, <2>2, AsItIs, ConcludeSame
  <1>4. CASE PrepareBegin(r)
    <2>1. /\ UNCHANGED papers /\ prepared' = prepared /\ frozen' = frozen /\ faults' = faults
          /\ job' = job /\ status' = "STAGE3_PREPARING" /\ Continues(r, "freeze")
          /\ status \in {"STAGE2_PASSED", "STAGE3_PREPARING"}
      BY <1>4 DEF PrepareBegin, PrepareDue, packages
    <2>2. HasJob(job, status', validated) /\ OpenAt(status')
      BY <2>1, AsItIs DEF HasJob, Stage2Awaited, OpenAt, Undecided
    <2>3. QED
      BY <1>0, <1>1, <2>1, <2>2, ContinueStep
  <1>5. CASE PrepareReturn(r)
    <2>1. /\ UNCHANGED papers /\ prepared' = prepared /\ frozen' = frozen
          /\ Concludes(r, job, "STAGE3_CORRECTION", "ok")
      BY <1>5 DEF PrepareReturn, packages
    <2>2. QED
      BY <1>0, <1>1, <2>1, AtRest, ConcludeSame
  <1>6. CASE PrepareRaise(r)
    <2>1. /\ UNCHANGED papers /\ prepared' = prepared /\ frozen' = frozen
          /\ Concludes(r, job, status, "retry")
      BY <1>6 DEF PrepareRaise, packages
    <2>2. QED
      BY <1>0, <1>1, <2>1, AsItIs, ConcludeSame
  <1>7. CASE PrepareRefused(r)
    <2>1. /\ UNCHANGED papers /\ prepared' = prepared /\ frozen' = frozen
          /\ Concludes(r, job, status, "failed")
      BY <1>7 DEF PrepareRefused, packages
    <2>2. QED
      BY <1>0, <1>1, <2>1, AsItIs, ConcludeSame
  <1>8. CASE PrepareFreeze(r)
    <2>1. /\ UNCHANGED papers /\ prepared' = prepared /\ frozen' = frozen \cup {r.job.rev}
          /\ r.pc = "freeze" /\ frozen' \subseteq Revision
      BY <1>1, <1>2, <1>8 DEF PrepareFreeze, At
    <2>2. CASE Continues(r, "publish") /\ UNCHANGED <<job, status, faults>>
      <3>1. status = "STAGE2_PASSED" => r.job # Key("prepare", current)
        BY <1>1, <2>1 DEF StageIsOpen
      <3>2. HasJob(job, status', validated) /\ OpenAt(status')
        BY <2>2, AsItIs DEF HasJob, OpenAt
      <3>3. QED
        BY <1>0, <2>1, <2>2, <3>1, <3>2, ContinueStep
    <2>3. CASE Concludes(r, job, status, "retry")
      BY <1>0, <1>1, <2>1, <2>3, AsItIs, ConcludeSame
    <2>4. QED
      BY <1>8, <2>2, <2>3 DEF PrepareFreeze
  <1>9. CASE PreparePublish(r)
    <2>1. /\ prepared' = prepared \cup {r.job.rev} /\ delivery' = Dispatched({r.job.rev})
          /\ frozen' = frozen /\ Concludes(r, job, Published, "ok") /\ r.pc = "publish"
      BY <1>9 DEF PreparePublish, At
    <2>2. job[r.job].st # "ABSENT" /\ pinned[r.job.rev] # None
      BY <1>0, <1>1, <1>2 DEF QueueInv, RunsHaveJobs, StagesInOrder
    <2>3. /\ Published \in StatusType /\ Published # "STAGE3_PREPARING"
          /\ Published = status \/ Published = "READY_FOR_DELIVERY"
          /\ HasJob(job, Published, validated)
      BY AsItIs, AtRest DEF Published, StatusType
    <2>4. Published = "STAGE2_PASSED" => r.job # Key("prepare", current) /\ r.job.rev # current
      BY <1>0, <1>1, <1>2, <2>1, <2>3 DEF StageIsOpen
    <2>5. ~Needs(Published, r.job, validated')
      BY <1>0, <2>3, <2>4 DEF Needs, Stage2Kinds
    <2>6. /\ Published \in {"SUBMITTED", "STAGE1_RUNNING"} => current \notin validated'
          /\ Published \in Undecided => pinned'[current] = None
          /\ Published \in {"STAGE2_PASSED", "STAGE3_PREPARING"} => current \notin prepared'
          /\ Published = "STAGE2_PASSED" =>
                 \A x \in runs \ {r} : x.job = Key("prepare", current) => x.pc = "check"
      BY <1>0, <1>1, <2>1, <2>3, <2>4 DEF StageIsOpen, Undecided
    <2>7. RestTyped' /\ SignedFirst'
      <3>1. RestTyped'
        BY <1>0, <1>1, <1>2, <2>1, DispatchedIs DEF RestTyped
      <3>2. SignedFirst'
        BY <1>0, <1>1, <2>1, DispatchedIs DEF SignedFirst
      <3>3. QED
        BY <3>1, <3>2
    <2>8. /\ \A k \in JobId : k.rev > current => job[k].st = "ABSENT"
          /\ \A v \in Revision : v > current => v \notin validated' /\ pinned'[v] = None
          /\ \A v \in Revision : v \notin validated' => job[Key("stage2", v)].st = "ABSENT"
          /\ \A v \in Revision : pinned'[v] = None => job[Key("prepare", v)].st = "ABSENT"
          /\ \A v \in prepared' : pinned'[v] # None
      BY <1>0, <1>1, <2>1, <2>2 DEF QueueInv, NothingAhead, StagesInOrder
    <2>9. QED
      BY <1>0, <1>1, <2>1, <2>3, <2>5, <2>6, <2>7, <2>8, ConcludeStep
  <1>10. QED
    BY <1>3, <1>4, <1>5, <1>6, <1>7, <1>8, <1>9 DEF Prepare

-----------------------------------------------------------------------------
(* The queue *)

\* Job k goes back to the queue or is dead-lettered, and nobody holds it.
LEMMA JobGoesBack ==
    ASSUME PipelineInv, NEW k \in JobId, job[k].st # "ABSENT", Reported(k, job, status, "retry"),
           faults' \in 0 .. MaxFaults, runs' \subseteq Run,
           \A x \in runs' : x.held => x.job # k,
           \A x \in runs' : \E y \in runs : x.job = y.job /\ x.pc = y.pc /\ (x.held => x = y),
           UNCHANGED <<current, epoch, packages, papers>>
    PROVE  PipelineInv'
  <1>0. /\ validated' = validated /\ pinned' = pinned /\ prepared' = prepared /\ epoch' = epoch
        /\ agreement' = agreement /\ delivery' = delivery /\ frozen' = frozen /\ current' = current
    BY DEF papers, packages
  <1>1. /\ TypeOK /\ NothingAhead /\ RunsHaveJobs /\ StagesInOrder /\ RestTyped /\ SignedFirst
        /\ job \in [JobId -> Row] /\ current \in 0 .. MaxRevisions /\ StageIsOpen
        /\ runs \subseteq Run
    BY TypeParts DEF PipelineInv, QueueInv, QueueTyped
  <1>2. k.rev \in Revision /\ ~(k.rev > current)
    BY <1>1 DEF NothingAhead, JobId
  <1>3. current \in Revision
    BY <1>1, <1>2, PipelineAssumption DEF Revision
  <1>4. /\ job' \in [JobId -> Row]
        /\ \A j \in JobId : j # k => job'[j] = job[j]
        /\ job'[k].st \in {"QUEUED", "SETTLED"}
        /\ status' = status \/ status' = Surfaced(k, status)
        /\ job'[k].st = "SETTLED" => status' = Surfaced(k, status)
    BY <1>1, ReportedIs
  <1>5. /\ status \in StatusType /\ status' \in StatusType
        /\ status' = status \/ status' \in {"STAGE1_CORRECTION", "STAGE2_REVIEW", "STAGE3_CORRECTION"}
    BY <1>4, AsItIs, SurfacedIs
  <1>6. TypeOK'
    BY <1>0, <1>1, <1>4, <1>5, TypeParts DEF QueueTyped, RestTyped
  <1>7. NothingAhead'
    <2>1. current' # 0
      BY <1>0, <1>3 DEF Revision
    <2>2. \A j \in JobId : j.rev > current => job'[j].st = "ABSENT"
      BY <1>1, <1>2, <1>4 DEF NothingAhead
    <2>3. QED
      BY <1>0, <1>1, <2>1, <2>2 DEF NothingAhead
  <1>8. RunsHaveJobs'
    <2>1. ASSUME NEW x \in runs'
          PROVE  job'[x.job].st # "ABSENT" /\ (x.held => job'[x.job].st = "RUNNING")
      <3>1. PICK y \in runs : x.job = y.job /\ x.pc = y.pc /\ (x.held => x = y)
        OBVIOUS
      <3>2. x.job \in JobId /\ job[x.job].st # "ABSENT" /\ (x.held => job[x.job].st = "RUNNING")
        BY <1>1, <3>1 DEF RunsHaveJobs, Run
      <3>3. x.held => x.job # k
        OBVIOUS
      <3>4. QED
        BY <1>4, <3>2, <3>3
    <2>2. \A x, y \in runs' : x.held /\ y.held /\ x.job = y.job => x = y
      BY <1>1 DEF RunsHaveJobs
    <2>3. QED
      BY <2>1, <2>2 DEF RunsHaveJobs
  <1>9. StagesInOrder'
    <2>1. \A v \in Revision : Key("prepare", v) \in JobId /\ Key("stage2", v) \in JobId
      BY Keys, Kinds
    <2>2. \A j \in JobId : job[j].st = "ABSENT" => job'[j].st = "ABSENT"
      BY <1>4
    <2>3. QED
      BY <1>0, <1>1, <2>1, <2>2 DEF StagesInOrder, Key
  <1>10. StageIsOpen'
    BY <1>0, <1>1, <1>5 DEF StageIsOpen, Undecided, Key
  <1>11. RunningHasJob'
    BY <1>0, <1>3, <1>4, <1>5, AsItIs, RowsHaveJob
  <1>12. SignedFirst'
    BY <1>0, <1>1 DEF SignedFirst
  <1>13. QED
    BY <1>6, <1>7, <1>8, <1>9, <1>10, <1>11, <1>12 DEF PipelineInv, QueueInv

LEMMA FailStep ==
    ASSUME PipelineInv, NEW r \in runs, Fail(r)
    PROVE  PipelineInv'
  <1>1. /\ r.held /\ runs' = runs \ {r} /\ Reported(r.job, job, status, "retry")
        /\ faults' = faults + 1 /\ faults < MaxFaults
        /\ UNCHANGED <<current, epoch, packages, papers>>
    BY DEF Fail, Holds, Fault
  <1>2. TypeOK /\ QueueInv /\ runs \subseteq Run /\ faults \in 0 .. MaxFaults
    BY TypeParts DEF PipelineInv, QueueTyped
  <1>3. r.job \in JobId /\ job[r.job].st # "ABSENT"
    BY <1>2, RunFacts DEF QueueInv, RunsHaveJobs
  <1>4. faults' \in 0 .. MaxFaults
    BY <1>1, <1>2, PipelineAssumption
  <1>5. \A x \in runs' : x.held => x.job # r.job
    BY <1>1, <1>2 DEF QueueInv, RunsHaveJobs
  <1>6. \A x \in runs' : \E y \in runs : x.job = y.job /\ x.pc = y.pc /\ (x.held => x = y)
    BY <1>1
  <1>7. QED
    BY <1>1, <1>2, <1>3, <1>4, <1>5, <1>6, JobGoesBack

LEMMA ReclaimStep ==
    ASSUME PipelineInv, NEW k \in JobId, Reclaim(k)
    PROVE  PipelineInv'
  <1>1. /\ job[k].st # "ABSENT" /\ runs' = Expelled(k) /\ Reported(k, job, status, "retry")
        /\ UNCHANGED <<current, epoch, packages, papers>>
    BY DEF Reclaim
  <1>2. runs \subseteq Run /\ faults \in 0 .. MaxFaults
    BY TypeParts DEF PipelineInv, QueueTyped
  <1>3. faults' \in 0 .. MaxFaults
    BY <1>2, PipelineAssumption DEF Reclaim, Fault
  <1>4. ASSUME NEW x \in runs'
        PROVE  /\ x \in Run /\ (x.held => x.job # k)
               /\ \E y \in runs : x.job = y.job /\ x.pc = y.pc /\ (x.held => x = y)
    <2>1. CASE x \in runs /\ x.job # k
      BY <1>2, <2>1
    <2>2. ASSUME NEW y \in runs, y.job = k, x = [y EXCEPT !.held = FALSE]
          PROVE  x \in Run /\ ~x.held /\ x.job = y.job /\ x.pc = y.pc
      BY <1>2, <2>2 DEF Run
    <2>3. QED
      BY <1>1, <2>1, <2>2 DEF Expelled
  <1>5. runs' \subseteq Run
    BY <1>4
  <1>6. QED
    BY <1>1, <1>3, <1>4, <1>5, JobGoesBack

LEMMA ClaimStep ==
    ASSUME PipelineInv, NEW k \in JobId, Claim(k)
    PROVE  PipelineInv'
  <1> USE PipelineAssumption
  <1> DEFINE row == [st |-> "RUNNING", tries |-> job[k].tries + 1]
             new == [job |-> k, held |-> TRUE, pc |-> "check"]
  <1>0. /\ validated' = validated /\ pinned' = pinned /\ prepared' = prepared /\ epoch' = epoch
        /\ agreement' = agreement /\ delivery' = delivery /\ frozen' = frozen /\ current' = current
        /\ status' = status /\ faults' = faults /\ runs' = runs \cup {new}
        /\ job[k].st = "QUEUED" /\ job[k].tries < MaxTries
        /\ job' = [job EXCEPT ![k] = row]
    BY DEF Claim, papers, packages
  <1>1. /\ TypeOK /\ NothingAhead /\ RunsHaveJobs /\ StagesInOrder /\ RestTyped /\ SignedFirst
        /\ job \in [JobId -> Row] /\ current \in 0 .. MaxRevisions /\ StageIsOpen /\ QueueTyped
        /\ status \in StatusType /\ RunningHasJob
    BY TypeParts DEF PipelineInv, QueueInv, QueueTyped
  <1>2. row \in Row /\ row.st = "RUNNING" /\ new \in Run /\ new.job = k /\ new.held /\ new.pc = "check"
    BY <1>0, <1>1 DEF Row, Run
  <1> HIDE DEF row, new
  <1>3. /\ job' \in [JobId -> Row] /\ job'[k].st = "RUNNING"
        /\ \A j \in JobId : j # k => job'[j] = job[j]
    BY <1>0, <1>1, <1>2
  <1>4. TypeOK'
    BY <1>0, <1>1, <1>2, <1>3, TypeParts DEF QueueTyped, RestTyped
  <1>5. NothingAhead'
    BY <1>0, <1>1, <1>3 DEF NothingAhead
  <1>6. RunsHaveJobs'
    <2>1. ASSUME NEW x \in runs
          PROVE  /\ x.job \in JobId /\ job'[x.job].st # "ABSENT" /\ (x.held => job'[x.job].st = "RUNNING")
                 /\ (x.held => x.job # k)
      BY <1>0, <1>1, <1>3 DEF RunsHaveJobs, QueueTyped, Run
    <2>2. \A x \in runs' : job'[x.job].st # "ABSENT" /\ (x.held => job'[x.job].st = "RUNNING")
      BY <1>0, <1>2, <1>3, <2>1
    <2>3. \A x, y \in runs' : x.held /\ y.held /\ x.job = y.job => x = y
      BY <1>0, <1>1, <1>2, <2>1 DEF RunsHaveJobs
    <2>4. QED
      BY <2>2, <2>3 DEF RunsHaveJobs
  <1>7. StagesInOrder'
    <2>1. \A v \in Revision : Key("prepare", v) \in JobId /\ Key("stage2", v) \in JobId
      BY Keys, Kinds
    <2>2. QED
      BY <1>0, <1>1, <1>3, <2>1 DEF StagesInOrder, Key
  <1>8. StageIsOpen'
    BY <1>0, <1>1, <1>2 DEF StageIsOpen, Undecided, Key
  <1>9. RunningHasJob'
    BY <1>0, <1>1, <1>3 DEF RunningHasJob, Overtaken, Pending, Key
  <1>10. SignedFirst'
    BY <1>0, <1>1 DEF SignedFirst
  <1>11. QED
    BY <1>4, <1>5, <1>6, <1>7, <1>8, <1>9, <1>10 DEF PipelineInv, QueueInv

-----------------------------------------------------------------------------
(* The artist and staff *)

LEMMA SubmitStep ==
    ASSUME PipelineInv, Submit
    PROVE  PipelineInv'
  <1> USE PipelineAssumption
  <1> DEFINE next == current + 1
             k == Key("stage1", next)
  <1>0. /\ validated' = validated /\ pinned' = pinned /\ prepared' = prepared /\ epoch' = epoch
        /\ delivery' = delivery /\ frozen' = frozen /\ current' = next /\ current < MaxRevisions
        /\ status' = "SUBMITTED" /\ faults' = faults /\ runs' = runs
        /\ job' = Enqueued(k) /\ agreement' = Resubmitted
    BY DEF Submit, packages
  <1>1. /\ NothingAhead /\ RunsHaveJobs /\ StagesInOrder /\ RestTyped /\ SignedFirst
        /\ job \in [JobId -> Row] /\ current \in 0 .. MaxRevisions /\ QueueTyped
        /\ agreement \in AgreementStatus
    BY TypeParts DEF PipelineInv, QueueInv, QueueTyped, RestTyped
  <1>2. next \in Revision /\ next > current /\ next \in 0 .. MaxRevisions
    BY <1>0, <1>1 DEF Revision
  <1>3. k \in JobId /\ k.kind = "stage1" /\ k.rev = next
    BY <1>2, Keys, Kinds
  <1>4. job[k].st = "ABSENT" /\ next \notin validated
    BY <1>1, <1>2, <1>3 DEF NothingAhead
  <1>5. /\ job' \in [JobId -> Row] /\ job'[k].st = "QUEUED"
        /\ \A j \in JobId : j # k => job'[j] = job[j]
    BY <1>0, <1>1, <1>3, <1>4, EnqueuedIs
  <1>6. agreement' \in AgreementStatus /\ (agreement = "SIGNED" => agreement' = "SIGNED")
    BY <1>0, <1>1 DEF Resubmitted, AgreementStatus
  <1>7. TypeOK'
    BY <1>0, <1>1, <1>2, <1>5, <1>6, TypeParts DEF QueueTyped, RestTyped, StatusType
  <1>8. NothingAhead'
    <2>1. current' # 0
      BY <1>0, <1>2 DEF Revision
    <2>2. ASSUME NEW j \in JobId, j.rev > next PROVE job'[j].st = "ABSENT"
      <3>1. j.rev \in Revision
        BY DEF JobId
      <3>2. j # k /\ j.rev > current
        BY <1>1, <1>2, <1>3, <2>2, <3>1 DEF Revision
      <3>3. QED
        BY <1>1, <1>5, <3>2 DEF NothingAhead
    <2>3. \A v \in Revision : v > next => v \notin validated /\ pinned[v] = None
      BY <1>1, <1>2 DEF NothingAhead, Revision
    <2>4. QED
      BY <1>0, <2>1, <2>2, <2>3 DEF NothingAhead
  <1>9. RunsHaveJobs'
    <2>1. \A x \in runs : x.job \in JobId /\ x.job # k
      BY <1>1, <1>4 DEF RunsHaveJobs, QueueTyped, Run
    <2>2. QED
      BY <1>0, <1>1, <1>5, <2>1 DEF RunsHaveJobs
  <1>10. StagesInOrder'
    <2>1. \A v \in Revision : Key("prepare", v) \in JobId /\ Key("prepare", v) # k
                             /\ Key("stage2", v) \in JobId /\ Key("stage2", v) # k
      BY <1>3, Keys, Kinds
    <2>2. QED
      BY <1>0, <1>1, <1>5, <2>1 DEF StagesInOrder, Key
  <1>11. StageIsOpen'
    BY <1>0, <1>1, <1>2, <1>4 DEF StageIsOpen, NothingAhead
  <1>12. RunningHasJob'
    <2>1. Key("stage1", current)' = k
      BY <1>0 DEF Key
    <2>2. QED
      BY <1>0, <1>5, <2>1 DEF RunningHasJob, Overtaken, Pending
  <1>13. SignedFirst'
    BY <1>0, <1>1, <1>6 DEF SignedFirst
  <1>14. QED
    BY <1>7, <1>8, <1>9, <1>10, <1>11, <1>12, <1>13 DEF PipelineInv, QueueInv

\* A person moves the release to where nobody waits for a job, or not at all;
\* the agreement and the delivery jobs follow.
LEMMA PersonStep ==
    ASSUME PipelineInv, UNCHANGED <<current, queue, packages>>,
           status' = status \/ status' \in {"STAGE3_CORRECTION", "WITHDRAWN"},
           current = 0 => status' = status,
           epoch' \in 0 .. MaxEpoch, agreement' \in AgreementStatus,
           delivery' \in [Revision -> DeliveryStatus], SignedFirst'
    PROVE  PipelineInv'
  <1>0. /\ validated' = validated /\ pinned' = pinned /\ prepared' = prepared /\ frozen' = frozen
        /\ current' = current /\ job' = job /\ runs' = runs /\ faults' = faults
    BY DEF packages, queue
  <1>1. /\ NothingAhead /\ RunsHaveJobs /\ StagesInOrder /\ RestTyped /\ StageIsOpen
        /\ current \in 0 .. MaxRevisions /\ QueueTyped /\ RunningHasJob /\ status \in StatusType
    BY TypeParts DEF PipelineInv, QueueInv
  <1>2. TypeOK'
    BY <1>0, <1>1, TypeParts DEF QueueTyped, RestTyped, StatusType
  <1>3. NothingAhead' /\ RunsHaveJobs' /\ StagesInOrder'
    BY <1>0, <1>1 DEF NothingAhead, RunsHaveJobs, StagesInOrder, Key
  <1>4. StageIsOpen' /\ RunningHasJob'
    BY <1>0, <1>1 DEF StageIsOpen, Undecided, RunningHasJob, Overtaken, Pending, Key
  <1>5. QED
    BY <1>2, <1>3, <1>4 DEF PipelineInv, QueueInv

\* An override may queue the second stage again.
LEMMA ReevaluateStep ==
    ASSUME PipelineInv, Reevaluate, status' = status, UNCHANGED <<current, runs, faults, packages>>,
           epoch' \in 0 .. MaxEpoch, agreement' \in AgreementStatus, delivery' = delivery, SignedFirst'
    PROVE  PipelineInv'
  <1> USE PipelineAssumption
  <1> DEFINE k == Key("again", current)
             row == [st |-> "QUEUED", tries |-> 0]
  <1>0. /\ validated' = validated /\ pinned' = pinned /\ prepared' = prepared /\ frozen' = frozen
        /\ current' = current /\ runs' = runs /\ faults' = faults
    BY DEF packages
  <1>1. /\ NothingAhead /\ RunsHaveJobs /\ StagesInOrder /\ RestTyped /\ StageIsOpen
        /\ current \in 0 .. MaxRevisions /\ QueueTyped /\ RunningHasJob /\ status \in StatusType
        /\ job \in [JobId -> Row]
    BY TypeParts DEF PipelineInv, QueueInv, QueueTyped
  <1>2. CASE job' = job
    <2>1. delivery' \in [Revision -> DeliveryStatus] /\ UNCHANGED <<current, queue, packages>>
      BY <1>0, <1>1, <1>2 DEF RestTyped, queue, packages
    <2>2. QED
      BY <2>1, PersonStep
  <1>3. CASE status = "STAGE2_REVIEW" /\ ~Pending(k) /\ job' = Requeued(k)
    <2>1. current \in Revision
      BY <1>1, <1>3 DEF NothingAhead, Revision
    <2>2. k \in JobId /\ k.kind = "again" /\ k.rev = current /\ job[k].st # "RUNNING"
      BY <1>3, <2>1, Keys, Kinds DEF Pending
    <2>3. row \in Row /\ job' = [job EXCEPT ![k] = row]
      BY <1>3 DEF Row, Requeued
    <2>4. job' \in [JobId -> Row] /\ job'[k].st = "QUEUED" /\ \A j \in JobId : j # k => job'[j] = job[j]
      BY <1>1, <2>2, <2>3
    <2>5. TypeOK'
      BY <1>0, <1>1, <2>4, TypeParts DEF QueueTyped, RestTyped
    <2>6. NothingAhead'
      <3>1. \A j \in JobId : j.rev > current => j # k
        BY <1>1, <2>2
      <3>2. QED
        BY <1>0, <1>1, <2>4, <3>1 DEF NothingAhead
    <2>7. RunsHaveJobs'
      <3>1. \A x \in runs : x.job \in JobId /\ (x.held => x.job # k)
        BY <1>1, <2>2 DEF RunsHaveJobs, QueueTyped, Run
      <3>2. QED
        BY <1>0, <1>1, <2>4, <3>1 DEF RunsHaveJobs
    <2>8. StagesInOrder'
      <3>1. \A v \in Revision : Key("prepare", v) \in JobId /\ Key("prepare", v) # k
                             /\ Key("stage2", v) \in JobId /\ Key("stage2", v) # k
        BY <2>2, Keys, Kinds
      <3>2. QED
        BY <1>0, <1>1, <2>4, <3>1 DEF StagesInOrder, Key
    <2>9. StageIsOpen' /\ RunningHasJob'
      BY <1>0, <1>1, <1>3 DEF StageIsOpen, Undecided, RunningHasJob, Overtaken
    <2>10. QED
      BY <2>5, <2>6, <2>7, <2>8, <2>9 DEF PipelineInv, QueueInv
  <1>4. QED
    BY <1>2, <1>3 DEF Reevaluate

LEMMA StaffStep ==
    ASSUME PipelineInv, Staff
    PROVE  PipelineInv'
  <1> USE PipelineAssumption
  <1>1. /\ RestTyped /\ SignedFirst /\ NothingAhead /\ agreement \in AgreementStatus
        /\ epoch \in 0 .. MaxEpoch /\ delivery \in [Revision -> DeliveryStatus]
    BY TypeParts DEF PipelineInv, QueueInv, RestTyped
  <1>2. \A n \in {0, 1} : Bump(n) => epoch' \in 0 .. MaxEpoch
    BY <1>1 DEF Bump
  <1>3. agreement' = agreement /\ delivery' = delivery => SignedFirst'
    BY <1>1 DEF SignedFirst
  <1>4. (agreement = "SIGNED" => agreement' = "SIGNED") /\ delivery' = delivery => SignedFirst'
    BY <1>1 DEF SignedFirst
  <1>5. CASE Override
    BY <1>1, <1>2, <1>3, <1>5, ReevaluateStep DEF Override, papers
  <1>6. CASE \E n \in {0, 1} : ApproveReview(n)
    BY <1>1, <1>2, <1>4, <1>6, ReevaluateStep DEF ApproveReview, AgreementStatus
  <1>7. CASE CorrectReview
    BY <1>1, <1>2, <1>4, <1>7, ReevaluateStep DEF CorrectReview, AgreementStatus
  <1>8. CASE ApproveApplication
    BY <1>1, <1>4, <1>8, PersonStep DEF ApproveApplication, AgreementStatus
  <1>9. CASE CorrectApplication
    BY <1>1, <1>4, <1>9, PersonStep DEF CorrectApplication, AgreementStatus, NothingAhead
  <1>10. CASE Reject
    BY <1>1, <1>4, <1>10, PersonStep DEF Reject, AgreementStatus, NothingAhead
  <1>11. CASE Reissue
    BY <1>1, <1>3, <1>11, PersonStep DEF Reissue, papers, NothingAhead
  <1>12. CASE RecordGrants
    BY <1>1, <1>2, <1>3, <1>12, PersonStep DEF RecordGrants, papers, NothingAhead
  <1>13. QED
    BY <1>5, <1>6, <1>7, <1>8, <1>9, <1>10, <1>11, <1>12 DEF Staff

LEMMA ArtistStep ==
    ASSUME PipelineInv, Artist
    PROVE  PipelineInv'
  <1>1. /\ RestTyped /\ SignedFirst /\ NothingAhead /\ agreement \in AgreementStatus
        /\ epoch \in 0 .. MaxEpoch /\ delivery \in [Revision -> DeliveryStatus]
    BY TypeParts DEF PipelineInv, QueueInv, RestTyped
  <1>2. (agreement = "SIGNED" => agreement' = "SIGNED") /\ delivery' = delivery => SignedFirst'
    BY <1>1 DEF SignedFirst
  <1>3. CASE Submit
    BY <1>3, SubmitStep
  <1>4. CASE RecordApplication
    BY <1>1, <1>2, <1>4, PersonStep DEF RecordApplication, AgreementStatus
  <1>5. CASE Sign
    <2>1. delivery' \in [Revision -> DeliveryStatus] /\ agreement' = "SIGNED" /\ status' = status
      BY <1>1, <1>5, DispatchedIs DEF Sign
    <2>2. SignedFirst'
      BY <2>1 DEF SignedFirst
    <2>3. QED
      BY <1>1, <1>5, <2>1, <2>2, PersonStep DEF Sign, AgreementStatus
  <1>6. CASE Withdraw
    <2>1. agreement' \in AgreementStatus /\ agreement # "SIGNED" /\ delivery' = delivery
      BY <1>1, <1>6 DEF Withdraw, AgreementStatus
    <2>2. status # "DRAFT" /\ status' = "WITHDRAWN" /\ epoch' = epoch /\ UNCHANGED <<current, queue, packages>>
      BY <1>6 DEF Withdraw, Withdrawable
    <2>3. QED
      BY <1>1, <1>2, <2>1, <2>2, PersonStep DEF NothingAhead
  <1>7. QED
    BY <1>3, <1>4, <1>5, <1>6 DEF Artist

LEMMA DeliveryStep ==
    ASSUME PipelineInv, NEW v \in Revision, Dispatch(v) \/ StartSend(v) \/ EndSend(v)
    PROVE  PipelineInv'
  <1>1. /\ SignedFirst /\ agreement \in AgreementStatus
        /\ epoch \in 0 .. MaxEpoch /\ delivery \in [Revision -> DeliveryStatus]
    BY TypeParts DEF PipelineInv, RestTyped
  <1>2. /\ status' = status /\ epoch' = epoch /\ agreement' = agreement
        /\ UNCHANGED <<current, queue, packages>>
    BY DEF Dispatch, StartSend, EndSend
  <1>3. PICK d \in {"NONE", "QUEUED", "SENDING", "FAILED", "DELIVERED"} :
            /\ delivery' = [delivery EXCEPT ![v] = d]
            /\ d \in {"QUEUED", "SENDING", "DELIVERED"} => agreement = "SIGNED"
    BY <1>1 DEF Dispatch, StartSend, EndSend, SignedFirst
  <1>4. delivery' \in [Revision -> DeliveryStatus]
    BY <1>1, <1>3 DEF DeliveryStatus
  <1>5. SignedFirst'
    BY <1>1, <1>2, <1>3 DEF SignedFirst
  <1>6. QED
    BY <1>1, <1>2, <1>4, <1>5, PersonStep

-----------------------------------------------------------------------------
LEMMA InitPipeline == Init => PipelineInv
  <1> SUFFICES ASSUME Init PROVE PipelineInv
    OBVIOUS
  <1> USE PipelineAssumption
  <1>1. /\ status = "DRAFT" /\ current = 0 /\ runs = {} /\ faults = 0 /\ validated = {} /\ frozen = {}
        /\ prepared = {} /\ epoch = 0 /\ agreement = "NONE"
        /\ pinned = [v \in Revision |-> None] /\ delivery = [v \in Revision |-> "NONE"]
        /\ job = [k \in JobId |-> [st |-> "ABSENT", tries |-> 0]]
    BY DEF Init
  <1>2. job \in [JobId -> Row] /\ \A k \in JobId : job[k].st = "ABSENT"
    BY <1>1 DEF Row
  <1>3. TypeOK
    <2>1. QueueTyped
      BY <1>1, <1>2 DEF QueueTyped
    <2>2. RestTyped
      BY <1>1 DEF RestTyped, AgreementStatus, DeliveryStatus
    <2>3. status \in StatusType /\ current \in 0 .. MaxRevisions
      BY <1>1 DEF StatusType
    <2>4. QED
      BY <2>1, <2>2, <2>3, TypeParts
  <1>4. NothingAhead
    BY <1>1, <1>2 DEF NothingAhead
  <1>5. RunsHaveJobs /\ StageIsOpen /\ RunningHasJob /\ SignedFirst
    BY <1>1 DEF RunsHaveJobs, StageIsOpen, Undecided, RunningHasJob, Overtaken, SignedFirst
  <1>6. StagesInOrder
    <2>1. \A v \in Revision : Key("prepare", v) \in JobId /\ Key("stage2", v) \in JobId
      BY Keys, Kinds
    <2>2. QED
      BY <1>1, <1>2, <2>1 DEF StagesInOrder
  <1>7. QED
    BY <1>3, <1>4, <1>5, <1>6 DEF PipelineInv, QueueInv

LEMMA NextPipeline == PipelineInv /\ [Next]_vars => PipelineInv'
  <1> SUFFICES ASSUME PipelineInv, [Next]_vars PROVE PipelineInv'
    OBVIOUS
  <1>1. CASE UNCHANGED vars
    <2>1. /\ UNCHANGED <<current, queue, packages>> /\ status' = status /\ epoch' = epoch
          /\ agreement' = agreement /\ delivery' = delivery
      BY <1>1 DEF vars, queue, packages
    <2>2. /\ SignedFirst /\ agreement \in AgreementStatus /\ epoch \in 0 .. MaxEpoch
          /\ delivery \in [Revision -> DeliveryStatus]
      BY TypeParts DEF PipelineInv, RestTyped
    <2>3. SignedFirst'
      BY <2>1, <2>2 DEF SignedFirst
    <2>4. QED
      BY <2>1, <2>2, <2>3, PersonStep
  <1>2. CASE Artist
    BY <1>2, ArtistStep
  <1>3. CASE Staff
    BY <1>3, StaffStep
  <1>4. CASE \E k \in JobId : Claim(k) \/ Reclaim(k)
    BY <1>4, ClaimStep, ReclaimStep
  <1>5. CASE \E r \in runs : Step(r)
    BY <1>5, Stage1Step, Stage2Step, PrepareStep, FailStep DEF Step
  <1>6. CASE \E v \in Revision : Dispatch(v) \/ StartSend(v) \/ EndSend(v)
    BY <1>6, DeliveryStep
  <1>7. QED
    BY <1>1, <1>2, <1>3, <1>4, <1>5, <1>6 DEF Next

-----------------------------------------------------------------------------
(* Who makes a release ready *)

LEMMA SurfacedIsNotReady ==
    ASSUME NEW k \in JobId, NEW q, NEW s \in StatusType, NEW out, Reported(k, q, s, out)
    PROVE  status' = s \/ status' # "READY_FOR_DELIVERY"
  <1>1. status' = s \/ status' = Surfaced(k, s)
    BY DEF Reported
  <1>2. QED
    BY <1>1, SurfacedIs

LEMMA ConcludedStatus ==
    ASSUME NEW r, r.job \in JobId, NEW q, NEW s \in StatusType, NEW out, Concludes(r, q, s, out)
    PROVE  status' = s \/ status' # "READY_FOR_DELIVERY"
  BY SurfacedIsNotReady DEF Concludes

LEMMA OnlyPublishMakesReady ==
    ASSUME PipelineInv, [Next]_vars, status # "READY_FOR_DELIVERY", status' = "READY_FOR_DELIVERY"
    PROVE  status = "STAGE3_PREPARING"
  <1>1. /\ status \in StatusType /\ Stage1Begun \in StatusType
        /\ Stage1Begun = status \/ Stage1Begun = "STAGE1_RUNNING"
    BY AsItIs DEF Stage1Begun
  <1>2. \A r \in runs : r.job \in JobId
    BY TypeParts DEF PipelineInv, QueueTyped, Run
  <1>3. \A r \in runs : \A q, out : \A s \in StatusType \ {"READY_FOR_DELIVERY"} : ~Concludes(r, q, s, out)
    BY <1>2, ConcludedStatus
  <1>4. /\ {"STAGE1_CORRECTION", "STAGE1_PASSED", "STAGE2_RUNNING", "STAGE2_REVIEW", "STAGE2_CORRECTION",
            "STAGE2_PASSED", "STAGE3_CORRECTION"} \subseteq StatusType \ {"READY_FOR_DELIVERY"}
        /\ status \in StatusType \ {"READY_FOR_DELIVERY"}
        /\ Stage1Begun \in StatusType \ {"READY_FOR_DELIVERY"}
    BY <1>1 DEF StatusType
  <1>5. ASSUME NEW r \in runs, Stage1(r) \/ Stage2(r) \/ Prepare(r) PROVE PreparePublish(r)
    <2>1. ~Stage1(r)
      <3>1. ~Stage1Done(r) /\ ~Stage1Raise(r)
        BY <1>3, <1>4, Zenon DEF Stage1Done, Stage1Raise
      <3>2. ~Stage1Retry(r)
        BY <1>3, <1>4, Zenon DEF Stage1Retry
      <3>3. ~Stage1Block(r) /\ ~Stage1Pass(r)
        <4>1. \A q, out : ~Concludes(r, q, "STAGE1_CORRECTION", out) /\ ~Concludes(r, q, "STAGE1_PASSED", out)
          BY <1>3, <1>4
        <4>2. QED
          BY <4>1, Zenon DEF Stage1Block, Stage1Pass
      <3>4. QED
        BY <3>1, <3>2, <3>3 DEF Stage1
    <2>2. ~Stage2(r)
      <3>1. ~Stage2Skip(r)
        BY <1>3, <1>4, Zenon DEF Stage2Skip
      <3>2. \A v \in {"STAGE2_RUNNING", "STAGE2_REVIEW", "STAGE2_CORRECTION"} : ~Stage2Hold(r, v)
        <4>1. \A v \in {"STAGE2_RUNNING", "STAGE2_REVIEW", "STAGE2_CORRECTION"} :
                 v \in StatusType \ {"READY_FOR_DELIVERY"}
          BY <1>4
        <4>2. QED
          BY <1>3, <4>1, Zenon DEF Stage2Hold
      <3>3. ~Stage2Pass(r)
        <4>1. \A q, out : ~Concludes(r, q, "STAGE2_PASSED", out)
          BY <1>3, <1>4
        <4>2. QED
          BY <4>1, Zenon DEF Stage2Pass
      <3>4. QED
        BY <3>1, <3>2, <3>3 DEF Stage2
    <2>3. Prepare(r) => PreparePublish(r)
      <3>1. ~PrepareDone(r) /\ ~PrepareRaise(r) /\ ~PrepareRefused(r)
        BY <1>3, <1>4, Zenon DEF PrepareDone, PrepareRaise, PrepareRefused
      <3>2. ~PrepareBegin(r)
        BY DEF PrepareBegin
      <3>3. ~PrepareReturn(r)
        <4>1. \A q, out : ~Concludes(r, q, "STAGE3_CORRECTION", out)
          BY <1>3, <1>4
        <4>2. QED
          BY <4>1, Zenon DEF PrepareReturn
      <3>4. ~PrepareFreeze(r)
        <4>1. \A q, out : ~Concludes(r, q, status, out)
          BY <1>3, <1>4
        <4>2. ~UNCHANGED <<job, status, faults>>
          OBVIOUS
        <4>3. QED
          BY <4>1, <4>2, Zenon DEF PrepareFreeze
      <3>5. QED
        BY <3>1, <3>2, <3>3, <3>4 DEF Prepare
    <2>4. QED
      BY <1>5, <2>1, <2>2, <2>3
  <1>6. ASSUME NEW r \in runs, PreparePublish(r) PROVE status = "STAGE3_PREPARING"
    <2>1. Concludes(r, job, Published, "ok") /\ Published \in StatusType
      BY <1>1, <1>6 DEF PreparePublish, Published, StatusType
    <2>2. status' = Published
      BY <1>2, <2>1, ConcludedStatus
    <2>3. QED
      BY <2>2 DEF Published
  <1>7. \A r \in runs : ~Fail(r)
    BY <1>1, <1>2, SurfacedIsNotReady DEF Fail
  <1>8. \A k \in JobId : ~Claim(k) /\ ~Reclaim(k)
    BY <1>1, SurfacedIsNotReady DEF Claim, Reclaim
  <1>9. ~Artist /\ ~Staff /\ ~UNCHANGED vars
    BY DEF Artist, Submit, RecordApplication, Sign, Withdraw, Staff, Override, ApproveReview, CorrectReview,
           ApproveApplication, CorrectApplication, Reject, Reissue, RecordGrants, vars
  <1>10. \A v \in Revision : ~Dispatch(v) /\ ~StartSend(v) /\ ~EndSend(v)
    BY DEF Dispatch, StartSend, EndSend
  <1>11. QED
    BY <1>5, <1>6, <1>7, <1>8, <1>9, <1>10 DEF Next, Step

-----------------------------------------------------------------------------
(* Theorems *)

\* The inductive invariant: what the rows of the queue, the packages and the
\* release's status say of each other, under late runs and lost leases.
THEOREM PipelineInvariant == Spec => []PipelineInv
  BY InitPipeline, NextPipeline, PTL DEF Spec

\* Every variable of the pipeline has its type in every reachable state.
THEOREM PipelineTyped == Spec => []TypeOK
  BY PipelineInvariant, PTL DEF PipelineInv

\* No release waits for a machine that will not come: while it is in a stage
\* of the pipeline, a job of its current revision is queued or running; but not
\* in STAGE1_PASSED when an older revision's late verdict brought it there.
THEOREM ReleasesHaveTheirJobs == Spec => []RunningHasJob
  BY PipelineInvariant, PTL DEF PipelineInv

\* A withdrawn release whose agreement was not signed never reached a partner.
THEOREM CancelledReleasesStayHome == Spec => []CancelledStaysHome
  <1>1. PipelineInv => CancelledStaysHome
    BY DEF PipelineInv, SignedFirst, CancelledStaysHome
  <1>2. QED
    BY <1>1, PipelineInvariant, PTL

\* A release sent back is ready again only on a revision not prepared before.
THEOREM ReturnedReleasesStayReturned == Spec => ReturnedStaysReturned
  <1>1. PipelineInv /\ [Next]_vars
           => [status # "READY_FOR_DELIVERY" /\ status' = "READY_FOR_DELIVERY"
               => current \notin prepared]_vars
    <2> SUFFICES ASSUME PipelineInv, [Next]_vars,
                        status # "READY_FOR_DELIVERY", status' = "READY_FOR_DELIVERY"
                 PROVE  current \notin prepared
      OBVIOUS
    <2>1. status = "STAGE3_PREPARING"
      BY OnlyPublishMakesReady
    <2>2. QED
      BY <2>1 DEF PipelineInv, StageIsOpen
  <1>2. QED
    BY <1>1, PipelineInvariant, PTL DEF Spec, ReturnedStaysReturned

=============================================================================
