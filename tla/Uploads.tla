------------------------------ MODULE Uploads ------------------------------
(***************************************************************************)
(* One upload session of an audio master (uploads.rs): the file goes to a  *)
(* quarantine object or, in parts, to a multipart upload; a completion     *)
(* inspects and converts it, stores a master of its own under registered/, *)
(* and registers that master in one transaction.  Completions are repeated *)
(* and overlap, no transaction is open while they talk to the object       *)
(* store, and the session may be cancelled or expire under any of them.    *)
(*                                                                         *)
(* The master a completion stores is named by that completion.  What an    *)
(* analysis of the registered master and stage 1 then write of its quality *)
(* (submission.rs) is here too: both answer after the upload may have.     *)
(***************************************************************************)
CONSTANTS Call,  \* completion requests: a repeated one is another
          Read,  \* runs of asset.analyze, a reclaimed job's included
          NoMaster

ASSUME UploadsAssumption == NoMaster \notin Call

VARIABLES
    session, \* status of the row of catalog.upload_sessions
    term,    \* its time: URLs are valid, only completion is, neither is
    asset,   \* the row of catalog.assets, and who answered its qc_status
    source,  \* the quarantine object
    parts,   \* the multipart upload; "none": a single PUT
    masters, \* objects under registered/, by the completion that stored them
    pc,      \* where each completion is
    said,    \* what it answered
    analyze, \* the asset.analyze job: "none", "queued", "ended", "drift"
    reading, \* runs of it that have the master in hand
    strays,  \* history: completions cut off, or whose delete the store failed
    lost     \* history: a registration committed and its reply was lost

uploadsVars ==
    <<session, term, asset, source, parts, masters, pc, said, analyze, reading, strays, lost>>

rows == <<session, asset, analyze>>
store == <<source, parts, masters>>
calls == <<pc, said>>
history == <<strays, lost>>

Quality == {"PASS", "BLOCKED"}

\* Stages of a completion, in order; the last two have a master to delete.
Working == {"finish", "inspect", "store", "check", "register", "discard", "drop"}
Answer == {"none", "registered", "duplicate", "refused"}

-----------------------------------------------------------------------------
UploadsInit ==
    /\ session = "ISSUED" /\ term = "url"
    /\ asset = [state |-> "UPLOADING", key |-> NoMaster, qc |-> "PENDING", by |-> "none"]
    /\ source = "none" /\ parts \in {"none", "open"}
    /\ masters = {}
    /\ pc = [c \in Call |-> "idle"] /\ said = [c \in Call |-> "none"]
    /\ analyze = "none" /\ reading = {}
    /\ strays = {} /\ lost = FALSE

Goto(c, to) == pc' = [pc EXCEPT ![c] = to]

End(c, answer) ==
    /\ Goto(c, "done")
    /\ said' = [said EXCEPT ![c] = answer]

-----------------------------------------------------------------------------
(* The device and the object store *)

\* The signed PUT is used once, even after the session was cancelled; one that
\* was begun in time may end later.
Put ==
    /\ parts = "none" /\ term # "over" /\ source = "none"
    /\ source' \in {"good", "bad"}
    /\ UNCHANGED <<rows, term, parts, masters, calls, reading, history>>

StoreParts ==
    /\ parts = "open" /\ term # "over"
    /\ parts' = "full"
    /\ UNCHANGED <<rows, term, source, masters, calls, reading, history>>

\* The bucket's rules remove quarantine objects after a day, which the object
\* of a multipart upload may reach first, and unfinished uploads.
Lifecycle ==
    /\ term = "over" \/ (term = "grace" /\ parts = "ended")
    /\ source' = "none" /\ parts' = (IF parts = "none" THEN "none" ELSE "ended")
    /\ <<source', parts'>> # <<source, parts>>
    /\ UNCHANGED <<rows, term, masters, calls, reading, history>>

Expire ==
    /\ \/ term = "url" /\ term' = "grace"
       \/ term = "grace" /\ term' = "over"
    /\ UNCHANGED <<rows, store, calls, reading, history>>

-----------------------------------------------------------------------------
(* Completion, before the transaction that registers *)

\* A completed session answers at once; one that is closed refuses, and so do
\* the rate limit, the full slots and the scanner's policy.
Begin(c) ==
    /\ pc[c] = "idle"
    /\ \/ session = "COMPLETED" /\ End(c, "duplicate")
       \/ End(c, "refused")
       \/ /\ session = "ISSUED" /\ term # "over"
          /\ Goto(c, IF parts = "none" THEN "inspect" ELSE "finish")
          /\ UNCHANGED said
    /\ UNCHANGED <<rows, term, store, reading, history>>

\* finish_multipart: one that finds the object goes on with it.
FinishParts(c) ==
    /\ pc[c] = "finish"
    /\ \/ /\ source # "none"
          /\ Goto(c, "inspect") /\ UNCHANGED <<source, parts, said>>
       \/ /\ source = "none" /\ parts = "full"
          /\ source' \in {"good", "bad"} /\ parts' = "ended"
          \* the store's answer may be lost
          /\ (Goto(c, "inspect") /\ UNCHANGED said) \/ End(c, "refused")
    /\ UNCHANGED <<rows, term, masters, reading, history>>

\* The object is the one promised, and converts.
Inspect(c) ==
    /\ pc[c] = "inspect" /\ source = "good"
    /\ Goto(c, "store")
    /\ UNCHANGED <<rows, term, store, said, reading, history>>

\* Parts missing, another file, no capacity, the store does not answer.
Refuse(c) ==
    /\ pc[c] \in {"finish", "inspect", "store"}
    /\ End(c, "refused")
    /\ UNCHANGED <<rows, term, store, reading, history>>

\* put_file: a failure it reports may have stored the object.
Store(c) ==
    /\ pc[c] = "store"
    /\ masters' = masters \cup {c}
    /\ \/ Goto(c, "check") /\ UNCHANGED <<said, strays>>
       \/ End(c, "refused") /\ strays' = strays \cup {c}
    /\ UNCHANGED <<rows, term, source, parts, reading, lost>>

\* What was stored is looked at again, or deleted.
CheckStored(c) ==
    /\ pc[c] = "check"
    /\ Goto(c, "register") \/ Goto(c, "discard")
    /\ UNCHANGED <<rows, term, store, said, reading, history>>

-----------------------------------------------------------------------------
(* Registering *)

\* Mutant of Open: what the first transaction read of the session still holds.
OpenThen == term # "over"

Open == session = "ISSUED" /\ term # "over"

\* The session is read again under its lock and ends with its asset; the
\* conversion's own analysis may have the first answer on its quality.
Registered(c) ==
    /\ Open
    /\ session' = "COMPLETED"
    /\ \E qc \in Quality \cup {"PENDING"} :
          asset' = [state |-> "REGISTERED", key |-> c, qc |-> qc,
                    by |-> IF qc = "PENDING" THEN "none" ELSE "upload"]
    /\ analyze' = "queued"

Register(c) ==
    /\ pc[c] = "register" /\ Registered(c)
    /\ \/ End(c, "registered") /\ UNCHANGED lost
       \/ Goto(c, "discard") /\ lost' = TRUE /\ UNCHANGED said  \* the reply is lost
    /\ UNCHANGED <<term, store, reading, strays>>

\* Another completion was first, the session is closed, or a statement fails.
NotRegistered(c) ==
    /\ pc[c] = "register"
    /\ \/ session = "COMPLETED" /\ Goto(c, "drop")
       \/ Goto(c, "discard")
    /\ UNCHANGED <<rows, term, store, said, reading, history>>

\* Mutant of Discard: the registered object is deleted, whoever stored it.
DiscardKey(c) ==
    /\ pc[c] \in {"discard", "drop"}
    /\ masters' = masters \ {IF asset.key = NoMaster THEN c ELSE asset.key}
    /\ End(c, IF pc[c] = "drop" THEN "duplicate" ELSE "refused")
    /\ UNCHANGED <<rows, term, source, parts, reading, history>>

\* Mutant of Discard: a refused completion leaves its master.
DiscardDuplicates(c) ==
    /\ pc[c] \in {"discard", "drop"}
    /\ masters' = masters \ (IF pc[c] = "drop" THEN {c} ELSE {})
    /\ End(c, IF pc[c] = "drop" THEN "duplicate" ELSE "refused")
    /\ UNCHANGED <<rows, term, source, parts, reading, history>>

\* A completion that fails, or was not the first, deletes what it stored.
Discard(c) ==
    /\ pc[c] \in {"discard", "drop"}
    /\ \/ masters' = masters \ {c} /\ UNCHANGED strays
       \/ strays' = strays \cup {c} /\ UNCHANGED masters
    /\ \/ End(c, "refused")
       \/ pc[c] = "drop" /\ End(c, "duplicate")
    /\ UNCHANGED <<rows, term, source, parts, reading, lost>>

\* The caller hangs up or the process ends: the rest of the handler is not run.
CutOff(c) ==
    /\ pc[c] \in Working
    /\ End(c, "none")
    /\ strays' = strays \cup {c}
    /\ UNCHANGED <<rows, term, store, reading, lost>>

-----------------------------------------------------------------------------
(* Cancelling *)

Cancel ==
    /\ session = "ISSUED"
    /\ session' = "CANCELLED"
    /\ asset' = IF asset.state = "UPLOADING" THEN [asset EXCEPT !.state = "REJECTED"] ELSE asset
    /\ UNCHANGED <<term, store, calls, analyze, reading, history>>

\* After that commits, unless the process ends first or the store fails.
AbortParts ==
    /\ session = "CANCELLED" /\ parts \in {"open", "full"}
    /\ parts' = "ended"
    /\ UNCHANGED <<rows, term, source, masters, calls, reading, history>>

-----------------------------------------------------------------------------
(* The quality of the registered master *)

\* precheck_asset finds the object completion pinned, or fails for good.
StartAnalysis(r) ==
    /\ analyze = "queued" /\ asset.state = "REGISTERED" /\ r \notin reading
    /\ IF asset.key \in masters
       THEN reading' = reading \cup {r} /\ UNCHANGED analyze
       ELSE analyze' = "drift" /\ UNCHANGED reading
    /\ UNCHANGED <<session, asset, term, store, calls, history>>

\* Mutant of Unanswered: an analysis answers whenever it ends.
AnsweredOrNot == TRUE

Unanswered == asset.qc = "PENDING"

\* store_precheck: an answer, or a run to be repeated.
EndAnalysis(r) ==
    /\ r \in reading
    /\ reading' = reading \ {r}
    /\ \/ UNCHANGED <<asset, analyze>>
       \/ /\ analyze' = (IF analyze = "queued" THEN "ended" ELSE analyze)
          /\ IF Unanswered
             THEN \E qc \in Quality : asset' = [asset EXCEPT !.qc = qc, !.by = "analysis"]
             ELSE UNCHANGED asset
    /\ UNCHANGED <<session, term, store, calls, history>>

\* update_asset_qc, for a release that could be submitted with this master.
Stage1Answers ==
    /\ asset.qc = "PASS" \/ asset.by = "stage1"
    /\ \E qc \in Quality : asset' = [asset EXCEPT !.qc = qc, !.by = "stage1"]
    /\ UNCHANGED <<session, term, store, calls, analyze, reading, history>>

-----------------------------------------------------------------------------
Complete(c) ==
    \/ Begin(c) \/ FinishParts(c) \/ Inspect(c) \/ Refuse(c) \/ Store(c) \/ CheckStored(c)
    \/ Register(c) \/ NotRegistered(c) \/ Discard(c) \/ CutOff(c)

UploadsNext ==
    \/ \E c \in Call : Complete(c)
    \/ Put \/ StoreParts \/ Lifecycle \/ Expire \/ Cancel \/ AbortParts \/ Stage1Answers
    \/ \E r \in Read : StartAnalysis(r) \/ EndAnalysis(r)

UploadsSpec == UploadsInit /\ [][UploadsNext]_uploadsVars

-----------------------------------------------------------------------------
\* Every variable has its type.
UploadsTypeOK ==
    /\ session \in {"ISSUED", "COMPLETED", "CANCELLED"} /\ term \in {"url", "grace", "over"}
    /\ asset \in [state: {"UPLOADING", "REGISTERED", "REJECTED"}, key: Call \cup {NoMaster},
                  qc: Quality \cup {"PENDING"}, by: {"none", "upload", "analysis", "stage1"}]
    /\ source \in {"none", "good", "bad"} /\ parts \in {"none", "open", "full", "ended"}
    /\ masters \subseteq Call /\ strays \subseteq Call /\ reading \subseteq Read
    /\ pc \in [Call -> Working \cup {"idle", "done"}] /\ said \in [Call -> Answer]
    /\ analyze \in {"none", "queued", "ended", "drift"} /\ lost \in BOOLEAN

\* What the rows and the answers given say of the session agree.
Agree ==
    /\ session = "COMPLETED" <=> asset.state = "REGISTERED"
    /\ session = "CANCELLED" <=> asset.state = "REJECTED"
    /\ \A c \in Call : said[c] \in {"registered", "duplicate"} => session = "COMPLETED"
    /\ \A c \in Call : said[c] = "registered" => asset.key = c

\* "Cancellation prevents asset registration": whatever completions are under
\* way when a session is completed or cancelled, that is how it stays, with the
\* master it has; the asset and every completion's answer agree with it.
OneOutcome ==
    /\ []Agree
    /\ [][session # "ISSUED" => session' = session /\ asset'.key = asset.key]_uploadsVars

\* As long as no reply of a registration was lost, the registered master is in
\* the store, whatever the completions beside it stored and deleted.
MastersKept == asset.state = "REGISTERED" /\ ~lost => asset.key \in masters

\* "then the converted master in registered/ is orphaned - remove it": a master
\* no asset names is in the hands of a completion that will delete or register
\* it, unless that was cut off or the store failed it.
NoOrphans ==
    \A c \in masters : c = asset.key \/ c \in strays \/ pc[c] \in Working

\* "A late (retried) analysis never overwrites what Stage 1 already decided":
\* whoever answered first, only stage 1 answers again.
FirstAnswerStands ==
    [][asset.qc # "PENDING" => asset' = asset \/ asset'.by = "stage1"]_uploadsVars

\* "Registering may still fail [...]: then the converted master in registered/
\* is orphaned - remove it": what is removed is never the master an asset names.
RemovedIsOrphaned == asset.state = "REGISTERED" => asset.key \in masters

=============================================================================
