------------------------- MODULE AssistantRequests -------------------------
(***************************************************************************)
(* What an AI connection asks for and the artist answers in the Studio     *)
(* (mcp/tools.rs, safety.rs, actions.rs, approvals.rs): one confirmed      *)
(* application of one release, sent at once or held for approval; actions  *)
(* that run when they are approved; and the permission that decides which  *)
(* of the two ways an application goes.                                    *)
(*                                                                         *)
(* Calls of the assistant are repeated while the first is under way, the   *)
(* Studio is open in several tabs, the draft is edited in between, and a   *)
(* COMMIT's answer may be lost.  A draft's content is a number: the hash   *)
(* of what consent covers.  The confirmation was given for content 0.      *)
(***************************************************************************)
EXTENDS Naturals, Sequences

CONSTANTS ToolCall,   \* calls of the assistant's tools
          Tab,        \* approve and reject requests of the Studio
          Action,     \* action requests, of one payload
          Contents    \* bound: contents the draft may have

ASSUME AssistantAssumption == 0 \in Contents /\ Contents \subseteq Nat

VARIABLES
    grant,   \* the row of mcp_grants: revoked, and whether it may submit
    studio,  \* mcp_user_settings.studio_approval
    ask,     \* the request for the permission to submit
    draft,   \* catalog.releases: EDITABLE, INFLIGHT (SUBMITTED, STAGE1_RUNNING: a
             \* submit is answered, later refused) or REVIEW; and its content
    filed,   \* contents of the revisions under this confirmation's key
    held,    \* the row of mcp_pending_submissions
    request, \* statuses of mcp_action_requests
    call,    \* where each tool call is, and what it read
    tab,     \* where each Studio request is, and what it works on
    ran,     \* history: times each action took effect
    direct,  \* history: the application was filed without the Studio
    misreported \* history: approvals that took effect and were told of an error

assistantVars ==
    <<grant, studio, ask, draft, filed, held, request, call, tab, ran, direct, misreported>>

switches == <<grant, studio, ask>>
application == <<draft, filed, held>>
past == <<ran, direct, misreported>>

Confirmed == 0
Held == "application"   \* the pending submission, as what a tab works on

-----------------------------------------------------------------------------
AssistantInit ==
    /\ grant \in [revoked: {FALSE}, submit: BOOLEAN]
    /\ studio \in BOOLEAN
    /\ ask = "ABSENT"
    /\ draft = [status |-> "EDITABLE", content |-> Confirmed]
    /\ filed = <<>>
    /\ held = [status |-> "ABSENT", claimed |-> FALSE]
    /\ request = [r \in Action |-> "ABSENT"]
    /\ call = [c \in ToolCall |-> [at |-> "idle", may |-> FALSE]]
    /\ tab = [t \in Tab |-> [at |-> "idle", on |-> Held]]
    /\ ran = [r \in Action |-> 0]
    /\ direct = FALSE /\ misreported = {}

CallAt(c, step) == call[c].at = step
CallTo(c, step) == call' = [call EXCEPT ![c].at = step]
TabAt(t, step) == tab[t].at = step
TabTo(t, step) == tab' = [tab EXCEPT ![t].at = step]

\* principal: the token is answered for while its grant is not revoked.
Connected == ~grant.revoked

-----------------------------------------------------------------------------
(* The draft *)

Edit ==
    /\ draft.status = "EDITABLE"
    /\ \E v \in Contents : draft' = [draft EXCEPT !.content = v]
    /\ UNCHANGED <<switches, filed, held, request, call, tab, past>>

\* The artist submits in the Studio, under a key of its own.
SubmitInStudio ==
    /\ draft.status = "EDITABLE"
    /\ draft' = [draft EXCEPT !.status = "INFLIGHT"]
    /\ UNCHANGED <<switches, filed, held, request, call, tab, past>>

\* Stage 1 passes or sends back; so does the review after it.
Proceed ==
    /\ \/ draft.status = "INFLIGHT" /\ draft' = [draft EXCEPT !.status = "REVIEW"]
       \/ draft.status # "EDITABLE" /\ draft' = [draft EXCEPT !.status = "EDITABLE"]
    /\ UNCHANGED <<switches, filed, held, request, call, tab, past>>

\* Mutant of Mismatch: the consent's content is not compared again.
MismatchIgnored(v) == FALSE

\* What submit decides, in one transaction, for a consent given for content v:
\* unless the review has the release, v must still be its content.
Mismatch(v) == draft.status # "REVIEW" /\ v # draft.content

\* A key seen before is answered with its revision, if that is what would be
\* submitted; a new key needs an editable release.
Unfit ==
    \/ draft.status # "EDITABLE" /\ filed = <<>>
    \/ draft.status # "REVIEW" /\ filed # <<>> /\ filed[1] # draft.content

Refused(v) == Mismatch(v) \/ Unfit

\* The transaction, where it is not refused.
Filed ==
    IF filed = <<>>
    THEN /\ filed' = Append(filed, draft.content)
         /\ draft' = [draft EXCEPT !.status = "INFLIGHT"]
    ELSE UNCHANGED <<filed, draft>>

-----------------------------------------------------------------------------
(* submit_release, called with the confirmation *)

StartSubmit(c) ==
    /\ CallAt(c, "idle") /\ Connected
    /\ call' = [call EXCEPT ![c] = [at |-> "look", may |-> grant.submit]]
    /\ UNCHANGED <<switches, application, request, tab, past>>

\* A retry converges before anything else: already_submitted, pending_for.
Look(c) ==
    /\ CallAt(c, "look")
    /\ CallTo(c, IF filed # <<>> \/ held.status # "ABSENT" THEN "done" ELSE "review")
    /\ UNCHANGED <<switches, application, request, tab, past>>

\* The content must be the confirmed one; the connection's permission and the
\* artist's setting decide who sends it.
Review(c) ==
    /\ CallAt(c, "review")
    /\ CallTo(c, CASE draft.content # Confirmed -> "done"
                   [] draft.content = Confirmed /\ (~call[c].may \/ studio) -> "hold"
                   [] OTHER -> "consent")
    /\ UNCHANGED <<switches, application, request, tab, past>>

\* ON CONFLICT(idempotency_key) DO NOTHING
Hold(c) ==
    /\ CallAt(c, "hold")
    /\ held' = IF held.status = "ABSENT" THEN [status |-> "PENDING", claimed |-> FALSE] ELSE held
    /\ CallTo(c, "done")
    /\ UNCHANGED <<switches, draft, filed, request, tab, past>>

Consent(c) ==
    /\ CallAt(c, "consent")
    /\ CallTo(c, IF draft.content = Confirmed THEN "submit" ELSE "done")
    /\ UNCHANGED <<switches, application, request, tab, past>>

SubmitNow(c) ==
    /\ CallAt(c, "submit")
    /\ \/ Refused(Confirmed) /\ UNCHANGED <<draft, filed, direct>>
       \/ /\ ~Refused(Confirmed) /\ Filed
          /\ direct' = (direct \/ filed = <<>>)
    /\ CallTo(c, "done")
    /\ UNCHANGED <<switches, held, request, tab, ran, misreported>>

\* Mutant of WithdrawApplication: a claimed submission is withdrawn too.
WithdrawClaimed ==
    /\ Connected
    /\ held.status = "PENDING"
    /\ held' = [held EXCEPT !.status = "WITHDRAWN"]
    /\ UNCHANGED <<switches, draft, filed, request, call, tab, past>>

\* withdraw_pending_submission
WithdrawApplication ==
    /\ Connected
    /\ held.status = "PENDING" /\ ~held.claimed
    /\ held' = [held EXCEPT !.status = "WITHDRAWN"]
    /\ UNCHANGED <<switches, draft, filed, request, call, tab, past>>

-----------------------------------------------------------------------------
(* The pending submission, in the Studio *)

\* Mutant of Decided: the last write wins.
DecidedAnyway(status) == [held EXCEPT !.status = status]

\* decide is conditional on PENDING.
Decided(status) == IF held.status = "PENDING" THEN [held EXCEPT !.status = status] ELSE held

\* take: the first approve or reject claims the row.
Take(t, then) ==
    /\ TabAt(t, "idle")
    /\ IF held.status = "PENDING" /\ ~held.claimed
       THEN /\ held' = [held EXCEPT !.claimed = TRUE]
            /\ tab' = [tab EXCEPT ![t] = [at |-> then, on |-> Held]]
       ELSE TabTo(t, "done") /\ UNCHANGED held
    /\ UNCHANGED <<switches, draft, filed, request, call, past>>

\* list_pending, or a take that comes too late: a claimed row lapses as well.
LapseApplication ==
    /\ held.status = "PENDING"
    /\ held' = Decided("EXPIRED")
    /\ UNCHANGED <<switches, draft, filed, request, call, tab, past>>

\* draft_review, then create_consent: both compare the content.
Recheck(t, step, next) ==
    /\ TabAt(t, step)
    /\ \/ /\ draft.content = Confirmed
          /\ TabTo(t, next) /\ UNCHANGED held
       \/ /\ draft.content # Confirmed
          /\ held' = Decided("STALE") /\ TabTo(t, "done")
       \/ TabTo(t, "free") /\ UNCHANGED held
    /\ UNCHANGED <<switches, draft, filed, request, call, past>>

\* A draft that changed is stale; after any other refusal or error the claim
\* is given back, also when only the answer of the COMMIT was lost.
ApproveSubmit(t) ==
    /\ TabAt(t, "submit")
    /\ \/ /\ Refused(Confirmed)
          /\ \/ held' = Decided("STALE") /\ TabTo(t, "done")
             \/ TabTo(t, "free") /\ UNCHANGED held
          /\ UNCHANGED <<draft, filed, misreported>>
       \/ /\ ~Refused(Confirmed) /\ Filed
          /\ UNCHANGED held
          /\ \/ TabTo(t, "decide") /\ UNCHANGED misreported
             \/ TabTo(t, "free") /\ misreported' = misreported \cup {Held}
       \/ TabTo(t, "free") /\ UNCHANGED <<draft, filed, held, misreported>>
    /\ UNCHANGED <<switches, request, call, ran, direct>>

Approve(t) ==
    /\ TabAt(t, "decide")
    /\ held' = Decided("APPROVED")
    /\ TabTo(t, "done")
    /\ UNCHANGED <<switches, draft, filed, request, call, past>>

RejectApplication(t) ==
    /\ TabAt(t, "refuse")
    /\ held' = Decided("REJECTED")
    /\ TabTo(t, "done")
    /\ UNCHANGED <<switches, draft, filed, request, call, past>>

\* release_claim, best effort
Free(t) ==
    /\ TabAt(t, "free")
    /\ held' = IF held.status = "PENDING" THEN [held EXCEPT !.claimed = FALSE] ELSE held
    /\ TabTo(t, "done")
    /\ UNCHANGED <<switches, draft, filed, request, call, past>>

-----------------------------------------------------------------------------
(* Action requests *)

\* file: an open request of the same payload is returned; the insert is a
\* statement of its own.
StartRequest(c) ==
    /\ CallAt(c, "idle") /\ Connected
    /\ CallTo(c, IF \E r \in Action : request[r] = "PENDING" THEN "done" ELSE "insert")
    /\ UNCHANGED <<switches, application, request, tab, past>>

Insert(c) ==
    /\ CallAt(c, "insert")
    /\ \E r \in Action :
          /\ request[r] = "ABSENT"
          /\ request' = [request EXCEPT ![r] = "PENDING"]
    /\ CallTo(c, "done")
    /\ UNCHANGED <<switches, application, tab, past>>

\* expire: whoever reads marks what is overdue.
Lapse(r) ==
    /\ request[r] = "PENDING"
    /\ request' = [request EXCEPT ![r] = "EXPIRED"]
    /\ UNCHANGED <<switches, application, call, tab, past>>

WithdrawRequest(r) ==
    /\ Connected
    /\ request[r] = "PENDING"
    /\ request' = [request EXCEPT ![r] = "WITHDRAWN"]
    /\ UNCHANGED <<switches, application, call, tab, past>>

\* decide, with the request and its connection locked.
Decide(t, r, approve) ==
    /\ TabAt(t, "idle") /\ request[r] # "ABSENT"
    /\ CASE request[r] # "PENDING" ->
              TabTo(t, "done") /\ UNCHANGED request
         [] request[r] = "PENDING" /\ grant.revoked ->
              TabTo(t, "done") /\ request' = [request EXCEPT ![r] = "REVOKED"]
         [] request[r] = "PENDING" /\ ~grant.revoked /\ approve ->
              /\ tab' = [tab EXCEPT ![t] = [at |-> "run", on |-> r]]
              /\ request' = [request EXCEPT ![r] = "RUNNING"]
         [] OTHER ->
              TabTo(t, "done") /\ request' = [request EXCEPT ![r] = "REJECTED"]
    /\ UNCHANGED <<switches, application, call, past>>

\* run: the service call the Studio makes; its answer may be lost.
RunAction(t) ==
    LET r == tab[t].on IN
    /\ TabAt(t, "run")
    /\ \/ TabTo(t, "failed") /\ UNCHANGED <<ran, misreported>>
       \/ /\ ran' = [ran EXCEPT ![r] = @ + 1]
          /\ \/ TabTo(t, "succeeded") /\ UNCHANGED misreported
             \/ TabTo(t, "failed") /\ misreported' = misreported \cup {r}
    /\ UNCHANGED <<switches, application, request, call, direct>>

RecordOutcome(t) ==
    /\ TabAt(t, "succeeded") \/ TabAt(t, "failed")
    /\ request' = [request EXCEPT ![tab[t].on] = IF TabAt(t, "succeeded") THEN "DONE" ELSE "FAILED"]
    /\ TabTo(t, "done")
    /\ UNCHANGED <<switches, application, call, past>>

-----------------------------------------------------------------------------
(* The connection *)

AskPermission ==
    /\ Connected /\ ~grant.submit /\ ask = "ABSENT"
    /\ ask' = "PENDING"
    /\ UNCHANGED <<grant, studio, application, request, call, tab, past>>

\* Answered, lapsed or withdrawn; approving a revoked grant changes nothing.
\* Bound: the permission is asked for once.
ClosePermission ==
    /\ ask = "PENDING" /\ ask' = "CLOSED"
    /\ \/ UNCHANGED grant
       \/ Connected /\ grant' = [grant EXCEPT !.submit = TRUE]
    /\ UNCHANGED <<studio, application, request, call, tab, past>>

PutSettings ==
    /\ studio' = ~studio
    /\ UNCHANGED <<grant, ask, application, request, call, tab, past>>

\* The artist, the client, a password change.
Revoke ==
    /\ Connected
    /\ grant' = [grant EXCEPT !.revoked = TRUE]
    /\ UNCHANGED <<studio, ask, application, request, call, tab, past>>

\* A call past its deadline is dropped, a browser goes away, a process stops:
\* nothing takes up what it had begun.
Abandon ==
    /\ \/ \E c \in ToolCall : call[c].at \notin {"idle", "done"} /\ CallTo(c, "done") /\ UNCHANGED tab
       \/ \E t \in Tab : tab[t].at \notin {"idle", "done"} /\ TabTo(t, "done") /\ UNCHANGED call
    /\ UNCHANGED <<switches, application, request, past>>

-----------------------------------------------------------------------------
Tool(c) ==
    \/ StartSubmit(c) \/ Look(c) \/ Review(c) \/ Hold(c) \/ Consent(c) \/ SubmitNow(c)
    \/ StartRequest(c) \/ Insert(c)

Studio(t) ==
    \/ Take(t, "review") \/ Take(t, "refuse")
    \/ Recheck(t, "review", "consent") \/ Recheck(t, "consent", "submit")
    \/ ApproveSubmit(t) \/ Approve(t) \/ RejectApplication(t) \/ Free(t)
    \/ \E r \in Action : \E approve \in BOOLEAN : Decide(t, r, approve)
    \/ RunAction(t) \/ RecordOutcome(t)

AssistantNext ==
    \/ Edit \/ SubmitInStudio \/ Proceed
    \/ \E c \in ToolCall : Tool(c)
    \/ \E t \in Tab : Studio(t)
    \/ \E r \in Action : Lapse(r) \/ WithdrawRequest(r)
    \/ WithdrawApplication \/ LapseApplication
    \/ AskPermission \/ ClosePermission \/ PutSettings \/ Revoke \/ Abandon

AssistantSpec == AssistantInit /\ [][AssistantNext]_assistantVars

-----------------------------------------------------------------------------
(* Properties *)

\* What was taken back is not carried out: an action takes effect once, while
\* its request is the approved one that runs, and never once its request was
\* withdrawn, rejected, lapsed or revoked; the Studio does not file an
\* application that was withdrawn or rejected (safety.rs take, actions.rs
\* decide), for any order of the tabs, the assistant and the sweeps.
TakenBackStaysBack ==
    [][/\ \A r \in Action : ran'[r] # ran[r] => ran'[r] = 1 /\ request[r] = "RUNNING"
       /\ filed' # filed /\ held.status \in {"WITHDRAWN", "REJECTED"} => direct']_assistantVars

\* A pending application "is either submitted or withdrawn, never both"
\* (actions.rs:572, docs/MCP.md:411), nor submitted and then rejected.  After
\* any error the approval gives its claim back, also when only the answer of
\* the COMMIT was lost (safety.rs:341), so it can be taken back afterwards.
NeverBoth == held.status \in {"WITHDRAWN", "REJECTED"} => filed = <<>>

\* However often a confirmation is sent and approved while the draft is
\* edited, it makes at most one revision, of exactly what the artist
\* confirmed (tools.rs submit_now, safety.rs approve, submission.rs submit).
ConfirmedIsSubmitted == filed \in {<<>>, <<Confirmed>>}

\* An answer is final (migration 0147), also for the slower of two tabs, a
\* sweep of lapsed rows or an approval that finishes late.
AnswersStand ==
    [][/\ held.status \notin {"ABSENT", "PENDING"} => held'.status = held.status
       /\ \A r \in Action :
             /\ request[r] \notin {"ABSENT", "PENDING", "RUNNING"} => request'[r] = request[r]
             /\ request[r] = "RUNNING" => request'[r] \in {"RUNNING", "DONE", "FAILED"}]_assistantVars

=============================================================================
