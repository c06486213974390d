# audeniq: a TLA+ model of the distribution back end

audeniq is a music-distribution platform. Artists submit releases; a worker
checks, prepares and freezes them; staff approve them; delivery jobs send the
frozen package to each partner (DSP), track whether it goes live and take it
down; and royalties come back, are shared with collaborators and paid out. The
back end is one Rust crate (`src/crates/core`) over PostgreSQL
(`src/migrations`), with API and worker processes that share nothing but the
database and the object store. Every concurrent behaviour is therefore an
interleaving of *transactions* on shared rows, of *calls* to partners, banks,
payment providers and the object store made between or inside them, and of
*crashes* in between. That is what the modules here model.

## 1. Inventory

| component | state it keeps | operations | hard behaviour | what makes it correct |
|---|---|---|---|---|
| durable job queue (`operations.rs`, `bin/audeniq-worker.rs`) | `operations.jobs` | enqueue, claim, heartbeat, sweep, succeed, fail, retry-or-surface, park, hand-back | leases expire under live handlers; lost replies; unfenced reads; shutdown | one owner can finish a job; nothing queued is unclaimable; no silent dead letter of the pipeline; bounded runs; settled stays settled |
| release pipeline (`submission.rs`, `review.rs`, `distribution.rs`, `withdraw.rs`) and the decisions of staff (`staff.rs`, `rights_grants.rs`) | `catalog.releases.status`, revisions, packages, rights epoch, agreement | submit, stages 1-3, re-evaluation, override, decisions, reissue, withdraw, fan-out | verdicts of late runs, resubmission, a rights fact while a package is frozen, withdrawal beside a stage | a release a machine owns has a job; what was sent back stays back; what is cancelled reaches nobody |
| delivery execution (`execution.rs`) | `execution.delivery_jobs`, `delivery_attempts`, `reconciliation_cases` | fan-out, lease, freshness, send, record, park, repair | a second lease over the job lease; an unknowable send; webhooks beside the send | at most one send received; never sent again while unresolved; every park has its case |
| live tracking and takedown (`execution.rs`, `takedown.rs`, `partners/inbox.rs`) | `execution.live_bindings`, `ack_events`, `partner_inbox` | poll, webhook, staff evidence, takedown, reconcile | answers read before and recorded after other writers | the belief never goes back; outcomes surface; takedowns stay confirmed |
| uploads (`uploads.rs`, `storage.rs`, analysis in `submission.rs`) | `upload_sessions`, `assets`, objects | issue, part, complete, cancel, expire, analyse | store and database disagree; overlapping completions; lost replies | a registered master is stored; nothing is left behind; one outcome |
| payouts (`finance.rs`, `portal.rs`, migrations 0100, 0128) | ledger, `payout_requests`, `payout_orders`, `payout_returns`, holds | request, cancel, order, approve, submit, result, return, reissue | decisions on one balance; a bank that answers late, twice or in parts | nothing is paid twice; requests are covered; the books are the bank's |
| royalties and splits (`royalty.rs`, `royalty_posting.rs`, `splits.rs`) | reports, receipts, `split_shares`, `split_allocations` | save the sheet, mail, accept, decline, ingest, match, receive, post | an answer during a posting; a stale dispatch; rounding | no won lost; held only for open answers; a link says its share; posted once |
| add-ons and card payments (`addons.rs`, `payments.rs`, migration 0157) | `addon_orders`, `addon_payments` | choose, open, confirm, pay from the balance, close, refund | provider calls inside transactions; windows left open | paid once; a payment reaches its order or goes back; closed means refunded |
| assistant requests (`mcp/tools.rs`, `safety.rs`, `actions.rs`, `approvals.rs`) | `mcp_pending_submissions`, `mcp_action_requests`, grants | submit, hold, approve, reject, withdraw, lapse, run, revoke | a draft edited between the confirmation and its submission; two tabs; retries | only what was confirmed is submitted; an action takes effect once; what was taken back stays so |
| staff review (`staff.rs`, `staff_ops.rs`) | claims, approvals, corrections | claim, decide, correct | two reviewers | in part: what decisions do to a release |
| contracts, signing, rights (`signing.rs`, `agreement.rs`, `contract_terms.rs`) | documents, signatures, terms | sign, void, end | several signers | in part: the agreement's status |
| identifiers, accounts and tokens, notifications, publishing, QC, ERN/DDEX, routing, images, edge, privacy, web | see `PROJECT.json` | | | not modelled (section 5) |

How they interact: a submission enqueues `stage1`; each stage's last transaction
enqueues the next one; stage 3 freezes a package, and the signature of the
agreement enqueues `delivery.enqueue`, which creates a delivery job for each
approved partner and a `delivery.send` job for each of those; a send that ends
DELIVERED schedules `delivery.poll` 0, each poll the next one; webhooks and staff
evidence are filed and then applied by jobs; a scheduled `reconcile` opens cases
and repairs stalled sends. All of these are rows of `operations.jobs`. Uploads give
releases their masters before, the assistant is another way to submit, and
reports, splits, payouts and add-ons meet in one ledger.

## 2. Modules

| module | models | composes |
|---|---|---|
| `JobLifecycle` | what the queue promises: posted once, one run at a time, settled once, completion reported by the current run only | |
| `JobQueue` | the rows of `operations.jobs` and the worker loops | implements `JobLifecycle` (`ImplementsLifecycle`) |
| `ReleasePipeline` | one release from submission to its first send | holds the queue's rows as a handler sees them, and the packages' deliveries |
| `DeliveryPromise` | what the execution of a delivery promises: an attempt only while nothing is out and nothing was received, one received attempt, no closed delivery opened again | |
| `Delivery` | one delivery job, its attempts, the send jobs and handler runs that drive it, the partner, its callbacks, the approval gate, the reconciler | implements `DeliveryPromise` (`KeepsPromise`); holds an abstract queue job: status, attempts, token |
| `LiveTracking` | one delivered package at one partner: poll chain, webhooks, staff evidence, takedown, reconciler | starts where `Delivery` recorded DELIVERED |
| `Uploads` | one upload session of an audio master, the object store, the answers on its quality | |
| `Payouts` | an organisation's balance, its requests and orders, the bank, add-ons paid from the balance | |
| `AddonCheckout` | the add-on orders of a release, their card payments, the provider | |
| `RevenueSplits` | the split sheet, invites, reports, posting | |
| `AssistantRequests` | what an AI connection asks for and the artist answers | |
| `SumLemmas` | sums of integers over finite sets: what the fold of the community modules computes, in any order | used by `PayoutsProofs` and `RevenueSplitsProofs` |
| `JobQueueProofs`, `DeliveryProofs`, `LiveTrackingProofs`, `PayoutsProofs`, `AddonCheckoutProofs`, `RevenueSplitsProofs` | theorems | each extends its module and TLAPS |
| `SubmissionProofs` | theorems about what leads to a submitted and packaged release: the master, the assistant's submission, the pipeline | extends `Uploads`, `AssistantRequests`, `ReleasePipeline` and TLAPS |
| `MCJobQueue`, `MCDelivery`, `MCLiveTracking`, `MCPayouts`, `MCAddonCheckout`, `MCRevenueSplits`, `MCUploads`, `MCAssistant` | model values, definitions and symmetry sets for TLC; `ReleasePipeline` needs none, its constants are numbers | |
| `MCSubmission` | the same for `Uploads` and `AssistantRequests`, which share no row | either of the two at a time, the other at rest |

A definition commented *Mutant of X* is a plausible bug put in the place of X; a
property of a passing run is listed in `PROJECT.json` with one that violates it.
"Bound:" marks what is limited for the checker's sake.

### JobQueue

`row[j]` is the row with idempotency key `j`: status, attempts, whether `run_at`
has passed (`due`), the lock token, and whether the lease has not (`live`). A token
is a UUID in the code and the number of the claim here (`issued`). `wk[w]` is a loop
of the worker binary: idle, in the handler, between the two statements of
`retry_or_surface`, or in its fallback `fail`. Each action is one transaction. An
update's `WHERE` clause is `Holds`. A reply may be lost after its commit
(`Answered`), the process may die anywhere (`Abandon`), shutdown hands the job back
(`ReleaseLease`, which checks the token and not the lease). History variables:
`issued`, `resets`, `missed`, `acked`.

### Delivery

`job` is the row of `execution.delivery_jobs`, `att` its attempts in order, `send`
the `delivery.send` rows, `run[r]` a run of the handler:

    idle -> start -> prepare -> send -> wire -> sent -> poll -> succeed|fail|giveup|park -> idle

`prepare` to `sent` hold a delivery lease (`lease_delivery_job`); `send` is the state
in which the freshness check has been repeated and the package checks are done;
`Begin` commits the attempt and SENDING; at `wire` the call is out and not yet
received, at `sent` the partner has it; the answer is then recorded (or is lost, or
finds the lease gone). The lock token of the delivery job and that of the queue job
are named by the run they were generated for, so "the token in the row is mine" is
`job.by = r`. The two leases expire on their own at any time, so two runs may be
under way on the same or different send jobs.

`got` in an attempt is history: the partner received this send. "Unavailable" is only
answered before the partner received it: the adapters answer so when nothing was
transferred, and that the partner did not keep it anyway is an assumption about
partners, not something this code can check. The code's TIMEOUT and UNKNOWN are
one outcome here, because every query treats them alike.

Freshness (E-1) is `ready`: release status, current revision, rights epoch, contract
and adapter profile together; any drift is `Drift`, and it never comes back. The
package checks of E-2 may refuse, or fail transiently, at any time. The approval
gate of migration 0063 is `gate`, which staff switch at will; it is read only when
the job is leased and repaired, as in the code.

### LiveTracking

`polls[n]` is the `delivery.poll` row with number n and `run[r]` a handler that has
asked the partner (`ans`) and not yet recorded the answer. `binding` is
`live_status`; `rid` whether the partner's release id is known, on which the choice
between `get_release_status` and `inquire_submission` depends. Staff evidence is
filed as a job and recorded later, when it may be stale.

### ReleasePipeline

`status` is `catalog.releases.status`, and every write of it passes `Reachable`, the
trigger `catalog.guard_pipeline` over `Transitions`; a write the trigger refuses raises
and the handler fails. `job` holds the queue rows of each (kind, revision), `runs` the
handler runs: one may work on after its row was reclaimed (`Expelled`), so the verdict
of a late run meets a newer revision. `Stage1...`, `Stage2...`, `Prepare...` are the
transactions of the three handlers, one action for each way they go; `Concludes` writes
a verdict and reports to the queue, and a report that exhausts the attempts surfaces
the release (`Surfaced`). The content of checks is the choice of a verdict. Staff
decisions, overrides, reissued identifiers, recorded rights facts (which move `epoch`),
the signature, the withdrawal and the fan-out are single transactions.

### Uploads

A completion (`pc[c]`) goes through finishing the multipart upload, inspection, storing
the master, checking it, and registering it; each is a step, and between steps other
completions, the cancel, the expiry and the device act. `Discard` is the delete on
the way out. A step may be the last one (`CutOff`), the store may fail, and a commit's
reply may be lost (`lost`). `reading` are runs of `asset.analyze`, which may be late or
repeated; `asset.by` says who answered the quality.

### Payouts

The ledger is its balance (`payable`) and the part earned by tracks (`earned`), which
is what a hold on tracks takes away. Decisions take the organisation's lock: a call
reads under it and commits in a later step (`decision`). The bank is a variable of its
own (`bank`, `notice`): what it did is not what staff have recorded yet. Assumed of the
people who use it: results are recorded as the bank gave them, a transfer is made
after the approval and before its submission is recorded, staff cancel only what was not
transferred. `place_hold` and `release_hold` do not take the lock and are modelled so.
Who approves (two different approvers) is left out.

### AddonCheckout

`call` is the confirm or close that waits for the provider with its rows locked; every
other operation is one transaction and respects the locks. `approved`, `taken`,
`given` and `back` are the provider's truth. A stop in the middle of a call loses the
transaction and keeps what the provider did. The three providers differ where
`payments.rs` differs: only one takes an idempotency key for a refund.

### RevenueSplits

A save of the sheet is one transaction over all shares (`plan`); a posting reads the
shares and locks them until it commits or aborts (`posting`). Mailing is leasing
a row, making a link, mailing it and recording it, by several processes (`lease`);
`inbox` is who holds the link that is valid now. Sums are in won and shares in basis
points, both scaled down in the instance; the arithmetic (`Apportion`, `Fee`, `Cut`)
is the code's. The exchange rate is 1, and a report covers one release.

### AssistantRequests

One connection, one confirmation of one release and action requests of one payload.
A tool call is at one of the reads and writes of `submit` (`call[c].at`), a Studio
request at one of those of `approve`, `reject` or `decide` (`tab[t]`). A draft's
content is a number: what the consent's hash distinguishes; the confirmation is for 0.
A minor's application, which always waits, is a connection without the permission.
Deadlines may pass at any time.

## 3. What is checked

Bounds are in the configurations. Every run finishes in about three minutes or less.

| run | instance | question |
|---|---|---|
| `jobqueue` | a pipeline and a delivery job, 2 loops, 2 attempts, 1 reset | queue safety, the refinement to `JobLifecycle`, and that every queued job is settled |
| `delivery` | 1 send job, queued again when it died, 2 overlapping runs, 2 attempts at the delivery, REJECTED events before and after the answer | no duplicate send when a second lease is taken while the first run is on the wire, parks with their cases, clear attempts; the promise of one delivery (`DeliveryPromise`) is kept; a stalled send is repaired |
| `live_tracking` | 1 handler, 1 more poll, REJECTED, LIVE and TAKEN_DOWN events, takedowns | the belief never goes back to INGESTING; a confirmed takedown is not reopened; FAILED means refused, with its case; outcomes surface |
| `pipeline` | 2 revisions, 2 attempts, 1 rights fact, 1 fault | a release a machine owns, or that waits for stage 2, has a job and surfaces; a cancelled release stays home; a returned package stays returned |
| `submission` | 3 completions, 2 analyses; or 2 calls, 2 tabs, 2 action requests, 2 contents | an upload has one outcome, masters are kept and not left behind, the first answer on quality stands; an action takes effect once, what was taken back stays so, only the confirmed content is submitted, answers are final |
| `payouts` | 2 requests, 3 orders, 1 return notice, 1 add-on, 1 hold, one credit of 4 | nothing paid twice, requests covered, books equal to the bank's, one live order a request |
| `addons` | 2 orders, 2 payments, prices 1 and 2, 3 providers, 1 fault | paid once, paid or given back, closed means refunded, parts given back once |
| `splits` | 2 shares on one of 2 tracks, 1 report, 2 addresses, 2 dispatches, 2 saves or resends | held only for open answers, books balance, links say the share, credits stay, posted once |
| `pipeline_stale`, `addons_underpaid`, `uploads_lost_commit`, `assistant_both` | as above or smaller | a promise the code does not keep (below) |

Why the bounds are enough: two attempts of a job give one retry and one exhaustion;
the rows identify runs, tabs and calls only by equality of tokens, so a third adds no
comparison the code makes, except where the third is the repetition that finds the
race of the first two done (uploads). `MaxPolls` stands for the code's 56: the chain's
handler looks at nothing but whether a next poll remains. In `delivery` the second run
claims the same send job after its lease ran out, while the first may still be on the
wire; REJECTED is the event that settles a job under its sender and that a sender's
own answer then contradicts, and one partner identifier (`PlannedId`) lets it be matched
before that answer. Two send jobs with two runs, two polls at once and two reports at once
are too large to enumerate; the theorems of section 4 hold for any number of each. In `splits`, one lease
of an ask (`MaxTries` 1) is enough for TLC because a retry is a dispatch that crashed
and another that leases the row; `Whole`, `Bps` and the amounts are chosen so that
the roundings of fee, tracks and cuts all occur. The payout amounts include two that
do not fit the balance together, one of them at the small-payout limit and one above.

Symmetry is used only in runs without liveness properties; runs, calls and tabs are
interchangeable because nothing orders them. `CHECK_DEADLOCK FALSE` appears where the
instance comes to rest.

**Type invariants and what else is proved instead of run**: the modules' `TypeOK`
(`UploadsTypeOK`; for `RevenueSplits` and `AssistantRequests` the typing parts of their
proofs' invariants), `JobQueue.OwnerExclusive`, `SurfacedIsDead` and `SettledForGood`,
`Delivery.WireBudget` and `NeverReopened` (which the promise entails) and
`LiveTracking.NeverDoubleScheduled` are proved for every instance and not repeated by a run.

**Fairness.** Weak fairness of polls, handler steps and clocks: a worker loop polls on
a timer, every statement and partner call has a timeout, and leases that nobody
renews run out. No fairness of crashes, parks, shutdowns, callbacks or staff. In
`Delivery`, some run goes on while one can (weakly fair), strong fairness of `Lease` and
`Blocked` says that a worker does not crash every single time between claiming a send
job and deciding its lease, the queue's sweep takes back a job no run owns, and the
scheduled `Reconcile` comes round while there is a delivery to repair; that a delivery's
lease expires is not assumed. Its deadlines are taken as past. In `LiveTracking` a webhook, once
filed, is processed; that the partner ever sends one is not assumed. In
`ReleasePipeline`, claims, sweeps and the steps of a handler are weakly fair; the
artist, the staff and faults are not. `Payouts`, `AddonCheckout`, `RevenueSplits`,
`Uploads` and `AssistantRequests` have no liveness property: their progress is up to
people, banks and devices.

**Disagreements with a run** (each finding quotes the promise):

- `pipeline_stale`: `run_stage1` does not look at the release's current revision. A run
  of revision 1, late until another run sent the release back and revision 2 was
  submitted, takes the release to STAGE1_PASSED. Stage 2 of revision 1 skips; should
  stage 1 of revision 2 find something to correct, the trigger refuses the write, the job
  dead-letters, and `stage1_give_up` does nothing for STAGE1_PASSED: the release waits for
  nobody. `RunningHasJob` and `RunningSurfaces` hold of every other release, and name this
  one (`Overtaken`). The property's second half, `ReadyIsPrepared`, is broken by the same
  omission in the first transaction of a preparation: late until its release went back and
  was resubmitted, it makes revision 2 ready with revision 1's package.
- `addons_underpaid`: a resubmission changes the price of an order while a payment
  window of its old price is open; the confirmation marks it paid for the old one.
- `uploads_lost_commit`: a completion that cannot tell whether its registration
  committed deletes the master, also when the asset names it.
- `assistant_both`: an application held for approval is submitted and withdrawn
  (`actions.rs:574` and `docs/MCP.md:414` say never both): when the answer of the
  approval's COMMIT is lost, the claim is given back. The second way, for which the
  instance is too small, is a parallel call of the same confirmation that goes past
  the Studio because the setting or the permission changed between the two. There is
  no third (`BothHasTwoWays`, section 4).

**Also met**, visible in the models and without a run of their own:

- A split share asked again at another address resets the attempts; a dispatch that
  leased the first ask takes the row for its own once another has leased it again,
  and mails the replaced address the only valid link (`splits.rs:677` says the
  re-invite wins).
- An approved action whose process stops stays RUNNING, a claimed submission stays
  claimed until it lapses: nothing takes them up.
- A send job that dead-letters while its delivery is SENDING, or leased for its last
  attempt, leaves it there; `delivery_lease_blocked` may give up a delivery whose
  attempt is in flight without a case.
- A poll that read "live" before a takedown records LIVE over it; for a partner that
  does not call back nothing polls after LIVE, so a takedown stays requested.
- Only an agreement in NEEDS goes back to review with a resubmission (migration 0049):
  one that is approved or signed keeps its status.
- `docs/API.md:100` and the comment at `portal.rs:1701` say that an artist cancels a payout whose order
  is approved; since migration 0100 only one that waits for its approval is cancelled.

## 4. What is proved

With TLAPS, for all values of the constants that satisfy the modules' named
assumptions. Each module's invariant is a conjunction of named parts, shown to hold
initially and to be kept by every action, one lemma for each group of actions.

**JobQueueProofs.** `IInv` joins the safety invariants with what makes them inductive:
`LoopShape` (an idle loop holds nothing), `TokensIssued` (a token in a row or a loop was
generated, and at most one loop has each), `AttemptsBounded`, `RunsPaid` (claims are
paid for by attempts and resets). Proved: `TypeOK`, `OwnerExclusive`,
`ReportedSuccessStands`, `QueuedIsClaimable`, `DeadLetterSurfaced`, `SurfacedIsDead`,
`RunsBounded`, `SettledForGood`, and that `JobQueue` implements `JobLifecycle`.

**SubmissionProofs** has three parts.

- *The master.* `UploadsInv` is `UploadsTypeOK`, `Agree` (session, asset and answers
  agree), `MastersKept`, `NoOrphans`, `Stored` (a completion has its master in the store
  from putting it to registering it), `DropsDuplicates` and `OpenIsFresh`. All four
  properties of uploads are proved.
- *The assistant.* `AssistantInv` is `AssistantTyped`, `ApprovedRuns` (an action that is
  being carried out is RUNNING, in the hands of one tab, and had no effect before that
  tab's), `ClaimHeld` (one tab at most holds the claim of the pending submission, and while
  it does the row is neither withdrawn nor rejected), `FiledIsApproved` (what only the
  Studio filed is approved, too late for an answer, or claimed for good) and
  `ConfirmedIsSubmitted`. The tabs read before they write; `ClaimHeld` and `ApprovedRuns`
  say why what they read cannot have been answered meanwhile. Proved: `TakenBackStaysBack`,
  `ConfirmedIsSubmitted`, `AnswersStand`, and that the application is filed and yet taken
  back in no way but the two that `NeverBoth` fails for.
- *The release.* `PipelineInv` is `TypeOK`, `QueueInv` (`NothingAhead`: no job or package
  of a revision not submitted; `RunsHaveJobs`; `StagesInOrder`: stage 2 and the preparation have a job only of what
  the stage before them passed), `StageIsOpen`, `RunningHasJob` and `SignedFirst`. `RunningHasJob` is not inductive alone: a run may
  settle the job of the current stage without moving the release only if the stage was
  decided before, and `StageIsOpen` says that it was not. Proved besides:
  `CancelledStaysHome` and `ReturnedStaysReturned`.

**DeliveryProofs.** The argument for zero duplicate sends is the invariant `Sends`:

- `InFlight`: a run on the wire works on the *last* attempt, which is IN_FLIGHT, and
  was received exactly if the run is past the call;
- `OneOnWire`: at most one run is on the wire, although several may believe they hold
  the lease. `Begin` needs every attempt resolved, and a run on the wire has one that
  is not; this, and not the lease, excludes a second sender;
- `EarlierCleared`: every attempt but the last was rejected and not received;
- `VerdictSettles`: an accepted attempt, or a received one that was rejected, has
  settled the job, so that under a lease all attempts are known not received;
- `Held`: a run whose token is still in the row finds the status it left. This needs
  that no callback can settle the job under a run before its call, which holds because
  an event is matched only to a send the partner received;
- `Parked`, `Untouched` and `WireBudget`, the bookkeeping of cases and attempts.

`IInv == TypeOK /\ Driven /\ Sends` is inductive, and gives `NoDuplicateSend`,
`WireBudget`, `UnknownParked`, `SendsOnlyWhenClear` and `NeverReopened`.

On top of it, `PromiseIsKept`: `Delivery` implements `DeliveryPromise`, under the map of
the job's status to `Phase`, of the attempts to their number, whether one is unresolved,
and which were received. Leases, send jobs, tokens, cases, gates and crashes are stutters.
The steps that are not are few, and each needs a part of `Sends`: `Begin` that nothing is
out or received (`SendsBegin`), the answers that the run's attempt is the last
(`InFlight`) and the others cleared (`EarlierCleared`), so that one answer closes the whole
delivery, and `Unavailable` that the delivery is still open (`Held`). `DeadIsNobodys` is
added: a dead-lettered delivery is nobody's, so no late answer of a run revives it.

**LiveTrackingProofs.** `LiveInv` is `TypeOK`, `FailedIsRefusal` and `RefusalsAreTrue` (a
refusal in the hands of a poll is what the partner said, and stays so; this is what
makes a FAILED belief a refusal). Proved: `FailedIsRefusal`, `NeverBackToIngesting`,
`ConfirmedStaysConfirmed`, `NeverDoubleScheduled`.

**SumLemmas.** Sums are the community modules' `SumFunctionOnSet`, which adds in the order
of `CHOOSE`. That the order is immaterial is an induction over the subsets of a finite
set; a property of subsets is given as the *set* of subsets that have it, because the
library's induction rules take an operator. From it: a sum changes by what one term
changes, grows with its terms, splits along a predicate or the fibers of a map.

**PayoutsProofs.** Three invariants, each on top of the one before. (Requests, orders,
notices and add-ons are finite sets, as the rows of a table are.)

- `PInv`: `TypeOK`, `DecisionHolds` (the request or order a decision checked under the
  lock is still what it was), `OrdersNamed` (an order is the one its request names, or was
  issued again), `NamesOwn` and `ReissuedIsOver`; it gives `RequestFollowsOrder`.
- `CInv`: `Covered` and `Checked`: what a decision read under the lock is still covered
  when it commits, because what happens outside the lock only adds to the balance or frees
  some of it.
- `MInv`: `BankFollows` (nothing leaves before the approval, what is posted left, and of an
  order that is over the artist has nothing), `BookedIsPosted` (only of a posted order a
  return is booked) and `LedgerKept` (what left the balance is paid for orders and add-ons,
  but for fees given back).

`NeverTwice`, `PaidOnce` and `BooksMatchBank` follow from the three together. `PaidOnce`
needs that a reissue follows an order that is over (`ReissuedIsOver`) and that of such an
order nothing was kept (`BankFollows`).

**AddonCheckoutProofs.** `CheckoutInv` is `TypeOK`, the four properties of the run,
`UnpaidIsUnpaid`, `ConfirmIsFresh` and `CloseIsFresh` (what the waiting call read of the
rows it locks is still so, which needs every other action to respect `Locked`).

**RevenueSplitsProofs.** `SplitsInv` is `Shape`, `ReadStaysTrue` (a share a posting has read
is locked and unchanged), `MailSaysShare`, `PostedHasStatus`, `HeldIsUnanswered` and
`LinkSaysShare`; it gives the properties of the run but one. `BooksBalance` rests on
`ApportionsAll`: dividing an amount over tracks by the largest remainders gives out all of
it. What the floors leave over is no more won than there are tracks, and of the tracks,
ordered by remainder, exactly that many have fewer than that many before them
(`RankCounts`). It is proved for any set of tracks, weights and amount, and TLC checks the
same definition where the roundings meet. `BooksInv` adds the types of amounts (`SharesTyped`,
`ReportsTyped`, `PostingTyped`): a sum of naturals is one only if its terms are.

**Only model-checked**: liveness and everything under fairness (`EventuallySettled`,
`StalledSendRepaired`, `OutcomeSurfaces`, `RunningSurfaces`), which is beyond this prover:
it needs ENABLED. Every other property of the passing runs is a theorem. The four findings
are counterexamples and stay with TLC.

## 5. Not modelled, and why

- `resolve_unknown` and `claim_delivery_job`, and in finance `create_payout_order` and
  `reverse_transaction`, have no caller outside the tests; `update_release` changes
  metadata of a live release only.
- The content of QC verdicts, packages, ERN documents, uploads and statements: pure
  computations; their outcomes are choices.
- Row locks and lock timeouts: transactions are atomic unless they wait for an outside
  call; a deadlock or timeout is an error of the handler, which every state allows.
- A persistently failing surfacing that rolls back every sweep, and the in-flight
  registry of a process (both in `PROJECT.json` under hazards).
- In `LiveTracking`: shutdown hand-back (like `Crash` with the attempt refunded), and who
  is allowed to ask for a takedown. Unmatched webhooks stay in the mail and may be sent
  again; a partner that calls only once loses them.
- In `Uploads`: images and documents (the same without analysis), the scanner, archives
  and temp files; the bucket's lifecycle rule is external.
- In `AddonCheckout`: more than one call waiting for the provider at a time (locked rows
  let no two of one release meet), more than one order of a service.
- In `AssistantRequests`: retry-safe creates (`safety.rs` `reserve` and `finish`, where a
  stop between the create and its record lets a retry create again), the tools that
  read, edit a draft or track a release, and the tokens of a connection.
- Identifiers: inserts under unique indexes. Accounts, sessions, passkeys, reset links
  and OAuth tokens: not reached. Notifications: mail queues with leases like the
  invites of `RevenueSplits`; the outbox is not reached. Publishing, work tools, portal
  and catalogue pages: handlers over one row each. Routing, images, edge, privacy, web
  front ends: configuration, encoding, caching, cryptography, presentation.

## 6. Plan

1. `Review`: claims, two approvals, corrections; no decision without the claim, two
   different approvers, nothing approved that has moved.
2. `Tokens`: reset links, passkey challenges and refresh rotation as one module of
   single-use tokens; `Outbox`: at-least-once dispatch with effects once.
3. `Delivery` and `LiveTracking` composed, with `DeliveryPromise` in the place of `Delivery`.
4. Proofs: an abstract purse (credited, promised, paid) that `Payouts` implements; an
   abstract application (asked, answered once) that `AssistantRequests` implements.
