--------------------------- MODULE RevenueSplits ---------------------------
(***************************************************************************)
(* Sharing the royalties of a release with collaborators: the split sheet, *)
(* the invites mailed for it and their answers (splits.rs), royalty        *)
(* reports and their receipts (royalty.rs), and posting a report to the    *)
(* books (royalty_posting.rs, finance.settle_split_share).                 *)
(*                                                                         *)
(* Posting reads the shares and books their cuts later in the same         *)
(* transaction, with the shares locked FOR SHARE in between; every other   *)
(* change of a share is one transaction.  Mailing an invite is three       *)
(* statements and a call to the mail server, by any number of processes.   *)
(*                                                                         *)
(* A save reads whether the release may be edited before it locks it, so a *)
(* submission may come in between: here a sheet may be saved at any time.  *)
(***************************************************************************)
EXTENDS Integers, FiniteSets, Functions

CONSTANTS Share,       \* collaborators that may be put on the sheet
          Track,       \* tracks of the release, in the order of the report
          TrackOf,     \* the track a share is of
          Account,     \* organisations of collaborators
          Address,     \* e-mail addresses
          Report,      \* royalty reports
          Sender,      \* one leased row of an invite dispatch, in any process
          None,
          Whole,       \* the whole of a track in basis points
          Bps,         \* shares an applicant may give, in basis points
          FeeBps,      \* fee_bps of the signed agreement
          Grosses,     \* what the lines of a report may add up to, per track
          Amounts,     \* receipts
          MaxReceived, \* bound: received for one report
          MaxAsks,     \* bound: saves of the sheet and resends
          MaxTries     \* email MAX_ATTEMPTS; bound: leases of one ask

ASSUME SplitsAssumption ==
    /\ \A S \in {Share, Track, Account, Report} : IsFiniteSet(S)
    /\ Track \subseteq Nat /\ TrackOf \in [Share -> Track]
    /\ Whole \in Nat \ {0} /\ FeeBps \in 0 .. Whole /\ Bps \subseteq 1 .. Whole
    /\ Grosses \subseteq [Track -> Nat] /\ Amounts \subseteq Nat \ {0}
    /\ MaxReceived \in Nat /\ MaxAsks \in Nat /\ MaxTries \in Nat \ {0}
    /\ None \notin Account \cup Address \cup Sender \cup Share

VARIABLES
    share,   \* portal.split_shares
    asks,    \* saves and resends so far
    inbox,   \* who holds the link of a share that is valid now, and what it says
    lease,   \* what a sender read of the row it leased, and where it is
    report,  \* finance.royalty_reports, with receipts and posting
    posting, \* shares a posting in progress has read and holds FOR SHARE
    alloc,   \* finance.split_allocations
    books    \* balances of the accounts in the ledger

vars == <<share, asks, inbox, lease, report, posting, alloc, books>>

Live == {"INVITED", "ACCEPTED", "DECLINED"}

NoShare == [status |-> "NONE", bps |-> 0, address |-> None, account |-> None,
            link |-> None, invite |-> "NONE", attempts |-> 0]
NoReport == [status |-> "ABSENT", gross |-> [t \in Track |-> 0], received |-> 0, posted |-> 0]
NoCut == [status |-> "NONE", amount |-> 0, to |-> None]
Idle == [pc |-> "idle", share |-> None, attempts |-> 0, bps |-> 0, address |-> None]

\* Mutant of Locked: posting reads the shares without FOR SHARE.
NeverLocked(s) == FALSE

Locked(s) == \E r \in Report : posting[r] # None /\ s \in DOMAIN posting[r]

-----------------------------------------------------------------------------
(* Arithmetic *)

\* Mutant of Apportion: every part is rounded down.
RoundedDown(total, weight) ==
    [t \in Track |-> (total * weight[t]) \div SumFunctionOnSet(weight, Track)]

\* Whole won over the tracks in proportion, the won that are left to the
\* largest remainders.
Apportion(total, weight) ==
    LET sum == SumFunctionOnSet(weight, Track)
        floor == [t \in Track |-> (total * weight[t]) \div sum]
        rest == [t \in Track |-> (total * weight[t]) % sum]
        left == total - SumFunctionOnSet(floor, Track)
        Before(u, t) == rest[u] > rest[t] \/ (rest[u] = rest[t] /\ u < t)
    IN  [t \in Track |->
            IF Cardinality({u \in Track : Before(u, t)}) < left THEN floor[t] + 1 ELSE floor[t]]

\* split_track: the fee first, then the cuts, each rounded down.
Fee(gross) == (gross * FeeBps) \div Whole
Cut(gross, bps) == ((gross - Fee(gross)) * bps) \div Whole

-----------------------------------------------------------------------------
(* Settling *)

\* Mutant of Settled: allocations that were settled before are not left out.
SettledAgain(al, S) ==
    [r \in Report |-> [s \in Share |->
        IF s \in S /\ share'[s].status # "INVITED" /\ al[r][s].amount > 0
        THEN [al[r][s] EXCEPT
                 !.status = IF share'[s].status = "ACCEPTED" THEN "TRANSFERRED" ELSE "RETURNED",
                 !.to = share'[s].account]
        ELSE al[r][s]]]

\* finance.settle_split_share for the shares in S, as they are after the step:
\* held amounts go to the account that accepted, else back to the applicant.
Settled(al, S) ==
    [r \in Report |-> [s \in Share |->
        IF s \in S /\ share'[s].status # "INVITED" /\ al[r][s].status = "HELD"
        THEN [al[r][s] EXCEPT
                 !.status = IF share'[s].status = "ACCEPTED" THEN "TRANSFERRED" ELSE "RETURNED",
                 !.to = share'[s].account]
        ELSE al[r][s]]]

\* The ledger lines of that: SPLIT_HELD to SPLIT_TRANSFER_OUT and the
\* collaborator's ROYALTY_PAYABLE, or to the applicant's ROYALTY_PAYABLE.
Moved(b, al, al2) ==
    LET amount == [p \in Report \X Share |-> al[p[1]][p[2]].amount]
        moved == {p \in Report \X Share : al2[p[1]][p[2]].status # al[p[1]][p[2]].status}
        To(a) == {p \in moved : al2[p[1]][p[2]].to = a}
    IN  [fee |-> b.fee,
         owner |-> b.owner + SumFunctionOnSet(amount, To(None)),
         held |-> b.held - SumFunctionOnSet(amount, moved),
         paid |-> [a \in Account |-> b.paid[a] + SumFunctionOnSet(amount, To(a))]]

Settle(S) ==
    /\ alloc' = Settled(alloc, S)
    /\ books' = Moved(books, alloc, alloc')

-----------------------------------------------------------------------------
Init ==
    /\ share = [s \in Share |-> NoShare]
    /\ asks = 0
    /\ inbox = [s \in Share |-> None]
    /\ lease = [d \in Sender |-> Idle]
    /\ report = [r \in Report |-> NoReport]
    /\ posting = [r \in Report |-> None]
    /\ alloc = [r \in Report |-> [s \in Share |-> NoCut]]
    /\ books = [fee |-> 0, owner |-> 0, held |-> 0, paid |-> [a \in Account |-> 0]]

(* The sheet *)

\* What a save says of a share: nothing (it is not on the sheet, or dropped),
\* or a percentage and, if one is given, an address.
Row == [bps: Bps, address: Address \cup {None}]

OnSheet(plan) == {s \in Share : plan[s] # None}

Reasked(plan) ==
    {s \in OnSheet(plan) : share[s].status = "NONE" \/ plan[s].bps # share[s].bps
                                                    \/ plan[s].address # None}
Dropped(plan) == {s \in Share : share[s].status \in Live /\ plan[s] = None}

\* The address a share has after the save.
AddressIn(plan, s) ==
    IF plan[s].address = None THEN share[s].address ELSE plan[s].address

\* The checks of save: nobody twice on a track, a removed collaborator does not
\* come back, whoever is asked has an address on file, no track is given away
\* more than once.
Acceptable(plan) ==
    /\ \A s \in OnSheet(plan) : share[s].status # "REMOVED"
    /\ \A s \in Reasked(plan) : plan[s].address # None \/ share[s].status = "INVITED"
    /\ \A s \in OnSheet(plan), x \in Share :
          x # s /\ TrackOf[x] = TrackOf[s] /\ plan[s].address # None =>
             /\ share[x].status \in Live => share[x].address # plan[s].address
             /\ x \in OnSheet(plan) => AddressIn(plan, x) # plan[s].address
    /\ \A t \in Track :
          SumFunctionOnSet([s \in OnSheet(plan) |-> plan[s].bps],
                           {s \in OnSheet(plan) : TrackOf[s] = t}) <= Whole

\* A new answer is needed: the old link is dead and the invite waits.
Asked(s, bps, address) ==
    [status |-> "INVITED", bps |-> bps, address |-> address, account |-> None,
     link |-> None, invite |-> "PENDING", attempts |-> 0]

\* An invite that was not mailed is not mailed any more.
Answered(s, status, account) ==
    [share[s] EXCEPT !.status = status, !.account = account, !.link = None,
                     !.invite = IF @ = "PENDING" THEN "SKIPPED" ELSE @]

\* A plan says something of every track; a save that lists some of them repeats
\* what the others have.  The code waits for the rows of the tracks it lists and
\* not for those of the others, which it leaves as they are: such a save might
\* as well come after the posting that holds them.
Save(plan) ==
    /\ asks' = asks + 1
    /\ \A s \in Share : ~Locked(s)
    /\ Acceptable(plan)
    /\ share' = [s \in Share |->
                     IF s \in Reasked(plan) THEN Asked(s, plan[s].bps, AddressIn(plan, s))
                     ELSE IF s \in Dropped(plan) THEN Answered(s, "REMOVED", None)
                     ELSE share[s]]
    /\ inbox' = [s \in Share |-> IF s \in Reasked(plan) \cup Dropped(plan) THEN None ELSE inbox[s]]
    /\ Settle(Dropped(plan))
    /\ UNCHANGED <<lease, report, posting>>

Resend(s) ==
    /\ asks < MaxAsks /\ asks' = asks + 1
    /\ share[s].status = "INVITED" /\ ~Locked(s)
    /\ share' = [share EXCEPT ![s].invite = "PENDING", ![s].attempts = 0]
    /\ UNCHANGED <<inbox, lease, report, posting, alloc, books>>

\* accept and decline: by whoever holds the link.
Answer(s, status, account) ==
    /\ inbox[s] # None
    /\ share[s].status = "INVITED" /\ ~Locked(s)
    /\ share' = [share EXCEPT ![s] = Answered(s, status, account)]
    /\ inbox' = [inbox EXCEPT ![s] = None]
    /\ Settle({s})
    /\ UNCHANGED <<asks, lease, report, posting>>

Accept(s, a) == Answer(s, "ACCEPTED", a)
Decline(s) == Answer(s, "DECLINED", None)

-----------------------------------------------------------------------------
(* Mailing the invites: dispatch_once *)

\* The lease is over whenever another process finds the row due again.
Lease(d, s) ==
    /\ lease[d].pc = "idle"
    /\ share[s].invite = "PENDING" /\ share[s].attempts < MaxTries /\ ~Locked(s)
    /\ share' = [share EXCEPT ![s].attempts = @ + 1]
    /\ lease' = [lease EXCEPT ![d] = [pc |-> "link", share |-> s, attempts |-> share[s].attempts + 1,
                                      bps |-> share[s].bps, address |-> share[s].address]]
    /\ UNCHANGED <<asks, inbox, report, posting, alloc, books>>

\* Mutant of StillLeased: the percentage is not compared.
StillLeasedAny(d) ==
    LET s == lease[d].share IN
    share[s].invite = "PENDING" /\ share[s].attempts = lease[d].attempts

\* "Conditional on the row still being the one we leased."
StillLeased(d) ==
    LET s == lease[d].share IN
    /\ share[s].status = "INVITED" /\ share[s].invite = "PENDING"
    /\ share[s].attempts = lease[d].attempts /\ share[s].bps = lease[d].bps

\* A new link, the only valid one from now on; nobody holds it yet.
MakeLink(d) ==
    LET s == lease[d].share IN
    /\ lease[d].pc = "link" /\ ~Locked(s)
    /\ IF StillLeased(d)
       THEN /\ share' = [share EXCEPT ![s].link = d]
            /\ inbox' = [inbox EXCEPT ![s] = None]
            /\ lease' = [lease EXCEPT ![d].pc = "mail"]
       ELSE /\ lease' = [lease EXCEPT ![d] = Idle]
            /\ UNCHANGED <<share, inbox>>
    /\ UNCHANGED <<asks, report, posting, alloc, books>>

\* The mail server takes the mail or not, and its answer may be lost. A last
\* try and an address it refuses are final; else the row comes due again.
Mail(d, delivered, result) ==
    LET s == lease[d].share IN
    /\ lease[d].pc = "mail"
    /\ result = "SENT" => delivered
    /\ result = "FAILED" => ~delivered \/ lease[d].attempts >= MaxTries
    /\ result = "RETRY" => lease[d].attempts < MaxTries
    /\ inbox' = IF delivered /\ share[s].link = d
                THEN [inbox EXCEPT ![s] = [address |-> lease[d].address, bps |-> lease[d].bps]]
                ELSE inbox
    /\ lease' = [lease EXCEPT ![d] = IF result = "RETRY" THEN Idle ELSE [@ EXCEPT !.pc = result]]
    /\ UNCHANGED <<share, asks, report, posting, alloc, books>>

\* done.
Record(d) ==
    LET s == lease[d].share
        same == share[s].invite = "PENDING" /\ share[s].attempts = lease[d].attempts
    IN  /\ lease[d].pc \in {"SENT", "FAILED"} /\ (same => ~Locked(s))
        /\ share' = IF same THEN [share EXCEPT ![s].invite = lease[d].pc] ELSE share
        /\ lease' = [lease EXCEPT ![d] = Idle]
        /\ UNCHANGED <<asks, inbox, report, posting, alloc, books>>

Crash(d) ==
    /\ lease[d].pc # "idle"
    /\ lease' = [lease EXCEPT ![d] = Idle]
    /\ UNCHANGED <<share, asks, inbox, report, posting, alloc, books>>

-----------------------------------------------------------------------------
(* Reports and receipts *)

Ingest(r, gross) ==
    /\ report[r].status = "ABSENT"
    /\ report' = [report EXCEPT ![r].status = "NORMALIZED", ![r].gross = gross]
    /\ UNCHANGED <<share, asks, inbox, lease, posting, alloc, books>>

\* Mutant of Matchable: a posted report is not refused.
MatchableAnyway(r) == report[r].status # "ABSENT" /\ posting[r] = None

Matchable(r) == report[r].status \notin {"ABSENT", "POSTED"} /\ posting[r] = None

\* Lines that matched stay matched; the others match when the catalogue has
\* exactly one track for them.
MatchReport(r, all) ==
    /\ Matchable(r)
    /\ report' = [report EXCEPT ![r].status =
                     IF all \/ @ = "MATCHED" THEN "MATCHED" ELSE "PARTIALLY_MATCHED"]
    /\ UNCHANGED <<share, asks, inbox, lease, posting, alloc, books>>

\* Idempotent on the bank's reference; whether the report is posted is not asked.
RecordReceipt(r, amount) ==
    /\ report[r].status # "ABSENT" /\ posting[r] = None
    /\ report[r].received + amount <= MaxReceived
    /\ report' = [report EXCEPT ![r].received = @ + amount]
    /\ UNCHANGED <<share, asks, inbox, lease, posting, alloc, books>>

-----------------------------------------------------------------------------
(* Posting *)

\* Collaborators of the tracks that got money.
Sharing(r) ==
    LET won == Apportion(report[r].received, report[r].gross) IN
    {s \in Share : share[s].status \in {"INVITED", "ACCEPTED"} /\ won[TrackOf[s]] > 0}

BeginPost(r) ==
    /\ report[r].status = "MATCHED" /\ posting[r] = None
    /\ report[r].received > 0 /\ \E t \in Track : report[r].gross[t] > 0
    /\ posting' = [posting EXCEPT ![r] =
                      [s \in Sharing(r) |-> [bps |-> share[s].bps, status |-> share[s].status]]]
    /\ UNCHANGED <<share, asks, inbox, lease, report, alloc, books>>

\* A posting settles accepted shares at its end and locks them FOR UPDATE for
\* it: another posting that reads them has to end first.
CommitPost(r) ==
    LET cuts == posting[r]
        won == Apportion(report[r].received, report[r].gross)
        amount == [s \in DOMAIN cuts |-> Cut(won[TrackOf[s]], cuts[s].bps)]
        paying == {s \in DOMAIN cuts : cuts[s].status = "ACCEPTED" /\ amount[s] > 0}
        fee == SumFunctionOnSet([t \in Track |-> Fee(won[t])], Track)
        net == SumFunctionOnSet([t \in Track |-> won[t] - Fee(won[t])], Track)
        held == SumFunctionOnSet(amount, DOMAIN cuts)
        new == [alloc EXCEPT ![r] =
                   [s \in Share |-> IF s \in DOMAIN cuts /\ amount[s] > 0
                                    THEN [status |-> "HELD", amount |-> amount[s], to |-> None]
                                    ELSE NoCut]]
        booked == [books EXCEPT !.fee = @ + fee, !.held = @ + held,
                                !.owner = @ + net - held]
    IN  /\ cuts # None
        /\ \A q \in Report \ {r} : posting[q] # None => DOMAIN posting[q] \cap paying = {}
        /\ report' = [report EXCEPT ![r].status = "POSTED", ![r].posted = @ + report[r].received]
        /\ posting' = [posting EXCEPT ![r] = None]
        /\ UNCHANGED <<share, asks, inbox, lease>>
        /\ alloc' = Settled(new, paying)
        /\ books' = Moved(booked, new, alloc')

\* A refusal, a stop, or the database ending one of two postings that wait for
\* each other's shares: everything is rolled back.
AbortPost(r) ==
    /\ posting[r] # None
    /\ posting' = [posting EXCEPT ![r] = None]
    /\ UNCHANGED <<share, asks, inbox, lease, report, alloc, books>>

-----------------------------------------------------------------------------
Next ==
    \/ asks < MaxAsks /\ \E plan \in [Share -> Row \cup {None}] : Save(plan)
    \/ \E s \in Share : Resend(s) \/ Decline(s) \/ \E a \in Account : Accept(s, a)
    \/ \E d \in Sender :
          \/ \E s \in Share : Lease(d, s)
          \/ MakeLink(d) \/ Record(d) \/ Crash(d)
          \/ \E delivered \in BOOLEAN, result \in {"SENT", "FAILED", "RETRY"} :
                Mail(d, delivered, result)
    \/ \E r \in Report :
          \/ \E gross \in Grosses : Ingest(r, gross)
          \/ \E all \in BOOLEAN : MatchReport(r, all)
          \/ \E amount \in Amounts : RecordReceipt(r, amount)
          \/ BeginPost(r) \/ CommitPost(r) \/ AbortPost(r)

Spec == Init /\ [][Next]_vars

-----------------------------------------------------------------------------
(* Properties *)

\* Money waits only for an answer that is still open: an answer given, or a
\* removal, while a report is being posted leaves nothing held for good.
HeldIsUnanswered ==
    \A r \in Report, s \in Share : alloc[r][s].status = "HELD" => share[s].status = "INVITED"

\* What an allocation still holds.
HeldAmount(cut) == IF cut.status = "HELD" THEN cut.amount ELSE 0

\* "So that no won is lost": what the books hold, owe and paid on is what was
\* received for the posted reports, and SPLIT_HELD is what the allocations hold.
BooksBalance ==
    /\ books.held = SumFunctionOnSet([p \in Report \X Share |-> HeldAmount(alloc[p[1]][p[2]])],
                                     Report \X Share)
    /\ books.fee + books.owner + books.held + SumFunctionOnSet(books.paid, Account)
         = SumFunctionOnSet([r \in Report |-> report[r].posted], Report)

\* A valid link says the percentage the share has: nobody agrees to another
\* one, whatever was changed or mailed meanwhile.
LinkSaysShare == \A s \in Share : inbox[s] # None => inbox[s].bps = share[s].bps

\* "Anything already credited stays theirs": an amount transferred stays with
\* the account it went to, whoever is asked, declines or is removed later.
CreditedStays ==
    [][\A r \in Report, s \in Share :
          alloc[r][s].status = "TRANSFERRED" => alloc'[r][s] = alloc[r][s]]_vars

\* A report is posted once: what was booked for it never changes after.
PostedOnce ==
    [][\A r \in Report : report[r].posted > 0 => report'[r].posted = report[r].posted]_vars

=============================================================================
