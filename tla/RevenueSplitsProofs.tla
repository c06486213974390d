------------------------ MODULE RevenueSplitsProofs ------------------------
(***************************************************************************)
(* For any number of collaborators, tracks, reports and dispatches: money  *)
(* is held only for an answer that is still open, a link states the        *)
(* percentage it is accepted for, what was credited stays, and a report is *)
(* posted once.  No won is lost: apportioning by largest remainders gives  *)
(* out the whole amount, and the books balance.                            *)
(***************************************************************************)
EXTENDS RevenueSplits, SumLemmas, TLAPS

\* The functions and records have their domains.
Shape ==
    /\ DOMAIN share = Share
    /\ \A s \in Share :
          DOMAIN share[s] = {"status", "bps", "address", "account", "link", "invite", "attempts"}
    /\ DOMAIN inbox = Share
    /\ DOMAIN lease = Sender
    /\ \A d \in Sender : /\ DOMAIN lease[d] = {"pc", "share", "attempts", "bps", "address"}
                         /\ lease[d].pc # "idle" => lease[d].share \in Share
    /\ DOMAIN report = Report
    /\ \A r \in Report : DOMAIN report[r] = {"status", "gross", "received", "posted"}
    /\ DOMAIN posting = Report
    /\ DOMAIN alloc = Report
    /\ \A r \in Report : DOMAIN alloc[r] = Share
    /\ \A r \in Report, s \in Share : DOMAIN alloc[r][s] = {"status", "amount", "to"}

\* FOR SHARE: what a posting read of a share is what the share still is.
ReadStaysTrue ==
    \A r \in Report : posting[r] # None =>
       \A s \in DOMAIN posting[r] :
          /\ s \in Share
          /\ posting[r][s].status = share[s].status
          /\ share[s].status \in {"INVITED", "ACCEPTED"}

\* A dispatch whose link is still the valid one mails the percentage of the share.
MailSaysShare ==
    \A d \in Sender :
       lease[d].pc = "mail" /\ share[lease[d].share].link = d =>
          lease[d].bps = share[lease[d].share].bps

\* A report in posting is matched and not posted; money was allocated only
\* for posted reports.
PostedHasStatus ==
    \A r \in Report :
       /\ posting[r] # None => report[r].status = "MATCHED"
       /\ report[r].posted > 0 => report[r].status = "POSTED"
       /\ report[r].status # "POSTED" => \A s \in Share : alloc[r][s].status = "NONE"

SplitsInv ==
    Shape /\ ReadStaysTrue /\ MailSaysShare /\ PostedHasStatus /\ HeldIsUnanswered /\ LinkSaysShare

-----------------------------------------------------------------------------
\* Settling touches amounts that are held, and only those of the shares it is
\* asked for: neither a domain nor another amount changes, and no held amount
\* of such a share is left once the share is not invited any more.
LEMMA SettledIs ==
    ASSUME NEW al, NEW S,
           DOMAIN al = Report,
           \A r \in Report : DOMAIN al[r] = Share,
           \A r \in Report, s \in Share : DOMAIN al[r][s] = {"status", "amount", "to"}
    PROVE  /\ DOMAIN Settled(al, S) = Report
           /\ \A r \in Report : DOMAIN Settled(al, S)[r] = Share
           /\ \A r \in Report, s \in Share :
                 /\ DOMAIN Settled(al, S)[r][s] = {"status", "amount", "to"}
                 /\ al[r][s].status # "HELD" => Settled(al, S)[r][s] = al[r][s]
                 /\ Settled(al, S)[r][s].status = "HELD" =>
                       al[r][s].status = "HELD" /\ (s \notin S \/ share'[s].status = "INVITED")
  BY ZenonT(40) DEF Settled

\* What a new ask and an answer make of a share.
LEMMA AskedIs ==
    ASSUME NEW s, NEW bps, NEW address
    PROVE  LET a == Asked(s, bps, address) IN
           /\ DOMAIN a = {"status", "bps", "address", "account", "link", "invite", "attempts"}
           /\ a.status = "INVITED" /\ a.link = None
  BY DEF Asked

LEMMA AnsweredIs ==
    ASSUME Shape, NEW s \in Share, NEW status, NEW account
    PROVE  LET a == Answered(s, status, account) IN
           /\ DOMAIN a = {"status", "bps", "address", "account", "link", "invite", "attempts"}
           /\ a.status = status /\ a.link = None /\ a.bps = share[s].bps
  BY DEF Answered, Shape

\* A share that a posting has read is locked.
LEMMA ReadIsLocked ==
    ASSUME NEW r \in Report, posting[r] # None, NEW s \in DOMAIN posting[r]
    PROVE  Locked(s)
  BY DEF Locked

-----------------------------------------------------------------------------
\* Nothing is posted, held or linked at the start.
THEOREM InitSplits == Init => SplitsInv
  <1> SUFFICES ASSUME Init PROVE SplitsInv
    OBVIOUS
  <1>1. Shape
    BY DEF Init, Shape, NoShare, Idle, NoReport, NoCut
  <1>2. ReadStaysTrue /\ MailSaysShare
    BY DEF Init, ReadStaysTrue, MailSaysShare, Idle
  <1>3. PostedHasStatus
    BY DEF Init, PostedHasStatus, NoReport, NoCut
  <1>4. HeldIsUnanswered /\ LinkSaysShare
    BY DEF Init, HeldIsUnanswered, LinkSaysShare, NoCut
  <1>5. QED
    BY <1>1, <1>2, <1>3, <1>4 DEF SplitsInv

-----------------------------------------------------------------------------
(* One lemma per action *)

\* Saving the sheet.
LEMMA SaveStep ==
    ASSUME SplitsInv, SplitsAssumption, NEW plan, Save(plan)
    PROVE  SplitsInv'
  <1> USE DEF SplitsInv
  <1>1. /\ Shape /\ ReadStaysTrue /\ MailSaysShare
        /\ PostedHasStatus /\ HeldIsUnanswered /\ LinkSaysShare
    OBVIOUS
  <1>2. /\ DOMAIN share' = Share
        /\ \A s \in Share :
              \/ /\ s \in Reasked(plan)
                 /\ share'[s] = Asked(s, plan[s].bps, AddressIn(plan, s))
              \/ /\ s \notin Reasked(plan) /\ s \in Dropped(plan)
                 /\ share'[s] = Answered(s, "REMOVED", None)
              \/ /\ s \notin Reasked(plan) /\ s \notin Dropped(plan)
                 /\ share'[s] = share[s]
    BY DEF Save
  <1>3. \A s \in Share :
           /\ DOMAIN share'[s] = {"status", "bps", "address", "account", "link", "invite", "attempts"}
           /\ \/ share'[s].link = None
              \/ share'[s] = share[s]
           /\ \/ share'[s].status = "INVITED"
              \/ s \in Dropped(plan)
              \/ share'[s] = share[s]
    <2> TAKE s \in Share
    <2>1. CASE s \in Reasked(plan)
      BY <1>2, <2>1, AskedIs
    <2>2. CASE s \notin Reasked(plan) /\ s \in Dropped(plan)
      BY <1>1, <1>2, <2>2, AnsweredIs
    <2>3. CASE s \notin Reasked(plan) /\ s \notin Dropped(plan)
      BY <1>1, <1>2, <2>3 DEF Shape
    <2>4. QED
      BY <2>1, <2>2, <2>3
  <1>4. /\ alloc' = Settled(alloc, Dropped(plan))
        /\ UNCHANGED <<lease, report, posting>>
        /\ inbox' = [s \in Share |-> IF s \in Reasked(plan) \cup Dropped(plan) THEN None ELSE inbox[s]]
        /\ \A s \in Share : ~Locked(s)
    BY DEF Save, Settle
  <1>5. /\ DOMAIN alloc' = Report
        /\ \A r \in Report : DOMAIN alloc'[r] = Share
        /\ \A r \in Report, s \in Share :
              /\ DOMAIN alloc'[r][s] = {"status", "amount", "to"}
              /\ alloc[r][s].status # "HELD" => alloc'[r][s] = alloc[r][s]
              /\ alloc'[r][s].status = "HELD" =>
                    alloc[r][s].status = "HELD" /\ (s \notin Dropped(plan) \/ share'[s].status = "INVITED")
    BY <1>1, <1>4, SettledIs DEF Shape
  <1>6. Shape'
    BY <1>1, <1>2, <1>3, <1>4, <1>5 DEF Shape
  <1>7. ReadStaysTrue'
    BY <1>1, <1>4, ReadIsLocked DEF ReadStaysTrue
  <1>8. MailSaysShare'
    <2> SUFFICES ASSUME NEW d \in Sender, lease[d].pc = "mail", share'[lease[d].share].link = d
                 PROVE  lease[d].bps = share'[lease[d].share].bps
      BY <1>4 DEF MailSaysShare
    <2>1. lease[d].share \in Share /\ d # None
      BY <1>1 DEF Shape, SplitsAssumption
    <2>2. share'[lease[d].share] = share[lease[d].share]
      BY <1>3, <2>1
    <2>3. QED
      BY <1>1, <2>2 DEF MailSaysShare
  <1>9. PostedHasStatus'
    BY <1>1, <1>4, <1>5 DEF PostedHasStatus
  <1>10. HeldIsUnanswered'
    <2> SUFFICES ASSUME NEW r \in Report, NEW s \in Share, alloc'[r][s].status = "HELD"
                 PROVE  share'[s].status = "INVITED"
      BY DEF HeldIsUnanswered
    <2>1. share[s].status = "INVITED"
      BY <1>1, <1>5 DEF HeldIsUnanswered
    <2>2. QED
      BY <1>3, <1>5, <2>1
  <1>11. LinkSaysShare'
    <2> SUFFICES ASSUME NEW s \in Share, inbox'[s] # None
                 PROVE  inbox'[s].bps = share'[s].bps
      BY DEF LinkSaysShare
    <2>1. inbox'[s] = inbox[s] /\ share'[s] = share[s]
      BY <1>2, <1>4
    <2>2. QED
      BY <1>1, <2>1 DEF LinkSaysShare
  <1>12. QED
    BY <1>6, <1>7, <1>8, <1>9, <1>10, <1>11

\* Accepting and declining.
LEMMA AnswerStep ==
    ASSUME SplitsInv, SplitsAssumption, NEW s \in Share, NEW status, NEW account,
           status # "INVITED", Answer(s, status, account)
    PROVE  SplitsInv'
  <1> USE DEF SplitsInv
  <1>1. /\ Shape /\ ReadStaysTrue /\ MailSaysShare
        /\ PostedHasStatus /\ HeldIsUnanswered /\ LinkSaysShare
    OBVIOUS
  <1>2. /\ DOMAIN share' = Share
        /\ share'[s] = Answered(s, status, account)
        /\ \A x \in Share \ {s} : share'[x] = share[x]
        /\ DOMAIN inbox' = Share /\ inbox'[s] = None
        /\ \A x \in Share \ {s} : inbox'[x] = inbox[x]
        /\ UNCHANGED <<lease, report, posting>>
        /\ ~Locked(s)
    BY <1>1 DEF Answer, Shape
  <1>3. /\ DOMAIN share'[s] = {"status", "bps", "address", "account", "link", "invite", "attempts"}
        /\ share'[s].status = status /\ share'[s].link = None /\ share'[s].bps = share[s].bps
    BY <1>1, <1>2, AnsweredIs
  <1>4. /\ DOMAIN alloc' = Report
        /\ \A r \in Report : DOMAIN alloc'[r] = Share
        /\ \A r \in Report, x \in Share :
              /\ DOMAIN alloc'[r][x] = {"status", "amount", "to"}
              /\ alloc[r][x].status # "HELD" => alloc'[r][x] = alloc[r][x]
              /\ alloc'[r][x].status = "HELD" =>
                    alloc[r][x].status = "HELD" /\ (x # s \/ share'[x].status = "INVITED")
    BY <1>1, SettledIs DEF Shape, Answer, Settle
  <1>5. Shape'
    <2>1. \A x \in Share :
             DOMAIN share'[x] = {"status", "bps", "address", "account", "link", "invite", "attempts"}
      BY <1>1, <1>2, <1>3 DEF Shape
    <2>2. QED
      BY <1>1, <1>2, <1>4, <2>1 DEF Shape
  <1>6. ReadStaysTrue'
    <2> SUFFICES ASSUME NEW r \in Report, posting[r] # None, NEW x \in DOMAIN posting[r]
                 PROVE  /\ x \in Share
                        /\ posting[r][x].status = share'[x].status
                        /\ share'[x].status \in {"INVITED", "ACCEPTED"}
      BY <1>2 DEF ReadStaysTrue
    <2>1. Locked(x)
      BY ReadIsLocked
    <2>2. x # s
      BY <1>2, <2>1
    <2>3. QED
      BY <1>1, <1>2, <2>2 DEF ReadStaysTrue
  <1>7. MailSaysShare'
    <2> SUFFICES ASSUME NEW d \in Sender, lease[d].pc = "mail", share'[lease[d].share].link = d
                 PROVE  lease[d].bps = share'[lease[d].share].bps
      BY <1>2 DEF MailSaysShare
    <2>1. lease[d].share \in Share /\ d # None
      BY <1>1 DEF Shape, SplitsAssumption
    <2>2. lease[d].share # s
      BY <1>3, <2>1
    <2>3. QED
      BY <1>1, <1>2, <2>1, <2>2 DEF MailSaysShare
  <1>8. PostedHasStatus'
    BY <1>1, <1>2, <1>4 DEF PostedHasStatus
  <1>9. HeldIsUnanswered'
    <2> SUFFICES ASSUME NEW r \in Report, NEW x \in Share, alloc'[r][x].status = "HELD"
                 PROVE  share'[x].status = "INVITED"
      BY DEF HeldIsUnanswered
    <2>1. share[x].status = "INVITED" /\ (x # s \/ share'[x].status = "INVITED")
      BY <1>1, <1>4 DEF HeldIsUnanswered
    <2>2. QED
      BY <1>2, <2>1
  <1>10. LinkSaysShare'
    BY <1>1, <1>2, <1>3 DEF LinkSaysShare, Shape
  <1>11. QED
    BY <1>5, <1>6, <1>7, <1>8, <1>9, <1>10

\* A step that leaves the money alone and changes of the shares neither a
\* status nor a percentage nor a link keeps the invariant, if what it does to
\* reports and dispatches does.
LEMMA QuietStep ==
    ASSUME SplitsInv, Shape', MailSaysShare',
           \A s \in Share : /\ share'[s].status = share[s].status
                            /\ share'[s].bps = share[s].bps
                            /\ inbox'[s] \in {inbox[s], None},
           UNCHANGED <<report, posting, alloc>>
    PROVE  SplitsInv'
  <1>1. /\ Shape /\ ReadStaysTrue /\ MailSaysShare
        /\ PostedHasStatus /\ HeldIsUnanswered /\ LinkSaysShare
    BY DEF SplitsInv
  <1>2. ReadStaysTrue'
    BY <1>1 DEF ReadStaysTrue
  <1>3. PostedHasStatus'
    BY <1>1 DEF PostedHasStatus
  <1>4. HeldIsUnanswered'
    BY <1>1 DEF HeldIsUnanswered
  <1>5. LinkSaysShare'
    BY <1>1 DEF LinkSaysShare
  <1>6. QED
    BY <1>2, <1>3, <1>4, <1>5 DEF SplitsInv

\* Resending an invite.
LEMMA ResendStep ==
    ASSUME SplitsInv, NEW s \in Share, Resend(s)
    PROVE  SplitsInv'
  <1>1. Shape /\ MailSaysShare
    BY DEF SplitsInv
  <1>2. /\ DOMAIN share' = Share
        /\ \A x \in Share : /\ DOMAIN share'[x] = DOMAIN share[x]
                             /\ share'[x].status = share[x].status
                             /\ share'[x].bps = share[x].bps
                             /\ share'[x].link = share[x].link
        /\ UNCHANGED <<inbox, lease, report, posting, alloc>>
    BY <1>1 DEF Resend, Shape
  <1>3. Shape'
    BY <1>1, <1>2 DEF Shape
  <1>4. MailSaysShare'
    BY <1>1, <1>2 DEF MailSaysShare, Shape
  <1>5. QED
    BY <1>2, <1>3, <1>4, QuietStep

\* Leasing an invite.
LEMMA LeaseStep ==
    ASSUME SplitsInv, NEW d \in Sender, NEW s \in Share, Lease(d, s)
    PROVE  SplitsInv'
  <1>1. Shape /\ MailSaysShare
    BY DEF SplitsInv
  <1>2. /\ DOMAIN share' = Share
        /\ \A x \in Share : /\ DOMAIN share'[x] = DOMAIN share[x]
                             /\ share'[x].status = share[x].status
                             /\ share'[x].bps = share[x].bps
                             /\ share'[x].link = share[x].link
        /\ DOMAIN lease' = Sender
        /\ DOMAIN lease'[d] = {"pc", "share", "attempts", "bps", "address"}
        /\ lease'[d].pc = "link" /\ lease'[d].share = s
        /\ \A e \in Sender \ {d} : lease'[e] = lease[e]
        /\ UNCHANGED <<inbox, report, posting, alloc>>
    BY <1>1 DEF Lease, Shape
  <1>3. Shape'
    BY <1>1, <1>2 DEF Shape
  <1>4. MailSaysShare'
    BY <1>1, <1>2 DEF MailSaysShare, Shape
  <1>5. QED
    BY <1>2, <1>3, <1>4, QuietStep

\* The two ends of a dispatch that change no share's link: the lease of d ends
\* or moves on to a state other than the mail.
LEMMA LeaseEnds ==
    ASSUME SplitsInv, NEW d \in Sender, NEW l,
           lease' = [lease EXCEPT ![d] = l],
           DOMAIN l = {"pc", "share", "attempts", "bps", "address"},
           l.pc # "mail", l.pc # "idle" => l.share \in Share,
           DOMAIN share' = Share,
           \A x \in Share : /\ DOMAIN share'[x] = DOMAIN share[x]
                            /\ share'[x].status = share[x].status
                            /\ share'[x].bps = share[x].bps
                            /\ share'[x].link = share[x].link,
           UNCHANGED <<inbox, report, posting, alloc>>
    PROVE  SplitsInv'
  <1>1. Shape /\ MailSaysShare
    BY DEF SplitsInv
  <1>2. /\ DOMAIN lease' = Sender /\ lease'[d] = l
        /\ \A e \in Sender \ {d} : lease'[e] = lease[e]
    BY <1>1 DEF Shape
  <1>3. Shape'
    BY <1>1, <1>2 DEF Shape
  <1>4. MailSaysShare'
    BY <1>1, <1>2 DEF MailSaysShare, Shape
  <1>5. QED
    BY <1>3, <1>4, QuietStep

\* Making a new link: only its maker can mail it.
LEMMA MakeLinkStep ==
    ASSUME SplitsInv, NEW d \in Sender, MakeLink(d)
    PROVE  SplitsInv'
  <1> DEFINE s == lease[d].share
  <1>1. Shape /\ MailSaysShare /\ s \in Share
    BY DEF SplitsInv, Shape, MakeLink
  <1>2. CASE StillLeased(d)
    <2>1. /\ DOMAIN share' = Share
          /\ \A x \in Share : /\ DOMAIN share'[x] = DOMAIN share[x]
                               /\ share'[x].status = share[x].status
                               /\ share'[x].bps = share[x].bps
          /\ share'[s].link = d
          /\ \A x \in Share \ {s} : share'[x].link = share[x].link
      BY <1>1, <1>2 DEF MakeLink, Shape
    <2>2. /\ DOMAIN inbox' = Share /\ \A x \in Share : inbox'[x] \in {inbox[x], None}
          /\ DOMAIN lease' = Sender
          /\ DOMAIN lease'[d] = {"pc", "share", "attempts", "bps", "address"}
          /\ lease'[d].pc = "mail" /\ lease'[d].share = s /\ lease'[d].bps = lease[d].bps
          /\ \A e \in Sender \ {d} : lease'[e] = lease[e]
          /\ UNCHANGED <<report, posting, alloc>>
      BY <1>1, <1>2 DEF MakeLink, Shape
    <2>3. lease[d].bps = share[s].bps
      BY <1>2 DEF StillLeased
    <2>4. Shape'
      BY <1>1, <2>1, <2>2 DEF Shape
    <2>5. MailSaysShare'
      <3> SUFFICES ASSUME NEW e \in Sender, lease'[e].pc = "mail", share'[lease'[e].share].link = e
                   PROVE  lease'[e].bps = share'[lease'[e].share].bps
        BY DEF MailSaysShare
      <3>1. CASE e = d
        BY <1>1, <2>1, <2>2, <2>3, <3>1
      <3>2. CASE e # d
        <4>1. lease'[e] = lease[e] /\ lease[e].share \in Share
          BY <1>1, <2>2, <3>2 DEF Shape
        <4>2. lease[e].share # s
          BY <2>1, <3>2, <4>1
        <4>3. QED
          BY <1>1, <2>1, <4>1, <4>2 DEF MailSaysShare
      <3>3. QED
        BY <3>1, <3>2
    <2>6. QED
      BY <2>1, <2>2, <2>4, <2>5, QuietStep
  <1>3. CASE ~StillLeased(d)
    BY <1>1, <1>3, LeaseEnds DEF MakeLink, Idle, Shape
  <1>4. QED
    BY <1>2, <1>3

\* The mail server takes the mail: who reads it reads the percentage.
LEMMA MailStep ==
    ASSUME SplitsInv, NEW d \in Sender, NEW delivered \in BOOLEAN,
           NEW result \in {"SENT", "FAILED", "RETRY"}, Mail(d, delivered, result)
    PROVE  SplitsInv'
  <1> DEFINE s == lease[d].share
  <1>1. /\ Shape /\ ReadStaysTrue /\ MailSaysShare
        /\ PostedHasStatus /\ HeldIsUnanswered /\ LinkSaysShare
    BY DEF SplitsInv
  <1>2. s \in Share
    BY <1>1 DEF Shape, Mail
  <1>3. /\ UNCHANGED <<share, report, posting, alloc>>
        /\ DOMAIN lease' = Sender
        /\ DOMAIN lease'[d] = {"pc", "share", "attempts", "bps", "address"}
        /\ lease'[d].pc # "mail" /\ (lease'[d].pc # "idle" => lease'[d].share = s)
        /\ \A e \in Sender \ {d} : lease'[e] = lease[e]
    BY <1>1 DEF Mail, Idle, Shape
  <1>4. /\ DOMAIN inbox' = Share
        /\ \A x \in Share \ {s} : inbox'[x] = inbox[x]
        /\ inbox'[s] # inbox[s] => share[s].link = d /\ inbox'[s].bps = lease[d].bps
    <2>1. CASE delivered /\ share[s].link = d
      BY <1>1, <1>2, <2>1 DEF Mail, Shape
    <2>2. CASE ~(delivered /\ share[s].link = d)
      BY <1>1, <2>2 DEF Mail, Shape
    <2>3. QED
      BY <2>1, <2>2
  <1>5. Shape'
    BY <1>1, <1>2, <1>3, <1>4 DEF Shape
  <1>6. MailSaysShare'
    BY <1>1, <1>3 DEF MailSaysShare
  <1>7. LinkSaysShare'
    <2> SUFFICES ASSUME NEW x \in Share, inbox'[x] # None
                 PROVE  inbox'[x].bps = share[x].bps
      BY <1>3 DEF LinkSaysShare
    <2>1. CASE inbox'[x] = inbox[x]
      BY <1>1, <2>1 DEF LinkSaysShare
    <2>2. CASE inbox'[x] # inbox[x]
      <3>1. x = s /\ share[s].link = d /\ inbox'[s].bps = lease[d].bps
        BY <1>4, <2>2
      <3>2. lease[d].pc = "mail"
        BY DEF Mail
      <3>3. QED
        BY <1>1, <3>1, <3>2 DEF MailSaysShare
    <2>3. QED
      BY <2>1, <2>2
  <1>8. ReadStaysTrue' /\ PostedHasStatus' /\ HeldIsUnanswered'
    BY <1>1, <1>3 DEF ReadStaysTrue, PostedHasStatus, HeldIsUnanswered
  <1>9. QED
    BY <1>5, <1>6, <1>7, <1>8 DEF SplitsInv

\* Recording what became of a mail, and a dispatch that stops.
LEMMA RecordStep ==
    ASSUME SplitsInv, NEW d \in Sender, Record(d) \/ Crash(d)
    PROVE  SplitsInv'
  <1>1. Shape
    BY DEF SplitsInv
  <1>2. lease' = [lease EXCEPT ![d] = Idle] /\ UNCHANGED <<inbox, report, posting, alloc>>
    BY DEF Record, Crash
  <1>3. /\ DOMAIN share' = Share
        /\ \A x \in Share : /\ DOMAIN share'[x] = DOMAIN share[x]
                             /\ share'[x].status = share[x].status
                             /\ share'[x].bps = share[x].bps
                             /\ share'[x].link = share[x].link
    BY <1>1 DEF Record, Crash, Shape
  <1>4. /\ DOMAIN Idle = {"pc", "share", "attempts", "bps", "address"}
        /\ Idle.pc # "mail" /\ (Idle.pc # "idle" => Idle.share \in Share)
    BY DEF Idle
  <1>5. QED
    BY <1>2, <1>3, <1>4, LeaseEnds

\* A step of report r that neither posts it nor changes its status while it is
\* being posted.
ReportOnly(r) ==
    /\ DOMAIN report' = Report
    /\ \A q \in Report : /\ DOMAIN report'[q] = DOMAIN report[q]
                         /\ report'[q].posted = report[q].posted
                         /\ q # r => report'[q].status = report[q].status
    /\ \/ report'[r].status = report[r].status
       \/ /\ report[r].status # "POSTED" /\ report'[r].status # "POSTED"
          /\ posting[r] = None \/ report[r].status = "ABSENT"
    /\ UNCHANGED <<share, inbox, lease, posting, alloc>>

LEMMA ReportStep ==
    ASSUME SplitsInv, NEW r \in Report, ReportOnly(r)
    PROVE  SplitsInv'
  <1>1. /\ Shape /\ ReadStaysTrue /\ MailSaysShare
        /\ PostedHasStatus /\ HeldIsUnanswered /\ LinkSaysShare
    BY DEF SplitsInv
  <1>2. Shape'
    BY <1>1 DEF Shape, ReportOnly
  <1>3. PostedHasStatus'
    BY <1>1 DEF PostedHasStatus, ReportOnly
  <1>4. ReadStaysTrue' /\ MailSaysShare' /\ HeldIsUnanswered' /\ LinkSaysShare'
    BY <1>1 DEF ReadStaysTrue, MailSaysShare, HeldIsUnanswered, LinkSaysShare, ReportOnly
  <1>5. QED
    BY <1>2, <1>3, <1>4 DEF SplitsInv

\* Ingesting and matching a report, and receiving money for it, are such steps.
LEMMA IngestStep ==
    ASSUME SplitsInv, NEW r \in Report, NEW gross \in Grosses, Ingest(r, gross)
    PROVE  SplitsInv'
  <1>1. ReportOnly(r)
    BY DEF ReportOnly, Ingest, SplitsInv, Shape
  <1>2. QED
    BY <1>1, ReportStep

LEMMA MatchStep ==
    ASSUME SplitsInv, NEW r \in Report, NEW all \in BOOLEAN, MatchReport(r, all)
    PROVE  SplitsInv'
  <1>1. ReportOnly(r)
    BY DEF ReportOnly, MatchReport, Matchable, SplitsInv, Shape
  <1>2. QED
    BY <1>1, ReportStep

LEMMA ReceiptStep ==
    ASSUME SplitsInv, NEW r \in Report, NEW amount \in Amounts, RecordReceipt(r, amount)
    PROVE  SplitsInv'
  <1>1. ReportOnly(r)
    BY DEF ReportOnly, RecordReceipt, SplitsInv, Shape
  <1>2. QED
    BY <1>1, ReportStep

\* A posting begins, or is rolled back.
LEMMA BeginAbortStep ==
    ASSUME SplitsInv, NEW r \in Report, BeginPost(r) \/ AbortPost(r)
    PROVE  SplitsInv'
  <1>1. /\ Shape /\ ReadStaysTrue /\ MailSaysShare
        /\ PostedHasStatus /\ HeldIsUnanswered /\ LinkSaysShare
    BY DEF SplitsInv
  <1>2. UNCHANGED <<share, inbox, lease, report, alloc>>
    BY DEF BeginPost, AbortPost
  <1>3. /\ DOMAIN posting' = Report
        /\ \A q \in Report \ {r} : posting'[q] = posting[q]
        /\ \/ posting'[r] = None
           \/ /\ report[r].status = "MATCHED"
              /\ posting'[r] = [s \in Sharing(r) |-> [bps |-> share[s].bps, status |-> share[s].status]]
    BY <1>1 DEF BeginPost, AbortPost, Shape
  <1>4. Shape' /\ PostedHasStatus'
    BY <1>1, <1>2, <1>3 DEF Shape, PostedHasStatus
  <1>5. ReadStaysTrue'
    <2>1. \A s \in Sharing(r) : s \in Share /\ share[s].status \in {"INVITED", "ACCEPTED"}
      BY DEF Sharing
    <2>2. QED
      BY <1>1, <1>2, <1>3, <2>1 DEF ReadStaysTrue
  <1>6. MailSaysShare' /\ HeldIsUnanswered' /\ LinkSaysShare'
    BY <1>1, <1>2 DEF MailSaysShare, HeldIsUnanswered, LinkSaysShare
  <1>7. QED
    BY <1>4, <1>5, <1>6 DEF SplitsInv

\* A posting is booked: the cuts of collaborators who accepted are settled in
\* the same transaction, so only those of collaborators still asked are held.
LEMMA CommitStep ==
    ASSUME SplitsInv, NEW r \in Report, CommitPost(r)
    PROVE  /\ SplitsInv'
           /\ report[r].status = "MATCHED"
           /\ \A q \in Report \ {r}, s \in Share :
                 alloc[q][s].status # "HELD" => alloc'[q][s] = alloc[q][s]
  <1> DEFINE cuts == posting[r]
             won == Apportion(report[r].received, report[r].gross)
             Amount(s) == Cut(won[TrackOf[s]], cuts[s].bps)
             paying == {s \in DOMAIN cuts : cuts[s].status = "ACCEPTED" /\ Amount(s) > 0}
             new == [alloc EXCEPT ![r] =
                       [s \in Share |-> IF s \in DOMAIN cuts /\ Amount(s) > 0
                                        THEN [status |-> "HELD", amount |-> Amount(s), to |-> None]
                                        ELSE NoCut]]
  <1>1. /\ Shape /\ ReadStaysTrue /\ MailSaysShare
        /\ PostedHasStatus /\ HeldIsUnanswered /\ LinkSaysShare
    BY DEF SplitsInv
  <1>2. /\ cuts # None
        /\ alloc' = Settled(new, paying)
        /\ UNCHANGED <<share, asks, inbox, lease>>
        /\ posting' = [posting EXCEPT ![r] = None]
        /\ report' = [report EXCEPT ![r].status = "POSTED", ![r].posted = @ + report[r].received]
    BY DEF CommitPost
  <1> HIDE DEF Amount, paying
  <1>3. /\ DOMAIN new = Report
        /\ \A q \in Report : DOMAIN new[q] = Share
        /\ \A q \in Report, s \in Share : DOMAIN new[q][s] = {"status", "amount", "to"}
        /\ \A q \in Report \ {r} : new[q] = alloc[q]
        /\ \A s \in Share : new[r][s].status = "HELD" => s \in DOMAIN cuts /\ Amount(s) > 0
    BY <1>1 DEF Shape, NoCut
  <1> HIDE DEF new
  <1>4. /\ DOMAIN alloc' = Report
        /\ \A q \in Report : DOMAIN alloc'[q] = Share
        /\ \A q \in Report, s \in Share :
              /\ DOMAIN alloc'[q][s] = {"status", "amount", "to"}
              /\ new[q][s].status # "HELD" => alloc'[q][s] = new[q][s]
              /\ alloc'[q][s].status = "HELD" =>
                    new[q][s].status = "HELD" /\ (s \notin paying \/ share'[s].status = "INVITED")
    BY <1>2, <1>3, SettledIs
  <1>5. /\ DOMAIN report' = Report
        /\ \A q \in Report : DOMAIN report'[q] = DOMAIN report[q]
        /\ \A q \in Report \ {r} : report'[q] = report[q]
        /\ report'[r].status = "POSTED"
    BY <1>1, <1>2 DEF Shape
  <1>6. DOMAIN posting' = Report /\ posting'[r] = None /\ \A q \in Report \ {r} : posting'[q] = posting[q]
    BY <1>1, <1>2 DEF Shape
  <1>7. report[r].status = "MATCHED"
    BY <1>1, <1>2 DEF PostedHasStatus
  <1>8. \A q \in Report \ {r}, s \in Share :
           alloc[q][s].status # "HELD" => alloc'[q][s] = alloc[q][s]
    BY <1>3, <1>4
  <1>9. Shape'
    BY <1>1, <1>2, <1>4, <1>5, <1>6 DEF Shape
  <1>10. ReadStaysTrue'
    BY <1>1, <1>2, <1>6 DEF ReadStaysTrue
  <1>11. PostedHasStatus'
    <2> SUFFICES ASSUME NEW q \in Report
                 PROVE  /\ posting'[q] # None => report'[q].status = "MATCHED"
                        /\ report'[q].posted > 0 => report'[q].status = "POSTED"
                        /\ report'[q].status # "POSTED" => \A s \in Share : alloc'[q][s].status = "NONE"
      BY DEF PostedHasStatus
    <2>1. CASE q = r
      BY <1>5, <1>6, <2>1
    <2>2. CASE q # r
      BY <1>1, <1>5, <1>6, <1>8, <2>2 DEF PostedHasStatus
    <2>3. QED
      BY <2>1, <2>2
  <1>12. HeldIsUnanswered'
    <2> SUFFICES ASSUME NEW q \in Report, NEW s \in Share, alloc'[q][s].status = "HELD"
                 PROVE  share[s].status = "INVITED"
      BY <1>2 DEF HeldIsUnanswered
    <2>1. CASE q = r
      <3>1. s \in DOMAIN cuts /\ Amount(s) > 0
        BY <1>3, <1>4, <2>1
      <3>2. cuts[s].status = share[s].status /\ share[s].status \in {"INVITED", "ACCEPTED"}
        BY <1>1, <1>2, <3>1 DEF ReadStaysTrue
      <3>3. s \notin paying \/ share[s].status = "INVITED"
        BY <1>2, <1>4
      <3>4. QED
        BY <3>1, <3>2, <3>3 DEF paying
    <2>2. CASE q # r
      BY <1>1, <1>3, <1>4, <2>2 DEF HeldIsUnanswered
    <2>3. QED
      BY <2>1, <2>2
  <1>13. MailSaysShare' /\ LinkSaysShare'
    BY <1>1, <1>2 DEF MailSaysShare, LinkSaysShare
  <1>14. QED
    BY <1>7, <1>8, <1>9, <1>10, <1>11, <1>12, <1>13 DEF SplitsInv

-----------------------------------------------------------------------------
(* Every step *)

\* Every step keeps the invariant.
THEOREM NextSplits == SplitsInv /\ [Next]_vars => SplitsInv'
  <1> SUFFICES ASSUME SplitsInv, [Next]_vars PROVE SplitsInv'
    OBVIOUS
  <1> USE SplitsAssumption
  <1>1. ASSUME NEW plan, Save(plan) PROVE SplitsInv'
    BY <1>1, SaveStep
  <1>2. ASSUME NEW s \in Share, Resend(s) PROVE SplitsInv'
    BY <1>2, ResendStep
  <1>3. ASSUME NEW s \in Share, Decline(s) PROVE SplitsInv'
    BY <1>3, AnswerStep DEF Decline
  <1>4. ASSUME NEW s \in Share, NEW a \in Account, Accept(s, a) PROVE SplitsInv'
    BY <1>4, AnswerStep DEF Accept
  <1>5. ASSUME NEW d \in Sender, NEW s \in Share, Lease(d, s) PROVE SplitsInv'
    BY <1>5, LeaseStep
  <1>6. ASSUME NEW d \in Sender, MakeLink(d) PROVE SplitsInv'
    BY <1>6, MakeLinkStep
  <1>7. ASSUME NEW d \in Sender, Record(d) \/ Crash(d) PROVE SplitsInv'
    BY <1>7, RecordStep
  <1>8. ASSUME NEW d \in Sender, NEW delivered \in BOOLEAN,
               NEW result \in {"SENT", "FAILED", "RETRY"}, Mail(d, delivered, result)
        PROVE  SplitsInv'
    BY <1>8, MailStep
  <1>9. ASSUME NEW r \in Report, NEW gross \in Grosses, Ingest(r, gross) PROVE SplitsInv'
    BY <1>9, IngestStep
  <1>10. ASSUME NEW r \in Report, NEW all \in BOOLEAN, MatchReport(r, all) PROVE SplitsInv'
    BY <1>10, MatchStep
  <1>11. ASSUME NEW r \in Report, NEW amount \in Amounts, RecordReceipt(r, amount) PROVE SplitsInv'
    BY <1>11, ReceiptStep
  <1>12. ASSUME NEW r \in Report, BeginPost(r) \/ AbortPost(r) PROVE SplitsInv'
    BY <1>12, BeginAbortStep
  <1>13. ASSUME NEW r \in Report, CommitPost(r) PROVE SplitsInv'
    BY <1>13, CommitStep
  <1>14. CASE UNCHANGED vars
    BY <1>14 DEF vars, SplitsInv, Shape, ReadStaysTrue, MailSaysShare, PostedHasStatus,
                 HeldIsUnanswered, LinkSaysShare
  <1>15. QED
    BY <1>1, <1>2, <1>3, <1>4, <1>5, <1>6, <1>7, <1>8, <1>9, <1>10, <1>11, <1>12, <1>13, <1>14
    DEF Next

\* Money is held only for an answer that is still open, however many reports
\* are posted while the sheet changes and collaborators answer.
THEOREM HeldOnlyForOpenAnswers == Spec => []HeldIsUnanswered
  <1>1. SplitsInv => HeldIsUnanswered
    BY DEF SplitsInv
  <1>2. QED
    BY InitSplits, NextSplits, <1>1, PTL DEF Spec

\* A valid link says the percentage the share has, however many processes mail
\* invites.
THEOREM LinksSayTheShare == Spec => []LinkSaysShare
  <1>1. SplitsInv => LinkSaysShare
    BY DEF SplitsInv
  <1>2. QED
    BY InitSplits, NextSplits, <1>1, PTL DEF Spec

-----------------------------------------------------------------------------
(* What no step does *)

\* An amount that was settled stays as it is.
LEMMA SettledStays ==
    ASSUME SplitsInv, [Next]_vars, NEW r \in Report, NEW s \in Share,
           alloc[r][s].status = "TRANSFERRED"
    PROVE  alloc'[r][s] = alloc[r][s]
  <1>1. Shape /\ PostedHasStatus
    BY DEF SplitsInv
  <1>2. ASSUME NEW S, alloc' = Settled(alloc, S) PROVE alloc'[r][s] = alloc[r][s]
    BY <1>1, <1>2, SettledIs DEF Shape
  <1>3. ASSUME NEW plan, Save(plan) PROVE alloc'[r][s] = alloc[r][s]
    BY <1>2, <1>3 DEF Save, Settle
  <1>4. ASSUME NEW x \in Share, NEW status, NEW account, Answer(x, status, account)
        PROVE  alloc'[r][s] = alloc[r][s]
    BY <1>2, <1>4 DEF Answer, Settle
  <1>5. ASSUME NEW q \in Report, CommitPost(q) PROVE alloc'[r][s] = alloc[r][s]
    <2>1. report[q].status = "MATCHED"
      BY <1>5, CommitStep
    <2>2. q # r
      BY <1>1, <2>1 DEF PostedHasStatus
    <2>3. QED
      BY <1>5, <2>2, CommitStep
  <1>6. CASE UNCHANGED alloc
    BY <1>6
  <1>7. QED
    BY <1>3, <1>4, <1>5, <1>6
    DEF Next, vars, Accept, Decline, Resend, Lease, MakeLink, Record, Crash, Mail, Ingest,
        MatchReport, RecordReceipt, BeginPost, AbortPost

\* What was credited to a collaborator stays theirs.
THEOREM CreditsStay == Spec => CreditedStays
  <1>1. SplitsInv /\ [Next]_vars =>
           [\A r \in Report, s \in Share :
               alloc[r][s].status = "TRANSFERRED" => alloc'[r][s] = alloc[r][s]]_vars
    BY SettledStays
  <1>2. QED
    BY InitSplits, NextSplits, <1>1, PTL DEF Spec, CreditedStays

\* What was posted for a report stays as it is.
LEMMA PostedStays ==
    ASSUME SplitsInv, [Next]_vars, NEW r \in Report, report[r].posted > 0
    PROVE  report'[r].posted = report[r].posted
  <1>1. Shape /\ PostedHasStatus /\ report[r].status = "POSTED"
    BY DEF SplitsInv, PostedHasStatus
  <1>2. ASSUME NEW q \in Report, CommitPost(q) PROVE report'[r].posted = report[r].posted
    <2>1. q # r
      BY <1>1, <1>2, CommitStep
    <2>2. QED
      BY <1>1, <1>2, <2>1 DEF CommitPost, Shape
  <1>3. ASSUME NEW q \in Report, ReportOnly(q) PROVE report'[r].posted = report[r].posted
    BY <1>3 DEF ReportOnly
  <1>4. ASSUME NEW q \in Report, NEW gross \in Grosses, Ingest(q, gross) PROVE ReportOnly(q)
    BY <1>1, <1>4 DEF ReportOnly, Ingest, Shape
  <1>5. ASSUME NEW q \in Report, NEW all \in BOOLEAN, MatchReport(q, all) PROVE ReportOnly(q)
    BY <1>1, <1>5 DEF ReportOnly, MatchReport, Matchable, Shape
  <1>6. ASSUME NEW q \in Report, NEW amount \in Amounts, RecordReceipt(q, amount) PROVE ReportOnly(q)
    BY <1>1, <1>6 DEF ReportOnly, RecordReceipt, Shape
  <1>7. CASE UNCHANGED report
    BY <1>7
  <1>8. QED
    BY <1>2, <1>3, <1>4, <1>5, <1>6, <1>7
    DEF Next, vars, Save, Accept, Decline, Answer, Resend, Lease, MakeLink, Record, Crash, Mail,
        BeginPost, AbortPost

\* A report is posted once.
THEOREM ReportsArePostedOnce == Spec => PostedOnce
  <1>1. SplitsInv /\ [Next]_vars =>
           [\A r \in Report : report[r].posted > 0 => report'[r].posted = report[r].posted]_vars
    BY PostedStays
  <1>2. QED
    BY InitSplits, NextSplits, <1>1, PTL DEF Spec, PostedOnce

-----------------------------------------------------------------------------
(* The arithmetic: the won that rounding leaves go to the first tracks of an *)
(* order by remainder, so nothing of what was received is lost.              *)

\* R puts any two elements of S in an order.
StrictOrder(R, S) ==
    /\ \A u \in S : <<u, u>> \notin R
    /\ \A u, v \in S : u # v => <<u, v>> \in R \/ <<v, u>> \in R
    /\ \A u, v, w \in S : <<u, v>> \in R /\ <<v, w>> \in R => <<u, w>> \in R

\* Of finitely many elements in an order, one is the first.
LEMMA FirstExists ==
    ASSUME NEW S, IsFiniteSet(S), NEW R, StrictOrder(R, S), NEW U \in SUBSET S, U # {}
    PROVE  \E m \in U : \A u \in U : u # m => <<m, u>> \in R
  <1> DEFINE P == {T \in SUBSET U : T # {} => \E m \in T : \A u \in T : u # m => <<m, u>> \in R}
  <1>1. ASSUME NEW T \in SUBSET U, \A V \in SUBSET T : V # T => V \in P
        PROVE  T \in P
    <2> SUFFICES ASSUME T # {} PROVE \E m \in T : \A u \in T : u # m => <<m, u>> \in R
      OBVIOUS
    <2> PICK x \in T : TRUE
      OBVIOUS
    <2>1. CASE T = {x}
      BY <2>1
    <2>2. CASE T # {x}
      <3> DEFINE V == T \ {x}
      <3>0. V \in P /\ V # {}
        <4>1. V \in SUBSET T /\ V # T /\ V # {}
          BY <2>2
        <4>2. QED
          BY <1>1, <4>1
      <3>1. PICK m \in V : \A u \in V : u # m => <<m, u>> \in R
        BY <3>0
      <3>2. CASE <<m, x>> \in R
        BY <3>1, <3>2
      <3>3. CASE <<m, x>> \notin R
        <4>1. <<x, m>> \in R
          BY <3>1, <3>3 DEF StrictOrder
        <4>2. \A u \in T : u # x => <<x, u>> \in R
          BY <3>1, <4>1 DEF StrictOrder
        <4>3. QED
          BY <4>2
      <3>4. QED
        BY <3>2, <3>3
    <2>3. QED
      BY <2>1, <2>2
  <1>2. IsFiniteSet(U)
    BY FS_Subset
  <1>3. U \in P
    <2> HIDE DEF P
    <2>1. QED
      BY <1>1, <1>2, SubsetInduction
  <1>4. QED
    BY <1>3

\* So there are as many first elements as one asks for.
LEMMA FirstsExist ==
    ASSUME NEW S, IsFiniteSet(S), NEW R, StrictOrder(R, S), NEW n \in 0 .. Cardinality(S)
    PROVE  \E D \in SUBSET S : /\ Cardinality(D) = n
                               /\ \A d \in D, u \in S \ D : <<d, u>> \in R
  <1> DEFINE Firsts(D) == \A d \in D, u \in S \ D : <<d, u>> \in R
             P == {T \in SUBSET S : \A i \in 0 .. Cardinality(T) :
                      \E D \in SUBSET S : Cardinality(D) = i /\ Firsts(D)}
  <1>0. \A T \in SUBSET S : IsFiniteSet(T) /\ Cardinality(T) \in Nat
    BY FS_Subset, FS_CardinalityType
  <1>1. ASSUME NEW T \in SUBSET S, \A U \in SUBSET T : U # T => U \in P
        PROVE  T \in P
    <2> SUFFICES ASSUME NEW i \in 0 .. Cardinality(T)
                 PROVE  \E D \in SUBSET S : Cardinality(D) = i /\ Firsts(D)
      OBVIOUS
    <2>1. CASE i = 0
      <3>1. {} \in SUBSET S /\ Cardinality({}) = 0 /\ Firsts({})
        BY FS_EmptySet
      <3>2. QED
        BY <2>1, <3>1
    <2>2. CASE i # 0
      <3>1. i \in Nat /\ i - 1 \in Nat /\ i <= Cardinality(T)
        BY <1>0, <2>2
      <3>2. PICK x \in T : TRUE
        BY <1>0, <2>2, <3>1, FS_EmptySet
      <3>3. T \ {x} \in P /\ Cardinality(T \ {x}) = Cardinality(T) - 1
        <4>1. T \ {x} \in SUBSET T /\ T \ {x} # T
          BY <3>2
        <4>2. T \ {x} \in P
          BY <1>1, <4>1
        <4>3. QED
          BY <1>0, <3>2, <4>2, FS_RemoveElement
      <3>4. i - 1 \in 0 .. Cardinality(T \ {x})
        BY <1>0, <3>1, <3>3
      <3>5. PICK D \in SUBSET S : Cardinality(D) = i - 1 /\ Firsts(D)
        BY <3>3, <3>4
      <3>6. S \ D # {}
        <4>1. Cardinality(D) # Cardinality(S)
          <5>1. Cardinality(T) <= Cardinality(S)
            BY FS_Subset
          <5>2. QED
            BY <1>0, <3>1, <3>5, <5>1
        <4>2. QED
          BY <4>1
      <3>7. PICK m \in S \ D : \A u \in S \ D : u # m => <<m, u>> \in R
        <4> DEFINE U == S \ D
        <4>1. U \in SUBSET S /\ U # {}
          BY <3>6
        <4> HIDE DEF U
        <4>2. \E m \in U : \A u \in U : u # m => <<m, u>> \in R
          BY <4>1, FirstExists
        <4>3. QED
          BY <4>2 DEF U
      <3>8. Cardinality(D \cup {m}) = i
        BY <1>0, <3>1, <3>5, <3>7, FS_AddElement
      <3>9. D \cup {m} \in SUBSET S /\ Firsts(D \cup {m})
        BY <3>5, <3>7
      <3>10. QED
        BY <3>8, <3>9
    <2>3. QED
      BY <2>1, <2>2
  <1>2. S \in P
    <2> HIDE DEF P
    <2>1. QED
      BY <1>1, SubsetInduction
  <1>3. QED
    BY <1>2

\* The elements that fewer than n others precede are n.
Ahead(R, S, t) == {u \in S : <<u, t>> \in R}
Foremost(R, S, n) == {t \in S : Cardinality(Ahead(R, S, t)) < n}

LEMMA RankCounts ==
    ASSUME NEW S, IsFiniteSet(S), NEW R, StrictOrder(R, S), NEW n \in 0 .. Cardinality(S)
    PROVE  Cardinality(Foremost(R, S, n)) = n
  <1>0. \A T \in SUBSET S : IsFiniteSet(T) /\ Cardinality(T) \in Nat
    BY FS_Subset, FS_CardinalityType
  <1>1. PICK D \in SUBSET S : Cardinality(D) = n /\ \A d \in D, u \in S \ D : <<d, u>> \in R
    BY FirstsExist
  <1>2. \A t \in S : Ahead(R, S, t) \in SUBSET S
    BY DEF Ahead
  <1>3. ASSUME NEW t \in D PROVE Cardinality(Ahead(R, S, t)) < n
    <2>1. Ahead(R, S, t) \in SUBSET (D \ {t})
      BY <1>1, <1>3 DEF StrictOrder, Ahead
    <2>2. Cardinality(D \ {t}) = n - 1 /\ IsFiniteSet(D \ {t})
      BY <1>0, <1>1, <1>3, FS_RemoveElement
    <2>3. Cardinality(Ahead(R, S, t)) <= n - 1
      BY <2>1, <2>2, FS_Subset
    <2>4. Cardinality(Ahead(R, S, t)) \in Nat /\ n \in Nat
      BY <1>0, <1>1, <1>2, <1>3
    <2>5. QED
      BY <2>3, <2>4
  <1>4. ASSUME NEW t \in S \ D PROVE ~(Cardinality(Ahead(R, S, t)) < n)
    <2>1. D \in SUBSET Ahead(R, S, t) /\ Ahead(R, S, t) \in SUBSET S
      BY <1>1, <1>4 DEF Ahead
    <2>2. Cardinality(D) <= Cardinality(Ahead(R, S, t))
      BY <1>0, <2>1, FS_Subset
    <2>3. QED
      BY <1>0, <1>1, <2>1, <2>2
  <1>5. Foremost(R, S, n) = D
    BY <1>1, <1>3, <1>4 DEF Foremost
  <1>6. QED
    BY <1>1, <1>5

\* Integer division.
LEMMA DivisionIs ==
    ASSUME NEW a \in Nat, NEW b \in Nat \ {0}
    PROVE  /\ a \div b \in Nat /\ a % b \in Nat /\ a % b < b
           /\ a = b * (a \div b) + (a % b)
  OBVIOUS

\* Nothing of what is received is lost or made up by apportioning it.
LEMMA ApportionsAll ==
    ASSUME NEW total \in Nat, NEW weight \in [Track -> Nat],
           \E t \in Track : weight[t] > 0
    PROVE  /\ DOMAIN Apportion(total, weight) = Track
           /\ \A t \in Track : Apportion(total, weight)[t] \in Nat
           /\ SumFunctionOnSet(Apportion(total, weight), Track) = total
  <1> DEFINE sum == SumFunctionOnSet(weight, Track)
             part == [t \in Track |-> total * weight[t]]
             floor == [t \in Track |-> (total * weight[t]) \div sum]
             rest == [t \in Track |-> (total * weight[t]) % sum]
             left == total - SumFunctionOnSet(floor, Track)
             Before(u, t) == rest[u] > rest[t] \/ (rest[u] = rest[t] /\ u < t)
             R == {p \in Track \X Track : Before(p[1], p[2])}
             more == [t \in Track |->
                         IF Cardinality({u \in Track : Before(u, t)}) < left THEN 1 ELSE 0]
             won == Apportion(total, weight)
  <1>1. IsFiniteSet(Track) /\ Track \subseteq Nat /\ Cardinality(Track) \in Nat
    BY FS_CardinalityType, SplitsAssumption
  <1>2. sum \in Nat \ {0}
    <2>1. \A t \in Track : weight[t] \in Nat
      OBVIOUS
    <2>2. sum \in Nat /\ \A t \in Track : weight[t] <= sum
      BY <1>1, <2>1, SumNat
    <2> HIDE DEF sum
    <2>3. QED
      BY <2>1, <2>2
  <1>3. \A t \in Track : /\ weight[t] \in Int /\ part[t] \in Nat /\ part[t] = total * weight[t]
                         /\ floor[t] = part[t] \div sum /\ rest[t] = part[t] % sum
    <2>1. \A i, j \in Nat : i * j \in Nat
      OBVIOUS
    <2>2. \A t \in Track : weight[t] \in Nat /\ total * weight[t] \in Nat
      BY <2>1
    <2>3. \A t \in Track : /\ part[t] = total * weight[t]
                           /\ floor[t] = (total * weight[t]) \div sum
                           /\ rest[t] = (total * weight[t]) % sum
      <3> HIDE DEF sum
      <3>1. QED
        OBVIOUS
    <2> HIDE DEF sum, part, floor, rest
    <2>4. QED
      BY <2>2, <2>3
  <1> HIDE DEF sum, part, floor, rest
  <1>4. \A t \in Track : /\ floor[t] \in Nat /\ rest[t] \in Nat /\ rest[t] < sum
                         /\ part[t] = sum * floor[t] + rest[t]
    <2> SUFFICES ASSUME NEW t \in Track
                 PROVE  /\ floor[t] \in Nat /\ rest[t] \in Nat /\ rest[t] < sum
                        /\ part[t] = sum * floor[t] + rest[t]
      OBVIOUS
    <2> DEFINE a == part[t]
    <2>1. a \in Nat /\ floor[t] = a \div sum /\ rest[t] = a % sum
      BY <1>3
    <2> HIDE DEF a
    <2>2. /\ a \div sum \in Nat /\ a % sum \in Nat /\ a % sum < sum
          /\ a = sum * (a \div sum) + (a % sum)
      BY <1>2, <2>1, DivisionIs
    <2>3. QED
      BY <2>1, <2>2 DEF a
  <1>5. won = [t \in Track |->
                  IF Cardinality({u \in Track : Before(u, t)}) < left
                  THEN floor[t] + 1 ELSE floor[t]]
    BY DEF Apportion, sum, floor, rest
  <1>6. /\ DOMAIN won = Track
        /\ \A t \in Track : /\ more[t] \in {0, 1} /\ won[t] = floor[t] + more[t]
                            /\ won[t] \in Nat
    BY <1>4, <1>5
  <1> HIDE DEF won
  <1>7. left \in 0 .. Cardinality(Track)
    <2> DEFINE scaled == [t \in Track |-> sum * floor[t]]
               ones == [t \in Track |-> 1]
               wide == [t \in Track |-> sum * ones[t]]
               floors == SumFunctionOnSet(floor, Track)
               rests == SumFunctionOnSet(rest, Track)
    <2> HIDE DEF left, more, R
    <2>1. SumFunctionOnSet(part, Track) = total * sum
      <3>1. IsMultiple(part, total, weight, Track)
        BY <1>3 DEF IsMultiple
      <3>2. SumFunctionOnSet(part, Track) = total * SumFunctionOnSet(weight, Track)
        BY <1>1, <3>1, SumScale
      <3>3. QED
        BY <3>2 DEF sum
    <2>a. \A i, j \in Nat : i * j \in Nat
      OBVIOUS
    <2>b. \A t \in Track : floor[t] \in Nat /\ scaled[t] = sum * floor[t] /\ scaled[t] \in Nat
      BY <1>2, <1>4, <2>a
    <2>c. \A t \in Track : part[t] = scaled[t] + rest[t] /\ rest[t] \in Nat /\ rest[t] < sum
      BY <1>4, <2>b
    <2>d. \A t \in Track : ones[t] = 1 /\ wide[t] = sum
      BY <1>2
    <2> HIDE DEF scaled, ones, wide
    <2>2. SumFunctionOnSet(scaled, Track) = sum * floors
      <3>1. IsMultiple(scaled, sum, floor, Track)
        BY <2>b DEF IsMultiple
      <3>2. QED
        BY <1>1, <1>2, <3>1, SumScale
    <2>3. \A t \in Track : scaled[t] \in Int /\ rest[t] \in Int /\ part[t] = scaled[t] + rest[t]
      BY <2>b, <2>c
    <2>4. SumFunctionOnSet(part, Track) = SumFunctionOnSet(scaled, Track) + rests
      BY <1>1, <2>3, SumPlus
    <2>5. floors \in Nat /\ rests \in Nat
      BY <1>1, <1>4, SumNat
    <2>6. rests <= sum * Cardinality(Track)
      <3>1. SumFunctionOnSet(ones, Track) = Cardinality(Track)
        BY <1>1, <2>d, SumOnes
      <3>2. SumFunctionOnSet(wide, Track) = sum * SumFunctionOnSet(ones, Track)
        <4>1. IsMultiple(wide, sum, ones, Track)
          BY <1>2, <2>d DEF IsMultiple
        <4>2. QED
          BY <1>1, <1>2, <4>1, SumScale
      <3>3. \A t \in Track : rest[t] \in Int /\ wide[t] \in Int /\ rest[t] <= wide[t]
        BY <1>2, <2>c, <2>d
      <3>4. rests <= SumFunctionOnSet(wide, Track)
        BY <1>1, <3>3, SumMonotone
      <3>5. QED
        BY <3>1, <3>2, <3>4
    <2>7. total * sum = sum * floors + rests
      BY <2>1, <2>2, <2>4
    <2>8. left = total - floors
      BY DEF left
    <2> HIDE DEF floors, rests
    <2>9. sum * left = rests
      <3>1. \A i, j, k \in Int : i * (j - k) = j * i - i * k
        OBVIOUS
      <3>2. \A i, j \in Nat : i * j \in Nat
        OBVIOUS
      <3>3. sum * left = total * sum - sum * floors
        BY <1>2, <2>5, <2>8, <3>1
      <3>4. sum * floors \in Nat
        BY <1>2, <2>5, <3>2
      <3>5. QED
        BY <2>5, <2>7, <3>3, <3>4
    <2>10. left \in Int
      BY <2>5, <2>8
    <2>11. \A s \in Nat \ {0}, i \in Int, n \in Nat : 0 <= s * i /\ s * i <= s * n => i \in 0 .. n
      <3> SUFFICES ASSUME NEW s \in Nat \ {0}, NEW i \in Int, NEW n \in Nat,
                          0 <= s * i, s * i <= s * n
                   PROVE  i \in 0 .. n
        OBVIOUS
      <3>1. i < 0 => s * i < 0
        OBVIOUS
      <3>2. i > n => s * i > s * n
        OBVIOUS
      <3>3. QED
        BY <3>1, <3>2
    <2>12. QED
      BY <1>1, <1>2, <2>5, <2>6, <2>9, <2>10, <2>11
  <1>8. StrictOrder(R, Track)
    BY <1>1, <1>4 DEF StrictOrder
  <1>9. \A t \in Track : Ahead(R, Track, t) = {u \in Track : Before(u, t)}
    BY DEF Ahead
  <1> DEFINE D == Foremost(R, Track, left)
  <1>10. Cardinality(D) = left
    <2> DEFINE n == left
    <2>1. n \in 0 .. Cardinality(Track)
      BY <1>7
    <2> HIDE DEF R, n
    <2>2. Cardinality(Foremost(R, Track, n)) = n
      BY <1>1, <1>8, <2>1, RankCounts
    <2>3. QED
      BY <2>2 DEF n
  <1>11. \A t \in Track : more[t] = IF t \in D THEN 1 ELSE 0
    <2> HIDE DEF R, Before, left
    <2>1. QED
      BY <1>9 DEF Foremost
  <1>12. SumFunctionOnSet(more, Track) = left
    <2> DEFINE ones == [t \in Track |-> 1]
    <2> HIDE DEF D, more
    <2>1. D \in SUBSET Track
      BY DEF D, Foremost
    <2>2. IsFiniteSet(D)
      BY <1>1, <2>1, FS_Subset
    <2>3. SumFunctionOnSet(ones, D) = Cardinality(D)
      BY <2>1, <2>2, SumOnes
    <2>o. \A t \in Track : ones[t] \in Int /\ more[t] = IF t \in D THEN ones[t] ELSE 0
      BY <1>11
    <2>f. IsFiniteSet(Track)
      BY <1>1
    <2> HIDE DEF ones, left, R, Before
    <2>4. SumFunctionOnSet(ones, D) = SumFunctionOnSet(more, Track)
      BY <2>f, <2>1, <2>o, SumPart
    <2>5. QED
      BY <1>10, <2>3, <2>4
  <1>13. SumFunctionOnSet(won, Track) = SumFunctionOnSet(floor, Track) + SumFunctionOnSet(more, Track)
    <2>1. \A t \in Track : floor[t] \in Int /\ more[t] \in Int /\ won[t] = floor[t] + more[t]
      BY <1>4, <1>6
    <2> HIDE DEF more, D
    <2>2. QED
      BY <1>1, <2>1, SumPlus
  <1>14. SumFunctionOnSet(floor, Track) \in Nat
    <2>1. \A t \in Track : floor[t] \in Nat
      BY <1>4
    <2>2. QED
      BY <1>1, <2>1, SumNat
  <1>15. SumFunctionOnSet(won, Track) = total
    BY <1>12, <1>13, <1>14
  <1>16. QED
    BY <1>6, <1>15 DEF won

-----------------------------------------------------------------------------
(* The books *)

\* Amounts and accounts of allocations are such.
AmountsTyped(al) ==
    \A r \in Report, s \in Share :
       al[r][s].amount \in Nat /\ al[r][s].to \in Account \cup {None}

\* Balances are numbers.
BooksTyped(b) ==
    /\ DOMAIN b = {"fee", "owner", "held", "paid"}
    /\ b.fee \in Int /\ b.owner \in Int /\ b.held \in Int
    /\ DOMAIN b.paid = Account /\ \A a \in Account : b.paid[a] \in Int

\* What the allocations hold, what the books say was received, and what was
\* posted, as sums.
HeldIn(al) ==
    SumFunctionOnSet([p \in Report \X Share |-> HeldAmount(al[p[1]][p[2]])], Report \X Share)
Worth(b) == b.fee + b.owner + b.held + SumFunctionOnSet(b.paid, Account)
PostedIn(rep) == SumFunctionOnSet([r \in Report |-> rep[r].posted], Report)

\* al2 differs from al in held amounts that were moved to an account or back.
MovesTo(al, al2) ==
    \A r \in Report, s \in Share :
       \/ al2[r][s] = al[r][s]
       \/ /\ al[r][s].status = "HELD" /\ al2[r][s].status \in {"TRANSFERRED", "RETURNED"}
          /\ al2[r][s].amount = al[r][s].amount
          /\ al2[r][s].to \in Account \cup {None}

\* Settling moves money and makes none: the total of the books stays, and
\* SPLIT_HELD falls by what is no longer held.
LEMMA MovedKeeps ==
    ASSUME NEW al, NEW al2, NEW b,
           AmountsTyped(al), BooksTyped(b), MovesTo(al, al2)
    PROVE  /\ AmountsTyped(al2)
           /\ BooksTyped(Moved(b, al, al2))
           /\ Moved(b, al, al2).held = b.held + HeldIn(al2) - HeldIn(al)
           /\ Worth(Moved(b, al, al2)) = Worth(b)
  <1> DEFINE Pairs == Report \X Share
             amount == [p \in Pairs |-> al[p[1]][p[2]].amount]
             moved == {p \in Pairs : al2[p[1]][p[2]].status # al[p[1]][p[2]].status}
             to == [p \in Pairs |-> al2[p[1]][p[2]].to]
             Y == Account \cup {None}
             f == [y \in Y |-> SumFunctionOnSet(amount, {p \in moved : to[p] = y})]
             b2 == Moved(b, al, al2)
             all == SumFunctionOnSet(amount, moved)
             held == [p \in Pairs |-> HeldAmount(al[p[1]][p[2]])]
             held2 == [p \in Pairs |-> HeldAmount(al2[p[1]][p[2]])]
             gone == [p \in Pairs |-> IF p \in moved THEN amount[p] ELSE 0]
  <1>1. /\ IsFiniteSet(Pairs) /\ IsFiniteSet(Account) /\ None \notin Account
        /\ IsFiniteSet(Y)
    BY FS_Product, FS_AddElement, SplitsAssumption
  <1>2. /\ \A p \in Pairs : amount[p] \in Nat
        /\ moved \in SUBSET Pairs /\ IsFiniteSet(moved)
        /\ \A p \in moved : to[p] \in Y
    <2>1. \A p \in Pairs : amount[p] \in Nat
      BY DEF AmountsTyped
    <2>2. \A p \in moved : to[p] \in Y
      BY DEF MovesTo
    <2>3. QED
      BY <1>1, <2>1, <2>2, FS_Subset
  <1>3. AmountsTyped(al2)
    BY DEF AmountsTyped, MovesTo
  <1>4. \A p \in Pairs : /\ held[p] \in Int /\ held2[p] \in Int /\ gone[p] \in Int
                         /\ held[p] = held2[p] + gone[p]
    <2> TAKE p \in Pairs
    <2> DEFINE c == al[p[1]][p[2]]
               c2 == al2[p[1]][p[2]]
    <2>1. c.amount \in Nat /\ c2.amount \in Nat
      BY <1>3 DEF AmountsTyped
    <2>2. /\ held[p] = IF c.status = "HELD" THEN c.amount ELSE 0
          /\ held2[p] = IF c2.status = "HELD" THEN c2.amount ELSE 0
          /\ gone[p] = IF c2.status # c.status THEN c.amount ELSE 0
      BY DEF HeldAmount
    <2>3. \/ c2 = c
          \/ /\ c.status = "HELD" /\ c2.status \in {"TRANSFERRED", "RETURNED"}
             /\ c2.amount = c.amount
      BY DEF MovesTo
    <2> HIDE DEF c, c2, held, held2, gone
    <2>4. QED
      BY <2>1, <2>2, <2>3
  <1>5. \A y \in Y : f[y] = SumFunctionOnSet(amount, {p \in moved : to[p] = y}) /\ f[y] \in Int
    <2> SUFFICES ASSUME NEW y \in Y
                 PROVE  SumFunctionOnSet(amount, {p \in moved : to[p] = y}) \in Int
      OBVIOUS
    <2> DEFINE F == {p \in moved : to[p] = y}
    <2>1. F \in SUBSET Pairs
      OBVIOUS
    <2> HIDE DEF F, amount, Pairs
    <2>2. IsFiniteSet(F) /\ \A p \in F : amount[p] \in Int
      BY <1>1, <1>2, <2>1, FS_Subset
    <2>3. SumFunctionOnSet(amount, F) \in Int
      BY <2>2, SumInt
    <2>4. QED
      BY <2>3 DEF F
  <1>6. /\ DOMAIN b2 = {"fee", "owner", "held", "paid"}
        /\ b2.fee = b.fee /\ b2.owner = b.owner + f[None] /\ b2.held = b.held - all
        /\ DOMAIN b2.paid = Account
        /\ \A a \in Account : b2.paid[a] = b.paid[a] + f[a]
    <2>1. \A y \in Y : {p \in moved : to[p] = y} = {p \in moved : al2[p[1]][p[2]].to = y}
      OBVIOUS
    <2>2. \A y \in Y : f[y] = SumFunctionOnSet(amount, {p \in moved : al2[p[1]][p[2]].to = y})
      BY <2>1
    <2>3. QED
      BY <2>2 DEF Moved
  <1> HIDE DEF Y, f, b2, moved, amount, to, held, held2, gone
  <1>7. SumFunctionOnSet(held, Pairs) = SumFunctionOnSet(held2, Pairs) + all
    <2>1. SumFunctionOnSet(held, Pairs) = SumFunctionOnSet(held2, Pairs) + SumFunctionOnSet(gone, Pairs)
      BY <1>1, <1>4, SumPlus
    <2>2. \A p \in Pairs : amount[p] \in Int /\ gone[p] = IF p \in moved THEN amount[p] ELSE 0
      BY <1>2 DEF gone
    <2>3. all = SumFunctionOnSet(gone, Pairs)
      BY <1>1, <1>2, <2>2, SumPart
    <2>4. QED
      BY <2>1, <2>3
  <1>8. /\ SumFunctionOnSet(held, Pairs) \in Int /\ SumFunctionOnSet(held2, Pairs) \in Int
        /\ all \in Int
    <2>1. SumFunctionOnSet(held, Pairs) \in Int /\ SumFunctionOnSet(held2, Pairs) \in Int
      BY <1>1, <1>4, SumInt
    <2>2. \A p \in moved : amount[p] \in Int
      BY <1>2
    <2>3. QED
      BY <1>2, <2>1, <2>2, SumInt
  <1>9. HeldIn(al) = SumFunctionOnSet(held, Pairs) /\ HeldIn(al2) = SumFunctionOnSet(held2, Pairs)
    BY DEF HeldIn, held, held2
  <1>10. f[None] + SumFunctionOnSet(f, Account) = all
    <2>1. \A p \in moved : amount[p] \in Int /\ to[p] \in Y
      BY <1>2
    <2>2. \A y \in Y : f[y] = SumFunctionOnSet(amount, {p \in moved : to[p] = y})
      BY <1>5
    <2>3. IsFibers(f, Y, amount, to, moved)
      BY <2>1, <2>2 DEF IsFibers
    <2>s. SumFunctionOnSet(f, Y) = all
      BY <1>1, <1>2, <2>3, SumFibers
    <2>4. None \in Y /\ Y \ {None} = Account
      BY <1>1 DEF Y
    <2>5. \A y \in Y : f[y] \in Int
      BY <1>5
    <2>6. SumFunctionOnSet(f, Y) = f[None] + SumFunctionOnSet(f, Y \ {None})
      BY <1>1, <2>4, <2>5, SumRemove
    <2>7. QED
      BY <2>s, <2>4, <2>6
  <1>11. \A a \in Account : f[a] \in Int /\ b.paid[a] \in Int /\ b2.paid[a] = b.paid[a] + f[a]
    BY <1>5, <1>6 DEF BooksTyped, Y
  <1>12. SumFunctionOnSet(b2.paid, Account) = SumFunctionOnSet(b.paid, Account) + SumFunctionOnSet(f, Account)
    BY <1>1, <1>11, SumPlus
  <1>13. /\ SumFunctionOnSet(b.paid, Account) \in Int /\ SumFunctionOnSet(f, Account) \in Int
         /\ f[None] \in Int
    BY <1>1, <1>5, <1>11, SumInt DEF Y
  <1>14. BooksTyped(b2)
    BY <1>6, <1>8, <1>11, <1>13 DEF BooksTyped
  <1>15. b2.held = b.held + HeldIn(al2) - HeldIn(al)
    BY <1>6, <1>7, <1>8, <1>9 DEF BooksTyped
  <1>16. Worth(b2) = Worth(b)
    BY <1>6, <1>8, <1>10, <1>12, <1>13 DEF BooksTyped, Worth
  <1>17. QED
    BY <1>3, <1>14, <1>15, <1>16 DEF b2

\* What the allocations hold is a number.
LEMMA HeldIsInt ==
    ASSUME NEW al, AmountsTyped(al)
    PROVE  HeldIn(al) \in Int
  <1> DEFINE held == [p \in Report \X Share |-> HeldAmount(al[p[1]][p[2]])]
  <1>1. IsFiniteSet(Report \X Share)
    BY FS_Product, SplitsAssumption
  <1>2. \A p \in Report \X Share : held[p] \in Int
    BY DEF AmountsTyped, HeldAmount
  <1> HIDE DEF held
  <1>3. SumFunctionOnSet(held, Report \X Share) \in Int
    BY <1>1, <1>2, SumInt
  <1>4. QED
    BY <1>3 DEF HeldIn, held

\* Settling is such a movement.
LEMMA SettledMoves ==
    ASSUME NEW al, NEW S, AmountsTyped(al),
           \A r \in Report, s \in Share : DOMAIN al[r][s] = {"status", "amount", "to"},
           \A s \in Share : share'[s].account \in Account \cup {None}
    PROVE  MovesTo(al, Settled(al, S))
  <1> SUFFICES ASSUME NEW r \in Report, NEW s \in Share
               PROVE  LET new == Settled(al, S)[r][s] IN
                      \/ new = al[r][s]
                      \/ /\ al[r][s].status = "HELD" /\ new.status \in {"TRANSFERRED", "RETURNED"}
                         /\ new.amount = al[r][s].amount
                         /\ new.to \in Account \cup {None}
    BY DEF MovesTo
  <1>1. CASE s \in S /\ share'[s].status # "INVITED" /\ al[r][s].status = "HELD"
    <2>1. Settled(al, S)[r][s] =
             [al[r][s] EXCEPT !.status = IF share'[s].status = "ACCEPTED" THEN "TRANSFERRED"
                                         ELSE "RETURNED",
                              !.to = share'[s].account]
      BY <1>1 DEF Settled
    <2>2. QED
      BY <1>1, <2>1
  <1>2. CASE ~(s \in S /\ share'[s].status # "INVITED" /\ al[r][s].status = "HELD")
    BY <1>2 DEF Settled
  <1>3. QED
    BY <1>1, <1>2

\* What is counted is a number, and a posting in progress has lines to share
\* its money over.
SharesTyped ==
    \A s \in Share : share[s].bps \in Nat /\ share[s].account \in Account \cup {None}
ReportsTyped ==
    \A r \in Report : /\ report[r].gross \in [Track -> Nat]
                      /\ report[r].received \in Nat /\ report[r].posted \in Nat
PostingTyped ==
    \A r \in Report : posting[r] # None =>
       /\ \E t \in Track : report[r].gross[t] > 0
       /\ \A s \in DOMAIN posting[r] : posting[r][s].bps \in Nat

BooksInv ==
    /\ SharesTyped /\ ReportsTyped /\ PostingTyped
    /\ AmountsTyped(alloc) /\ BooksTyped(books) /\ BooksBalance

\* The books balance, in the terms used here.
LEMMA BalanceIs ==
    BooksBalance <=> books.held = HeldIn(alloc) /\ Worth(books) = PostedIn(report)
  BY DEF BooksBalance, HeldIn, Worth, PostedIn

\* Nothing is booked at the start.
LEMMA InitBooks == Init => BooksInv
  <1> SUFFICES ASSUME Init PROVE BooksInv
    OBVIOUS
  <1> USE SplitsAssumption
  <1>1. SharesTyped /\ PostingTyped
    BY DEF Init, SharesTyped, PostingTyped, NoShare
  <1>2. ReportsTyped
    BY DEF Init, ReportsTyped, NoReport
  <1>3. AmountsTyped(alloc) /\ BooksTyped(books)
    BY DEF Init, AmountsTyped, BooksTyped, NoCut
  <1>4. HeldIn(alloc) = 0
    <2> DEFINE held == [p \in Report \X Share |-> HeldAmount(alloc[p[1]][p[2]])]
    <2>1. \A p \in Report \X Share : held[p] = 0
      BY DEF Init, NoCut, HeldAmount
    <2>2. IsFiniteSet(Report \X Share)
      BY FS_Product
    <2> HIDE DEF held
    <2>3. SumFunctionOnSet(held, Report \X Share) = 0
      BY <2>1, <2>2, SumZero
    <2>4. QED
      BY <2>3 DEF HeldIn, held
  <1>5. PostedIn(report) = 0
    <2> DEFINE posted == [r \in Report |-> report[r].posted]
    <2>1. \A r \in Report : posted[r] = 0
      BY DEF Init, NoReport
    <2> HIDE DEF posted
    <2>2. SumFunctionOnSet(posted, Report) = 0
      BY <2>1, SumZero
    <2>3. QED
      BY <2>2 DEF PostedIn, posted
  <1>6. Worth(books) = 0 /\ books.held = 0
    <2>1. \A a \in Account : books.paid[a] = 0
      BY DEF Init
    <2>2. SumFunctionOnSet(books.paid, Account) = 0
      BY <2>1, SumZero
    <2>3. QED
      BY <2>2 DEF Init, Worth
  <1>7. BooksBalance
    BY <1>4, <1>5, <1>6, BalanceIs
  <1>8. QED
    BY <1>1, <1>2, <1>3, <1>7 DEF BooksInv

\* An answer, or a save that drops shares, settles what was held for them.
LEMMA SettleStep ==
    ASSUME SplitsInv, BooksInv, SharesTyped',
           UNCHANGED <<report, posting>>, NEW S, Settle(S)
    PROVE  BooksInv'
  <1>1. /\ AmountsTyped(alloc) /\ BooksTyped(books) /\ ReportsTyped /\ PostingTyped
        /\ books.held = HeldIn(alloc) /\ Worth(books) = PostedIn(report)
    BY BalanceIs DEF BooksInv
  <1>2. MovesTo(alloc, alloc')
    <2>1. \A r \in Report, s \in Share : DOMAIN alloc[r][s] = {"status", "amount", "to"}
      BY DEF SplitsInv, Shape
    <2>2. \A s \in Share : share'[s].account \in Account \cup {None}
      BY DEF SharesTyped
    <2>3. QED
      BY <1>1, <2>1, <2>2, SettledMoves DEF Settle
  <1>3. books' = Moved(books, alloc, alloc')
    BY DEF Settle
  <1>4. /\ AmountsTyped(alloc') /\ BooksTyped(books')
        /\ books'.held = books.held + HeldIn(alloc') - HeldIn(alloc)
        /\ Worth(books') = Worth(books)
    BY <1>1, <1>2, <1>3, MovedKeeps
  <1>5. ReportsTyped' /\ PostingTyped'
    BY <1>1 DEF ReportsTyped, PostingTyped
  <1>6. books'.held = HeldIn(alloc')
    <2>1. HeldIn(alloc') \in Int /\ HeldIn(alloc) \in Int
      BY <1>1, <1>4, HeldIsInt
    <2>2. QED
      BY <1>1, <1>4, <2>1
  <1>7. BooksBalance'
    <2>1. PostedIn(report)' = PostedIn(report)
      BY DEF PostedIn
    <2>2. HeldIn(alloc)' = HeldIn(alloc') /\ Worth(books)' = Worth(books')
      BY DEF HeldIn, Worth
    <2>3. (books.held = HeldIn(alloc) /\ Worth(books) = PostedIn(report))'
      BY <1>1, <1>4, <1>6, <2>1, <2>2
    <2>4. QED
      BY <2>3, BalanceIs, PTL
  <1>8. QED
    BY <1>4, <1>5, <1>7 DEF BooksInv, AmountsTyped, BooksTyped

\* Saving the sheet.
LEMMA SaveBooks ==
    ASSUME SplitsInv, BooksInv, NEW plan \in [Share -> Row \cup {None}], Save(plan)
    PROVE  BooksInv'
  <1>1. SharesTyped
    BY DEF BooksInv
  <1>2. SharesTyped'
    <2> SUFFICES ASSUME NEW s \in Share
                 PROVE  share'[s].bps \in Nat /\ share'[s].account \in Account \cup {None}
      BY DEF SharesTyped
    <2>1. share'[s] = IF s \in Reasked(plan) THEN Asked(s, plan[s].bps, AddressIn(plan, s))
                      ELSE IF s \in Dropped(plan) THEN Answered(s, "REMOVED", None)
                      ELSE share[s]
      BY DEF Save
    <2>2. CASE s \in Reasked(plan)
      <3>1. plan[s] \in Row
        BY <2>2 DEF Reasked, OnSheet
      <3>2. plan[s].bps \in Nat
        <4>1. Bps \subseteq Nat
          BY SplitsAssumption
        <4>2. QED
          BY <3>1, <4>1 DEF Row
      <3>3. QED
        BY <2>1, <2>2, <3>2 DEF Asked
    <2>3. CASE s \notin Reasked(plan) /\ s \in Dropped(plan)
      <3>1. share'[s] = Answered(s, "REMOVED", None)
        BY <2>1, <2>3
      <3>2. Answered(s, "REMOVED", None).account = None /\ Answered(s, "REMOVED", None).bps = share[s].bps
        BY DEF Answered, SplitsInv, Shape
      <3>3. QED
        BY <1>1, <3>1, <3>2 DEF SharesTyped
    <2>4. CASE s \notin Reasked(plan) /\ s \notin Dropped(plan)
      BY <1>1, <2>1, <2>4 DEF SharesTyped
    <2>5. QED
      BY <2>2, <2>3, <2>4
  <1>3. Settle(Dropped(plan)) /\ UNCHANGED <<report, posting>>
    BY DEF Save
  <1>4. QED
    BY <1>2, <1>3, SettleStep

\* Accepting and declining.
LEMMA AnswerBooks ==
    ASSUME SplitsInv, BooksInv, NEW s \in Share, NEW status,
           NEW account \in Account \cup {None}, Answer(s, status, account)
    PROVE  BooksInv'
  <1>1. SharesTyped
    BY DEF BooksInv
  <1>2. SharesTyped'
    <2>1. /\ Answered(s, status, account).account = account
          /\ Answered(s, status, account).bps = share[s].bps
      BY DEF Answered, SplitsInv, Shape
    <2>2. /\ share'[s] = Answered(s, status, account)
          /\ \A x \in Share \ {s} : share'[x] = share[x]
      BY DEF Answer, SplitsInv, Shape
    <2>3. QED
      BY <1>1, <2>1, <2>2 DEF SharesTyped
  <1>3. Settle({s}) /\ UNCHANGED <<report, posting>>
    BY DEF Answer
  <1>4. QED
    BY <1>2, <1>3, SettleStep

\* A step that books nothing and posts nothing.
LEMMA QuietBooks ==
    ASSUME BooksInv, SharesTyped', ReportsTyped', PostingTyped',
           \A r \in Report : report'[r].posted = report[r].posted,
           UNCHANGED <<alloc, books>>
    PROVE  BooksInv'
  <1>1. /\ AmountsTyped(alloc) /\ BooksTyped(books)
        /\ books.held = HeldIn(alloc) /\ Worth(books) = PostedIn(report)
    BY BalanceIs DEF BooksInv
  <1>2. HeldIn(alloc)' = HeldIn(alloc) /\ Worth(books)' = Worth(books)
    BY DEF HeldIn, Worth
  <1>3. PostedIn(report)' = PostedIn(report)
    <2>1. [r \in Report |-> report'[r].posted] = [r \in Report |-> report[r].posted]
      OBVIOUS
    <2>2. QED
      BY <2>1 DEF PostedIn
  <1>4. BooksBalance'
    <2>1. (books.held = HeldIn(alloc) /\ Worth(books) = PostedIn(report))'
      BY <1>1, <1>2, <1>3
    <2>2. QED
      BY <2>1, BalanceIs, PTL
  <1>5. QED
    BY <1>1, <1>4 DEF BooksInv, AmountsTyped, BooksTyped

\* Mailing invites and asking again.
LEMMA InviteBooks ==
    ASSUME SplitsInv, BooksInv,
           \/ \E s \in Share : Resend(s)
           \/ \E d \in Sender :
                 \/ \E s \in Share : Lease(d, s)
                 \/ MakeLink(d) \/ Record(d) \/ Crash(d)
                 \/ \E delivered \in BOOLEAN, result \in {"SENT", "FAILED", "RETRY"} :
                       Mail(d, delivered, result)
    PROVE  BooksInv'
  <1>1. UNCHANGED <<report, posting, alloc, books>>
    BY DEF Resend, Lease, MakeLink, Record, Crash, Mail
  <1>2. \A s \in Share : share'[s].bps = share[s].bps /\ share'[s].account = share[s].account
    <2>0. Shape
      BY DEF SplitsInv
    <2>1. ASSUME NEW s \in Share, Resend(s) \/ \E d \in Sender : Lease(d, s)
          PROVE  \A x \in Share : share'[x].bps = share[x].bps /\ share'[x].account = share[x].account
      BY <2>0, <2>1 DEF Resend, Lease, Shape
    <2>2. ASSUME NEW d \in Sender, MakeLink(d)
          PROVE  \A x \in Share : share'[x].bps = share[x].bps /\ share'[x].account = share[x].account
      BY <2>0, <2>2 DEF MakeLink, Shape
    <2>3. ASSUME NEW d \in Sender, Record(d)
          PROVE  \A x \in Share : share'[x].bps = share[x].bps /\ share'[x].account = share[x].account
      BY <2>0, <2>3, ZenonT(40) DEF Record, Shape
    <2>4. CASE UNCHANGED share
      BY <2>4
    <2>5. QED
      BY <2>1, <2>2, <2>3, <2>4 DEF Crash, Mail
  <1>3. SharesTyped' /\ ReportsTyped' /\ PostingTyped'
    BY <1>1, <1>2 DEF BooksInv, SharesTyped, ReportsTyped, PostingTyped
  <1>4. QED
    BY <1>1, <1>3, QuietBooks

\* Reports and receipts, and a posting that begins or is rolled back.
LEMMA ReportBooks ==
    ASSUME SplitsInv, BooksInv, NEW r \in Report,
           \/ \E gross \in Grosses : Ingest(r, gross)
           \/ \E all \in BOOLEAN : MatchReport(r, all)
           \/ \E amount \in Amounts : RecordReceipt(r, amount)
           \/ BeginPost(r) \/ AbortPost(r)
    PROVE  BooksInv'
  <1>0. SharesTyped /\ ReportsTyped /\ PostingTyped /\ Shape /\ PostedHasStatus
    BY DEF BooksInv, SplitsInv
  <1>1. UNCHANGED <<share, alloc, books>>
    BY DEF Ingest, MatchReport, RecordReceipt, BeginPost, AbortPost
  <1>2. \A q \in Report :
           /\ \/ report'[q].gross = report[q].gross
              \/ report[q].status = "ABSENT" /\ report'[q].gross \in [Track -> Nat]
           /\ report'[q].received \in Nat
           /\ report'[q].posted = report[q].posted
    <2> SUFFICES ASSUME NEW q \in Report
                 PROVE  /\ \/ report'[q].gross = report[q].gross
                           \/ report[q].status = "ABSENT" /\ report'[q].gross \in [Track -> Nat]
                        /\ report'[q].received \in Nat
                        /\ report'[q].posted = report[q].posted
      OBVIOUS
    <2>1. ASSUME NEW gross \in Grosses, Ingest(r, gross) PROVE
              /\ \/ report'[q].gross = report[q].gross
                 \/ report[q].status = "ABSENT" /\ report'[q].gross \in [Track -> Nat]
              /\ report'[q].received \in Nat
              /\ report'[q].posted = report[q].posted
      <3>1. gross \in [Track -> Nat]
        BY SplitsAssumption
      <3>2. /\ report[r].status = "ABSENT"
            /\ report' = [report EXCEPT ![r].status = "NORMALIZED", ![r].gross = gross]
        BY <2>1 DEF Ingest
      <3>3. /\ report'[q].gross = IF q = r THEN gross ELSE report[q].gross
            /\ report'[q].received = report[q].received /\ report'[q].posted = report[q].posted
        BY <1>0, <3>2 DEF Shape
      <3>4. report[q].received \in Nat
        BY <1>0 DEF ReportsTyped
      <3>5. QED
        BY <3>1, <3>2, <3>3, <3>4
    <2>2. ASSUME NEW all \in BOOLEAN, MatchReport(r, all) PROVE
              /\ report'[q].gross = report[q].gross
              /\ report'[q].received \in Nat
              /\ report'[q].posted = report[q].posted
      BY <1>0, <2>2 DEF MatchReport, Shape, ReportsTyped
    <2>3. ASSUME NEW amount \in Amounts, RecordReceipt(r, amount) PROVE
              /\ report'[q].gross = report[q].gross
              /\ report'[q].received \in Nat
              /\ report'[q].posted = report[q].posted
      BY <1>0, <2>3, SplitsAssumption DEF RecordReceipt, Shape, ReportsTyped
    <2>4. CASE BeginPost(r) \/ AbortPost(r)
      BY <1>0, <2>4 DEF BeginPost, AbortPost, ReportsTyped
    <2>5. QED
      BY <2>1, <2>2, <2>3, <2>4
  <1>3. SharesTyped' /\ ReportsTyped'
    BY <1>0, <1>1, <1>2 DEF SharesTyped, ReportsTyped
  <1>4. \A q \in Report :
           \/ posting'[q] = posting[q]
           \/ posting'[q] = None
           \/ /\ q = r /\ BeginPost(r)
              /\ posting'[q] = [s \in Sharing(r) |-> [bps |-> share[s].bps, status |-> share[s].status]]
    BY <1>0 DEF Ingest, MatchReport, RecordReceipt, BeginPost, AbortPost, Shape
  <1>5. PostingTyped'
    <2> SUFFICES ASSUME NEW q \in Report, posting'[q] # None
                 PROVE  /\ \E t \in Track : report'[q].gross[t] > 0
                        /\ \A s \in DOMAIN posting'[q] : posting'[q][s].bps \in Nat
      BY DEF PostingTyped
    <2>1. CASE posting'[q] = posting[q]
      <3>1. report[q].status = "MATCHED"
        BY <1>0, <2>1 DEF PostedHasStatus
      <3>2. report'[q].gross = report[q].gross
        BY <1>2, <3>1
      <3>3. QED
        BY <1>0, <2>1, <3>2 DEF PostingTyped
    <2>2. CASE /\ q = r /\ BeginPost(r)
               /\ posting'[q] = [s \in Sharing(r) |-> [bps |-> share[s].bps, status |-> share[s].status]]
      <3>1. report' = report /\ \E t \in Track : report[q].gross[t] > 0
        BY <2>2 DEF BeginPost
      <3>2. \A s \in Sharing(r) : share[s].bps \in Nat
        BY <1>0 DEF Sharing, SharesTyped
      <3>3. QED
        BY <2>2, <3>1, <3>2
    <2>3. QED
      BY <1>4, <2>1, <2>2
  <1>6. QED
    BY <1>1, <1>2, <1>3, <1>5, QuietBooks

\* The fee is part of what a track won, and a cut part of the rest.
LEMMA FeeIs ==
    ASSUME NEW gross \in Nat
    PROVE  Fee(gross) \in Nat /\ gross - Fee(gross) \in Nat
  <1>1. FeeBps \in Nat /\ Whole \in Nat \ {0} /\ FeeBps <= Whole
    BY SplitsAssumption
  <1>2. gross * FeeBps \in Nat
    BY <1>1
  <1>3. /\ Fee(gross) \in Nat /\ (gross * FeeBps) % Whole \in Nat
        /\ gross * FeeBps = Whole * Fee(gross) + ((gross * FeeBps) % Whole)
    BY <1>1, <1>2, DivisionIs DEF Fee
  <1>4. \A g, f, w, q, m \in Nat : f <= w /\ w # 0 /\ g * f = w * q + m => q <= g
    <2> SUFFICES ASSUME NEW g \in Nat, NEW f \in Nat, NEW w \in Nat, NEW q \in Nat, NEW m \in Nat,
                        f <= w, w # 0, g * f = w * q + m, q > g
                 PROVE  FALSE
      OBVIOUS
    <2>1. g * f <= g * w
      OBVIOUS
    <2>2. w * q >= w * (g + 1)
      OBVIOUS
    <2>3. w * (g + 1) = g * w + w
      OBVIOUS
    <2>4. g * f \in Nat /\ g * w \in Nat /\ w * q \in Nat
      OBVIOUS
    <2>5. QED
      BY <2>1, <2>2, <2>3, <2>4
  <1>5. QED
    BY <1>1, <1>3, <1>4

LEMMA CutIs ==
    ASSUME NEW gross \in Nat, NEW bps \in Nat
    PROVE  Cut(gross, bps) \in Nat
  <1>1. (gross - Fee(gross)) * bps \in Nat
    <2>1. \A i, j \in Nat : i * j \in Nat
      OBVIOUS
    <2>2. QED
      BY <2>1, FeeIs
  <1>2. Whole \in Nat \ {0}
    BY SplitsAssumption
  <1>3. QED
    BY <1>1, <1>2, DivisionIs DEF Cut

\* The cuts allocated for a report are held in addition to what was held.
LEMMA CutsAreHeld ==
    ASSUME NEW al, NEW new, NEW r \in Report, NEW S \in SUBSET Share, NEW amount,
           AmountsTyped(al), AmountsTyped(new), \A s \in S : amount[s] \in Nat,
           \A q \in Report, s \in Share : q # r => new[q][s] = al[q][s],
           \A s \in Share :
              /\ HeldAmount(al[r][s]) = 0
              /\ HeldAmount(new[r][s]) = IF s \in S THEN amount[s] ELSE 0
    PROVE  HeldIn(new) = HeldIn(al) + SumFunctionOnSet(amount, S)
  <1> DEFINE Pairs == Report \X Share
             Cuts == {r} \X S
             cut == [p \in Pairs |-> IF p \in Cuts THEN amount[p[2]] ELSE 0]
             to == [p \in Cuts |-> p[2]]
             held == [p \in Pairs |-> HeldAmount(al[p[1]][p[2]])]
             held2 == [p \in Pairs |-> HeldAmount(new[p[1]][p[2]])]
  <1>1. IsFiniteSet(Pairs) /\ IsFiniteSet(S) /\ Cuts \in SUBSET Pairs /\ IsFiniteSet(Cuts)
    BY FS_Product, FS_Subset, FS_Singleton, SplitsAssumption
  <1>2. \A p \in Pairs : cut[p] \in Int /\ held[p] \in Int /\ held2[p] = held[p] + cut[p]
    <2> SUFFICES ASSUME NEW q \in Report, NEW s \in Share
                 PROVE  LET p == <<q, s>> IN
                        cut[p] \in Int /\ held[p] \in Int /\ held2[p] = held[p] + cut[p]
      BY ZenonT(40)
    <2>1. /\ held[<<q, s>>] = HeldAmount(al[q][s]) /\ held2[<<q, s>>] = HeldAmount(new[q][s])
          /\ cut[<<q, s>>] = IF q = r /\ s \in S THEN amount[s] ELSE 0
      OBVIOUS
    <2>2. HeldAmount(al[q][s]) \in Nat
      BY DEF AmountsTyped, HeldAmount
    <2>3. CASE q = r
      BY <2>1, <2>2, <2>3
    <2>4. CASE q # r
      BY <2>1, <2>2, <2>4
    <2>5. QED
      BY <2>3, <2>4
  <1>3. \A y \in S : amount[y] = SumFunctionOnSet(cut, {p \in Cuts : to[p] = y})
    <2> TAKE y \in S
    <2>1. {p \in Cuts : to[p] = y} = {<<r, y>>}
      OBVIOUS
    <2>2. cut[<<r, y>>] = amount[y] /\ amount[y] \in Int
      BY <1>1
    <2>3. SumFunctionOnSet(cut, {<<r, y>>}) = cut[<<r, y>>] + SumFunctionOnSet(cut, {<<r, y>>} \ {<<r, y>>})
      <3> DEFINE z == <<r, y>>
      <3>1. cut[z] \in Int
        BY <2>2
      <3> HIDE DEF z, cut
      <3>2. IsFiniteSet({z}) /\ z \in {z} /\ \A s \in {z} : cut[s] \in Int
        BY <3>1, FS_Singleton
      <3>3. SumFunctionOnSet(cut, {z}) = cut[z] + SumFunctionOnSet(cut, {z} \ {z})
        BY <3>2, SumRemove
      <3>4. QED
        BY <3>3 DEF z
    <2>4. SumFunctionOnSet(cut, {<<r, y>>} \ {<<r, y>>}) = 0
      <3>1. {<<r, y>>} \ {<<r, y>>} = {}
        OBVIOUS
      <3> HIDE DEF cut
      <3>2. QED
        BY <3>1, SumEmpty
    <2> HIDE DEF cut, Cuts, to
    <2>5. SumFunctionOnSet(cut, {<<r, y>>}) = amount[y]
      BY <2>2, <2>3, <2>4
    <2>6. QED
      BY <2>1, <2>5
  <1>4. \A p \in Cuts : cut[p] \in Int /\ to[p] \in S
    BY <1>1, <1>2
  <1>5. \A p \in Pairs : cut[p] \in Int /\ cut[p] = IF p \in Cuts THEN cut[p] ELSE 0
    BY <1>2
  <1>6. HeldIn(al) = SumFunctionOnSet(held, Pairs) /\ HeldIn(new) = SumFunctionOnSet(held2, Pairs)
    BY DEF HeldIn
  <1> HIDE DEF Pairs, Cuts, cut, to, held, held2
  <1>7. SumFunctionOnSet(amount, S) = SumFunctionOnSet(cut, Cuts)
    <2>1. IsFibers(amount, S, cut, to, Cuts)
      BY <1>3, <1>4 DEF IsFibers
    <2>2. QED
      BY <1>1, <2>1, SumFibers
  <1>8. SumFunctionOnSet(cut, Cuts) = SumFunctionOnSet(cut, Pairs)
    BY <1>1, <1>5, SumPart
  <1>9. SumFunctionOnSet(held2, Pairs) = SumFunctionOnSet(held, Pairs) + SumFunctionOnSet(cut, Pairs)
    BY <1>1, <1>2, SumPlus
  <1>10. QED
    BY <1>6, <1>7, <1>8, <1>9

\* A posting books what was received: the fee, the cuts that are held, and the
\* rest to the applicant; then it settles the cuts of those who accepted.
LEMMA CommitBooks ==
    ASSUME SplitsInv, BooksInv, NEW r \in Report, CommitPost(r)
    PROVE  BooksInv'
  <1> DEFINE cuts == posting[r]
             won == Apportion(report[r].received, report[r].gross)
             amount == [s \in DOMAIN cuts |-> Cut(won[TrackOf[s]], cuts[s].bps)]
             paying == {s \in DOMAIN cuts : cuts[s].status = "ACCEPTED" /\ amount[s] > 0}
             fees == [t \in Track |-> Fee(won[t])]
             nets == [t \in Track |-> won[t] - Fee(won[t])]
             fee == SumFunctionOnSet(fees, Track)
             net == SumFunctionOnSet(nets, Track)
             held == SumFunctionOnSet(amount, DOMAIN cuts)
             new == [alloc EXCEPT ![r] =
                       [s \in Share |-> IF s \in DOMAIN cuts /\ amount[s] > 0
                                        THEN [status |-> "HELD", amount |-> amount[s], to |-> None]
                                        ELSE NoCut]]
             booked == [books EXCEPT !.fee = @ + fee, !.held = @ + held,
                                     !.owner = @ + net - held]
  <1>0. /\ Shape /\ ReadStaysTrue /\ PostedHasStatus
        /\ SharesTyped /\ ReportsTyped /\ PostingTyped /\ AmountsTyped(alloc) /\ BooksTyped(books)
        /\ books.held = HeldIn(alloc) /\ Worth(books) = PostedIn(report)
    BY BalanceIs DEF SplitsInv, BooksInv
  <1>1. /\ cuts # None
        /\ report' = [report EXCEPT ![r].status = "POSTED", ![r].posted = @ + report[r].received]
        /\ posting' = [posting EXCEPT ![r] = None]
        /\ UNCHANGED <<share, asks, inbox, lease>>
        /\ alloc' = Settled(new, paying)
        /\ books' = Moved(booked, new, alloc')
    BY DEF CommitPost
  <1>2. /\ report[r].received \in Nat /\ report[r].gross \in [Track -> Nat]
        /\ \E t \in Track : report[r].gross[t] > 0
        /\ DOMAIN cuts \in SUBSET Share /\ \A s \in DOMAIN cuts : cuts[s].bps \in Nat
        /\ \A s \in Share : alloc[r][s].status = "NONE"
    BY <1>0, <1>1 DEF ReportsTyped, PostingTyped, ReadStaysTrue, PostedHasStatus
  <1>3. /\ IsFiniteSet(Track) /\ IsFiniteSet(Share) /\ IsFiniteSet(DOMAIN cuts) /\ IsFiniteSet(Report)
        /\ TrackOf \in [Share -> Track]
    BY <1>2, FS_Subset, SplitsAssumption
  <1>4. \A t \in Track : won[t] \in Nat
    BY <1>2, ApportionsAll
  <1>5. SumFunctionOnSet(won, Track) = report[r].received
    BY <1>2, ApportionsAll
  <1> HIDE DEF won
  <1>6. \A t \in Track : fees[t] \in Int /\ nets[t] \in Int /\ won[t] = fees[t] + nets[t]
    <2> TAKE t \in Track
    <2> DEFINE w == won[t]
    <2>1. w \in Nat /\ fees[t] = Fee(w) /\ nets[t] = w - Fee(w)
      BY <1>4
    <2> HIDE DEF w, fees, nets
    <2>2. Fee(w) \in Nat /\ w - Fee(w) \in Nat
      BY <2>1, FeeIs
    <2>3. w = fees[t] + nets[t] /\ fees[t] \in Int /\ nets[t] \in Int
      BY <2>1, <2>2
    <2>4. QED
      BY <2>3 DEF w
  <1>7. \A s \in DOMAIN cuts : amount[s] \in Nat
    BY <1>2, <1>3, <1>4, CutIs
  <1> HIDE DEF fees, nets
  <1>8. fee + net = report[r].received /\ fee \in Int /\ net \in Int
    BY <1>3, <1>5, <1>6, SumPlus, SumInt
  <1> HIDE DEF amount
  <1>9. held \in Nat
    BY <1>3, <1>7, SumNat
  <1>10. \A q \in Report, s \in Share :
           /\ q # r => new[q][s] = alloc[q][s]
           /\ new[r][s] = IF s \in DOMAIN cuts /\ amount[s] > 0
                          THEN [status |-> "HELD", amount |-> amount[s], to |-> None] ELSE NoCut
    BY <1>0 DEF Shape
  <1> HIDE DEF new
  <1>11. AmountsTyped(new) /\ \A q \in Report, s \in Share : DOMAIN new[q][s] = {"status", "amount", "to"}
    <2> SUFFICES ASSUME NEW q \in Report, NEW s \in Share
                 PROVE  /\ DOMAIN new[q][s] = {"status", "amount", "to"}
                        /\ new[q][s].amount \in Nat /\ new[q][s].to \in Account \cup {None}
      BY DEF AmountsTyped
    <2>1. CASE q = r /\ s \in DOMAIN cuts /\ amount[s] > 0
      <3>1. new[q][s] = [status |-> "HELD", amount |-> amount[s], to |-> None]
        BY <1>10, <2>1
      <3>2. amount[s] \in Nat
        BY <1>7, <2>1
      <3>3. QED
        BY <3>1, <3>2
    <2>2. CASE q = r /\ ~(s \in DOMAIN cuts /\ amount[s] > 0)
      <3>1. new[q][s] = NoCut
        BY <1>10, <2>2
      <3>2. QED
        BY <3>1 DEF NoCut
    <2>3. CASE q # r
      <3>1. new[q][s] = alloc[q][s]
        BY <1>10, <2>3
      <3>2. DOMAIN alloc[q][s] = {"status", "amount", "to"}
        BY <1>0 DEF Shape
      <3>3. alloc[q][s].amount \in Nat /\ alloc[q][s].to \in Account \cup {None}
        BY <1>0 DEF AmountsTyped
      <3>4. QED
        BY <3>1, <3>2, <3>3
    <2>4. QED
      BY <2>1, <2>2, <2>3
  <1>12. HeldIn(new) = HeldIn(alloc) + held
    <2>1. \A s \in Share :
             /\ HeldAmount(alloc[r][s]) = 0
             /\ HeldAmount(new[r][s]) = IF s \in DOMAIN cuts THEN amount[s] ELSE 0
      <3> TAKE s \in Share
      <3>1. HeldAmount(alloc[r][s]) = 0
        BY <1>2 DEF HeldAmount
      <3>2. CASE s \in DOMAIN cuts /\ amount[s] > 0
        <4>1. new[r][s] = [status |-> "HELD", amount |-> amount[s], to |-> None]
          BY <1>10, <3>2
        <4>2. QED
          BY <3>1, <3>2, <4>1 DEF HeldAmount
      <3>3. CASE ~(s \in DOMAIN cuts /\ amount[s] > 0)
        <4>1. new[r][s] = NoCut
          BY <1>10, <3>3
        <4>2. HeldAmount(new[r][s]) = 0
          BY <4>1 DEF HeldAmount, NoCut
        <4>3. s \in DOMAIN cuts => amount[s] = 0
          BY <1>7, <3>3
        <4>4. QED
          BY <3>1, <4>2, <4>3
      <3>4. QED
        BY <3>2, <3>3
    <2>2. \A q \in Report, s \in Share : q # r => new[q][s] = alloc[q][s]
      BY <1>10
    <2>3. QED
      BY <1>0, <1>2, <1>7, <1>11, <2>1, <2>2, CutsAreHeld, SMTT(30)
  <1>13. /\ BooksTyped(booked)
         /\ booked.held = books.held + held
         /\ Worth(booked) = Worth(books) + report[r].received
    <2>1. /\ DOMAIN booked = {"fee", "owner", "held", "paid"} /\ booked.paid = books.paid
          /\ booked.fee = books.fee + fee /\ booked.held = books.held + held
          /\ booked.owner = books.owner + net - held
      BY <1>0 DEF BooksTyped
    <2>2. SumFunctionOnSet(books.paid, Account) \in Int
      BY <1>0, SumInt, SplitsAssumption DEF BooksTyped
    <2> HIDE DEF booked, fee, net, held
    <2>3. BooksTyped(booked)
      BY <1>0, <1>8, <1>9, <2>1 DEF BooksTyped
    <2>4. Worth(booked) = Worth(books) + report[r].received
      BY <1>0, <1>8, <1>9, <2>1, <2>2 DEF BooksTyped, Worth
    <2>5. QED
      BY <2>1, <2>3, <2>4
  <1>14. MovesTo(new, alloc')
    <2>1. \A s \in Share : share'[s].account \in Account \cup {None}
      BY <1>0, <1>1 DEF SharesTyped
    <2>2. QED
      BY <1>1, <1>11, <2>1, SettledMoves
  <1> HIDE DEF booked, fee, net, held
  <1>15. /\ AmountsTyped(alloc') /\ BooksTyped(books')
         /\ books'.held = booked.held + HeldIn(alloc') - HeldIn(new)
         /\ Worth(books') = Worth(booked)
    BY <1>1, <1>11, <1>13, <1>14, MovedKeeps
  <1>16. books'.held = HeldIn(alloc')
    <2>1. HeldIn(alloc') \in Int /\ HeldIn(new) \in Int /\ HeldIn(alloc) \in Int
      BY <1>0, <1>11, <1>15, HeldIsInt
    <2>2. QED
      BY <1>0, <1>9, <1>12, <1>13, <1>15, <2>1
  <1>17. /\ \A q \in Report : /\ report'[q].gross = report[q].gross
                              /\ report'[q].received = report[q].received
                              /\ report'[q].posted = IF q = r THEN report[r].posted + report[r].received
                                                     ELSE report[q].posted
    BY <1>0, <1>1 DEF Shape
  <1>18. PostedIn(report') = PostedIn(report) + report[r].received
    <2> DEFINE posted == [q \in Report |-> report[q].posted]
               posted2 == [q \in Report |-> report'[q].posted]
    <2>1. \A q \in Report : /\ posted[q] \in Int /\ posted2[q] \in Int
                            /\ q # r => posted2[q] = posted[q]
      BY <1>0, <1>17 DEF ReportsTyped
    <2>2. posted2[r] = posted[r] + report[r].received
      BY <1>17
    <2>3. PostedIn(report) = SumFunctionOnSet(posted, Report)
          /\ PostedIn(report') = SumFunctionOnSet(posted2, Report)
      BY DEF PostedIn
    <2> HIDE DEF posted, posted2
    <2>4. SumFunctionOnSet(posted2, Report) = SumFunctionOnSet(posted, Report) + posted2[r] - posted[r]
      BY <1>3, <2>1, SumChange
    <2>5. SumFunctionOnSet(posted, Report) \in Int
      BY <1>3, <2>1, SumInt
    <2>6. QED
      BY <1>2, <2>1, <2>2, <2>3, <2>4, <2>5
  <1>19. SharesTyped' /\ ReportsTyped' /\ PostingTyped'
    <2>1. SharesTyped'
      BY <1>0, <1>1 DEF SharesTyped
    <2>2. ReportsTyped'
      BY <1>0, <1>17 DEF ReportsTyped
    <2>3. \A q \in Report : posting'[q] = IF q = r THEN None ELSE posting[q]
      BY <1>0, <1>1 DEF Shape
    <2>4. PostingTyped'
      BY <1>0, <1>17, <2>3 DEF PostingTyped
    <2>5. QED
      BY <2>1, <2>2, <2>4
  <1>20. BooksBalance'
    <2>1. PostedIn(report)' = PostedIn(report') /\ HeldIn(alloc)' = HeldIn(alloc')
          /\ Worth(books)' = Worth(books')
      BY DEF PostedIn, HeldIn, Worth
    <2>2. (books.held = HeldIn(alloc) /\ Worth(books) = PostedIn(report))'
      BY <1>0, <1>13, <1>15, <1>16, <1>18, <2>1
    <2>3. QED
      BY <2>2, BalanceIs, PTL
  <1>21. QED
    BY <1>15, <1>19, <1>20 DEF BooksInv, AmountsTyped, BooksTyped

\* Every step.
THEOREM NextBooks == SplitsInv /\ BooksInv /\ [Next]_vars => BooksInv'
  <1> SUFFICES ASSUME SplitsInv, BooksInv, [Next]_vars PROVE BooksInv'
    OBVIOUS
  <1> USE SplitsAssumption
  <1>1. ASSUME NEW plan \in [Share -> Row \cup {None}], Save(plan) PROVE BooksInv'
    BY <1>1, SaveBooks
  <1>2. ASSUME NEW s \in Share, Decline(s) PROVE BooksInv'
    BY <1>2, AnswerBooks DEF Decline
  <1>3. ASSUME NEW s \in Share, NEW a \in Account, Accept(s, a) PROVE BooksInv'
    BY <1>3, AnswerBooks DEF Accept
  <1>4. CASE \/ \E s \in Share : Resend(s)
             \/ \E d \in Sender :
                   \/ \E s \in Share : Lease(d, s)
                   \/ MakeLink(d) \/ Record(d) \/ Crash(d)
                   \/ \E delivered \in BOOLEAN, result \in {"SENT", "FAILED", "RETRY"} :
                         Mail(d, delivered, result)
    BY <1>4, InviteBooks
  <1>5. ASSUME NEW r \in Report,
               \/ \E gross \in Grosses : Ingest(r, gross)
               \/ \E all \in BOOLEAN : MatchReport(r, all)
               \/ \E amount \in Amounts : RecordReceipt(r, amount)
               \/ BeginPost(r) \/ AbortPost(r)
        PROVE  BooksInv'
    BY <1>5, ReportBooks
  <1>6. ASSUME NEW r \in Report, CommitPost(r) PROVE BooksInv'
    BY <1>6, CommitBooks
  <1>7. CASE UNCHANGED vars
    <2>1. SharesTyped' /\ ReportsTyped' /\ PostingTyped' /\ UNCHANGED <<report, alloc, books>>
      BY <1>7 DEF vars, BooksInv, SharesTyped, ReportsTyped, PostingTyped
    <2>2. QED
      BY <2>1, QuietBooks
  <1>8. QED
    BY <1>1, <1>2, <1>3, <1>4, <1>5, <1>6, <1>7 DEF Next

\* No won is lost: the books hold, owe and paid on what was received for the
\* posted reports, and SPLIT_HELD is what the allocations hold.
THEOREM NoWonIsLost == Spec => []BooksBalance
  <1>1. BooksInv => BooksBalance
    BY DEF BooksInv
  <1>2. QED
    BY InitSplits, NextSplits, InitBooks, NextBooks, <1>1, PTL DEF Spec

=============================================================================
