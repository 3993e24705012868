----------------------------- MODULE Marketing -----------------------------
(* Mailings to people who consented: campaigns, one mail to everybody, and  *)
(* a sequence of several mails to each.  Administrators write them, and     *)
(* start and stop them from the panel's two tables; one background loop     *)
(* sends them, within a daily quota.  Templates, bodies and times are left  *)
(* out: a sequence's next mail falls due at any time.  The audience is the  *)
(* opted-in contacts, one of three.                                         *)
EXTENDS InFlight, FiniteSets

CONSTANTS
  Emails,
  Campaigns,
  MaxSteps,     \* mails of a sequence; the server accepts 1 to 10
  DailyLimits,  \* what the settings accept
  Batch,        \* mails per tick and mailing
  MaxAttempts,
  MaxActs,      \* bound: what administrators ask for
  MaxFaults     \* bound: restarts of the server, failing requests

ASSUME MarketingAssumption ==
  /\ IsFiniteSet(Emails)
  /\ MaxSteps \in Nat \ {0} /\ Batch \in Nat \ {0} /\ MaxAttempts \in Nat \ {0}
  /\ DailyLimits \subseteq Nat \ {0} /\ DailyLimits # {} /\ "sequence" \notin Campaigns
  /\ Campaigns \cap (1..MaxSteps) = {}
  /\ MaxInFlight \in Nat \ {0} /\ {MaxActs, MaxFaults} \subseteq Nat

VARIABLES
  consents,    \* contacts with marketing_consent
  tokens,      \* marketing_unsubscribes: whom a link was made for
  campaign,
  recipient,   \* status per campaign and address
  sequence,    \* its status and number of mails
  enrolled,
  limit,       \* marketing_settings.daily_limit
  quota,       \* the day's row, if there is one
  worker,      \* the loop: where it is and what it has read
  mails,       \* history: mails sent
  today,       \* history: mails sent today
  turned,      \* history: a day began while the loop was at work
  crossed,     \* history: two acts were under way at once
  acts, faults

people == <<consents, tokens>>
mailing == <<campaign, recipient, sequence, enrolled>>
sending == <<limit, quota, worker, mails, today, turned>>
bounds == <<acts, faults>>
vars == <<people, mailing, sending, crossed, request, bounds>>

CampaignStatuses == {"none", "draft", "sending", "completed"}
RecipientStatuses == {"none", "pending", "sent", "failed"}
SequenceStatuses == {"none", "draft", "running", "paused", "cancelled", "completed"}
EnrollmentStatuses == {"none", "active", "unsubscribed", "converted", "completed", "failed"}

(* The builder adds and removes steps; the server accepts 1 to 10.          *)
BuilderSteps == 1..MaxSteps

Rows == Campaigns \cup {"sequence"}
StatusOf(row) == IF row = "sequence" THEN sequence.status ELSE campaign[row].status

(* What an administrator may ask for, and what the server accepts.          *)
AllowedFrom == [send |-> {"draft", "paused"}, launch |-> {"draft", "paused"},
                pause |-> {"running"}, resume |-> {"paused"},
                cancel |-> {"running", "paused", "draft"}]
NewStatus == [send |-> "sending", launch |-> "running", pause |-> "paused",
              resume |-> "running", cancel |-> "cancelled"]
KindsFor(row) == IF row = "sequence" THEN {"launch", "pause", "resume", "cancel"} ELSE {"send"}
Kinds == DOMAIN NewStatus
Mails == Campaigns \cup 1..MaxSteps

Act(kind, row) == [kind |-> kind, row |-> row, at |-> "server", audience |-> {}]
NoDay == [sent |-> 0, limit |-> 0]
Idle == [at |-> "idle", left |-> 0, todo |-> {}, of |-> "sequence", due |-> {}, to |-> {}]

Init ==
  /\ consents = Emails /\ tokens = {}
  /\ campaign = [c \in Campaigns |-> [status |-> "none", total |-> 0, sent |-> 0,
                                      failed |-> 0, pending |-> 0]]
  /\ recipient = [c \in Campaigns |-> [e \in Emails |-> "none"]]
  /\ sequence \in [status : {"none"}, steps : BuilderSteps]
  /\ enrolled = [e \in Emails |-> [status |-> "none", step |-> 0, attempts |-> 0]]
  /\ limit \in DailyLimits /\ quota = NoDay /\ worker = Idle
  /\ mails = [m \in Mails |-> [e \in Emails |-> 0]] /\ today = 0
  /\ turned = FALSE /\ crossed = FALSE
  /\ request = [i \in Slots |-> Free]
  /\ acts = 0 /\ faults = 0

----------------------------------------------------------------------------
(* Administrators write a campaign or a sequence, with what was chosen for   *)
(* it, as a draft.                                                          *)
CreateCampaign(c) ==
  /\ campaign[c].status = "none" /\ campaign' = [campaign EXCEPT ![c].status = "draft"]
  /\ UNCHANGED <<people, recipient, sequence, enrolled, sending, crossed, request, bounds>>

CreateSequence ==
  /\ sequence.status = "none" /\ sequence' = [sequence EXCEPT !.status = "draft"]
  /\ UNCHANGED <<people, campaign, recipient, enrolled, sending, crossed, request, bounds>>

(* A table shows a status the row had when it was loaded, and offers what   *)
(* that one allows, so anything may be asked for.  Pausing and resuming ask *)
(* for no confirmation, and the others' dialog can be closed while the      *)
(* request is under way: acts may overlap.                                  *)
AskFor(kind, row) ==
  /\ kind \in KindsFor(row) /\ StatusOf(row) # "none" /\ acts < MaxActs /\ acts' = acts + 1
  /\ Send(Act(kind, row)) /\ crossed' = (crossed \/ ~Quiet)
  /\ UNCHANGED <<people, mailing, sending, faults>>

(* The server's handlers.                                                   *)

(* Whoever has a row in marketing_unsubscribes is left out.                 *)
Audience == consents \ tokens

(* Mutant: the status is not checked.                                       *)
ReadMailingAny(i) ==
  LET r == request[i] IN
  /\ r.kind \in Kinds /\ r.at = "server"
  /\ GoesOn(i, [r EXCEPT !.at = "write", !.audience = IF r.kind \in {"send", "launch"}
                                                        THEN Audience ELSE {}])
  /\ UNCHANGED <<people, mailing, sending, crossed, bounds>>

(* The status is read and checked ...                                       *)
ReadMailing(i) ==
  LET r == request[i]
      ok == /\ StatusOf(r.row) \in AllowedFrom[r.kind]
            /\ r.kind \in {"send", "launch"} => Audience # {} IN
  /\ r.kind \in Kinds /\ r.at = "server"
  /\ IF ~ok THEN Ends(i)
     ELSE GoesOn(i, [r EXCEPT !.at = "write",
                      !.audience = IF r.kind \in {"send", "launch"} THEN Audience ELSE {}])
  /\ UNCHANGED <<people, mailing, sending, crossed, bounds>>

(* Mutant: ON CONFLICT the recipient becomes pending.                       *)
InsertRecipientsAgain(i) ==
  LET r == request[i] IN
  /\ r.kind = "send" /\ r.at = "write"
  /\ recipient' = [recipient EXCEPT ![r.row] =
       [e \in Emails |-> IF e \in r.audience THEN "pending" ELSE @[e]]]
  /\ GoesOn(i, [r EXCEPT !.at = "count"])
  /\ UNCHANGED <<people, campaign, sequence, enrolled, sending, crossed, bounds>>

(* ... and written later, whatever it has become.                           *)
InsertRecipients(i) ==
  LET r == request[i] IN
  /\ r.kind = "send" /\ r.at = "write"
  /\ recipient' = [recipient EXCEPT ![r.row] =
       [e \in Emails |-> IF e \in r.audience /\ @[e] = "none" THEN "pending" ELSE @[e]]]
  /\ GoesOn(i, [r EXCEPT !.at = "count"])
  /\ UNCHANGED <<people, campaign, sequence, enrolled, sending, crossed, bounds>>

MarkSending(i) ==
  LET r == request[i]  n == Cardinality(r.audience) IN
  /\ r.kind = "send" /\ r.at = "count"
  /\ campaign' = [campaign EXCEPT ![r.row].status = "sending", ![r.row].total = n,
                                  ![r.row].pending = n]
  /\ Ends(i)
  /\ UNCHANGED <<people, recipient, sequence, enrolled, sending, crossed, bounds>>

(* One transaction.                                                         *)
LaunchSequence(i) ==
  LET r == request[i] IN
  /\ r.kind = "launch" /\ r.at = "write"
  /\ enrolled' = [e \in Emails |-> IF e \in r.audience /\ enrolled[e].status = "none"
                                     THEN [enrolled[e] EXCEPT !.status = "active"]
                                     ELSE enrolled[e]]
  /\ sequence' = [sequence EXCEPT !.status = "running"] /\ Ends(i)
  /\ UNCHANGED <<people, campaign, recipient, sending, crossed, bounds>>

(* Mutant: the act is written for the status.                               *)
setSequenceKind(i) ==
  LET r == request[i] IN
  /\ r.kind \in {"pause", "resume", "cancel"} /\ r.at = "write"
  /\ sequence' = [sequence EXCEPT !.status = r.kind] /\ Ends(i)
  /\ UNCHANGED <<people, campaign, recipient, enrolled, sending, crossed, bounds>>

setSequenceStatus(i) ==
  LET r == request[i] IN
  /\ r.kind \in {"pause", "resume", "cancel"} /\ r.at = "write"
  /\ sequence' = [sequence EXCEPT !.status = NewStatus[r.kind]] /\ Ends(i)
  /\ UNCHANGED <<people, campaign, recipient, enrolled, sending, crossed, bounds>>

UpdateSettings(n) ==
  /\ n # limit /\ acts < MaxActs /\ limit' = n /\ acts' = acts + 1
  /\ UNCHANGED <<people, mailing, quota, worker, mails, today, turned, crossed,
                 request, faults>>

(* A link that was mailed is followed.                                      *)
Unsubscribe(e) ==
  /\ e \in tokens /\ e \in consents /\ consents' = consents \ {e}
  /\ UNCHANGED <<tokens, mailing, sending, crossed, request, bounds>>

----------------------------------------------------------------------------
(* The loop.  Each tick takes the campaigns that are being sent, then the   *)
(* sequence's mails that are due.                                           *)

effectiveDailyLimit == limit
Remaining == (IF limit < quota.limit THEN limit ELSE quota.limit) - quota.sent

(* The first look of a day makes its row.                                   *)
Looked == IF quota = NoDay THEN [sent |-> 0, limit |-> effectiveDailyLimit] ELSE quota
Left == IF quota = NoDay THEN effectiveDailyLimit ELSE Remaining
incrementQuota == [Looked EXCEPT !.sent = @ + 1]

AtMost(n) == IF n < Batch THEN n ELSE Batch

processQueue ==
  /\ worker.at = "idle" /\ Left > 0
  /\ quota' = Looked
  /\ worker' = [Idle EXCEPT !.at = "campaigns", !.left = Left,
                            !.todo = {c \in Campaigns : campaign[c].status = "sending"}]
  /\ UNCHANGED <<people, mailing, limit, mails, today, turned, crossed, request, bounds>>

Pending(c) == {e \in Emails : recipient[c][e] = "pending"}

TakeRecipients(c) ==
  /\ worker.at = "campaigns" /\ worker.left > 0 /\ c \in worker.todo /\ Pending(c) # {}
  /\ \E due \in SUBSET Pending(c) :
       /\ Cardinality(due) = AtMost(worker.left) \/ (due = Pending(c)
                                                     /\ Cardinality(due) < AtMost(worker.left))
       /\ worker' = [worker EXCEPT !.at = "recipients", !.of = c, !.due = due]
  /\ UNCHANGED <<people, mailing, limit, quota, mails, today, turned, crossed, request, bounds>>

completeCampaign(c) ==
  /\ worker.at = "campaigns" /\ worker.left > 0 /\ c \in worker.todo /\ Pending(c) = {}
  /\ campaign' = [campaign EXCEPT ![c].status = "completed"]
  /\ worker' = [worker EXCEPT !.todo = @ \ {c}]
  /\ UNCHANGED <<people, recipient, sequence, enrolled, limit, quota, mails, today, turned,
                 crossed, request, bounds>>

(* The link's token is stored, then the mail is sent.                       *)
Mail(m, e) ==
  /\ tokens' = tokens \cup {e} /\ mails' = [mails EXCEPT ![m][e] = @ + 1] /\ today' = today + 1

MailRecipient(e) ==
  /\ worker.at = "recipients" /\ e \in worker.due
  /\ Mail(worker.of, e)
  /\ worker' = [worker EXCEPT !.at = "mark", !.to = {e}]
  /\ UNCHANGED <<consents, mailing, limit, quota, turned, crossed, request, bounds>>

(* The rest of the batch, or the next campaign.                             *)
NextRecipient(e) ==
  IF worker.due = {e} THEN [worker EXCEPT !.at = "campaigns", !.due = {}, !.to = {},
                                          !.todo = @ \ {worker.of}]
  ELSE [worker EXCEPT !.at = "recipients", !.due = @ \ {e}, !.to = {}]

(* Mutant: only a mail that was sent is no longer pending.                  *)
MailFailedPending(e) ==
  /\ worker.at = "recipients" /\ e \in worker.due
  /\ tokens' = tokens \cup {e}
  /\ recipient' = [recipient EXCEPT ![worker.of][e] = "failed"]
  /\ campaign' = [campaign EXCEPT ![worker.of].failed = @ + 1]
  /\ worker' = NextRecipient(e)
  /\ UNCHANGED <<consents, sequence, enrolled, limit, quota, mails, today, turned, crossed,
                 request, bounds>>

MailFailed(e) ==
  /\ worker.at = "recipients" /\ e \in worker.due
  /\ tokens' = tokens \cup {e}
  /\ recipient' = [recipient EXCEPT ![worker.of][e] = "failed"]
  /\ campaign' = [campaign EXCEPT ![worker.of].failed = @ + 1, ![worker.of].pending = @ - 1]
  /\ worker' = NextRecipient(e)
  /\ UNCHANGED <<consents, sequence, enrolled, limit, quota, mails, today, turned,
                 crossed, request, bounds>>

MarkSent(e) ==
  /\ worker.at = "mark" /\ e \in worker.to
  /\ recipient' = [recipient EXCEPT ![worker.of][e] = "sent"]
  /\ campaign' = [campaign EXCEPT ![worker.of].sent = @ + 1, ![worker.of].pending = @ - 1]
  /\ quota' = incrementQuota
  /\ worker' = [NextRecipient(e) EXCEPT !.left = @ - 1]
  /\ UNCHANGED <<people, sequence, enrolled, limit, mails, today, turned, crossed,
                 request, bounds>>

Active == {e \in Emails : enrolled[e].status = "active"}

(* Enrollments that are due, if the quota leaves any.                       *)
processSequenceTick ==
  /\ worker.at = "campaigns" /\ (worker.todo = {} \/ worker.left <= 0)
  /\ quota' = Looked
  /\ \E due \in SUBSET (IF sequence.status = "running" THEN Active ELSE {}) :
       /\ due # {} => Cardinality(due) <= AtMost(Left)
       /\ worker' = IF due = {} THEN Idle
                    ELSE [Idle EXCEPT !.at = "enrollments", !.due = due]
  /\ UNCHANGED <<people, mailing, limit, mails, today, turned, crossed, request, bounds>>

NextEnrollment(e) ==
  IF worker.due = {e} THEN Idle
  ELSE [worker EXCEPT !.at = "enrollments", !.due = @ \ {e}, !.to = {}]

(* Whoever has a row in marketing_unsubscribes counts as unsubscribed; who  *)
(* became a merchant is done with.                                          *)
SkipEnrollment(e) ==
  /\ worker.at = "enrollments" /\ e \in worker.due
  /\ enrolled' = [enrolled EXCEPT ![e].status = IF e \in tokens THEN "unsubscribed" ELSE "converted"]
  /\ worker' = NextEnrollment(e)
  /\ UNCHANGED <<people, campaign, recipient, sequence, limit, quota, mails, today, turned,
                 crossed, request, bounds>>

MailStep(e) ==
  /\ worker.at = "enrollments" /\ e \in worker.due /\ e \notin tokens
  /\ Mail(enrolled[e].step + 1, e)
  /\ worker' = [worker EXCEPT !.at = "advance", !.to = {e}]
  /\ UNCHANGED <<consents, mailing, limit, quota, turned, crossed, request, bounds>>

markEnrollmentFailed(e) ==
  /\ worker.at = "enrollments" /\ e \in worker.due /\ e \notin tokens
  /\ tokens' = tokens \cup {e}
  /\ enrolled' = [enrolled EXCEPT ![e].attempts = @ + 1,
       ![e].status = IF enrolled[e].attempts + 1 >= MaxAttempts THEN "failed" ELSE @]
  /\ worker' = NextEnrollment(e)
  /\ UNCHANGED <<consents, campaign, recipient, sequence, limit, quota, mails, today, turned,
                 crossed, request, bounds>>

(* After the last step the enrollment is complete, and the sequence with    *)
(* the last one.                                                            *)
AdvanceEnrollment(e) ==
  LET last == enrolled[e].step + 1 = sequence.steps IN
  /\ worker.at = "advance" /\ e \in worker.to
  /\ enrolled' = [enrolled EXCEPT ![e].step = @ + 1, ![e].status = IF last THEN "completed" ELSE @]
  /\ IF last THEN worker' = [worker EXCEPT !.at = "finish"] /\ UNCHANGED quota
     ELSE worker' = NextEnrollment(e) /\ quota' = incrementQuota
  /\ UNCHANGED <<people, campaign, recipient, sequence, limit, mails, today, turned,
                 crossed, request, bounds>>

(* Mutant: a sequence's last mail is not booked.                            *)
maybeCompleteUnbooked(e) ==
  /\ worker.at = "finish" /\ e \in worker.to
  /\ sequence' = [sequence EXCEPT !.status = IF Active = {} THEN "completed" ELSE @]
  /\ worker' = NextEnrollment(e)
  /\ UNCHANGED <<people, campaign, recipient, enrolled, limit, quota, mails, today, turned,
                 crossed, request, bounds>>

maybeCompleteSequence(e) ==
  /\ worker.at = "finish" /\ e \in worker.to
  /\ sequence' = [sequence EXCEPT !.status = IF Active = {} THEN "completed" ELSE @]
  /\ quota' = incrementQuota
  /\ worker' = NextEnrollment(e)
  /\ UNCHANGED <<people, campaign, recipient, enrolled, limit, mails, today, turned,
                 crossed, request, bounds>>

(* The quota's day begins at 17:00 in Madrid.                               *)
NewDay ==
  /\ quota # NoDay
  /\ quota' = NoDay /\ today' = 0 /\ turned' = (worker.at # "idle")
  /\ UNCHANGED <<people, mailing, limit, worker, mails, crossed, request, bounds>>

(* The server stops and starts again: the loop from the top, requests lost. *)
Restart ==
  /\ faults < MaxFaults /\ faults' = faults + 1
  /\ worker' = Idle
  /\ request' = [i \in Slots |-> Free]
  /\ UNCHANGED <<people, mailing, limit, quota, mails, today, turned, crossed, acts>>

----------------------------------------------------------------------------
Work ==
  \/ processQueue \/ processSequenceTick
  \/ \E c \in Campaigns : TakeRecipients(c) \/ completeCampaign(c)
  \/ \E e \in Emails :
       \/ MailRecipient(e) \/ MailFailed(e) \/ MarkSent(e)
       \/ SkipEnrollment(e) \/ MailStep(e) \/ markEnrollmentFailed(e)
       \/ AdvanceEnrollment(e) \/ maybeCompleteSequence(e)

Next ==
  \/ Work \/ NewDay \/ Restart
  \/ \E i \in Slots :
       \/ ReadMailing(i) \/ InsertRecipients(i) \/ MarkSending(i) \/ LaunchSequence(i)
       \/ setSequenceStatus(i)
  \/ CreateSequence \/ \E c \in Campaigns : CreateCampaign(c)
  \/ \E n \in DailyLimits : UpdateSettings(n)
  \/ \E e \in Emails : Unsubscribe(e)
  \/ \E kind \in Kinds, row \in Rows : AskFor(kind, row)

Spec == Init /\ [][Next]_vars

(* The loop is a goroutine with a ticker, and days pass.                    *)
FairSpec == Spec /\ WF_vars(Work) /\ WF_vars(NewDay /\ worker.at = "idle")

----------------------------------------------------------------------------
(* What the mailings promise.                                               *)

Row == [status : CampaignStatuses, total : Nat, sent : Nat, failed : Nat, pending : Int]
Enrollment == [status : EnrollmentStatuses, step : 0..MaxSteps, attempts : 0..MaxAttempts]
Worker == [at : {"idle", "campaigns", "recipients", "mark", "enrollments", "advance", "finish"},
           left : Int, todo : SUBSET Campaigns, of : Rows, due : SUBSET Emails, to : SUBSET Emails]

(* Types of what the database and the loop hold.                            *)
TypeOK ==
  /\ consents \subseteq Emails /\ tokens \subseteq Emails
  /\ campaign \in [Campaigns -> Row]
  /\ recipient \in [Campaigns -> [Emails -> RecipientStatuses]]
  /\ sequence \in [status : SequenceStatuses, steps : 1..MaxSteps] /\ enrolled \in [Emails -> Enrollment]
  /\ limit \in DailyLimits /\ quota \in [sent : Nat, limit : Nat] /\ worker \in Worker

(* Nobody gets a mail twice, however often a campaign is sent or a sequence *)
(* resumed, unless the server stops between a mail and its mark             *)
(* (service.go:393-413: the mail goes out first).                           *)
MailedOnce == faults = 0 => \A m \in Mails, e \in Emails : mails[m][e] <= 1

(* The loop counts on what it read when its tick began, sends at most that  *)
(* and books every mail: no day's row is exceeded (service.go:298, 472).    *)
QuotaKept == faults = 0 /\ ~turned /\ quota # NoDay => today <= quota.limit

(* The counters, kept beside the rows they count and set anew by every      *)
(* send, agree with them in the end (service.go:254-258, 399-413).          *)
CountersAgree ==
  faults = 0 /\ ~crossed => \A c \in Campaigns :
    LET With(s) == Cardinality({e \in Emails : recipient[c][e] = s}) IN
    campaign[c].status = "completed" =>
      /\ campaign[c].sent = With("sent") /\ campaign[c].failed = With("failed")
      /\ campaign[c].pending = 0
      /\ campaign[c].total = campaign[c].sent + campaign[c].failed

(* "This cannot be undone" (marketing-page.tsx:117): as long as acts do not *)
(* overlap, a canceled sequence does not run again, whatever tables show.   *)
(* The loop may still complete it.                                          *)
CancelledStays ==
  [][sequence.status = "cancelled" /\ ~crossed
       => sequence'.status \in {"cancelled", "completed"}]_sequence

(* A campaign that is being sent is completed.                              *)
CampaignEnds == \A c \in Campaigns :
  campaign[c].status = "sending" ~> campaign[c].status = "completed"

(* Only who asked for it counts as unsubscribed: the row of                 *)
(* marketing_unsubscribes written with each mail holds a link's token.      *)
UnsubscribedAsked ==
  \A e \in Emails : enrolled[e].status = "unsubscribed" => e \notin consents
=============================================================================
