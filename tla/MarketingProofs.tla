-------------------------- MODULE MarketingProofs --------------------------
(* Proofs about Marketing, for any addresses, campaigns, limits and any     *)
(* number of acts and restarts.                                             *)
EXTENDS Marketing, FiniteSetTheorems, TLAPS

(* What is under way.                                                       *)
Requests == [kind : Kinds, row : Rows, at : {"server", "write", "count"}, audience : SUBSET Emails]
RequestsTyped ==
  /\ request \in [Slots -> Requests \cup {Free}]
  /\ \A i \in Slots : request[i] # Free => (request[i].kind = "send" <=> request[i].row \in Campaigns)

HistoryTyped == mails \in [Mails -> [Emails -> Nat]] /\ today \in Nat /\ faults \in Nat

(* A batch is what it was when it was read.                                 *)
BatchStands ==
  /\ worker.at \in {"recipients", "mark"} =>
       worker.of \in Campaigns /\ \A e \in worker.due : recipient[worker.of][e] = "pending"
  /\ worker.at \in {"enrollments", "advance"} => \A e \in worker.due : enrolled[e].status = "active"
  /\ worker.at = "finish" => \A e \in worker.due \ worker.to : enrolled[e].status = "active"
  /\ worker.at \in {"mark", "advance", "finish"} => \E e \in worker.due : worker.to = {e}

(* Who is enrolled has steps, and attempts, left.                           *)
StepsLeft == \A e \in Emails :
  /\ enrolled[e].status = "active" =>
       enrolled[e].step < sequence.steps /\ enrolled[e].attempts < MaxAttempts
  /\ enrolled[e].status = "none" => enrolled[e].step = 0 /\ enrolled[e].attempts = 0

Inv == TypeOK /\ RequestsTyped /\ HistoryTyped /\ BatchStands /\ StepsLeft

----------------------------------------------------------------------------
(* A subset of the addresses has a number of elements.                      *)
LEMMA AudienceCounted ==
  ASSUME NEW S \in SUBSET Emails
  PROVE  Cardinality(S) \in Nat
BY FS_Subset, FS_CardinalityType, MarketingAssumption

(* The quota's row stays one, and what is left is an integer.               *)
LEMMA QuotaTyped ==
  ASSUME TypeOK
  PROVE  /\ Looked \in [sent : Nat, limit : Nat] /\ incrementQuota \in [sent : Nat, limit : Nat]
         /\ Left \in Int
BY MarketingAssumption
   DEF TypeOK, Looked, incrementQuota, Left, Remaining, effectiveDailyLimit, NoDay

LEMMA InitInv == Init => Inv
<1> SUFFICES ASSUME Init PROVE Inv OBVIOUS
<1> USE MarketingAssumption DEF Init
<1>1. TypeOK
  BY DEF TypeOK, Row, CampaignStatuses, RecipientStatuses, SequenceStatuses, EnrollmentStatuses,
         Enrollment, Worker, Idle, NoDay, Rows, BuilderSteps
<1>2. RequestsTyped BY DEF RequestsTyped, Free
<1>3. HistoryTyped BY DEF HistoryTyped
<1>4. BatchStands BY DEF BatchStands, Idle
<1>5. StepsLeft BY DEF StepsLeft
<1> QED BY <1>1, <1>2, <1>3, <1>4, <1>5 DEF Inv

----------------------------------------------------------------------------
(* The kinds of acts, one by one.                                           *)
LEMMA KindsListed == Kinds = {"send", "launch", "pause", "resume", "cancel"}
BY DEF Kinds, NewStatus

(* A slot is emptied, or its request goes on.                               *)
LEMMA EndsTyped ==
  ASSUME RequestsTyped, NEW i \in Slots, Ends(i)
  PROVE  RequestsTyped'
BY DEF RequestsTyped, Ends

LEMMA GoesOnTyped ==
  ASSUME RequestsTyped, NEW i \in Slots, request[i] # Free, NEW a \in {"server", "write", "count"},
         NEW S \in SUBSET Emails, GoesOn(i, [request[i] EXCEPT !.at = a, !.audience = S])
  PROVE  RequestsTyped'
<1>1. request[i] \in Requests BY DEF RequestsTyped
<1>2. [request[i] EXCEPT !.at = a, !.audience = S] \in Requests BY <1>1 DEF Requests
<1>3. [request[i] EXCEPT !.at = a, !.audience = S].kind = request[i].kind
      /\ [request[i] EXCEPT !.at = a, !.audience = S].row = request[i].row
  BY <1>1 DEF Requests
<1> QED BY <1>1, <1>2, <1>3 DEF RequestsTyped, GoesOn

(* A request is not an empty slot.                                          *)
LEMMA ActIsSent == ASSUME NEW i \in Slots, request[i].kind \in Kinds PROVE request[i] # Free
BY KindsListed DEF Free

----------------------------------------------------------------------------
(* What administrators ask for and what the handlers write.                 *)
LEMMA AskInv ==
  ASSUME Inv, NEW kind \in Kinds, NEW row \in Rows, AskFor(kind, row)
  PROVE  Inv'
<1>1. UNCHANGED <<people, mailing, sending, faults>> BY DEF AskFor
<1>2. TypeOK' BY <1>1 DEF Inv, TypeOK, people, mailing, sending
<1>3. RequestsTyped'
  <2>1. PICK i \in FreeSlots : request' = [request EXCEPT ![i] = Act(kind, row)]
    BY DEF AskFor, Send
  <2>2. i \in Slots BY DEF FreeSlots
  <2>3. Act(kind, row) \in Requests BY DEF Act, Requests
  <2>4. kind = "send" <=> row \in Campaigns
    BY MarketingAssumption, KindsListed DEF AskFor, KindsFor, Rows
  <2> QED BY <2>1, <2>2, <2>3, <2>4 DEF Inv, RequestsTyped, Act
<1>4. HistoryTyped' BY <1>1 DEF Inv, HistoryTyped, sending
<1>5. BatchStands' BY <1>1 DEF Inv, BatchStands, sending, mailing
<1>6. StepsLeft' BY <1>1 DEF Inv, StepsLeft, mailing
<1> QED BY <1>2, <1>3, <1>4, <1>5, <1>6 DEF Inv

LEMMA ReadInv ==
  ASSUME Inv, NEW i \in Slots, ReadMailing(i)
  PROVE  Inv'
<1>1. UNCHANGED <<people, mailing, sending, bounds>> BY DEF ReadMailing
<1>2. TypeOK' BY <1>1 DEF Inv, TypeOK, people, mailing, sending
<1>3. RequestsTyped'
  <2>1. request[i] # Free BY ActIsSent DEF ReadMailing
  <2>2. Audience \in SUBSET Emails BY DEF Inv, TypeOK, Audience
  <2>3. CASE Ends(i) BY <2>3, EndsTyped DEF Inv
  <2> DEFINE S == IF request[i].kind \in {"send", "launch"} THEN Audience ELSE {}
  <2>5. S \in SUBSET Emails BY <2>2
  <2>4. CASE GoesOn(i, [request[i] EXCEPT !.at = "write", !.audience = S])
    <3> HIDE DEF S
    <3> QED BY <2>1, <2>5, <2>4, GoesOnTyped DEF Inv
  <2> QED BY <2>3, <2>4 DEF ReadMailing
<1>4. HistoryTyped' BY <1>1 DEF Inv, HistoryTyped, sending, bounds
<1>5. BatchStands' BY <1>1 DEF Inv, BatchStands, sending, mailing
<1>6. StepsLeft' BY <1>1 DEF Inv, StepsLeft, mailing
<1> QED BY <1>2, <1>3, <1>4, <1>5, <1>6 DEF Inv

LEMMA InsertInv ==
  ASSUME Inv, NEW i \in Slots, InsertRecipients(i)
  PROVE  Inv'
<1> DEFINE r == request[i]
<1>1. UNCHANGED <<people, campaign, sequence, enrolled, sending, bounds>> BY DEF InsertRecipients
<1>2. request[i] # Free BY ActIsSent, KindsListed DEF InsertRecipients
<1>3. r.row \in Campaigns /\ r.audience \in SUBSET Emails
  BY <1>2 DEF Inv, RequestsTyped, InsertRecipients, Requests
<1>4. \A c \in Campaigns, e \in Emails :
        /\ recipient[c][e] # "none" => recipient'[c][e] = recipient[c][e]
        /\ recipient'[c][e] \in RecipientStatuses
  BY <1>3 DEF Inv, TypeOK, InsertRecipients, RecipientStatuses
<1>5. TypeOK'
  <2>1. recipient' \in [Campaigns -> [Emails -> RecipientStatuses]]
    BY <1>3 DEF Inv, TypeOK, InsertRecipients, RecipientStatuses
  <2> QED BY <1>1, <2>1 DEF Inv, TypeOK, people, sending
<1>6. RequestsTyped'
  <2>1. GoesOn(i, [request[i] EXCEPT !.at = "count", !.audience = request[i].audience])
    BY <1>2 DEF Inv, RequestsTyped, Requests, InsertRecipients, GoesOn
  <2> QED BY <1>2, <1>3, <2>1, GoesOnTyped DEF Inv
<1>7. HistoryTyped' BY <1>1 DEF Inv, HistoryTyped, sending, bounds
<1>8. BatchStands'
  <2>1. worker' = worker /\ enrolled' = enrolled BY <1>1 DEF sending
  <2>2. worker.due \subseteq Emails BY DEF Inv, TypeOK, Worker
  <2> QED BY <1>4, <2>1, <2>2 DEF Inv, BatchStands
<1>9. StepsLeft' BY <1>1 DEF Inv, StepsLeft
<1> QED BY <1>5, <1>6, <1>7, <1>8, <1>9 DEF Inv

LEMMA MarkSendingInv ==
  ASSUME Inv, NEW i \in Slots, MarkSending(i)
  PROVE  Inv'
<1> DEFINE r == request[i]  n == Cardinality(r.audience)
<1>1. UNCHANGED <<people, recipient, sequence, enrolled, sending, bounds>> BY DEF MarkSending
<1>2. request[i] # Free BY ActIsSent, KindsListed DEF MarkSending
<1>3. r.row \in Campaigns /\ r.audience \in SUBSET Emails
  BY <1>2 DEF Inv, RequestsTyped, MarkSending, Requests
<1>4. n \in Nat BY <1>3, AudienceCounted
<1>5. TypeOK'
  <2> HIDE DEF n
  <2>1. campaign' = [campaign EXCEPT ![r.row].status = "sending", ![r.row].total = n,
                                     ![r.row].pending = n]
    BY DEF MarkSending, n
  <2>2. campaign' \in [Campaigns -> Row]
    BY <1>3, <1>4, <2>1 DEF Inv, TypeOK, Row, CampaignStatuses
  <2> QED BY <1>1, <2>2 DEF Inv, TypeOK, people, sending
<1>6. RequestsTyped' BY EndsTyped DEF Inv, MarkSending
<1>7. HistoryTyped' BY <1>1 DEF Inv, HistoryTyped, sending, bounds
<1>8. BatchStands' BY <1>1 DEF Inv, BatchStands, sending
<1>9. StepsLeft' BY <1>1 DEF Inv, StepsLeft
<1> QED BY <1>5, <1>6, <1>7, <1>8, <1>9 DEF Inv

LEMMA LaunchInv ==
  ASSUME Inv, NEW i \in Slots, LaunchSequence(i)
  PROVE  Inv'
<1>1. UNCHANGED <<people, campaign, recipient, sending, bounds>> BY DEF LaunchSequence
<1>2. \A e \in Emails :
        /\ enrolled'[e] \in Enrollment
        /\ enrolled'[e].step = enrolled[e].step /\ enrolled'[e].attempts = enrolled[e].attempts
        /\ enrolled'[e].status = enrolled[e].status
           \/ (enrolled[e].status = "none" /\ enrolled'[e].status = "active")
  BY DEF Inv, TypeOK, LaunchSequence, Enrollment, EnrollmentStatuses
<1>3. sequence' \in [status : SequenceStatuses, steps : 1..MaxSteps] /\ sequence'.steps = sequence.steps
  BY DEF Inv, TypeOK, LaunchSequence, SequenceStatuses
<1>4. TypeOK'
  <2>1. enrolled' \in [Emails -> Enrollment] BY <1>2 DEF LaunchSequence
  <2> QED BY <1>1, <1>3, <2>1 DEF Inv, TypeOK, people, sending
<1>5. RequestsTyped' BY EndsTyped DEF Inv, LaunchSequence
<1>6. HistoryTyped' BY <1>1 DEF Inv, HistoryTyped, sending, bounds
<1>7. BatchStands'
  <2>1. worker.due \subseteq Emails BY DEF Inv, TypeOK, Worker
  <2> QED BY <1>1, <1>2, <2>1 DEF Inv, BatchStands, sending
<1>8. StepsLeft'
  BY <1>2, <1>3, MarketingAssumption DEF Inv, TypeOK, StepsLeft
<1> QED BY <1>4, <1>5, <1>6, <1>7, <1>8 DEF Inv

LEMMA StatusInv ==
  ASSUME Inv, NEW i \in Slots, setSequenceStatus(i)
  PROVE  Inv'
<1>1. UNCHANGED <<people, campaign, recipient, enrolled, sending, bounds>> BY DEF setSequenceStatus
<1>2. sequence' \in [status : SequenceStatuses, steps : 1..MaxSteps] /\ sequence'.steps = sequence.steps
  BY DEF Inv, TypeOK, setSequenceStatus, NewStatus, SequenceStatuses
<1>3. TypeOK' BY <1>1, <1>2 DEF Inv, TypeOK, people, sending
<1>4. RequestsTyped' BY EndsTyped DEF Inv, setSequenceStatus
<1>5. HistoryTyped' BY <1>1 DEF Inv, HistoryTyped, sending, bounds
<1>6. BatchStands' BY <1>1 DEF Inv, BatchStands, sending
<1>7. StepsLeft' BY <1>1, <1>2 DEF Inv, StepsLeft
<1> QED BY <1>3, <1>4, <1>5, <1>6, <1>7 DEF Inv

----------------------------------------------------------------------------
(* The loop.                                                                *)

(* What is left of a batch after one of it.                                 *)
LEMMA RestOfBatch ==
  ASSUME TypeOK, NEW e \in worker.due
  PROVE  /\ NextRecipient(e) \in Worker /\ NextEnrollment(e) \in Worker
         /\ NextRecipient(e).at \in {"campaigns", "recipients"}
         /\ NextRecipient(e).of = worker.of /\ NextRecipient(e).due = worker.due \ {e}
         /\ NextEnrollment(e).at \in {"idle", "enrollments"}
         /\ NextEnrollment(e).due = worker.due \ {e}
<1>1. worker \in Worker BY DEF TypeOK
<1>2. CASE worker.due = {e}
  <2>1. NextEnrollment(e) = Idle BY <1>2 DEF NextEnrollment
  <2>2. NextRecipient(e) = [worker EXCEPT !.at = "campaigns", !.due = {}, !.to = {},
                                          !.todo = @ \ {worker.of}]
    BY <1>2 DEF NextRecipient
  <2>3. Idle \in Worker /\ Idle.at = "idle" /\ Idle.due = {} BY DEF Idle, Worker, Rows
  <2>4. NextRecipient(e) \in Worker BY <1>1, <2>2 DEF Worker
  <2> QED BY <1>1, <1>2, <2>1, <2>2, <2>3, <2>4 DEF Worker
<1>3. CASE worker.due # {e}
  <2>1. NextEnrollment(e) = [worker EXCEPT !.at = "enrollments", !.due = @ \ {e}, !.to = {}]
    BY <1>3 DEF NextEnrollment
  <2>2. NextRecipient(e) = [worker EXCEPT !.at = "recipients", !.due = @ \ {e}, !.to = {}]
    BY <1>3 DEF NextRecipient
  <2>3. NextRecipient(e) \in Worker BY <1>1, <2>2 DEF Worker
  <2>4. NextEnrollment(e) \in Worker BY <1>1, <2>1 DEF Worker
  <2> QED BY <1>1, <2>1, <2>2, <2>3, <2>4 DEF Worker
<1> QED BY <1>2, <1>3

LEMMA RestTyped ==
  ASSUME RequestsTyped, UNCHANGED request
  PROVE  RequestsTyped'
BY DEF RequestsTyped

LEMMA TickInv ==
  ASSUME Inv, processQueue
  PROVE  Inv'
<1>1. UNCHANGED <<people, mailing, limit, mails, today, request, bounds>> BY DEF processQueue
<1>2. worker' \in Worker /\ worker'.at = "campaigns"
  BY QuotaTyped DEF Inv, processQueue, Worker, Idle, Rows
<1>3. TypeOK' BY <1>1, <1>2, QuotaTyped DEF Inv, TypeOK, processQueue, people, mailing
<1>4. RequestsTyped' BY <1>1, RestTyped DEF Inv
<1>5. HistoryTyped' BY <1>1 DEF Inv, HistoryTyped, bounds
<1>6. BatchStands' BY <1>2 DEF BatchStands
<1>7. StepsLeft' BY <1>1 DEF Inv, StepsLeft, mailing
<1> QED BY <1>3, <1>4, <1>5, <1>6, <1>7 DEF Inv

LEMMA TakeInv ==
  ASSUME Inv, NEW c \in Campaigns, TakeRecipients(c)
  PROVE  Inv'
<1>1. UNCHANGED <<people, mailing, limit, quota, mails, today, request, bounds>> BY DEF TakeRecipients
<1>2. PICK due \in SUBSET Pending(c) :
        worker' = [worker EXCEPT !.at = "recipients", !.of = c, !.due = due]
  BY DEF TakeRecipients
<1>3. worker' \in Worker /\ worker'.at = "recipients" /\ worker'.of = c /\ worker'.due = due
  BY <1>2 DEF Inv, TypeOK, Worker, Pending, Rows
<1>4. TypeOK' BY <1>1, <1>3 DEF Inv, TypeOK, people, mailing
<1>5. RequestsTyped' BY <1>1, RestTyped DEF Inv
<1>6. HistoryTyped' BY <1>1 DEF Inv, HistoryTyped, bounds
<1>7. BatchStands' BY <1>1, <1>3 DEF BatchStands, Pending, mailing
<1>8. StepsLeft' BY <1>1 DEF Inv, StepsLeft, mailing
<1> QED BY <1>4, <1>5, <1>6, <1>7, <1>8 DEF Inv

LEMMA CompleteInv ==
  ASSUME Inv, NEW c \in Campaigns, completeCampaign(c)
  PROVE  Inv'
<1>1. UNCHANGED <<people, recipient, sequence, enrolled, limit, quota, mails, today, request, bounds>>
  BY DEF completeCampaign
<1>2. worker' \in Worker /\ worker'.at = "campaigns" BY DEF Inv, TypeOK, Worker, completeCampaign
<1>3. campaign' \in [Campaigns -> Row]
  BY DEF Inv, TypeOK, completeCampaign, Row, CampaignStatuses
<1>4. TypeOK' BY <1>1, <1>2, <1>3 DEF Inv, TypeOK, people
<1>5. RequestsTyped' BY <1>1, RestTyped DEF Inv
<1>6. HistoryTyped' BY <1>1 DEF Inv, HistoryTyped, bounds
<1>7. BatchStands' BY <1>2 DEF BatchStands
<1>8. StepsLeft' BY <1>1 DEF Inv, StepsLeft
<1> QED BY <1>4, <1>5, <1>6, <1>7, <1>8 DEF Inv

(* A mail is counted.                                                       *)
LEMMA MailTyped ==
  ASSUME HistoryTyped, tokens \in SUBSET Emails, NEW m \in Mails, NEW e \in Emails, Mail(m, e),
         UNCHANGED faults
  PROVE  HistoryTyped' /\ tokens' \in SUBSET Emails
BY DEF HistoryTyped, Mail

LEMMA MailRecipientInv ==
  ASSUME Inv, NEW e \in Emails, MailRecipient(e)
  PROVE  Inv'
<1>1. UNCHANGED <<consents, mailing, limit, quota, request, bounds>> BY DEF MailRecipient
<1>2. worker.of \in Campaigns BY DEF Inv, BatchStands, MailRecipient
<1>3. HistoryTyped' /\ tokens' \in SUBSET Emails
  BY <1>1, <1>2, MailTyped DEF Inv, TypeOK, MailRecipient, Mails, bounds
<1>4. /\ worker' \in Worker /\ worker'.at = "mark" /\ worker'.of = worker.of
      /\ worker'.due = worker.due /\ worker'.to = {e} /\ e \in worker.due
  BY DEF Inv, TypeOK, Worker, MailRecipient
<1>5. TypeOK' BY <1>1, <1>3, <1>4 DEF Inv, TypeOK, mailing
<1>6. RequestsTyped' BY <1>1, RestTyped DEF Inv
<1>7. BatchStands' BY <1>1, <1>4 DEF Inv, BatchStands, MailRecipient, mailing
<1>8. StepsLeft' BY <1>1 DEF Inv, StepsLeft, mailing
<1> QED BY <1>3, <1>5, <1>6, <1>7, <1>8 DEF Inv

LEMMA MailFailedInv ==
  ASSUME Inv, NEW e \in Emails, MailFailed(e)
  PROVE  Inv'
<1>1. UNCHANGED <<consents, sequence, enrolled, limit, quota, mails, today, request, bounds>>
  BY DEF MailFailed
<1>2. worker.of \in Campaigns /\ e \in worker.due BY DEF Inv, BatchStands, MailFailed
<1>3. campaign' \in [Campaigns -> Row]
  <2>1. campaign[worker.of] \in Row BY <1>2 DEF Inv, TypeOK
  <2>2. [campaign[worker.of] EXCEPT !.failed = @ + 1, !.pending = @ - 1] \in Row
    <3>1. campaign[worker.of].failed + 1 \in Nat /\ campaign[worker.of].pending - 1 \in Int
      BY <2>1 DEF Row
    <3> QED BY <2>1, <3>1 DEF Row
  <2>3. campaign' = [campaign EXCEPT ![worker.of] =
          [campaign[worker.of] EXCEPT !.failed = @ + 1, !.pending = @ - 1]]
    BY <1>2 DEF MailFailed, Inv, TypeOK, Row
  <2> QED BY <2>2, <2>3 DEF Inv, TypeOK
<1>4. recipient' \in [Campaigns -> [Emails -> RecipientStatuses]]
  BY <1>2 DEF Inv, TypeOK, MailFailed, RecipientStatuses
<1>5. TypeOK'
  BY <1>1, <1>2, <1>3, <1>4, RestOfBatch DEF Inv, TypeOK, MailFailed
<1>6. RequestsTyped' BY <1>1, RestTyped DEF Inv
<1>7. HistoryTyped' BY <1>1 DEF Inv, HistoryTyped, bounds
<1>8. BatchStands'
  <2>1. /\ worker'.at \in {"campaigns", "recipients"} /\ worker'.of = worker.of
        /\ worker'.due = worker.due \ {e}
    BY <1>2, RestOfBatch DEF Inv, MailFailed
  <2>2. worker.due \subseteq Emails BY DEF Inv, TypeOK, Worker
  <2>3. \A x \in worker.due \ {e} : recipient'[worker.of][x] = recipient[worker.of][x]
    BY <1>2, <2>2 DEF Inv, TypeOK, MailFailed
  <2> QED BY <1>2, <2>1, <2>3 DEF Inv, BatchStands, MailFailed
<1>9. StepsLeft' BY <1>1 DEF Inv, StepsLeft
<1> QED BY <1>5, <1>6, <1>7, <1>8, <1>9 DEF Inv

LEMMA MarkSentInv ==
  ASSUME Inv, NEW e \in Emails, MarkSent(e)
  PROVE  Inv'
<1>1. UNCHANGED <<people, sequence, enrolled, limit, mails, today, request, bounds>> BY DEF MarkSent
<1>2. worker.of \in Campaigns /\ e \in worker.due BY DEF Inv, BatchStands, MarkSent
<1>3. campaign' \in [Campaigns -> Row]
  <2>1. campaign[worker.of] \in Row BY <1>2 DEF Inv, TypeOK
  <2>2. [campaign[worker.of] EXCEPT !.sent = @ + 1, !.pending = @ - 1] \in Row
    <3>1. campaign[worker.of].sent + 1 \in Nat /\ campaign[worker.of].pending - 1 \in Int
      BY <2>1 DEF Row
    <3> QED BY <2>1, <3>1 DEF Row
  <2>3. campaign' = [campaign EXCEPT ![worker.of] =
          [campaign[worker.of] EXCEPT !.sent = @ + 1, !.pending = @ - 1]]
    BY <1>2 DEF MarkSent, Inv, TypeOK, Row
  <2> QED BY <2>2, <2>3 DEF Inv, TypeOK
<1>4. recipient' \in [Campaigns -> [Emails -> RecipientStatuses]]
  BY <1>2 DEF Inv, TypeOK, MarkSent, RecipientStatuses
<1>5. /\ worker' \in Worker /\ worker'.at \in {"campaigns", "recipients"}
      /\ worker'.of = worker.of /\ worker'.due = worker.due \ {e}
  <2>1. /\ NextRecipient(e) \in Worker /\ NextRecipient(e).at \in {"campaigns", "recipients"}
        /\ NextRecipient(e).of = worker.of /\ NextRecipient(e).due = worker.due \ {e}
    BY <1>2, RestOfBatch DEF Inv
  <2>2. worker' = [NextRecipient(e) EXCEPT !.left = @ - 1] BY DEF MarkSent
  <2> QED BY <2>1, <2>2 DEF Worker
<1>6. TypeOK'
  BY <1>1, <1>3, <1>4, <1>5, QuotaTyped DEF Inv, TypeOK, MarkSent, people
<1>7. RequestsTyped' BY <1>1, RestTyped DEF Inv
<1>8. HistoryTyped' BY <1>1 DEF Inv, HistoryTyped, bounds
<1>9. BatchStands'
  <2>1. worker.due \subseteq Emails BY DEF Inv, TypeOK, Worker
  <2>2. \A x \in worker.due \ {e} : recipient'[worker.of][x] = recipient[worker.of][x]
    BY <1>2, <2>1 DEF Inv, TypeOK, MarkSent
  <2> QED BY <1>2, <1>5, <2>2 DEF Inv, BatchStands, MarkSent
<1>10. StepsLeft' BY <1>1 DEF Inv, StepsLeft
<1> QED BY <1>6, <1>7, <1>8, <1>9, <1>10 DEF Inv

LEMMA SequenceTickInv ==
  ASSUME Inv, processSequenceTick
  PROVE  Inv'
<1>1. UNCHANGED <<people, mailing, limit, mails, today, request, bounds>> BY DEF processSequenceTick
<1>2. PICK due \in SUBSET (IF sequence.status = "running" THEN Active ELSE {}) :
        worker' = IF due = {} THEN Idle ELSE [Idle EXCEPT !.at = "enrollments", !.due = due]
  BY DEF processSequenceTick
<1>3. due \subseteq Active BY <1>2
<1>4. /\ worker' \in Worker /\ worker'.at \in {"idle", "enrollments"} /\ worker'.due = due
  <2>1. due \in SUBSET Emails BY <1>3 DEF Active
  <2>2. CASE due = {} BY <1>2, <2>2 DEF Worker, Idle, Rows
  <2>3. CASE due # {}
    <3>1. worker' = [Idle EXCEPT !.at = "enrollments", !.due = due] BY <1>2, <2>3
    <3>2. Idle \in Worker BY DEF Worker, Idle, Rows
    <3> QED BY <2>1, <3>1, <3>2 DEF Worker
  <2> QED BY <2>2, <2>3
<1>5. TypeOK' BY <1>1, <1>4, QuotaTyped DEF Inv, TypeOK, processSequenceTick, people, mailing
<1>6. RequestsTyped' BY <1>1, RestTyped DEF Inv
<1>7. HistoryTyped' BY <1>1 DEF Inv, HistoryTyped, bounds
<1>8. BatchStands' BY <1>1, <1>3, <1>4 DEF BatchStands, Active, mailing
<1>9. StepsLeft' BY <1>1 DEF Inv, StepsLeft, mailing
<1> QED BY <1>5, <1>6, <1>7, <1>8, <1>9 DEF Inv

(* What a step does to one enrollment of the batch, it does to no other.    *)
LEMMA EnrollmentInv ==
  ASSUME Inv, NEW e \in Emails, e \in worker.due, worker.at = "enrollments",
         NEW x, enrolled' = [enrolled EXCEPT ![e] = x],
         x \in Enrollment, x.step = enrolled[e].step, x.status # "none",
         x.status = "active" => x.attempts < MaxAttempts,
         worker' = NextEnrollment(e), tokens' \in SUBSET Emails,
         UNCHANGED <<consents, campaign, recipient, sequence, limit, quota, mails, today, request, bounds>>
  PROVE  Inv'
<1>1. /\ worker' \in Worker /\ worker'.at \in {"idle", "enrollments"}
      /\ worker'.due = worker.due \ {e} /\ worker.due \subseteq Emails
  BY RestOfBatch DEF Inv, TypeOK, Worker
<1>2. TypeOK' BY <1>1 DEF Inv, TypeOK
<1>3. RequestsTyped' BY RestTyped DEF Inv
<1>4. HistoryTyped' BY DEF Inv, HistoryTyped, bounds
<1>5. BatchStands'
  <2>1. \A y \in worker.due \ {e} : enrolled'[y] = enrolled[y] BY <1>1 DEF Inv, TypeOK
  <2>2. \A y \in worker.due : enrolled[y].status = "active" BY DEF Inv, BatchStands
  <2> QED BY <1>1, <2>1, <2>2 DEF BatchStands
<1>6. StepsLeft'
  <2>1. enrolled[e].status = "active" BY DEF Inv, BatchStands
  <2>2. \A y \in Emails : y # e => enrolled'[y] = enrolled[y] BY DEF Inv, TypeOK
  <2>3. enrolled'[e] = x BY DEF Inv, TypeOK
  <2> QED BY <2>1, <2>2, <2>3 DEF Inv, StepsLeft
<1> QED BY <1>2, <1>3, <1>4, <1>5, <1>6 DEF Inv

LEMMA SkipInv ==
  ASSUME Inv, NEW e \in Emails, SkipEnrollment(e)
  PROVE  Inv'
<1> DEFINE st == IF e \in tokens THEN "unsubscribed" ELSE "converted"
           x == [enrolled[e] EXCEPT !.status = st]
<1>1. enrolled[e] \in Enrollment BY DEF Inv, TypeOK
<1>2. enrolled' = [enrolled EXCEPT ![e] = x] BY DEF SkipEnrollment
<1>3. st \in EnrollmentStatuses /\ st \notin {"none", "active"} BY DEF EnrollmentStatuses
<1>4. x \in Enrollment /\ x.step = enrolled[e].step /\ x.status = st
  <2> HIDE DEF st
  <2> QED BY <1>1, <1>3 DEF Enrollment
<1> HIDE DEF x, st
<1> QED BY <1>2, <1>3, <1>4, EnrollmentInv DEF SkipEnrollment, Inv, TypeOK, people

LEMMA markFailedInv ==
  ASSUME Inv, NEW e \in Emails, markEnrollmentFailed(e)
  PROVE  Inv'
<1> DEFINE n == enrolled[e].attempts + 1
           st == IF n >= MaxAttempts THEN "failed" ELSE enrolled[e].status
           x == [enrolled[e] EXCEPT !.attempts = n, !.status = st]
<1>1. /\ enrolled[e] \in Enrollment /\ enrolled[e].status = "active"
      /\ enrolled[e].attempts < MaxAttempts /\ enrolled[e].attempts \in Nat
  BY DEF Inv, TypeOK, BatchStands, StepsLeft, markEnrollmentFailed, Enrollment
<1>2. enrolled' = [enrolled EXCEPT ![e] = x] BY <1>1 DEF markEnrollmentFailed, Enrollment, Inv, TypeOK
<1>3. st \in EnrollmentStatuses /\ st # "none" /\ (st = "active" => n < MaxAttempts) /\ n \in 0..MaxAttempts
  BY <1>1, MarketingAssumption DEF EnrollmentStatuses
<1>4. x \in Enrollment /\ x.step = enrolled[e].step /\ x.status = st /\ x.attempts = n
  <2> HIDE DEF st, n
  <2> QED BY <1>1, <1>3 DEF Enrollment
<1>5. tokens' \in SUBSET Emails BY DEF markEnrollmentFailed, Inv, TypeOK
<1> HIDE DEF x, st, n
<1> QED BY <1>2, <1>3, <1>4, <1>5, EnrollmentInv DEF markEnrollmentFailed, people

LEMMA MailStepInv ==
  ASSUME Inv, NEW e \in Emails, MailStep(e)
  PROVE  Inv' /\ enrolled[e].step + 1 \in 1..MaxSteps
<1>1. UNCHANGED <<consents, mailing, limit, quota, request, bounds>> BY DEF MailStep
<1>2. enrolled[e].step < sequence.steps /\ enrolled[e].step \in Nat /\ sequence.steps \in 1..MaxSteps
  BY DEF Inv, TypeOK, BatchStands, StepsLeft, MailStep, Enrollment
<1>3. enrolled[e].step + 1 \in 1..MaxSteps BY <1>2, MarketingAssumption
<1>4. HistoryTyped' /\ tokens' \in SUBSET Emails
  BY <1>1, <1>3, MailTyped DEF Inv, TypeOK, MailStep, Mails, bounds
<1>5. /\ worker' \in Worker /\ worker'.at = "advance"
      /\ worker'.due = worker.due /\ worker'.to = {e} /\ e \in worker.due
  BY DEF Inv, TypeOK, Worker, MailStep
<1>6. TypeOK' BY <1>1, <1>4, <1>5 DEF Inv, TypeOK, mailing
<1>7. RequestsTyped' BY <1>1, RestTyped DEF Inv
<1>8. BatchStands' BY <1>1, <1>5 DEF Inv, BatchStands, MailStep, mailing
<1>9. StepsLeft' BY <1>1 DEF Inv, StepsLeft, mailing
<1> QED BY <1>3, <1>4, <1>6, <1>7, <1>8, <1>9 DEF Inv

LEMMA AdvanceInv ==
  ASSUME Inv, NEW e \in Emails, AdvanceEnrollment(e)
  PROVE  Inv'
<1> DEFINE last == enrolled[e].step + 1 = sequence.steps
           st == IF last THEN "completed" ELSE enrolled[e].status
           x == [enrolled[e] EXCEPT !.step = @ + 1, !.status = st]
<1>1. UNCHANGED <<people, campaign, recipient, sequence, limit, mails, today, request, bounds>>
  BY DEF AdvanceEnrollment
<1>2. /\ enrolled[e] \in Enrollment /\ enrolled[e].status = "active" /\ e \in worker.due
      /\ worker.to = {e} /\ enrolled[e].step < sequence.steps /\ enrolled[e].step \in Nat
      /\ sequence.steps \in 1..MaxSteps /\ worker.due \subseteq Emails
      /\ enrolled[e].attempts < MaxAttempts
  BY DEF Inv, TypeOK, BatchStands, StepsLeft, AdvanceEnrollment, Enrollment, Worker
<1>3. enrolled' = [enrolled EXCEPT ![e] = x]
  BY <1>2 DEF AdvanceEnrollment, Enrollment, Inv, TypeOK
<1>4. /\ st \in EnrollmentStatuses /\ st # "none" /\ enrolled[e].step + 1 \in 0..MaxSteps
      /\ (st = "active" => enrolled[e].step + 1 < sequence.steps)
  BY <1>2, MarketingAssumption DEF EnrollmentStatuses
<1>5. x \in Enrollment /\ x.step = enrolled[e].step + 1 /\ x.status = st
      /\ x.attempts = enrolled[e].attempts
  <2> HIDE DEF st
  <2> QED BY <1>2, <1>4 DEF Enrollment
<1>6. /\ worker' \in Worker /\ worker'.at \in {"finish", "idle", "enrollments"}
      /\ worker'.at = "finish" => worker'.due = worker.due /\ worker'.to = worker.to
      /\ worker'.at # "finish" => worker'.due = worker.due \ {e}
      /\ quota' \in [sent : Nat, limit : Nat]
  <2>1. CASE last
    BY <2>1 DEF AdvanceEnrollment, Inv, TypeOK, Worker
  <2>2. CASE ~last
    BY <1>2, <2>2, RestOfBatch, QuotaTyped DEF AdvanceEnrollment, Inv
  <2> QED BY <2>1, <2>2
<1>7. \A y \in Emails : enrolled'[y] = IF y = e THEN x ELSE enrolled[y]
  BY <1>3 DEF Inv, TypeOK
<1> HIDE DEF x, st, last
<1>8. TypeOK' BY <1>1, <1>3, <1>5, <1>6 DEF Inv, TypeOK, people
<1>9. RequestsTyped' BY <1>1, RestTyped DEF Inv
<1>10. HistoryTyped' BY <1>1 DEF Inv, HistoryTyped, bounds
<1>11. BatchStands'
  <2>1. \A y \in worker.due : enrolled[y].status = "active" BY DEF Inv, BatchStands, AdvanceEnrollment
  <2>2. \A y \in worker.due \ {e} : enrolled'[y].status = "active" BY <1>2, <1>7, <2>1
  <2> QED BY <1>2, <1>6, <2>2 DEF BatchStands
<1>12. StepsLeft' BY <1>1, <1>2, <1>4, <1>5, <1>7 DEF Inv, StepsLeft
<1> QED BY <1>8, <1>9, <1>10, <1>11, <1>12 DEF Inv

LEMMA FinishInv ==
  ASSUME Inv, NEW e \in Emails, maybeCompleteSequence(e)
  PROVE  Inv'
<1>1. UNCHANGED <<people, campaign, recipient, enrolled, limit, mails, today, request, bounds>>
  BY DEF maybeCompleteSequence
<1>2. e \in worker.due /\ worker.to = {e} BY DEF Inv, BatchStands, maybeCompleteSequence
<1>3. /\ worker' \in Worker /\ worker'.at \in {"idle", "enrollments"}
      /\ worker'.due = worker.due \ {e}
  BY <1>2, RestOfBatch DEF Inv, maybeCompleteSequence
<1>4. sequence' \in [status : SequenceStatuses, steps : 1..MaxSteps] /\ sequence'.steps = sequence.steps
  BY DEF Inv, TypeOK, maybeCompleteSequence, SequenceStatuses
<1>5. TypeOK' BY <1>1, <1>3, <1>4, QuotaTyped DEF Inv, TypeOK, maybeCompleteSequence, people
<1>6. RequestsTyped' BY <1>1, RestTyped DEF Inv
<1>7. HistoryTyped' BY <1>1 DEF Inv, HistoryTyped, bounds
<1>8. BatchStands' BY <1>1, <1>2, <1>3 DEF Inv, BatchStands, maybeCompleteSequence
<1>9. StepsLeft' BY <1>1, <1>4 DEF Inv, StepsLeft
<1> QED BY <1>5, <1>6, <1>7, <1>8, <1>9 DEF Inv

LEMMA RestartInv ==
  ASSUME Inv, Restart
  PROVE  Inv'
<1>1. UNCHANGED <<people, mailing, limit, quota, mails, today>> BY DEF Restart
<1>2. worker' = Idle /\ Idle \in Worker /\ Idle.at = "idle" BY DEF Restart, Idle, Worker, Rows
<1>3. TypeOK' BY <1>1, <1>2 DEF Inv, TypeOK, people, mailing
<1>4. RequestsTyped' BY DEF RequestsTyped, Restart
<1>5. HistoryTyped' BY <1>1 DEF Inv, HistoryTyped, Restart
<1>6. BatchStands' BY <1>2 DEF BatchStands
<1>7. StepsLeft' BY <1>1 DEF Inv, StepsLeft, mailing
<1> QED BY <1>3, <1>4, <1>5, <1>6, <1>7 DEF Inv

(* A new day, another limit, a recipient who unsubscribes.                  *)
LEMMA OthersInv ==
  ASSUME Inv, NewDay \/ (\E n \in DailyLimits : UpdateSettings(n)) \/ (\E e \in Emails : Unsubscribe(e))
  PROVE  Inv'
<1>1. UNCHANGED <<tokens, mailing, worker, mails, request, faults>> BY DEF NewDay, UpdateSettings, Unsubscribe, sending, people, bounds
<1>2. consents' \subseteq Emails /\ limit' \in DailyLimits /\ quota' \in [sent : Nat, limit : Nat]
  BY DEF Inv, TypeOK, NewDay, UpdateSettings, Unsubscribe, NoDay, people, sending
<1>3. today' \in Nat BY DEF Inv, HistoryTyped, NewDay, UpdateSettings, Unsubscribe, sending
<1>4. TypeOK' BY <1>1, <1>2 DEF Inv, TypeOK, mailing
<1>5. RequestsTyped' BY <1>1, RestTyped DEF Inv
<1>6. HistoryTyped' BY <1>1, <1>3 DEF Inv, HistoryTyped
<1>7. BatchStands' BY <1>1 DEF Inv, BatchStands, mailing
<1>8. StepsLeft' BY <1>1 DEF Inv, StepsLeft, mailing
<1> QED BY <1>4, <1>5, <1>6, <1>7, <1>8 DEF Inv

(* A draft is written.                                                      *)
LEMMA CreateInv ==
  ASSUME Inv, CreateSequence \/ \E c \in Campaigns : CreateCampaign(c)
  PROVE  Inv'
<1>1. UNCHANGED <<people, recipient, enrolled, sending, request, faults>>
  BY DEF CreateSequence, CreateCampaign, bounds
<1>2. campaign' \in [Campaigns -> Row]
  BY DEF Inv, TypeOK, CreateSequence, CreateCampaign, Row, CampaignStatuses
<1>3. sequence' \in [status : SequenceStatuses, steps : 1..MaxSteps] /\ sequence'.steps = sequence.steps
  BY DEF Inv, TypeOK, CreateSequence, CreateCampaign, SequenceStatuses
<1>4. TypeOK' BY <1>1, <1>2, <1>3 DEF Inv, TypeOK, people, sending
<1>5. RequestsTyped' BY <1>1, RestTyped DEF Inv
<1>6. HistoryTyped' BY <1>1 DEF Inv, HistoryTyped, sending
<1>7. BatchStands' BY <1>1 DEF Inv, BatchStands, sending
<1>8. StepsLeft' BY <1>1, <1>3 DEF Inv, StepsLeft
<1> QED BY <1>4, <1>5, <1>6, <1>7, <1>8 DEF Inv

LEMMA StutterInv ==
  ASSUME Inv, UNCHANGED vars
  PROVE  Inv'
BY DEF Inv, TypeOK, RequestsTyped, HistoryTyped, BatchStands, StepsLeft, vars, people, mailing,
       sending, bounds

LEMMA NextInv ==
  ASSUME Inv, [Next]_vars
  PROVE  Inv'
<1>1. CASE Work
  BY <1>1, TickInv, SequenceTickInv, TakeInv, CompleteInv, MailRecipientInv, MailFailedInv,
     MarkSentInv, SkipInv, MailStepInv, markFailedInv, AdvanceInv, FinishInv DEF Work
<1>2. CASE \E i \in Slots : \/ ReadMailing(i) \/ InsertRecipients(i) \/ MarkSending(i)
                            \/ LaunchSequence(i) \/ setSequenceStatus(i)
  BY <1>2, ReadInv, InsertInv, MarkSendingInv, LaunchInv, StatusInv
<1>3. CASE \E kind \in Kinds, row \in Rows : AskFor(kind, row) BY <1>3, AskInv
<1>4. CASE NewDay \/ (\E n \in DailyLimits : UpdateSettings(n)) \/ (\E e \in Emails : Unsubscribe(e))
  BY <1>4, OthersInv
<1>5. CASE Restart BY <1>5, RestartInv
<1>6. CASE CreateSequence \/ \E c \in Campaigns : CreateCampaign(c) BY <1>6, CreateInv
<1>7. CASE UNCHANGED vars BY <1>7, StutterInv
<1> QED BY <1>1, <1>2, <1>3, <1>4, <1>5, <1>6, <1>7 DEF Next

(* Types of what the database and the loop hold, for any bounds: a step     *)
(* number is one of the sequence's, a counter an integer (sequences.go).    *)
THEOREM MarketingTyped == Spec => []TypeOK
<1>1. Spec => []Inv BY InitInv, NextInv, PTL DEF Spec
<1>2. Inv => TypeOK BY DEF Inv
<1> QED BY <1>1, <1>2, PTL

----------------------------------------------------------------------------
(* Every mail is sent once: whoever has had a campaign's mail is marked, or *)
(* about to be, and a sequence's mails are those of the steps done, or of   *)
(* the one about to be.                                                     *)
CampaignOnce(c, e) ==
  \/ mails[c][e] = 0
  \/ /\ mails[c][e] = 1
     /\ recipient[c][e] = "sent" \/ (worker.at = "mark" /\ worker.of = c /\ worker.to = {e})
StepOnce(k, e) ==
  \/ mails[k][e] = 0
  \/ /\ mails[k][e] = 1
     /\ \/ k <= enrolled[e].step
        \/ worker.at = "advance" /\ worker.to = {e} /\ k = enrolled[e].step + 1
AllOnce == \A e \in Emails : /\ \A c \in Campaigns : CampaignOnce(c, e)
                             /\ \A k \in 1..MaxSteps : StepOnce(k, e)
OnceInv == faults = 0 => AllOnce

LEMMA InitOnce == Init => OnceInv
BY DEF Init, OnceInv, AllOnce, CampaignOnce, StepOnce, Mails

(* No mail, no mark undone, no step undone.                                 *)
LEMMA OnceStays ==
  ASSUME AllOnce, mails' = mails, worker' = worker \/ worker.at \notin {"mark", "advance"},
         \A c \in Campaigns, e \in Emails : recipient[c][e] = "sent" => recipient'[c][e] = "sent",
         \A e \in Emails : enrolled'[e].step = enrolled[e].step
  PROVE  AllOnce'
BY DEF AllOnce, CampaignOnce, StepOnce

LEMMA MailOnce ==
  ASSUME Inv, AllOnce, NEW e \in Emails, MailRecipient(e)
  PROVE  AllOnce'
<1>1. worker.of \in Campaigns /\ recipient[worker.of][e] = "pending" /\ worker.at = "recipients"
  BY DEF Inv, BatchStands, MailRecipient
<1>2. recipient' = recipient /\ enrolled' = enrolled BY DEF MailRecipient, mailing
<1>3. worker'.at = "mark" /\ worker'.of = worker.of /\ worker'.to = {e}
  BY DEF Inv, TypeOK, Worker, MailRecipient
<1>4. mails[worker.of][e] = 0 BY <1>1 DEF AllOnce, CampaignOnce
<1>5. \A m \in Mails, x \in Emails :
        mails'[m][x] = IF m = worker.of /\ x = e THEN 1 ELSE mails[m][x]
  BY <1>1, <1>4 DEF Inv, HistoryTyped, MailRecipient, Mail, Mails
<1>6. \A c \in Campaigns, x \in Emails : CampaignOnce(c, x)'
  BY <1>1, <1>2, <1>3, <1>5 DEF AllOnce, CampaignOnce, Mails
<1>7. \A k \in 1..MaxSteps, x \in Emails : StepOnce(k, x)'
  BY <1>1, <1>2, <1>5, MarketingAssumption DEF AllOnce, StepOnce, Mails
<1> QED BY <1>6, <1>7 DEF AllOnce

LEMMA MarkOnce ==
  ASSUME Inv, AllOnce, NEW e \in Emails, MarkSent(e)
  PROVE  AllOnce'
<1>1. worker.of \in Campaigns /\ worker.at = "mark" /\ worker.to = {e}
  BY DEF Inv, BatchStands, MarkSent
<1>2. mails' = mails /\ enrolled' = enrolled BY DEF MarkSent
<1>3. \A c \in Campaigns, x \in Emails :
        recipient'[c][x] = IF c = worker.of /\ x = e THEN "sent" ELSE recipient[c][x]
  BY <1>1 DEF Inv, TypeOK, MarkSent
<1>4. \A c \in Campaigns, x \in Emails : CampaignOnce(c, x)'
  BY <1>1, <1>2, <1>3 DEF AllOnce, CampaignOnce
<1>5. \A k \in 1..MaxSteps, x \in Emails : StepOnce(k, x)' BY <1>1, <1>2 DEF AllOnce, StepOnce
<1> QED BY <1>4, <1>5 DEF AllOnce

LEMMA MailStepOnce ==
  ASSUME Inv, AllOnce, NEW e \in Emails, MailStep(e)
  PROVE  AllOnce'
<1> DEFINE k0 == enrolled[e].step + 1
<1>1. k0 \in 1..MaxSteps /\ enrolled[e].step \in Nat
  BY MailStepInv DEF Inv, TypeOK, Enrollment
<1>2. recipient' = recipient /\ enrolled' = enrolled /\ worker.at = "enrollments"
  BY DEF MailStep, mailing
<1>3. worker'.at = "advance" /\ worker'.to = {e} BY DEF Inv, TypeOK, Worker, MailStep
<1>4. mails[k0][e] = 0 BY <1>1, <1>2 DEF AllOnce, StepOnce
<1>5. \A m \in Mails, x \in Emails : mails'[m][x] = IF m = k0 /\ x = e THEN 1 ELSE mails[m][x]
  BY <1>1, <1>4 DEF Inv, HistoryTyped, MailStep, Mail, Mails
<1>6. \A c \in Campaigns, x \in Emails : CampaignOnce(c, x)'
  BY <1>1, <1>2, <1>5, MarketingAssumption DEF AllOnce, CampaignOnce, Mails
<1>7. \A k \in 1..MaxSteps, x \in Emails : StepOnce(k, x)'
  BY <1>1, <1>2, <1>3, <1>5 DEF AllOnce, StepOnce, Mails
<1> QED BY <1>6, <1>7 DEF AllOnce

LEMMA AdvanceOnce ==
  ASSUME Inv, AllOnce, NEW e \in Emails, AdvanceEnrollment(e)
  PROVE  AllOnce'
<1>1. worker.at = "advance" /\ worker.to = {e} BY DEF Inv, BatchStands, AdvanceEnrollment
<1>2. mails' = mails /\ recipient' = recipient BY DEF AdvanceEnrollment
<1>3. \A x \in Emails : /\ enrolled[x].step \in Nat
                        /\ enrolled'[x].step = IF x = e THEN enrolled[x].step + 1 ELSE enrolled[x].step
  BY DEF Inv, TypeOK, Enrollment, AdvanceEnrollment
<1>4. \A c \in Campaigns, x \in Emails : CampaignOnce(c, x)' BY <1>1, <1>2 DEF AllOnce, CampaignOnce
<1>5. \A k \in 1..MaxSteps, x \in Emails : StepOnce(k, x)' BY <1>1, <1>2, <1>3 DEF AllOnce, StepOnce
<1> QED BY <1>4, <1>5 DEF AllOnce

LEMMA NextOnce ==
  ASSUME Inv, OnceInv, [Next]_vars
  PROVE  OnceInv'
<1> SUFFICES ASSUME faults' = 0 PROVE AllOnce' BY DEF OnceInv
<1>1. CASE Restart BY <1>1 DEF Restart, Inv, HistoryTyped
<1>2. ASSUME ~Restart PROVE faults' = faults
  BY <1>2 DEF Next, CreateSequence, CreateCampaign, Work, NewDay, UpdateSettings, Unsubscribe, AskFor, ReadMailing, InsertRecipients,
     MarkSending, LaunchSequence, setSequenceStatus, processQueue, processSequenceTick, TakeRecipients,
     completeCampaign, MailRecipient, MailFailed, MarkSent, SkipEnrollment, MailStep,
     markEnrollmentFailed, AdvanceEnrollment, maybeCompleteSequence, vars, bounds
<1>3. ASSUME ~Restart PROVE AllOnce BY <1>2, <1>3 DEF OnceInv
<1>4. CASE \E e \in Emails : MailRecipient(e) BY <1>4, <1>1, <1>3, MailOnce
<1>5. CASE \E e \in Emails : MarkSent(e) BY <1>5, <1>1, <1>3, MarkOnce
<1>6. CASE \E e \in Emails : MailStep(e) BY <1>6, <1>1, <1>3, MailStepOnce
<1>7. CASE \E e \in Emails : AdvanceEnrollment(e) BY <1>7, <1>1, <1>3, AdvanceOnce
<1>8. CASE processQueue \/ processSequenceTick \/ (\E c \in Campaigns : TakeRecipients(c) \/ completeCampaign(c))
  <2>1. mails' = mails /\ recipient' = recipient /\ enrolled' = enrolled
        /\ worker.at \notin {"mark", "advance"}
    BY <1>8 DEF processQueue, processSequenceTick, TakeRecipients, completeCampaign, mailing
  <2> QED BY <1>1, <1>3, <2>1, OnceStays
<1>9. ASSUME NEW e \in Emails, MailFailed(e) PROVE AllOnce'
  <2>1. mails' = mails /\ enrolled' = enrolled /\ worker.at \notin {"mark", "advance"}
    BY <1>9 DEF MailFailed
  <2>2. worker.of \in Campaigns /\ recipient[worker.of][e] = "pending"
    BY <1>9 DEF Inv, BatchStands, MailFailed
  <2>3. \A c \in Campaigns, x \in Emails : recipient[c][x] = "sent" => recipient'[c][x] = "sent"
    BY <1>9, <2>2 DEF Inv, TypeOK, MailFailed
  <2> QED BY <1>1, <1>3, <2>1, <2>3, OnceStays
<1>10. ASSUME NEW e \in Emails, SkipEnrollment(e) \/ markEnrollmentFailed(e) PROVE AllOnce'
  <2>1. mails' = mails /\ recipient' = recipient /\ worker.at \notin {"mark", "advance"}
    BY <1>10 DEF SkipEnrollment, markEnrollmentFailed
  <2>2. \A x \in Emails : enrolled'[x].step = enrolled[x].step
    <3>1. enrolled[e] \in Enrollment BY DEF Inv, TypeOK
    <3>2. CASE SkipEnrollment(e) BY <3>1, <3>2 DEF Inv, TypeOK, Enrollment, SkipEnrollment
    <3>3. CASE markEnrollmentFailed(e)
      <4> DEFINE n == enrolled[e].attempts + 1
                 st == IF n >= MaxAttempts THEN "failed" ELSE enrolled[e].status
      <4>1. enrolled' = [enrolled EXCEPT ![e] = [enrolled[e] EXCEPT !.attempts = n, !.status = st]]
        BY <3>1, <3>3 DEF Inv, TypeOK, Enrollment, markEnrollmentFailed
      <4> HIDE DEF n, st
      <4> QED BY <3>1, <4>1 DEF Inv, TypeOK, Enrollment
    <3> QED BY <1>10, <3>2, <3>3
  <2> QED BY <1>1, <1>3, <2>1, <2>2, OnceStays
<1>11. CASE \E e \in Emails : maybeCompleteSequence(e)
  <2>1. mails' = mails /\ recipient' = recipient /\ enrolled' = enrolled
        /\ worker.at \notin {"mark", "advance"}
    BY <1>11 DEF maybeCompleteSequence
  <2> QED BY <1>1, <1>3, <2>1, OnceStays
<1>12. ASSUME NEW i \in Slots, InsertRecipients(i) PROVE AllOnce'
  <2>1. mails' = mails /\ worker' = worker /\ enrolled' = enrolled
    BY <1>12 DEF InsertRecipients, sending
  <2>2. request[i].row \in Campaigns
    BY <1>12, ActIsSent, KindsListed DEF Inv, RequestsTyped, InsertRecipients
  <2>3. \A c \in Campaigns, x \in Emails : recipient[c][x] = "sent" => recipient'[c][x] = "sent"
    BY <1>12, <2>2 DEF Inv, TypeOK, InsertRecipients
  <2> QED BY <1>1, <1>3, <2>1, <2>3, OnceStays
<1>13. ASSUME NEW i \in Slots, LaunchSequence(i) PROVE AllOnce'
  <2>1. mails' = mails /\ worker' = worker /\ recipient' = recipient
    BY <1>13 DEF LaunchSequence, sending
  <2>2. \A x \in Emails : enrolled'[x].step = enrolled[x].step
    BY <1>13 DEF Inv, TypeOK, Enrollment, LaunchSequence
  <2> QED BY <1>1, <1>3, <2>1, <2>2, OnceStays
<1>14. CASE \/ \E i \in Slots : ReadMailing(i) \/ MarkSending(i) \/ setSequenceStatus(i)
            \/ \E kind \in Kinds, row \in Rows : AskFor(kind, row)
            \/ NewDay \/ (\E n \in DailyLimits : UpdateSettings(n)) \/ (\E e \in Emails : Unsubscribe(e))
            \/ CreateSequence \/ (\E c \in Campaigns : CreateCampaign(c)) \/ UNCHANGED vars
  <2>1. mails' = mails /\ worker' = worker /\ recipient' = recipient /\ enrolled' = enrolled
    BY <1>14 DEF ReadMailing, MarkSending, setSequenceStatus, AskFor, NewDay, UpdateSettings,
       Unsubscribe, CreateSequence, CreateCampaign, vars, mailing, sending
  <2> QED BY <1>1, <1>3, <2>1, OnceStays
<1> QED BY <1>1, <1>4, <1>5, <1>6, <1>7, <1>8, <1>9, <1>10, <1>11, <1>12, <1>13, <1>14 DEF Next, Work

(* Nobody gets a mail twice as long as the server does not stop, for any    *)
(* addresses, batches, overlapping acts and limits (service.go:374-419,     *)
(* sequences.go:453-528).                                                   *)
THEOREM MarketingMailsOnce == Spec => []MailedOnce
<1>1. Spec => [](Inv /\ OnceInv) BY InitInv, NextInv, InitOnce, NextOnce, PTL DEF Spec
<1>2. Inv /\ OnceInv => MailedOnce
  BY DEF MailedOnce, OnceInv, AllOnce, CampaignOnce, StepOnce, Mails
<1> QED BY <1>1, <1>2, PTL

----------------------------------------------------------------------------
(* Acts that do not overlap find the sequence as they read it; the loop may *)
(* have completed it since.                                                 *)
SequenceActs == {"launch", "pause", "resume", "cancel"}
CrossInv ==
  ~crossed =>
    /\ \A i, j \in Slots : request[i] # Free /\ request[j] # Free => i = j
    /\ \A i \in Slots : request[i].kind \in SequenceActs /\ request[i].at = "write"
         => sequence.status \in AllowedFrom[request[i].kind] \cup {"completed"}

LEMMA InitCross == Init => CrossInv
BY DEF Init, CrossInv, Free, SequenceActs

(* A canceled sequence allows nothing.                                      *)
LEMMA CancelledAllows ==
  ASSUME NEW kind \in SequenceActs
  PROVE  "cancelled" \notin AllowedFrom[kind]
BY DEF AllowedFrom, SequenceActs

LEMMA AskCross ==
  ASSUME CrossInv, NEW kind \in Kinds, NEW row \in Rows, AskFor(kind, row), Inv
  PROVE  CrossInv'
<1> SUFFICES ASSUME ~crossed' PROVE CrossInv' BY DEF CrossInv
<1>1. \A i \in Slots : request[i] = Free BY DEF AskFor, Quiet, FreeSlots
<1>2. PICK i \in Slots : request' = [request EXCEPT ![i] = Act(kind, row)]
  BY DEF AskFor, Send, FreeSlots
<1>3. \A j \in Slots : request'[j] = IF j = i THEN Act(kind, row) ELSE Free
  BY <1>1, <1>2 DEF Inv, RequestsTyped
<1> QED BY <1>3 DEF CrossInv, Act, Free, SequenceActs

LEMMA EndsCross ==
  ASSUME CrossInv, NEW i \in Slots, request[i] # Free, Ends(i), UNCHANGED crossed, Inv
  PROVE  CrossInv'
<1> SUFFICES ASSUME ~crossed PROVE CrossInv' BY DEF CrossInv
<1>1. \A j \in Slots : request'[j] = Free
  BY DEF Inv, RequestsTyped, CrossInv, Ends
<1> QED BY <1>1 DEF CrossInv, Free, SequenceActs

LEMMA ReadCross ==
  ASSUME CrossInv, NEW i \in Slots, ReadMailing(i), Inv
  PROVE  CrossInv'
<1> DEFINE r == request[i]
           S == IF r.kind \in {"send", "launch"} THEN Audience ELSE {}
           q == [r EXCEPT !.at = "write", !.audience = S]
<1>1. request[i] # Free /\ crossed' = crossed /\ sequence' = sequence
  BY ActIsSent DEF ReadMailing, mailing
<1>2. CASE Ends(i) BY <1>1, <1>2, EndsCross
<1>3. CASE ~Ends(i)
  <2> SUFFICES ASSUME ~crossed PROVE CrossInv' BY <1>1 DEF CrossInv
  <2>1. StatusOf(r.row) \in AllowedFrom[r.kind] /\ GoesOn(i, q) BY <1>3 DEF ReadMailing
  <2>2. r \in Requests BY <1>1 DEF Inv, RequestsTyped
  <2>3. q.kind = r.kind BY <2>2 DEF Requests
  <2>4. r.kind \in SequenceActs => StatusOf(r.row) = sequence.status
    BY <1>1, <2>2 DEF Inv, RequestsTyped, Requests, Rows, StatusOf, SequenceActs
  <2> HIDE DEF q
  <2>5. \A j \in Slots : request'[j] = IF j = i THEN q ELSE request[j]
    BY <2>1 DEF Inv, RequestsTyped, GoesOn
  <2>6. \A j \in Slots : j # i => request[j] = Free BY <1>1 DEF CrossInv
  <2> QED BY <1>1, <2>1, <2>3, <2>4, <2>5, <2>6 DEF CrossInv, Free, SequenceActs
<1> QED BY <1>2, <1>3

LEMMA InsertCross ==
  ASSUME CrossInv, NEW i \in Slots, InsertRecipients(i), Inv
  PROVE  CrossInv'
<1> DEFINE q == [request[i] EXCEPT !.at = "count"]
<1>1. request[i] # Free /\ crossed' = crossed /\ sequence' = sequence
  BY ActIsSent, KindsListed DEF InsertRecipients
<1>2. request[i] \in Requests BY <1>1 DEF Inv, RequestsTyped
<1>3. GoesOn(i, q) /\ q.kind = "send" BY <1>2 DEF InsertRecipients, Requests
<1> HIDE DEF q
<1>4. \A j \in Slots : request'[j] = IF j = i THEN q ELSE request[j]
  BY <1>3 DEF Inv, RequestsTyped, GoesOn
<1> QED BY <1>1, <1>3, <1>4 DEF CrossInv, Free, SequenceActs

LEMMA NextCross ==
  ASSUME CrossInv, [Next]_vars, Inv
  PROVE  CrossInv'
<1>1. CASE \E kind \in Kinds, row \in Rows : AskFor(kind, row) BY <1>1, AskCross
<1>2. CASE \E i \in Slots : ReadMailing(i) BY <1>2, ReadCross
<1>3. CASE \E i \in Slots : InsertRecipients(i) BY <1>3, InsertCross
<1>4. ASSUME NEW i \in Slots, MarkSending(i) \/ LaunchSequence(i) \/ setSequenceStatus(i) PROVE CrossInv'
  <2>1. request[i] # Free /\ Ends(i) /\ crossed' = crossed
    BY <1>4, ActIsSent, KindsListed DEF MarkSending, LaunchSequence, setSequenceStatus
  <2> QED BY <2>1, EndsCross
<1>5. CASE \E e \in Emails : maybeCompleteSequence(e)
  <2>1. request' = request /\ crossed' = crossed /\ sequence'.status \in {sequence.status, "completed"}
    BY <1>5 DEF maybeCompleteSequence, Inv, TypeOK
  <2> QED BY <2>1 DEF CrossInv
<1>6. CASE Restart BY <1>6 DEF Restart, CrossInv, Free, SequenceActs
<1>7. CASE \/ processQueue \/ processSequenceTick \/ NewDay \/ UNCHANGED vars
           \/ \E c \in Campaigns : TakeRecipients(c) \/ completeCampaign(c)
           \/ \E e \in Emails : \/ MailRecipient(e) \/ MailFailed(e) \/ MarkSent(e) \/ SkipEnrollment(e)
                                \/ MailStep(e) \/ markEnrollmentFailed(e) \/ AdvanceEnrollment(e)
                                \/ Unsubscribe(e)
           \/ \E n \in DailyLimits : UpdateSettings(n)
           \/ \E c \in Campaigns : CreateCampaign(c)
  <2>1. request' = request /\ crossed' = crossed /\ sequence' = sequence
    BY <1>7 DEF processQueue, processSequenceTick, NewDay, vars, TakeRecipients, completeCampaign,
       MailRecipient, MailFailed, MarkSent, SkipEnrollment, MailStep, markEnrollmentFailed,
       AdvanceEnrollment, Unsubscribe, UpdateSettings, CreateCampaign, mailing
  <2> QED BY <2>1 DEF CrossInv
<1>8. CASE CreateSequence
  <2>1. request' = request /\ crossed' = crossed /\ sequence.status = "none" BY <1>8 DEF CreateSequence
  <2>2. \A kind \in SequenceActs : "none" \notin AllowedFrom[kind] \cup {"completed"}
    BY DEF AllowedFrom, SequenceActs
  <2> QED BY <2>1, <2>2 DEF CrossInv
<1> QED BY <1>1, <1>2, <1>3, <1>4, <1>5, <1>6, <1>7, <1>8 DEF Next, Work

(* What writes the sequence's status.                                       *)
LEMMA CancelledStep ==
  ASSUME Inv, CrossInv, [Next]_vars, sequence.status = "cancelled", ~crossed
  PROVE  sequence'.status \in {"cancelled", "completed"}
<1>1. ASSUME NEW i \in Slots, LaunchSequence(i) \/ setSequenceStatus(i) PROVE FALSE
  <2>1. request[i].kind \in SequenceActs /\ request[i].at = "write"
    BY <1>1 DEF LaunchSequence, setSequenceStatus, SequenceActs
  <2> QED BY <2>1, CancelledAllows DEF CrossInv
<1>2. CASE \E e \in Emails : maybeCompleteSequence(e)
  BY <1>2 DEF maybeCompleteSequence, Inv, TypeOK
<1>3. CASE ~\E e \in Emails : maybeCompleteSequence(e)
  <2>1. sequence' = sequence
    BY <1>1, <1>3 DEF Next, Work, vars, mailing, NewDay, Restart, UpdateSettings, Unsubscribe, AskFor,
       ReadMailing, InsertRecipients, MarkSending, processQueue, processSequenceTick, TakeRecipients,
       completeCampaign, MailRecipient, MailFailed, MarkSent, SkipEnrollment, MailStep,
       markEnrollmentFailed, AdvanceEnrollment, CreateSequence, CreateCampaign
  <2> QED BY <2>1
<1> QED BY <1>2, <1>3

(* A canceled sequence does not run again as long as acts do not overlap,   *)
(* whatever the tables show and the loop does (sequences.go:286-304).       *)
THEOREM MarketingStaysCancelled == Spec => CancelledStays
<1>1. Spec => [](Inv /\ CrossInv)
  <2>1. Inv /\ CrossInv /\ [Next]_vars => Inv' /\ CrossInv' BY NextInv, NextCross
  <2> QED BY <2>1, InitInv, InitCross, PTL DEF Spec
<1>2. Inv /\ CrossInv /\ [Next]_vars
        => [sequence.status = "cancelled" /\ ~crossed
              => sequence'.status \in {"cancelled", "completed"}]_sequence
  BY CancelledStep
<1> QED BY <1>1, <1>2, PTL DEF Spec, CancelledStays

----------------------------------------------------------------------------
(* The quota.  With nobody stopping the loop and no day beginning under it, *)
(* what was mailed is booked but for the mail that is under way, and what   *)
(* the loop may still send fits into the day's row.                         *)
Unbooked == IF worker.at \in {"mark", "advance", "finish"} THEN 1 ELSE 0
QuotaFits ==
  /\ quota = NoDay => worker.at = "idle"
  /\ today = quota.sent + Unbooked /\ quota.sent <= quota.limit
  /\ worker.at \in {"campaigns", "recipients", "mark"} =>
       quota.sent + worker.left <= quota.limit /\ Cardinality(worker.due) <= worker.left
  /\ worker.at \in {"enrollments", "advance", "finish"} =>
       quota.sent + Cardinality(worker.due) <= quota.limit
QuotaInv == faults = 0 /\ ~turned => QuotaFits

LEMMA InitQuota == Init => QuotaInv
<1> SUFFICES ASSUME Init PROVE QuotaFits BY DEF QuotaInv
<1> QED BY DEF Init, QuotaFits, Unbooked, NoDay, Idle

(* The addresses of a batch are counted.                                    *)
LEMMA DueCounted ==
  ASSUME TypeOK
  PROVE  /\ IsFiniteSet(worker.due) /\ Cardinality(worker.due) \in Nat
         /\ \A e \in worker.due : Cardinality(worker.due \ {e}) = Cardinality(worker.due) - 1
         /\ worker.due # {} => Cardinality(worker.due) > 0
<1>1. IsFiniteSet(worker.due)
  BY FS_Subset, MarketingAssumption DEF TypeOK, Worker
<1>2. Cardinality(worker.due) \in Nat
  BY <1>1, FS_CardinalityType
<1>3. \A e \in worker.due : Cardinality(worker.due \ {e}) = Cardinality(worker.due) - 1
  BY <1>1, FS_RemoveElement
<1>4. worker.due # {} => Cardinality(worker.due) # 0
  BY <1>1, FS_EmptySet
<1> QED BY <1>1, <1>2, <1>3, <1>4

LEMMA QuotaStays ==
  ASSUME QuotaFits, UNCHANGED <<quota, today, worker>>
  PROVE  QuotaFits'
BY DEF QuotaFits, Unbooked

(* The loop takes what is left, and no batch is larger than that.           *)
LEMMA TickQuota ==
  ASSUME Inv, QuotaFits, processQueue
  PROVE  QuotaFits'
<1>1. quota' = Looked /\ worker'.at = "campaigns" /\ worker'.left = Left /\ worker'.due = {}
      /\ today' = today /\ worker.at = "idle"
  BY DEF processQueue, Idle
<1>2. /\ limit \in Nat \ {0} /\ quota \in [sent : Nat, limit : Nat]
      /\ today = quota.sent /\ quota.sent <= quota.limit
  BY <1>1, MarketingAssumption DEF Inv, TypeOK, QuotaFits, Unbooked
<1>3. Left > 0 /\ Cardinality(worker'.due) = 0
  BY <1>1, FS_EmptySet DEF processQueue
<1>4. Looked.sent = quota.sent /\ Looked.sent + Left <= Looked.limit /\ Looked # NoDay /\ Left \in Int
      /\ Looked.sent \in Nat /\ Looked.limit \in Nat
  <2>1. CASE quota = NoDay
    BY <1>2, <2>1 DEF Looked, Left, effectiveDailyLimit, NoDay
  <2>2. CASE quota # NoDay
    BY <1>2, <2>2 DEF Looked, Left, Remaining
  <2> QED BY <2>1, <2>2
<1>5. quota'.sent + worker'.left <= quota'.limit /\ quota'.sent <= quota'.limit
  BY <1>1, <1>3, <1>4
<1>6. Unbooked' = 0 BY <1>1 DEF Unbooked
<1> QED BY <1>1, <1>2, <1>3, <1>4, <1>5, <1>6 DEF QuotaFits

LEMMA TakeQuota ==
  ASSUME Inv, QuotaFits, NEW c \in Campaigns, TakeRecipients(c)
  PROVE  QuotaFits'
<1>1. PICK due \in SUBSET Pending(c) :
        /\ Cardinality(due) = AtMost(worker.left) \/ Cardinality(due) < AtMost(worker.left)
        /\ worker' = [worker EXCEPT !.at = "recipients", !.of = c, !.due = due]
  BY DEF TakeRecipients
<1>2. /\ worker'.at = "recipients" /\ worker'.left = worker.left /\ worker'.due = due
      /\ worker.left \in Int /\ worker.at = "campaigns" /\ UNCHANGED <<quota, today>>
  BY <1>1 DEF Inv, TypeOK, Worker, TakeRecipients
<1>3. Cardinality(due) \in Nat BY AudienceCounted DEF Pending
<1>4. Cardinality(due) <= worker.left BY <1>1, <1>2, <1>3, MarketingAssumption DEF AtMost
<1> QED BY <1>2, <1>4 DEF QuotaFits, Unbooked

LEMMA SequenceTickQuota ==
  ASSUME Inv, QuotaFits, processSequenceTick
  PROVE  QuotaFits'
<1>1. /\ quota # NoDay /\ quota' = quota /\ today' = today /\ worker.at = "campaigns"
  BY DEF processSequenceTick, QuotaFits, Looked
<1>2. PICK due \in SUBSET Emails : /\ due # {} => Cardinality(due) <= AtMost(Left)
                                   /\ worker' = IF due = {} THEN Idle
                                                ELSE [Idle EXCEPT !.at = "enrollments", !.due = due]
  BY DEF processSequenceTick, Active
<1>3. /\ limit \in Nat \ {0} /\ quota.sent \in Nat /\ quota.limit \in Nat
      /\ Cardinality(due) \in Nat
  BY MarketingAssumption, AudienceCounted DEF Inv, TypeOK
<1>4. due # {} => quota.sent + Cardinality(due) <= quota.limit
  BY <1>1, <1>2, <1>3, MarketingAssumption DEF AtMost, Left, Remaining
<1>5. /\ worker'.at = "idle" \/ (worker'.at = "enrollments" /\ worker'.due = due /\ due # {})
  BY <1>2 DEF Idle
<1> QED BY <1>1, <1>4, <1>5 DEF QuotaFits, Unbooked

LEMMA MailQuota ==
  ASSUME Inv, QuotaFits, NEW e \in Emails, MailRecipient(e) \/ MailStep(e)
  PROVE  QuotaFits'
<1>1. /\ worker'.due = worker.due /\ worker'.left = worker.left
      /\ \/ worker.at = "recipients" /\ worker'.at = "mark"
         \/ worker.at = "enrollments" /\ worker'.at = "advance"
      /\ today' = today + 1 /\ quota' = quota /\ e \in worker.due
  BY DEF MailRecipient, MailStep, Mail, Inv, TypeOK, Worker
<1>2. /\ quota.sent \in Nat /\ quota.limit \in Nat /\ worker.left \in Int /\ today \in Nat
      /\ Cardinality(worker.due) \in Nat /\ Cardinality(worker.due) > 0
  BY <1>1, DueCounted DEF Inv, HistoryTyped, TypeOK, Worker
<1> QED BY <1>1, <1>2 DEF QuotaFits, Unbooked

(* One of a batch less; "n" of it were booked.                              *)
LEMMA RestQuota ==
  ASSUME Inv, QuotaFits, NEW e \in worker.due, NEW n \in {0, 1}, quota # NoDay,
         today' = today, Unbooked = n,
         quota'.sent = quota.sent + n, quota'.limit = quota.limit, quota' # NoDay,
         worker'.due = worker.due \ {e},
         \/ /\ worker.at \in {"recipients", "mark"} /\ worker'.at \in {"campaigns", "recipients"}
            /\ worker'.left = worker.left - n
         \/ /\ worker.at \in {"enrollments", "advance", "finish"}
            /\ worker'.at \in {"idle", "enrollments"}
  PROVE  QuotaFits'
<1>1. /\ quota.sent \in Nat /\ quota.limit \in Nat /\ worker.left \in Int /\ today \in Nat
      /\ Cardinality(worker.due) \in Nat /\ Cardinality(worker'.due) = Cardinality(worker.due) - 1
      /\ Cardinality(worker.due) > 0
  BY DueCounted DEF Inv, HistoryTyped, TypeOK, Worker
<1>2. Unbooked' = 0 BY DEF Unbooked
<1>3. today' = quota'.sent /\ quota'.sent <= quota'.limit
  BY <1>1 DEF QuotaFits
<1>4. worker'.at \in {"campaigns", "recipients", "mark"} =>
        quota'.sent + worker'.left <= quota'.limit /\ Cardinality(worker'.due) <= worker'.left
  BY <1>1 DEF QuotaFits
<1>5. worker'.at \in {"enrollments", "advance", "finish"} =>
        quota'.sent + Cardinality(worker'.due) <= quota'.limit
  BY <1>1 DEF QuotaFits
<1> QED BY <1>1, <1>2, <1>3, <1>4, <1>5 DEF QuotaFits

LEMMA BatchQuota ==
  ASSUME Inv, QuotaFits, NEW e \in Emails,
         \/ MailFailed(e) \/ MarkSent(e) \/ SkipEnrollment(e) \/ markEnrollmentFailed(e)
         \/ AdvanceEnrollment(e) \/ maybeCompleteSequence(e)
  PROVE  QuotaFits'
<1>1. e \in worker.due /\ quota # NoDay /\ today' = today
  BY DEF MailFailed, MarkSent, SkipEnrollment, markEnrollmentFailed, AdvanceEnrollment,
         maybeCompleteSequence, Inv, BatchStands, QuotaFits
<1>2. quota.sent \in Nat /\ quota.limit \in Nat /\ worker \in Worker
  BY DEF Inv, TypeOK
<1>3. incrementQuota.sent = quota.sent + 1 /\ incrementQuota.limit = quota.limit
      /\ incrementQuota # NoDay
  BY <1>1, <1>2 DEF incrementQuota, Looked, NoDay, Inv, TypeOK
<1>4. NextRecipient(e).left = worker.left
  BY <1>2 DEF NextRecipient, Worker
<1>5. CASE MailFailed(e)
  <2>1. worker' = NextRecipient(e) /\ quota' = quota /\ worker.at = "recipients" /\ Unbooked = 0
    BY <1>5 DEF MailFailed, Unbooked
  <2> QED BY <1>1, <1>2, <1>4, <2>1, RestOfBatch, RestQuota DEF Inv, Worker
<1>6. CASE MarkSent(e)
  <2>1. worker' = [NextRecipient(e) EXCEPT !.left = @ - 1] /\ quota' = incrementQuota
        /\ worker.at = "mark" /\ Unbooked = 1
    BY <1>6 DEF MarkSent, Unbooked
  <2>2. worker'.left = worker.left - 1 /\ worker'.at = NextRecipient(e).at
        /\ worker'.due = NextRecipient(e).due
    BY <1>1, <1>4, <2>1, RestOfBatch DEF Inv, Worker
  <2> QED BY <1>1, <1>3, <2>1, <2>2, RestOfBatch, RestQuota DEF Inv
<1>7. CASE SkipEnrollment(e) \/ markEnrollmentFailed(e)
  <2>1. worker' = NextEnrollment(e) /\ quota' = quota /\ worker.at = "enrollments" /\ Unbooked = 0
    BY <1>7 DEF SkipEnrollment, markEnrollmentFailed, Unbooked
  <2> QED BY <1>1, <1>2, <2>1, RestOfBatch, RestQuota DEF Inv
<1>8. CASE AdvanceEnrollment(e)
  <2>1. worker.at = "advance" /\ Unbooked = 1
    BY <1>8 DEF AdvanceEnrollment, Unbooked
  <2>2. CASE worker' = [worker EXCEPT !.at = "finish"] /\ UNCHANGED quota
    <3>1. worker'.at = "finish" /\ worker'.due = worker.due /\ Unbooked' = 1
      BY <1>2, <2>2 DEF Worker, Unbooked
    <3> QED BY <1>1, <2>1, <2>2, <3>1 DEF QuotaFits
  <2>3. CASE worker' = NextEnrollment(e) /\ quota' = incrementQuota
    BY <1>1, <1>3, <2>1, <2>3, RestOfBatch, RestQuota DEF Inv
  <2> QED BY <1>8, <2>2, <2>3 DEF AdvanceEnrollment
<1>9. CASE maybeCompleteSequence(e)
  <2>1. worker' = NextEnrollment(e) /\ quota' = incrementQuota /\ worker.at = "finish" /\ Unbooked = 1
    BY <1>9 DEF maybeCompleteSequence, Unbooked
  <2> QED BY <1>1, <1>3, <2>1, RestOfBatch, RestQuota DEF Inv
<1> QED BY <1>5, <1>6, <1>7, <1>8, <1>9

LEMMA NextQuota ==
  ASSUME Inv, QuotaInv, [Next]_vars
  PROVE  QuotaInv'
<1> SUFFICES ASSUME faults' = 0, ~turned' PROVE QuotaFits' BY DEF QuotaInv
<1>1. CASE Restart BY <1>1 DEF Restart, Inv, HistoryTyped
<1>2. CASE NewDay
  <2>1. quota' = NoDay /\ today' = 0 /\ worker' = worker /\ worker.at = "idle" BY <1>2 DEF NewDay
  <2> QED BY <2>1 DEF QuotaFits, Unbooked, NoDay
<1>3. ASSUME ~Restart, ~NewDay PROVE QuotaFits
  <2>1. faults' = faults /\ turned' = turned
    BY <1>3 DEF Next, CreateSequence, CreateCampaign, Work, UpdateSettings, Unsubscribe, AskFor,
       ReadMailing, InsertRecipients, MarkSending, LaunchSequence, setSequenceStatus, processQueue,
       processSequenceTick, TakeRecipients, completeCampaign, MailRecipient, MailFailed, MarkSent,
       SkipEnrollment, MailStep, markEnrollmentFailed, AdvanceEnrollment, maybeCompleteSequence,
       vars, bounds, sending
  <2> QED BY <2>1 DEF QuotaInv
<1>4. ASSUME ~Restart, ~NewDay, Work PROVE QuotaFits'
  <2>1. ASSUME NEW c \in Campaigns, completeCampaign(c) PROVE QuotaFits'
    <3>1. /\ worker'.at = worker.at /\ worker'.left = worker.left /\ worker'.due = worker.due
          /\ UNCHANGED <<quota, today>>
      BY <2>1 DEF completeCampaign, Inv, TypeOK, Worker
    <3> QED BY <1>3, <1>4, <3>1 DEF QuotaFits, Unbooked
  <2> QED BY <1>3, <1>4, <2>1, TickQuota, TakeQuota, SequenceTickQuota, MailQuota, BatchQuota DEF Work
<1>5. ASSUME ~Restart, ~NewDay, ~Work PROVE QuotaFits'
  <2>1. UNCHANGED <<quota, today, worker>>
    BY <1>5 DEF Next, CreateSequence, CreateCampaign, UpdateSettings, Unsubscribe, AskFor,
       ReadMailing, InsertRecipients, MarkSending, LaunchSequence, setSequenceStatus, vars, sending
  <2> QED BY <1>3, <1>5, <2>1, QuotaStays
<1> QED BY <1>1, <1>2, <1>4, <1>5

(* For any limits, batches and edits of the settings: no day's row is       *)
(* exceeded, as long as the server does not stop and no day begins under    *)
(* the loop (service.go:298, 472).                                          *)
THEOREM MarketingKeepsQuota == Spec => []QuotaKept
<1>1. Spec => [](Inv /\ QuotaInv) BY InitInv, NextInv, InitQuota, NextQuota, PTL DEF Spec
<1>2. Inv /\ QuotaInv => QuotaKept
  <2>1. ASSUME Inv, QuotaFits PROVE today <= quota.limit
    <3>1. /\ quota.sent \in Nat /\ quota.limit \in Nat /\ today \in Nat /\ worker.left \in Int
          /\ Cardinality(worker.due) \in Nat
          /\ worker.at \in {"mark", "advance", "finish"} => Cardinality(worker.due) > 0
      BY <2>1, DueCounted DEF Inv, HistoryTyped, TypeOK, Worker, BatchStands
    <3> QED BY <2>1, <3>1 DEF QuotaFits, Unbooked
  <2> QED BY <2>1 DEF QuotaInv, QuotaKept
<1> QED BY <1>1, <1>2, PTL

----------------------------------------------------------------------------
(* The counters.  A campaign that was not sent has none, and only the one   *)
(* request that sends it has made recipients of its audience; one that was  *)
(* has as many recipients of each status as its counters say.               *)
With(c, s) == {e \in Emails : recipient[c][e] = s}
Sends(i, c, at) == request[i].kind = "send" /\ request[i].row = c /\ request[i].at = at
Made(c, e) == \E i \in Slots : Sends(i, c, "count") /\ e \in request[i].audience
Unsent(c) ==
  /\ campaign[c].status \in {"none", "draft"}
  /\ campaign[c].total = 0 /\ campaign[c].sent = 0 /\ campaign[c].failed = 0 /\ campaign[c].pending = 0
  /\ c \notin worker.todo /\ (worker.at \in {"recipients", "mark"} => worker.of # c)
  /\ \A e \in Emails : recipient[c][e] = IF Made(c, e) THEN "pending" ELSE "none"
Agree(c) ==
  /\ campaign[c].sent = Cardinality(With(c, "sent"))
  /\ campaign[c].failed = Cardinality(With(c, "failed"))
  /\ campaign[c].pending = Cardinality(With(c, "pending"))
  /\ campaign[c].total = campaign[c].sent + campaign[c].failed + campaign[c].pending
WasSent(c) ==
  /\ campaign[c].status \in {"sending", "completed"} /\ Agree(c)
  /\ campaign[c].status = "completed" => With(c, "pending") = {}
  /\ \A i \in Slots : ~Sends(i, c, "write") /\ ~Sends(i, c, "count")
CountersFit(c) ==
  /\ Unsent(c) \/ WasSent(c)
  /\ \A i \in Slots : Sends(i, c, "write") \/ Sends(i, c, "count") => campaign[c].status = "draft"
CountersInv == faults = 0 /\ ~crossed => \A c \in Campaigns : CountersFit(c)

LEMMA InitCounters == Init => CountersInv
<1> SUFFICES ASSUME Init, NEW c \in Campaigns PROVE CountersFit(c) BY DEF CountersInv
<1>1. \A i \in Slots, at \in {"write", "count"} : ~Sends(i, c, at)
  BY DEF Init, Sends, Free
<1>2. \A e \in Emails : ~Made(c, e) BY <1>1 DEF Made
<1>3. Unsent(c) BY <1>2 DEF Init, Unsent, Idle
<1> QED BY <1>1, <1>3 DEF CountersFit

(* A request that stays where it is, or is not one that writes recipients.  *)
SameSends(c) ==
  \A i \in Slots :
    /\ Sends(i, c, "write")' <=> Sends(i, c, "write")
    /\ Sends(i, c, "count")' <=> Sends(i, c, "count")
    /\ Sends(i, c, "count") => request'[i].audience = request[i].audience

LEMMA SameMade ==
  ASSUME NEW c, SameSends(c)
  PROVE  \A e : Made(c, e)' <=> Made(c, e)
BY DEF Made, SameSends

LEMMA CountersStay ==
  ASSUME NEW c \in Campaigns, CountersFit(c), SameSends(c),
         campaign'[c] = campaign[c], recipient'[c] = recipient[c],
         c \in worker'.todo => c \in worker.todo \/ campaign[c].status = "sending",
         worker'.at \in {"recipients", "mark"} /\ worker'.of = c =>
           c \in worker.todo \/ (worker.at \in {"recipients", "mark"} /\ worker.of = c)
  PROVE  CountersFit(c)'
<1>1. \A s : With(c, s)' = With(c, s) BY DEF With
<1>2. ASSUME Unsent(c) PROVE Unsent(c)' BY <1>2, SameMade DEF Unsent
<1>3. ASSUME WasSent(c) PROVE WasSent(c)' BY <1>1, <1>3 DEF WasSent, Agree, SameSends
<1> QED BY <1>2, <1>3 DEF CountersFit, SameSends

(* The requests and their steps.                                            *)
LEMMA OtherSends ==
  ASSUME NEW c, NEW i \in Slots, \A j \in Slots : j # i => request'[j] = request[j],
         \A at \in {"write", "count"} : ~Sends(i, c, at) /\ ~Sends(i, c, at)'
  PROVE  SameSends(c)
BY DEF SameSends, Sends

LEMMA UnsentMade ==
  ASSUME Inv, CrossInv, ~crossed, NEW i \in Slots, request[i] # Free, NEW c,
         ~Sends(i, c, "count")
  PROVE  \A e : ~Made(c, e)
BY DEF CrossInv, Made, Sends, Free

LEMMA ReadCounters ==
  ASSUME Inv, NEW i \in Slots, ReadMailing(i), NEW c \in Campaigns, CountersFit(c)
  PROVE  CountersFit(c)'
<1> DEFINE r == request[i]
           S == IF r.kind \in {"send", "launch"} THEN Audience ELSE {}
<1>1. r # Free /\ r \in Requests /\ r.at = "server"
  BY ActIsSent DEF ReadMailing, Inv, RequestsTyped
<1>2. UNCHANGED <<campaign, recipient, worker>> BY DEF ReadMailing, mailing, sending
<1>3. PICK q : /\ q = Free \/ q = [r EXCEPT !.at = "write", !.audience = S]
               /\ request' = [request EXCEPT ![i] = q]
               /\ q = Free \/ StatusOf(r.row) \in AllowedFrom[r.kind]
  BY DEF ReadMailing, Ends, GoesOn
<1>4. request'[i] = q /\ \A j \in Slots : j # i => request'[j] = request[j]
  BY <1>3 DEF Inv, RequestsTyped
<1>5. /\ ~Sends(i, c, "write") /\ ~Sends(i, c, "count")
      /\ q = Free \/ (q.at = "write" /\ q.kind = r.kind /\ q.row = r.row)
      /\ Free.kind # "send"
  BY <1>1, <1>3 DEF Sends, Requests, Free
<1>6. CASE q.kind = "send" /\ q.row = c /\ q.at = "write"
  <2>1. r.kind = "send" /\ r.row = c /\ StatusOf(c) \in {"draft", "paused"}
    BY <1>3, <1>5, <1>6 DEF AllowedFrom
  <2>2. campaign[c].status = "draft"
    BY <2>1, MarketingAssumption DEF StatusOf, Inv, TypeOK, Row, CampaignStatuses
  <2>3. Unsent(c) BY <2>2 DEF CountersFit, WasSent
  <2>4. \A e : Made(c, e)' <=> Made(c, e)
    BY <1>4, <1>5, <1>6 DEF Made, Sends
  <2>5. Unsent(c)' BY <1>2, <2>3, <2>4 DEF Unsent
  <2> QED BY <1>2, <2>2, <2>5 DEF CountersFit
<1>7. CASE ~(q.kind = "send" /\ q.row = c /\ q.at = "write")
  <2>1. SameSends(c)
    BY <1>4, <1>5, <1>7, OtherSends DEF Sends, Free
  <2> QED BY <1>2, <2>1, CountersStay DEF CountersFit
<1> QED BY <1>6, <1>7

LEMMA InsertCounters ==
  ASSUME Inv, CrossInv, ~crossed, NEW i \in Slots, InsertRecipients(i), NEW c \in Campaigns,
         CountersFit(c)
  PROVE  CountersFit(c)'
<1> DEFINE r == request[i]
<1>1. r # Free /\ r \in Requests /\ r.kind = "send" /\ r.at = "write"
  BY ActIsSent, KindsListed DEF InsertRecipients, Inv, RequestsTyped
<1>2. UNCHANGED <<campaign, worker>> BY DEF InsertRecipients, sending
<1>3. PICK q : q = [r EXCEPT !.at = "count"] /\ request' = [request EXCEPT ![i] = q]
  BY DEF InsertRecipients, GoesOn
<1>4. request'[i] = q /\ (\A j \in Slots : j # i => request'[j] = request[j])
      /\ q.kind = "send" /\ q.at = "count" /\ q.row = r.row /\ q.audience = r.audience
  BY <1>1, <1>3 DEF Inv, RequestsTyped, Requests
<1>5. r.row \in Campaigns BY <1>1 DEF Inv, RequestsTyped
<1>6. CASE r.row # c
  <2>1. recipient'[c] = recipient[c] BY <1>5, <1>6 DEF InsertRecipients, Inv, TypeOK
  <2>2. SameSends(c) BY <1>4, <1>6, OtherSends DEF Sends
  <2> QED BY <1>2, <2>1, <2>2, CountersStay DEF CountersFit
<1>7. CASE r.row = c
  <2>1. Sends(i, c, "write") BY <1>1, <1>7 DEF Sends
  <2>2. campaign[c].status = "draft" /\ Unsent(c) BY <2>1 DEF CountersFit, WasSent
  <2>3. \A e : ~Made(c, e)
    BY <1>1, UnsentMade DEF Sends
  <2>4. \A e \in Emails : recipient'[c][e] = IF e \in r.audience THEN "pending" ELSE "none"
    BY <1>7, <2>2, <2>3 DEF InsertRecipients, Inv, TypeOK, Unsent
  <2>5. \A j \in Slots : j # i => request'[j] = Free
    BY <1>1, <1>4 DEF CrossInv
  <2>6. \A e : Made(c, e)' <=> e \in r.audience
    BY <1>4, <1>7, <2>5 DEF Made, Sends, Free
  <2>7. Unsent(c)' BY <1>2, <2>2, <2>4, <2>6 DEF Unsent
  <2> QED BY <1>2, <2>2, <2>7 DEF CountersFit
<1> QED BY <1>6, <1>7

LEMMA MarkSendingCounters ==
  ASSUME Inv, CrossInv, ~crossed, NEW i \in Slots, MarkSending(i), NEW c \in Campaigns,
         CountersFit(c)
  PROVE  CountersFit(c)'
<1> DEFINE r == request[i]
<1>1. r # Free /\ r \in Requests /\ r.kind = "send" /\ r.at = "count" /\ r.row \in Campaigns
  BY ActIsSent, KindsListed DEF MarkSending, Inv, RequestsTyped
<1>2. UNCHANGED <<recipient, worker>> BY DEF MarkSending, sending
<1>3. request'[i] = Free /\ (\A j \in Slots : j # i => request'[j] = request[j])
  BY DEF MarkSending, Ends, Inv, RequestsTyped
<1>4. CASE r.row # c
  <2>1. campaign'[c] = campaign[c] BY <1>4 DEF MarkSending, Inv, TypeOK
  <2>2. SameSends(c) BY <1>3, <1>4, OtherSends DEF Sends, Free
  <2> QED BY <1>2, <2>1, <2>2, CountersStay DEF CountersFit
<1>5. CASE r.row = c
  <2>1. Sends(i, c, "count") BY <1>1, <1>5 DEF Sends
  <2>2. Unsent(c) BY <2>1 DEF CountersFit, WasSent
  <2>3. \A j \in Slots : j # i => request[j] = Free BY <1>1 DEF CrossInv
  <2>4. \A e : Made(c, e) <=> e \in r.audience BY <2>1, <2>3 DEF Made, Sends, Free
  <2>5. r.audience \in SUBSET Emails BY <1>1 DEF Requests
  <2>6. /\ With(c, "pending")' = r.audience /\ With(c, "sent")' = {} /\ With(c, "failed")' = {}
    BY <1>2, <2>2, <2>4, <2>5 DEF With, Unsent
  <2>7. PICK n \in Nat : n = Cardinality(r.audience) BY <2>5, AudienceCounted
  <2>8. /\ campaign'[c].status = "sending" /\ campaign'[c].total = n /\ campaign'[c].pending = n
        /\ campaign'[c].sent = 0 /\ campaign'[c].failed = 0
    <3>1. campaign' = [campaign EXCEPT ![c].status = "sending", ![c].total = n, ![c].pending = n]
      BY <1>5, <2>7 DEF MarkSending
    <3> QED BY <2>2, <3>1 DEF Inv, TypeOK, Row, Unsent
  <2>9. Agree(c)'
    <3>1. /\ Cardinality(With(c, "pending")') = n /\ Cardinality(With(c, "sent")') = 0
          /\ Cardinality(With(c, "failed")') = 0
      BY <2>6, <2>7, FS_EmptySet
    <3> QED BY <2>8, <3>1 DEF Agree
  <2>10. \A j \in Slots : ~Sends(j, c, "write")' /\ ~Sends(j, c, "count")'
    BY <1>3, <2>3 DEF Sends, Free
  <2> QED BY <2>8, <2>9, <2>10 DEF CountersFit, WasSent
<1> QED BY <1>4, <1>5

(* One recipient of a batch is no longer pending.                           *)
LEMMA OneDone ==
  ASSUME Inv, NEW c \in Campaigns, NEW e \in Emails, recipient[c][e] = "pending", Agree(c),
         NEW s \in {"sent", "failed"}, recipient' = [recipient EXCEPT ![c][e] = s],
         campaign'[c].total = campaign[c].total, campaign'[c].pending = campaign[c].pending - 1,
         campaign'[c].sent = campaign[c].sent + IF s = "sent" THEN 1 ELSE 0,
         campaign'[c].failed = campaign[c].failed + IF s = "failed" THEN 1 ELSE 0
  PROVE  Agree(c)'
<1>1. \A x : IsFiniteSet(With(c, x)) /\ Cardinality(With(c, x)) \in Nat
  <2>1. \A x : With(c, x) \in SUBSET Emails BY DEF With
  <2> QED BY <2>1, FS_Subset, FS_CardinalityType, MarketingAssumption
<1>2. \A x \in Emails : recipient'[c][x] = IF x = e THEN s ELSE recipient[c][x]
  BY DEF Inv, TypeOK
<1>3. /\ With(c, "pending")' = With(c, "pending") \ {e} /\ e \in With(c, "pending")
      /\ With(c, s)' = With(c, s) \cup {e} /\ e \notin With(c, s)
      /\ \A x \in {"sent", "failed"} \ {s} : With(c, x)' = With(c, x)
  BY <1>2 DEF With
<1>4. /\ Cardinality(With(c, "pending")') = Cardinality(With(c, "pending")) - 1
      /\ Cardinality(With(c, s)') = Cardinality(With(c, s)) + 1
  <2>1. \A S : IsFiniteSet(S) /\ e \in S => Cardinality(S \ {e}) = Cardinality(S) - 1
    BY FS_RemoveElement
  <2>2. \A S : IsFiniteSet(S) /\ e \notin S => Cardinality(S \cup {e}) = Cardinality(S) + 1
    BY FS_AddElement
  <2> QED BY <1>1, <1>3, <2>1, <2>2
<1>5. campaign[c] \in Row BY DEF Inv, TypeOK
<1>6. CASE s = "sent"
  <2>1. /\ campaign'[c].sent = campaign[c].sent + 1 /\ campaign'[c].failed = campaign[c].failed
        /\ campaign[c].failed \in Nat /\ campaign[c].sent \in Nat /\ campaign[c].pending \in Int
        /\ campaign[c].total \in Nat
    BY <1>5, <1>6 DEF Row
  <2>2. /\ Cardinality(With(c, "sent")') = Cardinality(With(c, "sent")) + 1
        /\ Cardinality(With(c, "failed")') = Cardinality(With(c, "failed"))
    BY <1>3, <1>4, <1>6
  <2> QED BY <1>4, <2>1, <2>2 DEF Agree
<1>7. CASE s = "failed"
  <2>1. /\ campaign'[c].failed = campaign[c].failed + 1 /\ campaign'[c].sent = campaign[c].sent
        /\ campaign[c].failed \in Nat /\ campaign[c].sent \in Nat /\ campaign[c].pending \in Int
        /\ campaign[c].total \in Nat
    BY <1>5, <1>7 DEF Row
  <2>2. /\ Cardinality(With(c, "failed")') = Cardinality(With(c, "failed")) + 1
        /\ Cardinality(With(c, "sent")') = Cardinality(With(c, "sent"))
    BY <1>3, <1>4, <1>7
  <2> QED BY <1>4, <2>1, <2>2 DEF Agree
<1> QED BY <1>6, <1>7

LEMMA BatchCounters ==
  ASSUME Inv, NEW e \in Emails, MailFailed(e) \/ MarkSent(e), NEW c \in Campaigns, CountersFit(c)
  PROVE  CountersFit(c)'
<1> DEFINE d == worker.of
<1>1. worker.at \in {"recipients", "mark"} /\ e \in worker.due /\ UNCHANGED request
  BY DEF MailFailed, MarkSent, Inv, BatchStands
<1>2. d \in Campaigns /\ recipient[d][e] = "pending"
  BY <1>1 DEF Inv, BatchStands
<1>3. worker'.at \in {"campaigns", "recipients"} /\ worker'.of = worker.of
      /\ worker'.todo \subseteq worker.todo
  <2>1. NextRecipient(e).todo \subseteq worker.todo
    BY DEF NextRecipient, Inv, TypeOK, Worker
  <2>2. NextRecipient(e) \in Worker /\ NextRecipient(e).at \in {"campaigns", "recipients"}
        /\ NextRecipient(e).of = worker.of
    BY <1>1, RestOfBatch DEF Inv
  <2>3. worker' = NextRecipient(e) \/ worker' = [NextRecipient(e) EXCEPT !.left = @ - 1]
    BY DEF MailFailed, MarkSent
  <2> QED BY <2>1, <2>2, <2>3 DEF Worker
<1>4. PICK s \in {"sent", "failed"} :
        /\ recipient' = [recipient EXCEPT ![d][e] = s]
        /\ \/ s = "sent" /\ campaign' = [campaign EXCEPT ![d].sent = @ + 1, ![d].pending = @ - 1]
           \/ s = "failed" /\ campaign' = [campaign EXCEPT ![d].failed = @ + 1, ![d].pending = @ - 1]
  BY DEF MailFailed, MarkSent
<1>5. SameSends(c) BY <1>1 DEF SameSends, Sends
<1>6. CASE c # d
  <2>1. recipient'[c] = recipient[c] /\ campaign'[c] = campaign[c]
    BY <1>4, <1>6 DEF Inv, TypeOK
  <2> QED BY <1>1, <1>3, <1>5, <2>1, CountersStay
<1>7. CASE c = d
  <2>1. WasSent(c) BY <1>1, <1>7 DEF CountersFit, Unsent
  <2>2. campaign[c].status = "sending" BY <1>2, <1>7, <2>1 DEF WasSent, With
  <2>3. /\ campaign'[c].status = campaign[c].status
        /\ campaign'[c].total = campaign[c].total /\ campaign'[c].pending = campaign[c].pending - 1
        /\ campaign'[c].sent = campaign[c].sent + IF s = "sent" THEN 1 ELSE 0
        /\ campaign'[c].failed = campaign[c].failed + IF s = "failed" THEN 1 ELSE 0
    <3>1. campaign[c] \in Row /\ campaign \in [Campaigns -> Row] BY DEF Inv, TypeOK
    <3>2. CASE s = "sent"
      <4>1. campaign' = [campaign EXCEPT ![c].sent = @ + 1, ![c].pending = @ - 1]
        BY <1>4, <1>7, <3>2
      <4> QED BY <3>1, <3>2, <4>1 DEF Row
    <3>3. CASE s = "failed"
      <4>1. campaign' = [campaign EXCEPT ![c].failed = @ + 1, ![c].pending = @ - 1]
        BY <1>4, <1>7, <3>3
      <4> QED BY <3>1, <3>3, <4>1 DEF Row
    <3> QED BY <3>2, <3>3
  <2>4. Agree(c)' BY <1>2, <1>4, <1>7, <2>1, <2>3, OneDone DEF WasSent
  <2> QED BY <1>5, <2>1, <2>2, <2>3, <2>4 DEF CountersFit, WasSent, SameSends
<1> QED BY <1>6, <1>7

LEMMA CompleteCounters ==
  ASSUME Inv, NEW d \in Campaigns, completeCampaign(d), NEW c \in Campaigns, CountersFit(c)
  PROVE  CountersFit(c)'
<1>1. /\ UNCHANGED <<recipient, request>> /\ worker'.at = "campaigns"
      /\ worker'.todo \subseteq worker.todo
      /\ campaign' = [campaign EXCEPT ![d].status = "completed"] /\ d \in worker.todo
      /\ Pending(d) = {}
  BY DEF completeCampaign, Inv, TypeOK, Worker
<1>2. SameSends(c) BY <1>1 DEF SameSends, Sends
<1>3. CASE c # d
  <2>1. campaign'[c] = campaign[c] BY <1>1, <1>3 DEF Inv, TypeOK
  <2> QED BY <1>1, <1>2, <2>1, CountersStay
<1>4. CASE c = d
  <2>1. WasSent(c) BY <1>1, <1>4 DEF CountersFit, Unsent
  <2>2. /\ campaign'[c].status = "completed" /\ campaign'[c].sent = campaign[c].sent
        /\ campaign'[c].failed = campaign[c].failed /\ campaign'[c].pending = campaign[c].pending
        /\ campaign'[c].total = campaign[c].total
    BY <1>1, <1>4 DEF Inv, TypeOK, Row
  <2>3. (\A s : With(c, s)' = With(c, s)) /\ With(c, "pending") = {}
    BY <1>1, <1>4 DEF With, Pending
  <2> QED BY <1>2, <2>1, <2>2, <2>3 DEF CountersFit, WasSent, Agree, SameSends
<1> QED BY <1>3, <1>4

LEMMA TickCounters ==
  ASSUME Inv, NEW c \in Campaigns, CountersFit(c),
         \/ processQueue \/ processSequenceTick
         \/ \E d \in Campaigns : TakeRecipients(d)
         \/ \E e \in Emails : \/ MailRecipient(e) \/ SkipEnrollment(e) \/ MailStep(e)
                              \/ markEnrollmentFailed(e) \/ AdvanceEnrollment(e)
                              \/ maybeCompleteSequence(e)
  PROVE  CountersFit(c)'
<1>1. UNCHANGED <<campaign, recipient, request>>
  BY DEF processQueue, processSequenceTick, TakeRecipients, MailRecipient, SkipEnrollment, MailStep,
         markEnrollmentFailed, AdvanceEnrollment, maybeCompleteSequence, mailing
<1>2. SameSends(c) BY <1>1 DEF SameSends, Sends
<1>3. worker \in Worker BY DEF Inv, TypeOK
<1>4. c \in worker'.todo => c \in worker.todo \/ campaign[c].status = "sending"
  <2>1. CASE processQueue BY <2>1 DEF processQueue, Idle
  <2>2. CASE processSequenceTick
    <3>1. worker'.at \in {"idle", "enrollments"} /\ worker'.todo = {}
      <4>1. PICK due : worker' = IF due = {} THEN Idle ELSE [Idle EXCEPT !.at = "enrollments", !.due = due]
        BY <2>2 DEF processSequenceTick
      <4>2. Idle.at = "idle" /\ Idle.todo = {} /\ "at" \in DOMAIN Idle /\ "due" \in DOMAIN Idle
        BY DEF Idle
      <4> QED BY <4>1, <4>2
    <3> QED BY <3>1
  <2>3. ASSUME NEW e \in Emails PROVE NextEnrollment(e).todo \subseteq worker.todo
    BY <1>3 DEF NextEnrollment, Idle, Worker
  <2> QED BY <1>3, <2>1, <2>2, <2>3
         DEF TakeRecipients, MailRecipient, SkipEnrollment, MailStep, markEnrollmentFailed,
             AdvanceEnrollment, maybeCompleteSequence, Worker
<1>5. worker'.at \in {"recipients", "mark"} /\ worker'.of = c =>
        c \in worker.todo \/ (worker.at \in {"recipients", "mark"} /\ worker.of = c)
  <2>1. CASE processQueue BY <2>1 DEF processQueue, Idle
  <2>2. CASE processSequenceTick
    <3>1. worker'.at \in {"idle", "enrollments"} /\ worker'.todo = {}
      <4>1. PICK due : worker' = IF due = {} THEN Idle ELSE [Idle EXCEPT !.at = "enrollments", !.due = due]
        BY <2>2 DEF processSequenceTick
      <4>2. Idle.at = "idle" /\ Idle.todo = {} /\ "at" \in DOMAIN Idle /\ "due" \in DOMAIN Idle
        BY DEF Idle
      <4> QED BY <4>1, <4>2
    <3> QED BY <3>1
  <2>3. ASSUME NEW e \in Emails PROVE NextEnrollment(e).at \in {"idle", "enrollments"}
    BY <1>3 DEF NextEnrollment, Idle, Worker
  <2> QED BY <1>3, <2>1, <2>2, <2>3
         DEF TakeRecipients, MailRecipient, SkipEnrollment, MailStep, markEnrollmentFailed,
             AdvanceEnrollment, maybeCompleteSequence, Worker
<1> QED BY <1>1, <1>2, <1>4, <1>5, CountersStay

(* A request that is sent, and one that ends without recipients.            *)
LEMMA SlotCounters ==
  ASSUME Inv, NEW c \in Campaigns, CountersFit(c), UNCHANGED <<campaign, recipient, worker>>,
         NEW i \in Slots, NEW q, request' = [request EXCEPT ![i] = q],
         ~Sends(i, c, "write") /\ ~Sends(i, c, "count"), q.kind # "send" \/ q.at = "server"
  PROVE  CountersFit(c)'
<1>1. request'[i] = q /\ \A j \in Slots : j # i => request'[j] = request[j]
  BY DEF Inv, RequestsTyped
<1>2. SameSends(c) BY <1>1, OtherSends DEF Sends
<1> QED BY <1>2, CountersStay

LEMMA RequestCounters ==
  ASSUME Inv, NEW c \in Campaigns, CountersFit(c),
         \/ \E i \in Slots : LaunchSequence(i) \/ setSequenceStatus(i)
         \/ \E kind \in Kinds, row \in Rows : AskFor(kind, row)
  PROVE  CountersFit(c)'
<1>1. UNCHANGED <<campaign, recipient, worker>>
  BY DEF LaunchSequence, setSequenceStatus, AskFor, mailing, sending
<1>2. ASSUME NEW i \in Slots, LaunchSequence(i) \/ setSequenceStatus(i) PROVE CountersFit(c)'
  <2>1. ~Sends(i, c, "write") /\ ~Sends(i, c, "count")
    BY <1>2 DEF LaunchSequence, setSequenceStatus, Sends
  <2>2. PICK q : q = Free /\ request' = [request EXCEPT ![i] = q]
    BY <1>2 DEF LaunchSequence, setSequenceStatus, Ends
  <2> QED BY <1>1, <2>1, <2>2, SlotCounters DEF Free
<1>3. ASSUME NEW kind \in Kinds, NEW row \in Rows, AskFor(kind, row) PROVE CountersFit(c)'
  <2>1. PICK i \in Slots : request[i] = Free /\ request' = [request EXCEPT ![i] = Act(kind, row)]
    BY <1>3 DEF AskFor, Send, FreeSlots
  <2>2. ~Sends(i, c, "write") /\ ~Sends(i, c, "count") BY <2>1 DEF Sends, Free
  <2>3. Act(kind, row).at = "server" BY DEF Act
  <2> QED BY <1>1, <2>1, <2>2, <2>3, SlotCounters
<1> QED BY <1>2, <1>3

LEMMA CreateCounters ==
  ASSUME Inv, NEW d \in Campaigns, CreateCampaign(d), NEW c \in Campaigns, CountersFit(c)
  PROVE  CountersFit(c)'
<1>1. UNCHANGED <<recipient, worker, request>> BY DEF CreateCampaign, sending
<1>2. SameSends(c) BY <1>1 DEF SameSends, Sends
<1>3. CASE c # d
  <2>1. campaign'[c] = campaign[c] BY <1>3 DEF CreateCampaign, Inv, TypeOK
  <2> QED BY <1>1, <1>2, <2>1, CountersStay
<1>4. CASE c = d
  <2>1. Unsent(c) BY <1>4 DEF CreateCampaign, CountersFit, WasSent
  <2>2. /\ campaign'[c].status = "draft" /\ campaign'[c].total = 0 /\ campaign'[c].sent = 0
        /\ campaign'[c].failed = 0 /\ campaign'[c].pending = 0
    BY <1>4, <2>1 DEF CreateCampaign, Inv, TypeOK, Row, Unsent
  <2>3. Unsent(c)' BY <1>1, <1>2, <2>1, <2>2, SameMade DEF Unsent
  <2> QED BY <2>2, <2>3 DEF CountersFit
<1> QED BY <1>3, <1>4

LEMMA NextCounters ==
  ASSUME Inv, CrossInv, CountersInv, [Next]_vars
  PROVE  CountersInv'
<1> SUFFICES ASSUME faults' = 0, ~crossed', NEW c \in Campaigns PROVE CountersFit(c)'
  BY DEF CountersInv
<1>1. CASE Restart BY <1>1 DEF Restart, Inv, HistoryTyped
<1>2. ASSUME ~Restart PROVE faults = 0 /\ ~crossed /\ CountersFit(c)
  <2>1. faults' = faults /\ (crossed' = crossed \/ crossed' = (crossed \/ ~Quiet))
    BY <1>2 DEF Next, CreateSequence, CreateCampaign, Work, NewDay, UpdateSettings, Unsubscribe, AskFor,
       ReadMailing, InsertRecipients, MarkSending, LaunchSequence, setSequenceStatus, processQueue,
       processSequenceTick, TakeRecipients, completeCampaign, MailRecipient, MailFailed, MarkSent,
       SkipEnrollment, MailStep, markEnrollmentFailed, AdvanceEnrollment, maybeCompleteSequence,
       vars, bounds
  <2>2. crossed => crossed' BY <2>1, Zenon
  <2> QED BY <2>1, <2>2 DEF CountersInv
<1>3. CASE Work /\ ~Restart
  BY <1>2, <1>3, TickCounters, BatchCounters, CompleteCounters DEF Work
<1>4. ASSUME ~Restart,
             NEW i \in Slots, \/ ReadMailing(i) \/ InsertRecipients(i) \/ MarkSending(i)
                              \/ LaunchSequence(i) \/ setSequenceStatus(i)
      PROVE  CountersFit(c)'
  BY <1>2, <1>4, ReadCounters, InsertCounters, MarkSendingCounters, RequestCounters
<1>5. CASE ~Restart /\ \E kind \in Kinds, row \in Rows : AskFor(kind, row)
  BY <1>2, <1>5, RequestCounters
<1>6. CASE ~Restart /\ \E d \in Campaigns : CreateCampaign(d)
  BY <1>2, <1>6, CreateCounters
<1>7. CASE ~Restart /\ \/ NewDay \/ CreateSequence \/ UNCHANGED vars
                       \/ \E n \in DailyLimits : UpdateSettings(n)
                       \/ \E e \in Emails : Unsubscribe(e)
  <2>1. UNCHANGED <<campaign, recipient, worker, request>>
    BY <1>7 DEF NewDay, CreateSequence, UpdateSettings, Unsubscribe, vars, mailing, sending
  <2>2. SameSends(c) BY <2>1 DEF SameSends, Sends
  <2> QED BY <1>2, <1>7, <2>1, <2>2, CountersStay
<1> QED BY <1>1, <1>3, <1>4, <1>5, <1>6, <1>7 DEF Next

(* For any audience, batches and requests that do not overlap: a completed  *)
(* campaign's counters agree with its recipients, and its total is of those *)
(* who were sent the mail and those who could not be (service.go:254-258,   *)
(* 399-413).                                                                *)
THEOREM MarketingCounts == Spec => []CountersAgree
<1>1. Spec => [](Inv /\ CrossInv /\ CountersInv)
  <2>1. Inv /\ CrossInv /\ CountersInv /\ [Next]_vars => (Inv /\ CrossInv /\ CountersInv)'
    BY NextInv, NextCross, NextCounters
  <2> QED BY <2>1, InitInv, InitCross, InitCounters, PTL DEF Spec
<1>2. Inv /\ CountersInv => CountersAgree
  <2>1. ASSUME Inv, NEW c \in Campaigns, CountersFit(c), campaign[c].status = "completed"
        PROVE  /\ campaign[c].sent = Cardinality(With(c, "sent"))
               /\ campaign[c].failed = Cardinality(With(c, "failed"))
               /\ campaign[c].pending = 0
               /\ campaign[c].total = campaign[c].sent + campaign[c].failed
    <3>1. WasSent(c) BY <2>1 DEF CountersFit, Unsent
    <3>2. campaign[c].pending = 0 BY <2>1, <3>1, FS_EmptySet DEF WasSent, Agree
    <3>3. campaign[c] \in Row BY <2>1 DEF Inv, TypeOK
    <3> QED BY <3>1, <3>2, <3>3 DEF WasSent, Agree, Row
  <2> QED BY <2>1 DEF CountersAgree, CountersInv, With
<1> QED BY <1>1, <1>2, PTL
=============================================================================
