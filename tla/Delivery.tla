------------------------------ MODULE Delivery ------------------------------
(* How a merchant hears of an invoice.  Whoever changes the payment's       *)
(* status commits the change and then publishes an event on an in-memory    *)
(* bus; each event starts a handler that runs concurrently with everything  *)
(* else, in no order, reads the payment AS IT IS BY THEN and sends one      *)
(* webhook.  Event i belongs to the i-th status the payment had.            *)
EXTENDS Integers, Sequences

CONSTANTS
  Updaters,     \* jobs and requests that may change the payment at once
  MaxChanges,   \* bound: statuses the payment goes through
  MaxFills,     \* bound: on-chain transfers booked
  MaxFaults     \* bound: crashes, failed statements, failed deliveries

ASSUME DeliveryBoundsAssumption ==
  MaxChanges \in Nat \ {0} /\ MaxFills \in Nat /\ MaxFaults \in Nat

VARIABLES
  changes,      \* the statuses the payment had; payments.status is the last
  fills,        \* number of fills recorded, in the order of their detection
  updater,      \* how far each updater is
  url,          \* whether the merchant has configured a webhook URL
  task,         \* how far the webhook handler of each event is
  inbox,        \* the webhooks the merchant received, in that order
  refused,      \* events whose webhook the merchant's server did not take
  unsent,       \* history: events that ended without an accepted webhook
                \* for another reason than the status "locked"
  stamped,      \* events that set payments.webhook_sent_at
  activations,  \* events that called HandlePaymentWebhook
  faults

vars == <<changes, fills, updater, url, task, inbox, refused, unsent, stamped,
          activations, faults>>
payment == <<changes, fills>>
outside == <<inbox, refused>>
marks == <<stamped, activations>>

Statuses ==
  {"pending", "locked", "partial", "inProgress", "underpaid", "success", "failed"}
Events == 1..MaxChanges

status == changes[Len(changes)]

(* Where the payment stands before each call of Update, as its callers      *)
(* check it.                                                                *)
Moves ==
  {<<"pending", "locked">>, <<"pending", "failed">>, <<"locked", "failed">>,
   <<"partial", "failed">>, <<"partial", "underpaid">>,
   <<"inProgress", "success">>, <<"inProgress", "underpaid">>,
   <<"inProgress", "failed">>, <<"underpaid", "success">>,
   <<"underpaid", "failed">>, <<"failed", "success">>}

Resting == [pc |-> "idle"]
Writing(pc, s) == [pc |-> pc, to |-> s]
Publishing(i) == [pc |-> "publish", event |-> i]
UpdaterStates ==
  {Resting} \cup [pc : {"update", "mark"}, to : Statuses]
            \cup [pc : {"publish"}, event : Events]

(* What a webhook tells: the status with number seen and, for "partial",    *)
(* the amount of the first `received' fills and the key of the fill number  *)
(* `key'.                                                                   *)
News == [seen : Nat, received : Nat, key : Nat]
Nothing == [seen |-> 0, received |-> 0, key |-> 0]
TaskSteps ==
  {"none", "merchant", "read", "sum", "key", "send", "stamp", "activate", "done"}
Task(pc, news) == [pc |-> pc, news |-> news]
Tells(news, s) == changes[news.seen] = s

Init ==
  /\ changes = <<"pending">>
  /\ fills = 0
  /\ updater = [u \in Updaters |-> Resting]
  /\ url \in BOOLEAN
  /\ task = [i \in Events |-> Task("none", Nothing)]
  /\ inbox = <<>>
  /\ refused = {} /\ unsent = {}
  /\ stamped = {} /\ activations = {}
  /\ faults = 0

-----------------------------------------------------------------------------
(* Updaters                                                                 *)

UpdaterTakes(u, step) == updater' = [updater EXCEPT ![u] = step]

(* A job or request reads the payment and decides on a new status.          *)
Decide(u) ==
  /\ updater[u] = Resting
  /\ \E s \in Statuses : <<status, s>> \in Moves /\ UpdaterTakes(u, Writing("update", s))
  /\ UNCHANGED <<payment, url, task, outside, unsent, marks, faults>>

(* A detected transfer is booked before the payment becomes partial or, if  *)
(* it completes the amount, in progress, whatever its status is.            *)
RecordFill(u) ==
  /\ updater[u] = Resting
  /\ fills < MaxFills
  /\ fills' = fills + 1
  /\ \/ UpdaterTakes(u, Writing("mark", "partial"))
     \/ UpdaterTakes(u, Writing("update", "inProgress"))
  /\ UNCHANGED <<changes, url, task, outside, unsent, marks, faults>>

(* The new status is committed, whatever the payment's status is by now.    *)
Commit(u) ==
  /\ Len(changes) < MaxChanges
  /\ changes' = Append(changes, updater[u].to)
  /\ UpdaterTakes(u, Publishing(Len(changes) + 1))
  /\ UNCHANGED <<fills, url, task, outside, unsent, marks, faults>>

Update(u) == updater[u].pc = "update" /\ Commit(u)

(* Mutant: topping up a partial payment is no status change worth telling.  *)
MarkPartialOnce(u) ==
  /\ updater[u].pc = "mark"
  /\ IF status # "partial" THEN Commit(u)
     ELSE /\ Len(changes) < MaxChanges
          /\ changes' = Append(changes, "partial")
          /\ UpdaterTakes(u, Resting)
          /\ UNCHANGED <<fills, url, task, outside, unsent, marks, faults>>

MarkPartial(u) == updater[u].pc = "mark" /\ Commit(u)

Publish(u) ==
  /\ updater[u].pc = "publish"
  /\ task' = [task EXCEPT ![updater[u].event] = Task("merchant", Nothing)]
  /\ UpdaterTakes(u, Resting)
  /\ UNCHANGED <<payment, url, outside, unsent, marks, faults>>

(* An updater ends early; after its commit, the event is never published.   *)
UpdaterFails(u) ==
  /\ updater[u] # Resting
  /\ faults < MaxFaults
  /\ faults' = faults + 1
  /\ unsent' = IF updater[u].pc = "publish" THEN unsent \cup {updater[u].event}
                                           ELSE unsent
  /\ UpdaterTakes(u, Resting)
  /\ UNCHANGED <<payment, url, task, outside, marks>>

UpdaterContinues(u) == Update(u) \/ MarkPartial(u) \/ Publish(u)

-----------------------------------------------------------------------------
(* The webhook handler                                                      *)

Silent == <<payment, updater, url, faults>>
TaskTakes(i, pc, news) == task' = [task EXCEPT ![i] = Task(pc, news)]

GetMerchant(i) ==
  /\ task[i].pc = "merchant"
  /\ TaskTakes(i, IF url THEN "read" ELSE "done", Nothing)
  /\ unsent' = IF url THEN unsent ELSE unsent \cup {i}
  /\ UNCHANGED <<Silent, outside, marks>>

(* Mutant: the payment is looked up once per payment and then remembered.   *)
ReadPaymentCached(i) ==
  LET known == {task[j].news.seen : j \in Events} \ {0}
      seen == IF known = {} THEN Len(changes) ELSE CHOOSE n \in known : TRUE
  IN
  /\ task[i].pc = "read"
  /\ TaskTakes(i, CASE changes[seen] = "locked" -> "done"
                    [] changes[seen] = "partial" -> "sum"
                    [] OTHER -> "send",
                  [Nothing EXCEPT !.seen = seen])
  /\ UNCHANGED <<Silent, outside, unsent, marks>>

ReadPayment(i) ==
  /\ task[i].pc = "read"
  /\ TaskTakes(i, CASE status = "locked" -> "done"
                    [] status = "partial" -> "sum"
                    [] OTHER -> "send",
                  [Nothing EXCEPT !.seen = Len(changes)])
  /\ UNCHANGED <<Silent, outside, unsent, marks>>

(* An underpaid payment is summed too, but its webhook does not say it.     *)
SumAllFills(i) ==
  /\ task[i].pc = "sum"
  /\ TaskTakes(i, "key", [task[i].news EXCEPT !.received = fills])
  /\ UNCHANGED <<Silent, outside, unsent, marks>>

(* Without an answer the webhook goes out with an empty key.                *)
LatestFillIdempotencyKey(i) ==
  /\ task[i].pc = "key"
  /\ \/ /\ TaskTakes(i, "send", [task[i].news EXCEPT !.key = fills])
        /\ UNCHANGED faults
     \/ /\ faults < MaxFaults
        /\ faults' = faults + 1
        /\ TaskTakes(i, "send", task[i].news)
  /\ UNCHANGED <<payment, updater, url, outside, unsent, marks>>

Webhook(i) == [event |-> i, news |-> task[i].news]

(* The merchant's server takes the webhook and answers in time.             *)
SendAccepted(i) ==
  /\ task[i].pc = "send"
  /\ inbox' = Append(inbox, Webhook(i))
  /\ TaskTakes(i, "stamp", task[i].news)
  /\ UNCHANGED <<Silent, refused, unsent, marks>>

(* Mutant: what was not acknowledged is sent again.                         *)
SendUnansweredAgain(i) ==
  /\ task[i].pc = "send"
  /\ faults < MaxFaults
  /\ faults' = faults + 1
  /\ inbox' = Append(inbox, Webhook(i))
  /\ UNCHANGED <<payment, updater, url, task, refused, unsent, marks>>

(* It takes the webhook, but its answer misses the five seconds.            *)
SendUnanswered(i) ==
  /\ task[i].pc = "send"
  /\ faults < MaxFaults
  /\ faults' = faults + 1
  /\ inbox' = Append(inbox, Webhook(i))
  /\ TaskTakes(i, "done", task[i].news)
  /\ UNCHANGED <<payment, updater, url, refused, unsent, marks>>

(* It answers with an error, or cannot be reached: logged, nothing else.    *)
SendRefused(i) ==
  /\ task[i].pc = "send"
  /\ faults < MaxFaults
  /\ faults' = faults + 1
  /\ refused' = refused \cup {i}
  /\ unsent' = unsent \cup {i}
  /\ TaskTakes(i, "done", task[i].news)
  /\ UNCHANGED <<payment, updater, url, inbox, marks>>

SetWebhookTimestamp(i) ==
  /\ task[i].pc = "stamp"
  /\ stamped' = stamped \cup {i}
  /\ TaskTakes(i, IF Tells(task[i].news, "success") THEN "activate" ELSE "done",
               task[i].news)
  /\ UNCHANGED <<Silent, outside, unsent, activations>>

(* A success that was told also activates the subscription it paid for, if  *)
(* it paid for one.                                                         *)
HandleSubscriptionPayment(i) ==
  /\ task[i].pc = "activate"
  /\ activations' = activations \cup {i}
  /\ TaskTakes(i, "done", task[i].news)
  /\ UNCHANGED <<Silent, outside, unsent, stamped>>

(* A statement of the handler fails or it panics: the error is logged.      *)
TaskFails(i) ==
  /\ task[i].pc \notin {"none", "done"}
  /\ faults < MaxFaults
  /\ faults' = faults + 1
  /\ TaskTakes(i, "done", task[i].news)
  /\ unsent' = IF task[i].pc \in {"stamp", "activate"} THEN unsent ELSE unsent \cup {i}
  /\ UNCHANGED <<payment, updater, url, outside, marks>>

TaskContinues(i) ==
  \/ GetMerchant(i) \/ ReadPayment(i) \/ SumAllFills(i)
  \/ LatestFillIdempotencyKey(i)
  \/ SendAccepted(i) \/ SendUnanswered(i) \/ SendRefused(i)
  \/ SetWebhookTimestamp(i) \/ HandleSubscriptionPayment(i)

-----------------------------------------------------------------------------
(* The merchant's settings, and the end of the process                      *)

SetWebhookURL ==
  /\ ~url
  /\ url' = TRUE
  /\ UNCHANGED <<payment, updater, task, outside, unsent, marks, faults>>

(* Committed rows survive; updaters, and events not yet handled, do not.    *)
Crash ==
  /\ faults < MaxFaults
  /\ faults' = faults + 1
  /\ updater' = [u \in Updaters |-> Resting]
  /\ task' = [i \in Events |-> IF i \in 2..Len(changes)
                                THEN Task("done", task[i].news) ELSE task[i]]
  /\ unsent' = unsent \cup
       {i \in 2..Len(changes) : task[i].pc \notin {"stamp", "activate", "done"}}
  /\ UNCHANGED <<payment, url, outside, marks>>

-----------------------------------------------------------------------------

Next ==
  \/ \E u \in Updaters : Decide(u) \/ RecordFill(u) \/ UpdaterContinues(u) \/ UpdaterFails(u)
  \/ \E i \in Events : TaskContinues(i) \/ TaskFails(i)
  \/ SetWebhookURL \/ Crash

Spec == Init /\ [][Next]_vars

(* Go's scheduler runs every goroutine, and every request to the merchant's *)
(* server ends within five seconds.  Whether a job decides anything, and    *)
(* what the server answers, is open.                                        *)
FairSpec ==
  /\ Spec
  /\ \A u \in Updaters : WF_vars(UpdaterContinues(u))
  /\ \A i \in Events : WF_vars(TaskContinues(i))

-----------------------------------------------------------------------------
(* Properties                                                               *)

TypeOK ==
  /\ changes \in Seq(Statuses) /\ Len(changes) \in 1..MaxChanges
  /\ fills \in Nat
  /\ updater \in [Updaters -> UpdaterStates]
  /\ url \in BOOLEAN
  /\ task \in [Events -> [pc : TaskSteps, news : News]]
  /\ inbox \in Seq([event : Events, news : News])
  /\ refused \subseteq Events /\ unsent \subseteq Events
  /\ stamped \subseteq Events /\ activations \subseteq Events
  /\ faults \in Nat

Quiet ==
  /\ \A u \in Updaters : updater[u] = Resting
  /\ \A i \in Events : task[i].pc \in {"none", "done"}

ToldLatest == \E k \in DOMAIN inbox : inbox[k].news.seen = Len(changes)

(* Handlers run in any order and read the payment whenever they get to it,  *)
(* yet once everything is quiet the merchant has been told the status the   *)
(* payment is in: only the loss of the very last event can prevent that,    *)
(* whatever happened to the earlier ones.                                   *)
QuietMeansTold ==
  Quiet /\ Len(changes) > 1 /\ Len(changes) \notin unsent /\ status # "locked"
    => ToldLatest

(* The same of the amount: when everything is quiet and nothing went wrong, *)
(* a webhook about a partial payment has reported all of its fills.         *)
QuietMeansCounted ==
  Quiet /\ faults = 0 /\ unsent = {} /\ status = "partial"
    => \E k \in DOMAIN inbox : /\ inbox[k].news.seen = Len(changes)
                               /\ inbox[k].news.received = fills

(* No event makes two webhooks, although its sender cannot know whether an  *)
(* unanswered one arrived.                                                  *)
OneWebhookPerEvent ==
  \A j, k \in DOMAIN inbox : inbox[j].event = inbox[k].event => j = k

(* News of a change reach the merchant, unless a late lock of the form      *)
(* hides the payment again or an event at least as new was lost.            *)
NewsArrive ==
  \A i \in Events \ {1} :
    Len(changes) >= i ~>
      \/ status = "locked"
      \/ \E j \in unsent : j >= i
      \/ \E k \in DOMAIN inbox : inbox[k].news.seen >= i

(* The last webhook a merchant receives states the payment's status.        *)
LastWordIsCurrent ==
  Quiet /\ faults = 0 /\ unsent = {} /\ inbox # <<>> /\ status # "locked"
    => Tells(inbox[Len(inbox)].news, status)

(* Two webhooks with one idempotency key report one amount, so that a       *)
(* merchant may drop the second.                                            *)
SameKeySameNews ==
  \A j, k \in DOMAIN inbox :
    inbox[j].news.key = inbox[k].news.key /\ inbox[j].news.key # 0
      => inbox[j].news.received = inbox[k].news.received

(* A webhook the merchant's server refused is sent again.                   *)
RefusedIsRetried ==
  \A i \in Events :
    i \in refused ~> \E k \in DOMAIN inbox : inbox[k].event = i

=============================================================================
