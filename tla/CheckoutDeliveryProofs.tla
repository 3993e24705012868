----------------------- MODULE CheckoutDeliveryProofs -----------------------
(* The server's two sides of one invoice.  Delivery, for any number of      *)
(* updaters, changes, fills and faults: the types, that a quiet system has  *)
(* told the merchant the payment's status, and that no event makes two      *)
(* webhooks.  Checkout, for any number of requests, currencies, choices and *)
(* faults: the types, and that the advisory lock leaves an invoice at most  *)
(* one live transaction.                                                    *)
EXTENDS Delivery, Checkout, SequenceTheorems, TLAPS

AfterRead == {"sum", "key", "send", "stamp", "activate", "done"}
Settled == {"stamp", "activate", "done"}

(* Which events exist, and that each is published at most once.             *)
Begun ==
  /\ \A i \in Events : task[i].pc # "none" => i \in 2..Len(changes)
  /\ \A u \in Updaters : updater[u].pc = "publish" =>
       /\ updater[u].event \in 2..Len(changes)
       /\ task[updater[u].event].pc = "none"
  /\ \A u, v \in Updaters :
       updater[u].pc = "publish" /\ updater[v].pc = "publish"
         /\ updater[u].event = updater[v].event => u = v

(* A committed change has its event started, about to be, or lost.          *)
Carried ==
  \A i \in 2..Len(changes) : task[i].pc = "none" /\ i \notin unsent =>
    \E u \in Updaters : updater[u].pc = "publish" /\ updater[u].event = i

(* A handler reads a status at least as new as the one it was started for.  *)
ReadsNew ==
  \A i \in Events : task[i].pc \in AfterRead /\ i \notin unsent =>
    i <= task[i].news.seen /\ task[i].news.seen <= Len(changes)

(* A handler past its webhook has told all it read, or read "locked".       *)
Told(news) == \E k \in DOMAIN inbox : inbox[k].news = news
Sent ==
  \A i \in Events : task[i].pc \in Settled /\ i \notin unsent =>
    Tells(task[i].news, "locked") \/ Told(task[i].news)

(* Only a handler past its webhook has sent one.                            *)
Senders == \A k \in DOMAIN inbox : task[inbox[k].event].pc \in Settled

IInv ==
  TypeOK /\ Begun /\ Carried /\ ReadsNew /\ Sent /\ Senders /\ OneWebhookPerEvent

-----------------------------------------------------------------------------

LEMMA StatesTyped ==
  /\ Resting \in UpdaterStates /\ Resting.pc = "idle"
  /\ \A pc \in {"update", "mark"}, s \in Statuses :
       /\ Writing(pc, s) \in UpdaterStates
       /\ Writing(pc, s).pc = pc
  /\ \A i \in Events : /\ Publishing(i) \in UpdaterStates
                       /\ Publishing(i).pc = "publish" /\ Publishing(i).event = i
BY DEF UpdaterStates, Resting, Writing, Publishing

LEMMA Carrying ==
  ASSUME NEW q \in UpdaterStates
  PROVE  /\ q.pc \in {"update", "mark"} => q.to \in Statuses
         /\ q.pc = "publish" => q.event \in Events
BY DEF UpdaterStates, Resting

LEMMA InitIInv == Init => IInv
<1> SUFFICES ASSUME Init PROVE IInv
  OBVIOUS
<1>1. changes \in Seq(Statuses) /\ Len(changes) = 1 /\ MaxChanges >= 1
  BY DeliveryBoundsAssumption DEF Init, Statuses
<1>2. \A i \in Events : task[i] \in [pc : TaskSteps, news : News] /\ task[i].pc = "none"
  BY DEF Init, Task, Nothing, News, TaskSteps
<1>3. task \in [Events -> [pc : TaskSteps, news : News]]
  BY <1>2 DEF Init
<1>4. TypeOK
  BY <1>1, <1>3, StatesTyped, DeliveryBoundsAssumption DEF Init, TypeOK
<1>5. Begun /\ Carried
  BY <1>1, <1>2, StatesTyped DEF Init, Begun, Carried
<1>6. ReadsNew /\ Sent
  BY <1>2 DEF ReadsNew, Sent, AfterRead, Settled
<1>7. Senders /\ OneWebhookPerEvent
  BY DEF Init, Senders, OneWebhookPerEvent
<1> QED BY <1>4, <1>5, <1>6, <1>7 DEF IInv

LEMMA Ranges ==
  ASSUME IInv
  PROVE  /\ Len(changes) \in Nat /\ Len(changes) >= 1 /\ 2..Len(changes) \subseteq Events
         /\ \A i \in Events : i \in Nat /\ i >= 1 /\ task[i].news.seen \in Nat
         /\ DOMAIN inbox = 1..Len(inbox) /\ Len(inbox) \in Nat
         /\ \A k \in DOMAIN inbox : inbox[k].event \in Events
<1>1. Len(changes) \in Nat /\ Len(changes) \in 1..MaxChanges
  BY DEF IInv, TypeOK
<1>2. 2..Len(changes) \subseteq Events
  BY <1>1, DeliveryBoundsAssumption DEF Events
<1>3. \A i \in Events : i \in Nat /\ i >= 1
  BY DeliveryBoundsAssumption DEF Events
<1>4. \A i \in Events : task[i].news.seen \in Nat
  BY DEF IInv, TypeOK, News
<1>5. inbox \in Seq([event : Events, news : News])
  BY DEF IInv, TypeOK
<1>6. DOMAIN inbox = 1..Len(inbox) /\ Len(inbox) \in Nat
  BY <1>5
<1>7. \A k \in DOMAIN inbox : inbox[k] \in [event : Events, news : News]
  BY <1>5, <1>6, ElementOfSeq
<1> QED BY <1>1, <1>2, <1>3, <1>4, <1>6, <1>7

(* An updater moves on without committing or publishing anything; what it   *)
(* was about to publish is lost.                                            *)
LEMMA UpdaterStep ==
  ASSUME IInv, NEW u \in Updaters, NEW step \in UpdaterStates,
         UpdaterTakes(u, step), step.pc # "publish",
         unsent \subseteq unsent', unsent' \subseteq Events,
         updater[u].pc = "publish" => updater[u].event \in unsent',
         UNCHANGED <<changes, task, inbox>>
  PROVE  /\ updater' \in [Updaters -> UpdaterStates]
         /\ Begun' /\ Carried' /\ ReadsNew' /\ Sent' /\ Senders' /\ OneWebhookPerEvent'
<1>1. /\ updater' \in [Updaters -> UpdaterStates] /\ updater'[u] = step
      /\ \A v \in Updaters \ {u} : updater'[v] = updater[v]
  BY DEF IInv, TypeOK, UpdaterTakes
<1>2. Begun'
  BY <1>1 DEF IInv, Begun
<1>3. Carried'
  BY <1>1 DEF IInv, Carried
<1>4. ReadsNew' /\ Sent'
  BY DEF IInv, ReadsNew, Sent, Told, Tells
<1>5. Senders' /\ OneWebhookPerEvent'
  BY DEF IInv, Senders, OneWebhookPerEvent
<1> QED BY <1>1, <1>2, <1>3, <1>4, <1>5

(* A handler moves on without sending anything.                             *)
LEMMA TaskStep ==
  ASSUME IInv, NEW i \in Events, NEW pc \in TaskSteps, NEW news \in News,
         task[i].pc # "none", pc # "none", TaskTakes(i, pc, news),
         task[i].pc \in Settled => pc \in Settled,
         unsent \subseteq unsent', unsent' \subseteq Events,
         pc \in AfterRead /\ i \notin unsent' =>
           i <= news.seen /\ news.seen <= Len(changes),
         pc \in Settled /\ i \notin unsent' => Tells(news, "locked") \/ Told(news),
         UNCHANGED <<changes, updater, inbox>>
  PROVE  /\ task' \in [Events -> [pc : TaskSteps, news : News]]
         /\ Begun' /\ Carried' /\ ReadsNew' /\ Sent' /\ Senders' /\ OneWebhookPerEvent'
<1>1. /\ task' \in [Events -> [pc : TaskSteps, news : News]]
      /\ task'[i].pc = pc /\ task'[i].news = news
      /\ \A j \in Events \ {i} : task'[j] = task[j]
  BY DEF IInv, TypeOK, TaskTakes, Task
<1>2. Begun'
  BY <1>1, Carrying DEF IInv, TypeOK, Begun
<1>3. Carried'
  <2>1. 2..Len(changes) \subseteq Events
    BY Ranges
  <2> QED BY <1>1, <2>1 DEF IInv, Carried
<1>4. ReadsNew'
  BY <1>1 DEF IInv, ReadsNew
<1>5. Sent'
  BY <1>1 DEF IInv, Sent, Told, Tells
<1>6. Senders' /\ OneWebhookPerEvent'
  <2>1. \A k \in DOMAIN inbox : inbox[k].event \in Events
    BY Ranges
  <2> QED BY <1>1, <2>1 DEF IInv, Senders, OneWebhookPerEvent
<1> QED BY <1>1, <1>2, <1>3, <1>4, <1>5, <1>6

(* A handler sends its webhook.                                             *)
LEMMA SendStep ==
  ASSUME IInv, NEW i \in Events, NEW pc \in Settled,
         task[i].pc = "send", TaskTakes(i, pc, task[i].news),
         inbox' = Append(inbox, Webhook(i)),
         UNCHANGED <<changes, updater, unsent>>
  PROVE  /\ task' \in [Events -> [pc : TaskSteps, news : News]]
         /\ inbox' \in Seq([event : Events, news : News])
         /\ Begun' /\ Carried' /\ ReadsNew' /\ Sent' /\ Senders' /\ OneWebhookPerEvent'
<1>1. /\ task' \in [Events -> [pc : TaskSteps, news : News]]
      /\ task'[i].pc = pc /\ task'[i].news = task[i].news
      /\ \A j \in Events \ {i} : task'[j] = task[j]
  BY DEF IInv, TypeOK, TaskTakes, Task, Settled, TaskSteps
<1>2. /\ Webhook(i) \in [event : Events, news : News]
      /\ Webhook(i).event = i /\ Webhook(i).news = task[i].news
  BY DEF IInv, TypeOK, Webhook
<1>3. /\ inbox' \in Seq([event : Events, news : News])
      /\ DOMAIN inbox = 1..Len(inbox) /\ DOMAIN inbox' = 1..(Len(inbox) + 1)
      /\ Len(inbox) \in Nat
      /\ \A k \in DOMAIN inbox : inbox'[k] = inbox[k]
      /\ inbox'[Len(inbox) + 1] = Webhook(i)
  BY <1>2 DEF IInv, TypeOK
<1>4. \A k \in DOMAIN inbox : inbox[k].event \in Events \ {i}
  BY Ranges DEF IInv, Senders, Settled
<1>5. Begun'
  BY <1>1, Carrying DEF IInv, TypeOK, Begun, Settled
<1>6. Carried'
  <2>1. 2..Len(changes) \subseteq Events
    BY Ranges
  <2> QED BY <1>1, <2>1 DEF IInv, Carried, Settled
<1>7. ReadsNew'
  BY <1>1 DEF IInv, ReadsNew, AfterRead
<1>8. Sent'
  <2> SUFFICES ASSUME NEW j \in Events, task'[j].pc \in Settled, j \notin unsent
               PROVE  (Tells(task[j].news, "locked") \/ Told(task[j].news))'
    BY DEF Sent
  <2>1. CASE j = i
    <3>1. Len(inbox) + 1 \in DOMAIN inbox'
      BY <1>3
    <3>2. inbox'[Len(inbox) + 1].news = task'[j].news
      BY <1>1, <1>2, <1>3, <2>1
    <3> QED BY <3>1, <3>2 DEF Told
  <2>2. CASE j # i
    <3>1. Tells(task[j].news, "locked") \/ Told(task[j].news)
      BY <1>1, <2>2 DEF IInv, Sent
    <3>2. \A k \in DOMAIN inbox : k \in DOMAIN inbox' /\ inbox'[k] = inbox[k]
      BY <1>3
    <3> QED BY <1>1, <2>2, <3>1, <3>2 DEF Told, Tells
  <2> QED BY <2>1, <2>2
<1>9. Senders'
  <2> SUFFICES ASSUME NEW k \in DOMAIN inbox' PROVE task'[inbox'[k].event].pc \in Settled
    BY DEF Senders
  <2>1. CASE k = Len(inbox) + 1
    BY <1>1, <1>2, <1>3, <2>1
  <2>2. CASE k \in DOMAIN inbox
    BY <1>1, <1>3, <1>4, <2>2 DEF IInv, Senders
  <2> QED BY <1>3, <2>1, <2>2
<1>10. OneWebhookPerEvent'
  BY <1>2, <1>3, <1>4 DEF IInv, OneWebhookPerEvent
<1> QED BY <1>1, <1>3, <1>5, <1>6, <1>7, <1>8, <1>9, <1>10

(* A change is committed, and its event is new.                             *)
LEMMA CommitStep ==
  ASSUME IInv, NEW u \in Updaters, updater[u].pc \in {"update", "mark"}, Commit(u)
  PROVE  IInv'
<1>1. updater[u].to \in Statuses
  BY Carrying DEF IInv, TypeOK
<1>2. Len(changes) \in Nat /\ Len(changes) >= 1 /\ Len(changes) + 1 \in Events
  BY Ranges, DeliveryBoundsAssumption DEF Commit, Events
<1>3. /\ changes' \in Seq(Statuses) /\ Len(changes') = Len(changes) + 1
      /\ \A i \in 1..Len(changes) : changes'[i] = changes[i]
  BY <1>1 DEF IInv, TypeOK, Commit
<1>4. /\ updater' \in [Updaters -> UpdaterStates]
      /\ updater'[u] = Publishing(Len(changes) + 1)
      /\ \A v \in Updaters \ {u} : updater'[v] = updater[v]
  BY <1>2, StatesTyped DEF IInv, TypeOK, Commit, UpdaterTakes
<1>5. updater'[u].pc = "publish" /\ updater'[u].event = Len(changes) + 1
  BY <1>2, <1>4, StatesTyped
<1>6. UNCHANGED <<fills, url, task, inbox, refused, unsent, stamped, activations, faults>>
  BY DEF Commit, outside, marks
<1>7. TypeOK'
  BY <1>2, <1>3, <1>4, <1>6 DEF IInv, TypeOK, Events
<1>8. Begun'
  <2>1. task[Len(changes) + 1].pc = "none"
    BY <1>2 DEF IInv, Begun
  <2>2. \A v \in Updaters : updater[v].pc = "publish" => updater[v].event # Len(changes) + 1
    BY <1>2 DEF IInv, Begun
  <2>3. \A i \in Events : task'[i].pc # "none" => i \in 2..Len(changes')
    BY <1>2, <1>3, <1>6 DEF IInv, Begun
  <2>4. \A v \in Updaters : updater'[v].pc = "publish" =>
          updater'[v].event \in 2..Len(changes') /\ task'[updater'[v].event].pc = "none"
    BY <1>2, <1>3, <1>4, <1>5, <1>6, <2>1 DEF IInv, Begun
  <2>5. \A v, w \in Updaters :
          updater'[v].pc = "publish" /\ updater'[w].pc = "publish"
            /\ updater'[v].event = updater'[w].event => v = w
    BY <1>4, <1>5, <2>2 DEF IInv, Begun
  <2> QED BY <2>3, <2>4, <2>5 DEF Begun
<1>9. Carried'
  <2> SUFFICES ASSUME NEW i \in 2..Len(changes'), task[i].pc = "none", i \notin unsent
               PROVE  \E v \in Updaters : updater'[v].pc = "publish" /\ updater'[v].event = i
    BY <1>6 DEF Carried
  <2>1. CASE i = Len(changes) + 1
    BY <1>5, <2>1
  <2>2. CASE i \in 2..Len(changes)
    <3>1. PICK v \in Updaters : updater[v].pc = "publish" /\ updater[v].event = i
      BY <2>2 DEF IInv, Carried
    <3> QED BY <1>4, <3>1
  <2> QED BY <1>2, <1>3, <2>1, <2>2
<1>10. ReadsNew'
  <2>1. \A i \in Events : i \in Nat /\ task[i].news.seen \in Nat
    BY DEF IInv, TypeOK, Events, News
  <2> QED BY <1>2, <1>3, <1>6, <2>1 DEF IInv, ReadsNew
<1>11. Sent'
  <2> SUFFICES ASSUME NEW i \in Events, task[i].pc \in Settled, i \notin unsent
               PROVE  Tells(task[i].news, "locked")' \/ Told(task[i].news)
    BY <1>6 DEF Sent, Tells, Told
  <2>1. Tells(task[i].news, "locked") \/ Told(task[i].news)
    BY DEF IInv, Sent
  <2>2. task[i].news.seen \in 1..Len(changes)
    <3>1. i <= task[i].news.seen /\ task[i].news.seen <= Len(changes)
      BY DEF IInv, ReadsNew, AfterRead, Settled
    <3>2. i \in Nat /\ i >= 1 /\ task[i].news.seen \in Nat
      BY DEF IInv, TypeOK, Events, News
    <3> QED BY <1>2, <3>1, <3>2
  <2> QED BY <1>3, <1>6, <2>1, <2>2 DEF Tells
<1>12. Senders' /\ OneWebhookPerEvent'
  BY <1>6 DEF IInv, Senders, OneWebhookPerEvent
<1> QED BY <1>7, <1>8, <1>9, <1>10, <1>11, <1>12 DEF IInv

(* An event is published: its handler starts.                               *)
LEMMA PublishStep ==
  ASSUME IInv, NEW u \in Updaters, Publish(u)
  PROVE  IInv'
<1> DEFINE i == updater[u].event
<1>1. i \in Events /\ i \in 2..Len(changes) /\ task[i].pc = "none"
  BY Carrying DEF IInv, TypeOK, Begun, Publish
<1>2. /\ Task("merchant", Nothing) \in [pc : TaskSteps, news : News]
      /\ Task("merchant", Nothing).pc = "merchant"
  BY DEF Task, Nothing, News, TaskSteps
<1>3. /\ task' \in [Events -> [pc : TaskSteps, news : News]]
      /\ task'[i].pc = "merchant"
      /\ \A j \in Events \ {i} : task'[j] = task[j]
  BY <1>1, <1>2 DEF IInv, TypeOK, Publish
<1>4. /\ updater' \in [Updaters -> UpdaterStates] /\ updater'[u].pc = "idle"
      /\ \A v \in Updaters \ {u} : updater'[v] = updater[v]
  BY StatesTyped DEF IInv, TypeOK, Publish, UpdaterTakes
<1>5. UNCHANGED <<changes, fills, url, inbox, refused, unsent, stamped, activations, faults>>
  BY DEF Publish, payment, outside, marks
<1>6. TypeOK'
  BY <1>3, <1>4, <1>5 DEF IInv, TypeOK
<1>7. Begun'
  <2>1. \A j \in Events : task'[j].pc # "none" => j \in 2..Len(changes)
    BY <1>1, <1>3 DEF IInv, Begun
  <2>2. ASSUME NEW v \in Updaters, updater'[v].pc = "publish"
        PROVE  /\ updater'[v].event \in 2..Len(changes)
               /\ task'[updater'[v].event].pc = "none"
    <3>1. v # u /\ updater'[v] = updater[v]
      BY <1>4, <2>2
    <3>2. updater[v].event # i /\ updater[v].event \in Events
      BY <2>2, <3>1, Carrying DEF IInv, TypeOK, Begun, Publish
    <3> QED BY <1>3, <2>2, <3>1, <3>2 DEF IInv, Begun
  <2>3. \A v, w \in Updaters :
          updater'[v].pc = "publish" /\ updater'[w].pc = "publish"
            /\ updater'[v].event = updater'[w].event => v = w
    BY <1>4 DEF IInv, Begun
  <2> QED BY <1>5, <2>1, <2>2, <2>3 DEF Begun
<1>8. Carried'
  <2> SUFFICES ASSUME NEW j \in 2..Len(changes), task'[j].pc = "none", j \notin unsent
               PROVE  \E v \in Updaters : updater'[v].pc = "publish" /\ updater'[v].event = j
    BY <1>5 DEF Carried
  <2>1. j \in Events \ {i} /\ task[j].pc = "none"
    BY <1>3, Ranges
  <2>2. PICK v \in Updaters : updater[v].pc = "publish" /\ updater[v].event = j
    BY <2>1 DEF IInv, Carried
  <2> QED BY <1>4, <2>1, <2>2
<1>9. ReadsNew' /\ Sent'
  <2>1. \A j \in Events : task'[j].pc \in AfterRead => task'[j] = task[j]
    BY <1>3 DEF AfterRead
  <2>2. Settled \subseteq AfterRead
    BY DEF Settled, AfterRead
  <2>3. ReadsNew'
    BY <1>5, <2>1 DEF IInv, ReadsNew
  <2>4. Sent'
    BY <1>5, <2>1, <2>2 DEF IInv, Sent, Told, Tells
  <2> QED BY <2>3, <2>4
<1>10. Senders' /\ OneWebhookPerEvent'
  <2>1. \A k \in DOMAIN inbox : inbox[k].event \in Events \ {i}
    BY <1>1, Ranges DEF IInv, Senders, Settled
  <2> QED BY <1>3, <1>5, <2>1 DEF IInv, Senders, OneWebhookPerEvent
<1> QED BY <1>6, <1>7, <1>8, <1>9, <1>10 DEF IInv

LEMMA CrashStep ==
  ASSUME IInv, Crash
  PROVE  IInv'
<1>1. /\ \A u \in Updaters : updater'[u] = Resting
      /\ updater' \in [Updaters -> UpdaterStates]
  BY StatesTyped DEF Crash
<1>2. 2..Len(changes) \subseteq Events
  BY Ranges
<1>3. \A i \in Events : /\ i \in 2..Len(changes) => task'[i] = Task("done", task[i].news)
                        /\ i \notin 2..Len(changes) => task'[i] = task[i]
  BY DEF Crash
<1>4. \A i \in Events : /\ task'[i] \in [pc : TaskSteps, news : News]
                        /\ task'[i].news = task[i].news
                        /\ i \in 2..Len(changes) => task'[i].pc = "done"
                        /\ i \notin 2..Len(changes) => task'[i].pc = "none"
  <2> TAKE i \in Events
  <2>1. task[i] \in [pc : TaskSteps, news : News]
    BY DEF IInv, TypeOK
  <2>2. CASE i \in 2..Len(changes)
    <3>1. task'[i] = Task("done", task[i].news) /\ task[i].news \in News
      BY <1>3, <2>1, <2>2
    <3>2. /\ Task("done", task[i].news) \in [pc : TaskSteps, news : News]
          /\ Task("done", task[i].news).pc = "done"
          /\ Task("done", task[i].news).news = task[i].news
      BY <3>1 DEF Task, TaskSteps
    <3> QED BY <2>2, <3>1, <3>2
  <2>3. CASE i \notin 2..Len(changes)
    BY <1>3, <2>1, <2>3 DEF IInv, Begun
  <2> QED BY <2>2, <2>3
<1>5. /\ unsent \subseteq unsent' /\ unsent' \subseteq Events
      /\ \A i \in 2..Len(changes) : i \notin unsent' => task[i].pc \in Settled
  BY <1>2 DEF IInv, TypeOK, Crash, Settled
<1>6. UNCHANGED <<changes, fills, url, inbox, refused, stamped, activations>>
  BY DEF Crash, payment, outside, marks
<1>7. TypeOK'
  <2>1. task' \in [Events -> [pc : TaskSteps, news : News]]
    BY <1>4 DEF Crash
  <2>2. faults' \in Nat
    BY DEF IInv, TypeOK, Crash
  <2> QED BY <1>1, <1>5, <1>6, <2>1, <2>2 DEF IInv, TypeOK
<1>8. Begun' /\ Carried'
  BY <1>1, <1>2, <1>4, <1>6, StatesTyped DEF Begun, Carried
<1>9. \A i \in Events : task'[i].pc \in AfterRead /\ i \notin unsent' =>
        task[i].pc \in Settled /\ i \notin unsent
  BY <1>4, <1>5 DEF AfterRead
<1>10. ReadsNew' /\ Sent'
  <2>1. Settled \subseteq AfterRead
    BY DEF Settled, AfterRead
  <2>2. ReadsNew'
    BY <1>4, <1>6, <1>9, <2>1 DEF IInv, ReadsNew
  <2>3. Sent'
    BY <1>4, <1>6, <1>9, <2>1 DEF IInv, Sent, Told, Tells
  <2> QED BY <2>2, <2>3
<1>11. Senders' /\ OneWebhookPerEvent'
  <2>1. \A k \in DOMAIN inbox :
          inbox[k].event \in Events /\ task[inbox[k].event].pc \in Settled
    BY Ranges DEF IInv, Senders
  <2>2. \A i \in Events : task[i].pc \in Settled => task'[i].pc \in Settled
    BY <1>4 DEF IInv, Begun, Settled
  <2> QED BY <1>6, <2>1, <2>2 DEF IInv, Senders, OneWebhookPerEvent
<1> QED BY <1>7, <1>8, <1>10, <1>11 DEF IInv

(* Every step of an updater but a commit or a publication, every step of a  *)
(* handler, and a change of the settings.                                   *)
LEMMA OtherUpdaterSteps ==
  ASSUME IInv, NEW u \in Updaters, Decide(u) \/ RecordFill(u) \/ UpdaterFails(u)
  PROVE  IInv'
<1> DEFINE Rest == /\ updater' \in [Updaters -> UpdaterStates]
                   /\ Begun' /\ Carried' /\ ReadsNew' /\ Sent' /\ Senders'
                   /\ OneWebhookPerEvent'
<1>1. CASE Decide(u)
  <2>1. PICK s \in Statuses : UpdaterTakes(u, Writing("update", s))
    BY <1>1 DEF Decide
  <2>2. unsent' \subseteq Events /\ updater[u].pc = "idle"
    BY <1>1, StatesTyped DEF IInv, TypeOK, Decide
  <2>3. Rest
    BY <1>1, <2>1, <2>2, StatesTyped, UpdaterStep DEF Decide, payment, outside
  <2> QED BY <1>1, <2>3 DEF IInv, TypeOK, Decide, payment, outside, marks
<1>2. CASE RecordFill(u)
  <2>1. PICK step \in {Writing("mark", "partial"), Writing("update", "inProgress")} :
          UpdaterTakes(u, step)
    BY <1>2 DEF RecordFill
  <2>2. step \in UpdaterStates /\ step.pc # "publish"
    BY StatesTyped DEF Statuses
  <2>3. unsent' \subseteq Events /\ updater[u].pc = "idle"
    BY <1>2, StatesTyped DEF IInv, TypeOK, RecordFill
  <2>4. Rest
    BY <1>2, <2>1, <2>2, <2>3, UpdaterStep DEF RecordFill, outside
  <2> QED BY <1>2, <2>4 DEF IInv, TypeOK, RecordFill, outside, marks
<1>3. CASE UpdaterFails(u)
  <2>1. updater[u].pc = "publish" => updater[u].event \in Events
    BY Carrying DEF IInv, TypeOK
  <2>2. unsent \subseteq unsent' /\ unsent' \subseteq Events
    BY <1>3, <2>1 DEF IInv, TypeOK, UpdaterFails
  <2>3. Rest
    BY <1>3, <2>2, StatesTyped, UpdaterStep DEF UpdaterFails, payment, outside
  <2> QED BY <1>3, <2>2, <2>3 DEF IInv, TypeOK, UpdaterFails, payment, outside, marks
<1> QED BY <1>1, <1>2, <1>3

LEMMA HandlerSteps ==
  ASSUME IInv, NEW i \in Events, TaskContinues(i) \/ TaskFails(i)
  PROVE  IInv'
<1> DEFINE Rest == /\ task' \in [Events -> [pc : TaskSteps, news : News]]
                   /\ Begun' /\ Carried' /\ ReadsNew' /\ Sent' /\ Senders'
                   /\ OneWebhookPerEvent'
<1>1. /\ task[i].news \in News /\ task[i].pc \in TaskSteps /\ Nothing \in News
      /\ unsent \cup {i} \subseteq Events /\ Len(changes) \in Nat /\ fills \in Nat
  BY DEF IInv, TypeOK, News, Nothing
<1>2. CASE GetMerchant(i)
  <2>1. PICK pc \in {"read", "done"} :
          /\ TaskTakes(i, pc, Nothing)
          /\ pc = "done" => i \in unsent'
          /\ unsent \subseteq unsent' /\ unsent' \subseteq Events
    BY <1>1, <1>2 DEF GetMerchant
  <2>2. pc \in TaskSteps /\ pc # "none" /\ (pc \in AfterRead \cup Settled => pc = "done")
    BY DEF TaskSteps, AfterRead, Settled
  <2>3. Rest
    BY <1>1, <1>2, <2>1, <2>2, TaskStep DEF GetMerchant, Settled, Silent, payment, outside
  <2> QED BY <1>2, <2>1, <2>3 DEF IInv, TypeOK, GetMerchant, Silent, payment, outside, marks
<1>3. CASE ReadPayment(i)
  <2> DEFINE news == [Nothing EXCEPT !.seen = Len(changes)]
  <2>1. news \in News /\ news.seen = Len(changes)
    BY <1>1 DEF News, Nothing
  <2>2. i <= Len(changes)
    BY <1>3, Ranges DEF IInv, Begun, ReadPayment
  <2>3. PICK pc \in {"done", "sum", "send"} :
          TaskTakes(i, pc, news) /\ (pc = "done" => status = "locked")
    BY <1>3 DEF ReadPayment
  <2>4. pc \in TaskSteps /\ pc # "none" /\ (pc \in Settled => Tells(news, "locked"))
    BY <2>1, <2>3 DEF TaskSteps, Settled, Tells, status
  <2>5. Rest
    <3> HIDE DEF news
    <3> QED
      BY <1>1, <1>3, <2>1, <2>2, <2>3, <2>4, TaskStep
         DEF ReadPayment, Settled, Silent, payment, outside
  <2> QED BY <1>3, <2>5 DEF IInv, TypeOK, ReadPayment, Silent, payment, outside, marks
<1>4. ASSUME NEW pc \in {"key", "send"}, NEW news \in News,
             task[i].pc \in {"sum", "key"}, TaskTakes(i, pc, news),
             news.seen = task[i].news.seen,
             UNCHANGED <<payment, updater, url, outside, unsent, marks>>, faults' \in Nat
      PROVE  IInv'
  <2>1. pc \in TaskSteps /\ pc \notin Settled /\ task[i].pc \in AfterRead \ Settled
    BY <1>4 DEF TaskSteps, Settled, AfterRead
  <2>2. i \notin unsent => i <= news.seen /\ news.seen <= Len(changes)
    BY <1>4, <2>1 DEF IInv, ReadsNew
  <2>3. Rest
    BY <1>1, <1>4, <2>1, <2>2, TaskStep DEF payment, outside
  <2> QED BY <1>4, <2>3 DEF IInv, TypeOK, payment, outside, marks
<1>5. CASE SumAllFills(i)
  <2> DEFINE news == [task[i].news EXCEPT !.received = fills]
  <2>1. news \in News /\ news.seen = task[i].news.seen
    BY <1>1 DEF News
  <2>2. TaskTakes(i, "key", news) /\ task[i].pc = "sum" /\ faults' \in Nat
    BY <1>5 DEF SumAllFills, Silent, IInv, TypeOK
  <2> HIDE DEF news
  <2> QED BY <1>4, <1>5, <2>1, <2>2 DEF SumAllFills, Silent
<1>6. CASE LatestFillIdempotencyKey(i)
  <2>1. PICK news \in News : news.seen = task[i].news.seen /\ TaskTakes(i, "send", news)
    <3>1. [task[i].news EXCEPT !.key = fills] \in News
          /\ [task[i].news EXCEPT !.key = fills].seen = task[i].news.seen
      BY <1>1 DEF News
    <3> QED BY <1>1, <1>6, <3>1 DEF LatestFillIdempotencyKey
  <2>2. faults' \in Nat
    BY <1>6 DEF LatestFillIdempotencyKey, IInv, TypeOK
  <2> QED BY <1>4, <1>6, <2>1, <2>2 DEF LatestFillIdempotencyKey
<1>7. CASE SendAccepted(i) \/ SendUnanswered(i)
  <2>1. PICK pc \in Settled : TaskTakes(i, pc, task[i].news)
    BY <1>7 DEF SendAccepted, SendUnanswered, Settled
  <2>2. Rest /\ inbox' \in Seq([event : Events, news : News])
    BY <1>7, <2>1, SendStep DEF SendAccepted, SendUnanswered, Silent, payment
  <2>3. faults' \in Nat
    BY <1>7 DEF IInv, TypeOK, SendAccepted, SendUnanswered, Silent
  <2> QED BY <1>7, <2>2, <2>3
          DEF IInv, TypeOK, SendAccepted, SendUnanswered, Silent, payment, marks
<1>8. CASE SendRefused(i)
  <2>1. "done" \in TaskSteps /\ "send" \notin Settled
    BY DEF TaskSteps, Settled
  <2>2. Rest
    BY <1>1, <1>8, <2>1, TaskStep DEF SendRefused, payment
  <2>3. refused' \subseteq Events /\ unsent' \subseteq Events /\ faults' \in Nat
    BY <1>1, <1>8 DEF IInv, TypeOK, SendRefused
  <2> QED BY <1>8, <2>2, <2>3 DEF IInv, TypeOK, SendRefused, payment, marks
<1>9. ASSUME NEW pc \in {"activate", "done"}, task[i].pc \in {"stamp", "activate"},
             TaskTakes(i, pc, task[i].news),
             UNCHANGED <<payment, updater, url, outside, unsent>>, faults' \in Nat,
             stamped' \subseteq Events, activations' \subseteq Events
      PROVE  IInv'
  <2>1. pc \in TaskSteps /\ pc \in Settled /\ task[i].pc \in AfterRead \cap Settled
    BY <1>9 DEF TaskSteps, Settled, AfterRead
  <2>2. i \notin unsent =>
          /\ i <= task[i].news.seen /\ task[i].news.seen <= Len(changes)
          /\ Tells(task[i].news, "locked") \/ Told(task[i].news)
    BY <2>1 DEF IInv, ReadsNew, Sent
  <2>3. Rest
    BY <1>1, <1>9, <2>1, <2>2, TaskStep DEF payment, outside
  <2> QED BY <1>9, <2>3 DEF IInv, TypeOK, payment, outside
<1>10. CASE SetWebhookTimestamp(i)
  <2>1. PICK pc \in {"activate", "done"} : TaskTakes(i, pc, task[i].news)
    BY <1>10 DEF SetWebhookTimestamp
  <2>2. stamped' \subseteq Events /\ activations' \subseteq Events /\ faults' \in Nat
    BY <1>1, <1>10 DEF IInv, TypeOK, SetWebhookTimestamp, Silent
  <2> QED BY <1>9, <1>10, <2>1, <2>2 DEF SetWebhookTimestamp, Silent
<1>11. CASE HandleSubscriptionPayment(i)
  <2>1. stamped' \subseteq Events /\ activations' \subseteq Events /\ faults' \in Nat
    BY <1>1, <1>11 DEF IInv, TypeOK, HandleSubscriptionPayment, Silent
  <2> QED BY <1>9, <1>11, <2>1 DEF HandleSubscriptionPayment, Silent
<1>12. CASE TaskFails(i)
  <2>1. faults' \in Nat
    BY <1>12 DEF IInv, TypeOK, TaskFails
  <2>2. CASE task[i].pc \in {"stamp", "activate"}
    BY <1>9, <1>12, <2>1, <2>2 DEF IInv, TypeOK, TaskFails, marks
  <2>3. CASE task[i].pc \notin {"stamp", "activate"}
    <3>1. "done" \in TaskSteps /\ task[i].pc \notin Settled
      BY <1>12, <2>3 DEF TaskSteps, Settled, TaskFails
    <3>2. unsent' = unsent \cup {i}
      BY <1>12, <2>3 DEF TaskFails
    <3>3. Rest
      BY <1>1, <1>12, <3>1, <3>2, TaskStep DEF TaskFails, payment, outside
    <3> QED BY <1>1, <1>12, <2>1, <3>2, <3>3
            DEF IInv, TypeOK, TaskFails, payment, outside, marks
  <2> QED BY <2>2, <2>3
<1> QED BY <1>2, <1>3, <1>5, <1>6, <1>7, <1>8, <1>10, <1>11, <1>12 DEF TaskContinues

LEMMA Inductive == IInv /\ [Next]_vars => IInv'
<1> SUFFICES ASSUME IInv, [Next]_vars PROVE IInv'
  OBVIOUS
<1>1. ASSUME NEW u \in Updaters,
             Decide(u) \/ RecordFill(u) \/ UpdaterContinues(u) \/ UpdaterFails(u)
      PROVE  IInv'
  BY <1>1, OtherUpdaterSteps, CommitStep, PublishStep
     DEF UpdaterContinues, Update, MarkPartial
<1>2. ASSUME NEW i \in Events, TaskContinues(i) \/ TaskFails(i) PROVE IInv'
  BY <1>2, HandlerSteps
<1>3. ASSUME UNCHANGED <<changes, updater, task, inbox, unsent>>,
             UNCHANGED <<fills, refused, stamped, activations, faults>>, url' \in BOOLEAN
      PROVE  IInv'
  BY <1>3 DEF IInv, TypeOK, Begun, Carried, ReadsNew, Sent, Tells, Told, Senders,
              OneWebhookPerEvent
<1>4. CASE SetWebhookURL
  BY <1>3, <1>4 DEF SetWebhookURL, payment, outside, marks
<1>5. CASE UNCHANGED vars
  BY <1>3, <1>5 DEF vars, IInv, TypeOK
<1>6. CASE Crash
  BY <1>6, CrashStep
<1> QED BY <1>1, <1>2, <1>4, <1>5, <1>6 DEF Next

LEMMA Invariant == Spec => []IInv
BY InitIInv, Inductive, PTL DEF Spec

-----------------------------------------------------------------------------

(* ProcessPaymentStatusUpdate, Update and the bus keep every counter, index *)
(* and handler state in range.                                              *)
THEOREM DeliveryTyped == Spec => []TypeOK
<1>1. IInv => TypeOK
  BY DEF IInv
<1> QED BY <1>1, Invariant, PTL

(* Each event is handled once and Send is called once by its handler, with  *)
(* or without an answer, so no event makes two webhooks.                    *)
THEOREM WebhookSentOnce == Spec => []OneWebhookPerEvent
<1>1. IInv => OneWebhookPerEvent
  BY DEF IInv
<1> QED BY <1>1, Invariant, PTL

(* Update publishes only after its commit and the handler reads the payment *)
(* afresh, so when all is quiet the merchant knows the payment's status,    *)
(* whatever became of earlier events and in whatever order handlers ran.    *)
THEOREM QuietMerchantTold == Spec => []QuietMeansTold
<1>1. IInv => QuietMeansTold
  <2> SUFFICES ASSUME IInv, Quiet, Len(changes) > 1, Len(changes) \notin unsent,
                      status # "locked"
               PROVE  ToldLatest
    BY DEF QuietMeansTold
  <2> DEFINE i == Len(changes)
  <2>1. i \in 2..Len(changes) /\ i \in Events
    BY Ranges
  <2>2. task[i].pc = "done"
    BY <2>1, StatesTyped DEF IInv, Carried, Quiet
  <2>3. task[i].news.seen = i
    BY <2>1, <2>2, Ranges DEF IInv, ReadsNew, AfterRead
  <2>4. Told(task[i].news)
    BY <2>1, <2>2, <2>3 DEF IInv, Sent, Settled, Tells, status
  <2> QED BY <2>3, <2>4 DEF Told, ToldLatest
<1> QED BY <1>1, Invariant, PTL

-----------------------------------------------------------------------------
(* The amount.  While nothing has failed, a handler that read the newest    *)
(* status and found it partial has summed every fill, unless an updater     *)
(* still has to commit the change a later fill calls for.                   *)

Summed == {"key", "send", "stamp", "activate", "done"}
Coming == \E u \in Updaters : updater[u].pc \in {"update", "mark"}
Counts(i) ==
  task[i].pc \in Summed /\ task[i].news.seen = Len(changes) /\ status = "partial"
    => task[i].news.received = fills

(* The payment starts as "pending", and no handler has read a status that   *)
(* it did not have yet.                                                     *)
SeenExists ==
  changes[1] = "pending" /\ \A i \in Events : task[i].news.seen <= Len(changes)

SumsInv ==
  /\ IInv /\ SeenExists
  /\ faults = 0 => Coming \/ \A i \in Events : Counts(i)

LEMMA InitSumsInv == Init => SumsInv
<1> SUFFICES ASSUME Init PROVE SumsInv
  OBVIOUS
<1>1. \A i \in Events : task[i].pc = "none" /\ task[i].news.seen = 0
  BY DEF Init, Task, Nothing
<1>2. Len(changes) = 1 /\ changes[1] = "pending"
  BY DEF Init
<1>3. SeenExists
  BY <1>1, <1>2 DEF SeenExists
<1>4. \A i \in Events : Counts(i)
  BY <1>1 DEF Counts, Summed
<1> QED BY <1>3, <1>4, InitIInv DEF SumsInv

(* What is left of the invariant when the payment and its updaters rest: a  *)
(* handler's step may change its own event only.                            *)
LEMMA SumsTaskStep ==
  ASSUME SumsInv, IInv', faults' = 0 => faults = 0,
         NEW i \in Events, NEW pc \in TaskSteps, NEW news \in News,
         TaskTakes(i, pc, news), news.seen <= Len(changes),
         Coming \/ ~(pc \in Summed /\ news.seen = Len(changes) /\ status = "partial")
           \/ news.received = fills \/ faults' # 0,
         UNCHANGED <<changes, fills, updater>>
  PROVE  SumsInv'
<1>1. /\ task'[i].pc = pc /\ task'[i].news = news
      /\ \A j \in Events \ {i} : task'[j] = task[j]
  BY DEF SumsInv, IInv, TypeOK, TaskTakes, Task
<1>2. SeenExists'
  BY <1>1 DEF SumsInv, SeenExists
<1>3. Coming' = Coming /\ status' = status
  BY DEF Coming, status
<1>4. ASSUME faults' = 0, ~Coming, NEW j \in Events PROVE Counts(j)'
  BY <1>1, <1>3, <1>4 DEF SumsInv, Counts
<1>5. faults' = 0 => Coming' \/ \A j \in Events : Counts(j)'
  BY <1>3, <1>4
<1> QED BY <1>2, <1>5 DEF SumsInv

LEMMA SumsHandlerSteps ==
  ASSUME SumsInv, NEW i \in Events, TaskContinues(i) \/ TaskFails(i)
  PROVE  SumsInv'
<1>0. IInv' /\ IInv
  BY HandlerSteps DEF SumsInv
<1>1. /\ task[i].news \in News /\ task[i].pc \in TaskSteps /\ Nothing \in News
      /\ Len(changes) \in Nat /\ Len(changes) >= 1 /\ fills \in Nat /\ faults \in Nat
  BY <1>0, Ranges DEF IInv, TypeOK, News, Nothing
<1>2. task[i].news.seen <= Len(changes) /\ Nothing.seen = 0
  BY DEF SumsInv, SeenExists, Nothing
<1>3. faults = 0 => Coming \/ Counts(i)
  BY DEF SumsInv
<1>4. CASE GetMerchant(i)
  <2>1. PICK pc \in {"read", "done"} : TaskTakes(i, pc, Nothing)
    BY <1>4 DEF GetMerchant
  <2>2. pc \in TaskSteps /\ Nothing.seen # Len(changes)
    BY <1>1, <1>2 DEF TaskSteps
  <2> QED BY <1>0, <1>1, <1>2, <1>4, <2>1, <2>2, SumsTaskStep
          DEF GetMerchant, Silent, payment
<1>5. CASE ReadPayment(i)
  <2> DEFINE news == [Nothing EXCEPT !.seen = Len(changes)]
  <2>1. news \in News /\ news.seen = Len(changes)
    BY <1>1 DEF News, Nothing
  <2>2. PICK pc \in {"done", "sum", "send"} :
          TaskTakes(i, pc, news) /\ (pc \in Summed => status # "partial")
    BY <1>5 DEF ReadPayment, Summed
  <2>3. pc \in TaskSteps
    BY DEF TaskSteps
  <2> HIDE DEF news
  <2> QED BY <1>0, <1>1, <1>5, <2>1, <2>2, <2>3, SumsTaskStep
          DEF ReadPayment, Silent, payment
<1>6. CASE SumAllFills(i)
  <2> DEFINE news == [task[i].news EXCEPT !.received = fills]
  <2>1. news \in News /\ news.seen = task[i].news.seen /\ news.received = fills
    BY <1>1 DEF News
  <2>2. TaskTakes(i, "key", news) /\ "key" \in TaskSteps
    BY <1>6 DEF SumAllFills, TaskSteps
  <2> HIDE DEF news
  <2> QED BY <1>0, <1>1, <1>2, <1>6, <2>1, <2>2, SumsTaskStep
          DEF SumAllFills, Silent, payment
<1>7. CASE LatestFillIdempotencyKey(i)
  <2>1. PICK news \in News :
          /\ news.seen = task[i].news.seen /\ news.received = task[i].news.received
          /\ TaskTakes(i, "send", news)
    <3>1. /\ [task[i].news EXCEPT !.key = fills] \in News
          /\ [task[i].news EXCEPT !.key = fills].seen = task[i].news.seen
          /\ [task[i].news EXCEPT !.key = fills].received = task[i].news.received
      BY <1>1 DEF News
    <3> QED BY <1>1, <1>7, <3>1 DEF LatestFillIdempotencyKey
  <2>2. task[i].pc \in Summed /\ "send" \in TaskSteps
    BY <1>7 DEF LatestFillIdempotencyKey, Summed, TaskSteps
  <2>3. faults' = 0 => faults = 0
    BY <1>1, <1>7 DEF LatestFillIdempotencyKey
  <2>4. \/ Coming \/ faults' # 0
        \/ ~(news.seen = Len(changes) /\ status = "partial") \/ news.received = fills
    BY <1>3, <2>1, <2>2, <2>3 DEF Counts
  <2> QED BY <1>0, <1>1, <1>2, <1>7, <2>1, <2>2, <2>3, <2>4, SumsTaskStep
          DEF LatestFillIdempotencyKey, payment
<1>8. ASSUME NEW pc \in {"stamp", "activate", "done"}, TaskTakes(i, pc, task[i].news),
             task[i].pc \in Summed \/ faults' # 0, faults' = 0 => faults = 0,
             UNCHANGED <<payment, updater>>
      PROVE  SumsInv'
  <2>1. pc \in TaskSteps
    BY DEF TaskSteps
  <2>2. \/ Coming \/ faults' # 0
        \/ ~(task[i].news.seen = Len(changes) /\ status = "partial")
        \/ task[i].news.received = fills
    BY <1>3, <1>8 DEF Counts
  <2> QED BY <1>0, <1>1, <1>2, <1>8, <2>1, <2>2, SumsTaskStep DEF payment
<1>9. CASE SendAccepted(i) \/ SendUnanswered(i) \/ SendRefused(i)
  <2>1. /\ \E pc \in {"stamp", "done"} : TaskTakes(i, pc, task[i].news)
        /\ task[i].pc \in Summed
    BY <1>9 DEF SendAccepted, SendUnanswered, SendRefused, Summed
  <2>2. (faults' = 0 => faults = 0) /\ UNCHANGED <<payment, updater>>
    BY <1>1, <1>9 DEF SendAccepted, SendUnanswered, SendRefused, Silent
  <2> QED BY <1>8, <2>1, <2>2
<1>10. CASE SetWebhookTimestamp(i) \/ HandleSubscriptionPayment(i)
  <2>1. /\ \E pc \in {"activate", "done"} : TaskTakes(i, pc, task[i].news)
        /\ task[i].pc \in Summed
    BY <1>10 DEF SetWebhookTimestamp, HandleSubscriptionPayment, Summed
  <2>2. faults' = faults /\ UNCHANGED <<payment, updater>>
    BY <1>10 DEF SetWebhookTimestamp, HandleSubscriptionPayment, Silent
  <2> QED BY <1>8, <2>1, <2>2
<1>11. CASE TaskFails(i)
  <2>1. faults' # 0
    BY <1>1, <1>11 DEF TaskFails
  <2> QED BY <1>8, <1>11, <2>1 DEF TaskFails
<1> QED BY <1>4, <1>5, <1>6, <1>7, <1>9, <1>10, <1>11 DEF TaskContinues

(* A commit makes every handler's reading old, and every other step of an   *)
(* updater that books a fill leaves a commit to come.                       *)
LEMMA SumsUpdaterSteps ==
  ASSUME SumsInv, NEW u \in Updaters,
         Decide(u) \/ RecordFill(u) \/ UpdaterContinues(u) \/ UpdaterFails(u)
  PROVE  SumsInv'
<1>0. IInv' /\ IInv
  BY OtherUpdaterSteps, CommitStep, PublishStep
     DEF SumsInv, UpdaterContinues, Update, MarkPartial
<1>1. /\ Len(changes) \in Nat /\ Len(changes) >= 1 /\ faults \in Nat
      /\ \A i \in Events : task[i].news.seen \in Nat /\ task[i].news.seen <= Len(changes)
  BY <1>0, Ranges DEF IInv, TypeOK, SumsInv, SeenExists
<1>2. CASE Decide(u) \/ RecordFill(u)
  <2>1. PICK step \in UpdaterStates :
          step.pc \in {"update", "mark"} /\ UpdaterTakes(u, step)
    BY <1>2, StatesTyped DEF Decide, RecordFill, Statuses
  <2>2. updater'[u] = step
    BY <1>0, <2>1 DEF IInv, TypeOK, UpdaterTakes
  <2>3. Coming'
    BY <2>1, <2>2 DEF Coming
  <2>4. SeenExists'
    BY <1>2 DEF SumsInv, SeenExists, Decide, RecordFill, payment
  <2> QED BY <1>0, <2>3, <2>4 DEF SumsInv
<1>3. CASE updater[u].pc \in {"update", "mark"} /\ Commit(u)
  <2>1. updater[u].to \in Statuses
    BY <1>0, <1>3, Carrying DEF IInv, TypeOK
  <2>2. /\ Len(changes') = Len(changes) + 1
        /\ \A i \in 1..Len(changes) : changes'[i] = changes[i]
    BY <1>0, <1>3, <2>1 DEF IInv, TypeOK, Commit
  <2>3. task' = task
    BY <1>3 DEF Commit
  <2>4. SeenExists'
    BY <1>1, <2>2, <2>3 DEF SumsInv, SeenExists
  <2>5. ASSUME NEW i \in Events PROVE task'[i].news.seen # Len(changes')
    BY <1>1, <2>2, <2>3
  <2>6. \A i \in Events : Counts(i)'
    BY <2>5 DEF Counts
  <2> QED BY <1>0, <2>4, <2>6 DEF SumsInv
<1>4. CASE Publish(u)
  <2> DEFINE e == updater[u].event
  <2>1. e \in Events
    BY <1>0, <1>4, Carrying DEF IInv, TypeOK, Publish
  <2>2. /\ task'[e].pc = "merchant" /\ task'[e].news.seen = 0
        /\ \A i \in Events \ {e} : task'[i] = task[i]
    BY <1>0, <1>4, <2>1 DEF IInv, TypeOK, Publish, Task, Nothing
  <2>3. /\ changes' = changes /\ fills' = fills /\ faults' = faults /\ status' = status
        /\ updater' = [updater EXCEPT ![u] = Resting]
    BY <1>4 DEF Publish, payment, UpdaterTakes, status
  <2>4. SeenExists'
    BY <1>1, <2>1, <2>2, <2>3 DEF SumsInv, SeenExists
  <2>5. Coming => Coming'
    <3> SUFFICES ASSUME NEW v \in Updaters, updater[v].pc \in {"update", "mark"}
                 PROVE  Coming'
      BY DEF Coming
    <3>1. updater'[v] = updater[v]
      BY <1>0, <1>4, <2>3 DEF IInv, TypeOK, Publish
    <3> QED BY <3>1 DEF Coming
  <2>6. ASSUME NEW i \in Events, Counts(i) PROVE Counts(i)'
    BY <2>2, <2>3, <2>6 DEF Counts, Summed
  <2> QED BY <1>0, <2>3, <2>4, <2>5, <2>6 DEF SumsInv
<1>5. CASE UpdaterFails(u)
  <2>1. faults' # 0
    BY <1>1, <1>5 DEF UpdaterFails
  <2>2. SeenExists'
    BY <1>5 DEF SumsInv, SeenExists, UpdaterFails, payment
  <2> QED BY <1>0, <2>1, <2>2 DEF SumsInv
<1> QED BY <1>2, <1>3, <1>4, <1>5 DEF UpdaterContinues, Update, MarkPartial, Publish

LEMMA SumsInductive == SumsInv /\ [Next]_vars => SumsInv'
<1> SUFFICES ASSUME SumsInv, [Next]_vars PROVE SumsInv'
  OBVIOUS
<1>0. IInv /\ IInv'
  BY Inductive DEF SumsInv
<1>1. ASSUME NEW u \in Updaters,
             Decide(u) \/ RecordFill(u) \/ UpdaterContinues(u) \/ UpdaterFails(u)
      PROVE  SumsInv'
  BY <1>1, SumsUpdaterSteps
<1>2. ASSUME NEW i \in Events, TaskContinues(i) \/ TaskFails(i) PROVE SumsInv'
  BY <1>2, SumsHandlerSteps
<1>3. CASE UNCHANGED <<changes, fills, updater, task, faults>>
  BY <1>0, <1>3 DEF SumsInv, SeenExists, Coming, Counts, status
<1>4. CASE SetWebhookURL
  BY <1>3, <1>4 DEF SetWebhookURL, payment
<1>5. CASE UNCHANGED vars
  BY <1>3, <1>5 DEF vars
<1>6. CASE Crash
  <2>1. faults' # 0
    BY <1>0, <1>6 DEF IInv, TypeOK, Crash
  <2>2. \A i \in Events : task'[i].news = task[i].news
    BY <1>6 DEF Crash, Task
  <2>3. SeenExists'
    BY <1>6, <2>2 DEF SumsInv, SeenExists, Crash, payment
  <2> QED BY <1>0, <2>1, <2>3 DEF SumsInv
<1> QED BY <1>1, <1>2, <1>4, <1>5, <1>6 DEF Next

(* A fill is booked before the payment is marked, and marking publishes an  *)
(* event even when the payment was partial already, so when all is quiet    *)
(* and nothing failed a webhook has reported every fill.                    *)
THEOREM QuietAmountTold == Spec => []QuietMeansCounted
<1>1. SumsInv => QuietMeansCounted
  <2> SUFFICES ASSUME SumsInv, Quiet, faults = 0, unsent = {}, status = "partial"
               PROVE  \E k \in DOMAIN inbox :
                        /\ inbox[k].news.seen = Len(changes)
                        /\ inbox[k].news.received = fills
    BY DEF QuietMeansCounted
  <2> DEFINE i == Len(changes)
  <2>0. IInv
    BY DEF SumsInv
  <2>1. i \in 2..Len(changes) /\ i \in Events
    <3>1. i # 1
      BY DEF SumsInv, SeenExists, status
    <3>2. i \in Nat /\ i >= 1 /\ 2..i \subseteq Events
      BY <2>0, Ranges
    <3>3. \A n \in Nat : n >= 1 /\ n # 1 => n \in 2..n
      OBVIOUS
    <3>4. i \in 2..i
      <4> HIDE DEF i
      <4> QED BY <3>1, <3>2, <3>3
    <3> QED BY <3>2, <3>4
  <2>2. task[i].pc = "done"
    BY <2>0, <2>1, StatesTyped DEF IInv, Carried, Quiet
  <2>3. task[i].news.seen = i
    BY <2>0, <2>1, <2>2, Ranges DEF IInv, ReadsNew, AfterRead
  <2>4. Told(task[i].news)
    BY <2>0, <2>1, <2>2, <2>3 DEF IInv, Sent, Settled, Tells, status
  <2>5. ~Coming
    BY StatesTyped DEF Coming, Quiet
  <2>6. task[i].news.received = fills
    BY <2>1, <2>2, <2>3, <2>5 DEF SumsInv, Counts, Summed
  <2> QED BY <2>3, <2>4, <2>6 DEF Told
<1> QED BY <1>1, InitSumsInv, SumsInductive, PTL DEF Spec

-----------------------------------------------------------------------------
(* Checkout.                                                                *)

LEMMA RequestStatesTyped ==
  /\ Idle \in RequestStates
  /\ \A pc \in RequestSteps \ {"idle"}, m \in Methods, tx \in Nat :
       Choosing(pc, m, tx) \in RequestStates
  /\ \A pc \in ExpirerSteps, tx \in Nat :
       /\ Job(pc, tx) \in [pc : ExpirerSteps, tx : Nat]
       /\ Job(pc, tx).pc = pc /\ Job(pc, tx).tx = tx
  /\ Idle.pc = "idle"
  /\ \A pc, m, tx : /\ Choosing(pc, m, tx).pc = pc
                    /\ Choosing(pc, m, tx).tx = tx
                    /\ Choosing(pc, m, tx).method = m
BY DEF RequestStates, Idle, Choosing, Job

(* A request that is not idle carries a currency and an index.              *)
LEMMA Busy ==
  ASSUME NEW q \in RequestStates, q.pc # "idle"
  PROVE  q \in [pc : RequestSteps \ {"idle"}, method : Methods, tx : Nat]
BY DEF RequestStates, Idle

LEMMA MoveOn ==
  ASSUME CheckoutTypeOK, NEW r \in Requests, request[r].pc # "idle",
         NEW step \in RequestSteps \ {"idle"}
  PROVE  /\ [request EXCEPT ![r].pc = step] \in [Requests -> RequestStates]
         /\ [request EXCEPT ![r].pc = step][r].pc = step
         /\ [request EXCEPT ![r].pc = step][r].tx = request[r].tx
         /\ \A q \in Requests \ {r} : [request EXCEPT ![r].pc = step][q] = request[q]
<1>1. request[r] \in [pc : RequestSteps \ {"idle"}, method : Methods, tx : Nat]
  BY Busy DEF CheckoutTypeOK
<1>2. [request[r] EXCEPT !.pc = step] \in RequestStates
  BY <1>1 DEF RequestStates
<1> QED BY <1>1, <1>2 DEF CheckoutTypeOK

LEMMA Appended ==
  ASSUME CheckoutTypeOK, NEW m \in Methods, NEW s \in Seq(TxRow),
         s = Append(txs, [method |-> m, status |-> "pending"])
  PROVE  /\ Len(s) = Len(txs) + 1
         /\ \A i \in 1..Len(txs) : s[i] = txs[i]
BY DEF CheckoutTypeOK

LEMMA CanceledTyped ==
  ASSUME CheckoutTypeOK, NEW i \in 1..Len(txs)
  PROVE  /\ Canceled(i) \in Seq(TxRow)
         /\ Len(Canceled(i)) = Len(txs)
         /\ \A k \in 1..Len(txs) :
              Canceled(i)[k] = IF k = i THEN [method |-> txs[i].method, status |-> "canceled"]
                               ELSE txs[k]
<1>1. txs[i] \in TxRow
  BY DEF CheckoutTypeOK
<1>2. [method |-> txs[i].method, status |-> "canceled"] \in TxRow
  BY <1>1 DEF TxRow
<1> QED BY <1>2 DEF CheckoutTypeOK, Canceled

(* What a request or the expiry job is about to cancel exists, a request    *)
(* that cancels or creates knows the newest transaction, and it holds the   *)
(* advisory lock, so that nothing was appended since it looked.             *)
LockHeld == \A r \in Requests : request[r].pc \in Locked => holder = r

Replacing ==
  \A r \in Requests :
    /\ request[r].pc \in {"cancel", "cancelRow"} =>
         txs # <<>> /\ request[r].tx = Len(txs)
    /\ request[r].pc = "create" => NoneLive

Expiring == expirer.pc \in {"cancel", "cancelRow"} => expirer.tx \in 1..Len(txs)

CheckoutIInv == CheckoutTypeOK /\ LockHeld /\ Replacing /\ Expiring /\ OnlyNewestLive

LEMMA InitCheckoutIInv == CheckoutInit => CheckoutIInv
<1> SUFFICES ASSUME CheckoutInit PROVE CheckoutIInv
  OBVIOUS
<1>1. CheckoutTypeOK
  <2>1. paymentStatus \in {"pending", "locked", "failed"} /\ txs \in Seq(TxRow)
    BY DEF CheckoutInit
  <2>2. customer \in BOOLEAN /\ due \in BOOLEAN
    BY DEF CheckoutInit
  <2>3. request \in [Requests -> RequestStates]
    BY RequestStatesTyped DEF CheckoutInit
  <2>4. expirer \in [pc : ExpirerSteps, tx : Nat]
    BY DEF CheckoutInit, Job, ExpirerSteps
  <2>5. holder \in Requests \cup {NoRequest} /\ choices \in Nat /\ aborts \in Nat
    BY DEF CheckoutInit
  <2> QED BY <2>1, <2>2, <2>3, <2>4, <2>5 DEF CheckoutTypeOK
<1>2. LockHeld /\ Replacing
  BY RequestStatesTyped DEF CheckoutInit, LockHeld, Replacing, Locked
<1>3. Expiring
  BY RequestStatesTyped DEF CheckoutInit, Expiring, ExpirerSteps
<1>4. OnlyNewestLive
  BY DEF CheckoutInit, OnlyNewestLive
<1> QED BY <1>1, <1>2, <1>3, <1>4 DEF CheckoutIInv

(* A step of one request that leaves the transactions alone.                *)
LEMMA RequestStep ==
  ASSUME CheckoutIInv, NEW r \in Requests,
         NEW step \in RequestStates, RequestTakes(r, step),
         holder' \in Requests \cup {NoRequest},
         step.pc \in Locked => holder' = r,
         \A q \in Requests \ {r} : holder = q => holder' = q,
         step.pc \in {"cancel", "cancelRow"} => txs # <<>> /\ step.tx = Len(txs),
         step.pc = "create" => NoneLive,
         UNCHANGED <<txs, expirer>>
  PROVE  /\ request' \in [Requests -> RequestStates]
         /\ LockHeld' /\ Replacing' /\ Expiring' /\ OnlyNewestLive'
<1>1. /\ request' \in [Requests -> RequestStates]
      /\ request'[r] = step
      /\ \A q \in Requests \ {r} : request'[q] = request[q]
  BY DEF CheckoutIInv, CheckoutTypeOK, RequestTakes
<1>2. NoneLive' <=> NoneLive
  BY DEF NoneLive, Live
<1>3. LockHeld'
  BY <1>1 DEF CheckoutIInv, LockHeld
<1>4. Replacing'
  BY <1>1, <1>2 DEF CheckoutIInv, Replacing
<1>5. Expiring' /\ OnlyNewestLive'
  BY DEF CheckoutIInv, Expiring, OnlyNewestLive, Live
<1> QED BY <1>1, <1>3, <1>4, <1>5

(* A step of the expiry job that leaves the transactions alone.             *)
LEMMA ExpirerStep ==
  ASSUME CheckoutIInv, expirer' \in [pc : ExpirerSteps, tx : Nat],
         expirer'.pc \in {"cancel", "cancelRow"} => expirer'.tx \in 1..Len(txs),
         UNCHANGED <<txs, holder, request>>
  PROVE  LockHeld' /\ Replacing' /\ Expiring' /\ OnlyNewestLive'
<1>1. NoneLive' <=> NoneLive
  BY DEF NoneLive, Live
<1> QED BY <1>1 DEF CheckoutIInv, LockHeld, Replacing, Expiring, OnlyNewestLive, Live

(* Canceling keeps the length and makes nothing live.                       *)
LEMMA CancelStep ==
  ASSUME CheckoutIInv, NEW i \in 1..Len(txs), txs' = Canceled(i)
  PROVE  /\ txs' \in Seq(TxRow) /\ Len(txs') = Len(txs) /\ txs # <<>> /\ txs' # <<>>
         /\ OnlyNewestLive'
         /\ NoneLive => NoneLive'
         /\ i = Len(txs) => NoneLive'
<1>1. CheckoutTypeOK /\ txs \in Seq(TxRow)
  BY DEF CheckoutIInv, CheckoutTypeOK
<1>2. /\ txs' \in Seq(TxRow) /\ Len(txs') = Len(txs)
      /\ \A k \in 1..Len(txs) :
           txs'[k] = IF k = i THEN [method |-> txs[i].method, status |-> "canceled"]
                     ELSE txs[k]
  BY <1>1, CanceledTyped
<1>3. \A k \in 1..Len(txs) : txs'[k].status = "pending" => k # i /\ Live(k)
  BY <1>2 DEF Live
<1>4. Len(txs) \in Nat /\ txs # <<>> /\ txs' # <<>>
  BY <1>1, <1>2
<1>5. OnlyNewestLive'
  BY <1>2, <1>3, <1>4 DEF CheckoutIInv, OnlyNewestLive, Live
<1>6. NoneLive => NoneLive'
  BY <1>2, <1>3, <1>4 DEF NoneLive, Live
<1>7. i = Len(txs) => NoneLive'
  BY <1>2, <1>3, <1>4 DEF NoneLive, Live
<1> QED BY <1>2, <1>4, <1>5, <1>6, <1>7

(* A step of one request that cancels the transaction it replaces.          *)
LEMMA ReplaceStep ==
  ASSUME CheckoutIInv, NEW r \in Requests, CancelReplaced(r)
  PROVE  /\ txs' \in Seq(TxRow) /\ request' \in [Requests -> RequestStates]
         /\ LockHeld' /\ Replacing' /\ Expiring' /\ OnlyNewestLive'
<1>1. /\ request[r].pc = "cancelRow" /\ txs' = Canceled(request[r].tx)
      /\ request' = [request EXCEPT ![r].pc = "create"]
      /\ UNCHANGED <<holder, expirer>>
  BY DEF CancelReplaced
<1>2. "create" \in RequestSteps \ {"idle"} /\ CheckoutTypeOK
  BY DEF RequestSteps, Locked, CheckoutIInv
<1>3. /\ request' \in [Requests -> RequestStates] /\ request'[r].pc = "create"
      /\ \A q \in Requests \ {r} : request'[q] = request[q]
  BY <1>1, <1>2, MoveOn
<1>4. txs # <<>> /\ request[r].tx = Len(txs) /\ Len(txs) \in 1..Len(txs)
  <2>1. txs # <<>> /\ request[r].tx = Len(txs)
    BY <1>1 DEF CheckoutIInv, Replacing
  <2>2. txs \in Seq(TxRow)
    BY <1>2 DEF CheckoutTypeOK
  <2> QED BY <2>1, <2>2
<1>5. /\ txs' \in Seq(TxRow) /\ Len(txs') = Len(txs) /\ txs' # <<>>
      /\ OnlyNewestLive' /\ NoneLive'
  BY <1>1, <1>4, CancelStep
<1>6. LockHeld'
  BY <1>1, <1>3 DEF CheckoutIInv, LockHeld, Locked
<1>7. Replacing'
  BY <1>3, <1>5 DEF CheckoutIInv, Replacing
<1>8. Expiring'
  BY <1>1, <1>5 DEF CheckoutIInv, Expiring
<1> QED BY <1>3, <1>5, <1>6, <1>7, <1>8

(* A request that appends found no live transaction and nobody else is      *)
(* between looking and appending.                                           *)
LEMMA AppendStep ==
  ASSUME CheckoutIInv, NEW r \in Requests, CreateTransaction(r)
  PROVE  /\ txs' \in Seq(TxRow) /\ request' \in [Requests -> RequestStates]
         /\ LockHeld' /\ Replacing' /\ Expiring' /\ OnlyNewestLive'
<1>1. /\ request[r].pc = "create" /\ request' = [request EXCEPT ![r] = Idle]
      /\ txs' = Append(txs, [method |-> request[r].method, status |-> "pending"])
      /\ holder' = NoRequest /\ UNCHANGED expirer
  BY DEF CreateTransaction, Ends, RequestTakes
<1>2. CheckoutTypeOK /\ txs \in Seq(TxRow) /\ request \in [Requests -> RequestStates]
  BY DEF CheckoutIInv, CheckoutTypeOK
<1>3. request[r].method \in Methods
  <2>1. request[r] \in [pc : RequestSteps \ {"idle"}, method : Methods, tx : Nat]
    BY <1>1, <1>2, Busy
  <2> QED BY <2>1
<1>4. [method |-> request[r].method, status |-> "pending"] \in TxRow
  BY <1>3 DEF TxRow
<1>5. /\ txs' \in Seq(TxRow) /\ Len(txs') = Len(txs) + 1 /\ Len(txs) \in Nat
      /\ \A i \in 1..Len(txs) : txs'[i] = txs[i]
  BY <1>1, <1>2, <1>4
<1>6. /\ request' \in [Requests -> RequestStates]
      /\ request'[r].pc = "idle"
      /\ \A q \in Requests \ {r} : request'[q] = request[q]
  BY <1>1, <1>2, RequestStatesTyped
<1>7. \A q \in Requests \ {r} : request[q].pc \notin Locked
  BY <1>1 DEF CheckoutIInv, LockHeld, Locked
<1>8. NoneLive
  BY <1>1 DEF CheckoutIInv, Replacing
<1>9. \A q \in Requests : request'[q].pc \notin Locked
  BY <1>6, <1>7 DEF Locked
<1>10. LockHeld' /\ Replacing'
  BY <1>9 DEF LockHeld, Replacing, Locked
<1>11. Expiring'
  BY <1>1, <1>5 DEF CheckoutIInv, Expiring
<1>12. \A i \in 1..Len(txs) : ~Live(i)
  BY <1>2, <1>8 DEF CheckoutIInv, OnlyNewestLive, NoneLive
<1>13. OnlyNewestLive'
  BY <1>5, <1>12 DEF OnlyNewestLive, Live
<1> QED BY <1>5, <1>6, <1>10, <1>11, <1>13

LEMMA CheckoutTypeStep ==
  ASSUME CheckoutTypeOK, paymentStatus' \in {"pending", "locked", "failed"},
         customer' \in BOOLEAN,
         txs' \in Seq(TxRow), due' \in BOOLEAN, holder' \in Requests \cup {NoRequest},
         request' \in [Requests -> RequestStates],
         expirer' \in [pc : ExpirerSteps, tx : Nat], choices' \in Nat, aborts' \in Nat
  PROVE  CheckoutTypeOK'
BY DEF CheckoutTypeOK

(* What a request moves on to: an initial read, or the next of its steps.   *)
LEMMA RequestPreserves ==
  ASSUME CheckoutIInv, NEW r \in Requests, RequestNext(r)
  PROVE  /\ txs' \in Seq(TxRow) /\ request' \in [Requests -> RequestStates]
         /\ LockHeld' /\ Replacing' /\ Expiring' /\ OnlyNewestLive'
         /\ holder' \in Requests \cup {NoRequest}
<1>1. CheckoutTypeOK /\ txs \in Seq(TxRow) /\ request \in [Requests -> RequestStates]
      /\ holder \in Requests \cup {NoRequest}
  BY DEF CheckoutIInv, CheckoutTypeOK
<1>2. Idle \in RequestStates /\ Idle.pc = "idle"
  BY RequestStatesTyped
<1>3. ASSUME NEW m \in Methods, NEW pc \in {"assign", "connect", "lock"},
             RequestTakes(r, Choosing(pc, m, 0)), UNCHANGED <<txs, holder, expirer>>
      PROVE  /\ request' \in [Requests -> RequestStates]
             /\ LockHeld' /\ Replacing' /\ Expiring' /\ OnlyNewestLive'
  <2>1. /\ Choosing(pc, m, 0) \in RequestStates
        /\ Choosing(pc, m, 0).pc = pc
    BY RequestStatesTyped DEF RequestSteps, Locked
  <2>2. pc \notin Locked
    BY DEF Locked
  <2> QED BY <1>1, <1>3, <2>1, <2>2, RequestStep DEF Locked
<1>4. ASSUME RequestTakes(r, Idle), holder' \in {holder, NoRequest},
             \A q \in Requests \ {r} : holder = q => holder' = q,
             UNCHANGED <<txs, expirer>>
      PROVE  /\ request' \in [Requests -> RequestStates]
             /\ LockHeld' /\ Replacing' /\ Expiring' /\ OnlyNewestLive'
  BY <1>1, <1>2, <1>4, RequestStep DEF Locked
<1>5. ASSUME NEW pc \in {"wait", "latest", "cancelRow"}, request[r].pc # "idle",
             request' = [request EXCEPT ![r].pc = pc],
             holder' \in Requests \cup {NoRequest},
             pc \in Locked => holder' = r,
             \A q \in Requests \ {r} : holder = q => holder' = q,
             pc = "cancelRow" => request[r].pc = "cancel",
             UNCHANGED <<txs, expirer>>
      PROVE  /\ request' \in [Requests -> RequestStates]
             /\ LockHeld' /\ Replacing' /\ Expiring' /\ OnlyNewestLive'
  <2>1. pc \in RequestSteps \ {"idle"}
    BY DEF RequestSteps, Locked
  <2>2. /\ request' \in [Requests -> RequestStates] /\ request'[r].pc = pc
        /\ request'[r].tx = request[r].tx
        /\ \A q \in Requests \ {r} : request'[q] = request[q]
    BY <1>1, <1>5, <2>1, MoveOn
  <2>3. NoneLive' <=> NoneLive
    BY <1>5 DEF NoneLive, Live
  <2>4. LockHeld'
    BY <1>5, <2>2 DEF CheckoutIInv, LockHeld
  <2>5. Replacing'
    BY <1>5, <2>2, <2>3 DEF CheckoutIInv, Replacing
  <2>6. Expiring' /\ OnlyNewestLive'
    BY <1>5 DEF CheckoutIInv, Expiring, OnlyNewestLive, Live
  <2> QED BY <2>2, <2>4, <2>5, <2>6
<1>6. CASE AssignRead(r)
  BY <1>1, <1>3, <1>6 DEF AssignRead, rows
<1>7. CASE \E m \in Methods : ChooseMethod(r, m)
  BY <1>1, <1>3, <1>7 DEF ChooseMethod, rows
<1>8. CASE LockRead(r)
  BY <1>1, <1>3, <1>8 DEF LockRead, rows
<1>9. CASE AssignCustomer(r)
  BY <1>1, <1>4, <1>9 DEF AssignCustomer
<1>10. CASE OpenLockTransaction(r)
  BY <1>1, <1>5, <1>10 DEF OpenLockTransaction, rows, Locked
<1>11. CASE AcquireLock(r)
  <2>1. /\ request[r].pc = "wait" /\ holder = NoRequest /\ holder' = r
        /\ request' = [request EXCEPT ![r].pc = "latest"]
        /\ UNCHANGED <<txs, expirer>>
    BY <1>11 DEF AcquireLock, rows
  <2>2. \A q \in Requests \ {r} : holder = q => holder' = q
    BY <2>1, NoRequestAssumption
  <2> QED BY <1>1, <1>5, <2>1, <2>2
<1>12. CASE ReadLatest(r)
  <2>1. /\ request[r].pc = "latest" /\ holder = r /\ UNCHANGED <<txs, expirer>>
    BY <1>12 DEF ReadLatest, rows, CheckoutIInv, LockHeld, Locked
  <2>2. request[r].method \in Methods
    <3>1. request[r] \in [pc : RequestSteps \ {"idle"}, method : Methods, tx : Nat]
      BY <1>1, <2>1, Busy
    <3> QED BY <3>1
  <2>3. CASE /\ NoneLive /\ UNCHANGED holder
             /\ RequestTakes(r, Choosing("create", request[r].method, 0))
    <3>1. /\ Choosing("create", request[r].method, 0) \in RequestStates
          /\ Choosing("create", request[r].method, 0).pc = "create"
      BY <2>2, RequestStatesTyped DEF RequestSteps, Locked
    <3> QED BY <1>1, <2>1, <2>3, <3>1, RequestStep
  <2>4. CASE Ends(r)
    <3>1. RequestTakes(r, Idle) /\ holder' = NoRequest
      BY <2>4 DEF Ends
    <3>2. \A q \in Requests \ {r} : holder = q => holder' = q
      BY <2>1
    <3> QED BY <1>1, <1>4, <2>1, <3>1, <3>2
  <2>5. CASE /\ ~NoneLive /\ UNCHANGED holder
             /\ RequestTakes(r, Choosing("cancel", request[r].method, Len(txs)))
    <3>1. Len(txs) \in Nat /\ txs # <<>>
      BY <1>1, <2>5 DEF NoneLive
    <3>2. /\ Choosing("cancel", request[r].method, Len(txs)) \in RequestStates
          /\ Choosing("cancel", request[r].method, Len(txs)).pc = "cancel"
          /\ Choosing("cancel", request[r].method, Len(txs)).tx = Len(txs)
      BY <2>2, <3>1, RequestStatesTyped DEF RequestSteps, Locked
    <3> QED BY <1>1, <2>1, <2>5, <3>1, <3>2, RequestStep
  <2> QED BY <1>12, <2>3, <2>4, <2>5, <1>1, <2>1 DEF ReadLatest, Ends
<1>13. CASE OpenCancel(r)
  <2>1. /\ request[r].pc = "cancel" /\ holder = r
        /\ request' = [request EXCEPT ![r].pc = "cancelRow"]
        /\ UNCHANGED <<txs, holder, expirer>>
    BY <1>13 DEF OpenCancel, rows, CheckoutIInv, LockHeld, Locked
  <2> QED BY <1>1, <1>5, <2>1
<1>14. CASE CancelReplaced(r)
  BY <1>1, <1>14, ReplaceStep DEF CancelReplaced
<1>15. CASE CreateTransaction(r)
  BY <1>1, <1>15, AppendStep DEF CreateTransaction, Ends
<1>16. CASE LockPaymentOptions(r)
  BY <1>1, <1>4, <1>16 DEF LockPaymentOptions
<1>17. CASE RequestAborts(r)
  <2>1. /\ RequestTakes(r, Idle) /\ holder' = (IF holder = r THEN NoRequest ELSE holder)
        /\ UNCHANGED <<txs, expirer>>
    BY <1>17 DEF RequestAborts, rows
  <2> QED BY <1>1, <1>4, <2>1
<1> QED BY <1>6, <1>7, <1>8, <1>9, <1>10, <1>11, <1>12, <1>13, <1>14, <1>15,
           <1>16, <1>17 DEF RequestNext, RequestContinues

LEMMA RequestFrame ==
  ASSUME CheckoutTypeOK, NEW r \in Requests, RequestNext(r)
  PROVE  /\ paymentStatus' \in {"pending", "locked", "failed"} /\ customer' \in BOOLEAN
         /\ due' \in BOOLEAN /\ expirer' = expirer
         /\ choices' \in Nat /\ aborts' \in Nat
<1>1. expirer' = expirer /\ paymentStatus' \in {paymentStatus, "locked"}
      /\ choices' \in {choices, choices + 1} /\ aborts' \in {aborts, aborts + 1}
  BY DEF RequestNext, RequestContinues, AssignRead, ChooseMethod, LockRead,
       AssignCustomer, OpenLockTransaction, AcquireLock, ReadLatest, OpenCancel,
       CancelReplaced, CreateTransaction, LockPaymentOptions, RequestAborts, rows
<1>2. (customer' = customer \/ customer' = TRUE) /\ (due' = due \/ due' = FALSE)
  BY Zenon DEF RequestNext, RequestContinues, AssignRead, ChooseMethod, LockRead,
       AssignCustomer, OpenLockTransaction, AcquireLock, ReadLatest, OpenCancel,
       CancelReplaced, CreateTransaction, LockPaymentOptions, RequestAborts, rows
<1>3. customer' \in BOOLEAN /\ due' \in BOOLEAN
  BY <1>2, Zenon DEF CheckoutTypeOK
<1>4. paymentStatus \in {"pending", "locked", "failed"} /\ choices \in Nat /\ aborts \in Nat
  BY DEF CheckoutTypeOK
<1> QED BY <1>1, <1>3, <1>4

LEMMA ExpirerPreserves ==
  ASSUME CheckoutIInv, ExpirerContinues \/ ExpirerAborts
  PROVE  CheckoutIInv'
<1>1. /\ CheckoutTypeOK /\ txs \in Seq(TxRow) /\ expirer \in [pc : ExpirerSteps, tx : Nat]
  BY DEF CheckoutIInv, CheckoutTypeOK
<1>2. /\ paymentStatus' \in {"pending", "locked", "failed"} /\ customer' = customer
      /\ due' = due /\ choices' = choices /\ aborts' \in Nat
      /\ UNCHANGED <<holder, request>>
  BY <1>1 DEF CheckoutTypeOK, ExpirerContinues, ExpirerAborts, ExpireLoad, ExpireReadLatest,
       ExpireOpenCancel, ExpireCancel, ExpireFail, rows
<1>3. \A pc \in ExpirerSteps, tx \in Nat :
       /\ Job(pc, tx) \in [pc : ExpirerSteps, tx : Nat]
       /\ Job(pc, tx).pc = pc /\ Job(pc, tx).tx = tx
  BY RequestStatesTyped
<1>4. CASE ExpireCancel
  <2>1. /\ expirer.pc = "cancelRow" /\ txs' = Canceled(expirer.tx)
        /\ expirer' = Job("fail", 0)
    BY <1>4 DEF ExpireCancel
  <2>2. expirer.tx \in 1..Len(txs)
    BY <2>1 DEF CheckoutIInv, Expiring
  <2>3. /\ txs' \in Seq(TxRow) /\ Len(txs') = Len(txs) /\ txs # <<>> /\ txs' # <<>>
        /\ OnlyNewestLive' /\ (NoneLive => NoneLive')
    BY <2>1, <2>2, CancelStep
  <2>4. expirer' \in [pc : ExpirerSteps, tx : Nat] /\ expirer'.pc = "fail"
    BY <1>3, <2>1 DEF ExpirerSteps
  <2>5. LockHeld' /\ Replacing'
    BY <1>2, <2>3 DEF CheckoutIInv, LockHeld, Replacing
  <2>6. Expiring'
    BY <2>4 DEF Expiring
  <2>7. CheckoutTypeOK'
    BY <1>1, <1>2, <2>3, <2>4, CheckoutTypeStep DEF CheckoutTypeOK
  <2> QED BY <2>3, <2>5, <2>6, <2>7 DEF CheckoutIInv
<1>5. CASE ~ExpireCancel
  <2>1. UNCHANGED txs
    BY <1>5 DEF ExpirerContinues, ExpirerAborts, ExpireLoad, ExpireReadLatest,
         ExpireOpenCancel, ExpireFail, rows
  <2>2. /\ expirer' \in [pc : ExpirerSteps, tx : Nat]
        /\ expirer'.pc \in {"cancel", "cancelRow"} => expirer'.tx \in 1..Len(txs)
    <3>1. CASE ExpireReadLatest
      <4>1. Len(txs) \in Nat /\ (~NoneLive => Len(txs) \in 1..Len(txs))
        BY <1>1 DEF NoneLive
      <4> QED BY <1>3, <3>1, <4>1 DEF ExpireReadLatest, ExpirerSteps
    <3>2. CASE ExpireOpenCancel
      <4>1. expirer' = [expirer EXCEPT !.pc = "cancelRow"] /\ expirer.pc = "cancel"
        BY <3>2 DEF ExpireOpenCancel
      <4>2. expirer.tx \in 1..Len(txs)
        BY <4>1 DEF CheckoutIInv, Expiring
      <4> QED BY <1>1, <4>1, <4>2 DEF ExpirerSteps
    <3>3. CASE ExpireLoad \/ ExpireFail \/ ExpirerAborts
      <4>1. expirer' \in {Job("idle", 0), Job("loaded", 0)}
        BY <3>3 DEF ExpireLoad, ExpireFail, ExpirerAborts
      <4> QED BY <1>3, <4>1 DEF ExpirerSteps
    <3> QED BY <1>5, <3>1, <3>2, <3>3 DEF ExpirerContinues
  <2>3. LockHeld' /\ Replacing' /\ Expiring' /\ OnlyNewestLive'
    BY <1>2, <2>1, <2>2, ExpirerStep
  <2>4. CheckoutTypeOK'
    BY <1>1, <1>2, <2>1, <2>2, CheckoutTypeStep DEF CheckoutTypeOK
  <2> QED BY <2>3, <2>4 DEF CheckoutIInv
<1> QED BY <1>4, <1>5

LEMMA NextCheckoutIInv == CheckoutIInv /\ [CheckoutNext]_checkoutVars => CheckoutIInv'
<1> SUFFICES ASSUME CheckoutIInv, [CheckoutNext]_checkoutVars PROVE CheckoutIInv'
  OBVIOUS
<1>1. CASE PassTime \/ UNCHANGED checkoutVars
  <2>1. UNCHANGED <<paymentStatus, customer, txs, holder, request, expirer, choices, aborts>>
        /\ due' \in BOOLEAN
    BY <1>1 DEF PassTime, checkoutVars, rows, CheckoutIInv, CheckoutTypeOK
  <2>2. NoneLive' <=> NoneLive
    BY <2>1 DEF NoneLive, Live
  <2>3. CheckoutTypeOK'
    BY <2>1, CheckoutTypeStep DEF CheckoutIInv, CheckoutTypeOK
  <2> QED BY <2>1, <2>2, <2>3 DEF CheckoutIInv, LockHeld, Replacing, Expiring, OnlyNewestLive, Live
<1>2. ASSUME NEW r \in Requests, RequestNext(r) PROVE CheckoutIInv'
  <2>1. CheckoutTypeOK'
    BY <1>2, RequestPreserves, RequestFrame, CheckoutTypeStep DEF CheckoutIInv, CheckoutTypeOK
  <2> QED BY <1>2, <2>1, RequestPreserves DEF CheckoutIInv
<1>3. CASE ExpirerContinues \/ ExpirerAborts
  BY <1>3, ExpirerPreserves
<1> QED BY <1>1, <1>2, <1>3 DEF CheckoutNext

(* Every row and every local record holds a value of its type.              *)
THEOREM CheckoutTyped == CheckoutSpec => []CheckoutTypeOK
<1>1. CheckoutIInv => CheckoutTypeOK
  BY DEF CheckoutIInv
<1> QED BY <1>1, InitCheckoutIInv, NextCheckoutIInv, PTL DEF CheckoutSpec

(* The advisory lock of SetPaymentMethod: of an invoice's transactions only *)
(* the newest can wait for money.                                           *)
THEOREM OneLiveTransaction == CheckoutSpec => []OnlyNewestLive
<1>1. CheckoutIInv => OnlyNewestLive
  BY DEF CheckoutIInv
<1> QED BY <1>1, InitCheckoutIInv, NextCheckoutIInv, PTL DEF CheckoutSpec
=============================================================================
