------------------------------ MODULE MailInbox ------------------------------
(***************************************************************************)
(* The durable inbox of one connected mailbox: from the provider's         *)
(* notification of a new message to the workflow run that handles it.      *)
(*                                                                         *)
(* Publishing a workflow with a mail trigger subscribes it.  The webhook   *)
(* stores one event for each subscription that a notification is for and   *)
(* hands the new ones to the workers.  A Gmail event makes its worker list *)
(* what was added since the subscription's cursor, an Outlook event is for *)
(* one message; each message has one row of its own in the same table, the *)
(* child, that is to carry the id of the run started for it.               *)
(*                                                                         *)
(* Messages are numbered as they arrive; a message's number is its history *)
(* id too.  An action ends at a commit, or where the handler waits for the *)
(* provider.                                                               *)
(***************************************************************************)
EXTENDS Integers, FiniteSets

CONSTANTS
  Subscriptions,   \* the workflow triggers that may be published for the mailbox
  Mailbox,         \* the whole mailbox, as what Gmail notifies of
  Providers,       \* whose mailbox it may be: a subset of {"gmail", "outlook"}
  Handlers,        \* webhook requests that are served at once
  Workers,
  PageSize,        \* history records in an answer (maxResults)
  MaxRetries,      \* of one message of the queue
  MaxMessages,     \* bound: messages that arrive
  MaxDisturbances, \* bound: faults, renewals and acts of users
  Disturbances     \* a subset of DisturbanceKinds

\* A lost worker; a call that the provider answers with an error; one that gets no answer; an
\* expired cursor; a revoked token; a workflow that cannot be started; a lost webhook request
\* or broker; a message of the queue or a notification delivered twice; a renewal; a
\* subscription disabled, the mailbox disconnected.
DisturbanceKinds ==
  { "crash", "provider", "transport", "cursor", "token", "workflow", "webhook", "redelivery",
    "repeat", "renewal", "disable", "disconnect" }

ASSUME MailInboxAssumption ==
  /\ Subscriptions # { }
  /\ Mailbox \notin Subscriptions
  /\ Providers \subseteq {"gmail", "outlook"}
  /\ PageSize \in Nat \ {0}
  /\ MaxRetries \in Nat
  /\ MaxMessages \in Nat
  /\ MaxDisturbances \in Nat
  /\ Disturbances \subseteq DisturbanceKinds

Messages == 1 .. MaxMessages
Notification == Messages \X (Subscriptions \cup {Mailbox})
Event == Subscriptions \X Messages
SubscriptionStatus ==
  { "none", "provisioning", "active", "cursor_expired", "renewal_failed", "disabled" }
EventStatus == { "none", "pending", "processing", "processed", "failed" }

HandlerSession ==
  [ at : { "idle", "ingest" }, message : 0 .. MaxMessages, to : Subscriptions \cup {Mailbox},
    todo : SUBSET Subscriptions, created : SUBSET Subscriptions ]

\* The subscription's cursor it goes from, the mailbox's history id, the messages left, and
\* those whose run's id it has put on their rows; whether it holds the lock of the event's
\* row, and has found the row of the message it is at.
WorkerSession ==
  [ at : { "idle", "claim", "list", "look", "fetch", "start", "retry", "ack" },
    sub : Subscriptions, message : 0 .. MaxMessages, try : 0 .. MaxRetries,
    from : 0 .. MaxMessages, newest : 0 .. MaxMessages, todo : SUBSET Messages,
    locked : BOOLEAN, found : BOOLEAN, noted : SUBSET Messages ]

------------------------------------------------------------------------------
VARIABLES
  provider,      \* of the installation; fixed
  installation,  \* connector_installations.status
  mail,          \* how many messages are in the mailbox
  watched,       \* what the provider sends notifications for
  pushes,        \* notifications the provider has no 2xx answer to
  subscription,  \* trigger_subscriptions.status
  cursor,        \* and .external_cursor
  event,         \* external_events.status of each subscription's notification of a message
  child,         \* that of the message's own row: "processed" when it has its run's id
  queue,         \* the attempts of each event's task that are in the queue
  runs,          \* how many workflow runs each message has started
  handler,       \* the webhook requests
  worker,        \* the workers' sessions
  renewal,       \* what the renewal scan has got for each subscription
  disturbed,     \* how much of MaxDisturbances is used up
  skipped,       \* history: messages a subscription's cursor was moved over unread
  stranded       \* history: events that lost their task before they were processed

mailboxVars == << provider, installation, mail, watched, pushes >>
subscriptionVars == << subscription, cursor, renewal, skipped >>
rowVars == << event, child, runs >>
vars == << mailboxVars, subscriptionVars, rowVars, queue, handler, worker, disturbed, stranded >>

NoRenewal == -1
FailedRenewal == -2

IdleHandler == [at |-> "idle", message |-> 0, to |-> Mailbox, todo |-> { }, created |-> { }]

\* A session that has, of what it works on, no more than its event and its attempt.
Session(at, s, n, try) ==
  [ at |-> at, sub |-> s, message |-> n, try |-> try, from |-> 0, newest |-> 0,
    todo |-> { }, locked |-> FALSE, found |-> FALSE, noted |-> { } ]

IdleWorker == Session("idle", CHOOSE s \in Subscriptions : TRUE, 0, 0)

Init ==
  /\ provider \in Providers
  /\ installation = "active"
  /\ mail = 0
  /\ watched = { }
  /\ pushes = { }
  /\ subscription = [s \in Subscriptions |-> "none"]
  /\ cursor = [s \in Subscriptions |-> 0]
  /\ event = [s \in Subscriptions |-> [n \in Messages |-> "none"]]
  /\ child = [n \in Messages |-> "none"]
  /\ queue = [s \in Subscriptions |-> [n \in Messages |-> { }]]
  /\ runs = [n \in Messages |-> 0]
  /\ handler = [h \in Handlers |-> IdleHandler]
  /\ worker = [k \in Workers |-> IdleWorker]
  /\ renewal = [s \in Subscriptions |-> NoRenewal]
  /\ disturbed = 0
  /\ skipped = [s \in Subscriptions |-> { }]
  /\ stranded = { }

Disturb(kind) ==
  /\ kind \in Disturbances
  /\ disturbed < MaxDisturbances
  /\ disturbed' = disturbed + 1

\* What the provider's notifications name: Gmail watches the mailbox, Graph has a
\* subscription for each of ours.
Target(s) == IF provider = "gmail" THEN Mailbox ELSE s

\* Messages with a number after m, up to n.
After(m, n) == { x \in Messages : m < x /\ x <= n }

------------------------------------------------------------------------------
\* The mailbox and its subscriptions.

Arrive ==
  /\ mail < MaxMessages
  /\ mail' = mail + 1
  /\ pushes' = pushes \cup ({mail + 1} \X watched)
  /\ UNCHANGED << provider, installation, watched, subscriptionVars, rowVars, queue, handler,
                  worker, disturbed, stranded >>

\* The request that publishes the workflow has registered at the provider; nobody else
\* sees the row before it commits.
Register(s) ==
  /\ subscription[s] = "none"
  /\ installation = "active"
  /\ subscription' = [subscription EXCEPT ![s] = "provisioning"]
  /\ cursor' = [cursor EXCEPT ![s] = mail]
  /\ skipped' = [skipped EXCEPT ![s] = After(0, mail)]
  /\ watched' = watched \cup {Target(s)}
  /\ UNCHANGED << provider, installation, mail, pushes, renewal, rowVars, queue, handler,
                  worker, disturbed, stranded >>

Publish(s) ==
  /\ subscription[s] = "provisioning"
  /\ subscription' = [subscription EXCEPT ![s] = "active"]
  /\ UNCHANGED << mailboxVars, cursor, renewal, skipped, rowVars, queue, handler, worker,
                  disturbed, stranded >>

Active(s) == subscription[s] = "active"

\* The watch ends with the last subscription; without an installation it cannot, and the
\* request is undone.
Disable(s) ==
  /\ Disturb("disable")
  /\ subscription[s] \notin {"none", "provisioning", "disabled"}
  /\ installation = "active" \/ \E t \in Subscriptions \ {s} : Active(t)
  /\ subscription' = [subscription EXCEPT ![s] = "disabled"]
  /\ watched' = IF \E t \in Subscriptions \ {s} : Active(t)
                THEN watched
                ELSE watched \ {Target(s)}
  /\ UNCHANGED << provider, installation, mail, pushes, cursor, renewal, skipped, rowVars,
                  queue, handler, worker, stranded >>

Disconnect ==
  /\ Disturb("disconnect")
  /\ installation = "active"
  /\ installation' = "revoked"
  /\ subscription' = [s \in Subscriptions |->
                        IF subscription[s] \in {"none", "provisioning"}
                        THEN subscription[s] ELSE "disabled"]
  /\ watched' = { t \in watched : t \in Subscriptions /\ subscription[t] = "provisioning" }
  /\ UNCHANGED << provider, mail, pushes, cursor, renewal, skipped, rowVars, queue, handler,
                  worker, stranded >>

\* The scan takes the active subscriptions that end soon, asks the provider for each, and
\* commits once.
RenewAsk(s) ==
  /\ Disturb("renewal")
  /\ Active(s)
  /\ renewal[s] = NoRenewal
  /\ \/ /\ installation = "active"
        /\ renewal' = [renewal EXCEPT ![s] = IF cursor[s] = mail THEN NoRenewal ELSE mail]
        /\ watched' = watched \cup {Target(s)}
     \/ /\ renewal' = [renewal EXCEPT ![s] = FailedRenewal]
        /\ UNCHANGED watched
  /\ UNCHANGED << provider, installation, mail, pushes, subscription, cursor, skipped,
                  rowVars, queue, handler, worker, stranded >>

\* A Gmail watch answers with the mailbox's history id, and that is the new cursor.  What the
\* session finds unchanged, the status or the cursor, is not written.
RenewCommit ==
  LET asked == { s \in Subscriptions : renewal[s] # NoRenewal }
      failed == { s \in asked : renewal[s] = FailedRenewal }
      moved == IF provider = "gmail" THEN asked \ failed ELSE { }
  IN /\ asked # { }
     /\ subscription' = [s \in Subscriptions |->
                           IF s \in failed THEN "renewal_failed" ELSE subscription[s]]
     /\ cursor' = [s \in Subscriptions |-> IF s \in moved THEN renewal[s] ELSE cursor[s]]
     /\ skipped' = [s \in Subscriptions |->
                      IF s \in moved THEN skipped[s] \cup After(cursor[s], renewal[s])
                      ELSE skipped[s]]
     /\ renewal' = [s \in Subscriptions |-> NoRenewal]
     /\ UNCHANGED << mailboxVars, rowVars, queue, handler, worker, disturbed, stranded >>

------------------------------------------------------------------------------
\* The webhook.

\* The subscriptions are read once; without one the request is refused.
Deliver(h, n, t) ==
  LET matches == { s \in Subscriptions : Active(s) /\ Target(s) = t }
  IN /\ handler[h].at = "idle"
     /\ << n, t >> \in pushes
     /\ installation = "active"
     /\ matches # { }
     /\ handler' = [handler EXCEPT ![h] = [ at |-> "ingest", message |-> n, to |-> t,
                                            todo |-> matches, created |-> { } ]]
     /\ UNCHANGED << mailboxVars, subscriptionVars, rowVars, queue, worker, disturbed, stranded >>

\* The query has no order.
Ingest(h, s) ==
  LET n == handler[h].message
  IN /\ handler[h].at = "ingest"
     /\ s \in handler[h].todo
     /\ event[s][n] = "none"
     /\ event' = [event EXCEPT ![s][n] = "pending"]
     /\ handler' = [handler EXCEPT ![h].todo = @ \ {s}, ![h].created = @ \cup {s}]
     /\ UNCHANGED << mailboxVars, subscriptionVars, child, runs, queue, worker, disturbed,
                     stranded >>

\* The rollback after a duplicate key expires all that the request has loaded: it ends in an
\* error when it reads the next subscription, or the id of an event it has created before;
\* these get no task.
IngestDuplicate(h, s) ==
  LET n == handler[h].message
      alone == handler[h].todo = {s} /\ handler[h].created = { }
  IN /\ handler[h].at = "ingest"
     /\ s \in handler[h].todo
     /\ event[s][n] # "none"
     /\ IF alone
        THEN /\ handler' = [handler EXCEPT ![h].todo = { }]
             /\ UNCHANGED stranded
        ELSE /\ handler' = [handler EXCEPT ![h] = IdleHandler]
             /\ stranded' = stranded \cup (handler[h].created \X {n})
     /\ UNCHANGED << mailboxVars, subscriptionVars, rowVars, queue, worker, disturbed >>

Submitted(h, subs) ==
  [s \in Subscriptions |-> [n \in Messages |->
     IF s \in subs /\ n = handler[h].message THEN queue[s][n] \cup {0} ELSE queue[s][n]]]

Accept(h) ==
  /\ handler[h].at = "ingest"
  /\ handler[h].todo = { }
  /\ queue' = Submitted(h, handler[h].created)
  /\ pushes' = pushes \ {<< handler[h].message, handler[h].to >>}
  /\ handler' = [handler EXCEPT ![h] = IdleHandler]
  /\ UNCHANGED << provider, installation, mail, watched, subscriptionVars, rowVars, worker,
                  disturbed, stranded >>

\* The request is lost, or the broker fails after some submissions.
RequestFails(h) ==
  /\ Disturb("webhook")
  /\ handler[h].at = "ingest"
  /\ \E sent \in SUBSET handler[h].created :
       /\ sent = { } \/ handler[h].todo = { }
       /\ queue' = Submitted(h, sent)
       /\ stranded' = stranded \cup ((handler[h].created \ sent) \X {handler[h].message})
  /\ handler' = [handler EXCEPT ![h] = IdleHandler]
  /\ UNCHANGED << mailboxVars, subscriptionVars, rowVars, worker >>

\* Delivery is at least once.
PushAgain(s, n) ==
  /\ Disturb("repeat")
  /\ event[s][n] # "none"
  /\ pushes' = pushes \cup {<< n, Target(s) >>}
  /\ UNCHANGED << provider, installation, mail, watched, subscriptionVars, rowVars, queue,
                  handler, worker, stranded >>

------------------------------------------------------------------------------
\* The workers.

InHand(k) == << worker[k].sub, worker[k].message >>
Status(k) == event[worker[k].sub][worker[k].message]
Holds(k, s, n) == worker[k].at # "idle" /\ worker[k].sub = s /\ worker[k].message = n

\* The message of the queue stays there until it is acknowledged.
Take(k, s, n, try) ==
  /\ worker[k].at = "idle"
  /\ try \in queue[s][n]
  /\ IF \E j \in Workers : Holds(j, s, n) /\ worker[j].try = try
     THEN Disturb("redelivery")
     ELSE UNCHANGED disturbed
  /\ worker' = [worker EXCEPT ![k] = Session("claim", s, n, try)]
  /\ UNCHANGED << mailboxVars, subscriptionVars, rowVars, queue, handler, stranded >>

\* The row is locked from its claim to the session's next commit.
Unlocked(s, n) == \A j \in Workers : ~(Holds(j, s, n) /\ worker[j].locked)

\* Mutant: only a processed event is declined.
MayClaimStarted(status) == status # "processed"

MayClaim(status) == status \in {"pending", "failed"}

Gone(k) == [worker EXCEPT ![k] = IdleWorker]
Acknowledged(k) == [queue EXCEPT ![worker[k].sub][worker[k].message] = @ \ {worker[k].try}]

\* The claim is flushed, and the subscription loaded.
Claim(k) ==
  /\ worker[k].at = "claim"
  /\ Unlocked(worker[k].sub, worker[k].message)
  /\ MayClaim(Status(k))
  /\ worker' = [worker EXCEPT ![k].at = "list", ![k].locked = TRUE,
                              ![k].from = cursor[worker[k].sub]]
  /\ UNCHANGED << mailboxVars, subscriptionVars, rowVars, queue, handler, disturbed, stranded >>

Decline(k) ==
  /\ worker[k].at = "claim"
  /\ Unlocked(worker[k].sub, worker[k].message)
  /\ ~MayClaim(Status(k))
  /\ queue' = Acknowledged(k)
  /\ worker' = Gone(k)
  /\ UNCHANGED << mailboxVars, subscriptionVars, rowVars, handler, disturbed, stranded >>

Page(k) ==
  IF provider = "gmail"
  THEN { n \in After(worker[k].from, mail) : n <= worker[k].from + PageSize }
  ELSE {worker[k].message}

\* What the first page shows, and the history id that comes with it.
List(k) ==
  /\ worker[k].at = "list"
  /\ installation = "active"
  /\ worker' = [worker EXCEPT ![k].at = "look", ![k].newest = mail, ![k].todo = Page(k)]
  /\ UNCHANGED << mailboxVars, subscriptionVars, rowVars, queue, handler, disturbed, stranded >>

\* Messages are taken in their order.
Current(k, n) == n \in worker[k].todo /\ \A x \in worker[k].todo : n <= x

\* Mutant: a row without its run is taken for a record.
RecordedAnyhow(row) == row # "none"

\* A message on record is passed over.
Recorded(row) == row = "processed"

Look(k, n) ==
  /\ worker[k].at = "look"
  /\ Current(k, n)
  /\ worker' = IF Recorded(child[n])
               THEN [worker EXCEPT ![k].todo = @ \ {n}]
               ELSE [worker EXCEPT ![k].at = "fetch", ![k].found = (child[n] # "none")]
  /\ UNCHANGED << mailboxVars, subscriptionVars, rowVars, queue, handler, disturbed, stranded >>

\* Another session has inserted the message's row and not committed it.
Inserting(n) ==
  \E j \in Workers : worker[j].at = "start" /\ ~worker[j].found /\ Current(j, n)

\* Mutant: there is no unique key.
MayInsertTwice(n) == TRUE

\* The unique key admits one insertion.
MayInsert(n) == child[n] = "none" /\ ~Inserting(n)

\* The message is fetched, and its row inserted when there was none.
Fetch(k, n) ==
  /\ worker[k].at = "fetch"
  /\ Current(k, n)
  /\ worker[k].found \/ MayInsert(n)
  /\ worker' = [worker EXCEPT ![k].at = "start"]
  /\ UNCHANGED << mailboxVars, subscriptionVars, rowVars, queue, handler, disturbed, stranded >>

\* The row is there by now: the error leaves the session unusable, so that the handler of
\* the error fails too, and nothing of the transaction is kept.
FetchConflict(k, n) ==
  /\ worker[k].at = "fetch"
  /\ Current(k, n)
  /\ ~worker[k].found
  /\ child[n] # "none"
  /\ worker' = Gone(k)
  /\ queue' = Acknowledged(k)
  /\ stranded' = stranded \cup {InHand(k)}
  /\ UNCHANGED << mailboxVars, subscriptionVars, rowVars, handler, disturbed >>

\* A session after its last commit.
Over(k, next) ==
  [worker EXCEPT ![k] = Session(next, worker[k].sub, worker[k].message, worker[k].try)]

\* The rows of messages that a commit of the session writes.
Committed(k, inserted) ==
  [n \in Messages |-> IF n \in worker[k].noted THEN "processed"
                      ELSE IF n \in inserted THEN "processing" ELSE child[n]]

\* start_run commits; the run's id is put on the message's row after that.
Start(k, n) ==
  /\ worker[k].at = "start"
  /\ Current(k, n)
  /\ runs' = [runs EXCEPT ![n] = @ + 1]
  /\ child' = Committed(k, IF worker[k].found THEN { } ELSE {n})
  /\ event' = [event EXCEPT ![worker[k].sub][worker[k].message] = "processing"]
  /\ worker' = [worker EXCEPT ![k].at = "look", ![k].todo = @ \ {n}, ![k].locked = FALSE,
                              ![k].found = FALSE, ![k].noted = {n}]
  /\ UNCHANGED << mailboxVars, subscriptionVars, queue, handler, disturbed, stranded >>

\* Mutant: the cursor is read when the work is done.
FinishAtMail(k) ==
  LET w == worker[k]
  IN /\ w.at = "look"
     /\ w.todo = { }
     /\ child' = Committed(k, { })
     /\ event' = [event EXCEPT ![w.sub][w.message] = "processed"]
     /\ IF provider = "gmail"
        THEN /\ cursor' = [cursor EXCEPT ![w.sub] = mail]
             /\ skipped' = [skipped EXCEPT ![w.sub] = @ \cup After(w.from + PageSize, w.newest)]
        ELSE UNCHANGED << cursor, skipped >>
     /\ worker' = Over(k, "ack")
     /\ UNCHANGED << mailboxVars, subscription, renewal, runs, queue, handler, disturbed,
                     stranded >>

\* A cursor that is what the session has loaded is not written.
Finish(k) ==
  LET w == worker[k]
  IN /\ w.at = "look"
     /\ w.todo = { }
     /\ child' = Committed(k, { })
     /\ event' = [event EXCEPT ![w.sub][w.message] = "processed"]
     /\ IF provider = "gmail"
        THEN /\ cursor' = IF w.newest = w.from THEN cursor
                          ELSE [cursor EXCEPT ![w.sub] = w.newest]
             /\ skipped' = [skipped EXCEPT ![w.sub] = @ \cup After(w.from + PageSize, w.newest)]
        ELSE UNCHANGED << cursor, skipped >>
     /\ worker' = Over(k, "ack")
     /\ UNCHANGED << mailboxVars, subscription, renewal, runs, queue, handler, disturbed,
                     stranded >>

\* The except clause: what the session holds is committed with the failure.
Failed(k, inserted, next) ==
  /\ event' = [event EXCEPT ![worker[k].sub][worker[k].message] = "failed"]
  /\ child' = Committed(k, inserted)
  /\ worker' = Over(k, next)

\* The errors the clients make of an answer, or of an installation that is not active, are
\* retried.  An answer of 401 has the installation authorized again, which makes a new one.
ProviderFails(k) ==
  /\ worker[k].at \in {"list", "fetch"}
  /\ \/ /\ worker[k].at = "list"
        /\ installation # "active"
        /\ UNCHANGED << installation, subscription, disturbed >>
     \/ /\ Disturb("provider")
        /\ UNCHANGED << installation, subscription >>
     \/ /\ Disturb("token")
        /\ installation' = IF installation = "active" THEN "reauthorization_required"
                                                      ELSE installation
        /\ UNCHANGED subscription
     \/ /\ Disturb("cursor")
        /\ provider = "gmail" /\ worker[k].at = "list"
        /\ subscription' = [subscription EXCEPT ![worker[k].sub] = "cursor_expired"]
        /\ UNCHANGED installation
  /\ Failed(k, { }, "retry")
  /\ UNCHANGED << provider, mail, watched, pushes, cursor, renewal, skipped, runs, queue,
                  handler, stranded >>

\* A call without an answer: the clients do not turn an error of the transport into one of
\* theirs, so the task ends with it, the failure committed.
TransportFails(k) ==
  /\ Disturb("transport")
  /\ worker[k].at \in {"list", "fetch"}
  /\ Failed(k, { }, "ack")
  /\ stranded' = stranded \cup {InHand(k)}
  /\ UNCHANGED << mailboxVars, subscriptionVars, runs, queue, handler >>

\* The workflow is gone or does not validate, which is not retried either.
StartRefused(k, n) ==
  /\ Disturb("workflow")
  /\ worker[k].at = "start"
  /\ Current(k, n)
  /\ Failed(k, IF worker[k].found THEN { } ELSE {n}, "ack")
  /\ stranded' = stranded \cup {InHand(k)}
  /\ UNCHANGED << mailboxVars, subscriptionVars, runs, queue, handler >>

\* Mutant: the retries have no limit.
RetryForEver(k) ==
  LET w == worker[k]
  IN /\ w.at = "retry"
     /\ queue' = [queue EXCEPT ![w.sub][w.message] = (@ \ {w.try}) \cup {w.try + 1}]
     /\ worker' = Gone(k)
     /\ UNCHANGED << mailboxVars, subscriptionVars, rowVars, handler, disturbed, stranded >>

\* Mutant: the failed task is acknowledged and not retried.
RetryNever(k) ==
  /\ worker[k].at = "retry"
  /\ queue' = Acknowledged(k)
  /\ worker' = Gone(k)
  /\ UNCHANGED << mailboxVars, subscriptionVars, rowVars, handler, disturbed, stranded >>

Retry(k) ==
  LET w == worker[k]
      again == IF w.try < MaxRetries THEN {w.try + 1} ELSE { }
  IN /\ w.at = "retry"
     /\ queue' = [queue EXCEPT ![w.sub][w.message] = (@ \ {w.try}) \cup again]
     /\ stranded' = IF again = { } THEN stranded \cup {InHand(k)} ELSE stranded
     /\ worker' = Gone(k)
     /\ UNCHANGED << mailboxVars, subscriptionVars, rowVars, handler, disturbed >>

Ack(k) ==
  /\ worker[k].at = "ack"
  /\ queue' = Acknowledged(k)
  /\ worker' = Gone(k)
  /\ UNCHANGED << mailboxVars, subscriptionVars, rowVars, handler, disturbed, stranded >>

AtWork(k) == worker[k].at \in { "list", "look", "fetch", "start" }

\* The queue delivers again, but to an event that is "processing" once a run was started;
\* and a second delivery may have been acknowledged before the retry is published.
LosesTask(k) ==
  \/ AtWork(k) /\ ~worker[k].locked
  \/ worker[k].at = "retry" /\ queue[worker[k].sub][worker[k].message] = { }

Crash(k) ==
  /\ Disturb("crash")
  /\ worker[k].at # "idle"
  /\ stranded' = IF LosesTask(k) THEN stranded \cup {InHand(k)} ELSE stranded
  /\ worker' = Gone(k)
  /\ UNCHANGED << mailboxVars, subscriptionVars, rowVars, queue, handler >>

------------------------------------------------------------------------------
WorkerStep(k) ==
  \/ Claim(k) \/ Decline(k) \/ List(k) \/ Finish(k) \/ ProviderFails(k) \/ Retry(k) \/ Ack(k)
  \/ \E n \in Messages : Look(k, n) \/ Fetch(k, n) \/ FetchConflict(k, n) \/ Start(k, n)

HandlerStep(h) ==
  \/ Accept(h)
  \/ \E s \in Subscriptions : Ingest(h, s) \/ IngestDuplicate(h, s)

Next ==
  \/ Arrive
  \/ Disconnect
  \/ RenewCommit
  \/ \E s \in Subscriptions :
       Register(s) \/ Publish(s) \/ Disable(s) \/ RenewAsk(s)
  \/ \E h \in Handlers : HandlerStep(h) \/ RequestFails(h)
  \/ \E h \in Handlers, p \in pushes : Deliver(h, p[1], p[2])
  \/ \E s \in Subscriptions, n \in Messages : PushAgain(s, n)
  \/ \E k \in Workers : WorkerStep(k) \/ TransportFails(k) \/ Crash(k)
  \/ \E k \in Workers, n \in Messages : StartRefused(k, n)
  \/ \E k \in Workers, s \in Subscriptions, n \in Messages, try \in 0 .. MaxRetries :
       Take(k, s, n, try)

Spec == Init /\ [][Next]_vars

------------------------------------------------------------------------------
\* What the inbox guarantees.

\* Every variable has its type.
TypeOK ==
  /\ provider \in Providers
  /\ installation \in { "active", "reauthorization_required", "revoked" }
  /\ mail \in 0 .. MaxMessages
  /\ watched \subseteq Subscriptions \cup {Mailbox}
  /\ pushes \subseteq Notification
  /\ subscription \in [Subscriptions -> SubscriptionStatus]
  /\ cursor \in [Subscriptions -> 0 .. MaxMessages]
  /\ event \in [Subscriptions -> [Messages -> EventStatus]]
  /\ child \in [Messages -> { "none", "processing", "processed" }]
  /\ queue \in [Subscriptions -> [Messages -> SUBSET (0 .. MaxRetries)]]
  /\ runs \in [Messages -> Nat]
  /\ handler \in [Handlers -> HandlerSession]
  /\ worker \in [Workers -> WorkerSession]
  /\ renewal \in [Subscriptions -> {NoRenewal, FailedRenewal} \cup 0 .. MaxMessages]
  /\ disturbed \in 0 .. MaxDisturbances
  /\ skipped \in [Subscriptions -> SUBSET Messages]
  /\ stranded \subseteq Event

\* A subscription's cursor never passes a message no workflow was started for, other than
\* those that a renewed watch or a page that was too short moved it over, and those older
\* than the subscription: two workers that list the same mailbox at different moments, and
\* finish in either order, lose none.  (_process_gmail, register_watch)
CursorBehindRuns ==
  \A s \in Subscriptions : \A n \in After(0, cursor[s]) : runs[n] > 0 \/ n \in skipped[s]

\* An event is processed only when the message it is for has started a run, or its
\* subscription's cursor was moved over it: no failure between the messages of one
\* listing, nor a row that an earlier failure left without a run, is taken for success.
\* (process, _process_gmail, _process_outlook)
ProcessedIsHandled ==
  \A s \in Subscriptions, n \in Messages :
    event[s][n] = "processed" =>
      runs[n] > 0 \/ (provider = "gmail" /\ n \in skipped[s])

\* One event is worked on by one worker, however often its task is delivered and
\* whatever becomes of the worker.  (process: "Another worker holds the claim (or crashed
\* mid-flight). Do not double-process.")
OneWorkerPerEvent ==
  \A j, k \in Workers :
    /\ AtWork(j) /\ AtWork(k)
    /\ worker[j].sub = worker[k].sub /\ worker[j].message = worker[k].message
    => j = k

\* A worker that has put the message's row into the inbox starts the message's first run,
\* and no other is about to: only one that found the row without a run repeats it.
\* (_process_gmail, _process_outlook: the unique key of external_events)
InsertedStartsFirst ==
  \A k \in Workers, n \in Messages :
    worker[k].at = "start" /\ ~worker[k].found /\ Current(k, n)
      => /\ runs[n] = 0
         /\ \A j \in Workers \ {k} :
              ~(worker[j].at = "start" /\ ~worker[j].found /\ Current(j, n))

\* The ways in which an event loses its task are the known ones: one that is not processed
\* has a message in the queue, a request that will submit it or a worker that will retry it,
\* and one that is being processed has a worker, unless a request ended before it had
\* submitted the task, a worker was lost after its first commit or before its retry, or the
\* task ended in an error that is not retried: a call without an answer, a workflow that
\* cannot be started, a row inserted meanwhile, or one that has used up its retries.  Calls
\* answered with an error, workers lost earlier, repeated notifications and second deliveries
\* lose none.
\* (the webhooks, process, process_external_event)
WillSubmit(s, n) ==
  \E h \in Handlers : handler[h].message = n /\ s \in handler[h].created
WillRetry(s, n) == \E k \in Workers : worker[k].at = "retry" /\ Holds(k, s, n)
NoEventForgotten ==
  \A s \in Subscriptions, n \in Messages :
    << s, n >> \notin stranded =>
      /\ event[s][n] \in {"pending", "failed"} =>
           queue[s][n] # { } \/ WillSubmit(s, n) \/ WillRetry(s, n)
      /\ event[s][n] = "processing" => \E k \in Workers : AtWork(k) /\ Holds(k, s, n)

==============================================================================
