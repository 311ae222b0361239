---------------------------- MODULE MailInboxProofs ----------------------------
(***************************************************************************)
(* Proofs about MailInbox, for any subscriptions, handlers, workers, page  *)
(* size, retries and numbers of messages and disturbances.                 *)
(***************************************************************************)
EXTENDS MailInbox, TLAPS

------------------------------------------------------------------------------
\* Types.

\* What is idle is a session, and holds nothing.
LEMMA IdleTypes ==
  /\ IdleHandler \in HandlerSession
  /\ IdleWorker \in WorkerSession
  /\ IdleWorker.at = "idle" /\ ~IdleWorker.locked /\ IdleWorker.noted = { }
  /\ IdleWorker.newest = 0
<1>1. (CHOOSE s \in Subscriptions : TRUE) \in Subscriptions
  BY MailInboxAssumption, Zenon
<1>2. 0 \in 0 .. MaxMessages /\ 0 \in 0 .. MaxRetries
  BY MailInboxAssumption
<1> QED
  BY <1>1, <1>2 DEF IdleHandler, HandlerSession, IdleWorker, Session, WorkerSession

\* A session with nothing in hand but its event and attempt is a session.
LEMMA SessionType ==
  ASSUME NEW at \in { "idle", "claim", "list", "look", "fetch", "start", "retry", "ack" },
         NEW s \in Subscriptions, NEW n \in 0 .. MaxMessages, NEW try \in 0 .. MaxRetries
  PROVE  Session(at, s, n, try) \in WorkerSession
<1>1. 0 \in 0 .. MaxMessages
  BY MailInboxAssumption
<1> QED
  BY <1>1 DEF Session, WorkerSession

\* The initial state has its types.
LEMMA InitTyped == Init => TypeOK
<1> SUFFICES ASSUME Init PROVE TypeOK
  OBVIOUS
<1> QED
  BY IdleTypes, MailInboxAssumption DEF Init, TypeOK, SubscriptionStatus, EventStatus

\* The subscriptions.
LEMMA SubscriptionTyped ==
  ASSUME TypeOK,
         \/ Arrive \/ Disconnect \/ RenewCommit
         \/ \E s \in Subscriptions : Register(s) \/ Publish(s) \/ Disable(s) \/ RenewAsk(s)
  PROVE  TypeOK'
<1> USE MailInboxAssumption
<1>1. CASE Arrive
  BY <1>1 DEF TypeOK, Arrive, subscriptionVars, rowVars, Notification, Messages
<1>2. CASE Disconnect
  BY <1>2 DEF TypeOK, Disconnect, Disturb, rowVars, SubscriptionStatus
<1>3. CASE RenewCommit
  <2>1. subscription' \in [Subscriptions -> SubscriptionStatus]
    BY <1>3 DEF TypeOK, RenewCommit, SubscriptionStatus
  <2>2. cursor' \in [Subscriptions -> 0 .. MaxMessages]
    BY <1>3 DEF TypeOK, RenewCommit, NoRenewal, FailedRenewal
  <2>3. skipped' \in [Subscriptions -> SUBSET Messages]
    BY <1>3 DEF TypeOK, RenewCommit, After
  <2>4. renewal' \in [Subscriptions -> {NoRenewal, FailedRenewal} \cup 0 .. MaxMessages]
    BY <1>3 DEF RenewCommit
  <2> QED
    BY <1>3, <2>1, <2>2, <2>3, <2>4 DEF TypeOK, RenewCommit, mailboxVars, rowVars
<1>4. ASSUME NEW s \in Subscriptions, Register(s) PROVE TypeOK'
  <2>1. Target(s) \in Subscriptions \cup {Mailbox} /\ After(0, mail) \subseteq Messages
    BY DEF Target, After
  <2> QED
    BY <1>4, <2>1 DEF TypeOK, Register, rowVars, SubscriptionStatus
<1>5. ASSUME NEW s \in Subscriptions, Publish(s) PROVE TypeOK'
  BY <1>5 DEF TypeOK, Publish, mailboxVars, rowVars, SubscriptionStatus
<1>6. ASSUME NEW s \in Subscriptions, Disable(s) PROVE TypeOK'
  BY <1>6 DEF TypeOK, Disable, Disturb, rowVars, SubscriptionStatus
<1>7. ASSUME NEW s \in Subscriptions, RenewAsk(s) PROVE TypeOK'
  <2>1. Target(s) \in Subscriptions \cup {Mailbox}
    BY DEF Target
  <2>2. watched' \subseteq Subscriptions \cup {Mailbox}
    BY <1>7, <2>1 DEF TypeOK, RenewAsk
  <2>4. renewal' \in [Subscriptions -> {NoRenewal, FailedRenewal} \cup 0 .. MaxMessages]
    <3>1. PICK got \in {NoRenewal, FailedRenewal} \cup 0 .. MaxMessages :
            renewal' = [renewal EXCEPT ![s] = got]
      BY <1>7 DEF TypeOK, RenewAsk
    <3> QED
      BY <3>1 DEF TypeOK
  <2>3. disturbed' \in 0 .. MaxDisturbances
    BY <1>7 DEF TypeOK, RenewAsk, Disturb
  <2> QED
    BY <1>7, <2>2, <2>3, <2>4 DEF TypeOK, RenewAsk, rowVars
<1> QED
  BY <1>1, <1>2, <1>3, <1>4, <1>5, <1>6, <1>7

\* What a request submits.
LEMMA SubmittedType ==
  ASSUME TypeOK, NEW h \in Handlers, NEW subs \in SUBSET Subscriptions
  PROVE  Submitted(h, subs) \in [Subscriptions -> [Messages -> SUBSET (0 .. MaxRetries)]]
  BY MailInboxAssumption DEF TypeOK, Submitted

\* A request is for a message that has arrived, as long as it lasts.
RequestInv ==
  \A h \in Handlers :
    IF handler[h].at = "ingest"
    THEN handler[h].message \in After(0, mail)
    ELSE handler[h].created = { }

\* What a request strands are events.
LEMMA StrandedType ==
  ASSUME TypeOK, RequestInv, NEW h \in Handlers, handler[h].at = "ingest",
         NEW subs \in SUBSET Subscriptions
  PROVE  subs \X {handler[h].message} \subseteq Event
  BY DEF RequestInv, Event, After

HandlerAction ==
  \/ \E h \in Handlers : HandlerStep(h) \/ RequestFails(h)
  \/ \E h \in Handlers, p \in pushes : Deliver(h, p[1], p[2])
  \/ \E s \in Subscriptions, n \in Messages : PushAgain(s, n)

\* The webhook keeps the types.
LEMMA HandlerTyped ==
  ASSUME TypeOK, RequestInv, HandlerAction
  PROVE  TypeOK'
<1> USE MailInboxAssumption
<1>1. ASSUME NEW h \in Handlers, NEW s \in Subscriptions, Ingest(h, s) PROVE TypeOK'
  <2>1. handler' \in [Handlers -> HandlerSession]
    <3> DEFINE w == handler[h]
               new == [w EXCEPT !.todo = w.todo \ {s}, !.created = w.created \cup {s}]
    <3>1. w \in HandlerSession
      BY DEF TypeOK
    <3>2. new \in HandlerSession
      BY <3>1 DEF HandlerSession
    <3>3. handler' = [handler EXCEPT ![h] = new]
      BY <1>1 DEF Ingest
    <3> HIDE DEF new
    <3> QED
      BY <3>2, <3>3 DEF TypeOK
  <2>2. event' \in [Subscriptions -> [Messages -> EventStatus]]
    BY <1>1 DEF TypeOK, Ingest, EventStatus
  <2> QED
    BY <1>1, <2>1, <2>2 DEF TypeOK, Ingest, mailboxVars, subscriptionVars
<1>2. ASSUME NEW h \in Handlers, NEW s \in Subscriptions, IngestDuplicate(h, s) PROVE TypeOK'
  <2>1. handler' \in [Handlers -> HandlerSession]
    <3> DEFINE new == [handler[h] EXCEPT !.todo = { }]
    <3>1. handler[h] \in HandlerSession
      BY DEF TypeOK
    <3>2. new \in HandlerSession
      BY <3>1 DEF HandlerSession
    <3>3. handler' = [handler EXCEPT ![h] = new] \/ handler' = [handler EXCEPT ![h] = IdleHandler]
      BY <1>2 DEF IngestDuplicate
    <3> HIDE DEF new
    <3> QED
      BY <3>2, <3>3, IdleTypes DEF TypeOK
  <2>2. stranded' \subseteq Event
    BY <1>2, StrandedType DEF TypeOK, IngestDuplicate, HandlerSession
  <2> QED
    BY <1>2, <2>1, <2>2 DEF TypeOK, IngestDuplicate, mailboxVars, subscriptionVars, rowVars
<1>3. ASSUME NEW h \in Handlers, Accept(h) PROVE TypeOK'
  <2>1. handler[h].created \in SUBSET Subscriptions
    BY DEF TypeOK, HandlerSession
  <2>2. handler' \in [Handlers -> HandlerSession]
    BY <1>3, IdleTypes DEF TypeOK, Accept
  <2> QED
    BY <1>3, <2>1, <2>2, SubmittedType DEF TypeOK, Accept, subscriptionVars, rowVars
<1>4. ASSUME NEW h \in Handlers, RequestFails(h) PROVE TypeOK'
  <2>1. handler' \in [Handlers -> HandlerSession]
    BY <1>4, IdleTypes DEF TypeOK, RequestFails
  <2>2. queue' \in [Subscriptions -> [Messages -> SUBSET (0 .. MaxRetries)]]
    BY <1>4, SubmittedType DEF TypeOK, RequestFails, HandlerSession
  <2>3. stranded' \subseteq Event
    BY <1>4, StrandedType DEF TypeOK, RequestFails, HandlerSession
  <2> QED
    BY <1>4, <2>1, <2>2, <2>3
       DEF TypeOK, RequestFails, Disturb, mailboxVars, subscriptionVars, rowVars
<1>5. ASSUME NEW h \in Handlers, NEW p \in pushes, Deliver(h, p[1], p[2]) PROVE TypeOK'
  <2>1. p[1] \in 0 .. MaxMessages /\ p[2] \in Subscriptions \cup {Mailbox}
    BY DEF TypeOK, Notification, Messages
  <2>2. handler' \in [Handlers -> HandlerSession]
    BY <1>5, <2>1 DEF TypeOK, Deliver, HandlerSession
  <2> QED
    BY <1>5, <2>2 DEF TypeOK, Deliver, mailboxVars, subscriptionVars, rowVars
<1>6. ASSUME NEW s \in Subscriptions, NEW n \in Messages, PushAgain(s, n) PROVE TypeOK'
  <2>1. << n, Target(s) >> \in Notification
    BY DEF Target, Notification
  <2>2. pushes' \subseteq Notification
    BY <1>6, <2>1 DEF TypeOK, PushAgain
  <2>3. disturbed' \in 0 .. MaxDisturbances
    BY <1>6 DEF TypeOK, PushAgain, Disturb
  <2> QED
    BY <1>6, <2>2, <2>3 DEF TypeOK, PushAgain, subscriptionVars, rowVars
<1> QED
  BY <1>1, <1>2, <1>3, <1>4, <1>5, <1>6 DEF HandlerAction, HandlerStep

------------------------------------------------------------------------------
\* The steps of the workers' sessions.

\* Only one session is changed by a step of it.
Alone(k) ==
  /\ worker' \in [Workers -> WorkerSession]
  /\ \A j \in Workers \ {k} : worker'[j] = worker[j]

SameEvent(k) ==
  /\ worker'[k].sub = worker[k].sub
  /\ worker'[k].message = worker[k].message
  /\ worker'[k].try = worker[k].try

SameReading(k) == worker'[k].from = worker[k].from /\ worker'[k].newest = worker[k].newest

\* A step that replaces one session by another keeps the others.
LEMMA OneSession ==
  ASSUME worker \in [Workers -> WorkerSession], NEW k \in Workers, NEW new \in WorkerSession,
         worker' = [worker EXCEPT ![k] = new]
  PROVE  Alone(k) /\ worker'[k] = new
  BY DEF Alone

\* A worker that is done is idle.
LEMMA GoneSession ==
  ASSUME TypeOK, NEW k \in Workers, worker' = Gone(k)
  PROVE  Alone(k) /\ worker'[k] = IdleWorker
  BY IdleTypes DEF TypeOK, Gone, Alone

\* What the last commit of a session leaves of it.
LEMMA OverSession ==
  ASSUME TypeOK, NEW k \in Workers, NEW next \in { "retry", "ack" }, worker' = Over(k, next)
  PROVE  /\ Alone(k) /\ SameEvent(k)
         /\ worker'[k].at = next /\ ~worker'[k].locked /\ worker'[k].noted = { }
         /\ worker'[k].newest = 0
<1> DEFINE new == Session(next, worker[k].sub, worker[k].message, worker[k].try)
<1>1. new \in WorkerSession
  <2>1. worker[k] \in WorkerSession
    BY DEF TypeOK
  <2>2. /\ worker[k].sub \in Subscriptions /\ worker[k].message \in 0 .. MaxMessages
        /\ worker[k].try \in 0 .. MaxRetries
    BY ONLY <2>1 DEF WorkerSession
  <2> QED
    BY <2>2, SessionType
<1>2. worker' = [worker EXCEPT ![k] = new]
  BY DEF Over
<1>3. /\ new.at = next /\ new.sub = worker[k].sub /\ new.message = worker[k].message
      /\ new.try = worker[k].try /\ ~new.locked /\ new.noted = { } /\ new.newest = 0
  BY DEF Session
<1> HIDE DEF new
<1> QED
  BY <1>1, <1>2, <1>3, OneSession DEF TypeOK, SameEvent

\* The session that starts with a message of the queue.
LEMMA TakeSession ==
  ASSUME TypeOK, NEW k \in Workers, NEW s \in Subscriptions, NEW n \in Messages,
         NEW try \in 0 .. MaxRetries, Take(k, s, n, try)
  PROVE  /\ Alone(k)
         /\ worker'[k].at = "claim" /\ worker'[k].sub = s /\ worker'[k].message = n
         /\ ~worker'[k].locked /\ worker'[k].noted = { } /\ worker'[k].newest = 0
<1> DEFINE new == Session("claim", s, n, try)
<1>1. n \in 0 .. MaxMessages
  BY MailInboxAssumption DEF Messages
<1>2. new \in WorkerSession
  BY <1>1, SessionType
<1>3. worker' = [worker EXCEPT ![k] = new]
  BY DEF Take
<1>4. /\ new.at = "claim" /\ new.sub = s /\ new.message = n /\ ~new.locked
      /\ new.noted = { } /\ new.newest = 0
  BY DEF Session
<1> HIDE DEF new
<1> QED
  BY <1>2, <1>3, <1>4, OneSession DEF TypeOK

\* The session after its claim.
LEMMA ClaimSession ==
  ASSUME TypeOK, NEW k \in Workers, Claim(k)
  PROVE  /\ Alone(k) /\ SameEvent(k)
         /\ worker'[k].at = "list" /\ worker'[k].locked
         /\ worker'[k].from = cursor[worker[k].sub] /\ worker'[k].noted = worker[k].noted
         /\ worker'[k].newest = worker[k].newest
<1> DEFINE w == worker[k]
           new == [w EXCEPT !.at = "list", !.locked = TRUE, !.from = cursor[w.sub]]
<1>1. w \in WorkerSession
  BY DEF TypeOK
<1>2. cursor[w.sub] \in 0 .. MaxMessages
  BY <1>1 DEF TypeOK, WorkerSession
<1>3. new \in WorkerSession
  BY <1>1, <1>2 DEF WorkerSession
<1>4. worker' = [worker EXCEPT ![k] = new]
  BY DEF Claim
<1>5. /\ new.at = "list" /\ new.locked /\ new.from = cursor[w.sub] /\ new.noted = w.noted
      /\ new.newest = w.newest
      /\ new.sub = w.sub /\ new.message = w.message /\ new.try = w.try
  BY <1>1, <1>2 DEF WorkerSession
<1> HIDE DEF new
<1> QED
  BY <1>3, <1>4, <1>5, OneSession DEF TypeOK, SameEvent

\* The session after the provider's answer.
LEMMA ListSession ==
  ASSUME TypeOK, NEW k \in Workers, worker[k].message \in Messages, List(k)
  PROVE  /\ Alone(k) /\ SameEvent(k)
         /\ worker'[k].at = "look" /\ worker'[k].locked = worker[k].locked
         /\ worker'[k].from = worker[k].from /\ worker'[k].newest = mail
         /\ worker'[k].todo = Page(k) /\ worker'[k].noted = worker[k].noted
<1> DEFINE w == worker[k]
           new == [w EXCEPT !.at = "look", !.newest = mail, !.todo = Page(k)]
<1>1. w \in WorkerSession
  BY DEF TypeOK
<1>2. mail \in 0 .. MaxMessages /\ Page(k) \in SUBSET Messages
  <2>1. { n \in After(w.from, mail) : n <= w.from + PageSize } \in SUBSET Messages
    BY DEF After
  <2>2. Page(k) \in SUBSET Messages
    BY <2>1 DEF Page
  <2> QED
    BY <2>2 DEF TypeOK
<1>3. new \in WorkerSession
  BY <1>1, <1>2 DEF WorkerSession
<1>4. worker' = [worker EXCEPT ![k] = new]
  BY DEF List
<1>5. /\ new.at = "look" /\ new.locked = w.locked /\ new.from = w.from /\ new.newest = mail
      /\ new.todo = Page(k) /\ new.noted = w.noted
      /\ new.sub = w.sub /\ new.message = w.message /\ new.try = w.try
  BY <1>1, <1>2 DEF WorkerSession
<1> HIDE DEF new
<1> QED
  BY <1>3, <1>4, <1>5, OneSession DEF TypeOK, SameEvent

\* The session after a look at the message's row.
LEMMA LookSession ==
  ASSUME TypeOK, NEW k \in Workers, NEW n \in Messages, Look(k, n)
  PROVE  /\ Alone(k) /\ SameEvent(k) /\ SameReading(k)
         /\ worker'[k].locked = worker[k].locked /\ worker'[k].noted = worker[k].noted
         /\ \/ /\ child[n] = "processed"
               /\ worker'[k].at = "look" /\ worker'[k].todo = worker[k].todo \ {n}
            \/ /\ worker'[k].at = "fetch" /\ worker'[k].todo = worker[k].todo
               /\ worker'[k].found = (child[n] # "none")
<1> DEFINE w == worker[k]
           passed == [w EXCEPT !.todo = w.todo \ {n}]
           fetched == [w EXCEPT !.at = "fetch", !.found = (child[n] # "none")]
<1>1. w \in WorkerSession
  BY DEF TypeOK
<1>2. passed \in WorkerSession
  BY <1>1 DEF WorkerSession
<1>3. fetched \in WorkerSession
  BY <1>1 DEF WorkerSession
<1>4. /\ passed.at = w.at /\ passed.todo = w.todo \ {n} /\ passed.from = w.from
      /\ passed.newest = w.newest /\ passed.locked = w.locked /\ passed.noted = w.noted
      /\ passed.sub = w.sub /\ passed.message = w.message /\ passed.try = w.try
  BY <1>1 DEF WorkerSession
<1>5. /\ fetched.at = "fetch" /\ fetched.found = (child[n] # "none") /\ fetched.from = w.from
      /\ fetched.newest = w.newest /\ fetched.locked = w.locked /\ fetched.noted = w.noted
      /\ fetched.todo = w.todo
      /\ fetched.sub = w.sub /\ fetched.message = w.message /\ fetched.try = w.try
  BY <1>1 DEF WorkerSession
<1>6. IF child[n] = "processed" THEN worker' = [worker EXCEPT ![k] = passed]
                                ELSE worker' = [worker EXCEPT ![k] = fetched]
  BY DEF Look, Recorded
<1>7. w.at = "look"
  BY DEF Look
<1> HIDE DEF passed, fetched
<1>8. CASE child[n] = "processed"
  BY <1>2, <1>4, <1>6, <1>7, <1>8, OneSession DEF TypeOK, SameEvent, SameReading
<1>9. CASE child[n] # "processed"
  BY <1>3, <1>5, <1>6, <1>9, OneSession DEF TypeOK, SameEvent, SameReading
<1> QED
  BY <1>8, <1>9

\* The session with its message.
LEMMA FetchSession ==
  ASSUME TypeOK, NEW k \in Workers, NEW n \in Messages, Fetch(k, n)
  PROVE  /\ Alone(k) /\ SameEvent(k) /\ SameReading(k)
         /\ worker'[k].at = "start" /\ worker'[k].locked = worker[k].locked
         /\ worker'[k].found = worker[k].found /\ worker'[k].todo = worker[k].todo
         /\ worker'[k].noted = worker[k].noted
<1> DEFINE w == worker[k]
           new == [w EXCEPT !.at = "start"]
<1>1. w \in WorkerSession
  BY DEF TypeOK
<1>2. new \in WorkerSession
  BY <1>1 DEF WorkerSession
<1>3. worker' = [worker EXCEPT ![k] = new]
  BY DEF Fetch
<1>4. /\ new.at = "start" /\ new.locked = w.locked /\ new.found = w.found /\ new.todo = w.todo
      /\ new.noted = w.noted /\ new.from = w.from /\ new.newest = w.newest
      /\ new.sub = w.sub /\ new.message = w.message /\ new.try = w.try
  BY <1>1 DEF WorkerSession
<1> HIDE DEF new
<1> QED
  BY <1>2, <1>3, <1>4, OneSession DEF TypeOK, SameEvent, SameReading

\* The session after start_run.
LEMMA StartSession ==
  ASSUME TypeOK, NEW k \in Workers, NEW n \in Messages, Start(k, n)
  PROVE  /\ Alone(k) /\ SameEvent(k) /\ SameReading(k)
         /\ worker'[k].at = "look" /\ ~worker'[k].locked
         /\ worker'[k].todo = worker[k].todo \ {n} /\ worker'[k].noted = {n}
<1> DEFINE w == worker[k]
           new == [w EXCEPT !.at = "look", !.todo = w.todo \ {n}, !.locked = FALSE,
                            !.found = FALSE, !.noted = {n}]
<1>1. w \in WorkerSession
  BY DEF TypeOK
<1>2. new \in WorkerSession
  BY <1>1 DEF WorkerSession
<1>3. worker' = [worker EXCEPT ![k] = new]
  BY DEF Start
<1>4. /\ new.at = "look" /\ ~new.locked /\ new.todo = w.todo \ {n} /\ new.noted = {n}
      /\ new.from = w.from /\ new.newest = w.newest
      /\ new.sub = w.sub /\ new.message = w.message /\ new.try = w.try
  BY <1>1 DEF WorkerSession
<1> HIDE DEF new
<1> QED
  BY <1>2, <1>3, <1>4, OneSession DEF TypeOK, SameEvent, SameReading

\* A worker that has a task.
Engaged == \A k \in Workers : worker[k].at # "idle" => worker[k].message \in Messages

\* A commit leaves rows of their type.
LEMMA CommittedType ==
  ASSUME TypeOK, NEW k \in Workers, NEW inserted
  PROVE  Committed(k, inserted) \in [Messages -> { "none", "processing", "processed" }]
  BY DEF TypeOK, Committed

\* An acknowledgement leaves a queue.
LEMMA AcknowledgedType ==
  ASSUME TypeOK, NEW k \in Workers
  PROVE  Acknowledged(k) \in [Subscriptions -> [Messages -> SUBSET (0 .. MaxRetries)]]
<1> DEFINE w == worker[k]
           left == queue[w.sub][w.message] \ {w.try}
<1>1. CASE w.message \in Messages
  <2>1. w.sub \in Subscriptions /\ left \in SUBSET (0 .. MaxRetries)
    BY <1>1 DEF TypeOK, WorkerSession
  <2>2. Acknowledged(k) = [queue EXCEPT ![w.sub][w.message] = left]
    BY DEF Acknowledged
  <2> HIDE DEF left
  <2> QED
    BY <1>1, <2>1, <2>2 DEF TypeOK
<1>2. CASE w.message \notin Messages
  <2>1. w.sub \in Subscriptions
    BY DEF TypeOK, WorkerSession
  <2> QED
    BY <1>2, <2>1 DEF TypeOK, Acknowledged
<1> QED
  BY <1>1, <1>2

\* What a worker has in hand is an event.
LEMMA InHandType ==
  ASSUME TypeOK, Engaged, NEW k \in Workers, worker[k].at # "idle"
  PROVE  InHand(k) \in Event /\ worker[k].sub \in Subscriptions /\ worker[k].message \in Messages
  BY DEF TypeOK, Engaged, InHand, Event, WorkerSession

WorkerAction ==
  \/ \E k \in Workers : WorkerStep(k) \/ TransportFails(k) \/ Crash(k)
  \/ \E k \in Workers, n \in Messages : StartRefused(k, n)
  \/ \E k \in Workers, s \in Subscriptions, n \in Messages, try \in 0 .. MaxRetries :
       Take(k, s, n, try)

\* The workers keep the types.
LEMMA WorkerTyped ==
  ASSUME TypeOK, Engaged, WorkerAction
  PROVE  TypeOK'
<1> USE MailInboxAssumption
<1>1. ASSUME NEW k \in Workers, NEW s \in Subscriptions, NEW n \in Messages,
             NEW try \in 0 .. MaxRetries, Take(k, s, n, try)
      PROVE  TypeOK'
  <2>1. worker' \in [Workers -> WorkerSession]
    BY <1>1, TakeSession DEF Alone
  <2>2. disturbed' \in 0 .. MaxDisturbances
    BY <1>1 DEF TypeOK, Take, Disturb
  <2> QED
    BY <1>1, <2>1, <2>2 DEF TypeOK, Take, mailboxVars, subscriptionVars, rowVars
<1>2. ASSUME NEW k \in Workers, Claim(k) PROVE TypeOK'
  <2>1. worker' \in [Workers -> WorkerSession]
    BY <1>2, ClaimSession DEF Alone
  <2> QED
    BY <1>2, <2>1 DEF TypeOK, Claim, mailboxVars, subscriptionVars, rowVars
<1>3. ASSUME NEW k \in Workers, Decline(k) PROVE TypeOK'
  <2>1. worker' \in [Workers -> WorkerSession]
    BY <1>3, GoneSession DEF Alone, Decline
  <2> QED
    BY <1>3, <2>1, AcknowledgedType DEF TypeOK, Decline, mailboxVars, subscriptionVars, rowVars
<1>4. ASSUME NEW k \in Workers, List(k) PROVE TypeOK'
  <2>1. worker' \in [Workers -> WorkerSession]
    BY <1>4, ListSession DEF Alone, Engaged, List
  <2> QED
    BY <1>4, <2>1 DEF TypeOK, List, mailboxVars, subscriptionVars, rowVars
<1>5. ASSUME NEW k \in Workers, NEW n \in Messages, Look(k, n) PROVE TypeOK'
  <2>1. worker' \in [Workers -> WorkerSession]
    BY <1>5, LookSession DEF Alone
  <2> QED
    BY <1>5, <2>1 DEF TypeOK, Look, mailboxVars, subscriptionVars, rowVars
<1>6. ASSUME NEW k \in Workers, NEW n \in Messages, Fetch(k, n) PROVE TypeOK'
  <2>1. worker' \in [Workers -> WorkerSession]
    BY <1>6, FetchSession DEF Alone
  <2> QED
    BY <1>6, <2>1 DEF TypeOK, Fetch, mailboxVars, subscriptionVars, rowVars
<1>7. ASSUME NEW k \in Workers, NEW n \in Messages, FetchConflict(k, n) PROVE TypeOK'
  <2>1. worker' \in [Workers -> WorkerSession]
    BY <1>7, GoneSession DEF Alone, FetchConflict
  <2>2. stranded' \subseteq Event
    BY <1>7, InHandType DEF TypeOK, FetchConflict
  <2> QED
    BY <1>7, <2>1, <2>2, AcknowledgedType
       DEF TypeOK, FetchConflict, mailboxVars, subscriptionVars, rowVars
<1>8. ASSUME NEW k \in Workers, NEW n \in Messages, Start(k, n) PROVE TypeOK'
  <2>1. worker' \in [Workers -> WorkerSession]
    BY <1>8, StartSession DEF Alone
  <2>2. child' \in [Messages -> { "none", "processing", "processed" }]
    BY <1>8, CommittedType DEF Start
  <2>3. event' \in [Subscriptions -> [Messages -> EventStatus]]
    BY <1>8 DEF TypeOK, Start, EventStatus
  <2>4. runs' \in [Messages -> Nat]
    BY <1>8 DEF TypeOK, Start
  <2> QED
    BY <1>8, <2>1, <2>2, <2>3, <2>4 DEF TypeOK, Start, mailboxVars, subscriptionVars
<1>9. ASSUME NEW k \in Workers, Finish(k) PROVE TypeOK'
  <2>1. worker' \in [Workers -> WorkerSession]
    BY <1>9, OverSession DEF Alone, Finish
  <2>2. child' \in [Messages -> { "none", "processing", "processed" }]
    BY <1>9, CommittedType DEF Finish
  <2>3. event' \in [Subscriptions -> [Messages -> EventStatus]]
    BY <1>9 DEF TypeOK, Finish, EventStatus
  <2>4. cursor' \in [Subscriptions -> 0 .. MaxMessages]
    BY <1>9 DEF TypeOK, Finish, WorkerSession
  <2>5. skipped' \in [Subscriptions -> SUBSET Messages]
    <3> DEFINE w == worker[k]
               over == After(w.from + PageSize, w.newest)
    <3>1. over \in SUBSET Messages
      BY DEF After
    <3>2. \/ skipped' = [skipped EXCEPT ![w.sub] = skipped[w.sub] \cup over]
          \/ skipped' = skipped
      BY <1>9 DEF Finish
    <3>3. skipped \in [Subscriptions -> SUBSET Messages]
      BY DEF TypeOK
    <3> HIDE DEF over, w
    <3> QED
      BY ONLY <3>1, <3>2, <3>3
  <2> QED
    BY <1>9, <2>1, <2>2, <2>3, <2>4, <2>5 DEF TypeOK, Finish, mailboxVars
<1>10. ASSUME NEW k \in Workers, ProviderFails(k) PROVE TypeOK'
  <2>1. Failed(k, { }, "retry")
    BY <1>10 DEF ProviderFails
  <2>2. worker' \in [Workers -> WorkerSession]
    BY <2>1, OverSession DEF Alone, Failed
  <2>3. child' \in [Messages -> { "none", "processing", "processed" }]
    BY <2>1, CommittedType DEF Failed
  <2>4. event' \in [Subscriptions -> [Messages -> EventStatus]]
    BY <2>1 DEF TypeOK, Failed, EventStatus
  <2>5. /\ installation' \in { "active", "reauthorization_required", "revoked" }
        /\ disturbed' \in 0 .. MaxDisturbances
    BY <1>10 DEF ProviderFails, TypeOK, Disturb
  <2>6. subscription' \in [Subscriptions -> SubscriptionStatus]
    BY <1>10 DEF ProviderFails, TypeOK, SubscriptionStatus
  <2> QED
    BY <1>10, <2>2, <2>3, <2>4, <2>5, <2>6 DEF TypeOK, ProviderFails
<1>11. ASSUME NEW k \in Workers, NEW n \in Messages, StartRefused(k, n) PROVE TypeOK'
  <2>1. PICK inserted : Failed(k, inserted, "ack")
    BY <1>11 DEF StartRefused
  <2>2. worker' \in [Workers -> WorkerSession]
    BY <2>1, OverSession DEF Alone, Failed
  <2>3. child' \in [Messages -> { "none", "processing", "processed" }]
    BY <2>1, CommittedType DEF Failed
  <2>4. event' \in [Subscriptions -> [Messages -> EventStatus]]
    BY <2>1 DEF TypeOK, Failed, EventStatus
  <2>5. stranded' \subseteq Event
    BY <1>11, InHandType DEF TypeOK, StartRefused
  <2>6. disturbed' \in 0 .. MaxDisturbances
    BY <1>11 DEF StartRefused, TypeOK, Disturb
  <2> QED
    BY <1>11, <2>2, <2>3, <2>4, <2>5, <2>6
       DEF TypeOK, StartRefused, mailboxVars, subscriptionVars
<1>12. ASSUME NEW k \in Workers, Retry(k) PROVE TypeOK'
  <2>1. worker' \in [Workers -> WorkerSession]
    BY <1>12, GoneSession DEF Alone, Retry
  <2>2. stranded' \subseteq Event
    BY <1>12, InHandType DEF TypeOK, Retry
  <2>3. queue' \in [Subscriptions -> [Messages -> SUBSET (0 .. MaxRetries)]]
    <3> DEFINE w == worker[k]
               again == IF w.try < MaxRetries THEN {w.try + 1} ELSE { }
    <3>1. again \in SUBSET (0 .. MaxRetries)
      BY DEF TypeOK, WorkerSession
    <3> DEFINE next == (queue[w.sub][w.message] \ {w.try}) \cup again
               tasks == queue[w.sub]
    <3>2. queue' = [queue EXCEPT ![w.sub][w.message] = next]
      BY <1>12 DEF Retry
    <3>3. w.sub \in Subscriptions /\ w.message \in Messages
      BY <1>12, InHandType DEF Retry
    <3> HIDE DEF again
    <3>4. tasks \in [Messages -> SUBSET (0 .. MaxRetries)]
      BY <3>3 DEF TypeOK
    <3>5. tasks[w.message] \in SUBSET (0 .. MaxRetries)
      BY <3>3, <3>4
    <3>6. next \in SUBSET (0 .. MaxRetries)
      BY <3>1, <3>5
    <3> HIDE DEF next
    <3>7. [tasks EXCEPT ![w.message] = next] \in [Messages -> SUBSET (0 .. MaxRetries)]
      BY <3>3, <3>4, <3>6
    <3>8. queue' = [queue EXCEPT ![w.sub] = [tasks EXCEPT ![w.message] = next]]
      BY <3>2, <3>3
    <3> HIDE DEF tasks
    <3> QED
      BY <3>3, <3>7, <3>8 DEF TypeOK
  <2> QED
    BY <1>12, <2>1, <2>2, <2>3 DEF TypeOK, Retry, mailboxVars, subscriptionVars, rowVars
<1>13. ASSUME NEW k \in Workers, Ack(k) PROVE TypeOK'
  <2>1. worker' \in [Workers -> WorkerSession]
    BY <1>13, GoneSession DEF Alone, Ack
  <2> QED
    BY <1>13, <2>1, AcknowledgedType DEF TypeOK, Ack, mailboxVars, subscriptionVars, rowVars
<1>14. ASSUME NEW k \in Workers, Crash(k) PROVE TypeOK'
  <2>1. worker' \in [Workers -> WorkerSession]
    BY <1>14, GoneSession DEF Alone, Crash
  <2>2. stranded' \subseteq Event
    BY <1>14, InHandType DEF TypeOK, Crash
  <2>3. disturbed' \in 0 .. MaxDisturbances
    BY <1>14 DEF Crash, TypeOK, Disturb
  <2> QED
    BY <1>14, <2>1, <2>2, <2>3 DEF TypeOK, Crash, mailboxVars, subscriptionVars, rowVars
<1>15. ASSUME NEW k \in Workers, TransportFails(k) PROVE TypeOK'
  <2>1. Failed(k, { }, "ack")
    BY <1>15 DEF TransportFails
  <2>2. worker' \in [Workers -> WorkerSession]
    BY <2>1, OverSession DEF Alone, Failed
  <2>3. child' \in [Messages -> { "none", "processing", "processed" }]
    BY <2>1, CommittedType DEF Failed
  <2>4. event' \in [Subscriptions -> [Messages -> EventStatus]]
    BY <2>1 DEF TypeOK, Failed, EventStatus
  <2>5. stranded' \subseteq Event
    BY <1>15, InHandType DEF TypeOK, TransportFails
  <2>6. disturbed' \in 0 .. MaxDisturbances
    BY <1>15 DEF TransportFails, TypeOK, Disturb
  <2> QED
    BY <1>15, <2>2, <2>3, <2>4, <2>5, <2>6
       DEF TypeOK, TransportFails, mailboxVars, subscriptionVars
<1> QED
  BY <1>1, <1>2, <1>3, <1>4, <1>5, <1>6, <1>7, <1>8, <1>9, <1>10, <1>11, <1>12, <1>13, <1>14,
     <1>15
     DEF WorkerAction, WorkerStep

------------------------------------------------------------------------------
\* What the steps leave alone.

SubscriptionAction ==
  \/ Arrive \/ Disconnect \/ RenewCommit
  \/ \E s \in Subscriptions : Register(s) \/ Publish(s) \/ Disable(s) \/ RenewAsk(s)

\* Every step is one of the mailbox and its subscriptions, the webhook or the workers.
LEMMA NextActions == Next => SubscriptionAction \/ HandlerAction \/ WorkerAction
  BY DEF Next, SubscriptionAction, HandlerAction, WorkerAction

\* What the mailbox and its subscriptions leave alone.
LEMMA SubscriptionFrame ==
  ASSUME SubscriptionAction
  PROVE  UNCHANGED << provider, rowVars, queue, handler, worker, stranded >>
  BY DEF SubscriptionAction, Arrive, Disconnect, RenewCommit, Register, Publish, Disable,
         RenewAsk, mailboxVars

\* A request adds events and changes none.
LEMMA HandlerFrame ==
  ASSUME TypeOK, RequestInv, HandlerAction
  PROVE  /\ UNCHANGED << provider, mail, subscriptionVars, child, runs, worker >>
         /\ \A s \in Subscriptions, n \in Messages :
              \/ event'[s][n] = event[s][n]
              \/ /\ event[s][n] = "none" /\ event'[s][n] = "pending"
                 /\ n <= mail
                 /\ \E h \in Handlers : handler'[h].message = n /\ s \in handler'[h].created
<1>1. ASSUME NEW h \in Handlers, NEW s \in Subscriptions, Ingest(h, s)
      PROVE  \A t \in Subscriptions, n \in Messages :
               \/ event'[t][n] = event[t][n]
               \/ /\ event[t][n] = "none" /\ event'[t][n] = "pending"
                  /\ n <= mail
                  /\ handler'[h].message = n /\ t \in handler'[h].created
  <2> DEFINE w == handler[h]
  <2>1. w \in HandlerSession
    BY DEF TypeOK
  <2>2. w.message \in Messages /\ w.message <= mail
    BY <1>1 DEF RequestInv, Ingest, After
  <2>3. event' = [event EXCEPT ![s][w.message] = "pending"] /\ event[s][w.message] = "none"
    BY <1>1 DEF Ingest
  <2>4. handler'[h].message = w.message /\ s \in handler'[h].created
    BY <1>1, <2>1 DEF Ingest, TypeOK, HandlerSession
  <2> QED
    BY <2>2, <2>3, <2>4 DEF TypeOK
<1>2. UNCHANGED << provider, mail, subscriptionVars, child, runs, worker >>
  BY DEF HandlerAction, HandlerStep, Ingest, IngestDuplicate, Accept, RequestFails, Deliver,
         PushAgain, mailboxVars, subscriptionVars, rowVars
<1>3. (\E h \in Handlers, s \in Subscriptions : Ingest(h, s)) \/ event' = event
  BY DEF HandlerAction, HandlerStep, IngestDuplicate, Accept, RequestFails, Deliver,
         PushAgain, rowVars
<1> QED
  BY <1>1, <1>2, <1>3

\* A worker that gives up its task.
Leaves(k) ==
  \/ Decline(k) \/ Retry(k) \/ Ack(k) \/ Crash(k)
  \/ \E n \in Messages : FetchConflict(k, n)

\* What a worker that goes away leaves alone.
LEMMA LeavesFrame ==
  ASSUME TypeOK, NEW k \in Workers, Leaves(k)
  PROVE  /\ Alone(k) /\ worker'[k] = IdleWorker
         /\ UNCHANGED << mailboxVars, subscriptionVars, rowVars, handler >>
  BY GoneSession DEF Leaves, Decline, Retry, Ack, Crash, FetchConflict

\* A worker whose session fails.
Fails(k) == ProviderFails(k) \/ TransportFails(k) \/ \E n \in Messages : StartRefused(k, n)

\* The event a worker is at, when its session writes it.
Writes(k, status) ==
  /\ event'[worker[k].sub][worker[k].message] = status
  /\ \A s \in Subscriptions, n \in Messages :
       s # worker[k].sub \/ n # worker[k].message => event'[s][n] = event[s][n]

\* The row of an event after a write.
LEMMA EventWritten ==
  ASSUME TypeOK, Engaged, NEW k \in Workers, worker[k].at # "idle", NEW status,
         event' = [event EXCEPT ![worker[k].sub][worker[k].message] = status]
  PROVE  Writes(k, status)
  BY InHandType DEF TypeOK, Writes

\* What a failed session writes to the rows of messages.
LEMMA FailsFrame ==
  ASSUME TypeOK, Engaged, NEW k \in Workers, Fails(k)
  PROVE  /\ AtWork(k)
         /\ Alone(k) /\ SameEvent(k) /\ ~worker'[k].locked /\ worker'[k].noted = { }
         /\ worker'[k].newest = 0
         /\ \/ ProviderFails(k) /\ worker'[k].at = "retry"
            \/ worker'[k].at = "ack" /\ stranded' = stranded \cup {InHand(k)}
         /\ Writes(k, "failed")
         /\ \E inserted \in SUBSET Messages :
              /\ child' = Committed(k, inserted)
              /\ \A n \in inserted : worker[k].at = "start" /\ Current(k, n) /\ ~worker[k].found
         /\ UNCHANGED << provider, mail, cursor, renewal, skipped, runs, handler, queue >>
<1>1. CASE ProviderFails(k)
  <2>1. Failed(k, { }, "retry") /\ AtWork(k)
    BY <1>1 DEF ProviderFails, AtWork
  <2>2. Alone(k) /\ SameEvent(k) /\ ~worker'[k].locked /\ worker'[k].noted = { }
        /\ worker'[k].at = "retry" /\ worker'[k].newest = 0
    BY <2>1, OverSession DEF Failed
  <2>3. Writes(k, "failed")
    BY <2>1, EventWritten DEF Failed, AtWork
  <2>4. child' = Committed(k, { })
    BY <2>1 DEF Failed
  <2> QED
    BY <1>1, <2>1, <2>2, <2>3, <2>4 DEF ProviderFails
<1>2. CASE TransportFails(k)
  <2>1. Failed(k, { }, "ack") /\ AtWork(k)
    BY <1>2 DEF TransportFails, AtWork
  <2>2. Alone(k) /\ SameEvent(k) /\ ~worker'[k].locked /\ worker'[k].noted = { }
        /\ worker'[k].at = "ack" /\ worker'[k].newest = 0
    BY <2>1, OverSession DEF Failed
  <2>3. Writes(k, "failed")
    BY <2>1, EventWritten DEF Failed, AtWork
  <2>4. child' = Committed(k, { })
    BY <2>1 DEF Failed
  <2> QED
    BY <1>2, <2>1, <2>2, <2>3, <2>4 DEF TransportFails, mailboxVars, subscriptionVars
<1>3. ASSUME NEW n \in Messages, StartRefused(k, n)
      PROVE  /\ AtWork(k)
             /\ Alone(k) /\ SameEvent(k) /\ ~worker'[k].locked /\ worker'[k].noted = { }
             /\ worker'[k].newest = 0
             /\ worker'[k].at = "ack" /\ stranded' = stranded \cup {InHand(k)}
             /\ Writes(k, "failed")
             /\ \E inserted \in SUBSET Messages :
                  /\ child' = Committed(k, inserted)
                  /\ \A m \in inserted : worker[k].at = "start" /\ Current(k, m) /\ ~worker[k].found
             /\ UNCHANGED << provider, mail, cursor, renewal, skipped, runs, handler, queue >>
  <2> DEFINE inserted == IF worker[k].found THEN { } ELSE {n}
  <2>1. Failed(k, inserted, "ack") /\ AtWork(k)
    BY <1>3 DEF StartRefused, AtWork
  <2>2. Alone(k) /\ SameEvent(k) /\ ~worker'[k].locked /\ worker'[k].noted = { }
        /\ worker'[k].at = "ack" /\ worker'[k].newest = 0
    BY <2>1, OverSession DEF Failed
  <2>3. Writes(k, "failed")
    BY <2>1, EventWritten DEF Failed, AtWork
  <2>4. child' = Committed(k, inserted)
    BY <2>1 DEF Failed
  <2>5. \A m \in inserted : worker[k].at = "start" /\ Current(k, m) /\ ~worker[k].found
    BY <1>3 DEF StartRefused
  <2>6. inserted \in SUBSET Messages
    OBVIOUS
  <2> HIDE DEF inserted
  <2> QED
    BY <1>3, <2>1, <2>2, <2>3, <2>4, <2>5, <2>6
       DEF StartRefused, mailboxVars, subscriptionVars
<1> QED
  BY <1>1, <1>2, <1>3 DEF Fails

\* What Finish writes.
LEMMA FinishFrame ==
  ASSUME TypeOK, Engaged, NEW k \in Workers, Finish(k)
  PROVE  /\ Alone(k) /\ SameEvent(k) /\ ~worker'[k].locked /\ worker'[k].noted = { }
         /\ worker'[k].newest = 0
         /\ worker'[k].at = "ack" /\ Writes(k, "processed") /\ child' = Committed(k, { })
<1>1. Alone(k) /\ SameEvent(k) /\ ~worker'[k].locked /\ worker'[k].noted = { }
      /\ worker'[k].at = "ack" /\ worker'[k].newest = 0
  BY OverSession DEF Finish
<1>2. Writes(k, "processed")
  BY EventWritten DEF Finish
<1> QED
  BY <1>1, <1>2 DEF Finish

\* What Start writes.
LEMMA StartFrame ==
  ASSUME TypeOK, Engaged, NEW k \in Workers, NEW n \in Messages, Start(k, n)
  PROVE  Writes(k, "processing")
  BY EventWritten DEF Start

\* What the workers leave alone.
LEMMA WorkerFrame ==
  ASSUME WorkerAction
  PROVE  /\ UNCHANGED << provider, mail, pushes, handler, renewal >>
         /\ runs' = runs \/ \E k \in Workers, n \in Messages : Start(k, n)
         /\ UNCHANGED << cursor, skipped >> \/ \E k \in Workers : Finish(k)
<1> DEFINE Same == UNCHANGED << provider, mail, pushes, handler, renewal >>
           Kept == UNCHANGED << runs, cursor, skipped >>
<1>1. ASSUME NEW k \in Workers, NEW s \in Subscriptions, NEW n \in Messages,
             NEW try \in 0 .. MaxRetries, Take(k, s, n, try)
      PROVE  Same /\ Kept
  BY <1>1 DEF Take, mailboxVars, subscriptionVars, rowVars
<1>2. ASSUME NEW k \in Workers, Claim(k) \/ Decline(k) \/ List(k) PROVE Same /\ Kept
  BY <1>2 DEF Claim, Decline, List, mailboxVars, subscriptionVars, rowVars
<1>3. ASSUME NEW k \in Workers, Retry(k) \/ Ack(k) \/ Crash(k) PROVE Same /\ Kept
  BY <1>3 DEF Retry, Ack, Crash, mailboxVars, subscriptionVars, rowVars
<1>4. ASSUME NEW k \in Workers, ProviderFails(k) \/ TransportFails(k) PROVE Same /\ Kept
  BY <1>4 DEF ProviderFails, TransportFails, mailboxVars, subscriptionVars
<1>5. ASSUME NEW k \in Workers, NEW n \in Messages,
             Look(k, n) \/ Fetch(k, n) \/ FetchConflict(k, n) \/ StartRefused(k, n)
      PROVE  Same /\ Kept
  BY <1>5 DEF Look, Fetch, FetchConflict, StartRefused, mailboxVars, subscriptionVars, rowVars
<1>6. ASSUME NEW k \in Workers, NEW n \in Messages, Start(k, n)
      PROVE  Same /\ UNCHANGED << cursor, skipped >>
  BY <1>6 DEF Start, mailboxVars, subscriptionVars
<1>7. ASSUME NEW k \in Workers, Finish(k) PROVE Same /\ runs' = runs
  BY <1>7 DEF Finish, mailboxVars
<1> HIDE DEF Same
<1> QED
  BY <1>1, <1>2, <1>3, <1>4, <1>5, <1>6, <1>7 DEF Same, WorkerAction, WorkerStep

\* Which steps of workers write events.
LEMMA WorkerEvents ==
  ASSUME WorkerAction
  PROVE  \/ event' = event
         \/ \E k \in Workers : Finish(k) \/ Fails(k) \/ \E n \in Messages : Start(k, n)
  BY DEF WorkerAction, WorkerStep, Fails, Take, Claim, Decline, List, Look, Fetch,
         FetchConflict, Retry, Ack, Crash, rowVars

------------------------------------------------------------------------------
\* Claims: what the status of an event says of the worker that is at it.

ClaimInv ==
  \A k \in Workers :
    /\ worker[k].locked => AtWork(k) /\ MayClaim(Status(k))
    /\ AtWork(k) /\ ~worker[k].locked => Status(k) = "processing"

Claims == ClaimInv /\ OneWorkerPerEvent

\* Every step keeps the claims: who gets the row finds it unlocked and not started.
LEMMA ClaimsKept ==
  ASSUME TypeOK, RequestInv, Engaged, Claims, Next
  PROVE  Claims'
<1> USE DEF Claims
<1>1. CASE SubscriptionAction
  BY <1>1, SubscriptionFrame DEF ClaimInv, OneWorkerPerEvent, AtWork, Status, rowVars
<1>2. CASE HandlerAction
  <2>1. worker' = worker
    BY <1>2, HandlerFrame
  <2>2. \A k \in Workers : Status(k) # "none" /\ AtWork(k) => Status(k)' = Status(k)
    BY <1>2, <2>1, HandlerFrame, InHandType DEF Status, AtWork
  <2>3. \A k \in Workers : AtWork(k) => Status(k) # "none"
    BY DEF ClaimInv, MayClaim
  <2> QED
    BY <2>1, <2>2, <2>3 DEF ClaimInv, OneWorkerPerEvent, AtWork
<1>3. ASSUME NEW k \in Workers, NEW s \in Subscriptions, NEW n \in Messages,
             NEW try \in 0 .. MaxRetries, Take(k, s, n, try)
      PROVE  Claims'
  <2>1. event' = event
    BY <1>3 DEF Take, rowVars
  <2> QED
    BY <1>3, <2>1, TakeSession DEF Alone, ClaimInv, OneWorkerPerEvent, AtWork, Status
<1>4. ASSUME NEW k \in Workers, Leaves(k) PROVE Claims'
  <2>1. event' = event
    BY <1>4, LeavesFrame DEF rowVars
  <2> QED
    BY <1>4, <2>1, LeavesFrame, IdleTypes DEF Alone, ClaimInv, OneWorkerPerEvent, AtWork, Status
<1>5. ASSUME NEW k \in Workers, Claim(k) PROVE Claims'
  <2>1. event' = event /\ worker[k].at = "claim" /\ MayClaim(Status(k))
        /\ Unlocked(worker[k].sub, worker[k].message)
    BY <1>5 DEF Claim, rowVars
  <2>2. \A j \in Workers \ {k} :
          ~(AtWork(j) /\ worker[j].sub = worker[k].sub /\ worker[j].message = worker[k].message)
    BY <2>1 DEF ClaimInv, Unlocked, Holds, Status, MayClaim, AtWork
  <2> QED
    BY <1>5, <2>1, <2>2, ClaimSession
       DEF Alone, SameEvent, ClaimInv, OneWorkerPerEvent, AtWork, Status
<1>6. ASSUME NEW k \in Workers, AtWork(k), AtWork(k)', Alone(k), SameEvent(k),
             worker'[k].locked = worker[k].locked, event' = event
      PROVE  Claims'
  BY <1>6 DEF Alone, SameEvent, ClaimInv, OneWorkerPerEvent, AtWork, Status
<1>7. ASSUME NEW k \in Workers, List(k) PROVE Claims'
  <2>1. worker[k].message \in Messages
    BY <1>7 DEF Engaged, List
  <2> QED
    BY <1>6, <1>7, <2>1, ListSession DEF List, AtWork, rowVars
<1>8. ASSUME NEW k \in Workers, NEW n \in Messages, Look(k, n) \/ Fetch(k, n) PROVE Claims'
  BY <1>6, <1>8, LookSession, FetchSession DEF Look, Fetch, AtWork, rowVars
<1>9. ASSUME NEW k \in Workers, NEW status, AtWork(k), Alone(k), SameEvent(k),
             Writes(k, status), ~worker'[k].locked, AtWork(k)' => status = "processing"
      PROVE  Claims'
  <2>1. \A j \in Workers \ {k} : AtWork(j) => Status(j)' = Status(j)
    BY <1>9, InHandType DEF Alone, Writes, Status, AtWork, OneWorkerPerEvent
  <2>2. Status(k)' = status
    BY <1>9 DEF Writes, SameEvent, Status
  <2> QED
    BY <1>9, <2>1, <2>2 DEF Alone, SameEvent, ClaimInv, OneWorkerPerEvent, AtWork
<1>10. ASSUME NEW k \in Workers, NEW n \in Messages, Start(k, n) PROVE Claims'
  <2>1. AtWork(k) /\ Writes(k, "processing")
    BY <1>10, StartFrame DEF Start, AtWork
  <2>2. Alone(k) /\ SameEvent(k) /\ ~worker'[k].locked
    BY <1>10, StartSession
  <2> QED
    BY <1>9, <2>1, <2>2
<1>11. ASSUME NEW k \in Workers, Finish(k) PROVE Claims'
  <2>1. AtWork(k) /\ ~AtWork(k)'
    BY <1>11, FinishFrame DEF Finish, AtWork
  <2>2. Alone(k) /\ SameEvent(k) /\ ~worker'[k].locked /\ Writes(k, "processed")
    BY <1>11, FinishFrame
  <2> QED
    BY <1>9, <2>1, <2>2
<1>12. ASSUME NEW k \in Workers, Fails(k) PROVE Claims'
  <2>1. ~AtWork(k)'
    BY <1>12, FailsFrame DEF AtWork
  <2> QED
    BY <1>9, <1>12, <2>1, FailsFrame
<1> QED
  BY <1>1, <1>2, <1>3, <1>4, <1>5, <1>7, <1>8, <1>10, <1>11, <1>12, NextActions
     DEF WorkerAction, WorkerStep, Leaves, Fails

------------------------------------------------------------------------------
\* Nothing is for a message that has not arrived.

NumbersInv ==
  /\ \A p \in pushes : p[1] <= mail
  /\ \A s \in Subscriptions, n \in Messages : event[s][n] # "none" => n <= mail
  /\ \A s \in Subscriptions : renewal[s] <= mail /\ skipped[s] \subseteq After(0, mail)
  /\ \A k \in Workers : worker[k].newest <= mail

Arrived == RequestInv /\ Engaged /\ NumbersInv

\* What a renewal has got is a number.
LEMMA RenewalInt ==
  ASSUME TypeOK
  PROVE  \A s \in Subscriptions : renewal[s] \in Int
<1>1. \A s \in Subscriptions : renewal[s] \in {NoRenewal, FailedRenewal} \cup 0 .. MaxMessages
  BY DEF TypeOK
<1>2. NoRenewal \in Int /\ FailedRenewal \in Int
  BY DEF NoRenewal, FailedRenewal
<1> QED
  BY <1>1, <1>2

\* The mailbox and its subscriptions know of no message that has not arrived.
LEMMA ArrivedBySubscription ==
  ASSUME TypeOK, Arrived, SubscriptionAction
  PROVE  Arrived'
<1>1. mail \in Nat /\ mail' \in Nat /\ mail <= mail'
  BY MailInboxAssumption DEF SubscriptionAction, Arrive, Disconnect, RenewCommit, Register,
     Publish, Disable, RenewAsk, mailboxVars, TypeOK
<1>2. \A m : m \in After(0, mail) => m \in After(0, mail')
  BY <1>1 DEF After, Messages
<1>3. UNCHANGED << event, handler, worker >>
  BY SubscriptionFrame DEF rowVars
<1>4. RequestInv'
  BY <1>2, <1>3 DEF Arrived, RequestInv
<1>5. Engaged'
  BY <1>3 DEF Arrived, Engaged
<1>6. \A s \in Subscriptions, n \in Messages : event'[s][n] # "none" => n <= mail'
  BY <1>1, <1>3 DEF Arrived, NumbersInv, Messages
<1>7. \A k \in Workers : worker'[k].newest <= mail'
  BY <1>1, <1>3 DEF Arrived, NumbersInv, TypeOK, WorkerSession
<1>8. \A p \in pushes' : p[1] <= mail'
  <2>1. CASE Arrive
    BY <2>1, <1>1 DEF Arrive, Arrived, NumbersInv, TypeOK, Notification, Messages
  <2>2. CASE pushes' = pushes /\ mail' = mail
    BY <2>2 DEF Arrived, NumbersInv
  <2> QED
    BY <2>1, <2>2 DEF SubscriptionAction, Disconnect, RenewCommit, Register, Publish, Disable,
       RenewAsk, mailboxVars
<1>9. \A s \in Subscriptions : renewal'[s] <= mail'
  <2>1. ASSUME NEW s \in Subscriptions, RenewAsk(s)
        PROVE  \A t \in Subscriptions : renewal'[t] <= mail'
    <3>1. PICK got \in {mail, NoRenewal, FailedRenewal} : renewal' = [renewal EXCEPT ![s] = got]
      BY <2>1 DEF RenewAsk
    <3>2. mail' = mail /\ got <= mail
      <4>1. mail' = mail
        BY <2>1 DEF RenewAsk
      <4> QED
        BY <4>1, <3>1, <1>1 DEF NoRenewal, FailedRenewal
    <3>3. \A t \in Subscriptions : renewal[t] <= mail
      BY DEF Arrived, NumbersInv
    <3>4. renewal \in [Subscriptions -> {NoRenewal, FailedRenewal} \cup 0 .. MaxMessages]
      BY DEF TypeOK
    <3>5. \A t \in Subscriptions : renewal'[t] = got \/ renewal'[t] = renewal[t]
      BY <3>1, <3>4
    <3> QED
      BY <3>2, <3>3, <3>5, <2>1 DEF RenewAsk
  <2>2. CASE RenewCommit
    BY <2>2, <1>1 DEF RenewCommit, NoRenewal
  <2>3. CASE renewal' = renewal
    <3>1. \A s \in Subscriptions : renewal[s] <= mail
      BY DEF Arrived, NumbersInv
    <3>2. \A s \in Subscriptions : renewal[s] \in Int
      BY RenewalInt
    <3> QED
      BY <2>3, <3>1, <3>2, <1>1
  <2> QED
    BY <2>1, <2>2, <2>3 DEF SubscriptionAction, Arrive, Disconnect, Register, Publish, Disable,
       subscriptionVars
<1>10. \A s \in Subscriptions : skipped'[s] \subseteq After(0, mail')
  <2>1. ASSUME NEW s \in Subscriptions, Register(s)
        PROVE  \A t \in Subscriptions : skipped'[t] \subseteq After(0, mail')
    BY <2>1 DEF Register, Arrived, NumbersInv, TypeOK
  <2>2. CASE RenewCommit
    <3>1. mail' = mail
      BY <2>2 DEF RenewCommit, mailboxVars
    <3>2. ASSUME NEW s \in Subscriptions PROVE After(cursor[s], renewal[s]) \subseteq After(0, mail)
      <4>1. cursor[s] \in Nat /\ renewal[s] \in Int /\ renewal[s] <= mail
        BY RenewalInt DEF TypeOK, Arrived, NumbersInv
      <4> QED
        BY <4>1, <1>1 DEF After, Messages
    <3>3. \A s \in Subscriptions :
            skipped'[s] \subseteq skipped[s] \cup After(cursor[s], renewal[s])
      BY <2>2 DEF RenewCommit
    <3> QED
      BY <3>1, <3>2, <3>3 DEF Arrived, NumbersInv
  <2>3. CASE skipped' = skipped
    BY <2>3, <1>2 DEF Arrived, NumbersInv
  <2> QED
    BY <2>1, <2>2, <2>3 DEF SubscriptionAction, Arrive, Disconnect, Publish, Disable, RenewAsk,
       subscriptionVars
<1> QED
  BY <1>4, <1>5, <1>6, <1>7, <1>8, <1>9, <1>10 DEF Arrived, NumbersInv

\* Nor does the webhook.
LEMMA ArrivedByHandler ==
  ASSUME TypeOK, Arrived, HandlerAction
  PROVE  Arrived'
<1> USE DEF Arrived
<1>1. UNCHANGED << mail, renewal, skipped, worker >>
  BY HandlerFrame DEF subscriptionVars
<1>2. RequestInv'
  <2>1. ASSUME NEW h \in Handlers, NEW s \in Subscriptions, Ingest(h, s) PROVE RequestInv'
    BY <2>1, <1>1 DEF Ingest, RequestInv, TypeOK, HandlerSession
  <2>2. ASSUME NEW h \in Handlers, NEW s \in Subscriptions, IngestDuplicate(h, s)
        PROVE  RequestInv'
    <3>1. CASE handler' = [handler EXCEPT ![h] = IdleHandler]
      BY <3>1, <1>1 DEF RequestInv, TypeOK, IdleHandler
    <3>2. CASE handler' = [handler EXCEPT ![h].todo = { }]
      BY <3>2, <1>1 DEF RequestInv, TypeOK, HandlerSession
    <3> QED
      BY <2>2, <3>1, <3>2 DEF IngestDuplicate
  <2>3. ASSUME NEW h \in Handlers, Accept(h) \/ RequestFails(h) PROVE RequestInv'
    BY <2>3, <1>1 DEF Accept, RequestFails, RequestInv, TypeOK, IdleHandler
  <2>4. ASSUME NEW h \in Handlers, NEW p \in pushes, Deliver(h, p[1], p[2]) PROVE RequestInv'
    <3>1. p[1] \in After(0, mail)
      BY DEF NumbersInv, TypeOK, Notification, After, Messages
    <3> QED
      BY <2>4, <3>1, <1>1 DEF Deliver, RequestInv, TypeOK
  <2>5. CASE UNCHANGED handler
    BY <2>5, <1>1 DEF RequestInv
  <2> QED
    BY <2>1, <2>2, <2>3, <2>4, <2>5 DEF HandlerAction, HandlerStep, PushAgain
<1>3. Engaged'
  BY <1>1 DEF Engaged
<1>4. \A s \in Subscriptions, n \in Messages : event'[s][n] # "none" => n <= mail'
  BY <1>1, HandlerFrame DEF NumbersInv
<1>5. \A p \in pushes' : p[1] <= mail
  <2>1. ASSUME NEW s \in Subscriptions, NEW n \in Messages, PushAgain(s, n)
        PROVE  \A p \in pushes' : p[1] <= mail
    BY <2>1 DEF PushAgain, NumbersInv
  <2>2. pushes' \subseteq pushes \/ \E s \in Subscriptions, n \in Messages : PushAgain(s, n)
    BY DEF HandlerAction, HandlerStep, Ingest, IngestDuplicate, Accept, RequestFails, Deliver,
           mailboxVars
  <2> QED
    BY <2>1, <2>2 DEF NumbersInv
<1> QED
  BY <1>1, <1>2, <1>3, <1>4, <1>5 DEF NumbersInv

\* Nor do the workers.
LEMMA ArrivedByWorker ==
  ASSUME TypeOK, Arrived, Claims, WorkerAction
  PROVE  Arrived'
<1> USE DEF Arrived
<1>1. UNCHANGED << mail, pushes, handler, renewal >>
  BY WorkerFrame
<1>2. RequestInv'
  BY <1>1 DEF RequestInv
<1> DEFINE Sound(k) ==
      /\ Alone(k)
      /\ worker'[k].at # "idle" => worker'[k].message \in Messages
      /\ worker'[k].newest <= mail
<1>3. ASSUME NEW k \in Workers, Sound(k) PROVE Engaged' /\ \A j \in Workers : worker'[j].newest <= mail
  BY <1>3 DEF Alone, Engaged, NumbersInv
<1>4. mail \in Nat
  BY DEF TypeOK
<1>5. \E k \in Workers : Sound(k)
  <2>1. ASSUME NEW k \in Workers, NEW s \in Subscriptions, NEW n \in Messages,
               NEW try \in 0 .. MaxRetries, Take(k, s, n, try)
        PROVE  Sound(k)
    BY <1>4, <2>1, TakeSession
  <2>2. ASSUME NEW k \in Workers, Leaves(k) PROVE Sound(k)
    BY <1>4, <2>2, LeavesFrame, IdleTypes
  <2>3. ASSUME NEW k \in Workers, worker[k].at # "idle", Alone(k), SameEvent(k),
               worker'[k].newest \in {0, mail, worker[k].newest}
        PROVE  Sound(k)
    BY <1>4, <2>3 DEF Engaged, NumbersInv, SameEvent
  <2>4. ASSUME NEW k \in Workers, Claim(k) PROVE Sound(k)
    BY <2>3, <2>4, ClaimSession DEF Claim
  <2>5. ASSUME NEW k \in Workers, List(k) PROVE Sound(k)
    BY <2>3, <2>5, ListSession DEF List, Engaged
  <2>6. ASSUME NEW k \in Workers, NEW n \in Messages, Look(k, n) PROVE Sound(k)
    BY <2>3, <2>6, LookSession DEF Look, SameReading
  <2>7. ASSUME NEW k \in Workers, NEW n \in Messages, Fetch(k, n) PROVE Sound(k)
    BY <2>3, <2>7, FetchSession DEF Fetch, SameReading
  <2>8. ASSUME NEW k \in Workers, NEW n \in Messages, Start(k, n) PROVE Sound(k)
    BY <2>3, <2>8, StartSession DEF Start, SameReading
  <2>9. ASSUME NEW k \in Workers, Finish(k) PROVE Sound(k)
    BY <2>3, <2>9, FinishFrame DEF Finish
  <2>10. ASSUME NEW k \in Workers, Fails(k) PROVE Sound(k)
    BY <2>3, <2>10, FailsFrame DEF AtWork
  <2> HIDE DEF Sound
  <2> QED
    BY <2>1, <2>2, <2>4, <2>5, <2>6, <2>7, <2>8, <2>9, <2>10
       DEF WorkerAction, WorkerStep, Leaves, Fails
<1>6. \A s \in Subscriptions, n \in Messages : event'[s][n] # "none" => n <= mail
  <2>1. ASSUME NEW k \in Workers, NEW status, AtWork(k), Writes(k, status)
        PROVE  \A s \in Subscriptions, n \in Messages : event'[s][n] # "none" => n <= mail
    <3>1. Status(k) # "none"
      BY <2>1 DEF Claims, ClaimInv, MayClaim
    <3>2. worker[k].message <= mail
      BY <2>1, <3>1, InHandType DEF NumbersInv, Status, AtWork
    <3> QED
      BY <2>1, <3>2 DEF Writes, NumbersInv
  <2>2. ASSUME NEW k \in Workers, NEW n \in Messages, Start(k, n)
        PROVE  AtWork(k) /\ Writes(k, "processing")
    BY <2>2, StartFrame DEF Start, AtWork
  <2>3. ASSUME NEW k \in Workers, Finish(k) PROVE AtWork(k) /\ Writes(k, "processed")
    BY <2>3, FinishFrame DEF Finish, AtWork
  <2>4. ASSUME NEW k \in Workers, Fails(k) PROVE AtWork(k) /\ Writes(k, "failed")
    BY <2>4, FailsFrame
  <2>5. \/ event' = event
        \/ \E k \in Workers : Finish(k) \/ Fails(k) \/ \E n \in Messages : Start(k, n)
    BY WorkerEvents
  <2> QED
    BY <2>1, <2>2, <2>3, <2>4, <2>5 DEF NumbersInv
<1>7. \A s \in Subscriptions : skipped'[s] \subseteq After(0, mail)
  <2>1. ASSUME NEW k \in Workers, Finish(k)
        PROVE  \A s \in Subscriptions : skipped'[s] \subseteq After(0, mail)
    <3> DEFINE w == worker[k]
               over == After(w.from + PageSize, w.newest)
    <3>1. w.from \in Nat /\ w.newest \in Nat /\ PageSize \in Nat /\ mail \in Nat
      BY MailInboxAssumption DEF TypeOK, WorkerSession
    <3>2. over \subseteq After(0, mail)
      BY <3>1 DEF After, NumbersInv, Messages
    <3>3. \A s \in Subscriptions : skipped'[s] \subseteq skipped[s] \cup over
      BY <2>1 DEF Finish, TypeOK
    <3> QED
      BY <3>2, <3>3 DEF NumbersInv
  <2>2. skipped' = skipped \/ \E k \in Workers : Finish(k)
    BY WorkerFrame
  <2> QED
    BY <2>1, <2>2 DEF NumbersInv
<1> QED
  BY <1>1, <1>2, <1>3, <1>5, <1>6, <1>7 DEF NumbersInv

\* Nor does any step.
LEMMA ArrivedKept ==
  ASSUME TypeOK, Arrived, Claims, Next
  PROVE  Arrived'
  BY ArrivedBySubscription, ArrivedByHandler, ArrivedByWorker, NextActions

------------------------------------------------------------------------------
\* The messages' rows and the runs.

Inserts(k, n) == worker[k].at = "start" /\ ~worker[k].found /\ Current(k, n)
Finds(k, n) == worker[k].at \in {"fetch", "start"} /\ worker[k].found /\ Current(k, n)

RowInv ==
  /\ \A n \in Messages :
       /\ child[n] = "none" => runs[n] = 0
       /\ child[n] = "processed" => runs[n] > 0
  /\ \A k \in Workers, n \in Messages :
       /\ n \in worker[k].noted => runs[n] > 0
       /\ Finds(k, n) => child[n] # "none"
       /\ Inserts(k, n) => child[n] = "none"
  /\ \A j, k \in Workers, n \in Messages : Inserts(j, n) /\ Inserts(k, n) => j = k

\* A worker is at one message.
LEMMA CurrentUnique ==
  ASSUME TypeOK, NEW k \in Workers, NEW m, NEW n, Current(k, m), Current(k, n)
  PROVE  m = n
<1>1. worker[k].todo \subseteq Int
  BY MailInboxAssumption DEF TypeOK, WorkerSession, Messages
<1> QED
  BY <1>1 DEF Current

\* Every step keeps the rows true to the runs.
LEMMA RowsKept ==
  ASSUME TypeOK, RequestInv, Engaged, RowInv, Next
  PROVE  RowInv'
<1> DEFINE Away(k) == worker'[k].at \notin {"fetch", "start"}
<1>1. CASE UNCHANGED << child, runs, worker >>
  BY <1>1 DEF RowInv, Inserts, Finds, Current
<1>2. ASSUME NEW k \in Workers, Alone(k), Away(k), worker'[k].noted \subseteq worker[k].noted,
             UNCHANGED << child, runs >>
      PROVE  RowInv'
  BY <1>2 DEF RowInv, Inserts, Finds, Current, Alone
<1>3. ASSUME NEW k \in Workers, NEW s \in Subscriptions, NEW n \in Messages,
             NEW try \in 0 .. MaxRetries, Take(k, s, n, try)
      PROVE  RowInv'
  BY <1>2, <1>3, TakeSession DEF Take, rowVars
<1>4. ASSUME NEW k \in Workers, Leaves(k) PROVE RowInv'
  BY <1>2, <1>4, LeavesFrame, IdleTypes DEF rowVars
<1>5. ASSUME NEW k \in Workers, Claim(k) PROVE RowInv'
  BY <1>2, <1>5, ClaimSession DEF Claim, rowVars
<1>6. ASSUME NEW k \in Workers, List(k) PROVE RowInv'
  BY <1>2, <1>6, ListSession DEF List, Engaged, rowVars
<1>7. ASSUME NEW k \in Workers, NEW n \in Messages, Look(k, n) PROVE RowInv'
  <2>1. UNCHANGED << child, runs >> /\ Current(k, n)
    BY <1>7 DEF Look, rowVars
  <2>2. Alone(k) /\ worker'[k].noted = worker[k].noted
    BY <1>7, LookSession
  <2>3. CASE worker'[k].at = "look"
    BY <1>2, <2>1, <2>2, <2>3
  <2>4. CASE /\ worker'[k].at = "fetch" /\ worker'[k].todo = worker[k].todo
             /\ worker'[k].found = (child[n] # "none")
    <3>1. \A m \in Messages : Finds(k, m)' => m = n /\ child[n] # "none"
      BY <2>1, <2>4, CurrentUnique DEF Finds, Current
    <3>2. \A m \in Messages : ~Inserts(k, m)'
      BY <2>4 DEF Inserts
    <3> QED
      BY <2>1, <2>2, <3>1, <3>2 DEF RowInv, Inserts, Finds, Current, Alone
  <2> QED
    BY <1>7, <2>3, <2>4, LookSession
<1>8. ASSUME NEW k \in Workers, NEW n \in Messages, Fetch(k, n) PROVE RowInv'
  <2>1. UNCHANGED << child, runs >> /\ Current(k, n) /\ worker[k].at = "fetch"
    BY <1>8 DEF Fetch, rowVars
  <2>2. /\ Alone(k) /\ worker'[k].noted = worker[k].noted /\ worker'[k].at = "start"
        /\ worker'[k].found = worker[k].found /\ worker'[k].todo = worker[k].todo
    BY <1>8, FetchSession
  <2>3. \A m \in Messages : Finds(k, m)' => Finds(k, m)
    BY <2>1, <2>2 DEF Finds, Current
  <2>4. \A m \in Messages : Inserts(k, m)' => m = n /\ child[n] = "none" /\ ~Inserting(n)
    BY <1>8, <2>1, <2>2, CurrentUnique DEF Inserts, Current, Fetch, MayInsert
  <2>5. \A j \in Workers, m \in Messages : Inserts(j, m)' /\ Inserts(k, m)' => j = k
    BY <2>2, <2>4 DEF Inserting, Inserts, Current, Alone
  <2>6. \A j \in Workers \ {k}, m \in Messages :
          /\ Inserts(j, m)' = Inserts(j, m)
          /\ Finds(j, m)' = Finds(j, m)
          /\ worker'[j].noted = worker[j].noted
    BY <2>2 DEF Inserts, Finds, Current, Alone
  <2> HIDE DEF Away
  <2> QED
    BY <2>1, <2>2, <2>3, <2>4, <2>5, <2>6 DEF RowInv
<1>9. ASSUME NEW k \in Workers, NEW inserted \in SUBSET Messages, Alone(k), Away(k),
             child' = Committed(k, inserted), \A n \in inserted : Inserts(k, n),
             \A n \in Messages : runs'[n] \in Nat /\ runs'[n] >= runs[n],
             \A n \in Messages : runs'[n] # runs[n] => child'[n] # "none",
             \A n \in worker'[k].noted : runs'[n] > 0
      PROVE  RowInv'
  <2>1. \A n \in Messages : runs[n] \in Nat
    BY DEF TypeOK
  <2>2. \A n \in Messages :
          child'[n] = IF n \in worker[k].noted THEN "processed"
                      ELSE IF n \in inserted THEN "processing" ELSE child[n]
    BY <1>9 DEF Committed
  <2>3. \A n \in Messages :
          /\ child'[n] = "none" => runs'[n] = 0
          /\ child'[n] = "processed" => runs'[n] > 0
    BY <1>9, <2>1, <2>2 DEF RowInv
  <2>4. \A j \in Workers, n \in Messages :
          /\ Inserts(j, n)' => j # k /\ Inserts(j, n)
          /\ Finds(j, n)' => j # k /\ Finds(j, n)
    BY <1>9 DEF Inserts, Finds, Current, Alone
  <2>5. \A j \in Workers, n \in Messages : n \in worker'[j].noted => runs'[n] > 0
    BY <1>9, <2>1 DEF RowInv, Alone
  <2>6. \A j \in Workers, n \in Messages : Finds(j, n)' => child'[n] # "none"
    BY <2>2, <2>4 DEF RowInv
  <2>7. \A j \in Workers, n \in Messages : Inserts(j, n)' => child'[n] = "none"
    <3> SUFFICES ASSUME NEW j \in Workers, NEW n \in Messages, Inserts(j, n)'
                 PROVE  child'[n] = "none"
      OBVIOUS
    <3>1. child[n] = "none" /\ runs[n] = 0 /\ n \notin inserted
      BY <1>9, <2>4 DEF RowInv
    <3>2. n \notin worker[k].noted
      BY <3>1 DEF RowInv
    <3> QED
      BY <2>2, <3>1, <3>2
  <2> QED
    BY <2>3, <2>4, <2>5, <2>6, <2>7 DEF RowInv
<1>10. ASSUME NEW k \in Workers, NEW n \in Messages, Start(k, n) PROVE RowInv'
  <2> DEFINE inserted == IF worker[k].found THEN { } ELSE {n}
  <2>1. /\ Alone(k) /\ Away(k) /\ worker'[k].noted = {n}
    BY <1>10, StartSession
  <2>2. child' = Committed(k, inserted) /\ runs' = [runs EXCEPT ![n] = @ + 1]
        /\ worker[k].at = "start" /\ Current(k, n)
    BY <1>10 DEF Start
  <2>3. inserted \in SUBSET Messages /\ \A m \in inserted : Inserts(k, m)
    BY <2>2 DEF Inserts
  <2>4. \A m \in Messages : runs'[m] \in Nat /\ runs'[m] >= runs[m]
    BY <2>2 DEF TypeOK
  <2>5. runs'[n] > 0 /\ \A m \in Messages : m # n => runs'[m] = runs[m]
    BY <2>2 DEF TypeOK
  <2>6. child'[n] # "none"
    <3>1. worker[k].found => child[n] # "none"
      BY <2>2 DEF RowInv, Finds
    <3> QED
      BY <2>2, <3>1 DEF Committed
  <2> HIDE DEF inserted, Away
  <2> QED
    BY <1>9, <2>1, <2>2, <2>3, <2>4, <2>5, <2>6
<1>11. ASSUME NEW k \in Workers, NEW inserted \in SUBSET Messages, Alone(k), Away(k),
              worker'[k].noted = { }, child' = Committed(k, inserted), runs' = runs,
              \A n \in inserted : Inserts(k, n)
       PROVE  RowInv'
  <2>1. \A n \in Messages : runs'[n] \in Nat /\ runs'[n] >= runs[n]
    BY <1>11 DEF TypeOK
  <2> HIDE DEF Away
  <2> QED
    BY <1>9, <1>11, <2>1
<1>12. ASSUME NEW k \in Workers, Finish(k) PROVE RowInv'
  <2>1. Away(k) /\ runs' = runs
    BY <1>12, FinishFrame DEF Finish
  <2> HIDE DEF Away
  <2> QED
    BY <1>11, <1>12, <2>1, FinishFrame
<1>13. ASSUME NEW k \in Workers, Fails(k) PROVE RowInv'
  <2>1. Away(k)
    BY <1>13, FailsFrame
  <2>2. PICK inserted \in SUBSET Messages :
          /\ child' = Committed(k, inserted)
          /\ \A n \in inserted : Inserts(k, n)
    BY <1>13, FailsFrame DEF Inserts
  <2> HIDE DEF Away
  <2> QED
    BY <1>11, <1>13, <2>1, <2>2, FailsFrame
<1>14. CASE SubscriptionAction \/ HandlerAction
  BY <1>1, <1>14, SubscriptionFrame, HandlerFrame DEF rowVars
<1> QED
  BY <1>3, <1>4, <1>5, <1>6, <1>7, <1>8, <1>10, <1>12, <1>13, <1>14, NextActions
     DEF WorkerAction, WorkerStep, Leaves, Fails

------------------------------------------------------------------------------
\* What a worker has read, and what it has left.

Covered(s, n) == runs[n] > 0 \/ n \in skipped[s]

FromInv(k) == AtWork(k) => \A n \in After(0, worker[k].from) : Covered(worker[k].sub, n)

ListedInv(k) ==
  worker[k].at \in {"look", "fetch", "start"} =>
    /\ worker[k].message <= worker[k].newest
    /\ IF provider = "gmail"
       THEN \A n \in After(worker[k].from, worker[k].newest) :
              n <= worker[k].from + PageSize => n \in worker[k].todo \/ runs[n] > 0
       ELSE worker[k].message \in worker[k].todo \/ runs[worker[k].message] > 0

ReadInv == \A k \in Workers : FromInv(k) /\ ListedInv(k)

\* Nothing that was started or passed over is ever forgotten.
LEMMA Monotone ==
  ASSUME TypeOK, Arrived, Next
  PROVE  /\ provider' = provider
         /\ \A n \in Messages : runs[n] > 0 => runs'[n] > 0
         /\ \A s \in Subscriptions, n \in Messages : Covered(s, n) => Covered(s, n)'
<1>1. CASE SubscriptionAction
  <2>1. UNCHANGED << provider, runs >>
    BY <1>1, SubscriptionFrame DEF rowVars
  <2>2. \A s \in Subscriptions : skipped[s] \subseteq skipped'[s]
    <3>1. ASSUME NEW s \in Subscriptions, Register(s)
          PROVE  \A t \in Subscriptions : skipped[t] \subseteq skipped'[t]
      BY <3>1 DEF Register, TypeOK, Arrived, NumbersInv
    <3>2. CASE RenewCommit
      BY <3>2 DEF RenewCommit
    <3>3. skipped' = skipped \/ RenewCommit \/ \E s \in Subscriptions : Register(s)
      BY <1>1 DEF SubscriptionAction, Arrive, Disconnect, Publish, Disable, RenewAsk,
                  subscriptionVars
    <3> QED
      BY <3>1, <3>2, <3>3
  <2> QED
    BY <2>1, <2>2 DEF Covered
<1>2. CASE HandlerAction
  BY <1>2, HandlerFrame DEF Covered, subscriptionVars, Arrived
<1>3. CASE WorkerAction
  <2>1. \A n \in Messages : runs[n] > 0 => runs'[n] > 0
    <3>1. ASSUME NEW k \in Workers, NEW n \in Messages, Start(k, n)
          PROVE  \A m \in Messages : runs[m] > 0 => runs'[m] > 0
      <4>1. runs' = [runs EXCEPT ![n] = runs[n] + 1]
        BY <3>1 DEF Start
      <4>2. runs \in [Messages -> Nat]
        BY DEF TypeOK
      <4> QED
        BY <4>1, <4>2
    <3> QED
      BY <1>3, <3>1, WorkerFrame
  <2>2. \A s \in Subscriptions : skipped[s] \subseteq skipped'[s]
    <3>1. ASSUME NEW k \in Workers, Finish(k)
          PROVE  \A s \in Subscriptions : skipped[s] \subseteq skipped'[s]
      <4> DEFINE over == After(worker[k].from + PageSize, worker[k].newest)
      <4>1. \/ skipped' = [skipped EXCEPT ![worker[k].sub] = skipped[worker[k].sub] \cup over]
            \/ skipped' = skipped
        BY <3>1 DEF Finish
      <4> HIDE DEF over
      <4> QED
        BY <4>1 DEF TypeOK
    <3> QED
      BY <1>3, <3>1, WorkerFrame
  <2> QED
    BY <1>3, <2>1, <2>2, WorkerFrame DEF Covered
<1> QED
  BY <1>1, <1>2, <1>3, NextActions

\* A session that is not changed has read no less.
LEMMA ReadOthers ==
  ASSUME TypeOK, Arrived, Next, NEW k \in Workers, worker'[k] = worker[k],
         FromInv(k), ListedInv(k)
  PROVE  FromInv(k)' /\ ListedInv(k)'
<1>1. worker[k].sub \in Subscriptions
  BY DEF TypeOK, WorkerSession
<1>2. \A n : n \in After(0, worker[k].from) => n \in Messages
  BY DEF After
<1>3. \A n : n \in After(worker[k].from, worker[k].newest) => n \in Messages
  BY DEF After
<1>4. FromInv(k)'
  BY <1>1, <1>2, Monotone DEF FromInv, AtWork, After
<1>5. worker[k].at # "idle" => worker[k].message \in Messages
  BY DEF Arrived, Engaged
<1>6. ListedInv(k)'
  <2> SUFFICES ASSUME worker[k].at \in {"look", "fetch", "start"}
               PROVE  /\ worker[k].message <= worker[k].newest
                      /\ IF provider = "gmail"
                         THEN \A n \in After(worker[k].from, worker[k].newest) :
                                n <= worker[k].from + PageSize
                                  => n \in worker[k].todo \/ runs'[n] > 0
                         ELSE worker[k].message \in worker[k].todo
                                \/ runs'[worker[k].message] > 0
    BY Monotone DEF ListedInv, After
  <2> QED
    BY <1>3, <1>5, Monotone DEF ListedInv
<1> QED
  BY <1>4, <1>6

\* Every step keeps what the workers have read covered.
LEMMA ReadKept ==
  ASSUME TypeOK, Arrived, Claims, RowInv, CursorBehindRuns, ReadInv, Next
  PROVE  ReadInv'
<1>1. CASE worker' = worker
  BY <1>1, ReadOthers DEF ReadInv
<1>2. ASSUME NEW k \in Workers, Alone(k), FromInv(k)' /\ ListedInv(k)'
      PROVE  ReadInv'
  <2>1. \A j \in Workers \ {k} : FromInv(j)' /\ ListedInv(j)'
    BY <1>2, ReadOthers DEF ReadInv, Alone
  <2> QED
    BY <1>2, <2>1 DEF ReadInv
<1>3. ASSUME NEW k \in Workers, Alone(k), worker'[k].at \in {"idle", "claim", "retry", "ack"}
      PROVE  ReadInv'
  <2>1. FromInv(k)' /\ ListedInv(k)'
    BY <1>3 DEF FromInv, ListedInv, AtWork
  <2> QED
    BY <1>2, <1>3, <2>1
<1>4. ASSUME NEW k \in Workers, NEW s \in Subscriptions, NEW n \in Messages,
             NEW try \in 0 .. MaxRetries, Take(k, s, n, try)
      PROVE  ReadInv'
  BY <1>3, <1>4, TakeSession
<1>5. ASSUME NEW k \in Workers, Leaves(k) PROVE ReadInv'
  BY <1>3, <1>5, LeavesFrame, IdleTypes
<1>6. ASSUME NEW k \in Workers, Finish(k) PROVE ReadInv'
  BY <1>3, <1>6, FinishFrame DEF Arrived
<1>7. ASSUME NEW k \in Workers, Fails(k) PROVE ReadInv'
  BY <1>3, <1>7, FailsFrame DEF Arrived
<1>8. ASSUME NEW k \in Workers, Claim(k) PROVE ReadInv'
  <2>1. UNCHANGED << runs, skipped >> /\ Alone(k) /\ worker'[k].at = "list"
        /\ worker'[k].sub = worker[k].sub /\ worker'[k].from = cursor[worker[k].sub]
    BY <1>8, ClaimSession DEF Claim, rowVars, subscriptionVars, SameEvent
  <2>2. worker[k].sub \in Subscriptions
    BY DEF TypeOK, WorkerSession
  <2>3. FromInv(k)'
    BY <2>1, <2>2 DEF FromInv, CursorBehindRuns, Covered, After
  <2>4. ListedInv(k)'
    BY <2>1 DEF ListedInv
  <2> QED
    BY <1>2, <2>1, <2>3, <2>4
<1>9. ASSUME NEW k \in Workers, List(k) PROVE ReadInv'
  <2> DEFINE w == worker[k]
             v == worker'[k]
  <2>1. AtWork(k) /\ UNCHANGED << runs, skipped, provider, mail >>
    BY <1>9 DEF List, AtWork, rowVars, subscriptionVars, mailboxVars
  <2>2. w.message \in Messages /\ w.message <= mail
    <3>1. Status(k) # "none"
      BY <2>1 DEF Claims, ClaimInv, MayClaim
    <3> QED
      BY <2>1, <3>1, InHandType DEF Arrived, NumbersInv, Status, AtWork
  <2>3. /\ Alone(k) /\ v.at = "look" /\ v.sub = w.sub /\ v.message = w.message
        /\ v.from = w.from /\ v.newest = mail /\ v.todo = Page(k)
    BY <1>9, <2>2, ListSession DEF SameEvent
  <2>4. FromInv(k)'
    <3>1. \A n \in After(0, w.from) : Covered(w.sub, n)
      BY <2>1 DEF ReadInv, FromInv
    <3> QED
      BY <2>1, <2>3, <3>1 DEF FromInv, Covered, After
  <2>5. ListedInv(k)'
    <3>1. CASE provider = "gmail"
      <4>1. v.todo = { n \in After(w.from, mail) : n <= w.from + PageSize }
        BY <2>3, <3>1 DEF Page
      <4>2. \A n \in After(v.from, v.newest) : n <= v.from + PageSize => n \in v.todo
        BY <2>3, <4>1 DEF After
      <4> QED
        BY <2>1, <2>2, <2>3, <3>1, <4>2 DEF ListedInv, After
    <3>2. CASE provider # "gmail"
      BY <2>1, <2>2, <2>3, <3>2 DEF ListedInv, Page
    <3> QED
      BY <3>1, <3>2
  <2> QED
    BY <1>2, <2>3, <2>4, <2>5
\* What it has dealt with has a run.
<1>10. ASSUME NEW k \in Workers, NEW n \in Messages, Alone(k), SameEvent(k), SameReading(k),
              worker[k].at \in {"look", "fetch", "start"}, worker'[k].at \in {"look", "fetch", "start"},
              \/ worker'[k].todo = worker[k].todo
              \/ worker'[k].todo = worker[k].todo \ {n} /\ runs'[n] > 0
       PROVE  ReadInv'
  <2> DEFINE w == worker[k]
             v == worker'[k]
  <2>1. /\ v.sub = w.sub /\ v.message = w.message /\ v.from = w.from /\ v.newest = w.newest
    BY <1>10 DEF SameEvent, SameReading
  <2>2. w.sub \in Subscriptions /\ w.message \in Messages
    BY <1>10 DEF TypeOK, WorkerSession, Arrived, Engaged
  <2>3. \A m \in Messages : m \in w.todo \/ runs[m] > 0 => m \in v.todo \/ runs'[m] > 0
    BY <1>10, Monotone
  <2>4. FromInv(k) /\ ListedInv(k)
    BY DEF ReadInv
  <2>5. FromInv(k)'
    <3>1. AtWork(k)
      BY <1>10 DEF AtWork
    <3> QED
      BY <2>1, <2>2, <2>4, <3>1, Monotone DEF FromInv, After
  <2>6. ListedInv(k)'
    <3>1. provider' = provider
      BY Monotone
    <3> QED
      BY <1>10, <2>1, <2>2, <2>3, <2>4, <3>1 DEF ListedInv, After
  <2> QED
    BY <1>2, <1>10, <2>5, <2>6
<1>11. ASSUME NEW k \in Workers, NEW n \in Messages, Look(k, n) PROVE ReadInv'
  <2>1. worker[k].at = "look" /\ runs' = runs
    BY <1>11 DEF Look, rowVars
  <2>2. child[n] = "processed" => runs[n] > 0
    BY DEF RowInv
  <2> QED
    BY <1>10, <1>11, <2>1, <2>2, LookSession
<1>12. ASSUME NEW k \in Workers, NEW n \in Messages, Fetch(k, n) PROVE ReadInv'
  <2>1. worker[k].at = "fetch"
    BY <1>12 DEF Fetch
  <2> QED
    BY <1>10, <1>12, <2>1, FetchSession
<1>13. ASSUME NEW k \in Workers, NEW n \in Messages, Start(k, n) PROVE ReadInv'
  <2>1. worker[k].at = "start" /\ runs'[n] > 0
    BY <1>13 DEF Start, TypeOK
  <2> QED
    BY <1>10, <1>13, <2>1, StartSession
<1> QED
  BY <1>1, <1>4, <1>5, <1>6, <1>7, <1>8, <1>9, <1>11, <1>12, <1>13, NextActions,
     SubscriptionFrame, HandlerFrame
     DEF WorkerAction, WorkerStep, Leaves, Fails, Arrived

------------------------------------------------------------------------------
\* The cursors and what is processed.

\* No step moves a cursor past a message without a run, but those it records as skipped.
LEMMA CursorKept ==
  ASSUME TypeOK, Arrived, CursorBehindRuns, ReadInv, Next
  PROVE  CursorBehindRuns'
<1> DEFINE Good(s) == \A n \in After(0, cursor'[s]) : Covered(s, n)'
<1>1. ASSUME NEW s \in Subscriptions, cursor'[s] = cursor[s] PROVE Good(s)
  <2>1. \A n \in After(0, cursor[s]) : n \in Messages /\ Covered(s, n)
    BY DEF CursorBehindRuns, Covered, After
  <2> QED
    BY <1>1, <2>1, Monotone
<1>2. ASSUME NEW s \in Subscriptions, Register(s) PROVE \A t \in Subscriptions : Good(t)
  <2>1. \A t \in Subscriptions \ {s} : cursor'[t] = cursor[t]
    BY <1>2 DEF Register, TypeOK
  <2>2. cursor'[s] = mail /\ skipped'[s] = After(0, mail)
    BY <1>2 DEF Register, TypeOK
  <2>3. Good(s)
    BY <2>2 DEF Covered
  <2> QED
    BY <1>1, <2>1, <2>3
<1>3. ASSUME RenewCommit PROVE \A t \in Subscriptions : Good(t)
  <2> SUFFICES ASSUME NEW s \in Subscriptions, cursor'[s] # cursor[s] PROVE Good(s)
    BY <1>1
  <2>1. cursor'[s] = renewal[s] /\ skipped'[s] = skipped[s] \cup After(cursor[s], renewal[s])
    BY <1>3 DEF RenewCommit
  <2>2. cursor[s] \in Int /\ renewal[s] \in Int
    BY RenewalInt, MailInboxAssumption DEF TypeOK
  <2>3. ASSUME NEW n \in After(0, renewal[s]) PROVE Covered(s, n)'
    <3>1. n \in Messages /\ n \in Int
      BY MailInboxAssumption DEF After, Messages
    <3>2. n \in After(0, cursor[s]) \/ n \in After(cursor[s], renewal[s])
      BY <2>2, <2>3, <3>1 DEF After
    <3>3. n \in After(0, cursor[s]) => Covered(s, n)
      BY DEF CursorBehindRuns, Covered
    <3> QED
      BY <2>1, <3>1, <3>2, <3>3, Monotone DEF Covered
  <2> QED
    BY <2>1, <2>3
<1>4. ASSUME NEW k \in Workers, Finish(k) PROVE \A s \in Subscriptions : Good(s)
  <2> DEFINE w == worker[k]
             over == After(w.from + PageSize, w.newest)
  <2> SUFFICES ASSUME NEW s \in Subscriptions, cursor'[s] # cursor[s] PROVE Good(s)
    BY <1>1
  <2>1. provider = "gmail" /\ w.at = "look" /\ w.todo = { } /\ runs' = runs
    BY <1>4 DEF Finish
  <2>2. /\ cursor' = [cursor EXCEPT ![w.sub] = w.newest]
        /\ skipped' = [skipped EXCEPT ![w.sub] = skipped[w.sub] \cup over]
    BY <1>4, <2>1 DEF Finish
  <2>3. s = w.sub /\ cursor'[s] = w.newest /\ skipped'[s] = skipped[s] \cup over
    <3> HIDE DEF over
    <3> QED
      BY <2>2 DEF TypeOK
  <2>4. w.from \in Int /\ w.newest \in Int /\ PageSize \in Int
    BY MailInboxAssumption DEF TypeOK, WorkerSession
  <2>5. ASSUME NEW n \in After(0, w.newest) PROVE Covered(s, n)'
    <3>1. n \in Messages /\ n \in Int
      BY MailInboxAssumption DEF After, Messages
    <3>2. \/ n \in After(0, w.from)
          \/ n \in After(w.from, w.newest) /\ n <= w.from + PageSize
          \/ n \in over
      BY <2>4, <2>5, <3>1 DEF After
    <3>3. n \in After(0, w.from) => Covered(s, n)
      BY <2>1, <2>3 DEF ReadInv, FromInv, AtWork
    <3>4. n \in After(w.from, w.newest) /\ n <= w.from + PageSize => Covered(s, n)
      BY <2>1 DEF ReadInv, ListedInv, Covered
    <3> HIDE DEF over
    <3> QED
      BY <2>3, <3>1, <3>2, <3>3, <3>4, Monotone DEF Covered
  <2> QED
    BY <2>3, <2>5
<1>5. \/ cursor' = cursor \/ RenewCommit
      \/ \E s \in Subscriptions : Register(s)
      \/ \E k \in Workers : Finish(k)
  <2>1. SubscriptionAction =>
          cursor' = cursor \/ RenewCommit \/ \E s \in Subscriptions : Register(s)
    BY DEF SubscriptionAction, Arrive, Disconnect, Publish, Disable, RenewAsk, subscriptionVars
  <2> QED
    BY <2>1, NextActions, HandlerFrame, WorkerFrame DEF subscriptionVars, Arrived
<1>6. \A s \in Subscriptions : Good(s)
  BY <1>1, <1>2, <1>3, <1>4, <1>5
<1> QED
  BY <1>6 DEF CursorBehindRuns, Covered, After

\* No step makes an event processed whose message has no run and is not skipped.
LEMMA ProcessedKept ==
  ASSUME TypeOK, Arrived, ReadInv, ProcessedIsHandled, Next
  PROVE  ProcessedIsHandled'
<1> DEFINE Good(s, n) ==
      event'[s][n] = "processed" => runs'[n] > 0 \/ (provider = "gmail" /\ n \in skipped'[s])
<1>1. ASSUME NEW s \in Subscriptions, NEW n \in Messages,
             event'[s][n] = event[s][n] \/ event'[s][n] # "processed"
      PROVE  Good(s, n)
  <2> SUFFICES ASSUME event[s][n] = "processed", provider = "gmail" => n \notin skipped'[s]
               PROVE  runs'[n] > 0
    BY <1>1
  <2>1. runs[n] > 0 \/ provider = "gmail"
    BY DEF ProcessedIsHandled
  <2>2. provider = "gmail" => Covered(s, n)
    BY DEF ProcessedIsHandled, Covered
  <2> QED
    BY <2>1, <2>2, Monotone DEF Covered
<1>2. CASE SubscriptionAction \/ HandlerAction
  <2>1. \A s \in Subscriptions, n \in Messages :
          event'[s][n] = event[s][n] \/ event'[s][n] # "processed"
    BY <1>2, SubscriptionFrame, HandlerFrame DEF rowVars, Arrived
  <2> QED
    BY <1>1, <2>1, Monotone DEF ProcessedIsHandled
<1>3. ASSUME NEW k \in Workers, NEW status, Writes(k, status),
             status = "processed" => Good(worker[k].sub, worker[k].message)
      PROVE  ProcessedIsHandled'
  <2>1. ASSUME NEW s \in Subscriptions, NEW n \in Messages PROVE Good(s, n)
    BY <1>1, <1>3 DEF Writes
  <2> QED
    BY <2>1, Monotone DEF ProcessedIsHandled
<1>4. ASSUME NEW k \in Workers, Finish(k) PROVE ProcessedIsHandled'
  <2> DEFINE w == worker[k]
             over == After(w.from + PageSize, w.newest)
  <2>1. w.at = "look" /\ w.todo = { } /\ runs' = runs
    BY <1>4 DEF Finish
  <2>2. w.sub \in Subscriptions /\ w.message \in Messages
    BY <2>1, InHandType DEF Arrived
  <2>3. w.from \in Int /\ w.newest \in Int /\ w.message \in Int /\ PageSize \in Int
    BY MailInboxAssumption DEF TypeOK, WorkerSession
  <2>4. CASE provider = "gmail"
    <3>1. skipped' = [skipped EXCEPT ![w.sub] = skipped[w.sub] \cup over]
      BY <1>4, <2>4 DEF Finish
    <3>2. skipped'[w.sub] = skipped[w.sub] \cup over
      <4> HIDE DEF over
      <4> QED
        BY <2>2, <3>1 DEF TypeOK
    <3>3. w.message <= w.newest
      BY <2>1 DEF ReadInv, ListedInv
    <3>4. \/ w.message \in After(0, w.from)
          \/ w.message \in After(w.from, w.newest) /\ w.message <= w.from + PageSize
          \/ w.message \in over
      BY <2>2, <2>3, <3>3, MailInboxAssumption DEF After, Messages
    <3>5. w.message \in After(0, w.from) => Covered(w.sub, w.message)
      BY <2>1 DEF ReadInv, FromInv, AtWork
    <3>6. w.message \in After(w.from, w.newest) /\ w.message <= w.from + PageSize
            => Covered(w.sub, w.message)
      BY <2>1, <2>4 DEF ReadInv, ListedInv, Covered
    <3> HIDE DEF over
    <3>7. Good(w.sub, w.message)
      BY <2>1, <2>4, <3>2, <3>4, <3>5, <3>6 DEF Covered
    <3> QED
      BY <1>3, <1>4, <3>7, FinishFrame DEF Arrived
  <2>5. CASE provider # "gmail"
    <3>1. runs[w.message] > 0
      BY <2>1, <2>5 DEF ReadInv, ListedInv
    <3> QED
      BY <1>3, <1>4, <2>1, <3>1, FinishFrame DEF Arrived
  <2> QED
    BY <2>4, <2>5
<1>5. ASSUME NEW k \in Workers, NEW n \in Messages, Start(k, n) PROVE ProcessedIsHandled'
  BY <1>3, <1>5, StartFrame DEF Arrived
<1>6. ASSUME NEW k \in Workers, Fails(k) PROVE ProcessedIsHandled'
  BY <1>3, <1>6, FailsFrame DEF Arrived
<1>7. CASE event' = event
  <2>1. ASSUME NEW s \in Subscriptions, NEW n \in Messages PROVE Good(s, n)
    BY <1>1, <1>7
  <2> QED
    BY <2>1, Monotone DEF ProcessedIsHandled
<1>8. WorkerAction =>
        \/ event' = event
        \/ \E k \in Workers : Finish(k) \/ Fails(k) \/ \E n \in Messages : Start(k, n)
  BY WorkerEvents
<1> QED
  BY <1>2, <1>4, <1>5, <1>6, <1>7, <1>8, NextActions

------------------------------------------------------------------------------
\* The events' tasks.

TaskInv ==
  \A k \in Workers : worker[k].at = "ack" => Status(k) = "processed" \/ InHand(k) \in stranded

Worked(s, n) == \E k \in Workers : AtWork(k) /\ Holds(k, s, n)

Tasked(s, n) ==
  << s, n >> \notin stranded =>
    /\ event[s][n] \in {"pending", "failed"} =>
         queue[s][n] # { } \/ WillSubmit(s, n) \/ WillRetry(s, n)
    /\ event[s][n] = "processing" => Worked(s, n)

\* The property, one event at a time.
LEMMA TaskedAll == NoEventForgotten <=> \A s \in Subscriptions, n \in Messages : Tasked(s, n)
  BY DEF NoEventForgotten, Tasked, Worked

\* A stranded event stays on record.
LEMMA StrandedGrows == Next => stranded \subseteq stranded'
<1>1. SubscriptionAction => stranded' = stranded
  BY SubscriptionFrame
<1>2. HandlerAction => stranded \subseteq stranded'
  BY DEF HandlerAction, HandlerStep, Ingest, IngestDuplicate, Accept, RequestFails, Deliver,
         PushAgain
<1>3. WorkerAction => stranded \subseteq stranded'
  <2>1. ASSUME NEW k \in Workers,
               \/ Claim(k) \/ Decline(k) \/ List(k) \/ Finish(k) \/ ProviderFails(k) \/ Ack(k)
               \/ Retry(k) \/ Crash(k) \/ TransportFails(k)
        PROVE  stranded \subseteq stranded'
    BY <2>1 DEF Claim, Decline, List, Finish, ProviderFails, Ack, Retry, Crash,
               TransportFails
  <2>2. ASSUME NEW k \in Workers, NEW n \in Messages,
               Look(k, n) \/ Fetch(k, n) \/ FetchConflict(k, n) \/ Start(k, n) \/ StartRefused(k, n)
        PROVE  stranded \subseteq stranded'
    BY <2>2 DEF Look, Fetch, FetchConflict, Start, StartRefused
  <2>3. ASSUME NEW k \in Workers, NEW s \in Subscriptions, NEW n \in Messages,
               NEW try \in 0 .. MaxRetries, Take(k, s, n, try)
        PROVE  stranded \subseteq stranded'
    BY <2>3 DEF Take
  <2> QED
    BY <2>1, <2>2, <2>3 DEF WorkerAction, WorkerStep
<1> QED
  BY <1>1, <1>2, <1>3, NextActions

\* Who is about to acknowledge has processed its event or stranded it.
LEMMA AcksKept ==
  ASSUME TypeOK, Arrived, Claims, TaskInv, Next
  PROVE  TaskInv'
<1>1. CASE SubscriptionAction
  BY <1>1, SubscriptionFrame DEF TaskInv, Status, InHand, rowVars
<1>2. CASE HandlerAction
  <2>1. worker' = worker /\ stranded \subseteq stranded'
    BY <1>2, HandlerFrame, StrandedGrows DEF Arrived
  <2>2. \A k \in Workers : worker[k].at = "ack" /\ Status(k) = "processed" => Status(k)' = "processed"
    BY <1>2, <2>1, HandlerFrame, InHandType DEF Arrived, Status
  <2> QED
    BY <2>1, <2>2 DEF TaskInv, InHand
<1>3. ASSUME NEW k \in Workers, Alone(k), worker'[k].at # "ack", event' = event
      PROVE  TaskInv'
  BY <1>3, StrandedGrows DEF TaskInv, Alone, Status, InHand
<1>4. ASSUME NEW k \in Workers, NEW status, AtWork(k), Alone(k), SameEvent(k), Writes(k, status),
             worker'[k].at = "ack" => status = "processed" \/ InHand(k) \in stranded'
      PROVE  TaskInv'
  <2>1. Status(k) # "processed"
    BY <1>4 DEF Claims, ClaimInv, MayClaim
  <2>2. ASSUME NEW j \in Workers \ {k}, worker'[j].at = "ack"
        PROVE  Status(j)' = "processed" \/ InHand(j)' \in stranded'
    <3>1. worker'[j] = worker[j]
      BY <1>4 DEF Alone
    <3>2. worker[j].sub \in Subscriptions /\ worker[j].message \in Messages
      BY <2>2, <3>1, InHandType DEF Arrived
    <3>3. Status(j) = "processed" => Status(j)' = "processed"
      BY <1>4, <2>1, <3>1, <3>2 DEF Status, Writes
    <3> QED
      BY <2>2, <3>1, <3>3, StrandedGrows DEF TaskInv, InHand
  <2>3. Status(k)' = status /\ InHand(k)' = InHand(k)
    BY <1>4 DEF Writes, SameEvent, Status, InHand
  <2> QED
    BY <1>4, <2>2, <2>3 DEF TaskInv
<1>5. ASSUME NEW k \in Workers, NEW s \in Subscriptions, NEW n \in Messages,
             NEW try \in 0 .. MaxRetries, Take(k, s, n, try)
      PROVE  TaskInv'
  BY <1>3, <1>5, TakeSession DEF Take, rowVars
<1>6. ASSUME NEW k \in Workers, Leaves(k) PROVE TaskInv'
  BY <1>3, <1>6, LeavesFrame, IdleTypes DEF rowVars
<1>7. ASSUME NEW k \in Workers, Claim(k) PROVE TaskInv'
  BY <1>3, <1>7, ClaimSession DEF Claim, rowVars
<1>8. ASSUME NEW k \in Workers, List(k) PROVE TaskInv'
  BY <1>3, <1>8, ListSession DEF List, rowVars, Arrived, Engaged
<1>9. ASSUME NEW k \in Workers, NEW n \in Messages, Look(k, n) PROVE TaskInv'
  <2>1. worker'[k].at # "ack" /\ Alone(k)
    BY <1>9, LookSession
  <2> QED
    BY <1>3, <1>9, <2>1 DEF Look, rowVars
<1>10. ASSUME NEW k \in Workers, NEW n \in Messages, Fetch(k, n) PROVE TaskInv'
  BY <1>3, <1>10, FetchSession DEF Fetch, rowVars
<1>11. ASSUME NEW k \in Workers, NEW n \in Messages, Start(k, n) PROVE TaskInv'
  <2>1. AtWork(k)
    BY <1>11 DEF Start, AtWork
  <2> QED
    BY <1>4, <1>11, <2>1, StartSession, StartFrame DEF Arrived
<1>12. ASSUME NEW k \in Workers, Finish(k) PROVE TaskInv'
  <2>1. AtWork(k)
    BY <1>12 DEF Finish, AtWork
  <2> QED
    BY <1>4, <1>12, <2>1, FinishFrame DEF Arrived
<1>13. ASSUME NEW k \in Workers, Fails(k) PROVE TaskInv'
  BY <1>4, <1>13, FailsFrame DEF Arrived
<1> QED
  BY <1>1, <1>2, <1>5, <1>6, <1>7, <1>8, <1>9, <1>10, <1>11, <1>12, <1>13, NextActions
     DEF WorkerAction, WorkerStep, Leaves, Fails

\* A request hands over its tasks, or they are lost.
LEMMA TasksByHandler ==
  ASSUME TypeOK, Arrived, NoEventForgotten, HandlerAction, Next
  PROVE  NoEventForgotten'
<1>1. worker' = worker /\ stranded \subseteq stranded'
  BY HandlerFrame, StrandedGrows DEF Arrived
<1>2. ASSUME NEW s \in Subscriptions, NEW n \in Messages,
             queue[s][n] \subseteq queue'[s][n],
             \/ event'[s][n] = event[s][n]
             \/ event'[s][n] = "pending" /\ WillSubmit(s, n)',
             WillSubmit(s, n) =>
               WillSubmit(s, n)' \/ queue'[s][n] # { } \/ << s, n >> \in stranded'
      PROVE  Tasked(s, n)'
  <2>1. Tasked(s, n)
    BY TaskedAll
  <2>2. (WillRetry(s, n) => WillRetry(s, n)') /\ (Worked(s, n) => Worked(s, n)')
    BY <1>1 DEF WillRetry, Worked, Holds, AtWork
  <2> QED
    BY <1>1, <1>2, <2>1, <2>2 DEF Tasked
<1>3. ASSUME NEW s \in Subscriptions, NEW n \in Messages
      PROVE  \/ event'[s][n] = event[s][n]
             \/ event'[s][n] = "pending" /\ WillSubmit(s, n)'
  BY HandlerFrame DEF Arrived, WillSubmit
\* A request that ends, and what it has submitted.
<1>4. ASSUME NEW h \in Handlers, NEW sent \in SUBSET Subscriptions,
             handler' = [handler EXCEPT ![h] = IdleHandler], queue' = Submitted(h, sent),
             (handler[h].created \ sent) \X {handler[h].message} \subseteq stranded'
      PROVE  NoEventForgotten'
  <2> SUFFICES ASSUME NEW s \in Subscriptions, NEW n \in Messages PROVE Tasked(s, n)'
    BY TaskedAll DEF NoEventForgotten, Tasked, Worked
  <2>1. queue[s][n] \subseteq queue'[s][n] /\ (s \in sent /\ n = handler[h].message => queue'[s][n] # { })
    BY <1>4 DEF Submitted, TypeOK
  <2>2. \A g \in Handlers \ {h} : handler'[g] = handler[g]
    BY <1>4 DEF TypeOK
  <2>3. WillSubmit(s, n) => WillSubmit(s, n)' \/ queue'[s][n] # { } \/ << s, n >> \in stranded'
    BY <1>4, <2>1, <2>2 DEF WillSubmit
  <2> QED
    BY <1>2, <1>3, <2>1, <2>3
\* A request that goes on.
<1>5. ASSUME queue' = queue,
             \A g \in Handlers :
               /\ handler[g].created \subseteq handler'[g].created
               /\ handler[g].created # { } => handler'[g].message = handler[g].message
      PROVE  NoEventForgotten'
  <2> SUFFICES ASSUME NEW s \in Subscriptions, NEW n \in Messages PROVE Tasked(s, n)'
    BY TaskedAll DEF NoEventForgotten, Tasked, Worked
  <2>1. WillSubmit(s, n) => WillSubmit(s, n)'
    BY <1>5 DEF WillSubmit
  <2> QED
    BY <1>2, <1>3, <1>5, <2>1
<1>6. ASSUME NEW h \in Handlers, NEW s \in Subscriptions, Ingest(h, s) PROVE NoEventForgotten'
  <2>1. \A g \in Handlers :
          /\ handler[g].created \subseteq handler'[g].created
          /\ handler'[g].message = handler[g].message
    BY <1>6 DEF Ingest, TypeOK, HandlerSession
  <2> QED
    BY <1>5, <1>6, <2>1 DEF Ingest
<1>7. ASSUME NEW h \in Handlers, NEW s \in Subscriptions, IngestDuplicate(h, s)
      PROVE  NoEventForgotten'
  <2>1. CASE handler' = [handler EXCEPT ![h].todo = { }]
    <3>1. \A g \in Handlers :
            /\ handler[g].created \subseteq handler'[g].created
            /\ handler'[g].message = handler[g].message
      BY <2>1 DEF TypeOK, HandlerSession
    <3> QED
      BY <1>5, <1>7, <3>1 DEF IngestDuplicate
  <2>2. CASE /\ handler' = [handler EXCEPT ![h] = IdleHandler]
             /\ stranded' = stranded \cup (handler[h].created \X {handler[h].message})
    <3>1. queue' = queue
      BY <1>7 DEF IngestDuplicate
    <3>2. queue' = Submitted(h, { })
      BY <3>1 DEF Submitted, TypeOK
    <3>3. (handler[h].created \ { }) \X {handler[h].message} \subseteq stranded'
      BY <2>2
    <3>4. { } \in SUBSET Subscriptions
      OBVIOUS
    <3> QED
      BY <1>4, <2>2, <3>2, <3>3, <3>4
  <2> QED
    BY <1>7, <2>1, <2>2 DEF IngestDuplicate
<1>8. ASSUME NEW h \in Handlers, Accept(h) PROVE NoEventForgotten'
  <2>1. handler[h].created \in SUBSET Subscriptions
    BY DEF TypeOK, HandlerSession
  <2> QED
    BY <1>4, <1>8, <2>1 DEF Accept
<1>9. ASSUME NEW h \in Handlers, RequestFails(h) PROVE NoEventForgotten'
  <2>1. PICK sent \in SUBSET handler[h].created :
          /\ queue' = Submitted(h, sent)
          /\ stranded' = stranded \cup ((handler[h].created \ sent) \X {handler[h].message})
    BY <1>9 DEF RequestFails
  <2>2. sent \in SUBSET Subscriptions
    BY DEF TypeOK, HandlerSession
  <2> QED
    BY <1>4, <1>9, <2>1, <2>2 DEF RequestFails
<1>10. ASSUME NEW h \in Handlers, NEW p \in pushes, Deliver(h, p[1], p[2]) PROVE NoEventForgotten'
  <2>1. handler[h].created = { } /\ \A g \in Handlers \ {h} : handler'[g] = handler[g]
    BY <1>10 DEF Deliver, TypeOK, Arrived, RequestInv
  <2> QED
    BY <1>5, <1>10, <2>1 DEF Deliver
<1>11. ASSUME NEW s \in Subscriptions, NEW n \in Messages, PushAgain(s, n) PROVE NoEventForgotten'
  BY <1>5, <1>11 DEF PushAgain
<1> QED
  BY <1>6, <1>7, <1>8, <1>9, <1>10, <1>11 DEF HandlerAction, HandlerStep

\* A worker ends a task, hands it on or loses it.
LEMMA TasksByWorker ==
  ASSUME TypeOK, Arrived, Claims, TaskInv, NoEventForgotten, WorkerAction, Next
  PROVE  NoEventForgotten'
<1>1. handler' = handler /\ stranded \subseteq stranded'
  BY WorkerFrame, StrandedGrows
<1>2. \A s \in Subscriptions, n \in Messages : WillSubmit(s, n) => WillSubmit(s, n)'
  BY <1>1 DEF WillSubmit
<1>3. ASSUME NEW k \in Workers, Alone(k), NEW s \in Subscriptions, NEW n \in Messages
      PROVE  /\ WillRetry(s, n) /\ ~(worker[k].at = "retry" /\ Holds(k, s, n)) => WillRetry(s, n)'
             /\ Worked(s, n) /\ ~(AtWork(k) /\ Holds(k, s, n)) => Worked(s, n)'
  BY <1>3 DEF Alone, WillRetry, Worked, Holds, AtWork
<1> DEFINE At(k, s, n) == s = worker[k].sub /\ n = worker[k].message
\* The events the worker is not at.
<1>4. ASSUME NEW k \in Workers, Alone(k), NEW s \in Subscriptions, NEW n \in Messages,
             ~At(k, s, n), event'[s][n] = event[s][n], queue'[s][n] = queue[s][n]
      PROVE  Tasked(s, n)'
  <2>1. ~Holds(k, s, n) /\ Tasked(s, n)
    BY <1>4, TaskedAll DEF Holds
  <2> QED
    BY <1>1, <1>2, <1>3, <1>4, <2>1 DEF Tasked
\* Steps that leave the events and the queue as they are.
<1>5. ASSUME NEW k \in Workers, Alone(k), UNCHANGED << event, queue >>,
             worker[k].at # "idle" =>
               \/ InHand(k) \in stranded'
               \/ AtWork(k) /\ AtWork(k)' /\ SameEvent(k)
               \/ ~AtWork(k) /\ worker[k].at # "retry"
               \/ AtWork(k) /\ worker[k].locked
               \/ worker[k].at = "retry" /\ queue[worker[k].sub][worker[k].message] # { }
      PROVE  NoEventForgotten'
  <2> SUFFICES ASSUME NEW s \in Subscriptions, NEW n \in Messages, << s, n >> \notin stranded'
               PROVE  Tasked(s, n)'
    BY TaskedAll DEF NoEventForgotten, Tasked, Worked
  <2>1. CASE ~Holds(k, s, n)
    BY <1>1, <1>2, <1>3, <1>5, <2>1, TaskedAll DEF Tasked
  <2>2. CASE Holds(k, s, n)
    <3>1. At(k, s, n) /\ worker[k].at # "idle" /\ InHand(k) = << s, n >> /\ Tasked(s, n)
      BY <2>2, TaskedAll DEF Holds, InHand
    <3>2. CASE AtWork(k) /\ AtWork(k)' /\ SameEvent(k)
      <4>1. Worked(s, n)'
        BY <3>1, <3>2 DEF Worked, Holds, SameEvent, AtWork
      <4>2. worker[k].at # "retry"
        BY <3>2 DEF AtWork
      <4> QED
        BY <1>1, <1>2, <1>3, <1>5, <3>1, <4>1, <4>2 DEF Tasked
    <3>3. CASE ~AtWork(k) /\ worker[k].at # "retry"
      BY <1>1, <1>2, <1>3, <1>5, <3>1, <3>3 DEF Tasked
    <3>4. CASE AtWork(k) /\ worker[k].locked
      <4>1. event[s][n] \in {"pending", "failed"} /\ worker[k].at # "retry"
        BY <3>1, <3>4 DEF Claims, ClaimInv, MayClaim, Status, AtWork
      <4> QED
        BY <1>1, <1>2, <1>3, <1>5, <3>1, <4>1 DEF Tasked
    <3>5. CASE worker[k].at = "retry" /\ queue[worker[k].sub][worker[k].message] # { }
      <4>1. ~AtWork(k)
        BY <3>5 DEF AtWork
      <4> QED
        BY <1>1, <1>2, <1>3, <1>5, <3>1, <3>5, <4>1 DEF Tasked
    <3> QED
      BY <1>5, <2>2, <3>1, <3>2, <3>3, <3>4, <3>5
  <2> QED
    BY <2>1, <2>2
\* Steps that write the event.
<1>6. ASSUME NEW k \in Workers, NEW status, AtWork(k), Alone(k), SameEvent(k), Writes(k, status),
             queue' = queue,
             \/ status = "processing" /\ AtWork(k)'
             \/ status = "processed"
             \/ status = "failed" /\ worker'[k].at = "retry"
             \/ status = "failed" /\ InHand(k) \in stranded'
      PROVE  NoEventForgotten'
  <2> SUFFICES ASSUME NEW s \in Subscriptions, NEW n \in Messages, << s, n >> \notin stranded'
               PROVE  Tasked(s, n)'
    BY TaskedAll DEF NoEventForgotten, Tasked, Worked
  <2>1. CASE ~At(k, s, n)
    BY <1>4, <1>6, <2>1 DEF Writes
  <2>2. CASE At(k, s, n)
    <3>1. event'[s][n] = status /\ InHand(k) = << s, n >>
      BY <1>6, <2>2 DEF Writes, InHand
    <3>2. AtWork(k)' => Worked(s, n)'
      BY <1>6, <2>2 DEF Worked, Holds, SameEvent, AtWork
    <3>3. worker'[k].at = "retry" => WillRetry(s, n)'
      BY <1>6, <2>2 DEF WillRetry, Holds, SameEvent
    <3> QED
      BY <1>6, <3>1, <3>2, <3>3 DEF Tasked
  <2> QED
    BY <2>1, <2>2
\* Steps that take the task from the queue.
<1>7. ASSUME NEW k \in Workers, Alone(k), event' = event, worker[k].at # "idle",
             NEW tasks, queue' = [queue EXCEPT ![worker[k].sub][worker[k].message] = tasks],
             \/ tasks # { } /\ ~AtWork(k)
             \/ Status(k) = "processed"
             \/ ~MayClaim(Status(k)) /\ ~AtWork(k)
             \/ InHand(k) \in stranded'
      PROVE  NoEventForgotten'
  <2> SUFFICES ASSUME NEW s \in Subscriptions, NEW n \in Messages, << s, n >> \notin stranded'
               PROVE  Tasked(s, n)'
    BY TaskedAll DEF NoEventForgotten, Tasked, Worked
  <2>1. worker[k].sub \in Subscriptions /\ worker[k].message \in Messages
    BY <1>7, InHandType DEF Arrived
  <2>2. CASE ~At(k, s, n)
    <3>1. queue'[s][n] = queue[s][n]
      BY <1>7, <2>1, <2>2 DEF TypeOK
    <3> QED
      BY <1>4, <1>7, <2>2, <3>1
  <2>3. CASE At(k, s, n)
    <3>1. queue'[s][n] = tasks /\ InHand(k) = << s, n >> /\ Status(k) = event[s][n] /\ Tasked(s, n)
      BY <1>7, <2>1, <2>3, TaskedAll DEF TypeOK, InHand, Status
    <3>2. ~AtWork(k) /\ Worked(s, n) => Worked(s, n)'
      BY <1>3, <1>7
    <3> QED
      BY <1>1, <1>7, <3>1, <3>2 DEF Tasked, MayClaim
  <2> QED
    BY <2>2, <2>3
<1>8. ASSUME NEW k \in Workers, NEW s \in Subscriptions, NEW n \in Messages,
             NEW try \in 0 .. MaxRetries, Take(k, s, n, try)
      PROVE  NoEventForgotten'
  BY <1>5, <1>8, TakeSession DEF Take, rowVars
<1>9. ASSUME NEW k \in Workers, Claim(k) PROVE NoEventForgotten'
  <2>1. ~AtWork(k) /\ worker[k].at # "retry" /\ UNCHANGED << event, queue >>
    BY <1>9 DEF Claim, AtWork, rowVars
  <2> QED
    BY <1>5, <1>9, <2>1, ClaimSession
<1>10. ASSUME NEW k \in Workers, List(k) PROVE NoEventForgotten'
  <2>1. UNCHANGED << event, queue >> /\ AtWork(k)
    BY <1>10 DEF List, AtWork, rowVars
  <2>2. AtWork(k)' /\ Alone(k) /\ SameEvent(k)
    BY <1>10, ListSession DEF Arrived, Engaged, AtWork, List
  <2> QED
    BY <1>5, <2>1, <2>2
<1>11. ASSUME NEW k \in Workers, NEW n \in Messages, Look(k, n) PROVE NoEventForgotten'
  <2>1. UNCHANGED << event, queue >> /\ AtWork(k)
    BY <1>11 DEF Look, AtWork, rowVars
  <2>2. AtWork(k)' /\ Alone(k) /\ SameEvent(k)
    BY <1>11, LookSession DEF AtWork
  <2> QED
    BY <1>5, <2>1, <2>2
<1>12. ASSUME NEW k \in Workers, NEW n \in Messages, Fetch(k, n) PROVE NoEventForgotten'
  <2>1. UNCHANGED << event, queue >> /\ AtWork(k)
    BY <1>12 DEF Fetch, AtWork, rowVars
  <2>2. AtWork(k)' /\ Alone(k) /\ SameEvent(k)
    BY <1>12, FetchSession DEF AtWork
  <2> QED
    BY <1>5, <2>1, <2>2
<1>13. ASSUME NEW k \in Workers, NEW n \in Messages, Start(k, n) PROVE NoEventForgotten'
  <2>1. queue' = queue /\ AtWork(k)
    BY <1>13 DEF Start, AtWork
  <2>2. AtWork(k)' /\ Alone(k) /\ SameEvent(k) /\ Writes(k, "processing")
    BY <1>13, StartSession, StartFrame DEF AtWork, Arrived
  <2> QED
    BY <1>6, <2>1, <2>2
<1>14. ASSUME NEW k \in Workers, Finish(k) PROVE NoEventForgotten'
  <2>1. queue' = queue /\ AtWork(k)
    BY <1>14 DEF Finish, AtWork
  <2> QED
    BY <1>6, <1>14, <2>1, FinishFrame DEF Arrived
<1>15. ASSUME NEW k \in Workers, Fails(k) PROVE NoEventForgotten'
  <2>1. /\ AtWork(k) /\ Alone(k) /\ SameEvent(k) /\ Writes(k, "failed") /\ queue' = queue
        /\ worker'[k].at = "retry" \/ InHand(k) \in stranded'
    BY <1>15, FailsFrame DEF Arrived
  <2> QED
    BY <1>6, <2>1
<1> DEFINE left(k) == queue[worker[k].sub][worker[k].message] \ {worker[k].try}
<1>16. ASSUME NEW k \in Workers, Decline(k) PROVE NoEventForgotten'
  <2>1. /\ ~AtWork(k) /\ worker[k].at # "idle" /\ ~MayClaim(Status(k)) /\ event' = event
        /\ queue' = [queue EXCEPT ![worker[k].sub][worker[k].message] = left(k)]
    BY <1>16 DEF Decline, AtWork, Acknowledged, rowVars
  <2> QED
    BY <1>7, <1>16, <2>1, LeavesFrame DEF Leaves
<1>17. ASSUME NEW k \in Workers, Ack(k) PROVE NoEventForgotten'
  <2>1. /\ worker[k].at = "ack" /\ event' = event
        /\ queue' = [queue EXCEPT ![worker[k].sub][worker[k].message] = left(k)]
    BY <1>17 DEF Ack, Acknowledged, rowVars
  <2>2. Status(k) = "processed" \/ InHand(k) \in stranded'
    BY <1>1, <2>1 DEF TaskInv
  <2> QED
    BY <1>7, <1>17, <2>1, <2>2, LeavesFrame DEF Leaves
<1>18. ASSUME NEW k \in Workers, NEW n \in Messages, FetchConflict(k, n) PROVE NoEventForgotten'
  <2>1. /\ worker[k].at = "fetch" /\ event' = event /\ InHand(k) \in stranded'
        /\ queue' = [queue EXCEPT ![worker[k].sub][worker[k].message] = left(k)]
    BY <1>18 DEF FetchConflict, Acknowledged, rowVars
  <2> QED
    BY <1>7, <1>18, <2>1, LeavesFrame DEF Leaves
<1>19. ASSUME NEW k \in Workers, Retry(k) PROVE NoEventForgotten'
  <2> DEFINE again == IF worker[k].try < MaxRetries THEN {worker[k].try + 1} ELSE { }
  <2>1. /\ worker[k].at = "retry" /\ event' = event
        /\ queue' = [queue EXCEPT ![worker[k].sub][worker[k].message] = left(k) \cup again]
        /\ again = { } => InHand(k) \in stranded'
    BY <1>19 DEF Retry, rowVars
  <2>2. ~AtWork(k)
    BY <2>1 DEF AtWork
  <2>3. left(k) \cup again # { } \/ InHand(k) \in stranded'
    BY <2>1
  <2> HIDE DEF again
  <2> QED
    BY <1>7, <1>19, <2>1, <2>2, <2>3, LeavesFrame DEF Leaves
<1>20. ASSUME NEW k \in Workers, Crash(k) PROVE NoEventForgotten'
  <2>1. UNCHANGED << event, queue >> /\ (LosesTask(k) => InHand(k) \in stranded')
    BY <1>20 DEF Crash, rowVars
  <2> QED
    BY <1>5, <1>20, <2>1, LeavesFrame DEF Leaves, LosesTask
<1> QED
  BY <1>8, <1>9, <1>10, <1>11, <1>12, <1>13, <1>14, <1>15, <1>16, <1>17, <1>18, <1>19, <1>20
     DEF WorkerAction, WorkerStep, Fails

\* Every step leaves an event its task, or strands it.
LEMMA TasksKept ==
  ASSUME TypeOK, Arrived, Claims, TaskInv, NoEventForgotten, Next
  PROVE  NoEventForgotten'
<1>1. CASE SubscriptionAction
  BY <1>1, SubscriptionFrame DEF NoEventForgotten, WillSubmit, WillRetry, Holds, AtWork, rowVars
<1> QED
  BY <1>1, TasksByHandler, TasksByWorker, NextActions

------------------------------------------------------------------------------
\* The theorems.

IInv ==
  /\ TypeOK /\ Arrived /\ Claims /\ RowInv
  /\ CursorBehindRuns /\ ReadInv /\ ProcessedIsHandled
  /\ TaskInv /\ NoEventForgotten

\* The invariant holds at first.
LEMMA InitIInv == Init => IInv
<1> SUFFICES ASSUME Init PROVE IInv
  OBVIOUS
<1>1. TypeOK
  BY InitTyped
<1>2. \A k \in Workers : worker[k] = IdleWorker
  BY DEF Init
<1>3. \A k \in Workers : worker[k].at = "idle" /\ ~worker[k].locked /\ worker[k].noted = { }
                        /\ worker[k].newest = 0
  BY <1>2, IdleTypes
<1>4. Arrived
  BY <1>1, <1>3, MailInboxAssumption
     DEF Init, Arrived, RequestInv, Engaged, NumbersInv, IdleHandler, NoRenewal
<1>5. Claims /\ ReadInv /\ TaskInv
  BY <1>3 DEF Claims, ClaimInv, OneWorkerPerEvent, ReadInv, FromInv, ListedInv, TaskInv, AtWork
<1>6. RowInv
  BY <1>3 DEF Init, RowInv, Inserts, Finds
<1>7. CursorBehindRuns
  <2>1. \A s \in Subscriptions : cursor[s] = 0
    BY DEF Init
  <2> QED
    BY <2>1, MailInboxAssumption DEF CursorBehindRuns, After, Messages
<1>8. \A s \in Subscriptions, n \in Messages : event[s][n] = "none"
  BY DEF Init
<1>9. ProcessedIsHandled /\ NoEventForgotten
  BY <1>8 DEF ProcessedIsHandled, NoEventForgotten
<1> QED
  BY <1>1, <1>4, <1>5, <1>6, <1>7, <1>9 DEF IInv

\* Every step keeps it.
LEMMA NextIInv == IInv /\ Next => IInv'
<1> SUFFICES ASSUME IInv, Next PROVE IInv'
  OBVIOUS
<1> USE DEF IInv
<1>1. TypeOK'
  BY SubscriptionTyped, HandlerTyped, WorkerTyped, NextActions DEF SubscriptionAction, Arrived
<1>2. Arrived'
  BY ArrivedKept
<1>3. Claims'
  BY ClaimsKept DEF Arrived
<1>4. RowInv'
  BY RowsKept DEF Arrived
<1>5. CursorBehindRuns' /\ ReadInv' /\ ProcessedIsHandled'
  BY CursorKept, ReadKept, ProcessedKept
<1>6. TaskInv' /\ NoEventForgotten'
  BY AcksKept, TasksKept
<1> QED
  BY <1>1, <1>2, <1>3, <1>4, <1>5, <1>6

\* So does a stutter.
LEMMA StutterIInv == IInv /\ UNCHANGED vars => IInv'
  BY DEF IInv, vars, mailboxVars, subscriptionVars, rowVars, TypeOK, Arrived, RequestInv, Engaged,
         NumbersInv, Claims, ClaimInv, OneWorkerPerEvent, RowInv, Inserts, Finds, Current,
         CursorBehindRuns, ReadInv, FromInv, ListedInv, Covered, ProcessedIsHandled, TaskInv,
         NoEventForgotten, WillSubmit, WillRetry, Holds, AtWork, Status, InHand

\* The inductive invariant holds in every state of the inbox.
THEOREM Inductive == Spec => []IInv
<1>1. Init => IInv
  BY InitIInv
<1>2. IInv /\ [Next]_vars => IInv'
  BY NextIInv, StutterIInv
<1> QED
  BY <1>1, <1>2, PTL DEF Spec

\* Every variable keeps its type: no task is retried beyond its limit, and no cursor leaves the
\* mailbox.
THEOREM TypeCorrect == Spec => []TypeOK
<1>1. IInv => TypeOK
  BY DEF IInv
<1> QED
  BY Inductive, <1>1, PTL

\* One event is worked on by one worker.  (process: the claim under FOR UPDATE)
THEOREM EventWorkedOnce == Spec => []OneWorkerPerEvent
<1>1. IInv => OneWorkerPerEvent
  BY DEF IInv, Claims
<1> QED
  BY Inductive, <1>1, PTL

\* The cursor passes no message without a run, unless it was moved over it.
\* (_process_gmail, register_watch)
THEOREM CursorLosesNothing == Spec => []CursorBehindRuns
<1>1. IInv => CursorBehindRuns
  BY DEF IInv
<1> QED
  BY Inductive, <1>1, PTL

\* What is marked as processed has a run, or was passed over.  (process)
THEOREM ProcessedHasRun == Spec => []ProcessedIsHandled
<1>1. IInv => ProcessedIsHandled
  BY DEF IInv
<1> QED
  BY Inductive, <1>1, PTL

\* The worker that inserts a message's row starts the message's first run, and alone.
\* (_process_gmail, _process_outlook)
THEOREM FirstRunOnce == Spec => []InsertedStartsFirst
<1>1. IInv => InsertedStartsFirst
  BY DEF IInv, RowInv, Inserts, InsertedStartsFirst
<1> QED
  BY Inductive, <1>1, PTL

\* An event that has lost its task has lost it in one of the ways that are recorded.
\* (the webhooks, process_external_event)
THEOREM NoTaskLostOtherwise == Spec => []NoEventForgotten
<1>1. IInv => NoEventForgotten
  BY DEF IInv
<1> QED
  BY Inductive, <1>1, PTL

==============================================================================
