----------------------------- MODULE QueueAdapters -----------------------------
(***************************************************************************)
(* The queue adapters: RabbitMQ, Redis Streams and SQS behind one          *)
(* protocol (publish, consume_once, ack, retry), and the smoke test of the *)
(* `queue-backend-smoke` command, which runs against the RabbitMQ queue in *)
(* use.  Producers and workers are clients of the protocol.                *)
(*                                                                         *)
(* RabbitMQ and Redis hand a message out for good; SQS hides it until it   *)
(* is deleted or its visibility timeout is over.                           *)
(***************************************************************************)
EXTENDS Integers, FiniteSets, SequencesExt

CONSTANTS
    Clients,       \* processes that consume
    Jobs,          \* jobs that are published
    SmokeJob,      \* the job of the smoke test
    NoMsg,
    Backends,      \* backends in question
    MaxAttempts,   \* max_attempts
    MaxCrashes,    \* bound: clients that die
    MaxLate,       \* bound: visibility timeouts that a living client overruns
    MaxSmokes      \* bound: smoke tests

ASSUME ClientAssumption == IsFiniteSet(Clients)
ASSUME JobAssumption == SmokeJob \notin Jobs
ASSUME BackendAssumption == Backends \subseteq {"rabbitmq", "redis", "sqs"}
ASSUME CountAssumption == /\ MaxAttempts \in Nat \ {0}
                          /\ {MaxCrashes, MaxLate, MaxSmokes} \subseteq Nat

VARIABLES
    backend,
    queue,         \* messages that can be received
    dlq,           \* messages of the dead-letter queue
    inflight,      \* SQS: messages received and not deleted, with their receiver
    client,
    published,     \* jobs published
    completed,     \* jobs a worker finished and acknowledged
    lost,          \* history: jobs a step dropped a message of
    tries,         \* history: calls of retry, per job
    sent,          \* messages sent; the next one gets this number
    crashes, late, smokes

store == <<queue, dlq, inflight, sent>>
history == <<published, completed, lost, tries>>
vars == <<backend, store, client, history, crashes, late, smokes>>

AllJobs == Jobs \cup {SmokeJob}

Message == [job : AllJobs, attempts : Nat, id : Nat]

PC == {"idle", "working", "resend", "published", "consumed", "requeued"}

TypeOK ==
    /\ backend \in Backends
    /\ queue \in Seq(Message)
    /\ dlq \subseteq Message
    /\ inflight \subseteq [by : Clients, msg : Message]
    /\ client \in [Clients -> [pc : PC, msg : Message \cup {NoMsg}]]
    /\ {published, completed, lost} \subseteq SUBSET AllJobs
    /\ tries \in [AllJobs -> Nat]
    /\ {sent, crashes, late, smokes} \subseteq Nat

Idle == [pc |-> "idle", msg |-> NoMsg]

\* ensure_topology: the queues are there.
Init ==
    /\ backend \in Backends
    /\ queue = <<>>
    /\ dlq = {}
    /\ inflight = {}
    /\ client = [c \in Clients |-> Idle]
    /\ published = {} /\ completed = {} /\ lost = {}
    /\ tries = [j \in AllJobs |-> 0]
    /\ sent = 0 /\ crashes = 0 /\ late = 0 /\ smokes = 0

Goto(c, pc, msg) == client' = [client EXCEPT ![c] = [pc |-> pc, msg |-> msg]]

-----------------------------------------------------------------------------
(* The protocol.                                                           *)

\* publish: a message with the attempts of the job, at the end.
Send(job, attempts) ==
    /\ queue' = Append(queue, [job |-> job, attempts |-> attempts, id |-> sent])
    /\ sent' = sent + 1
    /\ UNCHANGED dlq

\* consume_once: the first message (SQS keeps no order).  RabbitMQ acknowledges
\* it in the same call (auto_ack), a Redis group delivers no entry twice, SQS
\* hides the message.
Receive(c, msg) ==
    \E i \in DOMAIN queue :
        /\ backend # "sqs" => i = 1
        /\ msg = queue[i]
        /\ queue' = RemoveAt(queue, i)
        /\ inflight' = IF backend = "sqs" THEN inflight \cup {[by |-> c, msg |-> msg]}
                                          ELSE inflight
        /\ UNCHANGED <<dlq, sent>>

Received == IF backend = "sqs" THEN Range(queue)
            ELSE IF queue = <<>> THEN {} ELSE {Head(queue)}

\* Mutant of Delete: ack does nothing, as in the other two adapters.
DeleteNot(c) == UNCHANGED <<queue, inflight>>

\* ack: SQS deletes the message.  The receipt of a message that has become
\* visible again may be good for that or not.
Delete(c) ==
    LET msg == client[c].msg
        lease == [by |-> c, msg |-> msg]
    IN  IF lease \in inflight
        THEN inflight' = inflight \ {lease} /\ UNCHANGED queue
        ELSE \/ UNCHANGED <<queue, inflight>>
             \/ /\ \E i \in DOMAIN queue : queue[i] = msg /\ queue' = RemoveAt(queue, i)
                /\ UNCHANGED inflight
             \/ inflight' = {l \in inflight : l.msg # msg} /\ UNCHANGED queue

\* Mutant of Spent: one try more.
SpentLate(attempts) == attempts > MaxAttempts

Spent(attempts) == attempts >= MaxAttempts

\* The message of a job that is tried again.
Again(msg) == [job |-> msg.job, attempts |-> msg.attempts + 1, id |-> sent]

\* Mutant of Requeue: a job that is not dead-lettered is not sent either.
RequeueNot(msg) ==
    /\ dlq' = IF Spent(msg.attempts + 1)
              THEN dlq \cup {Again(msg)} ELSE dlq
    /\ sent' = sent + 1
    /\ UNCHANGED queue

\* requeue_or_dead_letter.
Requeue(msg) ==
    IF Spent(msg.attempts + 1)
    THEN /\ dlq' = dlq \cup {Again(msg)}
         /\ sent' = sent + 1
         /\ UNCHANGED queue
    ELSE Send(msg.job, msg.attempts + 1)

Tried(msg) == tries' = [tries EXCEPT ![msg.job] = @ + 1]

-----------------------------------------------------------------------------
(* Producers and workers.                                                  *)

Publish(j) ==
    /\ j \notin published
    /\ Send(j, 0)
    /\ published' = published \cup {j}
    /\ UNCHANGED <<backend, inflight, client, completed, lost, tries, crashes, late, smokes>>

Work(c) ==
    /\ client[c].pc = "idle"
    /\ \E msg \in Received : Receive(c, msg) /\ Goto(c, "working", msg)
    /\ UNCHANGED <<backend, history, crashes, late, smokes>>

\* The job went well: ack, which does nothing but under SQS.
Ack(c) ==
    /\ client[c].pc = "working"
    /\ IF backend = "sqs" THEN Delete(c) ELSE UNCHANGED <<queue, inflight>>
    /\ completed' = completed \cup {client[c].msg.job}
    /\ Goto(c, "idle", NoMsg)
    /\ UNCHANGED <<backend, dlq, sent, published, lost, tries, crashes, late, smokes>>

\* The job failed: retry.  Under SQS the message is deleted first.
Retry(c) ==
    /\ client[c].pc = "working"
    /\ IF backend = "sqs"
       THEN Delete(c) /\ Goto(c, "resend", client[c].msg) /\ UNCHANGED <<dlq, sent>>
       ELSE Requeue(client[c].msg) /\ Goto(c, "idle", NoMsg) /\ UNCHANGED inflight
    /\ Tried(client[c].msg)
    /\ UNCHANGED <<backend, published, completed, lost, crashes, late, smokes>>

\* ... and sent again by the second request.
Resend(c) ==
    /\ client[c].pc = "resend"
    /\ Requeue(client[c].msg)
    /\ Goto(c, "idle", NoMsg)
    /\ UNCHANGED <<backend, inflight, history, crashes, late, smokes>>

-----------------------------------------------------------------------------
(* smoke_test_queue_backend: publish, consume_once, retry, consume_once,   *)
(* ack.  It takes whatever message comes.                                  *)

SmokePublish(c) ==
    /\ backend = "rabbitmq"
    /\ client[c].pc = "idle"
    /\ smokes < MaxSmokes
    /\ Send(SmokeJob, 0)
    /\ Goto(c, "published", NoMsg)
    /\ smokes' = smokes + 1
    /\ UNCHANGED <<backend, inflight, history, crashes, late>>

\* An empty queue ends the test with smoke_consume_empty.
SmokeConsume(c) ==
    /\ client[c].pc = "published"
    /\ IF Received = {}
       THEN Goto(c, "idle", NoMsg) /\ UNCHANGED store
       ELSE \E msg \in Received : Receive(c, msg) /\ Goto(c, "consumed", msg)
    /\ UNCHANGED <<backend, history, crashes, late, smokes>>

SmokeRetry(c) ==
    /\ client[c].pc = "consumed"
    /\ Requeue(client[c].msg)
    /\ Goto(c, "requeued", NoMsg)
    /\ Tried(client[c].msg)
    /\ UNCHANGED <<backend, inflight, published, completed, lost, crashes, late, smokes>>

\* The second message is consumed and acknowledged, whosever it is.
SmokeReconsume(c) ==
    /\ client[c].pc = "requeued"
    /\ IF Received = {}
       THEN UNCHANGED <<store, lost>>
       ELSE \E msg \in Received : Receive(c, msg) /\ lost' = lost \cup {msg.job}
    /\ Goto(c, "idle", NoMsg)
    /\ UNCHANGED <<backend, published, completed, tries, crashes, late, smokes>>

-----------------------------------------------------------------------------
(* Failures.                                                               *)

Holds(c) == client[c].pc \in {"working", "resend", "consumed"}

\* A client dies.  What it holds is gone, unless SQS still hides it.
Crash(c) ==
    /\ client[c].pc # "idle"
    /\ crashes < MaxCrashes
    /\ crashes' = crashes + 1
    /\ lost' = IF Holds(c) /\ (backend = "sqs" => client[c].pc = "resend")
               THEN lost \cup {client[c].msg.job} ELSE lost
    /\ Goto(c, "idle", NoMsg)
    /\ UNCHANGED <<backend, store, published, completed, tries, late, smokes>>

\* The receiver of a message in flight is still at work on it.
Alive(lease) == client[lease.by] = [pc |-> "working", msg |-> lease.msg]

Reappear(lease) ==
    /\ lease \in inflight
    /\ inflight' = inflight \ {lease}
    /\ queue' = Append(queue, lease.msg)
    /\ UNCHANGED <<backend, dlq, sent, client, history, crashes, smokes>>

\* SQS: the visibility timeout of a message is over, its receiver dead ...
TimeOut == \E lease \in inflight : ~Alive(lease) /\ Reappear(lease) /\ UNCHANGED late

\* ... or only slow.
TimeOutEarly ==
    \E lease \in inflight : /\ Alive(lease)
                            /\ late < MaxLate
                            /\ late' = late + 1
                            /\ Reappear(lease)

-----------------------------------------------------------------------------

WorkerStep(c) == Work(c) \/ Ack(c) \/ Retry(c) \/ Resend(c)
SmokeStep(c) == SmokeConsume(c) \/ SmokeRetry(c) \/ SmokeReconsume(c)

Next ==
    \/ \E j \in Jobs : Publish(j)
    \/ \E c \in Clients : WorkerStep(c) \/ SmokePublish(c) \/ SmokeStep(c) \/ Crash(c)
    \/ TimeOut \/ TimeOutEarly

Spec == Init /\ [][Next]_vars

\* Clients go on, workers keep polling, and timeouts come.
LiveSpec ==
    /\ Spec
    /\ \A c \in Clients : WF_vars(WorkerStep(c) \/ SmokeStep(c))
    /\ WF_vars(TimeOut)

-----------------------------------------------------------------------------
(* Properties.                                                             *)

Held(j) == {c \in Clients : Holds(c) /\ client[c].msg.job = j}
Queued(j) == {i \in DOMAIN queue : queue[i].job = j}
Dead(j) == {m \in dlq : m.job = j}

\* A job is dead-lettered after max_attempts tries and no earlier, however its copies
\* multiplied, and until then it keeps being delivered.  A try is a call of retry: a
\* worker's after a failure, or that of a smoke test on the queue in use.
DeadLetterAfterAllTries ==
    /\ \A m \in dlq : m.attempts = MaxAttempts /\ tries[m.job] >= MaxAttempts
    /\ \A i \in DOMAIN queue : queue[i].attempts < MaxAttempts

\* Every job published is completed or dead-lettered, or was lost.
JobsSettle ==
    \A j \in Jobs : j \in published ~> (j \in completed \cup lost \/ Dead(j) # {})

-----------------------------------------------------------------------------
(* Refinement.                                                             *)

\* Where the messages of a job are: in the queue, in a client's hands, or hidden
\* by SQS for a client that is gone.
Orphans(j) == {l \in inflight : l.msg.job = j /\ ~Alive(l)}

copies ==
    [j \in Jobs |->
        Cardinality(Queued(j)) + Cardinality(Held(j)) + Cardinality(Orphans(j))]

fate ==
    [j \in Jobs |-> {end \in {"completed", "dead", "lost"} :
                       CASE end = "completed" -> j \in completed
                         [] end = "dead" -> Dead(j) # {}
                         [] end = "lost" -> j \in lost}]

\* What may lose a job, and whether a visibility timeout was overrun.
accidents == crashes + smokes
overrun == late > 0

D == INSTANCE Delivery

\* The three brokers, the retries and the smoke test implement the abstract
\* delivery: a message is neither doubled nor dropped on its way between queue,
\* worker and dead-letter queue, and a crash or a smoke test costs one job at most.
ImplementsDelivery == D!Spec

=============================================================================
