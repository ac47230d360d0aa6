------------------------- MODULE QueueAdaptersProofs -------------------------
(***************************************************************************)
(* The queue adapters for any number of clients, jobs, crashes, overruns   *)
(* and smoke tests: types, when a job is dead-lettered, that the adapters  *)
(* implement Delivery, and what follows from that promise.                 *)
(***************************************************************************)
EXTENDS QueueAdapters, FiniteSetTheorems, SequenceTheorems, TLAPS

(***************************************************************************)
(* Queues without a message twice.                                         *)
(***************************************************************************)
LEMMA Appended ==
    ASSUME NEW S, NEW q \in Seq(S), NEW m \in S
    PROVE  /\ Append(q, m) \in Seq(S)
           /\ Range(Append(q, m)) = Range(q) \cup {m}
           /\ IsInjective(q) /\ m \notin Range(q) => IsInjective(Append(q, m))
  <1> DEFINE a == Append(q, m)
             n == Len(q)
  <1>1. /\ a \in Seq(S) /\ Len(a) = n + 1 /\ n \in Nat /\ a[n + 1] = m
        /\ \A i \in 1..n : a[i] = q[i]
    BY AppendProperties
  <1>2. DOMAIN a = 1..(n + 1) /\ DOMAIN q = 1..n
    BY <1>1
  <1> HIDE DEF a, n
  <1>3. Range(a) = Range(q) \cup {m}
    <2>1. \A i \in 1..(n + 1) : i \in 1..n \/ i = n + 1
      BY <1>1
    <2>2. \A i \in 1..n : i \in 1..(n + 1)
      BY <1>1
    <2>3. n + 1 \in 1..(n + 1)
      BY <1>1
    <2> QED
      BY <1>1, <1>2, <2>1, <2>2, <2>3, Zenon DEF Range
  <1>4. ASSUME IsInjective(q), m \notin Range(q) PROVE IsInjective(a)
    <2> SUFFICES ASSUME NEW i \in 1..(n + 1), NEW k \in 1..(n + 1), a[i] = a[k]
                 PROVE  i = k
      BY <1>2 DEF IsInjective
    <2>1. \A l \in 1..n : q[l] # m
      BY <1>2, <1>4 DEF Range
    <2>2. /\ i \in 1..n \/ i = n + 1
          /\ k \in 1..n \/ k = n + 1
      BY <1>1
    <2> QED
      BY <1>1, <1>2, <1>4, <2>1, <2>2 DEF IsInjective
  <1> QED
    BY <1>1, <1>3, <1>4 DEF a

LEMMA Removed ==
    ASSUME NEW S, NEW q \in Seq(S), IsInjective(q), NEW i \in DOMAIN q
    PROVE  /\ RemoveAt(q, i) \in Seq(S)
           /\ Range(RemoveAt(q, i)) = Range(q) \ {q[i]}
           /\ IsInjective(RemoveAt(q, i))
           /\ q[i] \in Range(q)
  <1> DEFINE n == Len(q)
             s1 == SubSeq(q, 1, i - 1)
             s2 == SubSeq(q, i + 1, n)
             r == RemoveAt(q, i)
  <1>1. n \in Nat /\ DOMAIN q = 1..n /\ i \in 1..n /\ \A k \in 1..n : q[k] \in S
    BY LenProperties
  <1>2. /\ s1 \in Seq(S) /\ Len(s1) = i - 1
        /\ \A k \in 1..(i - 1) : s1[k] = q[k]
    <2>1. \A k \in 1..(i - 1) : q[k] \in S
      BY <1>1
    <2>2. 1 \in Int /\ i - 1 \in Int
      BY <1>1
    <2>3. /\ SubSeq(q, 1, i - 1) \in Seq(S)
          /\ Len(SubSeq(q, 1, i - 1)) = IF 1 <= i - 1 THEN i - 1 - 1 + 1 ELSE 0
          /\ \A k \in 1..(i - 1 - 1 + 1) : SubSeq(q, 1, i - 1)[k] = q[1 + k - 1]
      BY <2>1, <2>2, SubSeqProperties
    <2>4. i - 1 - 1 + 1 = i - 1 /\ \A k \in 1..(i - 1) : 1 + k - 1 = k
      BY <1>1
    <2> QED
      BY <1>1, <2>3, <2>4
  <1>3. /\ s2 \in Seq(S) /\ Len(s2) = n - i
        /\ \A k \in 1..(n - i) : s2[k] = q[i + k]
    <2>1. \A k \in (i + 1)..n : q[k] \in S
      BY <1>1
    <2>2. i + 1 \in Int /\ n \in Int
      BY <1>1
    <2>3. /\ SubSeq(q, i + 1, n) \in Seq(S)
          /\ Len(SubSeq(q, i + 1, n)) = IF i + 1 <= n THEN n - (i + 1) + 1 ELSE 0
          /\ \A k \in 1..(n - (i + 1) + 1) : SubSeq(q, i + 1, n)[k] = q[i + 1 + k - 1]
      BY <2>1, <2>2, SubSeqProperties
    <2>4. n - (i + 1) + 1 = n - i /\ \A k \in 1..(n - i) : i + 1 + k - 1 = i + k
      BY <1>1
    <2> QED
      BY <1>1, <2>3, <2>4
  <1>4. r = s1 \o s2
    BY DEF RemoveAt
  <1> HIDE DEF s1, s2, r, n
  <1>5. /\ r \in Seq(S) /\ Len(r) = n - 1
        /\ \A k \in 1..(n - 1) : r[k] = IF k < i THEN q[k] ELSE q[k + 1]
    <2>1. /\ s1 \o s2 \in Seq(S) /\ Len(s1 \o s2) = (i - 1) + (n - i)
          /\ \A k \in 1..((i - 1) + (n - i)) :
               (s1 \o s2)[k] = IF k <= i - 1 THEN s1[k] ELSE s2[k - (i - 1)]
      <3>1. /\ s1 \o s2 \in Seq(S) /\ Len(s1 \o s2) = Len(s1) + Len(s2)
            /\ \A k \in 1..(Len(s1) + Len(s2)) :
                 (s1 \o s2)[k] = IF k <= Len(s1) THEN s1[k] ELSE s2[k - Len(s1)]
        BY <1>2, <1>3, ConcatProperties
      <3>2. Len(s1) = i - 1 /\ Len(s2) = n - i
        BY <1>2, <1>3
      <3> QED
        BY <3>1, <3>2
    <2>2. (i - 1) + (n - i) = n - 1
      BY <1>1
    <2>3. ASSUME NEW k \in 1..(n - 1)
          PROVE  r[k] = IF k < i THEN q[k] ELSE q[k + 1]
      <3>1. CASE k < i
        <4>1. k <= i - 1 /\ k \in 1..(i - 1)
          BY <1>1, <3>1
        <4> QED
          BY <1>2, <1>4, <2>1, <2>2, <3>1, <4>1
      <3>2. CASE ~(k < i)
        <4>1. ~(k <= i - 1) /\ k - (i - 1) \in 1..(n - i) /\ i + (k - (i - 1)) = k + 1
          BY <1>1, <3>2
        <4>2. r[k] = s2[k - (i - 1)]
          BY <1>4, <2>1, <2>2, <4>1
        <4>3. s2[k - (i - 1)] = q[i + (k - (i - 1))]
          BY <1>3, <4>1
        <4> QED
          BY <3>2, <4>1, <4>2, <4>3
      <3> QED
        BY <3>1, <3>2
    <2> QED
      BY <1>4, <2>1, <2>2, <2>3
  <1>6. DOMAIN r = 1..(n - 1)
    BY <1>5
  <1>7. \A k, l \in 1..n : q[k] = q[l] => k = l
    BY <1>1 DEF IsInjective
  <1>8. Range(r) = Range(q) \ {q[i]}
    <2>1. ASSUME NEW k \in 1..(n - 1) PROVE r[k] \in Range(q) \ {q[i]}
      <3>1. CASE k < i
        <4>1. k \in 1..n /\ k # i
          BY <1>1, <3>1
        <4> QED
          BY <1>1, <1>5, <1>7, <3>1, <4>1 DEF Range
      <3>2. CASE ~(k < i)
        <4>1. k + 1 \in 1..n /\ k + 1 # i
          BY <1>1, <3>2
        <4> QED
          BY <1>1, <1>5, <1>7, <3>2, <4>1 DEF Range
      <3> QED
        BY <3>1, <3>2
    <2>2. ASSUME NEW k \in 1..n, q[k] # q[i] PROVE q[k] \in Range(r)
      <3>1. CASE k < i
        <4>1. k \in 1..(n - 1)
          BY <1>1, <3>1
        <4>2. r[k] = q[k]
          BY <1>5, <3>1, <4>1
        <4> QED
          BY <1>6, <4>1, <4>2 DEF Range
      <3>2. CASE ~(k < i)
        <4>1. k # i
          BY <2>2
        <4>2. k - 1 \in 1..(n - 1) /\ ~(k - 1 < i) /\ k - 1 + 1 = k
          BY <1>1, <3>2, <4>1
        <4>3. r[k - 1] = q[k]
          BY <1>5, <4>2
        <4> QED
          BY <1>6, <4>2, <4>3 DEF Range
      <3> QED
        BY <3>1, <3>2
    <2> QED
      BY <1>1, <1>6, <2>1, <2>2 DEF Range
  <1>9. IsInjective(r)
    <2> SUFFICES ASSUME NEW k \in 1..(n - 1), NEW l \in 1..(n - 1), r[k] = r[l]
                 PROVE  k = l
      BY <1>6 DEF IsInjective
    <2> DEFINE kk == IF k < i THEN k ELSE k + 1
               ll == IF l < i THEN l ELSE l + 1
    <2>1. kk \in 1..n /\ ll \in 1..n
      BY <1>1
    <2>2. r[k] = q[kk] /\ r[l] = q[ll]
      BY <1>5
    <2>3. kk = ll
      <3> HIDE DEF kk, ll
      <3> QED
        BY <1>7, <2>1, <2>2
    <2> QED
      BY <1>1, <2>3
  <1> QED
    BY <1>1, <1>5, <1>8, <1>9 DEF r, Range

\* The messages of a queue are as many as their places.
LEMMA Places ==
    ASSUME NEW S, NEW q \in Seq(S), IsInjective(q), NEW j
    PROVE  LET here == {m \in Range(q) : m.job = j}
           IN  /\ IsFiniteSet(here)
               /\ Cardinality({i \in DOMAIN q : q[i].job = j}) = Cardinality(here)
  <1> DEFINE places == {i \in DOMAIN q : q[i].job = j}
             here == {m \in Range(q) : m.job = j}
             f == [i \in places |-> q[i]]
  <1>1. DOMAIN q = 1..Len(q) /\ Len(q) \in Nat
    BY LenProperties
  <1>2. IsFiniteSet(places)
    <2>1. IsFiniteSet(1..Len(q))
      BY <1>1, FS_Interval
    <2> QED
      BY <1>1, <2>1, FS_Subset
  <1>3. f \in Bijection(places, here)
    <2>1. f \in [places -> here]
      BY DEF Range
    <2>2. IsInjective(f)
      BY DEF IsInjective
    <2>3. \A t \in here : \E s \in places : f[s] = t
      BY DEF Range
    <2> QED
      BY <2>1, <2>2, <2>3 DEF Bijection, Injection, Surjection
  <1> QED
    BY <1>2, <1>3, FS_Bijection DEF ExistsBijection

(***************************************************************************)
(* The inductive invariant.                                                *)
(***************************************************************************)
\* A message on its way has tries to spare, and each one it shows was made.
Sound(m) == /\ m \in Message
            /\ m.attempts < MaxAttempts
            /\ m.attempts <= tries[m.job]
            /\ m.job \in published \/ (m.job = SmokeJob /\ backend = "rabbitmq")

\* A message is in one place of the broker, once.
StoreOK == /\ IsInjective(queue)
           /\ \A l, k \in inflight : l.msg = k.msg => l = k
           /\ \A l \in inflight : l.msg \notin Range(queue)
           /\ \A l \in inflight : Sound(l.msg) /\ l.msg.id < sent
           /\ \A m \in Range(queue) : Sound(m) /\ m.id < sent
           /\ IsFiniteSet(inflight)
           /\ backend # "sqs" => inflight = {}

Lease(c) == [by |-> c, msg |-> client[c].msg]

\* What a client holds; until a timeout is overrun SQS hides it for the client.
ClientOK(c) ==
    /\ Holds(c) => Sound(client[c].msg)
    /\ client[c].pc = "resend" => /\ backend = "sqs"
                                  /\ client[c].msg.attempts < tries[client[c].msg.job]
    /\ client[c].pc \in {"published", "consumed", "requeued"} => backend = "rabbitmq"
    /\ late = 0 /\ backend = "sqs" /\ client[c].pc = "working" => Lease(c) \in inflight

DlqOK == \A m \in dlq : m.attempts = MaxAttempts /\ tries[m.job] >= MaxAttempts

Smoking == {c \in Clients : client[c].pc \in {"published", "consumed", "requeued"}}

\* A smoke test in progress is an accident that has not cost its job yet.
LossOK == /\ IsFiniteSet(lost)
          /\ Cardinality(lost) + Cardinality(Smoking) <= crashes + smokes

\* SQS: a job that has not come to an end has a copy besides those that workers
\* hold without a lease, which vanish with their workers.
Anchored(j) == \/ j \in completed \cup lost \/ Dead(j) # {}
               \/ \E m \in Range(queue) : m.job = j
               \/ \E l \in inflight : l.msg.job = j
               \/ \E c \in Clients : client[c].pc = "resend" /\ client[c].msg.job = j

Inv == /\ TypeOK
       /\ StoreOK
       /\ \A c \in Clients : ClientOK(c)
       /\ DlqOK
       /\ published \subseteq Jobs
       /\ LossOK
       /\ backend = "sqs" => \A j \in published : Anchored(j)

-----------------------------------------------------------------------------
(* What the operations of the protocol do to the messages.                 *)

LEMMA ReceiveFacts ==
    ASSUME TypeOK, StoreOK, NEW c \in Clients, NEW msg, Receive(c, msg)
    PROVE  /\ msg \in Range(queue)
           /\ queue' \in Seq(Message) /\ IsInjective(queue')
           /\ Range(queue') = Range(queue) \ {msg}
           /\ inflight' = IF backend = "sqs" THEN inflight \cup {[by |-> c, msg |-> msg]}
                                             ELSE inflight
           /\ UNCHANGED <<dlq, sent>>
  <1>1. PICK i \in DOMAIN queue : /\ msg = queue[i] /\ queue' = RemoveAt(queue, i)
                                  /\ inflight' = IF backend = "sqs" THEN inflight \cup {[by |-> c, msg |-> msg]}
                                                                    ELSE inflight
                                  /\ UNCHANGED <<dlq, sent>>
    BY DEF Receive
  <1>2. queue \in Seq(Message) /\ IsInjective(queue)
    BY DEF TypeOK, StoreOK
  <1> QED
    BY <1>1, <1>2, Removed

LEMMA SendFacts ==
    ASSUME TypeOK, StoreOK, NEW job \in AllJobs, NEW attempts \in Nat, Send(job, attempts)
    PROVE  LET new == [job |-> job, attempts |-> attempts, id |-> sent]
           IN  /\ new \in Message /\ new \notin Range(queue)
               /\ queue' \in Seq(Message) /\ IsInjective(queue')
               /\ Range(queue') = Range(queue) \cup {new}
               /\ sent' = sent + 1 /\ sent \in Nat /\ dlq' = dlq
  <1> DEFINE new == [job |-> job, attempts |-> attempts, id |-> sent]
  <1>1. sent \in Nat /\ queue \in Seq(Message) /\ IsInjective(queue)
    BY DEF TypeOK, StoreOK
  <1>2. new \in Message /\ new.id = sent
    BY <1>1 DEF Message
  <1>3. new \notin Range(queue)
    <2>1. \A m \in Range(queue) : m.id < sent /\ m.id \in Nat
      BY DEF StoreOK, Sound, Message
    <2> HIDE DEF new
    <2> QED
      BY <1>1, <1>2, <2>1
  <1>4. queue' = Append(queue, new) /\ sent' = sent + 1 /\ dlq' = dlq
    BY DEF Send
  <1> HIDE DEF new
  <1>5. /\ queue' \in Seq(Message) /\ IsInjective(queue')
        /\ Range(queue') = Range(queue) \cup {new}
    BY <1>1, <1>2, <1>3, <1>4, Appended
  <1> QED
    BY <1>1, <1>2, <1>3, <1>4, <1>5 DEF new

LEMMA RequeueFacts ==
    ASSUME TypeOK, StoreOK, NEW msg, Sound(msg), Requeue(msg)
    PROVE  /\ Again(msg) \in Message /\ Again(msg) \notin Range(queue)
           /\ sent' = sent + 1 /\ sent \in Nat
           /\ queue' \in Seq(Message) /\ IsInjective(queue')
           /\ \/ /\ msg.attempts + 1 = MaxAttempts
                 /\ dlq' = dlq \cup {Again(msg)} /\ queue' = queue
              \/ /\ msg.attempts + 1 < MaxAttempts
                 /\ dlq' = dlq /\ Range(queue') = Range(queue) \cup {Again(msg)}
  <1>1. /\ sent \in Nat /\ queue \in Seq(Message) /\ IsInjective(queue)
        /\ MaxAttempts \in Nat /\ msg \in Message /\ msg.attempts < MaxAttempts
        /\ msg.attempts \in Nat /\ msg.job \in AllJobs /\ msg.attempts + 1 \in Nat
    BY CountAssumption DEF TypeOK, StoreOK, Sound, Message
  <1>3. Again(msg) \in Message /\ Again(msg).id = sent
    BY <1>1 DEF Message, Again
  <1>4. Again(msg) \notin Range(queue)
    <2>1. \A m \in Range(queue) : m.id < sent /\ m.id \in Nat
      BY DEF StoreOK, Sound, Message
    <2> QED
      BY <1>1, <1>3, <2>1
  <1>5. CASE Spent(msg.attempts + 1)
    <2>1. msg.attempts + 1 = MaxAttempts
      BY <1>1, <1>5 DEF Spent
    <2>2. dlq' = dlq \cup {Again(msg)} /\ sent' = sent + 1 /\ queue' = queue
      BY <1>5 DEF Requeue
    <2> QED
      BY <1>1, <1>3, <1>4, <2>1, <2>2
  <1>6. CASE ~Spent(msg.attempts + 1)
    <2>1. msg.attempts + 1 < MaxAttempts
      BY <1>1, <1>6 DEF Spent
    <2>2. Send(msg.job, msg.attempts + 1)
      BY <1>6 DEF Requeue
    <2>3. /\ queue' \in Seq(Message) /\ IsInjective(queue')
          /\ Range(queue') = Range(queue) \cup {Again(msg)}
          /\ sent' = sent + 1 /\ dlq' = dlq
      BY <1>1, <2>2, SendFacts DEF Again
    <2> QED
      BY <1>1, <1>3, <1>4, <2>1, <2>3
  <1> QED
    BY <1>5, <1>6

\* With its lease a client deletes its own message; without, perhaps another's copy.
LEMMA DeleteFacts ==
    ASSUME TypeOK, StoreOK, NEW c \in Clients, Delete(c)
    PROVE  /\ queue' \in Seq(Message) /\ IsInjective(queue')
           /\ Range(queue') \subseteq Range(queue)
           /\ \A m \in Range(queue) \ Range(queue') : m = client[c].msg
           /\ inflight' \subseteq inflight
           /\ \A l \in inflight \ inflight' : l.msg = client[c].msg
           /\ Lease(c) \in inflight => Range(queue') = Range(queue) /\ inflight' = inflight \ {Lease(c)}
  <1>1. queue \in Seq(Message) /\ IsInjective(queue)
    BY DEF TypeOK, StoreOK
  <1>2. CASE Lease(c) \in inflight
    BY <1>1, <1>2 DEF Delete, Lease
  <1>3. CASE Lease(c) \notin inflight
    <2>1. CASE UNCHANGED <<queue, inflight>>
      BY <1>1, <1>3, <2>1
    <2>2. ASSUME NEW i \in DOMAIN queue, queue[i] = client[c].msg,
                 queue' = RemoveAt(queue, i), inflight' = inflight
          PROVE  /\ queue' \in Seq(Message) /\ IsInjective(queue')
                 /\ Range(queue') = Range(queue) \ {client[c].msg}
      BY <1>1, <2>2, Removed
    <2>3. CASE inflight' = {l \in inflight : l.msg # client[c].msg} /\ queue' = queue
      BY <1>1, <1>3, <2>3
    <2> QED
      BY <1>3, <2>1, <2>2, <2>3 DEF Delete, Lease
  <1> QED
    BY <1>2, <1>3

-----------------------------------------------------------------------------
(* How the parts of the invariant are preserved.                           *)

\* Tries and published jobs only grow.
Grows == /\ backend' = backend
         /\ published \subseteq published'
         /\ \A j \in AllJobs : tries[j] \in Nat /\ tries'[j] \in Nat /\ tries[j] <= tries'[j]
         /\ sent \in Nat /\ sent' \in Nat /\ sent <= sent'

LEMMA SoundGrows ==
    ASSUME Grows, NEW m, Sound(m)
    PROVE  Sound(m)'
  <1>1. m \in Message /\ m.attempts \in Nat /\ m.job \in AllJobs /\ m.id \in Nat
    BY DEF Sound, Message
  <1>2. m.attempts <= tries'[m.job]
    BY <1>1 DEF Grows, Sound
  <1> QED
    BY <1>1, <1>2 DEF Sound, Grows

LEMMA IdsGrow ==
    ASSUME Grows, NEW m, Sound(m), m.id < sent
    PROVE  Sound(m)' /\ m.id < sent'
  <1>1. m.id \in Nat
    BY DEF Sound, Message
  <1> QED
    BY <1>1, SoundGrows DEF Grows

LEMMA StoreShrinks ==
    ASSUME StoreOK, Grows, IsInjective(queue'),
           Range(queue') \subseteq Range(queue), inflight' \subseteq inflight
    PROVE  StoreOK'
  <1>1. \A l \in inflight' : Sound(l.msg)' /\ l.msg.id < sent'
    BY IdsGrow DEF StoreOK
  <1>2. \A m \in Range(queue') : Sound(m)' /\ m.id < sent'
    BY IdsGrow DEF StoreOK
  <1>3. IsFiniteSet(inflight')
    BY FS_Subset DEF StoreOK
  <1> QED
    BY <1>1, <1>2, <1>3 DEF StoreOK, Grows

LEMMA StoreAppends ==
    ASSUME StoreOK, Grows, IsInjective(queue'), NEW m,
           Range(queue') = Range(queue) \cup {m}, inflight' = inflight,
           Sound(m)', m.id = sent, sent' = sent + 1
    PROVE  StoreOK'
  <1>1. \A l \in inflight : Sound(l.msg)' /\ l.msg.id < sent'
    BY IdsGrow DEF StoreOK
  <1>2. \A k \in Range(queue') : Sound(k)' /\ k.id < sent'
    BY IdsGrow DEF StoreOK, Grows
  <1>3. \A l \in inflight : l.msg # m
    <2>1. \A l \in inflight : l.msg.id < sent /\ l.msg.id \in Nat
      BY DEF StoreOK, Sound, Message
    <2> QED
      BY <2>1 DEF Grows
  <1> QED
    BY <1>1, <1>2, <1>3 DEF StoreOK, Grows

LEMMA StoreHides ==
    ASSUME StoreOK, Grows, IsInjective(queue'), NEW c, NEW msg \in Range(queue),
           Range(queue') = Range(queue) \ {msg}, backend = "sqs",
           inflight' = inflight \cup {[by |-> c, msg |-> msg]}
    PROVE  StoreOK'
  <1>1. \A m \in Range(queue) : Sound(m)' /\ m.id < sent'
    BY IdsGrow DEF StoreOK
  <1>2. \A l \in inflight : Sound(l.msg)' /\ l.msg.id < sent' /\ l.msg # msg
    BY IdsGrow DEF StoreOK
  <1>3. IsFiniteSet(inflight')
    BY FS_AddElement DEF StoreOK
  <1> DEFINE new == [by |-> c, msg |-> msg]
  <1>4. new.msg = msg /\ inflight' = inflight \cup {new}
    OBVIOUS
  <1> HIDE DEF new
  <1> QED
    BY <1>1, <1>2, <1>3, <1>4 DEF StoreOK, Grows

LEMMA StoreShows ==
    ASSUME StoreOK, Grows, IsInjective(queue'), NEW l \in inflight,
           Range(queue') = Range(queue) \cup {l.msg}, inflight' = inflight \ {l}
    PROVE  StoreOK'
  <1>1. \A k \in inflight : Sound(k.msg)' /\ k.msg.id < sent'
    BY IdsGrow DEF StoreOK
  <1>2. \A m \in Range(queue') : Sound(m)' /\ m.id < sent'
    BY <1>1, IdsGrow DEF StoreOK
  <1>3. IsFiniteSet(inflight')
    BY FS_RemoveElement DEF StoreOK
  <1> QED
    BY <1>1, <1>2, <1>3 DEF StoreOK, Grows

\* What holds of a client that does nothing; its lease goes with an overrun only.
LEMMA ClientKept ==
    ASSUME Grows, late \in Nat, late' \in Nat, late <= late',
           NEW b \in Clients, ClientOK(b), client'[b] = client[b],
           Lease(b) \in inflight => Lease(b) \in inflight' \/ late' > 0
    PROVE  ClientOK(b)'
  <1>1. Holds(b) => Sound(client[b].msg)'
    BY SoundGrows DEF ClientOK
  <1>2. Holds(b)' <=> Holds(b)
    BY DEF Holds
  <1>3. client[b].pc = "resend" => client[b].msg.attempts < tries'[client[b].msg.job]
    <2> HAVE client[b].pc = "resend"
    <2>1. Sound(client[b].msg) /\ client[b].msg.attempts < tries[client[b].msg.job]
      BY DEF ClientOK, Holds
    <2>2. client[b].msg.job \in AllJobs /\ client[b].msg.attempts \in Nat
      BY <2>1 DEF Sound, Message
    <2> QED
      BY <2>1, <2>2 DEF Grows
  <1>4. late' = 0 => late = 0
    OBVIOUS
  <1>5. Lease(b)' = Lease(b)
    BY DEF Lease
  <1>6. late' = 0 /\ backend' = "sqs" /\ client'[b].pc = "working" => Lease(b)' \in inflight'
    BY <1>4, <1>5 DEF ClientOK, Grows
  <1> QED
    BY <1>1, <1>2, <1>3, <1>6 DEF ClientOK, Grows

LEMMA AnchorKept ==
    ASSUME NEW j, Anchored(j),
           completed \subseteq completed', lost \subseteq lost', dlq \subseteq dlq',
           \A m \in Range(queue) : m.job = j => m \in Range(queue') \/ Anchored(j)',
           \A l \in inflight : l.msg.job = j => l \in inflight' \/ Anchored(j)',
           \A c \in Clients : client[c].pc = "resend" /\ client[c].msg.job = j =>
                                client'[c] = client[c] \/ Anchored(j)'
    PROVE  Anchored(j)'
  <1>1. CASE j \in completed \cup lost \/ Dead(j) # {}
    BY <1>1 DEF Anchored, Dead
  <1>2. CASE \E m \in Range(queue) : m.job = j
    BY <1>2 DEF Anchored
  <1>3. CASE \E l \in inflight : l.msg.job = j
    BY <1>3 DEF Anchored
  <1>4. CASE \E c \in Clients : client[c].pc = "resend" /\ client[c].msg.job = j
    BY <1>4 DEF Anchored
  <1> QED
    BY <1>1, <1>2, <1>3, <1>4 DEF Anchored

LEMMA SmokingFinite ==
    /\ IsFiniteSet(Smoking) /\ Cardinality(Smoking) \in Nat
    /\ IsFiniteSet(Smoking') /\ Cardinality(Smoking') \in Nat
  <1>1. Smoking \subseteq Clients /\ Smoking' \subseteq Clients
    BY DEF Smoking
  <1> QED
    BY <1>1, ClientAssumption, FS_Subset, FS_CardinalityType

LEMMA LossKept ==
    ASSUME LossOK, TypeOK, TypeOK', lost' = lost, Smoking' \subseteq Smoking,
           crashes <= crashes', smokes <= smokes'
    PROVE  LossOK'
  <1>1. Cardinality(Smoking') <= Cardinality(Smoking)
    BY SmokingFinite, FS_Subset
  <1>2. Cardinality(lost) \in Nat
    BY FS_CardinalityType DEF LossOK
  <1> QED
    BY <1>1, <1>2, SmokingFinite DEF LossOK, TypeOK

\* The step of a client that begins no smoke test and loses nothing.
LEMMA LossSame ==
    ASSUME LossOK, TypeOK, TypeOK', lost' = lost, crashes' = crashes, smokes' = smokes,
           NEW c \in Clients, \A b \in Clients \ {c} : client'[b] = client[b],
           \/ client'[c].pc \notin {"published", "consumed", "requeued"}
           \/ client[c].pc \in {"published", "consumed", "requeued"}
    PROVE  LossOK'
  <1>1. Smoking' \subseteq Smoking
    BY DEF Smoking
  <1>2. crashes <= crashes' /\ smokes <= smokes'
    BY DEF TypeOK
  <1> QED
    BY <1>1, <1>2, LossKept

\* A smoke test that ends, or a crash, pays for a job that is lost.
LEMMA LossPaid ==
    ASSUME LossOK, TypeOK, TypeOK', NEW c, NEW x, lost' = lost \cup {x},
           Smoking' \subseteq Smoking \ {c}, smokes' = smokes,
           \/ crashes' = crashes /\ c \in Smoking
           \/ crashes' = crashes + 1
    PROVE  LossOK'
  <1>1. /\ IsFiniteSet(lost') /\ Cardinality(lost) \in Nat /\ Cardinality(lost') \in Nat
        /\ Cardinality(lost') <= Cardinality(lost) + 1
    <2>1. IsFiniteSet(lost)
      BY DEF LossOK
    <2>2. /\ IsFiniteSet(lost \cup {x})
          /\ Cardinality(lost \cup {x}) = IF x \in lost THEN Cardinality(lost)
                                                         ELSE Cardinality(lost) + 1
      BY <2>1, FS_AddElement
    <2>3. Cardinality(lost) \in Nat
      BY <2>1, FS_CardinalityType
    <2> QED
      BY <2>2, <2>3
  <1>2. /\ IsFiniteSet(Smoking \ {c})
        /\ Cardinality(Smoking \ {c}) = IF c \in Smoking THEN Cardinality(Smoking) - 1
                                                         ELSE Cardinality(Smoking)
    BY SmokingFinite, FS_RemoveElement
  <1>3. Cardinality(Smoking') <= Cardinality(Smoking \ {c})
    BY <1>2, FS_Subset
  <1> DEFINE a == Cardinality(lost)
             a1 == Cardinality(lost')
             b == Cardinality(Smoking)
             b1 == Cardinality(Smoking')
  <1>4. a \in Nat /\ a1 \in Nat /\ b \in Nat /\ b1 \in Nat /\ a1 <= a + 1
    BY <1>1, SmokingFinite
  <1>5. /\ c \in Smoking => b1 <= b - 1
        /\ b1 <= b
    BY <1>2, <1>3, SmokingFinite
  <1>6. a + b <= crashes + smokes /\ {crashes, smokes, crashes', smokes'} \subseteq Nat
    BY DEF LossOK, TypeOK
  <1>7. a1 + b1 <= crashes' + smokes'
    <2> HIDE DEF a, a1, b, b1
    <2> QED
      BY <1>4, <1>5, <1>6
  <1> QED
    BY <1>1, <1>7 DEF LossOK

LEMMA GotoFacts ==
    ASSUME TypeOK, NEW c \in Clients, NEW pc \in PC, NEW msg \in Message \cup {NoMsg},
           Goto(c, pc, msg)
    PROVE  /\ client' \in [Clients -> [pc : PC, msg : Message \cup {NoMsg}]]
           /\ client'[c] = [pc |-> pc, msg |-> msg]
           /\ client'[c].pc = pc /\ client'[c].msg = msg
           /\ \A b \in Clients \ {c} : client'[b] = client[b]
  BY DEF Goto, TypeOK

\* Tried adds one to the tries of a job.
LEMMA TriedFacts ==
    ASSUME TypeOK, NEW msg \in Message, Tried(msg)
    PROVE  /\ tries' \in [AllJobs -> Nat]
           /\ tries'[msg.job] = tries[msg.job] + 1
           /\ \A j \in AllJobs : tries[j] \in Nat /\ tries'[j] \in Nat /\ tries[j] <= tries'[j]
  BY DEF Tried, TypeOK, Message

LEMMA DlqKept ==
    ASSUME TypeOK, DlqOK, Grows, dlq' = dlq
    PROVE  DlqOK'
  <1> SUFFICES ASSUME NEW m \in dlq
               PROVE  m.attempts = MaxAttempts /\ tries'[m.job] >= MaxAttempts
    BY DEF DlqOK
  <1>1. m.job \in AllJobs
    BY DEF TypeOK, Message
  <1> QED
    BY <1>1, CountAssumption DEF DlqOK, Grows

\* A message whose last try was counted is dead-lettered or sent again.
LEMMA RequeueOK ==
    ASSUME TypeOK, StoreOK, DlqOK, Grows, NEW msg, Sound(msg), Requeue(msg),
           inflight' = inflight, msg.attempts + 1 <= tries'[msg.job]
    PROVE  StoreOK' /\ DlqOK' /\ queue' \in Seq(Message) /\ dlq' \subseteq Message
  <1>0. PICK new : new = Again(msg)
    OBVIOUS
  <1>1. /\ new \in Message /\ new \notin Range(queue)
        /\ sent' = sent + 1 /\ sent \in Nat
        /\ queue' \in Seq(Message) /\ IsInjective(queue')
        /\ \/ /\ msg.attempts + 1 = MaxAttempts
              /\ dlq' = dlq \cup {new} /\ queue' = queue
           \/ /\ msg.attempts + 1 < MaxAttempts
              /\ dlq' = dlq /\ Range(queue') = Range(queue) \cup {new}
    BY <1>0, RequeueFacts
  <1>2. new.attempts = msg.attempts + 1 /\ new.job = msg.job /\ new.id = sent
    BY <1>0 DEF Again
  <1>3. msg.job \in AllJobs /\ msg.attempts \in Nat /\ msg \in Message
    BY DEF Sound, Message
  <1>4. CASE msg.attempts + 1 = MaxAttempts /\ dlq' = dlq \cup {new} /\ queue' = queue
    <2>1. StoreOK'
      BY <1>1, <1>4, StoreShrinks
    <2>2. DlqOK'
      <3> SUFFICES ASSUME NEW m \in dlq'
                   PROVE  m.attempts = MaxAttempts /\ tries'[m.job] >= MaxAttempts
        BY DEF DlqOK
      <3>1. CASE m = new
        BY <1>2, <1>3, <1>4, <3>1, CountAssumption DEF Grows
      <3>2. CASE m \in dlq
        <4>1. m.job \in AllJobs
          BY <3>2 DEF TypeOK, Message
        <4> QED
          BY <3>2, <4>1, CountAssumption DEF DlqOK, Grows
      <3> QED
        BY <1>4, <3>1, <3>2
    <2> QED
      BY <1>1, <1>4, <2>1, <2>2 DEF TypeOK
  <1>5. CASE msg.attempts + 1 < MaxAttempts /\ dlq' = dlq /\ Range(queue') = Range(queue) \cup {new}
    <2>1. Sound(new)'
      <3>1. Sound(msg)'
        BY SoundGrows
      <3> QED
        BY <1>1, <1>2, <1>5, <3>1 DEF Sound
    <2>2. StoreOK'
      BY <1>1, <1>2, <1>5, <2>1, StoreAppends
    <2>3. DlqOK'
      BY <1>5, DlqKept
    <2> QED
      BY <1>1, <1>5, <2>2, <2>3 DEF TypeOK
  <1> QED
    BY <1>1, <1>4, <1>5

-----------------------------------------------------------------------------
(* The steps.                                                              *)

LEMMA PublishOK ==
    ASSUME Inv, NEW j \in Jobs, Publish(j)
    PROVE  Inv'
  <1>1. /\ Send(j, 0) /\ published' = published \cup {j}
        /\ UNCHANGED <<backend, inflight, client, completed, lost, tries, crashes, late, smokes>>
    BY DEF Publish
  <1>2. TypeOK /\ StoreOK /\ j \in AllJobs /\ 0 \in Nat
    BY DEF Inv, AllJobs
  <1>3. PICK new : new = [job |-> j, attempts |-> 0, id |-> sent]
    OBVIOUS
  <1>4. /\ new \in Message /\ new \notin Range(queue)
        /\ queue' \in Seq(Message) /\ IsInjective(queue')
        /\ Range(queue') = Range(queue) \cup {new}
        /\ sent' = sent + 1 /\ sent \in Nat /\ dlq' = dlq
    BY <1>1, <1>2, <1>3, SendFacts
  <1>5. new.job = j /\ new.attempts = 0 /\ new.id = sent
    BY <1>3
  <1>6. TypeOK'
    BY <1>1, <1>2, <1>4 DEF TypeOK
  <1>7. Grows
    BY <1>1, <1>2, <1>4 DEF Grows, TypeOK
  <1>8. StoreOK'
    <2>1. Sound(new)'
      BY <1>1, <1>2, <1>4, <1>5, CountAssumption DEF Sound, TypeOK
    <2> QED
      BY <1>1, <1>2, <1>4, <1>5, <1>7, <2>1, StoreAppends
  <1>9. \A c \in Clients : ClientOK(c)'
    BY <1>1, <1>7, ClientKept DEF Inv, TypeOK
  <1>10. DlqOK'
    BY <1>4, <1>7, DlqKept DEF Inv
  <1>11. LossOK'
    BY <1>1, <1>2, <1>6, LossKept DEF Inv, Smoking, TypeOK
  <1>12. backend' = "sqs" => \A k \in published' : Anchored(k)'
    <2> SUFFICES ASSUME backend = "sqs", NEW k \in published'
                 PROVE  Anchored(k)'
      BY <1>1
    <2>1. CASE k = j
      BY <1>4, <1>5, <2>1 DEF Anchored
    <2>2. CASE k \in published
      <3>1. Anchored(k)
        BY <2>2 DEF Inv
      <3> QED
        BY <1>1, <1>4, <3>1, AnchorKept
    <2> QED
      BY <1>1, <2>1, <2>2
  <1> QED
    BY <1>1, <1>6, <1>8, <1>9, <1>10, <1>11, <1>12 DEF Inv

LEMMA WorkOK ==
    ASSUME Inv, NEW c \in Clients, Work(c)
    PROVE  Inv'
  <1>1. PICK msg : Receive(c, msg) /\ Goto(c, "working", msg)
    BY DEF Work
  <1>2. client[c].pc = "idle" /\ UNCHANGED <<backend, history, crashes, late, smokes>>
    BY DEF Work
  <1>3. TypeOK /\ StoreOK
    BY DEF Inv
  <1>4. /\ msg \in Range(queue)
        /\ queue' \in Seq(Message) /\ IsInjective(queue')
        /\ Range(queue') = Range(queue) \ {msg}
        /\ inflight' = IF backend = "sqs" THEN inflight \cup {[by |-> c, msg |-> msg]}
                                          ELSE inflight
        /\ UNCHANGED <<dlq, sent>>
    BY <1>1, <1>3, ReceiveFacts
  <1>5. Sound(msg) /\ msg \in Message
    BY <1>3, <1>4 DEF StoreOK, Sound
  <1>6. /\ client' \in [Clients -> [pc : PC, msg : Message \cup {NoMsg}]]
        /\ client'[c].pc = "working" /\ client'[c].msg = msg
        /\ \A b \in Clients \ {c} : client'[b] = client[b]
    BY <1>1, <1>3, <1>5, GotoFacts DEF PC
  <1>7. TypeOK'
    BY <1>2, <1>3, <1>4, <1>5, <1>6 DEF TypeOK, history
  <1>8. Grows
    BY <1>2, <1>3, <1>4 DEF Grows, TypeOK, history
  <1>9. StoreOK'
    <2>1. CASE backend = "sqs"
      BY <1>3, <1>4, <1>8, <2>1, StoreHides
    <2>2. CASE backend # "sqs"
      BY <1>3, <1>4, <1>8, <2>2, StoreShrinks
    <2> QED
      BY <2>1, <2>2
  <1>10. \A b \in Clients : ClientOK(b)'
    <2>1. ClientOK(c)'
      <3>1. Sound(msg)'
        BY <1>5, <1>8, SoundGrows
      <3> QED
        BY <1>2, <1>4, <1>6, <3>1 DEF ClientOK, Lease
    <2>2. ASSUME NEW b \in Clients \ {c} PROVE ClientOK(b)'
      BY <1>2, <1>3, <1>4, <1>6, <1>8, ClientKept DEF Inv, TypeOK
    <2> QED
      BY <2>1, <2>2
  <1>11. DlqOK'
    BY <1>4, <1>8, DlqKept DEF Inv
  <1>12. LossOK'
    BY <1>2, <1>3, <1>6, <1>7, LossSame DEF Inv, history
  <1>13. backend' = "sqs" => \A k \in published' : Anchored(k)'
    <2> SUFFICES ASSUME backend = "sqs", NEW k \in published
                 PROVE  Anchored(k)'
      BY <1>2 DEF history
    <2>1. Anchored(k)
      BY DEF Inv
    <2> DEFINE lease == [by |-> c, msg |-> msg]
    <2>2. lease \in inflight' /\ lease.msg = msg
      BY <1>4
    <2>3. msg.job = k => Anchored(k)'
      BY <2>2 DEF Anchored
    <2>4. \A b \in Clients : client[b].pc = "resend" => client'[b] = client[b]
      BY <1>2, <1>6
    <2> QED
      BY <1>2, <1>4, <2>1, <2>3, <2>4, AnchorKept DEF history
  <1> QED
    BY <1>2, <1>7, <1>9, <1>10, <1>11, <1>12, <1>13 DEF Inv, history

\* Deleting keeps the leases of the other clients, unless a timeout was overrun.
LEMMA OthersLeases ==
    ASSUME Inv, NEW c \in Clients, client[c].pc = "working", Delete(c),
           NEW b \in Clients \ {c}, backend = "sqs"
    PROVE  Lease(b) \in inflight => Lease(b) \in inflight' \/ late > 0
  <1>1. CASE late = 0
    <2>1. Lease(c) \in inflight
      BY <1>1 DEF Inv, ClientOK
    <2>2. inflight' = inflight \ {Lease(c)}
      BY <2>1, DeleteFacts DEF Inv
    <2>3. Lease(b) # Lease(c)
      BY DEF Lease
    <2> QED
      BY <2>2, <2>3
  <1>2. CASE late # 0
    BY <1>2 DEF Inv, TypeOK
  <1> QED
    BY <1>1, <1>2

LEMMA AckOK ==
    ASSUME Inv, NEW c \in Clients, Ack(c)
    PROVE  Inv'
  <1> DEFINE job == client[c].msg.job
  <1>1. /\ client[c].pc = "working" /\ completed' = completed \cup {job}
        /\ Goto(c, "idle", NoMsg)
        /\ IF backend = "sqs" THEN Delete(c) ELSE UNCHANGED <<queue, inflight>>
        /\ UNCHANGED <<backend, dlq, sent, published, lost, tries, crashes, late, smokes>>
    BY DEF Ack
  <1>2. TypeOK /\ StoreOK /\ job \in AllJobs
    BY <1>1 DEF Inv, ClientOK, Holds, Sound, Message
  <1>3. /\ queue' \in Seq(Message) /\ IsInjective(queue')
        /\ Range(queue') \subseteq Range(queue)
        /\ \A m \in Range(queue) \ Range(queue') : m = client[c].msg
        /\ inflight' \subseteq inflight
        /\ \A l \in inflight \ inflight' : l.msg = client[c].msg
    <2>1. CASE backend = "sqs"
      BY <1>1, <1>2, <2>1, DeleteFacts
    <2>2. CASE backend # "sqs"
      BY <1>1, <1>2, <2>2 DEF TypeOK, StoreOK
    <2> QED
      BY <2>1, <2>2
  <1>4. /\ client' \in [Clients -> [pc : PC, msg : Message \cup {NoMsg}]]
        /\ client'[c].pc = "idle"
        /\ \A b \in Clients \ {c} : client'[b] = client[b]
    BY <1>1, <1>2, GotoFacts DEF PC
  <1>5. TypeOK'
    BY <1>1, <1>2, <1>3, <1>4 DEF TypeOK
  <1>6. Grows
    BY <1>1, <1>2 DEF Grows, TypeOK
  <1>7. StoreOK'
    BY <1>2, <1>3, <1>6, StoreShrinks
  <1>8. \A b \in Clients : ClientOK(b)'
    <2>1. ClientOK(c)'
      BY <1>4 DEF ClientOK, Holds
    <2>2. ASSUME NEW b \in Clients \ {c} PROVE ClientOK(b)'
      <3>1. Lease(b) \in inflight => Lease(b) \in inflight' \/ late' > 0
        BY <1>1, OthersLeases
      <3> QED
        BY <1>1, <1>2, <1>4, <1>6, <3>1, ClientKept DEF Inv, TypeOK
    <2> QED
      BY <2>1, <2>2
  <1>9. DlqOK'
    BY <1>1, <1>6, DlqKept DEF Inv
  <1>10. LossOK'
    BY <1>1, <1>2, <1>4, <1>5, LossSame DEF Inv
  <1>11. backend' = "sqs" => \A k \in published' : Anchored(k)'
    <2> SUFFICES ASSUME backend = "sqs", NEW k \in published
                 PROVE  Anchored(k)'
      BY <1>1
    <2>1. Anchored(k)
      BY DEF Inv
    <2>2. job = k => Anchored(k)'
      BY <1>1 DEF Anchored
    <2>3. \A b \in Clients : client[b].pc = "resend" => client'[b] = client[b]
      BY <1>1, <1>4
    <2> QED
      BY <1>1, <1>3, <2>1, <2>2, <2>3, AnchorKept
  <1> QED
    BY <1>1, <1>5, <1>7, <1>8, <1>9, <1>10, <1>11 DEF Inv

LEMMA RetryOK ==
    ASSUME Inv, NEW c \in Clients, Retry(c)
    PROVE  Inv'
  <1>0. PICK msg : msg = client[c].msg
    OBVIOUS
  <1>1. /\ client[c].pc = "working" /\ Tried(msg)
        /\ IF backend = "sqs"
           THEN Delete(c) /\ Goto(c, "resend", msg) /\ UNCHANGED <<dlq, sent>>
           ELSE Requeue(msg) /\ Goto(c, "idle", NoMsg) /\ UNCHANGED inflight
        /\ UNCHANGED <<backend, published, completed, lost, crashes, late, smokes>>
    BY <1>0 DEF Retry
  <1>2. /\ TypeOK /\ StoreOK /\ DlqOK
        /\ Sound(msg) /\ msg \in Message /\ msg.job \in AllJobs /\ msg.attempts \in Nat
    BY <1>0, <1>1 DEF Inv, ClientOK, Holds, Sound, Message
  <1>3. /\ tries' \in [AllJobs -> Nat]
        /\ tries'[msg.job] = tries[msg.job] + 1
        /\ \A j \in AllJobs : tries[j] \in Nat /\ tries'[j] \in Nat /\ tries[j] <= tries'[j]
    BY <1>1, <1>2, TriedFacts
  <1>4. msg.attempts < tries'[msg.job] /\ msg.attempts + 1 <= tries'[msg.job]
    BY <1>2, <1>3 DEF Sound
  <1>5. CASE backend = "sqs"
    <2>1. /\ queue' \in Seq(Message) /\ IsInjective(queue')
          /\ Range(queue') \subseteq Range(queue)
          /\ \A m \in Range(queue) \ Range(queue') : m = msg
          /\ inflight' \subseteq inflight
          /\ \A l \in inflight \ inflight' : l.msg = msg
      BY <1>0, <1>1, <1>2, <1>5, DeleteFacts
    <2>2. /\ client' \in [Clients -> [pc : PC, msg : Message \cup {NoMsg}]]
          /\ client'[c].pc = "resend" /\ client'[c].msg = msg
          /\ \A b \in Clients \ {c} : client'[b] = client[b]
      BY <1>1, <1>2, <1>5, GotoFacts DEF PC
    <2>3. TypeOK'
      BY <1>1, <1>2, <1>3, <1>5, <2>1, <2>2 DEF TypeOK
    <2>4. Grows
      BY <1>1, <1>2, <1>3, <1>5 DEF Grows, TypeOK
    <2>5. StoreOK'
      BY <1>2, <2>1, <2>4, StoreShrinks
    <2>6. \A b \in Clients : ClientOK(b)'
      <3>1. ClientOK(c)'
        <4>1. Sound(msg)'
          BY <1>2, <2>4, SoundGrows
        <4> QED
          BY <1>1, <1>4, <1>5, <2>2, <4>1 DEF ClientOK, Holds
      <3>2. ASSUME NEW b \in Clients \ {c} PROVE ClientOK(b)'
        <4>1. Lease(b) \in inflight => Lease(b) \in inflight' \/ late' > 0
          BY <1>1, <1>5, OthersLeases
        <4> QED
          BY <1>1, <1>2, <2>2, <2>4, <4>1, ClientKept DEF Inv, TypeOK
      <3> QED
        BY <3>1, <3>2
    <2>7. DlqOK'
      BY <1>1, <1>5, <2>4, DlqKept DEF Inv
    <2>8. LossOK'
      BY <1>1, <1>2, <2>2, <2>3, LossSame DEF Inv
    <2>9. \A k \in published' : Anchored(k)'
      <3> TAKE k \in published'
      <3>1. Anchored(k)
        BY <1>1, <1>5 DEF Inv
      <3>2. msg.job = k => Anchored(k)'
        BY <2>2 DEF Anchored
      <3>3. \A b \in Clients : client[b].pc = "resend" => client'[b] = client[b]
        BY <1>1, <2>2
      <3> QED
        BY <1>1, <1>5, <2>1, <3>1, <3>2, <3>3, AnchorKept
    <2> QED
      BY <1>1, <2>3, <2>5, <2>6, <2>7, <2>8, <2>9 DEF Inv
  <1>6. CASE backend # "sqs"
    <2>1. /\ client' \in [Clients -> [pc : PC, msg : Message \cup {NoMsg}]]
          /\ client'[c].pc = "idle"
          /\ \A b \in Clients \ {c} : client'[b] = client[b]
      BY <1>1, <1>2, <1>6, GotoFacts DEF PC
    <2>2. sent \in Nat /\ sent' = sent + 1
      BY <1>1, <1>2, <1>6, RequeueFacts
    <2>3. Grows
      BY <1>1, <1>2, <1>3, <2>2 DEF Grows, TypeOK
    <2>4. StoreOK' /\ DlqOK' /\ queue' \in Seq(Message) /\ dlq' \subseteq Message
      BY <1>1, <1>2, <1>4, <1>6, <2>3, RequeueOK
    <2>5. TypeOK'
      BY <1>1, <1>2, <1>3, <1>6, <2>1, <2>2, <2>4 DEF TypeOK
    <2>6. \A b \in Clients : ClientOK(b)'
      <3>1. ClientOK(c)'
        BY <2>1 DEF ClientOK, Holds
      <3> QED
        BY <1>1, <1>2, <1>6, <2>1, <2>3, <3>1, ClientKept DEF Inv, TypeOK
    <2>7. LossOK'
      BY <1>1, <1>2, <2>1, <2>5, LossSame DEF Inv
    <2> QED
      BY <1>1, <1>6, <2>4, <2>5, <2>6, <2>7 DEF Inv
  <1> QED
    BY <1>5, <1>6

LEMMA ResendOK ==
    ASSUME Inv, NEW c \in Clients, Resend(c)
    PROVE  Inv'
  <1>0. PICK msg : msg = client[c].msg
    OBVIOUS
  <1>1. /\ client[c].pc = "resend" /\ Requeue(msg) /\ Goto(c, "idle", NoMsg)
        /\ UNCHANGED <<backend, inflight, published, completed, lost, tries, crashes, late, smokes>>
    BY <1>0 DEF Resend, history
  <1>2. /\ TypeOK /\ StoreOK /\ DlqOK /\ backend = "sqs"
        /\ Sound(msg) /\ msg \in Message /\ msg.job \in AllJobs /\ msg.attempts \in Nat
        /\ msg.attempts < tries[msg.job] /\ tries[msg.job] \in Nat
    BY <1>0, <1>1 DEF Inv, ClientOK, Holds, Sound, Message, TypeOK
  <1>3. /\ client' \in [Clients -> [pc : PC, msg : Message \cup {NoMsg}]]
        /\ client'[c].pc = "idle"
        /\ \A b \in Clients \ {c} : client'[b] = client[b]
    BY <1>1, <1>2, GotoFacts DEF PC
  <1>4. PICK new : new = Again(msg)
    OBVIOUS
  <1>5. /\ sent' = sent + 1 /\ sent \in Nat
        /\ \/ dlq' = dlq \cup {new} /\ queue' = queue
           \/ dlq' = dlq /\ Range(queue') = Range(queue) \cup {new}
    BY <1>1, <1>2, <1>4, RequeueFacts
  <1>6. Grows
    BY <1>1, <1>2, <1>5 DEF Grows, TypeOK
  <1>7. StoreOK' /\ DlqOK' /\ queue' \in Seq(Message) /\ dlq' \subseteq Message
    BY <1>1, <1>2, <1>6, RequeueOK
  <1>8. TypeOK'
    BY <1>1, <1>2, <1>3, <1>5, <1>7 DEF TypeOK
  <1>9. \A b \in Clients : ClientOK(b)'
    <2>1. ClientOK(c)'
      BY <1>3 DEF ClientOK, Holds
    <2> QED
      BY <1>1, <1>2, <1>3, <1>6, <2>1, ClientKept DEF Inv, TypeOK
  <1>10. LossOK'
    BY <1>1, <1>2, <1>3, <1>8, LossSame DEF Inv
  <1>11. \A k \in published' : Anchored(k)'
    <2> TAKE k \in published'
    <2>1. Anchored(k)
      BY <1>1, <1>2 DEF Inv
    <2>2. new.job = msg.job
      BY <1>4 DEF Again
    <2>3. msg.job = k => Anchored(k)'
      BY <1>5, <2>2 DEF Anchored, Dead
    <2>4. \A b \in Clients : client[b].pc = "resend" /\ client[b].msg.job = k =>
                               client'[b] = client[b] \/ Anchored(k)'
      BY <1>0, <1>3, <2>3
    <2>5. Range(queue) \subseteq Range(queue') /\ dlq \subseteq dlq'
      BY <1>5
    <2> QED
      BY <1>1, <2>1, <2>4, <2>5, AnchorKept
  <1> QED
    BY <1>1, <1>7, <1>8, <1>9, <1>10, <1>11 DEF Inv

LEMMA SmokePublishOK ==
    ASSUME Inv, NEW c \in Clients, SmokePublish(c)
    PROVE  Inv'
  <1>1. /\ backend = "rabbitmq" /\ client[c].pc = "idle"
        /\ Send(SmokeJob, 0) /\ Goto(c, "published", NoMsg) /\ smokes' = smokes + 1
        /\ UNCHANGED <<backend, inflight, published, completed, lost, tries, crashes, late>>
    BY DEF SmokePublish, history
  <1>2. TypeOK /\ StoreOK /\ SmokeJob \in AllJobs /\ 0 \in Nat
    BY DEF Inv, AllJobs
  <1>3. PICK new : new = [job |-> SmokeJob, attempts |-> 0, id |-> sent]
    OBVIOUS
  <1>4. /\ new \in Message /\ new \notin Range(queue)
        /\ queue' \in Seq(Message) /\ IsInjective(queue')
        /\ Range(queue') = Range(queue) \cup {new}
        /\ sent' = sent + 1 /\ sent \in Nat /\ dlq' = dlq
    BY <1>1, <1>2, <1>3, SendFacts
  <1>5. new.job = SmokeJob /\ new.attempts = 0 /\ new.id = sent
    BY <1>3
  <1>6. /\ client' \in [Clients -> [pc : PC, msg : Message \cup {NoMsg}]]
        /\ client'[c].pc = "published"
        /\ \A b \in Clients \ {c} : client'[b] = client[b]
    BY <1>1, <1>2, GotoFacts DEF PC
  <1>7. TypeOK'
    BY <1>1, <1>2, <1>4, <1>6 DEF TypeOK
  <1>8. Grows
    BY <1>1, <1>2, <1>4 DEF Grows, TypeOK
  <1>9. StoreOK'
    <2>1. Sound(new)'
      BY <1>1, <1>2, <1>4, <1>5, CountAssumption DEF Sound, TypeOK
    <2> QED
      BY <1>1, <1>2, <1>4, <1>5, <1>8, <2>1, StoreAppends
  <1>10. \A b \in Clients : ClientOK(b)'
    <2>1. ClientOK(c)'
      BY <1>1, <1>6 DEF ClientOK, Holds
    <2> QED
      BY <1>1, <1>2, <1>6, <1>8, <2>1, ClientKept DEF Inv, TypeOK
  <1>11. DlqOK'
    BY <1>4, <1>8, DlqKept DEF Inv
  <1>12. LossOK'
    <2>1. Smoking' = Smoking \cup {c}
      BY <1>6 DEF Smoking
    <2>2. Cardinality(Smoking') <= Cardinality(Smoking) + 1
      <3>1. Cardinality(Smoking \cup {c}) = IF c \in Smoking THEN Cardinality(Smoking)
                                                           ELSE Cardinality(Smoking) + 1
        BY SmokingFinite, FS_AddElement
      <3> QED
        BY <2>1, <3>1, SmokingFinite
    <2>3. /\ IsFiniteSet(lost) /\ Cardinality(lost) \in Nat
          /\ Cardinality(lost) + Cardinality(Smoking) <= crashes + smokes
      BY FS_CardinalityType DEF Inv, LossOK
    <2> QED
      BY <1>1, <1>2, <2>2, <2>3, SmokingFinite DEF LossOK, TypeOK
  <1> QED
    BY <1>1, <1>7, <1>9, <1>10, <1>11, <1>12 DEF Inv

LEMMA SmokeConsumeOK ==
    ASSUME Inv, NEW c \in Clients, SmokeConsume(c)
    PROVE  Inv'
  <1>1. /\ client[c].pc = "published"
        /\ UNCHANGED <<backend, published, completed, lost, tries, crashes, late, smokes>>
    BY DEF SmokeConsume, history
  <1>2. TypeOK /\ StoreOK /\ backend = "rabbitmq" /\ inflight = {}
    BY <1>1 DEF Inv, ClientOK, StoreOK
  <1>3. CASE Goto(c, "idle", NoMsg) /\ UNCHANGED <<queue, dlq, inflight, sent>>
    <2>1. /\ client' \in [Clients -> [pc : PC, msg : Message \cup {NoMsg}]]
          /\ client'[c].pc = "idle"
          /\ \A b \in Clients \ {c} : client'[b] = client[b]
      BY <1>2, <1>3, GotoFacts DEF PC
    <2>2. TypeOK'
      BY <1>1, <1>2, <1>3, <2>1 DEF TypeOK
    <2>3. Grows
      BY <1>1, <1>2, <1>3 DEF Grows, TypeOK
    <2>4. StoreOK'
      BY <1>2, <1>3, <2>3, StoreShrinks DEF StoreOK
    <2>5. \A b \in Clients : ClientOK(b)'
      <3>1. ClientOK(c)'
        BY <2>1 DEF ClientOK, Holds
      <3> QED
        BY <1>1, <1>2, <1>3, <2>1, <2>3, <3>1, ClientKept DEF Inv, TypeOK
    <2>6. DlqOK'
      BY <1>3, <2>3, DlqKept DEF Inv
    <2>7. LossOK'
      BY <1>1, <1>2, <2>1, <2>2, LossSame DEF Inv
    <2> QED
      BY <1>1, <1>2, <2>2, <2>4, <2>5, <2>6, <2>7 DEF Inv
  <1>4. ASSUME NEW msg, Receive(c, msg), Goto(c, "consumed", msg)
        PROVE  Inv'
    <2>1. /\ msg \in Range(queue)
          /\ queue' \in Seq(Message) /\ IsInjective(queue')
          /\ Range(queue') = Range(queue) \ {msg}
          /\ inflight' = inflight /\ UNCHANGED <<dlq, sent>>
      BY <1>2, <1>4, ReceiveFacts
    <2>2. Sound(msg) /\ msg \in Message
      BY <1>2, <2>1 DEF StoreOK, Sound
    <2>3. /\ client' \in [Clients -> [pc : PC, msg : Message \cup {NoMsg}]]
          /\ client'[c].pc = "consumed" /\ client'[c].msg = msg
          /\ \A b \in Clients \ {c} : client'[b] = client[b]
      BY <1>2, <1>4, <2>2, GotoFacts DEF PC
    <2>4. TypeOK'
      BY <1>1, <1>2, <2>1, <2>3 DEF TypeOK
    <2>5. Grows
      BY <1>1, <1>2, <2>1 DEF Grows, TypeOK
    <2>6. StoreOK'
      BY <1>2, <2>1, <2>5, StoreShrinks
    <2>7. \A b \in Clients : ClientOK(b)'
      <3>1. ClientOK(c)'
        <4>1. Sound(msg)'
          BY <2>2, <2>5, SoundGrows
        <4> QED
          BY <1>1, <1>2, <2>3, <4>1 DEF ClientOK
      <3> QED
        BY <1>1, <1>2, <2>1, <2>3, <2>5, <3>1, ClientKept DEF Inv, TypeOK
    <2>8. DlqOK'
      BY <2>1, <2>5, DlqKept DEF Inv
    <2>9. LossOK'
      BY <1>1, <1>2, <2>3, <2>4, LossSame DEF Inv
    <2> QED
      BY <1>1, <1>2, <2>4, <2>6, <2>7, <2>8, <2>9 DEF Inv
  <1> QED
    BY <1>3, <1>4 DEF SmokeConsume, store

LEMMA SmokeRetryOK ==
    ASSUME Inv, NEW c \in Clients, SmokeRetry(c)
    PROVE  Inv'
  <1>0. PICK msg : msg = client[c].msg
    OBVIOUS
  <1>1. /\ client[c].pc = "consumed" /\ Requeue(msg) /\ Goto(c, "requeued", NoMsg) /\ Tried(msg)
        /\ UNCHANGED <<backend, inflight, published, completed, lost, crashes, late, smokes>>
    BY <1>0 DEF SmokeRetry
  <1>2. /\ TypeOK /\ StoreOK /\ DlqOK /\ backend = "rabbitmq"
        /\ Sound(msg) /\ msg \in Message /\ msg.job \in AllJobs /\ msg.attempts \in Nat
    BY <1>0, <1>1 DEF Inv, ClientOK, Holds, Sound, Message
  <1>3. /\ tries' \in [AllJobs -> Nat]
        /\ tries'[msg.job] = tries[msg.job] + 1
        /\ \A j \in AllJobs : tries[j] \in Nat /\ tries'[j] \in Nat /\ tries[j] <= tries'[j]
    BY <1>1, <1>2, TriedFacts
  <1>4. msg.attempts + 1 <= tries'[msg.job]
    BY <1>2, <1>3 DEF Sound
  <1>5. /\ client' \in [Clients -> [pc : PC, msg : Message \cup {NoMsg}]]
        /\ client'[c].pc = "requeued"
        /\ \A b \in Clients \ {c} : client'[b] = client[b]
    BY <1>1, <1>2, GotoFacts DEF PC
  <1>6. sent \in Nat /\ sent' = sent + 1
    BY <1>1, <1>2, RequeueFacts
  <1>7. Grows
    BY <1>1, <1>2, <1>3, <1>6 DEF Grows, TypeOK
  <1>8. StoreOK' /\ DlqOK' /\ queue' \in Seq(Message) /\ dlq' \subseteq Message
    BY <1>1, <1>2, <1>4, <1>7, RequeueOK
  <1>9. TypeOK'
    BY <1>1, <1>2, <1>3, <1>5, <1>6, <1>8 DEF TypeOK
  <1>10. \A b \in Clients : ClientOK(b)'
    <2>1. ClientOK(c)'
      BY <1>1, <1>2, <1>5 DEF ClientOK, Holds
    <2> QED
      BY <1>1, <1>2, <1>5, <1>7, <2>1, ClientKept DEF Inv, TypeOK
  <1>11. LossOK'
    BY <1>1, <1>2, <1>5, <1>9, LossSame DEF Inv
  <1> QED
    BY <1>1, <1>2, <1>8, <1>9, <1>10, <1>11 DEF Inv

LEMMA SmokeReconsumeOK ==
    ASSUME Inv, NEW c \in Clients, SmokeReconsume(c)
    PROVE  Inv'
  <1>1. /\ client[c].pc = "requeued" /\ Goto(c, "idle", NoMsg)
        /\ UNCHANGED <<backend, published, completed, tries, crashes, late, smokes>>
    BY DEF SmokeReconsume
  <1>2. TypeOK /\ StoreOK /\ backend = "rabbitmq" /\ inflight = {}
    BY <1>1 DEF Inv, ClientOK, StoreOK
  <1>3. /\ client' \in [Clients -> [pc : PC, msg : Message \cup {NoMsg}]]
        /\ client'[c].pc = "idle"
        /\ \A b \in Clients \ {c} : client'[b] = client[b]
    BY <1>1, <1>2, GotoFacts DEF PC
  <1>4. ClientOK(c)'
    BY <1>3 DEF ClientOK, Holds
  <1>5. CASE UNCHANGED <<queue, dlq, inflight, sent, lost>>
    <2>1. TypeOK'
      BY <1>1, <1>2, <1>3, <1>5 DEF TypeOK
    <2>2. Grows
      BY <1>1, <1>2, <1>5 DEF Grows, TypeOK
    <2>3. StoreOK'
      BY <1>2, <1>5, <2>2, StoreShrinks DEF StoreOK
    <2>4. \A b \in Clients : ClientOK(b)'
      BY <1>1, <1>2, <1>3, <1>4, <1>5, <2>2, ClientKept DEF Inv, TypeOK
    <2>5. DlqOK'
      BY <1>5, <2>2, DlqKept DEF Inv
    <2>6. LossOK'
      BY <1>1, <1>2, <1>3, <1>5, <2>1, LossSame DEF Inv
    <2> QED
      BY <1>1, <1>2, <2>1, <2>3, <2>4, <2>5, <2>6 DEF Inv
  <1>6. ASSUME NEW msg, Receive(c, msg), lost' = lost \cup {msg.job}
        PROVE  Inv'
    <2>1. /\ msg \in Range(queue)
          /\ queue' \in Seq(Message) /\ IsInjective(queue')
          /\ Range(queue') = Range(queue) \ {msg}
          /\ inflight' = inflight /\ UNCHANGED <<dlq, sent>>
      BY <1>2, <1>6, ReceiveFacts
    <2>2. msg.job \in AllJobs
      BY <1>2, <2>1 DEF StoreOK, Sound, Message
    <2>3. TypeOK'
      BY <1>1, <1>2, <1>3, <1>6, <2>1, <2>2 DEF TypeOK
    <2>4. Grows
      BY <1>1, <1>2, <2>1 DEF Grows, TypeOK
    <2>5. StoreOK'
      BY <1>2, <2>1, <2>4, StoreShrinks
    <2>6. \A b \in Clients : ClientOK(b)'
      BY <1>1, <1>2, <1>3, <1>4, <2>1, <2>4, ClientKept DEF Inv, TypeOK
    <2>7. DlqOK'
      BY <2>1, <2>4, DlqKept DEF Inv
    <2>8. LossOK'
      <3>1. Smoking' \subseteq Smoking \ {c} /\ c \in Smoking
        BY <1>1, <1>3 DEF Smoking
      <3> QED
        BY <1>1, <1>2, <1>6, <2>3, <3>1, LossPaid DEF Inv
    <2> QED
      BY <1>1, <1>2, <2>3, <2>5, <2>6, <2>7, <2>8 DEF Inv
  <1> QED
    BY <1>5, <1>6 DEF SmokeReconsume, store

LEMMA CrashOK ==
    ASSUME Inv, NEW c \in Clients, Crash(c)
    PROVE  Inv'
  <1>1. /\ client[c].pc # "idle" /\ crashes' = crashes + 1 /\ Goto(c, "idle", NoMsg)
        /\ lost' = IF Holds(c) /\ (backend = "sqs" => client[c].pc = "resend")
                   THEN lost \cup {client[c].msg.job} ELSE lost
        /\ UNCHANGED <<backend, queue, dlq, inflight, sent, published, completed, tries, late, smokes>>
    BY DEF Crash, store
  <1>2. TypeOK /\ StoreOK
    BY DEF Inv
  <1>3. /\ client' \in [Clients -> [pc : PC, msg : Message \cup {NoMsg}]]
        /\ client'[c].pc = "idle"
        /\ \A b \in Clients \ {c} : client'[b] = client[b]
    BY <1>1, <1>2, GotoFacts DEF PC
  <1>4. Holds(c) => client[c].msg.job \in AllJobs
    BY DEF Inv, ClientOK, Sound, Message
  <1>5. TypeOK'
    BY <1>1, <1>2, <1>3, <1>4 DEF TypeOK
  <1>6. Grows
    BY <1>1, <1>2 DEF Grows, TypeOK
  <1>7. StoreOK'
    BY <1>1, <1>2, <1>6, StoreShrinks DEF StoreOK
  <1>8. \A b \in Clients : ClientOK(b)'
    <2>1. ClientOK(c)'
      BY <1>3 DEF ClientOK, Holds
    <2> QED
      BY <1>1, <1>2, <1>3, <1>6, <2>1, ClientKept DEF Inv, TypeOK
  <1>9. DlqOK'
    BY <1>1, <1>6, DlqKept DEF Inv
  <1>10. LossOK'
    <2>1. Smoking' \subseteq Smoking \ {c}
      BY <1>3 DEF Smoking
    <2>2. CASE lost' = lost
      <3>1. crashes <= crashes' /\ smokes <= smokes'
        BY <1>1, <1>2 DEF TypeOK
      <3> QED
        BY <1>2, <1>5, <2>1, <2>2, <3>1, LossKept DEF Inv
    <2>3. CASE lost' = lost \cup {client[c].msg.job}
      BY <1>1, <1>2, <1>5, <2>1, <2>3, LossPaid DEF Inv
    <2> QED
      BY <1>1, <2>2, <2>3
  <1>11. backend' = "sqs" => \A k \in published' : Anchored(k)'
    <2> SUFFICES ASSUME backend = "sqs", NEW k \in published
                 PROVE  Anchored(k)'
      BY <1>1
    <2>1. Anchored(k)
      BY DEF Inv
    <2>2. client[c].pc = "resend" /\ client[c].msg.job = k => Anchored(k)'
      BY <1>1 DEF Anchored, Holds
    <2>3. lost \subseteq lost'
      BY <1>1
    <2>4. \A b \in Clients : client[b].pc = "resend" /\ client[b].msg.job = k =>
                               client'[b] = client[b] \/ Anchored(k)'
      BY <1>3, <2>2
    <2> QED
      BY <1>1, <2>1, <2>3, <2>4, AnchorKept
  <1> QED
    BY <1>1, <1>5, <1>7, <1>8, <1>9, <1>10, <1>11 DEF Inv

LEMMA ReappearOK ==
    ASSUME Inv, NEW l \in inflight, Reappear(l),
           \/ late' = late /\ ~Alive(l)
           \/ late' = late + 1
    PROVE  Inv'
  <1>1. /\ inflight' = inflight \ {l} /\ queue' = Append(queue, l.msg)
        /\ UNCHANGED <<backend, dlq, sent, client, published, completed, lost, tries, crashes, smokes>>
    BY DEF Reappear, history
  <1>2. /\ TypeOK /\ StoreOK /\ queue \in Seq(Message) /\ IsInjective(queue)
        /\ l.msg \in Message /\ l.msg \notin Range(queue) /\ late \in Nat /\ late' \in Nat
    BY DEF Inv, TypeOK, StoreOK, Sound
  <1>3. /\ queue' \in Seq(Message) /\ IsInjective(queue')
        /\ Range(queue') = Range(queue) \cup {l.msg}
    BY <1>1, <1>2, Appended
  <1>4. TypeOK'
    BY <1>1, <1>2, <1>3 DEF TypeOK
  <1>5. Grows
    BY <1>1, <1>2 DEF Grows, TypeOK
  <1>6. StoreOK'
    BY <1>1, <1>2, <1>3, <1>5, StoreShows
  <1>7. \A b \in Clients : ClientOK(b)'
    <2> TAKE b \in Clients
    <2>1. late <= late'
      BY <1>2
    <2>2. CASE late' > 0
      BY <1>1, <1>2, <1>5, <2>1, <2>2, ClientKept DEF Inv
    <2>3. CASE late' = late /\ ~Alive(l)
      <3>1. CASE client[b].pc = "working"
        <4>1. client[b] = [pc |-> "working", msg |-> client[b].msg]
          BY <1>2, <3>1 DEF TypeOK
        <4>2. l # Lease(b)
          BY <2>3, <4>1 DEF Lease, Alive
        <4> QED
          BY <1>1, <1>2, <1>5, <2>1, <4>2, ClientKept DEF Inv
      <3>2. CASE client[b].pc # "working"
        <4>1. ClientOK(b)
          BY DEF Inv
        <4>2. Sound(client[b].msg) => Sound(client[b].msg)'
          BY <1>1, <1>5, SoundGrows
        <4> QED
          BY <1>1, <3>2, <4>1, <4>2 DEF ClientOK, Holds
      <3> QED
        BY <3>1, <3>2
    <2> QED
      BY <1>2, <2>2, <2>3
  <1>8. DlqOK'
    BY <1>1, <1>5, DlqKept DEF Inv
  <1>9. LossOK'
    <2>1. Smoking' \subseteq Smoking /\ crashes <= crashes' /\ smokes <= smokes'
      BY <1>1, <1>2 DEF Smoking, TypeOK
    <2> QED
      BY <1>1, <1>2, <1>4, <2>1, LossKept DEF Inv
  <1>10. backend' = "sqs" => \A k \in published' : Anchored(k)'
    <2> SUFFICES ASSUME backend = "sqs", NEW k \in published
                 PROVE  Anchored(k)'
      BY <1>1
    <2>1. Anchored(k)
      BY DEF Inv
    <2>2. l.msg.job = k => Anchored(k)'
      BY <1>3 DEF Anchored
    <2>3. Range(queue) \subseteq Range(queue')
      BY <1>3
    <2> QED
      BY <1>1, <2>1, <2>2, <2>3, AnchorKept
  <1> QED
    BY <1>1, <1>4, <1>6, <1>7, <1>8, <1>9, <1>10 DEF Inv

LEMMA StutterOK ==
    ASSUME Inv, UNCHANGED vars
    PROVE  Inv'
  <1>1. UNCHANGED <<backend, queue, dlq, inflight, sent, client, published, completed, lost, tries,
                    crashes, late, smokes>>
    BY DEF vars, store, history
  <1> QED
    BY <1>1 DEF Inv, TypeOK, StoreOK, ClientOK, Holds, Lease, Sound, DlqOK, LossOK, Smoking,
                Anchored, Dead

\* The invariant, step by step.
LEMMA Inductive ==
    ASSUME Inv, [Next]_vars
    PROVE  Inv'
  <1>1. ASSUME TimeOut PROVE Inv'
    BY <1>1, ReappearOK DEF TimeOut, Reappear
  <1>2. ASSUME TimeOutEarly PROVE Inv'
    BY <1>2, ReappearOK DEF TimeOutEarly, Reappear
  <1> QED
    BY <1>1, <1>2, PublishOK, WorkOK, AckOK, RetryOK, ResendOK, SmokePublishOK, SmokeConsumeOK,
       SmokeRetryOK, SmokeReconsumeOK, CrashOK, StutterOK
    DEF Next, WorkerStep, SmokeStep

LEMMA Initial == Init => Inv
  <1> SUFFICES ASSUME Init PROVE Inv
    OBVIOUS
  <1>1. \A c \in Clients : client[c] = Idle
    BY DEF Init
  <1>2. Idle.pc = "idle" /\ Idle.msg = NoMsg /\ Idle \in [pc : PC, msg : Message \cup {NoMsg}]
    BY DEF Idle, PC
  <1>3. Range(queue) = {} /\ IsInjective(queue) /\ queue \in Seq(Message)
    BY DEF Init, Range, IsInjective
  <1>4. TypeOK
    BY <1>2, <1>3 DEF Init, TypeOK
  <1>5. StoreOK
    BY <1>3, FS_EmptySet DEF Init, StoreOK
  <1>6. \A c \in Clients : ClientOK(c)
    BY <1>1, <1>2 DEF ClientOK, Holds
  <1>7. LossOK
    <2>1. Smoking = {}
      BY <1>1, <1>2 DEF Smoking
    <2> QED
      BY <2>1, FS_EmptySet DEF Init, LossOK
  <1> QED
    BY <1>4, <1>5, <1>6, <1>7 DEF Init, Inv, DlqOK

LEMMA AdaptersSound == Spec => []Inv
  BY Initial, Inductive, PTL DEF Spec

-----------------------------------------------------------------------------

\* The variables of the adapters keep their types.
THEOREM AdapterTypes == Spec => []TypeOK
  BY AdaptersSound, PTL DEF Inv

\* With every broker a job is dead-lettered after max_attempts tries (calls of retry)
\* and no earlier, for any number of clients, overruns, crashes and smoke tests.
THEOREM DeadLettersEarned == Spec => []DeadLetterAfterAllTries
  <1>1. ASSUME Inv PROVE DeadLetterAfterAllTries
    <2>1. \A i \in DOMAIN queue : queue[i] \in Range(queue)
      BY DEF Range
    <2> QED
      BY <1>1, <2>1 DEF Inv, DlqOK, StoreOK, Sound, DeadLetterAfterAllTries
  <1> QED
    BY <1>1, AdaptersSound, PTL

(***************************************************************************)
(* Counting the copies of a job.                                           *)
(***************************************************************************)
InQueue(j) == {m \in Range(queue) : m.job = j}

\* The three counts that copies adds up.
Waiting(j) == Cardinality(InQueue(j))
Taken(j) == Cardinality(Held(j))
Hidden(j) == Cardinality(Orphans(j))

LEMMA Counts ==
    ASSUME Inv, NEW j \in Jobs
    PROVE  /\ copies[j] = Waiting(j) + Taken(j) + Hidden(j)
           /\ IsFiniteSet(InQueue(j)) /\ IsFiniteSet(Held(j)) /\ IsFiniteSet(Orphans(j))
           /\ Waiting(j) \in Nat /\ Taken(j) \in Nat /\ Hidden(j) \in Nat
  <1>1. queue \in Seq(Message) /\ IsInjective(queue) /\ IsFiniteSet(inflight)
    BY DEF Inv, TypeOK, StoreOK
  <1>2. IsFiniteSet(InQueue(j)) /\ Cardinality(Queued(j)) = Cardinality(InQueue(j))
    BY <1>1, Places DEF InQueue, Queued
  <1>3. Held(j) \subseteq Clients /\ Orphans(j) \subseteq inflight
    BY DEF Held, Orphans
  <1>4. IsFiniteSet(Held(j)) /\ IsFiniteSet(Orphans(j))
    BY <1>1, <1>3, ClientAssumption, FS_Subset
  <1> QED
    BY <1>2, <1>4, FS_CardinalityType DEF copies, Waiting, Taken, Hidden

LEMMA CountsNext ==
    ASSUME Inv', NEW j \in Jobs
    PROVE  /\ copies'[j] = Waiting(j)' + Taken(j)' + Hidden(j)'
           /\ IsFiniteSet(InQueue(j)') /\ IsFiniteSet(Held(j)') /\ IsFiniteSet(Orphans(j)')
           /\ Waiting(j)' \in Nat /\ Taken(j)' \in Nat /\ Hidden(j)' \in Nat
  <1>1. queue' \in Seq(Message) /\ IsInjective(queue') /\ IsFiniteSet(inflight')
    BY DEF Inv, TypeOK, StoreOK
  <1>2. IsFiniteSet(InQueue(j)') /\ Cardinality(Queued(j)') = Cardinality(InQueue(j)')
    BY <1>1, Places DEF InQueue, Queued
  <1>3. Held(j)' \subseteq Clients /\ Orphans(j)' \subseteq inflight'
    BY DEF Held, Orphans
  <1>4. IsFiniteSet(Held(j)') /\ IsFiniteSet(Orphans(j)')
    BY <1>1, <1>3, ClientAssumption, FS_Subset
  <1> QED
    BY <1>2, <1>4, FS_CardinalityType DEF copies, Waiting, Taken, Hidden

\* One in, one out, or some out.
LEMMA Joins ==
    ASSUME NEW S, IsFiniteSet(S), NEW x, x \notin S
    PROVE  Cardinality(S \cup {x}) = Cardinality(S) + 1
  BY FS_AddElement

LEMMA Leaves ==
    ASSUME NEW S, IsFiniteSet(S), NEW x, x \in S
    PROVE  Cardinality(S \ {x}) = Cardinality(S) - 1
  BY FS_RemoveElement

LEMMA Shrinks ==
    ASSUME NEW S, IsFiniteSet(S), NEW T, T \subseteq S
    PROVE  Cardinality(T) <= Cardinality(S)
  BY FS_Subset

Still(j) == /\ InQueue(j)' = InQueue(j) /\ Held(j)' = Held(j) /\ Orphans(j)' = Orphans(j)

LEMMA StillCopies ==
    ASSUME Inv, Inv', NEW j \in Jobs, Still(j)
    PROVE  copies'[j] = copies[j]
  BY Counts, CountsNext DEF Still, Waiting, Taken, Hidden

\* A copy moves from the queue to a client ...
LEMMA Given ==
    ASSUME Inv, Inv', NEW j \in Jobs, NEW m \in InQueue(j), NEW c, c \notin Held(j),
           InQueue(j)' = InQueue(j) \ {m}, Held(j)' = Held(j) \cup {c}, Orphans(j)' = Orphans(j)
    PROVE  copies'[j] = copies[j]
  <1>1. /\ Waiting(j)' = Waiting(j) - 1
        /\ Taken(j)' = Taken(j) + 1
    BY Counts, Joins, Leaves DEF Waiting, Taken, Hidden
  <1>2. Hidden(j)' = Hidden(j)
    BY DEF Waiting, Taken, Hidden
  <1> QED
    BY <1>1, <1>2, Counts, CountsNext

\* ... and back,
LEMMA Returned ==
    ASSUME Inv, Inv', NEW j \in Jobs, NEW m, m \notin InQueue(j), NEW c \in Held(j),
           InQueue(j)' = InQueue(j) \cup {m}, Held(j)' = Held(j) \ {c}, Orphans(j)' = Orphans(j)
    PROVE  copies'[j] = copies[j]
  <1>1. /\ Waiting(j)' = Waiting(j) + 1
        /\ Taken(j)' = Taken(j) - 1
    BY Counts, Joins, Leaves DEF Waiting, Taken, Hidden
  <1>2. Hidden(j)' = Hidden(j)
    BY DEF Waiting, Taken, Hidden
  <1> QED
    BY <1>1, <1>2, Counts, CountsNext

\* ... from a client that dies to its lease, and from there to the queue.
LEMMA Orphaned ==
    ASSUME Inv, Inv', NEW j \in Jobs, NEW l, l \notin Orphans(j), NEW c \in Held(j),
           Orphans(j)' = Orphans(j) \cup {l}, Held(j)' = Held(j) \ {c}, InQueue(j)' = InQueue(j)
    PROVE  copies'[j] = copies[j]
  <1>1. /\ Hidden(j)' = Hidden(j) + 1
        /\ Taken(j)' = Taken(j) - 1
    BY Counts, Joins, Leaves DEF Waiting, Taken, Hidden
  <1>2. Waiting(j)' = Waiting(j)
    BY DEF Waiting, Taken, Hidden
  <1> QED
    BY <1>1, <1>2, Counts, CountsNext

LEMMA Reappeared ==
    ASSUME Inv, Inv', NEW j \in Jobs, NEW m, m \notin InQueue(j), NEW l \in Orphans(j),
           InQueue(j)' = InQueue(j) \cup {m}, Orphans(j)' = Orphans(j) \ {l}, Held(j)' = Held(j)
    PROVE  copies'[j] = copies[j]
  <1>1. /\ Waiting(j)' = Waiting(j) + 1
        /\ Hidden(j)' = Hidden(j) - 1
    BY Counts, Joins, Leaves DEF Waiting, Taken, Hidden
  <1>2. Taken(j)' = Taken(j)
    BY DEF Waiting, Taken, Hidden
  <1> QED
    BY <1>1, <1>2, Counts, CountsNext

LEMMA OneMore ==
    ASSUME Inv, Inv', NEW j \in Jobs, NEW m, m \notin InQueue(j),
           InQueue(j)' = InQueue(j) \cup {m}, Orphans(j)' = Orphans(j), Held(j)' = Held(j)
    PROVE  copies'[j] = copies[j] + 1
  <1>1. Waiting(j)' = Waiting(j) + 1
    BY Counts, Joins DEF Waiting, Taken, Hidden
  <1>2. /\ Taken(j)' = Taken(j)
        /\ Hidden(j)' = Hidden(j)
    BY DEF Waiting, Taken, Hidden
  <1> QED
    BY <1>1, <1>2, Counts, CountsNext

\* D!Drop, for the copies of a job.
LEMMA Dropped ==
    ASSUME Inv, Inv', NEW j \in Jobs, \A k \in Jobs \ {j} : Still(k),
           copies'[j] < copies[j], copies'[j] = copies[j] - 1 \/ late > 0
    PROVE  D!Drop(j)
  <1>1. copies[j] \in Nat /\ copies'[j] \in Nat
    BY Counts, CountsNext
  <1>2. copies'[j] \in 0..(copies[j] - 1)
    BY <1>1
  <1>3. \A k \in Jobs \ {j} : copies'[k] = copies[k]
    BY StillCopies
  <1>4. copies' = [copies EXCEPT ![j] = copies'[j]]
    <2>1. /\ copies = [k \in Jobs |-> copies[k]]
          /\ copies' = [k \in Jobs |-> copies'[k]]
      BY DEF copies
    <2> QED
      BY <1>3, <2>1
  <1> QED
    BY <1>2, <1>4 DEF D!Drop, overrun

\* What a client holds goes with it, and perhaps other copies.
LEMMA HeldDropped ==
    ASSUME Inv, Inv', NEW j \in Jobs, \A k \in Jobs \ {j} : Still(k),
           NEW c \in Held(j), Held(j)' = Held(j) \ {c},
           InQueue(j)' \subseteq InQueue(j), Orphans(j)' \subseteq Orphans(j),
           \/ late > 0
           \/ InQueue(j)' = InQueue(j) /\ Orphans(j)' = Orphans(j)
    PROVE  D!Drop(j)
  <1>1. /\ Taken(j)' = Taken(j) - 1
        /\ Waiting(j)' <= Waiting(j)
        /\ Hidden(j)' <= Hidden(j)
    BY Counts, Leaves, Shrinks DEF Waiting, Taken, Hidden
  <1>2. copies'[j] < copies[j]
    BY <1>1, Counts, CountsNext
  <1>3. CASE InQueue(j)' = InQueue(j) /\ Orphans(j)' = Orphans(j)
    <2>1. /\ Waiting(j)' = Waiting(j)
          /\ Hidden(j)' = Hidden(j)
      BY <1>3 DEF Waiting, Hidden
    <2>2. copies'[j] = copies[j] - 1
      BY <1>1, <2>1, Counts, CountsNext
    <2> QED
      BY <1>2, <2>2, Dropped
  <1>4. CASE late > 0
    BY <1>2, <1>4, Dropped
  <1> QED
    BY <1>3, <1>4

LEMMA QueuedDropped ==
    ASSUME Inv, Inv', NEW j \in Jobs, \A k \in Jobs \ {j} : Still(k), NEW m \in InQueue(j),
           InQueue(j)' = InQueue(j) \ {m}, Held(j)' = Held(j), Orphans(j)' = Orphans(j)
    PROVE  D!Drop(j)
  <1>1. Waiting(j)' = Waiting(j) - 1
    BY Counts, Leaves DEF Waiting, Taken, Hidden
  <1>2. /\ Taken(j)' = Taken(j)
        /\ Hidden(j)' = Hidden(j)
    BY DEF Waiting, Taken, Hidden
  <1>3. copies'[j] < copies[j] /\ copies'[j] = copies[j] - 1
    BY <1>1, <1>2, Counts, CountsNext
  <1> QED
    BY <1>3, Dropped

LEMMA CopiesKept ==
    ASSUME \A k \in Jobs : copies'[k] = copies[k]
    PROVE  copies' = copies
  <1>1. /\ copies = [k \in Jobs |-> copies[k]]
        /\ copies' = [k \in Jobs |-> copies'[k]]
    BY DEF copies
  <1> QED
    BY <1>1

(***************************************************************************)
(* The ends of a job.                                                      *)
(***************************************************************************)
LEMMA FateFacts ==
    /\ fate = [j \in Jobs |-> fate[j]] /\ fate' = [j \in Jobs |-> fate'[j]]
    /\ \A j \in Jobs :
         /\ fate[j] \subseteq {"completed", "dead", "lost"}
         /\ "completed" \in fate[j] <=> j \in completed
         /\ "dead" \in fate[j] <=> Dead(j) # {}
         /\ "lost" \in fate[j] <=> j \in lost
         /\ fate'[j] \subseteq {"completed", "dead", "lost"}
         /\ "completed" \in fate'[j] <=> j \in completed'
         /\ "dead" \in fate'[j] <=> Dead(j)' # {}
         /\ "lost" \in fate'[j] <=> j \in lost'
  <1>1. fate = [j \in Jobs |-> fate[j]] /\ fate' = [j \in Jobs |-> fate'[j]]
    BY DEF fate
  <1> QED
    BY <1>1 DEF fate

LEMMA FateKept ==
    ASSUME UNCHANGED <<completed, lost>>, \A k \in Jobs : Dead(k)' = Dead(k)
    PROVE  fate' = fate
  BY DEF fate

\* What the steps add to it.
Ended(j, end) ==
    \A k \in Jobs : /\ k \in completed' <=> k \in completed \/ (k = j /\ end = "completed")
                    /\ Dead(k)' # {} <=> Dead(k) # {} \/ (k = j /\ end = "dead")
                    /\ k \in lost' <=> k \in lost \/ (k = j /\ end = "lost")

LEMMA FateEnds ==
    ASSUME NEW j \in Jobs, NEW end \in {"completed", "dead", "lost"}, Ended(j, end)
    PROVE  fate' = [fate EXCEPT ![j] = @ \cup {end}]
  <1>1. \A k \in Jobs \ {j} : fate'[k] = fate[k]
    <2> TAKE k \in Jobs \ {j}
    <2>1. \A e \in {"completed", "dead", "lost"} : e \in fate'[k] <=> e \in fate[k]
      BY FateFacts DEF Ended
    <2> QED
      BY <2>1, FateFacts
  <1>2. fate'[j] = fate[j] \cup {end}
    <2>1. \A e \in {"completed", "dead", "lost"} : e \in fate'[j] <=> e \in fate[j] \/ e = end
      BY FateFacts DEF Ended
    <2> QED
      BY <2>1, FateFacts
  <1> QED
    BY <1>1, <1>2, FateFacts

(***************************************************************************)
(* Where the copies of a job go.                                           *)
(***************************************************************************)
LEMMA HeldMoves ==
    ASSUME NEW c \in Clients, \A b \in Clients \ {c} : client'[b] = client[b], NEW k
    PROVE  /\ c \in Held(k) <=> Holds(c) /\ client[c].msg.job = k
           /\ Holds(c)' /\ client'[c].msg.job = k => Held(k)' = Held(k) \cup {c}
           /\ ~(Holds(c)' /\ client'[c].msg.job = k) => Held(k)' = Held(k) \ {c}
  <1>1. \A b \in Clients \ {c} : Holds(b)' <=> Holds(b)
    BY DEF Holds
  <1> QED
    BY <1>1 DEF Held

LEMMA NoOrphans ==
    ASSUME inflight = {}, inflight' = {}, NEW k
    PROVE  Orphans(k)' = Orphans(k)
  BY DEF Orphans

LEMMA AliveIs ==
    ASSUME TypeOK, NEW l \in inflight
    PROVE  /\ l.by \in Clients /\ l = [by |-> l.by, msg |-> l.msg]
           /\ Alive(l) <=> client[l.by].pc = "working" /\ client[l.by].msg = l.msg
  <1>1. l.by \in Clients /\ l = [by |-> l.by, msg |-> l.msg]
    BY DEF TypeOK
  <1>2. client[l.by] \in [pc : PC, msg : Message \cup {NoMsg}]
    BY <1>1 DEF TypeOK
  <1> QED
    BY <1>1, <1>2 DEF Alive

LEMMA AliveIsNext ==
    ASSUME TypeOK', NEW l \in inflight'
    PROVE  Alive(l)' <=> client'[l.by].pc = "working" /\ client'[l.by].msg = l.msg
  <1>1. l.by \in Clients
    BY DEF TypeOK
  <1>2. client'[l.by] \in [pc : PC, msg : Message \cup {NoMsg}]
    BY <1>1 DEF TypeOK
  <1> QED
    BY <1>2 DEF Alive

\* A message on its way is of a published job or of the smoke test.
LEMMA SoundJob ==
    ASSUME Inv, NEW m, Sound(m)
    PROVE  /\ m.job \in Jobs => m.job \in published
           /\ m.job \in Jobs \/ (m.job = SmokeJob /\ backend = "rabbitmq")
  BY JobAssumption DEF Inv, Sound

LEMMA Unpublished ==
    ASSUME Inv, NEW j \in Jobs, j \notin published
    PROVE  copies[j] = 0
  <1>1. InQueue(j) = {}
    BY SoundJob DEF InQueue, Inv, StoreOK
  <1>2. Held(j) = {}
    BY SoundJob DEF Held, Inv, ClientOK
  <1>3. Orphans(j) = {}
    BY SoundJob DEF Orphans, Inv, StoreOK
  <1>4. Waiting(j) = 0 /\ Taken(j) = 0 /\ Hidden(j) = 0
    BY <1>1, <1>2, <1>3, FS_EmptySet DEF Waiting, Taken, Hidden
  <1> QED
    BY <1>4, Counts

LEMMA Quiet ==
    ASSUME UNCHANGED <<published, crashes, smokes, late>>, copies' = copies, fate' = fate
    PROVE  UNCHANGED D!vars
  BY DEF D!vars, accidents, overrun

\* A client takes the message it receives.
LEMMA TakeKeeps ==
    ASSUME Inv, Inv', NEW c \in Clients, ~Holds(c), Holds(c)', NEW msg \in Range(queue),
           Range(queue') = Range(queue) \ {msg}, client'[c].msg = msg,
           \A b \in Clients \ {c} : client'[b] = client[b],
           \A k \in Jobs : Orphans(k)' = Orphans(k)
    PROVE  copies' = copies
  <1> SUFFICES ASSUME NEW k \in Jobs
               PROVE  copies'[k] = copies[k]
    BY CopiesKept
  <1>1. c \notin Held(k)
    BY HeldMoves
  <1>2. CASE msg.job = k
    <2>1. msg \in InQueue(k) /\ InQueue(k)' = InQueue(k) \ {msg}
      BY <1>2 DEF InQueue
    <2>2. Held(k)' = Held(k) \cup {c}
      BY <1>2, HeldMoves
    <2> QED
      BY <1>1, <2>1, <2>2, Given
  <1>3. CASE msg.job # k
    <2>1. InQueue(k)' = InQueue(k)
      BY <1>3 DEF InQueue
    <2>2. Held(k)' = Held(k) \ {c}
      BY <1>3, HeldMoves
    <2>3. Held(k)' = Held(k)
      BY <1>1, <2>2
    <2> QED
      BY <2>1, <2>3, StillCopies DEF Still
  <1> QED
    BY <1>2, <1>3

\* The message of a client is sent again or dead-lettered.
LEMMA RequeueRefines ==
    ASSUME Inv, Inv', NEW c \in Clients, Holds(c), ~Holds(c)', Requeue(client[c].msg),
           \A b \in Clients \ {c} : client'[b] = client[b],
           \A k \in Jobs : Orphans(k)' = Orphans(k),
           UNCHANGED <<published, completed, lost, crashes, smokes, late>>
    PROVE  [D!Next]_D!vars
  <1>0. PICK msg : msg = client[c].msg
    OBVIOUS
  <1>1. PICK new : new = Again(msg)
    OBVIOUS
  <1>2. /\ Sound(msg) /\ new \notin Range(queue)
        /\ \/ dlq' = dlq \cup {new} /\ queue' = queue
           \/ dlq' = dlq /\ Range(queue') = Range(queue) \cup {new}
    BY <1>0, <1>1, RequeueFacts DEF Inv, ClientOK
  <1>3. new.job = msg.job
    BY <1>1 DEF Again
  <1>4. \A k \in Jobs : /\ c \in Held(k) <=> msg.job = k
                        /\ Held(k)' = Held(k) \ {c}
    BY <1>0, HeldMoves
  <1>5. CASE dlq' = dlq /\ Range(queue') = Range(queue) \cup {new}
    <2>1. copies' = copies
      <3> SUFFICES ASSUME NEW k \in Jobs
                   PROVE  copies'[k] = copies[k]
        BY CopiesKept
      <3>1. CASE msg.job = k
        <4>1. new \notin InQueue(k) /\ InQueue(k)' = InQueue(k) \cup {new}
          BY <1>2, <1>3, <1>5, <3>1 DEF InQueue
        <4> QED
          BY <1>4, <3>1, <4>1, Returned
      <3>2. CASE msg.job # k
        <4>1. InQueue(k)' = InQueue(k)
          BY <1>3, <1>5, <3>2 DEF InQueue
        <4>2. Held(k)' = Held(k)
          BY <1>4, <3>2
        <4> QED
          BY <4>1, <4>2, StillCopies DEF Still
      <3> QED
        BY <3>1, <3>2
    <2>2. fate' = fate
      BY <1>5, FateKept DEF Dead
    <2> QED
      BY <2>1, <2>2, Quiet
  <1>6. CASE dlq' = dlq \cup {new} /\ queue' = queue
    <2>1. \A k \in Jobs : InQueue(k)' = InQueue(k)
      BY <1>6 DEF InQueue
    <2>2. \A k \in Jobs : k # msg.job => Still(k)
      BY <1>4, <2>1 DEF Still
    <2>3. \A k \in Jobs : k # msg.job => Dead(k)' = Dead(k)
      BY <1>3, <1>6 DEF Dead
    <2>4. Dead(msg.job)' # {}
      BY <1>3, <1>6 DEF Dead
    <2>5. CASE msg.job \in Jobs
      <3>1. D!Drop(msg.job)
        BY <1>4, <2>1, <2>2, <2>5, HeldDropped
      <3>2. fate' = [fate EXCEPT ![msg.job] = @ \cup {"dead"}]
        <4>1. Ended(msg.job, "dead")
          BY <2>3, <2>4 DEF Ended
        <4> QED
          BY <2>5, <4>1, FateEnds
      <3>3. D!Settle(msg.job, "dead")
        BY <3>1, <3>2 DEF D!Settle, accidents, overrun
      <3> QED
        BY <2>5, <3>3 DEF D!Next
    <2>6. CASE msg.job \notin Jobs
      <3>1. copies' = copies
        BY <2>2, <2>6, StillCopies, CopiesKept
      <3>2. fate' = fate
        BY <2>3, <2>6, FateKept
      <3> QED
        BY <3>1, <3>2, Quiet
    <2> QED
      BY <2>5, <2>6
  <1> QED
    BY <1>2, <1>5, <1>6

\* The receipt of a living worker deletes its own copy or, after an overrun, another's.
LEMMA DeleteMoves ==
    ASSUME Inv, TypeOK', NEW c \in Clients, client[c].pc = "working", Delete(c),
           client'[c].pc # "working", \A b \in Clients \ {c} : client'[b] = client[b]
    PROVE  /\ \A k \in Jobs : /\ InQueue(k)' \subseteq InQueue(k)
                              /\ Orphans(k)' \subseteq Orphans(k)
                              /\ k # client[c].msg.job => /\ InQueue(k)' = InQueue(k)
                                                          /\ Orphans(k)' = Orphans(k)
           /\ Lease(c) \in inflight =>
                \A k \in Jobs : InQueue(k)' = InQueue(k) /\ Orphans(k)' = Orphans(k)
  <1>1. TypeOK /\ StoreOK
    BY DEF Inv
  <1>2. /\ Range(queue') \subseteq Range(queue)
        /\ \A m \in Range(queue) \ Range(queue') : m = client[c].msg
        /\ inflight' \subseteq inflight
        /\ \A l \in inflight \ inflight' : l.msg = client[c].msg
        /\ Lease(c) \in inflight => Range(queue') = Range(queue) /\ inflight' = inflight \ {Lease(c)}
    BY <1>1, DeleteFacts
  <1>3. \A l \in inflight' : Alive(l)' <=> Alive(l)
    <2> TAKE l \in inflight'
    <2>1. l \in inflight
      BY <1>2
    <2>2. /\ l.by \in Clients /\ l = [by |-> l.by, msg |-> l.msg]
          /\ Alive(l) <=> client[l.by].pc = "working" /\ client[l.by].msg = l.msg
      BY <1>1, <2>1, AliveIs
    <2>3. Alive(l)' <=> client'[l.by].pc = "working" /\ client'[l.by].msg = l.msg
      BY AliveIsNext
    <2>4. CASE l.by # c
      BY <2>2, <2>3, <2>4
    <2>5. CASE l.by = c
      <3>1. l.msg # client[c].msg
        <4> SUFFICES ASSUME l.msg = client[c].msg PROVE FALSE
          OBVIOUS
        <4>1. l = Lease(c)
          BY <2>2, <2>5 DEF Lease
        <4> QED
          BY <1>2, <2>1, <4>1
      <3> QED
        BY <2>2, <2>3, <2>5, <3>1
    <2> QED
      BY <2>4, <2>5
  <1>4. \A k \in Jobs : InQueue(k)' \subseteq InQueue(k) /\ Orphans(k)' \subseteq Orphans(k)
    BY <1>2, <1>3 DEF InQueue, Orphans
  <1>5. \A k \in Jobs : k # client[c].msg.job => InQueue(k)' = InQueue(k) /\ Orphans(k)' = Orphans(k)
    <2> SUFFICES ASSUME NEW k \in Jobs, k # client[c].msg.job
                 PROVE  InQueue(k) \subseteq InQueue(k)' /\ Orphans(k) \subseteq Orphans(k)'
      BY <1>4
    <2>1. \A m \in Range(queue) : m.job = k => m \in Range(queue')
      BY <1>2
    <2>2. \A l \in inflight : l.msg.job = k => l \in inflight'
      BY <1>2
    <2> QED
      BY <1>3, <2>1, <2>2 DEF InQueue, Orphans
  <1>6. ASSUME Lease(c) \in inflight, NEW k \in Jobs
        PROVE  InQueue(k)' = InQueue(k) /\ Orphans(k)' = Orphans(k)
    <2>1. Range(queue') = Range(queue) /\ inflight' = inflight \ {Lease(c)}
      BY <1>2, <1>6
    <2>2. Alive(Lease(c))
      <3>1. Lease(c).by = c /\ Lease(c).msg = client[c].msg
        BY DEF Lease
      <3> QED
        BY <1>1, <1>6, <3>1, AliveIs
    <2>3. \A l \in inflight : ~Alive(l) => l \in inflight'
      BY <2>1, <2>2
    <2>4. Orphans(k) \subseteq Orphans(k)'
      BY <1>3, <2>3 DEF Orphans
    <2>5. InQueue(k)' = InQueue(k)
      BY <2>1 DEF InQueue
    <2> QED
      BY <1>4, <2>4, <2>5
  <1> QED
    BY <1>4, <1>5, <1>6

\* A worker without its lease has overrun it.
LEMMA LeaseOrOverrun ==
    ASSUME Inv, NEW c \in Clients, client[c].pc = "working", backend = "sqs"
    PROVE  Lease(c) \in inflight \/ late > 0
  <1>1. late \in Nat /\ ClientOK(c)
    BY DEF Inv, TypeOK
  <1> QED
    BY <1>1 DEF ClientOK

-----------------------------------------------------------------------------
(* Every step is one of Delivery, or a stutter.                            *)

LEMMA PublishRefines ==
    ASSUME Inv, Inv', NEW j \in Jobs, Publish(j)
    PROVE  D!Publish(j)
  <1>1. /\ j \notin published /\ Send(j, 0) /\ published' = published \cup {j}
        /\ UNCHANGED <<inflight, client, completed, lost, crashes, late, smokes>>
    BY DEF Publish
  <1>2. PICK new : new = [job |-> j, attempts |-> 0, id |-> sent]
    OBVIOUS
  <1>3. /\ Range(queue') = Range(queue) \cup {new} /\ new \notin Range(queue) /\ dlq' = dlq
        /\ new.job = j
    <2>1. TypeOK /\ StoreOK /\ j \in AllJobs /\ 0 \in Nat
      BY DEF Inv, AllJobs
    <2> QED
      BY <1>1, <1>2, <2>1, SendFacts
  <1>4. \A k \in Jobs : Held(k)' = Held(k) /\ Orphans(k)' = Orphans(k) /\ Dead(k)' = Dead(k)
    BY <1>1, <1>3 DEF Held, Holds, Orphans, Alive, Dead
  <1>5. copies'[j] = 1
    <2>1. new \notin InQueue(j) /\ InQueue(j)' = InQueue(j) \cup {new}
      BY <1>3 DEF InQueue
    <2>2. copies'[j] = copies[j] + 1
      BY <1>4, <2>1, OneMore
    <2>3. copies[j] = 0
      BY <1>1, Unpublished
    <2> QED
      BY <2>2, <2>3
  <1>6. \A k \in Jobs \ {j} : copies'[k] = copies[k]
    <2> TAKE k \in Jobs \ {j}
    <2>1. InQueue(k)' = InQueue(k)
      BY <1>3 DEF InQueue
    <2> QED
      BY <1>4, <2>1, StillCopies DEF Still
  <1>7. copies' = [copies EXCEPT ![j] = 1]
    <2>1. /\ copies = [k \in Jobs |-> copies[k]]
          /\ copies' = [k \in Jobs |-> copies'[k]]
      BY DEF copies
    <2> QED
      BY <1>5, <1>6, <2>1
  <1>8. fate' = fate
    BY <1>1, <1>4, FateKept
  <1> QED
    BY <1>1, <1>7, <1>8 DEF D!Publish, accidents, overrun

LEMMA WorkRefines ==
    ASSUME Inv, Inv', NEW c \in Clients, Work(c)
    PROVE  UNCHANGED D!vars
  <1>1. PICK msg : Receive(c, msg) /\ Goto(c, "working", msg)
    BY DEF Work
  <1>2. /\ client[c].pc = "idle"
        /\ UNCHANGED <<backend, published, completed, lost, tries, crashes, late, smokes>>
    BY DEF Work, history
  <1>3. TypeOK /\ StoreOK /\ TypeOK'
    BY DEF Inv
  <1>4. /\ msg \in Range(queue) /\ Range(queue') = Range(queue) \ {msg}
        /\ inflight' = IF backend = "sqs" THEN inflight \cup {[by |-> c, msg |-> msg]}
                                          ELSE inflight
        /\ dlq' = dlq /\ msg \in Message
    BY <1>1, <1>3, ReceiveFacts DEF StoreOK, Sound
  <1>5. /\ client'[c].pc = "working" /\ client'[c].msg = msg
        /\ \A b \in Clients \ {c} : client'[b] = client[b]
    BY <1>1, <1>3, <1>4, GotoFacts DEF PC
  <1>6. \A k \in Jobs : Orphans(k)' = Orphans(k)
    <2>1. CASE backend = "sqs"
      <3> DEFINE new == [by |-> c, msg |-> msg]
      <3>1. inflight' = inflight \cup {new} /\ new.by = c /\ new.msg = msg
        BY <1>4, <2>1
      <3> HIDE DEF new
      <3>2. Alive(new)'
        BY <1>3, <1>5, <3>1, AliveIsNext
      <3>3. \A l \in inflight : Alive(l)' <=> Alive(l)
        <4> TAKE l \in inflight
        <4>1. /\ l.by \in Clients
              /\ Alive(l) <=> client[l.by].pc = "working" /\ client[l.by].msg = l.msg
          BY <1>3, AliveIs
        <4>2. Alive(l)' <=> client'[l.by].pc = "working" /\ client'[l.by].msg = l.msg
          BY <1>3, <3>1, AliveIsNext
        <4>3. l.msg # msg
          BY <1>3, <1>4 DEF StoreOK
        <4>4. CASE l.by = c
          BY <1>2, <1>5, <4>1, <4>2, <4>3, <4>4
        <4>5. CASE l.by # c
          BY <1>5, <4>1, <4>2, <4>5
        <4> QED
          BY <4>4, <4>5
      <3> QED
        BY <3>1, <3>2, <3>3 DEF Orphans
    <2>2. CASE backend # "sqs"
      <3>1. inflight = {} /\ inflight' = {}
        BY <1>3, <1>4, <2>2 DEF StoreOK
      <3> QED
        BY <3>1, NoOrphans
    <2> QED
      BY <2>1, <2>2
  <1>7. copies' = copies
    <2>1. ~Holds(c) /\ Holds(c)'
      BY <1>2, <1>5 DEF Holds
    <2> QED
      BY <1>4, <1>5, <1>6, <2>1, TakeKeeps
  <1>8. fate' = fate
    BY <1>2, <1>4, FateKept DEF Dead
  <1> QED
    BY <1>2, <1>7, <1>8, Quiet

LEMMA AckRefines ==
    ASSUME Inv, Inv', NEW c \in Clients, Ack(c)
    PROVE  [D!Next]_D!vars
  <1>0. PICK msg : msg = client[c].msg
    OBVIOUS
  <1>1. /\ client[c].pc = "working" /\ completed' = completed \cup {msg.job} /\ Goto(c, "idle", NoMsg)
        /\ IF backend = "sqs" THEN Delete(c) ELSE UNCHANGED <<queue, inflight>>
        /\ UNCHANGED <<dlq, published, lost, crashes, late, smokes>>
    BY <1>0 DEF Ack
  <1>2. TypeOK /\ StoreOK /\ TypeOK' /\ Holds(c) /\ Sound(msg)
    BY <1>0, <1>1 DEF Inv, ClientOK, Holds
  <1>3. /\ client'[c].pc = "idle" /\ \A b \in Clients \ {c} : client'[b] = client[b]
        /\ ~Holds(c)'
    BY <1>1, <1>2, GotoFacts DEF PC, Holds
  <1>4. /\ \A k \in Jobs : InQueue(k)' \subseteq InQueue(k) /\ Orphans(k)' \subseteq Orphans(k)
        /\ \A k \in Jobs : k # msg.job => InQueue(k)' = InQueue(k) /\ Orphans(k)' = Orphans(k)
        /\ \/ late > 0
           \/ \A k \in Jobs : InQueue(k)' = InQueue(k) /\ Orphans(k)' = Orphans(k)
    <2>1. CASE backend = "sqs"
      BY <1>0, <1>1, <1>2, <1>3, <2>1, DeleteMoves, LeaseOrOverrun
    <2>2. CASE backend # "sqs"
      <3>1. queue' = queue /\ inflight = {} /\ inflight' = {}
        BY <1>1, <1>2, <2>2 DEF StoreOK
      <3> QED
        BY <3>1, NoOrphans DEF InQueue
    <2> QED
      BY <2>1, <2>2
  <1>5. \A k \in Jobs : Held(k)' = Held(k) \ {c} /\ (c \in Held(k) <=> k = msg.job)
    BY <1>0, <1>2, <1>3, HeldMoves
  <1>6. \A k \in Jobs : k # msg.job => Still(k)
    BY <1>4, <1>5 DEF Still
  <1>7. \A k \in Jobs : Dead(k)' = Dead(k)
    BY <1>1 DEF Dead
  <1>8. CASE msg.job \in Jobs
    <2>1. D!Drop(msg.job)
      BY <1>4, <1>5, <1>6, <1>8, HeldDropped
    <2>2. fate' = [fate EXCEPT ![msg.job] = @ \cup {"completed"}]
      <3>1. Ended(msg.job, "completed")
        BY <1>1, <1>7 DEF Ended
      <3> QED
        BY <1>8, <3>1, FateEnds
    <2>3. D!Settle(msg.job, "completed")
      BY <1>1, <2>1, <2>2 DEF D!Settle, accidents, overrun
    <2> QED
      BY <1>8, <2>3 DEF D!Next
  <1>9. CASE msg.job \notin Jobs
    <2>1. copies' = copies
      BY <1>6, <1>9, StillCopies, CopiesKept
    <2>2. fate' = fate
      <3>1. \A k \in Jobs : k \in completed' <=> k \in completed
        BY <1>1, <1>9
      <3> QED
        BY <1>1, <1>7, <3>1 DEF fate
    <2> QED
      BY <1>1, <2>1, <2>2, Quiet
  <1> QED
    BY <1>8, <1>9

LEMMA Somewhere ==
    ASSUME Inv', NEW j \in Jobs,
           InQueue(j)' # {} \/ Held(j)' # {} \/ Orphans(j)' # {}
    PROVE  copies'[j] > 0
  <1>1. Waiting(j)' # 0 \/ Taken(j)' # 0 \/ Hidden(j)' # 0
    BY CountsNext, FS_EmptySet DEF Waiting, Taken, Hidden
  <1> QED
    BY <1>1, CountsNext

LEMMA RetryRefines ==
    ASSUME Inv, Inv', NEW c \in Clients, Retry(c)
    PROVE  [D!Next]_D!vars
  <1>0. PICK msg : msg = client[c].msg
    OBVIOUS
  <1>1. /\ client[c].pc = "working"
        /\ UNCHANGED <<backend, published, completed, lost, crashes, late, smokes>>
    BY DEF Retry
  <1>2. TypeOK /\ StoreOK /\ TypeOK' /\ Holds(c) /\ Sound(msg) /\ msg \in Message
    BY <1>0, <1>1 DEF Inv, ClientOK, Holds, Sound
  <1>3. CASE backend # "sqs"
    <2>1. Requeue(client[c].msg) /\ Goto(c, "idle", NoMsg) /\ UNCHANGED inflight
      BY <1>3 DEF Retry
    <2>2. ~Holds(c)' /\ \A b \in Clients \ {c} : client'[b] = client[b]
      BY <1>2, <2>1, GotoFacts DEF PC, Holds
    <2>3. \A k \in Jobs : Orphans(k)' = Orphans(k)
      BY <1>2, <1>3, <2>1, NoOrphans DEF StoreOK
    <2> QED
      BY <1>1, <1>2, <2>1, <2>2, <2>3, RequeueRefines
  <1>4. CASE backend = "sqs"
    <2>1. Delete(c) /\ Goto(c, "resend", msg) /\ dlq' = dlq
      BY <1>0, <1>4 DEF Retry
    <2>2. /\ client'[c].pc = "resend" /\ client'[c].msg = msg
          /\ \A b \in Clients \ {c} : client'[b] = client[b]
      BY <1>2, <2>1, GotoFacts DEF PC
    <2>3. /\ \A k \in Jobs : InQueue(k)' \subseteq InQueue(k) /\ Orphans(k)' \subseteq Orphans(k)
          /\ \A k \in Jobs : k # msg.job => InQueue(k)' = InQueue(k) /\ Orphans(k)' = Orphans(k)
          /\ Lease(c) \in inflight =>
               \A k \in Jobs : InQueue(k)' = InQueue(k) /\ Orphans(k)' = Orphans(k)
      BY <1>0, <1>1, <1>2, <2>1, <2>2, DeleteMoves
    <2>4. \A k \in Jobs : Held(k)' = Held(k)
      <3>1. Holds(c)' /\ client[c].msg = client'[c].msg
        BY <1>0, <2>2 DEF Holds
      <3>2. \A b \in Clients : (Holds(b)' <=> Holds(b)) /\ client'[b].msg = client[b].msg
        BY <1>2, <2>2, <3>1 DEF Holds
      <3> QED
        BY <3>2 DEF Held
    <2>5. fate' = fate
      BY <1>1, <2>1, FateKept DEF Dead
    <2>6. \A k \in Jobs : k # msg.job => Still(k)
      BY <2>3, <2>4 DEF Still
    <2>7. CASE copies' = copies
      BY <1>1, <2>5, <2>7, Quiet
    <2>8. CASE copies' # copies
      <3>1. PICK j \in Jobs : copies'[j] # copies[j]
        BY <2>8, CopiesKept
      <3>2. j = msg.job
        BY <2>6, <3>1, StillCopies
      <3>3. late > 0
        <4>1. Lease(c) \notin inflight
          BY <2>3, <2>4, <3>1, StillCopies DEF Still
        <4> QED
          BY <1>1, <1>4, <4>1, LeaseOrOverrun
      <3>4. copies'[j] < copies[j]
        <4>1. Waiting(j)' <= Waiting(j) /\ Hidden(j)' <= Hidden(j) /\ Taken(j)' = Taken(j)
          BY <2>3, <2>4, Counts, Shrinks DEF Waiting, Hidden, Taken
        <4> QED
          BY <3>1, <4>1, Counts, CountsNext
      <3>5. D!Drop(j)
        BY <2>6, <3>2, <3>3, <3>4, Dropped
      <3>6. copies'[j] > 0
        <4>1. c \in Held(j)'
          BY <1>2, <2>2, <3>2 DEF Held, Holds
        <4> QED
          BY <4>1, Somewhere
      <3>7. D!Withdraw(j)
        BY <1>1, <2>5, <3>3, <3>5, <3>6 DEF D!Withdraw, accidents, overrun
      <3> QED
        BY <3>7 DEF D!Next
    <2> QED
      BY <2>7, <2>8
  <1> QED
    BY <1>3, <1>4

LEMMA ResendRefines ==
    ASSUME Inv, Inv', NEW c \in Clients, Resend(c)
    PROVE  [D!Next]_D!vars
  <1>1. /\ client[c].pc = "resend" /\ Requeue(client[c].msg) /\ Goto(c, "idle", NoMsg)
        /\ UNCHANGED <<backend, inflight, published, completed, lost, crashes, late, smokes>>
    BY DEF Resend, history
  <1>2. TypeOK /\ TypeOK' /\ Holds(c)
    BY <1>1 DEF Inv, Holds
  <1>3. /\ ~Holds(c)' /\ client'[c].pc = "idle"
        /\ \A b \in Clients \ {c} : client'[b] = client[b]
    BY <1>1, <1>2, GotoFacts DEF PC, Holds
  <1>4. \A k \in Jobs : Orphans(k)' = Orphans(k)
    <2>1. \A l \in inflight : Alive(l)' <=> Alive(l)
      BY <1>1, <1>2, <1>3, AliveIs, AliveIsNext
    <2> QED
      BY <1>1, <2>1 DEF Orphans
  <1> QED
    BY <1>1, <1>2, <1>3, <1>4, RequeueRefines

LEMMA SmokePublishRefines ==
    ASSUME Inv, Inv', NEW c \in Clients, SmokePublish(c)
    PROVE  D!Accident
  <1>1. /\ backend = "rabbitmq" /\ client[c].pc = "idle" /\ Send(SmokeJob, 0)
        /\ Goto(c, "published", NoMsg) /\ smokes' = smokes + 1
        /\ UNCHANGED <<backend, inflight, published, completed, lost, crashes, late>>
    BY DEF SmokePublish, history
  <1>2. TypeOK /\ StoreOK /\ inflight = {} /\ smokes \in Nat /\ crashes \in Nat
    BY <1>1 DEF Inv, StoreOK, TypeOK
  <1>3. PICK new : new = [job |-> SmokeJob, attempts |-> 0, id |-> sent]
    OBVIOUS
  <1>4. Range(queue') = Range(queue) \cup {new} /\ dlq' = dlq /\ new.job \notin Jobs
    <2>1. SmokeJob \in AllJobs /\ 0 \in Nat
      BY DEF AllJobs
    <2> QED
      BY <1>1, <1>2, <1>3, <2>1, JobAssumption, SendFacts
  <1>5. ~Holds(c) /\ ~Holds(c)' /\ \A b \in Clients \ {c} : client'[b] = client[b]
    BY <1>1, <1>2, GotoFacts DEF PC, Holds
  <1>6. \A k \in Jobs : Still(k)
    <2> TAKE k \in Jobs
    <2>1. Held(k)' = Held(k) \ {c} /\ c \notin Held(k)
      BY <1>5, HeldMoves
    <2>2. InQueue(k)' = InQueue(k)
      BY <1>4 DEF InQueue
    <2>3. Orphans(k)' = Orphans(k)
      BY <1>1, <1>2, NoOrphans
    <2> QED
      BY <2>1, <2>2, <2>3 DEF Still
  <1>7. copies' = copies /\ fate' = fate
    BY <1>1, <1>4, <1>6, StillCopies, CopiesKept, FateKept DEF Dead
  <1>8. crashes' + smokes' = crashes + smokes + 1
    BY <1>1, <1>2
  <1> QED
    BY <1>1, <1>7, <1>8 DEF D!Accident, accidents, overrun

LEMMA SmokeConsumeRefines ==
    ASSUME Inv, Inv', NEW c \in Clients, SmokeConsume(c)
    PROVE  UNCHANGED D!vars
  <1>1. /\ client[c].pc = "published"
        /\ UNCHANGED <<backend, published, completed, lost, crashes, late, smokes>>
    BY DEF SmokeConsume, history
  <1>2. TypeOK /\ StoreOK /\ backend = "rabbitmq" /\ inflight = {} /\ ~Holds(c)
    BY <1>1 DEF Inv, ClientOK, StoreOK, Holds
  <1>3. CASE Goto(c, "idle", NoMsg) /\ UNCHANGED <<queue, dlq, inflight, sent>>
    <2>1. ~Holds(c)' /\ \A b \in Clients \ {c} : client'[b] = client[b]
      BY <1>2, <1>3, GotoFacts DEF PC, Holds
    <2>2. \A k \in Jobs : Still(k)
      <3> TAKE k \in Jobs
      <3>1. Held(k)' = Held(k) \ {c} /\ c \notin Held(k)
        BY <1>2, <2>1, HeldMoves
      <3>2. InQueue(k)' = InQueue(k) /\ Orphans(k)' = Orphans(k)
        BY <1>2, <1>3, NoOrphans DEF InQueue
      <3> QED
        BY <3>1, <3>2 DEF Still
    <2>3. copies' = copies /\ fate' = fate
      BY <1>1, <1>3, <2>2, StillCopies, CopiesKept, FateKept DEF Dead
    <2> QED
      BY <1>1, <2>3, Quiet
  <1>4. ASSUME NEW msg, Receive(c, msg), Goto(c, "consumed", msg)
        PROVE  UNCHANGED D!vars
    <2>1. /\ msg \in Range(queue) /\ Range(queue') = Range(queue) \ {msg}
          /\ inflight' = inflight /\ dlq' = dlq
      BY <1>2, <1>4, ReceiveFacts
    <2>2. msg \in Message
      BY <1>2, <2>1 DEF StoreOK, Sound
    <2>3. /\ client'[c].msg = msg /\ Holds(c)' /\ \A b \in Clients \ {c} : client'[b] = client[b]
      BY <1>2, <1>4, <2>2, GotoFacts DEF PC, Holds
    <2>4. \A k \in Jobs : Orphans(k)' = Orphans(k)
      BY <1>2, <2>1, NoOrphans
    <2>5. copies' = copies
      BY <1>2, <2>1, <2>3, <2>4, TakeKeeps
    <2>6. fate' = fate
      BY <1>1, <2>1, FateKept DEF Dead
    <2> QED
      BY <1>1, <2>5, <2>6, Quiet
  <1> QED
    BY <1>3, <1>4 DEF SmokeConsume, store

LEMMA SmokeRetryRefines ==
    ASSUME Inv, Inv', NEW c \in Clients, SmokeRetry(c)
    PROVE  [D!Next]_D!vars
  <1>1. /\ client[c].pc = "consumed" /\ Requeue(client[c].msg) /\ Goto(c, "requeued", NoMsg)
        /\ UNCHANGED <<backend, inflight, published, completed, lost, crashes, late, smokes>>
    BY DEF SmokeRetry
  <1>2. TypeOK /\ Holds(c) /\ inflight = {}
    BY <1>1 DEF Inv, Holds, ClientOK, StoreOK
  <1>3. ~Holds(c)' /\ \A b \in Clients \ {c} : client'[b] = client[b]
    BY <1>1, <1>2, GotoFacts DEF PC, Holds
  <1>4. \A k \in Jobs : Orphans(k)' = Orphans(k)
    BY <1>1, <1>2, NoOrphans
  <1> QED
    BY <1>1, <1>2, <1>3, <1>4, RequeueRefines

LEMMA SameCardinality ==
    ASSUME NEW S
    PROVE  D!Cardinality(S) = Cardinality(S)
  BY DEF D!Cardinality, Cardinality

\* The jobs lost are no more than the accidents after the step.
LEMMA LossBound ==
    ASSUME Inv', NEW j \in Jobs, lost' = lost \cup {j}
    PROVE  D!Cardinality(D!Lost \cup {j}) <= crashes' + smokes'
  <1>1. D!Lost \cup {j} \subseteq lost'
    BY FateFacts DEF D!Lost
  <1>2. IsFiniteSet(lost') /\ Cardinality(lost') + Cardinality(Smoking') <= crashes' + smokes'
    BY DEF Inv, LossOK
  <1>3. /\ Cardinality(D!Lost \cup {j}) <= Cardinality(lost')
        /\ Cardinality(lost') \in Nat
    BY <1>1, <1>2, FS_Subset, FS_CardinalityType
  <1>4. Cardinality(D!Lost \cup {j}) \in Nat
    BY <1>1, <1>2, FS_Subset, FS_CardinalityType
  <1> DEFINE a == Cardinality(D!Lost \cup {j})
             b == Cardinality(lost')
             s == Cardinality(Smoking')
  <1>5. PICK x \in Nat, y \in Nat : x = crashes' /\ y = smokes'
    BY DEF Inv, TypeOK
  <1>6. a \in Nat /\ b \in Nat /\ s \in Nat /\ a <= b /\ b + s <= x + y
    BY <1>2, <1>3, <1>4, <1>5, SmokingFinite
  <1> HIDE DEF a, b, s
  <1>7. a <= x + y
    BY <1>6
  <1> QED
    BY <1>5, <1>7, SameCardinality DEF a

LEMMA LostFate ==
    ASSUME NEW j, lost' = lost \cup {j}, completed' = completed,
           \A k \in Jobs : Dead(k)' = Dead(k)
    PROVE  /\ j \in Jobs => fate' = [fate EXCEPT ![j] = @ \cup {"lost"}]
           /\ j \notin Jobs => fate' = fate
  <1>1. ASSUME j \in Jobs PROVE fate' = [fate EXCEPT ![j] = @ \cup {"lost"}]
    <2>1. Ended(j, "lost")
      BY DEF Ended
    <2> QED
      BY <1>1, <2>1, FateEnds
  <1>2. ASSUME j \notin Jobs PROVE fate' = fate
    <2>1. \A k \in Jobs : k \in lost' <=> k \in lost
      BY <1>2
    <2> QED
      BY <2>1 DEF fate
  <1> QED
    BY <1>1, <1>2

LEMMA SmokeReconsumeRefines ==
    ASSUME Inv, Inv', NEW c \in Clients, SmokeReconsume(c)
    PROVE  [D!Next]_D!vars
  <1>1. /\ client[c].pc = "requeued" /\ Goto(c, "idle", NoMsg)
        /\ UNCHANGED <<backend, published, completed, crashes, late, smokes>>
    BY DEF SmokeReconsume
  <1>2. TypeOK /\ StoreOK /\ backend = "rabbitmq" /\ inflight = {} /\ ~Holds(c)
    BY <1>1 DEF Inv, ClientOK, StoreOK, Holds
  <1>3. ~Holds(c)' /\ \A b \in Clients \ {c} : client'[b] = client[b]
    BY <1>1, <1>2, GotoFacts DEF PC, Holds
  <1>4. \A k \in Jobs : Held(k)' = Held(k)
    <2> TAKE k \in Jobs
    <2>1. Held(k)' = Held(k) \ {c} /\ c \notin Held(k)
      BY <1>2, <1>3, HeldMoves
    <2> QED
      BY <2>1
  <1>5. CASE UNCHANGED <<queue, dlq, inflight, sent, lost>>
    <2>1. \A k \in Jobs : Still(k)
      BY <1>2, <1>4, <1>5, NoOrphans DEF Still, InQueue
    <2>2. copies' = copies /\ fate' = fate
      BY <1>1, <1>5, <2>1, StillCopies, CopiesKept, FateKept DEF Dead
    <2> QED
      BY <1>1, <2>2, Quiet
  <1>6. ASSUME NEW msg, Receive(c, msg), lost' = lost \cup {msg.job}
        PROVE  [D!Next]_D!vars
    <2>1. /\ msg \in Range(queue) /\ Range(queue') = Range(queue) \ {msg}
          /\ inflight' = inflight /\ dlq' = dlq
      BY <1>2, <1>6, ReceiveFacts
    <2>2. \A k \in Jobs : Orphans(k)' = Orphans(k) /\ Dead(k)' = Dead(k)
      BY <1>2, <2>1, NoOrphans DEF Dead
    <2>3. \A k \in Jobs : k # msg.job => Still(k)
      BY <1>4, <2>1, <2>2 DEF Still, InQueue
    <2>4. CASE msg.job \in Jobs
      <3>1. msg \in InQueue(msg.job) /\ InQueue(msg.job)' = InQueue(msg.job) \ {msg}
        BY <2>1 DEF InQueue
      <3>2. D!Drop(msg.job)
        BY <1>4, <2>2, <2>3, <2>4, <3>1, QueuedDropped
      <3>3. D!Cardinality(D!Lost \cup {msg.job}) <= crashes' + smokes'
        BY <1>6, <2>4, LossBound
      <3>4. fate' = [fate EXCEPT ![msg.job] = @ \cup {"lost"}]
        BY <1>1, <1>6, <2>2, <2>4, LostFate
      <3>5. D!Lose(msg.job)
        BY <1>1, <3>2, <3>3, <3>4 DEF D!Lose, accidents, overrun
      <3> QED
        BY <2>4, <3>5 DEF D!Next
    <2>5. CASE msg.job \notin Jobs
      <3>1. copies' = copies
        BY <2>3, <2>5, StillCopies, CopiesKept
      <3>2. fate' = fate
        BY <1>1, <1>6, <2>2, <2>5, LostFate
      <3> QED
        BY <1>1, <3>1, <3>2, Quiet
    <2> QED
      BY <2>4, <2>5
  <1> QED
    BY <1>5, <1>6 DEF SmokeReconsume, store

\* With its worker a lease becomes an orphan.
LEMMA CrashOrphans ==
    ASSUME TypeOK, TypeOK', NEW c \in Clients, client'[c].pc = "idle", inflight' = inflight,
           \A b \in Clients \ {c} : client'[b] = client[b], NEW k
    PROVE  Orphans(k)' = IF /\ client[c].pc = "working" /\ Lease(c) \in inflight
                            /\ client[c].msg.job = k
                         THEN Orphans(k) \cup {Lease(c)} ELSE Orphans(k)
  <1>1. ASSUME NEW l \in inflight
        PROVE  Alive(l)' <=> Alive(l) /\ ~(l = Lease(c) /\ client[c].pc = "working")
    <2>1. /\ l.by \in Clients /\ l = [by |-> l.by, msg |-> l.msg]
          /\ Alive(l) <=> client[l.by].pc = "working" /\ client[l.by].msg = l.msg
      BY AliveIs
    <2>2. Alive(l)' <=> client'[l.by].pc = "working" /\ client'[l.by].msg = l.msg
      BY AliveIsNext
    <2>3. Lease(c).by = c /\ Lease(c).msg = client[c].msg
      BY DEF Lease
    <2>4. CASE l.by = c
      <3>1. ~Alive(l)'
        BY <2>2, <2>4
      <3>2. Alive(l) => l = Lease(c) /\ client[c].pc = "working"
        BY <2>1, <2>4 DEF Lease
      <3> QED
        BY <3>1, <3>2
    <2>5. CASE l.by # c
      BY <2>1, <2>2, <2>3, <2>5
    <2> QED
      BY <2>4, <2>5
  <1>2. Lease(c).msg = client[c].msg
    BY DEF Lease
  <1> QED
    BY <1>1, <1>2 DEF Orphans

\* What is published has a copy or an end, even when its worker has lost the lease.
LEMMA Anchors ==
    ASSUME Inv', NEW j \in Jobs, Anchored(j)'
    PROVE  copies'[j] > 0 \/ fate'[j] # {}
  <1>1. CASE j \in completed' \cup lost' \/ Dead(j)' # {}
    BY <1>1, FateFacts
  <1>2. CASE \E m \in Range(queue') : m.job = j
    BY <1>2, Somewhere DEF InQueue
  <1>3. ASSUME NEW l \in inflight', l.msg.job = j
        PROVE  copies'[j] > 0
    <2>1. TypeOK'
      BY DEF Inv
    <2>2. CASE Alive(l)'
      <3>1. client'[l.by].pc = "working" /\ client'[l.by].msg = l.msg /\ l.by \in Clients
        BY <2>1, <2>2, AliveIsNext DEF TypeOK
      <3>2. l.by \in Held(j)'
        BY <1>3, <3>1 DEF Held, Holds
      <3> QED
        BY <3>2, Somewhere
    <2>3. CASE ~Alive(l)'
      <3>1. l \in Orphans(j)'
        BY <1>3, <2>3 DEF Orphans
      <3> QED
        BY <3>1, Somewhere
    <2> QED
      BY <2>2, <2>3
  <1>4. ASSUME NEW c \in Clients, client'[c].pc = "resend", client'[c].msg.job = j
        PROVE  copies'[j] > 0
    <2>1. c \in Held(j)'
      BY <1>4 DEF Held, Holds
    <2> QED
      BY <2>1, Somewhere
  <1> QED
    BY <1>1, <1>2, <1>3, <1>4 DEF Anchored

LEMMA CrashRefines ==
    ASSUME Inv, Inv', NEW c \in Clients, Crash(c)
    PROVE  [D!Next]_D!vars
  <1>0. PICK msg : msg = client[c].msg
    OBVIOUS
  <1>1. /\ crashes' = crashes + 1 /\ Goto(c, "idle", NoMsg)
        /\ lost' = IF Holds(c) /\ (backend = "sqs" => client[c].pc = "resend")
                   THEN lost \cup {msg.job} ELSE lost
        /\ UNCHANGED <<backend, queue, dlq, inflight, published, completed, late, smokes>>
    BY <1>0 DEF Crash, store
  <1>2. TypeOK /\ StoreOK /\ TypeOK' /\ crashes \in Nat /\ smokes \in Nat
    BY DEF Inv, TypeOK
  <1>3. /\ client'[c].pc = "idle" /\ ~Holds(c)' /\ \A b \in Clients \ {c} : client'[b] = client[b]
    BY <1>1, <1>2, GotoFacts DEF PC, Holds
  <1>4. crashes' + smokes' = crashes + smokes + 1
    BY <1>1, <1>2
  <1>5. \A k \in Jobs : InQueue(k)' = InQueue(k) /\ Dead(k)' = Dead(k)
    BY <1>1 DEF InQueue, Dead
  <1>6. \A k \in Jobs : Held(k)' = Held(k) \ {c} /\ (c \in Held(k) <=> Holds(c) /\ msg.job = k)
    BY <1>0, <1>3, HeldMoves
  <1>7. ASSUME copies' = copies, fate' = fate PROVE [D!Next]_D!vars
    <2>1. D!Accident
      BY <1>1, <1>4, <1>7 DEF D!Accident, accidents, overrun
    <2> QED
      BY <2>1 DEF D!Next
  <1>8. CASE ~Holds(c)
    <2>1. client[c].pc # "working"
      BY <1>8 DEF Holds
    <2>2. \A k \in Jobs : Orphans(k)' = Orphans(k)
      BY <1>1, <1>2, <1>3, <2>1, CrashOrphans
    <2>3. \A k \in Jobs : Still(k)
      BY <1>5, <1>6, <1>8, <2>2 DEF Still
    <2>4. lost' = lost
      BY <1>1, <1>8
    <2> QED
      BY <1>1, <1>5, <1>7, <2>3, <2>4, StillCopies, CopiesKept, FateKept
  <1>9. CASE Holds(c) /\ (backend = "sqs" => client[c].pc = "resend")
    <2>1. lost' = lost \cup {msg.job}
      BY <1>1, <1>9
    <2>2. \A k \in Jobs : Orphans(k)' = Orphans(k)
      <3>1. CASE backend = "sqs"
        BY <1>1, <1>2, <1>3, <1>9, <3>1, CrashOrphans
      <3>2. CASE backend # "sqs"
        BY <1>1, <1>2, <3>2, NoOrphans DEF StoreOK
      <3> QED
        BY <3>1, <3>2
    <2>3. \A k \in Jobs : k # msg.job => Still(k)
      BY <1>5, <1>6, <2>2 DEF Still
    <2>4. CASE msg.job \in Jobs
      <3>1. D!Drop(msg.job)
        BY <1>5, <1>6, <1>9, <2>2, <2>3, <2>4, HeldDropped
      <3>2. D!Cardinality(D!Lost \cup {msg.job}) <= crashes' + smokes'
        BY <2>1, <2>4, LossBound
      <3>3. fate' = [fate EXCEPT ![msg.job] = @ \cup {"lost"}]
        BY <1>1, <1>5, <2>1, <2>4, LostFate
      <3>4. D!Lose(msg.job)
        BY <1>1, <1>4, <3>1, <3>2, <3>3 DEF D!Lose, accidents, overrun
      <3> QED
        BY <2>4, <3>4 DEF D!Next
    <2>5. CASE msg.job \notin Jobs
      <3>1. copies' = copies
        BY <2>3, <2>5, StillCopies, CopiesKept
      <3>2. fate' = fate
        BY <1>1, <1>5, <2>1, <2>5, LostFate
      <3> QED
        BY <1>7, <3>1, <3>2
    <2> QED
      BY <2>4, <2>5
  <1>10. CASE Holds(c) /\ backend = "sqs" /\ client[c].pc # "resend"
    <2>1. /\ client[c].pc = "working" /\ msg.job \in Jobs /\ msg.job \in published
          /\ lost' = lost
      <3>1. ClientOK(c)
        BY DEF Inv
      <3>2. Sound(msg) /\ client[c].pc = "working"
        BY <1>0, <1>10, <3>1 DEF ClientOK, Holds
      <3> QED
        BY <1>1, <1>10, <3>2, SoundJob
    <2>2. fate' = fate
      BY <1>1, <1>5, <2>1, FateKept
    <2>3. \A k \in Jobs : k # msg.job => Still(k)
      <3> SUFFICES ASSUME NEW k \in Jobs, k # msg.job
                   PROVE  Still(k)
        OBVIOUS
      <3>1. Orphans(k)' = Orphans(k)
        BY <1>0, <1>1, <1>2, <1>3, CrashOrphans
      <3> QED
        BY <1>5, <1>6, <3>1 DEF Still
    <2>4. CASE Lease(c) \in inflight
      <3>1. Orphans(msg.job)' = Orphans(msg.job) \cup {Lease(c)}
        BY <1>0, <1>1, <1>2, <1>3, <2>1, <2>4, CrashOrphans
      <3>2. Lease(c) \notin Orphans(msg.job)
        <4>1. Lease(c).by = c /\ Lease(c).msg = client[c].msg
          BY DEF Lease
        <4>2. Alive(Lease(c))
          BY <1>2, <2>1, <2>4, <4>1, AliveIs
        <4> QED
          BY <4>2 DEF Orphans
      <3>3. copies'[msg.job] = copies[msg.job]
        BY <1>5, <1>6, <1>10, <2>1, <3>1, <3>2, Orphaned
      <3>4. copies' = copies
        BY <2>3, <3>3, StillCopies, CopiesKept
      <3> QED
        BY <1>7, <2>2, <3>4
    <2>5. CASE Lease(c) \notin inflight
      <3>1. Orphans(msg.job)' = Orphans(msg.job)
        BY <1>1, <1>2, <1>3, <2>5, CrashOrphans
      <3>2. late > 0
        BY <1>10, <2>1, <2>5, LeaseOrOverrun
      <3>3. D!Drop(msg.job)
        BY <1>5, <1>6, <1>10, <2>1, <2>3, <3>1, <3>2, HeldDropped
      <3>4. copies'[msg.job] > 0 \/ fate'[msg.job] # {}
        <4>1. Anchored(msg.job)'
          BY <1>1, <1>10, <2>1 DEF Inv
        <4> QED
          BY <2>1, <4>1, Anchors
      <3>5. D!Withdraw(msg.job)
        BY <1>1, <1>4, <2>2, <3>2, <3>3, <3>4 DEF D!Withdraw, accidents, overrun
      <3> QED
        BY <2>1, <3>5 DEF D!Next
    <2> QED
      BY <2>4, <2>5
  <1> QED
    BY <1>8, <1>9, <1>10

LEMMA ReappearRefines ==
    ASSUME Inv, Inv', NEW l \in inflight, Reappear(l),
           \/ late' = late /\ ~Alive(l)
           \/ late' = late + 1 /\ Alive(l)
    PROVE  [D!Next]_D!vars
  <1>0. PICK j : j = l.msg.job
    OBVIOUS
  <1>1. /\ inflight' = inflight \ {l} /\ queue' = Append(queue, l.msg)
        /\ UNCHANGED <<backend, dlq, client, published, completed, lost, crashes, smokes>>
    BY DEF Reappear, history
  <1>2. /\ TypeOK /\ StoreOK /\ queue \in Seq(Message) /\ IsInjective(queue)
        /\ Sound(l.msg) /\ l.msg \in Message /\ l.msg \notin Range(queue)
        /\ late \in Nat /\ backend = "sqs"
    BY DEF Inv, TypeOK, StoreOK, Sound
  <1>3. j \in Jobs
    BY <1>0, <1>2, SoundJob
  <1>4. Range(queue') = Range(queue) \cup {l.msg}
    BY <1>1, <1>2, Appended
  <1>5. /\ InQueue(j)' = InQueue(j) \cup {l.msg} /\ l.msg \notin InQueue(j)
        /\ \A k \in Jobs \ {j} : InQueue(k)' = InQueue(k)
    BY <1>0, <1>2, <1>4 DEF InQueue
  <1>6. \A k \in Jobs : Held(k)' = Held(k) /\ Dead(k)' = Dead(k)
    BY <1>1 DEF Held, Holds, Dead
  <1>7. \A k \in Jobs : Orphans(k)' = Orphans(k) \ {l}
    BY <1>1 DEF Orphans, Alive
  <1>8. l \in Orphans(j) <=> ~Alive(l)
    BY <1>0 DEF Orphans
  <1>9. \A k \in Jobs \ {j} : Still(k)
    <2>1. \A k \in Jobs \ {j} : l \notin Orphans(k)
      BY <1>0 DEF Orphans
    <2> QED
      BY <1>5, <1>6, <1>7, <2>1 DEF Still
  <1>10. fate' = fate
    BY <1>1, <1>6, FateKept
  <1>11. CASE late' = late /\ ~Alive(l)
    <2>1. copies'[j] = copies[j]
      BY <1>3, <1>5, <1>6, <1>7, <1>8, <1>11, Reappeared
    <2>2. copies' = copies
      BY <1>9, <2>1, StillCopies, CopiesKept
    <2> QED
      BY <1>1, <1>10, <1>11, <2>2, Quiet
  <1>12. CASE late' = late + 1 /\ Alive(l)
    <2>1. copies'[j] = copies[j] + 1
      <3>1. Orphans(j)' = Orphans(j)
        BY <1>3, <1>7, <1>8, <1>12
      <3> QED
        BY <1>3, <1>5, <1>6, <3>1, OneMore
    <2>2. copies[j] > 0
      <3>1. l.by \in Held(j)
        BY <1>0, <1>2, <1>12, AliveIs DEF Held, Holds
      <3>2. Taken(j) # 0
        BY <1>3, <3>1, Counts, FS_EmptySet DEF Taken
      <3> QED
        BY <1>3, <3>2, Counts
    <2>3. copies' = [copies EXCEPT ![j] = @ + 1]
      <3>1. /\ copies = [k \in Jobs |-> copies[k]]
            /\ copies' = [k \in Jobs |-> copies'[k]]
        BY DEF copies
      <3>2. \A k \in Jobs \ {j} : copies'[k] = copies[k]
        BY <1>9, StillCopies
      <3> QED
        BY <1>3, <2>1, <3>1, <3>2
    <2>4. (late' > 0) = TRUE
      BY <1>2, <1>12
    <2>5. D!Overrun(j)
      BY <1>1, <1>10, <2>2, <2>3, <2>4 DEF D!Overrun, accidents, overrun
    <2> QED
      BY <1>3, <2>5 DEF D!Next
  <1> QED
    BY <1>11, <1>12

\* The refinement, step by step.
LEMMA StepRefines ==
    ASSUME Inv, Inv', [Next]_vars
    PROVE  [D!Next]_D!vars
  <1>1. ASSUME TimeOut PROVE [D!Next]_D!vars
    BY <1>1, ReappearRefines DEF TimeOut
  <1>2. ASSUME TimeOutEarly PROVE [D!Next]_D!vars
    BY <1>2, ReappearRefines DEF TimeOutEarly
  <1>3. ASSUME NEW j \in Jobs, Publish(j) PROVE [D!Next]_D!vars
    BY <1>3, PublishRefines DEF D!Next
  <1>4. ASSUME NEW c \in Clients, SmokePublish(c) PROVE [D!Next]_D!vars
    BY <1>4, SmokePublishRefines DEF D!Next
  <1>5. ASSUME UNCHANGED vars PROVE UNCHANGED D!vars
    <2>1. UNCHANGED <<queue, dlq, inflight, client, published, completed, lost,
                      crashes, late, smokes>>
      BY <1>5 DEF vars, store, history
    <2> QED
      BY <2>1 DEF D!vars, accidents, overrun, copies, fate, Queued, Held, Holds, Orphans, Alive, Dead
  <1> QED
    BY <1>1, <1>2, <1>3, <1>4, <1>5, WorkRefines, AckRefines, RetryRefines, ResendRefines,
       SmokeConsumeRefines, SmokeRetryRefines, SmokeReconsumeRefines, CrashRefines
    DEF Next, WorkerStep, SmokeStep

LEMMA StartRefines == Init => D!Init
  <1> SUFFICES ASSUME Init PROVE D!Init
    OBVIOUS
  <1>1. Inv
    BY Initial
  <1>2. \A j \in Jobs : copies[j] = 0
    BY <1>1, Unpublished DEF Init
  <1>3. copies = [j \in Jobs |-> 0]
    <2>1. copies = [j \in Jobs |-> copies[j]]
      BY DEF copies
    <2> QED
      BY <1>2, <2>1
  <1>4. fate = [j \in Jobs |-> {}]
    <2>1. \A j \in Jobs : fate[j] = {}
      BY FateFacts DEF Init, Dead
    <2> QED
      BY <2>1, FateFacts
  <1>5. published = {} /\ crashes + smokes = 0 /\ (late > 0) = FALSE
    BY DEF Init
  <1> QED
    BY <1>3, <1>4, <1>5 DEF D!Init, accidents, overrun

\* The three brokers, the retries and the smoke test implement the delivery promise.
THEOREM AdaptersImplementDelivery == Spec => ImplementsDelivery
  <1>1. ASSUME Inv, Inv', [Next]_vars PROVE [D!Next]_D!vars
    BY <1>1, StepRefines
  <1> QED
    BY <1>1, StartRefines, AdaptersSound, PTL DEF Spec, ImplementsDelivery, D!Spec

(***************************************************************************)
(* What follows from the delivery promise.                                 *)
(***************************************************************************)
PromiseTyped == /\ published \subseteq Jobs
                /\ copies \in [Jobs -> Nat]
                /\ fate \in [Jobs -> SUBSET D!Ends]
                /\ accidents \in Nat
                /\ overrun \in BOOLEAN

\* A job without an end and without an overrun has its one copy; what has not been
\* published has neither copy nor end.
Promise == /\ PromiseTyped
           /\ \A j \in Jobs \ published : copies[j] = 0 /\ fate[j] = {}
           /\ D!NothingVanishes
           /\ D!AtMostOnce
           /\ IsFiniteSet(D!Lost) /\ D!LossesAreAccidents

LEMMA EndsFinite ==
    ASSUME NEW F \in SUBSET D!Ends
    PROVE  IsFiniteSet(F) /\ D!Cardinality(F) \in Nat
  <1>1. IsFiniteSet({}) /\ IsFiniteSet({"completed"}) /\ IsFiniteSet({"dead"}) /\ IsFiniteSet({"lost"})
    BY FS_EmptySet, FS_Singleton, SameCardinality
  <1>2. IsFiniteSet({"completed"} \cup {"dead"} \cup {"lost"})
    BY <1>1, FS_Union, SameCardinality
  <1>3. F \subseteq {"completed"} \cup {"dead"} \cup {"lost"}
    BY DEF D!Ends
  <1> QED
    BY <1>2, <1>3, FS_Subset, FS_CardinalityType, SameCardinality

\* A copy is dropped, and the job ends or not.
LEMMA DropOnce ==
    ASSUME Promise, NEW j \in Jobs, D!Drop(j), NEW F \in SUBSET D!Ends,
           fate' = [fate EXCEPT ![j] = @ \cup F], IsFiniteSet(F), D!Cardinality(F) <= 1,
           F # {} \/ copies'[j] > 0 \/ fate[j] # {},
           F = {} => overrun,
           published' = published, overrun' = overrun
    PROVE  /\ copies' \in [Jobs -> Nat] /\ fate' \in [Jobs -> SUBSET D!Ends]
           /\ \A k \in Jobs \ published' : copies'[k] = 0 /\ fate'[k] = {}
           /\ D!NothingVanishes' /\ D!AtMostOnce'
  <1>1. PICK left \in 0..(copies[j] - 1) :
          /\ overrun \/ left = copies[j] - 1
          /\ copies' = [copies EXCEPT ![j] = left]
    BY DEF D!Drop
  <1>2. copies[j] \in Nat /\ copies[j] > 0 /\ left \in Nat /\ left < copies[j]
    BY <1>1 DEF Promise, PromiseTyped
  <1>3. /\ copies' \in [Jobs -> Nat] /\ copies'[j] = left
        /\ \A k \in Jobs \ {j} : copies'[k] = copies[k]
    BY <1>1, <1>2 DEF Promise, PromiseTyped
  <1>4. /\ fate' \in [Jobs -> SUBSET D!Ends] /\ fate'[j] = fate[j] \cup F
        /\ \A k \in Jobs \ {j} : fate'[k] = fate[k]
    BY DEF Promise, PromiseTyped
  <1>5. j \in published
    BY <1>2 DEF Promise
  <1>6. \A k \in Jobs \ published' : copies'[k] = 0 /\ fate'[k] = {}
    BY <1>3, <1>4, <1>5 DEF Promise
  <1>7. D!NothingVanishes'
    <2> SUFFICES ASSUME NEW k \in published'
                 PROVE  copies'[k] > 0 \/ fate'[k] # {}
      BY DEF D!NothingVanishes
    <2>1. k \in Jobs
      BY DEF Promise, PromiseTyped
    <2> QED
      BY <1>3, <1>4, <2>1 DEF Promise, D!NothingVanishes
  <1>8. D!AtMostOnce'
    <2> SUFFICES ASSUME ~overrun, NEW k \in Jobs
                 PROVE  copies'[k] + D!Cardinality(fate'[k]) <= 1
      BY DEF D!AtMostOnce
    <2>1. copies[k] + D!Cardinality(fate[k]) <= 1
      BY DEF Promise, D!AtMostOnce
    <2>2. CASE k # j
      BY <1>3, <1>4, <2>1, <2>2
    <2>3. CASE k = j
      <3>1. D!Cardinality(fate[j]) \in Nat /\ IsFiniteSet(fate[j])
        BY EndsFinite DEF Promise, PromiseTyped
      <3>2. copies[j] = 1 /\ D!Cardinality(fate[j]) = 0
        BY <1>2, <2>1, <2>3, <3>1
      <3>3. fate[j] = {}
        BY <3>1, <3>2, FS_EmptySet, SameCardinality
      <3>4. copies'[j] = 0
        BY <1>1, <1>3, <3>2
      <3> QED
        BY <1>4, <2>3, <3>3, <3>4, EndsFinite
    <2> QED
      BY <2>2, <2>3
  <1> QED
    BY <1>3, <1>4, <1>6, <1>7, <1>8

LEMMA SingleEnd ==
    ASSUME NEW end \in D!Ends
    PROVE  {end} \in SUBSET D!Ends /\ IsFiniteSet({end}) /\ D!Cardinality({end}) <= 1
  <1>1. IsFiniteSet({end}) /\ D!Cardinality({end}) = 1
    BY FS_Singleton, SameCardinality
  <1> QED
    BY <1>1

\* An end other than "lost" loses no job.
LEMMA LostSame ==
    ASSUME Promise, NEW j \in Jobs, NEW F \in SUBSET D!Ends,
           fate' = [fate EXCEPT ![j] = @ \cup F]
    PROVE  D!Lost' = IF "lost" \in F THEN D!Lost \cup {j} ELSE D!Lost
  <1>1. \A k \in Jobs : fate'[k] = IF k = j THEN fate[j] \cup F ELSE fate[k]
    BY DEF Promise, PromiseTyped
  <1> QED
    BY <1>1 DEF D!Lost

LEMMA PromiseKept ==
    ASSUME Promise, [D!Next]_D!vars
    PROVE  Promise'
  <1> /\ accidents \in Nat /\ copies \in [Jobs -> Nat] /\ fate \in [Jobs -> SUBSET D!Ends]
      /\ published \subseteq Jobs /\ D!Cardinality(D!Lost) <= accidents
    BY DEF Promise, PromiseTyped, D!LossesAreAccidents
  <1>0. \A k \in Nat : D!Cardinality(D!Lost) \in Nat /\ D!Cardinality(D!Lost) <= accidents + k
    <2>1. IsFiniteSet(D!Lost)
      BY DEF Promise
    <2> QED
      BY <2>1, FS_CardinalityType, SameCardinality
  <1>1. CASE D!Accident
    <2>1. /\ accidents' = accidents + 1
          /\ UNCHANGED <<published, copies, fate, overrun>>
      BY <1>1 DEF D!Accident
    <2>2. D!Lost' = D!Lost
      BY <2>1 DEF D!Lost
    <2>3. IsFiniteSet(D!Lost') /\ D!LossesAreAccidents'
      BY <1>0, <2>1, <2>2 DEF Promise, D!LossesAreAccidents
    <2> QED
      BY <2>1, <2>3 DEF Promise, PromiseTyped, D!NothingVanishes, D!AtMostOnce
  <1>2. ASSUME NEW j \in Jobs, D!Publish(j)
        PROVE  Promise'
    <2>1. /\ j \notin published /\ published' = published \cup {j}
          /\ copies' = [copies EXCEPT ![j] = 1]
          /\ UNCHANGED <<fate, accidents, overrun>>
      BY <1>2 DEF D!Publish
    <2>2. /\ copies' \in [Jobs -> Nat] /\ copies'[j] = 1 /\ fate[j] = {}
          /\ \A k \in Jobs \ {j} : copies'[k] = copies[k]
      BY <2>1 DEF Promise
    <2>3. IsFiniteSet(D!Lost') /\ D!LossesAreAccidents'
      BY <2>1 DEF Promise, D!LossesAreAccidents, D!Lost
    <2>4. D!AtMostOnce'
      <3> SUFFICES ASSUME ~overrun, NEW k \in Jobs
                   PROVE  copies'[k] + D!Cardinality(fate[k]) <= 1
        BY <2>1 DEF D!AtMostOnce
      <3>1. copies[k] + D!Cardinality(fate[k]) <= 1
        BY DEF Promise, D!AtMostOnce
      <3>2. D!Cardinality({}) = 0
        BY FS_EmptySet, SameCardinality
      <3> QED
        BY <2>2, <3>1, <3>2
    <2>5. D!NothingVanishes'
      BY <2>1, <2>2 DEF Promise, D!NothingVanishes
    <2> QED
      BY <2>1, <2>2, <2>3, <2>4, <2>5 DEF Promise, PromiseTyped
  <1>3. ASSUME NEW j \in Jobs, D!Overrun(j)
        PROVE  Promise'
    <2>1. /\ copies[j] > 0 /\ copies' = [copies EXCEPT ![j] = @ + 1] /\ overrun' = TRUE
          /\ UNCHANGED <<published, fate, accidents>>
      BY <1>3 DEF D!Overrun
    <2>2. /\ copies' \in [Jobs -> Nat] /\ copies'[j] = copies[j] + 1
          /\ \A k \in Jobs \ {j} : copies'[k] = copies[k]
      BY <2>1
    <2>3. IsFiniteSet(D!Lost') /\ D!LossesAreAccidents'
      BY <2>1 DEF Promise, D!LossesAreAccidents, D!Lost
    <2>4. D!NothingVanishes'
      BY <2>1, <2>2 DEF Promise, D!NothingVanishes
    <2>5. \A k \in Jobs \ published : k # j
      BY <2>1 DEF Promise
    <2> QED
      BY <2>1, <2>2, <2>3, <2>4, <2>5 DEF Promise, PromiseTyped, D!AtMostOnce
  <1>4. ASSUME NEW j \in Jobs, D!Lose(j)
        PROVE  Promise'
    <2>1. /\ D!Drop(j) /\ fate' = [fate EXCEPT ![j] = @ \cup {"lost"}]
          /\ accidents' \in Nat /\ D!Cardinality(D!Lost \cup {j}) <= accidents'
          /\ published' = published /\ overrun' = overrun
      BY <1>4 DEF D!Lose
    <2>2. "lost" \in D!Ends
      BY DEF D!Ends
    <2>3. /\ copies' \in [Jobs -> Nat] /\ fate' \in [Jobs -> SUBSET D!Ends]
          /\ \A k \in Jobs \ published' : copies'[k] = 0 /\ fate'[k] = {}
          /\ D!NothingVanishes' /\ D!AtMostOnce'
      BY <2>1, <2>2, SingleEnd, DropOnce
    <2>4. D!Lost' = D!Lost \cup {j} /\ IsFiniteSet(D!Lost')
      <3>1. D!Lost' = D!Lost \cup {j}
        BY <2>1, <2>2, SingleEnd, LostSame
      <3> QED
        BY <3>1, FS_AddElement DEF Promise
    <2> QED
      BY <2>1, <2>3, <2>4 DEF Promise, PromiseTyped, D!LossesAreAccidents
  <1>5. ASSUME NEW j \in Jobs, NEW end \in {"completed", "dead"}, D!Settle(j, end)
        PROVE  Promise'
    <2>1. /\ D!Drop(j) /\ fate' = [fate EXCEPT ![j] = @ \cup {end}]
          /\ UNCHANGED <<published, accidents, overrun>>
      BY <1>5 DEF D!Settle
    <2>2. end \in D!Ends /\ "lost" \notin {end}
      BY DEF D!Ends
    <2>3. /\ copies' \in [Jobs -> Nat] /\ fate' \in [Jobs -> SUBSET D!Ends]
          /\ \A k \in Jobs \ published' : copies'[k] = 0 /\ fate'[k] = {}
          /\ D!NothingVanishes' /\ D!AtMostOnce'
      BY <2>1, <2>2, SingleEnd, DropOnce
    <2>4. D!Lost' = D!Lost /\ IsFiniteSet(D!Lost')
      BY <2>1, <2>2, SingleEnd, LostSame DEF Promise
    <2> QED
      BY <2>1, <2>3, <2>4 DEF Promise, PromiseTyped, D!LossesAreAccidents
  <1>6. ASSUME NEW j \in Jobs, D!Withdraw(j)
        PROVE  Promise'
    <2>1. /\ overrun /\ D!Drop(j)
          /\ accidents' \in {accidents, accidents + 1}
          /\ UNCHANGED <<published, fate, overrun>>
      BY <1>6 DEF D!Withdraw
    <2>2. fate' = [fate EXCEPT ![j] = @ \cup {}]
      BY <2>1
    <2>3. D!Drop(j) /\ (copies'[j] > 0 \/ fate[j] # {}) /\ overrun
      BY <1>6 DEF D!Withdraw
    <2>4. /\ copies' \in [Jobs -> Nat] /\ fate' \in [Jobs -> SUBSET D!Ends]
          /\ \A k \in Jobs \ published' : copies'[k] = 0 /\ fate'[k] = {}
          /\ D!NothingVanishes' /\ D!AtMostOnce'
      <3>1. {} \in SUBSET D!Ends /\ IsFiniteSet({}) /\ D!Cardinality({}) <= 1
        BY FS_EmptySet, SameCardinality
      <3>2. published' = published /\ overrun' = overrun
        BY <2>1
      <3> QED
        BY <2>2, <2>3, <3>1, <3>2, DropOnce
    <2>5. D!Lost' = D!Lost /\ IsFiniteSet(D!Lost')
      BY <2>1 DEF Promise, D!Lost
    <2>6. IsFiniteSet(D!Lost') /\ D!LossesAreAccidents' /\ accidents' \in Nat
      BY <1>0, <2>1, <2>5 DEF D!LossesAreAccidents
    <2> QED
      BY <2>1, <2>4, <2>6 DEF Promise, PromiseTyped
  <1>7. CASE UNCHANGED D!vars
    BY <1>7 DEF D!vars, Promise, PromiseTyped, D!NothingVanishes, D!AtMostOnce, D!LossesAreAccidents, D!Lost
  <1> QED
    BY <1>1, <1>2, <1>3, <1>4, <1>5, <1>6, <1>7 DEF D!Next

LEMMA PromiseMade == D!Init => Promise
  <1> SUFFICES ASSUME D!Init PROVE Promise
    OBVIOUS
  <1>1. D!Lost = {} /\ IsFiniteSet({})
    BY FS_EmptySet DEF D!Init, D!Lost
  <1>2. D!Cardinality({}) = 0
    BY FS_EmptySet, SameCardinality
  <1>3. PromiseTyped /\ published = {} /\ accidents = 0
        /\ \A j \in Jobs : copies[j] = 0 /\ fate[j] = {}
    BY DEF D!Init, PromiseTyped
  <1>4. D!AtMostOnce
    BY <1>2, <1>3 DEF D!AtMostOnce
  <1> QED
    BY <1>1, <1>2, <1>3, <1>4 DEF Promise, D!NothingVanishes, D!LossesAreAccidents

\* What the promise comes to: a published job has a copy left or has come to an end;
\* without an overrun of a visibility timeout it is in one place and ends once; and
\* no more jobs are lost than there were crashes and smoke tests.
THEOREM DeliveryKept ==
    D!Spec => [](D!NothingVanishes /\ D!AtMostOnce /\ D!LossesAreAccidents)
  <1>1. Promise => D!NothingVanishes /\ D!AtMostOnce /\ D!LossesAreAccidents
    BY DEF Promise
  <1>2. ASSUME Promise, [D!Next]_D!vars
        PROVE  Promise'
    BY <1>2, PromiseKept
  <1> QED
    BY <1>1, <1>2, PromiseMade, PTL DEF D!Spec

\* So the adapters deliver: with every broker a published job has a message left or an
\* end, it is in one place and ends once unless a worker overruns its visibility
\* timeout, and crashes and smoke tests lose no more jobs than there were of them.
THEOREM AdaptersDeliver ==
    Spec => [](D!NothingVanishes /\ D!AtMostOnce /\ D!LossesAreAccidents)
  BY AdaptersImplementDelivery, DeliveryKept, PTL DEF ImplementsDelivery

=============================================================================
