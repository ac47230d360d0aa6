-------------------------- MODULE GitHubClientProofs --------------------------
(***************************************************************************)
(* GitHubClient for every number of retries and probes: types, the answer  *)
(* `ok`, a 401 that is reported, the bound on the requests of a call, and  *)
(* that follow_user implements FollowCall.                                 *)
(*                                                                         *)
(* The inductive invariant speaks of a call record and of the value of     *)
(* `follows`, so that the helpers of the module, which map a record to a   *)
(* record, get one lemma each.                                             *)
(***************************************************************************)
EXTENDS GitHubClient, TLAPS

\* _request calls that are over when a stage is in progress.
Before(c) ==
    CASE c.stage = "probe" -> c.probe
      [] c.stage = "infer" -> Probes + 1
      [] c.stage = "lookup" -> 1
      [] c.stage = "whoami" -> 2
      [] OTHER -> 0

\* The requests that can have been sent when the attempts of the current one
\* number n.
Spent(c, n) == c.sent <= MaxRetries * Before(c) + n

\* A call in progress.
Busy(c) ==
    /\ c \in Call
    /\ c.kind # "follow" <=> c.stage \in {"get", "fork"}
    /\ c.result = "none" /\ c.status = "none"
    /\ c.refreshed => <<c.stage, c.probe>> \in c.renewed

\* What only the calls of one request come to.
Plain == {"data", "nothing", "refused"}

\* A call that is over, f being the value of `follows`.
Ended(c, f) ==
    /\ c \in Call
    /\ c.kind # "follow" => c.result \notin {"ok", "restricted", "throttled", "error"}
    /\ c.kind = "follow" => c.result \notin Plain
    /\ (Verify \/ ~Silent) => (c.result = "ok" => f)
    /\ (Provider /\ c.result # "none" /\ c.status = "401") =>
          <<c.stage, c.probe>> \in c.renewed
    /\ c.sent <= SendLimit

Sound(c, f) ==
    \/ c.pc \in {"check", "send"} /\ Busy(c) /\ Spent(c, c.attempt - 1)
    \/ c.pc = "renew" /\ Busy(c) /\ Spent(c, c.attempt)
    \/ c.pc = "idle" /\ Ended(c, f)

\* What holds of a record between a reply and the decision what to do next.
Decide(c) == Busy(c) /\ Spent(c, c.attempt)

Inv == /\ token \in Token
       /\ follows \in BOOLEAN
       /\ Sound(call, follows)

-----------------------------------------------------------------------------

\* The fields of a record with another attempt, probe or stage.
LEMMA AttemptFields ==
    ASSUME NEW c \in Call, NEW n \in 1..MaxRetries
    PROVE  LET r == [c EXCEPT !.pc = "check", !.attempt = n]
           IN  /\ r \in Call
               /\ r.pc = "check" /\ r.attempt = n
               /\ r.kind = c.kind /\ r.stage = c.stage /\ r.probe = c.probe
               /\ r.sent = c.sent /\ r.renewed = c.renewed /\ r.refreshed = c.refreshed
               /\ r.result = c.result /\ r.status = c.status
  BY DEF Call

LEMMA ProbeFields ==
    ASSUME NEW c \in Call, NEW n \in 1..Probes
    PROVE  LET d == [c EXCEPT !.probe = n]
               e == [d EXCEPT !.stage = "probe"]
           IN  /\ d \in Call /\ e \in Call
               /\ d.sent = c.sent /\ d.kind = c.kind
               /\ d.result = c.result /\ d.status = c.status
               /\ e.stage = "probe" /\ e.probe = n /\ e.sent = c.sent
  BY DEF Call, Stages

\* Requests before and during a stage stay below the limit.
LEMMA StageLimit ==
    ASSUME NEW c \in Call
    PROVE  /\ Before(c) \in Nat
           /\ MaxRetries * Before(c) + MaxRetries <= SendLimit
  <1>1. /\ MaxRetries \in Nat \ {0}
        /\ Probes \in Nat \ {0}
        /\ c.probe \in 1..Probes
    BY RetryAssumption DEF Call
  <1>2. Before(c) \in Nat /\ Before(c) <= Probes + 1
    BY <1>1 DEF Before
  <1>3. \A m, x, y \in Nat : x <= y => m * x + m <= m * (y + 1)
    <2> SUFFICES ASSUME NEW m \in Nat, NEW x \in Nat, NEW y \in Nat, x <= y
                 PROVE  m * x + m <= m * (y + 1)
      OBVIOUS
    <2>1. PICK d \in Nat : y = x + d
      <3>1. y - x \in Nat /\ y = x + (y - x)
        OBVIOUS
      <3> QED
        BY <3>1
    <2>2. m * (y + 1) = m * x + m * d + m
      BY <2>1
    <2>3. m * d \in Nat
      BY <2>1
    <2> QED
      BY <2>2, <2>3
  <1>4. MaxRetries * Before(c) + MaxRetries <= MaxRetries * ((Probes + 1) + 1)
    BY <1>1, <1>2, <1>3
  <1> QED
    BY <1>1, <1>2, <1>4 DEF SendLimit

\* A call that ends with an error, an exception or nothing to verify.
LEMMA ReturnEnds ==
    ASSUME NEW c \in Call, Decide(c), NEW f,
           NEW result \in Results, NEW status \in Replies \cup {"none"},
           c.kind # "follow" => result \in {"none", "raised", "fatal"} \cup Plain,
           c.kind = "follow" => result \notin Plain,
           (Verify \/ ~Silent) => (result = "ok" => f),
           Provider /\ status = "401" => c.refreshed
    PROVE  Sound(Return(c, result, status), f)
  <1> DEFINE r == Return(c, result, status)
  <1>1. /\ r \in Call
        /\ r.kind = c.kind /\ r.stage = c.stage /\ r.probe = c.probe
        /\ r.sent = c.sent /\ r.renewed = c.renewed
        /\ r.pc = "idle" /\ r.result = result /\ r.status = status
    BY DEF Call, Return
  <1>2. c.sent <= SendLimit
    <2>1. c.sent <= MaxRetries * Before(c) + c.attempt
      BY DEF Decide, Spent
    <2>2. c.attempt \in 1..MaxRetries /\ c.sent \in Nat
      BY DEF Call
    <2>3. MaxRetries * Before(c) \in Nat /\ SendLimit \in Nat
      BY StageLimit, RetryAssumption DEF SendLimit
    <2> QED
      BY <2>1, <2>2, <2>3, StageLimit, RetryAssumption
  <1>3. c.refreshed => <<c.stage, c.probe>> \in c.renewed
    BY DEF Decide, Busy
  <1>4. Ended(r, f)
    BY <1>1, <1>2, <1>3 DEF Ended, Plain
  <1> QED
    BY <1>1, <1>4 DEF Sound

\* The loop goes round, or the call ends with an exception.
LEMMA RetrySound ==
    ASSUME NEW c \in Call, Decide(c), NEW f
    PROVE  Sound(Retry(c), f)
  <1>1. CASE c.attempt < MaxRetries
    <2> DEFINE r == [c EXCEPT !.pc = "check", !.attempt = @ + 1]
    <2>1. Retry(c) = r
      BY <1>1 DEF Retry
    <2>2. /\ r \in Call
          /\ r.pc = "check" /\ r.attempt = c.attempt + 1
          /\ r.kind = c.kind /\ r.stage = c.stage /\ r.probe = c.probe
          /\ r.sent = c.sent /\ r.renewed = c.renewed /\ r.refreshed = c.refreshed
          /\ r.result = c.result /\ r.status = c.status
      <3>1. c.attempt + 1 \in 1..MaxRetries
        BY <1>1, RetryAssumption DEF Call
      <3> QED
        BY <3>1, AttemptFields, Zenon
    <2>3. Before(r) = Before(c)
      BY <2>2 DEF Before
    <2>4. Busy(r)
      BY <2>2 DEF Decide, Busy
    <2>5. Spent(r, r.attempt - 1)
      <3>1. r.attempt - 1 = c.attempt
        BY <2>2 DEF Call
      <3> QED
        BY <2>2, <2>3, <3>1 DEF Decide, Spent
    <2> QED
      BY <2>1, <2>2, <2>4, <2>5 DEF Sound
  <1>2. CASE ~(c.attempt < MaxRetries)
    BY <1>2, ReturnEnds DEF Retry, Results, Plain, Replies
  <1> QED
    BY <1>1, <1>2

\* The next request of a call.
LEMMA RequestingSound ==
    ASSUME NEW c \in Call, NEW stage \in Stages, NEW f,
           c.result = "none", c.status = "none",
           c.kind # "follow" <=> stage \in {"get", "fork"},
           c.sent <= MaxRetries * Before([c EXCEPT !.stage = stage])
    PROVE  Sound(Requesting(c, stage), f)
  <1> DEFINE r == Requesting(c, stage)
  <1>1. /\ r \in Call
        /\ r.pc = "check" /\ r.attempt = 1 /\ r.refreshed = FALSE
        /\ r.kind = c.kind /\ r.stage = stage /\ r.probe = c.probe
        /\ r.sent = c.sent /\ r.result = "none" /\ r.status = "none"
    <2>1. 1 \in 1..MaxRetries
      BY RetryAssumption
    <2>2. ASSUME NEW n \in 1..MaxRetries, NEW b \in BOOLEAN
          PROVE
            LET q == [c EXCEPT !.pc = "check", !.stage = stage, !.attempt = n, !.refreshed = b]
            IN  /\ q \in Call
                /\ q.pc = "check" /\ q.attempt = n /\ q.refreshed = b
                /\ q.kind = c.kind /\ q.stage = stage /\ q.probe = c.probe
                /\ q.sent = c.sent /\ q.result = c.result /\ q.status = c.status
      BY DEF Call
    <2>3. FALSE \in BOOLEAN
      OBVIOUS
    <2> QED
      BY <2>1, <2>2, <2>3, Zenon DEF Requesting
  <1>2. Before(r) = Before([c EXCEPT !.stage = stage])
    BY <1>1 DEF Before, Call
  <1>3. Busy(r)
    BY <1>1 DEF Busy
  <1>4. Spent(r, r.attempt - 1)
    <2>1. MaxRetries * Before(r) \in Nat /\ r.sent \in Nat
      BY <1>1, StageLimit, RetryAssumption DEF Call
    <2> QED
      BY <1>1, <1>2, <2>1 DEF Spent
  <1> QED
    BY <1>1, <1>3, <1>4 DEF Sound

\* A reply that is not waited out is handed on, unless it leads to a renewal.
HandedOn == {"200", "garbled", "202", "204", "401", "404", "422", "5xx"}

\* The stage after c's stage starts with the requests of c behind it.
LEMMA NextStage ==
    ASSUME NEW c \in Call, Decide(c), NEW d \in Call, d.sent = c.sent,
           Before(d) = Before(c) + 1
    PROVE  c.sent <= MaxRetries * Before(d)
  <1>1. c.sent <= MaxRetries * Before(c) + c.attempt
    BY DEF Decide, Spent
  <1>2. c.attempt \in 1..MaxRetries /\ c.sent \in Nat
    BY DEF Call
  <1>3. MaxRetries \in Nat /\ Before(c) \in Nat
    BY StageLimit, RetryAssumption
  <1>4. MaxRetries * (Before(c) + 1) = MaxRetries * Before(c) + MaxRetries
    BY <1>3
  <1>5. MaxRetries * Before(c) \in Nat
    BY <1>3
  <1> QED
    BY <1>1, <1>2, <1>3, <1>4, <1>5

LEMMA PutSound ==
    ASSUME NEW c \in Call, Decide(c), NEW f, NEW reply \in HandedOn, c.stage = "put",
           reply = "204" => (~Silent => f),
           Provider /\ reply = "401" => c.refreshed
    PROVE  Sound(AfterPut(c, reply), f)
  <1>1. c.kind = "follow" /\ c.result = "none" /\ c.status = "none"
    BY DEF Decide, Busy, Call
  <1>2. CASE reply = "204" /\ Verify
    <2> DEFINE d == [c EXCEPT !.probe = 1]
               e == [d EXCEPT !.stage = "probe"]
    <2>1. /\ d \in Call /\ e \in Call
          /\ d.sent = c.sent /\ d.kind = c.kind /\ d.result = "none" /\ d.status = "none"
          /\ e.stage = "probe" /\ e.probe = 1 /\ e.sent = c.sent
      <3>1. 1 \in 1..Probes
        BY RetryAssumption
      <3> QED
        BY <1>1, <3>1, ProbeFields, Zenon
    <2>2. Before(e) = Before(c) + 1
      BY <2>1 DEF Before
    <2>3. d.sent <= MaxRetries * Before(e)
      BY <2>1, <2>2, NextStage
    <2>4. Sound(Requesting(d, "probe"), f)
      BY <1>1, <2>1, <2>3, RequestingSound DEF Stages
    <2>5. FirstProbe(c) = Requesting(d, "probe")
      BY Zenon DEF FirstProbe
    <2>6. AfterPut(c, reply) = FirstProbe(c)
      BY <1>2 DEF AfterPut
    <2> QED
      BY <2>4, <2>5, <2>6
  <1>3. CASE reply = "204" /\ ~Verify
    <2>1. AfterPut(c, reply) = Return(c, "ok", "204")
      BY <1>3 DEF AfterPut
    <2> QED
      BY <1>1, <1>3, <2>1, ReturnEnds DEF Results, Plain, Replies
  <1>4. CASE reply = "404"
    <2> DEFINE e == [c EXCEPT !.stage = "lookup"]
    <2>1. e \in Call /\ e.stage = "lookup" /\ e.sent = c.sent
      BY DEF Call, Stages
    <2>2. Before(e) = Before(c) + 1
      BY <2>1 DEF Before
    <2>3. c.sent <= MaxRetries * Before(e)
      BY <2>1, <2>2, NextStage
    <2>4. Sound(Requesting(c, "lookup"), f)
      BY <1>1, <2>3, RequestingSound DEF Stages
    <2> QED
      BY <1>4, <2>4 DEF AfterPut
  <1>5. CASE reply \notin {"204", "404"}
    <2>1. AfterPut(c, reply) = Return(c, "error", reply)
      BY <1>5 DEF AfterPut, HandedOn
    <2> QED
      BY <1>1, <1>5, <2>1, ReturnEnds DEF Results, Plain, Replies, HandedOn
  <1> QED
    BY <1>2, <1>3, <1>4, <1>5

LEMMA ProbeSound ==
    ASSUME NEW c \in Call, Decide(c), NEW f, NEW reply \in HandedOn, c.stage = "probe",
           reply = "204" => f,
           Provider /\ reply = "401" => c.refreshed
    PROVE  Sound(AfterProbe(c, reply), f)
  <1>1. /\ c.kind = "follow" /\ c.result = "none" /\ c.status = "none"
        /\ c.probe \in 1..Probes
    BY DEF Decide, Busy, Call
  <1>2. CASE reply = "204"
    <2>1. AfterProbe(c, reply) = Return(c, "ok", "204")
      BY <1>2 DEF AfterProbe
    <2> QED
      BY <1>1, <1>2, <2>1, ReturnEnds DEF Results, Plain, Replies
  <1>3. CASE reply = "404" /\ c.probe < Probes
    <2> DEFINE d == [c EXCEPT !.probe = @ + 1]
               e == [d EXCEPT !.stage = "probe"]
    <2>1. /\ d \in Call /\ e \in Call
          /\ d.sent = c.sent /\ d.kind = c.kind /\ d.result = "none" /\ d.status = "none"
          /\ e.stage = "probe" /\ e.probe = c.probe + 1 /\ e.sent = c.sent
      <3>1. c.probe + 1 \in 1..Probes
        BY <1>1, <1>3, RetryAssumption
      <3> QED
        BY <1>1, <3>1, ProbeFields, Zenon
    <2>2. Before(e) = Before(c) + 1
      BY <2>1 DEF Before
    <2>3. d.sent <= MaxRetries * Before(e)
      BY <2>1, <2>2, NextStage
    <2>4. Sound(Requesting(d, "probe"), f)
      BY <1>1, <2>1, <2>3, RequestingSound DEF Stages
    <2>5. NextProbe(c) = Requesting(d, "probe")
      BY Zenon DEF NextProbe
    <2>6. AfterProbe(c, reply) = NextProbe(c)
      BY <1>1, <1>3, RetryAssumption DEF AfterProbe
    <2> QED
      BY <2>4, <2>5, <2>6
  <1>4. CASE reply = "404" /\ c.probe = Probes
    <2> DEFINE e == [c EXCEPT !.stage = "infer"]
    <2>1. e \in Call /\ e.stage = "infer" /\ e.sent = c.sent
      BY DEF Call, Stages
    <2>2. Before(e) = Before(c) + 1
      BY <1>4, <2>1 DEF Before
    <2>3. c.sent <= MaxRetries * Before(e)
      BY <2>1, <2>2, NextStage
    <2>4. Sound(Requesting(c, "infer"), f)
      BY <1>1, <2>3, RequestingSound DEF Stages
    <2>5. ~(c.probe < Probes)
      BY <1>1, <1>4, RetryAssumption
    <2> QED
      BY <1>4, <2>4, <2>5 DEF AfterProbe
  <1>5. CASE reply \notin {"204", "404"}
    <2>1. AfterProbe(c, reply) = Return(c, "error", reply)
      BY <1>5 DEF AfterProbe
    <2> QED
      BY <1>1, <1>5, <2>1, ReturnEnds DEF Results, Plain, Replies, HandedOn
  <1>6. c.probe < Probes \/ c.probe = Probes
    BY <1>1, RetryAssumption
  <1> QED
    BY <1>2, <1>3, <1>4, <1>5, <1>6

\* Whatever stage a response is handed on in, a sound call results.
LEMMA AfterSound ==
    ASSUME NEW c \in Call, Decide(c), NEW f, NEW reply \in HandedOn,
           c.stage = "put" /\ reply = "204" => (~Silent => f),
           c.stage = "probe" /\ reply = "204" => f,
           Provider /\ reply = "401" => c.refreshed
    PROVE  Sound(After(c, reply), f)
  <1>1. c.stage \in Stages
    BY DEF Call
  <1>2. CASE c.stage = "put"
    BY <1>2, PutSound DEF After
  <1>3. CASE c.stage = "probe"
    BY <1>3, ProbeSound DEF After
  <1>4. ASSUME c.stage \in {"infer", "lookup", "whoami"}
        PROVE  /\ c.kind = "follow" /\ c.result = "none" /\ c.status = "none"
               /\ \A result \in {"restricted", "error"} : Sound(Return(c, result, "404"), f)
               /\ Sound(Return(c, "raised", "none"), f)
    <2>1. c.kind = "follow" /\ c.result = "none" /\ c.status = "none"
      BY <1>4 DEF Decide, Busy, Call
    <2> QED
      BY <2>1, ReturnEnds DEF Results, Plain, Replies
  <1>5. CASE c.stage = "infer"
    BY <1>4, <1>5 DEF After
  <1>6. CASE c.stage = "lookup"
    <2> DEFINE e == [c EXCEPT !.stage = "whoami"]
    <2>1. e \in Call /\ e.stage = "whoami" /\ e.sent = c.sent
      BY DEF Call, Stages
    <2>2. Before(e) = Before(c) + 1
      BY <1>6, <2>1 DEF Before
    <2>3. c.sent <= MaxRetries * Before(e)
      BY <2>1, <2>2, NextStage
    <2>4. Sound(Requesting(c, "whoami"), f)
      BY <1>4, <1>6, <2>3, RequestingSound DEF Stages
    <2> QED
      BY <1>4, <1>6, <2>4 DEF After
  <1>7. CASE c.stage = "whoami"
    BY <1>4, <1>7 DEF After
  <1>8. CASE c.stage \in {"get", "fork"}
    <2> DEFINE result == IF reply \in {"200", "202"} THEN "data" ELSE Failure(c.kind, reply)
    <2>1. c.kind # "follow" /\ After(c, reply) = AfterRequest(c, reply)
      BY <1>8 DEF Decide, Busy, After
    <2>6. CASE reply = "garbled"
      <3>1. After(c, reply) = Return(c, "raised", "none")
        BY <2>1, <2>6 DEF AfterRequest
      <3> QED
        BY <2>1, <3>1, ReturnEnds DEF Results, Plain, Replies
    <2>2. result \in Plain \cup {"raised"}
      BY DEF Failure, Plain
    <2>4. result \in Results /\ reply \in Replies
      BY <2>2 DEF Plain, Results, Replies, HandedOn
    <2>3. ASSUME reply # "garbled" PROVE After(c, reply) = Return(c, result, reply)
      BY <2>1, <2>3 DEF AfterRequest
    <2> HIDE DEF result
    <2>5. result # "ok"
      BY <2>2 DEF Plain
    <2> QED
      BY <2>1, <2>2, <2>3, <2>4, <2>5, <2>6, ReturnEnds
  <1> QED
    BY <1>1, <1>2, <1>3, <1>5, <1>6, <1>7, <1>8 DEF Stages

\* The token provider leaves a sound call if the call renewed is one.
LEMMA RenewSound ==
    ASSUME NEW c \in Call, Decide(c), NEW r, NEW f, Sound(r, f),
           Renew(c, r), token \in Token
    PROVE  token' \in Token /\ Sound(call', f)
  <1>1. Sound(Retry(c), f)
    BY RetrySound
  <1>2. Sound(Return(c, "fatal", "none"), f)
    BY ReturnEnds DEF Results, Plain, Replies
  <1> QED
    BY <1>1, <1>2 DEF Renew, Token

-----------------------------------------------------------------------------
(* The steps.                                                              *)

\* What GitHub does with a request only ever adds the follow.
LEMMA EffectAdds ==
    ASSUME NEW stage \in Stages, NEW reply \in Reply(stage), Effect(stage, reply),
           follows \in BOOLEAN
    PROVE  /\ reply \in Replies
           /\ follows' \in {follows, TRUE}
           /\ follows' \in BOOLEAN
           /\ stage = "put" /\ reply = "204" => (~Silent => follows')
           /\ stage = "probe" /\ reply = "204" => follows'
  <1>1. reply \in Replies
    BY DEF Reply, Replies, Refusals
  <1>2. CASE stage = "put" /\ reply = "204"
    BY <1>1, <1>2 DEF Effect
  <1>3. CASE stage = "put" /\ reply # "204"
    BY <1>1, <1>3 DEF Effect
  <1>4. CASE stage # "put"
    <2>1. follows' = follows
      BY <1>4 DEF Effect
    <2>2. stage = "probe" /\ reply = "204" => follows
      BY DEF Reply, Refusals
    <2> QED
      BY <1>1, <1>4, <2>1, <2>2
  <1> QED
    BY <1>2, <1>3, <1>4

\* A request has been sent, and nothing decided.
LEMMA SentDecides ==
    ASSUME NEW c \in Call, NEW reply \in Replies, Busy(c), Spent(c, c.attempt - 1)
    PROVE  LET d == Sent(c, reply)
           IN  /\ d \in Call /\ Decide(d)
               /\ d.stage = c.stage /\ d.refreshed = c.refreshed
  <1> DEFINE d == Sent(c, reply)
  <1>1. c.sent \in Nat /\ c.attempt \in 1..MaxRetries
    BY DEF Call
  <1>2. PICK n \in Nat : /\ n = (IF c.sent <= SendLimit THEN c.sent + 1 ELSE c.sent)
                         /\ n <= c.sent + 1
    BY <1>1
  <1>3. d = [c EXCEPT !.sent = n, !.last = reply]
    BY <1>2, Zenon DEF Sent
  <1>4. /\ d \in Call /\ d.sent = n
        /\ d.kind = c.kind /\ d.stage = c.stage /\ d.attempt = c.attempt /\ d.probe = c.probe
        /\ d.refreshed = c.refreshed /\ d.renewed = c.renewed
        /\ d.result = c.result /\ d.status = c.status
    <2> HIDE DEF d
    <2> QED
      BY <1>3 DEF Call
  <1> HIDE DEF d
  <1>5. Busy(d)
    BY <1>4 DEF Busy
  <1>6. Before(d) = Before(c) /\ MaxRetries * Before(c) \in Nat
    BY <1>4, StageLimit, RetryAssumption DEF Before
  <1>7. Spent(d, d.attempt)
    BY <1>1, <1>2, <1>4, <1>6 DEF Spent
  <1> QED
    BY <1>4, <1>5, <1>7 DEF Decide, d

LEMMA SendSteps ==
    ASSUME Inv, Send
    PROVE  Inv' /\ follows' \in {follows, TRUE}
  <1>1. /\ call \in Call /\ call.pc = "send"
        /\ Busy(call) /\ Spent(call, call.attempt - 1)
    BY DEF Inv, Sound, Send, Busy, Ended
  <1>2. token' \in Token /\ call.stage \in Stages
    BY <1>1 DEF Inv, Send, Call
  <1>3. PICK reply \in Reply(call.stage) :
          /\ Effect(call.stage, reply)
          /\ call' \in IF reply = "401" /\ Provider /\ ~call.refreshed
                       THEN {[Sent(call, reply) EXCEPT !.pc = "renew"]}
                       ELSE IF reply \in WaitedOut THEN Waited(Sent(call, reply))
                       ELSE IF reply = "broken" THEN {Retry(Sent(call, reply))}
                       ELSE {After(Sent(call, reply), reply)}
    BY Zenon DEF Send
  <1>4. /\ reply \in Replies
        /\ follows' \in {follows, TRUE}
        /\ follows' \in BOOLEAN
        /\ call.stage = "put" /\ reply = "204" => (~Silent => follows')
        /\ call.stage = "probe" /\ reply = "204" => follows'
    BY <1>2, <1>3, EffectAdds DEF Inv
  <1> DEFINE c == Sent(call, reply)
  <1>5. /\ c \in Call /\ Decide(c)
        /\ c.stage = call.stage /\ c.refreshed = call.refreshed
    BY <1>1, <1>4, SentDecides
  <1> HIDE DEF c
  <1>6. CASE reply = "401" /\ Provider /\ ~call.refreshed
    <2>1. call' = [c EXCEPT !.pc = "renew"]
      BY <1>3, <1>6 DEF c
    <2>2. /\ call' \in Call /\ call'.pc = "renew"
          /\ call'.kind = c.kind /\ call'.stage = c.stage /\ call'.probe = c.probe
          /\ call'.attempt = c.attempt /\ call'.sent = c.sent
          /\ call'.refreshed = c.refreshed /\ call'.renewed = c.renewed
          /\ call'.result = c.result /\ call'.status = c.status
      BY <1>5, <2>1 DEF Call
    <2>3. Busy(call')
      BY <1>5, <2>2 DEF Decide, Busy
    <2>4. Spent(call', call'.attempt)
      BY <1>5, <2>2 DEF Decide, Spent, Before
    <2>5. Sound(call', follows')
      BY <2>2, <2>3, <2>4 DEF Sound
    <2> QED
      BY <1>2, <1>4, <2>5 DEF Inv
  <1>7. CASE reply \in WaitedOut \cup {"broken"}
    <2>1. call' \in {Retry(c), Return(c, "fatal", "none")}
      BY <1>3, <1>7 DEF WaitedOut, Waited, c
    <2>2. Sound(call', follows')
      <3>1. Sound(Return(c, "fatal", "none"), follows')
        BY <1>5, ReturnEnds DEF Results, Plain, Replies
      <3> QED
        BY <1>5, <2>1, <3>1, RetrySound
    <2> QED
      BY <1>2, <1>4, <2>2 DEF Inv
  <1>8. CASE /\ reply \notin WaitedOut \cup {"broken"}
             /\ ~(reply = "401" /\ Provider /\ ~call.refreshed)
    <2>1. call' = After(c, reply)
      BY <1>3, <1>8 DEF c
    <2>2. reply \in HandedOn
      BY <1>4, <1>8 DEF WaitedOut, Replies, HandedOn
    <2>3. Sound(call', follows')
      BY <1>4, <1>5, <1>8, <2>1, <2>2, AfterSound
    <2> QED
      BY <1>2, <1>4, <2>3 DEF Inv
  <1> QED
    BY <1>6, <1>7, <1>8

LEMMA CheckTokenSteps ==
    ASSUME Inv, CheckToken
    PROVE  Inv' /\ follows' = follows
  <1>1. /\ call \in Call /\ call.pc = "check"
        /\ Busy(call) /\ Spent(call, call.attempt - 1)
    BY DEF Inv, Sound, CheckToken, Busy, Ended
  <1> DEFINE r == [call EXCEPT !.pc = "send"]
  <1>2. Decide(call)
    <2>1. /\ call.sent \in Nat /\ call.attempt \in 1..MaxRetries
          /\ MaxRetries * Before(call) \in Nat
      BY <1>1, StageLimit, RetryAssumption DEF Call
    <2> QED
      BY <1>1, <2>1 DEF Decide, Spent
  <1>3. /\ r \in Call /\ r.pc = "send"
        /\ r.kind = call.kind /\ r.stage = call.stage /\ r.probe = call.probe
        /\ r.attempt = call.attempt /\ r.sent = call.sent
        /\ r.refreshed = call.refreshed /\ r.renewed = call.renewed
        /\ r.result = call.result /\ r.status = call.status
    BY <1>1 DEF Call
  <1>4. Sound(r, follows)
    <2>1. Busy(r)
      BY <1>1, <1>3 DEF Busy
    <2>2. Spent(r, r.attempt - 1)
      BY <1>1, <1>3 DEF Spent, Before
    <2> QED
      BY <1>3, <2>1, <2>2 DEF Sound
  <1>5. follows' = follows /\ token \in Token /\ follows \in BOOLEAN
    BY DEF CheckToken, Inv
  <1>6. CASE Provider /\ token.soon
    <2>1. Renew(call, r)
      BY <1>6 DEF CheckToken
    <2> QED
      BY <1>1, <1>2, <1>4, <1>5, <2>1, RenewSound DEF Inv
  <1>7. CASE ~(Provider /\ token.soon)
    BY <1>4, <1>5, <1>7 DEF CheckToken, Inv
  <1> QED
    BY <1>6, <1>7

LEMMA RenewTokenSteps ==
    ASSUME Inv, RenewToken
    PROVE  Inv' /\ follows' = follows
  <1>1. /\ call \in Call /\ call.pc = "renew" /\ Decide(call)
    BY DEF Inv, Sound, RenewToken, Busy, Ended, Decide
  <1> DEFINE c == [call EXCEPT !.refreshed = TRUE,
                               !.renewed = @ \cup {<<call.stage, call.probe>>}]
  <1>2. /\ c \in Call /\ <<c.stage, c.probe>> \in c.renewed
        /\ c.kind = call.kind /\ c.stage = call.stage /\ c.probe = call.probe
        /\ c.attempt = call.attempt /\ c.sent = call.sent
        /\ c.result = call.result /\ c.status = call.status
    <2>1. ASSUME NEW b \in BOOLEAN, NEW R \in SUBSET (Stages \X (1..Probes))
          PROVE  LET q == [call EXCEPT !.refreshed = b, !.renewed = R]
                 IN  /\ q \in Call /\ q.renewed = R
                     /\ q.kind = call.kind /\ q.stage = call.stage /\ q.probe = call.probe
                     /\ q.attempt = call.attempt /\ q.sent = call.sent
                     /\ q.result = call.result /\ q.status = call.status
      BY <1>1 DEF Call
    <2>2. call.renewed \cup {<<call.stage, call.probe>>} \in SUBSET (Stages \X (1..Probes))
      BY <1>1 DEF Call
    <2>3. TRUE \in BOOLEAN /\ <<call.stage, call.probe>> \in {<<call.stage, call.probe>>}
      OBVIOUS
    <2> QED
      BY <2>1, <2>2, <2>3, Zenon
  <1> HIDE DEF c
  <1>3. Decide(c)
    <2>1. Busy(c)
      BY <1>1, <1>2 DEF Decide, Busy
    <2>2. Spent(c, c.attempt)
      BY <1>1, <1>2 DEF Decide, Spent, Before
    <2> QED
      BY <2>1, <2>2 DEF Decide
  <1>4. Sound(Retry(c), follows)
    BY <1>2, <1>3, RetrySound
  <1>5. follows' = follows /\ token \in Token /\ follows \in BOOLEAN
    BY DEF RenewToken, Inv
  <1>6. Renew(call, Retry(c))
    BY Zenon DEF RenewToken, c
  <1> QED
    BY <1>1, <1>4, <1>5, <1>6, RenewSound DEF Inv

LEMMA BeginSteps ==
    ASSUME Inv, NEW kind \in Kinds, Begin(kind)
    PROVE  Inv' /\ follows' = follows /\ call'.result = "none"
  <1> DEFINE c == [NoCall EXCEPT !.kind = kind]
             stage == CASE kind = "follow" -> "put" [] kind = "fork" -> "fork" [] OTHER -> "get"
             e == [c EXCEPT !.stage = stage]
  <1>1. /\ c \in Call /\ c.kind = kind /\ c.sent = 0
        /\ c.result = "none" /\ c.status = "none"
    <2>1. NoCall \in Call /\ NoCall.sent = 0 /\ NoCall.result = "none" /\ NoCall.status = "none"
      BY RetryAssumption DEF NoCall, Call, Kinds, Stages, Results, Replies
    <2> HIDE DEF NoCall
    <2> QED
      BY <2>1 DEF Call
  <1>2. e \in Call /\ e.stage = stage
    BY <1>1 DEF Call, Stages
  <1>3. MaxRetries * Before(e) = 0
    <2>1. Before(e) = 0
      BY <1>2 DEF Before
    <2> QED
      BY <2>1, RetryAssumption
  <1>4. Sound(Requesting(c, stage), follows)
    <2>1. stage \in Stages /\ (c.kind # "follow" <=> stage \in {"get", "fork"})
      BY <1>1 DEF Stages
    <2>2. c.sent <= MaxRetries * Before(e)
      BY <1>1, <1>3
    <2> HIDE DEF c, stage
    <2> QED
      BY <1>1, <2>1, <2>2, RequestingSound
  <1>5. call' = Requesting(c, stage) /\ token' = token /\ follows' = follows
    BY DEF Begin
  <1>6. call'.result = "none"
    <2>1. \A q \in Call : Requesting(q, stage).result = q.result
      BY DEF Requesting, Call
    <2> QED
      BY <1>1, <1>5, <2>1
  <1> QED
    BY <1>4, <1>5, <1>6 DEF Inv

\* The invariant, step by step.
LEMMA Inductive ==
    ASSUME Inv, [Next]_vars
    PROVE  Inv'
  <1>1. CASE CheckToken
    BY <1>1, CheckTokenSteps
  <1>2. CASE Send
    BY <1>2, SendSteps
  <1>3. CASE RenewToken
    BY <1>3, RenewTokenSteps
  <1>4. ASSUME NEW kind \in Kinds, Begin(kind)
        PROVE  Inv'
    BY <1>4, BeginSteps
  <1>5. ASSUME Age \/ Die
        PROVE  Inv'
    <2>1. token' \in Token /\ call' = call /\ follows' = follows
      BY <1>5 DEF Age, Die, Inv, Token
    <2> QED
      BY <2>1 DEF Inv
  <1>6. CASE UNCHANGED vars
    BY <1>6 DEF vars, Inv
  <1> QED
    BY <1>1, <1>2, <1>3, <1>4, <1>5, <1>6 DEF Next, Step

LEMMA Initial == Init => Inv
  <1> SUFFICES ASSUME Init PROVE Inv
    OBVIOUS
  <1>1. /\ NoCall \in Call /\ NoCall.sent = 0 /\ NoCall.result = "none"
        /\ NoCall.pc = "idle" /\ NoCall.status = "none"
    BY RetryAssumption DEF NoCall, Call, Kinds, Stages, Results, Replies
  <1>2. SendLimit \in Nat
    BY RetryAssumption DEF SendLimit
  <1>3. Ended(NoCall, follows)
    BY <1>1, <1>2 DEF Ended, Plain
  <1> QED
    BY <1>1, <1>3 DEF Init, Inv, Sound, Token

\* The invariant holds of the client: a call in progress has sent no more than
\* its attempts allow, and a call that is over says what is true.
THEOREM ClientSound == Spec => []Inv
  BY Initial, Inductive, PTL DEF Spec

\* The variables keep their types: no attempt and no probe beyond the limits.
THEOREM ClientTypes == Spec => []TypeOK
  <1>1. Inv => TypeOK
    BY DEF Inv, Sound, Busy, Ended, TypeOK
  <1> QED
    BY <1>1, ClientSound, PTL

\* follow_user answers `ok` only for an account that is followed, if it verifies
\* or if GitHub's 204 can be believed.
THEOREM FollowIsReal == Spec => []OkIsReal
  <1>1. Inv => OkIsReal
    BY DEF Inv, Sound, Busy, Ended, OkIsReal
  <1> QED
    BY <1>1, ClientSound, PTL

\* No call sends more requests than its attempts and its probes allow.
THEOREM SendsLimited == Spec => []SendsBounded
  <1>1. ASSUME Inv PROVE SendsBounded
    <2>1. CASE Busy(call) /\ Spent(call, call.attempt)
      <3>1. /\ call \in Call /\ call.sent \in Nat /\ call.attempt \in 1..MaxRetries
            /\ MaxRetries * Before(call) \in Nat /\ SendLimit \in Nat
        BY <2>1, StageLimit, RetryAssumption DEF Busy, Call, SendLimit
      <3> QED
        BY <2>1, <3>1, StageLimit, RetryAssumption DEF Spent, SendsBounded
    <2>2. CASE Busy(call) /\ Spent(call, call.attempt - 1)
      <3>1. /\ call \in Call /\ call.sent \in Nat /\ call.attempt \in 1..MaxRetries
            /\ MaxRetries * Before(call) \in Nat /\ SendLimit \in Nat
        BY <2>2, StageLimit, RetryAssumption DEF Busy, Call, SendLimit
      <3> QED
        BY <2>2, <3>1, StageLimit, RetryAssumption DEF Spent, SendsBounded
    <2>3. CASE Ended(call, follows)
      BY <2>3 DEF Ended, SendsBounded
    <2> QED
      BY <1>1, <2>1, <2>2, <2>3 DEF Inv, Sound
  <1> QED
    BY <1>1, ClientSound, PTL

\* A 401 that reaches the caller survived a renewal made for that request.
THEOREM UnauthorizedAfterRenewal == Spec => []UnauthorizedIsFinal
  <1>1. Inv => UnauthorizedIsFinal
    BY DEF Inv, Sound, Busy, Ended, UnauthorizedIsFinal
  <1> QED
    BY <1>1, ClientSound, PTL

-----------------------------------------------------------------------------
(* Refinement.                                                             *)

\* The answer the queue sees, in terms of the call.
LEMMA AnswerFacts ==
    ASSUME Inv, Verify \/ ~Silent
    PROVE  /\ CallAnswer \in {"none"} \cup F!Answers
           /\ CallAnswer = "ok" => follows
           /\ call.pc # "idle" => CallAnswer = "none"
           /\ call.result = "none" => CallAnswer = "none"
  <1>1. call \in Call
    BY DEF Inv, Sound, Busy, Ended
  <1>2. call.kind # "follow" \/ call.kind = "follow"
    BY <1>1 DEF Call
  <1>3. call.pc # "idle" => call.result = "none"
    BY DEF Inv, Sound, Busy
  <1>4. call.result = "none" => CallAnswer = "none"
    BY <1>2 DEF CallAnswer
  <1>5. call.kind = "follow" => call.result \in Results \ Plain
    BY <1>1, <1>3 DEF Inv, Sound, Busy, Ended, Call, Results, Plain
  <1>6. CallAnswer \in {"none"} \cup F!Answers
    BY <1>2, <1>5 DEF CallAnswer, F!Answers, Results, Plain
  <1>7. CallAnswer = "ok" => call.result = "ok"
    BY <1>2 DEF CallAnswer
  <1>8. call.result = "ok" => follows
    BY DEF Inv, Sound, Busy, Ended
  <1> QED
    BY <1>3, <1>4, <1>6, <1>7, <1>8

LEMMA AnswerFactsNext ==
    ASSUME Inv', Verify \/ ~Silent
    PROVE  /\ CallAnswer' \in {"none"} \cup F!Answers
           /\ CallAnswer' = "ok" => follows'
           /\ call'.result = "none" => CallAnswer' = "none"
  <1>1. call' \in Call
    BY DEF Inv, Sound, Busy, Ended
  <1>2. call'.kind # "follow" \/ call'.kind = "follow"
    BY <1>1 DEF Call
  <1>3. call'.pc # "idle" => call'.result = "none"
    BY DEF Inv, Sound, Busy
  <1>4. call'.result = "none" => CallAnswer' = "none"
    BY <1>2 DEF CallAnswer
  <1>5. call'.kind = "follow" => call'.result \in Results \ Plain
    BY <1>1, <1>3 DEF Inv, Sound, Busy, Ended, Call, Results, Plain
  <1>6. CallAnswer' \in {"none"} \cup F!Answers
    BY <1>2, <1>5 DEF CallAnswer, F!Answers, Results, Plain
  <1>7. CallAnswer' = "ok" => call'.result = "ok"
    BY <1>2 DEF CallAnswer
  <1>8. call'.result = "ok" => follows'
    BY DEF Inv, Sound, Busy, Ended
  <1> QED
    BY <1>4, <1>6, <1>7, <1>8

\* follow_user is an implementation of FollowCall, which is what FollowQueue
\* assumes of it: provided it verifies, or GitHub's 204 can be believed.
THEOREM ClientImplementsFollowCall ==
    ASSUME Verify \/ ~Silent
    PROVE  Spec => ImplementsFollowCall
  <1>1. Init => F!Init
    <2> SUFFICES ASSUME Init PROVE F!Init
      OBVIOUS
    <2>1. CallAnswer = "none"
      BY DEF Init, NoCall, CallAnswer
    <2> QED
      BY <2>1 DEF Init, F!Init
  <1>2. ASSUME Inv, Inv', [Next]_vars
        PROVE  [F!Next]_<<follows, CallAnswer>>
    <2>1. ASSUME call.pc # "idle", follows' \in {follows, TRUE}
          PROVE  F!Next
      <3>1. CallAnswer = "none"
        BY <1>2, <2>1, AnswerFacts
      <3>2. CallAnswer' \in {"none"} \cup F!Answers /\ (CallAnswer' = "ok" => follows')
        BY <1>2, AnswerFactsNext
      <3> QED
        BY <2>1, <3>1, <3>2 DEF F!Next, F!Work, F!Answer, F!Applied
    <2>2. CASE CheckToken
      BY <1>2, <2>1, <2>2, CheckTokenSteps DEF CheckToken
    <2>3. CASE Send
      BY <1>2, <2>1, <2>3, SendSteps DEF Send
    <2>4. CASE RenewToken
      BY <1>2, <2>1, <2>4, RenewTokenSteps DEF RenewToken
    <2>5. ASSUME NEW kind \in Kinds, Begin(kind)
          PROVE  F!Next
      <3>1. follows' = follows /\ call'.result = "none"
        BY <1>2, <2>5, BeginSteps
      <3>2. CallAnswer' = "none"
        BY <1>2, <3>1, AnswerFactsNext
      <3> QED
        BY <3>1, <3>2 DEF F!Next, F!Again
    <2>6. ASSUME Age \/ Die \/ UNCHANGED vars
          PROVE  UNCHANGED <<follows, CallAnswer>>
      BY <2>6 DEF Age, Die, vars, CallAnswer
    <2> QED
      BY <1>2, <2>2, <2>3, <2>4, <2>5, <2>6 DEF Next, Step
  <1> QED
    BY <1>1, <1>2, ClientSound, PTL DEF Spec, ImplementsFollowCall, F!Spec

=============================================================================
