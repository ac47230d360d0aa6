----------------------------- MODULE GitHubClient -----------------------------
(***************************************************************************)
(* The client every request to GitHub goes through: _request, with its     *)
(* retries, its waits on a rate limit and its renewal of a GitHub App      *)
(* token, and the calls built on it: follow_user, a request for the follow *)
(* and then probes for its effect, and the calls of one request, for a     *)
(* page, the rate limits, a repository or a fork.                          *)
(*                                                                         *)
(* One account and one call at a time: a process makes its calls in turn.  *)
(***************************************************************************)
EXTENDS Integers

CONSTANTS
    MaxRetries,   \* MAX_RETRIES: attempts of one request
    Probes,       \* BOT_FOLLOW_VERIFY_MAX_RETRIES
    Verify,       \* BOT_VERIFY_FOLLOW_AFTER_PUT
    Provider,     \* TRUE when BOT_AUTH_MODE=github_app: tokens can be issued
    Silent        \* TRUE if GitHub may answer 204 to a follow it does not apply

ASSUME RetryAssumption == {MaxRetries, Probes} \subseteq Nat \ {0}
ASSUME SwitchAssumption == {Verify, Provider, Silent} \subseteq BOOLEAN

VARIABLES
    call,         \* the call in progress, or the last one
    token,        \* the token the client holds
    follows       \* GitHub: the bot follows the account

vars == <<call, token, follows>>

\* follow_user, fetch_*, check_rate_limit, get_repository and fork_repository.
Kinds == {"follow", "page", "limits", "repository", "fork"}

\* The requests of follow_user, and the request of any other call.
Stages == {"put", "probe", "infer", "lookup", "whoami", "get", "fork"}

\* "garbled" is a 200 whose body is not JSON; "limited" is a 422 whose text names a
\* rate limit or abuse; "broken" is no response at all (a RequestException of the
\* session).
Replies == {"200", "garbled", "202", "204", "401", "403", "404", "422", "limited", "429", "5xx", "broken"}

Results == {"none", "ok", "restricted", "throttled", "error", "data", "nothing",
            "refused", "raised", "fatal"}

Call == [kind : Kinds,
         pc : {"idle", "check", "send", "renew"},
         stage : Stages,
         attempt : 1..MaxRetries,
         refreshed : BOOLEAN,             \* refreshed_on_unauthorized
         probe : 1..Probes,
         result : Results,
         status : Replies \cup {"none"},  \* the status the result names
         sent : Nat,                      \* history: requests sent (it saturates)
         last : Replies \cup {"none"},    \* history: the last reply
         renewed : SUBSET (Stages \X (1..Probes))]   \* history: requests with a renewal on 401

\* soon: the clock says that the token expires within the skew (never, if no
\* expiry came with it).  good: GitHub accepts it.
Token == [soon : BOOLEAN, good : BOOLEAN]

TypeOK == /\ call \in Call
          /\ token \in Token
          /\ follows \in BOOLEAN

NoCall == [kind |-> "follow", pc |-> "idle", stage |-> "put", attempt |-> 1,
           refreshed |-> FALSE, probe |-> 1, result |-> "none", status |-> "none",
           sent |-> 0, last |-> "none", renewed |-> {}]

Init == /\ call = NoCall
        /\ token \in [soon : IF Provider THEN BOOLEAN ELSE {FALSE}, good : BOOLEAN]
        /\ follows \in BOOLEAN

-----------------------------------------------------------------------------
(* GitHub.                                                                 *)

\* A token that is not good is refused, unless something fails before that.
Refusals == {"401", "429", "5xx", "broken"}

\* What GitHub may say to the request of a stage.  A follow may not be seen by
\* the first probes, and is never seen when it was not applied.
Reply(stage) ==
    IF ~token.good THEN Refusals
    ELSE {"403", "404", "429", "5xx", "broken"} \cup
         CASE stage = "put" -> {"204", "422", "limited"}
           [] stage = "probe" -> IF follows THEN {"204"} ELSE {}
           [] stage = "fork" -> {"202", "422"}
           [] OTHER -> {"200", "garbled"}

\* What a request does to GitHub's side.
Effect(stage, reply) ==
    CASE stage = "put" /\ reply = "204" -> follows' \in IF Silent THEN {follows, TRUE} ELSE {TRUE}
      [] stage = "put" /\ reply \in {"5xx", "broken"} -> follows' \in {follows, TRUE}
      [] OTHER -> UNCHANGED follows

\* The token comes close to its end, and stops being good.
Age == /\ Provider
       /\ token' = [token EXCEPT !.soon = TRUE]
       /\ UNCHANGED <<call, follows>>

Die == /\ token' = [token EXCEPT !.good = FALSE]
       /\ UNCHANGED <<call, follows>>

-----------------------------------------------------------------------------
(* _request.                                                               *)

\* Mutant of Requesting: the renewal of an earlier request counts.
RequestingOn(c, stage) == [c EXCEPT !.pc = "check", !.stage = stage, !.attempt = 1]

\* A new call of _request.
Requesting(c, stage) ==
    [c EXCEPT !.pc = "check", !.stage = stage, !.attempt = 1, !.refreshed = FALSE]

Return(c, result, status) ==
    [c EXCEPT !.pc = "idle", !.result = result, !.status = status]

\* Mutant of Retry: the attempts are not counted.
RetryForever(c) == [c EXCEPT !.pc = "check"]

\* Mutant of Retry: one attempt more than there should be.
RetryOneMore(c) ==
    IF c.attempt <= MaxRetries THEN [c EXCEPT !.pc = "check", !.attempt = @ + 1]
                               ELSE Return(c, "raised", "none")

\* The loop goes round, or out with an exception that names no status.
Retry(c) ==
    IF c.attempt < MaxRetries THEN [c EXCEPT !.pc = "check", !.attempt = @ + 1]
                              ELSE Return(c, "raised", "none")

\* _handle_rate_limit: a 403 is always taken for a rate limit.
WaitedOut == {"403", "429", "limited"}

\* It sleeps, and the loop goes round; a Retry-After or X-RateLimit-Reset that is
\* no number is an error that nothing catches.
Waited(c) == {Retry(c), Return(c, "fatal", "none")}

\* resolve_github_app_private_key: the command fails, takes too long or prints
\* nothing, or the file cannot be read.
KeyErrors == {"command", "file"}

\* What the issuing of a token comes to: the key is not to be had or signs
\* nothing, GitHub answers with an error status, without a token or with a date
\* that is none, or it does not answer, or not in JSON.
Issuance == KeyErrors \cup {"issued", "unsigned", "refused", "tokenless", "misdated",
                           "broken", "no JSON"}

\* The failures that requests raises as a RequestException.
RequestErrors == {"broken", "no JSON"}

\* _refresh_runtime_token: a new token, with an expiry that may be near, or none;
\* a RequestException, and an attempt is spent; or an error that nothing catches.
Renew(c, renewed) ==
    \E outcome \in Issuance :
        /\ token' \in IF outcome = "issued" THEN [soon : BOOLEAN, good : {TRUE}] ELSE {token}
        /\ call' = CASE outcome = "issued" -> renewed
                     [] outcome \in RequestErrors -> Retry(c)
                     [] OTHER -> Return(c, "fatal", "none")

\* The head of the loop: a token about to expire is renewed first.
CheckToken ==
    /\ call.pc = "check"
    /\ IF Provider /\ token.soon
       THEN Renew(call, [call EXCEPT !.pc = "send"])
       ELSE call' = [call EXCEPT !.pc = "send"] /\ UNCHANGED token
    /\ UNCHANGED follows

-----------------------------------------------------------------------------
(* What a response means to the caller.                                    *)

\* A 200, whoever does not read its body.
Found == {"200", "garbled"}

\* The calls of one request.  Unlike the others, check_rate_limit and
\* fork_repository do not raise on an error status; get_repository takes 404 for
\* an answer.
Failure(kind, reply) ==
    CASE kind = "fork" -> "refused"
      [] kind = "limits" \/ (kind = "repository" /\ reply = "404") -> "nothing"
      [] OTHER -> "raised"

AfterRequest(c, reply) ==
    IF reply = "garbled" THEN Return(c, "raised", "none")
    ELSE Return(c, IF reply \in {"200", "202"} THEN "data" ELSE Failure(c.kind, reply), reply)

(* follow_user.                                                            *)

\* _verify_follow_applied asks whether the account is among those followed, and
\* after a delay asks again.
FirstProbe(c) == Requesting([c EXCEPT !.probe = 1], "probe")
NextProbe(c) == Requesting([c EXCEPT !.probe = @ + 1], "probe")

\* Mutant of AfterPut: verification is skipped although it is switched on.
AfterPutTrusting(c, reply) ==
    CASE reply = "204" -> Return(c, "ok", "204")
      [] reply = "404" -> Requesting(c, "lookup")
      [] OTHER -> Return(c, "error", reply)

AfterPut(c, reply) ==
    CASE reply = "204" -> IF Verify THEN FirstProbe(c)
                                    ELSE Return(c, "ok", "204")
      [] reply = "limited" -> Return(c, "throttled", "429")
      [] reply = "404" -> Requesting(c, "lookup")
      [] OTHER -> Return(c, "error", reply)

\* Mutant of AfterProbe: 404 is taken for "not yet", to the last.
AfterProbeHopeful(c, reply) ==
    CASE reply = "204" -> Return(c, "ok", "204")
      [] reply = "404" /\ c.probe < Probes -> NextProbe(c)
      [] reply = "404" /\ c.probe = Probes -> Return(c, "ok", "404")
      [] OTHER -> Return(c, "error", reply)

\* The loop of _verify_follow_applied.
AfterProbe(c, reply) ==
    CASE reply = "204" -> Return(c, "ok", "204")
      [] reply = "404" /\ c.probe < Probes -> NextProbe(c)
      [] reply = "404" /\ c.probe = Probes -> Requesting(c, "infer")
      [] OTHER -> Return(c, "error", reply)

\* What a response that _request hands on leads to.
After(c, reply) ==
    CASE c.stage = "put" -> AfterPut(c, reply)
      [] c.stage = "probe" -> AfterProbe(c, reply)
      [] c.stage = "infer" -> Return(c, IF reply \in Found THEN "restricted" ELSE "error", "404")
      [] c.stage = "lookup" -> IF reply \in Found THEN Requesting(c, "whoami")
                                                   ELSE Return(c, "error", "404")
      [] c.stage = "whoami" -> IF reply = "garbled" THEN Return(c, "raised", "none")
                                                    ELSE Return(c, "error", "404")
      [] OTHER -> AfterRequest(c, reply)

\* Requests one follow can take: the PUT, the probes, and the inference.
SendLimit == MaxRetries * (Probes + 2)

Sent(c, reply) == [c EXCEPT !.sent = IF @ <= SendLimit THEN @ + 1 ELSE @, !.last = reply]

\* One request and what the loop makes of the reply.
Send ==
    /\ call.pc = "send"
    /\ \E reply \in Reply(call.stage) :
         LET c == Sent(call, reply)
         IN  /\ Effect(call.stage, reply)
             /\ call' \in IF reply = "401" /\ Provider /\ ~call.refreshed
                          THEN {[c EXCEPT !.pc = "renew"]}
                          ELSE IF reply \in WaitedOut THEN Waited(c)
                          ELSE IF reply = "broken" THEN {Retry(c)}
                          ELSE {After(c, reply)}
    /\ UNCHANGED token

\* A 401 is answered with a new token, once in a request; the attempt is spent.
RenewToken ==
    /\ call.pc = "renew"
    /\ Renew(call, Retry([call EXCEPT !.refreshed = TRUE,
                                      !.renewed = @ \cup {<<call.stage, call.probe>>}]))
    /\ UNCHANGED follows

-----------------------------------------------------------------------------

Begin(kind) ==
    /\ call.pc = "idle"
    /\ call' = Requesting([NoCall EXCEPT !.kind = kind],
                          CASE kind = "follow" -> "put" [] kind = "fork" -> "fork" [] OTHER -> "get")
    /\ UNCHANGED <<token, follows>>

Step == CheckToken \/ Send \/ RenewToken
Next == Step \/ Age \/ Die \/ \E kind \in Kinds : Begin(kind)

Spec == Init /\ [][Next]_vars

-----------------------------------------------------------------------------
(* Properties.                                                             *)

\* follow_user reports success only for an account that is followed, provided
\* that it verifies or that GitHub's 204 can be believed: whatever renewals,
\* retries and probes came in between.
OkIsReal == (Verify \/ ~Silent) => (call.result = "ok" => follows)

\* The requests of one follow are bounded: the attempts of the PUT, of each
\* probe and of the inference (or of the two lookups) do not add up to more.
SendsBounded == call.sent <= SendLimit

\* A client that can renew its token reports 401 to its caller only if it renewed
\* the token for that very request, the probe of a follow included, and GitHub
\* refused the new one too.
UnauthorizedIsFinal ==
    (Provider /\ call.result # "none" /\ call.status = "401") =>
        <<call.stage, call.probe>> \in call.renewed

\* A token renewed on a 401 is tried before the client gives up.
RenewedTokenIsTried ==
    (call.result = "raised" /\ call.status = "none" /\ call.refreshed) => call.last # "401"

\* A follow that GitHub last refused as abuse is reported to the queue as throttled
\* (unless GitHub's reply could not be read).
AbuseIsReported ==
    (call.kind = "follow" /\ call.result \notin {"none", "fatal"} /\ call.last = "limited") =>
        call.result = "throttled"

\* What the queue sees of the calls that are follows.
CallAnswer ==
    CASE call.kind # "follow" -> "none"
      [] call.kind = "follow" /\ call.result \in {"fatal", "raised"} -> "raised"
      [] call.kind = "follow" /\ call.result = "throttled" -> "error"
      [] OTHER -> call.result

F == INSTANCE FollowCall WITH follows <- follows, answer <- CallAnswer

\* follow_user keeps the promise FollowQueue relies on.
ImplementsFollowCall == F!Spec

=============================================================================
