----------------------------- MODULE FollowCall -----------------------------
(***************************************************************************)
(* What a call of follow_user promises to the queue that makes it: at most *)
(* one answer, and `ok` only for an account that is followed on GitHub.    *)
(* Any other answer, or an exception, says nothing about GitHub's side.    *)
(***************************************************************************)
VARIABLES follows,      \* GitHub: the bot follows the account
          answer        \* of the call, "none" while there is none

Answers == {"ok", "restricted", "error", "raised"}

Init == /\ follows \in BOOLEAN
        /\ answer = "none"

\* GitHub may apply the follow at any time, of this call or of another's.
Applied == follows' \in {follows, TRUE}

Work == /\ Applied
        /\ UNCHANGED answer

Answer == /\ answer = "none"
          /\ Applied
          /\ answer' \in Answers
          /\ answer' = "ok" => follows'

Again == /\ answer' = "none"
         /\ UNCHANGED follows

Next == Work \/ Answer \/ Again

Spec == Init /\ [][Next]_<<follows, answer>>

=============================================================================
