------------------------------- MODULE Delivery -------------------------------
(***************************************************************************)
(* What the queue adapters promise for a job that is published: there is   *)
(* one copy of it until it is completed or dead-lettered, unless somebody  *)
(* keeps a message for longer than its visibility timeout; no copy         *)
(* vanishes, and an accident (a client that dies, a smoke test on the      *)
(* queue in use) costs at most one job.                                    *)
(***************************************************************************)
EXTENDS Integers, FiniteSets

CONSTANT Jobs

VARIABLES published,    \* jobs
          copies,       \* messages of each job that may still be worked on
          fate,         \* how copies of the job ended
          accidents,    \* number so far
          overrun       \* a visibility timeout was overrun

vars == <<published, copies, fate, accidents, overrun>>

Ends == {"completed", "dead", "lost"}

Lost == {j \in Jobs : "lost" \in fate[j]}

Init == /\ published = {}
        /\ copies = [j \in Jobs |-> 0]
        /\ fate = [j \in Jobs |-> {}]
        /\ accidents = 0
        /\ overrun = FALSE

Publish(j) == /\ j \notin published
              /\ published' = published \cup {j}
              /\ copies' = [copies EXCEPT ![j] = 1]
              /\ UNCHANGED <<fate, accidents, overrun>>

\* One copy is taken away; an overrun may take others with it, since the receipt
\* of one consumer may delete the message of another.
Drop(j) == \E left \in 0..(copies[j] - 1) :
             /\ overrun \/ left = copies[j] - 1
             /\ copies' = [copies EXCEPT ![j] = left]

\* The job is completed or dead-lettered.
Settle(j, end) == /\ Drop(j)
                  /\ fate' = [fate EXCEPT ![j] = @ \cup {end}]
                  /\ UNCHANGED <<published, accidents, overrun>>

\* An accident may lose a job, then or later.
Accident == /\ accidents' = accidents + 1
            /\ UNCHANGED <<published, copies, fate, overrun>>

Lose(j) == /\ Drop(j)
           /\ fate' = [fate EXCEPT ![j] = @ \cup {"lost"}]
           /\ accidents' \in {accidents, accidents + 1}
           /\ Cardinality(Lost \cup {j}) <= accidents'
           /\ UNCHANGED <<published, overrun>>

\* A visibility timeout ends while the consumer is still at work.
Overrun(j) == /\ copies[j] > 0
              /\ copies' = [copies EXCEPT ![j] = @ + 1]
              /\ overrun' = TRUE
              /\ UNCHANGED <<published, fate, accidents>>

\* A copy that is one too many goes, with its consumer or without.
Withdraw(j) == /\ overrun
               /\ Drop(j)
               /\ copies'[j] > 0 \/ fate[j] # {}
               /\ accidents' \in {accidents, accidents + 1}
               /\ UNCHANGED <<published, fate, overrun>>

Next == \/ Accident
        \/ \E j \in Jobs : \/ Publish(j) \/ Overrun(j) \/ Lose(j) \/ Withdraw(j)
                           \/ \E end \in {"completed", "dead"} : Settle(j, end)

Spec == Init /\ [][Next]_vars

-----------------------------------------------------------------------------

\* Nothing vanishes: a published job has a copy left or came to an end.
NothingVanishes == \A j \in published : copies[j] > 0 \/ fate[j] # {}

\* Without an overrun a job is in one place at a time and ends once.
AtMostOnce == ~overrun => \A j \in Jobs : copies[j] + Cardinality(fate[j]) <= 1

\* An accident costs at most one job.
LossesAreAccidents == Cardinality(Lost) <= accidents

=============================================================================
