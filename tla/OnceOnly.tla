------------------------------- MODULE OnceOnly -------------------------------
(***************************************************************************)
(* The promise every durable request of the system makes, whatever it asks  *)
(* for (an entry, a partial exit, the reduction of one leg, an owner's       *)
(* command): its effect happens at most once, an answer is final, DONE is    *)
(* said only of an effect that happened and REFUSED only of one that never   *)
(* will.  The effect and the answer are separate steps and an answer may     *)
(* never come: that is what a crash, a timeout or a lost reply leaves.       *)
(***************************************************************************)
EXTENDS Naturals

CONSTANT Requests

VARIABLES
    taken,     \* how many times the effect of each request has happened
    answer     \* what was finally said of each request

OnceInit ==
    /\ taken = [r \in Requests |-> 0]
    /\ answer = [r \in Requests |-> "none"]

\* The effect, while nothing was said of the request.
Take(r) ==
    /\ taken[r] = 0
    /\ answer[r] = "none"
    /\ taken' = [taken EXCEPT ![r] = 1]
    /\ UNCHANGED answer

\* The final answer.
Answer(r) ==
    /\ answer[r] = "none"
    /\ \E a \in {"done", "refused"} :
         /\ a = "done" <=> taken[r] = 1
         /\ answer' = [answer EXCEPT ![r] = a]
    /\ UNCHANGED taken

OnceNext == \E r \in Requests : Take(r) \/ Answer(r)

OnceSpec == OnceInit /\ [][OnceNext]_<<taken, answer>>
=============================================================================
