---------------------------- MODULE TaskExecutor ----------------------------
(***************************************************************************)
(* What a thread pool promises to its users: calls are started in the      *)
(* order in which they were accepted, each of them exactly once, and a     *)
(* worker always runs the function of a call with the argument of that     *)
(* same call.  This is the contract that http-server.c and                 *)
(* agent-client-manager.c rely on when they hand work to tdpl_call_func.   *)
(***************************************************************************)
EXTENDS Naturals, Sequences

CONSTANTS Workers,  \* the threads of the pool
          Jobs,     \* the (function, argument) pairs that users submit
          Eternal,  \* the jobs that never return (event loops, accept thread)
          Idle      \* what a worker runs when it runs nothing

VARIABLES submitted,  \* the accepted calls, in order
          claimed,    \* how many of them were handed to a worker
          exec        \* the call each worker runs

vars == <<submitted, claimed, exec>>

\* The call of job j: its function with its own argument.
Call(j) == [func |-> j, arg |-> j]

Init == /\ submitted = <<>>
        /\ claimed = 0
        /\ exec = [w \in Workers |-> Idle]

Submit(j) == /\ submitted' = Append(submitted, j)
             /\ UNCHANGED <<claimed, exec>>

Start(w) == /\ exec[w] = Idle
            /\ claimed < Len(submitted)
            /\ claimed' = claimed + 1
            /\ exec' = [exec EXCEPT ![w] = Call(submitted[claimed + 1])]
            /\ UNCHANGED submitted

Finish(w) == /\ exec[w] # Idle
             /\ exec' = [exec EXCEPT ![w] = Idle]
             /\ UNCHANGED <<submitted, claimed>>

Next == \/ \E j \in Jobs : Submit(j)
        \/ \E w \in Workers : Start(w) \/ Finish(w)

Fairness ==
    \A w \in Workers :
        /\ WF_vars(Start(w))
        /\ WF_vars(exec[w] \notin {Call(j) : j \in Eternal} /\ Finish(w))

SafeSpec == Init /\ [][Next]_vars
Spec == SafeSpec /\ Fairness
=============================================================================
