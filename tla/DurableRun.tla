----------------------------- MODULE DurableRun -----------------------------
(***************************************************************************)
(* What a recoverable workflow run promises to whoever reads its row, with  *)
(* no processes, locks, crashes or resumes: a run is begun once, bound to   *)
(* its inputs and operation versions for good; its steps are done one by    *)
(* one, each after the steps it depends on and each for good; it ends once, *)
(* as completed only when every step is done.  RecoverableWorkflow           *)
(* implements it.                                                           *)
(***************************************************************************)
CONSTANTS
    Runs, Steps, Deps,
    Bindings, NoBinding

VARIABLES
    outcome,   \* outcome[r]: "none", "open", "COMPLETED" or "FAILED"
    done,      \* done[r]: the steps that are done
    bound      \* bound[r]: what the run is bound to

vars == <<outcome, done, bound>>

Init ==
    /\ outcome = [r \in Runs |-> "none"]
    /\ done = [r \in Runs |-> {}]
    /\ bound = [r \in Runs |-> NoBinding]

Begin(r, binding) ==
    /\ outcome[r] = "none"
    /\ outcome' = [outcome EXCEPT ![r] = "open"]
    /\ bound' = [bound EXCEPT ![r] = binding]
    /\ UNCHANGED done

Finish(r, s) ==
    /\ outcome[r] = "open"
    /\ s \notin done[r] /\ Deps[s] \subseteq done[r]
    /\ done' = [done EXCEPT ![r] = @ \cup {s}]
    /\ UNCHANGED <<outcome, bound>>

End(r, result) ==
    /\ outcome[r] = "open"
    /\ result = "COMPLETED" => done[r] = Steps
    /\ outcome' = [outcome EXCEPT ![r] = result]
    /\ UNCHANGED <<done, bound>>

Next ==
    \E r \in Runs :
        \/ \E binding \in Bindings : Begin(r, binding)
        \/ \E s \in Steps : Finish(r, s)
        \/ \E result \in {"COMPLETED", "FAILED"} : End(r, result)

Spec == Init /\ [][Next]_vars
=============================================================================
