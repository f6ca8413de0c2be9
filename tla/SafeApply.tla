----------------------------- MODULE SafeApply -----------------------------
(***************************************************************************)
(* What the apply pipeline promises (README "Lockout safety"): the kernel  *)
(* leaves the ruleset in force only while a way back to it is armed, the   *)
(* way back is given up only by the operator's confirmation or once it has *)
(* been taken, and only the confirmation makes another ruleset the one in  *)
(* force.                                                                  *)
(***************************************************************************)
CONSTANT Rulesets   \* what the kernel may run

VARIABLES
    kernel,   \* the live ruleset
    good,     \* the ruleset in force: the last one the operator kept
    armed,    \* a way back to good is armed
    asked     \* the operator's confirmation is being carried out

vars == <<kernel, good, armed, asked>>

Init ==
    /\ kernel \in Rulesets
    /\ good = kernel
    /\ armed = FALSE
    /\ asked = FALSE

\* The way back is persisted first.
Arm ==
    /\ ~armed
    /\ armed' = TRUE
    /\ UNCHANGED <<kernel, good, asked>>

\* The ruleset on probation is loaded, or the ruleset in force restored.
Load ==
    /\ armed /\ ~asked
    /\ kernel' \in Rulesets
    /\ UNCHANGED <<good, armed, asked>>

\* The operator confirms; the process may still fail or die before it counts.
Ask ==
    /\ armed /\ ~asked
    /\ asked' = TRUE
    /\ UNCHANGED <<kernel, good, armed>>

Forget ==
    /\ asked
    /\ asked' = FALSE
    /\ UNCHANGED <<kernel, good, armed>>

Keep ==
    /\ asked
    /\ good' = kernel
    /\ armed' = FALSE
    /\ asked' = FALSE
    /\ UNCHANGED kernel

\* The way back is given up where it leads to.
StandDown ==
    /\ armed /\ ~asked
    /\ kernel = good
    /\ armed' = FALSE
    /\ UNCHANGED <<kernel, good, asked>>

Next == Arm \/ Load \/ Ask \/ Forget \/ Keep \/ StandDown

Spec == Init /\ [][Next]_vars
=============================================================================
