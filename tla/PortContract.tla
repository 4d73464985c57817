----------------------------- MODULE PortContract -----------------------------
(***************************************************************************)
(* What a caller of a port may rely on, whatever the network does.  A call *)
(* that returns was executed.  A call that raises may have been executed   *)
(* too, and a request can be executed long after its call is over, but     *)
(* those of no more tries than the port is allowed.                        *)
(***************************************************************************)
EXTENDS Naturals

CONSTANTS Calls

VARIABLES
    phase,      \* per call: idle, open, returned or raised
    applied,    \* how many of its tries the upstream has executed
    limit       \* how many it may have

contractVars == <<phase, applied, limit>>

ContractInit ==
    /\ phase = [c \in Calls |-> "idle"]
    /\ applied = [c \in Calls |-> 0]
    /\ limit \in [Calls -> Nat \ {0}]

Issue(c) ==
    /\ phase[c] = "idle"
    /\ phase' = [phase EXCEPT ![c] = "open"]
    /\ UNCHANGED <<applied, limit>>

Execute(c) ==
    /\ phase[c] # "idle"
    /\ applied[c] < limit[c]
    /\ applied' = [applied EXCEPT ![c] = @ + 1]

\* The call is over, with an execution of its last try or without one.
End(c, outcome) ==
    /\ phase[c] = "open"
    /\ phase' = [phase EXCEPT ![c] = outcome]
    /\ Execute(c) \/ applied' = applied
    /\ outcome = "returned" => applied'[c] > 0
    /\ UNCHANGED limit

ContractNext ==
    \E c \in Calls :
        \/ Issue(c)
        \/ Execute(c) /\ UNCHANGED <<phase, limit>>
        \/ \E outcome \in {"returned", "raised"} : End(c, outcome)

ContractSpec == ContractInit /\ [][ContractNext]_contractVars
=============================================================================
