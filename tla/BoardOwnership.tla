--------------------------- MODULE BoardOwnership ----------------------------
(***************************************************************************)
(* What the device lock promises, and all it promises: a board is one      *)
(* exclusive resource.  A run claims a free board, touches it only while   *)
(* it owns it, and gives it up, in the middle of a touch if need be.       *)
(***************************************************************************)
CONSTANTS Boards, Runs

VARIABLES
    owners,      \* board -> the runs that own it, one at most
    touching     \* the owning runs with a step at work on their board

vars == <<owners, touching>>

Init ==
    /\ owners = [b \in Boards |-> {}]
    /\ touching = {}

Claim(r, b) ==
    /\ owners[b] = {}
    /\ owners' = [owners EXCEPT ![b] = {r}]
    /\ UNCHANGED touching

Touch(r, b) ==
    /\ owners[b] = {r}
    /\ touching' = touching \cup {r}
    /\ UNCHANGED owners

Leave(r) ==
    /\ r \in touching
    /\ touching' = touching \ {r}
    /\ UNCHANGED owners

Yield(r, b) ==
    /\ owners[b] = {r}
    /\ owners' = [owners EXCEPT ![b] = {}]
    /\ touching' = touching \ {r}

PowerOff ==
    /\ owners' = [b \in Boards |-> {}]
    /\ touching' = {}

Next ==
    \/ \E r \in Runs : Leave(r) \/ \E b \in Boards :
           Claim(r, b) \/ Touch(r, b) \/ Yield(r, b)
    \/ PowerOff

Spec == Init /\ [][Next]_vars
=============================================================================
