------------------------------- MODULE JobGate -------------------------------
(***************************************************************************)
(* What a shell with a handle table promises for a job (the docstrings of  *)
(* dau_build/scan_composition.py around generate_shell_handle_table_v): a  *)
(* job names an allocation, and the handle, generation and length it was   *)
(* submitted with are judged ONCE, against the allocations as they are at  *)
(* that moment.  It then reads exactly the region it was granted, or it is *)
(* refused and reads nothing.                                              *)
(*                                                                         *)
(* Allocations come and go in the same step in which a job is judged,      *)
(* launched or finished, so the specification is a conjunction of two      *)
(* independent next-state relations.                                       *)
(***************************************************************************)
EXTENDS Integers

CONSTANTS
    Capacity,       \* number of handles
    Grid,           \* the row grid a job's length must lie on
    Word            \* the values of a register

VARIABLES
    grants,         \* the allocation behind every handle
    request,        \* the job that is submitted and not judged yet
    verdict,        \* the judgement of the job that is not launched yet
    reads           \* the region the running job reads

jobVars == <<request, verdict, reads>>

Slots == 0 .. Capacity - 1

Outcome(kind, base, length) == [kind |-> kind, base |-> base, length |-> length]

None           == Outcome("none", 0, 0)
Region(b, l)   == Outcome("go", b, l)
Refusal(code)  == Outcome(code, 0, 0)

Request(id, gen, length) ==
    [asked |-> TRUE, id |-> id, generation |-> gen, length |-> length]

NoRequest == [asked |-> FALSE, id |-> 0, generation |-> 0, length |-> 0]

NoGrant == [held |-> FALSE, base |-> 0, length |-> 0, generation |-> 0]

OnGrid(length) == length # 0 /\ length % Grid = 0

\* The judgement of a job that asks for length bytes of generation gen of handle id.
Judgement(id, gen, length) ==
    IF ~OnGrid(length) THEN Refusal("off grid")
    ELSE IF id \notin Slots THEN Refusal("bad id")
    ELSE IF ~grants[id].held \/ grants[id].generation # gen THEN Refusal("stale")
    ELSE IF length > grants[id].length THEN Refusal("out of bounds")
    ELSE Region(grants[id].base, length)

\* The allocator installs or frees one handle, or the whole table is reset.
Allocate ==
    \/ \E i \in Slots, b, l, g \in Word :
          grants' = [grants EXCEPT ![i] = [held |-> TRUE, base |-> b, length |-> l,
                                           generation |-> g]]
    \/ \E i \in Slots : grants' = [grants EXCEPT ![i] = NoGrant]
    \/ grants' = [i \in Slots |-> NoGrant]

\* The host submits one job at a time; the refusal of the last one stands
\* until the new one is judged.
Submit ==
    /\ request = NoRequest
    /\ verdict.kind # "go"
    /\ reads = None
    /\ \E id, gen, length \in Word : request' = Request(id, gen, length)
    /\ UNCHANGED <<verdict, reads>>

Judge ==
    /\ request.asked
    /\ reads = None
    /\ verdict' = Judgement(request.id, request.generation, request.length)
    /\ request' = NoRequest
    /\ UNCHANGED reads

Launch ==
    /\ verdict.kind = "go"
    /\ reads = None
    /\ reads' = verdict
    /\ verdict' = None
    /\ UNCHANGED request

Finish ==
    /\ reads # None
    /\ reads' = None
    /\ UNCHANGED <<request, verdict>>

\* Nothing of a job is left after a reset, and no allocation either.
Abort ==
    /\ request' = NoRequest /\ verdict' = None /\ reads' = None
    /\ grants' = [i \in Slots |-> NoGrant]

Init ==
    /\ grants = [i \in Slots |-> NoGrant]
    /\ request = NoRequest
    /\ verdict = None
    /\ reads = None

Spec ==
    /\ Init
    /\ [][Allocate]_grants
    /\ [][Submit \/ Judge \/ Launch \/ Finish \/ Abort]_jobVars
==============================================================================
