----------------------------- MODULE HandleTable -----------------------------
(***************************************************************************)
(* The shell's handle table, dau_shell_handle_table                        *)
(* (dau_build/scan_composition.py, generate_shell_handle_table_v):         *)
(* Capacity entries, one of them installed or freed per clock, and one     *)
(* lookup per clock whose answer is registered, so it is out a clock after *)
(* the question.  Ids, addresses, lengths and generations are members of   *)
(* Word: the table only compares and copies them.                          *)
(***************************************************************************)
EXTENDS Integers

CONSTANTS
    Capacity,       \* number of entries; 0 stands for a shell without a table
    Word            \* the values of a register

ASSUME TableAssumption ==
    /\ Capacity \in Nat
    /\ Word \subseteq Nat
    /\ 0 \in Word

VARIABLES
    entry,          \* entry_live, entry_base, entry_length, entry_generation
    resolve         \* the registered answer: resolve_done, _fault, _fault_code, _base

tableVars == <<entry, resolve>>

Slots == 0 .. Capacity - 1

Entry == [live : BOOLEAN, base : Word, length : Word, generation : Word]

FaultCodes == {"bad id", "stale", "out of bounds"}

Answer == [done : BOOLEAN, code : FaultCodes \union {"none"}, base : Word]

TableTypeOK ==
    /\ entry \in [Slots -> Entry]
    /\ resolve \in Answer

NoAnswer == [done |-> FALSE, code |-> "none", base |-> 0]

\* Power-up.  The registers behind a live bit that is down are never used
\* in an answer without a fault, so one value stands for all of them.
TableInit ==
    /\ entry = [i \in Slots |-> [live |-> FALSE, base |-> 0, length |-> 0, generation |-> 0]]
    /\ resolve = NoAnswer

\* Only the live bits reset.
TableReset ==
    /\ entry' = [i \in Slots |-> [entry[i] EXCEPT !.live = FALSE]]
    /\ resolve' = NoAnswer

\* One clock of the programming port.  A free outranks an install.
Program(install, free, index, base, length, generation) ==
    entry' =
      IF index \notin Slots THEN entry
      ELSE IF free THEN [entry EXCEPT ![index].live = FALSE]
      ELSE IF install THEN
        [entry EXCEPT ![index] = [live |-> TRUE, base |-> base, length |-> length,
                                  generation |-> generation]]
      ELSE entry

\* Mutated: a slot that was handed out again answers its old handle.
FaultIgnoresGeneration(id, generation, length) ==
    IF id \notin Slots THEN "bad id"
    ELSE IF ~entry[id].live THEN "stale"
    ELSE IF length > entry[id].length THEN "out of bounds"
    ELSE "none"

\* Mutated: the bounds fault answers with the length gate's code.
FaultBorrowsCode(id, generation, length) ==
    IF id \notin Slots THEN "bad id"
    ELSE IF ~entry[id].live \/ entry[id].generation # generation THEN "stale"
    ELSE IF length > entry[id].length THEN "off grid"
    ELSE "none"

\* The fault of a lookup, "none" when the handle is good for length.
Fault(id, generation, length) ==
    IF id \notin Slots THEN "bad id"
    ELSE IF ~entry[id].live THEN "stale"
    ELSE IF entry[id].generation # generation THEN "stale"
    ELSE IF length > entry[id].length THEN "out of bounds"
    ELSE "none"

\* The slot that is read: an id out of range reads slot 0.
ResolveSlot(id) == IF id \in Slots THEN id ELSE 0

\* One clock of the resolve port.  The lookup is made on every clock, from
\* the entries before this clock's programming; only done tells that it was
\* asked for.
Resolve(request, id, generation, length) ==
    resolve' = [done |-> request,
                code |-> Fault(id, generation, length),
                base |-> entry[ResolveSlot(id)].base]

TableClock(install, free, staged, request, job) ==
    /\ Program(install, free, staged.index, staged.base, staged.length, staged.generation)
    /\ Resolve(request, job.id, job.generation, job.length)
==============================================================================
