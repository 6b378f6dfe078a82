------------------------------ MODULE MCShellJob ------------------------------
(***************************************************************************)
(* Model values for ShellJob.  Lengths are in words: the grid is 2, and 1  *)
(* is the length off it.  The allocations: generation 1 and 2 of slot 0,   *)
(* of different sizes at different bases, and one for an index that is out *)
(* of a one-entry table.                                                   *)
(***************************************************************************)
EXTENDS ShellJob

EntryOf(i, b, l, g) == [index |-> i, base |-> b, length |-> l, generation |-> g]
JobOf(a, l, i, g) == [address |-> a, length |-> l, id |-> i, generation |-> g]

Words == 0 .. 4

TwoGenerations == {EntryOf(0, 1, 4, 1), EntryOf(0, 2, 2, 2), EntryOf(1, 3, 2, 1)}

NoEntries == {}

OneEntry == {EntryOf(0, 1, 2, 1)}

\* on and off the grid, with good, stale, unissued and unknown handles
HandleJobs ==
    {JobOf(4, l, 0, g) : l \in {2, 4}, g \in {1, 2}}
      \union {JobOf(4, 1, 0, 1), JobOf(4, 2, 0, 0), JobOf(4, 2, 1, 1)}

GoodHandleJobs == {JobOf(4, 1, 0, 1), JobOf(4, 2, 0, 1), JobOf(4, 4, 0, 1)}

AddressJobs == {JobOf(3, 2, 0, 0), JobOf(3, 1, 0, 0)}
==============================================================================
