------------------------------- MODULE BuildRoot -------------------------------
(***************************************************************************)
(* The directory a Vivado build leaves its results in and a flash takes    *)
(* them from: the bitstream, and the packaged manifest with its digest     *)
(* (dau_build/shell_build.py, the flash task of dau_build/build_steps.py). *)
(*                                                                         *)
(* A task is a sequence of steps, each of which succeeds, or fails and     *)
(* ends the task; a task that is killed in a step has failed in it.  Tasks *)
(* of one directory are not kept apart.                                    *)
(***************************************************************************)
EXTENDS Naturals, Sequences

CONSTANTS
    Versions,   \* what a build may be asked for
    NoDesign,   \* the design of a project that holds none of them
    NoFile,     \* the content of a file that does not exist
    Empty,      \* of one whose writer was stopped behind the truncation
    Slots,      \* the tasks that may run side by side
    MaxBuilds   \* bound on the builds that reach synthesis

ASSUME RootAssumption ==
    /\ NoDesign \notin Versions
    /\ NoFile # Empty
    /\ MaxBuilds \in Nat

VARIABLES
    builds,     \* the builds so far: what each one was of, whether it got to
                \* its end, whether it was clean: nobody built behind a staging
                \* that failed, or edited the sources meanwhile
    bitstream,  \* the build whose bytes the bitstream file holds, 0 without one
    packaged,   \* the packaged manifest
    task        \* per slot: the steps still to come, the version asked for, the
                \* build that is running

rootVars == <<builds, bitstream, packaged, task>>

Designs == Versions \union {NoDesign}

Idle == [steps |-> <<>>, of |-> NoDesign, build |-> 0]

\* The tasks of a directory take turns: what the proofs assume, and what
\* whoever runs them has to see to.
OneTask == \A s, t \in Slots : s = t

AtStep(s, name) == task[s].steps # <<>> /\ Head(task[s].steps) = name

Start(s, steps, version) ==
    /\ task[s] = Idle
    /\ task' = [task EXCEPT ![s] = [steps |-> steps, of |-> version, build |-> 0]]

\* The step is done, or the task is over.
GoesOn(s) ==
    LET rest == Tail(task[s].steps) IN
    task' = [task EXCEPT ![s] = IF rest = <<>> THEN Idle ELSE [task[s] EXCEPT !.steps = rest]]
Fails(s) == task' = [task EXCEPT ![s] = Idle]

\* What a file may hold behind a write that failed.
Torn(old, new) == {old, Empty, new}

\* A build reaches synthesis, with the sources as they are.
Synthesises(s, of, clean) ==
    /\ Len(builds) < MaxBuilds
    /\ builds' = Append(builds, [of |-> of, built |-> FALSE, clean |-> clean])
    /\ task' = [task EXCEPT ![s] =
         [steps |-> Tail(task[s].steps), of |-> task[s].of, build |-> Len(builds) + 1]]

IsBuilt(s) == builds' = [builds EXCEPT ![task[s].build].built = TRUE]

\* The manifest of the bitstream as it is on disk now.
Packaged(of) == [of |-> of, digest |-> bitstream]

\* A mutant: the digest is not compared.
FlashesByName == packaged \notin {NoFile, Empty} /\ bitstream # 0

\* The flash task, given the packaged manifest: the file it names must have
\* the digest that was recorded.
FlashAccepts ==
    /\ packaged \notin {NoFile, Empty}
    /\ bitstream # 0
    /\ packaged.digest = bitstream

RootInit ==
    /\ builds = <<>>
    /\ bitstream = 0
    /\ packaged = NoFile
    /\ task = [s \in Slots |-> Idle]
================================================================================
