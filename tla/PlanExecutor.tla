---------------------------- MODULE PlanExecutor -----------------------------
(***************************************************************************)
(* execute_plan_steps: the runs an operator starts on one host, the        *)
(* advisory lock that serializes them per device, and the sequence of step *)
(* processes each of them spawns.                                          *)
(*                                                                         *)
(* A run is one dau-build process.  A step is a child process of it, so a  *)
(* run that is killed from outside leaves its step behind, and one that is *)
(* interrupted may: descriptors are not inherited by children, so the lock *)
(* goes with the run, whatever its step does.                              *)
(***************************************************************************)
EXTENDS HardwarePlans

CONSTANTS
    Runs,        \* the dau-build processes
    NoRun,       \* nobody holds the lock
    Requests     \* the requests the runs are started with

ASSUME ExecutorAssumption ==
    /\ NoRun \notin Runs
    /\ \A q \in Requests : WellFormed(q)

VARIABLES
    request,     \* what each run was started with
    status,      \* where each run is
    pc,          \* index of the step a run is at
    failedAt,    \* index of the step that failed, 0 when none has
    child,       \* whether a step process of the run is alive
    attempted,   \* the indices of the steps a run has started
    succeeded,   \* the indices of the steps that exited with 0
    flock        \* lock path -> the run that holds it

runVars == <<request, status, pc, failedAt, child, attempted, succeeded>>
vars    == <<request, status, pc, failedAt, child, attempted, succeeded, flock>>

Steps(r) == compose(request[r])
Keyed(r) == request[r].bdf # NoBdf

(* A mutant: the lock file keyed on the BDF as spelled. *)
PathAsSpelled(bdf) == bdf

(* The lock file's name: the BDF, lower-cased. *)
device_lock_path(bdf) == Lower[bdf]

(* Between LOCK_EX and LOCK_UN, or inside _run_plan_steps without a lock. *)
Critical(r) == status[r] \in {"running", "cleanup"}
Live(r)     == Critical(r) \/ status[r] = "blocked"
Ended(r)    == status[r] \in {"done", "failed", "refused", "killed"}

(* A mutant: LOCK_UN forgotten. *)
NeverUnlocked(r) == flock

(* LOCK_UN in the finally clause, or by the kernel. *)
Unlocked(r) ==
    IF Keyed(r) /\ Critical(r)
    THEN [flock EXCEPT ![device_lock_path(request[r].bdf)] = NoRun]
    ELSE flock

-----------------------------------------------------------------------------
Init ==
    /\ request \in [Runs -> Requests]
    /\ status    = [r \in Runs |-> "idle"]
    /\ pc        = [r \in Runs |-> 1]
    /\ failedAt  = [r \in Runs |-> 0]
    /\ child     = [r \in Runs |-> FALSE]
    /\ attempted = [r \in Runs |-> {}]
    /\ succeeded = [r \in Runs |-> {}]
    /\ flock     = [s \in Spellings |-> NoRun]

(* compose raises, the platform is a placeholder, or an executable a step  *)
(* needs is missing: an error before the lock and before any step.         *)
Refuse(r) ==
    /\ status[r] = "idle"
    /\ status' = [status EXCEPT ![r] = "refused"]
    /\ UNCHANGED <<request, pc, failedAt, child, attempted, succeeded, flock>>

(* A composed plan whose executables resolve goes for the device lock, or  *)
(* straight to its steps when it was given no device.                      *)
Invoke(r) ==
    /\ status[r] = "idle"
    /\ Composable(request[r])
    /\ status' = [status EXCEPT ![r] = IF Keyed(r) THEN "blocked" ELSE "running"]
    /\ UNCHANGED <<request, pc, failedAt, child, attempted, succeeded, flock>>

(* fcntl.flock(fd, LOCK_EX) returns. *)
Acquire(r) ==
    /\ status[r] = "blocked"
    /\ flock[device_lock_path(request[r].bdf)] = NoRun
    /\ flock' = [flock EXCEPT ![device_lock_path(request[r].bdf)] = r]
    /\ status' = [status EXCEPT ![r] = "running"]
    /\ UNCHANGED <<request, pc, failedAt, child, attempted, succeeded>>

(* Mutants: no cleanup pass, and one that runs every remaining step. *)
ExecutesPlanOnly(r) == status[r] = "running"

ExecutesEverything(r) == Critical(r)

(* Does the loop the run is in execute the step it is at?  The plan loop   *)
(* executes every step, the cleanup loop only the release steps.           *)
Executes(r) ==
    \/ status[r] = "running"
    \/ status[r] = "cleanup" /\ IsRelease(Steps(r)[pc[r]])

StartStep(r) ==
    /\ Critical(r)
    /\ ~child[r]
    /\ pc[r] <= Len(Steps(r))
    /\ Executes(r)
    /\ child' = [child EXCEPT ![r] = TRUE]
    /\ attempted' = [attempted EXCEPT ![r] = @ \cup {pc[r]}]
    /\ UNCHANGED <<request, status, pc, failedAt, succeeded, flock>>

(* A mutant: the cleanup loop walks back. *)
SkipStepBack(r) ==
    /\ status[r] = "cleanup"
    /\ ~child[r]
    /\ pc[r] <= Len(Steps(r))
    /\ ~Executes(r)
    /\ pc' = [pc EXCEPT ![r] = @ - 1]
    /\ UNCHANGED <<request, status, failedAt, child, attempted, succeeded, flock>>

(* The cleanup loop passes over a step that is not a release step. *)
SkipStep(r) ==
    /\ status[r] = "cleanup"
    /\ ~child[r]
    /\ pc[r] <= Len(Steps(r))
    /\ ~Executes(r)
    /\ pc' = [pc EXCEPT ![r] = @ + 1]
    /\ UNCHANGED <<request, status, failedAt, child, attempted, succeeded, flock>>

StepSucceeds(r) ==
    /\ status[r] = "running"
    /\ child[r]
    /\ child' = [child EXCEPT ![r] = FALSE]
    /\ succeeded' = [succeeded EXCEPT ![r] = @ \cup {pc[r]}]
    /\ pc' = [pc EXCEPT ![r] = @ + 1]
    /\ UNCHANGED <<request, status, failedAt, attempted, flock>>

(* The first failing step ends the plan loop; steps[index + 1 :] go to the *)
(* cleanup loop.                                                           *)
StepFails(r) ==
    /\ status[r] = "running"
    /\ child[r]
    /\ child' = [child EXCEPT ![r] = FALSE]
    /\ failedAt' = [failedAt EXCEPT ![r] = pc[r]]
    /\ pc' = [pc EXCEPT ![r] = @ + 1]
    /\ status' = [status EXCEPT ![r] = "cleanup"]
    /\ UNCHANGED <<request, attempted, succeeded, flock>>

(* A cleanup step's exit code is ignored. *)
CleanupStepEnds(r, ok) ==
    /\ status[r] = "cleanup"
    /\ child[r]
    /\ child' = [child EXCEPT ![r] = FALSE]
    /\ succeeded' = [succeeded EXCEPT ![r] = IF ok THEN @ \cup {pc[r]} ELSE @]
    /\ pc' = [pc EXCEPT ![r] = @ + 1]
    /\ UNCHANGED <<request, status, failedAt, attempted, flock>>

Return(r) ==
    /\ Critical(r)
    /\ ~child[r]
    /\ pc[r] > Len(Steps(r))
    /\ status' = [status EXCEPT ![r] =
                     IF @ = "running" THEN "done" ELSE "failed"]
    /\ flock' = Unlocked(r)
    /\ UNCHANGED <<request, pc, failedAt, child, attempted, succeeded>>

(* Ctrl-C, or a kill of the run alone: the finally clauses or the kernel   *)
(* unlock, and no cleanup step runs.  On Ctrl-C subprocess.run kills the   *)
(* process it started and waits for it a moment only, so a step hung in    *)
(* the kernel, run by sudo, or forked by the step's script lives on; after *)
(* a kill every step does.                                                 *)
Interrupt(r) ==
    /\ Live(r)
    /\ status' = [status EXCEPT ![r] = "killed"]
    /\ child' \in {child, [child EXCEPT ![r] = FALSE]}
    /\ flock' = Unlocked(r)
    /\ UNCHANGED <<request, pc, failedAt, attempted, succeeded>>

OrphanEnds(r) ==
    /\ status[r] = "killed"
    /\ child[r]
    /\ child' = [child EXCEPT ![r] = FALSE]
    /\ UNCHANGED <<request, status, pc, failedAt, attempted, succeeded, flock>>

(* The host goes down: no process and no lock survives it. *)
Reboot ==
    /\ status' = [r \in Runs |-> IF Live(r) THEN "killed" ELSE status[r]]
    /\ child'  = [r \in Runs |-> FALSE]
    /\ flock'  = [s \in Spellings |-> NoRun]
    /\ UNCHANGED <<request, pc, failedAt, attempted, succeeded>>

Step(r) ==
    \/ Refuse(r) \/ Invoke(r) \/ Acquire(r)
    \/ StartStep(r) \/ SkipStep(r)
    \/ StepSucceeds(r) \/ StepFails(r)
    \/ CleanupStepEnds(r, TRUE) \/ CleanupStepEnds(r, FALSE)
    \/ Return(r) \/ Interrupt(r) \/ OrphanEnds(r)

Next == Reboot \/ \E r \in Runs : Step(r)

Spec == Init /\ [][Next]_vars

(* What the operating system owes a run: a step that was spawned exits, a  *)
(* free lock is granted to a waiter, and the interpreter runs on.  Nobody  *)
(* has to start, interrupt or kill a run.                                  *)
Progress(r) ==
    \/ Acquire(r) \/ StartStep(r) \/ SkipStep(r)
    \/ StepSucceeds(r) \/ StepFails(r)
    \/ CleanupStepEnds(r, TRUE) \/ CleanupStepEnds(r, FALSE) \/ Return(r)

FairSpec == Spec /\ \A r \in Runs : WF_vars(Progress(r))

-----------------------------------------------------------------------------
(* Every variable has its type, and the indices stay inside the plan. *)
TypeOK ==
    /\ request \in [Runs -> Requests]
    /\ status \in [Runs -> {"idle", "blocked", "running", "cleanup", "done",
                            "failed", "refused", "killed"}]
    /\ pc \in [Runs -> Nat \ {0}]
    /\ failedAt \in [Runs -> Nat]
    /\ child \in [Runs -> BOOLEAN]
    /\ attempted \in [Runs -> SUBSET Nat]
    /\ succeeded \in [Runs -> SUBSET Nat]
    /\ flock \in [Spellings -> Runs \cup {NoRun}]

SameBoard(r, s) == Keyed(r) /\ Keyed(s) /\ request[r].board = request[s].board

(* "No two plan runs may remove, reset or program the same endpoint at     *)
(* once" (execute_plan_steps): of the runs given a device, however they    *)
(* spell it, one at a time is inside its plan.                             *)
RunExclusion ==
    \A r, s \in Runs :
        SameBoard(r, s) /\ Critical(r) /\ Critical(s) => r = s

(* The same claim about what touches the board, the step processes.        *)
StepExclusion ==
    \A r, s \in Runs : SameBoard(r, s) /\ child[r] /\ child[s] => r = s

(* Two step processes meet on one board only when one of them outlived a   *)
(* run that was interrupted or killed: of the runs that still wait for     *)
(* their steps, one at a time works on a board.                            *)
OverlapNeedsOrphan ==
    \A r, s \in Runs :
        SameBoard(r, s) /\ child[r] /\ child[s] /\ r # s =>
            status[r] = "killed" \/ status[s] = "killed"

(* A step other than a release starts only after every step before it has  *)
(* succeeded: nothing is programmed, rescanned or disarmed past a failure. *)
StepsNeedTheirPrefix ==
    \A r \in Runs : \A i \in attempted[r] :
        IsRelease(Steps(r)[i]) \/ 1 .. (i - 1) \subseteq succeeded[r]

(* "If any step fails, the release step still runs": a run that returns an *)
(* error started every release step behind the one that failed, and of the *)
(* steps behind it nothing else.                                           *)
FailedRunReleases ==
    \A r \in Runs : status[r] = "failed" =>
        \A i \in (failedAt[r] + 1) .. Len(Steps(r)) :
            IsRelease(Steps(r)[i]) <=> i \in attempted[r]

(* A run that waits for a device, or is at work on one, ends. *)
EveryRunEnds == \A r \in Runs : Live(r) ~> Ended(r)

-----------------------------------------------------------------------------
(* The executor implements BoardOwnership: a run owns its board while it   *)
(* is critical on it, and touches it while its step process is alive.      *)
Owners == [b \in Boards |-> {r \in Runs : /\ Keyed(r)
                                         /\ Critical(r)
                                         /\ request[r].board = b}]
Touching == {r \in Runs : Keyed(r) /\ Critical(r) /\ child[r]}

Ownership == INSTANCE BoardOwnership WITH owners <- Owners, touching <- Touching

(* A keyed run claims its board only when no other owns it, touches it     *)
(* only as its owner, and gives it up however it ends.                     *)
ExclusiveBoard == Ownership!Spec
=============================================================================
