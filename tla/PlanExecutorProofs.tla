------------------------- MODULE PlanExecutorProofs --------------------------
(* The safety of the plan executor, for any set of runs, requests, boards  *)
(* and spellings.                                                          *)
EXTENDS PlanExecutor, TLAPS

(* Leaving out optional steps keeps a sequence a sequence. *)
LEMMA WhenIsSequence ==
    ASSUME NEW condition, NEW S, NEW s \in Seq(S)
    PROVE  When(condition, s) \in Seq(S)
<1>1. << >> \in Seq(S)
  OBVIOUS
<1>2. CASE condition
  BY <1>2 DEF When
<1>3. CASE ~condition
  BY <1>1, <1>3 DEF When
<1>4. QED
  BY <1>2, <1>3

(* Every plan is a sequence of the known steps, so it has a length. *)
LEMMA PlanIsSequence ==
    ASSUME NEW q \in Request
    PROVE  compose(q) \in Seq(StepNames)
<1>1. detect_steps(q) \in Seq(StepNames)
  <2>1. <<"jtag-detect">> \in Seq(StepNames)
    BY DEF StepNames
  <2>2. QED
    BY <2>1, WhenIsSequence DEF detect_steps
<1>2. ProgramAndRelease(q) \in Seq(StepNames)
  <2>1. <<"remove-endpoint", "program-volatile", "pci-rescan",
          "lspci-endpoint">> \in Seq(StepNames)
    BY DEF StepNames
  <2>2. <<"driver-hardware-smoke">> \in Seq(StepNames)
    BY DEF StepNames
  <2>3. When(q.probe, <<"driver-hardware-smoke">>) \in Seq(StepNames)
    BY <2>2, WhenIsSequence
  <2>4. <<"thunderbolt-release">> \in Seq(StepNames)
    BY DEF StepNames
  <2>5. QED
    BY <1>1, <2>1, <2>3, <2>4 DEF ProgramAndRelease
<1>3. build_and_program_plan(q) \in Seq(StepNames)
  <2>1. <<"thunderbolt-hold", "vivado-build">> \in Seq(StepNames)
    BY DEF StepNames
  <2>2. <<"program-volatile", "pci-rescan", "lspci-endpoint">>
            \in Seq(StepNames)
    BY DEF StepNames
  <2>3. QED
    BY <1>1, <2>1, <2>2 DEF build_and_program_plan
<1>4. recovery_plan(q) \in Seq(StepNames)
  BY DEF recovery_plan, StepNames
<1>5. <<"thunderbolt-hold">> \in Seq(StepNames)
  BY DEF StepNames
<1>6. <<"thunderbolt-release">> \in Seq(StepNames)
  BY DEF StepNames
<1>7. validate_bitstream_plan(q) \in Seq(StepNames)
  BY <1>2, <1>5 DEF validate_bitstream_plan
<1>8. local_build_and_program_plan(q) \in Seq(StepNames)
  <2>1. <<"stage-shell">> \in Seq(StepNames)
    BY DEF StepNames
  <2>2. <<"thunderbolt-hold", "write-dau-overlay",
          "write-vivado-build-script">> \in Seq(StepNames)
    BY DEF StepNames
  <2>3. <<"write-vivado-driver-script",
          "write-vivado-driver-script">> \in Seq(StepNames)
    BY DEF StepNames
  <2>4. <<"vivado-overlay-build">> \in Seq(StepNames)
    BY DEF StepNames
  <2>5. /\ When(q.stage, <<"stage-shell">>) \in Seq(StepNames)
        /\ When(q.drivers, <<"write-vivado-driver-script",
                             "write-vivado-driver-script">>) \in Seq(StepNames)
    BY <2>1, <2>3, WhenIsSequence
  <2>6. QED
    BY <1>2, <2>2, <2>4, <2>5 DEF local_build_and_program_plan
<1>9. flash_plan(q) \in Seq(StepNames)
  <2>1. flash_step(q) \in StepNames
    BY DEF flash_step, StepNames
  <2>2. /\ "thunderbolt-hold" \in StepNames
        /\ "thunderbolt-release" \in StepNames
    BY DEF StepNames
  <2>3. <<"thunderbolt-hold", flash_step(q), "thunderbolt-release">>
            \in Seq(StepNames)
    BY <2>1, <2>2
  <2>4. <<"cold-power-cycle-required">> \in Seq(StepNames)
    BY DEF StepNames
  <2>5. When(q.spi4, <<"cold-power-cycle-required">>) \in Seq(StepNames)
    BY <2>4, WhenIsSequence
  <2>6. QED
    BY <2>3, <2>5 DEF flash_plan
<1>10. sram_program_plan(q) \in Seq(StepNames)
  <2>1. <<"pm-hold-path", "deadman-arm", "remove-endpoint", "program-volatile",
          "secondary-bus-reset", "pci-global-rescan-settle",
          "lspci-endpoint">> \in Seq(StepNames)
    BY DEF StepNames
  <2>2. <<"verify-device">> \in Seq(StepNames)
    BY DEF StepNames
  <2>3. When(q.probe, <<"verify-device">>) \in Seq(StepNames)
    BY <2>2, WhenIsSequence
  <2>4. <<"deadman-disarm">> \in Seq(StepNames)
    BY DEF StepNames
  <2>5. QED
    BY <2>1, <2>3, <2>4 DEF sram_program_plan
<1>11. q.plan \in PlanNames
  BY DEF Request
<1>12. QED
  BY <1>3, <1>4, <1>5, <1>6, <1>7, <1>8, <1>9, <1>10, <1>11
     DEF compose, PlanNames

(* A plan's length, as the executor's index is compared with it. *)
LEMMA PlanLength ==
    ASSUME TypeOK, NEW r \in Runs
    PROVE  Len(Steps(r)) \in Nat
<1>1. request[r] \in Request
  BY ExecutorAssumption DEF TypeOK, WellFormed
<1>2. QED
  BY <1>1, PlanIsSequence DEF Steps

-----------------------------------------------------------------------------
(* Type correctness.                                                       *)

(* A keyed run's lock path is one of the spellings. *)
LEMMA LockPathType ==
    ASSUME TypeOK, NEW r \in Runs, Keyed(r)
    PROVE  /\ request[r].bdf \in Spellings
           /\ device_lock_path(request[r].bdf) \in Spellings
<1>1. request[r] \in Request
  BY ExecutorAssumption DEF TypeOK, WellFormed
<1>2. request[r].bdf \in Spellings \cup {NoBdf}
  BY <1>1 DEF Request
<1>3. QED
  BY <1>2, SpellingAssumption DEF Keyed, device_lock_path

(* Giving the lock up leaves a lock table. *)
LEMMA UnlockedType ==
    ASSUME TypeOK, NEW r \in Runs
    PROVE  Unlocked(r) \in [Spellings -> Runs \cup {NoRun}]
BY DEF TypeOK, Unlocked

(* The variables of the executor keep their types, whatever is requested.  *)
THEOREM ExecutorTypes == Spec => []TypeOK
<1>1. Init => TypeOK
  BY DEF Init, TypeOK
<1>2. TypeOK /\ [Next]_vars => TypeOK'
  <2> SUFFICES ASSUME TypeOK, [Next]_vars
               PROVE  TypeOK'
    OBVIOUS
  <2>1. CASE Reboot
    BY <2>1 DEF TypeOK, Reboot
  <2>2. ASSUME NEW r \in Runs, Refuse(r)
        PROVE  TypeOK'
    BY <2>2 DEF TypeOK, Refuse
  <2>3. ASSUME NEW r \in Runs, Invoke(r)
        PROVE  TypeOK'
    BY <2>3 DEF TypeOK, Invoke
  <2>4. ASSUME NEW r \in Runs, Acquire(r)
        PROVE  TypeOK'
    BY <2>4 DEF TypeOK, Acquire
  <2>5. ASSUME NEW r \in Runs, StartStep(r)
        PROVE  TypeOK'
    BY <2>5 DEF TypeOK, StartStep
  <2>6. ASSUME NEW r \in Runs, SkipStep(r)
        PROVE  TypeOK'
    BY <2>6 DEF TypeOK, SkipStep
  <2>7. ASSUME NEW r \in Runs, StepSucceeds(r)
        PROVE  TypeOK'
    BY <2>7 DEF TypeOK, StepSucceeds
  <2>8. ASSUME NEW r \in Runs, StepFails(r)
        PROVE  TypeOK'
    BY <2>8 DEF TypeOK, StepFails
  <2>9. ASSUME NEW r \in Runs, NEW ok \in BOOLEAN, CleanupStepEnds(r, ok)
        PROVE  TypeOK'
    BY <2>9 DEF TypeOK, CleanupStepEnds
  <2>10. ASSUME NEW r \in Runs, Return(r)
         PROVE  TypeOK'
    BY <2>10, UnlockedType DEF TypeOK, Return
  <2>11. ASSUME NEW r \in Runs, Interrupt(r)
         PROVE  TypeOK'
    BY <2>11, UnlockedType DEF TypeOK, Interrupt
  <2>12. ASSUME NEW r \in Runs, OrphanEnds(r)
         PROVE  TypeOK'
    BY <2>12 DEF TypeOK, OrphanEnds
  <2>13. CASE UNCHANGED vars
    BY <2>13 DEF TypeOK, vars
  <2>14. QED
    BY <2>1, <2>2, <2>3, <2>4, <2>5, <2>6, <2>7, <2>8, <2>9, <2>10, <2>11,
       <2>12, <2>13 DEF Next, Step
<1>3. QED
  BY <1>1, <1>2, PTL DEF Spec

-----------------------------------------------------------------------------
(* Mutual exclusion.                                                       *)

(* A keyed run inside its plan is the one its lock file names.             *)
LockInv ==
    \A r \in Runs :
        Keyed(r) /\ Critical(r) => flock[device_lock_path(request[r].bdf)] = r

(* A run's step process outlives the run only when the run was interrupted *)
(* or killed; only a run given a device waits for a lock.                  *)
ChildInv ==
    \A r \in Runs :
        /\ child[r] => Critical(r) \/ status[r] = "killed"
        /\ status[r] = "blocked" => Keyed(r)

(* Two keyed runs on one board go for one lock file. *)
LEMMA SameBoardSameLock ==
    ASSUME TypeOK, NEW r \in Runs, NEW s \in Runs, SameBoard(r, s)
    PROVE  device_lock_path(request[r].bdf) = device_lock_path(request[s].bdf)
<1>1. /\ WellFormed(request[r])
      /\ WellFormed(request[s])
  BY ExecutorAssumption DEF TypeOK
<1>2. BoardAt[request[r].bdf] = BoardAt[request[s].bdf]
  BY <1>1 DEF SameBoard, Keyed, WellFormed
<1>3. /\ request[r].bdf \in Spellings
      /\ request[s].bdf \in Spellings
  BY LockPathType DEF SameBoard
<1>4. QED
  BY <1>2, <1>3, SpellingAssumption DEF device_lock_path

(* A run that gives up a lock takes it away from nobody else: another run  *)
(* that is critical on the same path would have to be the same run.        *)
LEMMA UnlockedKeepsOthers ==
    ASSUME TypeOK, LockInv, NEW r \in Runs, NEW s \in Runs, s # r,
           Keyed(s), Critical(s)
    PROVE  Unlocked(r)[device_lock_path(request[s].bdf)] = s
<1>1. flock[device_lock_path(request[s].bdf)] = s
  BY DEF LockInv
<1>2. CASE Keyed(r) /\ Critical(r)
  <2>1. flock[device_lock_path(request[r].bdf)] = r
    BY <1>2 DEF LockInv
  <2>2. device_lock_path(request[s].bdf) # device_lock_path(request[r].bdf)
    BY <1>1, <2>1
  <2>3. QED
    BY <1>1, <1>2, <2>2, LockPathType DEF Unlocked, TypeOK
<1>3. CASE ~(Keyed(r) /\ Critical(r))
  BY <1>1, <1>3 DEF Unlocked
<1>4. QED
  BY <1>2, <1>3

(* Every step keeps the lock table and the runs inside their plans in      *)
(* agreement.                                                              *)
LEMMA LockInvStep ==
    TypeOK /\ LockInv /\ [Next]_vars => LockInv'
<1> SUFFICES ASSUME TypeOK, LockInv, [Next]_vars
             PROVE  LockInv'
  OBVIOUS
<1> USE DEF LockInv, Keyed, Critical, device_lock_path
<1>1. CASE Reboot
  BY <1>1 DEF Reboot, Live, TypeOK
<1>2. ASSUME NEW r \in Runs, Refuse(r)
      PROVE  LockInv'
  BY <1>2 DEF Refuse, TypeOK
<1>3. ASSUME NEW r \in Runs, Invoke(r)
      PROVE  LockInv'
  BY <1>3 DEF Invoke, TypeOK
<1>4. ASSUME NEW r \in Runs, Acquire(r)
      PROVE  LockInv'
  <2> SUFFICES ASSUME NEW s \in Runs, Keyed(s)', Critical(s)'
               PROVE  flock'[device_lock_path(request'[s].bdf)] = s
    BY DEF LockInv
  <2>1. device_lock_path(request[s].bdf) \in Spellings
    BY <1>4, LockPathType DEF Acquire
  <2>2. CASE s = r
    BY <1>4, <2>1, <2>2 DEF Acquire, TypeOK
  <2>3. CASE s # r
    <3>1. Keyed(s) /\ Critical(s)
      BY <1>4, <2>3 DEF Acquire, TypeOK
    <3>2. flock[device_lock_path(request[s].bdf)] = s
      BY <3>1
    <3>3. device_lock_path(request[s].bdf) # device_lock_path(request[r].bdf)
      BY <1>4, <3>2, ExecutorAssumption DEF Acquire
    <3>4. QED
      BY <1>4, <2>1, <3>2, <3>3 DEF Acquire, TypeOK
  <2>4. QED
    BY <2>2, <2>3
<1>5. ASSUME NEW r \in Runs, StartStep(r)
      PROVE  LockInv'
  BY <1>5 DEF StartStep
<1>6. ASSUME NEW r \in Runs, SkipStep(r)
      PROVE  LockInv'
  BY <1>6 DEF SkipStep
<1>7. ASSUME NEW r \in Runs, StepSucceeds(r)
      PROVE  LockInv'
  BY <1>7 DEF StepSucceeds
<1>8. ASSUME NEW r \in Runs, StepFails(r)
      PROVE  LockInv'
  BY <1>8 DEF StepFails, TypeOK
<1>9. ASSUME NEW r \in Runs, NEW ok \in BOOLEAN, CleanupStepEnds(r, ok)
      PROVE  LockInv'
  BY <1>9 DEF CleanupStepEnds
<1>10. ASSUME NEW r \in Runs, NEW end \in {"done", "failed", "killed"},
              status' = [status EXCEPT ![r] = end],
              flock' = Unlocked(r), request' = request
       PROVE  LockInv'
  <2> SUFFICES ASSUME NEW s \in Runs, Keyed(s)', Critical(s)'
               PROVE  flock'[device_lock_path(request'[s].bdf)] = s
    BY DEF LockInv
  <2>1. s # r /\ Keyed(s) /\ Critical(s)
    BY <1>10 DEF TypeOK
  <2>2. Unlocked(r)[device_lock_path(request[s].bdf)] = s
    BY <2>1, UnlockedKeepsOthers
  <2>3. QED
    BY <1>10, <2>2
<1>11. ASSUME NEW r \in Runs, Return(r)
       PROVE  LockInv'
  BY <1>10, <1>11 DEF Return
<1>12. ASSUME NEW r \in Runs, Interrupt(r)
       PROVE  LockInv'
  BY <1>10, <1>12 DEF Interrupt
<1>13. ASSUME NEW r \in Runs, OrphanEnds(r)
       PROVE  LockInv'
  BY <1>13 DEF OrphanEnds
<1>14. CASE UNCHANGED vars
  BY <1>14 DEF vars
<1>15. QED
  BY <1>1, <1>2, <1>3, <1>4, <1>5, <1>6, <1>7, <1>8, <1>9, <1>11, <1>12,
     <1>13, <1>14 DEF Next, Step

(* The lock serializes the runs of a device: for any runs, boards and      *)
(* spellings, two runs given the same board are never both in their plans. *)
THEOREM RunsAreExclusive == Spec => []RunExclusion
<1>1. Init => LockInv
  BY DEF Init, LockInv, Critical
<1>2. TypeOK /\ LockInv => RunExclusion
  <2> SUFFICES ASSUME TypeOK, LockInv, NEW r \in Runs, NEW s \in Runs,
                      SameBoard(r, s), Critical(r), Critical(s)
               PROVE  r = s
    BY DEF RunExclusion
  <2>1. device_lock_path(request[r].bdf) = device_lock_path(request[s].bdf)
    BY SameBoardSameLock
  <2>2. QED
    BY <2>1 DEF LockInv, SameBoard
<1>3. QED
  BY <1>1, <1>2, LockInvStep, ExecutorTypes, PTL DEF Spec

(* Step processes and runs stay in agreement. *)
LEMMA ChildInvStep ==
    TypeOK /\ ChildInv /\ [Next]_vars => ChildInv'
<1> SUFFICES ASSUME TypeOK, ChildInv, [Next]_vars
             PROVE  ChildInv'
  OBVIOUS
<1> USE DEF ChildInv, Critical, Keyed, TypeOK
<1>1. CASE Reboot
  BY <1>1 DEF Reboot
<1>2. ASSUME NEW r \in Runs, Refuse(r)
      PROVE  ChildInv'
  BY <1>2 DEF Refuse
<1>3. ASSUME NEW r \in Runs, Invoke(r)
      PROVE  ChildInv'
  BY <1>3 DEF Invoke
<1>4. ASSUME NEW r \in Runs, Acquire(r)
      PROVE  ChildInv'
  BY <1>4 DEF Acquire
<1>5. ASSUME NEW r \in Runs, StartStep(r)
      PROVE  ChildInv'
  BY <1>5 DEF StartStep
<1>6. ASSUME NEW r \in Runs, SkipStep(r)
      PROVE  ChildInv'
  BY <1>6 DEF SkipStep
<1>7. ASSUME NEW r \in Runs, StepSucceeds(r)
      PROVE  ChildInv'
  BY <1>7 DEF StepSucceeds
<1>8. ASSUME NEW r \in Runs, StepFails(r)
      PROVE  ChildInv'
  BY <1>8 DEF StepFails
<1>9. ASSUME NEW r \in Runs, NEW ok \in BOOLEAN, CleanupStepEnds(r, ok)
      PROVE  ChildInv'
  BY <1>9 DEF CleanupStepEnds
<1>10. ASSUME NEW r \in Runs, Return(r)
       PROVE  ChildInv'
  BY <1>10 DEF Return
<1>11. ASSUME NEW r \in Runs, Interrupt(r)
       PROVE  ChildInv'
  BY <1>11 DEF Interrupt
<1>12. ASSUME NEW r \in Runs, OrphanEnds(r)
       PROVE  ChildInv'
  BY <1>12 DEF OrphanEnds
<1>13. CASE UNCHANGED vars
  BY <1>13 DEF vars
<1>14. QED
  BY <1>1, <1>2, <1>3, <1>4, <1>5, <1>6, <1>7, <1>8, <1>9, <1>10, <1>11,
     <1>12, <1>13 DEF Next, Step

(* Step processes of one board overlap only when one of them is an orphan  *)
(* of a run that was interrupted or killed: as long as every run waits for *)
(* its steps, steps are exclusive too.                                     *)
THEOREM OverlapIsAnOrphan == Spec => []OverlapNeedsOrphan
<1>1. Init => ChildInv
  BY DEF Init, ChildInv
<1>2. ChildInv /\ RunExclusion => OverlapNeedsOrphan
  BY DEF ChildInv, RunExclusion, OverlapNeedsOrphan
<1>3. QED
  BY <1>1, <1>2, ChildInvStep, ExecutorTypes, RunsAreExclusive, PTL DEF Spec

-----------------------------------------------------------------------------
(* What a run has done by the time it is at a step.                        *)

(* The steps started so far are those the index has passed, and the one at *)
(* the index exactly when its process is alive.                            *)
StartedInv ==
    \A r \in Runs :
        /\ status[r] \in {"idle", "blocked"} =>
               attempted[r] = {} /\ pc[r] = 1 /\ ~child[r]
        /\ Critical(r) => \A i \in attempted[r] :
               i <= pc[r] /\ (i = pc[r] => child[r])

(* A run that has seen no failure has succeeded in every step it passed. *)
PrefixInv ==
    \A r \in Runs :
        status[r] \in {"idle", "blocked", "running"} =>
            1 .. (pc[r] - 1) \subseteq succeeded[r]

(* Behind the failing step the cleanup loop has started the release steps  *)
(* up to its index, and no other step; a run that failed has reached the   *)
(* end of its plan that way.                                               *)
CleanupInv ==
    \A r \in Runs :
        /\ status[r] = "cleanup" =>
               /\ failedAt[r] < pc[r]
               /\ child[r] => pc[r] \in attempted[r]
               /\ \A i \in (failedAt[r] + 1) .. (pc[r] - 1) :
                      IsRelease(Steps(r)[i]) <=> i \in attempted[r]
               /\ child[r] => IsRelease(Steps(r)[pc[r]])
        /\ status[r] = "failed" =>
               \A i \in (failedAt[r] + 1) .. Len(Steps(r)) :
                   IsRelease(Steps(r)[i]) <=> i \in attempted[r]

HistoryInv == StartedInv /\ PrefixInv /\ CleanupInv /\ StepsNeedTheirPrefix

(* Only one run moves at a time, so a step of r leaves the others alone. *)
LEMMA HistoryInvStep ==
    TypeOK /\ ChildInv /\ HistoryInv /\ [Next]_vars => HistoryInv'
<1> SUFFICES ASSUME TypeOK, ChildInv, HistoryInv, [Next]_vars
             PROVE  HistoryInv'
  OBVIOUS
<1> USE DEF HistoryInv, StartedInv, PrefixInv, CleanupInv,
            StepsNeedTheirPrefix, Critical, Steps, TypeOK
<1>0. \A r \in Runs : Len(Steps(r)) \in Nat
  BY PlanLength
<1>1. CASE Reboot
  BY <1>1 DEF Reboot, Live
<1>2. ASSUME NEW r \in Runs, Refuse(r)
      PROVE  HistoryInv'
  BY <1>2 DEF Refuse
<1>3. ASSUME NEW r \in Runs, Invoke(r)
      PROVE  HistoryInv'
  BY <1>3 DEF Invoke
<1>4. ASSUME NEW r \in Runs, Acquire(r)
      PROVE  HistoryInv'
  BY <1>4 DEF Acquire
<1>5. ASSUME NEW r \in Runs, StartStep(r)
      PROVE  HistoryInv'
  <2> SUFFICES ASSUME NEW s \in Runs
               PROVE  /\ StartedInv!(s)'
                      /\ PrefixInv!(s)'
                      /\ CleanupInv!(s)'
                      /\ StepsNeedTheirPrefix!(s)'
    OBVIOUS
  <2>1. CASE s # r
    <3>1. /\ child'[s] = child[s]
          /\ attempted'[s] = attempted[s]
      BY <1>5, <2>1 DEF StartStep
    <3>2. QED
      BY <1>5, <3>1 DEF StartStep
  <2>2. CASE s = r
    <3>1. /\ child'[r] = TRUE
          /\ attempted'[r] = attempted[r] \cup {pc[r]}
          /\ Critical(r)
          /\ status[r] = "running" \/ IsRelease(Steps(r)[pc[r]])
      BY <1>5 DEF StartStep, Executes
    <3>2. UNCHANGED <<request, status, pc, failedAt, succeeded>>
      BY <1>5 DEF StartStep
    <3>3. StartedInv!(r)'
      BY <3>1, <3>2
    <3>4. PrefixInv!(r)'
      BY <3>2
    <3>5. CleanupInv!(r)'
      BY <3>1, <3>2
    <3>6. StepsNeedTheirPrefix!(r)'
      BY <3>1, <3>2
    <3>7. QED
      BY <2>2, <3>3, <3>4, <3>5, <3>6
  <2>3. QED
    BY <2>1, <2>2
<1>6. ASSUME NEW r \in Runs, SkipStep(r)
      PROVE  HistoryInv'
  BY <1>6 DEF SkipStep, Executes
<1>7. ASSUME NEW r \in Runs, StepSucceeds(r)
      PROVE  HistoryInv'
  BY <1>7 DEF StepSucceeds
<1>8. ASSUME NEW r \in Runs, StepFails(r)
      PROVE  HistoryInv'
  BY <1>8 DEF StepFails
<1>9. ASSUME NEW r \in Runs, NEW ok \in BOOLEAN, CleanupStepEnds(r, ok)
      PROVE  HistoryInv'
  BY <1>9 DEF CleanupStepEnds
<1>10. ASSUME NEW r \in Runs, Return(r)
       PROVE  HistoryInv'
  BY <1>0, <1>10 DEF Return
<1>11. ASSUME NEW r \in Runs, Interrupt(r)
       PROVE  HistoryInv'
  BY <1>11 DEF Interrupt
<1>12. ASSUME NEW r \in Runs, OrphanEnds(r)
       PROVE  HistoryInv'
  BY <1>12 DEF OrphanEnds
<1>13. CASE UNCHANGED vars
  BY <1>13 DEF vars
<1>14. QED
  BY <1>1, <1>2, <1>3, <1>4, <1>5, <1>6, <1>7, <1>8, <1>9, <1>10, <1>11,
     <1>12, <1>13 DEF Next, Step

(* The history facts hold throughout. *)
LEMMA HistoryIsInvariant == Spec => []HistoryInv
<1>1. Init => ChildInv /\ HistoryInv
  BY DEF Init, ChildInv, HistoryInv, StartedInv, PrefixInv, CleanupInv,
         StepsNeedTheirPrefix, Critical
<1>2. QED
  BY <1>1, ChildInvStep, HistoryInvStep, ExecutorTypes, PTL DEF Spec

(* Whatever plan runs, no step but a release starts unless every step      *)
(* before it has succeeded: the deadman is never disarmed, and nothing is  *)
(* programmed or rescanned, past a failure.                                *)
THEOREM NothingRunsPastAFailure == Spec => []StepsNeedTheirPrefix
BY HistoryIsInvariant, PTL DEF HistoryInv

(* Whatever plan fails, its release steps behind the failure have been     *)
(* started by the time the run returns its error.                          *)
THEOREM FailureRunsTheReleases == Spec => []FailedRunReleases
<1>1. HistoryInv => FailedRunReleases
  BY DEF HistoryInv, CleanupInv, FailedRunReleases
<1>2. QED
  BY <1>1, HistoryIsInvariant, PTL

-----------------------------------------------------------------------------
(* The executor implements BoardOwnership.                                 *)

(* A critical keyed run is the only owner of its board. *)
LEMMA SoleOwner ==
    ASSUME TypeOK, LockInv, NEW r \in Runs, Keyed(r), Critical(r)
    PROVE  /\ request[r].board \in Boards
           /\ Owners[request[r].board] = {r}
<1>1. request[r].board \in Boards
  BY ExecutorAssumption DEF TypeOK, WellFormed, Request
<1>2. ASSUME NEW s \in Runs, Keyed(s), Critical(s),
             request[s].board = request[r].board
      PROVE  s = r
  <2>1. SameBoard(r, s)
    BY <1>2 DEF SameBoard
  <2>2. device_lock_path(request[r].bdf) = device_lock_path(request[s].bdf)
    BY <2>1, SameBoardSameLock
  <2>3. QED
    BY <1>2, <2>2 DEF LockInv
<1>3. QED
  BY <1>1, <1>2 DEF Owners

(* A run that stops being critical yields its board, or owned none. *)
LEMMA LeavingYields ==
    ASSUME TypeOK, LockInv, NEW r \in Runs, NEW end \in {"done", "failed", "killed"},
           request' = request,
           status' = [status EXCEPT ![r] = end],
           \A s \in Runs : s # r => child'[s] = child[s],
           (Keyed(r) /\ Critical(r)) \/ UNCHANGED <<Owners, Touching>>
    PROVE  [\E b \in Boards : Ownership!Yield(r, b)]_<<Owners, Touching>>
<1>1. CASE Keyed(r) /\ Critical(r)
  <2> DEFINE b == request[r].board
  <2>1. b \in Boards /\ Owners[b] = {r}
    BY <1>1, SoleOwner
  <2>2. Owners' = [Owners EXCEPT ![b] = {}]
    <3>1. \A s \in Runs : Critical(s)' <=> Critical(s) /\ s # r
      BY DEF Critical, TypeOK
    <3>2. Owners'[b] = {}
      BY <2>1, <3>1 DEF Owners, Keyed
    <3>3. \A x \in Boards : x # b => Owners'[x] = Owners[x]
      BY <3>1 DEF Owners, Keyed
    <3>4. QED
      BY <2>1, <3>2, <3>3 DEF Owners
  <2>3. Touching' = Touching \ {r}
    BY DEF Touching, Keyed, Critical, TypeOK
  <2>4. Ownership!Yield(r, b)
    BY <2>1, <2>2, <2>3 DEF Ownership!Yield
  <2>5. \E x \in Boards : Ownership!Yield(r, x)
    BY <2>1, <2>4
  <2>6. QED
    BY <2>5
<1>2. QED
  BY <1>1

(* Owners depends on the requests and on which runs are critical. *)
LEMMA SameOwners ==
    ASSUME request' = request,
           \A s \in Runs : Keyed(s) => (Critical(s)' <=> Critical(s))
    PROVE  Owners' = Owners
BY DEF Owners, Keyed

LEMMA SameTouching ==
    ASSUME request' = request,
           \A s \in Runs : Keyed(s) => (Critical(s)' <=> Critical(s)),
           \A s \in Runs : Keyed(s) /\ Critical(s) => (child'[s] <=> child[s])
    PROVE  Touching' = Touching
BY DEF Touching, Keyed

(* A step process that ends while its run goes on leaves the board. *)
LEMMA EndingLeaves ==
    ASSUME TypeOK, NEW r \in Runs, child[r],
           request' = request, child' = [child EXCEPT ![r] = FALSE],
           \A s \in Runs : Critical(s)' <=> Critical(s)
    PROVE  [Ownership!Next]_<<Owners, Touching>>
<1>1. Owners' = Owners
  BY SameOwners
<1>2. CASE r \in Touching
  <2>1. Touching' = Touching \ {r}
    BY DEF Touching, Keyed, TypeOK
  <2>2. Ownership!Leave(r)
    BY <1>1, <1>2, <2>1 DEF Ownership!Leave
  <2>3. QED
    BY <2>2 DEF Ownership!Next
<1>3. CASE r \notin Touching
  <2>1. Touching' = Touching
    BY <1>3 DEF Touching, Keyed, TypeOK
  <2>2. QED
    BY <1>1, <2>1
<1>4. QED
  BY <1>2, <1>3

(* Every step of the executor is a step of BoardOwnership, or changes      *)
(* neither who owns a board nor who touches it.                            *)
LEMMA ExecutorStepSimulates ==
    TypeOK /\ LockInv /\ ChildInv /\ StartedInv /\ [Next]_vars
        => [Ownership!Next]_<<Owners, Touching>>
<1> SUFFICES ASSUME TypeOK, LockInv, ChildInv, StartedInv, [Next]_vars
             PROVE  [Ownership!Next]_<<Owners, Touching>>
  OBVIOUS
<1>1. CASE Reboot
  <2>1. \A r \in Runs : ~Critical(r)'
    BY <1>1 DEF Reboot, Critical, Live, TypeOK
  <2>2. Ownership!PowerOff
    BY <2>1 DEF Ownership!PowerOff, Owners, Touching
  <2>3. QED
    BY <2>2 DEF Ownership!Next
<1>2. ASSUME NEW r \in Runs, Refuse(r)
      PROVE  UNCHANGED <<Owners, Touching>>
  <2>1. \A s \in Runs : Critical(s)' <=> Critical(s)
    BY <1>2 DEF Refuse, Critical, TypeOK
  <2>2. QED
    BY <1>2, <2>1, SameOwners, SameTouching DEF Refuse
<1>3. ASSUME NEW r \in Runs, Invoke(r)
      PROVE  UNCHANGED <<Owners, Touching>>
  <2>1. \A s \in Runs : Keyed(s) => (Critical(s)' <=> Critical(s))
    BY <1>3 DEF Invoke, Critical, TypeOK
  <2>2. QED
    BY <1>3, <2>1, SameOwners, SameTouching DEF Invoke
<1>4. ASSUME NEW r \in Runs, Acquire(r)
      PROVE  [Ownership!Next]_<<Owners, Touching>>
  <2> DEFINE b == request[r].board
  <2>0. /\ b \in Boards
        /\ Keyed(r)
        /\ ~Critical(r)
    BY <1>4, ExecutorAssumption
       DEF Acquire, TypeOK, WellFormed, Request, ChildInv, Critical
  <2>1. Owners[b] = {}
    <3>1. ASSUME NEW s \in Runs, Keyed(s), Critical(s), request[s].board = b
          PROVE  FALSE
      <4>1. device_lock_path(request[r].bdf) = device_lock_path(request[s].bdf)
        BY <2>0, <3>1, SameBoardSameLock DEF SameBoard
      <4>2. flock[device_lock_path(request[r].bdf)] = s
        BY <3>1, <4>1 DEF LockInv
      <4>3. QED
        BY <1>4, <4>2, ExecutorAssumption DEF Acquire
    <3>2. QED
      BY <2>0, <3>1 DEF Owners
  <2>2. Owners' = [Owners EXCEPT ![b] = {r}]
    <3>1. \A s \in Runs : Critical(s)' <=> Critical(s) \/ s = r
      BY <1>4 DEF Acquire, Critical, TypeOK
    <3>2. request' = request
      BY <1>4 DEF Acquire
    <3>3. Owners'[b] = {r}
      BY <2>0, <2>1, <3>1, <3>2 DEF Owners, Keyed
    <3>4. \A x \in Boards : x # b => Owners'[x] = Owners[x]
      BY <3>1, <3>2 DEF Owners, Keyed
    <3>5. QED
      BY <2>0, <3>3, <3>4 DEF Owners
  <2>3. Touching' = Touching
    BY <1>4 DEF Acquire, Touching, Keyed, Critical, TypeOK, StartedInv
  <2>4. Ownership!Claim(r, b)
    BY <2>1, <2>2, <2>3 DEF Ownership!Claim
  <2>5. \E x \in Boards : Ownership!Claim(r, x)
    BY <2>0, <2>4
  <2>6. QED
    BY <2>5 DEF Ownership!Next
<1>5. ASSUME NEW r \in Runs, StartStep(r)
      PROVE  [Ownership!Next]_<<Owners, Touching>>
  <2> DEFINE b == request[r].board
  <2>1. Owners' = Owners
    BY <1>5, SameOwners DEF StartStep, Critical
  <2>2. CASE Keyed(r)
    <3>1. b \in Boards /\ Owners[b] = {r}
      BY <1>5, <2>2, SoleOwner DEF StartStep
    <3>2. Touching' = Touching \cup {r}
      BY <1>5, <2>2 DEF StartStep, Touching, Keyed, Critical, TypeOK
    <3>3. Ownership!Touch(r, b)
      BY <2>1, <3>1, <3>2 DEF Ownership!Touch
    <3>4. \E x \in Boards : Ownership!Touch(r, x)
      BY <3>1, <3>3
    <3>5. QED
      BY <3>4 DEF Ownership!Next
  <2>3. CASE ~Keyed(r)
    <3>1. Touching' = Touching
      BY <1>5, <2>3 DEF StartStep, Touching, Keyed, Critical, TypeOK
    <3>2. QED
      BY <2>1, <3>1
  <2>4. QED
    BY <2>2, <2>3
<1>6. ASSUME NEW r \in Runs, SkipStep(r)
      PROVE  UNCHANGED <<Owners, Touching>>
  BY <1>6, SameOwners, SameTouching DEF SkipStep, Critical
<1>7. ASSUME NEW r \in Runs, StepSucceeds(r)
      PROVE  [Ownership!Next]_<<Owners, Touching>>
  BY <1>7, EndingLeaves DEF StepSucceeds, Critical
<1>8. ASSUME NEW r \in Runs, StepFails(r)
      PROVE  [Ownership!Next]_<<Owners, Touching>>
  BY <1>8, EndingLeaves DEF StepFails, Critical, TypeOK
<1>9. ASSUME NEW r \in Runs, NEW ok \in BOOLEAN, CleanupStepEnds(r, ok)
      PROVE  [Ownership!Next]_<<Owners, Touching>>
  BY <1>9, EndingLeaves DEF CleanupStepEnds, Critical
<1>10. ASSUME NEW r \in Runs, NEW end \in {"done", "failed", "killed"},
              request' = request, status' = [status EXCEPT ![r] = end],
              \A s \in Runs : s # r => child'[s] = child[s]
       PROVE  [Ownership!Next]_<<Owners, Touching>>
  <2>1. CASE Keyed(r) /\ Critical(r)
    <3>1. [\E b \in Boards : Ownership!Yield(r, b)]_<<Owners, Touching>>
      BY <1>10, <2>1, LeavingYields
    <3>2. QED
      BY <3>1 DEF Ownership!Next
  <2>2. CASE ~(Keyed(r) /\ Critical(r))
    <3>1. \A s \in Runs : Keyed(s) => (Critical(s)' <=> Critical(s))
      BY <1>10, <2>2 DEF Critical, TypeOK
    <3>2. \A s \in Runs : Keyed(s) /\ Critical(s) => (child'[s] <=> child[s])
      BY <1>10, <2>2
    <3>3. Owners' = Owners /\ Touching' = Touching
      BY <1>10, <3>1, <3>2, SameOwners, SameTouching
    <3>4. QED
      BY <3>3
  <2>3. QED
    BY <2>1, <2>2
<1>11. ASSUME NEW r \in Runs, Return(r)
       PROVE  [Ownership!Next]_<<Owners, Touching>>
  BY <1>10, <1>11 DEF Return
<1>12. ASSUME NEW r \in Runs, Interrupt(r)
       PROVE  [Ownership!Next]_<<Owners, Touching>>
  BY <1>10, <1>12 DEF Interrupt, TypeOK
<1>13. ASSUME NEW r \in Runs, OrphanEnds(r)
       PROVE  UNCHANGED <<Owners, Touching>>
  <2>1. ~Critical(r)
    BY <1>13 DEF OrphanEnds, Critical
  <2>2. /\ request' = request
        /\ \A s \in Runs : Critical(s)' <=> Critical(s)
        /\ \A s \in Runs : s # r => child'[s] = child[s]
    BY <1>13 DEF OrphanEnds, Critical, TypeOK
  <2>3. QED
    BY <2>1, <2>2, SameOwners, SameTouching
<1>14. CASE UNCHANGED vars
  BY <1>14 DEF vars, Owners, Touching, Keyed, Critical
<1>15. QED
  BY <1>1, <1>2, <1>3, <1>4, <1>5, <1>6, <1>7, <1>8, <1>9, <1>11, <1>12,
     <1>13, <1>14 DEF Next, Step

(* The executor implements the exclusive board: whatever the operators     *)
(* request and however runs end, the runs given a device claim, touch and  *)
(* yield its board as BoardOwnership allows.                               *)
THEOREM ExecutorImplementsOwnership == Spec => ExclusiveBoard
<1>1. Init => Ownership!Init
  BY DEF Init, Ownership!Init, Owners, Touching, Critical
<1>2. Init => LockInv /\ ChildInv
  BY DEF Init, LockInv, ChildInv, Critical
<1>3. HistoryInv => StartedInv
  BY DEF HistoryInv
<1>4. TypeOK /\ LockInv /\ ChildInv /\ StartedInv /\ [Next]_vars
          => [Ownership!Next]_(Ownership!vars)
  BY ExecutorStepSimulates DEF Ownership!vars
<1>5. QED
  BY <1>1, <1>2, <1>3, <1>4, LockInvStep, ChildInvStep, ExecutorTypes,
     HistoryIsInvariant, PTL DEF Spec, ExclusiveBoard, Ownership!Spec
=============================================================================
