---------------------------- MODULE ShellJobProofs ----------------------------
(***************************************************************************)
(* Theorems about ShellJob, for any number of lanes and table entries and  *)
(* for any inputs of the host.                                             *)
(*                                                                         *)
(* The inductive invariant, Control, follows a job through the shell: it   *)
(* is in the start pulse, in the table, in the go pulse, in the units, or  *)
(* over, and in one of these places only.  since bounds the clock of the   *)
(* first three, which is what a host that waits long enough relies on.     *)
(***************************************************************************)
EXTENDS ShellJob, TLAPS

\* The host waits until the units are busy.
Patient == Capacity = 0 \/ PollDelay >= 3

Resting == ~reader_busy /\ \A l \in Lanes : ~writer[l].busy

InStart == job_start => awaiting /\ bus /\ since = 0 /\ Resting

InTable == gate.pending => awaiting /\ resolve.done /\ ~job_start /\ since <= 1 /\ Resting

InGo == gate.go => awaiting /\ ~job_start /\ ~gate.pending /\ since <= 2 /\ Resting

Idle == ~awaiting => Resting

OffGrid == length_fail /\ ~job_start => ~gate.pending /\ ~gate.go /\ Resting

Refused == handle_fail /\ ~job_start => ~gate.pending /\ ~gate.go /\ Resting

DoneUnitsRest ==
    /\ reader.done => ~reader_busy
    /\ \A l \in Lanes : writer[l].done => ~writer[l].busy

NoTable == Capacity = 0 => gate = GateAtRest

Control ==
    /\ InStart /\ InTable /\ InGo /\ Idle
    /\ OffGrid /\ Refused
    /\ DoneUnitsRest /\ NoTable

------------------------------------------------------------------------------
(* Types. *)

LEMMA InitTypes == Init => TypeOK
<1> SUFFICES ASSUME Init PROVE TypeOK
  OBVIOUS
<1>. 0 \in Word
  BY TableAssumption
<1>1. TableTypeOK
  BY DEF Init, TableInit, TableTypeOK, Entry, Answer, NoAnswer
<1>2. staged \in StagedEntry /\ job \in Job /\ gate \in Gate
  BY DEF Init, NoEntry, StagedEntry, NoJob, Job, GateAtRest, Gate
<1>3. reader \in Reader
  BY DEF Init, ReaderAtRest, Reader
<1>4. tile \in [Lanes -> TilePhases] /\ writer \in [Lanes -> Writer]
  BY DEF Init, WriterAtRest, Writer, TilePhases
<1>5. since \in 0 .. PollDelay
  BY ShellAssumption DEF Init
<1>. QED  BY <1>1, <1>2, <1>3, <1>4, <1>5 DEF Init, TypeOK

LEMMA FaultType ==
  ASSUME NEW id, NEW g, NEW n PROVE Fault(id, g, n) \in FaultCodes \union {"none"}
BY DEF Fault, FaultCodes

\* The units and the control registers keep their types whatever the host does.
LEMMA DatapathTypes ==
  ASSUME TypeOK, Datapath
  PROVE  /\ TableTypeOK'
         /\ gate' \in Gate
         /\ length_fail' \in BOOLEAN /\ prev_done' \in BOOLEAN
         /\ pipeline_error_reset' \in BOOLEAN
         /\ reader' \in Reader
         /\ tile' \in [Lanes -> TilePhases]
         /\ writer' \in [Lanes -> Writer]
<1>1. TableTypeOK'
  <2>1. CASE Capacity = 0
    BY <2>1 DEF Datapath, Table, tableVars, TypeOK, TableTypeOK
  <2>2. CASE Capacity # 0
    <3>1. Capacity > 0 /\ 0 \in Slots
      BY <2>2, TableAssumption DEF Slots
    <3>2. entry' \in [Slots -> Entry]
      <4>1. Program(install, free, staged.index, staged.base, staged.length,
                    staged.generation)
        BY <2>2 DEF Datapath, Table, TableClock
      <4>2. /\ staged.base \in Word /\ staged.length \in Word
            /\ staged.generation \in Word
        BY DEF TypeOK, StagedEntry
      <4>3. entry \in [Slots -> Entry]
        BY DEF TypeOK, TableTypeOK
      <4>. QED  BY <4>1, <4>2, <4>3 DEF Program, Entry
    <3>3. entry[ResolveSlot(job.id)].base \in Word
      BY <3>1 DEF ResolveSlot, TypeOK, TableTypeOK, Entry
    <3>4. (job_start /\ length_ok) \in BOOLEAN
      BY DEF TypeOK, length_ok
    <3>5. resolve' \in Answer
      <4>1. Resolve(job_start /\ length_ok, job.id, job.generation, job.length)
        BY <2>2 DEF Datapath, Table, TableClock
      <4>2. Fault(job.id, job.generation, job.length) \in FaultCodes \union {"none"}
        BY FaultType
      <4>. QED  BY <4>1, <4>2, <3>3, <3>4 DEF Resolve, Answer
    <3>. QED  BY <3>2, <3>5 DEF TableTypeOK
  <2>. QED  BY <2>1, <2>2
<1>2. gate' \in Gate
  BY DEF Datapath, GateClock, TypeOK, TableTypeOK, Gate, Answer, length_ok
<1>3. length_fail' \in BOOLEAN /\ prev_done' \in BOOLEAN /\ pipeline_error_reset' \in BOOLEAN
  BY DEF Datapath, GlueClock, TypeOK, length_ok, job_done
<1>4. PICK taken \in SUBSET Willing, closed \in SUBSET Closable :
         ReaderClock(taken) /\ TileClock(taken, closed) /\ WriterClock(closed)
  BY DEF Datapath
<1>5. taken \subseteq Lanes
  BY DEF Willing
<1>6. reader' \in Reader
  <2>1. reader_address \in Word
    BY DEF reader_address, TypeOK, Job, Gate
  <2>2. ASSUME ReaderStart PROVE reader' \in Reader
    BY <2>1, <2>2 DEF ReaderStart, TypeOK, Reader, Job
  <2>3. ASSUME ReaderFetch PROVE reader' \in Reader
    BY <2>3 DEF ReaderFetch, TypeOK, Reader
  <2>4. ASSUME ReaderEmit(taken) PROVE reader' \in Reader
    BY <1>5, <2>4 DEF ReaderEmit, TypeOK, Reader
  <2>. QED  BY <1>4, <2>2, <2>3, <2>4 DEF ReaderClock
<1>7. tile' \in [Lanes -> TilePhases]
  BY <1>4 DEF TileClock
<1>8. writer' \in [Lanes -> Writer]
  BY <1>4 DEF WriterClock, TypeOK, Writer
<1>. QED  BY <1>1, <1>2, <1>3, <1>6, <1>7, <1>8

LEMMA NextTypes == TypeOK /\ [Next]_vars => TypeOK'
<1> SUFFICES ASSUME TypeOK, [Next]_vars PROVE TypeOK'
  OBVIOUS
<1>1. since \in Nat /\ PollDelay \in Nat /\ since <= PollDelay
  BY ShellAssumption DEF TypeOK
<1>2. Elapse => since' \in 0 .. PollDelay
  BY <1>1 DEF Elapse
<1>3. CASE NoAccess
  BY <1>2, <1>3, DatapathTypes DEF NoAccess, Pulse, TypeOK
<1>4. CASE ProgramEntry
  BY <1>2, <1>4, DatapathTypes, ShellAssumption DEF ProgramEntry, Pulse, TypeOK, StagedEntry
<1>5. CASE NameJob
  BY <1>2, <1>5, DatapathTypes, ShellAssumption DEF NameJob, Pulse, TypeOK, Job
<1>6. CASE Submit
  <2>1. since' \in 0 .. PollDelay
    BY <1>1, <1>6 DEF Submit
  <2>. QED  BY <2>1, <1>6, DatapathTypes DEF Submit, Pulse, TypeOK
<1>7. CASE Poll
  BY <1>2, <1>7, DatapathTypes DEF Poll, Pulse, TypeOK, job_done
<1>8. CASE Reset
  <2>1. TableTypeOK'
    <3>1. entry' \in [Slots -> Entry]
      BY <1>8 DEF Reset, TableReset, TypeOK, TableTypeOK, Entry
    <3>2. resolve' \in Answer
      BY <1>8, TableAssumption DEF Reset, TableReset, NoAnswer, Answer
    <3>. QED  BY <3>1, <3>2 DEF TableTypeOK
  <2>2. staged' \in StagedEntry /\ job' \in Job /\ gate' \in Gate
    BY <1>8, TableAssumption
       DEF Reset, NoEntry, StagedEntry, NoJob, Job, GateAtRest, Gate
  <2>3. reader' \in Reader
    BY <1>8, TableAssumption DEF Reset, ReaderAtRest, Reader
  <2>4. tile' \in [Lanes -> TilePhases] /\ writer' \in [Lanes -> Writer]
    BY <1>8 DEF Reset, WriterAtRest, Writer, TilePhases
  <2>5. since' \in 0 .. PollDelay
    BY <1>1, <1>8 DEF Reset
  <2>. QED  BY <1>8, <2>1, <2>2, <2>3, <2>4, <2>5 DEF Reset, Pulse, TypeOK
<1>9. CASE UNCHANGED vars
  BY <1>9 DEF vars, tableVars, registers, glue, units, host, TypeOK, TableTypeOK
<1>. QED  BY <1>3, <1>4, <1>5, <1>6, <1>7, <1>8, <1>9 DEF Next

\* The shell's registers keep their types.
THEOREM ShellTypes == Spec => []TypeOK
BY InitTypes, NextTypes, PTL DEF Spec

------------------------------------------------------------------------------
(* Control. *)

LEMMA InitControl == Init => Control
BY DEF Init, Control, InStart, InTable, InGo, Idle, OffGrid, Refused, DoneUnitsRest, NoTable,
       Resting, reader_busy, handle_fail, GateAtRest, ReaderAtRest, WriterAtRest

LEMMA IdleIsQuiet ==
  ASSUME Control, ~awaiting PROVE Quiet
BY DEF Control, InStart, InTable, InGo, Idle, Resting, Quiet

\* Units that rest start on unit_start only.
LEMMA UnitsRest ==
  ASSUME TypeOK, Datapath, Resting, ~unit_start PROVE Resting'
<1>1. PICK taken \in SUBSET Willing, closed \in SUBSET Closable :
         ReaderClock(taken) /\ TileClock(taken, closed) /\ WriterClock(closed)
  BY DEF Datapath
<1>2. reader' = reader
  BY <1>1 DEF Resting, reader_busy, ReaderClock, ReaderStart, ReaderFetch, ReaderEmit
<1>3. \A l \in Lanes : ~writer'[l].busy
  BY <1>1 DEF Resting, WriterClock
<1>. QED  BY <1>2, <1>3 DEF Resting, reader_busy

\* A unit that is done is not busy.
LEMMA DoneRests ==
  ASSUME TypeOK, Datapath, DoneUnitsRest PROVE DoneUnitsRest'
<1>1. PICK taken \in SUBSET Willing, closed \in SUBSET Closable :
         ReaderClock(taken) /\ TileClock(taken, closed) /\ WriterClock(closed)
  BY DEF Datapath
<1>2. reader'.done => reader'.phase = "idle"
  <2>1. CASE ReaderStart
    BY <2>1 DEF ReaderStart, TypeOK, Reader, DoneUnitsRest, reader_busy
  <2>2. CASE ReaderFetch
    BY <2>2 DEF ReaderFetch, TypeOK, Reader, DoneUnitsRest, reader_busy
  <2>3. CASE ReaderEmit(taken)
    BY <2>3 DEF ReaderEmit, TypeOK, Reader, DoneUnitsRest, reader_busy
  <2>. QED  BY <1>1, <2>1, <2>2, <2>3 DEF ReaderClock
<1>3. \A l \in Lanes : writer'[l].done => ~writer'[l].busy
  BY <1>1 DEF WriterClock, TypeOK, Writer, DoneUnitsRest
<1>. QED  BY <1>2, <1>3 DEF DoneUnitsRest, reader_busy

\* What one clock makes of the gate.
LEMMA GateMoves ==
  ASSUME TypeOK, Control, Datapath
  PROVE  /\ NoTable'
         /\ gate'.pending => Capacity # 0 /\ job_start /\ length_ok /\ resolve'.done
         /\ gate'.go => gate.pending /\ ~job_start /\ ~gate'.pending
         /\ gate'.fail # "none" /\ ~handle_fail => gate.pending /\ ~gate'.go
         /\ gate'.fail # "none" => ~job_start
<1>1. CASE Capacity = 0
  <2>1. gate' = gate /\ gate = GateAtRest
    BY <1>1 DEF Datapath, GateClock, Control, NoTable
  <2>. QED  BY <2>1, <1>1 DEF GateAtRest, NoTable
<1>2. CASE Capacity # 0
  <2>1. resolve'.done = (job_start /\ length_ok)
    BY <1>2 DEF Datapath, Table, TableClock, Resolve
  <2>2. gate.pending => resolve.done
    BY DEF Control, InTable
  <2>. QED  BY <1>2, <2>1, <2>2 DEF Datapath, GateClock, TypeOK, Gate, NoTable, handle_fail
<1>. QED  BY <1>1, <1>2

\* A host that reads done finds nothing left of the job.
LEMMA DoneIsQuiet == TypeOK /\ Control /\ Patient => DoneIsDone
<1> SUFFICES ASSUME TypeOK, Control, Patient, HostLooks, job_done PROVE Quiet
  BY DEF DoneIsDone
<1>1. ~job_start
  BY DEF Control, InStart, HostLooks
<1>2. CASE length_fail
  BY <1>1, <1>2 DEF Control, OffGrid, Resting, Quiet
<1>3. CASE handle_fail
  BY <1>1, <1>3 DEF Control, Refused, Resting, Quiet
<1>4. CASE ~length_fail /\ ~handle_fail
  <2>1. ~gate.pending /\ reader.done /\ \A l \in Lanes : writer[l].done
    BY <1>4 DEF job_done
  <2>2. ~gate.go
    <3>1. CASE Capacity = 0
      BY <3>1 DEF Control, NoTable, GateAtRest
    <3>2. CASE PollDelay >= 3
      BY <3>2, ShellAssumption DEF Control, InGo, HostLooks, TypeOK
    <3>. QED  BY <3>1, <3>2 DEF Patient
  <2>. QED  BY <1>1, <2>1, <2>2 DEF Control, DoneUnitsRest, Quiet
<1>. QED  BY <1>2, <1>3, <1>4

\* A clock in which no job is submitted, and in which the host goes on
\* waiting unless nothing is left of its job.
LEMMA ControlTicks ==
  ASSUME TypeOK, Control, Datapath, job_start' = FALSE, Elapse,
         awaiting' = awaiting \/ Quiet
  PROVE  Control'
<1>1. since \in Nat /\ PollDelay \in Nat
  BY ShellAssumption DEF TypeOK
<1>2. since' \in Nat /\ since' <= since + 1
  BY <1>1 DEF Elapse
<1>3. InStart'
  BY DEF InStart
<1>4. ASSUME gate'.pending
      PROVE  awaiting' /\ resolve'.done /\ since' <= 1 /\ Resting'
  <2>1. Capacity # 0 /\ job_start /\ length_ok /\ resolve'.done
    BY <1>4, GateMoves
  <2>2. awaiting /\ since = 0 /\ Resting /\ ~gate.go
    BY <2>1 DEF Control, InStart, InGo
  <2>3. Resting'
    BY <2>1, <2>2, UnitsRest DEF unit_start
  <2>. QED  BY <1>1, <1>2, <2>1, <2>2, <2>3 DEF Quiet
<1>5. ASSUME gate'.go
      PROVE  awaiting' /\ ~gate'.pending /\ since' <= 2 /\ Resting'
  <2>1. gate.pending /\ ~job_start /\ ~gate'.pending
    BY <1>5, GateMoves
  <2>2. awaiting /\ since <= 1 /\ Resting /\ ~gate.go
    BY <2>1 DEF Control, InTable, InGo
  <2>3. Resting'
    BY <2>1, <2>2, UnitsRest DEF unit_start
  <2>. QED  BY <1>1, <1>2, <2>1, <2>2, <2>3 DEF Quiet
<1>6. Idle'
  <2> SUFFICES ASSUME ~awaiting' PROVE Resting'
    BY DEF Idle
  <2>1. Quiet
    BY IdleIsQuiet
  <2>. QED  BY <2>1, UnitsRest DEF Quiet, Resting, unit_start
<1>7. OffGrid'
  <2> SUFFICES ASSUME length_fail' PROVE ~gate'.pending /\ ~gate'.go /\ Resting'
    BY DEF OffGrid
  <2>1. length_fail' = IF job_start THEN ~length_ok ELSE length_fail
    BY DEF Datapath, GlueClock
  <2>2. CASE job_start
    BY <2>1, <2>2, GateMoves, UnitsRest DEF Control, InStart, InGo, unit_start
  <2>3. CASE ~job_start
    BY <2>1, <2>3, GateMoves, UnitsRest DEF Control, OffGrid, unit_start
  <2>. QED  BY <2>2, <2>3
<1>8. Refused'
  <2> SUFFICES ASSUME gate'.fail # "none" PROVE ~gate'.pending /\ ~gate'.go /\ Resting'
    BY DEF Refused, handle_fail
  <2>1. ~job_start /\ ~gate'.pending
    BY GateMoves
  <2>2. CASE handle_fail
    BY <2>1, <2>2, GateMoves, UnitsRest DEF Control, Refused, unit_start
  <2>3. CASE ~handle_fail
    BY <2>1, <2>3, GateMoves, UnitsRest DEF Control, InTable, InGo, unit_start
  <2>. QED  BY <2>2, <2>3
<1>9. DoneUnitsRest' /\ NoTable'
  BY DoneRests, GateMoves DEF Control
<1>. QED
  BY <1>3, <1>4, <1>5, <1>6, <1>7, <1>8, <1>9 DEF Control, InTable, InGo

LEMMA NextControl == TypeOK /\ Control /\ Patient /\ [Next]_vars => Control'
<1> SUFFICES ASSUME TypeOK, Control, Patient, [Next]_vars PROVE Control'
  OBVIOUS
<1>1. CASE NoAccess
  BY <1>1, ControlTicks DEF NoAccess, Pulse
<1>2. CASE ProgramEntry
  BY <1>2, ControlTicks DEF ProgramEntry, Pulse
<1>3. CASE NameJob
  BY <1>3, ControlTicks DEF NameJob, Pulse
<1>4. CASE Submit
  <2>1. Quiet /\ Datapath /\ awaiting' /\ bus' /\ job_start' /\ since' = 0
    BY <1>4, IdleIsQuiet DEF Submit, Pulse
  <2>2. Resting'
    BY <2>1, UnitsRest DEF Quiet, Resting, unit_start
  <2>3. ~gate'.pending /\ ~gate'.go
    BY <2>1, GateMoves DEF Quiet
  <2>. QED
    BY <2>1, <2>2, <2>3, DoneRests, GateMoves
       DEF Control, InStart, InTable, InGo, Idle, OffGrid, Refused
<1>5. CASE Poll
  <2>1. job_done => Quiet
    BY <1>5, DoneIsQuiet DEF Poll, HostLooks, DoneIsDone
  <2>2. awaiting' = awaiting \/ Quiet
    BY <1>5, <2>1 DEF Poll
  <2>. QED  BY <1>5, <2>2, ControlTicks DEF Poll, Pulse
<1>6. CASE Reset
  BY <1>6
     DEF Reset, Pulse, Control, InStart, InTable, InGo, Idle, OffGrid, Refused, DoneUnitsRest,
         NoTable, Resting, reader_busy, handle_fail, GateAtRest, ReaderAtRest, WriterAtRest
<1>7. CASE UNCHANGED vars
  BY <1>7
     DEF vars, tableVars, registers, glue, units, host, Control, InStart, InTable, InGo, Idle,
         OffGrid, Refused, DoneUnitsRest, NoTable, Resting, reader_busy, handle_fail
<1>. QED  BY <1>1, <1>2, <1>3, <1>4, <1>5, <1>6, <1>7 DEF Next

\* "Done" is read of the job that was submitted and of a shell that has done
\* with it, when there is no table or the host waits three clocks.
THEOREM DoneMeansDone == ASSUME Patient PROVE Spec => []DoneIsDone
<1>1. Init => TypeOK /\ Control
  BY InitTypes, InitControl
<1>2. TypeOK /\ Control /\ [Next]_vars => (TypeOK /\ Control)'
  BY NextTypes, NextControl
<1>3. TypeOK /\ Control => DoneIsDone
  BY DoneIsQuiet
<1>. QED  BY <1>1, <1>2, <1>3, PTL DEF Spec

------------------------------------------------------------------------------
(* The promise. *)

PromiseStep ==
    \/ Promise!Submit \/ Promise!Judge \/ Promise!Launch \/ Promise!Finish \/ Promise!Abort

PromiseKept == UNCHANGED <<submitted, judged, reading>>

LEMMA NothingSubmitted == ASSUME ~job_start PROVE submitted = Promise!NoRequest
BY DEF submitted, Promise!NoRequest

LEMMA InitPromise == Init => Promise!Init
BY DEF Init, TableInit, Promise!Init, granted, submitted, Promise!NoRequest, judged, reading, outcome, Promise!Slots, Slots,
       Promise!NoGrant, Promise!None, Promise!Outcome, GateAtRest, ReaderAtRest, reader_busy,
       handle_fail

\* Programming the table is an allocation.
LEMMA ProgramAllocates ==
  ASSUME TypeOK, Datapath, Capacity # 0 PROVE granted' = granted \/ Promise!Allocate
<1>1. Program(install, free, staged.index, staged.base, staged.length, staged.generation)
  BY DEF Datapath, Table, TableClock
<1>2. CASE staged.index \notin Slots
  BY <1>1, <1>2 DEF Program, granted
<1>3. CASE staged.index \in Slots /\ free
  <2>1. entry' = [entry EXCEPT ![staged.index].live = FALSE]
    BY <1>1, <1>3 DEF Program
  <2>2. granted' = [granted EXCEPT ![staged.index] = Promise!NoGrant]
    BY <1>3, <2>1 DEF granted, Promise!NoGrant, TypeOK, TableTypeOK, Entry
  <2>. QED  BY <1>3, <2>2 DEF Promise!Allocate, Promise!Slots, Slots
<1>4. CASE staged.index \in Slots /\ ~free /\ install
  <2>. DEFINE grant == [held |-> TRUE, base |-> staged.base, length |-> staged.length,
                        generation |-> staged.generation]
  <2>1. entry' = [entry EXCEPT ![staged.index] =
                    [live |-> TRUE, base |-> staged.base, length |-> staged.length,
                     generation |-> staged.generation]]
    BY <1>1, <1>4 DEF Program
  <2>2. granted' = [granted EXCEPT ![staged.index] = grant]
    BY <1>4, <2>1 DEF granted, TypeOK, TableTypeOK, Entry
  <2>3. staged.base \in Word /\ staged.length \in Word /\ staged.generation \in Word
    BY DEF TypeOK, StagedEntry
  <2>. QED  BY <1>4, <2>2, <2>3 DEF Promise!Allocate, Promise!Slots, Slots
<1>5. CASE staged.index \in Slots /\ ~free /\ ~install
  BY <1>1, <1>5 DEF Program, granted
<1>. QED  BY <1>2, <1>3, <1>4, <1>5 DEF TypeOK

\* The table's fault is the judgement of the grants.
LEMMA FaultJudges ==
  ASSUME TypeOK, Capacity # 0, NEW id \in Word, NEW g \in Word, NEW n \in Word,
         Promise!OnGrid(n)
  PROVE  Promise!Judgement(id, g, n) =
           IF Fault(id, g, n) = "none" THEN outcome("go", entry[ResolveSlot(id)].base, n)
                                       ELSE outcome(Fault(id, g, n), 0, 0)
<1>1. CASE id \notin Slots
  BY <1>1 DEF Promise!Judgement, Promise!Slots, Slots, Promise!Refusal, Promise!Outcome, Fault,
              outcome
<1>2. CASE id \in Slots
  <2>1. granted[id] = IF entry[id].live
                        THEN [held |-> TRUE, base |-> entry[id].base,
                              length |-> entry[id].length, generation |-> entry[id].generation]
                        ELSE [held |-> FALSE, base |-> 0, length |-> 0, generation |-> 0]
    BY <1>2 DEF granted
  <2>2. CASE ~entry[id].live
    <3>0. ~granted[id].held
      BY <2>1, <2>2
    <3>1. Promise!Judgement(id, g, n) = Promise!Refusal("stale")
      BY <1>2, <3>0 DEF Promise!Judgement, Promise!Slots, Slots
    <3>2. Fault(id, g, n) = "stale"
      BY <1>2, <2>2 DEF Fault
    <3>. QED  BY <3>1, <3>2 DEF Promise!Refusal, Promise!Outcome, outcome
  <2>3. CASE entry[id].live
    <3>1. /\ granted[id].held
          /\ granted[id].base = entry[id].base
          /\ granted[id].length = entry[id].length
          /\ granted[id].generation = entry[id].generation
      BY <2>1, <2>3
    <3>. QED
      BY <1>2, <2>3, <3>1
         DEF Promise!Judgement, Promise!Slots, Slots, Promise!Refusal, Promise!Region,
             Promise!Outcome, Fault, outcome, ResolveSlot
  <2>. QED  BY <2>2, <2>3
<1>. QED  BY <1>1, <1>2

\* The clock behind the start pulse judges the job that the registers name.
LEMMA StartJudges ==
  ASSUME TypeOK, Control, Datapath, Capacity # 0, job_start, job' = job, ~job_start'
  PROVE  Promise!Judge
<1>1. Resting /\ ~gate.go
  BY DEF Control, InStart, InGo
<1>2. reading = Promise!None /\ reading' = Promise!None
  <2>1. Resting'
    BY <1>1, UnitsRest DEF unit_start
  <2>. QED  BY <1>1, <2>1 DEF Resting, reading, outcome, Promise!None, Promise!Outcome
<1>3. job.id \in Word /\ job.generation \in Word /\ job.length \in Word
  BY DEF TypeOK, Job
<1>4. gate'.pending = length_ok /\ ~gate'.go /\ length_fail' = ~length_ok
  BY DEF Datapath, GateClock, GlueClock, TypeOK, Gate
<1>5. judged' = Promise!Judgement(job.id, job.generation, job.length)
  <2>1. CASE length_ok
    <3>1. Promise!OnGrid(job.length)
      BY <2>1 DEF length_ok, Promise!OnGrid
    <3>2. /\ resolve'.code = Fault(job.id, job.generation, job.length)
          /\ resolve'.base = entry[ResolveSlot(job.id)].base
      BY DEF Datapath, Table, TableClock, Resolve
    <3>3. judged' = IF resolve'.code = "none"
                      THEN outcome("go", resolve'.base, job.length)
                      ELSE outcome(resolve'.code, 0, 0)
      BY <1>4, <2>1 DEF judged, outcome
    <3>. QED  BY <1>3, <3>1, <3>2, <3>3, FaultJudges
  <2>2. CASE ~length_ok
    <3>1. judged' = outcome("off grid", 0, 0)
      BY <1>4, <2>2 DEF judged, outcome
    <3>2. ~Promise!OnGrid(job.length)
      BY <2>2 DEF length_ok, Promise!OnGrid
    <3>. QED
      BY <3>1, <3>2 DEF Promise!Judgement, Promise!Refusal, Promise!Outcome, outcome
  <2>. QED  BY <2>1, <2>2
<1>6. /\ submitted.asked /\ submitted.id = job.id
      /\ submitted.generation = job.generation /\ submitted.length = job.length
      /\ submitted' = Promise!NoRequest
  BY DEF submitted, Promise!NoRequest
<1>. QED  BY <1>2, <1>5, <1>6 DEF Promise!Judge

\* The clock of the table's answer moves the judgement to the go pulse.
LEMMA AnswerKeeps ==
  ASSUME TypeOK, Control, Datapath, Capacity # 0, gate.pending, job' = job, ~job_start'
  PROVE  PromiseKept
<1>1. ~job_start /\ resolve.done /\ Resting /\ ~gate.go /\ ~length_fail /\ ~handle_fail
  BY DEF Control, InTable, InGo, OffGrid, Refused
<1>2. gate' = [pending |-> FALSE, fail |-> resolve.code, go |-> resolve.code = "none",
               base |-> resolve.base]
  BY <1>1 DEF Datapath, GateClock
<1>3. ~length_fail'
  BY <1>1 DEF Datapath, GlueClock
<1>4. judged' = judged
  BY <1>2, <1>3 DEF judged, outcome, handle_fail
<1>5. reading' = reading
  <2>1. Resting'
    BY <1>1, UnitsRest DEF unit_start
  <2>. QED  BY <1>1, <2>1 DEF Resting, reading, outcome
<1>. QED  BY <1>1, <1>4, <1>5 DEF PromiseKept, submitted

\* The clock of the go pulse launches it.
LEMMA GoLaunches ==
  ASSUME TypeOK, Control, Datapath, Capacity # 0, gate.go, ~job_start'
  PROVE  Promise!Launch
<1>1. ~job_start /\ ~gate.pending /\ Resting /\ ~length_fail /\ ~handle_fail
  BY DEF Control, InGo, OffGrid, Refused
<1>2. PICK taken \in SUBSET Willing : ReaderClock(taken)
  BY DEF Datapath
<1>3. reader'.phase = "fetch" /\ reader'.base = gate.base /\ reader'.length = job.length
  BY <1>1, <1>2
     DEF ReaderClock, ReaderStart, ReaderFetch, ReaderEmit, Resting, reader_busy, unit_start,
         reader_address, TypeOK, Reader
<1>4. ~gate'.pending /\ ~gate'.go /\ gate'.fail = "none"
  BY <1>1 DEF Datapath, GateClock, TypeOK, Gate, handle_fail
<1>5. ~length_fail'
  BY <1>1 DEF Datapath, GlueClock
<1>6. judged = outcome("go", gate.base, job.length) /\ reading = outcome("none", 0, 0)
  BY <1>1 DEF judged, reading, Resting
<1>7. judged' = outcome("none", 0, 0) /\ reading' = outcome("go", gate.base, job.length)
  BY <1>3, <1>4, <1>5 DEF judged, reading, reader_busy, handle_fail, outcome
<1>8. submitted' = submitted
  BY <1>1 DEF submitted
<1>. QED  BY <1>6, <1>7, <1>8 DEF Promise!Launch, Promise!None, Promise!Outcome, outcome

\* Any other clock lets the reader go on, or finish.
LEMMA OtherwiseReads ==
  ASSUME TypeOK, Control, Datapath, Capacity # 0, ~job_start, ~gate.pending, ~gate.go
  PROVE  \/ /\ reading # Promise!None /\ reading' = Promise!None
            /\ judged' = judged
         \/ judged' = judged /\ reading' = reading
<1>1. gate' = gate
  BY DEF Datapath, GateClock, TypeOK, Gate
<1>2. length_fail' = length_fail
  BY DEF Datapath, GlueClock
<1>3. judged' = judged
  BY <1>1, <1>2 DEF judged, outcome, handle_fail
<1>4. PICK taken \in SUBSET Willing : ReaderClock(taken)
  BY DEF Datapath
<1>5. CASE ReaderStart
  BY <1>3, <1>5 DEF ReaderStart, unit_start, reading, reader_busy, outcome
<1>6. CASE ReaderFetch
  BY <1>3, <1>6 DEF ReaderFetch, reading, reader_busy, outcome, TypeOK, Reader
<1>7. CASE ReaderEmit(taken)
  <2>1. reader_busy
    BY <1>7 DEF ReaderEmit, reader_busy
  <2>2. reader'.base = reader.base /\ reader'.length = reader.length
    BY <1>7 DEF ReaderEmit, TypeOK, Reader
  <2>3. CASE reader'.phase = "idle"
    <3>1. reading # Promise!None /\ reading' = Promise!None
      BY <2>1, <2>3 DEF reading, reader_busy, outcome, Promise!None, Promise!Outcome
    <3>. QED  BY <1>3, <3>1
  <2>4. CASE reader'.phase # "idle"
    BY <1>3, <2>1, <2>2, <2>4 DEF reading, reader_busy, outcome
  <2>. QED  BY <2>3, <2>4
<1>. QED  BY <1>4, <1>5, <1>6, <1>7 DEF ReaderClock

\* A clock in which the host leaves the registers of a job it waits for alone.
LEMMA ClockKeepsPromise ==
  ASSUME TypeOK, Control, Datapath, Capacity # 0,
         awaiting => job' = job /\ ~job_start', job_start' => job' = job
  PROVE  /\ granted' = granted \/ Promise!Allocate
         /\ PromiseStep \/ PromiseKept
<1>1. granted' = granted \/ Promise!Allocate
  BY ProgramAllocates
<1>2. CASE job_start
  BY <1>1, <1>2, StartJudges DEF Control, InStart, PromiseStep
<1>3. CASE gate.pending
  BY <1>1, <1>3, AnswerKeeps DEF Control, InTable
<1>4. CASE gate.go
  BY <1>1, <1>4, GoLaunches DEF Control, InGo, PromiseStep
<1>5. CASE ~job_start /\ ~gate.pending /\ ~gate.go
  <2>1. submitted = Promise!NoRequest
    BY <1>5, NothingSubmitted
  <2>2. CASE ~job_start'
    <3>1. submitted' = submitted
      BY <1>5, <2>2 DEF submitted
    <3>. QED
      BY <1>1, <1>5, <3>1, OtherwiseReads DEF PromiseStep, PromiseKept, Promise!Finish
  <2>3. CASE job_start'
    <3>1. ~awaiting /\ job' = job
      BY <2>3
    <3>2. reading = Promise!None /\ judged.kind # "go"
      <4>1. Quiet
        BY <3>1, IdleIsQuiet
      <4>2. handle_fail => gate.fail # "go"
        BY DEF TypeOK, Gate, FaultCodes
      <4>. QED
        BY <1>5, <4>1, <4>2
           DEF Quiet, reading, judged, outcome, Promise!None, Promise!Outcome, handle_fail
    <3>3. judged' = judged /\ reading' = reading
      BY <1>5, <3>2, OtherwiseReads
    <3>4. submitted' = Promise!Request(job.id, job.generation, job.length)
      BY <2>3, <3>1 DEF submitted, Promise!Request
    <3>5. job.id \in Word /\ job.generation \in Word /\ job.length \in Word
      BY DEF TypeOK, Job
    <3>6. Promise!Submit
      BY <2>1, <3>2, <3>3, <3>4, <3>5 DEF Promise!Submit
    <3>. QED  BY <1>1, <3>6 DEF PromiseStep
  <2>. QED  BY <2>2, <2>3
<1>. QED  BY <1>1, <1>2, <1>3, <1>4, <1>5

LEMMA ResetKeepsPromise ==
  ASSUME TypeOK, Reset PROVE Promise!Allocate /\ Promise!Abort
<1>1. granted' = [i \in Slots |-> Promise!NoGrant]
  BY DEF Reset, TableReset, granted, Promise!NoGrant, TypeOK, TableTypeOK, Entry
<1>2. judged' = Promise!None /\ reading' = Promise!None /\ submitted' = Promise!NoRequest
  BY DEF Reset, Pulse, submitted, Promise!NoRequest, judged, reading, outcome, GateAtRest, ReaderAtRest, reader_busy, handle_fail,
         Promise!None, Promise!Outcome
<1>. QED  BY <1>1, <1>2 DEF Promise!Allocate, Promise!Abort, Promise!Slots, Slots

LEMMA NextKeepsPromise ==
  ASSUME TypeOK, Control, Capacity # 0, ~StagesEarly, [Next]_vars
  PROVE  /\ [Promise!Allocate]_granted
         /\ [PromiseStep]_<<submitted, judged, reading>>
<1>1. CASE NoAccess \/ ProgramEntry \/ NameJob \/ Submit \/ Poll
  <2>1. /\ Datapath
        /\ awaiting => job' = job /\ ~job_start'
        /\ job_start' => job' = job
    BY <1>1 DEF NoAccess, ProgramEntry, NameJob, Submit, Poll, Pulse
  <2>. QED  BY <2>1, ClockKeepsPromise DEF PromiseKept
<1>2. CASE Reset
  BY <1>2, ResetKeepsPromise DEF PromiseStep
<1>3. CASE UNCHANGED vars
  BY <1>3
     DEF vars, tableVars, registers, glue, units, granted, submitted, judged, reading, reader_busy,
         handle_fail
<1>. QED  BY <1>1, <1>2, <1>3 DEF Next

\* A shell with a table, driven by a host that waits and that leaves a job's
\* registers alone until the job is done, judges every job by the handle,
\* generation and length the host wrote, and reads for it the region that
\* handle was granted or nothing at all.
THEOREM TableKeepsPromise ==
  ASSUME Capacity # 0, PollDelay >= 3, ~StagesEarly
  PROVE  Spec => KeepsPromise
<1>1. Init => TypeOK /\ Control /\ Promise!Init
  BY InitTypes, InitControl, InitPromise
<1>2. TypeOK /\ Control /\ [Next]_vars => (TypeOK /\ Control)'
  BY NextTypes, NextControl DEF Patient
<1>3. TypeOK /\ Control /\ [Next]_vars =>
        [Promise!Allocate]_granted /\ [PromiseStep]_<<submitted, judged, reading>>
  BY NextKeepsPromise
<1>. QED  BY <1>1, <1>2, <1>3, PTL
         DEF Spec, KeepsPromise, Promise!Spec, Promise!jobVars, PromiseStep

------------------------------------------------------------------------------
(* The row grid. *)

\* The length of a job that waits for the table, or for its units, was good
\* when it was submitted, and is the same.
Graded == gate.pending \/ gate.go => length_ok

LEMMA NextGraded ==
  ASSUME TypeOK, Control, Graded, Capacity = 0 \/ ~StagesEarly, [Next]_vars
  PROVE  Graded'
<1>1. CASE NoAccess \/ ProgramEntry \/ NameJob \/ Submit \/ Poll
  <2>1. Datapath /\ (awaiting => job' = job \/ Capacity = 0)
    BY <1>1 DEF NoAccess, ProgramEntry, NameJob, Submit, Poll
  <2> SUFFICES ASSUME gate'.pending \/ gate'.go PROVE length_ok'
    BY DEF Graded
  <2>2. (job_start /\ length_ok) \/ gate.pending
    BY <2>1, GateMoves
  <2>3. length_ok /\ awaiting
    BY <2>2 DEF Control, InStart, InTable, Graded
  <2>4. Capacity # 0
    BY <2>1, GateMoves, <2>2 DEF NoTable, GateAtRest, Control
  <2>. QED  BY <2>1, <2>3, <2>4 DEF length_ok
<1>2. CASE Reset
  BY <1>2 DEF Reset, Graded, GateAtRest
<1>3. CASE UNCHANGED vars
  BY <1>3 DEF vars, registers, glue, Graded, length_ok
<1>. QED  BY <1>1, <1>2, <1>3 DEF Next

\* The units never start on a length off the row grid: without a table
\* whatever the host does, with one if it leaves the registers of a job it
\* waits for alone.
THEOREM GridIsEnforced ==
  ASSUME Patient, Capacity = 0 \/ ~StagesEarly
  PROVE  Spec => []GridEnforced
<1>1. Init => TypeOK /\ Control /\ Graded
  BY InitTypes, InitControl DEF Init, Graded, GateAtRest
<1>2. TypeOK /\ Control /\ Graded /\ [Next]_vars => (TypeOK /\ Control /\ Graded)'
  BY NextTypes, NextControl, NextGraded
<1>3. TypeOK /\ Control /\ Graded => GridEnforced
  BY DEF Graded, GridEnforced, unit_start
<1>. QED  BY <1>1, <1>2, <1>3, PTL DEF Spec

------------------------------------------------------------------------------
(* The batches in the lanes. *)

Empty == \A l \in Lanes : tile[l] = "empty"

Pulsed == job_start \/ gate.pending \/ gate.go

\* Before its units start a job finds the lanes empty.
Cleared == Pulsed => Empty

\* So does a host that has read done, once its access has been answered.
Swept == ~awaiting => Empty \/ (pipeline_error_reset /\ bus)

\* The edge detector has seen the end of the last job before the next starts.
Settled == (~awaiting \/ job_start) /\ job_done => prev_done

\* The units start together.
Started ==
    ~Resting =>
      (reader_busy \/ reader.done) /\ \A l \in Lanes : writer[l].busy \/ writer[l].done

\* Units that have ended leave empty lanes, or the reset is on its way.
Left ==
    Resting /\ ~Pulsed =>
      Empty \/ pipeline_error_reset \/ (job_done /\ ~prev_done /\ job_error)

SentReset == reader.phase # "emit" => reader.sent = {}

\* If the reader is still at work, then on the last beat, which l has taken.
HasLast(l) == reader_busy => reader.phase = "emit" /\ reader.last /\ l \in reader.sent

Whole == \A l \in Lanes : tile[l] \in {"full", "closing"} => HasLast(l)

GoodLanes ==
    \A l \in Lanes : writer[l].done /\ ~writer[l].error => tile[l] = "empty" /\ HasLast(l)

ResetRests == pipeline_error_reset => Resting \/ (reader.phase = "fetch" /\ Empty)

Batches ==
    /\ Cleared /\ Swept /\ Settled
    /\ Started /\ Left
    /\ SentReset /\ Whole /\ GoodLanes
    /\ ResetRests

LEMMA InitBatches == Init => Batches
BY DEF Init, Batches, Cleared, Swept, Settled, Started, Left, SentReset, Whole, GoodLanes,
       ResetRests, Empty, Pulsed, Resting, HasLast, job_done, reader_busy, handle_fail,
       ReaderAtRest, WriterAtRest, GateAtRest

\* An empty lane stays empty while the reader holds no beat out, and the
\* reset empties all.
LEMMA StaysEmpty ==
  ASSUME TypeOK, Datapath, Empty \/ pipeline_error_reset,
         pipeline_error_reset \/ reader.phase # "emit"
  PROVE  Empty'
<1>1. PICK taken \in SUBSET (IF reader.phase = "emit" THEN Willing ELSE {}),
           closed \in SUBSET Closable :
         TileClock(taken, closed)
  BY DEF Datapath
<1>2. ASSUME NEW l \in Lanes PROVE tile'[l] = "empty"
  <2>1. tile'[l] \in TileMoves(l, taken, closed)
    BY <1>1 DEF TileClock
  <2>2. CASE pipeline_error_reset
    BY <2>1, <2>2 DEF TileMoves
  <2>3. CASE ~pipeline_error_reset
    <3>1. l \notin taken /\ tile[l] = "empty"
      BY <1>1, <2>3 DEF Empty
    <3>. QED  BY <2>1, <3>1 DEF TileMoves
  <2>. QED  BY <2>2, <2>3
<1>. QED  BY <1>2 DEF Empty

\* The units start only where they rest, and then all of them.
LEMMA UnitsStart ==
  ASSUME TypeOK, Control, Datapath, unit_start
  PROVE  /\ Resting
         /\ reader'.phase = "fetch" /\ reader'.sent = reader.sent
         /\ \A l \in Lanes : writer'[l].busy /\ ~writer'[l].done
<1>1. Resting
  BY DEF unit_start, Control, InStart, InGo
<1>2. PICK taken \in SUBSET Willing, closed \in SUBSET Closable :
         ReaderClock(taken) /\ WriterClock(closed)
  BY DEF Datapath
<1>3. reader'.phase = "fetch" /\ reader'.sent = reader.sent
  BY <1>1, <1>2 DEF Resting, reader_busy, ReaderClock, ReaderStart, ReaderFetch, ReaderEmit,
                    TypeOK, Reader
<1>4. \A l \in Lanes : writer'[l].busy /\ ~writer'[l].done
  BY <1>1, <1>2 DEF Resting, WriterClock
<1>. QED  BY <1>1, <1>3, <1>4

\* Done is of units that rest, or of the last job's while the go pulse is up.
LEMMA DoneMeansResting ==
  ASSUME Control, job_done, ~job_start
  PROVE  Resting /\ ~gate.pending
<1>1. CASE length_fail
  BY <1>1 DEF Control, OffGrid
<1>2. CASE handle_fail
  BY <1>2 DEF Control, Refused
<1>3. CASE ~length_fail /\ ~handle_fail
  BY <1>3 DEF job_done, Control, DoneUnitsRest, Resting
<1>. QED  BY <1>1, <1>2, <1>3

\* What a clock without a reset makes of a lane.
LEMMA LaneMoves ==
  ASSUME TypeOK, ~pipeline_error_reset, NEW l \in Lanes, NEW taken, NEW closed,
         NEW t \in TileMoves(l, taken, closed)
  PROVE  /\ t \in {"full", "closing"} =>
              tile[l] \in {"full", "closing"} \/ (l \in taken /\ reader.last)
         /\ l \in closed => t = "empty"
         /\ tile[l] = "empty" /\ l \notin taken => t = "empty"
<1>0. CASE l \in closed
  <2>1. t = "empty"
    BY <1>0 DEF TileMoves
  <2>. QED  BY <2>1
<1>1. CASE l \notin closed /\ l \in taken
  <2>1. CASE reader.last
    BY <1>1, <2>1 DEF TileMoves
  <2>2. CASE ~reader.last
    <3>1. t = "open"
      BY <1>1, <2>2 DEF TileMoves
    <3>. QED  BY <1>1, <3>1
  <2>. QED  BY <2>1, <2>2
<1>2. CASE l \notin closed /\ l \notin taken
  <2>1. CASE tile[l] = "open"
    BY <1>2, <2>1 DEF TileMoves, Closed
  <2>2. CASE tile[l] = "full"
    BY <1>2, <2>2 DEF TileMoves, Closed
  <2>3. CASE tile[l] \notin {"open", "full"}
    <3>1. TileMoves(l, taken, closed) = {tile[l]}
      BY <1>2, <2>3 DEF TileMoves
    <3>2. t = tile[l]
      BY <3>1
    <3>. QED  BY <3>2, <2>3, <1>2
  <2>. QED  BY <2>1, <2>2, <2>3
<1>. QED  BY <1>0, <1>1, <1>2

\* The reader and the broadcast: the beat's last goes with the beat.
LEMMA ReaderMoves ==
  ASSUME TypeOK, ~unit_start, NEW taken \in SUBSET Lanes, ReaderClock(taken),
         pipeline_error_reset => reader.phase # "emit", NEW l \in Lanes,
         taken # {} => reader.phase = "emit",
         (reader_busy /\ HasLast(l)) \/ (l \in taken /\ reader.last) \/ ~reader_busy
  PROVE  HasLast(l)'
<1>1. CASE ReaderStart
  BY <1>1 DEF ReaderStart, HasLast, reader_busy
<1>2. CASE ReaderFetch
  BY <1>2 DEF ReaderFetch, HasLast, reader_busy
<1>3. CASE ReaderEmit(taken)
  <2>1. reader.last /\ l \in reader.sent \union taken /\ ~pipeline_error_reset
    BY <1>3 DEF ReaderEmit, HasLast, reader_busy
  <2>. QED  BY <1>3, <2>1 DEF ReaderEmit, HasLast, reader_busy, TypeOK, Reader
<1>. QED  BY <1>1, <1>2, <1>3 DEF ReaderClock

LEMMA SentTicks ==
  ASSUME TypeOK, Datapath, SentReset PROVE SentReset'
<1>1. PICK taken \in SUBSET Willing : ReaderClock(taken)
  BY DEF Datapath
<1>2. CASE ReaderStart
  BY <1>2 DEF ReaderStart, SentReset, TypeOK, Reader
<1>3. CASE ReaderFetch
  BY <1>3 DEF ReaderFetch, SentReset, TypeOK, Reader
<1>4. CASE ReaderEmit(taken)
  BY <1>4 DEF ReaderEmit, SentReset, TypeOK, Reader
<1>. QED  BY <1>1, <1>2, <1>3, <1>4 DEF ReaderClock

\* A full batch has been through the broadcast, and a good lane has had one.
LEMMA LanesTick ==
  ASSUME TypeOK, Control, Batches, Datapath PROVE Whole' /\ GoodLanes'
<1>1. CASE pipeline_error_reset
  <2>1. reader.phase # "emit" /\ (Empty \/ pipeline_error_reset)
    BY <1>1 DEF Batches, ResetRests, Resting, reader_busy
  <2>2. Empty'
    BY <1>1, <2>1, StaysEmpty
  <2>3. \A l \in Lanes : ~(writer'[l].done /\ ~writer'[l].error /\ reader'.phase # "idle")
    <3>1. CASE unit_start
      BY <3>1, UnitsStart
    <3>2. CASE ~unit_start
      <4>1. CASE Resting
        BY <4>1, <3>2, UnitsRest DEF Resting, reader_busy
      <4>2. CASE ~Resting
        <5>1. reader.phase = "fetch" /\ Empty
          BY <1>1, <4>2 DEF Batches, ResetRests
        <5>2. \A l \in Lanes : ~(writer[l].done /\ ~writer[l].error)
          BY <5>1 DEF Batches, GoodLanes, HasLast, reader_busy
        <5>3. PICK closed \in SUBSET Closable : WriterClock(closed)
          BY DEF Datapath
        <5>4. closed = {}
          BY <5>1 DEF Closable, Empty, Closed
        <5>. QED  BY <3>2, <5>2, <5>3, <5>4 DEF WriterClock
      <4>. QED  BY <4>1, <4>2
    <3>. QED  BY <3>1, <3>2
  <2>. QED  BY <2>2, <2>3 DEF Whole, GoodLanes, Empty, HasLast, reader_busy
<1>2. CASE unit_start /\ ~pipeline_error_reset
  <2>1. Empty /\ reader.phase # "emit"
    BY <1>2, UnitsStart DEF Batches, Cleared, Pulsed, unit_start, Resting, reader_busy
  <2>2. Empty'
    BY <2>1, StaysEmpty
  <2>. QED  BY <1>2, <2>2, UnitsStart DEF Whole, GoodLanes, Empty
<1>3. CASE ~unit_start /\ ~pipeline_error_reset
  <2>1. PICK taken \in SUBSET (IF reader.phase = "emit" THEN Willing ELSE {}),
             closed \in SUBSET Closable :
           ReaderClock(taken) /\ TileClock(taken, closed) /\ WriterClock(closed)
    BY DEF Datapath
  <2>2. taken \in SUBSET Lanes /\ (taken # {} => reader.phase = "emit")
    BY <2>1 DEF Willing
  <2>3. ASSUME NEW l \in Lanes, HasLast(l) \/ (l \in taken /\ reader.last)
        PROVE  HasLast(l)'
    BY <1>3, <2>1, <2>2, <2>3, ReaderMoves
  <2>4. ASSUME NEW l \in Lanes, tile'[l] \in {"full", "closing"} PROVE HasLast(l)'
    <3>1. tile'[l] \in TileMoves(l, taken, closed)
      BY <2>1 DEF TileClock
    <3>2. tile[l] \in {"full", "closing"} \/ (l \in taken /\ reader.last)
      BY <1>3, <2>4, <3>1, LaneMoves
    <3>. QED  BY <2>3, <3>2 DEF Batches, Whole
  <2>5. ASSUME NEW l \in Lanes, writer'[l].done, ~writer'[l].error
        PROVE  tile'[l] = "empty" /\ HasLast(l)'
    <3>1. tile'[l] \in TileMoves(l, taken, closed)
      BY <2>1 DEF TileClock
    <3>2. CASE l \in closed
      <4>1. writer[l].busy /\ tile[l] \in Closed
        BY <3>2 DEF Closable
      <4>2. tile[l] # "failing"
        BY <2>1, <2>5, <3>2, <4>1 DEF WriterClock
      <4>3. HasLast(l)
        BY <4>1, <4>2 DEF Closed, Batches, Whole
      <4>4. tile'[l] = "empty"
        BY <1>3, <3>1, <3>2, LaneMoves
      <4>. QED  BY <2>3, <4>3, <4>4
    <3>3. CASE l \notin closed
      <4>1. writer[l].done /\ ~writer[l].error
        BY <1>3, <2>1, <2>5, <3>3 DEF WriterClock
      <4>2. tile[l] = "empty" /\ HasLast(l)
        BY <4>1 DEF Batches, GoodLanes
      <4>3. l \notin taken
        BY <2>1, <4>2 DEF HasLast, reader_busy, Willing
      <4>4. tile'[l] = "empty"
        BY <1>3, <3>1, <4>2, <4>3, LaneMoves
      <4>. QED  BY <2>3, <4>2, <4>4
    <3>. QED  BY <3>2, <3>3
  <2>. QED  BY <2>4, <2>5 DEF Whole, GoodLanes
<1>. QED  BY <1>1, <1>2, <1>3

\* A shell in which nothing is left of a job does not come to be done.
LEMMA QuietStays ==
  ASSUME TypeOK, Control, Datapath, Quiet, job_done'
  PROVE  job_done
<1>1. reader' = reader
  <2>1. PICK taken \in SUBSET Willing : ReaderClock(taken)
    BY DEF Datapath
  <2>. QED
    BY <2>1 DEF Quiet, reader_busy, unit_start, ReaderClock, ReaderStart, ReaderFetch, ReaderEmit
<1>2. writer' = writer
  <2>1. PICK closed \in SUBSET Closable : WriterClock(closed)
    BY DEF Datapath
  <2>2. writer' = [l \in Lanes |-> writer[l]]
    BY <2>1 DEF Quiet, unit_start, WriterClock
  <2>. QED  BY <2>2 DEF TypeOK
<1>3. gate'.fail = gate.fail /\ length_fail' = length_fail /\ ~gate'.pending
  BY DEF Datapath, GateClock, GlueClock, Quiet, TypeOK, Gate
<1>. QED  BY <1>1, <1>2, <1>3 DEF job_done, handle_fail, Quiet

LEMMA StartedTicks ==
  ASSUME TypeOK, Control, Datapath, Started
  PROVE  /\ Started'
         /\ ~Resting => /\ reader'.phase # "idle" \/ reader'.done
                        /\ \A l \in Lanes : writer'[l].busy \/ writer'[l].done
<1>1. CASE unit_start
  BY <1>1, UnitsStart DEF Started, reader_busy, Resting
<1>2. CASE ~unit_start /\ Resting
  BY <1>2, UnitsRest DEF Started
<1>3. CASE ~unit_start /\ ~Resting
  <2>1. PICK taken \in SUBSET Willing, closed \in SUBSET Closable :
           ReaderClock(taken) /\ WriterClock(closed)
    BY DEF Datapath
  <2>2. \A l \in Lanes : writer'[l].busy \/ writer'[l].done
    BY <1>3, <2>1 DEF Started, WriterClock
  <2>3. reader'.phase # "idle" \/ reader'.done
    <3>1. CASE ReaderStart
      BY <1>3, <3>1 DEF ReaderStart, Started, reader_busy
    <3>2. CASE ReaderFetch
      BY <3>2 DEF ReaderFetch, TypeOK, Reader
    <3>3. CASE ReaderEmit(taken)
      BY <3>3 DEF ReaderEmit, TypeOK, Reader
    <3>. QED  BY <2>1, <3>1, <3>2, <3>3 DEF ReaderClock
  <2>. QED  BY <2>2, <2>3 DEF Started, reader_busy
<1>. QED  BY <1>1, <1>2, <1>3

\* The reset comes behind the units, or with the start of the next job's.
LEMMA ResetTicks ==
  ASSUME TypeOK, Control, Batches, Datapath PROVE ResetRests'
<1> SUFFICES ASSUME pipeline_error_reset'
             PROVE  Resting' \/ (reader'.phase = "fetch" /\ Empty')
  BY DEF ResetRests
<1>1. job_done /\ ~prev_done
  BY DEF Datapath, GlueClock
<1>2. ~job_start
  BY <1>1 DEF Batches, Settled
<1>3. Resting /\ ~gate.pending
  BY <1>1, <1>2, DoneMeansResting
<1>4. CASE unit_start
  <2>1. Empty
    BY <1>4 DEF unit_start, Batches, Cleared, Pulsed
  <2>2. Empty'
    BY <1>3, <2>1, StaysEmpty DEF Resting, reader_busy
  <2>. QED  BY <1>4, <2>2, UnitsStart
<1>5. CASE ~unit_start
  BY <1>3, <1>5, UnitsRest
<1>. QED  BY <1>4, <1>5

\* Units that end leave their lanes empty or let the reset come.
LEMMA LeftTicks ==
  ASSUME TypeOK, Control, Batches, Datapath PROVE Left'
<1> SUFFICES ASSUME Resting', ~gate'.pending
             PROVE  \/ Empty'
                    \/ pipeline_error_reset'
                    \/ job_done' /\ ~prev_done' /\ job_error'
  BY DEF Left, Pulsed
<1>1. CASE ~Resting
  <2>1. ~job_start
    BY <1>1 DEF Control, InStart
  <2>2. ~prev_done'
    BY <1>1, <2>1, DoneMeansResting DEF Datapath, GlueClock
  <2>3. reader'.done /\ \A l \in Lanes : writer'[l].done
    BY <1>1, StartedTicks DEF Batches, Resting, reader_busy
  <2>4. job_done'
    BY <2>3 DEF job_done
  <2>5. CASE job_error'
    BY <2>2, <2>4, <2>5
  <2>6. CASE ~job_error'
    <3>1. \A l \in Lanes : writer'[l].done /\ ~writer'[l].error
      BY <2>3, <2>6 DEF job_error
    <3>2. Empty'
      BY <3>1, LanesTick DEF GoodLanes, Empty
    <3>. QED  BY <3>2
  <2>. QED  BY <2>5, <2>6
<1>2. CASE Resting
  <2>1. ~unit_start
    BY UnitsStart DEF Resting, reader_busy
  <2>2. reader.phase # "emit"
    BY <1>2 DEF Resting, reader_busy
  <2>3. CASE Empty \/ pipeline_error_reset
    BY <2>2, <2>3, StaysEmpty
  <2>4. CASE ~Empty /\ ~pipeline_error_reset
    <3>1. job_done /\ ~prev_done /\ job_error
      BY <1>2, <2>4 DEF Batches, Left, Cleared
    <3>. QED  BY <3>1 DEF Datapath, GlueClock
  <2>. QED  BY <2>3, <2>4
<1>. QED  BY <1>1, <1>2

\* What the host may do in a clock: it submits a job when it waits for none
\* and its last access is answered, and stops waiting when it reads done of a
\* shell in which nothing is left of the job.
LEMMA BatchesTick ==
  ASSUME TypeOK, Control, Batches, Datapath,
         job_start' => ~awaiting /\ ~bus,
         ~awaiting' /\ awaiting => job_done /\ Quiet /\ bus'
  PROVE  Batches'
<1>0. Resting => reader.phase # "emit"
  BY DEF Resting, reader_busy
<1>1. Cleared'
  <2> SUFFICES ASSUME Pulsed' PROVE Empty'
    BY DEF Cleared
  <2>1. CASE job_start'
    <3>1. Empty /\ Resting
      <4>1. ~awaiting /\ ~bus
        BY <2>1
      <4>. QED  BY <4>1 DEF Batches, Swept, Control, Idle
    <3>. QED  BY <1>0, <3>1, StaysEmpty
  <2>2. CASE gate'.pending \/ gate'.go
    <3>1. job_start \/ gate.pending
      BY <2>2, GateMoves
    <3>2. Empty /\ Resting
      BY <3>1 DEF Batches, Cleared, Pulsed, Control, InStart, InTable
    <3>. QED  BY <1>0, <3>2, StaysEmpty
  <2>. QED  BY <2>1, <2>2 DEF Pulsed
<1>2. Swept'
  <2> SUFFICES ASSUME ~awaiting' PROVE Empty' \/ (pipeline_error_reset' /\ bus')
    BY DEF Swept
  <2>1. CASE ~awaiting
    <3>1. (Empty \/ pipeline_error_reset) /\ Resting
      BY <2>1 DEF Batches, Swept, Control, Idle
    <3>. QED  BY <1>0, <3>1, StaysEmpty
  <2>2. CASE awaiting
    <3>1. job_done /\ Quiet /\ bus' /\ Resting /\ ~Pulsed
      BY <2>2 DEF Quiet, Resting, Pulsed
    <3>2. CASE Empty \/ pipeline_error_reset
      BY <1>0, <3>1, <3>2, StaysEmpty
    <3>3. CASE ~Empty /\ ~pipeline_error_reset
      <4>1. job_done /\ ~prev_done /\ job_error
        BY <3>1, <3>3 DEF Batches, Left
      <4>. QED  BY <3>1, <4>1 DEF Datapath, GlueClock
    <3>. QED  BY <3>2, <3>3
  <2>. QED  BY <2>1, <2>2
<1>3. Settled'
  <2> SUFFICES ASSUME ~awaiting' \/ job_start', job_done' PROVE prev_done'
    BY DEF Settled
  <2>1. Quiet
    BY IdleIsQuiet
  <2>2. job_done
    BY <2>1, QuietStays
  <2>. QED  BY <2>2 DEF Datapath, GlueClock
<1>4. Started' /\ Left'
  BY StartedTicks, LeftTicks DEF Batches
<1>5. SentReset' /\ Whole' /\ GoodLanes' /\ ResetRests'
  BY SentTicks, LanesTick, ResetTicks DEF Batches
<1>. QED  BY <1>1, <1>2, <1>3, <1>4, <1>5 DEF Batches

LEMMA NextBatches == TypeOK /\ Control /\ Batches /\ Patient /\ [Next]_vars => Batches'
<1> SUFFICES ASSUME TypeOK, Control, Batches, Patient, [Next]_vars PROVE Batches'
  OBVIOUS
<1>1. CASE NoAccess
  BY <1>1, BatchesTick DEF NoAccess, Pulse
<1>2. CASE ProgramEntry
  BY <1>2, BatchesTick DEF ProgramEntry, Pulse
<1>3. CASE NameJob
  BY <1>3, BatchesTick DEF NameJob, Pulse
<1>4. CASE Submit
  BY <1>4, BatchesTick DEF Submit, Pulse
<1>5. CASE Poll
  <2>1. job_done => Quiet
    BY <1>5, DoneIsQuiet DEF Poll, HostLooks, DoneIsDone
  <2>. QED  BY <1>5, <2>1, BatchesTick DEF Poll, Pulse
<1>6. CASE Reset
  BY <1>6
     DEF Reset, Pulse, Batches, Cleared, Swept, Settled, Started, Left, SentReset, Whole,
         GoodLanes, ResetRests, Empty, Pulsed, Resting, HasLast, job_done, reader_busy,
         handle_fail, ReaderAtRest, WriterAtRest, GateAtRest
<1>7. CASE UNCHANGED vars
  BY <1>7
     DEF vars, tableVars, registers, glue, units, host, Batches, Cleared, Swept, Settled,
         Started, Left, SentReset, Whole, GoodLanes, ResetRests, Empty, Pulsed, Resting,
         HasLast, job_done, job_error, reader_busy, handle_fail
<1>. QED  BY <1>1, <1>2, <1>3, <1>4, <1>5, <1>6, <1>7 DEF Next

LEMMA BatchesInvariant == ASSUME Patient PROVE Spec => [](TypeOK /\ Control /\ Batches)
<1>1. Init => TypeOK /\ Control /\ Batches
  BY InitTypes, InitControl, InitBatches
<1>2. TypeOK /\ Control /\ Batches /\ [Next]_vars => (TypeOK /\ Control /\ Batches)'
  BY NextTypes, NextControl, NextBatches
<1>. QED  BY <1>1, <1>2, PTL DEF Spec

\* A job's units start with nothing of an earlier job in a lane, whether or
\* not a tile keeps to one status per batch, and whatever the host writes
\* while it waits.
THEOREM JobsStartClean == ASSUME Patient PROVE Spec => []StartsClean
<1>1. TypeOK /\ Control /\ Batches => StartsClean
  BY DEF StartsClean, Control, InStart, InGo, Resting, reader_busy, unit_start, Batches, Cleared,
         Pulsed, Empty, SentReset
<1>. QED  BY <1>1, BatchesInvariant, PTL

\* The reset behind an error never takes a row of a running job.
THEOREM ResetTakesNoRow == ASSUME Patient PROVE Spec => []ResetLosesNothing
<1>1. TypeOK /\ Control /\ Batches => ResetLosesNothing
  BY DEF ResetLosesNothing, Batches, ResetRests, Resting, reader_busy, Empty
<1>. QED  BY <1>1, BatchesInvariant, PTL

\* A lane that is done without an error took its own job's whole batch.
THEOREM GoodLanesAreWhole == ASSUME Patient PROVE Spec => []GoodLaneHasItsBatch
<1>1. TypeOK /\ Control /\ Batches => GoodLaneHasItsBatch
  BY DEF GoodLaneHasItsBatch, Batches, GoodLanes, HasLast
<1>. QED  BY <1>1, BatchesInvariant, PTL
==============================================================================
