------------------------------- MODULE ShellJob -------------------------------
(***************************************************************************)
(* The job path of the generated shell top                                 *)
(* (dau_build/scan_composition.py, generate_scan_composition_top_sv), one  *)
(* action per clock of s_axi_aclk.  All processes of the top run on that   *)
(* clock, so an action is a conjunction: what the host does on the AXI-Lite *)
(* aperture, and what the register block, the handle table, its gate, the  *)
(* burst reader, the lanes' tiles and the lanes' record writers do in the  *)
(* same clock.  Every primed variable is a register, every unprimed        *)
(* operator a wire.                                                        *)
(*                                                                         *)
(* The host writes the registers, submits a job and polls JOB_STATUS until *)
(* it reads done.  Its accesses are sequential: the next one starts when   *)
(* the response of the last one is in.                                     *)
(***************************************************************************)
EXTENDS HandleTable, FiniteSets

CONSTANTS
    Grid,           \* 1 << length_align_bits, in the unit of the lengths
    Lanes,          \* the composition's lanes
    PollDelay,      \* clocks the host waits before it polls
    StagesEarly,    \* does the host write the next job's registers before this one is done
    OneStatus,      \* does a tile keep to one status per batch
    Entries,        \* what the allocator may write into the table
    Jobs            \* the jobs the host may name

ASSUME ShellAssumption ==
    /\ Entries \subseteq [index : Word, base : Word, length : Word, generation : Word]
    /\ Jobs \subseteq [address : Word, length : Word, id : Word, generation : Word]
    /\ Grid \in Nat \ {0}
    /\ PollDelay \in Nat
    /\ StagesEarly \in BOOLEAN
    /\ OneStatus \in BOOLEAN

VARIABLES
    staged,         \* handle_index, handle_base, handle_length, handle_generation
    install, free,  \* handle_install, handle_free: one-clock pulses
    job,            \* input_address, input_length_bytes, job_handle_id, job_handle_generation
    job_start,      \* one-clock pulse
    length_fail,
    gate,           \* handle_pending, handle_fail_code ("none": no fail), handle_go, handle_resolved_base
    prev_done, pipeline_error_reset,
    reader,         \* the burst reader, with the broadcast's sent mask
    tile,           \* per lane: where its batch is
    writer,         \* per lane: the record writer
    bus,            \* is an access waiting for its response
    awaiting,       \* has the host submitted a job it has not seen done
    since           \* clocks since the submission, up to PollDelay

registers == <<staged, install, free, job, job_start>>
glue == <<length_fail, gate, prev_done, pipeline_error_reset>>
units == <<reader, tile, writer>>
host == <<bus, awaiting, since>>
vars == <<tableVars, registers, glue, units, host>>

StagedEntry == [index : Word, base : Word, length : Word, generation : Word]
Job == [address : Word, length : Word, id : Word, generation : Word]
Gate == [pending : BOOLEAN, fail : FaultCodes \union {"none"}, go : BOOLEAN, base : Word]

\* S_ADDR and S_DATA are "fetch", S_EMIT is "emit"
Reader == [phase : {"idle", "fetch", "emit"}, last : BOOLEAN, sent : SUBSET Lanes,
           done : BOOLEAN, error : BOOLEAN, base : Word, length : Word]

\* A tile's batch: nothing, some rows, all rows, and its one status, good or bad.
TilePhases == {"empty", "open", "full", "closing", "failing"}
Closed == {"closing", "failing"}

Writer == [busy : BOOLEAN, done : BOOLEAN, error : BOOLEAN]

TypeOK ==
    /\ TableTypeOK
    /\ staged \in StagedEntry
    /\ install \in BOOLEAN /\ free \in BOOLEAN /\ job_start \in BOOLEAN
    /\ length_fail \in BOOLEAN /\ prev_done \in BOOLEAN
    /\ pipeline_error_reset \in BOOLEAN
    /\ bus \in BOOLEAN /\ awaiting \in BOOLEAN
    /\ job \in Job
    /\ gate \in Gate
    /\ reader \in Reader
    /\ tile \in [Lanes -> TilePhases]
    /\ writer \in [Lanes -> Writer]
    /\ since \in 0 .. PollDelay

------------------------------------------------------------------------------
(* Wires. *)

length_ok == job.length # 0 /\ job.length % Grid = 0

reader_busy == reader.phase # "idle"

\* Mutated: with a table the units start on the host's write all the same.
StartAtWrite == IF Capacity = 0 THEN job_start /\ length_ok ELSE job_start

\* With a table the units start on its answer, without one on the host's write.
unit_start == IF Capacity = 0 THEN job_start /\ length_ok ELSE gate.go

reader_address == IF Capacity = 0 THEN job.address ELSE gate.base

handle_fail == gate.fail # "none"

job_busy == reader_busy \/ gate.pending \/ \E l \in Lanes : writer[l].busy

\* Mutated: done with the writers, whatever the reader does.
JobDoneByWriters ==
    \/ length_fail
    \/ handle_fail
    \/ ~gate.pending /\ \A l \in Lanes : writer[l].done

job_done ==
    \/ length_fail
    \/ handle_fail
    \/ ~gate.pending /\ reader.done /\ \A l \in Lanes : writer[l].done

job_error ==
    length_fail \/ handle_fail \/ reader.error \/ \E l \in Lanes : writer[l].error

------------------------------------------------------------------------------
(* Registers and units, one clock each. *)

\* Mutated: a length off the grid waits for the table as well.
GatePendsOffGrid ==
    gate' =
      IF Capacity = 0 THEN gate
      ELSE IF job_start THEN [gate EXCEPT !.go = FALSE, !.pending = TRUE, !.fail = "none"]
      ELSE IF gate.pending /\ resolve.done
        THEN [pending |-> FALSE, fail |-> resolve.code, go |-> resolve.code = "none",
              base |-> resolve.base]
      ELSE [gate EXCEPT !.go = FALSE]

\* The handshake between job_start and the table's answer.
GateClock ==
    gate' =
      IF Capacity = 0 THEN gate
      ELSE IF job_start
        THEN [gate EXCEPT !.go = FALSE, !.pending = length_ok, !.fail = "none"]
      ELSE IF gate.pending /\ resolve.done
        THEN [pending |-> FALSE, fail |-> resolve.code, go |-> resolve.code = "none",
              base |-> resolve.base]
      ELSE [gate EXCEPT !.go = FALSE]

Table ==
    IF Capacity = 0 THEN UNCHANGED tableVars
    ELSE TableClock(install, free, staged, job_start /\ length_ok, job)

\* Mutated: no reset behind an error.
GlueNeverResets ==
    /\ length_fail' = IF job_start THEN ~length_ok ELSE length_fail
    /\ prev_done' = job_done
    /\ pipeline_error_reset' = FALSE

\* length_fail and the reset of the lanes behind a job that ended in an error.
GlueClock ==
    /\ length_fail' = IF job_start THEN ~length_ok ELSE length_fail
    /\ prev_done' = job_done
    /\ pipeline_error_reset' = (job_done /\ ~prev_done /\ job_error)

\* Lanes that can take the beat the broadcast holds out.
Willing == {l \in Lanes \ reader.sent : tile[l] \in {"empty", "open"}}

ReaderStart ==
    /\ reader.phase = "idle"
    /\ reader' = IF unit_start
                   THEN [reader EXCEPT !.phase = "fetch", !.done = FALSE, !.error = FALSE,
                                       !.base = reader_address, !.length = job.length]
                   ELSE reader

\* Mutated: a read error ends the read without the batch's last.
FetchDropsLast ==
    /\ reader.phase = "fetch"
    /\ \/ reader' = reader
       \/ \E last \in BOOLEAN : reader' = [reader EXCEPT !.phase = "emit", !.last = last]
       \/ reader' = [reader EXCEPT !.phase = "idle", !.done = TRUE, !.error = TRUE]

\* Wait for the memory, get a beat, or get a read error: the reader then
\* flushes the batch's last.
ReaderFetch ==
    /\ reader.phase = "fetch"
    /\ \/ reader' = reader
       \/ \E last \in BOOLEAN : reader' = [reader EXCEPT !.phase = "emit", !.last = last]
       \/ reader' = [reader EXCEPT !.phase = "emit", !.last = TRUE, !.error = TRUE]

\* The beat is gone when every lane has taken it.  The broadcast's sent
\* mask is reset with the lanes.
ReaderEmit(taken) ==
    LET sent == reader.sent \union taken IN
    /\ reader.phase = "emit"
    /\ reader' =
         IF sent = Lanes
           THEN [reader EXCEPT !.sent = {}, !.last = FALSE, !.done = reader.last,
                               !.phase = IF reader.last THEN "idle" ELSE "fetch"]
           ELSE [reader EXCEPT !.sent = IF pipeline_error_reset THEN {} ELSE sent]

ReaderClock(taken) == ReaderStart \/ ReaderFetch \/ ReaderEmit(taken)

\* A tile may fail in the middle of a batch.  What it makes of the rest of
\* that batch is its own business: unless it keeps to one status per batch,
\* a second status may come up behind the writer's back.
MayClose(l) == OneStatus => writer[l].busy

\* Where a lane's batch may be a clock later.
TileMoves(l, taken, closed) ==
    IF pipeline_error_reset \/ l \in closed THEN {"empty"}
    ELSE IF l \in taken THEN IF reader.last THEN {"full"} ELSE {"open"}
    ELSE {tile[l]} \union
         CASE tile[l] = "open" /\ MayClose(l) -> {"failing"}
           [] tile[l] = "full" /\ MayClose(l) -> Closed
           [] OTHER -> {}

TileClock(taken, closed) ==
    tile' \in {t \in [Lanes -> TilePhases] :
                 \A l \in Lanes : t[l] \in TileMoves(l, taken, closed)}

\* A busy writer ends with its lane's status; an idle one starts.
WriterClock(closed) ==
    writer' = [l \in Lanes |->
      IF writer[l].busy
        THEN IF l \in closed
               THEN [busy |-> FALSE, done |-> TRUE, error |-> tile[l] = "failing"]
               ELSE writer[l]
        ELSE IF unit_start THEN [busy |-> TRUE, done |-> FALSE, error |-> FALSE]
               ELSE writer[l]]

\* Lanes whose status the writer can take.
Closable == {l \in Lanes : writer[l].busy /\ tile[l] \in Closed}

Datapath ==
    /\ Table
    /\ GateClock
    /\ GlueClock
    /\ \E taken \in SUBSET (IF reader.phase = "emit" THEN Willing ELSE {}),
         closed \in SUBSET Closable :
         /\ ReaderClock(taken)
         /\ TileClock(taken, closed)
         /\ WriterClock(closed)

------------------------------------------------------------------------------
(* The aperture: one access at a time, and the pulses last one clock. *)

Pulse(i, f, s) == install' = i /\ free' = f /\ job_start' = s

Elapse == since' = IF since < PollDelay THEN since + 1 ELSE since

\* The response of the last access comes in, or the host does nothing.
NoAccess ==
    /\ Pulse(FALSE, FALSE, FALSE)
    /\ bus' = FALSE
    /\ Elapse
    /\ UNCHANGED <<staged, job, awaiting>>
    /\ Datapath

\* The entry's registers and the HANDLE_CONTROL write that commits them: two
\* bits of one word.  The allocator may do so at any time.
ProgramEntry ==
    /\ ~bus
    /\ Capacity > 0
    /\ staged' \in Entries
    /\ \E i, f \in BOOLEAN : Pulse(i, f, FALSE)
    /\ bus' = TRUE
    /\ Elapse
    /\ UNCHANGED <<job, awaiting>>
    /\ Datapath

\* Write the registers that name the next job.
NameJob ==
    /\ ~bus
    /\ awaiting => StagesEarly
    /\ job' \in Jobs
    /\ Pulse(FALSE, FALSE, FALSE)
    /\ bus' = TRUE
    /\ Elapse
    /\ UNCHANGED <<staged, awaiting>>
    /\ Datapath

\* Write JOB_CONTROL.
Submit ==
    /\ ~bus
    /\ ~awaiting
    /\ Pulse(FALSE, FALSE, TRUE)
    /\ bus' = TRUE
    /\ awaiting' = TRUE
    /\ since' = 0
    /\ UNCHANGED <<staged, job>>
    /\ Datapath

\* Read JOB_STATUS.
Poll ==
    /\ ~bus
    /\ awaiting
    /\ since >= PollDelay
    /\ awaiting' = ~job_done
    /\ Pulse(FALSE, FALSE, FALSE)
    /\ bus' = TRUE
    /\ Elapse
    /\ UNCHANGED <<staged, job>>
    /\ Datapath

NoEntry == [index |-> 0, base |-> 0, length |-> 0, generation |-> 0]
NoJob == [address |-> 0, length |-> 0, id |-> 0, generation |-> 0]
GateAtRest == [pending |-> FALSE, fail |-> "none", go |-> FALSE, base |-> 0]
ReaderAtRest == [phase |-> "idle", last |-> FALSE, sent |-> {}, done |-> FALSE,
                 error |-> FALSE, base |-> 0, length |-> 0]
WriterAtRest == [busy |-> FALSE, done |-> FALSE, error |-> FALSE]

Init ==
    /\ TableInit
    /\ staged = NoEntry
    /\ install = FALSE /\ free = FALSE /\ job_start = FALSE
    /\ job = NoJob
    /\ length_fail = FALSE
    /\ gate = GateAtRest
    /\ prev_done = TRUE
    /\ pipeline_error_reset = FALSE
    /\ reader = ReaderAtRest
    /\ tile = [l \in Lanes |-> "empty"]
    /\ writer = [l \in Lanes |-> WriterAtRest]
    /\ bus = FALSE /\ awaiting = FALSE /\ since = 0

\* s_axi_aresetn: everything but the entries behind the live bits.
Reset ==
    /\ TableReset
    /\ staged' = NoEntry
    /\ Pulse(FALSE, FALSE, FALSE)
    /\ job' = NoJob
    /\ length_fail' = FALSE
    /\ gate' = GateAtRest
    /\ prev_done' = TRUE
    /\ pipeline_error_reset' = FALSE
    /\ reader' = ReaderAtRest
    /\ tile' = [l \in Lanes |-> "empty"]
    /\ writer' = [l \in Lanes |-> WriterAtRest]
    /\ bus' = FALSE /\ awaiting' = FALSE /\ since' = 0

Next == NoAccess \/ ProgramEntry \/ NameJob \/ Submit \/ Poll \/ Reset

Spec == Init /\ [][Next]_vars

\* The clock never stops, the host keeps polling, the memory answers, the
\* length is finite, and a tile takes beats, ends its batches and gives its
\* status up.  The host has done with resetting the shell at some point.
Clock == Next /\ ~Reset

FairSpec ==
    /\ Spec
    /\ WF_vars(NoAccess)
    /\ SF_vars(Poll)
    /\ SF_vars(Clock /\ reader.phase = "fetch" /\ reader'.phase = "emit" /\ reader'.last)
    /\ WF_vars(Clock /\ reader.phase = "emit" /\ reader' # reader)
    /\ \A l \in Lanes :
          /\ WF_vars(Clock /\ tile[l] = "full" /\ tile'[l] \in Closed)
          /\ WF_vars(Clock /\ l \in Closable /\ ~writer'[l].busy)

------------------------------------------------------------------------------
(* Properties. *)

\* Nothing of the last job is left in the shell's control.
Quiet ==
    /\ ~job_start /\ ~gate.pending /\ ~gate.go
    /\ ~reader_busy
    /\ \A l \in Lanes : ~writer[l].busy

HostLooks == awaiting /\ ~bus /\ since >= PollDelay

\* A host that reads "done" reads it of the job it submitted: the job is not
\* still being resolved, started or run, and the answer is not the last
\* job's ("otherwise the one cycle between JOB_CONTROL and the answer reads
\* back as idle-and-done", scan_composition.py:1835).
DoneIsDone == HostLooks /\ job_done => Quiet

\* The units start on a job's first row with nothing of an earlier job left
\* in a lane or in the broadcast, so no lane's output mixes two jobs and no
\* writer takes an old status ("recover mid-stream lanes after an error
\* before the next job", scan_composition.py:2360).
StartsClean ==
    unit_start =>
      /\ ~reader_busy /\ reader.sent = {}
      /\ \A l \in Lanes : ~writer[l].busy /\ tile[l] = "empty"

\* The reset behind an error takes no row of a job that is running, though
\* with a table it can come while the next job's reader is already fetching.
ResetLosesNothing ==
    pipeline_error_reset =>
      /\ reader.phase # "emit"
      /\ reader_busy => \A l \in Lanes : tile[l] = "empty"

\* A lane that is done without an error has had the whole batch of the job
\* that is running: its status was not one an earlier job left behind.
GoodLaneHasItsBatch ==
    \A l \in Lanes :
      writer[l].done /\ ~writer[l].error /\ reader_busy =>
        reader.last /\ l \in reader.sent

\* "the row grid is enforced before any unit starts" (scan_composition.py:2066)
GridEnforced == unit_start => length_ok

\* Every job ends, in success, refusal or error, and the host reads it.
JobEnds == awaiting ~> ~awaiting

------------------------------------------------------------------------------
(* The promise of the table: JobGate, read off the registers. *)

granted == [i \in Slots |->
    IF entry[i].live
      THEN [held |-> TRUE, base |-> entry[i].base, length |-> entry[i].length,
            generation |-> entry[i].generation]
      ELSE [held |-> FALSE, base |-> 0, length |-> 0, generation |-> 0]]

outcome(kind, base, length) == [kind |-> kind, base |-> base, length |-> length]

submitted ==
    IF job_start
      THEN [asked |-> TRUE, id |-> job.id, generation |-> job.generation, length |-> job.length]
      ELSE [asked |-> FALSE, id |-> 0, generation |-> 0, length |-> 0]

judged ==
    IF gate.pending THEN
      IF resolve.code = "none" THEN outcome("go", resolve.base, job.length)
                               ELSE outcome(resolve.code, 0, 0)
    ELSE IF gate.go THEN outcome("go", gate.base, job.length)
    ELSE IF length_fail THEN outcome("off grid", 0, 0)
    ELSE IF handle_fail THEN outcome(gate.fail, 0, 0)
    ELSE outcome("none", 0, 0)

reading ==
    IF reader_busy THEN outcome("go", reader.base, reader.length)
                   ELSE outcome("none", 0, 0)

Promise == INSTANCE JobGate WITH
    grants <- granted, request <- submitted, verdict <- judged, reads <- reading

\* The id, generation and length in the job's registers when the host writes
\* JOB_CONTROL are judged once, against the table as it is in the clock of
\* job_start, and the job then reads exactly the region that handle grants or
\* nothing at all: no freed, re-allocated, unknown or too small region is
\* ever read, and no job is refused that has a good handle ("a refused job
\* must not read a single beat", scan_composition.py:1435).
KeepsPromise == Promise!Spec
==============================================================================
