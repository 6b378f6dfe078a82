-------------------------------- MODULE ScanFeed --------------------------------
(***************************************************************************)
(* The row stream of a generated shell (dau_build/scan_composition.py,     *)
(* generate_scan_composition_top_sv) for every shape of composition: the   *)
(* burst reader, the front unpacker or gearbox, the shared partitioner,    *)
(* broadcast or wide lane, the lanes and their writers, job after job.     *)
(*                                                                         *)
(* The stream is counted, not carried: a unit moves as many 64-bit words a *)
(* beat as the wires that ScanShape emits let through.  The units take     *)
(* beats in any order their valid and ready allow, so an action is one     *)
(* unit's step; ShellJob has the register block clock by clock.            *)
(***************************************************************************)
EXTENDS ScanShape, FiniteSetsExt

CONSTANTS
    Compositions,   \* the compositions that are tried
    Lengths,        \* the lengths in bytes that a host asks for
    Retries         \* bound: the jobs it submits behind a front error before it resets

ASSUME FeedAssumption ==
    /\ \A c \in Compositions : IsComposition(c)
    /\ Lengths \subseteq Nat
    /\ Retries \in Nat

VARIABLES
    comp,           \* the composition the shell is built from, fixed
    length,         \* input_length_bytes
    length_fail,
    reader,         \* bytes left to read, done, error
    front,          \* the front stage: words held, records made, end of batch seen, batch refused
    front_error,    \* front_unpack_error or front_gearbox_error
    part,           \* the shared partitioner: words of a row it holds, end of batch seen
    lane,           \* per lane: words of the batch, end of batch seen, torn by the partitioner
    writer,         \* per lane: the record writer, and the words its lane took since it started
    prev_done,
    awaiting,       \* has the host submitted a job it has not done with
    retries         \* the jobs it has submitted behind a front error

units == <<reader, front, part, lane, writer>>
vars == <<comp, length, length_fail, units, front_error, prev_done, awaiting, retries>>

NoBytes == [left |-> 0, done |-> FALSE, error |-> FALSE]
NoFront == [held |-> 0, made |-> 0, ended |-> FALSE, refused |-> FALSE]
NoRow == [held |-> 0, ended |-> FALSE]
NoBatch == [words |-> 0, ended |-> FALSE, torn |-> FALSE]
NoJob == [busy |-> FALSE, done |-> FALSE, error |-> FALSE, words |-> 0]

TypeOK ==
    /\ comp \in Compositions
    /\ length \in Lengths \union {0}
    /\ reader \in [left : Nat, done : BOOLEAN, error : BOOLEAN]
    /\ front \in [held : Nat, made : Nat, ended : BOOLEAN, refused : BOOLEAN]
    /\ part \in [held : Nat, ended : BOOLEAN]
    /\ lane \in [Lanes(comp) -> [words : Nat, ended : BOOLEAN, torn : BOOLEAN]]
    /\ writer \in [Lanes(comp) -> [busy : BOOLEAN, done : BOOLEAN, error : BOOLEAN, words : Nat]]
    /\ {length_fail, front_error, prev_done, awaiting} \subseteq BOOLEAN
    /\ retries \in 0 .. Retries

------------------------------------------------------------------------------
(* The wires. *)

\* The words of a beat on a net that get from its driver into its taker.
Carried(net) ==
    Min({end.width : end \in {e \in Drivers(comp) \union Takers(comp) : e.net = net}}) \div 64

RecordWords == comp.input_row_bytes \div 8

\* A quad row out of the unpacker is two words.
RowWords == IF Unpacks(comp) THEN 2 ELSE RecordWords

reader_busy == reader.left > 0

job_done == length_fail \/ (reader.done /\ \A i \in Lanes(comp) : writer[i].done)

job_error ==
    length_fail \/ reader.error \/ front_error \/ \E i \in Lanes(comp) : writer[i].error

\* The register behind job_done follows it in a clock, and no access to the
\* aperture is that quick.
Settled == prev_done = job_done

------------------------------------------------------------------------------
(* The fan-out takes a beat off its net. *)

\* A lane that has not given its status up takes no beats.
Received(i, words) ==
    /\ ~lane[i].ended
    /\ lane' = [lane EXCEPT ![i].words = @ + words]
    /\ writer' = [writer EXCEPT ![i].words = @ + words]

\* Every lane takes the beat.
Broadcast(words, last) ==
    /\ \A i \in Lanes(comp) : ~lane[i].ended
    /\ lane' = [i \in Lanes(comp) |-> [lane[i] EXCEPT !.words = @ + words, !.ended = last]]
    /\ writer' = [i \in Lanes(comp) |-> [writer[i] EXCEPT !.words = @ + words]]
    /\ UNCHANGED part

Dispatch(words, last) ==
    /\ ~part.ended
    /\ part.held < RowWords
    /\ part' = [held |-> part.held + words, ended |-> last]
    /\ UNCHANGED <<lane, writer>>

\* One beat of a net into the unit that takes it, which is not a front stage.
Fan(net, last) ==
    LET words == Carried(net) IN
    IF Shares(comp) THEN Dispatch(words, last) ELSE Broadcast(words, last)

\* The partitioner gives a whole row to one lane.
Route ==
    /\ Settled
    /\ part.held >= RowWords
    /\ part' = [part EXCEPT !.held = @ - RowWords]
    /\ \E i \in Lanes(comp) : Received(i, RowWords)
    /\ UNCHANGED <<comp, length, length_fail, reader, front, front_error, prev_done, awaiting, retries>>

\* Behind the last row it ends every lane's batch, with an error if it is
\* left with a piece of a row.
EndRoutes ==
    /\ Settled
    /\ part.ended /\ part.held < RowWords
    /\ \A i \in Lanes(comp) : ~lane[i].ended
    /\ lane' = [i \in Lanes(comp) |-> [lane[i] EXCEPT !.ended = TRUE, !.torn = part.held # 0]]
    /\ part' = NoRow
    /\ UNCHANGED <<comp, length, length_fail, reader, front, front_error, writer, prev_done, awaiting, retries>>

------------------------------------------------------------------------------
(* The front stages.  A batch that the front stage refuses never gets its  *)
(* last, and its status is one clock long: only the latch keeps it.        *)

cfg_input_records == length \div comp.input_row_bytes

FinalRecord == Gears(comp) /\ front.made + 1 = cfg_input_records

FrontReady ==
    /\ ~front.ended
    /\ \/ front.refused
       \/ front.held < (IF Gears(comp) THEN RecordWords ELSE FrontWidth(comp) \div 64)
       \/ FinalRecord

\* A packed word is a row of two words.
FrontIntake(words, last) ==
    /\ FrontReady
    /\ front' = [front EXCEPT
                   !.held = IF front.refused THEN 0
                            ELSE @ + IF Unpacks(comp) THEN 2 * words ELSE words,
                   !.ended = last]

\* The unpacker finds its configuration bad.
Misconfigured ==
    /\ Settled
    /\ Unpacks(comp) /\ front.held > 0 /\ ~front.refused
    /\ front' = [front EXCEPT !.held = 0, !.refused = TRUE]
    /\ front_error' = TRUE
    /\ UNCHANGED <<comp, length, length_fail, reader, part, lane, writer, prev_done, awaiting, retries>>

\* A beat out of the front stage.  The gearbox holds its last record back
\* until it has seen the end of the batch.
FrontBeat ==
    LET words == IF Gears(comp) THEN RecordWords ELSE FrontWidth(comp) \div 64
        last == front.ended /\ front.held = words /\ (Gears(comp) => FinalRecord)
    IN
    /\ Settled
    /\ Unpacks(comp) \/ Gears(comp)
    /\ ~front.refused
    /\ front.held >= words
    /\ \/ Unpacks(comp) /\ (front.held = words => front.ended \/ reader_busy)
       \/ Gears(comp) /\ front.made < cfg_input_records /\ (FinalRecord => last)
    /\ front' = IF last THEN NoFront
                ELSE [front EXCEPT !.held = @ - words, !.made = @ + 1]
    /\ Fan(StreamPrefix(comp), last)
    /\ UNCHANGED <<comp, length, length_fail, reader, front_error, prev_done, awaiting, retries>>

\* Mutated: the status of the front stage is not latched at the end of a batch.
FrontAtEndUnlatched ==
    /\ Settled
    /\ front.ended
    /\ front.refused \/ front.held < RecordWords
    /\ front' = NoFront
    /\ UNCHANGED <<comp, length, length_fail, reader, front_error, part, lane, writer, prev_done,
                   awaiting, retries>>

\* The end of a batch that is no whole number of records, or was refused.
FrontAtEnd ==
    /\ Settled
    /\ front.ended
    /\ \/ front.refused
       \/ Unpacks(comp) /\ front.held < FrontWidth(comp) \div 64
       \/ Gears(comp) /\ front.held < RecordWords
       \/ Gears(comp) /\ front.made + 1 >= cfg_input_records /\ front.held # RecordWords
    /\ front' = NoFront
    /\ front_error' = (front_error \/ ~front.refused)
    /\ UNCHANGED <<comp, length, length_fail, reader, part, lane, writer, prev_done, awaiting, retries>>

------------------------------------------------------------------------------
(* The reader and the writers. *)

\* A beat of the reader.  A read error flushes the batch's last.
ReaderBeat ==
    /\ Settled
    /\ reader_busy
    /\ \E error \in BOOLEAN :
         LET left == IF error THEN 0 ELSE reader.left - BeatBytes(comp)
             last == left = 0
         IN
         /\ reader' = [left |-> left, done |-> last, error |-> error]
         /\ IF Unpacks(comp) \/ Gears(comp)
              THEN FrontIntake(Carried("scan"), last) /\ UNCHANGED <<part, lane, writer>>
              ELSE Fan("scan", last) /\ UNCHANGED front
    /\ UNCHANGED <<comp, length, length_fail, front_error, prev_done, awaiting, retries>>

\* A lane closes out: its head tile refuses a torn row, and any tile may fail.
Close(i) ==
    /\ Settled
    /\ lane[i].ended
    /\ writer[i].busy
    /\ \E failed \in BOOLEAN :
         writer' = [writer EXCEPT ![i] = [@ EXCEPT !.busy = FALSE, !.done = TRUE,
                      !.error = failed \/ lane[i].torn \/ lane[i].words % RowWords # 0]]
    /\ lane' = [lane EXCEPT ![i] = NoBatch]
    /\ UNCHANGED <<comp, length, length_fail, reader, front, front_error, part, prev_done, awaiting, retries>>

\* prev_done follows job_done, and the lanes, the fan-out and the front stage
\* are reset behind a job that ends in an error.
DoneClock ==
    /\ ~Settled
    /\ prev_done' = job_done
    /\ IF job_done /\ job_error
         THEN front' = NoFront /\ part' = NoRow /\ lane' = [i \in Lanes(comp) |-> NoBatch]
         ELSE UNCHANGED <<front, part, lane>>
    /\ UNCHANGED <<comp, length, length_fail, reader, front_error, writer, awaiting, retries>>

------------------------------------------------------------------------------
(* The host. *)

\* Mutated: the front error is cleared with the rest of the job.
StartClearsFrontError(bytes) ==
    /\ length' = bytes
    /\ length_fail' = ~length_ok(comp, bytes)
    /\ IF length_ok(comp, bytes)
         THEN /\ reader' = IF reader_busy THEN reader ELSE [NoBytes EXCEPT !.left = bytes]
              /\ writer' = [i \in Lanes(comp) |->
                              IF writer[i].busy THEN writer[i] ELSE [NoJob EXCEPT !.busy = TRUE]]
         ELSE UNCHANGED <<reader, writer>>
    /\ front_error' = FALSE

\* The units that are idle start, unless the length is off the grid.  The
\* front error is kept.
Start(bytes) ==
    /\ length' = bytes
    /\ length_fail' = ~length_ok(comp, bytes)
    /\ IF length_ok(comp, bytes)
         THEN /\ reader' = IF reader_busy THEN reader ELSE [NoBytes EXCEPT !.left = bytes]
              /\ writer' = [i \in Lanes(comp) |->
                              IF writer[i].busy THEN writer[i] ELSE [NoJob EXCEPT !.busy = TRUE]]
         ELSE UNCHANGED <<reader, writer>>
    /\ UNCHANGED front_error

Submit ==
    /\ Settled
    /\ ~awaiting
    /\ front_error => retries < Retries
    /\ \E bytes \in Lengths : Start(bytes)
    /\ awaiting' = TRUE
    /\ retries' = IF front_error THEN retries + 1 ELSE retries
    /\ UNCHANGED <<comp, front, part, lane, prev_done>>

\* The host reads JOB_STATUS as done.
Poll ==
    /\ Settled
    /\ awaiting
    /\ job_done
    /\ awaiting' = FALSE
    /\ UNCHANGED <<comp, length, length_fail, units, front_error, prev_done, retries>>

\* It reads an error of a job that is not done, and leaves it.
GiveUp ==
    /\ Settled
    /\ awaiting
    /\ ~job_done /\ front_error
    /\ awaiting' = FALSE
    /\ UNCHANGED <<comp, length, length_fail, units, front_error, prev_done, retries>>

Init ==
    /\ comp \in {c \in Compositions : Generates(c)}
    /\ length = 0 /\ length_fail = FALSE
    /\ reader = NoBytes /\ front = NoFront /\ front_error = FALSE /\ part = NoRow
    /\ lane = [i \in Lanes(comp) |-> NoBatch]
    /\ writer = [i \in Lanes(comp) |-> NoJob]
    /\ prev_done = TRUE /\ awaiting = FALSE /\ retries = 0

\* s_axi_aresetn: the only way out of a front error.
Reset ==
    /\ length' = 0 /\ length_fail' = FALSE
    /\ reader' = NoBytes /\ front' = NoFront /\ front_error' = FALSE /\ part' = NoRow
    /\ lane' = [i \in Lanes(comp) |-> NoBatch]
    /\ writer' = [i \in Lanes(comp) |-> NoJob]
    /\ prev_done' = TRUE /\ awaiting' = FALSE /\ retries' = 0
    /\ UNCHANGED comp

Next ==
    \/ Submit \/ Poll \/ GiveUp \/ Reset
    \/ ReaderBeat \/ Misconfigured \/ FrontBeat \/ FrontAtEnd
    \/ Route \/ EndRoutes \/ DoneClock
    \/ \E i \in Lanes(comp) : Close(i)

Spec == Init /\ [][Next]_vars

\* The clock never stops: a unit that can take a beat takes it.
FairSpec ==
    /\ Spec
    /\ WF_vars(ReaderBeat) /\ WF_vars(FrontBeat) /\ WF_vars(FrontAtEnd)
    /\ WF_vars(Route) /\ WF_vars(EndRoutes) /\ WF_vars(DoneClock)
    /\ WF_vars(Poll) /\ WF_vars(GiveUp)
    /\ WF_vars(\E i \in DOMAIN lane : Close(i))

------------------------------------------------------------------------------
(* Properties. *)

\* The words that a job of this length puts before the lanes.
Expected == IF Unpacks(comp) THEN 2 * (length \div 8) ELSE length \div 8

\* The shapes a composer can get through the validation are ones the emitted
\* wires can carry (scan_composition.py:284: an incoherent composition "would
\* otherwise emit Verilog whose feed wires and fan-out port widths disagree").
ShapeIsCoherent == Coherent(comp) /\ LanesFed(comp) /\ LoadReachesLanes(comp)

\* A job that is done without an error is one of whole rows, and the writers
\* got every word of it, once: all of them each, or all of them between them
\* behind the partitioner.  Nothing in the outputs is left of a job that the
\* front stage has spoiled (scan_composition.py:1540: "it is held for the
\* LAST_ERROR readback until the host issues a peripheral reset").
GoodJobSawEverything ==
    job_done /\ ~job_error =>
      /\ Expected % RowWords = 0
      /\ IF Shares(comp)
           THEN MapThenSumSet(LAMBDA i : writer[i].words, Lanes(comp)) = Expected
           ELSE \A i \in Lanes(comp) : writer[i].words = Expected

\* A job's first beat meets nothing of an earlier job in the units on its way
\* and starts every writer, unless a front stage has failed before it
\* ("recover mid-stream lanes after an error before the next job",
\* scan_composition.py:2360).
StartsFresh ==
    [][~reader_busy /\ reader'.left > 0 /\ ~front_error =>
         /\ front = NoFront /\ part = NoRow
         /\ \A i \in Lanes(comp) : lane[i] = NoBatch /\ ~writer[i].busy]_vars

\* The length gate turns no job away that is whole records and whole beats
\* (scan_composition.py:271: a grid that "rejected whole-record jobs").
WholeJobsAreTaken ==
    length_fail =>
      \/ length = 0
      \/ length % BeatBytes(comp) # 0
      \/ length % (IF Unpacks(comp) THEN 8 ELSE comp.input_row_bytes) # 0

\* The host of every job hears of it: that it is done, or that a front stage
\* has refused it and only a reset will help.
HostHears == awaiting ~> ~awaiting
==============================================================================
