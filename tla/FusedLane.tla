------------------------------- MODULE FusedLane ------------------------------
(***************************************************************************)
(* A lane of the generated shell that chains stages in front of its        *)
(* terminal tile (dau_build/scan_composition.py, _fused_chain_status_glue_sv *)
(* and _lane_status_glue_sv), one action per clock.                        *)
(*                                                                         *)
(* A silent stage (a filter, a map, a partition filter) gives a status     *)
(* only when what is behind it cannot see the end of the batch.  A         *)
(* draining stage (closes_out: an as-of join, a grouped aggregator) gives  *)
(* one for every batch, which the glue accepts at once and keeps only when *)
(* it is an error, or when the stage gave no row at all: nothing behind it *)
(* will ever close.  The record writer takes one status per job.           *)
(*                                                                         *)
(* The rest of the shell is an environment: it starts jobs, feeds batches, *)
(* and resets the lane behind a job that ended in an error.                *)
(***************************************************************************)
EXTENDS Integers

CONSTANTS
    Terminal,       \* the number of the terminal tile: stages are 1 .. Terminal
    Draining,       \* the chain stages that close out
    Late,           \* those that may take their time, up to the next job's
                    \* start, over the status behind their last row; the others
                    \* say it with that row or a clock later
    QuietError      \* does the terminal hold status_error low without a status

ASSUME LaneAssumption ==
    /\ Terminal \in Nat \ {0}
    /\ Draining \subseteq 1 .. Terminal - 1
    /\ Late \subseteq Draining
    /\ QuietError \in BOOLEAN

VARIABLES
    job,            \* "over", "run", "refused", or "after": the clock behind its end
    prev_done,      \* was the shell done before this job: no end of a job has risen since
    job_start,      \* one-clock pulse
    unit_start,     \* the same, unless the job is refused
    pipeline_error_reset,
    source,         \* what feeds the lane: "idle", "feeding" or "done"
    stage,          \* per stage: its input, its output, its status
    fused_err,
    saw_out, empty_close,   \* per draining stage
    writer          \* the record writer

latches == <<fused_err, saw_out, empty_close>>
vars == <<job, prev_done, job_start, unit_start, pipeline_error_reset, source, stage,
          latches, writer>>

Stages == 1 .. Terminal
Silent == (1 .. Terminal - 1) \ Draining
Links  == 0 .. Terminal     \* link k is the output of stage k, 0 the lane's input
Muxed  == Silent \union {Terminal}

(* What a stage has taken of its batch: nothing, rows, of which it may     *)
(* still hold the last one it took, all of it.  A stage that failed sinks  *)
(* the rest.                                                               *)
Stage == [ in     : {"idle", "rows", "held", "ended", "sunk"},
           out    : {"none", "some", "last"},
           status : {"none", "good", "bad"} ]
AtRest == [in |-> "idle", out |-> "none", status |-> "none"]

Writer == [phase : {"idle", "run", "write"}, done : BOOLEAN, error : BOOLEAN]

-----------------------------------------------------------------------------
(* Wires.  What a link moves in this clock: a row, the batch's last row,   *)
(* the last row together with the status of the draining stage that gives  *)
(* it, or nothing; a stage may also drop a row, which moves nothing.       *)

Beat  == {"none", "row", "last", "close", "drop"}
Last  == {"last", "close"}
Moved == {"row"} \union Last

(* A stage takes a row when it holds none, or gets rid of it.              *)
Willing(k, beat) ==
    IF k > Terminal THEN writer.phase = "run"
    ELSE /\ stage[k].status = "none"
         /\ stage[k].in # "ended"
         /\ stage[k].in = "held" => beat[k] # "none"

(* A stage gives a row for a row it has, as many as it likes once it has   *)
(* them all, and none behind its last one.                                 *)
MayGive(k, beat) ==
    LET has == beat[k - 1] \in Moved \/ stage[k].in \in {"held", "ended"}
        end == beat[k - 1] \in Last \/ stage[k].in = "ended"
    IN  CASE beat[k] = "row"   -> has
          [] beat[k] \in Last  -> end
          [] beat[k] = "drop"  -> has /\ ~end

(* What a link may move, by its source alone.                              *)
Offers(k) ==
    IF pipeline_error_reset THEN {"none"}
    ELSE IF k = 0 THEN IF source = "feeding" THEN {"none", "row", "last"} ELSE {"none"}
    ELSE IF stage[k].status # "none" \/ stage[k].in = "sunk" \/ stage[k].out = "last"
      THEN {"none"}
    ELSE IF k \in Draining THEN Beat ELSE Beat \ {"close"}

Moves ==
    LET offers == [k \in Links |-> Offers(k)]
    IN  {beat \in [Links -> UNION {offers[k] : k \in Links}] :
           /\ \A k \in Links : beat[k] \in offers[k]
           /\ \A k \in Links : beat[k] \in Moved => Willing(k + 1, beat)
           /\ \A k \in Stages : beat[k] # "none" => MayGive(k, beat)}

Pending(k) == stage[k].status # "none"

Raising == \E k \in Draining : stage[k].status = "bad"

fused_empty_close == \E k \in Draining : empty_close[k]

unit_status_valid == fused_err \/ fused_empty_close \/ \E k \in Muxed : Pending(k)

(* The most upstream pending status wins.  Without one the terminal's      *)
(* status_error is on the mux, whether or not it means anything.           *)
unit_status_error(noise) ==
    \/ fused_err
    \/ \E k \in Muxed :
          stage[k].status = "bad" /\ \A j \in Muxed : j < k => ~Pending(j)
    \/ noise /\ \A k \in Muxed : ~Pending(k)

unit_status_ready(beat) == writer.phase = "run" /\ beat[Terminal] \notin Moved

(* The stages whose status is accepted in this clock.                      *)
Takes(k, beat) ==
    /\ Pending(k)
    /\ \/ k \in Draining
       \/ /\ unit_status_ready(beat)
          /\ \A j \in Silent : j < k => ~Pending(j)

-----------------------------------------------------------------------------
(* The stages.                                                             *)

Input(s, taken, given) ==
    CASE taken \in Last -> IF s.in = "sunk" THEN "idle" ELSE "ended"
      [] taken = "row"  -> IF s.in = "sunk" THEN "sunk"
                           ELSE IF given = "drop" /\ s.in # "held" THEN "rows" ELSE "held"
      [] OTHER          -> IF s.in = "held" /\ given # "none" THEN "rows" ELSE s.in

Output(s, given) ==
    CASE given = "row"  -> "some"
      [] given \in Last -> "last"
      [] OTHER          -> s.out

Rearmed(s) ==
    IF s.status = "bad" /\ s.in # "ended" THEN [AtRest EXCEPT !.in = "sunk"] ELSE AtRest

(* What a stage that has in and out behind it may say of its batch.        *)
MaySay(k, in, out) ==
    LET good == in = "ended" /\ (IF k \in Silent THEN out = "none" ELSE out # "some")
        bad  == in \in {"rows", "held", "ended"}
    IN  IF k \in Draining \ Late /\ out = "last" THEN {"good"}
        ELSE {"none"} \union (IF good THEN {"good"} ELSE {})
                      \union (IF bad THEN {"bad"} ELSE {})

(* A stage with the batch's beats of this clock, and what it then says.    *)
Says(k, beat) ==
    IF Pending(k) \/ pipeline_error_reset THEN {"none"}
    ELSE MaySay(k, Input(stage[k], beat[k - 1], beat[k]), Output(stage[k], beat[k]))

(* A mutant: only the terminal tile is behind the lanes' reset.            *)
ResetsTerminal(k, beat, status) ==
    LET s   == stage[k]
        out == Output(s, beat[k])
    IN  IF pipeline_error_reset /\ k = Terminal THEN AtRest
        ELSE IF Pending(k) THEN IF Takes(k, beat) THEN Rearmed(s) ELSE s
        ELSE IF (k \in Silent /\ out = "last") \/ beat[k] = "close" THEN AtRest
        ELSE [in |-> Input(s, beat[k - 1], beat[k]), out |-> out, status |-> status]

NextStage(k, beat, status) ==
    LET s   == stage[k]
        out == Output(s, beat[k])
    IN  IF pipeline_error_reset THEN AtRest
        ELSE IF Pending(k) THEN IF Takes(k, beat) THEN Rearmed(s) ELSE s
        ELSE IF (k \in Silent /\ out = "last") \/ beat[k] = "close" THEN AtRest
        ELSE [in |-> Input(s, beat[k - 1], beat[k]), out |-> out, status |-> status]

StagesClock(beat) ==
    LET may == [k \in Stages |-> Says(k, beat)]
    IN  \E said \in [Stages -> UNION {may[k] : k \in Stages}] :
          /\ \A k \in Stages : said[k] \in may[k]
          /\ stage' = [k \in Stages |-> NextStage(k, beat, said[k])]

-----------------------------------------------------------------------------
(* The glue, whose latches the lanes' reset does not reach.                *)

(* The stages that close out well in this clock.                           *)
Closes(k, beat) == stage[k].status = "good" \/ beat[k] = "close"

(* A mutant: the first row of a stage is seen only with another behind it. *)
SeesTheSecond(beat) ==
    /\ saw_out' = [k \in Draining |->
         ~job_start /\ (saw_out[k] \/ (beat[k] \in Moved /\ stage[k].out = "some"))]
    /\ empty_close' = [k \in Draining |->
         /\ ~job_start
         /\ \/ empty_close[k]
            \/ Closes(k, beat) /\ ~saw_out[k] /\ beat[k] \notin Moved]

(* A mutant: a first row in the clock of the status is missed.             *)
CloseIgnoresRow(beat) ==
    /\ saw_out' = [k \in Draining |-> ~job_start /\ (saw_out[k] \/ beat[k] \in Moved)]
    /\ empty_close' = [k \in Draining |->
         ~job_start /\ (empty_close[k] \/ (Closes(k, beat) /\ ~saw_out[k]))]

(* A mutant: no empty close.                                               *)
NeverCloses(beat) ==
    /\ saw_out' = [k \in Draining |-> ~job_start /\ (saw_out[k] \/ beat[k] \in Moved)]
    /\ UNCHANGED empty_close

EmptyCloseClock(beat) ==
    /\ saw_out' = [k \in Draining |-> ~job_start /\ (saw_out[k] \/ beat[k] \in Moved)]
    /\ empty_close' = [k \in Draining |->
         /\ ~job_start
         /\ \/ empty_close[k]
            \/ Closes(k, beat) /\ ~saw_out[k] /\ beat[k] \notin Moved]

(* A mutant: the job's clear outranks the capture.                         *)
ClearOutranks == fused_err' = (~job_start /\ (fused_err \/ Raising))

(* Capture outranks the job's clear.                                       *)
FusedErrorClock ==
    fused_err' = IF ~fused_err /\ Raising THEN TRUE ELSE fused_err /\ ~job_start

(* The writer: records first, then the status.                             *)
WriterClock(beat, noise) ==
    writer' \in
      CASE writer.phase = "idle" ->
             {IF unit_start THEN [phase |-> "run", done |-> FALSE, error |-> FALSE]
                            ELSE writer}
        [] writer.phase = "run" ->
             {IF beat[Terminal] \in Moved THEN [writer EXCEPT !.phase = "write"]
              ELSE IF unit_status_valid
                THEN [phase |-> "idle", done |-> TRUE, error |-> unit_status_error(noise)]
              ELSE writer}
        [] writer.phase = "write" -> {writer, [writer EXCEPT !.phase = "run"]}

SourceClock(beat) ==
    source' = IF unit_start THEN "feeding" ELSE IF beat[0] \in Last THEN "done" ELSE source

Lane ==
    \E beat \in Moves, noise \in IF QuietError THEN {FALSE} ELSE BOOLEAN :
      /\ SourceClock(beat)
      /\ WriterClock(beat, noise)
      /\ FusedErrorClock
      /\ EmptyCloseClock(beat)
      /\ StagesClock(beat)

-----------------------------------------------------------------------------
(* The rest of the shell.                                                  *)

NoPulse == job_start' = FALSE /\ unit_start' = FALSE

(* JOB_CONTROL is written, and the job is refused or starts the units.     *)
(* The host is not faster than a draining stage, whose status comes in the *)
(* clock of job_start at the latest.                                       *)
Submit ==
    /\ job = "over"
    /\ job' = "run"
    /\ job_start' = TRUE
    /\ unit_start' \in BOOLEAN
    /\ UNCHANGED <<prev_done, pipeline_error_reset>>
    /\ Lane
    /\ \A k \in Draining : stage'[k].out = "last" => stage'[k].status # "none"

(* A job is refused: length_fail, or its like, goes up behind job_start.   *)
Refuse ==
    /\ job = "run" /\ job_start /\ ~unit_start
    /\ job' = "refused"
    /\ NoPulse
    /\ UNCHANGED <<prev_done, pipeline_error_reset>>
    /\ Lane

LaneDone == source = "done" /\ writer.done /\ ~unit_start

(* The job is done: refused, or with its reader and all its lanes.  An     *)
(* error, of this lane or elsewhere, resets the lanes in the next clock,   *)
(* but only if job_done rises with it: a refused job behind one that is    *)
(* done resets nothing.                                                    *)
Finish ==
    /\ \/ job = "run" /\ LaneDone /\ pipeline_error_reset' \in {writer.error, TRUE}
       \/ job = "refused" /\ pipeline_error_reset' = ~prev_done
    /\ job' = "after"
    /\ prev_done' = TRUE
    /\ NoPulse
    /\ Lane

(* The units run on.                                                       *)
Run ==
    /\ job \in {"over", "run"}
    /\ ~(job_start /\ ~unit_start)
    /\ NoPulse
    /\ prev_done' = (prev_done /\ ~unit_start)
    /\ UNCHANGED <<job, pipeline_error_reset>>
    /\ Lane

After ==
    /\ job = "after"
    /\ job' = "over"
    /\ pipeline_error_reset' = FALSE
    /\ UNCHANGED prev_done
    /\ NoPulse
    /\ Lane

(* prev_done comes out of reset high, but no job is done then, and it has   *)
(* fallen before anybody can write.                                        *)
Init ==
    /\ job = "over" /\ prev_done = FALSE
    /\ job_start = FALSE /\ unit_start = FALSE
    /\ pipeline_error_reset = FALSE
    /\ source = "idle"
    /\ stage = [k \in Stages |-> AtRest]
    /\ fused_err = FALSE
    /\ saw_out = [k \in Draining |-> FALSE]
    /\ empty_close = [k \in Draining |-> FALSE]
    /\ writer = [phase |-> "idle", done |-> FALSE, error |-> FALSE]

(* s_axi_aresetn. *)
Reset ==
    /\ job' = "over" /\ prev_done' = FALSE /\ NoPulse
    /\ pipeline_error_reset' = FALSE
    /\ source' = "idle"
    /\ stage' = [k \in Stages |-> AtRest]
    /\ fused_err' = FALSE
    /\ saw_out' = [k \in Draining |-> FALSE]
    /\ empty_close' = [k \in Draining |-> FALSE]
    /\ writer' = [phase |-> "idle", done |-> FALSE, error |-> FALSE]

Next == Submit \/ Refuse \/ Finish \/ Run \/ After \/ Reset

Spec == Init /\ [][Next]_vars

(* The clock runs on without resets; a batch is finite; a write is         *)
(* answered; a stage that has its whole batch gives its last row or its    *)
(* status; the other lanes end.                                            *)
Clock == Submit \/ Refuse \/ Finish \/ Run \/ After

Advances(k) ==
    /\ stage[k].in = "ended" /\ stage[k].status = "none"
    /\ Clock
    /\ stage'[k] # stage[k] /\ stage'[k].out # "some"

FairSpec ==
    /\ Spec
    /\ WF_vars(Run) /\ WF_vars(After)
    /\ WF_vars(Refuse) /\ WF_vars(Finish)
    /\ SF_vars(source = "feeding" /\ source' = "done" /\ Clock)
    /\ WF_vars(writer.phase = "write" /\ writer' = [writer EXCEPT !.phase = "run"] /\ Clock)
    /\ \A k \in Stages : SF_vars(Advances(k))

-----------------------------------------------------------------------------
(* Properties.                                                             *)

(* Every register has its type, and the glue has seen a row of every       *)
(* draining stage that gave one.                                           *)
TypeOK ==
    /\ job \in {"over", "run", "refused", "after"}
    /\ prev_done \in BOOLEAN
    /\ job_start \in BOOLEAN /\ unit_start \in BOOLEAN
    /\ pipeline_error_reset \in BOOLEAN
    /\ source \in {"idle", "feeding", "done"}
    /\ stage \in [Stages -> Stage]
    /\ fused_err \in BOOLEAN
    /\ saw_out \in [Draining -> BOOLEAN]
    /\ empty_close \in [Draining -> BOOLEAN]
    /\ writer \in Writer
    /\ \A k \in Draining : stage[k].out # "none" => saw_out[k]

(* A job's units start on a lane in which nothing of an earlier job is     *)
(* left but the status of a late stage, accepted in that clock: no row, no *)
(* other status, and the writer idle ("a close-out-on-success stage        *)
(* mid-chain would leave a second status pending after the writer is       *)
(* done", LaneTile).                                                       *)
StartsFresh ==
    unit_start =>
      /\ writer.phase = "idle"
      /\ \A k \in Stages :
           stage[k] = AtRest \/ (k \in Late /\ Pending(k) /\ stage[k].out = "last")

(* An error that coincides with job_start is carried into the new job's    *)
(* status "rather than silently dropped": that job ends badly, however its *)
(* own batch fares.                                                        *)
LateErrorIsReported ==
    unit_start /\ Raising ~> (writer.done /\ writer.error) \/ source = "idle"

(* Every job ends: also the one whose rows all go missing in a draining    *)
(* stage, behind which nothing ever closes ("the record writer would wait  *)
(* forever").                                                              *)
LaneEnds == job \in {"run", "refused"} ~> job \in {"after", "over"}

-----------------------------------------------------------------------------
(* The lane keeps OneCloseOut.                                             *)

(* The stage has given all that it gives of its batch.                     *)
Through(k) == stage[k].in = "idle" \/ Pending(k) \/ stage[k].out = "last"

(* The stage has failed, and not only behind its last row.                 *)
Failing(k) == stage[k].status = "bad" /\ ~(k \in Late /\ stage[k].out = "last")

Contract == INSTANCE OneCloseOut WITH
    batch  <- CASE source = "idle" -> "none"
                [] source = "done" /\ \A k \in Stages : Through(k) -> "whole"
                [] OTHER -> "open",
    raised <- Raising /\ ~fused_err,
    failed <- IF writer.phase = "idle" THEN writer.error
              ELSE fused_err \/ \E k \in Stages : Failing(k),
    answer <- IF writer.phase # "idle" THEN "none"
              ELSE IF writer.error THEN "bad" ELSE "good"

(* "Exactly one success close-out per lane per batch", only behind the     *)
(* whole batch, and never over a failure of a fused stage that came before *)
(* it, or in the clock of job_start.                                       *)
KeepsOneCloseOut == Contract!Spec
===============================================================================
