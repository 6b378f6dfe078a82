----------------------------- MODULE OneCloseOut ------------------------------
(***************************************************************************)
(* What a lane owes its record writer (the docstring of LaneTile in        *)
(* dau_build/scan_composition.py): "exactly one success close-out per lane *)
(* per batch", whatever chain of stages the lane is made of, and an error  *)
(* instead of it when a stage failed, also when it failed "coinciding with *)
(* job_start" (_fused_chain_status_glue_sv).                               *)
(***************************************************************************)
VARIABLES
    batch,      \* where the job's batch is: "none", "open", or "whole" when all
                \* of it is through the lane
    raised,     \* does a stage that drains raise an error in this step, and no
                \* other error is on record
    failed,     \* has a stage of the lane failed in this job
    answer      \* the lane's close-out: "none" yet, "good" or "bad"

laneVars == <<batch, raised, failed, answer>>

Batches == {"none", "open", "whole"}

Init == batch = "none" /\ raised = FALSE /\ failed = FALSE /\ answer = "good"

(* A job starts once the last one has its close-out, and owes it nothing   *)
(* but the error that is raised in this very step.                         *)
Begin ==
    /\ answer # "none"
    /\ batch' = "open"
    /\ failed' = raised
    /\ answer' = "none"
    /\ raised' \in BOOLEAN

(* The batch goes through, a stage may fail, and the lane closes out: well *)
(* when the whole batch is through and nothing failed, badly only behind a *)
(* failure.  An error that is raised before the close-out is not lost.     *)
Proceed ==
    /\ answer = "none"
    /\ batch' \in Batches
    /\ raised' \in BOOLEAN
    /\ failed' \in {failed, TRUE}
    /\ raised /\ answer' = "none" => failed'
    /\ ~failed' /\ batch = "whole" => batch' = "whole"
    /\ \/ answer' = "none"
       \/ answer' = "good" /\ batch = "whole" /\ ~failed'
       \/ answer' = "bad" /\ failed

(* Behind a bad close-out the rest of the batch is thrown away; behind a   *)
(* good one nothing is left of it.  An error raised now comes too late.    *)
Settle ==
    /\ answer # "none"
    /\ batch' \in (IF answer = "bad" THEN Batches ELSE {batch})
    /\ raised' \in BOOLEAN
    /\ UNCHANGED <<failed, answer>>

(* The shell is reset. *)
Restart == batch' = "none" /\ raised' = FALSE /\ failed' = FALSE /\ answer' = "good"

Next == Begin \/ Proceed \/ Settle \/ Restart

Spec == Init /\ [][Next]_laneVars
===============================================================================
