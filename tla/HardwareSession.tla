--------------------------- MODULE HardwareSession ---------------------------
(***************************************************************************)
(* What the steps of the plans do to the bench: the FPGA's configuration   *)
(* and its flash, the endpoint the kernel has enumerated, the runtime-PM   *)
(* hold on the path to it, and the deadman that reboots the host.          *)
(*                                                                         *)
(* The scripts of hardware_plan.py act on it; how the kernel, the PM tool, *)
(* the deadman and the card answer is taken from what the scripts and      *)
(* their comments rely on.                                                 *)
(***************************************************************************)
EXTENDS PlanExecutor

CONSTANTS
    Outlasting,  \* the runs whose step may go on working when they are gone
    HotPlug,     \* the boards whose bridges cut power when they suspend
    Matches,     \* board -> the boards its runtime-PM patterns match
    Twins        \* board -> the boards that answer to its PCI id

ASSUME BenchAssumption ==
    /\ Outlasting \subseteq Runs
    /\ HotPlug \subseteq Boards
    /\ Matches \in [Boards -> SUBSET Boards]
    /\ Twins \in [Boards -> SUBSET Boards]
    /\ \A b \in Boards : b \in Matches[b] /\ b \in Twins[b]

VARIABLES
    cards,       \* the state of each board
    deadman,     \* whether the forced reboot is armed
    hung         \* the runs whose step is stuck in the kernel

hostVars == <<cards, deadman, hung>>
sessionVars == <<vars, hostVars>>

Card ==
    [ sram : {"good", "bad", "blank", "off"},  \* the running configuration
      spi  : {"good", "bad", "torn"},          \* the flash-resident one
      node : {"none", "stale", "live"},        \* the sysfs device
      core : BOOLEAN,                          \* the register block answers
      held : BOOLEAN ]                         \* the path is held awake

StepName(r) == Steps(r)[pc[r]]
Image(q)    == IF q.good THEN "good" ELSE "bad"
Rescans     == {"pci-rescan", "pci-global-rescan-settle", "lspci-endpoint"}
Holds       == {"thunderbolt-hold", "pm-hold-path"}
Flashes     == {"flash", "program-persistent"}

(* Power-on configures the FPGA from its flash. *)
PoweredOn(c) ==
    LET image == IF c.spi = "torn" THEN "blank" ELSE c.spi
    IN  [c EXCEPT !.sram = image, !.core = image = "good"]

Booted(c) ==
    [PoweredOn(c) EXCEPT !.held = FALSE,
                         !.node = IF c.spi = "good" THEN "live" ELSE "none"]

Rescanned(c) ==
    [c EXCEPT !.node = IF @ = "none" /\ c.sram = "good" THEN "live" ELSE @]

Held(c) == [(IF c.sram = "off" THEN PoweredOn(c) ELSE c) EXCEPT !.held = TRUE]

(* A board enumerates under the kernel's spelling of its BDF, lower case,  *)
(* and the removal goes by the path the BDF spells.                        *)
SysfsSpells(bdf) == bdf # NoBdf /\ Lower[bdf] = bdf

-----------------------------------------------------------------------------
(* The steps.                                                              *)

(* The boards a step reaches: the tools its own board, the PM tool those   *)
(* its patterns match, a rescan the whole bus.  lspci-endpoint rescans     *)
(* only when it does not find the id.                                      *)
Reaches(name, q) ==
    CASE name \in Holds \cup {"thunderbolt-release"} ->
             IF q.patterns THEN Matches[q.board] ELSE {}
      [] name = "lspci-endpoint" ->
             IF \E t \in Twins[q.board] : cards[t].node # "none" THEN {} ELSE Boards
      [] name \in Rescans \ {"lspci-endpoint"} -> Boards
      [] OTHER -> {q.board}

(* What a step that exits with 0 makes of a card it reaches.  A hold on    *)
(* the endpoint itself goes with the endpoint's node: only the patterns,   *)
(* which name the bridges, keep the path awake.  A new configuration is    *)
(* not the one the kernel enumerated, and its register block may stay dead *)
(* until the bus is reset.                                                 *)
Worked(name, q, core, c) ==
    CASE name \in Holds               -> Held(c)
      [] name = "thunderbolt-release" -> [c EXCEPT !.held = FALSE]
      [] name = "remove-endpoint"     ->
             [c EXCEPT !.node = IF SysfsSpells(q.bdf) THEN "none" ELSE @]
      [] name = "program-volatile"    ->
             [c EXCEPT !.sram = Image(q), !.core = core,
                       !.node = IF @ = "none" THEN @ ELSE "stale"]
      [] name \in Flashes             -> [c EXCEPT !.spi = Image(q)]
      [] name = "secondary-bus-reset" -> [c EXCEPT !.core = c.sram = "good"]
      [] name \in Rescans             -> Rescanned(c)
      [] OTHER                        -> c

(* The states a step that exits with 0 may leave the cards in. *)
Completed(name, q) ==
    { [x \in Boards |-> IF x \in Reaches(name, q)
                        THEN Worked(name, q, core, cards[x]) ELSE cards[x]] :
        core \in {q.good, FALSE} }

(* The cards a step that fails or is cut short may leave: as they were, as *)
(* the whole step leaves them, or with the write half done.                *)
Partial(name, q) ==
    {cards} \cup Completed(name, q)
        \cup (IF name = "program-volatile" /\ cards[q.board].sram # "off"
              THEN {[cards EXCEPT ![q.board].sram = "blank",
                                  ![q.board].core = FALSE,
                                  ![q.board].node =
                                      IF @ = "none" THEN @ ELSE "stale"]}
              ELSE {})
        \cup (IF name \in Flashes
              THEN {[cards EXCEPT ![q.board].spi = "torn"]}
              ELSE {})

(* What the step itself checks before it exits with 0: JTAG answers, an    *)
(* endpoint with the expected id is listed, the injected probe reads it.   *)
CanSucceed(name, q) ==
    /\ name = "program-volatile" => cards[q.board].sram # "off"
    /\ name = "lspci-endpoint" =>
           \E t \in Twins[q.board] : Rescanned(cards[t]).node # "none"
    /\ name \in {"verify-device", "driver-hardware-smoke"} =>
           cards[q.board].node = "live" /\ cards[q.board].core

Armed(name) ==
    CASE name = "deadman-arm"    -> TRUE
      [] name = "deadman-disarm" -> FALSE
      [] OTHER                   -> deadman

-----------------------------------------------------------------------------
SessionInit ==
    /\ Init
    /\ cards = [b \in Boards |-> [sram |-> "good", spi |-> "good",
                                  node |-> "live", core |-> TRUE,
                                  held |-> FALSE]]
    /\ deadman = FALSE
    /\ hung = {}

(* The executor moves between steps. *)
Between(r) ==
    /\ \/ Refuse(r) \/ Invoke(r) \/ Acquire(r)
       \/ StartStep(r) \/ SkipStep(r) \/ Return(r)
    /\ UNCHANGED hostVars

Success(r) ==
    /\ r \notin hung
    /\ StepSucceeds(r) \/ CleanupStepEnds(r, TRUE)
    /\ CanSucceed(StepName(r), request[r])
    /\ cards' \in Completed(StepName(r), request[r])
    /\ deadman' = Armed(StepName(r))
    /\ UNCHANGED hung

CutShort(r) ==
    /\ cards' \in Partial(StepName(r), request[r])
    /\ deadman' \in {deadman, Armed(StepName(r))}
    /\ UNCHANGED hung

Failure(r) ==
    /\ r \notin hung
    /\ StepFails(r) \/ CleanupStepEnds(r, FALSE)
    /\ CutShort(r)

(* Ctrl-C or a kill ends the step on the way, unless it outlives its run.  *)
(* A step hung in the kernel always does: no signal reaches it.            *)
InterruptedRun(r) ==
    /\ Interrupt(r)
    /\ IF child[r] /\ ~child'[r]
       THEN r \notin hung /\ CutShort(r)
       ELSE /\ child[r] => r \in hung \cup Outlasting
            /\ UNCHANGED hostVars

(* Nobody waits for an orphan: it ends well or not. *)
OrphanStepEnds(r) ==
    /\ r \notin hung
    /\ OrphanEnds(r)
    /\ CutShort(r)

(* A rescan against a dead image hangs in the kernel, and its process      *)
(* neither ends nor dies.                                                  *)
Hang(r) ==
    /\ child[r]
    /\ r \notin hung
    /\ StepName(r) \in Rescans
    /\ \E b \in Boards : cards[b].node = "none" /\ cards[b].sram = "bad"
    /\ hung' = hung \cup {r}
    /\ UNCHANGED <<vars, cards, deadman>>

(* The bridges above a removed endpoint suspend, and its card loses power. *)
Suspend(b) ==
    /\ b \in HotPlug
    /\ cards[b].node = "none"
    /\ ~cards[b].held
    /\ cards[b].sram # "off"
    /\ cards' = [cards EXCEPT ![b].sram = "off", ![b].core = FALSE]
    /\ UNCHANGED <<vars, deadman, hung>>

(* A flash write the reboot cuts is torn. *)
HostReboot ==
    LET torn == {request[r].board : r \in
                    {s \in Runs : child[s] /\ StepName(s) \in Flashes}}
    IN  /\ Reboot
        /\ cards' = [b \in Boards |->
                        Booted(IF b \in torn
                               THEN [cards[b] EXCEPT !.spi = "torn"]
                               ELSE cards[b])]
        /\ deadman' = FALSE
        /\ hung' = {}

DeadmanFires == deadman /\ HostReboot

SessionNext ==
    \/ \E r \in Runs :
           \/ Between(r) \/ Success(r) \/ Failure(r) \/ InterruptedRun(r)
           \/ OrphanStepEnds(r) \/ Hang(r)
    \/ \E b \in Boards : Suspend(b)
    \/ DeadmanFires

SessionSpec == SessionInit /\ [][SessionNext]_sessionVars

(* The deadman's timer runs out unless it is disarmed.  Nothing else is    *)
(* owed: no step has to end.                                               *)
FairSession == SessionSpec /\ WF_sessionVars(DeadmanFires)

-----------------------------------------------------------------------------
(* Has a step of that name succeeded, or been started, in the run? *)
Done(r, name) ==
    \E i \in succeeded[r] : i \in DOMAIN Steps(r) /\ Steps(r)[i] = name
Begun(r, name) ==
    \E i \in attempted[r] : i \in DOMAIN Steps(r) /\ Steps(r)[i] = name

(* "The bridges must be held BEFORE the endpoint goes away and must stay   *)
(* held across the reprogram" (pm_hold_path_step): a run that holds the    *)
(* path and has removed the endpoint never finds the card without power    *)
(* when it programs it.                                                    *)
CardStaysPowered ==
    \A r \in Runs :
        /\ status[r] = "running" /\ request[r].patterns
        /\ Done(r, "remove-endpoint") /\ ~Done(r, "program-volatile")
        => cards[request[r].board].sram # "off"

(* "Arm the forced-reboot deadman over the risky PCIe window"              *)
(* (deadman_arm_step): from the removal until the disarm starts, a live    *)
(* sram-program run has the deadman behind it.                             *)
WindowIsCovered ==
    \A r \in Runs :
        /\ request[r].plan = "sram-program" /\ Critical(r)
        /\ Begun(r, "remove-endpoint") /\ ~Begun(r, "deadman-disarm")
        => deadman

(* "Do not rescan first - a rescan against a resident dead image is what   *)
(* hangs" (docs, Recover a wedged device): a recovery with a good image    *)
(* rescans only once that image runs.                                      *)
RecoveryRescansGood ==
    \A r \in Runs :
        /\ request[r].plan = "recovery" /\ request[r].good
        /\ status[r] = "running" /\ child[r] /\ StepName(r) \in Rescans
        => cards[request[r].board].sram = "good"

(* A run that may program the board takes its endpoint away first: the     *)
(* kernel never keeps a device whose configuration changed under it.       *)
NoStaleEndpoint == \A b \in Boards : cards[b].node # "stale"

(* A sram-program run reports success only of its own board: the image it  *)
(* was given runs, is enumerated, and answers.                             *)
SuccessIsAlive ==
    [][\A r \in Runs :
          /\ request[r].plan = "sram-program"
          /\ status[r] = "running" /\ status'[r] = "done"
          => LET c == cards[request[r].board]
             IN  c.sram = Image(request[r]) /\ c.node = "live" /\ c.core
      ]_sessionVars

(* "A wedge self-recovers by reboot to the SPI-resident design": whatever  *)
(* stops an sram-program run after it armed the deadman, a hung rescan     *)
(* included, its board is alive again.                                     *)
Stopped(r) ==
    /\ request[r].plan = "sram-program"
    /\ Done(r, "deadman-arm")
    /\ r \in hung \/ status[r] \in {"failed", "killed"}

Alive(b) == cards[b].sram = "good" /\ cards[b].node = "live"

WedgeSelfRecovers ==
    \A r \in Runs : Stopped(r) ~> (r \notin hung /\ Alive(request[r].board))
=============================================================================
