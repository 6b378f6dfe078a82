---------------------------- MODULE HardwarePlans ----------------------------
(***************************************************************************)
(* The hardware plans of dau_build/hardware_plan.py: which steps a plan    *)
(* composes, in which order, and which requests composition refuses.       *)
(*                                                                         *)
(* A step is its name: the executor looks at nothing else of a ToolStep    *)
(* once the executables are resolved, and the host's reaction to a step is *)
(* the subject of module HardwareSession.                                  *)
(***************************************************************************)
EXTENDS Naturals, Sequences

CONSTANTS
    Boards,      \* the physical boards cabled to the host
    Spellings,   \* the ways an operator may spell an endpoint BDF
    NoBdf,       \* endpoint_bdf left unset
    Lower,       \* Spellings -> Spellings, str.lower()
    BoardAt      \* Spellings -> Boards, the board that answers at a BDF

(* Two spellings name one board exactly when they agree up to case. *)
ASSUME SpellingAssumption ==
    /\ NoBdf \notin Spellings
    /\ Lower \in [Spellings -> Spellings]
    /\ BoardAt \in [Spellings -> Boards]
    /\ \A s, t \in Spellings : Lower[s] = Lower[t] <=> BoardAt[s] = BoardAt[t]

-----------------------------------------------------------------------------
(* What an operator asks for: HardwarePlanTask's fields after the platform *)
(* has been folded in by for_platform.                                     *)

PlanNames ==
    { "build-and-program", "recovery", "local-build-and-program",
      "validate-bitstream", "flash", "sram-program",
      "thunderbolt-hold", "thunderbolt-release" }

(* Host-access facts a step may need, and so may find unset.  A cable that *)
(* a composed programmer pins counts as set.                               *)
HostFacts ==
    { "endpoint_bdf", "rescan_bdfs", "runtime_pm_patterns", "jtag_cable",
      "expected_endpoint_id", "reset_bridge_bdf" }

Request ==
    [ plan       : PlanNames,
      board      : Boards,                  \* the board the tools reach
      bdf        : Spellings \cup {NoBdf},  \* endpoint_bdf as given
      facts      : SUBSET HostFacts,        \* host-access facts that are set
      programmer : {"openfpgaloader", "vivado-hwserver"}, \* resolve_programmer
      explicit   : BOOLEAN,   \* programmer= composed, not the board's default
      spi4       : BOOLEAN,   \* spi_boot_buswidth = 4
      external   : BOOLEAN,   \* bitstream_path given
      good       : BOOLEAN,   \* the bitstream is a live design
      patterns   : BOOLEAN,   \* runtime_pm_patterns is not ()
      stage      : BOOLEAN,   \* source_shell_root given
      drivers    : BOOLEAN,   \* vivado_mount_root given
      probe      : BOOLEAN ]  \* smoke_command / verify_command given

(* The BDF is one of the host facts, and addresses the board it names. *)
WellFormed(q) ==
    /\ q \in Request
    /\ q.bdf # NoBdf <=> "endpoint_bdf" \in q.facts
    /\ q.bdf # NoBdf => BoardAt[q.bdf] = q.board

-----------------------------------------------------------------------------
(* The plans.                                                              *)

When(condition, steps) == IF condition THEN steps ELSE << >>

(* The Vivado programmer has no detect step. *)
detect_steps(q) == When(q.programmer = "openfpgaloader", <<"jtag-detect">>)

build_and_program_plan(q) ==
    <<"thunderbolt-hold", "vivado-build">> \o detect_steps(q)
        \o <<"program-volatile", "pci-rescan", "lspci-endpoint">>

(* The mutants of the plans each misplace or forget one step. *)
RecoveryRescansFirst(q) ==
    <<"thunderbolt-hold", "remove-endpoint", "pci-rescan", "program-volatile",
      "pci-rescan", "lspci-endpoint">>

recovery_plan(q) ==
    <<"thunderbolt-hold", "remove-endpoint", "program-volatile",
      "pci-rescan", "lspci-endpoint">>

ProgramWithoutRemoval(q) ==
    detect_steps(q)
        \o <<"program-volatile", "pci-rescan", "lspci-endpoint",
             "thunderbolt-release">>

(* detect, remove, program, rescan, check, probe and release: the tail the *)
(* two plans that own the whole session share.                             *)
ProgramAndRelease(q) ==
    detect_steps(q)
        \o <<"remove-endpoint", "program-volatile", "pci-rescan",
             "lspci-endpoint">>
        \o When(q.probe, <<"driver-hardware-smoke">>)
        \o <<"thunderbolt-release">>

validate_bitstream_plan(q) == <<"thunderbolt-hold">> \o ProgramAndRelease(q)

local_build_and_program_plan(q) ==
    When(q.stage, <<"stage-shell">>)
        \o <<"thunderbolt-hold", "write-dau-overlay",
             "write-vivado-build-script">>
        \o When(q.drivers, <<"write-vivado-driver-script",
                             "write-vivado-driver-script">>)
        \o <<"vivado-overlay-build">>
        \o ProgramAndRelease(q)

(* An SPI-boot board without an explicit programmer takes the cfgmem path. *)
flash_step(q) ==
    IF (q.spi4 /\ ~q.explicit) \/ q.programmer = "vivado-hwserver"
    THEN "flash"
    ELSE "program-persistent"

flash_plan(q) ==
    <<"thunderbolt-hold", flash_step(q), "thunderbolt-release">>
        \o When(q.spi4, <<"cold-power-cycle-required">>)

SramWithoutHold(q) ==
    <<"deadman-arm", "remove-endpoint", "program-volatile",
      "secondary-bus-reset", "pci-global-rescan-settle", "lspci-endpoint">>
        \o When(q.probe, <<"verify-device">>)
        \o <<"deadman-disarm">>

SramArmsLate(q) ==
    <<"pm-hold-path", "remove-endpoint", "deadman-arm", "program-volatile",
      "secondary-bus-reset", "pci-global-rescan-settle", "lspci-endpoint">>
        \o When(q.probe, <<"verify-device">>)
        \o <<"deadman-disarm">>

SramWithoutReset(q) ==
    <<"pm-hold-path", "deadman-arm", "remove-endpoint", "program-volatile",
      "pci-global-rescan-settle", "lspci-endpoint">>
        \o When(q.probe, <<"verify-device">>)
        \o <<"deadman-disarm">>

sram_program_plan(q) ==
    <<"pm-hold-path", "deadman-arm", "remove-endpoint", "program-volatile",
      "secondary-bus-reset", "pci-global-rescan-settle", "lspci-endpoint">>
        \o When(q.probe, <<"verify-device">>)
        \o <<"deadman-disarm">>

compose(q) ==
    CASE q.plan = "build-and-program"       -> build_and_program_plan(q)
      [] q.plan = "recovery"                -> recovery_plan(q)
      [] q.plan = "local-build-and-program" -> local_build_and_program_plan(q)
      [] q.plan = "validate-bitstream"      -> validate_bitstream_plan(q)
      [] q.plan = "flash"                   -> flash_plan(q)
      [] q.plan = "sram-program"            -> sram_program_plan(q)
      [] q.plan = "thunderbolt-hold"        -> <<"thunderbolt-hold">>
      [] q.plan = "thunderbolt-release"     -> <<"thunderbolt-release">>

StepNames ==
    { "thunderbolt-hold", "thunderbolt-release", "pm-hold-path",
      "vivado-build", "vivado-overlay-build", "stage-shell",
      "write-dau-overlay", "write-vivado-build-script",
      "write-vivado-driver-script", "jtag-detect", "remove-endpoint",
      "program-volatile", "program-persistent", "flash", "pci-rescan",
      "pci-global-rescan-settle", "secondary-bus-reset", "lspci-endpoint",
      "driver-hardware-smoke", "verify-device", "deadman-arm",
      "deadman-disarm", "cold-power-cycle-required" }

(* A mutant: the disarm named so that the cleanup pass runs it. *)
DisarmIsRelease(name) == name \in {"thunderbolt-release", "deadman-disarm"}

(* step.name.endswith("release"), the executor's test for a cleanup step. *)
IsRelease(name) == name = "thunderbolt-release"

-----------------------------------------------------------------------------
(* Composition raises before anything runs.                                *)

(* The host-access facts each step reads through required_host_access. *)
required_host_access(name) ==
    CASE name \in {"thunderbolt-hold", "thunderbolt-release"} ->
             {"runtime_pm_patterns"}
      [] name = "pm-hold-path" -> {"endpoint_bdf", "runtime_pm_patterns"}
      [] name = "remove-endpoint" -> {"endpoint_bdf"}
      [] name \in {"jtag-detect", "program-volatile", "program-persistent"} ->
             {"jtag_cable"}
      [] name = "pci-rescan" -> {"rescan_bdfs"}
      [] name = "secondary-bus-reset" -> {"reset_bridge_bdf"}
      [] name = "lspci-endpoint" ->
             {"rescan_bdfs", "expected_endpoint_id", "endpoint_bdf"}
      [] OTHER -> {}

(* What the programmers themselves refuse (programmers.py). *)
ProgrammerRefuses(q, name) ==
    \/ name = "program-volatile" /\ q.programmer = "vivado-hwserver"
    \/ name = "program-persistent" /\ q.spi4
    \/ name = "flash" /\ q.external

Composable(q) ==
    \A i \in DOMAIN compose(q) :
        /\ required_host_access(compose(q)[i]) \subseteq q.facts
        /\ ~ProgrammerRefuses(q, compose(q)[i])
=============================================================================
