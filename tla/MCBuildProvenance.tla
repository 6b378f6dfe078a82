--------------------------- MODULE MCBuildProvenance ---------------------------
(* Two versions and two builds: a bitstream of an earlier version or of a   *)
(* build that stopped, and the one that replaces it.  A registry of a tile  *)
(* measured at two points, whose table is generated and takes a package, of *)
(* a generated core beside them, and of one that cannot be walked.          *)
EXTENDS BuildProvenance, PlatformSizing, VivadoContract, TLC

VersionSymmetry == Permutations(Versions)

Core(module, depends) ==
    [module |-> module, depends |-> depends, package |-> FALSE, generated |-> FALSE,
     accepts |-> {"default"}, points |-> {}]
Point(clock, params) == [clock |-> clock, params |-> params]

MCRegistry ==
    [scan  |-> [Core("dau_scan", {"table"}) EXCEPT !.accepts = {"default", "wide"},
                  !.points = {Point("8ns", "default"), Point("8ns", "wide")}],
     table |-> [Core("dau_table", {"types"}) EXCEPT !.generated = TRUE],
     types |-> [Core("dau_types", {}) EXCEPT !.package = TRUE],
     exp   |-> [Core("dau_exp", {}) EXCEPT !.generated = TRUE,
                  !.points = {Point("any", "default")}],
     lost  |-> Core("dau_lost", {"gone"})]

Asks(do, cores, clock, params) ==
    [do |-> do, cores |-> cores, clock |-> clock,
     params |-> [c \in {"exp", "lost", "scan", "table", "types"} |->
                   IF c = "scan" THEN params ELSE "default"]]

\* A board that crosses three lanes, one that leaves them, one not measured.
MCTargets ==
    LET placements == <<[lane |-> 0, site |-> "X0Y2"], [lane |-> 1, site |-> "X0Y0"],
                        [lane |-> 2, site |-> "X0Y1"]>>
    IN {[placeholders |-> FALSE, placements |-> placements],
        [placeholders |-> FALSE, placements |-> <<>>], [placeholders |-> TRUE, placements |-> <<>>]}

MCRequest ==
    [plain   |-> Asks("synthesize", <<"scan">>, "8ns", "default"),
     wide    |-> Asks("synthesize", <<"exp", "scan">>, "8ns", "wide"),
     both    |-> Asks("synthesize", <<"table", "scan">>, "8ns", "default"),
     slow    |-> Asks("synthesize", <<"scan">>, "10ns", "default"),
     odd     |-> Asks("handoff", <<"table", "scan">>, "8ns", "odd"),
     lost    |-> Asks("handoff", <<"lost">>, "8ns", "default"),
     package |-> Asks("synthesize", <<"types">>, "8ns", "default"),
     render  |-> Asks("render", <<"table">>, "8ns", "default")]

--------------------------------------------------------------------------------
(* The boards are chosen and sized over small amounts of every resource.   *)

Amounts(lut, ff, bram36, dsp) ==
    {[r \in Resources |-> CASE r = "lut" -> a [] r = "ff" -> b [] r = "bram36" -> c [] r = "dsp" -> d] :
       a \in lut, b \in ff, c \in bram36, d \in dsp}

Platform(budget, tiers, active) ==
    [budget |-> budget, storage_tiers |-> tiers, active_memory_tier |-> active,
     host_link |-> [pcie_lanes |-> 4, expected_link_width |-> 2],
     width_tiers |-> <<64, 128>>, job_clock_mhz |-> Unset, program_method |-> "jtag"]

Tiers == [name : {"bram", "ddr"}, access : {"owned", "shared"}]

ASSUME CeilingAssumption ==
    \A budget \in Amounts({1, 4, 7}, {2, 3}, {1, 2, 6, 8}, {1}),
       lane \in Amounts(-1 .. 3, {0, 1}, 0 .. 4, {0}),
       overhead \in Amounts({-1, 0, 2, 5}, {0, 3}, {0, 1, 4}, {0}) :
      ~MaxLanesRefuses(lane, budget, overhead) => IsCeiling(lane, budget, overhead)

ASSUME FullRateAssumption ==
    \A width \in 1 .. 512 : ~MinLanesRefuses(width) => FullRate(width)

ASSUME MemoryAssumption ==
    \A tiers \in UNION {[1 .. n -> Tiers] : n \in 0 .. 3}, active \in {Unset, "bram", "ddr", "none"},
       budget \in Amounts({1}, {1}, {0, 1}, {1}) :
      MemoryIsShared(Platform(budget, tiers, active))

--------------------------------------------------------------------------------
(* Vivado projects: with each kind of artifact bundle, invocation, mount    *)
(* root, definition and staging task.  The path of the work root goes on    *)
(* from the mount root "above"; of the bundles one has no sources.   *)

MCLonger == {<<"work", "above">>}

Bundle(listed, top) == [sources |-> listed, top |-> top]
StagedBundles == [main |-> Bundle(<<"core.sv", "top.sv">>, "top.sv"),
                  bare |-> Bundle(<<>>, Blank), topless |-> Bundle(<<"core.sv">>, Blank)]

Given(path) == [file |-> path, as |-> "given"]
Definition(given, items, runtime) == [given |-> given, items |-> items, runtime |-> runtime]

ProjectWith(bundle, invocation, mount_root, definition, stage_task, image) ==
    [platform |-> "kcu105", shell |-> "scan", artifact_stem |-> "dau",
     register_map_version |-> "0.2", stream_protocol_version |-> "0.1",
     operator_set |-> "identity", build_tcl |-> DefaultBuildTcl, bitstream |-> image,
     resource_summary |-> "area", timing_summary |-> "timing", vivado_log |-> "log",
     vivado_settings |-> "settings", vivado_executable |-> "vivado",
     vivado_invocation |-> invocation, vivado_mount_root |-> mount_root,
     source_shell_root |-> "seed", work_root |-> "work", dau_core_root |-> "core",
     dau_driver_root |-> "driver", dau_utils_root |-> Blank, dau_build_manifest |-> Blank,
     dau_top_sv |-> Blank, dau_artifact_bundle |-> bundle, overlay_tcl |-> "overlay",
     manifest_path |-> "manifest", command_plan_path |-> "plan",
     project_manifest |-> "project", xdma_module |-> "xdma", stage_task |-> stage_task,
     overlay_definition |-> definition]

Projects ==
    {ProjectWith(bundle, invocation, mount_root, definition, stage_task, image) :
       bundle \in {Blank, Given("main"), Given("bare"), Given("topless"), Given("lost")},
       invocation \in {"standard", "source-only"}, mount_root \in {Blank, "above", "aside"},
       definition \in {Definition(FALSE, NoItems, NoItems),
                       Definition(TRUE, [core_sv |-> "core.sv"], [xdma_ip |-> "ip"])},
       stage_task \in {DefaultStageTask, "own"},
       image \in {"top.bit", DefaultOutputs.bitstream}}

StagedProjects == {r \in Projects : BundleLoads(r, StagedBundles)}

ASSUME ProjectsAssumption == \A r \in Projects : IsRequest(r) /\ DefinitionIsApart(r)

ASSUME StagedAssumption ==
    \A r \in StagedProjects : MountIsFound(r) => StagedIsAccepted(r, {}, StagedBundles)

ASSUME BuiltAssumption ==
    \A r \in StagedProjects,
       files \in {{}, {"area", "timing", "log"}, {"top.bit", "area", "timing", "log"}} :
      MountIsFound(r) => BuiltIsAcceptedIfThere(r, files, StagedBundles)

ASSUME MountAssumption ==
    \A r \in StagedProjects :
      UnusedMountIsRefused(r, {}, StagedBundles) /\ RunsWhatIsWritten(r)

ASSUME ReplayAssumption == \A r \in StagedProjects : ReplayIsTheSame(r, StagedBundles)
================================================================================
