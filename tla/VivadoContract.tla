---------------------------- MODULE VivadoContract -----------------------------
(***************************************************************************)
(* What staging writes for Vivado and what validation holds it to          *)
(* (dau_build/vivado_backend.py): two manifests, a command plan, the       *)
(* overlay script, and the commands that the project records of itself.    *)
(*                                                                         *)
(* Everything here is a function of its arguments.  A request r is a       *)
(* record with a field for each parameter, by the name that it has in a    *)
(* manifest.  A manifest is a function from keys: the code reads the       *)
(* key=value lines with dict(), in which the last line of a key counts.    *)
(***************************************************************************)
CONSTANTS
    Blank,      \* the empty text: how None is written
    Longer      \* pairs of a path and one that its text goes on from

OverlayBackend == "dau_build.vivado_backend.vivado_overlay"
ProjectGenerator == "dau_build.vivado_backend.vivado_project"
DefaultStageTask == "stage-vivado-overlay"

ASSUME BlankAssumption ==
    Blank \notin {OverlayBackend, ProjectGenerator, DefaultStageTask, "planned", "built",
                  "standard", "source-only", "injected", "???"}

\* The four files that an implementation leaves behind.
OutputKeys == {"bitstream", "resource_summary", "timing_summary", "vivado_log"}

\* Both manifests carry these under one name.
Carried == OutputKeys \union
    {"platform", "shell", "artifact_stem", "build_tcl", "register_map_version",
     "stream_protocol_version", "operator_set", "vivado_settings", "vivado_executable",
     "vivado_invocation", "vivado_mount_root"}

\* The keys that come before the ones of the contract, or only with a bundle.
BundleKeys == {"dau_artifact_bundle", "dau_generated_top", "dau_bundle_hdl_sources"}

NoItems == [key \in {} |-> Blank]

Get(manifest, key) == IF key \in DOMAIN manifest THEN manifest[key] ELSE Blank

Over(manifest, later) ==
    [key \in DOMAIN manifest \union DOMAIN later |->
       IF key \in DOMAIN later THEN later[key] ELSE manifest[key]]

\* What is found by looking for a text: one that goes on from it is taken, too.
Begins(path, start) == path = start \/ <<path, start>> \in Longer

Agree(one, other) == one # Blank /\ other # Blank => one = other

--------------------------------------------------------------------------------
(* The request.  An overlay definition has the items it adds to the        *)
(* manifest when that is written, and those its script finds at run time.  *)

Mounted(r) == r.vivado_invocation = "source-only" /\ r.vivado_mount_root # Blank

HdlRoot(dau_core_root) == <<dau_core_root, "dau_core/hdl">>

\* A text that leads to a file: only where it leads is ever compared.
PathText(r, file) == [file |-> file, as |-> IF Mounted(r) THEN "relative" ELSE "absolute"]

\* A bundle that does not load, or has no sources, stops the staging.
BundleLoads(r, bundles) ==
    r.dau_artifact_bundle # Blank =>
      /\ r.dau_artifact_bundle.file \in DOMAIN bundles
      /\ bundles[r.dau_artifact_bundle.file].sources # <<>>

BundleItems(r, bundles) ==
    IF r.dau_artifact_bundle = Blank THEN NoItems
    ELSE LET bundle == bundles[r.dau_artifact_bundle.file] IN
         [dau_artifact_bundle    |-> PathText(r, r.dau_artifact_bundle.file),
          dau_generated_top      |-> IF bundle.top = Blank THEN Blank
                                     ELSE PathText(r, bundle.top),
          dau_bundle_hdl_sources |->
            [i \in DOMAIN bundle.sources |-> PathText(r, bundle.sources[i])]]

--------------------------------------------------------------------------------
(* What is written. *)

vivado_backend_manifest(r, bundles) ==
    Over(Over([backend |-> OverlayBackend], r.overlay_definition.items),
         Over(Over([key \in Carried |-> r[key]],
                   [overlay      |-> r.overlay_tcl,
                    build_root   |-> r.work_root,
                    manifest     |-> r.manifest_path,
                    command_plan |-> r.command_plan_path,
                    build_status |-> "planned"]),
              BundleItems(r, bundles)))

\* The lines that the overlay session appends, behind those it discovers.
OverlayLines(r, bundles) ==
    Over([overlay |-> r.overlay_tcl, build_status |-> "planned"],
         Over([key \in OutputKeys |-> r[key]], BundleItems(r, bundles)))

Lines(items) == {<<key, items[key]>> : key \in DOMAIN items}

dau_overlay_tcl(r, bundles) ==
    [puts     |-> Lines(r.overlay_definition.runtime) \union Lines(OverlayLines(r, bundles)),
     consumes |-> IF r.dau_artifact_bundle = Blank THEN {}
                  ELSE LET sources == bundles[r.dau_artifact_bundle.file].sources
                       IN {PathText(r, sources[i]) : i \in DOMAIN sources}]

\* With a mount root a script is reached through one that changes to the work
\* root and sources it.
CommandTcl(tcl, mount_root) ==
    [of |-> tcl, as |-> IF mount_root = Blank THEN "itself" ELSE "driver"]

SourceCommand(r, tcl) ==
    [style |-> r.vivado_invocation, executable |-> r.vivado_executable,
     tcl |-> CommandTcl(tcl, r.vivado_mount_root)]

overlay_build_script(r) ==
    [cd   |-> IF Mounted(r) THEN r.vivado_mount_root ELSE r.work_root,
     runs |-> {SourceCommand(r, tcl) : tcl \in {r.overlay_tcl, r.build_tcl}}]

ScriptsWritten(r) ==
    {[of |-> tcl, as |-> as] : tcl \in {r.overlay_tcl, r.build_tcl},
                               as \in IF Mounted(r) THEN {"itself", "driver"} ELSE {"itself"}}

VivadoOptions(r) ==
    Over(IF r.vivado_invocation = "standard" THEN NoItems
         ELSE [vivado_invocation |-> r.vivado_invocation],
         IF r.vivado_mount_root = Blank THEN NoItems
         ELSE [vivado_mount_root |-> r.vivado_mount_root])

\* An overlay definition cannot be given on a command line: the packaged task
\* is left with a value that it refuses, and one of the caller's has its own.
vivado_project_stage_command(r) ==
    [task    |-> r.stage_task,
     options |->
       Over(Over([source_shell_root |-> r.source_shell_root, work_root |-> r.work_root,
                  dau_core_root |-> r.dau_core_root, artifact_stem |-> r.artifact_stem,
                  backend_platform |-> r.platform, backend_shell |-> r.shell,
                  register_map_version |-> r.register_map_version,
                  stream_protocol_version |-> r.stream_protocol_version,
                  overlay_tcl |-> r.overlay_tcl, manifest_path |-> r.manifest_path,
                  command_plan_path |-> r.command_plan_path,
                  vivado_settings |-> r.vivado_settings, vivado |-> r.vivado_executable,
                  operator |-> r.operator_set],
                 VivadoOptions(r)),
            Over(IF r.dau_artifact_bundle = Blank THEN NoItems
                 ELSE [dau_artifact_bundle |-> r.dau_artifact_bundle],
                 IF r.overlay_definition.given /\ r.stage_task = DefaultStageTask
                 THEN [overlay_definition |-> "???"] ELSE NoItems))]

vivado_project_build_command(r) ==
    [task    |-> "build-vivado-artifacts",
     options |-> Over([work_root |-> r.work_root, overlay_tcl |-> r.overlay_tcl,
                       manifest_path |-> r.manifest_path,
                       command_plan_path |-> r.command_plan_path,
                       project_manifest_path |-> r.project_manifest,
                       vivado_settings |-> r.vivado_settings, vivado |-> r.vivado_executable],
                      VivadoOptions(r))]

vivado_project_validate_command(r) ==
    [task    |-> "validate-vivado-artifacts",
     options |-> [work_root |-> r.work_root, manifest_path |-> r.manifest_path,
                  command_plan_path |-> r.command_plan_path,
                  project_manifest_path |-> r.project_manifest]]

\* The commands of a project manifest stand beside its other fields.
vivado_project_generation_manifest(r) ==
    [fields |->
       Over(Over([key \in Carried |-> r[key]],
                 [project_generator |-> ProjectGenerator,
                  source_shell_root |-> r.source_shell_root, work_root |-> r.work_root,
                  dau_core_root |-> r.dau_core_root,
                  dau_core_hdl_root |-> HdlRoot(r.dau_core_root),
                  dau_driver_root |-> r.dau_driver_root, dau_utils_root |-> r.dau_utils_root,
                  dau_build_manifest |-> r.dau_build_manifest, dau_top_sv |-> r.dau_top_sv,
                  dau_artifact_bundle |-> r.dau_artifact_bundle,
                  project_manifest |-> r.project_manifest,
                  backend_manifest |-> r.manifest_path,
                  backend_command_plan |-> r.command_plan_path,
                  overlay_tcl |-> r.overlay_tcl, build_status |-> "planned",
                  xdma_module |-> r.xdma_module]),
            Over(IF r.overlay_definition.given THEN [overlay_definition |-> "injected"]
                 ELSE NoItems,
                 IF r.stage_task = DefaultStageTask THEN NoItems
                 ELSE [stage_task |-> r.stage_task])),
     commands |->
       [stage_command    |-> vivado_project_stage_command(r),
        build_command    |-> vivado_project_build_command(r),
        validate_command |-> vivado_project_validate_command(r)]]

\* The files of a work root by their part in it.
generate_vivado_project_generation_artifacts(r, bundles) ==
    [project      |-> vivado_project_generation_manifest(r),
     manifest     |-> vivado_backend_manifest(r, bundles),
     command_plan |-> overlay_build_script(r),
     overlay      |-> dau_overlay_tcl(r, bundles)]

\* An overlay session has run: its lines are behind those of the staging.
OverlayHasRun(tree, r, bundles) ==
    [tree EXCEPT !.manifest =
       Over(@, Over(r.overlay_definition.runtime, OverlayLines(r, bundles)))]

\* The build session has run to its end.
Implemented(tree, r) ==
    [tree EXCEPT !.manifest =
       Over(@, Over([key \in OutputKeys |-> r[key]], [build_status |-> "built"]))]

--------------------------------------------------------------------------------
(* What validation demands.  It is asked for a work root and the names of  *)
(* the manifests and of the plan in it: asked.root and so on.  A file that *)
(* is missing is not in the tree.                                          *)

RequiredKeys == Carried \union
    {"backend", "build_root", "manifest", "command_plan", "overlay", "build_status"}

BuiltOutputsExist(manifest, files) ==
    \A key \in OutputKeys : Get(manifest, key) # Blank => manifest[key] \in files

\* The bundle is loaded once more: it must still be the one that was staged.
BundleIsTheOne(manifest, bundles) ==
    LET file == manifest["dau_artifact_bundle"].file
        expected == IF "dau_bundle_hdl_sources" \in DOMAIN manifest
                    THEN manifest["dau_bundle_hdl_sources"] ELSE <<>>
        top == Get(manifest, "dau_generated_top")
    IN /\ file \in DOMAIN bundles
       /\ expected # <<>> =>
            /\ DOMAIN bundles[file].sources = DOMAIN expected
            /\ \A i \in DOMAIN expected : bundles[file].sources[i] = expected[i].file
       /\ bundles[file].top # Blank /\ top # Blank => top.file = bundles[file].top

ManifestHolds(asked, manifest, files, bundles) ==
    /\ \A key \in RequiredKeys :
         key \in DOMAIN manifest /\ (key # "vivado_mount_root" => manifest[key] # Blank)
    /\ Get(manifest, "backend") \in {Blank, OverlayBackend}
    /\ Agree(Get(manifest, "build_root"), asked.root)
    /\ Agree(Get(manifest, "manifest"), asked.manifest)
    /\ Agree(Get(manifest, "command_plan"), asked.command_plan)
    /\ Get(manifest, "build_status") \in {Blank, "planned", "built"}
    /\ Get(manifest, "build_status") = "built" => BuiltOutputsExist(manifest, files)
    /\ Get(manifest, "dau_artifact_bundle") # Blank => BundleIsTheOne(manifest, bundles)

\* The plan changes to the right place and runs both scripts from there.
SourcesTcl(plan, manifest, tcl) ==
    \E command \in plan.runs :
       /\ command.tcl = CommandTcl(tcl, Get(manifest, "vivado_mount_root"))
       /\ IF Get(manifest, "vivado_invocation") = "source-only"
          THEN /\ command.style = "source-only"
               /\ command.executable = Get(manifest, "vivado_executable")
          ELSE command.style # "source-only"

PlanHolds(asked, manifest, plan) ==
    LET mount_root == Get(manifest, "vivado_mount_root") IN
    /\ Begins(plan.cd, IF mount_root # Blank THEN mount_root ELSE asked.root)
    /\ \A key \in {"overlay", "build_tcl"} :
         Get(manifest, key) # Blank => SourcesTcl(plan, manifest, manifest[key])

OverlayTclHolds(manifest, tcl) ==
    /\ \A key \in {"overlay"} \union OutputKeys :
         key \in DOMAIN manifest => <<key, manifest[key]>> \in tcl.puts
    /\ "dau_bundle_hdl_sources" \in DOMAIN manifest =>
         \A i \in DOMAIN manifest["dau_bundle_hdl_sources"] :
           manifest["dau_bundle_hdl_sources"][i] \in tcl.consumes

\* A manifest without a line is there, and nothing is asked of it.
validate_vivado_backend_artifact_bundle(asked, tree, files, bundles) ==
    /\ {"manifest", "command_plan"} \subseteq DOMAIN tree
    /\ DOMAIN tree.manifest # {} =>
         /\ ManifestHolds(asked, tree.manifest, files, bundles)
         /\ PlanHolds(asked, tree.manifest, tree.command_plan)
         /\ "overlay" \in DOMAIN tree.manifest =>
              "overlay" \in DOMAIN tree /\ OverlayTclHolds(tree.manifest, tree.overlay)

--------------------------------------------------------------------------------
(* The same for a project. *)

MayBeEmpty == {"dau_utils_root", "dau_build_manifest", "dau_top_sv", "dau_artifact_bundle",
               "vivado_mount_root"}

ProjectKeys == Carried \union MayBeEmpty \union
    {"project_generator", "source_shell_root", "work_root", "dau_core_root",
     "dau_core_hdl_root", "dau_driver_root", "project_manifest", "backend_manifest",
     "backend_command_plan", "overlay_tcl", "build_status", "xdma_module"}

CrossRefsHold(fields, manifest) ==
    /\ \A key \in Carried : Agree(Get(fields, key), Get(manifest, key))
    /\ Agree(Get(fields, "overlay_tcl"), Get(manifest, "overlay"))
    /\ LET here == Get(fields, "dau_artifact_bundle")
           there == Get(manifest, "dau_artifact_bundle")
       IN here # Blank /\ there # Blank => here.file = there.file

\* A command is for a task, with options that are named by the project.
CommandHolds(command, task, required) ==
    /\ command.task = task
    /\ \A option \in DOMAIN required :
         /\ option \in DOMAIN command.options
         /\ required[option] # Blank => command.options[option] = required[option]

RequiredVivadoOptions(fields) ==
    [option \in {key \in {"vivado_invocation", "vivado_mount_root"} :
                   IF key = "vivado_invocation" THEN Get(fields, key) # "standard"
                   ELSE Get(fields, key) # Blank} |-> fields[option]]

StageTaskOf(fields) ==
    IF Get(fields, "stage_task") = Blank THEN DefaultStageTask ELSE fields["stage_task"]

RequiredStageOptions(asked, fields) ==
    Over(Over([source_shell_root |-> Get(fields, "source_shell_root"),
               work_root |-> Get(fields, "work_root"),
               dau_core_root |-> Get(fields, "dau_core_root"),
               artifact_stem |-> Get(fields, "artifact_stem"),
               backend_platform |-> Get(fields, "platform"),
               backend_shell |-> Get(fields, "shell"),
               register_map_version |-> Get(fields, "register_map_version"),
               stream_protocol_version |-> Get(fields, "stream_protocol_version"),
               overlay_tcl |-> Get(fields, "overlay_tcl"),
               manifest_path |-> asked.manifest, command_plan_path |-> asked.command_plan,
               vivado_settings |-> Get(fields, "vivado_settings"),
               vivado |-> Get(fields, "vivado_executable")],
              RequiredVivadoOptions(fields)),
         Over(IF Get(fields, "dau_artifact_bundle") = Blank THEN NoItems
              ELSE [dau_artifact_bundle |-> fields["dau_artifact_bundle"]],
              IF /\ Get(fields, "overlay_definition") = "injected"
                 /\ StageTaskOf(fields) = DefaultStageTask
              THEN [overlay_definition |-> "???"] ELSE NoItems))

RequiredBuildOptions(asked, fields) ==
    Over([work_root |-> Get(fields, "work_root"), overlay_tcl |-> Get(fields, "overlay_tcl"),
          manifest_path |-> asked.manifest, command_plan_path |-> asked.command_plan,
          project_manifest_path |-> Get(fields, "project_manifest"),
          vivado_settings |-> Get(fields, "vivado_settings"),
          vivado |-> Get(fields, "vivado_executable")],
         RequiredVivadoOptions(fields))

RequiredValidateOptions(asked, fields) ==
    [work_root |-> Get(fields, "work_root"),
     manifest_path |-> asked.manifest, command_plan_path |-> asked.command_plan,
     project_manifest_path |-> Get(fields, "project_manifest")]

Commands == {"stage_command", "build_command", "validate_command"}

CommandsHold(asked, project) ==
    /\ Commands \subseteq DOMAIN project.commands
    /\ CommandHolds(project.commands.stage_command, StageTaskOf(project.fields),
                    RequiredStageOptions(asked, project.fields))
    /\ CommandHolds(project.commands.build_command, "build-vivado-artifacts",
                    RequiredBuildOptions(asked, project.fields))
    /\ CommandHolds(project.commands.validate_command, "validate-vivado-artifacts",
                    RequiredValidateOptions(asked, project.fields))

ProjectManifestHolds(asked, project, manifest) ==
    LET fields == project.fields IN
    /\ \A key \in ProjectKeys :
         key \in DOMAIN fields /\ (key \notin MayBeEmpty => fields[key] # Blank)
    /\ Get(fields, "project_generator") \in {Blank, ProjectGenerator}
    /\ Agree(Get(fields, "work_root"), asked.root)
    /\ Agree(Get(fields, "project_manifest"), asked.project)
    /\ Agree(Get(fields, "backend_manifest"), asked.manifest)
    /\ Agree(Get(fields, "backend_command_plan"), asked.command_plan)
    /\ Get(fields, "dau_core_root") # Blank =>
         Agree(Get(fields, "dau_core_hdl_root"), HdlRoot(fields["dau_core_root"]))
    /\ CrossRefsHold(fields, manifest)
    /\ CommandsHold(asked, project)

validate_vivado_project_artifact_bundle(asked, tree, files, bundles) ==
    /\ validate_vivado_backend_artifact_bundle(asked, tree, files, bundles)
    /\ "project" \in DOMAIN tree
    /\ DOMAIN tree.project.fields # {} =>
         ProjectManifestHolds(asked, tree.project, tree.manifest)

--------------------------------------------------------------------------------
(* The recorded stage command, run again. *)

DefaultOutputs ==
    [bitstream |-> "project.runs/impl_1/Top_wrapper.bit",
     resource_summary |-> "reports/dau_utilization.rpt",
     timing_summary |-> "reports/dau_timing_summary.rpt",
     vivado_log |-> "vivado.log"]

DefaultBuildTcl == "scripts/dau_build.tcl"

\* The options that may be left out of a command have a value then.
Option(options, name, default) == IF name \in DOMAIN options THEN options[name] ELSE default

ReplayRefuses(command) == Option(command.options, "overlay_definition", Blank) = "???"

\* The request of a staging task from its options and its own definition.
stage_vivado_overlay_plan(options, definition) ==
    Over(DefaultOutputs,
         [work_root |-> options.work_root, dau_core_root |-> options.dau_core_root,
          dau_artifact_bundle |-> Option(options, "dau_artifact_bundle", Blank),
          artifact_stem |-> options.artifact_stem,
          platform |-> options.backend_platform, shell |-> options.backend_shell,
          operator_set |-> options.operator,
          register_map_version |-> options.register_map_version,
          stream_protocol_version |-> options.stream_protocol_version,
          overlay_tcl |-> options.overlay_tcl, build_tcl |-> DefaultBuildTcl,
          manifest_path |-> options.manifest_path,
          command_plan_path |-> options.command_plan_path,
          vivado_settings |-> options.vivado_settings, vivado_executable |-> options.vivado,
          vivado_invocation |-> Option(options, "vivado_invocation", "standard"),
          vivado_mount_root |-> Option(options, "vivado_mount_root", Blank),
          overlay_definition |-> definition])

--------------------------------------------------------------------------------
(* The properties. *)

\* No task stages with a build script of another name; a path is never empty.
IsRequest(r) ==
    /\ \A key \in Carried \ {"vivado_mount_root"} : r[key] # Blank
    /\ Blank \notin {r.source_shell_root, r.work_root, r.dau_core_root,
                    HdlRoot(r.dau_core_root), r.dau_driver_root, r.overlay_tcl,
                    r.manifest_path, r.command_plan_path,
                    r.project_manifest, r.xdma_module, r.stage_task}
    /\ r.build_tcl = DefaultBuildTcl
    /\ r.vivado_invocation \in {"standard", "source-only"}

\* What a definition adds and discovers is its own.
DefinitionIsApart(r) ==
    (DOMAIN r.overlay_definition.items \union DOMAIN r.overlay_definition.runtime)
       \intersect (RequiredKeys \union BundleKeys) = {}

AskedAsStaged(r) ==
    [root |-> r.work_root, manifest |-> r.manifest_path, command_plan |-> r.command_plan_path,
     project |-> r.project_manifest]

Accepted(tree, r, files, bundles) ==
    validate_vivado_project_artifact_bundle(AskedAsStaged(r), tree, files, bundles)

\* A mount root is for an invocation that mounts it.
MountIsUsed(r) == r.vivado_mount_root # Blank => Mounted(r)

MountIsFound(r) == MountIsUsed(r) \/ Begins(r.work_root, r.vivado_mount_root)

\* A project that has just been staged passes validation, and passes it again
\* behind the lines of its overlay session (vivado_backend.py:401-442).
StagedIsAccepted(r, files, bundles) ==
    LET tree == generate_vivado_project_generation_artifacts(r, bundles)
    IN /\ Accepted(tree, r, files, bundles)
       /\ Accepted(OverlayHasRun(tree, r, bundles), r, files, bundles)

\* A project that says it is built is accepted exactly if the four files are
\* there that it names (vivado_backend.py:675-684).
BuiltIsAcceptedIfThere(r, files, bundles) ==
    LET tree == generate_vivado_project_generation_artifacts(r, bundles)
    IN Accepted(Implemented(OverlayHasRun(tree, r, bundles), r), r, files, bundles)
         <=> \A key \in OutputKeys : r[key] \in files

\* The plan runs scripts that staging has written, all of them or none: the
\* drivers are for a mount root that is used, the plan's for any.
RunsWhatIsWritten(r) ==
    {command.tcl : command \in overlay_build_script(r).runs} \subseteq ScriptsWritten(r)
      <=> MountIsUsed(r)

\* A mount root that is not used is refused, for the plan does not change to
\* it: but not if the work root is below it, where the text is found.
UnusedMountIsRefused(r, files, bundles) ==
    LET tree == generate_vivado_project_generation_artifacts(r, bundles)
    IN ~MountIsFound(r) => ~Accepted(tree, r, files, bundles)

\* The recorded stage command stages the project again, but for where an
\* implementation writes: these are not among its options.
ReplayIsTheSame(r, bundles) ==
    LET command == vivado_project_stage_command(r)
        again == stage_vivado_overlay_plan(command.options, r.overlay_definition)
    IN ~ReplayRefuses(command) =>
         vivado_backend_manifest(again, bundles)
           = Over(vivado_backend_manifest(r, bundles), DefaultOutputs)
================================================================================
