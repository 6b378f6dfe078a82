------------------------- MODULE VivadoContractProofs --------------------------
(* What is staged is accepted, for every request. *)
EXTENDS VivadoContract, TLAPS

LEMMA BundleItemsAreApart ==
  ASSUME NEW r, NEW bundles
  PROVE  /\ DOMAIN BundleItems(r, bundles) \in {{}, BundleKeys}
         /\ DOMAIN BundleItems(r, bundles) = {} <=> r.dau_artifact_bundle = Blank
         /\ RequiredKeys \intersect BundleKeys = {}
BY DEF BundleItems, BundleKeys, NoItems, RequiredKeys, Carried, OutputKeys

LEMMA ProjectFields ==
  ASSUME NEW r
  PROVE  LET fields == vivado_project_generation_manifest(r).fields IN
         /\ ProjectKeys \subseteq DOMAIN fields
         /\ \A key \in Carried : fields[key] = r[key]
         /\ fields["project_generator"] = ProjectGenerator
         /\ fields["source_shell_root"] = r.source_shell_root
         /\ fields["work_root"] = r.work_root
         /\ fields["dau_core_root"] = r.dau_core_root
         /\ fields["dau_core_hdl_root"] = HdlRoot(r.dau_core_root)
         /\ fields["dau_driver_root"] = r.dau_driver_root
         /\ fields["dau_artifact_bundle"] = r.dau_artifact_bundle
         /\ fields["project_manifest"] = r.project_manifest
         /\ fields["backend_manifest"] = r.manifest_path
         /\ fields["backend_command_plan"] = r.command_plan_path
         /\ fields["overlay_tcl"] = r.overlay_tcl
         /\ fields["build_status"] = "planned"
         /\ fields["xdma_module"] = r.xdma_module
         /\ Get(fields, "overlay_definition") = IF r.overlay_definition.given THEN "injected" ELSE Blank
         /\ Get(fields, "stage_task") = IF r.stage_task = DefaultStageTask THEN Blank ELSE r.stage_task
<1> DEFINE carried == [key \in Carried |-> r[key]]
           own == [project_generator |-> ProjectGenerator,
                  source_shell_root |-> r.source_shell_root, work_root |-> r.work_root,
                  dau_core_root |-> r.dau_core_root,
                  dau_core_hdl_root |-> HdlRoot(r.dau_core_root),
                  dau_driver_root |-> r.dau_driver_root, dau_utils_root |-> r.dau_utils_root,
                  dau_build_manifest |-> r.dau_build_manifest, dau_top_sv |-> r.dau_top_sv,
                  dau_artifact_bundle |-> r.dau_artifact_bundle,
                  project_manifest |-> r.project_manifest,
                  backend_manifest |-> r.manifest_path,
                  backend_command_plan |-> r.command_plan_path,
                  overlay_tcl |-> r.overlay_tcl, build_status |-> "planned",
                  xdma_module |-> r.xdma_module]
           injected == IF r.overlay_definition.given THEN [overlay_definition |-> "injected"] ELSE NoItems
           task == IF r.stage_task = DefaultStageTask THEN NoItems ELSE [stage_task |-> r.stage_task]
           fields == Over(Over(carried, own), Over(injected, task))
           owned == {"project_generator", "source_shell_root", "work_root", "dau_core_root",
                     "dau_core_hdl_root", "dau_driver_root", "dau_utils_root", "dau_build_manifest",
                     "dau_top_sv", "dau_artifact_bundle", "project_manifest", "backend_manifest",
                     "backend_command_plan", "overlay_tcl", "build_status", "xdma_module"}
<1>1. vivado_project_generation_manifest(r).fields = fields
  BY DEF vivado_project_generation_manifest
<1>2. DOMAIN own = owned /\ DOMAIN carried = Carried
  OBVIOUS
<1>3. /\ owned \intersect Carried = {}
      /\ ProjectKeys = owned \union Carried
      /\ (owned \union Carried) \intersect {"overlay_definition", "stage_task"} = {}
  BY DEF ProjectKeys, MayBeEmpty, Carried, OutputKeys
<1>4. /\ DOMAIN injected \subseteq {"overlay_definition"}
      /\ DOMAIN task \subseteq {"stage_task"}
      /\ Get(injected, "overlay_definition")
           = IF r.overlay_definition.given THEN "injected" ELSE Blank
      /\ Get(task, "stage_task")
           = IF r.stage_task = DefaultStageTask THEN Blank ELSE r.stage_task
  BY DEF NoItems, Get
<1>5. /\ own["project_generator"] = ProjectGenerator
      /\ own["source_shell_root"] = r.source_shell_root
      /\ own["work_root"] = r.work_root
      /\ own["dau_core_root"] = r.dau_core_root
      /\ own["dau_core_hdl_root"] = HdlRoot(r.dau_core_root)
      /\ own["dau_driver_root"] = r.dau_driver_root
      /\ own["dau_artifact_bundle"] = r.dau_artifact_bundle
      /\ own["project_manifest"] = r.project_manifest
      /\ own["backend_manifest"] = r.manifest_path
      /\ own["backend_command_plan"] = r.command_plan_path
      /\ own["overlay_tcl"] = r.overlay_tcl
      /\ own["build_status"] = "planned"
      /\ own["xdma_module"] = r.xdma_module
  OBVIOUS
<1> HIDE DEF own, injected, task, owned, fields, carried
<1>6. /\ DOMAIN fields = owned \union Carried \union DOMAIN injected \union DOMAIN task
      /\ \A key \in Carried : fields[key] = carried[key]
      /\ \A key \in owned : fields[key] = own[key]
      /\ Get(fields, "overlay_definition") = Get(injected, "overlay_definition")
      /\ Get(fields, "stage_task") = Get(task, "stage_task")
  <2>1. /\ DOMAIN Over(carried, own) = Carried \union owned
        /\ \A key \in Carried : Over(carried, own)[key] = carried[key]
        /\ \A key \in owned : Over(carried, own)[key] = own[key]
    BY <1>2, <1>3 DEF Over
  <2>2. /\ DOMAIN Over(injected, task) = DOMAIN injected \union DOMAIN task
        /\ Get(Over(injected, task), "overlay_definition") = Get(injected, "overlay_definition")
        /\ Get(Over(injected, task), "stage_task") = Get(task, "stage_task")
    BY <1>4 DEF Over, Get
  <2>. QED BY <1>3, <1>4, <2>1, <2>2 DEF fields, Over, Get
<1>7. \A key \in Carried : fields[key] = r[key]
  BY <1>6 DEF carried
<1>8. ProjectKeys \subseteq DOMAIN fields
  BY <1>3, <1>6
<1>9. owned = {"project_generator", "source_shell_root", "work_root", "dau_core_root",
                     "dau_core_hdl_root", "dau_driver_root", "dau_utils_root", "dau_build_manifest",
                     "dau_top_sv", "dau_artifact_bundle", "project_manifest", "backend_manifest",
                     "backend_command_plan", "overlay_tcl", "build_status", "xdma_module"}
  BY DEF owned
<1>. QED BY <1>1, <1>4, <1>5, <1>6, <1>7, <1>8, <1>9

\* One function is part of another.
Within(part, whole) ==
    \A key \in DOMAIN part : key \in DOMAIN whole /\ whole[key] = part[key]

LEMMA OverWithin ==
  ASSUME NEW m, NEW whole, NEW l, NEW later,
         Within(m, whole), Within(l, later),
         DOMAIN later \intersect DOMAIN m \subseteq DOMAIN l
  PROVE  Within(Over(m, l), Over(whole, later))
BY DEF Within, Over

LEMMA WithinItself == ASSUME NEW m PROVE Within(m, m)
BY DEF Within

LEMMA WithinHolds ==
  ASSUME NEW command, NEW required, Within(required, command.options)
  PROVE  CommandHolds(command, command.task, required)
BY DEF Within, CommandHolds

LEMMA CommandsOfTheProject ==
  ASSUME NEW r, IsRequest(r)
  PROVE  CommandsHold(AskedAsStaged(r), vivado_project_generation_manifest(r))
<1> DEFINE asked == AskedAsStaged(r)
           project == vivado_project_generation_manifest(r)
           fields == project.fields
           vivado == VivadoOptions(r)
           bundle == IF r.dau_artifact_bundle = Blank THEN NoItems
                     ELSE [dau_artifact_bundle |-> r.dau_artifact_bundle]
           demand == IF r.overlay_definition.given /\ r.stage_task = DefaultStageTask
                     THEN [overlay_definition |-> "???"] ELSE NoItems
<1>1. /\ project.commands.stage_command = vivado_project_stage_command(r)
      /\ project.commands.build_command = vivado_project_build_command(r)
      /\ project.commands.validate_command = vivado_project_validate_command(r)
      /\ Commands \subseteq DOMAIN project.commands
  BY DEF vivado_project_generation_manifest, Commands
<1>2. \A key \in ProjectKeys : Get(fields, key) = fields[key]
  BY ProjectFields DEF Get
<1>3. /\ Get(fields, "source_shell_root") = r.source_shell_root
      /\ Get(fields, "work_root") = r.work_root
      /\ Get(fields, "dau_core_root") = r.dau_core_root
      /\ Get(fields, "overlay_tcl") = r.overlay_tcl
      /\ Get(fields, "project_manifest") = r.project_manifest
      /\ Get(fields, "dau_artifact_bundle") = r.dau_artifact_bundle
      /\ fields["dau_artifact_bundle"] = r.dau_artifact_bundle
  BY <1>2, ProjectFields DEF ProjectKeys, MayBeEmpty
<1>4. /\ Get(fields, "artifact_stem") = r["artifact_stem"]
      /\ Get(fields, "platform") = r["platform"]
      /\ Get(fields, "shell") = r["shell"]
      /\ Get(fields, "register_map_version") = r["register_map_version"]
      /\ Get(fields, "stream_protocol_version") = r["stream_protocol_version"]
      /\ Get(fields, "vivado_settings") = r["vivado_settings"]
      /\ Get(fields, "vivado_executable") = r["vivado_executable"]
      /\ Get(fields, "vivado_invocation") = r["vivado_invocation"]
      /\ Get(fields, "vivado_mount_root") = r["vivado_mount_root"]
      /\ fields["vivado_invocation"] = r["vivado_invocation"]
      /\ fields["vivado_mount_root"] = r["vivado_mount_root"]
  BY <1>2, ProjectFields DEF ProjectKeys, Carried, OutputKeys
<1>5. StageTaskOf(fields) = r.stage_task
  BY ProjectFields, BlankAssumption DEF StageTaskOf, Get, DefaultStageTask, IsRequest
<1>6. Get(fields, "overlay_definition") = "injected" <=> r.overlay_definition.given
  BY ProjectFields, BlankAssumption
<1>7. /\ asked.manifest = r.manifest_path /\ asked.command_plan = r.command_plan_path
  BY DEF AskedAsStaged
<1> HIDE DEF asked, project, fields
<1>8. Within(RequiredVivadoOptions(fields), vivado)
      /\ DOMAIN RequiredVivadoOptions(fields) = DOMAIN vivado
  <2> DEFINE invocation == IF r.vivado_invocation = "standard" THEN NoItems
                           ELSE [vivado_invocation |-> r.vivado_invocation]
             mount == IF r.vivado_mount_root = Blank THEN NoItems
                      ELSE [vivado_mount_root |-> r.vivado_mount_root]
             optional == {"vivado_invocation", "vivado_mount_root"}
  <2>1. vivado = Over(invocation, mount)
    BY DEF VivadoOptions
  <2>2. /\ DOMAIN invocation = {key \in {"vivado_invocation"} : r["vivado_invocation"] # "standard"}
        /\ \A key \in DOMAIN invocation : invocation[key] = r[key]
    BY DEF NoItems
  <2>3. /\ DOMAIN mount = {key \in {"vivado_mount_root"} : r["vivado_mount_root"] # Blank}
        /\ \A key \in DOMAIN mount : mount[key] = r[key]
    BY DEF NoItems
  <2>4. /\ DOMAIN RequiredVivadoOptions(fields)
             = {key \in optional : IF key = "vivado_invocation" THEN r["vivado_invocation"] # "standard"
                                   ELSE r["vivado_mount_root"] # Blank}
        /\ \A key \in DOMAIN RequiredVivadoOptions(fields) :
             RequiredVivadoOptions(fields)[key] = r[key]
    BY <1>4 DEF RequiredVivadoOptions
  <2> HIDE DEF invocation, mount, vivado
  <2>5. /\ DOMAIN vivado = DOMAIN invocation \union DOMAIN mount
        /\ \A key \in DOMAIN vivado : vivado[key] = r[key]
    BY <2>1, <2>2, <2>3 DEF Over
  <2>. QED BY <2>2, <2>3, <2>4, <2>5 DEF Within
<1>9. DOMAIN vivado \subseteq {"vivado_invocation", "vivado_mount_root"}
  BY DEF VivadoOptions, Over, NoItems
<1> HIDE DEF vivado
<1>10. CommandHolds(project.commands.stage_command, StageTaskOf(fields),
                    RequiredStageOptions(asked, fields))
  <2> DEFINE demanded ==
              [source_shell_root |-> r.source_shell_root,
               work_root |-> r.work_root,
               dau_core_root |-> r.dau_core_root,
               artifact_stem |-> r["artifact_stem"],
               backend_platform |-> r["platform"],
               backend_shell |-> r["shell"],
               register_map_version |-> r["register_map_version"],
               stream_protocol_version |-> r["stream_protocol_version"],
               overlay_tcl |-> r.overlay_tcl,
               manifest_path |-> r.manifest_path, command_plan_path |-> r.command_plan_path,
               vivado_settings |-> r["vivado_settings"],
               vivado |-> r["vivado_executable"]]
             given ==
              [source_shell_root |-> r.source_shell_root, work_root |-> r.work_root,
                  dau_core_root |-> r.dau_core_root, artifact_stem |-> r.artifact_stem,
                  backend_platform |-> r.platform, backend_shell |-> r.shell,
                  register_map_version |-> r.register_map_version,
                  stream_protocol_version |-> r.stream_protocol_version,
                  overlay_tcl |-> r.overlay_tcl, manifest_path |-> r.manifest_path,
                  command_plan_path |-> r.command_plan_path,
                  vivado_settings |-> r.vivado_settings, vivado |-> r.vivado_executable,
                  operator |-> r.operator_set]
  <2>1. RequiredStageOptions(asked, fields)
          = Over(Over(demanded, RequiredVivadoOptions(fields)), Over(bundle, demand))
    BY <1>3, <1>4, <1>5, <1>6, <1>7 DEF RequiredStageOptions
  <2>2. vivado_project_stage_command(r).options = Over(Over(given, vivado), Over(bundle, demand))
    BY DEF vivado_project_stage_command, vivado
  <2>3. Within(demanded, given)
    BY DEF Within
  <2>4. DOMAIN vivado \intersect DOMAIN demanded = {}
    BY <1>9
  <2>5. vivado_project_stage_command(r).task = r.stage_task
    BY DEF vivado_project_stage_command
  <2> HIDE DEF demanded, given, bundle, demand
  <2>6. Within(Over(demanded, RequiredVivadoOptions(fields)), Over(given, vivado))
    BY <1>8, <2>3, <2>4, OverWithin
  <2>7. Within(RequiredStageOptions(asked, fields), vivado_project_stage_command(r).options)
    BY <2>1, <2>2, <2>6, WithinItself, OverWithin
  <2>. QED BY <1>1, <1>5, <2>5, <2>7, WithinHolds
<1>11. CommandHolds(project.commands.build_command, "build-vivado-artifacts",
                    RequiredBuildOptions(asked, fields))
  <2> DEFINE demanded ==
              [work_root |-> r.work_root, overlay_tcl |-> r.overlay_tcl,
               manifest_path |-> r.manifest_path, command_plan_path |-> r.command_plan_path,
               project_manifest_path |-> r.project_manifest,
               vivado_settings |-> r["vivado_settings"], vivado |-> r["vivado_executable"]]
             given ==
              [work_root |-> r.work_root, overlay_tcl |-> r.overlay_tcl,
               manifest_path |-> r.manifest_path, command_plan_path |-> r.command_plan_path,
               project_manifest_path |-> r.project_manifest,
               vivado_settings |-> r.vivado_settings, vivado |-> r.vivado_executable]
  <2>1. RequiredBuildOptions(asked, fields) = Over(demanded, RequiredVivadoOptions(fields))
    BY <1>3, <1>4, <1>7 DEF RequiredBuildOptions
  <2>2. /\ vivado_project_build_command(r).options = Over(given, vivado)
        /\ vivado_project_build_command(r).task = "build-vivado-artifacts"
    BY DEF vivado_project_build_command, vivado
  <2>3. Within(demanded, given) /\ DOMAIN vivado \intersect DOMAIN demanded = {}
    BY <1>9 DEF Within
  <2> HIDE DEF demanded, given
  <2>4. Within(RequiredBuildOptions(asked, fields), vivado_project_build_command(r).options)
    BY <1>8, <2>1, <2>2, <2>3, OverWithin
  <2>. QED BY <1>1, <2>2, <2>4, WithinHolds
<1>12. CommandHolds(project.commands.validate_command, "validate-vivado-artifacts",
                    RequiredValidateOptions(asked, fields))
  BY <1>1, <1>3, <1>7 DEF CommandHolds, RequiredValidateOptions, vivado_project_validate_command
<1>. QED BY <1>1, <1>10, <1>11, <1>12 DEF CommandsHold, asked, fields, project

--------------------------------------------------------------------------------
(* What the staging and an overlay session leave in the manifest is the     *)
(* same, as far as validation looks; what is left like that is accepted.    *)

LeftLike(m, r, bundles) ==
    LET items == BundleItems(r, bundles) IN
    /\ RequiredKeys \subseteq DOMAIN m
    /\ DOMAIN m \intersect BundleKeys = DOMAIN items
    /\ \A key \in Carried : m[key] = r[key]
    /\ \A key \in DOMAIN items : m[key] = items[key]
    /\ m["backend"] = OverlayBackend
    /\ m["overlay"] = r.overlay_tcl
    /\ m["build_root"] = r.work_root
    /\ m["manifest"] = r.manifest_path
    /\ m["command_plan"] = r.command_plan_path
    /\ m["build_status"] \in {"planned", "built"}

LEMMA StagedIsLike ==
  ASSUME NEW r, NEW bundles, DefinitionIsApart(r)
  PROVE  /\ LeftLike(vivado_backend_manifest(r, bundles), r, bundles)
         /\ vivado_backend_manifest(r, bundles)["build_status"] = "planned"
<1> DEFINE base == [backend |-> OverlayBackend]
           carried == [key \in Carried |-> r[key]]
           own == [overlay |-> r.overlay_tcl, build_root |-> r.work_root, manifest |-> r.manifest_path,
                   command_plan |-> r.command_plan_path, build_status |-> "planned"]
           items == BundleItems(r, bundles)
           early == Over(base, r.overlay_definition.items)
           late == Over(Over(carried, own), items)
           m == vivado_backend_manifest(r, bundles)
<1>1. m = Over(early, late)
  BY DEF vivado_backend_manifest
<1>2. DOMAIN items \subseteq BundleKeys
  BY BundleItemsAreApart
<1>3. DOMAIN own = {"overlay", "build_root", "manifest", "command_plan", "build_status"}
  OBVIOUS
<1>4. DOMAIN carried = Carried /\ DOMAIN base = {"backend"}
  OBVIOUS
<1>5. RequiredKeys = Carried \union DOMAIN own \union {"backend"}
  BY <1>3 DEF RequiredKeys
<1>6. RequiredKeys \intersect BundleKeys = {}
  BY BundleItemsAreApart
<1>7. /\ DOMAIN own \intersect Carried = {}
      /\ "backend" \notin Carried \union DOMAIN own
  BY <1>3 DEF Carried, OutputKeys
<1>8. DOMAIN r.overlay_definition.items \intersect RequiredKeys = {}
  BY DEF DefinitionIsApart
<1> HIDE DEF base, carried, own, items, early, late, m
<1>9. /\ DOMAIN late = Carried \union DOMAIN own \union DOMAIN items
      /\ \A key \in Carried : late[key] = carried[key]
      /\ \A key \in DOMAIN own : late[key] = own[key]
      /\ \A key \in DOMAIN items : late[key] = items[key]
  <2>1. /\ DOMAIN Over(carried, own) = Carried \union DOMAIN own
        /\ \A key \in Carried : Over(carried, own)[key] = carried[key]
        /\ \A key \in DOMAIN own : Over(carried, own)[key] = own[key]
    BY <1>4, <1>7 DEF Over
  <2>. QED BY <1>2, <1>5, <1>6, <2>1 DEF late, Over
<1>10. /\ DOMAIN early = {"backend"} \union DOMAIN r.overlay_definition.items
       /\ early["backend"] = base["backend"]
  BY <1>4, <1>5, <1>8 DEF early, Over
<1>11. /\ DOMAIN m = DOMAIN early \union DOMAIN late
       /\ \A key \in DOMAIN late : m[key] = late[key]
       /\ m["backend"] = base["backend"]
  BY <1>1, <1>2, <1>5, <1>6, <1>7, <1>9, <1>10 DEF Over
<1>12. DOMAIN m = RequiredKeys \union DOMAIN r.overlay_definition.items \union DOMAIN items
  BY <1>5, <1>9, <1>10, <1>11
<1>13. \A key \in Carried : m[key] = r[key]
  BY <1>9, <1>11 DEF carried
<1>14. /\ m["overlay"] = own["overlay"] /\ m["build_root"] = own["build_root"]
       /\ m["manifest"] = own["manifest"] /\ m["command_plan"] = own["command_plan"]
       /\ m["build_status"] = own["build_status"]
  BY <1>3, <1>9, <1>11
<1>15. /\ own["overlay"] = r.overlay_tcl /\ own["build_root"] = r.work_root
       /\ own["manifest"] = r.manifest_path /\ own["command_plan"] = r.command_plan_path
       /\ own["build_status"] = "planned" /\ base["backend"] = OverlayBackend
  BY DEF own, base
<1>16. DOMAIN m \intersect BundleKeys = DOMAIN items
  BY <1>2, <1>6, <1>12 DEF DefinitionIsApart
<1>17. \A key \in DOMAIN items : m[key] = items[key]
  BY <1>9, <1>11
<1>18. LeftLike(m, r, bundles)
  BY <1>11, <1>12, <1>13, <1>14, <1>15, <1>16, <1>17 DEF LeftLike, items
<1>. QED BY <1>14, <1>15, <1>18 DEF m

LEMMA OverlaidIsLike ==
  ASSUME NEW r, NEW bundles, NEW m, DefinitionIsApart(r), LeftLike(m, r, bundles)
  PROVE  LET overlaid == Over(m, Over(r.overlay_definition.runtime, OverlayLines(r, bundles)))
         IN LeftLike(overlaid, r, bundles) /\ overlaid["build_status"] = "planned"
<1> DEFINE items == BundleItems(r, bundles)
           own == [overlay |-> r.overlay_tcl, build_status |-> "planned"]
           outputs == [key \in OutputKeys |-> r[key]]
           lines == OverlayLines(r, bundles)
           runtime == r.overlay_definition.runtime
           more == Over(runtime, lines)
           m2 == Over(m, more)
<1>1. lines = Over(own, Over(outputs, items))
  BY DEF OverlayLines
<1>2. /\ DOMAIN own = {"overlay", "build_status"}
      /\ own["overlay"] = r.overlay_tcl /\ own["build_status"] = "planned"
      /\ DOMAIN outputs = OutputKeys
      /\ \A key \in OutputKeys : outputs[key] = r[key]
  OBVIOUS
<1>3. /\ DOMAIN items \subseteq BundleKeys
      /\ RequiredKeys \intersect BundleKeys = {}
  BY BundleItemsAreApart
<1>4. OutputKeys \intersect {"overlay", "build_status", "backend", "build_root", "manifest", "command_plan"} = {}
  BY DEF OutputKeys
<1>5. /\ OutputKeys \subseteq Carried /\ Carried \subseteq RequiredKeys
      /\ {"overlay", "build_status", "backend", "build_root", "manifest", "command_plan"} \subseteq RequiredKeys
      /\ Carried \intersect {"overlay", "build_status", "backend", "build_root", "manifest", "command_plan"} = {}
  BY DEF RequiredKeys, Carried, OutputKeys
<1>6. DOMAIN runtime \intersect (RequiredKeys \union BundleKeys) = {}
  BY DEF DefinitionIsApart
<1> HIDE DEF items, own, outputs, lines, runtime, more, m2
<1>7. /\ DOMAIN lines = {"overlay", "build_status"} \union OutputKeys \union DOMAIN items
      /\ lines["overlay"] = r.overlay_tcl /\ lines["build_status"] = "planned"
      /\ \A key \in OutputKeys : lines[key] = r[key]
      /\ \A key \in DOMAIN items : lines[key] = items[key]
  <2>1. /\ DOMAIN Over(outputs, items) = OutputKeys \union DOMAIN items
        /\ \A key \in OutputKeys : Over(outputs, items)[key] = r[key]
        /\ \A key \in DOMAIN items : Over(outputs, items)[key] = items[key]
    BY <1>2, <1>3, <1>5 DEF Over
  <2>. QED BY <1>1, <1>2, <1>3, <1>4, <1>5, <2>1 DEF Over
<1>8. /\ DOMAIN more = DOMAIN runtime \union DOMAIN lines
      /\ \A key \in DOMAIN lines : more[key] = lines[key]
  BY DEF more, Over
<1>9. /\ DOMAIN m2 = DOMAIN m \union DOMAIN runtime \union DOMAIN lines
      /\ \A key \in DOMAIN lines : m2[key] = lines[key]
      /\ \A key \in (RequiredKeys \union BundleKeys) \ DOMAIN lines :
           key \in DOMAIN m => m2[key] = m[key]
  BY <1>6, <1>8 DEF m2, Over
<1>10. \A key \in Carried : m2[key] = r[key]
  <2>. SUFFICES ASSUME NEW key \in Carried PROVE m2[key] = r[key]
    OBVIOUS
  <2>1. CASE key \in OutputKeys
    BY <1>7, <1>9, <2>1
  <2>2. CASE key \notin OutputKeys
    <3>1. key \notin DOMAIN lines
      BY <1>3, <1>5, <1>7, <2>2
    <3>. QED BY <1>5, <1>9, <3>1 DEF LeftLike
  <2>. QED BY <2>1, <2>2
<1>11. {"backend", "build_root", "manifest", "command_plan"} \intersect DOMAIN lines = {}
  BY <1>3, <1>4, <1>5, <1>7
<1>12. /\ m2["backend"] = OverlayBackend /\ m2["build_root"] = r.work_root
       /\ m2["manifest"] = r.manifest_path /\ m2["command_plan"] = r.command_plan_path
  BY <1>5, <1>9, <1>11 DEF LeftLike
<1>13. /\ m2["overlay"] = r.overlay_tcl /\ m2["build_status"] = "planned"
       /\ \A key \in DOMAIN items : m2[key] = items[key]
  BY <1>7, <1>9
<1>14. DOMAIN m2 \intersect BundleKeys = DOMAIN items /\ RequiredKeys \subseteq DOMAIN m2
  BY <1>3, <1>5, <1>6, <1>7, <1>9 DEF LeftLike, items
<1>. QED BY <1>10, <1>12, <1>13, <1>14 DEF LeftLike, m2, more, lines, runtime, items

LEMMA ImplementedIsLike ==
  ASSUME NEW r, NEW bundles, NEW m, LeftLike(m, r, bundles)
  PROVE  LET built == Over(m, Over([key \in OutputKeys |-> r[key]], [build_status |-> "built"]))
         IN LeftLike(built, r, bundles) /\ built["build_status"] = "built"
<1> DEFINE items == BundleItems(r, bundles)
           outputs == [key \in OutputKeys |-> r[key]]
           status == [build_status |-> "built"]
           more == Over(outputs, status)
           built == Over(m, more)
<1>1. /\ DOMAIN outputs = OutputKeys /\ DOMAIN status = {"build_status"}
      /\ \A key \in OutputKeys : outputs[key] = r[key]
      /\ status["build_status"] = "built"
      /\ "build_status" \notin OutputKeys
  BY DEF OutputKeys
<1>2. /\ OutputKeys \subseteq Carried /\ "build_status" \notin Carried
      /\ {"overlay", "backend", "build_root", "manifest", "command_plan"}
           \intersect (OutputKeys \union {"build_status"}) = {}
      /\ {"overlay", "backend", "build_root", "manifest", "command_plan"} \subseteq RequiredKeys
      /\ OutputKeys \union {"build_status"} \subseteq RequiredKeys /\ Carried \subseteq RequiredKeys
  BY DEF RequiredKeys, Carried, OutputKeys
<1>3. DOMAIN items \subseteq BundleKeys /\ RequiredKeys \intersect BundleKeys = {}
  BY BundleItemsAreApart
<1> HIDE DEF items, outputs, status, more, built
<1>4. /\ DOMAIN more = OutputKeys \union {"build_status"}
      /\ \A key \in OutputKeys : more[key] = r[key]
      /\ more["build_status"] = "built"
  BY <1>1 DEF more, Over
<1>5. /\ DOMAIN built = DOMAIN m \union OutputKeys \union {"build_status"}
      /\ \A key \in OutputKeys : built[key] = r[key]
      /\ built["build_status"] = "built"
      /\ \A key \in DOMAIN m \ (OutputKeys \union {"build_status"}) : built[key] = m[key]
  BY <1>4 DEF built, Over
<1>6. \A key \in Carried : built[key] = r[key]
  BY <1>2, <1>5 DEF LeftLike
<1>7. /\ built["backend"] = OverlayBackend /\ built["overlay"] = r.overlay_tcl
      /\ built["build_root"] = r.work_root /\ built["manifest"] = r.manifest_path
      /\ built["command_plan"] = r.command_plan_path
  BY <1>2, <1>5 DEF LeftLike
<1>8. \A key \in DOMAIN items : key \in DOMAIN m /\ built[key] = items[key]
  BY <1>2, <1>3, <1>5 DEF LeftLike, items
<1>9. RequiredKeys \subseteq DOMAIN built /\ DOMAIN built \intersect BundleKeys = DOMAIN items
  BY <1>2, <1>3, <1>5 DEF LeftLike, items
<1>10. LeftLike(built, r, bundles)
  BY <1>5, <1>6, <1>7, <1>8, <1>9 DEF LeftLike, items
<1>. QED BY <1>5, <1>10 DEF built, more, outputs, status

LEMMA LikeIsValid ==
  ASSUME NEW r, NEW bundles, NEW files, NEW tree,
         IsRequest(r), BundleLoads(r, bundles), MountIsFound(r),
         LeftLike(tree.manifest, r, bundles),
         tree.manifest["build_status"] = "built" => \A key \in OutputKeys : r[key] \in files,
         {"manifest", "command_plan", "overlay"} \subseteq DOMAIN tree,
         tree.command_plan = overlay_build_script(r),
         tree.overlay = dau_overlay_tcl(r, bundles)
  PROVE  validate_vivado_backend_artifact_bundle(AskedAsStaged(r), tree, files, bundles)
<1> DEFINE asked == AskedAsStaged(r)
           m == tree.manifest
           items == BundleItems(r, bundles)
           plan == overlay_build_script(r)
           tcl == dau_overlay_tcl(r, bundles)
<1>1. /\ asked.root = r.work_root /\ asked.manifest = r.manifest_path
      /\ asked.command_plan = r.command_plan_path
  BY DEF AskedAsStaged
<1>2. /\ RequiredKeys \subseteq DOMAIN m
      /\ DOMAIN m \intersect BundleKeys = DOMAIN items
      /\ \A key \in Carried : m[key] = r[key]
      /\ \A key \in DOMAIN items : m[key] = items[key]
      /\ m["backend"] = OverlayBackend /\ m["overlay"] = r.overlay_tcl
      /\ m["build_root"] = r.work_root /\ m["manifest"] = r.manifest_path
      /\ m["command_plan"] = r.command_plan_path
      /\ m["build_status"] \in {"planned", "built"}
      /\ m["build_status"] = "built" => \A key \in OutputKeys : r[key] \in files
  BY DEF LeftLike
<1>3. \A key \in RequiredKeys : Get(m, key) = m[key]
  BY <1>2 DEF Get
<1>4. /\ {"backend", "build_root", "manifest", "command_plan", "overlay", "build_status"} \subseteq RequiredKeys
      /\ Carried \subseteq RequiredKeys
      /\ {"build_tcl", "vivado_invocation", "vivado_executable", "vivado_mount_root"} \subseteq Carried
      /\ OutputKeys \subseteq Carried
  BY DEF RequiredKeys, Carried, OutputKeys
<1>5. Blank \notin {r.work_root, r.overlay_tcl, r.manifest_path, r.command_plan_path,
                    OverlayBackend, "planned", "built"}
  BY BlankAssumption DEF IsRequest
<1>6. m["build_status"] = "built" => BuiltOutputsExist(m, files)
  BY <1>2, <1>4 DEF BuiltOutputsExist
<1>7. IF r.dau_artifact_bundle = Blank THEN DOMAIN items = {}
      ELSE /\ DOMAIN items = BundleKeys
           /\ items["dau_artifact_bundle"] = PathText(r, r.dau_artifact_bundle.file)
           /\ items["dau_generated_top"]
                = IF bundles[r.dau_artifact_bundle.file].top = Blank THEN Blank
                  ELSE PathText(r, bundles[r.dau_artifact_bundle.file].top)
           /\ items["dau_bundle_hdl_sources"]
                = [i \in DOMAIN bundles[r.dau_artifact_bundle.file].sources |->
                     PathText(r, bundles[r.dau_artifact_bundle.file].sources[i])]
  BY DEF BundleItems, BundleKeys, NoItems
<1>8. \A file : PathText(r, file).file = file
  BY DEF PathText
<1> HIDE DEF asked, m, items, plan, tcl
<1>9. ManifestHolds(asked, m, files, bundles)
  <2>1. \A key \in RequiredKeys :
          key \in DOMAIN m /\ (key # "vivado_mount_root" => m[key] # Blank)
    BY <1>2, <1>5 DEF RequiredKeys, IsRequest
  <2>2. Get(m, "dau_artifact_bundle") # Blank => BundleIsTheOne(m, bundles)
    <3>. SUFFICES ASSUME Get(m, "dau_artifact_bundle") # Blank PROVE BundleIsTheOne(m, bundles)
      OBVIOUS
    <3>1. "dau_artifact_bundle" \in DOMAIN items
      BY <1>2 DEF Get, BundleKeys
    <3>2. r.dau_artifact_bundle # Blank
      BY <1>7, <3>1
    <3> DEFINE file == r.dau_artifact_bundle.file
               top == bundles[file].top
    <3>3. BundleKeys \subseteq DOMAIN m /\ \A key \in BundleKeys : m[key] = items[key]
      BY <1>2, <1>7, <3>2
    <3>4. /\ m["dau_artifact_bundle"] = PathText(r, file)
          /\ Get(m, "dau_generated_top") = IF top = Blank THEN Blank ELSE PathText(r, top)
          /\ "dau_bundle_hdl_sources" \in DOMAIN m
          /\ m["dau_bundle_hdl_sources"]
               = [i \in DOMAIN bundles[file].sources |-> PathText(r, bundles[file].sources[i])]
      BY <1>7, <3>2, <3>3 DEF BundleKeys, Get
    <3>5. m["dau_artifact_bundle"].file = file
      BY <1>8, <3>4
    <3>6. file \in DOMAIN bundles
      BY <3>2 DEF BundleLoads
    <3>7. top # Blank => PathText(r, top).file = top
      BY <1>8
    <3> DEFINE expected == m["dau_bundle_hdl_sources"]
    <3>8. /\ DOMAIN bundles[file].sources = DOMAIN expected
          /\ \A i \in DOMAIN expected : bundles[file].sources[i] = expected[i].file
      BY <1>8, <3>4
    <3> HIDE DEF file, top, expected
    <3>9. /\ m["dau_artifact_bundle"].file \in DOMAIN bundles
          /\ DOMAIN bundles[m["dau_artifact_bundle"].file].sources = DOMAIN expected
          /\ \A i \in DOMAIN expected :
               bundles[m["dau_artifact_bundle"].file].sources[i] = expected[i].file
          /\ bundles[m["dau_artifact_bundle"].file].top # Blank
               /\ Get(m, "dau_generated_top") # Blank
             => Get(m, "dau_generated_top").file = bundles[m["dau_artifact_bundle"].file].top
      BY <3>4, <3>5, <3>6, <3>7, <3>8 DEF top
    <3>. QED BY <3>4, <3>9 DEF BundleIsTheOne, expected
  <2>3. /\ Get(m, "backend") = OverlayBackend /\ Get(m, "build_root") = asked.root
        /\ Get(m, "manifest") = asked.manifest /\ Get(m, "command_plan") = asked.command_plan
        /\ Get(m, "build_status") = m["build_status"]
    BY <1>1, <1>2, <1>3, <1>4
  <2>. QED BY <1>2, <1>6, <2>1, <2>2, <2>3 DEF ManifestHolds, Agree
<1>10. PlanHolds(asked, m, plan)
  <2>1. /\ Get(m, "vivado_mount_root") = r["vivado_mount_root"]
        /\ Get(m, "vivado_invocation") = r["vivado_invocation"]
        /\ Get(m, "vivado_executable") = r["vivado_executable"]
        /\ m["overlay"] = r.overlay_tcl /\ m["build_tcl"] = r["build_tcl"]
    BY <1>2, <1>3, <1>4
  <2>2. Begins(plan.cd, IF r["vivado_mount_root"] # Blank THEN r["vivado_mount_root"] ELSE asked.root)
    BY <1>1 DEF plan, overlay_build_script, MountIsFound, MountIsUsed, Mounted, Begins
  <2>3. \A tcl_path \in {r.overlay_tcl, r.build_tcl} : SourceCommand(r, tcl_path) \in plan.runs
    BY DEF plan, overlay_build_script
  <2>4. r.vivado_invocation \in {"standard", "source-only"} /\ "standard" # "source-only"
    BY DEF IsRequest
  <2>5. \A tcl_path : /\ SourceCommand(r, tcl_path).tcl = CommandTcl(tcl_path, r["vivado_mount_root"])
                      /\ SourceCommand(r, tcl_path).style = r["vivado_invocation"]
                      /\ SourceCommand(r, tcl_path).executable = r["vivado_executable"]
    BY DEF SourceCommand
  <2>6. \A tcl_path \in {r.overlay_tcl, r.build_tcl} : SourcesTcl(plan, m, tcl_path)
    <3>. SUFFICES ASSUME NEW tcl_path \in {r.overlay_tcl, r.build_tcl}
                  PROVE  SourcesTcl(plan, m, tcl_path)
      OBVIOUS
    <3> DEFINE command == SourceCommand(r, tcl_path)
    <3>1. command \in plan.runs
      BY <2>3
    <3>2. /\ command.tcl = CommandTcl(tcl_path, Get(m, "vivado_mount_root"))
          /\ command.style = Get(m, "vivado_invocation")
          /\ command.executable = Get(m, "vivado_executable")
      BY <2>1, <2>5
    <3> HIDE DEF command
    <3>. QED BY <3>1, <3>2 DEF SourcesTcl
  <2>. QED BY <2>1, <2>2, <2>6 DEF PlanHolds
<1>11. OverlayTclHolds(m, tcl)
  <2>1. \A key \in {"overlay"} \union OutputKeys : <<key, m[key]>> \in tcl.puts
    <3> DEFINE lines == OverlayLines(r, bundles)
    <3>1. {"overlay"} \union OutputKeys \subseteq DOMAIN lines
      BY DEF OverlayLines, Over
    <3>2. {"overlay"} \union OutputKeys \subseteq RequiredKeys /\ "overlay" \notin OutputKeys
      BY <1>4 DEF OutputKeys
    <3>3. ({"overlay"} \union OutputKeys) \intersect DOMAIN items = {}
      BY <3>2, BundleItemsAreApart DEF items
    <3>4. lines["overlay"] = r.overlay_tcl /\ \A key \in OutputKeys : lines[key] = r[key]
      BY <3>2, <3>3 DEF OverlayLines, Over, items
    <3>5. \A key \in {"overlay"} \union OutputKeys : lines[key] = m[key]
      BY <1>2, <1>4, <3>4
    <3>6. Lines(lines) \subseteq tcl.puts
      BY DEF tcl, dau_overlay_tcl
    <3> HIDE DEF lines
    <3>. QED BY <3>1, <3>5, <3>6 DEF Lines
  <2>2. "dau_bundle_hdl_sources" \in DOMAIN m =>
          \A i \in DOMAIN m["dau_bundle_hdl_sources"] : m["dau_bundle_hdl_sources"][i] \in tcl.consumes
    <3>. SUFFICES ASSUME "dau_bundle_hdl_sources" \in DOMAIN m
                  PROVE  \A i \in DOMAIN m["dau_bundle_hdl_sources"] :
                           m["dau_bundle_hdl_sources"][i] \in tcl.consumes
      OBVIOUS
    <3>1. "dau_bundle_hdl_sources" \in DOMAIN items
      BY <1>2 DEF BundleKeys
    <3>2. r.dau_artifact_bundle # Blank
      BY <1>7, <3>1
    <3> DEFINE sources == bundles[r.dau_artifact_bundle.file].sources
    <3>3. m["dau_bundle_hdl_sources"] = [i \in DOMAIN sources |-> PathText(r, sources[i])]
      BY <1>2, <1>7, <3>1, <3>2
    <3>4. tcl.consumes = {PathText(r, sources[i]) : i \in DOMAIN sources}
      BY <3>2 DEF tcl, dau_overlay_tcl
    <3> HIDE DEF sources
    <3>. QED BY <3>3, <3>4
  <2>. QED BY <2>1, <2>2 DEF OverlayTclHolds
<1>. QED BY <1>9, <1>10, <1>11 DEF validate_vivado_backend_artifact_bundle, asked, m, plan, tcl

LEMMA LikeIsAccepted ==
  ASSUME NEW r, NEW bundles, NEW files, NEW tree,
         IsRequest(r), BundleLoads(r, bundles), MountIsFound(r),
         LeftLike(tree.manifest, r, bundles),
         tree.manifest["build_status"] = "built" => \A key \in OutputKeys : r[key] \in files,
         {"project", "manifest", "command_plan", "overlay"} \subseteq DOMAIN tree,
         tree.command_plan = overlay_build_script(r),
         tree.overlay = dau_overlay_tcl(r, bundles),
         tree.project = vivado_project_generation_manifest(r)
  PROVE  Accepted(tree, r, files, bundles)
<1> DEFINE asked == AskedAsStaged(r)
           m == tree.manifest
           project == vivado_project_generation_manifest(r)
           fields == project.fields
           items == BundleItems(r, bundles)
<1>1. validate_vivado_backend_artifact_bundle(asked, tree, files, bundles)
  BY LikeIsValid
<1>2. /\ asked.root = r.work_root /\ asked.manifest = r.manifest_path
      /\ asked.command_plan = r.command_plan_path /\ asked.project = r.project_manifest
  BY DEF AskedAsStaged
<1>3. /\ ProjectKeys \subseteq DOMAIN fields
      /\ \A key \in Carried : fields[key] = r[key]
      /\ fields["project_generator"] = ProjectGenerator
      /\ fields["source_shell_root"] = r.source_shell_root
      /\ fields["work_root"] = r.work_root
      /\ fields["dau_core_root"] = r.dau_core_root
      /\ fields["dau_core_hdl_root"] = HdlRoot(r.dau_core_root)
      /\ fields["dau_driver_root"] = r.dau_driver_root
      /\ fields["dau_artifact_bundle"] = r.dau_artifact_bundle
      /\ fields["project_manifest"] = r.project_manifest
      /\ fields["backend_manifest"] = r.manifest_path
      /\ fields["backend_command_plan"] = r.command_plan_path
      /\ fields["overlay_tcl"] = r.overlay_tcl
      /\ fields["build_status"] = "planned"
      /\ fields["xdma_module"] = r.xdma_module
  BY ProjectFields
<1>4. Blank \notin {ProjectGenerator, "planned"}
  BY BlankAssumption
<1>5. \A key \in ProjectKeys :
        key \in DOMAIN fields /\ (key \notin MayBeEmpty => fields[key] # Blank)
  <2>1. "vivado_mount_root" \in MayBeEmpty
    BY DEF MayBeEmpty
  <2>. QED BY <1>3, <1>4, <2>1 DEF ProjectKeys, IsRequest
<1>6. \A key \in ProjectKeys : Get(fields, key) = fields[key]
  BY <1>3 DEF Get
<1>7. /\ Get(fields, "project_generator") = ProjectGenerator
      /\ Get(fields, "work_root") = asked.root
      /\ Get(fields, "project_manifest") = asked.project
      /\ Get(fields, "backend_manifest") = asked.manifest
      /\ Get(fields, "backend_command_plan") = asked.command_plan
      /\ Get(fields, "dau_core_hdl_root") = HdlRoot(fields["dau_core_root"])
  BY <1>2, <1>3, <1>6 DEF ProjectKeys
<1>8. CrossRefsHold(fields, m)
  <2>1. \A key \in Carried : Get(m, key) = r[key] /\ Get(fields, key) = r[key]
    BY <1>3, <1>6 DEF LeftLike, Get, RequiredKeys, ProjectKeys
  <2>2. Get(m, "overlay") = r.overlay_tcl /\ Get(fields, "overlay_tcl") = r.overlay_tcl
    BY <1>3, <1>6 DEF LeftLike, Get, RequiredKeys, ProjectKeys
  <2>3. Get(fields, "dau_artifact_bundle") = r.dau_artifact_bundle
    BY <1>3, <1>6 DEF ProjectKeys, MayBeEmpty
  <2>4. r.dau_artifact_bundle # Blank =>
          Get(m, "dau_artifact_bundle").file = r.dau_artifact_bundle.file
    <3>. SUFFICES ASSUME r.dau_artifact_bundle # Blank
                  PROVE  Get(m, "dau_artifact_bundle").file = r.dau_artifact_bundle.file
      OBVIOUS
    <3>1. /\ "dau_artifact_bundle" \in DOMAIN items
          /\ items["dau_artifact_bundle"] = PathText(r, r.dau_artifact_bundle.file)
      BY DEF BundleItems
    <3> HIDE DEF items
    <3>2. Get(m, "dau_artifact_bundle") = PathText(r, r.dau_artifact_bundle.file)
      BY <3>1 DEF LeftLike, Get, BundleKeys, items
    <3>. QED BY <3>2 DEF PathText
  <2>. QED BY <2>1, <2>2, <2>3, <2>4 DEF CrossRefsHold, Agree
<1>9. CommandsHold(asked, project)
  BY CommandsOfTheProject
<1>10. ProjectManifestHolds(asked, project, m)
  <2> HIDE DEF asked, m, project
  <2>. QED BY <1>5, <1>7, <1>8, <1>9 DEF ProjectManifestHolds, Agree
<1>. QED BY <1>1, <1>10 DEF Accepted, validate_vivado_project_artifact_bundle

\* What is staged is accepted, and is again behind the lines that an overlay
\* session appends (vivado_backend.py:401-442): for every request whose mount
\* root, if it has one, is found in its plan, and whose definition has keys of
\* its own.
THEOREM StagedProjectIsAccepted ==
  ASSUME NEW r, NEW bundles, NEW files,
         IsRequest(r), BundleLoads(r, bundles), MountIsFound(r), DefinitionIsApart(r)
  PROVE  StagedIsAccepted(r, files, bundles)
<1> DEFINE tree == generate_vivado_project_generation_artifacts(r, bundles)
           overlaid == OverlayHasRun(tree, r, bundles)
<1>1. /\ {"project", "manifest", "command_plan", "overlay"} \subseteq DOMAIN tree
      /\ tree.manifest = vivado_backend_manifest(r, bundles)
      /\ tree.command_plan = overlay_build_script(r)
      /\ tree.overlay = dau_overlay_tcl(r, bundles)
      /\ tree.project = vivado_project_generation_manifest(r)
  BY DEF generate_vivado_project_generation_artifacts
<1>2. /\ DOMAIN overlaid = DOMAIN tree
      /\ overlaid.manifest
           = Over(tree.manifest, Over(r.overlay_definition.runtime, OverlayLines(r, bundles)))
      /\ overlaid.command_plan = tree.command_plan
      /\ overlaid.overlay = tree.overlay /\ overlaid.project = tree.project
  BY DEF OverlayHasRun, generate_vivado_project_generation_artifacts
<1> HIDE DEF tree, overlaid
<1>3. LeftLike(tree.manifest, r, bundles) /\ tree.manifest["build_status"] = "planned"
  BY <1>1, StagedIsLike
<1>4. LeftLike(overlaid.manifest, r, bundles) /\ overlaid.manifest["build_status"] = "planned"
  BY <1>2, <1>3, OverlaidIsLike
<1>5. Accepted(tree, r, files, bundles)
  BY <1>1, <1>3, LikeIsAccepted
<1>6. Accepted(overlaid, r, files, bundles)
  BY <1>1, <1>2, <1>4, LikeIsAccepted
<1>. QED BY <1>5, <1>6 DEF StagedIsAccepted, tree, overlaid

\* What says that it is built is accepted exactly if the four files are there
\* that it names (vivado_backend.py:679-689).
THEOREM BuiltProjectIsAcceptedIfThere ==
  ASSUME NEW r, NEW bundles, NEW files,
         IsRequest(r), BundleLoads(r, bundles), MountIsFound(r), DefinitionIsApart(r)
  PROVE  BuiltIsAcceptedIfThere(r, files, bundles)
<1> DEFINE tree == generate_vivado_project_generation_artifacts(r, bundles)
           overlaid == OverlayHasRun(tree, r, bundles)
           built == Implemented(overlaid, r)
           there == \A key \in OutputKeys : r[key] \in files
<1>1. /\ {"project", "manifest", "command_plan", "overlay"} \subseteq DOMAIN built
      /\ built.manifest
           = Over(Over(vivado_backend_manifest(r, bundles),
                       Over(r.overlay_definition.runtime, OverlayLines(r, bundles))),
                  Over([key \in OutputKeys |-> r[key]], [build_status |-> "built"]))
      /\ built.command_plan = overlay_build_script(r)
      /\ built.overlay = dau_overlay_tcl(r, bundles)
      /\ built.project = vivado_project_generation_manifest(r)
  BY DEF Implemented, OverlayHasRun, generate_vivado_project_generation_artifacts
<1> HIDE DEF built
<1>2. LeftLike(built.manifest, r, bundles) /\ built.manifest["build_status"] = "built"
  BY <1>1, StagedIsLike, OverlaidIsLike, ImplementedIsLike
<1>3. ASSUME there PROVE Accepted(built, r, files, bundles)
  BY <1>1, <1>2, <1>3, LikeIsAccepted
<1>4. ASSUME Accepted(built, r, files, bundles) PROVE there
  <2>1. OutputKeys \subseteq RequiredKeys /\ OutputKeys \subseteq Carried /\ "build_status" \in RequiredKeys
    BY DEF RequiredKeys, Carried
  <2>2. \A key \in OutputKeys : Get(built.manifest, key) = r[key] /\ built.manifest[key] = r[key]
    BY <1>2, <2>1 DEF LeftLike, Get
  <2>3. \A key \in OutputKeys : r[key] # Blank
    BY <2>1 DEF IsRequest, OutputKeys
  <2>4. ManifestHolds(AskedAsStaged(r), built.manifest, files, bundles)
    BY <1>2, <1>4, <2>1 DEF Accepted, validate_vivado_project_artifact_bundle,
                             validate_vivado_backend_artifact_bundle, LeftLike
  <2>5. Get(built.manifest, "build_status") = "built"
    BY <1>2, <2>1 DEF LeftLike, Get
  <2>6. BuiltOutputsExist(built.manifest, files)
    BY <2>4, <2>5 DEF ManifestHolds
  <2>. QED BY <2>2, <2>3, <2>6 DEF BuiltOutputsExist
<1>. QED BY <1>3, <1>4 DEF BuiltIsAcceptedIfThere, built

\* The plan runs what staging has written exactly if a mount root is used: the
\* drivers are written for a request that mounts it (vivado_backend.py:265),
\* and put into the plan for any mount root (vivado_backend.py:1054-1058).
THEOREM PlanRunsWhatIsWritten ==
  ASSUME NEW r
  PROVE  RunsWhatIsWritten(r)
<1>1. {command.tcl : command \in overlay_build_script(r).runs}
        = {CommandTcl(tcl, r.vivado_mount_root) : tcl \in {r.overlay_tcl, r.build_tcl}}
  <2>1. \A tcl : SourceCommand(r, tcl).tcl = CommandTcl(tcl, r.vivado_mount_root)
    BY DEF SourceCommand
  <2>2. overlay_build_script(r).runs = {SourceCommand(r, tcl) : tcl \in {r.overlay_tcl, r.build_tcl}}
    BY DEF overlay_build_script
  <2>. QED BY <2>1, <2>2
<1>2. CASE r.vivado_mount_root = Blank
  BY <1>1, <1>2 DEF RunsWhatIsWritten, CommandTcl, ScriptsWritten, MountIsUsed
<1>3. CASE r.vivado_mount_root # Blank
  <2>1. {command.tcl : command \in overlay_build_script(r).runs}
          = {[of |-> tcl, as |-> "driver"] : tcl \in {r.overlay_tcl, r.build_tcl}}
    BY <1>1, <1>3 DEF CommandTcl
  <2>2. CASE Mounted(r)
    BY <2>1, <2>2 DEF RunsWhatIsWritten, ScriptsWritten, MountIsUsed
  <2>3. CASE ~Mounted(r)
    <3>1. \A script \in ScriptsWritten(r) : script.as = "itself"
      BY <2>3 DEF ScriptsWritten
    <3>2. [of |-> r.overlay_tcl, as |-> "driver"].as # "itself"
      OBVIOUS
    <3>3. [of |-> r.overlay_tcl, as |-> "driver"] \notin ScriptsWritten(r)
      BY <3>1, <3>2
    <3>. QED BY <1>3, <2>1, <2>3, <3>3 DEF RunsWhatIsWritten, MountIsUsed
  <2>. QED BY <2>2, <2>3
<1>. QED BY <1>2, <1>3

\* Validation refuses what is staged with a mount root that is not used, unless
\* the path of the work root goes on from it: the plan stays in the work root,
\* and is searched for the change to the mount root (vivado_backend.py:973-976,
\* 1411-1415).
THEOREM UnusedMountRootIsRefused ==
  ASSUME NEW r, NEW bundles, NEW files, DefinitionIsApart(r)
  PROVE  UnusedMountIsRefused(r, files, bundles)
<1> DEFINE tree == generate_vivado_project_generation_artifacts(r, bundles)
<1>1. /\ tree.manifest = vivado_backend_manifest(r, bundles)
      /\ tree.command_plan = overlay_build_script(r)
  BY DEF generate_vivado_project_generation_artifacts
<1> HIDE DEF tree
<1>2. LeftLike(tree.manifest, r, bundles)
  BY <1>1, StagedIsLike
<1>3. /\ "vivado_mount_root" \in DOMAIN tree.manifest
      /\ Get(tree.manifest, "vivado_mount_root") = r["vivado_mount_root"]
  <2>1. "vivado_mount_root" \in Carried /\ Carried \subseteq RequiredKeys
    BY DEF Carried, RequiredKeys
  <2>. QED BY <1>2, <2>1 DEF LeftLike, Get
<1>4. ASSUME Accepted(tree, r, files, bundles), ~MountIsUsed(r)
      PROVE  Begins(r.work_root, r.vivado_mount_root)
  <2>1. PlanHolds(AskedAsStaged(r), tree.manifest, tree.command_plan)
    BY <1>3, <1>4 DEF Accepted, validate_vivado_project_artifact_bundle,
                      validate_vivado_backend_artifact_bundle
  <2>2. ~Mounted(r) /\ r.vivado_mount_root # Blank
    BY <1>4 DEF MountIsUsed
  <2>3. tree.command_plan.cd = r.work_root
    BY <1>1, <2>2 DEF overlay_build_script
  <2>. QED BY <1>3, <2>1, <2>2, <2>3 DEF PlanHolds
<1>. QED BY <1>4 DEF UnusedMountIsRefused, MountIsFound, tree

LEMMA RecordedOptions ==
  ASSUME NEW r
  PROVE  LET options == vivado_project_stage_command(r).options IN
         /\ options.work_root = r.work_root
         /\ options.artifact_stem = r.artifact_stem
         /\ options.backend_platform = r.platform
         /\ options.backend_shell = r.shell
         /\ options.register_map_version = r.register_map_version
         /\ options.stream_protocol_version = r.stream_protocol_version
         /\ options.overlay_tcl = r.overlay_tcl
         /\ options.manifest_path = r.manifest_path
         /\ options.command_plan_path = r.command_plan_path
         /\ options.vivado_settings = r.vivado_settings
         /\ options.vivado = r.vivado_executable
         /\ options.operator = r.operator_set
         /\ Option(options, "vivado_invocation", "standard") = r.vivado_invocation
         /\ Option(options, "vivado_mount_root", Blank) = r.vivado_mount_root
         /\ Option(options, "dau_artifact_bundle", Blank) = r.dau_artifact_bundle
<1> DEFINE given ==
              [source_shell_root |-> r.source_shell_root, work_root |-> r.work_root,
                  dau_core_root |-> r.dau_core_root, artifact_stem |-> r.artifact_stem,
                  backend_platform |-> r.platform, backend_shell |-> r.shell,
                  register_map_version |-> r.register_map_version,
                  stream_protocol_version |-> r.stream_protocol_version,
                  overlay_tcl |-> r.overlay_tcl, manifest_path |-> r.manifest_path,
                  command_plan_path |-> r.command_plan_path,
                  vivado_settings |-> r.vivado_settings, vivado |-> r.vivado_executable,
                  operator |-> r.operator_set]
           bundle == IF r.dau_artifact_bundle = Blank THEN NoItems
                     ELSE [dau_artifact_bundle |-> r.dau_artifact_bundle]
           demand == IF r.overlay_definition.given /\ r.stage_task = DefaultStageTask
                     THEN [overlay_definition |-> "???"] ELSE NoItems
           invocation == IF r.vivado_invocation = "standard" THEN NoItems
                         ELSE [vivado_invocation |-> r.vivado_invocation]
           mount == IF r.vivado_mount_root = Blank THEN NoItems
                    ELSE [vivado_mount_root |-> r.vivado_mount_root]
           options == Over(Over(given, Over(invocation, mount)), Over(bundle, demand))
           names == {"source_shell_root", "work_root", "dau_core_root", "artifact_stem",
                     "backend_platform", "backend_shell", "register_map_version",
                     "stream_protocol_version", "overlay_tcl", "manifest_path",
                     "command_plan_path", "vivado_settings", "vivado", "operator"}
<1>1. vivado_project_stage_command(r).options = options
  BY DEF vivado_project_stage_command, VivadoOptions
<1>2. DOMAIN given = names
  OBVIOUS
<1>3. /\ DOMAIN bundle \subseteq {"dau_artifact_bundle"}
      /\ DOMAIN demand \subseteq {"overlay_definition"}
      /\ DOMAIN invocation \subseteq {"vivado_invocation"}
      /\ DOMAIN mount \subseteq {"vivado_mount_root"}
  BY DEF NoItems
<1>4. /\ Option(invocation, "vivado_invocation", "standard") = r.vivado_invocation
      /\ Option(mount, "vivado_mount_root", Blank) = r.vivado_mount_root
      /\ Option(bundle, "dau_artifact_bundle", Blank) = r.dau_artifact_bundle
  BY DEF NoItems, Option
<1>5. names \intersect {"dau_artifact_bundle", "overlay_definition", "vivado_invocation",
                        "vivado_mount_root"} = {}
  OBVIOUS
<1>6. /\ given["work_root"] = r.work_root
      /\ given["artifact_stem"] = r.artifact_stem
      /\ given["backend_platform"] = r.platform
      /\ given["backend_shell"] = r.shell
      /\ given["register_map_version"] = r.register_map_version
      /\ given["stream_protocol_version"] = r.stream_protocol_version
      /\ given["overlay_tcl"] = r.overlay_tcl
      /\ given["manifest_path"] = r.manifest_path
      /\ given["command_plan_path"] = r.command_plan_path
      /\ given["vivado_settings"] = r.vivado_settings
      /\ given["vivado"] = r.vivado_executable
      /\ given["operator"] = r.operator_set
  OBVIOUS
<1>7. /\ {"work_root", "artifact_stem", "backend_platform", "backend_shell", "overlay_tcl",
          "register_map_version", "stream_protocol_version", "manifest_path",
          "command_plan_path", "vivado_settings", "vivado", "operator"} \subseteq names
  OBVIOUS
<1> HIDE DEF given, bundle, demand, invocation, mount, options, names
<1>8. \A key \in names : options[key] = given[key]
  BY <1>2, <1>3, <1>5 DEF options, Over
<1>9. Option(options, "vivado_invocation", "standard")
        = Option(invocation, "vivado_invocation", "standard")
  BY <1>2, <1>3, <1>5 DEF options, Over, Option
<1>10. Option(options, "vivado_mount_root", Blank) = Option(mount, "vivado_mount_root", Blank)
  BY <1>2, <1>3, <1>5 DEF options, Over, Option
<1>11. Option(options, "dau_artifact_bundle", Blank) = Option(bundle, "dau_artifact_bundle", Blank)
  BY <1>2, <1>3, <1>5 DEF options, Over, Option
<1>. QED BY <1>1, <1>4, <1>6, <1>7, <1>8, <1>9, <1>10, <1>11

\* The recorded stage command stages the manifest again that it is recorded
\* beside, but for the four paths an implementation writes to: none of them is
\* among its options (vivado_backend.py:546-560).
THEOREM ReplayStagesTheSame ==
  ASSUME NEW r, NEW bundles, IsRequest(r)
  PROVE  ReplayIsTheSame(r, bundles)
<1> DEFINE options == vivado_project_stage_command(r).options
           definition == r.overlay_definition
           rest == [work_root |-> options.work_root, dau_core_root |-> options.dau_core_root,
                    dau_artifact_bundle |-> Option(options, "dau_artifact_bundle", Blank),
                    artifact_stem |-> options.artifact_stem,
                    platform |-> options.backend_platform, shell |-> options.backend_shell,
                    operator_set |-> options.operator,
                    register_map_version |-> options.register_map_version,
                    stream_protocol_version |-> options.stream_protocol_version,
                    overlay_tcl |-> options.overlay_tcl, build_tcl |-> DefaultBuildTcl,
                    manifest_path |-> options.manifest_path,
                    command_plan_path |-> options.command_plan_path,
                    vivado_settings |-> options.vivado_settings, vivado_executable |-> options.vivado,
                    vivado_invocation |-> Option(options, "vivado_invocation", "standard"),
                    vivado_mount_root |-> Option(options, "vivado_mount_root", Blank),
                    overlay_definition |-> definition]
           again == stage_vivado_overlay_plan(options, definition)
           others == Carried \ OutputKeys
<1>1. /\ others = {"platform", "shell", "artifact_stem", "build_tcl", "register_map_version",
                   "stream_protocol_version", "operator_set", "vivado_settings",
                   "vivado_executable", "vivado_invocation", "vivado_mount_root"}
      /\ DOMAIN DefaultOutputs = OutputKeys /\ OutputKeys \subseteq Carried
  BY DEF Carried, OutputKeys, DefaultOutputs
<1>2. again = Over(DefaultOutputs, rest)
  BY DEF stage_vivado_overlay_plan
<1>3. /\ DOMAIN rest = others \union {"work_root", "dau_core_root", "dau_artifact_bundle", "overlay_tcl",
                                "manifest_path", "command_plan_path", "overlay_definition"}
      /\ DOMAIN rest \intersect OutputKeys = {}
  BY <1>1 DEF OutputKeys
<1>4. /\ rest["platform"] = r["platform"] /\ rest["shell"] = r["shell"]
      /\ rest["artifact_stem"] = r["artifact_stem"] /\ rest["build_tcl"] = r["build_tcl"]
      /\ rest["register_map_version"] = r["register_map_version"]
      /\ rest["stream_protocol_version"] = r["stream_protocol_version"]
      /\ rest["operator_set"] = r["operator_set"]
      /\ rest["vivado_settings"] = r["vivado_settings"]
      /\ rest["vivado_executable"] = r["vivado_executable"]
      /\ rest["vivado_invocation"] = r["vivado_invocation"]
      /\ rest["vivado_mount_root"] = r["vivado_mount_root"]
      /\ rest["work_root"] = r["work_root"] /\ rest["overlay_tcl"] = r["overlay_tcl"]
      /\ rest["manifest_path"] = r["manifest_path"]
      /\ rest["command_plan_path"] = r["command_plan_path"]
      /\ rest["dau_artifact_bundle"] = r["dau_artifact_bundle"]
      /\ rest["overlay_definition"] = r["overlay_definition"]
  BY RecordedOptions DEF IsRequest
<1> HIDE DEF options, rest, again, others
<1>5. \A key \in others : again[key] = r[key]
  BY <1>1, <1>2, <1>3, <1>4 DEF Over
<1>6. \A key \in OutputKeys : again[key] = DefaultOutputs[key]
  BY <1>1, <1>2, <1>3 DEF Over
<1>7. /\ again["work_root"] = r["work_root"] /\ again["overlay_tcl"] = r["overlay_tcl"]
      /\ again["manifest_path"] = r["manifest_path"]
      /\ again["command_plan_path"] = r["command_plan_path"]
      /\ again["dau_artifact_bundle"] = r["dau_artifact_bundle"]
      /\ again["overlay_definition"] = r["overlay_definition"]
  BY <1>2, <1>3, <1>4 DEF Over
<1>8. Mounted(again) <=> Mounted(r)
  BY <1>1, <1>5 DEF Mounted
<1>9. \A file : PathText(again, file) = PathText(r, file)
  BY <1>8 DEF PathText
<1>10. BundleItems(again, bundles) = BundleItems(r, bundles)
  BY <1>7, <1>9 DEF BundleItems
<1> DEFINE early == Over([backend |-> OverlayBackend], r.overlay_definition.items)
           own == [overlay |-> r.overlay_tcl, build_root |-> r.work_root, manifest |-> r.manifest_path,
                   command_plan |-> r.command_plan_path, build_status |-> "planned"]
           items == BundleItems(r, bundles)
           anew == [key \in Carried |-> again[key]]
           carried == [key \in Carried |-> r[key]]
<1>11. vivado_backend_manifest(again, bundles) = Over(early, Over(Over(anew, own), items))
  BY <1>7, <1>10 DEF vivado_backend_manifest
<1>12. vivado_backend_manifest(r, bundles) = Over(early, Over(Over(carried, own), items))
  BY DEF vivado_backend_manifest
<1>13. DOMAIN own \intersect OutputKeys = {}
  BY DEF OutputKeys
<1>14. DOMAIN items \intersect OutputKeys = {}
  BY BundleItemsAreApart, <1>1 DEF RequiredKeys
<1>15. \A key \in Carried : anew[key] = IF key \in OutputKeys THEN DefaultOutputs[key] ELSE carried[key]
  BY <1>5, <1>6 DEF others
<1>16. DOMAIN anew = Carried /\ DOMAIN carried = Carried
  OBVIOUS
<1> HIDE DEF early, own, items, anew, carried
<1>17. Over(early, Over(Over(anew, own), items))
         = Over(Over(early, Over(Over(carried, own), items)), DefaultOutputs)
  BY <1>1, <1>13, <1>14, <1>15, <1>16 DEF Over
<1>. QED BY <1>11, <1>12, <1>17 DEF ReplayIsTheSame, again, options
================================================================================
