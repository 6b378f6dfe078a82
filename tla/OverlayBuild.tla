----------------------------- MODULE OverlayBuild ------------------------------
(***************************************************************************)
(* The work root of an overlay build: staged (hardware_plan.py), built by  *)
(* the generated Tcl (vivado_backend.py), validated and packaged           *)
(* (build_steps.py, shell_build.py).                                       *)
(*                                                                         *)
(* The key=value manifest is the thread through it: staging writes it,     *)
(* both Vivado sessions append to it, and the last line of a key wins.     *)
(***************************************************************************)
EXTENDS BuildRoot

CONSTANTS
    Written     \* the content of a file that is there and not empty

VARIABLES
    file,       \* the work root's files
    project,    \* the design in project.xpr, or NoFile
    staged      \* the version whose staging was the last one, and ended well

overlayVars == <<file, project, staged>>

\* "reports" stands for the two reports and the log of the build session.
Files == {"overlay", "build_tcl", "manifest", "reports"}

Manifests == [of : Designs, status : {"planned", "built", "torn"}]

ASSUME FilesAssumption == {NoFile, Empty} \intersect (Designs \union Manifests) = {}

\* The driver scripts, which only source the two others, and the command plan,
\* written last, are left out; validation also refuses without the plan.
StageSteps == <<"write-dau-overlay", "write-dau-manifest", "write-vivado-build-script">>
BuildSteps == <<"overlay", "synth", "impl", "reports", "built">>

--------------------------------------------------------------------------------
(* Staging, with or without the copy of the shell's seed.                  *)

Stage(s) ==
    /\ \E version \in Versions, seed \in BOOLEAN :
          Start(s, (IF seed THEN <<"stage-shell">> ELSE <<>>) \o StageSteps, version)
    /\ staged' = NoDesign
    /\ UNCHANGED <<builds, bitstream, packaged, file, project>>

\* rsync --delete --delete-excluded: nothing of an earlier build is left.
StageShell(s) ==
    /\ AtStep(s, "stage-shell")
    /\ GoesOn(s)
    /\ file' = [f \in Files |-> NoFile]
    /\ bitstream' = 0
    /\ packaged' = NoFile
    /\ project' = NoDesign
    /\ UNCHANGED <<builds, staged>>

\* How far the deletion may have come: what is told apart is whether it has
\* come to the manifest.
Interrupted == {{}, {"manifest"}, Files \ {"manifest"}, Files}

StageShellFails(s) ==
    /\ AtStep(s, "stage-shell")
    /\ Fails(s)
    /\ \E gone \in Interrupted :
          file' = [f \in Files |-> IF f \in gone THEN NoFile ELSE file[f]]
    /\ bitstream' \in {bitstream, 0}
    /\ packaged' \in {packaged, NoFile}
    /\ project' \in {project, NoDesign}
    /\ UNCHANGED <<builds, staged>>

FileOf(step) ==
    CASE step = "write-dau-overlay"         -> "overlay"
      [] step = "write-dau-manifest"        -> "manifest"
      [] step = "write-vivado-build-script" -> "build_tcl"

\* A mutant: staging leaves a manifest that is there alone.
KeepsManifest(f, version) ==
    CASE f = "overlay" -> version
      [] f = "manifest" /\ file[f] = NoFile -> [of |-> version, status |-> "planned"]
      [] f = "manifest" -> file[f]
      [] OTHER -> Written

ContentOf(f, version) ==
    CASE f = "overlay"  -> version
      [] f = "manifest" -> [of |-> version, status |-> "planned"]
      [] OTHER          -> Written

Write(s) ==
    \E name \in {StageSteps[i] : i \in DOMAIN StageSteps} :
      /\ AtStep(s, name)
      /\ GoesOn(s)
      /\ file' = [file EXCEPT ![FileOf(name)] = ContentOf(FileOf(name), task[s].of)]
      /\ staged' = IF Len(task[s].steps) = 1 THEN task[s].of ELSE staged
      /\ UNCHANGED <<builds, bitstream, packaged, project>>

WriteFails(s) ==
    \E name \in {StageSteps[i] : i \in DOMAIN StageSteps} :
      /\ AtStep(s, name)
      /\ Fails(s)
      /\ \E content \in Torn(file[FileOf(name)], ContentOf(FileOf(name), task[s].of)) :
            file' = [file EXCEPT ![FileOf(name)] = content]
      /\ UNCHANGED <<builds, bitstream, packaged, project, staged>>

--------------------------------------------------------------------------------
(* The build: one shell step, two Vivado sessions.                         *)

BuildOverlay(s) ==
    /\ Start(s, BuildSteps, NoDesign)
    /\ UNCHANGED <<builds, bitstream, packaged, overlayVars>>

\* A line appended to the manifest, which the append creates if need be.
Appended(status) ==
    IF file["manifest"] \in {NoFile, Empty} THEN [of |-> NoDesign, status |-> status]
    ELSE [file["manifest"] EXCEPT !.status = status]

\* A mutant: the overlay session leaves the status alone.
OverlaidKeepsStatus == file

\* The files behind an overlay session: its last act is the append.
Overlaid == [file EXCEPT !["manifest"] = Appended("planned")]

RunOverlay(s) ==
    /\ AtStep(s, "overlay")
    /\ file["overlay"] \in Versions /\ project # NoFile
    /\ GoesOn(s)
    /\ project' = file["overlay"]
    /\ file' = Overlaid
    /\ UNCHANGED <<builds, bitstream, packaged, staged>>

\* An empty script is no error, and leaves the project alone.
RunEmptyOverlay(s) ==
    /\ AtStep(s, "overlay")
    /\ file["overlay"] = Empty
    /\ GoesOn(s)
    /\ UNCHANGED <<builds, bitstream, packaged, overlayVars>>

RunOverlayFails(s) ==
    /\ AtStep(s, "overlay")
    /\ Fails(s)
    /\ IF file["overlay"] \in Versions /\ project # NoFile
       THEN project' \in {project, NoDesign, file["overlay"]} ELSE UNCHANGED project
    /\ file' \in {file} \union
         IF project # NoFile /\ project' = file["overlay"]
         THEN {Overlaid, [file EXCEPT !["manifest"] = Appended("torn")]} ELSE {}
    /\ UNCHANGED <<builds, bitstream, packaged, staged>>

Synth(s) ==
    /\ AtStep(s, "synth")
    /\ file["build_tcl"] = Written /\ project # NoFile
    /\ Synthesises(s, project, staged # NoDesign)
    /\ UNCHANGED <<bitstream, packaged, overlayVars>>

\* The session of an empty build script is over at once.
EmptyBuild(s) ==
    /\ AtStep(s, "synth")
    /\ file["build_tcl"] = Empty
    /\ task' = [task EXCEPT ![s] = Idle]
    /\ UNCHANGED <<builds, bitstream, packaged, overlayVars>>

Impl(s) ==
    /\ AtStep(s, "impl")
    /\ GoesOn(s)
    /\ bitstream' = task[s].build
    /\ UNCHANGED <<builds, packaged, overlayVars>>

Reports(s) ==
    /\ AtStep(s, "reports")
    /\ GoesOn(s)
    /\ file' = [file EXCEPT !["reports"] = Written]
    /\ UNCHANGED <<builds, bitstream, packaged, project, staged>>

\* build_status=built
Built(s) ==
    /\ AtStep(s, "built")
    /\ GoesOn(s)
    /\ file' = [file EXCEPT !["manifest"] = Appended("built")]
    /\ IsBuilt(s)
    /\ UNCHANGED <<bitstream, packaged, project, staged>>

\* The build session stops: a Tcl error, or the end of Vivado.
BuildFails(s) ==
    /\ Fails(s)
    /\ \/ AtStep(s, "synth") /\ UNCHANGED <<builds, bitstream, file>>
       \/ AtStep(s, "impl") /\ bitstream' \in {bitstream, 0, task[s].build}
          /\ UNCHANGED <<builds, file>>
       \/ AtStep(s, "reports") /\ UNCHANGED <<builds, bitstream>>
          /\ file' \in {file, [file EXCEPT !["reports"] = Written]}
       \/ /\ AtStep(s, "built") /\ UNCHANGED bitstream
          /\ \/ file' = [file EXCEPT !["manifest"] = Appended("built")] /\ IsBuilt(s)
             \/ file' \in {file, [file EXCEPT !["manifest"] = Appended("torn")]}
                /\ UNCHANGED builds
    /\ UNCHANGED <<packaged, project, staged>>

--------------------------------------------------------------------------------
(* Validation, which packages what is built: a task of its own, and the    *)
(* last step of the task that builds and validates.                        *)

Outputs == bitstream # 0 /\ file["reports"] # NoFile

StatusIs(status) == file["manifest"] \notin {NoFile, Empty} /\ file["manifest"].status = status

\* What keeps a manifest and the files it names together; an empty one names
\* none.
ValidBundle ==
    /\ file["manifest"] # NoFile
    /\ file["manifest"] # Empty =>
         /\ file["manifest"].of # NoDesign
         /\ file["manifest"].status # "torn"
         /\ StatusIs("built") => Outputs
         /\ file["overlay"] # NoFile

Validate(s) ==
    /\ task[s] = Idle
    /\ ValidBundle /\ StatusIs("built")
    /\ packaged' \in Torn(packaged, Packaged(file["manifest"].of))
    /\ UNCHANGED <<builds, bitstream, task, overlayVars>>

\* What flash and smoke-test ask of a key=value manifest: "built", and all the
\* keys of a built one with their files (both sessions append those keys).
BuiltManifest == StatusIs("built") /\ Outputs

--------------------------------------------------------------------------------

OverlayInit ==
    /\ file = [f \in Files |-> NoFile]
    /\ project = NoFile
    /\ staged = NoDesign

OverlayNext ==
    \E s \in Slots :
      \/ Stage(s) \/ StageShell(s) \/ StageShellFails(s) \/ Write(s) \/ WriteFails(s)
      \/ BuildOverlay(s) \/ RunOverlay(s) \/ RunEmptyOverlay(s) \/ RunOverlayFails(s)
      \/ Synth(s) \/ EmptyBuild(s) \/ Impl(s) \/ Reports(s) \/ Built(s) \/ BuildFails(s)
      \/ Validate(s)
================================================================================
