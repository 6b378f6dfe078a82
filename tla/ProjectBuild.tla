----------------------------- MODULE ProjectBuild ------------------------------
(***************************************************************************)
(* The output root of a shell project: one generated script, run through   *)
(* Vivado from the beginning to its last line on the console               *)
(* (dau_build/mm_shell.py), then packaged with the digests of the sources  *)
(* it was built from (dau_build/shell_build.py).                           *)
(*                                                                         *)
(* A board may want its PCIe lanes on other transceivers than the IP puts  *)
(* them on: a hook of the implementation places them, and the script looks *)
(* where they are once the design is routed.                               *)
(***************************************************************************)
EXTENDS BuildRoot, SequencesExt, Functions

CONSTANTS
    Sites,      \* the transceivers
    NoSite,     \* the place of a lane that is released
    Targets     \* the boards: placeholders are left, and where lanes go

ASSUME BoardsAssumption ==
    /\ NoSite \notin Sites
    /\ \A b \in Targets : b.placements \in Seq([lane : Nat, site : Sites])

VARIABLES
    sources,    \* the version of the HDL sources
    console,    \* what the console log says of the last run
    board,      \* the board that the script is for
    loc         \* where the lanes are that the design has

projectVars == <<sources, console, board, loc>>

ProjectSteps == <<"synth", "impl", "verify", "copy", "ok", "package">>

\* The sources are edited: they are files of somebody else's checkout.
Edit ==
    /\ sources' \in Versions \ {sources}
    /\ builds' = [b \in DOMAIN builds |->
         IF \E s \in Slots : task[s].build = b THEN [builds[b] EXCEPT !.clean = FALSE]
         ELSE builds[b]]
    /\ UNCHANGED <<bitstream, packaged, task, console, board, loc>>

--------------------------------------------------------------------------------
(* The lanes. *)

Placements == {board.placements[i] : i \in DOMAIN board.placements}
Wanted == {p.lane : p \in Placements}

\* A site that another lane holds is not given: Vivado only warns.
SetLoc(at, p) ==
    IF \E lane \in DOMAIN at \ {p.lane} : at[lane] = p.site THEN at
    ELSE [at EXCEPT ![p.lane] = p.site]

\* Mutated: each lane is released when it is its turn.
HookedInTurn(at) ==
    FoldLeft(LAMBDA now, p : SetLoc([now EXCEPT ![p.lane] = NoSite], p), at, board.placements)

\* The hook releases every lane before it places the first.
Hooked(at) ==
    FoldLeft(SetLoc, [lane \in DOMAIN at |-> IF lane \in Wanted THEN NoSite ELSE at[lane]],
             board.placements)

Placed(at) == \A p \in Placements : p.lane \in DOMAIN at /\ at[p.lane] = p.site

\* It gives up on a design with another number of lanes, without one of its
\* own, or in which a lane did not go where it was put.
HookHolds == DOMAIN loc = Wanted /\ Placed(Hooked(loc))

--------------------------------------------------------------------------------
(* The script. *)

\* The log is truncated before Vivado starts.
BuildProject(s) ==
    /\ Start(s, ProjectSteps, NoDesign)
    /\ console' = "nothing"
    /\ UNCHANGED <<builds, bitstream, packaged, sources, board, loc>>

\* The script of a board with placeholders stops in front of this.  The IP
\* puts the lanes that the design has somewhere.
ProjectSynth(s) ==
    /\ AtStep(s, "synth")
    /\ ~board.placeholders
    /\ Synthesises(s, sources, TRUE)
    /\ \E found \in {Wanted} \union {Wanted \ {lane} : lane \in Wanted} : loc' \in Injection(found, Sites)
    /\ UNCHANGED <<bitstream, packaged, sources, console, board>>

\* Behind the hook a lane may still be moved.
ProjectImpl(s) ==
    /\ AtStep(s, "impl")
    /\ HookHolds
    /\ GoesOn(s)
    /\ loc' \in {Hooked(loc)} \union Injection(DOMAIN loc, Sites)
    /\ UNCHANGED <<builds, bitstream, packaged, sources, console, board>>

VerifyLanes(s) ==
    /\ AtStep(s, "verify")
    /\ Placed(loc)
    /\ GoesOn(s)
    /\ UNCHANGED <<builds, bitstream, packaged, projectVars>>

CopyBitstream(s) ==
    /\ AtStep(s, "copy")
    /\ GoesOn(s)
    /\ bitstream' = task[s].build
    /\ UNCHANGED <<builds, packaged, projectVars>>

\* DAU_MM_JOB_BUILD_OK, behind the SPI image
BuildOk(s) ==
    /\ AtStep(s, "ok")
    /\ GoesOn(s)
    /\ console' = "ok"
    /\ IsBuilt(s)
    /\ UNCHANGED <<bitstream, packaged, sources, board, loc>>

\* The script gives up and says so, or is stopped and says nothing.
ScriptFails(s) ==
    /\ \E name \in {"synth", "impl", "verify", "copy", "ok"} : AtStep(s, name)
    /\ Fails(s)
    /\ bitstream' \in IF AtStep(s, "copy") THEN {bitstream, task[s].build} ELSE {bitstream}
    /\ console' \in {console, "failed"}
    /\ UNCHANGED <<builds, packaged, sources, board, loc>>

\* A run that was not built raises.
WritePackage(s) ==
    /\ console = "ok" /\ bitstream # 0
    /\ packaged' = Packaged(sources)

PackageProject(s) ==
    /\ AtStep(s, "package")
    /\ GoesOn(s)
    /\ WritePackage(s)
    /\ UNCHANGED <<builds, bitstream, projectVars>>

PackageProjectFails(s) ==
    /\ AtStep(s, "package")
    /\ Fails(s)
    /\ packaged' \in IF console = "ok" /\ bitstream # 0
                     THEN Torn(packaged, Packaged(sources)) ELSE {packaged}
    /\ UNCHANGED <<builds, bitstream, projectVars>>

ProjectInit(versions, targets) ==
    /\ sources \in versions /\ console = "nothing"
    /\ board \in targets /\ loc = << >>

ProjectNext ==
    \/ Edit
    \/ \E s \in Slots :
         \/ BuildProject(s) \/ ProjectSynth(s) \/ ProjectImpl(s) \/ VerifyLanes(s)
         \/ CopyBitstream(s) \/ BuildOk(s)
         \/ ScriptFails(s) \/ PackageProject(s) \/ PackageProjectFails(s)
================================================================================
