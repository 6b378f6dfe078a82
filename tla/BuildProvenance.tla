---------------------------- MODULE BuildProvenance ----------------------------
(***************************************************************************)
(* One build directory, of one of three kinds, over any sequence of tasks. *)
(***************************************************************************)
EXTENDS OverlayBuild, ProjectBuild, CoreSynthesis

VARIABLE kind   \* "overlay", "project" or "cores"

vars == <<rootVars, overlayVars, projectVars, coreVars, kind>>

NoBoard == [placeholders |-> FALSE, placements |-> <<>>]

\* The sources that a directory of another kind has no part in are no version.
InUse(k) == IF kind = k THEN Versions ELSE {NoDesign}

Init ==
    /\ kind \in {"overlay", "project", "cores"}
    /\ RootInit /\ OverlayInit
    /\ ProjectInit(InUse("project"), IF kind = "project" THEN Targets ELSE {NoBoard})
    /\ CoresInit(InUse("cores"))

Next ==
    /\ UNCHANGED kind
    /\ \/ kind = "overlay" /\ OverlayNext /\ UNCHANGED <<projectVars, coreVars>>
       \/ kind = "project" /\ ProjectNext /\ UNCHANGED <<overlayVars, coreVars>>
       \/ kind = "cores" /\ CoresNext /\ UNCHANGED <<overlayVars, projectVars>>

Spec == Init /\ [][Next]_vars

--------------------------------------------------------------------------------
(* Properties.                                                             *)

(* A bitstream the flash task accepts by its packaged manifest is of a     *)
(* build that got to its end, and of the version the manifest names,       *)
(* whatever failed, was repeated or was staged anew in between: "a flashed *)
(* bitstream is identified by provenance, never by filename"               *)
(* (_bitstream_from_shell_build_manifest).  Given the key=value manifest,  *)
(* flash opens both, and they name the same version.                       *)
FlashedIsTrue ==
    FlashAccepts /\ builds[bitstream].clean =>
        /\ builds[bitstream].of = packaged.of /\ builds[bitstream].built
        /\ BuiltManifest => file["manifest"].of = packaged.of

(* A key=value manifest that flash and smoke-test take for built is of the *)
(* bitstream that is there ("moves the backend manifest from planned to    *)
(* built once the bitstream ... exist", tasks-and-steps.md).               *)
BuiltManifestIsTrue ==
    BuiltManifest /\ builds[bitstream].clean =>
        builds[bitstream].of = file["manifest"].of /\ builds[bitstream].built

(* Once a version is staged nothing but a build of it is packaged: the     *)
(* bitstream of an earlier one is not packaged under the new one, and not  *)
(* under its own name either.                                              *)
PackagesWhatIsStaged ==
    [][ kind = "overlay" /\ staged # NoDesign /\ packaged' # packaged
            /\ packaged' \notin {NoFile, Empty} /\ builds[packaged'.digest].clean
          => /\ packaged'.of = staged
             /\ builds[packaged'.digest].of = staged ]_vars

(* A project that says it is built has every lane on the site the board    *)
(* wants it on, wherever the IP and the router put it                      *)
(* (_lane_swizzle_verify_tcl: "every swizzled lane landed on its site").   *)
LanesAreVerified ==
    kind = "project" /\ console = "ok" =>
      \A p \in Placements : p.lane \in DOMAIN loc /\ loc[p.lane] = p.site

(* The hook places the lanes of every design that has them, wherever they  *)
(* are before: no site that it wants is held by a lane it has yet to move  *)
(* (gt_lane_swizzle_hook_tcl: "interleaved reset/set hits bel is           *)
(* occupied").                                                             *)
HookPlacesLanes ==
    \A s \in Slots :
      kind = "project" /\ AtStep(s, "impl") /\ DOMAIN loc = Wanted
          /\ (\A p, q \in Placements : p.site = q.site => p = q)
        => HookHolds

Reported(s) == run[s].phase = "reported"

(* A report speaks of its own core as the task asked for it, and the digest *)
(* it carries is of the HDL that Vivado read, unless somebody edited it     *)
(* meanwhile: "the digest of the HDL closure the run actually read"         *)
(* (synthesize_cores.py).                                                   *)
ReportIsTrue ==
    \A s \in Slots : Reported(s) =>
      LET c == Step(s).core IN
      /\ run[s].reading.of = c
      /\ run[s].reading.clock = Asked(s).clock
      /\ run[s].reading.params = Asked(s).params[c]
      /\ ~run[s].edited => run[s].measured_from = run[s].reading.text

(* A drift is of the HDL and never of the coordinates that two measurements *)
(* were taken at, and numbers that HDL of another version gives by luck are *)
(* flagged by the stamp (parse_reports: "A run whose numbers match a stamp  *)
(* recorded against DIFFERENT sources matched by luck").  A scalar envelope *)
(* has no coordinates to tell.                                              *)
JudgesTheRegistry ==
    \A s \in Slots : Reported(s) /\ ~run[s].edited =>
      LET c == Step(s).core
          changed == run[s].reading.text # Stamp(c)
      IN
      /\ run[s].matches = "no" /\ (\A p \in registry[c].points : p.clock # "any") => changed
      /\ run[s].matches = "yes" /\ changed => ~run[s].stamp_matches

(* A generated core that is selected is read as this process configures it, *)
(* whatever was rendered there before: "a generated core is never           *)
(* synthesized from a stale file" (render_cores.py).                        *)
SelectedIsFresh ==
    \A s \in Slots : Reported(s) =>
      \A g \in Selected(Step(s).of) \intersect Generated \intersect DOMAIN run[s].reading.text :
        run[s].reading.text[g] = configured
================================================================================
