----------------------------- MODULE CoreSynthesis -----------------------------
(***************************************************************************)
(* The output root of the core characterization: cores of a registry are   *)
(* rendered where their HDL is generated (dau_build/render_cores.py),      *)
(* staged as one script per module, run through Vivado one after the other *)
(* and their reports compared with what the registry has recorded          *)
(* (dau_build/synthesize_cores.py).                                        *)
(*                                                                         *)
(* A task's steps are records here: what to do, for which core, and the    *)
(* request they belong to.  The command plan, which only a person runs, is *)
(* left out.                                                               *)
(***************************************************************************)
EXTENDS BuildRoot

CONSTANTS
    registry,   \* per core: module, depends, package, generated, accepts (its
                \* parameter values) and points (where it was measured)
    request,    \* per task that may be asked for: what to do, the cores, a
                \* clock, and the parameter values per core
    NoCore      \* the core of a step that is for all of them

VARIABLES
    hdl,            \* the version of the checked-in sources
    configured,     \* the operating points of this process's registry
    rendered,       \* per generated core, its file under root/generated
    render_root,    \* DAU_CORE_RENDER_ROOT is set in this process
    recorded,       \* the version that the registry's numbers were measured of
    script,         \* per module, the staged script
    report,         \* per module, the run that its report files are of
    run             \* per task, the Vivado run that is on, or its outcome

coreVars == <<hdl, configured, rendered, render_root, recorded, script, report, run>>

Cores == DOMAIN registry
Modules == {registry[c].module : c \in Cores}
Generated == {c \in Cores : registry[c].generated}

NoRun == [phase |-> "none"]

--------------------------------------------------------------------------------
(* The registry. *)

Depends(c) == IF c \in Cores THEN registry[c].depends ELSE {}
Named == Cores \union UNION {Depends(c) : c \in Cores}

\* Per core, the least set with it that is closed under depends.
Closed ==
    [c \in Named |->
       {d \in Named : \A S \in SUBSET Named :
                        c \in S /\ (\A n \in S : Depends(n) \subseteq S) => d \in S}]

\* Mutated: the dependencies of the dependencies are left out.
DirectSources(c) == {c} \union Depends(c)

sources_for(c) == Closed[c]

\* The walk meets a name that is not registered, or does not end.
WalkFails(c) ==
    \E d \in Closed[c] : d \notin Cores \/ \E e \in Depends(d) : d \in Closed[e]

\* A generated core refuses its path until it is rendered.
HasSource(c) == c \in Generated => render_root /\ rendered[c] # NoFile

Content(c) == IF c \in Generated THEN rendered[c] ELSE hdl

\* What the registry knows of a measurement: the closure's digest.
Digest(c) == [d \in Closed[c] |-> Content(d)]
Stamp(c) == [d \in Closed[c] |-> recorded]

\* Mutated: any of the core's points will do.
AnyPoint(c, clock, params) == registry[c].points

\* A list of points is looked up by its coordinates; a scalar envelope has
\* none, and speaks of the declared defaults.
RegisteredPoints(c, clock, params) ==
    {p \in registry[c].points :
       IF p.clock = "any" THEN params = "default" ELSE p = [clock |-> clock, params |-> params]}

\* Whether a run may give the numbers of a point: the same HDL at the same
\* coordinates does, and another may by luck.
Reproduces(reading, point) ==
    IF point = [clock |-> reading.clock, params |-> reading.params]
         /\ reading.text = Stamp(reading.of)
      THEN {TRUE} ELSE BOOLEAN

\* Whether the numbers are those of a point, where there is one.
Outcomes(reading, points) ==
    IF points = {} THEN {"none"}
    ELSE {IF same THEN "yes" ELSE "no" : same \in UNION {Reproduces(reading, p) : p \in points}}

--------------------------------------------------------------------------------
(* The task. *)

CoreStep(do, core, q) == [do |-> do, core |-> core, of |-> q]
Selected(q) == {request[q].cores[i] : i \in DOMAIN request[q].cores}

ASSUME RequestAssumption == \A q \in DOMAIN request : request[q].cores \in Seq(Selected(q))

\* Every entry is a registered core and no package, and there is one.
Resolves(q) ==
    /\ Selected(q) # {}
    /\ \A c \in Selected(q) : c \in Cores /\ ~registry[c].package

StepsOf(q) ==
    LET cores == request[q].cores
        each(do) == [i \in DOMAIN cores |-> CoreStep(do, cores[i], q)]
    IN
    <<CoreStep("render", NoCore, q)>>
      \o (IF request[q].do = "render" THEN <<>> ELSE each("stage"))
      \o (IF request[q].do = "synthesize" THEN each("run") ELSE <<>>)

\* A task that does not resolve its cores changes nothing.
SynthesizeCores(s) ==
    /\ \E q \in DOMAIN request : Resolves(q) /\ Start(s, StepsOf(q), NoDesign)
    /\ UNCHANGED <<builds, bitstream, packaged, coreVars>>

At(s, do) == task[s].steps # <<>> /\ Head(task[s].steps).do = do
Step(s) == Head(task[s].steps)
Asked(s) == request[Step(s).of]

\* Mutated: a render that is there is taken for the one that is wanted.
RenderedOnce(wanted) ==
    [g \in Generated |-> IF g \in wanted /\ rendered[g] = NoFile THEN configured ELSE rendered[g]]

Rendered(wanted) == [g \in Generated |-> IF g \in wanted THEN configured ELSE rendered[g]]

\* render_generated_cores: the selected ones, and not what they depend on.
RenderCores(s) ==
    LET wanted == Selected(Step(s).of) \intersect Generated IN
    /\ At(s, "render")
    /\ GoesOn(s)
    /\ rendered' = Rendered(wanted)
    /\ render_root' = (render_root \/ wanted # {})
    /\ UNCHANGED <<builds, bitstream, packaged, hdl, configured, recorded, script, report, run>>

RenderFails(s) ==
    LET wanted == Selected(Step(s).of) \intersect Generated IN
    /\ At(s, "render")
    /\ Fails(s)
    /\ \E done \in SUBSET wanted : done # wanted /\ rendered' = Rendered(done)
    /\ UNCHANGED <<builds, bitstream, packaged, hdl, configured, render_root, recorded, script, report, run>>

Stageable(c, q) ==
    /\ ~WalkFails(c)
    /\ \A d \in sources_for(c) : HasSource(d)
    /\ request[q].params[c] \in registry[c].accepts

Script(c, q) ==
    [of |-> c, clock |-> request[q].clock, params |-> request[q].params[c],
     sources |-> sources_for(c)]

StageCore(s) ==
    LET c == Step(s).core IN
    /\ At(s, "stage")
    /\ Stageable(c, Step(s).of)
    /\ GoesOn(s)
    /\ script' = [script EXCEPT ![registry[c].module] = Script(c, Step(s).of)]
    /\ UNCHANGED <<builds, bitstream, packaged, hdl, configured, rendered, render_root, recorded, report, run>>

\* What the earlier cores have staged stays.
StageFails(s) ==
    /\ At(s, "stage")
    /\ ~Stageable(Step(s).core, Step(s).of)
    /\ Fails(s)
    /\ UNCHANGED <<builds, bitstream, packaged, coreVars>>

\* Vivado reads the sources that the module's script names.
VivadoReads(s) ==
    LET staged == script[registry[Step(s).core].module] IN
    /\ At(s, "run")
    /\ run[s] = NoRun
    /\ run' = [run EXCEPT ![s] =
         [phase |-> "on", edited |-> FALSE,
          reading |-> [of |-> staged.of, clock |-> staged.clock, params |-> staged.params,
                       text |-> [d \in staged.sources |-> Content(d)]]]]
    /\ UNCHANGED <<builds, bitstream, packaged, task, hdl, configured, rendered, render_root, recorded, script, report>>

Filed(s) == [report EXCEPT ![registry[Step(s).core].module] = run[s].reading]

VivadoEnds(s) ==
    /\ run[s].phase = "on"
    /\ run' = [run EXCEPT ![s].phase = "ended"]
    /\ report' = Filed(s)
    /\ UNCHANGED <<builds, bitstream, packaged, task, hdl, configured, rendered, render_root, recorded, script>>

\* Mutated: the exit status is not looked at.
VivadoFailsUnseen(s) ==
    /\ run[s].phase = "on"
    /\ run' = [run EXCEPT ![s].phase = "ended"]
    /\ UNCHANGED <<report, task>>
    /\ UNCHANGED <<builds, bitstream, packaged, hdl, configured, rendered, render_root, recorded, script>>

\* Its reports may have been written already.
VivadoFails(s) ==
    /\ run[s].phase = "on"
    /\ Fails(s)
    /\ run' = [run EXCEPT ![s] = NoRun]
    /\ report' \in {report, Filed(s)}
    /\ UNCHANGED <<builds, bitstream, packaged, hdl, configured, rendered, render_root, recorded, script>>

\* parse_reports: the numbers are those of the report file, the digest that
\* of the closure as it is now.
ParseReports(s) ==
    LET c == Step(s).core
        reading == report[registry[c].module]
        points == RegisteredPoints(c, Asked(s).clock, Asked(s).params[c])
    IN
    /\ run[s].phase = "ended"
    /\ reading # NoFile
    /\ \E matches \in Outcomes(reading, points) :
         run' = [run EXCEPT ![s] =
           [phase |-> "reported", edited |-> run[s].edited, reading |-> reading,
            measured_from |-> Digest(c), matches |-> matches,
            stamp_matches |-> Digest(c) = Stamp(c)]]
    /\ UNCHANGED <<builds, bitstream, packaged, task, hdl, configured, rendered, render_root, recorded, script, report>>

\* A report without the row that is looked for.
ParseFails(s) ==
    /\ run[s].phase = "ended"
    /\ Fails(s)
    /\ run' = [run EXCEPT ![s] = NoRun]
    /\ UNCHANGED <<builds, bitstream, packaged, hdl, configured, rendered, render_root, recorded, script, report>>

CoreDone(s) ==
    /\ run[s].phase = "reported"
    /\ GoesOn(s)
    /\ run' = [run EXCEPT ![s] = NoRun]
    /\ UNCHANGED <<builds, bitstream, packaged, hdl, configured, rendered, render_root, recorded, script, report>>

--------------------------------------------------------------------------------
(* Around the tasks. *)

\* The checked-in HDL is edited, also while Vivado runs.
EditHdl ==
    /\ hdl' \in Versions \ {hdl}
    /\ run' = [s \in Slots |-> IF run[s].phase \in {"on", "ended"}
                                 THEN [run[s] EXCEPT !.edited = TRUE] ELSE run[s]]
    /\ UNCHANGED <<builds, bitstream, packaged, task, configured, rendered, render_root, recorded, script, report>>

\* Another dau-build process composes its registry anew.
NewProcess ==
    /\ \A s \in Slots : task[s] = Idle
    /\ configured' \in Versions
    /\ render_root' = FALSE
    /\ UNCHANGED <<builds, bitstream, packaged, task, hdl, rendered, recorded, script, report, run>>

CoresInit(versions) ==
    /\ hdl \in versions /\ configured \in versions /\ recorded \in versions
    /\ rendered = [g \in Generated |-> NoFile] /\ render_root = FALSE
    /\ script = [m \in Modules |-> NoFile] /\ report = [m \in Modules |-> NoFile]
    /\ run = [s \in Slots |-> NoRun]

CoresNext ==
    \/ EditHdl \/ NewProcess
    \/ \E s \in Slots :
         \/ SynthesizeCores(s) \/ RenderCores(s) \/ RenderFails(s) \/ StageCore(s) \/ StageFails(s)
         \/ VivadoReads(s) \/ VivadoEnds(s) \/ VivadoFails(s)
         \/ ParseReports(s) \/ ParseFails(s) \/ CoreDone(s)
================================================================================
