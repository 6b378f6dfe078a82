------------------------- MODULE BuildProvenanceProofs -------------------------
(***************************************************************************)
(* What is packaged and flashed, and what is reported of a core, for every *)
(* registry, every set of requests and any number of versions, boards and  *)
(* builds, if the tasks of a directory do not overlap and, of the cores,   *)
(* if no two of them have one module; and where the hook places the lanes  *)
(* of every board that gives no lane two places.                           *)
(***************************************************************************)
EXTENDS BuildProvenance, FiniteSetTheorems, TLAPS

Build == [of : Designs \union {NoFile}, built : BOOLEAN, clean : BOOLEAN]

--------------------------------------------------------------------------------
(* Builds and packages. *)

\* A build has got to its end and is of this version, unless it was not clean.
IsOf(d, of) ==
    /\ d \in 1 .. Len(builds)
    /\ builds[d].clean => builds[d].of = of /\ builds[d].built

\* The packaged manifest tells the truth of the build whose digest it has.
PackagedIsTrue == packaged \notin {NoFile, Empty} => IsOf(packaged.digest, packaged.of)

RootInv ==
    /\ DOMAIN task = Slots
    /\ builds \in Seq(Build)
    /\ bitstream \in 0 .. Len(builds)
    /\ PackagedIsTrue

\* What may happen to the builds: there are more, one gets to its end, one is
\* no longer clean.
Later ==
    /\ Len(builds) <= Len(builds')
    /\ builds' \in Seq(Build)
    /\ \A d \in 1 .. Len(builds) :
         /\ builds'[d].of = builds[d].of
         /\ builds[d].built => builds'[d].built
         /\ builds'[d].clean => builds[d].clean

LEMMA SameBuilds ==
    ASSUME builds \in Seq(Build), builds' = builds
    PROVE  Later
  <1>1. Len(builds) \in Nat
    OBVIOUS
  <1> QED  BY <1>1 DEF Later

LEMMA StaysTrue ==
    ASSUME builds \in Seq(Build), Later, NEW d, NEW of, IsOf(d, of)
    PROVE  IsOf(d, of)'
  <1>1. Len(builds) \in Nat /\ Len(builds') \in Nat
    BY DEF Later
  <1>2. d \in 1 .. Len(builds) /\ d \in 1 .. Len(builds')
    BY <1>1 DEF IsOf, Later
  <1> QED  BY <1>2 DEF IsOf, Later

LEMMA PackageStaysTrue ==
    ASSUME RootInv, Later, packaged' \in {packaged, NoFile, Empty}
    PROVE  PackagedIsTrue'
  <1>1. CASE packaged' = packaged
    BY <1>1, StaysTrue DEF RootInv, PackagedIsTrue
  <1>2. CASE packaged' \in {NoFile, Empty}
    BY <1>2 DEF PackagedIsTrue
  <1> QED  BY <1>1, <1>2

LEMMA BitstreamStays ==
    ASSUME RootInv, Later, bitstream' \in {bitstream, 0}
    PROVE  bitstream' \in 0 .. Len(builds')
  <1>1. Len(builds) \in Nat /\ Len(builds') \in Nat
    BY DEF RootInv, Later
  <1> QED  BY <1>1 DEF RootInv, Later

LEMMA Synthesised ==
    ASSUME NEW s \in Slots, RootInv, NEW of \in Designs \union {NoFile}, NEW clean \in BOOLEAN,
           Synthesises(s, of, clean)
    PROVE  /\ Later
           /\ DOMAIN task' = Slots
           /\ task'[s].steps = Tail(task[s].steps) /\ task'[s].of = task[s].of
           /\ task'[s].build \in 1 .. Len(builds')
           /\ builds'[task'[s].build].of = of /\ builds'[task'[s].build].clean = clean
           /\ task'[s] = [steps |-> task'[s].steps, of |-> task'[s].of, build |-> task'[s].build]
  <1>1. PICK b : b = [of |-> of, built |-> FALSE, clean |-> clean]
    OBVIOUS
  <1>2. b \in Build /\ b.of = of /\ b.clean = clean
    BY <1>1 DEF Build
  <1>3. builds \in Seq(Build) /\ builds' = Append(builds, b) /\ Len(builds) \in Nat
    BY <1>1 DEF Synthesises, RootInv
  <1>4. /\ builds' \in Seq(Build) /\ Len(builds') = Len(builds) + 1
        /\ builds'[Len(builds) + 1] = b
        /\ \A d \in 1 .. Len(builds) : builds'[d] = builds[d]
    BY <1>2, <1>3
  <1>5. Later
    BY <1>3, <1>4 DEF Later
  <1>6. DOMAIN task' = Slots
        /\ task'[s] = [steps |-> Tail(task[s].steps), of |-> task[s].of, build |-> Len(builds) + 1]
    BY DEF RootInv, Synthesises
  <1>7. /\ task'[s].steps = Tail(task[s].steps) /\ task'[s].of = task[s].of
        /\ task'[s].build = Len(builds) + 1
    BY <1>6
  <1>8. Len(builds) + 1 \in 1 .. Len(builds')
    BY <1>3, <1>4
  <1>9. task'[s] = [steps |-> task'[s].steps, of |-> task'[s].of, build |-> task'[s].build]
    BY <1>6, <1>7
  <1> QED  BY <1>2, <1>4, <1>5, <1>6, <1>7, <1>8, <1>9

LEMMA Finished ==
    ASSUME NEW s \in Slots, RootInv, IsBuilt(s), task[s].build \in 1 .. Len(builds)
    PROVE  /\ Later
           /\ builds'[task[s].build].built
           /\ builds'[task[s].build].of = builds[task[s].build].of
           /\ builds'[task[s].build].clean = builds[task[s].build].clean
           /\ Len(builds') = Len(builds)
  <1>1. PICK b : b = task[s].build
    OBVIOUS
  <1>2. builds \in Seq(Build) /\ Len(builds) \in Nat /\ b \in 1 .. Len(builds)
    BY <1>1 DEF RootInv
  <1>3. builds[b] \in Build
    BY <1>2
  <1>4. PICK new : new = [builds[b] EXCEPT !.built = TRUE]
    OBVIOUS
  <1>5. new \in Build /\ new.of = builds[b].of /\ new.clean = builds[b].clean /\ new.built = TRUE
    BY <1>3, <1>4 DEF Build
  <1>6. builds' = [builds EXCEPT ![b] = new]
    BY <1>1, <1>4 DEF IsBuilt
  <1>7. /\ builds' \in Seq(Build) /\ Len(builds') = Len(builds) /\ builds'[b] = new
        /\ \A d \in 1 .. Len(builds) : d # b => builds'[d] = builds[d]
    BY <1>2, <1>5, <1>6
  <1>8. Later
    BY <1>2, <1>5, <1>7 DEF Later
  <1> QED  BY <1>1, <1>5, <1>7, <1>8

--------------------------------------------------------------------------------
(* The steps of a task. *)

First(steps) == IF steps = <<>> THEN "idle" ELSE Head(steps)
IsTask(t) == t = [steps |-> t.steps, of |-> t.of, build |-> t.build]

LEMMA IsATask ==
    ASSUME NEW t, NEW a, NEW b, NEW c, t = [steps |-> a, of |-> b, build |-> c]
    PROVE  IsTask(t) /\ t.steps = a /\ t.of = b /\ t.build = c
  <1>1. t.steps = a /\ t.of = b /\ t.build = c
    OBVIOUS
  <1> QED  BY <1>1 DEF IsTask

LEMMA TaskEnds ==
    ASSUME NEW s \in Slots, DOMAIN task = Slots, Fails(s)
    PROVE  DOMAIN task' = Slots /\ IsTask(task'[s]) /\ task'[s].steps = <<>>
  BY IsATask DEF Fails, Idle

LEMMA TaskContinues ==
    ASSUME NEW s \in Slots, DOMAIN task = Slots, IsTask(task[s]), GoesOn(s)
    PROVE  /\ DOMAIN task' = Slots /\ IsTask(task'[s])
           /\ task'[s].steps = Tail(task[s].steps)
           /\ task'[s].steps # <<>> => task'[s].of = task[s].of /\ task'[s].build = task[s].build
  <1>1. PICK rest : rest = Tail(task[s].steps)
    OBVIOUS
  <1>2. /\ DOMAIN task' = Slots
        /\ task'[s] = IF rest = <<>> THEN Idle ELSE [task[s] EXCEPT !.steps = rest]
    <2>1. PICK next : next = IF rest = <<>> THEN Idle ELSE [task[s] EXCEPT !.steps = rest]
      OBVIOUS
    <2>2. task' = [task EXCEPT ![s] = next]
      BY <1>1, <2>1, Zenon DEF GoesOn
    <2> QED  BY <2>1, <2>2
  <1>3. DOMAIN task' = Slots
    BY <1>2
  <1>4. CASE rest = <<>>
    <2>1. task'[s] = [steps |-> rest, of |-> NoDesign, build |-> 0]
      BY <1>2, <1>4 DEF Idle
    <2>2. IsTask(task'[s]) /\ task'[s].steps = rest
      BY <2>1, IsATask
    <2> QED  BY <1>1, <1>3, <1>4, <2>2
  <1>5. CASE rest # <<>>
    <2>1. task'[s] = [steps |-> rest, of |-> task[s].of, build |-> task[s].build]
      BY <1>2, <1>5 DEF IsTask
    <2>2. /\ IsTask(task'[s]) /\ task'[s].steps = rest
          /\ task'[s].of = task[s].of /\ task'[s].build = task[s].build
      BY <2>1, IsATask
    <2> QED  BY <1>1, <1>3, <2>2
  <1> QED  BY <1>4, <1>5

LEMMA TaskStarts ==
    ASSUME NEW s \in Slots, DOMAIN task = Slots, NEW steps, NEW version, Start(s, steps, version)
    PROVE  /\ task[s].steps = <<>> /\ DOMAIN task' = Slots /\ IsTask(task'[s])
           /\ task'[s].steps = steps /\ task'[s].of = version
  <1>1. DOMAIN task' = Slots /\ task'[s] = [steps |-> steps, of |-> version, build |-> 0]
    BY DEF Start
  <1>2. task[s].steps = <<>>
    BY DEF Start, Idle
  <1> QED  BY <1>1, <1>2, IsATask

--------------------------------------------------------------------------------
(* A project's directory. *)

ProjectPlans ==
    {<<>>, <<"package">>, <<"ok", "package">>, <<"copy", "ok", "package">>,
     <<"verify", "copy", "ok", "package">>, <<"impl", "verify", "copy", "ok", "package">>,
     <<"synth", "impl", "verify", "copy", "ok", "package">>}

LEMMA ProjectGoesOn ==
    ASSUME NEW steps \in ProjectPlans, steps # <<>>
    PROVE  LET next == First(Tail(steps)) IN
           /\ Tail(steps) \in ProjectPlans
           /\ First(steps) = "synth" => next = "impl"
           /\ First(steps) = "impl" => next = "verify"
           /\ First(steps) = "verify" => next = "copy"
           /\ First(steps) = "copy" => next = "ok"
           /\ First(steps) = "ok" => next = "package"
           /\ First(steps) = "package" => next = "idle"
  <1>1. CASE steps = <<"package">>
    BY <1>1 DEF ProjectPlans, First
  <1>2. CASE steps = <<"ok", "package">>
    BY <1>2 DEF ProjectPlans, First
  <1>3. CASE steps = <<"copy", "ok", "package">>
    BY <1>3 DEF ProjectPlans, First
  <1>4. CASE steps = <<"verify", "copy", "ok", "package">>
    BY <1>4 DEF ProjectPlans, First
  <1>5. CASE steps = <<"impl", "verify", "copy", "ok", "package">>
    BY <1>5 DEF ProjectPlans, First
  <1>6. CASE steps = <<"synth", "impl", "verify", "copy", "ok", "package">>
    BY <1>6 DEF ProjectPlans, First
  <1> QED  BY <1>1, <1>2, <1>3, <1>4, <1>5, <1>6 DEF ProjectPlans

LanesPlaced == Placed(loc)

ProjectTask(s) ==
    LET now == First(task[s].steps)
        b == task[s].build
    IN
    /\ IsTask(task[s])
    /\ task[s].steps \in ProjectPlans
    /\ now \in {"impl", "verify", "copy", "ok", "package"} =>
         b \in 1 .. Len(builds) /\ (builds[b].clean => builds[b].of = sources)
    /\ now \in {"ok", "package"} => bitstream = b
    /\ now = "package" => builds[b].built
    /\ now \in {"synth", "impl", "verify"} => console # "ok"
    /\ now \in {"copy", "ok"} => LanesPlaced

ProjectInv ==
    /\ RootInv
    /\ sources \in Versions
    /\ console = "ok" => LanesPlaced
    /\ file = [f \in Files |-> NoFile]
    /\ \A s \in Slots : ProjectTask(s)

LEMMA LanesStay ==
    ASSUME UNCHANGED <<board, loc>>
    PROVE  LanesPlaced' = LanesPlaced
  BY DEF LanesPlaced, Placed, Placements

LEMMA ProjectAssembled ==
    ASSUME NEW s \in Slots, OneTask, RootInv', sources' \in Versions,
           console' = "ok" => LanesPlaced', file' = [f \in Files |-> NoFile], ProjectTask(s)'
    PROVE  ProjectInv'
  <1>1. \A t \in Slots : t = s
    BY DEF OneTask
  <1>2. \A t \in Slots : ProjectTask(t)'
    BY <1>1
  <1> QED  BY <1>2 DEF ProjectInv

LEMMA AtItsStep ==
    ASSUME NEW s \in Slots, NEW name, AtStep(s, name)
    PROVE  task[s].steps # <<>> /\ First(task[s].steps) = name
  BY DEF AtStep, First

LEMMA EditKeeps ==
    ASSUME ProjectInv, Edit, UNCHANGED file
    PROVE  ProjectInv'
  <1>1. UNCHANGED <<bitstream, packaged, task, console, board, loc>> /\ sources' \in Versions
    BY DEF Edit
  <1>2. builds \in Seq(Build) /\ Len(builds) \in Nat
    BY DEF ProjectInv, RootInv
  <1>3. ASSUME NEW b \in 1 .. Len(builds)
        PROVE  /\ [builds[b] EXCEPT !.clean = FALSE] \in Build
               /\ [builds[b] EXCEPT !.clean = FALSE].of = builds[b].of
               /\ [builds[b] EXCEPT !.clean = FALSE].built = builds[b].built
               /\ [builds[b] EXCEPT !.clean = FALSE].clean = FALSE
    <2>1. builds[b] \in Build
      BY <1>2
    <2> QED  BY <2>1 DEF Build
  <1>4. builds' = [b \in 1 .. Len(builds) |->
                     IF \E s \in Slots : task[s].build = b THEN [builds[b] EXCEPT !.clean = FALSE]
                     ELSE builds[b]]
    BY <1>2 DEF Edit
  <1>5. /\ Later /\ Len(builds') = Len(builds)
        /\ \A s \in Slots : task[s].build \in 1 .. Len(builds) =>
             /\ ~builds'[task[s].build].clean
             /\ builds'[task[s].build].built = builds[task[s].build].built
    <2>1. \A b \in 1 .. Len(builds) :
            /\ builds'[b] \in Build /\ builds'[b].of = builds[b].of
            /\ builds'[b].built = builds[b].built
            /\ builds'[b].clean => builds[b].clean
            /\ (\E s \in Slots : task[s].build = b) => ~builds'[b].clean
      BY <1>2, <1>3, <1>4
    <2>2. builds' \in Seq(Build) /\ Len(builds') = Len(builds)
      BY <1>2, <1>4, <2>1
    <2> QED  BY <1>2, <2>1, <2>2 DEF Later
  <1>6. RootInv'
    BY <1>1, <1>5, PackageStaysTrue, BitstreamStays DEF ProjectInv, RootInv, Later
  <1>7. \A s \in Slots : ProjectTask(s)'
    BY <1>1, <1>5, LanesStay DEF ProjectInv, ProjectTask
  <1> QED  BY <1>1, <1>6, <1>7, LanesStay DEF ProjectInv

LEMMA ProjectFailureKeeps ==
    ASSUME NEW s \in Slots, OneTask, ProjectInv, Fails(s), builds' = builds,
           bitstream' \in 0 .. Len(builds), PackagedIsTrue',
           UNCHANGED <<sources, board, loc, file>>,
           console' \in {console, "failed"}
    PROVE  ProjectInv'
  <1>1. DOMAIN task' = Slots /\ IsTask(task'[s]) /\ task'[s].steps = <<>>
    BY TaskEnds DEF ProjectInv, RootInv
  <1>2. RootInv'
    BY <1>1 DEF ProjectInv, RootInv
  <1>3. ProjectTask(s)'
    BY <1>1 DEF ProjectTask, First, ProjectPlans
  <1> QED  BY <1>2, <1>3, LanesStay, ProjectAssembled DEF ProjectInv

LEMMA BuildProjectKeeps ==
    ASSUME NEW s \in Slots, OneTask, ProjectInv, BuildProject(s), UNCHANGED file
    PROVE  ProjectInv'
  <1>1. DOMAIN task' = Slots /\ IsTask(task'[s]) /\ task'[s].steps = ProjectSteps
    BY TaskStarts DEF BuildProject, ProjectInv, RootInv
  <1>2. RootInv'
    BY <1>1, SameBuilds, PackageStaysTrue DEF BuildProject, ProjectInv, RootInv
  <1>3. First(ProjectSteps) = "synth" /\ ProjectSteps \in ProjectPlans
    BY DEF First, ProjectSteps, ProjectPlans
  <1>4. console' = "nothing" /\ sources' = sources
    BY DEF BuildProject
  <1>5. ProjectTask(s)'
    BY <1>1, <1>3, <1>4 DEF ProjectTask
  <1> QED  BY <1>2, <1>4, <1>5, ProjectAssembled DEF ProjectInv

\* Where a step leads, if it goes on.
LEMMA ProjectMoves ==
    ASSUME NEW s \in Slots, ProjectInv, GoesOn(s), NEW name, AtStep(s, name)
    PROVE  LET now == First(task'[s].steps) IN
           /\ DOMAIN task' = Slots /\ IsTask(task'[s]) /\ task'[s].steps \in ProjectPlans
           /\ name = "impl" => now = "verify"
           /\ name = "verify" => now = "copy"
           /\ name = "copy" => now = "ok"
           /\ name = "ok" => now = "package"
           /\ name = "package" => now = "idle"
           /\ now # "idle" => task'[s].build = task[s].build
  <1>1. /\ DOMAIN task = Slots /\ IsTask(task[s]) /\ task[s].steps \in ProjectPlans
        /\ task[s].steps # <<>> /\ First(task[s].steps) = name
    BY AtItsStep DEF ProjectInv, RootInv, ProjectTask
  <1>2. PICK old \in ProjectPlans : old = task[s].steps /\ old # <<>> /\ First(old) = name
    BY <1>1
  <1>3. /\ DOMAIN task' = Slots /\ IsTask(task'[s]) /\ task'[s].steps = Tail(old)
        /\ task'[s].steps # <<>> => task'[s].build = task[s].build
    BY <1>1, <1>2, TaskContinues
  <1>4. First(<<>>) = "idle"
    BY DEF First
  <1> QED  BY <1>2, <1>3, <1>4, ProjectGoesOn

LEMMA ProjectSynthKeeps ==
    ASSUME NEW s \in Slots, OneTask, ProjectInv, ProjectSynth(s), UNCHANGED file
    PROVE  ProjectInv'
  <1>1. /\ AtStep(s, "synth") /\ Synthesises(s, sources, TRUE)
        /\ UNCHANGED <<bitstream, packaged, sources, console, board>>
    BY DEF ProjectSynth
  <1>2. RootInv /\ sources \in Designs \union {NoFile}
    BY DEF ProjectInv, Designs
  <1>3. /\ Later /\ DOMAIN task' = Slots /\ IsTask(task'[s])
        /\ task'[s].steps = Tail(task[s].steps)
        /\ task'[s].build \in 1 .. Len(builds')
        /\ builds'[task'[s].build].of = sources
    BY <1>1, <1>2, Synthesised DEF IsTask
  <1>4. PICK old \in ProjectPlans : old = task[s].steps /\ old # <<>> /\ First(old) = "synth"
    BY <1>1, AtItsStep DEF ProjectInv, ProjectTask
  <1>5. task'[s].steps \in ProjectPlans /\ First(task'[s].steps) = "impl"
    BY <1>3, <1>4, ProjectGoesOn
  <1>6. console # "ok"
    BY <1>4 DEF ProjectInv, ProjectTask
  <1>7. RootInv'
    BY <1>1, <1>2, <1>3, PackageStaysTrue, BitstreamStays DEF RootInv, Later
  <1>8. ProjectTask(s)'
    BY <1>1, <1>3, <1>5, <1>6 DEF ProjectTask
  <1> QED  BY <1>1, <1>6, <1>7, <1>8, ProjectAssembled DEF ProjectInv

LEMMA ProjectImplKeeps ==
    ASSUME NEW s \in Slots, OneTask, ProjectInv, ProjectImpl(s), UNCHANGED file
    PROVE  ProjectInv'
  <1>1. AtStep(s, "impl") /\ GoesOn(s) /\ UNCHANGED <<builds, bitstream, packaged, sources, console, board>>
    BY DEF ProjectImpl
  <1>2. /\ DOMAIN task' = Slots /\ IsTask(task'[s]) /\ task'[s].steps \in ProjectPlans
        /\ First(task'[s].steps) = "verify" /\ task'[s].build = task[s].build
    BY <1>1, ProjectMoves
  <1>3. ProjectTask(s) /\ First(task[s].steps) = "impl" /\ RootInv
    BY <1>1, AtItsStep DEF ProjectInv
  <1>4. RootInv'
    BY <1>1, <1>2, <1>3, SameBuilds, PackageStaysTrue DEF RootInv
  <1>5. console # "ok"
    BY <1>3 DEF ProjectTask
  <1>6. ProjectTask(s)'
    BY <1>1, <1>2, <1>3, <1>5 DEF ProjectTask
  <1> QED  BY <1>1, <1>4, <1>5, <1>6, ProjectAssembled DEF ProjectInv

LEMMA VerifyLanesKeeps ==
    ASSUME NEW s \in Slots, OneTask, ProjectInv, VerifyLanes(s), UNCHANGED file
    PROVE  ProjectInv'
  <1>1. /\ AtStep(s, "verify") /\ GoesOn(s) /\ LanesPlaced
        /\ UNCHANGED <<builds, bitstream, packaged, sources, console, board, loc>>
    BY DEF VerifyLanes, projectVars, LanesPlaced
  <1>2. /\ DOMAIN task' = Slots /\ IsTask(task'[s]) /\ task'[s].steps \in ProjectPlans
        /\ First(task'[s].steps) = "copy" /\ task'[s].build = task[s].build
    BY <1>1, ProjectMoves
  <1>3. ProjectTask(s) /\ First(task[s].steps) = "verify" /\ RootInv
    BY <1>1, AtItsStep DEF ProjectInv
  <1>4. RootInv'
    BY <1>1, <1>2, <1>3, SameBuilds, PackageStaysTrue DEF RootInv
  <1>5. LanesPlaced'
    BY <1>1, LanesStay
  <1>6. ProjectTask(s)'
    BY <1>1, <1>2, <1>3, <1>5 DEF ProjectTask
  <1> QED  BY <1>1, <1>4, <1>5, <1>6, ProjectAssembled DEF ProjectInv

LEMMA CopyBitstreamKeeps ==
    ASSUME NEW s \in Slots, OneTask, ProjectInv, CopyBitstream(s), UNCHANGED file
    PROVE  ProjectInv'
  <1>1. /\ AtStep(s, "copy") /\ GoesOn(s) /\ bitstream' = task[s].build
        /\ UNCHANGED <<builds, packaged, sources, console, board, loc>>
    BY DEF CopyBitstream, projectVars
  <1>2. /\ DOMAIN task' = Slots /\ IsTask(task'[s]) /\ task'[s].steps \in ProjectPlans
        /\ First(task'[s].steps) = "ok" /\ task'[s].build = task[s].build
    BY <1>1, ProjectMoves
  <1>3. ProjectTask(s) /\ First(task[s].steps) = "copy" /\ RootInv
    BY <1>1, AtItsStep DEF ProjectInv
  <1>4. task[s].build \in 1 .. Len(builds) /\ LanesPlaced
    BY <1>3 DEF ProjectTask
  <1>5. RootInv'
    BY <1>1, <1>2, <1>3, <1>4, SameBuilds, PackageStaysTrue DEF RootInv
  <1>6. LanesPlaced'
    BY <1>1, <1>4, LanesStay
  <1>7. ProjectTask(s)'
    BY <1>1, <1>2, <1>3, <1>6 DEF ProjectTask
  <1> QED  BY <1>1, <1>5, <1>6, <1>7, ProjectAssembled DEF ProjectInv

LEMMA BuildOkKeeps ==
    ASSUME NEW s \in Slots, OneTask, ProjectInv, BuildOk(s), UNCHANGED file
    PROVE  ProjectInv'
  <1>1. /\ AtStep(s, "ok") /\ GoesOn(s) /\ IsBuilt(s) /\ console' = "ok"
        /\ UNCHANGED <<bitstream, packaged, sources, board, loc>>
    BY DEF BuildOk
  <1>2. /\ DOMAIN task' = Slots /\ IsTask(task'[s]) /\ task'[s].steps \in ProjectPlans
        /\ First(task'[s].steps) = "package" /\ task'[s].build = task[s].build
    BY <1>1, ProjectMoves
  <1>3. ProjectTask(s) /\ First(task[s].steps) = "ok" /\ RootInv
    BY <1>1, AtItsStep DEF ProjectInv
  <1>4. /\ task[s].build \in 1 .. Len(builds) /\ LanesPlaced /\ bitstream = task[s].build
        /\ builds[task[s].build].clean => builds[task[s].build].of = sources
    BY <1>3 DEF ProjectTask
  <1>5. /\ Later /\ builds'[task[s].build].built
        /\ builds'[task[s].build].of = builds[task[s].build].of
        /\ builds'[task[s].build].clean = builds[task[s].build].clean
        /\ Len(builds') = Len(builds)
    BY <1>1, <1>3, <1>4, Finished
  <1>6. RootInv'
    BY <1>1, <1>2, <1>3, <1>5, PackageStaysTrue, BitstreamStays DEF RootInv, Later
  <1>7. LanesPlaced'
    BY <1>1, <1>4, LanesStay
  <1>8. ProjectTask(s)'
    BY <1>1, <1>2, <1>4, <1>5, <1>7 DEF ProjectTask
  <1> QED  BY <1>1, <1>6, <1>7, <1>8, ProjectAssembled DEF ProjectInv

LEMMA ScriptFailsKeeps ==
    ASSUME NEW s \in Slots, OneTask, ProjectInv, ScriptFails(s), UNCHANGED file
    PROVE  ProjectInv'
  <1>1. /\ Fails(s) /\ console' \in {console, "failed"}
        /\ UNCHANGED <<builds, packaged, sources, board, loc>>
    BY DEF ScriptFails
  <1>2. RootInv
    BY DEF ProjectInv
  <1>3. bitstream' \in 0 .. Len(builds)
    <2>1. CASE AtStep(s, "copy")
      <3>1. First(task[s].steps) = "copy" /\ ProjectTask(s)
        BY <2>1, AtItsStep DEF ProjectInv
      <3>2. task[s].build \in 1 .. Len(builds)
        BY <3>1 DEF ProjectTask
      <3>3. bitstream' \in {bitstream, task[s].build}
        BY <2>1 DEF ScriptFails
      <3>4. Len(builds) \in Nat /\ bitstream \in 0 .. Len(builds)
        BY <1>2 DEF RootInv
      <3> QED  BY <3>2, <3>3, <3>4
    <2>2. CASE ~AtStep(s, "copy")
      BY <1>2, <2>2 DEF ScriptFails, RootInv
    <2> QED  BY <2>1, <2>2
  <1>4. PackagedIsTrue'
    BY <1>1, <1>2, SameBuilds, PackageStaysTrue DEF RootInv
  <1> QED  BY <1>1, <1>3, <1>4, ProjectFailureKeeps

\* What is packaged behind the console's word is the build that it is of.
LEMMA PackagesTheTruth ==
    ASSUME NEW s \in Slots, ProjectInv, AtStep(s, "package")
    PROVE  IsOf(bitstream, sources)
  <1>1. ProjectTask(s) /\ First(task[s].steps) = "package"
    BY AtItsStep DEF ProjectInv
  <1> QED  BY <1>1 DEF ProjectTask, IsOf

LEMMA PackageKeeps ==
    ASSUME NEW s \in Slots, OneTask, ProjectInv, PackageProject(s) \/ PackageProjectFails(s), UNCHANGED file
    PROVE  ProjectInv'
  <1>1. /\ AtStep(s, "package") /\ UNCHANGED <<builds, bitstream, sources, console, board, loc>>
        /\ packaged' \in {packaged, Empty, Packaged(sources)}
    BY DEF PackageProject, PackageProjectFails, WritePackage, Torn, projectVars
  <1>2. RootInv /\ IsOf(bitstream, sources)
    BY <1>1, PackagesTheTruth DEF ProjectInv
  <1>3. PackagedIsTrue'
    <2>1. CASE packaged' \in {packaged, Empty}
      BY <1>1, <1>2, <2>1, SameBuilds, PackageStaysTrue DEF RootInv
    <2>2. CASE packaged' = Packaged(sources)
      <3>1. packaged'.digest = bitstream /\ packaged'.of = sources
        BY <2>2 DEF Packaged
      <3> QED  BY <1>1, <1>2, <3>1 DEF PackagedIsTrue, IsOf
    <2> QED  BY <1>1, <2>1, <2>2
  <1>4. CASE PackageProject(s)
    <2>1. GoesOn(s)
      BY <1>4 DEF PackageProject
    <2>2. /\ DOMAIN task' = Slots /\ IsTask(task'[s]) /\ task'[s].steps \in ProjectPlans
          /\ First(task'[s].steps) = "idle"
      BY <1>1, <2>1, ProjectMoves
    <2>3. RootInv'
      BY <1>1, <1>2, <1>3, <2>2 DEF RootInv
    <2>4. ProjectTask(s)'
      BY <2>2 DEF ProjectTask
    <2> QED  BY <1>1, <2>3, <2>4, LanesStay, ProjectAssembled DEF ProjectInv
  <1>5. CASE PackageProjectFails(s)
    <2>1. Fails(s)
      BY <1>5 DEF PackageProjectFails
    <2> QED  BY <1>1, <1>2, <1>3, <2>1, ProjectFailureKeeps DEF RootInv
  <1> QED  BY <1>4, <1>5

LEMMA ProjectStep ==
    ASSUME OneTask, ProjectInv, ProjectNext, UNCHANGED file
    PROVE  ProjectInv'
  <1>1. CASE Edit
    BY <1>1, EditKeeps
  <1>2. ASSUME NEW s \in Slots,
               \/ BuildProject(s) \/ ProjectSynth(s) \/ ProjectImpl(s) \/ VerifyLanes(s)
               \/ CopyBitstream(s) \/ BuildOk(s)
               \/ ScriptFails(s) \/ PackageProject(s) \/ PackageProjectFails(s)
        PROVE  ProjectInv'
    BY <1>2, BuildProjectKeeps, ProjectSynthKeeps, ProjectImplKeeps, VerifyLanesKeeps,
       CopyBitstreamKeeps, BuildOkKeeps, ScriptFailsKeeps, PackageKeeps
  <1> QED  BY <1>1, <1>2 DEF ProjectNext

--------------------------------------------------------------------------------
(* A work root. *)

OverlayPlans ==
    {<<>>, <<"write-vivado-build-script">>,
     <<"write-dau-manifest", "write-vivado-build-script">>,
     <<"write-dau-overlay", "write-dau-manifest", "write-vivado-build-script">>,
     <<"stage-shell", "write-dau-overlay", "write-dau-manifest", "write-vivado-build-script">>,
     <<"built">>, <<"reports", "built">>, <<"impl", "reports", "built">>,
     <<"synth", "impl", "reports", "built">>, <<"overlay", "synth", "impl", "reports", "built">>}

Staging == {"stage-shell", "write-dau-overlay", "write-dau-manifest", "write-vivado-build-script"}

LEMMA OverlayGoesOn ==
    ASSUME NEW steps \in OverlayPlans, steps # <<>>
    PROVE  LET next == First(Tail(steps)) IN
           /\ Tail(steps) \in OverlayPlans
           /\ First(steps) = "stage-shell" => next = "write-dau-overlay"
           /\ First(steps) = "write-dau-overlay" => next = "write-dau-manifest"
           /\ First(steps) = "write-dau-manifest" => next = "write-vivado-build-script"
           /\ First(steps) = "write-vivado-build-script" => next = "idle"
           /\ Len(steps) = 1 /\ First(steps) \in Staging => First(steps) = "write-vivado-build-script"
           /\ First(steps) = "overlay" => next = "synth"
           /\ First(steps) = "synth" => next = "impl"
           /\ First(steps) = "impl" => next = "reports"
           /\ First(steps) = "reports" => next = "built"
           /\ First(steps) = "built" => next = "idle"
  <1>1. CASE steps = <<"write-vivado-build-script">>
    BY <1>1 DEF OverlayPlans, First, Staging
  <1>2. CASE steps = <<"write-dau-manifest", "write-vivado-build-script">>
    BY <1>2 DEF OverlayPlans, First, Staging
  <1>3. CASE steps = <<"write-dau-overlay", "write-dau-manifest", "write-vivado-build-script">>
    BY <1>3 DEF OverlayPlans, First, Staging
  <1>4. CASE steps = <<"stage-shell", "write-dau-overlay", "write-dau-manifest",
                       "write-vivado-build-script">>
    BY <1>4 DEF OverlayPlans, First, Staging
  <1>5. CASE steps = <<"built">>
    BY <1>5 DEF OverlayPlans, First, Staging
  <1>6. CASE steps = <<"reports", "built">>
    BY <1>6 DEF OverlayPlans, First, Staging
  <1>7. CASE steps = <<"impl", "reports", "built">>
    BY <1>7 DEF OverlayPlans, First, Staging
  <1>8. CASE steps = <<"synth", "impl", "reports", "built">>
    BY <1>8 DEF OverlayPlans, First, Staging
  <1>9. CASE steps = <<"overlay", "synth", "impl", "reports", "built">>
    BY <1>9 DEF OverlayPlans, First, Staging
  <1> QED  BY <1>1, <1>2, <1>3, <1>4, <1>5, <1>6, <1>7, <1>8, <1>9 DEF OverlayPlans

\* The manifest is there and names this version.
Names(version) == file["manifest"] \in Manifests /\ file["manifest"].of = version

\* The status line is of the bitstream that is there.
StatusIsTrue ==
    StatusIs("built") /\ bitstream # 0 => IsOf(bitstream, file["manifest"].of)

OverlayTask(s) ==
    LET now == First(task[s].steps)
        b == task[s].build
    IN
    /\ IsTask(task[s])
    /\ task[s].steps \in OverlayPlans
    /\ now \in Staging => staged = NoDesign /\ task[s].of \in Versions
    /\ now \in {"write-dau-manifest", "write-vivado-build-script"} => file["overlay"] = task[s].of
    /\ now = "write-vivado-build-script" => Names(task[s].of)
    /\ now = "synth" /\ staged # NoDesign => project = staged /\ ~StatusIs("built")
    /\ now \in {"impl", "reports", "built"} =>
         /\ b \in 1 .. Len(builds)
         /\ builds[b].clean => staged # NoDesign /\ builds[b].of = staged /\ ~StatusIs("built")
    /\ now \in {"reports", "built"} => bitstream = b

OverlayInv ==
    /\ RootInv
    /\ file = [f \in Files |-> file[f]]
    /\ file["manifest"] \in Manifests \union {NoFile, Empty}
    /\ project \in Designs \union {NoFile}
    /\ staged # NoDesign => staged \in Versions /\ file["overlay"] = staged /\ Names(staged)
    /\ StatusIsTrue
    /\ \A s \in Slots : OverlayTask(s)

LEMMA OverlayAssembled ==
    ASSUME NEW s \in Slots, OneTask, RootInv', file' = [f \in Files |-> file'[f]],
           file'["manifest"] \in Manifests \union {NoFile, Empty},
           project' \in Designs \union {NoFile},
           staged' # NoDesign => staged' \in Versions /\ file'["overlay"] = staged' /\ Names(staged)',
           StatusIsTrue', OverlayTask(s)'
    PROVE  OverlayInv'
  <1>1. \A t \in Slots : t = s
    BY DEF OneTask
  <1>2. \A t \in Slots : OverlayTask(t)'
    BY <1>1
  <1> QED  BY <1>2 DEF OverlayInv

LEMMA StatusStaysTrue ==
    ASSUME OverlayInv, Later, UNCHANGED file, bitstream' \in {bitstream, 0}
    PROVE  StatusIsTrue'
  <1>1. builds \in Seq(Build)
    BY DEF OverlayInv, RootInv
  <1>2. ASSUME StatusIs("built")', bitstream' # 0
        PROVE  IsOf(bitstream, file["manifest"].of)'
    <2>1. IsOf(bitstream, file["manifest"].of) /\ bitstream' = bitstream
      BY <1>2 DEF OverlayInv, StatusIsTrue, StatusIs
    <2> QED  BY <1>1, <2>1, StaysTrue
  <1> QED  BY <1>2 DEF StatusIsTrue

\* A step that fails: whatever it leaves, the status is true and a version
\* that is staged is there.
LEMMA OverlayFailureKeeps ==
    ASSUME NEW s \in Slots, OneTask, OverlayInv, Fails(s), Later,
           bitstream' \in 0 .. Len(builds'), PackagedIsTrue',
           file' = [f \in Files |-> file'[f]],
           file'["manifest"] \in Manifests \union {NoFile, Empty},
           project' \in Designs \union {NoFile},
           staged' # NoDesign => staged' \in Versions /\ file'["overlay"] = staged' /\ Names(staged)',
           StatusIsTrue'
    PROVE  OverlayInv'
  <1>1. DOMAIN task' = Slots /\ IsTask(task'[s]) /\ task'[s].steps = <<>>
    BY TaskEnds DEF OverlayInv, RootInv
  <1>2. RootInv'
    BY <1>1 DEF RootInv, Later
  <1>3. OverlayTask(s)'
    BY <1>1 DEF OverlayTask, First, OverlayPlans, Staging
  <1> QED  BY <1>2, <1>3, OverlayAssembled

\* Where a step leads, if it goes on.
LEMMA OverlayMoves ==
    ASSUME NEW s \in Slots, OverlayInv, GoesOn(s), NEW name, AtStep(s, name)
    PROVE  LET now == First(task'[s].steps) IN
           /\ DOMAIN task' = Slots /\ IsTask(task'[s]) /\ task'[s].steps \in OverlayPlans
           /\ name = "stage-shell" => now = "write-dau-overlay"
           /\ name = "write-dau-overlay" => now = "write-dau-manifest"
           /\ name = "write-dau-manifest" => now = "write-vivado-build-script"
           /\ name = "write-vivado-build-script" => now = "idle"
           /\ Len(task[s].steps) = 1 /\ name \in Staging => name = "write-vivado-build-script"
           /\ name = "overlay" => now = "synth"
           /\ name = "impl" => now = "reports"
           /\ name = "reports" => now = "built"
           /\ name = "built" => now = "idle"
           /\ now # "idle" => task'[s].build = task[s].build /\ task'[s].of = task[s].of
  <1>1. /\ DOMAIN task = Slots /\ IsTask(task[s]) /\ task[s].steps \in OverlayPlans
        /\ task[s].steps # <<>> /\ First(task[s].steps) = name
    BY AtItsStep DEF OverlayInv, RootInv, OverlayTask
  <1>2. PICK old \in OverlayPlans : old = task[s].steps /\ old # <<>> /\ First(old) = name
    BY <1>1
  <1>3. /\ DOMAIN task' = Slots /\ IsTask(task'[s]) /\ task'[s].steps = Tail(old)
        /\ task'[s].steps # <<>> => task'[s].build = task[s].build /\ task'[s].of = task[s].of
    BY <1>1, <1>2, TaskContinues
  <1>4. First(<<>>) = "idle"
    BY DEF First
  <1>5. /\ Tail(old) \in OverlayPlans
        /\ Len(old) = 1 /\ name \in Staging => name = "write-vivado-build-script"
    BY <1>2, OverlayGoesOn
  <1> QED  BY <1>2, <1>3, <1>4, <1>5, OverlayGoesOn

LEMMA Prepended ==
    ASSUME NEW a, NEW b, NEW c, NEW d
    PROVE  <<a>> \o <<b, c, d>> = <<a, b, c, d>>
  <1>1. PICK S : a \in S /\ b \in S /\ c \in S /\ d \in S
    <2>1. a \in {a, b, c, d} /\ b \in {a, b, c, d} /\ c \in {a, b, c, d} /\ d \in {a, b, c, d}
      OBVIOUS
    <2> QED  BY <2>1
  <1>2. PICK u, v : u = <<a>> /\ v = <<b, c, d>>
    OBVIOUS
  <1>3. u \in Seq(S) /\ Len(u) = 1 /\ u[1] = a
    BY <1>1, <1>2
  <1>4. v \in Seq(S) /\ Len(v) = 3 /\ v[1] = b /\ v[2] = c /\ v[3] = d
    BY <1>1, <1>2
  <1>5. PICK w : w = u \o v
    OBVIOUS
  <1>6. /\ w \in Seq(S) /\ Len(w) = 4
        /\ w[1] = u[1] /\ w[2] = v[1] /\ w[3] = v[2] /\ w[4] = v[3]
    <2>1. /\ w \in Seq(S) /\ Len(w) = Len(u) + Len(v)
          /\ \A i \in 1 .. Len(u) : w[i] = u[i]
          /\ \A i \in 1 .. Len(v) : w[Len(u) + i] = v[i]
      <3>1. u \in Seq(S) /\ v \in Seq(S)
        BY <1>3, <1>4
      <3> QED  BY <3>1, <1>5
    <2>2. w[1 + 1] = v[1] /\ w[1 + 2] = v[2] /\ w[1 + 3] = v[3]
      BY <1>3, <1>4, <2>1
    <2> QED  BY <1>3, <1>4, <2>1, <2>2
  <1>7. w = <<a, b, c, d>>
    BY <1>3, <1>4, <1>6
  <1> QED  BY <1>2, <1>5, <1>7

LEMMA StageKeeps ==
    ASSUME NEW s \in Slots, OneTask, OverlayInv, Stage(s)
    PROVE  OverlayInv'
  <1>1. PICK version \in Versions, seed \in BOOLEAN :
          Start(s, (IF seed THEN <<"stage-shell">> ELSE <<>>) \o StageSteps, version)
    BY DEF Stage
  <1>2. staged' = NoDesign /\ UNCHANGED <<builds, bitstream, packaged, file, project>>
    BY DEF Stage
  <1>3. PICK steps : steps = (IF seed THEN <<"stage-shell">> ELSE <<>>) \o StageSteps
    OBVIOUS
  <1>4. steps \in OverlayPlans /\ First(steps) \in {"stage-shell", "write-dau-overlay"}
    <2>1. CASE seed
      <3>1. steps = <<"stage-shell">>
                       \o <<"write-dau-overlay", "write-dau-manifest", "write-vivado-build-script">>
        BY <1>3, <2>1 DEF StageSteps
      <3>2. steps = <<"stage-shell", "write-dau-overlay", "write-dau-manifest",
                      "write-vivado-build-script">>
        BY <3>1, Prepended
      <3> QED  BY <3>2 DEF OverlayPlans, First
    <2>2. CASE ~seed
      <3>1. steps = <<"write-dau-overlay", "write-dau-manifest", "write-vivado-build-script">>
        BY <1>3, <2>2 DEF StageSteps
      <3> QED  BY <3>1 DEF OverlayPlans, First
    <2> QED  BY <2>1, <2>2
  <1>5. DOMAIN task' = Slots /\ IsTask(task'[s]) /\ task'[s].steps = steps /\ task'[s].of = version
    BY <1>1, <1>3, TaskStarts DEF OverlayInv, RootInv
  <1>6. Later /\ RootInv
    BY <1>2, SameBuilds DEF OverlayInv, RootInv
  <1>7. RootInv'
    BY <1>2, <1>5, <1>6, PackageStaysTrue DEF RootInv
  <1>8. StatusIsTrue'
    BY <1>2, <1>6, StatusStaysTrue
  <1>9. OverlayTask(s)'
    BY <1>1, <1>2, <1>4, <1>5 DEF OverlayTask, Staging
  <1> QED  BY <1>2, <1>7, <1>8, <1>9, OverlayAssembled DEF OverlayInv

LEMMA StageShellKeeps ==
    ASSUME NEW s \in Slots, OneTask, OverlayInv, StageShell(s)
    PROVE  OverlayInv'
  <1>1. /\ AtStep(s, "stage-shell") /\ GoesOn(s) /\ UNCHANGED <<builds, staged>>
        /\ file' = [f \in Files |-> NoFile] /\ bitstream' = 0 /\ packaged' = NoFile
        /\ project' = NoDesign
    BY DEF StageShell
  <1>2. /\ DOMAIN task' = Slots /\ IsTask(task'[s]) /\ task'[s].steps \in OverlayPlans
        /\ First(task'[s].steps) = "write-dau-overlay" /\ task'[s].of = task[s].of
    BY <1>1, OverlayMoves
  <1>3. staged = NoDesign /\ task[s].of \in Versions
    BY <1>1, AtItsStep DEF OverlayInv, OverlayTask, Staging
  <1>4. Later /\ RootInv
    BY <1>1, SameBuilds DEF OverlayInv, RootInv
  <1>5. RootInv'
    BY <1>1, <1>2, <1>4, PackageStaysTrue, BitstreamStays DEF RootInv, Later
  <1>6. file'["manifest"] = NoFile
    BY <1>1 DEF Files
  <1>7. StatusIsTrue'
    BY <1>1 DEF StatusIsTrue
  <1>8. OverlayTask(s)'
    BY <1>1, <1>2, <1>3 DEF OverlayTask, Staging
  <1> QED  BY <1>1, <1>3, <1>5, <1>6, <1>7, <1>8, OverlayAssembled DEF Designs

LEMMA StageShellFailsKeeps ==
    ASSUME NEW s \in Slots, OneTask, OverlayInv, StageShellFails(s)
    PROVE  OverlayInv'
  <1>1. /\ AtStep(s, "stage-shell") /\ Fails(s) /\ UNCHANGED <<builds, staged>>
        /\ bitstream' \in {bitstream, 0} /\ packaged' \in {packaged, NoFile}
        /\ project' \in {project, NoDesign}
    BY DEF StageShellFails
  <1>2. PICK gone \in Interrupted : file' = [f \in Files |-> IF f \in gone THEN NoFile ELSE file[f]]
    BY DEF StageShellFails
  <1>3. staged = NoDesign
    BY <1>1, AtItsStep DEF OverlayInv, OverlayTask, Staging
  <1>4. Later /\ RootInv
    BY <1>1, SameBuilds DEF OverlayInv, RootInv
  <1>5. bitstream' \in 0 .. Len(builds') /\ PackagedIsTrue'
    BY <1>1, <1>4, PackageStaysTrue, BitstreamStays
  <1>6. file'["manifest"] \in {file["manifest"], NoFile}
    BY <1>2 DEF Files
  <1>7. StatusIsTrue'
    <2>1. CASE file'["manifest"] = NoFile
      BY <2>1 DEF StatusIsTrue, StatusIs
    <2>2. CASE file'["manifest"] = file["manifest"]
      <3>1. ASSUME StatusIs("built")', bitstream' # 0
            PROVE  IsOf(bitstream, file["manifest"].of)'
        <4>1. IsOf(bitstream, file["manifest"].of) /\ bitstream' = bitstream
          BY <1>1, <2>2, <3>1 DEF OverlayInv, StatusIsTrue, StatusIs
        <4> QED  BY <1>1, <2>2, <4>1 DEF IsOf
      <3> QED  BY <3>1 DEF StatusIsTrue
    <2> QED  BY <1>6, <2>1, <2>2
  <1>8. /\ file'["manifest"] \in Manifests \union {NoFile, Empty}
        /\ project' \in Designs \union {NoFile}
        /\ file' = [f \in Files |-> file'[f]]
    BY <1>1, <1>2, <1>6 DEF OverlayInv, Designs
  <1> QED  BY <1>1, <1>3, <1>4, <1>5, <1>7, <1>8, OverlayFailureKeeps

\* A manifest is neither missing nor empty.
LEMMA ManifestIsThere ==
    ASSUME NEW m \in Manifests
    PROVE  m \notin {NoFile, Empty}
  BY FilesAssumption

LEMMA FileWith ==
    ASSUME OverlayInv, NEW f \in Files, NEW content, file' = [file EXCEPT ![f] = content]
    PROVE  /\ file' = [g \in Files |-> file'[g]]
           /\ file'[f] = content
           /\ \A g \in Files : g # f => file'[g] = file[g]
  BY DEF OverlayInv

LEMMA AppendedManifest ==
    ASSUME OverlayInv, NEW status \in {"planned", "built", "torn"}
    PROVE  /\ Appended(status) \in Manifests
           /\ Appended(status).status = status
           /\ \A version : Names(version) => Appended(status).of = version
  <1>1. CASE file["manifest"] \in {NoFile, Empty}
    <2>1. Appended(status) = [of |-> NoDesign, status |-> status]
      BY <1>1 DEF Appended
    <2>2. \A version : ~Names(version)
      BY <1>1, ManifestIsThere DEF Names
    <2> QED  BY <2>1, <2>2 DEF Manifests, Designs
  <1>2. CASE file["manifest"] \notin {NoFile, Empty}
    <2>1. PICK m \in Manifests : m = file["manifest"]
      BY <1>2 DEF OverlayInv
    <2>2. Appended(status) = [m EXCEPT !.status = status]
      BY <1>2, <2>1 DEF Appended
    <2>3. \A version : Names(version) => version = m.of
      BY <2>1 DEF Names
    <2> QED  BY <2>2, <2>3 DEF Manifests
  <1> QED  BY <1>1, <1>2

\* What a staging writes for a file.
LEMMA ContentIs ==
    ASSUME NEW version \in Versions
    PROVE  /\ FileOf("write-dau-overlay") = "overlay" /\ ContentOf("overlay", version) = version
           /\ FileOf("write-dau-manifest") = "manifest"
           /\ ContentOf("manifest", version) \in Manifests
           /\ ContentOf("manifest", version).of = version
           /\ ContentOf("manifest", version).status = "planned"
           /\ FileOf("write-vivado-build-script") = "build_tcl"
  <1>1. ContentOf("manifest", version) = [of |-> version, status |-> "planned"]
    BY DEF ContentOf
  <1>2. [of |-> version, status |-> "planned"] \in Manifests
    BY DEF Manifests, Designs
  <1> QED  BY <1>1, <1>2 DEF FileOf, ContentOf

LEMMA WriteStep ==
    ASSUME NEW name \in {StageSteps[i] : i \in DOMAIN StageSteps}
    PROVE  name \in {"write-dau-overlay", "write-dau-manifest", "write-vivado-build-script"}
           /\ FileOf(name) \in Files
  <1>1. name \in {"write-dau-overlay", "write-dau-manifest", "write-vivado-build-script"}
    BY DEF StageSteps
  <1> QED  BY <1>1 DEF FileOf, Files

LEMMA WriteKeeps ==
    ASSUME NEW s \in Slots, OneTask, OverlayInv, Write(s)
    PROVE  OverlayInv'
  <1>1. PICK name \in {StageSteps[i] : i \in DOMAIN StageSteps} :
          /\ AtStep(s, name) /\ GoesOn(s)
          /\ file' = [file EXCEPT ![FileOf(name)] = ContentOf(FileOf(name), task[s].of)]
          /\ staged' = IF Len(task[s].steps) = 1 THEN task[s].of ELSE staged
          /\ UNCHANGED <<builds, bitstream, packaged, project>>
    BY DEF Write
  <1>2. /\ name \in {"write-dau-overlay", "write-dau-manifest", "write-vivado-build-script"}
        /\ FileOf(name) \in Files /\ name \in Staging
    BY WriteStep DEF Staging
  <1>3. First(task[s].steps) = name /\ OverlayTask(s)
    BY <1>1, AtItsStep DEF OverlayInv
  <1>4. PICK version \in Versions : version = task[s].of
    BY <1>2, <1>3 DEF OverlayTask
  <1>5. staged = NoDesign
    BY <1>2, <1>3 DEF OverlayTask
  <1>6. PICK now : now = First(task'[s].steps)
    OBVIOUS
  <1>7. /\ DOMAIN task' = Slots /\ IsTask(task'[s]) /\ task'[s].steps \in OverlayPlans
        /\ name = "write-dau-overlay" => now = "write-dau-manifest"
        /\ name = "write-dau-manifest" => now = "write-vivado-build-script"
        /\ name = "write-vivado-build-script" => now = "idle"
        /\ Len(task[s].steps) = 1 => name = "write-vivado-build-script"
        /\ now # "idle" => task'[s].of = version
    BY <1>1, <1>2, <1>4, <1>6, OverlayMoves
  <1>8. Later /\ RootInv
    BY <1>1, SameBuilds DEF OverlayInv, RootInv
  <1>9. RootInv'
    BY <1>1, <1>7, <1>8, PackageStaysTrue DEF RootInv
  <1>10. /\ file' = [g \in Files |-> file'[g]]
         /\ file'[FileOf(name)] = ContentOf(FileOf(name), version)
         /\ \A g \in Files : g # FileOf(name) => file'[g] = file[g]
    BY <1>1, <1>2, <1>4, FileWith
  <1>11. "overlay" \in Files /\ "manifest" \in Files /\ "build_tcl" \in Files
    BY DEF Files
  <1>12. CASE name = "write-dau-overlay"
    <2>1. file'["overlay"] = version /\ file'["manifest"] = file["manifest"]
      BY <1>10, <1>11, <1>12, ContentIs
    <2>2. staged' = NoDesign
      BY <1>1, <1>5, <1>7, <1>12
    <2>3. StatusIsTrue'
      BY <1>1, <1>8, <2>1 DEF OverlayInv, StatusIsTrue, StatusIs, IsOf
    <2>4. OverlayTask(s)'
      BY <1>6, <1>7, <1>12, <2>1, <2>2 DEF OverlayTask, Staging
    <2> QED  BY <1>1, <1>9, <1>10, <2>1, <2>2, <2>3, <2>4, OverlayAssembled DEF OverlayInv
  <1>13. CASE name = "write-dau-manifest"
    <2>1. /\ file'["overlay"] = file["overlay"] /\ file'["manifest"] \in Manifests
          /\ file'["manifest"].of = version /\ file'["manifest"].status = "planned"
      BY <1>10, <1>11, <1>13, ContentIs
    <2>2. staged' = NoDesign
      BY <1>1, <1>5, <1>7, <1>13
    <2>3. StatusIsTrue'
      BY <2>1 DEF StatusIsTrue, StatusIs
    <2>4. file["overlay"] = version
      BY <1>3, <1>4, <1>13 DEF OverlayTask
    <2>5. Names(version)'
      BY <2>1 DEF Names
    <2>6. OverlayTask(s)'
      BY <1>6, <1>7, <1>13, <2>1, <2>2, <2>4, <2>5 DEF OverlayTask, Staging
    <2> QED  BY <1>1, <1>9, <1>10, <2>1, <2>2, <2>3, <2>6, OverlayAssembled DEF OverlayInv
  <1>14. CASE name = "write-vivado-build-script"
    <2>1. file'["overlay"] = file["overlay"] /\ file'["manifest"] = file["manifest"]
      BY <1>10, <1>11, <1>14, ContentIs
    <2>2. file["overlay"] = version /\ Names(version)
      BY <1>3, <1>4, <1>14 DEF OverlayTask
    <2>3. staged' \in {version, NoDesign}
      BY <1>1, <1>4, <1>5
    <2>4. StatusIsTrue'
      BY <1>1, <1>8, <2>1 DEF OverlayInv, StatusIsTrue, StatusIs, IsOf
    <2>5. OverlayTask(s)'
      BY <1>6, <1>7, <1>14 DEF OverlayTask, Staging
    <2>6. staged' # NoDesign => staged' \in Versions /\ file'["overlay"] = staged' /\ Names(staged)'
      BY <2>1, <2>2, <2>3 DEF Names
    <2> QED  BY <1>1, <1>9, <1>10, <2>1, <2>4, <2>5, <2>6, OverlayAssembled DEF OverlayInv
  <1> QED  BY <1>2, <1>12, <1>13, <1>14

LEMMA WriteFailsKeeps ==
    ASSUME NEW s \in Slots, OneTask, OverlayInv, WriteFails(s)
    PROVE  OverlayInv'
  <1>1. PICK name \in {StageSteps[i] : i \in DOMAIN StageSteps} :
          /\ AtStep(s, name) /\ Fails(s)
          /\ \E content \in Torn(file[FileOf(name)], ContentOf(FileOf(name), task[s].of)) :
                file' = [file EXCEPT ![FileOf(name)] = content]
          /\ UNCHANGED <<builds, bitstream, packaged, project, staged>>
    BY DEF WriteFails
  <1>2. /\ name \in {"write-dau-overlay", "write-dau-manifest", "write-vivado-build-script"}
        /\ FileOf(name) \in Files /\ name \in Staging
    BY WriteStep DEF Staging
  <1>3. First(task[s].steps) = name /\ OverlayTask(s)
    BY <1>1, AtItsStep DEF OverlayInv
  <1>4. PICK version \in Versions : version = task[s].of
    BY <1>2, <1>3 DEF OverlayTask
  <1>5. staged = NoDesign
    BY <1>2, <1>3 DEF OverlayTask
  <1>6. PICK content \in {file[FileOf(name)], Empty, ContentOf(FileOf(name), version)} :
          file' = [file EXCEPT ![FileOf(name)] = content]
    BY <1>1, <1>4 DEF Torn
  <1>7. /\ file' = [g \in Files |-> file'[g]]
        /\ file'[FileOf(name)] = content
        /\ \A g \in Files : g # FileOf(name) => file'[g] = file[g]
    BY <1>2, <1>6, FileWith
  <1>8. Later /\ RootInv
    BY <1>1, SameBuilds DEF OverlayInv, RootInv
  <1>9. bitstream' \in 0 .. Len(builds') /\ PackagedIsTrue'
    BY <1>1, <1>8, PackageStaysTrue, BitstreamStays
  <1>10. "manifest" \in Files
    BY DEF Files
  <1>11. \/ file'["manifest"] = file["manifest"]
         \/ file'["manifest"] = Empty
         \/ file'["manifest"] \in Manifests /\ file'["manifest"].status = "planned"
    <2>1. CASE name = "write-dau-manifest"
      <3>1. FileOf(name) = "manifest"
        BY <1>4, <2>1, ContentIs
      <3> QED  BY <1>4, <1>6, <1>7, <3>1, ContentIs
    <2>2. CASE name # "write-dau-manifest"
      <3>1. FileOf(name) # "manifest"
        BY <1>2, <1>4, <2>2, ContentIs
      <3> QED  BY <1>7, <1>10, <3>1
    <2> QED  BY <2>1, <2>2
  <1>12. StatusIsTrue'
    BY <1>1, <1>11 DEF OverlayInv, StatusIsTrue, StatusIs, IsOf
  <1>13. file'["manifest"] \in Manifests \union {NoFile, Empty}
    BY <1>11 DEF OverlayInv
  <1> QED  BY <1>1, <1>5, <1>7, <1>8, <1>9, <1>12, <1>13, OverlayFailureKeeps DEF OverlayInv

--------------------------------------------------------------------------------
(* The build of a work root. *)

\* What an append to the manifest leaves: a version that is named stays named.
LEMMA Appends ==
    ASSUME OverlayInv, NEW status \in {"planned", "built", "torn"},
           file' = [file EXCEPT !["manifest"] = Appended(status)]
    PROVE  /\ file' = [g \in Files |-> file'[g]]
           /\ file'["manifest"] \in Manifests
           /\ file'["manifest"].status = status
           /\ file'["overlay"] = file["overlay"]
           /\ \A version : Names(version) => file'["manifest"].of = version
  <1>1. "manifest" \in Files /\ "overlay" \in Files /\ "overlay" # "manifest"
    BY DEF Files
  <1>2. PICK content : content = Appended(status)
    OBVIOUS
  <1>3. file' = [file EXCEPT !["manifest"] = content]
    BY <1>2
  <1>4. /\ file' = [g \in Files |-> file'[g]]
        /\ file'["manifest"] = content
        /\ file'["overlay"] = file["overlay"]
    BY <1>1, <1>3, FileWith
  <1> QED  BY <1>2, <1>4, AppendedManifest

\* A version that is staged is still there behind an append.
LEMMA StagedStays ==
    ASSUME OverlayInv, staged' = staged, file'["overlay"] = file["overlay"],
           file'["manifest"] \in Manifests,
           \A version : Names(version) => file'["manifest"].of = version
    PROVE  staged' # NoDesign => staged' \in Versions /\ file'["overlay"] = staged' /\ Names(staged)'
  BY DEF OverlayInv, Names

LEMMA BuildOverlayKeeps ==
    ASSUME NEW s \in Slots, OneTask, OverlayInv, BuildOverlay(s)
    PROVE  OverlayInv'
  <1>1. Start(s, BuildSteps, NoDesign) /\ UNCHANGED <<builds, bitstream, packaged>>
        /\ UNCHANGED <<file, project, staged>>
    BY DEF BuildOverlay, overlayVars
  <1>2. DOMAIN task' = Slots /\ IsTask(task'[s]) /\ task'[s].steps = BuildSteps
    BY <1>1, TaskStarts DEF OverlayInv, RootInv
  <1>3. BuildSteps \in OverlayPlans /\ First(BuildSteps) = "overlay"
    BY DEF BuildSteps, OverlayPlans, First
  <1>4. Later /\ RootInv
    BY <1>1, SameBuilds DEF OverlayInv, RootInv
  <1>5. RootInv'
    BY <1>1, <1>2, <1>4, PackageStaysTrue DEF RootInv
  <1>6. StatusIsTrue'
    BY <1>1, <1>4, StatusStaysTrue
  <1>7. OverlayTask(s)'
    BY <1>2, <1>3 DEF OverlayTask, Staging
  <1> QED  BY <1>1, <1>5, <1>6, <1>7, OverlayAssembled DEF OverlayInv, Names

LEMMA RunOverlayKeeps ==
    ASSUME NEW s \in Slots, OneTask, OverlayInv, RunOverlay(s)
    PROVE  OverlayInv'
  <1>1. /\ AtStep(s, "overlay") /\ GoesOn(s) /\ file["overlay"] \in Versions
        /\ project' = file["overlay"] /\ staged' = staged
        /\ file' = [file EXCEPT !["manifest"] = Appended("planned")]
        /\ UNCHANGED <<builds, bitstream, packaged>>
    BY DEF RunOverlay, Overlaid
  <1>2. /\ DOMAIN task' = Slots /\ IsTask(task'[s]) /\ task'[s].steps \in OverlayPlans
        /\ First(task'[s].steps) = "synth"
    BY <1>1, OverlayMoves
  <1>3. /\ file' = [g \in Files |-> file'[g]]
        /\ file'["manifest"] \in Manifests
        /\ file'["manifest"].status = "planned"
        /\ file'["overlay"] = file["overlay"]
        /\ \A version : Names(version) => file'["manifest"].of = version
    BY <1>1, Appends
  <1>4. staged' # NoDesign => staged' \in Versions /\ file'["overlay"] = staged' /\ Names(staged)'
    BY <1>1, <1>3, StagedStays
  <1>5. Later /\ RootInv
    BY <1>1, SameBuilds DEF OverlayInv, RootInv
  <1>6. RootInv'
    BY <1>1, <1>2, <1>5, PackageStaysTrue DEF RootInv
  <1>7. ~StatusIs("built")'
    BY <1>3 DEF StatusIs
  <1>8. StatusIsTrue'
    BY <1>7 DEF StatusIsTrue
  <1>9. staged' # NoDesign => project' = staged'
    BY <1>1, <1>3, <1>4
  <1>10. OverlayTask(s)'
    BY <1>2, <1>7, <1>9 DEF OverlayTask, Staging
  <1>11. project' \in Designs \union {NoFile}
    BY <1>1 DEF Designs
  <1> QED  BY <1>3, <1>4, <1>6, <1>8, <1>10, <1>11, OverlayAssembled

\* An overlay script that is empty is not one that was staged to the end.
LEMMA RunEmptyOverlayKeeps ==
    ASSUME NEW s \in Slots, OneTask, OverlayInv, RunEmptyOverlay(s)
    PROVE  OverlayInv'
  <1>1. /\ AtStep(s, "overlay") /\ GoesOn(s) /\ file["overlay"] = Empty
        /\ UNCHANGED <<builds, bitstream, packaged>> /\ UNCHANGED <<file, project, staged>>
    BY DEF RunEmptyOverlay, overlayVars
  <1>2. staged = NoDesign
    BY <1>1, FilesAssumption DEF OverlayInv, Designs
  <1>3. /\ DOMAIN task' = Slots /\ IsTask(task'[s]) /\ task'[s].steps \in OverlayPlans
        /\ First(task'[s].steps) = "synth"
    BY <1>1, OverlayMoves
  <1>4. Later /\ RootInv
    BY <1>1, SameBuilds DEF OverlayInv, RootInv
  <1>5. RootInv'
    BY <1>1, <1>3, <1>4, PackageStaysTrue DEF RootInv
  <1>6. StatusIsTrue'
    BY <1>1, <1>4, StatusStaysTrue
  <1>7. OverlayTask(s)'
    BY <1>1, <1>2, <1>3 DEF OverlayTask, Staging
  <1> QED  BY <1>1, <1>2, <1>5, <1>6, <1>7, OverlayAssembled DEF OverlayInv

LEMMA RunOverlayFailsKeeps ==
    ASSUME NEW s \in Slots, OneTask, OverlayInv, RunOverlayFails(s)
    PROVE  OverlayInv'
  <1>1. /\ AtStep(s, "overlay") /\ Fails(s) /\ UNCHANGED <<builds, bitstream, packaged, staged>>
    BY DEF RunOverlayFails
  <1>2. project' \in Designs \union {NoFile}
    <2>1. CASE file["overlay"] \in Versions /\ project # NoFile
      <3>1. project' \in {project, NoDesign, file["overlay"]}
        BY <2>1 DEF RunOverlayFails
      <3> QED  BY <2>1, <3>1 DEF OverlayInv, Designs
    <2>2. CASE ~(file["overlay"] \in Versions /\ project # NoFile)
      <3>1. project' = project
        BY <2>2 DEF RunOverlayFails
      <3> QED  BY <3>1 DEF OverlayInv
    <2> QED  BY <2>1, <2>2
  <1>3. \/ file' = file
        \/ file' = [file EXCEPT !["manifest"] = Appended("planned")]
        \/ file' = [file EXCEPT !["manifest"] = Appended("torn")]
    BY DEF RunOverlayFails, Overlaid
  <1>4. Later /\ RootInv
    BY <1>1, SameBuilds DEF OverlayInv, RootInv
  <1>5. bitstream' \in 0 .. Len(builds') /\ PackagedIsTrue'
    BY <1>1, <1>4, PackageStaysTrue, BitstreamStays
  <1>6. CASE file' = file
    <2>1. StatusIsTrue'
      BY <1>1, <1>4, <1>6, StatusStaysTrue
    <2>2. staged' # NoDesign => staged' \in Versions /\ file'["overlay"] = staged' /\ Names(staged)'
      BY <1>1, <1>6 DEF OverlayInv, Names
    <2>3. file' = [f \in Files |-> file'[f]] /\ file'["manifest"] \in Manifests \union {NoFile, Empty}
      BY <1>6 DEF OverlayInv
    <2> QED  BY <1>1, <1>2, <1>4, <1>5, <2>1, <2>2, <2>3, OverlayFailureKeeps
  <1>7. ASSUME NEW status \in {"planned", "torn"},
               file' = [file EXCEPT !["manifest"] = Appended(status)]
        PROVE  OverlayInv'
    <2>1. /\ file' = [g \in Files |-> file'[g]]
          /\ file'["manifest"] \in Manifests
          /\ file'["manifest"].status = status
          /\ file'["overlay"] = file["overlay"]
          /\ \A version : Names(version) => file'["manifest"].of = version
      BY <1>7, Appends
    <2>2. staged' # NoDesign => staged' \in Versions /\ file'["overlay"] = staged' /\ Names(staged)'
      BY <1>1, <2>1, StagedStays
    <2>3. StatusIsTrue'
      BY <2>1 DEF StatusIsTrue, StatusIs
    <2> QED  BY <1>1, <1>2, <1>4, <1>5, <2>1, <2>2, <2>3, OverlayFailureKeeps
  <1> QED  BY <1>3, <1>6, <1>7

LEMMA SynthKeeps ==
    ASSUME NEW s \in Slots, OneTask, OverlayInv, Synth(s)
    PROVE  OverlayInv'
  <1>1. /\ AtStep(s, "synth") /\ Synthesises(s, project, staged # NoDesign)
        /\ UNCHANGED <<bitstream, packaged>> /\ UNCHANGED <<file, project, staged>>
    BY DEF Synth, overlayVars
  <1>2. PICK clean \in BOOLEAN : clean = (staged # NoDesign)
    OBVIOUS
  <1>3. Synthesises(s, project, clean)
    BY <1>1, <1>2, Zenon
  <1>4. RootInv /\ project \in Designs \union {NoFile}
    BY DEF OverlayInv
  <1>5. /\ Later /\ DOMAIN task' = Slots
        /\ task'[s].steps = Tail(task[s].steps)
        /\ task'[s].build \in 1 .. Len(builds')
        /\ builds'[task'[s].build].of = project /\ builds'[task'[s].build].clean = clean
        /\ IsTask(task'[s])
    BY <1>3, <1>4, Synthesised DEF IsTask
  <1>6. First(task[s].steps) = "synth" /\ task[s].steps # <<>> /\ OverlayTask(s)
    BY <1>1, AtItsStep DEF OverlayInv
  <1>7. PICK old \in OverlayPlans : old = task[s].steps
    BY <1>6 DEF OverlayTask
  <1>8. task'[s].steps \in OverlayPlans /\ First(task'[s].steps) = "impl"
    BY <1>5, <1>6, <1>7, OverlayGoesOn
  <1>9. RootInv'
    BY <1>1, <1>4, <1>5, PackageStaysTrue, BitstreamStays DEF RootInv, Later
  <1>10. StatusIsTrue'
    BY <1>1, <1>5, StatusStaysTrue
  <1>11. clean => staged # NoDesign /\ project = staged /\ ~StatusIs("built")
    BY <1>2, <1>6 DEF OverlayTask
  <1>12. StatusIs("built")' = StatusIs("built")
    BY <1>1 DEF StatusIs
  <1>13. builds'[task'[s].build].clean =>
           staged' # NoDesign /\ builds'[task'[s].build].of = staged' /\ ~StatusIs("built")'
    BY <1>1, <1>5, <1>11, <1>12
  <1>14. OverlayTask(s)'
    BY <1>5, <1>8, <1>13 DEF OverlayTask, Staging
  <1> QED  BY <1>1, <1>9, <1>10, <1>14, OverlayAssembled DEF OverlayInv, Names

LEMMA EmptyBuildKeeps ==
    ASSUME NEW s \in Slots, OneTask, OverlayInv, EmptyBuild(s)
    PROVE  OverlayInv'
  <1>1. Fails(s) /\ UNCHANGED <<builds, bitstream, packaged>> /\ UNCHANGED <<file, project, staged>>
    BY DEF EmptyBuild, Fails, overlayVars
  <1>2. Later /\ RootInv
    BY <1>1, SameBuilds DEF OverlayInv, RootInv
  <1>3. bitstream' \in 0 .. Len(builds') /\ PackagedIsTrue' /\ StatusIsTrue'
    BY <1>1, <1>2, PackageStaysTrue, BitstreamStays, StatusStaysTrue
  <1> QED  BY <1>1, <1>2, <1>3, OverlayFailureKeeps DEF OverlayInv, Names

\* The build that a session is behind the synthesis of.
LEMMA BuildIs ==
    ASSUME NEW s \in Slots, OverlayInv, NEW name \in {"impl", "reports", "built"}, AtStep(s, name)
    PROVE  /\ task[s].build \in 1 .. Len(builds)
           /\ builds[task[s].build].clean =>
                staged # NoDesign /\ builds[task[s].build].of = staged /\ ~StatusIs("built")
           /\ name # "impl" => bitstream = task[s].build
  <1>1. First(task[s].steps) = name /\ OverlayTask(s)
    BY AtItsStep DEF OverlayInv
  <1> QED  BY <1>1 DEF OverlayTask

\* The implementation writes the bitstream of a build under a status that is
\* not "built", or of one that is not clean.
LEMMA StatusBehindImpl ==
    ASSUME NEW s \in Slots, OverlayInv, AtStep(s, "impl"), UNCHANGED <<builds, file>>,
           bitstream' = task[s].build
    PROVE  StatusIsTrue' /\ bitstream' \in 0 .. Len(builds')
  <1>1. PICK b : b = task[s].build
    OBVIOUS
  <1>2. b \in 1 .. Len(builds) /\ (builds[b].clean => ~StatusIs("built"))
    BY <1>1, BuildIs
  <1>3. StatusIs("built")' = StatusIs("built")
    BY DEF StatusIs
  <1>4. ASSUME StatusIs("built")'
        PROVE  IsOf(bitstream, file["manifest"].of)'
    BY <1>1, <1>2, <1>3, <1>4 DEF IsOf
  <1>5. bitstream' \in 0 .. Len(builds')
    <2>1. Len(builds) \in Nat
      BY DEF OverlayInv, RootInv
    <2> QED  BY <1>1, <1>2, <2>1
  <1> QED  BY <1>4, <1>5 DEF StatusIsTrue

\* The status that the last step of a session writes is of its own build.
LEMMA StatusBehindBuilt ==
    ASSUME NEW s \in Slots, OverlayInv, AtStep(s, "built"), IsBuilt(s), bitstream' = bitstream,
           file' = [file EXCEPT !["manifest"] = Appended("built")]
    PROVE  StatusIsTrue' /\ Later
  <1>1. PICK b : b = task[s].build
    OBVIOUS
  <1>2. /\ b \in 1 .. Len(builds) /\ bitstream = b
        /\ builds[b].clean => staged # NoDesign /\ builds[b].of = staged
    BY <1>1, BuildIs
  <1>3. /\ Later /\ builds'[b].built /\ builds'[b].of = builds[b].of
        /\ builds'[b].clean = builds[b].clean /\ Len(builds') = Len(builds)
    BY <1>1, <1>2, Finished DEF OverlayInv
  <1>4. \A version : Names(version) => file'["manifest"].of = version
    BY Appends
  <1>5. builds[b].clean => file'["manifest"].of = builds[b].of
    BY <1>2, <1>4 DEF OverlayInv
  <1>6. IsOf(bitstream, file["manifest"].of)'
    BY <1>2, <1>3, <1>5 DEF IsOf
  <1> QED  BY <1>3, <1>6 DEF StatusIsTrue

\* Reports are beside what is told apart.
LEMMA ReportsAreBeside ==
    ASSUME OverlayInv, file' \in {file, [file EXCEPT !["reports"] = Written]}
    PROVE  /\ file' = [f \in Files |-> file'[f]]
           /\ file'["manifest"] = file["manifest"] /\ file'["overlay"] = file["overlay"]
  <1>1. "reports" \in Files /\ "manifest" \in Files /\ "overlay" \in Files
        /\ "reports" # "manifest" /\ "reports" # "overlay"
    BY DEF Files
  <1>2. CASE file' = file
    BY <1>2 DEF OverlayInv
  <1>3. CASE file' = [file EXCEPT !["reports"] = Written]
    BY <1>1, <1>3, FileWith
  <1> QED  BY <1>2, <1>3

LEMMA ImplKeeps ==
    ASSUME NEW s \in Slots, OneTask, OverlayInv, Impl(s)
    PROVE  OverlayInv'
  <1>1. /\ AtStep(s, "impl") /\ GoesOn(s) /\ bitstream' = task[s].build
        /\ UNCHANGED <<builds, packaged>> /\ UNCHANGED <<file, project, staged>>
    BY DEF Impl, overlayVars
  <1>2. /\ DOMAIN task' = Slots /\ IsTask(task'[s]) /\ task'[s].steps \in OverlayPlans
        /\ First(task'[s].steps) = "reports" /\ task'[s].build = task[s].build
    BY <1>1, OverlayMoves
  <1>3. StatusIsTrue' /\ bitstream' \in 0 .. Len(builds')
    BY <1>1, StatusBehindImpl
  <1>4. Later /\ RootInv
    BY <1>1, SameBuilds DEF OverlayInv, RootInv
  <1>5. RootInv'
    BY <1>1, <1>2, <1>3, <1>4, PackageStaysTrue DEF RootInv
  <1>6. /\ task[s].build \in 1 .. Len(builds)
        /\ builds[task[s].build].clean =>
             staged # NoDesign /\ builds[task[s].build].of = staged /\ ~StatusIs("built")
    BY <1>1, BuildIs
  <1>7. StatusIs("built")' = StatusIs("built")
    BY <1>1 DEF StatusIs
  <1>8. OverlayTask(s)'
    BY <1>1, <1>2, <1>6, <1>7 DEF OverlayTask, Staging
  <1> QED  BY <1>1, <1>3, <1>5, <1>8, OverlayAssembled DEF OverlayInv, Names

LEMMA ReportsKeeps ==
    ASSUME NEW s \in Slots, OneTask, OverlayInv, Reports(s)
    PROVE  OverlayInv'
  <1>1. /\ AtStep(s, "reports") /\ GoesOn(s) /\ file' = [file EXCEPT !["reports"] = Written]
        /\ UNCHANGED <<builds, bitstream, packaged, project, staged>>
    BY DEF Reports
  <1>2. /\ DOMAIN task' = Slots /\ IsTask(task'[s]) /\ task'[s].steps \in OverlayPlans
        /\ First(task'[s].steps) = "built" /\ task'[s].build = task[s].build
    BY <1>1, OverlayMoves
  <1>3. /\ file' = [f \in Files |-> file'[f]]
        /\ file'["manifest"] = file["manifest"] /\ file'["overlay"] = file["overlay"]
    BY <1>1, ReportsAreBeside
  <1>4. Later /\ RootInv
    BY <1>1, SameBuilds DEF OverlayInv, RootInv
  <1>5. RootInv'
    BY <1>1, <1>2, <1>4, PackageStaysTrue DEF RootInv
  <1>6. /\ task[s].build \in 1 .. Len(builds) /\ bitstream = task[s].build
        /\ builds[task[s].build].clean =>
             staged # NoDesign /\ builds[task[s].build].of = staged /\ ~StatusIs("built")
    BY <1>1, BuildIs
  <1>7. StatusIs("built")' = StatusIs("built")
    BY <1>3 DEF StatusIs
  <1>8. StatusIsTrue'
    BY <1>1, <1>3, <1>7 DEF OverlayInv, StatusIsTrue, IsOf
  <1>9. OverlayTask(s)'
    BY <1>1, <1>2, <1>6, <1>7 DEF OverlayTask, Staging
  <1> QED  BY <1>1, <1>3, <1>5, <1>8, <1>9, OverlayAssembled DEF OverlayInv, Names

LEMMA BuiltKeeps ==
    ASSUME NEW s \in Slots, OneTask, OverlayInv, Built(s)
    PROVE  OverlayInv'
  <1>1. /\ AtStep(s, "built") /\ GoesOn(s) /\ IsBuilt(s)
        /\ file' = [file EXCEPT !["manifest"] = Appended("built")]
        /\ UNCHANGED <<bitstream, packaged, project, staged>>
    BY DEF Built
  <1>2. /\ DOMAIN task' = Slots /\ IsTask(task'[s]) /\ task'[s].steps \in OverlayPlans
        /\ First(task'[s].steps) = "idle"
    BY <1>1, OverlayMoves
  <1>3. StatusIsTrue' /\ Later /\ RootInv
    BY <1>1, StatusBehindBuilt DEF OverlayInv
  <1>4. RootInv'
    BY <1>1, <1>2, <1>3, PackageStaysTrue, BitstreamStays DEF RootInv, Later
  <1>5. /\ file' = [g \in Files |-> file'[g]]
        /\ file'["manifest"] \in Manifests
        /\ staged' # NoDesign => staged' \in Versions /\ file'["overlay"] = staged' /\ Names(staged)'
    BY <1>1, Appends, StagedStays
  <1>6. OverlayTask(s)'
    BY <1>2 DEF OverlayTask, Staging
  <1> QED  BY <1>1, <1>3, <1>4, <1>5, <1>6, OverlayAssembled DEF OverlayInv

LEMMA BuildFailsKeeps ==
    ASSUME NEW s \in Slots, OneTask, OverlayInv, BuildFails(s)
    PROVE  OverlayInv'
  <1>1. Fails(s) /\ UNCHANGED <<packaged, project, staged>> /\ RootInv
        /\ project' \in Designs \union {NoFile}
    BY DEF BuildFails, OverlayInv
  <1>2. ASSUME UNCHANGED <<builds, file>>, bitstream' \in {bitstream, 0}
        PROVE  OverlayInv'
    <2>1. Later
      BY <1>1, <1>2, SameBuilds DEF RootInv
    <2>2. bitstream' \in 0 .. Len(builds') /\ PackagedIsTrue' /\ StatusIsTrue'
      BY <1>1, <1>2, <2>1, PackageStaysTrue, BitstreamStays, StatusStaysTrue
    <2> QED  BY <1>1, <1>2, <2>1, <2>2, OverlayFailureKeeps DEF OverlayInv, Names
  <1>3. ASSUME AtStep(s, "impl"), UNCHANGED <<builds, file>>, bitstream' = task[s].build
        PROVE  OverlayInv'
    <2>1. Later
      BY <1>1, <1>3, SameBuilds DEF RootInv
    <2>2. bitstream' \in 0 .. Len(builds') /\ PackagedIsTrue' /\ StatusIsTrue'
      BY <1>1, <1>3, <2>1, PackageStaysTrue, StatusBehindImpl
    <2> QED  BY <1>1, <1>3, <2>1, <2>2, OverlayFailureKeeps DEF OverlayInv, Names
  <1>4. ASSUME UNCHANGED <<builds, bitstream>>,
               file' \in {file, [file EXCEPT !["reports"] = Written]}
        PROVE  OverlayInv'
    <2>1. Later
      BY <1>1, <1>4, SameBuilds DEF RootInv
    <2>2. /\ file' = [f \in Files |-> file'[f]]
          /\ file'["manifest"] = file["manifest"] /\ file'["overlay"] = file["overlay"]
      BY <1>4, ReportsAreBeside
    <2>3. bitstream' \in 0 .. Len(builds') /\ PackagedIsTrue'
      BY <1>1, <1>4, <2>1, PackageStaysTrue, BitstreamStays
    <2>4. StatusIsTrue'
      BY <1>4, <2>2 DEF OverlayInv, StatusIsTrue, StatusIs, IsOf
    <2> QED  BY <1>1, <2>1, <2>2, <2>3, <2>4, OverlayFailureKeeps DEF OverlayInv, Names
  <1>5. ASSUME AtStep(s, "built"), UNCHANGED bitstream, IsBuilt(s),
               file' = [file EXCEPT !["manifest"] = Appended("built")]
        PROVE  OverlayInv'
    <2>1. StatusIsTrue' /\ Later
      BY <1>5, StatusBehindBuilt
    <2>2. bitstream' \in 0 .. Len(builds') /\ PackagedIsTrue'
      BY <1>1, <1>5, <2>1, PackageStaysTrue, BitstreamStays
    <2>3. /\ file' = [g \in Files |-> file'[g]]
          /\ file'["manifest"] \in Manifests
          /\ staged' # NoDesign => staged' \in Versions /\ file'["overlay"] = staged' /\ Names(staged)'
      BY <1>1, <1>5, Appends, StagedStays
    <2> QED  BY <1>1, <2>1, <2>2, <2>3, OverlayFailureKeeps
  <1>6. ASSUME UNCHANGED <<builds, bitstream>>, file' = [file EXCEPT !["manifest"] = Appended("torn")]
        PROVE  OverlayInv'
    <2>1. Later
      BY <1>1, <1>6, SameBuilds DEF RootInv
    <2>2. bitstream' \in 0 .. Len(builds') /\ PackagedIsTrue'
      BY <1>1, <1>6, <2>1, PackageStaysTrue, BitstreamStays
    <2>3. /\ file' = [g \in Files |-> file'[g]]
          /\ file'["manifest"] \in Manifests /\ file'["manifest"].status = "torn"
          /\ staged' # NoDesign => staged' \in Versions /\ file'["overlay"] = staged' /\ Names(staged)'
      BY <1>1, <1>6, Appends, StagedStays
    <2>4. StatusIsTrue'
      BY <2>3 DEF StatusIsTrue, StatusIs
    <2> QED  BY <1>1, <2>1, <2>2, <2>3, <2>4, OverlayFailureKeeps
  <1> QED  BY <1>2, <1>3, <1>4, <1>5, <1>6 DEF BuildFails

\* What is packaged is what the status line is of.
LEMMA ValidateKeeps ==
    ASSUME NEW s \in Slots, OneTask, OverlayInv, Validate(s)
    PROVE  OverlayInv'
  <1>1. /\ ValidBundle /\ StatusIs("built")
        /\ packaged' \in {packaged, Empty, Packaged(file["manifest"].of)}
        /\ UNCHANGED <<builds, bitstream, task>> /\ UNCHANGED <<file, project, staged>>
    BY DEF Validate, Torn, overlayVars
  <1>2. IsOf(bitstream, file["manifest"].of)
    <2>1. bitstream # 0
      BY <1>1 DEF ValidBundle, StatusIs, Outputs
    <2> QED  BY <1>1, <2>1 DEF OverlayInv, StatusIsTrue
  <1>3. Later /\ RootInv
    BY <1>1, SameBuilds DEF OverlayInv, RootInv
  <1>4. PackagedIsTrue'
    <2>1. CASE packaged' \in {packaged, Empty}
      BY <1>3, <2>1, PackageStaysTrue
    <2>2. CASE packaged' = Packaged(file["manifest"].of)
      <3>1. packaged'.digest = bitstream /\ packaged'.of = file["manifest"].of
        BY <2>2 DEF Packaged
      <3> QED  BY <1>1, <1>2, <3>1 DEF PackagedIsTrue, IsOf
    <2> QED  BY <1>1, <2>1, <2>2
  <1>5. RootInv'
    BY <1>1, <1>3, <1>4 DEF RootInv
  <1>6. StatusIsTrue'
    BY <1>1, <1>3, StatusStaysTrue
  <1>7. OverlayTask(s)'
    BY <1>1 DEF OverlayInv, OverlayTask, StatusIs, Names, IsTask
  <1> QED  BY <1>1, <1>5, <1>6, <1>7, OverlayAssembled DEF OverlayInv, Names

LEMMA OverlayStep ==
    ASSUME OneTask, OverlayInv, OverlayNext
    PROVE  OverlayInv'
  <1>1. PICK s \in Slots :
          \/ Stage(s) \/ StageShell(s) \/ StageShellFails(s) \/ Write(s) \/ WriteFails(s)
          \/ BuildOverlay(s) \/ RunOverlay(s) \/ RunEmptyOverlay(s) \/ RunOverlayFails(s)
          \/ Synth(s) \/ EmptyBuild(s) \/ Impl(s) \/ Reports(s) \/ Built(s) \/ BuildFails(s)
          \/ Validate(s)
    BY DEF OverlayNext
  <1> QED  BY <1>1, StageKeeps, StageShellKeeps, StageShellFailsKeeps, WriteKeeps, WriteFailsKeeps,
              BuildOverlayKeeps, RunOverlayKeeps, RunEmptyOverlayKeeps, RunOverlayFailsKeeps,
              SynthKeeps, EmptyBuildKeeps, ImplKeeps, ReportsKeeps, BuiltKeeps, BuildFailsKeeps,
              ValidateKeeps

--------------------------------------------------------------------------------
(* A directory, of any kind. *)

DirectoryInv ==
    /\ kind \in {"overlay", "project", "cores"}
    /\ kind = "overlay" => OverlayInv
    /\ kind = "project" => ProjectInv
    /\ kind = "cores" => bitstream = 0

LEMMA DirectoryInit == Init => DirectoryInv
  <1> SUFFICES ASSUME Init PROVE DirectoryInv
    OBVIOUS
  <1>1. /\ kind \in {"overlay", "project", "cores"}
        /\ builds = <<>> /\ bitstream = 0 /\ packaged = NoFile /\ task = [s \in Slots |-> Idle]
        /\ file = [f \in Files |-> NoFile] /\ project = NoFile /\ staged = NoDesign
        /\ console = "nothing" /\ sources \in InUse("project")
    BY DEF Init, RootInit, OverlayInit, ProjectInit
  <1>2. RootInv
    BY <1>1 DEF RootInv, PackagedIsTrue
  <1>3. \A s \in Slots : IsTask(task[s]) /\ task[s].steps = <<>>
    <2>1. Idle = [steps |-> <<>>, of |-> NoDesign, build |-> 0]
      BY DEF Idle
    <2> QED  BY <1>1, <2>1, IsATask
  <1>4. file["manifest"] = NoFile
    BY <1>1 DEF Files
  <1>5. OverlayInv
    <2>1. StatusIsTrue
      BY <1>1 DEF StatusIsTrue
    <2>2. \A s \in Slots : OverlayTask(s)
      BY <1>3 DEF OverlayTask, First, OverlayPlans, Staging
    <2>3. file = [f \in Files |-> file[f]]
      BY <1>1
    <2> QED  BY <1>1, <1>2, <1>4, <2>1, <2>2, <2>3 DEF OverlayInv
  <1>6. ASSUME kind = "project" PROVE ProjectInv
    <2>1. sources \in Versions
      BY <1>1, <1>6 DEF InUse
    <2>2. \A s \in Slots : ProjectTask(s)
      BY <1>3 DEF ProjectTask, First, ProjectPlans
    <2> QED  BY <1>1, <1>2, <2>1, <2>2 DEF ProjectInv
  <1> QED  BY <1>1, <1>5, <1>6 DEF DirectoryInv

LEMMA CoresKeepBitstream ==
    ASSUME CoresNext
    PROVE  UNCHANGED <<bitstream, packaged>>
  BY DEF CoresNext, SynthesizeCores, RenderCores, RenderFails, StageCore, StageFails, VivadoReads,
     VivadoEnds, VivadoFailsUnseen, VivadoFails, ParseReports, ParseFails, CoreDone, EditHdl, NewProcess

LEMMA SameRoot ==
    ASSUME RootInv, UNCHANGED rootVars
    PROVE  RootInv'
  BY DEF RootInv, rootVars, PackagedIsTrue, IsOf

LEMMA SameOverlay ==
    ASSUME OverlayInv, UNCHANGED <<rootVars, overlayVars>>
    PROVE  OverlayInv'
  <1>1. UNCHANGED <<builds, bitstream, packaged, task>> /\ UNCHANGED <<file, project, staged>>
    BY DEF rootVars, overlayVars
  <1>2. RootInv'
    BY SameRoot DEF OverlayInv
  <1>3. StatusIsTrue' /\ StatusIs("built")' = StatusIs("built")
    BY <1>1 DEF OverlayInv, StatusIsTrue, StatusIs, IsOf
  <1>4. \A s \in Slots : OverlayTask(s)'
    BY <1>1, <1>3 DEF OverlayInv, OverlayTask, Names, IsTask
  <1> QED  BY <1>1, <1>2, <1>3, <1>4 DEF OverlayInv, Names

LEMMA SameProject ==
    ASSUME ProjectInv, UNCHANGED <<rootVars, projectVars, file>>
    PROVE  ProjectInv'
  <1>1. UNCHANGED <<builds, bitstream, packaged, task>> /\ UNCHANGED <<sources, console, board, loc>>
        /\ file' = file
    BY DEF rootVars, projectVars
  <1>2. RootInv'
    BY SameRoot DEF ProjectInv
  <1>3. LanesPlaced' = LanesPlaced
    BY <1>1, LanesStay
  <1>4. \A s \in Slots : ProjectTask(s)'
    BY <1>1, <1>3 DEF ProjectInv, ProjectTask, IsTask
  <1> QED  BY <1>1, <1>2, <1>3, <1>4 DEF ProjectInv

LEMMA DirectoryStep ==
    ASSUME OneTask
    PROVE  DirectoryInv /\ [Next]_vars => DirectoryInv'
  <1> SUFFICES ASSUME DirectoryInv, [Next]_vars PROVE DirectoryInv'
    OBVIOUS
  <1>1. CASE UNCHANGED vars
    <2>1. /\ UNCHANGED <<rootVars, overlayVars>> /\ UNCHANGED <<rootVars, projectVars, file>>
          /\ kind' = kind /\ bitstream' = bitstream
      BY <1>1 DEF vars, rootVars, overlayVars
    <2> QED  BY <2>1, SameOverlay, SameProject DEF DirectoryInv
  <1>2. CASE kind = "overlay" /\ OverlayNext /\ kind' = kind
    BY <1>2, OverlayStep DEF DirectoryInv
  <1>3. CASE kind = "project" /\ ProjectNext /\ UNCHANGED overlayVars /\ kind' = kind
    <2>1. UNCHANGED file
      BY <1>3 DEF overlayVars
    <2> QED  BY <1>3, <2>1, ProjectStep DEF DirectoryInv
  <1>4. CASE kind = "cores" /\ CoresNext /\ kind' = kind
    BY <1>4, CoresKeepBitstream DEF DirectoryInv
  <1> QED  BY <1>1, <1>2, <1>3, <1>4 DEF Next

LEMMA DirectoryInvHolds ==
    ASSUME OneTask
    PROVE  Spec => []DirectoryInv
  <1>1. DirectoryInv /\ [Next]_vars => DirectoryInv'
    BY DirectoryStep
  <1> QED  BY <1>1, DirectoryInit, PTL DEF Spec

\* The status line is of the bitstream, in a directory of any kind.
LEMMA StatusOfTheDirectory ==
    ASSUME DirectoryInv, BuiltManifest
    PROVE  IsOf(bitstream, file["manifest"].of)
  <1>1. StatusIs("built") /\ bitstream # 0
    BY DEF BuiltManifest, Outputs
  <1>2. kind # "cores"
    BY <1>1 DEF DirectoryInv
  <1>3. kind # "project"
    BY <1>1 DEF DirectoryInv, ProjectInv, StatusIs, Files
  <1> QED  BY <1>1, <1>2, <1>3 DEF DirectoryInv, OverlayInv, StatusIsTrue

(* A bitstream the flash task accepts by its packaged manifest is of a     *)
(* build that got to its end, and of the version the manifest names,       *)
(* whatever failed, was repeated or was staged anew in between             *)
(* (_bitstream_from_shell_build_manifest).                                 *)
THEOREM FlashedIsTheVersionPackaged ==
    ASSUME OneTask
    PROVE  Spec => []FlashedIsTrue
  <1>1. ASSUME DirectoryInv, FlashAccepts, builds[bitstream].clean
        PROVE  /\ builds[bitstream].of = packaged.of /\ builds[bitstream].built
               /\ BuiltManifest => file["manifest"].of = packaged.of
    <2>1. bitstream # 0 /\ packaged.digest = bitstream /\ packaged \notin {NoFile, Empty}
      BY <1>1 DEF FlashAccepts
    <2>2. RootInv
      BY <1>1, <2>1 DEF DirectoryInv, OverlayInv, ProjectInv
    <2>3. IsOf(bitstream, packaged.of)
      BY <2>1, <2>2 DEF RootInv, PackagedIsTrue
    <2>4. BuiltManifest => IsOf(bitstream, file["manifest"].of)
      BY <1>1, StatusOfTheDirectory
    <2> QED  BY <1>1, <2>3, <2>4 DEF IsOf
  <1>2. DirectoryInv => FlashedIsTrue
    BY <1>1 DEF FlashedIsTrue
  <1> QED  BY <1>2, DirectoryInvHolds, PTL

(* A key=value manifest that flash and smoke-test take for built is of the  *)
(* bitstream that is there.                                                 *)
THEOREM BuiltManifestIsOfTheBitstream ==
    ASSUME OneTask
    PROVE  Spec => []BuiltManifestIsTrue
  <1>1. DirectoryInv => BuiltManifestIsTrue
    BY StatusOfTheDirectory DEF BuiltManifestIsTrue, IsOf
  <1> QED  BY <1>1, DirectoryInvHolds, PTL

(* Once a version is staged nothing but a build of it is packaged.         *)
THEOREM NothingElseIsPackaged ==
    ASSUME OneTask
    PROVE  Spec => PackagesWhatIsStaged
  <1>1. ASSUME DirectoryInv, Next, kind = "overlay", staged # NoDesign, packaged' # packaged,
               packaged' \notin {NoFile, Empty}, builds[packaged'.digest].clean
        PROVE  packaged'.of = staged /\ builds[packaged'.digest].of = staged
    <2>1. OverlayInv /\ OverlayNext
      BY <1>1 DEF DirectoryInv, Next
    <2>2. PICK s \in Slots : Validate(s)
      BY <1>1, <2>1 DEF OverlayNext, Stage, StageShell, StageShellFails, Write, WriteFails,
         BuildOverlay, RunOverlay, RunEmptyOverlay, RunOverlayFails, Synth, EmptyBuild, Impl,
         Reports, Built, BuildFails
    <2>3. packaged' = Packaged(file["manifest"].of) /\ BuiltManifest
      BY <1>1, <2>2 DEF Validate, Torn, ValidBundle, BuiltManifest, StatusIs
    <2>4. packaged'.of = file["manifest"].of /\ packaged'.digest = bitstream
      BY <2>3 DEF Packaged
    <2>5. IsOf(bitstream, file["manifest"].of)
      BY <1>1, <2>3, StatusOfTheDirectory
    <2>6. file["manifest"].of = staged
      BY <1>1, <2>1 DEF OverlayInv, Names
    <2> QED  BY <1>1, <2>4, <2>5, <2>6 DEF IsOf
  <1>2. DirectoryInv /\ [Next]_vars =>
          [ kind = "overlay" /\ staged # NoDesign /\ packaged' # packaged
              /\ packaged' \notin {NoFile, Empty} /\ builds[packaged'.digest].clean
            => /\ packaged'.of = staged
               /\ builds[packaged'.digest].of = staged ]_vars
    BY <1>1
  <1> QED  BY <1>2, DirectoryInvHolds, PTL DEF Spec, PackagesWhatIsStaged

(* A project that says it is built has every lane on the site the board    *)
(* wants it on, wherever the IP and the router put it.                     *)
THEOREM BuiltLanesAreVerified ==
    ASSUME OneTask
    PROVE  Spec => []LanesAreVerified
  <1>1. DirectoryInv => LanesAreVerified
    BY DEF DirectoryInv, ProjectInv, LanesAreVerified, LanesPlaced, Placed
  <1> QED  BY <1>1, DirectoryInvHolds, PTL

------------------------------------------------------------------------------
(* What is reported of a core. *)

OneCorePerModule ==
    \A c, d \in Cores : registry[c].module = registry[d].module => c = d

CoreSteps ==
    [do : {"render", "stage", "run"}, core : Cores \union {NoCore}, of : DOMAIN request]

--------------------------------------------------------------------------------
(* The steps of a task. *)

\* All of them are of one request, and only the first may render.
IsPlan(steps) ==
    /\ steps \in Seq(CoreSteps)
    /\ \A i \in 1 .. Len(steps) : steps[i].do = "render" => i = 1
    /\ \A i \in 1 .. Len(steps) : steps[i].do # "render" => steps[i].core \in Cores
    /\ \A i, j \in 1 .. Len(steps) : steps[i].of = steps[j].of

\* A core that will be run is staged, or will be before.
IsStaged(steps, scripts) ==
    \A i \in 1 .. Len(steps) : steps[i].do = "run" =>
      \/ scripts[registry[steps[i].core].module] = Script(steps[i].core, steps[i].of)
      \/ \E j \in 1 .. Len(steps) :
           j < i /\ steps[j].do = "stage" /\ steps[j].core = steps[i].core

\* Behind its first step a task has rendered what it selects.
IsRendered(steps, files, points) ==
    steps # <<>> /\ steps[1].do # "render" =>
      \A g \in Selected(steps[1].of) \intersect Generated : files[g] = points

LEMMA TailIsPlan ==
    ASSUME NEW steps, IsPlan(steps), steps # <<>>
    PROVE  /\ IsPlan(Tail(steps))
           /\ Len(Tail(steps)) = Len(steps) - 1
           /\ \A i \in 1 .. Len(Tail(steps)) :
                /\ i + 1 \in 1 .. Len(steps)
                /\ Tail(steps)[i] = steps[i + 1]
                /\ Tail(steps)[i].do # "render"
                /\ Tail(steps)[i].of = steps[1].of
  <1>1. steps \in Seq(CoreSteps) /\ Len(steps) \in Nat /\ Len(steps) >= 1
    BY DEF IsPlan
  <1>2. /\ Tail(steps) \in Seq(CoreSteps)
        /\ Len(Tail(steps)) = Len(steps) - 1
        /\ \A i \in 1 .. Len(Tail(steps)) : Tail(steps)[i] = steps[i + 1]
    BY <1>1
  <1>3. \A i \in 1 .. Len(Tail(steps)) : i + 1 \in 1 .. Len(steps) /\ i + 1 # 1
    BY <1>1, <1>2
  <1>4. 1 \in 1 .. Len(steps)
    BY <1>1
  <1> QED  BY <1>1, <1>2, <1>3, <1>4 DEF IsPlan

LEMMA Concatenated ==
    ASSUME NEW S, NEW a \in S, NEW u \in Seq(S), NEW v \in Seq(S),
           NEW all, all = (<<a>> \o u) \o v
    PROVE  /\ all \in Seq(S)
           /\ Len(all) = 1 + Len(u) + Len(v)
           /\ all[1] = a
           /\ \A i \in 1 .. Len(u) : all[i + 1] = u[i]
           /\ \A i \in 1 .. Len(v) : all[1 + Len(u) + i] = v[i]
  <1>1. PICK front : front = <<a>> \o u
    OBVIOUS
  <1>2. /\ front \in Seq(S)
        /\ Len(front) = 1 + Len(u)
        /\ front[1] = a
        /\ \A i \in 1 .. Len(u) : front[i + 1] = u[i]
    BY <1>1
  <1>3. Len(u) \in Nat /\ Len(v) \in Nat
    OBVIOUS
  <1>4. all = front \o v
    BY <1>1
  <1>5. /\ all \in Seq(S)
        /\ Len(all) = Len(front) + Len(v)
        /\ \A i \in 1 .. Len(front) : all[i] = front[i]
        /\ \A i \in 1 .. Len(v) : all[Len(front) + i] = v[i]
    BY <1>2, <1>4
  <1> QED  BY <1>2, <1>3, <1>5

LEMMA StepsArePlan ==
    ASSUME NEW q \in DOMAIN request, Resolves(q)
    PROVE  /\ IsPlan(StepsOf(q)) /\ (\A scripts : IsStaged(StepsOf(q), scripts))
           /\ StepsOf(q) # <<>> /\ StepsOf(q)[1].do = "render"
  <1>1. PICK cores : cores = request[q].cores
    OBVIOUS
  <1>2. PICK n \in Nat : n = Len(cores) /\ DOMAIN cores = 1 .. n
    BY <1>1, RequestAssumption
  <1>3. \A i \in 1 .. n : cores[i] \in Cores
    BY <1>1, <1>2 DEF Resolves, Selected
  <1>4. PICK stages : stages = [i \in 1 .. n |-> [do |-> "stage", core |-> cores[i], of |-> q]]
    OBVIOUS
  <1>5. PICK runs : runs = [i \in 1 .. n |-> [do |-> "run", core |-> cores[i], of |-> q]]
    OBVIOUS
  <1>6. stages \in Seq(CoreSteps) /\ Len(stages) = n
    <2>1. \A i \in 1 .. n : [do |-> "stage", core |-> cores[i], of |-> q] \in CoreSteps
      BY <1>3 DEF CoreSteps
    <2> QED  BY <2>1, <1>4
  <1>7. runs \in Seq(CoreSteps) /\ Len(runs) = n
    <2>1. \A i \in 1 .. n : [do |-> "run", core |-> cores[i], of |-> q] \in CoreSteps
      BY <1>3 DEF CoreSteps
    <2> QED  BY <2>1, <1>5
  <1>8. <<>> \in Seq(CoreSteps) /\ Len(<<>>) = 0
    OBVIOUS
  <1>9. PICK u : u = IF request[q].do = "render" THEN <<>> ELSE stages
    OBVIOUS
  <1>10. PICK v : v = IF request[q].do = "synthesize" THEN runs ELSE <<>>
    OBVIOUS
  <1>11. PICK first \in CoreSteps : first = [do |-> "render", core |-> NoCore, of |-> q]
    BY DEF CoreSteps
  <1>12. StepsOf(q) = (<<first>> \o u) \o v
    BY <1>1, <1>11, <1>2, <1>4, <1>5, <1>9, <1>10 DEF StepsOf, CoreStep
  <1>13. /\ u \in Seq(CoreSteps) /\ Len(u) <= n
         /\ \A i \in 1 .. Len(u) : u[i].do = "stage" /\ u[i].core = cores[i] /\ u[i].of = q
    BY <1>4, <1>6, <1>8, <1>9
  <1>14. /\ v \in Seq(CoreSteps) /\ Len(v) <= n
         /\ v # <<>> => Len(u) = n
         /\ \A i \in 1 .. Len(v) : v[i].do = "run" /\ v[i].core = cores[i] /\ v[i].of = q
    BY <1>5, <1>6, <1>7, <1>8, <1>9, <1>10
  <1>15. first.do = "render" /\ first.of = q
    BY <1>11
  <1>16. PICK all : all = StepsOf(q)
    OBVIOUS
  <1>17. IsPlan(all) /\ (\A scripts : IsStaged(all, scripts)) /\ all # <<>> /\ all[1].do = "render"
    <2>1. all = (<<first>> \o u) \o v
      BY <1>12, <1>16
    <2>2. /\ all \in Seq(CoreSteps)
          /\ Len(all) = 1 + Len(u) + Len(v)
          /\ all[1] = first
          /\ \A i \in 1 .. Len(u) : all[i + 1] = u[i]
          /\ \A i \in 1 .. Len(v) : all[1 + Len(u) + i] = v[i]
      BY <2>1, <1>13, <1>14, Concatenated
    <2>3. Len(u) \in Nat /\ Len(v) \in Nat /\ Len(all) \in Nat
      BY <2>2, <1>13, <1>14
    <2>4. \A i \in 1 .. Len(all) :
            \/ i = 1
            \/ i - 1 \in 1 .. Len(u)
            \/ i - 1 - Len(u) \in 1 .. Len(v)
      BY <2>2, <2>3
    <2>5. ASSUME NEW i \in 1 .. Len(all), i - 1 \in 1 .. Len(u)
          PROVE  all[i].do = "stage" /\ all[i].core = cores[i - 1] /\ all[i].of = q /\ i - 1 \in 1 .. n
      <3>1. all[(i - 1) + 1] = u[i - 1]
        BY <2>5, <2>2
      <3>2. (i - 1) + 1 = i
        BY <2>3
      <3>3. u[i - 1].do = "stage" /\ u[i - 1].core = cores[i - 1] /\ u[i - 1].of = q
        BY <2>5, <1>13
      <3> QED  BY <3>1, <3>2, <3>3, <2>5, <2>3, <1>13
    <2>6. ASSUME NEW i \in 1 .. Len(all), i - 1 - Len(u) \in 1 .. Len(v)
          PROVE  /\ all[i].do = "run" /\ all[i].core = cores[i - 1 - Len(u)] /\ all[i].of = q
                 /\ i - 1 - Len(u) \in 1 .. n
      <3>1. all[1 + Len(u) + (i - 1 - Len(u))] = v[i - 1 - Len(u)]
        BY <2>6, <2>2
      <3>2. 1 + Len(u) + (i - 1 - Len(u)) = i
        BY <2>3
      <3>3. v[i - 1 - Len(u)].do = "run" /\ v[i - 1 - Len(u)].core = cores[i - 1 - Len(u)] /\ v[i - 1 - Len(u)].of = q
        BY <2>6, <1>14
      <3>4. i - 1 - Len(u) \in 1 .. n
        BY <2>6, <2>3, <1>14
      <3> QED  BY <3>1, <3>2, <3>3, <3>4
    <2>7. \A i \in 1 .. Len(all) :
            /\ all[i].of = q
            /\ all[i].do = "render" => i = 1
            /\ all[i].do # "render" => all[i].core \in Cores
      <3> TAKE i \in 1 .. Len(all)
      <3>1. CASE i = 1
        BY <3>1, <2>2, <1>15
      <3>2. CASE i - 1 \in 1 .. Len(u)
        BY <3>2, <2>5, <1>3
      <3>3. CASE i - 1 - Len(u) \in 1 .. Len(v)
        BY <3>3, <2>6, <1>3
      <3>4. i = 1 \/ i - 1 \in 1 .. Len(u) \/ i - 1 - Len(u) \in 1 .. Len(v)
        BY <2>4
      <3> QED  BY <3>1, <3>2, <3>3, <3>4
    <2>8. IsPlan(all)
      BY <2>2, <2>7 DEF IsPlan
    <2>9. (\A scripts : IsStaged(all, scripts))
      <3> SUFFICES ASSUME NEW scripts, NEW i \in 1 .. Len(all), all[i].do = "run"
                   PROVE  \E j \in 1 .. Len(all) :
                            j < i /\ all[j].do = "stage" /\ all[j].core = all[i].core
        BY DEF IsStaged
      <3>1. i - 1 - Len(u) \in 1 .. Len(v)
        <4>1. i # 1
          BY <2>2, <1>15
        <4>2. i - 1 \notin 1 .. Len(u)
          <5>1. ASSUME i - 1 \in 1 .. Len(u)  PROVE FALSE
            <6>1. all[i].do = "stage"
              BY <5>1, <2>5
            <6> QED  BY <6>1
          <5> QED  BY <5>1
        <4> QED  BY <4>1, <4>2, <2>4
      <3>2. PICK m \in 1 .. n : i = 1 + Len(u) + m /\ all[i].core = cores[m]
        <4>1. i - 1 - Len(u) \in 1 .. n /\ all[i].core = cores[i - 1 - Len(u)]
          BY <3>1, <2>6
        <4> QED  BY <4>1, <2>3
      <3>3. Len(u) = n
        BY <3>1, <1>14
      <3>4. m + 1 \in 1 .. Len(all) /\ m + 1 < i /\ m \in 1 .. Len(u)
        BY <3>2, <3>3, <2>2, <2>3
      <3>5. all[m + 1].do = "stage" /\ all[m + 1].core = cores[m]
        BY <3>4, <2>2, <1>13
      <3> QED  BY <3>2, <3>4, <3>5
    <2>10. all # <<>> /\ all[1].do = "render"
      <3>1. all[1].do = "render"
        BY <2>2, <1>15
      <3>2. Len(all) # 0
        BY <2>2, <2>3
      <3> QED  BY <3>1, <3>2
    <2> QED  BY <2>8, <2>9, <2>10
  <1> QED  BY <1>16, <1>17
--------------------------------------------------------------------------------
(* The inductive invariant. *)

CoreTask(s) ==
    /\ task[s] = [steps |-> task[s].steps, of |-> task[s].of, build |-> task[s].build]
    /\ IsPlan(task[s].steps)
    /\ IsStaged(task[s].steps, script)
    /\ IsRendered(task[s].steps, rendered, configured)

\* What Vivado has read is what was asked for.
ReadsWhatIsAsked(s) ==
    LET c == task[s].steps[1].core
        q == task[s].steps[1].of
        reading == run[s].reading
    IN
    /\ task[s].steps # <<>>
    /\ task[s].steps[1].do = "run"
    /\ reading.of = c /\ reading.clock = request[q].clock /\ reading.params = request[q].params[c]
    /\ \A g \in Selected(q) \intersect Generated \intersect DOMAIN reading.text :
         reading.text[g] = configured

\* The run that is on, and its report once it has ended.
IsRunning(s) ==
    LET c == task[s].steps[1].core IN
    /\ run[s] = [phase |-> run[s].phase, edited |-> run[s].edited, reading |-> run[s].reading]
    /\ ~run[s].edited => run[s].reading.text = Digest(c)
    /\ run[s].phase = "ended" => report[registry[c].module] = run[s].reading

IsReported(s) ==
    LET c == task[s].steps[1].core IN
    ~run[s].edited =>
      /\ run[s].measured_from = run[s].reading.text
      /\ run[s].matches = "no" /\ (\A p \in registry[c].points : p.clock # "any") =>
           run[s].reading.text # Stamp(c)
      /\ run[s].matches = "yes" /\ run[s].reading.text # Stamp(c) => ~run[s].stamp_matches

CoreRun(s) ==
    /\ run[s].phase \in {"none", "on", "ended", "reported"}
    /\ run[s].phase # "none" => ReadsWhatIsAsked(s)
    /\ run[s].phase \in {"on", "ended"} => IsRunning(s)
    /\ run[s].phase = "reported" => IsReported(s)

CoresInv ==
    /\ DOMAIN task = Slots /\ run = [s \in Slots |-> run[s]]
    /\ script = [m \in Modules |-> script[m]] /\ report = [m \in Modules |-> report[m]]
    /\ \A s \in Slots : CoreTask(s) /\ CoreRun(s)

LEMMA NothingRuns == NoRun.phase = "none"
  BY DEF NoRun

LEMMA IdleIsPlan == Idle.steps = <<>> /\ IsPlan(<<>>) /\ (\A a : IsStaged(<<>>, a)) /\ (\A a, b : IsRendered(<<>>, a, b))
  <1>1. <<>> \in Seq(CoreSteps) /\ Len(<<>>) = 0 /\ 1 .. 0 = {}
    OBVIOUS
  <1> QED  BY <1>1 DEF Idle, IsPlan, IsStaged, IsRendered

LEMMA EmptyPlan ==
    ASSUME NEW s \in Slots, task[s] = Idle
    PROVE  CoreTask(s)
  BY IdleIsPlan DEF CoreTask, Idle

LEMMA Ends ==
    ASSUME NEW s \in Slots, CoresInv, Fails(s)
    PROVE  DOMAIN task' = Slots /\ task'[s] = Idle /\ CoreTask(s)'
  <1>1. DOMAIN task' = Slots /\ task'[s] = Idle
    BY DEF Fails, CoresInv
  <1> QED  BY <1>1, IdleIsPlan DEF CoreTask, Idle

LEMMA TaskFields ==
    ASSUME NEW r, NEW a, NEW b, NEW c, r = [steps |-> a, of |-> b, build |-> c]
    PROVE  r.steps = a /\ r = [steps |-> r.steps, of |-> r.of, build |-> r.build]
  <1>1. r.steps = a /\ r.of = b /\ r.build = c
    OBVIOUS
  <1> QED  BY <1>1

LEMMA Continues ==
    ASSUME NEW s \in Slots, CoresInv, GoesOn(s), task[s].steps # <<>>
    PROVE  /\ DOMAIN task' = Slots
           /\ task'[s] = [steps |-> task'[s].steps, of |-> task'[s].of, build |-> task'[s].build]
           /\ task'[s].steps = Tail(task[s].steps)
  <1>1. /\ DOMAIN task = Slots
        /\ task[s] = [steps |-> task[s].steps, of |-> task[s].of, build |-> task[s].build]
    BY DEF CoresInv, CoreTask
  <1>2. PICK rest : rest = Tail(task[s].steps)
    OBVIOUS
  <1>3. /\ DOMAIN task' = Slots
        /\ task'[s] = IF rest = <<>> THEN Idle ELSE [task[s] EXCEPT !.steps = rest]
    <2>1. PICK next : next = IF rest = <<>> THEN Idle ELSE [task[s] EXCEPT !.steps = rest]
      OBVIOUS
    <2>2. task' = [task EXCEPT ![s] = next]
      BY <1>2, <2>1, Zenon DEF GoesOn
    <2> QED  BY <1>1, <2>1, <2>2
  <1>4. CASE rest = <<>>
    <2>1. task'[s] = [steps |-> rest, of |-> NoDesign, build |-> 0]
      BY <1>3, <1>4 DEF Idle
    <2> QED  BY <1>2, <1>3, <2>1, TaskFields
  <1>5. CASE rest # <<>>
    <2>1. task'[s] = [steps |-> rest, of |-> task[s].of, build |-> task[s].build]
      BY <1>1, <1>3, <1>5
    <2> QED  BY <1>2, <1>3, <2>1, TaskFields
  <1> QED  BY <1>4, <1>5

--------------------------------------------------------------------------------
(* The steps that move a task on or end it.                                *)

\* What stays of a plan behind its first step, if the scripts stay.
LEMMA PlanContinues ==
    ASSUME NEW s \in Slots, CoresInv, task[s].steps # <<>>, GoesOn(s),
           task[s].steps[1].do # "stage",
           UNCHANGED <<script, configured>>,
           \A g \in Selected(task[s].steps[1].of) \intersect Generated : rendered'[g] = configured
    PROVE  DOMAIN task' = Slots /\ CoreTask(s)'
  <1> PICK old : old = task[s].steps
    OBVIOUS
  <1> PICK new : new = Tail(old)
    OBVIOUS
  <1>1. IsPlan(old) /\ IsStaged(old, script) /\ old # <<>>
    BY DEF CoresInv, CoreTask
  <1>2. /\ DOMAIN task' = Slots /\ task'[s].steps = new
        /\ task'[s] = [steps |-> task'[s].steps, of |-> task'[s].of, build |-> task'[s].build]
    BY Continues
  <1>3. /\ IsPlan(new) /\ Len(new) = Len(old) - 1 /\ Len(old) \in Nat /\ new \in Seq(CoreSteps)
        /\ \A i \in 1 .. Len(new) :
             i + 1 \in 1 .. Len(old) /\ new[i] = old[i + 1] /\ new[i].of = old[1].of
    <2>1. Len(old) \in Nat /\ (IsPlan(new) => new \in Seq(CoreSteps))
      BY <1>1 DEF IsPlan
    <2> QED  BY <1>1, <2>1, TailIsPlan
  <1>4. IsStaged(new, script')
    <2> SUFFICES ASSUME NEW i \in 1 .. Len(new), new[i].do = "run",
                        script[registry[new[i].core].module] # Script(new[i].core, new[i].of)
                 PROVE  \E j \in 1 .. Len(new) :
                          j < i /\ new[j].do = "stage" /\ new[j].core = new[i].core
      BY DEF IsStaged
    <2>0. i + 1 \in 1 .. Len(old) /\ new[i] = old[i + 1]
      BY <1>3
    <2>1. PICK j \in 1 .. Len(old) : j < i + 1 /\ old[j].do = "stage" /\ old[j].core = new[i].core
      <3>1. \/ script[registry[old[i + 1].core].module] = Script(old[i + 1].core, old[i + 1].of)
            \/ \E j \in 1 .. Len(old) :
                 j < i + 1 /\ old[j].do = "stage" /\ old[j].core = old[i + 1].core
        <4>1. old[i + 1].do = "run"
          BY <2>0
        <4> QED  BY <1>1, <2>0, <4>1, Zenon DEF IsStaged
      <3> QED  BY <3>1, <2>0
    <2>2. j # 1
      BY <2>1
    <2>3. j - 1 \in 1 .. Len(new) /\ j - 1 < i /\ new[j - 1] = old[(j - 1) + 1] /\ (j - 1) + 1 = j
      BY <1>3, <2>1, <2>2
    <2> QED  BY <2>1, <2>3
  <1>5. IsRendered(new, rendered', configured')
    <2> SUFFICES ASSUME new # <<>>
                 PROVE  \A g \in Selected(new[1].of) \intersect Generated : rendered'[g] = configured'
      BY DEF IsRendered
    <2>1. 1 \in 1 .. Len(new)
      BY <1>3
    <2>2. new[1].of = old[1].of
      BY <1>3, <2>1
    <2> QED  BY <2>2
  <1>6. IsPlan(task'[s].steps)
    BY <1>2, <1>3
  <1>7. IsStaged(task'[s].steps, script')
    BY <1>2, <1>4
  <1>8. IsRendered(task'[s].steps, rendered', configured')
    BY <1>2, <1>5
  <1> QED  BY <1>2, <1>6, <1>7, <1>8 DEF CoreTask

--------------------------------------------------------------------------------
(* Every step keeps the invariant.                                         *)

LEMMA FirstStep ==
    ASSUME NEW s \in Slots, CoresInv, task[s].steps # <<>>
    PROVE  /\ Step(s) = task[s].steps[1]
           /\ Step(s) \in CoreSteps
           /\ Step(s).do # "render" => Step(s).core \in Cores
           /\ \A do : At(s, do) <=> Step(s).do = do
  <1>1. IsPlan(task[s].steps)
    BY DEF CoresInv, CoreTask
  <1>2. task[s].steps \in Seq(CoreSteps) /\ 1 \in 1 .. Len(task[s].steps)
    BY <1>1 DEF IsPlan
  <1>3. Step(s) = task[s].steps[1] /\ task[s].steps[1] \in CoreSteps
    BY <1>2 DEF Step
  <1>4. task[s].steps[1].do # "render" => task[s].steps[1].core \in Cores
    BY <1>1, <1>2 DEF IsPlan
  <1> QED  BY <1>3, <1>4 DEF At, Step

\* Only a task that runs Vivado has a run.
LEMMA OnlyRunsRun ==
    ASSUME NEW s \in Slots, CoresInv, task[s].steps = <<>> \/ task[s].steps[1].do # "run"
    PROVE  run[s].phase = "none"
  BY DEF CoresInv, CoreRun, ReadsWhatIsAsked

LEMMA NoRunIsRight ==
    ASSUME NEW s \in Slots, run'[s].phase = "none"
    PROVE  CoreRun(s)'
  BY DEF CoreRun

LEMMA SameTask ==
    ASSUME NEW s \in Slots, CoresInv, UNCHANGED <<task, script, rendered, configured>>
    PROVE  DOMAIN task' = Slots /\ CoreTask(s)'
  BY DEF CoresInv, CoreTask

LEMMA Assembled ==
    ASSUME NEW s \in Slots, CoresInv, OneTask,
           DOMAIN task' = Slots, CoreTask(s)', CoreRun(s)',
           run' = [t \in Slots |-> run'[t]],
           script' = [m \in Modules |-> script'[m]], report' = [m \in Modules |-> report'[m]]
    PROVE  CoresInv'
  <1>1. \A t \in Slots : t = s
    BY DEF OneTask
  <1>2. \A t \in Slots : CoreTask(t)' /\ CoreRun(t)'
    BY <1>1
  <1> QED  BY <1>2 DEF CoresInv

LEMMA SynthesizeCoresKeeps ==
    ASSUME NEW s \in Slots, CoresInv, OneTask, SynthesizeCores(s)
    PROVE  CoresInv'
  <1>1. PICK q \in DOMAIN request : Resolves(q) /\ Start(s, StepsOf(q), NoDesign)
    BY DEF SynthesizeCores
  <1>2. UNCHANGED <<script, report, run, rendered, configured>>
    BY DEF SynthesizeCores, coreVars
  <1>3. task[s] = Idle /\ task' = [task EXCEPT ![s] = [steps |-> StepsOf(q), of |-> NoDesign, build |-> 0]]
    BY <1>1 DEF Start
  <1>4. DOMAIN task' = Slots /\ task'[s] = [steps |-> StepsOf(q), of |-> NoDesign, build |-> 0]
    BY <1>3 DEF CoresInv
  <1>5. run'[s].phase = "none"
    BY <1>2, <1>3, IdleIsPlan, OnlyRunsRun
  <1>6. /\ IsPlan(StepsOf(q)) /\ (\A scripts : IsStaged(StepsOf(q), scripts))
        /\ StepsOf(q) # <<>> /\ StepsOf(q)[1].do = "render"
    BY <1>1, StepsArePlan
  <1>7. \A files, points : IsRendered(StepsOf(q), files, points)
    BY <1>6 DEF IsRendered
  <1>8. /\ task'[s].steps = StepsOf(q)
        /\ task'[s] = [steps |-> task'[s].steps, of |-> task'[s].of, build |-> task'[s].build]
    BY <1>4, TaskFields
  <1>9. CoreTask(s)'
    BY <1>6, <1>7, <1>8 DEF CoreTask
  <1>10. /\ run' = [t \in Slots |-> run'[t]]
         /\ script' = [m \in Modules |-> script'[m]] /\ report' = [m \in Modules |-> report'[m]]
    BY <1>2 DEF CoresInv
  <1> QED  BY <1>4, <1>5, <1>9, <1>10, NoRunIsRight, Assembled

\* A step that fails leaves an idle slot and no run.
LEMMA FailureKeeps ==
    ASSUME NEW s \in Slots, CoresInv, OneTask, Fails(s),
           script' = script, report' = [m \in Modules |-> report'[m]],
           run' = [t \in Slots |-> run'[t]], run'[s].phase = "none"
    PROVE  CoresInv'
  <1>1. script' = [m \in Modules |-> script'[m]]
    BY DEF CoresInv
  <1> QED  BY <1>1, Ends, NoRunIsRight, Assembled

LEMMA RenderKeeps ==
    ASSUME NEW s \in Slots, CoresInv, OneTask, RenderCores(s) \/ RenderFails(s)
    PROVE  CoresInv'
  <1>1. task[s].steps # <<>> /\ At(s, "render") /\ UNCHANGED <<script, report, run, configured>>
    BY DEF RenderCores, RenderFails, At
  <1>2. Step(s) = task[s].steps[1] /\ task[s].steps[1].do = "render"
    BY <1>1, FirstStep
  <1>3. run'[s].phase = "none"
    BY <1>1, <1>2, OnlyRunsRun
  <1>4. /\ run' = [t \in Slots |-> run'[t]]
        /\ script' = [m \in Modules |-> script'[m]] /\ report' = [m \in Modules |-> report'[m]]
    BY <1>1 DEF CoresInv
  <1>5. CASE RenderCores(s)
    <2>1. \A g \in Selected(task[s].steps[1].of) \intersect Generated : rendered'[g] = configured
      BY <1>2, <1>5 DEF RenderCores, Rendered
    <2>2. GoesOn(s)
      BY <1>5 DEF RenderCores
    <2>3. DOMAIN task' = Slots /\ CoreTask(s)'
      BY <1>1, <1>2, <2>1, <2>2, PlanContinues
    <2> QED  BY <1>3, <1>4, <2>3, NoRunIsRight, Assembled
  <1>6. CASE RenderFails(s)
    BY <1>1, <1>3, <1>4, <1>6, FailureKeeps DEF RenderFails
  <1> QED  BY <1>5, <1>6

\* The script of the module is the one of this core from now on.
LEMMA CoreStageKeeps ==
    ASSUME NEW s \in Slots, CoresInv, OneTask, OneCorePerModule, StageCore(s) \/ StageFails(s)
    PROVE  CoresInv'
  <1>1. task[s].steps # <<>> /\ At(s, "stage") /\ UNCHANGED <<report, run, rendered, configured>>
    BY DEF StageCore, StageFails, At, coreVars
  <1>2. /\ Step(s) = task[s].steps[1] /\ task[s].steps[1].do = "stage"
        /\ task[s].steps[1].core \in Cores
    BY <1>1, FirstStep
  <1>3. run'[s].phase = "none"
    BY <1>1, <1>2, OnlyRunsRun
  <1>4. /\ run' = [t \in Slots |-> run'[t]] /\ report' = [m \in Modules |-> report'[m]]
    BY <1>1 DEF CoresInv
  <1>5. CASE StageCore(s)
    <2> PICK old : old = task[s].steps
      OBVIOUS
    <2> PICK new : new = Tail(old)
      OBVIOUS
    <2>1. /\ IsPlan(old) /\ IsStaged(old, script) /\ IsRendered(old, rendered, configured)
          /\ old # <<>> /\ Len(old) \in Nat
      <3>1. IsPlan(old) /\ IsStaged(old, script) /\ IsRendered(old, rendered, configured)
        BY DEF CoresInv, CoreTask
      <3> QED  BY <1>1, <3>1 DEF IsPlan
    <2>2. /\ DOMAIN task' = Slots /\ task'[s].steps = new
          /\ task'[s] = [steps |-> task'[s].steps, of |-> task'[s].of, build |-> task'[s].build]
      BY <1>1, <1>5, Continues DEF StageCore
    <2>3. PICK c \in Cores : c = old[1].core
      BY <1>2
    <2>4. PICK q : q = old[1].of
      OBVIOUS
    <2>5. registry[c].module \in Modules
      BY DEF Modules
    <2>6. /\ script' = [m \in Modules |-> script'[m]]
          /\ script'[registry[c].module] = Script(c, q)
          /\ \A m \in Modules : m # registry[c].module => script'[m] = script[m]
      <3>1. script = [m \in Modules |-> script[m]]
        BY DEF CoresInv
      <3>2. script' = [script EXCEPT ![registry[c].module] = Script(c, q)]
        BY <1>2, <1>5, <2>3, <2>4 DEF StageCore
      <3> QED  BY <3>1, <3>2, <2>5
    <2>7. /\ IsPlan(new) /\ Len(new) = Len(old) - 1
          /\ \A i \in 1 .. Len(new) :
               /\ i + 1 \in 1 .. Len(old) /\ new[i] = old[i + 1]
               /\ new[i].do # "render" /\ new[i].of = q
      BY <2>1, <2>4, TailIsPlan
    <2>8. IsStaged(new, script')
      <3> SUFFICES ASSUME NEW i \in 1 .. Len(new), new[i].do = "run",
                          script'[registry[new[i].core].module] # Script(new[i].core, new[i].of)
                   PROVE  \E j \in 1 .. Len(new) :
                            j < i /\ new[j].do = "stage" /\ new[j].core = new[i].core
        BY DEF IsStaged
      <3>1. new[i].core \in Cores /\ new[i].of = q /\ registry[new[i].core].module \in Modules
        BY <2>7 DEF IsPlan, Modules
      <3>2. new[i].core # c
        BY <3>1, <2>6
      <3>3. script[registry[new[i].core].module] # Script(new[i].core, new[i].of)
        BY <3>1, <3>2, <2>6 DEF OneCorePerModule
      <3>4. PICK k \in 1 .. Len(old) : k < i + 1 /\ old[k].do = "stage" /\ old[k].core = new[i].core
        <4>1. i + 1 \in 1 .. Len(old) /\ new[i] = old[i + 1]
          BY <2>7
        <4>2. \/ script[registry[old[i + 1].core].module] = Script(old[i + 1].core, old[i + 1].of)
              \/ \E j \in 1 .. Len(old) :
                   j < i + 1 /\ old[j].do = "stage" /\ old[j].core = old[i + 1].core
          <5>1. old[i + 1].do = "run"
            BY <4>1
          <5> QED  BY <2>1, <4>1, <5>1, Zenon DEF IsStaged
        <4> QED  BY <4>1, <4>2, <3>3
      <3>5. k # 1
        BY <3>2, <3>4, <2>3
      <3>6. k - 1 \in 1 .. Len(new) /\ k - 1 < i /\ new[k - 1] = old[(k - 1) + 1] /\ (k - 1) + 1 = k
        BY <2>1, <2>7, <3>4, <3>5
      <3> QED  BY <3>4, <3>6
    <2>9. IsRendered(new, rendered', configured')
      <3> SUFFICES ASSUME new # <<>>
                   PROVE  \A g \in Selected(new[1].of) \intersect Generated : rendered'[g] = configured'
        BY DEF IsRendered
      <3>1. 1 \in 1 .. Len(new)
        BY <2>1, <2>7 DEF IsPlan
      <3>2. new[1].of = q
        BY <2>7, <3>1
      <3>3. \A g \in Selected(q) \intersect Generated : rendered[g] = configured
        BY <1>2, <2>1, <2>4 DEF IsRendered
      <3> QED  BY <3>2, <3>3, <1>1
    <2>10. CoreTask(s)'
      BY <2>2, <2>7, <2>8, <2>9 DEF CoreTask
    <2> QED  BY <1>3, <1>4, <2>2, <2>6, <2>10, NoRunIsRight, Assembled
  <1>6. CASE StageFails(s)
    BY <1>3, <1>4, <1>6, FailureKeeps DEF StageFails, coreVars
  <1> QED  BY <1>5, <1>6

\* The script of the core that is to run is its own, so that it reads what
\* was asked for.
LEMMA VivadoReadsKeeps ==
    ASSUME NEW s \in Slots, CoresInv, OneTask, VivadoReads(s)
    PROVE  CoresInv'
  <1>1. task[s].steps # <<>> /\ At(s, "run")
        /\ UNCHANGED <<task, script, report, rendered, configured, hdl>>
    BY DEF VivadoReads, At
  <1>2. PICK c \in Cores : c = task[s].steps[1].core
    BY <1>1, FirstStep
  <1>3. PICK q : q = task[s].steps[1].of
    OBVIOUS
  <1>4. Step(s) = task[s].steps[1] /\ task[s].steps[1].do = "run"
    BY <1>1, FirstStep
  <1>5. script[registry[c].module] = Script(c, q)
    <2>1. IsPlan(task[s].steps) /\ IsStaged(task[s].steps, script)
      BY DEF CoresInv, CoreTask
    <2>2. 1 \in 1 .. Len(task[s].steps) /\ ~ \E j \in 1 .. Len(task[s].steps) : j < 1
      BY <1>1, <2>1 DEF IsPlan
    <2> QED  BY <1>2, <1>3, <1>4, <2>1, <2>2 DEF IsStaged
  <1>6. PICK text : text = [d \in sources_for(c) |-> Content(d)]
    OBVIOUS
  <1>7. PICK reading : reading = [of |-> c, clock |-> request[q].clock, params |-> request[q].params[c],
                                  text |-> text]
    OBVIOUS
  <1>8. PICK on : on = [phase |-> "on", edited |-> FALSE, reading |-> reading]
    OBVIOUS
  <1>9. run' = [t \in Slots |-> run'[t]] /\ run'[s] = on
    <2>1. run' = [run EXCEPT ![s] = on]
      <3>1. PICK staged_c : staged_c = script[registry[c].module]
        OBVIOUS
      <3>2. /\ staged_c.of = c /\ staged_c.clock = request[q].clock
            /\ staged_c.params = request[q].params[c] /\ staged_c.sources = sources_for(c)
        BY <3>1, <1>5 DEF Script
      <3>3. run' = [run EXCEPT ![s] =
              [phase |-> "on", edited |-> FALSE,
               reading |-> [of |-> staged_c.of, clock |-> staged_c.clock, params |-> staged_c.params,
                            text |-> [d \in staged_c.sources |-> Content(d)]]]]
        BY <1>2, <1>4, <3>1, Zenon DEF VivadoReads
      <3> QED  BY <3>2, <3>3, <1>6, <1>7, <1>8
    <2> QED  BY <2>1 DEF CoresInv
  <1>10. /\ on.phase = "on" /\ on.edited = FALSE /\ on.reading = reading
         /\ on = [phase |-> on.phase, edited |-> on.edited, reading |-> on.reading]
    <2>1. on.phase = "on" /\ on.edited = FALSE /\ on.reading = reading
      BY <1>8
    <2> QED  BY <1>8, <2>1
  <1>11. /\ reading.of = c /\ reading.clock = request[q].clock
         /\ reading.params = request[q].params[c] /\ reading.text = text
    BY <1>7
  <1>12. ReadsWhatIsAsked(s)'
    <2>1. \A g \in Selected(q) \intersect Generated : rendered[g] = configured
      BY <1>1, <1>3, <1>4 DEF CoresInv, CoreTask, IsRendered
    <2>2. \A g \in Selected(q) \intersect Generated \intersect DOMAIN text : text[g] = configured
      BY <1>6, <2>1 DEF Content
    <2> QED  BY <1>1, <1>2, <1>3, <1>4, <1>9, <1>10, <1>11, <2>2 DEF ReadsWhatIsAsked
  <1>13. IsRunning(s)'
    <2>1. text = Digest(c)'
      BY <1>1, <1>6 DEF Digest, sources_for, Content
    <2> QED  BY <1>1, <1>2, <1>9, <1>10, <1>11, <2>1 DEF IsRunning
  <1>14. CoreRun(s)'
    BY <1>9, <1>10, <1>12, <1>13 DEF CoreRun
  <1>15. script' = [m \in Modules |-> script'[m]] /\ report' = [m \in Modules |-> report'[m]]
    BY <1>1 DEF CoresInv
  <1>16. DOMAIN task' = Slots /\ CoreTask(s)'
    BY <1>1, SameTask
  <1> QED  BY <1>9, <1>14, <1>15, <1>16, Assembled

LEMMA VivadoEndsKeeps ==
    ASSUME NEW s \in Slots, CoresInv, OneTask, VivadoEnds(s)
    PROVE  CoresInv'
  <1>1. /\ run[s].phase = "on" /\ run' = [run EXCEPT ![s].phase = "ended"]
        /\ UNCHANGED <<task, script, rendered, configured, hdl>>
    BY DEF VivadoEnds
  <1>2. ReadsWhatIsAsked(s) /\ IsRunning(s)
    BY <1>1 DEF CoresInv, CoreRun
  <1>3. Step(s) = task[s].steps[1] /\ task[s].steps[1].core \in Cores
    BY <1>2, FirstStep DEF ReadsWhatIsAsked
  <1>4. run' = [t \in Slots |-> run'[t]]
        /\ run'[s] = [phase |-> "ended", edited |-> run[s].edited, reading |-> run[s].reading]
    BY <1>1, <1>2 DEF CoresInv, IsRunning
  <1>5. run'[s].phase = "ended" /\ run'[s].edited = run[s].edited /\ run'[s].reading = run[s].reading
    BY <1>4
  <1>6. /\ report' = [m \in Modules |-> report'[m]]
        /\ report'[registry[task[s].steps[1].core].module] = run[s].reading
    <2>1. report' = [report EXCEPT ![registry[task[s].steps[1].core].module] = run[s].reading]
      BY <1>3 DEF VivadoEnds, Filed
    <2> QED  BY <1>3, <2>1 DEF CoresInv, Modules
  <1>7. ReadsWhatIsAsked(s)'
    BY <1>1, <1>2, <1>5 DEF ReadsWhatIsAsked
  <1>8. IsRunning(s)'
    <2>1. Digest(task[s].steps[1].core)' = Digest(task[s].steps[1].core)
      BY <1>1 DEF Digest, Content
    <2>2. run'[s] = [phase |-> run'[s].phase, edited |-> run'[s].edited, reading |-> run'[s].reading]
      BY <1>4, <1>5
    <2> QED  BY <1>1, <1>2, <1>5, <1>6, <2>1, <2>2 DEF IsRunning
  <1>9. CoreRun(s)'
    BY <1>5, <1>7, <1>8 DEF CoreRun
  <1>10. script' = [m \in Modules |-> script'[m]]
    BY <1>1 DEF CoresInv
  <1> QED  BY <1>1, <1>4, <1>6, <1>9, <1>10, SameTask, Assembled

\* A run or its report that fails, whatever it has written.
LEMMA RunFailureKeeps ==
    ASSUME NEW s \in Slots, CoresInv, OneTask, VivadoFails(s) \/ ParseFails(s)
    PROVE  CoresInv'
  <1>1. /\ run[s].phase # "none" /\ Fails(s) /\ script' = script
        /\ run' = [run EXCEPT ![s] = NoRun] /\ report' \in {report, Filed(s)}
    BY DEF VivadoFails, ParseFails
  <1>2. run' = [t \in Slots |-> run'[t]] /\ run'[s].phase = "none"
    BY <1>1, NothingRuns DEF CoresInv
  <1>3. report' = [m \in Modules |-> report'[m]]
    BY <1>1 DEF CoresInv, Filed
  <1> QED  BY <1>1, <1>2, <1>3, FailureKeeps

\* What the report of a core says of it.
LEMMA ParseReportsKeeps ==
    ASSUME NEW s \in Slots, CoresInv, OneTask, ParseReports(s)
    PROVE  CoresInv'
  <1>1. /\ run[s].phase = "ended"
        /\ UNCHANGED <<task, script, report, rendered, configured, hdl, recorded>>
    BY DEF ParseReports
  <1>2. ReadsWhatIsAsked(s) /\ IsRunning(s)
    BY <1>1 DEF CoresInv, CoreRun
  <1>3. PICK c \in Cores : c = task[s].steps[1].core
    BY <1>2, FirstStep DEF ReadsWhatIsAsked
  <1>4. PICK q : q = task[s].steps[1].of
    OBVIOUS
  <1>5. Step(s) = task[s].steps[1]
    BY <1>2, FirstStep DEF ReadsWhatIsAsked
  <1>6. PICK reading : reading = run[s].reading
    OBVIOUS
  <1>7. /\ reading.of = c /\ reading.clock = request[q].clock /\ reading.params = request[q].params[c]
        /\ report[registry[c].module] = reading
        /\ ~run[s].edited => reading.text = Digest(c)
    BY <1>1, <1>2, <1>3, <1>4, <1>6 DEF ReadsWhatIsAsked, IsRunning
  <1>8. PICK points : points = RegisteredPoints(c, request[q].clock, request[q].params[c])
    OBVIOUS
  <1>9. PICK matches \in Outcomes(reading, points) :
          run' = [run EXCEPT ![s] =
            [phase |-> "reported", edited |-> run[s].edited, reading |-> reading,
             measured_from |-> Digest(c), matches |-> matches,
             stamp_matches |-> Digest(c) = Stamp(c)]]
    <2>1. /\ Step(s).core = c /\ Asked(s) = request[q]
          /\ report[registry[Step(s).core].module] = reading
          /\ RegisteredPoints(Step(s).core, Asked(s).clock, Asked(s).params[Step(s).core]) = points
      BY <1>3, <1>4, <1>5, <1>7, <1>8 DEF Asked
    <2>2. PICK matches \in Outcomes(report[registry[Step(s).core].module],
                                   RegisteredPoints(Step(s).core, Asked(s).clock,
                                                    Asked(s).params[Step(s).core])) :
            run' = [run EXCEPT ![s] =
              [phase |-> "reported", edited |-> run[s].edited,
               reading |-> report[registry[Step(s).core].module],
               measured_from |-> Digest(Step(s).core), matches |-> matches,
               stamp_matches |-> Digest(Step(s).core) = Stamp(Step(s).core)]]
      BY Zenon DEF ParseReports
    <2> QED  BY <2>1, <2>2, Zenon
  <1>10. PICK stamped \in BOOLEAN : stamped = (Digest(c) = Stamp(c))
    OBVIOUS
  <1>11. PICK reported : reported =
            [phase |-> "reported", edited |-> run[s].edited, reading |-> reading,
             measured_from |-> Digest(c), matches |-> matches, stamp_matches |-> stamped]
    OBVIOUS
  <1>12. run' = [t \in Slots |-> run'[t]] /\ run'[s] = reported
    <2>1. run' = [run EXCEPT ![s] = reported]
      BY <1>9, <1>10, <1>11
    <2> QED  BY <2>1 DEF CoresInv
  <1>13. /\ reported.phase = "reported" /\ reported.edited = run[s].edited
         /\ reported.reading = reading /\ reported.measured_from = Digest(c)
         /\ reported.matches = matches /\ reported.stamp_matches = stamped
    BY <1>11
  <1>14. ReadsWhatIsAsked(s)'
    BY <1>1, <1>2, <1>6, <1>12, <1>13 DEF ReadsWhatIsAsked
  <1>15. ASSUME matches = "no", \A p \in registry[c].points : p.clock # "any"
         PROVE  reading.text # Stamp(c)
    <2>1. PICK p \in points : FALSE \in Reproduces(reading, p)
      <3>1. PICK same \in UNION {Reproduces(reading, p) : p \in points} :
              matches = IF same THEN "yes" ELSE "no"
        BY <1>9, <1>15 DEF Outcomes
      <3>2. same = FALSE
        BY <3>1, <1>15 DEF Reproduces
      <3> QED  BY <3>1, <3>2
    <2>2. p = [clock |-> reading.clock, params |-> reading.params]
      BY <1>7, <1>8, <1>15 DEF RegisteredPoints
    <2> QED  BY <1>7, <2>1, <2>2 DEF Reproduces
  <1>16. IsReported(s)'
    <2>1. Stamp(c)' = Stamp(c)
      BY <1>1 DEF Stamp
    <2>2. ~reported.edited =>
            /\ reported.measured_from = reported.reading.text
            /\ reported.matches = "no" /\ (\A p \in registry[c].points : p.clock # "any") =>
                 reported.reading.text # Stamp(c)
            /\ reported.matches = "yes" /\ reported.reading.text # Stamp(c) => ~reported.stamp_matches
      BY <1>7, <1>10, <1>13, <1>15
    <2> QED  BY <1>1, <1>3, <1>12, <2>1, <2>2 DEF IsReported
  <1>17. CoreRun(s)'
    BY <1>12, <1>13, <1>14, <1>16 DEF CoreRun
  <1>18. script' = [m \in Modules |-> script'[m]] /\ report' = [m \in Modules |-> report'[m]]
    BY <1>1 DEF CoresInv
  <1> QED  BY <1>1, <1>12, <1>17, <1>18, SameTask, Assembled

LEMMA CoreDoneKeeps ==
    ASSUME NEW s \in Slots, CoresInv, OneTask, CoreDone(s)
    PROVE  CoresInv'
  <1>1. /\ run[s].phase = "reported" /\ GoesOn(s) /\ run' = [run EXCEPT ![s] = NoRun]
        /\ UNCHANGED <<script, report, rendered, configured>>
    BY DEF CoreDone
  <1>2. ReadsWhatIsAsked(s)
    BY <1>1 DEF CoresInv, CoreRun
  <1>3. task[s].steps # <<>> /\ task[s].steps[1].do = "run"
    BY <1>2 DEF ReadsWhatIsAsked
  <1>4. \A g \in Selected(task[s].steps[1].of) \intersect Generated : rendered'[g] = configured
    BY <1>1, <1>3 DEF CoresInv, CoreTask, IsRendered
  <1>5. DOMAIN task' = Slots /\ CoreTask(s)'
    BY <1>1, <1>3, <1>4, PlanContinues
  <1>6. run' = [t \in Slots |-> run'[t]] /\ run'[s].phase = "none"
    BY <1>1, NothingRuns DEF CoresInv
  <1>7. script' = [m \in Modules |-> script'[m]] /\ report' = [m \in Modules |-> report'[m]]
    BY <1>1 DEF CoresInv
  <1> QED  BY <1>5, <1>6, <1>7, NoRunIsRight, Assembled

\* An edit is noted by the runs that are on.
LEMMA CoreEditKeeps ==
    ASSUME CoresInv, EditHdl
    PROVE  CoresInv'
  <1>1. UNCHANGED <<task, configured, rendered, recorded, script, report>>
    BY DEF EditHdl
  <1>2. run' = [s \in Slots |-> IF run[s].phase \in {"on", "ended"}
                                  THEN [run[s] EXCEPT !.edited = TRUE] ELSE run[s]]
    BY DEF EditHdl
  <1>3. ASSUME NEW s \in Slots
        PROVE  CoreTask(s)' /\ CoreRun(s)'
    <2>1. CoreTask(s)'
      BY <1>1, SameTask
    <2>2. CASE run[s].phase \in {"on", "ended"}
      <3>1. ReadsWhatIsAsked(s) /\ IsRunning(s)
        BY <2>2 DEF CoresInv, CoreRun
      <3>2. run'[s] = [phase |-> run[s].phase, edited |-> TRUE, reading |-> run[s].reading]
        BY <1>2, <2>2, <3>1 DEF IsRunning
      <3>3. run'[s].phase = run[s].phase /\ run'[s].edited = TRUE /\ run'[s].reading = run[s].reading
        BY <3>2
      <3>4. ReadsWhatIsAsked(s)'
        BY <1>1, <3>1, <3>3 DEF ReadsWhatIsAsked
      <3>5. IsRunning(s)'
        <4>1. run'[s] = [phase |-> run'[s].phase, edited |-> run'[s].edited, reading |-> run'[s].reading]
          BY <3>2, <3>3
        <4> QED  BY <1>1, <3>1, <3>3, <4>1 DEF IsRunning
      <3> QED  BY <2>1, <2>2, <3>3, <3>4, <3>5 DEF CoreRun
    <2>3. CASE run[s].phase \notin {"on", "ended"}
      <3>1. run'[s] = run[s]
        BY <1>2, <2>3
      <3>2. CoreRun(s)
        BY DEF CoresInv
      <3>3. \A c : Stamp(c)' = Stamp(c)
        BY <1>1 DEF Stamp
      <3> QED  BY <1>1, <2>1, <2>3, <3>1, <3>2, <3>3 DEF CoreRun, ReadsWhatIsAsked, IsReported
    <2> QED  BY <2>2, <2>3
  <1> QED  BY <1>1, <1>2, <1>3 DEF CoresInv

LEMMA NewProcessKeeps ==
    ASSUME CoresInv, NewProcess
    PROVE  CoresInv'
  <1>1. UNCHANGED <<task, script, report, run>> /\ \A s \in Slots : task[s] = Idle
    BY DEF NewProcess
  <1>2. ASSUME NEW s \in Slots
        PROVE  CoreTask(s)' /\ CoreRun(s)'
    <2>1. task'[s] = Idle
      BY <1>1
    <2>2. CoreTask(s)'
      BY <2>1, IdleIsPlan DEF CoreTask, Idle
    <2>3. run'[s].phase = "none"
      BY <1>1, IdleIsPlan, OnlyRunsRun
    <2> QED  BY <2>2, <2>3, NoRunIsRight
  <1> QED  BY <1>1, <1>2 DEF CoresInv

\* In a directory of another kind no core is run.
KindInv == IF kind = "cores" THEN CoresInv ELSE run = [s \in Slots |-> NoRun]

LEMMA KindInvInit ==
    ASSUME Init
    PROVE  KindInv
  <1>1. /\ task = [s \in Slots |-> Idle] /\ run = [s \in Slots |-> NoRun]
        /\ script = [m \in Modules |-> NoFile] /\ report = [m \in Modules |-> NoFile]
    BY DEF Init, RootInit, CoresInit
  <1>2. ASSUME NEW s \in Slots
        PROVE  CoreTask(s) /\ CoreRun(s)
    <2>1. task[s] = Idle /\ run[s].phase = "none"
      BY <1>1, NothingRuns
    <2> QED  BY <2>1, EmptyPlan DEF CoreRun
  <1> QED  BY <1>1, <1>2 DEF KindInv, CoresInv

LEMMA KindInvStep ==
    ASSUME OneTask, OneCorePerModule, KindInv, [Next]_vars
    PROVE  KindInv'
  <1>1. CASE kind = "cores" /\ CoresNext /\ kind' = kind
    <2>1. CoresInv
      BY <1>1 DEF KindInv
    <2>2. CASE EditHdl \/ NewProcess
      BY <1>1, <2>1, <2>2, CoreEditKeeps, NewProcessKeeps DEF KindInv
    <2>3. ASSUME NEW s \in Slots,
                 \/ SynthesizeCores(s) \/ RenderCores(s) \/ RenderFails(s) \/ StageCore(s) \/ StageFails(s)
                 \/ VivadoReads(s) \/ VivadoEnds(s) \/ VivadoFails(s)
                 \/ ParseReports(s) \/ ParseFails(s) \/ CoreDone(s)
          PROVE  CoresInv'
      BY <2>1, <2>3, SynthesizeCoresKeeps, RenderKeeps, CoreStageKeeps, VivadoReadsKeeps,
         VivadoEndsKeeps, RunFailureKeeps, ParseReportsKeeps, CoreDoneKeeps
    <2> QED  BY <1>1, <2>2, <2>3 DEF CoresNext, KindInv
  <1>2. CASE kind # "cores" /\ UNCHANGED <<kind, coreVars>>
    BY <1>2 DEF KindInv, coreVars
  <1>3. CASE UNCHANGED vars
    <2>1. UNCHANGED <<kind, task, run, script, report, rendered, configured, hdl, recorded>>
      BY <1>3 DEF vars, rootVars, coreVars
    <2>2. CASE kind = "cores"
      <3>1. CoresInv
        BY <2>2 DEF KindInv
      <3>2. \A c : Stamp(c)' = Stamp(c) /\ Digest(c)' = Digest(c)
        BY <2>1 DEF Stamp, Digest, Content
      <3>3. \A s \in Slots : CoreTask(s)' /\ CoreRun(s)'
        BY <2>1, <3>1, <3>2, SameTask DEF CoresInv, CoreRun, ReadsWhatIsAsked, IsRunning, IsReported
      <3> QED  BY <2>1, <2>2, <3>1, <3>3 DEF KindInv, CoresInv
    <2> QED  BY <2>1, <2>2 DEF KindInv
  <1> QED  BY <1>1, <1>2, <1>3 DEF Next

LEMMA KindInvHolds ==
    ASSUME OneTask, OneCorePerModule
    PROVE  Spec => []KindInv
  <1>1. Init => KindInv
    BY KindInvInit
  <1>2. KindInv /\ [Next]_vars => KindInv'
    BY KindInvStep
  <1> QED  BY <1>1, <1>2, PTL DEF Spec

\* What is known of a run that has reported.
LEMMA ReportedRun ==
    ASSUME KindInv, NEW s \in Slots, Reported(s)
    PROVE  ReadsWhatIsAsked(s) /\ IsReported(s) /\ Step(s) = task[s].steps[1]
  <1>1. kind = "cores"
    <2>1. CASE run = [t \in Slots |-> NoRun]
      BY <2>1, NothingRuns DEF Reported
    <2> QED  BY <2>1 DEF KindInv
  <1>2. CoresInv
    BY <1>1 DEF KindInv
  <1>3. ReadsWhatIsAsked(s) /\ IsReported(s)
    BY <1>2 DEF CoresInv, CoreRun, Reported
  <1> QED  BY <1>2, <1>3, FirstStep DEF ReadsWhatIsAsked

(* A report speaks of its own core as the task asked for it, and the digest *)
(* it carries is of the HDL that Vivado read, unless somebody edited it     *)
(* meanwhile.                                                               *)
THEOREM ReportsAreTrue ==
    ASSUME OneTask, OneCorePerModule
    PROVE  Spec => []ReportIsTrue
  <1>1. KindInv => ReportIsTrue
    BY ReportedRun DEF ReportIsTrue, ReadsWhatIsAsked, IsReported, Asked
  <1> QED  BY <1>1, KindInvHolds, PTL

(* A drift is of the HDL and never of the coordinates, and numbers that HDL *)
(* of another version gives by luck are flagged by the stamp.               *)
THEOREM DriftIsOfTheSources ==
    ASSUME OneTask, OneCorePerModule
    PROVE  Spec => []JudgesTheRegistry
  <1>1. KindInv => JudgesTheRegistry
    BY ReportedRun DEF JudgesTheRegistry, IsReported
  <1> QED  BY <1>1, KindInvHolds, PTL

(* A generated core that is selected is read as this process configures it, *)
(* whatever was rendered there before.                                      *)
THEOREM NoStaleRender ==
    ASSUME OneTask, OneCorePerModule
    PROVE  Spec => []SelectedIsFresh
  <1>1. KindInv => SelectedIsFresh
    BY ReportedRun DEF SelectedIsFresh, ReadsWhatIsAsked
  <1> QED  BY <1>1, KindInvHolds, PTL

--------------------------------------------------------------------------------
(* The lanes of a board.  The hook is a fold over the placements: what it   *)
(* leaves is shown by induction on how many of them it has come to.         *)

\* The place the fold takes last.
LastOf(S) == CHOOSE x \in S : \A y \in S : x >= y

\* A function that does what the fold's does on the sets of places in T.
Places(F, at, T) ==
    F = [s \in T |-> IF s = {} THEN at ELSE SetLoc(F[s \ {LastOf(s)}], board.placements[LastOf(s)])]

\* Every lane of the board is released.
Released(at) == [lane \in DOMAIN at |-> IF lane \in Wanted THEN NoSite ELSE at[lane]]

\* The hook is the fold of such a function.
LEMMA HookFolds ==
    ASSUME NEW at
    PROVE  Hooked(at) = (CHOOSE F : Places(F, Released(at), SUBSET (DOMAIN board.placements)))[DOMAIN board.placements]
  BY DEF Hooked, FoldLeft, MapThenFoldSet, Places, LastOf, Released, Max

\* The least number of a set: the step of an induction.
LEMMA LeastOf ==
    ASSUME NEW T \in SUBSET Nat, T # {}
    PROVE  \E n \in T : \A m \in T : n <= m
  <1>1. PICK n \in T : \A m \in T : ~(<<m, n>> \in OpToRel(<, Nat))
    BY WFMin, NatLessThanWellFounded
  <1>2. ASSUME NEW m \in T, m < n  PROVE FALSE
    <2>1. <<m, n>> \in OpToRel(<, Nat)
      BY <1>2 DEF OpToRel
    <2> QED  BY <1>1, <2>1
  <1> QED  BY <1>2

\* A set of places has a last one.
LEMMA LastOfIsLast ==
    ASSUME NEW n \in Nat, NEW s \in SUBSET (1 .. n), s # {}
    PROVE  LastOf(s) \in s /\ \A y \in s : LastOf(s) >= y
  <1> DEFINE T == {n - x : x \in s}
  <1>1. T \in SUBSET Nat /\ T # {}
    <2>1. \A x \in s : n - x \in Nat
      OBVIOUS
    <2> QED  BY <2>1
  <1>2. PICK m \in T : \A k \in T : m <= k
    <2> HIDE DEF T
    <2> QED  BY <1>1, LeastOf
  <1>3. PICK x \in s : m = n - x
    BY <1>2
  <1>4. \A y \in s : x >= y
    <2> TAKE y \in s
    <2>1. m <= n - y
      BY <1>2
    <2> QED  BY <1>3, <2>1
  <1> QED  BY <1>4 DEF LastOf

\* There is a function that does it, built up one cardinality at a time.
LEMMA HookExists ==
    ASSUME NEW n \in Nat, NEW at
    PROVE  \E F : Places(F, at, SUBSET (1 .. n))
  <1> DEFINE S == 1 .. n
             Small(k) == {s \in SUBSET S : Cardinality(s) <= k}
             Bad == {k \in Nat : ~\E F : Places(F, at, Small(k))}
  <1>a. IsFiniteSet(S) /\ Cardinality(S) \in Nat
    BY FS_Interval, FS_CardinalityType
  <1>0. ASSUME NEW s \in SUBSET S
        PROVE  /\ IsFiniteSet(s) /\ Cardinality(s) \in Nat /\ Cardinality(s) <= Cardinality(S)
               /\ Cardinality(s) = 0 <=> s = {}
               /\ s # {} => Cardinality(s \ {LastOf(s)}) = Cardinality(s) - 1
    <2>1. IsFiniteSet(s) /\ Cardinality(s) <= Cardinality(S)
      BY <1>a, FS_Subset
    <2>2. s # {} => LastOf(s) \in s
      BY LastOfIsLast
    <2> QED  BY <2>1, <2>2, FS_CardinalityType, FS_EmptySet, FS_RemoveElement
  <1>1. 0 \notin Bad
    <2>1. Small(0) = {{}}
      <3>1. ASSUME NEW s \in SUBSET S  PROVE s \in Small(0) <=> s = {}
        <4>1. Cardinality(s) \in Nat
          BY <1>0
        <4>2. Cardinality(s) = 0 <=> s = {}
          BY <1>0
        <4> QED  BY <4>1, <4>2
      <3> HIDE DEF Small
      <3>2. \A s \in Small(0) : s \in SUBSET S
        BY DEF Small
      <3> QED  BY <3>1, <3>2
    <2> DEFINE F == [s \in {{}} |-> at]
    <2>2. Places(F, at, {{}})
      BY DEF Places
    <2> QED  BY <2>1, <2>2
  <1>2. ASSUME NEW k \in Nat, NEW F, Places(F, at, Small(k))
        PROVE  \E G : Places(G, at, Small(k + 1))
    <2> DEFINE Comes(f, s) == IF s = {} THEN at ELSE SetLoc(f[s \ {LastOf(s)}], board.placements[LastOf(s)])
               G == [s \in Small(k + 1) |-> Comes(F, s)]
    <2>1. \A s \in Small(k) : F[s] = Comes(F, s)
      BY <1>2 DEF Places
    <2>2. \A s \in Small(k) : s \in Small(k + 1)
      <3> TAKE s \in Small(k)
      <3>1. Cardinality(s) \in Nat
        BY <1>0
      <3> QED  BY <3>1
    <2>3. \A s \in Small(k) : G[s] = F[s]
      BY <2>1, <2>2
    <2>4. \A s \in Small(k + 1) : s # {} => s \ {LastOf(s)} \in Small(k)
      <3> TAKE s \in Small(k + 1)
      <3> HAVE s # {}
      <3>1. Cardinality(s) \in Nat /\ Cardinality(s \ {LastOf(s)}) = Cardinality(s) - 1
        BY <1>0
      <3>2. s \ {LastOf(s)} \in SUBSET S
        OBVIOUS
      <3> HIDE DEF S
      <3> QED  BY <3>1, <3>2
    <2>5. \A s \in Small(k + 1) : Comes(F, s) = Comes(G, s)
      <3> HIDE DEF G, Small
      <3> QED  BY <2>3, <2>4
    <2>6. G = [s \in Small(k + 1) |-> Comes(G, s)]
      <3>1. G = [s \in Small(k + 1) |-> Comes(F, s)]
        OBVIOUS
      <3> HIDE DEF G, Small, Comes
      <3> QED  BY <3>1, <2>5
    <2> QED  BY <2>6 DEF Places
  <1>3. Bad = {}
    <2> SUFFICES ASSUME Bad # {}  PROVE FALSE
      OBVIOUS
    <2> HIDE DEF Small
    <2>1. PICK k \in Bad : \A m \in Bad : k <= m
      <3>1. Bad \in SUBSET Nat
        OBVIOUS
      <3> HIDE DEF Bad
      <3> QED BY <3>1, LeastOf
    <2>2. k \in Nat \ {0} /\ k - 1 \in Nat
      BY <1>1
    <2>3. k - 1 \notin Bad
      BY <2>1, <2>2
    <2>4. \E F : Places(F, at, Small(k - 1))
      BY <2>2, <2>3
    <2>5. \E F : Places(F, at, Small((k - 1) + 1))
      BY <1>2, <2>2, <2>4
    <2>6. (k - 1) + 1 = k
      BY <2>2
    <2> QED BY <2>5, <2>6
  <1>4. Small(Cardinality(S)) = SUBSET S
    <2> HIDE DEF S
    <2> QED  BY <1>0
  <1> HIDE DEF Small
  <1>6. \E F : Places(F, at, Small(Cardinality(S)))
    BY <1>a, <1>3
  <1> QED  BY <1>4, <1>6

\* The hook places one lane behind the other.
LEMMA HookUnfolds ==
    ASSUME NEW n \in Nat, DOMAIN board.placements = 1 .. n, NEW at
    PROVE  \E F : /\ Hooked(at) = F[1 .. n]
                  /\ F[1 .. 0] = Released(at)
                  /\ \A k \in 1 .. n : F[1 .. k] = SetLoc(F[1 .. k - 1], board.placements[k])
  <1> DEFINE F == CHOOSE f : Places(f, Released(at), SUBSET (1 .. n))
  <1>1. Places(F, Released(at), SUBSET (1 .. n))
    BY HookExists
  <1>2. Hooked(at) = F[1 .. n]
    BY HookFolds
  <1> HIDE DEF F
  <1>3. F[1 .. 0] = Released(at)
    <2>1. 1 .. 0 = {}
      OBVIOUS
    <2> QED  BY <1>1, <2>1 DEF Places
  <1>4. ASSUME NEW k \in 1 .. n
        PROVE  F[1 .. k] = SetLoc(F[1 .. k - 1], board.placements[k])
    <2>1. 1 .. k \in SUBSET (1 .. n) /\ 1 .. k # {}
      OBVIOUS
    <2>2. LastOf(1 .. k) = k
      <3>1. LastOf(1 .. k) \in 1 .. k /\ \A y \in 1 .. k : LastOf(1 .. k) >= y
        BY <2>1, LastOfIsLast
      <3> QED  BY <3>1
    <2>3. (1 .. k) \ {k} = 1 .. k - 1
      OBVIOUS
    <2> QED  BY <1>1, <2>1, <2>2, <2>3 DEF Places
  <1> QED  BY <1>2, <1>3, <1>4

\* Of a board: its placements are a list, and each lane is in it once.
IsBoard(b) ==
    /\ \E n \in Nat : DOMAIN b.placements = 1 .. n
    /\ \A i \in DOMAIN b.placements : b.placements[i].site # NoSite
    /\ \A i, j \in DOMAIN b.placements : b.placements[i].lane = b.placements[j].lane => i = j

\* Where every lane is released first, each goes where it should, whatever
\* lane stood there.
LEMMA HookPlaces ==
    ASSUME IsBoard(board), \A p, q \in Placements : p.site = q.site => p = q,
           NEW at, DOMAIN at = Wanted
    PROVE  Placed(Hooked(at))
  <1> DEFINE P == board.placements
  <1> PICK n \in Nat : DOMAIN P = 1 .. n
    BY DEF IsBoard
  <1> PICK F : /\ Hooked(at) = F[1 .. n]
               /\ F[1 .. 0] = Released(at)
               /\ \A k \in 1 .. n : F[1 .. k] = SetLoc(F[1 .. k - 1], P[k])
    BY HookUnfolds
  <1>0. /\ \A i \in 1 .. n : P[i] \in Placements /\ P[i].lane \in Wanted /\ P[i].site # NoSite
        /\ \A i, j \in 1 .. n : P[i].lane = P[j].lane \/ P[i].site = P[j].site => i = j
        /\ \A lane \in Wanted : \E i \in 1 .. n : lane = P[i].lane
    <2>1. Placements = {P[i] : i \in 1 .. n}
      BY DEF Placements
    <2>2. \A i \in 1 .. n : P[i] \in Placements /\ P[i].lane \in Wanted
      BY <2>1 DEF Wanted
    <2>3. \A lane \in Wanted : \E i \in 1 .. n : lane = P[i].lane
      BY <2>1 DEF Wanted
    <2>4. \A i, j \in 1 .. n : P[i].lane = P[j].lane => i = j
      BY DEF IsBoard
    <2>5. \A i, j \in 1 .. n : P[i].site = P[j].site => i = j
      <3> TAKE i, j \in 1 .. n
      <3> HAVE P[i].site = P[j].site
      <3>1. P[i] = P[j]
        BY <2>2
      <3> QED  BY <2>4, <3>1
    <2>6. \A i \in 1 .. n : P[i].site # NoSite
      BY DEF IsBoard
    <2> QED  BY <2>2, <2>3, <2>4, <2>5, <2>6
  <1> HIDE DEF P
  <1> DEFINE Good(k) == /\ DOMAIN F[1 .. k] = Wanted
                        /\ \A i \in 1 .. n : F[1 .. k][P[i].lane] = IF i <= k THEN P[i].site ELSE NoSite
             Bad == {k \in 0 .. n : ~Good(k)}
  <1>1. Good(0)
    BY <1>0 DEF Released
  <1>2. ASSUME NEW k \in 1 .. n, Good(k - 1)  PROVE Good(k)
    <2> DEFINE now == F[1 .. k - 1]
    <2>1. F[1 .. k] = SetLoc(now, P[k])
      OBVIOUS
    <2>2. DOMAIN now = Wanted /\ \A i \in 1 .. n : now[P[i].lane] = IF i <= k - 1 THEN P[i].site ELSE NoSite
      BY <1>2
    <2> HIDE DEF now
    <2>3. ASSUME NEW lane \in DOMAIN now \ {P[k].lane}  PROVE now[lane] # P[k].site
      <3>1. PICK i \in 1 .. n : lane = P[i].lane
        BY <1>0, <2>2
      <3>2. i # k
        BY <3>1
      <3> QED  BY <1>0, <2>2, <3>1, <3>2
    <2>4. F[1 .. k] = [now EXCEPT ![P[k].lane] = P[k].site]
      BY <2>1, <2>3 DEF SetLoc
    <2>5. DOMAIN F[1 .. k] = Wanted
      BY <2>2, <2>4
    <2>6. ASSUME NEW i \in 1 .. n
          PROVE  F[1 .. k][P[i].lane] = IF i <= k THEN P[i].site ELSE NoSite
      <3>1. P[i].lane \in Wanted /\ P[k].lane \in Wanted
        BY <1>0
      <3>2. CASE i = k
        BY <2>2, <2>4, <3>1, <3>2
      <3>3. CASE i # k
        <4>1. P[i].lane # P[k].lane
          BY <1>0, <3>3
        <4>2. F[1 .. k][P[i].lane] = now[P[i].lane]
          BY <2>2, <2>4, <3>1, <4>1
        <4>3. i <= k <=> i <= k - 1
          BY <3>3
        <4> QED  BY <2>2, <4>2, <4>3
      <3> QED  BY <3>2, <3>3
    <2> QED  BY <2>5, <2>6
  <1>3. Bad = {}
    <2> SUFFICES ASSUME Bad # {}  PROVE FALSE
      OBVIOUS
    <2>1. PICK k \in Bad : \A m \in Bad : k <= m
      <3>1. Bad \in SUBSET Nat
        OBVIOUS
      <3> HIDE DEF Bad
      <3> QED  BY <3>1, LeastOf
    <2> HIDE DEF Good
    <2>2. k \in 1 .. n /\ k - 1 \in 0 .. n /\ k - 1 \notin Bad
      BY <1>1, <2>1
    <2> QED  BY <1>2, <2>2
  <1>4. Good(n)
    BY <1>3
  <1>5. ASSUME NEW p \in Placements  PROVE p.lane \in DOMAIN Hooked(at) /\ Hooked(at)[p.lane] = p.site
    <2>1. PICK i \in 1 .. n : p = P[i]
      BY DEF Placements, P
    <2> QED  BY <1>0, <1>4, <2>1
  <1> QED  BY <1>5 DEF Placed

\* The boards give no lane two places.
LanesPlacedOnce ==
    \A b \in Targets : \A i, j \in DOMAIN b.placements :
      b.placements[i].lane = b.placements[j].lane => i = j

\* The hook places the lanes of every design that has them, wherever the IP
\* has put them, on every board that wants them apart.
THEOREM HookAlwaysPlaces ==
    ASSUME LanesPlacedOnce
    PROVE  Spec => []HookPlacesLanes
  <1> DEFINE BoardInv == kind = "project" => IsBoard(board)
  <1>1. Init => BoardInv
    <2>1. ASSUME NEW b \in Targets  PROVE IsBoard(b)
      <3>1. b.placements \in Seq([lane : Nat, site : Sites])
        BY BoardsAssumption
      <3>2. DOMAIN b.placements = 1 .. Len(b.placements) /\ Len(b.placements) \in Nat
        BY <3>1
      <3>3. \A i \in DOMAIN b.placements : b.placements[i].site \in Sites
        <4> DEFINE Lane == [lane : Nat, site : Sites]
        <4>1. \A i \in 1 .. Len(b.placements) : b.placements[i] \in Lane
          <5>1. ASSUME NEW q \in Seq(Lane)  PROVE \A i \in 1 .. Len(q) : q[i] \in Lane
            <6> HIDE DEF Lane
            <6> QED  OBVIOUS
          <5> HIDE DEF Lane
          <5> QED  BY <3>1, <5>1 DEF Lane
        <4>2. \A p \in [lane : Nat, site : Sites] : p.site \in Sites
          OBVIOUS
        <4> QED  BY <3>2, <4>1, <4>2
      <3> QED  BY <3>2, <3>3, BoardsAssumption DEF IsBoard, LanesPlacedOnce
    <2> QED  BY <2>1 DEF Init, ProjectInit
  <1>2. BoardInv /\ [Next]_vars => BoardInv'
    <2> SUFFICES ASSUME BoardInv, [Next]_vars  PROVE UNCHANGED <<kind, board>>
      BY DEF IsBoard
    <2>1. ProjectNext => board' = board
      BY DEF ProjectNext, Edit, BuildProject, ProjectSynth, ProjectImpl, VerifyLanes, CopyBitstream,
         BuildOk, ScriptFails, PackageProject, PackageProjectFails, projectVars
    <2> QED  BY <2>1 DEF Next, vars, projectVars
  <1>3. BoardInv => HookPlacesLanes
    BY HookPlaces DEF HookPlacesLanes, HookHolds
  <1> QED  BY <1>1, <1>2, <1>3, PTL DEF Spec
================================================================================
