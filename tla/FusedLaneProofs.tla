---------------------------- MODULE FusedLaneProofs ---------------------------
(***************************************************************************)
(* Theorems about FusedLane, for a chain of any length and any choice of   *)
(* draining stages and of the late ones among them.                        *)
(*                                                                         *)
(* The inductive invariant says where the batch is in a job in which no    *)
(* draining stage has failed (Flow): its end is in one place, the stages   *)
(* in front of that place are through with it, and the stages behind one   *)
(* that has given no row are at rest.                                      *)
(***************************************************************************)
EXTENDS FusedLane, FiniteSetTheorems, TLAPS

AllRest == \A k \in Stages : stage[k] = AtRest

\* The stage is through with the batch: its last row is given.
Gone(k) ==
    \/ stage[k] = AtRest
    \/ k \in Draining /\ stage[k].in = "ended" /\ stage[k].out = "last"

\* It has at most a status that is late.
Still(k) == Gone(k) /\ (stage[k] = AtRest \/ k \in Late)

AllStill == \A k \in Stages : Still(k)

\* The batch's end is in the stage.
Ends(k) == stage[k].in = "ended" /\ ~Gone(k)

\* There is more of the batch to come through link k.
Above(k) == source = "feeding" \/ \E i \in Stages : i <= k /\ Ends(i)

------------------------------------------------------------------------------
(* The invariant. *)

\* Where the job is, and what it finds of the lane.
Control ==
    /\ unit_start => job_start
    /\ job_start =>
         /\ job = "run" /\ writer.phase = "idle" /\ source # "feeding" /\ AllStill
         /\ \A k \in Stages : stage[k] = AtRest \/ Pending(k)
    /\ job \in {"over", "refused"} =>
         writer.phase = "idle" /\ source # "feeding" /\ AllStill
    /\ job = "after" =>
         /\ writer.phase = "idle" /\ source # "feeding"
         /\ pipeline_error_reset \/ AllStill
    /\ pipeline_error_reset => job = "after"
    /\ job = "run" /\ ~job_start /\ writer.phase = "idle" => writer.done
    /\ writer.phase # "idle" => ~writer.done /\ ~writer.error /\ source # "idle"
    /\ writer.phase = "idle" /\ ~writer.error => source # "feeding" /\ AllStill

\* What a stage says, gives and has taken fit one another.
Shape ==
  \A k \in Stages :
    /\ stage[k].in = "idle" => stage[k] = AtRest
    /\ stage[k].in = "sunk" => stage[k].out = "none" /\ stage[k].status = "none"
    /\ stage[k].status = "good" =>
         /\ stage[k].in = "ended" /\ stage[k].out # "some"
         /\ k \in Silent => stage[k].out = "none"
    /\ stage[k].out = "last" =>
         /\ stage[k].in = "ended" /\ k \notin Silent
         /\ k \in Draining \ Late => stage[k].status = "good"
    /\ stage[k].in = "ended" => source # "feeding"

\* The lane runs, and no draining stage's error has been accepted.
Running == writer.phase # "idle" /\ ~fused_err

NoneSunk == \A k \in Stages : stage[k].in # "sunk"

EndPassed ==
    \A k \in Stages : stage[k].in = "ended" => \A j \in Stages : j < k => Gone(j)

DryBelow ==
    \A k \in Stages :
      Above(k) /\ stage[k].out = "none" => \A j \in Stages : j > k => stage[j] = AtRest

EndSomewhere ==
    source # "feeding" => (\E k \in Stages : Ends(k)) \/ \A k \in Stages : Gone(k)

ClosedEmpty ==
    fused_empty_close => source # "feeding" /\ \A k \in Stages : Gone(k)

Flow == Running => NoneSunk /\ EndPassed /\ DryBelow /\ EndSomewhere /\ ClosedEmpty

LaneInv == TypeOK /\ Control /\ Shape /\ Flow

------------------------------------------------------------------------------
(* Induction along the chain. *)

\* A set of natural numbers that is not empty has a least one: the intervals
\* that end in it have one that no other is inside.
LEMMA LeastExists ==
    ASSUME NEW S \in SUBSET Nat, S # {}
    PROVE  \E n \in S : \A m \in S : n <= m
  <1> DEFINE T == {1 .. n : n \in S}
  <1>1. IsWellFoundedOn(StrictSubsetOrdering(Nat), FiniteSubsetsOf(Nat))
    BY FS_StrictSubsetOrderingWellFounded
  <1>2. T \subseteq FiniteSubsetsOf(Nat)
    <2>1. ASSUME NEW n \in S  PROVE IsFiniteSet(1 .. n) /\ 1 .. n \subseteq Nat
      <3>1. 1 \in Int /\ n \in Int
        OBVIOUS
      <3>2. IsFiniteSet(1 .. n)
        BY <3>1, FS_Interval
      <3> QED  BY <3>2
    <2> QED  BY <2>1 DEF FiniteSubsetsOf
  <1>3. PICK I \in T : \A J \in T : <<J, I>> \notin StrictSubsetOrdering(Nat)
    <2>1. T # {}
      OBVIOUS
    <2> HIDE DEF T
    <2> QED  BY <1>1, <1>2, <2>1, WFMin
  <1>4. PICK n \in S : I = 1 .. n
    BY <1>3
  <1>5. ASSUME NEW m \in S, m < n  PROVE FALSE
    <2>1. 1 .. m \subseteq I /\ 1 .. m # I
      <3>1. n \in I /\ n \notin 1 .. m
        BY <1>4, <1>5
      <3>2. \A x \in 1 .. m : x \in I
        BY <1>4, <1>5
      <3> QED  BY <3>1, <3>2
    <2>2. I \in SUBSET Nat /\ 1 .. m \in SUBSET Nat /\ 1 .. m \in T
      BY <1>4
    <2>3. <<1 .. m, I>> \in StrictSubsetOrdering(Nat)
      BY <2>1, <2>2 DEF StrictSubsetOrdering
    <2> QED  BY <1>3, <2>2, <2>3
  <1> QED  BY <1>5

LEMMA AlongTheChain ==
    ASSUME NEW lo \in Nat, NEW hi \in Nat, NEW S, lo \in S,
           \A n \in lo .. hi : n < hi /\ n \in S => n + 1 \in S
    PROVE  \A n \in lo .. hi : n \in S
  <1> DEFINE T == {n \in lo .. hi : n \notin S}
  <1> SUFFICES ASSUME T # {} PROVE FALSE
    OBVIOUS
  <1>1. T \in SUBSET Nat
    OBVIOUS
  <1>2. PICK n \in T : \A m \in T : n <= m
    <2> HIDE DEF T
    <2> QED  BY <1>1, LeastExists
  <1>3. n - 1 \in lo .. hi /\ n - 1 < hi /\ n - 1 \notin T
    BY <1>2
  <1>4. n - 1 \in S
    BY <1>3
  <1> QED  BY <1>2, <1>3, <1>4

LEMMA StageNumbers ==
    /\ Terminal \in Nat /\ Terminal >= 1
    /\ \A k : k \in Stages <=> k \in Nat /\ 1 <= k /\ k <= Terminal
    /\ \A k : k \in Links <=> k \in Nat /\ k <= Terminal
    /\ \A k \in Stages : k \in Links /\ k - 1 \in Links
    /\ \A k \in Draining : k \in Stages /\ k < Terminal
    /\ \A k \in Silent : k \in Stages /\ k < Terminal /\ k \notin Draining
    /\ \A k \in Stages : k \in Silent \/ k \in Draining \/ k = Terminal
    /\ Terminal \notin Draining /\ Terminal \notin Silent
    /\ Muxed \subseteq Stages
  BY LaneAssumption DEF Stages, Links, Silent, Muxed

------------------------------------------------------------------------------
(* What a clock moves. *)

LEMMA Moving ==
    ASSUME NEW beat \in Moves
    PROVE  /\ beat \in [Links -> Beat]
           /\ \A k \in Links : beat[k] \in Offers(k)
           /\ \A k \in Links : beat[k] \in Moved => Willing(k + 1, beat)
           /\ \A k \in Stages : beat[k] # "none" => MayGive(k, beat)
  <1> DEFINE offers == [k \in Links |-> Offers(k)]
  <1>1. /\ beat \in [Links -> UNION {offers[k] : k \in Links}]
        /\ \A k \in Links : beat[k] \in offers[k]
        /\ \A k \in Links : beat[k] \in Moved => Willing(k + 1, beat)
        /\ \A k \in Stages : beat[k] # "none" => MayGive(k, beat)
    BY Zenon DEF Moves
  <1>2. \A k \in Links : beat[k] \in Offers(k)
    BY <1>1
  <1>3. \A k : Offers(k) \subseteq Beat
    BY DEF Offers, Beat
  <1>4. beat \in [Links -> Beat]
    BY <1>1, <1>2, <1>3
  <1> QED  BY <1>1, <1>2, <1>4

\* A stage that is through with its batch, and is given nothing, gives nothing.
LEMMA Silence ==
    ASSUME NEW beat \in Moves, NEW k \in Stages, beat[k - 1] \notin Moved, Through(k)
    PROVE  beat[k] = "none"
  <1>1. beat[k] \in Beat /\ beat[k] \in Offers(k) /\ k \in Links /\ k # 0
    BY Moving, StageNumbers
  <1>2. CASE Pending(k) \/ stage[k].out = "last"
    BY <1>1, <1>2 DEF Offers, Pending
  <1>3. CASE stage[k].in = "idle"
    <2> SUFFICES ASSUME beat[k] # "none" PROVE FALSE
      OBVIOUS
    <2>1. MayGive(k, beat)
      BY Moving
    <2>2. beat[k - 1] \notin Last /\ beat[k - 1] \notin Moved
      BY DEF Moved
    <2>3. CASE beat[k] = "row"
      BY <1>3, <2>1, <2>2, <2>3 DEF MayGive
    <2>4. CASE beat[k] \in Last
      BY <1>3, <2>1, <2>2, <2>4 DEF MayGive, Last
    <2>5. CASE beat[k] = "drop"
      BY <1>3, <2>1, <2>2, <2>5 DEF MayGive, Last
    <2> QED  BY <1>1, <2>3, <2>4, <2>5 DEF Beat, Last
  <1> QED  BY <1>2, <1>3 DEF Through

\* Nothing moves along stages that are through with their batch.
LEMMA Dry ==
    ASSUME NEW beat \in Moves, NEW lo \in Links, NEW hi \in Links, lo <= hi,
           beat[lo] \notin Moved,
           \A j \in Stages : lo < j /\ j <= hi => Through(j)
    PROVE  \A j \in lo .. hi : beat[j] \notin Moved /\ (j > lo => beat[j] = "none")
  <1> DEFINE S == {j \in Nat : beat[j] \notin Moved /\ (j > lo => beat[j] = "none")}
  <1>0. lo \in Nat /\ hi \in Nat /\ hi <= Terminal /\ Terminal \in Nat
    BY StageNumbers
  <1>1. lo \in S
    BY <1>0
  <1>2. ASSUME NEW n \in lo .. hi, n < hi, n \in S  PROVE n + 1 \in S
    <2>1. n + 1 \in Stages /\ (n + 1) - 1 = n /\ lo < n + 1 /\ n + 1 <= hi
      BY <1>0, <1>2, StageNumbers
    <2>2. beat[n + 1] = "none"
      BY <1>2, <2>1, Silence
    <2> QED  BY <1>0, <1>2, <2>2 DEF Moved, Last
  <1>3. \A n \in lo .. hi : n \in S
    <2> HIDE DEF S
    <2> QED  BY <1>0, <1>1, <1>2, AlongTheChain
  <1> QED  BY <1>3

\* A source with nothing to feed moves nothing, and nor does a lane in reset.
LEMMA DryFeed ==
    ASSUME NEW beat \in Moves, source # "feeding" \/ pipeline_error_reset
    PROVE  beat[0] = "none"
  <1>1. 0 \in Links
    BY StageNumbers
  <1> QED  BY <1>1, Moving DEF Offers

\* A stage's next state is one of what it may say.
LEMMA Clocked ==
    ASSUME NEW beat, StagesClock(beat), NEW k \in Stages
    PROVE  \E said \in Says(k, beat) : stage'[k] = NextStage(k, beat, said)
  <1> DEFINE may == [j \in Stages |-> Says(j, beat)]
  <1>1. PICK said \in [Stages -> UNION {may[j] : j \in Stages}] :
          /\ \A j \in Stages : said[j] \in may[j]
          /\ stage' = [j \in Stages |-> NextStage(j, beat, said[j])]
    BY DEF StagesClock
  <1>2. said[k] \in Says(k, beat)
    BY <1>1
  <1>3. stage'[k] = NextStage(k, beat, said[k])
    BY <1>1
  <1> QED  BY <1>2, <1>3

LEMMA Domain ==
    ASSUME NEW beat, StagesClock(beat) PROVE stage' = [k \in Stages |-> stage'[k]]
  BY DEF StagesClock

\* A stage that has said its status waits with it, or starts over.
LEMMA PendingMoves ==
    ASSUME NEW beat \in Moves, StagesClock(beat), NEW k \in Stages, Pending(k),
           ~pipeline_error_reset
    PROVE  /\ stage'[k] = IF Takes(k, beat) THEN Rearmed(stage[k]) ELSE stage[k]
           /\ beat[k] = "none" /\ beat[k - 1] \notin Moved
  <1>1. stage'[k] = IF Takes(k, beat) THEN Rearmed(stage[k]) ELSE stage[k]
    BY Clocked DEF NextStage
  <1>2. k - 1 \in Links /\ (k - 1) + 1 = k /\ ~(k > Terminal) /\ k \in Links /\ k # 0
    BY StageNumbers
  <1>3. beat[k - 1] \notin Moved
    <2> SUFFICES ASSUME beat[k - 1] \in Moved PROVE FALSE
      OBVIOUS
    <2>1. Willing(k, beat)
      BY <1>2, Moving
    <2> QED  BY <1>2, <2>1 DEF Willing, Pending
  <1>4. beat[k] = "none"
    BY <1>2, Moving DEF Offers, Pending
  <1> QED  BY <1>1, <1>3, <1>4

\* A stage at rest that is given nothing stays at rest.
LEMMA RestStays ==
    ASSUME NEW beat \in Moves, StagesClock(beat), NEW k \in Stages, stage[k] = AtRest,
           beat[k - 1] \notin Moved
    PROVE  beat[k] = "none" /\ stage'[k] = AtRest
  <1>1. beat[k] = "none"
    BY Silence DEF AtRest, Through
  <1>2. PICK said \in Says(k, beat) : stage'[k] = NextStage(k, beat, said)
    BY Clocked
  <1>3. Input(stage[k], beat[k - 1], beat[k]) = "idle"
    BY <1>1 DEF Input, AtRest, Moved
  <1>4. Output(stage[k], beat[k]) = "none"
    BY <1>1 DEF Output, AtRest, Last
  <1>5. ~Pending(k)
    BY DEF Pending, AtRest
  <1>6. said = "none"
    <2>1. said = "none" \/ said \in MaySay(k, "idle", "none")
      BY <1>2, <1>3, <1>4 DEF Says
    <2> QED  BY <2>1 DEF MaySay
  <1>7. stage'[k] = IF pipeline_error_reset THEN AtRest
                    ELSE [in |-> "idle", out |-> "none", status |-> "none"]
    BY <1>1, <1>2, <1>3, <1>4, <1>5, <1>6 DEF NextStage
  <1> QED  BY <1>1, <1>7 DEF AtRest

\* A stage that the batch has been through has at most a late status a clock later.
LEMMA GoneRests ==
    ASSUME TypeOK, Shape, NEW beat \in Moves, StagesClock(beat), NEW k \in Stages, Gone(k),
           beat[k - 1] \notin Moved
    PROVE  /\ beat[k] = "none" /\ Still(k)'
           /\ stage[k] = AtRest \/ Pending(k) => stage'[k] = AtRest
  <1>0. beat[k] = "none"
    BY Silence DEF Gone, AtRest, Through
  <1>1. CASE stage[k] = AtRest
    <2>1. stage'[k] = AtRest
      BY <1>1, RestStays
    <2> QED  BY <1>0, <2>1 DEF Still, Gone
  <1>2. CASE stage[k] # AtRest
    <2>1. k \in Draining /\ stage[k].in = "ended" /\ stage[k].out = "last"
      BY <1>2 DEF Gone
    <2>2. CASE pipeline_error_reset
      <3>1. stage'[k] = AtRest
        BY <2>2, Clocked DEF NextStage
      <3> QED  BY <1>0, <3>1 DEF Still, Gone
    <2>3. CASE Pending(k) /\ ~pipeline_error_reset
      <3>1. Takes(k, beat)
        BY <2>1, <2>3 DEF Takes
      <3>2. stage'[k] = AtRest
        BY <2>1, <2>3, <3>1, PendingMoves DEF Rearmed
      <3> QED  BY <1>0, <3>2 DEF Still, Gone
    <2>4. CASE ~Pending(k) /\ ~pipeline_error_reset
      <3>1. PICK said \in Says(k, beat) : stage'[k] = NextStage(k, beat, said)
        BY Clocked
      <3>2. Input(stage[k], beat[k - 1], beat[k]) = "ended"
        BY <1>0, <2>1 DEF Input, Moved
      <3>3. Output(stage[k], beat[k]) = "last"
        BY <1>0, <2>1 DEF Output, Last
      <3>4. stage'[k] = [in |-> "ended", out |-> "last", status |-> said]
        BY <1>0, <2>1, <2>4, <3>1, <3>2, <3>3, StageNumbers DEF NextStage
      <3>5. k \in Late
        BY <2>1, <2>4 DEF Shape, Pending
      <3> QED  BY <1>0, <1>2, <2>1, <2>4, <3>4, <3>5 DEF Still, Gone
    <2> QED  BY <2>2, <2>3, <2>4
  <1> QED  BY <1>1, <1>2

\* So have all the stages in front of one.
LEMMA GoneRestBelow ==
    ASSUME TypeOK, Shape, NEW beat \in Moves, StagesClock(beat), NEW m \in Links,
           source # "feeding" \/ pipeline_error_reset,
           \A j \in Stages : j <= m => Gone(j)
    PROVE  \A j \in Links : j <= m =>
              /\ beat[j] = "none"
              /\ j \in Stages =>
                   Still(j)' /\ (stage[j] = AtRest \/ Pending(j) => stage'[j] = AtRest)
  <1>1. beat[0] = "none" /\ 0 \in Links /\ m \in Nat /\ m <= Terminal
    BY DryFeed, StageNumbers
  <1>2. \A j \in Stages : 0 < j /\ j <= m => Through(j)
    BY DEF Gone, AtRest, Through
  <1>3. \A j \in 0 .. m : beat[j] \notin Moved /\ (j > 0 => beat[j] = "none")
    BY <1>1, <1>2, Dry DEF Moved, Last
  <1> SUFFICES ASSUME NEW j \in Links, j <= m
               PROVE  /\ beat[j] = "none"
                      /\ j \in Stages =>
                           /\ Still(j)'
                           /\ stage[j] = AtRest \/ Pending(j) => stage'[j] = AtRest
    OBVIOUS
  <1>4. beat[j] = "none"
    BY <1>1, <1>3, StageNumbers
  <1>5. ASSUME j \in Stages
        PROVE  Still(j)' /\ (stage[j] = AtRest \/ Pending(j) => stage'[j] = AtRest)
    <2>1. j - 1 \in 0 .. m
      BY <1>1, <1>5, StageNumbers
    <2> QED  BY <1>3, <1>5, <2>1, GoneRests
  <1> QED  BY <1>4, <1>5

\* The lane's reset.
LEMMA ResetRests ==
    ASSUME NEW beat, StagesClock(beat), NEW k \in Stages, pipeline_error_reset
    PROVE  stage'[k] = AtRest
  BY Clocked DEF NextStage

\* A stage that has not said its status.
LEMMA FreeMoves ==
    ASSUME TypeOK, Shape, NEW beat \in Moves, StagesClock(beat), NEW k \in Stages,
           ~Pending(k), ~pipeline_error_reset,
           NEW in, in = Input(stage[k], beat[k - 1], beat[k]),
           NEW out, out = Output(stage[k], beat[k])
    PROVE  /\ \/ /\ (k \in Silent /\ out = "last") \/ beat[k] = "close"
                 /\ stage'[k] = AtRest
              \/ /\ ~((k \in Silent /\ out = "last") \/ beat[k] = "close")
                 /\ \E said \in MaySay(k, in, out) :
                      stage'[k] = [in |-> in, out |-> out, status |-> said]
           /\ in \in {"idle", "rows", "held", "ended", "sunk"}
           /\ out \in {"none", "some", "last"}
           /\ beat[k] # "none" => stage[k].in # "sunk" /\ stage[k].out # "last"
           /\ in = "ended" <=> \/ stage[k].in = "ended"
                               \/ beat[k - 1] \in Last /\ stage[k].in # "sunk"
           /\ out = "last" => in = "ended"
           /\ in = "sunk" => stage[k].in = "sunk"
           /\ in = "idle" => out = "none"
           /\ beat[k] = "close" => k \in Draining /\ out = "last"
  <1>1. PICK said \in Says(k, beat) : stage'[k] = NextStage(k, beat, said)
    BY Clocked
  <1>2. said \in MaySay(k, in, out)
    BY <1>1 DEF Says
  <1>3. stage'[k] = IF (k \in Silent /\ out = "last") \/ beat[k] = "close" THEN AtRest
                    ELSE [in |-> in, out |-> out, status |-> said]
    BY <1>1 DEF NextStage
  <1>4. /\ stage[k].in \in {"idle", "rows", "held", "ended", "sunk"}
        /\ stage[k].out \in {"none", "some", "last"}
    BY DEF TypeOK, Stage
  <1>5. /\ k - 1 \in Links /\ (k - 1) + 1 = k /\ ~(k > Terminal) /\ k \in Links /\ k # 0
        /\ beat[k] \in Beat /\ beat[k - 1] \in Beat
    BY StageNumbers, Moving
  <1>6. /\ beat[k] # "none" => stage[k].in # "sunk" /\ stage[k].out # "last"
        /\ beat[k] = "close" => k \in Draining
    BY <1>5, Moving DEF Offers
  <1>7. beat[k - 1] \in Moved => stage[k].in # "ended"
    <2> SUFFICES ASSUME beat[k - 1] \in Moved PROVE stage[k].in # "ended"
      OBVIOUS
    <2>1. Willing(k, beat)
      BY <1>5, Moving
    <2> QED  BY <1>5, <2>1 DEF Willing
  <1>8. beat[k] \in Last => beat[k - 1] \in Last \/ stage[k].in = "ended"
    <2> SUFFICES ASSUME beat[k] \in Last
                 PROVE  beat[k - 1] \in Last \/ stage[k].in = "ended"
      OBVIOUS
    <2>1. MayGive(k, beat)
      BY Moving DEF Last
    <2> QED  BY <2>1 DEF MayGive, Last
  <1>9. /\ in \in {"idle", "rows", "held", "ended", "sunk"}
        /\ in = "ended" <=> stage[k].in = "ended" \/ (beat[k - 1] \in Last /\ stage[k].in # "sunk")
        /\ in = "sunk" => stage[k].in = "sunk"
        /\ in = "idle" => stage[k].in = "idle" \/ (beat[k - 1] \in Last /\ stage[k].in = "sunk")
        /\ in = "idle" => beat[k - 1] \notin Moved \/ stage[k].in = "sunk"
    <2>1. CASE beat[k - 1] \in Last
      <3>1. stage[k].in # "ended"
        BY <1>7, <2>1 DEF Moved
      <3>2. in = IF stage[k].in = "sunk" THEN "idle" ELSE "ended"
        BY <2>1 DEF Input, Last
      <3> QED  BY <1>4, <2>1, <3>1, <3>2
    <2>2. CASE beat[k - 1] = "row"
      BY <1>4, <1>7, <2>2 DEF Input, Moved, Last
    <2>3. CASE beat[k - 1] \notin Moved
      BY <1>4, <2>3 DEF Input, Moved, Last
    <2> QED  BY <1>5, <2>1, <2>2, <2>3 DEF Beat, Moved, Last
  <1>10. /\ out \in {"none", "some", "last"}
         /\ out = "last" <=> beat[k] \in Last \/ (stage[k].out = "last" /\ beat[k] # "row")
         /\ out # "none" => stage[k].out # "none" \/ beat[k] \in Moved
    <2>1. CASE beat[k] \in Last
      BY <1>4, <2>1 DEF Output, Moved, Last
    <2>2. CASE beat[k] = "row"
      BY <1>4, <2>2 DEF Output, Moved, Last
    <2>3. CASE beat[k] \notin Moved
      BY <1>4, <2>3 DEF Output, Moved, Last
    <2> QED  BY <2>1, <2>2, <2>3 DEF Moved
  <1>11. out = "last" => in = "ended"
    <2>1. CASE beat[k] \in Last
      BY <1>6, <1>8, <1>9, <2>1 DEF Last
    <2>2. CASE stage[k].out = "last"
      BY <1>9, <2>2 DEF Shape
    <2> QED  BY <1>10, <2>1, <2>2
  <1>12. in = "idle" => out = "none"
    <2> SUFFICES ASSUME in = "idle", out # "none" PROVE FALSE
      OBVIOUS
    <2>1. CASE stage[k].in = "sunk"
      BY <1>6, <1>10, <2>1 DEF Shape, Moved, Last
    <2>2. CASE stage[k].in = "idle"
      <3>1. stage[k].out = "none"
        BY <2>2 DEF Shape, AtRest
      <3>2. beat[k] = "none"
        BY <1>9, <2>2, Silence DEF Through
      <3> QED  BY <1>10, <3>1, <3>2 DEF Moved, Last
    <2> QED  BY <1>9, <2>1, <2>2
  <1>13. beat[k] = "close" => k \in Draining /\ out = "last"
    BY <1>6, <1>10 DEF Last
  <1> QED  BY <1>2, <1>3, <1>6, <1>9, <1>10, <1>11, <1>12, <1>13

LEMMA MaySayFits ==
    ASSUME NEW k \in Stages, NEW in, NEW out, NEW said \in MaySay(k, in, out)
    PROVE  /\ said \in {"none", "good", "bad"}
           /\ k \in Draining \ Late /\ out = "last" => said = "good"
           /\ said = "good" /\ (out = "last" => in = "ended") => in = "ended" /\ out # "some"
           /\ said = "good" /\ k \in Silent => out = "none"
           /\ said = "bad" => in \in {"rows", "held", "ended"}
  <1>1. CASE k \in Draining \ Late /\ out = "last"
    BY <1>1, StageNumbers DEF MaySay
  <1>2. CASE ~(k \in Draining \ Late /\ out = "last")
    <2>1. MaySay(k, in, out) =
            {"none"}
              \union (IF in = "ended" /\ (IF k \in Silent THEN out = "none" ELSE out # "some")
                        THEN {"good"} ELSE {})
              \union (IF in \in {"rows", "held", "ended"} THEN {"bad"} ELSE {})
      BY <1>2 DEF MaySay
    <2> QED  BY <1>2, <2>1
  <1> QED  BY <1>1, <1>2

\* The last row goes through the chain after the source has given it.
LEMMA LastIsOfTheSource ==
    ASSUME Shape, NEW beat \in Moves, NEW k \in Links, beat[k] \in Last
    PROVE  source # "feeding" \/ beat[0] \in Last
  <1> SUFFICES ASSUME source = "feeding", beat[0] \notin Last PROVE FALSE
    OBVIOUS
  <1> DEFINE S == {j \in Links : beat[j] \in Last}
  <1>1. S \in SUBSET Nat /\ S # {}
    BY StageNumbers
  <1>2. PICK m \in S : \A j \in S : m <= j
    <2> HIDE DEF S
    <2> QED  BY <1>1, LeastExists
  <1>3. m \in Stages /\ m - 1 \in Links /\ m - 1 \notin S
    BY <1>2, StageNumbers
  <1>4. MayGive(m, beat)
    BY <1>2, <1>3, Moving DEF Last
  <1>5. stage[m].in = "ended"
    BY <1>2, <1>3, <1>4 DEF MayGive, Last
  <1> QED  BY <1>3, <1>5 DEF Shape

------------------------------------------------------------------------------
(* Types and shapes. *)

LEMMA StageTypes ==
    ASSUME TypeOK, Shape, NEW beat \in Moves, StagesClock(beat)
    PROVE  stage' \in [Stages -> Stage]
  <1>1. ASSUME NEW k \in Stages PROVE stage'[k] \in Stage
    <2>1. AtRest \in Stage /\ [AtRest EXCEPT !.in = "sunk"] \in Stage /\ stage[k] \in Stage
      BY DEF AtRest, Stage, TypeOK
    <2>2. CASE pipeline_error_reset
      BY <2>1, <2>2, ResetRests
    <2>3. CASE ~pipeline_error_reset /\ Pending(k)
      BY <2>1, <2>3, PendingMoves DEF Rearmed
    <2>4. CASE ~pipeline_error_reset /\ ~Pending(k)
      <3> DEFINE in == Input(stage[k], beat[k - 1], beat[k])
                 out == Output(stage[k], beat[k])
      <3> HIDE DEF in, out
      <3>1. /\ \/ stage'[k] = AtRest
               \/ \E said \in MaySay(k, in, out) :
                    stage'[k] = [in |-> in, out |-> out, status |-> said]
            /\ in \in {"idle", "rows", "held", "ended", "sunk"}
            /\ out \in {"none", "some", "last"}
        BY <2>4, FreeMoves DEF in, out
      <3>2. CASE stage'[k] = AtRest
        BY <2>1, <3>2
      <3>3. CASE stage'[k] # AtRest
        <4>1. PICK said \in MaySay(k, in, out) :
                 stage'[k] = [in |-> in, out |-> out, status |-> said]
          BY <3>1, <3>3
        <4>2. said \in {"none", "good", "bad"}
          BY MaySayFits
        <4> QED  BY <3>1, <4>1, <4>2 DEF Stage
      <3> QED  BY <3>2, <3>3
    <2> QED  BY <2>2, <2>3, <2>4
  <1>2. stage' = [k \in Stages |-> stage'[k]]
    BY Domain
  <1> QED  BY <1>1, <1>2

\* A still lane stays still until its source feeds it, and rests once the late
\* statuses are given.
LEMMA AllStillStays ==
    ASSUME TypeOK, Shape, NEW beat \in Moves, StagesClock(beat), AllStill,
           source # "feeding" \/ pipeline_error_reset
    PROVE  /\ AllStill' /\ \A k \in Links : beat[k] = "none"
           /\ (\A k \in Stages : stage[k] = AtRest \/ Pending(k)) => AllRest'
  <1>1. Terminal \in Links /\ \A k \in Links : k <= Terminal
    BY StageNumbers
  <1>2. \A k \in Stages : Gone(k)
    BY DEF AllStill, Still
  <1>3. \A j \in Links :
           /\ beat[j] = "none"
           /\ j \in Stages =>
                Still(j)' /\ (stage[j] = AtRest \/ Pending(j) => stage'[j] = AtRest)
    BY <1>1, <1>2, GoneRestBelow
  <1> QED  BY <1>3, StageNumbers DEF AllRest, AllStill

LEMMA ResetRestsAll ==
    ASSUME NEW beat, StagesClock(beat), pipeline_error_reset PROVE AllRest'
  BY ResetRests DEF AllRest

LEMMA ShapeTicks ==
    ASSUME TypeOK, Control, Shape, NEW beat \in Moves, StagesClock(beat),
           SourceClock(beat)
    PROVE  Shape'
  <1>1. CASE AllRest'
    BY <1>1 DEF AllRest, AtRest, Shape
  <1>2. CASE ~AllRest'
    <2>1. ~unit_start /\ ~pipeline_error_reset
      BY <1>2, AllStillStays, ResetRestsAll DEF Control
    <2>2. source # "feeding" \/ beat[0] \in Last => source' # "feeding"
      BY <2>1 DEF SourceClock
    <2> SUFFICES ASSUME NEW k \in Stages
                 PROVE
          /\ stage'[k].in = "idle" => stage'[k] = AtRest
          /\ stage'[k].in = "sunk" => stage'[k].out = "none" /\ stage'[k].status = "none"
          /\ stage'[k].status = "good" =>
               /\ stage'[k].in = "ended" /\ stage'[k].out # "some"
               /\ k \in Silent => stage'[k].out = "none"
          /\ stage'[k].out = "last" =>
               /\ stage'[k].in = "ended" /\ k \notin Silent
               /\ k \in Draining \ Late => stage'[k].status = "good"
          /\ stage'[k].in = "ended" => source' # "feeding"
      BY DEF Shape
    <2>3. CASE Pending(k)
      <3>1. stage'[k] = Rearmed(stage[k]) \/ stage'[k] = stage[k]
        BY <2>1, <2>3, PendingMoves
      <3>2. CASE stage'[k] = Rearmed(stage[k])
        BY <3>2 DEF Rearmed, AtRest
      <3>3. CASE stage'[k] = stage[k]
        BY <2>2, <3>3 DEF Shape
      <3> QED  BY <3>1, <3>2, <3>3
    <2>4. CASE ~Pending(k)
      <3> DEFINE in == Input(stage[k], beat[k - 1], beat[k])
                 out == Output(stage[k], beat[k])
      <3> HIDE DEF in, out
      <3>1. /\ \/ stage'[k] = AtRest
               \/ /\ ~((k \in Silent /\ out = "last") \/ beat[k] = "close")
                  /\ \E said \in MaySay(k, in, out) :
                       stage'[k] = [in |-> in, out |-> out, status |-> said]
            /\ beat[k] # "none" => stage[k].in # "sunk" /\ stage[k].out # "last"
            /\ in = "ended" => stage[k].in = "ended" \/ beat[k - 1] \in Last
            /\ out = "last" => in = "ended"
            /\ in = "sunk" => stage[k].in = "sunk"
            /\ in = "idle" => out = "none"
        BY <2>1, <2>4, FreeMoves DEF in, out
      <3>2. CASE stage'[k] = AtRest
        BY <3>2 DEF AtRest
      <3>3. CASE stage'[k] # AtRest
        <4>1. PICK said \in MaySay(k, in, out) :
                 stage'[k] = [in |-> in, out |-> out, status |-> said]
          BY <3>1, <3>3
        <4>2. ~(k \in Silent /\ out = "last")
          BY <3>1, <3>3
        <4>3. /\ said \in {"none", "good", "bad"}
              /\ k \in Draining \ Late /\ out = "last" => said = "good"
              /\ said = "good" => in = "ended" /\ out # "some"
              /\ said = "good" /\ k \in Silent => out = "none"
              /\ said = "bad" => in \in {"rows", "held", "ended"}
          BY <3>1, MaySayFits
        <4>4. in = "ended" => source' # "feeding"
          <5> SUFFICES ASSUME in = "ended" PROVE source' # "feeding"
            OBVIOUS
          <5>1. CASE stage[k].in = "ended"
            BY <2>2, <5>1 DEF Shape
          <5>2. CASE beat[k - 1] \in Last
            BY <2>2, <5>2, LastIsOfTheSource, StageNumbers
          <5> QED  BY <3>1, <5>1, <5>2
        <4>5. in = "sunk" => out = "none"
          <5> SUFFICES ASSUME in = "sunk" PROVE out = "none"
            OBVIOUS
          <5>1. stage[k].in = "sunk" /\ stage[k].out = "none" /\ beat[k] = "none"
            BY <3>1 DEF Shape
          <5> QED  BY <5>1 DEF out, Output, Last
        <4>6. in = "idle" => stage'[k] = AtRest
          BY <3>1, <4>1, <4>3 DEF AtRest
        <4> QED  BY <3>1, <4>1, <4>2, <4>3, <4>4, <4>5, <4>6
      <3> QED  BY <3>2, <3>3
    <2> QED  BY <2>3, <2>4
  <1> QED  BY <1>1, <1>2

------------------------------------------------------------------------------
(* The glue, the writer and the job control. *)

Tick(beat, noise) ==
    /\ beat \in Moves /\ noise \in (IF QuietError THEN {FALSE} ELSE BOOLEAN)
    /\ StagesClock(beat)
    /\ EmptyCloseClock(beat)
    /\ FusedErrorClock
    /\ WriterClock(beat, noise)
    /\ SourceClock(beat)

LEMMA LaneTicks == Lane => \E beat, noise : Tick(beat, noise)
  BY DEF Lane, Tick

LEMMA GlueTypes ==
    ASSUME LaneInv, NEW beat, NEW noise, Tick(beat, noise)
    PROVE  /\ source' \in {"idle", "feeding", "done"}
           /\ stage' \in [Stages -> Stage]
           /\ fused_err' \in BOOLEAN
           /\ saw_out' \in [Draining -> BOOLEAN]
           /\ empty_close' \in [Draining -> BOOLEAN]
           /\ writer' \in Writer
           /\ \A k \in Draining : stage'[k].out # "none" => saw_out'[k]
  <1>1. source' \in {"idle", "feeding", "done"}
    BY DEF Tick, SourceClock, LaneInv, TypeOK
  <1>2. stage' \in [Stages -> Stage]
    BY StageTypes DEF Tick, LaneInv
  <1>3. fused_err' \in BOOLEAN
    BY DEF Tick, FusedErrorClock, LaneInv, TypeOK
  <1>4. saw_out' \in [Draining -> BOOLEAN] /\ empty_close' \in [Draining -> BOOLEAN]
    BY DEF Tick, EmptyCloseClock
  <1>5. writer' \in Writer
    <2> DEFINE err == unit_status_error(noise)
    <2>1. writer \in Writer
      BY DEF LaneInv, TypeOK
    <2>2. err \in BOOLEAN
      BY DEF unit_status_error
    <2> HIDE DEF err
    <2>3. \/ writer' = writer
          \/ writer' = [writer EXCEPT !.phase = "run"]
          \/ writer' = [writer EXCEPT !.phase = "write"]
          \/ writer' = [phase |-> "run", done |-> FALSE, error |-> FALSE]
          \/ writer' = [phase |-> "idle", done |-> TRUE, error |-> err]
      <3>1. writer.phase \in {"idle", "run", "write"}
        BY <2>1 DEF Writer
      <3>2. CASE writer.phase = "idle"
        BY <3>2, Zenon DEF Tick, WriterClock
      <3>3. CASE writer.phase = "run"
        BY <3>3 DEF Tick, WriterClock, err
      <3>4. CASE writer.phase = "write"
        BY <3>4 DEF Tick, WriterClock
      <3> QED  BY <3>1, <3>2, <3>3, <3>4
    <2>4. \A p \in {"idle", "run", "write"}, d \in BOOLEAN, e \in BOOLEAN :
            [phase |-> p, done |-> d, error |-> e] \in Writer
      BY DEF Writer
    <2>5. \A p \in {"idle", "run", "write"} : [writer EXCEPT !.phase = p] \in Writer
      BY <2>1 DEF Writer
    <2> QED  BY <2>1, <2>2, <2>3, <2>4, <2>5
  <1>6. ASSUME NEW k \in Draining, stage'[k].out # "none" PROVE saw_out'[k]
    <2>1. ~AllRest' /\ k \in Stages
      BY <1>6, StageNumbers DEF AllRest, AtRest
    <2>2. ~job_start /\ ~pipeline_error_reset
      BY <2>1, AllStillStays, ResetRestsAll DEF Tick, LaneInv, Control
    <2>3. saw_out'[k] = (saw_out[k] \/ beat[k] \in Moved)
      BY <2>2 DEF Tick, EmptyCloseClock
    <2>4. stage[k].out # "none" \/ beat[k] \in Moved
      <3>1. CASE Pending(k)
        <4>1. stage'[k] = Rearmed(stage[k]) \/ stage'[k] = stage[k]
          BY <2>1, <2>2, <3>1, PendingMoves DEF Tick
        <4> QED  BY <1>6, <4>1 DEF Rearmed, AtRest
      <3>2. CASE ~Pending(k)
        <4>1. stage'[k] = AtRest \/ stage'[k].out = Output(stage[k], beat[k])
          <5> DEFINE in == Input(stage[k], beat[k - 1], beat[k])
                     out == Output(stage[k], beat[k])
          <5>0. /\ in = Input(stage[k], beat[k - 1], beat[k])
                /\ out = Output(stage[k], beat[k])
                /\ beat \in Moves /\ StagesClock(beat) /\ TypeOK /\ Shape
            BY DEF Tick, LaneInv
          <5> HIDE DEF in, out
          <5>1. \/ stage'[k] = AtRest
                \/ \E said \in MaySay(k, in, out) :
                     stage'[k] = [in |-> in, out |-> out, status |-> said]
            BY <2>1, <2>2, <3>2, <5>0, FreeMoves
          <5>2. CASE \E said \in MaySay(k, in, out) :
                        stage'[k] = [in |-> in, out |-> out, status |-> said]
            <6>1. PICK said : stage'[k] = [in |-> in, out |-> out, status |-> said]
              BY <5>2
            <6>2. stage'[k].out = out
              BY <6>1
            <6> QED  BY <6>2 DEF out
          <5> QED  BY <5>1, <5>2
        <4> QED  BY <1>6, <4>1 DEF AtRest, Output, Moved, Last
      <3> QED  BY <3>1, <3>2
    <2> QED  BY <2>1, <2>3, <2>4 DEF LaneInv, TypeOK
  <1> QED  BY <1>1, <1>2, <1>3, <1>4, <1>5, <1>6

\* The writer idles until a job's units start, and closes out once.
LEMMA WriterMoves ==
    ASSUME LaneInv, NEW beat, NEW noise, Tick(beat, noise)
    PROVE  /\ writer.phase = "idle" /\ ~unit_start => writer' = writer
           /\ writer.phase = "idle" /\ unit_start =>
                writer' = [phase |-> "run", done |-> FALSE, error |-> FALSE]
           /\ writer.phase # "idle" =>
                \/ /\ writer'.phase # "idle"
                   /\ writer'.done = writer.done /\ writer'.error = writer.error
                \/ /\ writer.phase = "run" /\ beat[Terminal] \notin Moved /\ unit_status_valid
                   /\ writer' = [phase |-> "idle", done |-> TRUE,
                                 error |-> unit_status_error(noise)]
  <1>1. writer \in Writer
    BY DEF LaneInv, TypeOK
  <1>2. CASE writer.phase = "idle"
    BY <1>1, <1>2 DEF Tick, WriterClock
  <1>3. CASE writer.phase = "run"
    BY <1>1, <1>3 DEF Tick, WriterClock, Writer
  <1>4. CASE writer.phase = "write"
    BY <1>1, <1>4 DEF Tick, WriterClock, Writer
  <1> QED  BY <1>1, <1>2, <1>3, <1>4 DEF Writer

\* A status that the writer takes well is behind the whole batch: of the most
\* upstream stage that waits with one, which has had all of it, or the glue's
\* own, of a stage that gave no row.
LEMMA GoodClose ==
    ASSUME LaneInv, NEW beat, NEW noise, Tick(beat, noise),
           writer.phase = "run", beat[Terminal] \notin Moved, unit_status_valid,
           ~unit_status_error(noise)
    PROVE  /\ AllStill' /\ ~fused_err /\ source # "feeding"
           /\ \A k \in Stages : Gone(k) \/ stage[k].status = "good"
  <1>1. ~fused_err /\ Running /\ ~pipeline_error_reset
    BY DEF unit_status_error, Running, LaneInv, Control
  <1>2. PICK m : /\ source # "feeding"
                 /\ \A j \in Stages : j # m => Gone(j)
                 /\ m \in Stages => Gone(m) \/ (Takes(m, beat) /\ stage[m].status = "good")
    <2>1. CASE fused_empty_close
      BY <1>1, <2>1 DEF LaneInv, Flow, ClosedEmpty
    <2>2. CASE ~fused_empty_close
      <3> DEFINE S == {k \in Muxed : Pending(k)}
      <3>1. S \in SUBSET Nat /\ S # {}
        BY <1>1, <2>2, StageNumbers DEF unit_status_valid
      <3>2. PICK m \in S : \A j \in S : m <= j
        <4> HIDE DEF S
        <4> QED  BY <3>1, LeastExists
      <3>3. m \in Stages /\ m \in Nat /\ m \notin Draining /\ Pending(m)
        BY <3>2, StageNumbers DEF Muxed
      <3>4. \A j \in Muxed : j < m => ~Pending(j)
        BY <3>2, <3>3, StageNumbers
      <3>5. stage[m].status = "good"
        <4>1. stage[m].status # "bad"
          BY <3>2, <3>4 DEF unit_status_error
        <4> QED  BY <3>3, <4>1 DEF Pending, LaneInv, TypeOK, Stage
      <3>6. stage[m].in = "ended" /\ source # "feeding" /\ (m \in Silent => stage[m].out = "none")
        BY <3>3, <3>5 DEF LaneInv, Shape
      <3>7. \A j \in Stages : j < m => Gone(j)
        BY <1>1, <3>3, <3>6 DEF LaneInv, Flow, EndPassed
      <3>8. \A j \in Stages : j > m => Gone(j)
        <4>1. CASE m = Terminal
          BY <4>1, StageNumbers
        <4>2. CASE m \in Silent
          <5>1. Ends(m)
            BY <3>3, <3>5, <3>6 DEF Ends, Gone, AtRest
          <5>2. Above(m)
            BY <3>3, <5>1 DEF Above
          <5>3. DryBelow
            BY <1>1 DEF LaneInv, Flow
          <5>4. \A j \in Stages : j > m => stage[j] = AtRest
            BY <3>3, <3>6, <4>2, <5>2, <5>3 DEF DryBelow
          <5> QED  BY <5>4 DEF Gone
        <4> QED  BY <3>2, <4>1, <4>2 DEF Muxed
      <3>9. Takes(m, beat)
        BY <3>3, <3>4 DEF Takes, unit_status_ready, Muxed
      <3>10. \A j \in Stages : j # m => j < m \/ j > m
        BY <3>3, StageNumbers
      <3> QED  BY <3>5, <3>6, <3>7, <3>8, <3>9, <3>10
    <2> QED  BY <2>1, <2>2
  <1>3. \A k \in Stages : Through(k)
    BY <1>2 DEF Gone, AtRest, Pending, Takes, Through
  <1>4. \A k \in Links : beat[k] = "none"
    <2>1. 0 \in Links /\ Terminal \in Links /\ 0 <= Terminal /\ beat \in Moves
      BY StageNumbers DEF Tick
    <2>2. beat[0] = "none"
      BY <1>2, <2>1, DryFeed
    <2>3. \A j \in 0 .. Terminal : beat[j] \notin Moved /\ (j > 0 => beat[j] = "none")
      BY <1>3, <2>1, <2>2, Dry DEF Moved, Last
    <2> QED  BY <2>2, <2>3 DEF Links
  <1>5. ASSUME NEW k \in Stages PROVE Still(k)'
    <2>1. beat \in Moves /\ StagesClock(beat) /\ beat[k - 1] \notin Moved
      BY <1>4, StageNumbers DEF Tick, Moved, Last
    <2>2. CASE Gone(k)
      BY <2>1, <2>2, GoneRests DEF LaneInv
    <2>3. CASE ~Gone(k)
      <3>1. Takes(k, beat) /\ stage[k].status = "good"
        BY <1>2, <2>3
      <3>2. stage[k].in = "ended"
        BY <3>1 DEF LaneInv, Shape
      <3>3. stage'[k] = AtRest
        BY <1>1, <2>1, <3>1, <3>2, PendingMoves DEF Takes, Rearmed
      <3> QED  BY <3>3 DEF Still, Gone
    <2> QED  BY <2>2, <2>3
  <1>6. \A k \in Stages : Gone(k) \/ stage[k].status = "good"
    BY <1>2
  <1> QED  BY <1>1, <1>2, <1>5, <1>6 DEF AllStill

------------------------------------------------------------------------------
(* The job goes on. *)

\* No stage that has given its last row owes a status.
Closed == \A k \in Draining : stage[k].out = "last" => Pending(k)

LEMMA JobMoves ==
    ASSUME LaneInv, Clock
    PROVE  \E beat, noise :
             /\ Tick(beat, noise)
             /\ \/ /\ job = "over" /\ job' = "run" /\ job_start' = TRUE
                   /\ unit_start' \in BOOLEAN /\ pipeline_error_reset' = FALSE
                   /\ Closed'
                \/ /\ job = "run" /\ job_start /\ ~unit_start /\ job' = "refused"
                   /\ job_start' = FALSE /\ unit_start' = FALSE
                   /\ pipeline_error_reset' = FALSE
                \/ /\ job = "run" /\ LaneDone /\ job' = "after"
                   /\ job_start' = FALSE /\ unit_start' = FALSE
                   /\ pipeline_error_reset' \in {writer.error, TRUE}
                \/ /\ job = "refused" /\ job' = "after"
                   /\ job_start' = FALSE /\ unit_start' = FALSE
                \/ /\ job \in {"over", "run"} /\ ~(job_start /\ ~unit_start)
                   /\ job' = job /\ job_start' = FALSE /\ unit_start' = FALSE
                   /\ pipeline_error_reset' = FALSE
                \/ /\ job = "after" /\ job' = "over" /\ job_start' = FALSE
                   /\ unit_start' = FALSE /\ pipeline_error_reset' = FALSE
  <1>1. job \in {"over", "run"} => pipeline_error_reset = FALSE
    BY DEF LaneInv, Control, TypeOK
  <1>2. Lane
    BY DEF Clock, Submit, Refuse, Finish, Run, After
  <1>3. PICK beat, noise : Tick(beat, noise)
    BY <1>2, LaneTicks
  <1>4. Submit => Closed'
    BY DEF Submit, Closed, Pending
  <1> QED  BY <1>1, <1>3, <1>4 DEF Clock, Submit, Refuse, Finish, Run, After, NoPulse

\* A writer that idles over a lane that has no error finds nothing in it.
LEMMA IdleStays ==
    ASSUME LaneInv, NEW beat, NEW noise, Tick(beat, noise)
    PROVE  writer'.phase = "idle" /\ ~writer'.error => source' # "feeding" /\ AllStill'
  <1> SUFFICES ASSUME writer'.phase = "idle", ~writer'.error
               PROVE  source' # "feeding" /\ AllStill'
    OBVIOUS
  <1>1. ~unit_start
    BY WriterMoves DEF LaneInv, Control
  <1>2. CASE writer.phase = "idle"
    <2>1. writer' = writer
      BY <1>1, <1>2, WriterMoves
    <2>2. source # "feeding" /\ AllStill
      BY <1>2, <2>1 DEF LaneInv, Control
    <2>3. AllStill'
      BY <2>2, AllStillStays DEF Tick, LaneInv
    <2> QED  BY <1>1, <2>2, <2>3 DEF Tick, SourceClock
  <1>3. CASE writer.phase # "idle"
    <2>1. /\ writer.phase = "run" /\ beat[Terminal] \notin Moved /\ unit_status_valid
          /\ writer' = [phase |-> "idle", done |-> TRUE, error |-> unit_status_error(noise)]
      BY <1>3, WriterMoves
    <2>2. ~unit_status_error(noise)
      BY <2>1
    <2>3. AllStill' /\ source # "feeding"
      BY <2>1, <2>2, GoodClose
    <2> QED  BY <1>1, <2>3 DEF Tick, SourceClock
  <1> QED  BY <1>2, <1>3

LEMMA ControlTicks ==
    ASSUME LaneInv, Clock
    PROVE  Control'
  <1>1. PICK beat, noise :
             /\ Tick(beat, noise)
             /\ \/ /\ job = "over" /\ job' = "run" /\ job_start' = TRUE
                   /\ unit_start' \in BOOLEAN /\ pipeline_error_reset' = FALSE
                   /\ Closed'
                \/ /\ job = "run" /\ job_start /\ ~unit_start /\ job' = "refused"
                   /\ job_start' = FALSE /\ unit_start' = FALSE
                   /\ pipeline_error_reset' = FALSE
                \/ /\ job = "run" /\ LaneDone /\ job' = "after"
                   /\ job_start' = FALSE /\ unit_start' = FALSE
                   /\ pipeline_error_reset' \in {writer.error, TRUE}
                \/ /\ job = "refused" /\ job' = "after"
                   /\ job_start' = FALSE /\ unit_start' = FALSE
                \/ /\ job \in {"over", "run"} /\ ~(job_start /\ ~unit_start)
                   /\ job' = job /\ job_start' = FALSE /\ unit_start' = FALSE
                   /\ pipeline_error_reset' = FALSE
                \/ /\ job = "after" /\ job' = "over" /\ job_start' = FALSE
                   /\ unit_start' = FALSE /\ pipeline_error_reset' = FALSE
    BY JobMoves
  <1>2. beat \in Moves /\ StagesClock(beat) /\ SourceClock(beat)
    BY <1>1 DEF Tick
  <1>3. /\ writer.phase = "idle" /\ ~unit_start => writer' = writer
        /\ writer.phase = "idle" /\ unit_start =>
             writer' = [phase |-> "run", done |-> FALSE, error |-> FALSE]
        /\ writer.phase # "idle" =>
             \/ /\ writer'.phase # "idle"
                /\ writer'.done = writer.done /\ writer'.error = writer.error
             \/ writer'.phase = "idle" /\ writer'.done
    <2>1. /\ writer.phase = "idle" /\ ~unit_start => writer' = writer
          /\ writer.phase = "idle" /\ unit_start =>
               writer' = [phase |-> "run", done |-> FALSE, error |-> FALSE]
      BY <1>1, WriterMoves
    <2>2. writer.phase # "idle" =>
             \/ /\ writer'.phase # "idle"
                /\ writer'.done = writer.done /\ writer'.error = writer.error
             \/ writer' = [phase |-> "idle", done |-> TRUE,
                           error |-> unit_status_error(noise)]
      BY <1>1, WriterMoves
    <2> QED  BY <2>1, <2>2
  <1>4. writer'.phase = "idle" /\ ~writer'.error => source' # "feeding" /\ AllStill'
    BY <1>1, IdleStays
  <1>5. ~unit_start => /\ source # "feeding" => source' # "feeding"
                       /\ source # "idle" => source' # "idle"
    BY <1>2 DEF SourceClock
  <1>6. unit_start => source' = "feeding"
    BY <1>2 DEF SourceClock
  <1>7. (source # "feeding" \/ pipeline_error_reset) /\ AllStill => AllStill'
    BY <1>2, AllStillStays DEF LaneInv
  <1>8. pipeline_error_reset => AllStill'
    BY <1>2, ResetRestsAll DEF AllRest, AllStill, Still, Gone
  <1>9. CASE job \in {"over", "refused"}
    <2>1. /\ writer.phase = "idle" /\ source # "feeding" /\ AllStill
          /\ ~job_start /\ ~unit_start
      BY <1>9 DEF LaneInv, Control
    <2>2. writer' = writer /\ source' # "feeding" /\ AllStill'
      BY <2>1, <1>3, <1>5, <1>7
    <2>3. /\ job' \in {"over", "run", "after"}
          /\ pipeline_error_reset' => job' = "after"
          /\ (unit_start' => job_start') /\ (job_start' => job' = "run" /\ Closed')
          /\ (job' = "run" => job_start')
      BY <1>1, <1>9
    <2>4. Closed' => \A k \in Stages : stage'[k] = AtRest \/ Pending(k)'
      BY <2>2 DEF Closed, AllStill, Still, Gone
    <2> QED  BY <1>4, <2>1, <2>2, <2>3, <2>4 DEF Control
  <1>10. CASE job = "after"
    <2>1. /\ writer.phase = "idle" /\ source # "feeding"
          /\ pipeline_error_reset \/ AllStill
          /\ ~job_start /\ ~unit_start
      BY <1>10 DEF LaneInv, Control
    <2>2. writer' = writer /\ source' # "feeding" /\ AllStill'
      BY <2>1, <1>3, <1>5, <1>7, <1>8
    <2>3. job' = "over" /\ pipeline_error_reset' = FALSE /\ ~unit_start' /\ ~job_start'
      BY <1>1, <1>10
    <2> QED  BY <1>4, <2>1, <2>2, <2>3 DEF Control
  <1>11. CASE job = "run"
    <2>1. ~unit_start' /\ ~job_start' /\ job' \in {"run", "refused", "after"}
      BY <1>1, <1>11
    <2>2. /\ unit_start => writer.phase = "idle"
          /\ writer.phase # "idle" => ~writer.done /\ ~writer.error /\ source # "idle"
      BY DEF LaneInv, Control
    <2>3. writer'.phase # "idle" => ~writer'.done /\ ~writer'.error /\ source' # "idle"
      BY <1>3, <1>5, <1>6, <2>2
    <2>4. CASE job' = "after"
      <3>1. LaneDone /\ pipeline_error_reset' \in {writer.error, TRUE}
        BY <1>1, <1>11, <2>4
      <3>2. writer.phase = "idle" /\ ~unit_start /\ source # "feeding"
        BY <3>1 DEF LaneDone, LaneInv, Control
      <3>3. writer' = writer /\ source' # "feeding"
        BY <3>2, <1>3, <1>5
      <3>4. pipeline_error_reset' \/ AllStill'
        <4>1. CASE writer.error
          BY <3>1, <4>1
        <4>2. CASE ~writer.error
          BY <1>4, <3>2, <3>3, <4>2
        <4> QED  BY <4>1, <4>2
      <3> QED  BY <1>4, <2>1, <2>4, <3>2, <3>3, <3>4 DEF Control
    <2>6. CASE job' = "refused"
      <3>1. job_start /\ ~unit_start /\ ~pipeline_error_reset'
        BY <1>1, <1>11, <2>6
      <3>2. writer.phase = "idle" /\ source # "feeding" /\ AllStill
        BY <3>1 DEF LaneInv, Control
      <3>3. writer' = writer /\ source' # "feeding" /\ AllStill'
        BY <1>3, <1>5, <1>7, <3>1, <3>2
      <3> QED  BY <1>4, <2>1, <2>6, <3>1, <3>2, <3>3 DEF Control
    <2>5. CASE job' = "run"
      <3>1. ~(job_start /\ ~unit_start) /\ ~pipeline_error_reset'
        BY <1>1, <1>11, <2>5
      <3>2. writer'.phase = "idle" => writer'.done
        <4>1. CASE writer.phase # "idle"
          BY <1>3, <4>1
        <4>2. CASE writer.phase = "idle" /\ unit_start
          BY <1>3, <4>2
        <4>3. CASE writer.phase = "idle" /\ ~unit_start
          BY <1>3, <1>11, <3>1, <4>3 DEF LaneInv, Control
        <4> QED  BY <4>1, <4>2, <4>3
      <3> QED  BY <1>4, <2>1, <2>3, <2>5, <3>1, <3>2 DEF Control
    <2> QED  BY <2>1, <2>4, <2>5, <2>6
  <1> QED  BY <1>9, <1>10, <1>11 DEF LaneInv, TypeOK

------------------------------------------------------------------------------
(* The batch goes through the chain. *)

\* A clock in the middle of a job, before and after which no draining stage has
\* failed.
Flowing(beat, noise) ==
    Tick(beat, noise) /\ LaneInv /\ ~unit_start /\ Running'

LEMMA FlowGoesOn ==
    ASSUME NEW beat, NEW noise, Flowing(beat, noise)
    PROVE  /\ beat \in Moves /\ StagesClock(beat)
           /\ TypeOK /\ Shape /\ Shape'
           /\ Running /\ NoneSunk /\ EndPassed /\ DryBelow /\ EndSomewhere /\ ClosedEmpty
           /\ ~Raising /\ ~pipeline_error_reset /\ ~job_start
           /\ source' = IF beat[0] \in Last THEN "done" ELSE source
           /\ \A k \in Stages : Pending(k) =>
                IF k \in Draining THEN stage[k].status = "good" /\ stage'[k] = AtRest
                ELSE stage'[k] = stage[k]
  <1>1. /\ beat \in Moves /\ StagesClock(beat) /\ TypeOK /\ Control /\ Shape /\ Tick(beat, noise)
        /\ SourceClock(beat)
    BY DEF Flowing, Tick, LaneInv
  <1>2. Shape'
    BY <1>1, ShapeTicks DEF Flowing
  <1>3. writer.phase # "idle" /\ writer'.phase # "idle"
    BY <1>1, WriterMoves DEF Flowing, Running
  <1>4. ~job_start /\ ~pipeline_error_reset
    BY <1>1, <1>3 DEF Control
  <1>5. ~fused_err /\ ~Raising
    <2>1. ~fused_err'
      BY DEF Flowing, Running
    <2>2. fused_err' = IF ~fused_err /\ Raising THEN TRUE ELSE fused_err
      BY <1>1, <1>4 DEF Tick, FusedErrorClock, TypeOK
    <2> QED  BY <2>1, <2>2
  <1>6. NoneSunk /\ EndPassed /\ DryBelow /\ EndSomewhere /\ ClosedEmpty /\ Running
    BY <1>3, <1>5 DEF Flowing, LaneInv, Flow, Running
  <1>7. source' = IF beat[0] \in Last THEN "done" ELSE source
    BY <1>1 DEF SourceClock, Flowing
  <1>8. ASSUME NEW k \in Stages, Pending(k)
        PROVE  IF k \in Draining THEN stage[k].status = "good" /\ stage'[k] = AtRest
               ELSE stage'[k] = stage[k]
    <2>1. stage'[k] = IF Takes(k, beat) THEN Rearmed(stage[k]) ELSE stage[k]
      BY <1>1, <1>4, <1>8, PendingMoves
    <2>2. CASE k \in Draining
      <3>1. Takes(k, beat)
        BY <1>8, <2>2 DEF Takes
      <3>2. stage[k].status # "bad"
        BY <1>5, <2>2 DEF Raising
      <3>3. stage[k].status = "good"
        BY <1>1, <1>8, <3>2 DEF TypeOK, Stage, Pending
      <3> QED  BY <2>1, <2>2, <3>1, <3>3 DEF Rearmed
    <2>3. CASE k \notin Draining
      <3>1. k \in Muxed
        BY <2>3, StageNumbers DEF Muxed
      <3>2. ASSUME Takes(k, beat) PROVE FALSE
        <4>1. writer.phase = "run" /\ beat[Terminal] \notin Moved
          BY <2>3, <3>2 DEF Takes, unit_status_ready
        <4>2. unit_status_valid
          BY <1>8, <3>1 DEF unit_status_valid
        <4>3. writer' \in {[phase |-> "idle", done |-> TRUE, error |-> unit_status_error(noise)]}
          BY <1>1, <4>1, <4>2 DEF Tick, WriterClock
        <4> QED  BY <1>3, <4>3
      <3> QED  BY <2>1, <2>3, <3>2
    <2> QED  BY <2>2, <2>3
  <1> QED  BY <1>1, <1>2, <1>4, <1>5, <1>6, <1>7, <1>8

\* What a clock does to the end of the batch in a stage.
LEMMA FlowStage ==
    ASSUME NEW beat, NEW noise, Flowing(beat, noise), NEW k \in Stages
    PROVE  /\ stage'[k].in # "sunk"
           /\ stage'[k].in = "ended" => stage[k].in = "ended" \/ beat[k - 1] \in Last
           /\ Ends(k)' => Ends(k) \/ beat[k - 1] \in Last
           /\ Ends(k) => \/ Ends(k)'
                         \/ beat[k] \in Last /\ k < Terminal
                         \/ /\ k \in Draining /\ stage[k].status = "good"
                            /\ stage[k].out = "none"
           /\ beat[k - 1] \in Last =>
                Ends(k)' \/ (beat[k] \in Last /\ k < Terminal)
           /\ beat[k] \in Last /\ k < Terminal => Gone(k)'
           /\ stage'[k].out = "none" =>
                \/ Gone(k) /\ stage[k] # AtRest
                \/ stage[k].out = "none" /\ beat[k] \notin Moved
                \/ Gone(k)' /\ beat[k] \in Last /\ k < Terminal
  <1>0. beat \in Moves /\ StagesClock(beat) /\ TypeOK /\ Shape /\ ~pipeline_error_reset
    BY FlowGoesOn
  <1>1. /\ k - 1 \in Links /\ (k - 1) + 1 = k /\ ~(k > Terminal)
        /\ k <= Terminal /\ (k < Terminal \/ k = Terminal) /\ Terminal \notin Draining
        /\ k < Terminal => k \in Silent \/ k \in Draining
        /\ Terminal \notin Silent
    BY StageNumbers
  <1>2. stage[k].in # "sunk"
    BY FlowGoesOn DEF NoneSunk
  <1>3. CASE Pending(k)
    <2>1. beat[k] = "none" /\ beat[k - 1] \notin Moved
      BY <1>0, <1>3, PendingMoves
    <2>2. CASE k \in Draining
      <3>1. stage[k].status = "good" /\ stage'[k] = AtRest
        BY <1>3, <2>2, FlowGoesOn
      <3>2. stage[k].in = "ended" /\ stage[k].out # "some"
        BY <1>0, <3>1 DEF Shape
      <3>3. stage[k] \in Stage
        BY <1>0 DEF TypeOK
      <3>4. stage[k].out = "none" \/ Gone(k)
        BY <2>2, <3>2, <3>3 DEF Stage, Gone
      <3>5. ~Ends(k)'
        BY <3>1 DEF Ends, AtRest
      <3>6. stage[k] # AtRest
        BY <3>1 DEF AtRest
      <3> QED  BY <1>3, <2>1, <2>2, <3>1, <3>4, <3>5, <3>6 DEF AtRest, Ends, Moved, Last
    <2>3. CASE k \notin Draining
      <3>1. stage'[k] = stage[k]
        BY <1>3, <2>3, FlowGoesOn
      <3>2. Ends(k)' <=> Ends(k)
        BY <3>1 DEF Ends, Gone
      <3> QED  BY <1>2, <2>1, <3>1, <3>2 DEF Moved, Last, Ends
    <2> QED  BY <2>2, <2>3
  <1>5. CASE ~Pending(k) /\ k \in Draining /\ stage[k].out = "last"
    <2>1. stage[k].in = "ended" /\ Gone(k) /\ stage[k] # AtRest /\ ~Ends(k)
      BY <1>0, <1>5 DEF Shape, Gone, AtRest, Ends
    <2>2. beat[k - 1] \notin Moved
      <3> SUFFICES ASSUME beat[k - 1] \in Moved PROVE FALSE
        OBVIOUS
      <3>1. Willing(k, beat)
        BY <1>0, <1>1, Moving
      <3> QED  BY <1>1, <2>1, <3>1 DEF Willing
    <2>3. beat[k] = "none" /\ Still(k)'
      BY <1>0, <2>1, <2>2, GoneRests
    <2>4. ~Ends(k)' /\ stage'[k].in # "sunk"
      BY <2>3 DEF Still, Gone, Ends, AtRest
    <2> QED  BY <2>1, <2>2, <2>3, <2>4 DEF Moved, Last
  <1>4. CASE ~Pending(k) /\ ~(k \in Draining /\ stage[k].out = "last")
    <2> DEFINE in == Input(stage[k], beat[k - 1], beat[k])
               out == Output(stage[k], beat[k])
    <2>0. out = IF beat[k] = "row" THEN "some" ELSE IF beat[k] \in Last THEN "last"
                ELSE stage[k].out
      BY DEF Output, Last
    <2>1. beat[k] \in Last => out = "last"
      BY <2>0 DEF Last
    <2>2. out = "last" => beat[k] \in Last \/ stage[k].out = "last"
      BY <2>0
    <2>3. out = "none" => stage[k].out = "none" /\ beat[k] \notin Moved
      BY <2>0 DEF Moved
    <2> HIDE DEF in, out
    <2>4. /\ \/ /\ (k \in Silent /\ out = "last") \/ beat[k] = "close"
                /\ stage'[k] = AtRest
             \/ \E said \in MaySay(k, in, out) :
                  stage'[k] = [in |-> in, out |-> out, status |-> said]
          /\ k \in Silent /\ out = "last" => stage'[k] = AtRest
          /\ beat[k] = "close" => k \in Draining /\ out = "last"
          /\ in = "ended" <=> stage[k].in = "ended" \/ beat[k - 1] \in Last
          /\ out = "last" => in = "ended"
          /\ in = "sunk" => stage[k].in = "sunk"
      BY <1>0, <1>2, <1>4, FreeMoves DEF in, out
    <2>5. stage[k].out = "last" => k = Terminal
      BY <1>0, <1>1, <1>4 DEF Shape
    <2>6. CASE stage'[k] = AtRest /\ ((k \in Silent /\ out = "last") \/ beat[k] = "close")
      <3>1. beat[k] \in Last /\ k < Terminal
        BY <1>1, <2>2, <2>4, <2>5, <2>6, StageNumbers DEF Last
      <3>2. Gone(k)' /\ ~Ends(k)'
        BY <2>6 DEF Gone, Ends
      <3> QED  BY <2>6, <3>1, <3>2 DEF AtRest
    <2>7. CASE ~(k \in Silent /\ out = "last") /\
               \E said \in MaySay(k, in, out) :
                  stage'[k] = [in |-> in, out |-> out, status |-> said]
      <3>1. PICK said \in MaySay(k, in, out) :
               stage'[k] = [in |-> in, out |-> out, status |-> said]
        BY <2>7
      <3>2. /\ stage'[k].in = in /\ stage'[k].out = out /\ stage'[k].status = said
        BY <3>1
      <3>3. k \in Draining /\ out = "last" => Gone(k)'
        BY <2>4, <3>2 DEF Gone
      <3>4. Gone(k)' /\ in = "ended" => beat[k] \in Last /\ k < Terminal
        <4> SUFFICES ASSUME Gone(k)', in = "ended" PROVE beat[k] \in Last /\ k < Terminal
          OBVIOUS
        <4>1. k \in Draining /\ out = "last"
          BY <3>2 DEF Gone, AtRest
        <4> QED  BY <1>1, <2>2, <2>5, <4>1
      <3>5. Ends(k)' <=> in = "ended" /\ ~Gone(k)'
        BY <3>2 DEF Ends
      <3>6. beat[k] \in Last /\ k < Terminal => Gone(k)'
        BY <1>1, <2>1, <2>7, <3>3
      <3>7. Ends(k) => in = "ended"
        BY <2>4 DEF Ends
      <3>8. Ends(k)' => Ends(k) \/ beat[k - 1] \in Last
        <4> SUFFICES ASSUME Ends(k)', beat[k - 1] \notin Last PROVE Ends(k)
          OBVIOUS
        <4>1. stage[k].in = "ended"
          BY <2>4, <3>5
        <4>2. ~Gone(k)
          BY <1>4, <4>1 DEF Gone, AtRest
        <4> QED  BY <4>1, <4>2 DEF Ends
      <3>9. stage'[k].out = "none" => stage[k].out = "none" /\ beat[k] \notin Moved
        BY <2>3, <3>2
      <3>10. stage'[k].in # "sunk"
        BY <1>2, <2>4, <3>2
      <3>11. stage'[k].in = "ended" => stage[k].in = "ended" \/ beat[k - 1] \in Last
        BY <2>4, <3>2
      <3>12. beat[k - 1] \in Last => in = "ended"
        BY <2>4
      <3> QED  BY <3>4, <3>5, <3>6, <3>7, <3>8, <3>9, <3>10, <3>11, <3>12
    <2>8. (k \in Silent /\ out = "last") \/ ~(k \in Silent /\ out = "last")
      OBVIOUS
    <2> QED  BY <2>4, <2>6, <2>7, <2>8
  <1> QED  BY <1>3, <1>4, <1>5

\* A last row that a link moves leaves nothing of the batch in front of it.
LEMMA LastPasses ==
    ASSUME NEW beat, NEW noise, Flowing(beat, noise),
           NEW m \in Links, beat[m] \in Last, m < Terminal
    PROVE  source' # "feeding" /\ \A i \in Stages : i <= m => Gone(i)'
  <1> DEFINE S == {n \in Nat : beat[n] \in Last => \A i \in Stages : i <= n => Gone(i)'}
  <1>0. beat \in Moves /\ StagesClock(beat) /\ TypeOK /\ Shape /\ EndPassed
    BY FlowGoesOn
  <1>1. source' # "feeding"
    BY <1>0, LastIsOfTheSource, FlowGoesOn
  <1>2. 0 \in S
    BY StageNumbers
  <1>3. m \in Nat
    BY StageNumbers
  <1>4. ASSUME NEW n \in 0 .. m, n < m, n \in S  PROVE n + 1 \in S
    <2> SUFFICES ASSUME beat[n + 1] \in Last, NEW i \in Stages, i <= n + 1  PROVE Gone(i)'
      BY <1>3
    <2>1. n + 1 \in Stages /\ (n + 1) - 1 = n /\ n + 1 < Terminal /\ n \in Links
      BY <1>3, <1>4, StageNumbers
    <2>2. Gone(n + 1)'
      BY <2>1, FlowStage
    <2>3. MayGive(n + 1, beat)
      BY <1>0, <2>1, Moving DEF Last
    <2>4. beat[n] \in Last \/ stage[n + 1].in = "ended"
      BY <2>1, <2>3 DEF MayGive, Last
    <2>5. CASE beat[n] \in Last
      <3>1. i <= n \/ i = n + 1
        BY <1>3, <1>4, StageNumbers
      <3> QED  BY <1>4, <2>2, <2>5, <3>1
    <2>6. CASE stage[n + 1].in = "ended"
      <3>1. source # "feeding"
        BY <1>0, <2>1, <2>6 DEF Shape
      <3>2. \A j \in Stages : j <= n => Gone(j)
        BY <1>0, <1>3, <1>4, <2>1, <2>6, StageNumbers DEF EndPassed
      <3>3. \A j \in Stages : j <= n => Still(j)'
        BY <1>0, <2>1, <3>1, <3>2, GoneRestBelow, StageNumbers
      <3>4. i <= n \/ i = n + 1
        BY <1>3, <1>4, StageNumbers
      <3> QED  BY <2>2, <3>3, <3>4 DEF Still
    <2> QED  BY <2>4, <2>5, <2>6
  <1>5. \A n \in 0 .. m : n \in S
    <2> HIDE DEF S
    <2> QED  BY <1>2, <1>3, <1>4, AlongTheChain
  <1>6. m \in S
    BY <1>3, <1>5
  <1> QED  BY <1>1, <1>6

\* It ends up in a stage behind it.
LEMMA LastArrives ==
    ASSUME NEW beat, NEW noise, Flowing(beat, noise),
           NEW m \in Links, beat[m] \in Last, m < Terminal
    PROVE  \E k \in Stages : Ends(k)'
  <1> SUFFICES ASSUME \A k \in Stages : ~Ends(k)' PROVE FALSE
    OBVIOUS
  <1> DEFINE S == {n \in Nat : beat[n] \in Last}
  <1>1. m \in Nat /\ Terminal - 1 \in Nat /\ m <= Terminal - 1 /\ m \in S
    BY StageNumbers
  <1>2. ASSUME NEW n \in m .. (Terminal - 1), n < Terminal - 1, n \in S  PROVE n + 1 \in S
    <2>1. n + 1 \in Stages /\ (n + 1) - 1 = n /\ n + 1 \in Nat
      BY <1>1, <1>2, StageNumbers
    <2> QED  BY <1>2, <2>1, FlowStage
  <1>3. \A n \in m .. (Terminal - 1) : n \in S
    <2> HIDE DEF S
    <2> QED  BY <1>1, <1>2, AlongTheChain
  <1>4. Terminal \in Stages /\ beat[Terminal - 1] \in Last /\ ~(Terminal < Terminal)
    BY <1>1, <1>3, StageNumbers
  <1> QED  BY <1>4, FlowStage

\* A draining stage that closes out without a row leaves nothing of the batch.
LEMMA DrainsOut ==
    ASSUME NEW beat, NEW noise, Flowing(beat, noise),
           NEW k \in Draining, stage[k].status = "good", stage[k].out = "none"
    PROVE  source' # "feeding" /\ AllStill'
  <1>1. /\ beat \in Moves /\ StagesClock(beat) /\ TypeOK /\ Shape /\ EndPassed /\ DryBelow
        /\ k \in Stages /\ k \in Nat
    BY FlowGoesOn, StageNumbers
  <1>2. stage[k].in = "ended" /\ source # "feeding" /\ Pending(k)
    BY <1>1 DEF Shape, Pending
  <1>3. \A j \in Stages : j < k => Gone(j)
    BY <1>1, <1>2 DEF EndPassed
  <1>4. Above(k)
    BY <1>1, <1>2 DEF Above, Ends, Gone, AtRest
  <1>5. \A j \in Stages : j > k => stage[j] = AtRest
    BY <1>1, <1>4 DEF DryBelow
  <1>6. \A j \in Stages : j # k => Gone(j)
    <2>1. \A j \in Stages : j # k => j < k \/ j > k
      BY <1>1, StageNumbers
    <2> QED  BY <1>3, <1>5, <2>1 DEF Gone
  <1>7. \A j \in Stages : Through(j)
    BY <1>2, <1>6 DEF Gone, AtRest, Through
  <1>8. 0 \in Links /\ Terminal \in Links /\ 0 <= Terminal /\ beat[0] = "none"
    BY <1>1, <1>2, DryFeed, StageNumbers
  <1>9. \A j \in 0 .. Terminal : beat[j] \notin Moved
    BY <1>1, <1>7, <1>8, Dry DEF Moved, Last
  <1>10. ASSUME NEW j \in Stages PROVE Still(j)'
    <2>1. beat[j - 1] \notin Moved
      BY <1>9, StageNumbers
    <2>2. CASE j = k
      <3>1. stage'[j] = AtRest
        BY <1>1, <1>2, <2>2, FlowGoesOn
      <3> QED  BY <3>1 DEF Still, Gone
    <2>3. CASE j # k
      BY <1>1, <1>6, <2>1, <2>3, GoneRests
    <2> QED  BY <2>2, <2>3
  <1>11. source' # "feeding"
    BY <1>2, <1>8, FlowGoesOn DEF Last
  <1> QED  BY <1>10, <1>11 DEF AllStill

\* A lane that the whole batch has left stays left.
LEMMA GoneOut ==
    ASSUME NEW beat, NEW noise, Flowing(beat, noise), source # "feeding",
           \A k \in Stages : Gone(k)
    PROVE  source' # "feeding" /\ AllStill'
  <1>1. beat \in Moves /\ StagesClock(beat) /\ TypeOK /\ Shape /\ Terminal \in Links
    BY FlowGoesOn, StageNumbers
  <1>2. \A j \in Links : j <= Terminal => (j \in Stages => Still(j)')
    BY <1>1, GoneRestBelow
  <1>3. beat[0] = "none"
    BY <1>1, DryFeed
  <1> QED  BY <1>2, <1>3, FlowGoesOn, StageNumbers DEF AllStill, Last

LEMMA EndPassedTicks ==
    ASSUME NEW beat, NEW noise, Flowing(beat, noise) PROVE EndPassed'
  <1> SUFFICES ASSUME NEW k \in Stages, stage'[k].in = "ended",
                      NEW j \in Stages, j < k
               PROVE  Gone(j)'
    BY DEF EndPassed
  <1>1. stage[k].in = "ended" \/ beat[k - 1] \in Last
    BY FlowStage
  <1>2. k - 1 \in Links /\ j <= k - 1 /\ k - 1 < Terminal
    BY StageNumbers
  <1>3. CASE beat[k - 1] \in Last
    BY <1>2, <1>3, LastPasses
  <1>4. CASE stage[k].in = "ended"
    <2>1. beat \in Moves /\ StagesClock(beat) /\ TypeOK /\ Shape /\ source # "feeding"
      BY <1>4, FlowGoesOn DEF Shape
    <2>2. \A i \in Stages : i <= k - 1 => Gone(i)
      BY <1>4, FlowGoesOn, StageNumbers DEF EndPassed
    <2>3. Still(j)'
      BY <1>2, <2>1, <2>2, GoneRestBelow, StageNumbers
    <2> QED  BY <2>3 DEF Still
  <1> QED  BY <1>1, <1>3, <1>4

LEMMA EndSomewhereTicks ==
    ASSUME NEW beat, NEW noise, Flowing(beat, noise) PROVE EndSomewhere'
  <1> SUFFICES ASSUME source' # "feeding"
               PROVE  (\E k \in Stages : Ends(k)') \/ \A k \in Stages : Gone(k)'
    BY DEF EndSomewhere
  <1>1. CASE beat[0] \in Last
    BY <1>1, LastArrives, StageNumbers
  <1>2. CASE beat[0] \notin Last /\ \A k \in Stages : Gone(k)
    <2>1. source # "feeding"
      BY <1>2, FlowGoesOn
    <2>2. AllStill'
      BY <1>2, <2>1, GoneOut
    <2> QED  BY <2>2 DEF AllStill, Still
  <1>3. CASE beat[0] \notin Last /\ ~\A k \in Stages : Gone(k)
    <2>1. source # "feeding"
      BY <1>3, FlowGoesOn
    <2>2. PICK k \in Stages : Ends(k)
      BY <1>3, <2>1, FlowGoesOn DEF EndSomewhere
    <2>3. CASE Ends(k)'
      BY <2>3
    <2>4. CASE beat[k] \in Last /\ k < Terminal
      BY <2>4, LastArrives, StageNumbers
    <2>5. CASE k \in Draining /\ stage[k].status = "good" /\ stage[k].out = "none"
      <3>1. AllStill'
        BY <2>5, DrainsOut
      <3> QED  BY <3>1 DEF AllStill, Still
    <2> QED  BY <2>2, <2>3, <2>4, <2>5, FlowStage
  <1> QED  BY <1>1, <1>2, <1>3

LEMMA ClosedEmptyTicks ==
    ASSUME NEW beat, NEW noise, Flowing(beat, noise) PROVE ClosedEmpty'
  <1> SUFFICES ASSUME fused_empty_close'
               PROVE  source' # "feeding" /\ \A k \in Stages : Gone(k)'
    BY DEF ClosedEmpty
  <1>1. PICK k \in Draining : empty_close'[k]
    BY DEF fused_empty_close
  <1>2. \/ empty_close[k]
        \/ stage[k].status = "good" /\ ~saw_out[k]
    BY <1>1, FlowGoesOn DEF Flowing, Tick, EmptyCloseClock, Closes, Moved, Last
  <1>3. source' # "feeding" /\ AllStill'
    <2>1. CASE empty_close[k]
      BY <2>1, GoneOut, FlowGoesOn DEF ClosedEmpty, fused_empty_close
    <2>2. CASE stage[k].status = "good" /\ ~saw_out[k]
      <3>1. stage[k].out = "none"
        BY <2>2, FlowGoesOn DEF TypeOK
      <3> QED  BY <2>2, <3>1, DrainsOut
    <2> QED  BY <1>2, <2>1, <2>2
  <1> QED  BY <1>3 DEF AllStill, Still

\* More to come of a stage comes of what was to come.
LEMMA AboveBefore ==
    ASSUME NEW beat, NEW noise, Flowing(beat, noise), NEW k \in Stages, Above(k)'
    PROVE  Above(k)
  <1>0. beat \in Moves /\ StagesClock(beat) /\ TypeOK /\ Shape
    BY FlowGoesOn
  <1> SUFFICES ASSUME source # "feeding" PROVE \E i \in Stages : i <= k /\ Ends(i)
    BY DEF Above
  <1>1. beat[0] = "none" /\ source' # "feeding"
    BY <1>0, DryFeed, FlowGoesOn DEF Last
  <1>2. PICK i \in Stages : i <= k /\ Ends(i)'
    BY <1>1 DEF Above
  <1>3. Ends(i) \/ beat[i - 1] \in Last
    BY <1>2, FlowStage
  <1>4. ASSUME beat[i - 1] \in Last, \A l \in Stages : l <= k => ~Ends(l)  PROVE FALSE
    <2>1. i - 1 \in Links /\ k \in Links
      BY StageNumbers
    <2>2. \A j \in Stages : j <= k => Gone(j)
      <3>1. CASE \A j \in Stages : Gone(j)
        BY <3>1
      <3>2. CASE ~\A j \in Stages : Gone(j)
        <4>1. PICK l \in Stages : Ends(l)
          BY <3>2, FlowGoesOn DEF EndSomewhere
        <4>2. \A j \in Stages : j < l => Gone(j)
          BY <4>1, FlowGoesOn DEF EndPassed, Ends
        <4>3. l > k
          BY <1>4, <4>1, StageNumbers
        <4> QED  BY <4>2, <4>3, StageNumbers
      <3> QED  BY <3>1, <3>2
    <2>3. \A j \in Links : j <= k => beat[j] = "none"
      BY <1>0, <2>1, <2>2, GoneRestBelow
    <2>4. i - 1 <= k
      BY <1>2, StageNumbers
    <2> QED  BY <1>4, <2>1, <2>3, <2>4 DEF Last
  <1> QED  BY <1>2, <1>3, <1>4

LEMMA DryBelowTicks ==
    ASSUME NEW beat, NEW noise, Flowing(beat, noise) PROVE DryBelow'
  <1> SUFFICES ASSUME NEW k \in Stages, Above(k)', stage'[k].out = "none",
                      NEW j \in Stages, j > k
               PROVE  stage'[j] = AtRest
    BY DEF DryBelow
  <1>1. beat \in Moves /\ StagesClock(beat)
    BY FlowGoesOn
  <1>2. Above(k)
    BY AboveBefore
  <1>3. k \in Nat /\ k \in Links /\ j \in Nat /\ Terminal \in Links /\ j <= Terminal
        /\ k <= Terminal /\ Terminal \in Nat
    BY StageNumbers
  <1>4. CASE Gone(k)' /\ beat[k] \in Last /\ k < Terminal
    <2>1. source' # "feeding" /\ \A i \in Stages : i <= k => Gone(i)'
      BY <1>3, <1>4, LastPasses
    <2>2. \A i \in Stages : i <= k => ~Ends(i)'
      BY <2>1 DEF Ends
    <2> QED  BY <2>1, <2>2 DEF Above
  <1>5. CASE stage[k].out = "none" /\ beat[k] \notin Moved
    <2>1. \A i \in Stages : i > k => stage[i] = AtRest
      BY <1>2, <1>5, FlowGoesOn DEF DryBelow
    <2>2. \A i \in Stages : k < i /\ i <= Terminal => Through(i)
      BY <1>3, <2>1, StageNumbers DEF AtRest, Through
    <2>3. \A i \in k .. Terminal : beat[i] \notin Moved
      BY <1>1, <1>3, <1>5, <2>2, Dry
    <2>4. j - 1 \in k .. Terminal
      BY <1>3
    <2> QED  BY <1>1, <2>1, <2>3, <2>4, RestStays
  <1>6. CASE Gone(k) /\ stage[k] # AtRest
    <2>1. stage[k].in = "ended" /\ source # "feeding" /\ ~Ends(k)
      BY <1>6, FlowGoesOn DEF Gone, Ends, Shape
    <2>2. PICK i \in Stages : i <= k /\ Ends(i)
      BY <1>2, <2>1 DEF Above
    <2>3. i < k
      BY <2>1, <2>2, StageNumbers
    <2>4. Gone(i)
      BY <2>1, <2>3, FlowGoesOn DEF EndPassed
    <2> QED  BY <2>2, <2>4 DEF Ends
  <1> QED  BY <1>4, <1>5, <1>6, FlowStage

------------------------------------------------------------------------------
(* The invariant is kept. *)

\* A job's units start on a lane at rest, with its latches cleared, but for an
\* error that a late stage raises in this clock.
LEMMA UnitsStart ==
    ASSUME LaneInv, unit_start, NEW beat, NEW noise, Tick(beat, noise)
    PROVE  /\ AllRest' /\ source' = "feeding" /\ ~fused_empty_close'
           /\ fused_err' = (Raising /\ ~fused_err)
           /\ writer' = [phase |-> "run", done |-> FALSE, error |-> FALSE]
  <1>1. /\ job_start /\ writer.phase = "idle" /\ source # "feeding" /\ AllStill
        /\ \A k \in Stages : stage[k] = AtRest \/ Pending(k)
    BY DEF LaneInv, Control
  <1>2. AllRest'
    BY <1>1, AllStillStays DEF Tick, LaneInv
  <1>3. source' = "feeding"
    BY DEF Tick, SourceClock
  <1>4. fused_err \in BOOLEAN /\ Raising \in BOOLEAN
    BY DEF LaneInv, TypeOK, Raising
  <1>5. fused_err' = (Raising /\ ~fused_err)
    BY <1>1, <1>4 DEF Tick, FusedErrorClock
  <1>6. ~fused_empty_close'
    BY <1>1 DEF Tick, EmptyCloseClock, fused_empty_close
  <1> QED  BY <1>1, <1>2, <1>3, <1>5, <1>6, WriterMoves

LEMMA FlowTicks ==
    ASSUME LaneInv, NEW beat, NEW noise, Tick(beat, noise)
    PROVE  Flow'
  <1> SUFFICES ASSUME Running'
               PROVE  (NoneSunk /\ EndPassed /\ DryBelow /\ EndSomewhere /\ ClosedEmpty)'
    BY DEF Flow
  <1>1. CASE unit_start
    <2>1. AllRest' /\ source' = "feeding" /\ ~fused_empty_close'
      BY <1>1, UnitsStart
    <2>2. NoneSunk' /\ EndPassed'
      BY <2>1 DEF NoneSunk, EndPassed, AllRest, AtRest
    <2>3. DryBelow'
      BY <2>1 DEF DryBelow, AllRest
    <2>4. EndSomewhere' /\ ClosedEmpty'
      BY <2>1 DEF EndSomewhere, ClosedEmpty
    <2> QED  BY <2>2, <2>3, <2>4
  <1>2. CASE ~unit_start
    <2>1. Flowing(beat, noise)
      BY <1>2 DEF Flowing
    <2>2. NoneSunk'
      BY <2>1, FlowStage DEF NoneSunk
    <2> QED  BY <2>1, <2>2, EndPassedTicks, EndSomewhereTicks, ClosedEmptyTicks, DryBelowTicks
  <1> QED  BY <1>1, <1>2

LEMMA InvStarts == Init => LaneInv
  <1> SUFFICES ASSUME Init PROVE LaneInv
    OBVIOUS
  <1>1. /\ \A k \in Stages : stage[k] = AtRest
        /\ stage \in [Stages -> Stage]
    BY DEF Init, Stage, AtRest
  <1>2. TypeOK
    BY <1>1, StageNumbers DEF Init, TypeOK, Writer, AtRest
  <1>3. Control
    BY <1>1 DEF Init, Control, AllStill, Still, Gone
  <1>4. Shape
    BY <1>1 DEF Init, Shape, AtRest
  <1> QED  BY <1>2, <1>3, <1>4 DEF Init, LaneInv, Flow, Running

LEMMA InvKept == ASSUME LaneInv, [Next]_vars PROVE LaneInv'
  <1>1. CASE Clock
    <2>1. Control'
      BY <1>1, ControlTicks
    <2>2. PICK beat, noise : Tick(beat, noise)
      BY <1>1, LaneTicks DEF Clock, Submit, Refuse, Finish, Run, After
    <2>3. Shape' /\ Flow'
      BY <2>2, ShapeTicks, FlowTicks DEF Tick, LaneInv
    <2>4. /\ job' \in {"over", "run", "refused", "after"} /\ prev_done' \in BOOLEAN
          /\ job_start' \in BOOLEAN /\ unit_start' \in BOOLEAN
          /\ pipeline_error_reset' \in BOOLEAN
      <3>1. TypeOK /\ writer.error \in BOOLEAN
        BY DEF LaneInv, TypeOK, Writer
      <3> QED  BY <1>1, <3>1 DEF Clock, Submit, Refuse, Finish, Run, After, NoPulse, TypeOK
    <2>5. TypeOK'
      BY <2>2, <2>4, GlueTypes DEF TypeOK
    <2> QED  BY <2>1, <2>3, <2>5 DEF LaneInv
  <1>2. CASE Reset
    <2>1. /\ \A k \in Stages : stage'[k] = AtRest
          /\ stage' \in [Stages -> Stage]
      BY <1>2 DEF Reset, Stage, AtRest
    <2>2. TypeOK'
      BY <1>2, <2>1, StageNumbers DEF Reset, NoPulse, TypeOK, Writer, AtRest
    <2>3. Control'
      BY <1>2, <2>1 DEF Reset, NoPulse, Control, AllStill, Still, Gone
    <2>4. Shape'
      BY <2>1 DEF Shape, AtRest
    <2> QED  BY <1>2, <2>2, <2>3, <2>4 DEF Reset, LaneInv, Flow, Running
  <1>3. CASE UNCHANGED vars
    <2>1. TypeOK' /\ Shape'
      BY <1>3 DEF vars, latches, LaneInv, TypeOK, Shape
    <2>2. Control'
      BY <1>3 DEF vars, latches, LaneInv, Control, AllStill, Still, Gone, Pending
    <2>3. Flow'
      BY <1>3 DEF vars, latches, LaneInv, Flow, Running, NoneSunk, EndPassed, DryBelow,
                  EndSomewhere, ClosedEmpty, Above, Ends, Gone, fused_empty_close
    <2> QED  BY <2>1, <2>2, <2>3 DEF LaneInv
  <1> QED  BY <1>1, <1>2, <1>3 DEF Next, Clock

\* Of a job in which no draining stage has failed, the batch's end is in one
\* place, and nothing of it is in front of that place or behind a dry stage.
THEOREM LaneInvariant == Spec => []LaneInv
  <1>1. Init => LaneInv
    BY InvStarts
  <1>2. LaneInv /\ [Next]_vars => LaneInv'
    BY InvKept
  <1> QED  BY <1>1, <1>2, PTL DEF Spec

\* The registers keep their types, and the glue has seen a row of every draining
\* stage that gave one (_fused_chain_status_glue_sv).
THEOREM LaneTypes == Spec => []TypeOK
  <1>1. LaneInv => TypeOK
    BY DEF LaneInv
  <1> QED  BY <1>1, LaneInvariant, PTL

\* A job's units start on a lane in which an earlier job has left nothing but
\* the status of a late stage, however long the chain is (LaneTile).
THEOREM JobsStartFresh == Spec => []StartsFresh
  <1>1. ASSUME LaneInv PROVE StartsFresh
    <2> SUFFICES ASSUME unit_start
                 PROVE  /\ writer.phase = "idle"
                        /\ \A k \in Stages : \/ stage[k] = AtRest
                                             \/ k \in Late /\ Pending(k) /\ stage[k].out = "last"
      BY DEF StartsFresh
    <2>1. /\ writer.phase = "idle" /\ AllStill
          /\ \A k \in Stages : stage[k] = AtRest \/ Pending(k)
      BY <1>1 DEF LaneInv, Control
    <2> QED  BY <2>1 DEF AllStill, Still, Gone
  <1> QED  BY <1>1, LaneInvariant, PTL

------------------------------------------------------------------------------
(* The lane keeps OneCloseOut. *)

LaneBatch ==
    CASE source = "idle" -> "none"
      [] source = "done" /\ \A k \in Stages : Through(k) -> "whole"
      [] OTHER -> "open"

LaneRaised == Raising /\ ~fused_err

LaneFailed ==
    IF writer.phase = "idle" THEN writer.error
    ELSE fused_err \/ \E k \in Stages : Failing(k)

LaneAnswer ==
    IF writer.phase # "idle" THEN "none" ELSE IF writer.error THEN "bad" ELSE "good"

LEMMA BatchFits ==
    /\ LaneBatch \in {"none", "open", "whole"}
    /\ LaneBatch = "whole" <=> source = "done" /\ \A k \in Stages : Through(k)
  BY DEF LaneBatch

\* A close-out over a failure is a bad one.
LEMMA FailureTells ==
    ASSUME LaneInv, NEW beat, NEW noise, Tick(beat, noise),
           writer.phase # "idle", writer'.phase = "idle", LaneFailed
    PROVE  writer'.error
  <1>1. /\ writer.phase = "run" /\ beat[Terminal] \notin Moved /\ unit_status_valid
        /\ writer' = [phase |-> "idle", done |-> TRUE, error |-> unit_status_error(noise)]
    BY WriterMoves
  <1> SUFFICES ASSUME ~unit_status_error(noise) PROVE FALSE
    BY <1>1
  <1>2. /\ ~fused_err
        /\ \A k \in Stages : Gone(k) \/ stage[k].status = "good"
    BY <1>1, GoodClose
  <1>3. PICK k \in Stages : Failing(k)
    BY <1>2 DEF LaneFailed
  <1>4. k \in Draining /\ stage[k].out = "last" /\ k \notin Late
    BY <1>2, <1>3 DEF Failing, Gone, AtRest
  <1> QED  BY <1>3, <1>4 DEF Failing, LaneInv, Shape

\* A failure stays with the lane until its job's close-out has told it, and an
\* error that is raised before the close-out is one.
LEMMA FailureStays ==
    ASSUME LaneInv, NEW beat, NEW noise, Tick(beat, noise), writer.phase # "idle",
           LaneFailed \/ (LaneRaised /\ writer'.phase # "idle")
    PROVE  LaneFailed'
  <1>1. /\ beat \in Moves /\ StagesClock(beat) /\ ~unit_start /\ ~job_start
        /\ ~pipeline_error_reset
    BY DEF Tick, LaneInv, Control
  <1>2. CASE writer'.phase = "idle"
    BY <1>2, FailureTells DEF LaneFailed
  <1>3. CASE writer'.phase # "idle" /\ (fused_err \/ Raising)
    <2>1. fused_err'
      BY <1>1, <1>3 DEF Tick, FusedErrorClock
    <2> QED  BY <1>3, <2>1 DEF LaneFailed
  <1>4. CASE writer'.phase # "idle" /\ ~fused_err /\ ~Raising
    <2>1. PICK k \in Stages : Failing(k)
      BY <1>4 DEF LaneFailed, LaneRaised
    <2>2. k \in Muxed /\ k \notin Draining /\ Pending(k)
      BY <1>4, <2>1, StageNumbers DEF Muxed, Raising, Pending, Failing
    <2>3. ~Takes(k, beat)
      <3> SUFFICES ASSUME Takes(k, beat) PROVE FALSE
        OBVIOUS
      <3>1. writer.phase = "run" /\ beat[Terminal] \notin Moved
        BY <2>2 DEF Takes, unit_status_ready
      <3>2. unit_status_valid
        BY <2>2 DEF unit_status_valid
      <3>3. writer' \in {[phase |-> "idle", done |-> TRUE, error |-> unit_status_error(noise)]}
        BY <3>1, <3>2 DEF Tick, WriterClock
      <3> QED  BY <1>4, <3>3
    <2>4. stage'[k] = stage[k]
      BY <1>1, <2>2, <2>3, PendingMoves
    <2> QED  BY <1>4, <2>1, <2>4 DEF LaneFailed, Failing
  <1> QED  BY <1>2, <1>3, <1>4

\* A stage that has given all that it gives of its batch is given nothing more.
LEMMA ThroughStays ==
    ASSUME TypeOK, Shape, NEW beat \in Moves, StagesClock(beat), NEW k \in Stages,
           Through(k), beat[k - 1] \notin Moved, stage[k].status # "bad"
    PROVE  Through(k)'
  <1>1. CASE pipeline_error_reset
    BY <1>1, ResetRests DEF Through, AtRest
  <1>2. CASE stage[k].in = "idle"
    <2>1. stage'[k] = AtRest
      BY <1>2, RestStays DEF Shape
    <2> QED  BY <2>1 DEF Through, AtRest
  <1>3. CASE Pending(k) /\ ~pipeline_error_reset
    <2>1. stage'[k] = AtRest \/ stage'[k] = stage[k]
      BY <1>3, PendingMoves DEF Rearmed
    <2> QED  BY <1>3, <2>1 DEF Through, AtRest, Pending
  <1>4. CASE stage[k].out = "last" /\ ~Pending(k) /\ ~pipeline_error_reset
    <2> DEFINE in == Input(stage[k], beat[k - 1], beat[k])
               out == Output(stage[k], beat[k])
    <2>1. out = "last"
      BY <1>4, Silence DEF Through, Output, Last
    <2>2. in = Input(stage[k], beat[k - 1], beat[k]) /\ out = Output(stage[k], beat[k])
      OBVIOUS
    <2> HIDE DEF in, out
    <2>3. \/ stage'[k] = AtRest
          \/ \E said \in MaySay(k, in, out) :
               stage'[k] = [in |-> in, out |-> out, status |-> said]
      BY <1>4, <2>2, FreeMoves
    <2>4. CASE stage'[k] = AtRest
      BY <2>4 DEF Through, AtRest
    <2>5. CASE \E said \in MaySay(k, in, out) :
                 stage'[k] = [in |-> in, out |-> out, status |-> said]
      <3>1. stage'[k].out = "last"
        BY <2>1, <2>5
      <3> QED  BY <3>1 DEF Through
    <2> QED  BY <2>3, <2>4, <2>5
  <1> QED  BY <1>1, <1>2, <1>3, <1>4 DEF Through

\* A batch that is through the lane stays through.
LEMMA WholeStays ==
    ASSUME LaneInv, NEW beat, NEW noise, Tick(beat, noise),
           writer.phase # "idle", LaneBatch = "whole", ~LaneFailed'
    PROVE  LaneBatch' = "whole"
  <1>1. /\ beat \in Moves /\ StagesClock(beat) /\ ~unit_start /\ TypeOK /\ Shape
    BY DEF Tick, LaneInv, Control
  <1>2. source = "done" /\ \A k \in Stages : Through(k)
    BY BatchFits
  <1>3. 0 \in Links /\ Terminal \in Links /\ 0 <= Terminal /\ beat[0] = "none"
    BY <1>1, <1>2, DryFeed, StageNumbers
  <1>4. \A j \in 0 .. Terminal : beat[j] \notin Moved
    BY <1>1, <1>2, <1>3, Dry DEF Moved, Last
  <1>5. source' = "done"
    BY <1>1, <1>2, <1>3 DEF Tick, SourceClock, Last
  <1>6. \A k \in Stages : Through(k)'
    <2>1. CASE writer'.phase = "idle"
      <3>1. AllStill'
        BY <2>1, IdleStays DEF LaneFailed
      <3> QED  BY <3>1 DEF AllStill, Still, Gone, Through, AtRest
    <2>2. CASE writer'.phase # "idle"
      <3> SUFFICES ASSUME NEW k \in Stages PROVE Through(k)'
        OBVIOUS
      <3>1. ~LaneFailed /\ ~LaneRaised
        BY <2>2, FailureStays
      <3>2. ~Raising /\ ~Failing(k)
        BY <3>1 DEF LaneFailed, LaneRaised
      <3>3. stage[k].status # "bad"
        BY <3>2, LaneAssumption DEF Raising, Failing
      <3>4. beat[k - 1] \notin Moved
        BY <1>4, StageNumbers
      <3> QED  BY <1>1, <1>2, <3>3, <3>4, ThroughStays
    <2> QED  BY <2>1, <2>2
  <1>7. source' = "done" /\ \A k \in Stages : Through(k)'
    BY <1>5, <1>6
  <1> QED  BY <1>7 DEF LaneBatch

LEMMA LaneBegins ==
    ASSUME LaneInv, unit_start, NEW beat, NEW noise, Tick(beat, noise)
    PROVE  /\ LaneAnswer # "none" /\ LaneBatch' = "open" /\ LaneFailed' = LaneRaised
           /\ LaneAnswer' = "none"
  <1>1. writer.phase = "idle"
    BY DEF LaneInv, Control
  <1>2. /\ AllRest' /\ source' = "feeding" /\ fused_err' = (Raising /\ ~fused_err)
        /\ writer' = [phase |-> "run", done |-> FALSE, error |-> FALSE]
    BY UnitsStart
  <1>3. LaneAnswer # "none"
    BY <1>1 DEF LaneAnswer
  <1>4. LaneBatch' = "open"
    BY <1>2 DEF LaneBatch
  <1>5. LaneFailed' = LaneRaised
    <2>1. ~\E k \in Stages : Failing(k)'
      BY <1>2 DEF Failing, AllRest, AtRest
    <2>2. LaneFailed' = fused_err'
      BY <1>2, <2>1 DEF LaneFailed
    <2> QED  BY <1>2, <2>2 DEF LaneRaised
  <1>6. LaneAnswer' = "none"
    BY <1>2 DEF LaneAnswer
  <1> QED  BY <1>3, <1>4, <1>5, <1>6

LEMMA LaneProceeds ==
    ASSUME QuietError, LaneInv, writer.phase # "idle",
           NEW beat, NEW noise, Tick(beat, noise)
    PROVE  \/ LaneAnswer' = "none" /\ writer'.phase # "idle"
           \/ LaneAnswer' = "good" /\ LaneBatch = "whole" /\ ~LaneFailed'
           \/ LaneAnswer' = "bad" /\ LaneFailed
  <1>1. CASE writer'.phase # "idle"
    BY <1>1 DEF LaneAnswer
  <1>2. CASE writer'.phase = "idle"
    <2>1. /\ writer.phase = "run" /\ beat[Terminal] \notin Moved /\ unit_status_valid
          /\ writer' = [phase |-> "idle", done |-> TRUE, error |-> unit_status_error(noise)]
      BY <1>2, WriterMoves
    <2>2. CASE unit_status_error(noise)
      <3>1. writer'.error
        BY <2>1, <2>2
      <3>2. LaneAnswer' = "bad"
        BY <1>2, <3>1 DEF LaneAnswer
      <3>3. noise = FALSE
        BY DEF Tick
      <3>4. fused_err \/ \E k \in Muxed : stage[k].status = "bad"
        BY <2>2, <3>3 DEF unit_status_error
      <3>5. \A k \in Muxed : stage[k].status = "bad" => Failing(k) /\ k \in Stages
        BY StageNumbers, LaneAssumption DEF Failing, Muxed
      <3>6. LaneFailed
        BY <3>4, <3>5 DEF LaneFailed
      <3> QED  BY <3>2, <3>6
    <2>3. CASE ~unit_status_error(noise)
      <3>1. /\ source # "feeding"
            /\ \A k \in Stages : Gone(k) \/ stage[k].status = "good"
        BY <2>1, <2>3, GoodClose
      <3>2. ~writer'.error
        BY <2>1, <2>3
      <3>3. source = "done"
        BY <3>1 DEF LaneInv, Control, TypeOK
      <3>4. \A k \in Stages : Through(k)
        BY <3>1 DEF Gone, AtRest, Through, Pending
      <3>5. LaneAnswer' = "good"
        BY <1>2, <3>2 DEF LaneAnswer
      <3>6. LaneBatch = "whole"
        BY <3>3, <3>4 DEF LaneBatch
      <3>7. ~LaneFailed'
        BY <1>2, <3>2 DEF LaneFailed
      <3> QED  BY <3>5, <3>6, <3>7
    <2> QED  BY <2>2, <2>3
  <1> QED  BY <1>1, <1>2

LEMMA LaneSettles ==
    ASSUME LaneInv, writer.phase = "idle", ~unit_start,
           NEW beat, NEW noise, Tick(beat, noise)
    PROVE  /\ LaneAnswer \in {"good", "bad"}
           /\ LaneFailed' = LaneFailed /\ LaneAnswer' = LaneAnswer
           /\ LaneAnswer = "good" => LaneBatch' = LaneBatch
  <1>1. writer' = writer
    BY WriterMoves
  <1>2. LaneAnswer' = LaneAnswer /\ LaneFailed' = LaneFailed
    BY <1>1 DEF LaneAnswer, LaneFailed
  <1>3. ASSUME ~writer.error PROVE LaneBatch' = LaneBatch
    <2>1. source # "feeding" /\ AllStill
      BY <1>3 DEF LaneInv, Control
    <2>2. AllStill'
      BY <1>1, <1>3, IdleStays
    <2>3. beat[0] = "none"
      BY <2>1, DryFeed DEF Tick
    <2>4. source' = source
      BY <2>3 DEF Tick, SourceClock, Last
    <2>5. (\A k \in Stages : Through(k)) /\ \A k \in Stages : Through(k)'
      BY <2>1, <2>2 DEF AllStill, Still, Gone, AtRest, Through
    <2> QED  BY <2>4, <2>5 DEF LaneBatch
  <1> QED  BY <1>2, <1>3 DEF LaneAnswer

\* However the lane is fused, each batch gets one close-out: a good one only
\* behind the whole batch and with nothing failed before it, or raised with
\* job_start; a bad one only behind a failure (the docstring of LaneTile,
\* _fused_chain_status_glue_sv).
THEOREM LaneKeepsOneCloseOut == ASSUME QuietError PROVE Spec => KeepsOneCloseOut
  <1>1. Init => Contract!Init
    <2> SUFFICES ASSUME Init PROVE Contract!Init
      OBVIOUS
    <2>1. LaneBatch = "none" /\ LaneFailed = FALSE /\ LaneAnswer = "good"
      BY DEF Init, LaneBatch, LaneFailed, LaneAnswer
    <2>2. LaneRaised = FALSE
      BY StageNumbers DEF Init, LaneRaised, Raising, AtRest
    <2> QED  BY <2>1, <2>2 DEF Contract!Init, LaneBatch, LaneRaised, LaneFailed, LaneAnswer
  <1>2. ASSUME LaneInv, [Next]_vars PROVE [Contract!Next]_Contract!laneVars
    <2>0. LaneFailed \in BOOLEAN /\ LaneFailed' \in BOOLEAN /\ LaneRaised' \in BOOLEAN
      <3>1. TypeOK'
        BY <1>2, InvKept DEF LaneInv
      <3> QED  BY <1>2, <3>1 DEF LaneFailed, LaneRaised, LaneInv, TypeOK, Writer
    <2>00. LaneBatch' \in {"none", "open", "whole"}
      BY DEF LaneBatch
    <2>1. CASE Clock
      <3>1. PICK beat, noise : Tick(beat, noise)
        BY <2>1, LaneTicks DEF Clock, Submit, Refuse, Finish, Run, After
      <3>2. CASE unit_start
        <4>1. /\ LaneAnswer # "none" /\ LaneBatch' = "open" /\ LaneFailed' = LaneRaised
              /\ LaneAnswer' = "none"
          BY <1>2, <3>1, <3>2, LaneBegins
        <4>2. Contract!Begin
          BY <2>0, <4>1 DEF Contract!Begin, LaneBatch, LaneRaised, LaneFailed, LaneAnswer
        <4> QED  BY <4>2 DEF Contract!Next
      <3>3. CASE writer.phase # "idle"
        <4>1. LaneAnswer = "none"
          BY <3>3 DEF LaneAnswer
        <4>2. LaneFailed' \in {LaneFailed, TRUE}
          BY <1>2, <2>0, <3>1, <3>3, FailureStays
        <4>3. LaneAnswer' = "none" => writer'.phase # "idle"
          BY DEF LaneAnswer
        <4>4. LaneRaised /\ LaneAnswer' = "none" => LaneFailed'
          BY <1>2, <3>1, <3>3, <4>3, FailureStays
        <4>5. ~LaneFailed' /\ LaneBatch = "whole" => LaneBatch' = "whole"
          BY <1>2, <3>1, <3>3, WholeStays
        <4>6. \/ LaneAnswer' = "none"
              \/ LaneAnswer' = "good" /\ LaneBatch = "whole" /\ ~LaneFailed'
              \/ LaneAnswer' = "bad" /\ LaneFailed
          BY <1>2, <3>1, <3>3, LaneProceeds
        <4>7. Contract!Proceed
          BY <2>0, <2>00, <4>1, <4>2, <4>4, <4>5, <4>6
             DEF Contract!Proceed, Contract!Batches,
                 LaneBatch, LaneRaised, LaneFailed, LaneAnswer
        <4> QED  BY <4>7 DEF Contract!Next
      <3>4. CASE writer.phase = "idle" /\ ~unit_start
        <4>1. /\ LaneAnswer \in {"good", "bad"}
              /\ LaneFailed' = LaneFailed /\ LaneAnswer' = LaneAnswer
              /\ LaneAnswer = "good" => LaneBatch' = LaneBatch
          BY <1>2, <3>1, <3>4, LaneSettles
        <4>2. Contract!Settle
          BY <2>0, <2>00, <4>1 DEF Contract!Settle, Contract!Batches,
                                   LaneBatch, LaneRaised, LaneFailed, LaneAnswer
        <4> QED  BY <4>2 DEF Contract!Next
      <3> QED  BY <3>2, <3>3, <3>4
    <2>2. CASE Reset
      <3>1. LaneBatch' = "none" /\ LaneFailed' = FALSE /\ LaneAnswer' = "good"
        BY <2>2 DEF Reset, LaneBatch, LaneFailed, LaneAnswer
      <3>2. LaneRaised' = FALSE
        BY <2>2, StageNumbers DEF Reset, LaneRaised, Raising, AtRest
      <3>3. Contract!Restart
        BY <3>1, <3>2 DEF Contract!Restart, LaneBatch, LaneRaised, LaneFailed, LaneAnswer
      <3> QED  BY <3>3 DEF Contract!Next
    <2>3. CASE UNCHANGED vars
      <3>1. /\ LaneBatch' = LaneBatch /\ LaneFailed' = LaneFailed /\ LaneAnswer' = LaneAnswer
            /\ LaneRaised' = LaneRaised
        BY <2>3 DEF vars, latches, LaneBatch, LaneRaised, LaneFailed, LaneAnswer, Through,
                    Pending, Failing, Raising
      <3> QED  BY <3>1 DEF Contract!laneVars, LaneBatch, LaneRaised, LaneFailed, LaneAnswer
    <2> QED  BY <1>2, <2>1, <2>2, <2>3 DEF Next, Clock
  <1> QED  BY <1>1, <1>2, LaneInvariant, PTL DEF Spec, KeepsOneCloseOut, Contract!Spec
===============================================================================
