-------------------------- MODULE PlatformSizingProofs -------------------------
(***************************************************************************)
(* The lane ceiling and the memory selection of PlatformSizing, for every  *)
(* board, lane and overhead.                                               *)
(***************************************************************************)
EXTENDS PlatformSizing, FiniteSetTheorems, TLAPS

Use == [Resources -> Int]

\* A set of natural numbers that is not empty has a least one: the intervals
\* that end in it have one that no other is inside.
LEMMA LeastExists ==
    ASSUME NEW S \in SUBSET Nat, S # {}
    PROVE  \E n \in S : \A m \in S : n <= m
  <1> DEFINE T == {1 .. n : n \in S}
  <1>1. IsWellFoundedOn(StrictSubsetOrdering(Nat), FiniteSubsetsOf(Nat))
    BY FS_StrictSubsetOrderingWellFounded
  <1>2. T \subseteq FiniteSubsetsOf(Nat)
    <2>1. ASSUME NEW n \in S  PROVE IsFiniteSet(1 .. n) /\ 1 .. n \subseteq Nat
      <3>1. 1 \in Int /\ n \in Int
        OBVIOUS
      <3>2. IsFiniteSet(1 .. n)
        BY <3>1, FS_Interval
      <3> QED  BY <3>2
    <2> QED  BY <2>1 DEF FiniteSubsetsOf
  <1>3. PICK I \in T : \A J \in T : <<J, I>> \notin StrictSubsetOrdering(Nat)
    <2>1. T # {}
      OBVIOUS
    <2> HIDE DEF T
    <2> QED  BY <1>1, <1>2, <2>1, WFMin
  <1>4. PICK n \in S : I = 1 .. n
    BY <1>3
  <1>5. ASSUME NEW m \in S, m < n  PROVE FALSE
    <2>1. 1 .. m \subseteq I /\ 1 .. m # I
      <3>1. n \in I /\ n \notin 1 .. m
        BY <1>4, <1>5
      <3>2. \A x \in 1 .. m : x \in I
        BY <1>4, <1>5
      <3> QED  BY <3>1, <3>2
    <2>2. I \in SUBSET Nat /\ 1 .. m \in SUBSET Nat /\ 1 .. m \in T
      BY <1>4
    <2>3. <<1 .. m, I>> \in StrictSubsetOrdering(Nat)
      BY <2>1, <2>2 DEF StrictSubsetOrdering
    <2> QED  BY <1>3, <2>2, <2>3
  <1> QED  BY <1>5

\* What a whole quotient bounds.
LEMMA Quotient ==
    ASSUME NEW a \in Nat, NEW b \in Nat, b > 0, NEW k \in Nat
    PROVE  /\ a \div b \in Nat
           /\ k <= a \div b <=> k * b <= a
  <1>1. /\ a \div b \in Int
        /\ b * (a \div b) <= a /\ a < b * (a \div b) + b
    BY Z3
  <1>2. ASSUME NEW q \in Int, b * q <= a, a < b * q + b
        PROVE  q \in Nat /\ (k <= q <=> k * b <= a)
    <2>1. q >= 0
      <3>1. CASE q >= 0
        BY <3>1
      <3>2. CASE q <= -1
        <4>1. b * q <= b * (-1)
          BY <3>2, Z3
        <4> QED  BY <4>1, <1>2
      <3> QED  BY <3>1, <3>2
    <2>2. CASE k <= q
      <3>1. k * b <= q * b
        BY <2>2, <2>1, Z3
      <3>2. q * b = b * q
        BY Z3
      <3> QED  BY <3>1, <3>2, <2>1, <2>2, <1>2
    <2>3. CASE k >= q + 1
      <3>1. (q + 1) * b <= k * b
        BY <2>3, <2>1, Z3
      <3>2. (q + 1) * b = b * q + b
        BY Z3
      <3> QED  BY <3>1, <3>2, <2>1, <2>3, <1>2
    <2> QED  BY <2>2, <2>3
  <1> QED  BY <1>1, <1>2

\* Room in halves is room: for the budget and the overhead alone, and for
\* them with lanes.
LEMMA HalvesAreExact ==
    ASSUME NEW budget \in Use, NEW lane \in Use, NEW overhead \in Use, NEW k \in Nat,
           Granular(budget), Granular(overhead), Granular(lane)
    PROVE  /\ InHalves(budget) \in Use /\ InHalves(lane) \in Use /\ InHalves(overhead) \in Use
           /\ fits(InHalves(overhead), InHalves(budget)) <=> fits(overhead, budget)
           /\ fits(Design(lane, overhead, k), budget)
                <=> \A r \in Resources :
                      k * InHalves(lane)[r] <= Less(InHalves(budget), InHalves(overhead))[r]
  <1>1. /\ InHalves(budget) \in Use /\ InHalves(lane) \in Use /\ InHalves(overhead) \in Use
        /\ \A use \in {budget, lane, overhead} :
             /\ \A r \in {"lut", "ff", "dsp"} : InHalves(use)[r] = use[r]
             /\ use["bram36"] = 2 * InHalves(use)["bram36"]
    BY DEF InHalves, Granular, Use, Resources
  <1>2. fits(InHalves(overhead), InHalves(budget)) <=> fits(overhead, budget)
    BY <1>1 DEF fits, Less, Use, Resources
  <1>3. ASSUME NEW r \in {"lut", "ff", "dsp"}
        PROVE  overhead[r] + k * lane[r] <= budget[r]
                 <=> k * InHalves(lane)[r] <= InHalves(budget)[r] - InHalves(overhead)[r]
    <2>1. k * lane[r] \in Int /\ budget[r] \in Int /\ overhead[r] \in Int
      BY DEF Use, Resources
    <2> QED  BY <1>1, <2>1
  <1>4. overhead["bram36"] + k * lane["bram36"] <= budget["bram36"]
          <=> k * InHalves(lane)["bram36"] <= InHalves(budget)["bram36"] - InHalves(overhead)["bram36"]
    <2>1. PICK b, l, o \in Int : b = InHalves(budget)["bram36"] /\ l = InHalves(lane)["bram36"]
                                 /\ o = InHalves(overhead)["bram36"]
      BY <1>1 DEF Use, Resources
    <2>2. 2 * o + k * (2 * l) <= 2 * b <=> k * l <= b - o
      <3>1. k * (2 * l) = 2 * (k * l) /\ k * l \in Int
        BY Z3
      <3> QED  BY <3>1
    <2> QED  BY <1>1, <2>1, <2>2
  <1>5. \A r \in Resources : Design(lane, overhead, k)[r] \in Int /\ budget[r] \in Int
                             /\ Design(lane, overhead, k)[r] = overhead[r] + k * lane[r]
    BY DEF Design, Use
  <1> QED  BY <1>1, <1>2, <1>3, <1>4, <1>5 DEF fits, Less, Resources

\* The ceiling is a whole number that no resource is over, and one has it.
LEMMA CeilingIsLeast ==
    ASSUME NEW budget \in Use, NEW lane \in Use, NEW overhead \in Use,
           ~MaxLanesRefuses(lane, budget, overhead), fits(overhead, budget)
    PROVE  LET n == max_lanes(lane, budget, overhead) IN
           /\ n \in Nat /\ n \in Ceilings(lane, budget, overhead)
           /\ \A m \in Ceilings(lane, budget, overhead) : n <= m
  <1> DEFINE C == Ceilings(lane, budget, overhead)
  <1>1. /\ Granular(budget) /\ Granular(overhead) /\ Granular(lane) /\ lane # Nothing
        /\ \A r \in Resources : lane[r] >= 0
    BY DEF MaxLanesRefuses, Use
  <1>2. /\ InHalves(budget) \in Use /\ InHalves(lane) \in Use /\ InHalves(overhead) \in Use
        /\ fits(InHalves(overhead), InHalves(budget))
    BY <1>1, HalvesAreExact, 0 \in Nat
  <1>3. \A r \in Resources : InHalves(lane)[r] > 0 => Ceiling(lane, budget, overhead, r) \in Nat
    <2>1. ASSUME NEW r \in Resources, InHalves(lane)[r] > 0
          PROVE  Ceiling(lane, budget, overhead, r) \in Nat
      <3>1. Less(InHalves(budget), InHalves(overhead))[r] \in Nat /\ InHalves(lane)[r] \in Nat
        BY <1>2, <2>1 DEF fits, Less, Use
      <3> QED  BY <2>1, <3>1, Quotient, 0 \in Nat DEF Ceiling
    <2> QED  BY <2>1
  <1>4. C \in SUBSET Nat
    BY <1>3 DEF Ceilings
  <1>5. C # {}
    <2>1. PICK r \in Resources : lane[r] # 0
      BY <1>1 DEF Use, Nothing
    <2>2. InHalves(lane)[r] > 0
      BY <1>1, <2>1 DEF InHalves, Granular, Use, Resources
    <2> QED  BY <2>2 DEF Ceilings
  <1>6. \E n \in C : \A m \in C : n <= m
    BY <1>4, <1>5, LeastExists
  <1>7. max_lanes(lane, budget, overhead) = CHOOSE n \in C : \A m \in C : n <= m
    BY <1>2 DEF max_lanes
  <1> QED  BY <1>4, <1>6, <1>7

(* Every whole number of lanes up to the ceiling fits the board with the   *)
(* overhead, and none above it (max_lanes); with no room for the overhead  *)
(* the ceiling is 0.                                                       *)
THEOREM CeilingIsExact ==
    ASSUME NEW budget \in Use, NEW lane \in Use, NEW overhead \in Use,
           ~MaxLanesRefuses(lane, budget, overhead)
    PROVE  /\ fits(overhead, budget) =>
                \A k \in Nat : fits(Design(lane, overhead, k), budget)
                                <=> k <= max_lanes(lane, budget, overhead)
           /\ IsCeiling(lane, budget, overhead)
  <1> DEFINE N == max_lanes(lane, budget, overhead)
  <1>1. CASE fits(overhead, budget)
    <2>1. /\ Granular(budget) /\ Granular(overhead) /\ Granular(lane)
          /\ \A r \in Resources : lane[r] >= 0
      BY <1>1 DEF MaxLanesRefuses, Use
    <2>2. /\ InHalves(budget) \in Use /\ InHalves(lane) \in Use /\ InHalves(overhead) \in Use
          /\ fits(InHalves(overhead), InHalves(budget))
      BY <1>1, <2>1, HalvesAreExact, 0 \in Nat
    <2>3. /\ N \in Nat /\ N \in Ceilings(lane, budget, overhead)
          /\ \A m \in Ceilings(lane, budget, overhead) : N <= m
      BY <1>1, CeilingIsLeast
    <2>4. ASSUME NEW k \in Nat
          PROVE  fits(Design(lane, overhead, k), budget) <=> k <= N
      <3>1. ASSUME NEW r \in Resources
            PROVE  /\ Less(InHalves(budget), InHalves(overhead))[r] \in Nat
                   /\ InHalves(lane)[r] \in Nat
        BY <2>1, <2>2 DEF fits, Less, InHalves, Use, Resources, Granular
      <3>2. ASSUME NEW r \in Resources, InHalves(lane)[r] > 0
            PROVE  /\ Ceiling(lane, budget, overhead, r) \in Nat
                   /\ k <= Ceiling(lane, budget, overhead, r)
                        <=> k * InHalves(lane)[r] <= Less(InHalves(budget), InHalves(overhead))[r]
        BY <3>1, <3>2, Quotient DEF Ceiling
      <3>3. ASSUME NEW r \in Resources, ~(InHalves(lane)[r] > 0)
            PROVE  k * InHalves(lane)[r] <= Less(InHalves(budget), InHalves(overhead))[r]
        <4>1. InHalves(lane)[r] = 0
          BY <3>1, <3>3
        <4> QED  BY <3>1, <4>1
      <3>4. k <= N <=> \A r \in Resources : InHalves(lane)[r] > 0
                                           => k <= Ceiling(lane, budget, overhead, r)
        BY <2>3, <3>2 DEF Ceilings
      <3>5. fits(Design(lane, overhead, k), budget)
              <=> \A r \in Resources :
                    k * InHalves(lane)[r] <= Less(InHalves(budget), InHalves(overhead))[r]
        BY <2>1, HalvesAreExact
      <3> QED  BY <3>2, <3>3, <3>4, <3>5
    <2>5. IsCeiling(lane, budget, overhead)
      BY <1>1, <2>3, <2>4 DEF IsCeiling
    <2> QED  BY <2>4, <2>5
  <1>2. CASE ~fits(overhead, budget)
    <2>1. Granular(budget) /\ Granular(overhead)
      BY DEF MaxLanesRefuses
    <2>2. ~fits(InHalves(overhead), InHalves(budget))
      <3>1. Granular(Nothing) /\ Nothing \in Use
        BY DEF Granular, Nothing, Use, Resources
      <3> QED  BY <1>2, <2>1, <3>1, HalvesAreExact, 0 \in Nat
    <2> QED  BY <1>2, <2>2 DEF IsCeiling, max_lanes
  <1> QED  BY <1>1, <1>2

(* As many lanes as the sizing law wants take what the front delivers, and *)
(* no fewer would (min_lanes_for_full_rate).                               *)
THEOREM LanesTakeTheFront ==
    ASSUME NEW data_width \in Int, ~MinLanesRefuses(data_width)
    PROVE  FullRate(data_width)
  BY DEF MinLanesRefuses, WidthTiers, FullRate, min_lanes_for_full_rate

(* A valid board builds with a memory that is shared, and with the one it  *)
(* names (PlatformDefinition.memory).                                      *)
THEOREM MemoryOfValidBoard ==
    ASSUME NEW platform, platform.storage_tiers \in Seq([name : STRING, access : STRING])
    PROVE  MemoryIsShared(platform)
  <1> DEFINE tiers == platform.storage_tiers
             active == platform.active_memory_tier
  <1>1. SUFFICES ASSUME ValidPlatform(platform), ~MemoryRefuses(platform)
                 PROVE  /\ memory(platform).access = "shared"
                        /\ active # Unset => memory(platform).name = active
    BY DEF MemoryIsShared
  <1>2. TiersCohere(platform) /\ DOMAIN tiers \subseteq Nat
    BY <1>1 DEF ValidPlatform
  <1>3. CASE active = Unset
    <2> DEFINE S == SharedTiers(platform)
    <2>1. S \in SUBSET Nat /\ S # {}
      BY <1>1, <1>2, <1>3 DEF SharedTiers, MemoryRefuses
    <2>2. \E n \in S : \A m \in S : n <= m
      BY <2>1, LeastExists
    <2>3. PICK n \in S : memory(platform) = tiers[n]
      BY <1>3, <2>2 DEF memory
    <2> QED  BY <1>3, <2>3 DEF SharedTiers
  <1>4. CASE active # Unset
    <2> DEFINE S == TierOf(platform, active)
    <2>1. PICK i \in S : tiers[i].access = "shared"
      BY <1>2, <1>4 DEF TiersCohere
    <2>2. S = {i} /\ tiers[i].name = active
      BY <1>2, <2>1 DEF TiersCohere, TierOf
    <2>3. i <= i
      BY <1>2, <2>1 DEF TierOf
    <2>4. memory(platform) = tiers[i]
      BY <1>4, <2>2, <2>3 DEF memory
    <2> QED  BY <2>1, <2>2, <2>4
  <1> QED  BY <1>3, <1>4
================================================================================
