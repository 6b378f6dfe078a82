----------------------------- MODULE PlatformSizing ----------------------------
(***************************************************************************)
(* Boards as data, and what is computed of them before a design is built   *)
(* (dau_build/platforms.py): whether a board is coherent, which memory a   *)
(* build instantiates, and how many lanes fit.                             *)
(*                                                                         *)
(* Everything here is a function of its arguments.  An operator that       *)
(* raises has its refusal beside it.  A use of resources is a function of  *)
(* Resources; its block RAM is counted in quarters of a BRAM36, so that a  *)
(* count that is no half is among them, and an unset field is Unset.       *)
(***************************************************************************)
EXTENDS Integers, Sequences, FiniteSets
LOCAL INSTANCE Functions

CONSTANT Unset

Resources == {"lut", "ff", "bram36", "dsp"}

Nothing == [r \in Resources |-> 0]

--------------------------------------------------------------------------------
(* The board. *)

LaneWidths == {1, 2, 4, 8, 16}

ValidBudget(budget) == \A r \in Resources : budget[r] > 0

\* What the link trains at is measured, and need not be its electrical width.
ValidHostLink(link) ==
    /\ link.pcie_lanes \in LaneWidths
    /\ link.expected_link_width \in LaneWidths \union {Unset}

WidthTiers == {64, 128, 256, 512}

ValidWidthTiers(tiers) ==
    /\ tiers # <<>> /\ Range(tiers) \subseteq WidthTiers
    /\ IsInjective(tiers)

TierOf(platform, name) ==
    {i \in DOMAIN platform.storage_tiers : platform.storage_tiers[i].name = name}

\* The name of a tier is its own, and the active one is a tier that is shared.
TiersCohere(platform) ==
    LET active == platform.active_memory_tier IN
    /\ \A i \in DOMAIN platform.storage_tiers :
         TierOf(platform, platform.storage_tiers[i].name) = {i}
    /\ active # Unset =>
         \E i \in TierOf(platform, active) : platform.storage_tiers[i].access = "shared"

ValidPlatform(platform) ==
    /\ ValidBudget(platform.budget)
    /\ ValidHostLink(platform.host_link)
    /\ ValidWidthTiers(platform.width_tiers)
    /\ platform.job_clock_mhz = Unset \/ platform.job_clock_mhz > 0
    /\ platform.program_method \in {"jtag", "flash"}
    /\ TiersCohere(platform)

SharedTiers(platform) ==
    {i \in DOMAIN platform.storage_tiers : platform.storage_tiers[i].access = "shared"}

MemoryRefuses(platform) == platform.active_memory_tier = Unset /\ SharedTiers(platform) = {}

\* The tier of that name, or else the first one that is shared.
memory(platform) ==
    LET candidates == IF platform.active_memory_tier = Unset THEN SharedTiers(platform)
                      ELSE TierOf(platform, platform.active_memory_tier)
    IN platform.storage_tiers[CHOOSE i \in candidates : \A j \in candidates : i <= j]

--------------------------------------------------------------------------------
(* The lanes. *)

Less(budget, used) == [r \in Resources |-> budget[r] - used[r]]

fits(used, budget) == \A r \in Resources : Less(budget, used)[r] >= 0

MinLanesRefuses(data_width) == data_width \notin WidthTiers

\* A front of W bits has W/128 rows per beat, and a lane takes a row in two.
min_lanes_for_full_rate(data_width) ==
    LET rows == data_width \div 128 IN IF rows = 0 THEN 1 ELSE 2 * rows

\* Block RAM is counted in halves, and nothing smaller is given.
Granular(use) == use["bram36"] % 2 = 0
InHalves(use) == [use EXCEPT !["bram36"] = @ \div 2]

\* A budget that is no half is refused like a use that is none; what a lane
\* uses is looked at behind the answer 0.
MaxLanesRefuses(lane, budget, overhead) ==
    \/ \E r \in Resources : lane[r] < 0 \/ overhead[r] < 0
    \/ ~Granular(budget) \/ ~Granular(overhead)
    \/ fits(overhead, budget) /\ (~Granular(lane) \/ lane = Nothing)

\* How many lanes the resource r has room for.
Ceiling(lane, budget, overhead, r) ==
    Less(InHalves(budget), InHalves(overhead))[r] \div InHalves(lane)[r]

Ceilings(lane, budget, overhead) ==
    {Ceiling(lane, budget, overhead, r) : r \in {q \in Resources : InHalves(lane)[q] > 0}}

\* 0 when the overhead alone does not fit.
max_lanes(lane, budget, overhead) ==
    LET ceilings == Ceilings(lane, budget, overhead) IN
    IF ~fits(InHalves(overhead), InHalves(budget)) THEN 0
    ELSE CHOOSE n \in ceilings : \A m \in ceilings : n <= m

--------------------------------------------------------------------------------
(* What they are to be. *)

\* What n lanes use beside the overhead.
Design(lane, overhead, n) == [r \in Resources |-> overhead[r] + n * lane[r]]

(* The ceiling is the ceiling: so many lanes fit the board with the        *)
(* overhead, and one more does not; "returns 0 when even the overhead      *)
(* alone does not fit" (max_lanes).                                        *)
IsCeiling(lane, budget, overhead) ==
    LET n == max_lanes(lane, budget, overhead) IN
    IF fits(overhead, budget)
      THEN \A k \in 0 .. n + 1 : fits(Design(lane, overhead, k), budget) <=> k <= n
      ELSE n = 0

(* As many lanes as the tier sizing law wants take what a front delivers,  *)
(* and with one fewer rows queue up (min_lanes_for_full_rate).             *)
FullRate(data_width) ==
    LET lanes == min_lanes_for_full_rate(data_width)
        drains(n) == n * 128 >= 2 * data_width
    IN drains(lanes) /\ ~drains(lanes - 1)

(* The memory a build instantiates is a tier of the board that may be      *)
(* shared, and the one that is named if one is.                            *)
MemoryIsShared(platform) ==
    ValidPlatform(platform) /\ ~MemoryRefuses(platform) =>
      /\ memory(platform).access = "shared"
      /\ platform.active_memory_tier # Unset =>
           memory(platform).name = platform.active_memory_tier
================================================================================
