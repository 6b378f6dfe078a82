--------------------------- MODULE MCPlanExecutor ----------------------------
(* Two boards, one of them spelled in two ways, and four kinds of request. *)
EXTENDS PlanExecutor

MCLower   == [s \in Spellings |-> IF s = "0A" THEN "0a" ELSE s]
MCBoardAt == [s \in Spellings |-> IF s = "0b" THEN "card2" ELSE "card1"]

(* A request with every fact of its host set and every option off. *)
Plain(plan, bdf) ==
    [ plan |-> plan, board |-> BoardAt[bdf], bdf |-> bdf, facts |-> HostFacts,
      programmer |-> "openfpgaloader", explicit |-> FALSE, spi4 |-> FALSE,
      external |-> TRUE, good |-> TRUE, patterns |-> TRUE, stage |-> FALSE,
      drivers |-> FALSE, probe |-> FALSE ]

(* A plan that needs no endpoint, run without naming one. *)
Unkeyed(plan, board) ==
    [Plain(plan, "0a") EXCEPT !.bdf = NoBdf, !.board = board,
                              !.facts = {"runtime_pm_patterns"}]

(* Two spellings of one board, a second board, and a run without a device. *)
MCRequests ==
    { Plain("validate-bitstream", "0a"), Plain("sram-program", "0A"),
      Plain("flash", "0A"), Plain("recovery", "0b"),
      Unkeyed("thunderbolt-release", "card1"),
      [Plain("validate-bitstream", "0a") EXCEPT !.programmer = "vivado-hwserver"] }
=============================================================================
