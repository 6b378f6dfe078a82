-------------------------- MODULE MCHardwareSession --------------------------
(* One board in two spellings, or two boards, behind hot-plug bridges. *)
EXTENDS HardwareSession

MCLower   == [s \in Spellings |-> IF s = "0A" THEN "0a" ELSE s]
MCBoardAt == [s \in Spellings |-> IF s = "0b" THEN "card2" ELSE "card1"]
Alone     == [b \in Boards |-> {b}]
Together  == [b \in Boards |-> Boards]

Plain(plan, bdf) ==
    [ plan |-> plan, board |-> BoardAt[bdf], bdf |-> bdf, facts |-> HostFacts,
      programmer |-> "openfpgaloader", explicit |-> FALSE, spi4 |-> FALSE,
      external |-> TRUE, good |-> TRUE, patterns |-> TRUE, stage |-> FALSE,
      drivers |-> FALSE, probe |-> FALSE ]
Bad(q)    == [q EXCEPT !.good = FALSE]
Probed(q) == [q EXCEPT !.probe = TRUE]

(* Reprogramming one board with good and dead images, recovering it, and    *)
(* writing its flash.                                                      *)
OneBoard ==
    { Probed(Plain("sram-program", "0a")), Bad(Plain("sram-program", "0a")),
      Plain("recovery", "0a"), Plain("validate-bitstream", "0a"),
      Bad(Plain("validate-bitstream", "0a")),
      [Plain("thunderbolt-release", "0a") EXCEPT !.patterns = FALSE],
      [Plain("sram-program", "0a") EXCEPT !.patterns = FALSE],
      Plain("flash", "0a") }

(* The full set of plans, with flash writes and a fresh build. *)
AllPlans ==
    OneBoard \cup
    { [Plain("flash", "0a") EXCEPT !.spi4 = TRUE, !.external = FALSE],
      [Plain("build-and-program", "0a") EXCEPT !.external = FALSE],
      [Probed(Plain("local-build-and-program", "0a")) EXCEPT
           !.stage = TRUE, !.drivers = TRUE],
      Plain("thunderbolt-hold", "0a") }

Rescue   == { Bad(Plain("sram-program", "0a")), Plain("sram-program", "0a") }
Both     == { Plain("sram-program", "0a"), Plain("sram-program", "0b") }
DeadImage == { Bad(Plain("sram-program", "0a")), Plain("sram-program", "0b") }
Sharing  == { Plain("sram-program", "0a"), Plain("validate-bitstream", "0b") }
Spelled  == { Plain("sram-program", "0A"), Plain("sram-program", "0a") }
=============================================================================
