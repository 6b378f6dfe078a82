------------------------------- MODULE ScanShape -------------------------------
(***************************************************************************)
(* The shapes of a scan composition (dau_build/scan_composition.py): what  *)
(* _validate_composition_shape accepts, and how wide the streams are that  *)
(* the generator then emits for it.                                        *)
(*                                                                         *)
(* The two are written apart in the code.  The validation reasons about    *)
(* the parameters of a composition; the emission declares wires and binds  *)
(* the ports of the units to them, and a port that is narrower than its    *)
(* wire drops bits without a word from the tools.  Coherent says that an   *)
(* accepted composition never comes to that.                               *)
(***************************************************************************)
EXTENDS Integers, Sequences

CONSTANT NoTile         \* a tile slot that is left out

\* A tile has elaboration parameters (numbers) and config bindings, of which
\* only the reserved symbol "load_phase" matters here.
Given(tile) == tile # NoTile
Sets(tile, name) == Given(tile) /\ name \in DOMAIN tile.params
Param(tile, name, default) == IF Sets(tile, name) THEN tile.params[name] ELSE default
BindsPhase(tile) ==
    IF Given(tile) THEN {key \in DOMAIN tile.config : tile.config[key] = "load_phase"} ELSE {}

IsTile(tile) == Given(tile) => \A name \in DOMAIN tile.params : tile.params[name] \in Int

IsComposition(c) ==
    /\ Len(c.lanes) \in Nat /\ DOMAIN c.lanes = 1 .. Len(c.lanes)
    /\ \A i \in DOMAIN c.lanes :
         /\ Given(c.lanes[i].tile) /\ IsTile(c.lanes[i].tile) /\ IsTile(c.lanes[i].partition)
         /\ \A j \in DOMAIN c.lanes[i].chain : Given(c.lanes[i].chain[j])
    /\ IsTile(c.partitioner) /\ IsTile(c.front_unpack) /\ IsTile(c.front_gearbox)
    /\ c.data_width \in Int /\ c.wide_lane \in BOOLEAN
    /\ c.input_row_bytes \in Int /\ c.handle_table_capacity \in Int /\ c.addr_width \in Int

Lanes(c) == DOMAIN c.lanes
Unpacks(c) == Given(c.front_unpack)
Gears(c) == Given(c.front_gearbox)
Shares(c) == Given(c.partitioner)
Filtered(c) == {i \in Lanes(c) : Given(c.lanes[i].partition)}

------------------------------------------------------------------------------
(* _validate_composition_shape, one rule after the other. *)

Widths == {64, 128, 256, 512}
MaxRecordWords == 16
MaxHandles == 256

SizesInRange(c) ==
    /\ Lanes(c) # {}
    /\ c.handle_table_capacity \in 0 .. MaxHandles
    /\ c.data_width \in Widths

\* Every row goes through one place that may drop it or choose its lane.
PartitionedOnce(c) == Shares(c) => Filtered(c) = {}

\* The lane of a wide composition takes the whole stream itself.
WideLaneAlone(c) ==
    c.wide_lane =>
      /\ Lanes(c) = {1} /\ Filtered(c) = {}
      /\ ~Shares(c) /\ ~Gears(c)
      /\ c.data_width > 64

GearedByRecord(c) ==
    Gears(c) =>
      /\ ~Unpacks(c)
      /\ c.data_width > 64
      /\ Shares(c)
      /\ \A name \in {"RECORD_WORDS", "IN_WIDTH"} : ~Sets(c.front_gearbox, name)
      /\ "cfg_input_records" \notin DOMAIN c.front_gearbox.config
      /\ c.input_row_bytes > 0 /\ c.input_row_bytes % 8 = 0
      /\ \A name \in {"IN_WIDTH", "RECORD_WORDS", "RECORD_INPUT"} : ~Sets(c.partitioner, name)

FrontWidth(c) == Param(c.front_unpack, "OUT_WIDTH", 64)

\* Packed rows are 64 bits each.  A wide lane takes one quad row of 128 bits
\* for every packed row of a beat.
UnpackedToRows(c) ==
    Unpacks(c) =>
      /\ FrontWidth(c) \in Widths \union {1024}
      /\ IF c.wide_lane
           THEN FrontWidth(c) >= 128 /\ c.data_width = (FrontWidth(c) \div 128) * 64
           ELSE c.data_width = 64

RecordBus(c) == (c.input_row_bytes \div 8) * 64

FanoutWidth(c) == IF Gears(c) THEN RecordBus(c) ELSE Param(c.partitioner, "IN_WIDTH", 64)

FeedWidth(c) ==
    IF Unpacks(c) THEN FrontWidth(c)
    ELSE IF Gears(c) THEN c.input_row_bytes * 8
    ELSE c.data_width

\* The stream into the fan-out is as wide as the fan-out takes it.
FedAsTaken(c) ==
    /\ IF Gears(c) THEN FanoutWidth(c) \in 64 .. MaxRecordWords * 64 ELSE FanoutWidth(c) \in Widths
    /\ IF FeedWidth(c) > 64 /\ ~c.wide_lane
         THEN Shares(c) /\ FanoutWidth(c) = FeedWidth(c)
         ELSE FanoutWidth(c) = 64

Loads(lane) == 1 \in DOMAIN lane.chain /\ "cfg_load" \in BindsPhase(lane.chain[1])

\* Only the head of a chain may look at the load phase, as cfg_load.
PhaseAtHeads(c) ==
    /\ \A tile \in {c.partitioner, c.front_unpack, c.front_gearbox} : BindsPhase(tile) = {}
    /\ \A i \in Lanes(c) :
         /\ BindsPhase(c.lanes[i].tile) = {} /\ BindsPhase(c.lanes[i].partition) = {}
         /\ \A j \in DOMAIN c.lanes[i].chain :
              BindsPhase(c.lanes[i].chain[j]) \subseteq (IF j = 1 THEN {"cfg_load"} ELSE {})

\* An image to load reaches every lane, and reaches it as it is.
LoadsWhole(c) ==
    (\E i \in Lanes(c) : Loads(c.lanes[i])) =>
      /\ \A i \in Lanes(c) : Loads(c.lanes[i])
      /\ ~Shares(c) /\ ~Unpacks(c) /\ Filtered(c) = {}

Accepted(c) ==
    /\ SizesInRange(c) /\ PartitionedOnce(c) /\ WideLaneAlone(c)
    /\ GearedByRecord(c) /\ UnpackedToRows(c) /\ FedAsTaken(c)
    /\ PhaseAtHeads(c) /\ LoadsWhole(c)

------------------------------------------------------------------------------
(* The row grid, and what only the generators refuse. *)

Grids == {8, 16, 32, 64, 128, 256, 512, 1024, 2048, 4096}  \* bound: records of up to 4 KiB

\* The largest grid that a whole number of records is always on.
RecordGrid(c) ==
    CHOOSE g \in Grids : c.input_row_bytes % g = 0
                         /\ \A h \in Grids : c.input_row_bytes % h = 0 => h <= g

BeatBytes(c) == c.data_width \div 8

\* Mutated: the grid of the rows alone, whatever the reader moves in a beat.
GridOfRows(c) == IF Unpacks(c) THEN 8 ELSE RecordGrid(c)

\* Mutated: the grid of packed rows and quad rows, whatever the record size.
GridOfQuadRows(c) ==
    LET rows == IF Unpacks(c) THEN 8 ELSE 16 IN
    IF rows > BeatBytes(c) THEN rows ELSE BeatBytes(c)

\* 1 << _length_align_bits(c)
GridBytes(c) ==
    LET rows == IF Unpacks(c) THEN 8 ELSE RecordGrid(c) IN
    IF rows > BeatBytes(c) THEN rows ELSE BeatBytes(c)

length_ok(c, length) == length # 0 /\ length % GridBytes(c) = 0

Generates(c) ==
    /\ Accepted(c)
    /\ Unpacks(c) \/ (c.input_row_bytes > 0 /\ c.input_row_bytes % 8 = 0)
    /\ ~Sets(c.partitioner, "NUM_PARTITIONS")

------------------------------------------------------------------------------
(* The emission: the nets of the row stream, and the ports bound to them. *)

End(net, unit, width) == [net |-> net, unit |-> unit, width |-> width]
When(present, ends) == IF present THEN ends ELSE {}

\* The units that put rows on a net: the reader and the front stage.
Drivers(c) ==
    {End("scan", <<"reader">>, c.data_width)}
      \union When(Unpacks(c), {End("feed", <<"front_unpack">>, FrontWidth(c))})
      \union When(Gears(c), {End("geared", <<"front_gearbox">>, 64 * (c.input_row_bytes \div 8))})

Nets(c) == {end.net : end \in Drivers(c)}

\* The width of the wire that is declared for a net.
Wire(c, net) ==
    CASE net = "scan" -> c.data_width
      [] net = "feed" -> FrontWidth(c)
      [] net = "geared" -> c.input_row_bytes * 8

\* The front unpacker takes packed rows of 64 bits: one a beat, or with a
\* wide lane one for each quad row it makes.
FrontTakes(c) ==
    When(Unpacks(c), {End("scan", <<"front_unpack">>,
                          IF c.wide_lane THEN 64 * (FrontWidth(c) \div 128) ELSE 64)})
      \union When(Gears(c), {End("scan", <<"front_gearbox">>, c.data_width)})

\* Mutated: a wide lane is wired to the reader, whatever stands behind it.
WideSourceIsReader(c) == [net |-> "scan", width |-> c.data_width]

\* What a wide lane takes: the reader's beats, or those of the unpacker.
WideSource(c) ==
    IF Unpacks(c) THEN [net |-> "feed", width |-> FrontWidth(c)]
                  ELSE [net |-> "scan", width |-> c.data_width]

WideTakes(c) == {End(WideSource(c).net, <<"lane", i>>, WideSource(c).width) : i \in Lanes(c)}

StreamPrefix(c) == IF Unpacks(c) THEN "feed" ELSE IF Gears(c) THEN "geared" ELSE "scan"

\* The shared partitioner takes its IN_WIDTH, derived behind a gearbox; the
\* broadcast has no parameter and takes 64 bits.
FanoutTakes(c) ==
    {End(StreamPrefix(c), <<"fan-out">>,
         IF ~Shares(c) THEN 64
         ELSE IF Gears(c) THEN 64 * (c.input_row_bytes \div 8)
         ELSE Param(c.partitioner, "IN_WIDTH", 64))}

\* The units that take rows from a net, and drive its ready.
Takers(c) == FrontTakes(c) \union (IF c.wide_lane THEN WideTakes(c) ELSE FanoutTakes(c))

\* The stream inside a lane: the wires of its front, its chain, and its tile's input.
LaneWidth(c) == IF c.wide_lane THEN WideSource(c).width ELSE 64

\* The memory buses of the top: one to read and write, or a wide one to read
\* and the writers' own.  The shell generator binds them by the same rule.
Buses(c) ==
    IF c.data_width = 64
      THEN [M_AXI |-> [channels |-> {"read", "write"}, width |-> 64]]
      ELSE [M_AXI_R |-> [channels |-> {"read"}, width |-> c.data_width],
            M_AXI_W |-> [channels |-> {"write"}, width |-> 64]]

\* The LOAD_PHASE register is there for the tiles that look at it.
UsesLoadPhase(c) ==
    \/ \E tile \in {c.partitioner, c.front_unpack, c.front_gearbox} : BindsPhase(tile) # {}
    \/ \E i \in Lanes(c) :
         \/ BindsPhase(c.lanes[i].tile) # {} \/ BindsPhase(c.lanes[i].partition) # {}
         \/ \E j \in DOMAIN c.lanes[i].chain : BindsPhase(c.lanes[i].chain[j]) # {}

------------------------------------------------------------------------------
(* What the emission relies on. *)

\* Every net has one driver and one taker, and both are as wide as its wire:
\* no bit of a row is dropped or left undriven, no ready is driven twice
\* ("conflating them is the hazard", scan_composition.py:374).
Coherent(c) ==
    \A net \in Nets(c) :
      /\ \E d \in Drivers(c) : {end \in Drivers(c) : end.net = net} = {d} /\ d.width = Wire(c, net)
      /\ \E t \in Takers(c) : {end \in Takers(c) : end.net = net} = {t} /\ t.width = Wire(c, net)

\* A lane takes words of 64 bits from a fan-out, or whole quad rows.
LanesFed(c) == IF c.wide_lane THEN LaneWidth(c) >= 128 ELSE LaneWidth(c) = 64

\* An image to load comes to every lane through nothing but the reader and
\* the broadcast, and the register that announces it is there.
LoadReachesLanes(c) ==
    UsesLoadPhase(c) =>
      /\ \A i \in Lanes(c) : Loads(c.lanes[i]) /\ ~Given(c.lanes[i].partition)
      /\ ~Shares(c)
      /\ \A t \in Takers(c) : t.net = "scan" /\ t.unit[1] \in {"fan-out", "lane"}
==============================================================================
