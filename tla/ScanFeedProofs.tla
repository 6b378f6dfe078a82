---------------------------- MODULE ScanFeedProofs ----------------------------
(***************************************************************************)
(* What an accepted composition can rely on, for every composition, and    *)
(* what holds of the row stream for every set of compositions and lengths. *)
(***************************************************************************)
EXTENDS ScanFeed, RegisterMap, FiniteSetTheorems, TLAPS

------------------------------------------------------------------------------
(* Shapes and the register window. *)

\* A parameter that is set is a number, and one that is not has its default.
LEMMA ParamType ==
    ASSUME NEW tile, IsTile(tile), NEW name, NEW default \in Int
    PROVE  Param(tile, name, default) \in Int
  BY DEF IsTile, Param, Sets, Given

\* The streams that enter the fan-out or a wide lane are as wide as they are
\* taken: the rules of the validation, put together.
LEMMA StreamWidths ==
    ASSUME NEW c, IsComposition(c), Accepted(c)
    PROVE  /\ Gears(c) => RecordBus(c) = c.input_row_bytes * 8
           /\ c.wide_lane /\ Unpacks(c) => c.data_width = 64 * (FrontWidth(c) \div 128)
           /\ ~c.wide_lane /\ Unpacks(c) => c.data_width = 64
           /\ ~c.wide_lane => FeedWidth(c) = FanoutWidth(c) /\ FanoutWidth(c) >= 64
           /\ ~c.wide_lane /\ ~Shares(c) => FeedWidth(c) = 64
  <1>1. FrontWidth(c) \in Int /\ Param(c.partitioner, "IN_WIDTH", 64) \in Int
    BY ParamType DEF IsComposition, FrontWidth
  <1>2. Gears(c) => RecordBus(c) = c.input_row_bytes * 8
    <2>1. ASSUME NEW row \in Int, row % 8 = 0  PROVE  (row \div 8) * 64 = row * 8
      BY <2>1
    <2>2. Gears(c) => c.input_row_bytes \in Int /\ c.input_row_bytes % 8 = 0
      BY DEF Accepted, GearedByRecord, IsComposition
    <2> QED  BY <2>1, <2>2 DEF RecordBus
  <1>3. c.wide_lane /\ Unpacks(c) => c.data_width = 64 * (FrontWidth(c) \div 128)
    BY <1>1 DEF Accepted, UnpackedToRows, Widths
  <1>4. ~c.wide_lane /\ Unpacks(c) => c.data_width = 64
    BY DEF Accepted, UnpackedToRows
  <1>5. ~c.wide_lane => FeedWidth(c) \in Int /\ FeedWidth(c) >= 64
    BY <1>1, <1>2 DEF Accepted, FeedWidth, UnpackedToRows, GearedByRecord, SizesInRange, Widths,
       IsComposition, FedAsTaken, FanoutWidth, MaxRecordWords
  <1>6. ~c.wide_lane => FeedWidth(c) = FanoutWidth(c) /\ FanoutWidth(c) >= 64
    BY <1>5 DEF Accepted, FedAsTaken
  <1>7. ~c.wide_lane /\ ~Shares(c) => FeedWidth(c) = 64
    BY <1>5 DEF Accepted, FedAsTaken
  <1> QED  BY <1>2, <1>3, <1>4, <1>6, <1>7

\* What takes the rows: behind the front stage there is one unit, and it takes
\* the stream at its width.
LEMMA OneTaker ==
    ASSUME NEW c, IsComposition(c), Accepted(c)
    PROVE  \E t : /\ (IF c.wide_lane THEN WideTakes(c) ELSE FanoutTakes(c)) = {t}
                  /\ t.net = StreamPrefix(c)
                  /\ t.width = Wire(c, StreamPrefix(c))
  <1>1. CASE c.wide_lane
    <2>1. Lanes(c) = {1} /\ ~Gears(c)
      BY <1>1 DEF Accepted, WideLaneAlone
    <2> DEFINE t == End(WideSource(c).net, <<"lane", 1>>, WideSource(c).width)
    <2>2. WideTakes(c) = {t}
      BY <2>1 DEF WideTakes
    <2>3. t.net = StreamPrefix(c) /\ t.width = Wire(c, StreamPrefix(c))
      BY <2>1 DEF End, WideSource, StreamPrefix, Wire
    <2> QED  BY <1>1, <2>2, <2>3
  <1>2. CASE ~c.wide_lane
    <2> DEFINE width == IF ~Shares(c) THEN 64
                        ELSE IF Gears(c) THEN 64 * (c.input_row_bytes \div 8)
                        ELSE Param(c.partitioner, "IN_WIDTH", 64)
               t == End(StreamPrefix(c), <<"fan-out">>, width)
    <2>1. FanoutTakes(c) = {t}
      BY DEF FanoutTakes
    <2>2. c.input_row_bytes \in Int
      BY DEF IsComposition
    <2>3. width = FeedWidth(c)
      <3>1. CASE ~Shares(c)
        BY <1>2, <3>1, StreamWidths
      <3>2. CASE Gears(c) /\ Shares(c)
        BY <2>2, <3>2, StreamWidths, <1>2 DEF FanoutWidth, RecordBus
      <3>3. CASE ~Gears(c) /\ Shares(c)
        BY <1>2, <3>3, StreamWidths DEF FanoutWidth
      <3> QED  BY <3>1, <3>2, <3>3
    <2>4. FeedWidth(c) = Wire(c, StreamPrefix(c))
      BY DEF FeedWidth, Wire, StreamPrefix
    <2>5. t.net = StreamPrefix(c) /\ t.width = width
      BY DEF End
    <2> QED  BY <1>2, <2>1, <2>3, <2>4, <2>5
  <1> QED  BY <1>1, <1>2

\* An accepted composition is emitted with every net driven once, taken once
\* and as wide at both ends as its wire: the rules of
\* _validate_composition_shape are strong enough for the emission.
THEOREM AcceptedIsCoherent ==
    ASSUME NEW c, IsComposition(c), Accepted(c)
    PROVE  Coherent(c)
  <1> PICK t : /\ (IF c.wide_lane THEN WideTakes(c) ELSE FanoutTakes(c)) = {t}
               /\ t.net = StreamPrefix(c)
               /\ t.width = Wire(c, StreamPrefix(c))
    BY OneTaker
  <1> DEFINE read == End("scan", <<"reader">>, c.data_width)
  <1>0. read.net = "scan" /\ read.width = Wire(c, "scan")
    BY DEF End, Wire
  <1>1. CASE ~Unpacks(c) /\ ~Gears(c)
    <2>1. Drivers(c) = {read} /\ Takers(c) = {t} /\ t.net = "scan"
      BY <1>1 DEF Drivers, Takers, FrontTakes, When, StreamPrefix
    <2> QED  BY <1>0, <1>1, <2>1 DEF Coherent, Nets, StreamPrefix
  <1>2. CASE Unpacks(c)
    <2> DEFINE feed == End("feed", <<"front_unpack">>, FrontWidth(c))
               packed == End("scan", <<"front_unpack">>,
                             IF c.wide_lane THEN 64 * (FrontWidth(c) \div 128) ELSE 64)
    <2>1. ~Gears(c)
      BY <1>2 DEF Accepted, GearedByRecord
    <2>2. Drivers(c) = {read, feed} /\ Takers(c) = {packed, t}
      BY <1>2, <2>1 DEF Drivers, Takers, FrontTakes, When
    <2>3. feed.net = "feed" /\ feed.width = Wire(c, "feed")
      BY DEF End, Wire
    <2>4. packed.net = "scan" /\ packed.width = Wire(c, "scan")
      BY <1>2, StreamWidths DEF End, Wire, IsComposition
    <2>5. t.net = "feed" /\ t.width = Wire(c, "feed")
      BY <1>2 DEF StreamPrefix
    <2> HIDE DEF feed, packed, read
    <2> QED  BY <1>0, <2>2, <2>3, <2>4, <2>5 DEF Coherent, Nets
  <1>3. CASE Gears(c)
    <2> DEFINE geared == End("geared", <<"front_gearbox">>, 64 * (c.input_row_bytes \div 8))
               beats == End("scan", <<"front_gearbox">>, c.data_width)
    <2>1. ~Unpacks(c)
      BY <1>3 DEF Accepted, GearedByRecord
    <2>2. Drivers(c) = {read, geared} /\ Takers(c) = {beats, t}
      BY <1>3, <2>1 DEF Drivers, Takers, FrontTakes, When
    <2>3. c.input_row_bytes \in Int
      BY DEF IsComposition
    <2>4. geared.net = "geared" /\ geared.width = Wire(c, "geared")
      BY <1>3, <2>3, StreamWidths DEF End, Wire, RecordBus
    <2>5. beats.net = "scan" /\ beats.width = Wire(c, "scan")
      BY DEF End, Wire
    <2>6. t.net = "geared" /\ t.width = Wire(c, "geared")
      BY <1>3, <2>1 DEF StreamPrefix
    <2> HIDE DEF geared, beats, read
    <2> QED  BY <1>0, <2>2, <2>4, <2>5, <2>6 DEF Coherent, Nets
  <1> QED  BY <1>1, <1>2, <1>3

\* A wide lane takes whole quad rows, every other lane 64-bit words.
THEOREM AcceptedFeedsLanes ==
    ASSUME NEW c, IsComposition(c), Accepted(c)
    PROVE  LanesFed(c)
  <1>1. FrontWidth(c) \in Int
    BY ParamType DEF IsComposition, FrontWidth
  <1> QED  BY <1>1 DEF LanesFed, LaneWidth, WideSource, Accepted, WideLaneAlone, UnpackedToRows,
              SizesInRange, Widths

\* An image to load comes to every lane as it was read.
THEOREM AcceptedLoadsWhole ==
    ASSUME NEW c, IsComposition(c), Accepted(c)
    PROVE  LoadReachesLanes(c)
  <1> SUFFICES ASSUME UsesLoadPhase(c)  PROVE  LoadReachesLanes(c)
    BY DEF LoadReachesLanes
  <1>1. \E i \in Lanes(c) : Loads(c.lanes[i])
    <2>1. PICK i \in Lanes(c) : \E j \in DOMAIN c.lanes[i].chain : BindsPhase(c.lanes[i].chain[j]) # {}
      BY DEF UsesLoadPhase, Accepted, PhaseAtHeads
    <2>2. 1 \in DOMAIN c.lanes[i].chain /\ "cfg_load" \in BindsPhase(c.lanes[i].chain[1])
      BY <2>1 DEF Accepted, PhaseAtHeads
    <2> QED  BY <2>1, <2>2 DEF Loads
  <1>2. /\ \A i \in Lanes(c) : Loads(c.lanes[i])
        /\ ~Shares(c) /\ ~Unpacks(c) /\ Filtered(c) = {}
    BY <1>1 DEF Accepted, LoadsWhole
  <1>3. ~Gears(c)
    BY <1>2 DEF Accepted, GearedByRecord
  <1>4. \A i \in Lanes(c) : ~Given(c.lanes[i].partition)
    BY <1>2 DEF Filtered
  <1>5. \A t \in Takers(c) : t.net = "scan" /\ t.unit[1] \in {"fan-out", "lane"}
    BY <1>2, <1>3 DEF Takers, FrontTakes, When, WideTakes, FanoutTakes, WideSource, StreamPrefix, End
  <1> QED  BY <1>2, <1>4, <1>5 DEF LoadReachesLanes

------------------------------------------------------------------------------
(* The row grid. *)

\* The grid of a record is one of the grids, and the record is on it.
LEMMA RecordOnGrid ==
    ASSUME NEW c, c.input_row_bytes \in Int, c.input_row_bytes % 8 = 0
    PROVE  RecordGrid(c) \in Grids /\ c.input_row_bytes % RecordGrid(c) = 0
  <1> DEFINE row == c.input_row_bytes
             Largest(g) == row % g = 0 /\ \A h \in Grids : row % h = 0 => h <= g
  <1>1. \E g \in Grids : Largest(g)
    BY DEF Grids
  <1>2. RecordGrid(c) = CHOOSE g \in Grids : Largest(g)
    BY DEF RecordGrid
  <1> QED  BY <1>1, <1>2

\* A length that passes the gate is whole beats of the reader: the reader never
\* stops in the middle of one, at any bus width.
THEOREM GateHoldsBeats ==
    ASSUME NEW c, IsComposition(c), Generates(c), NEW bytes \in Nat, length_ok(c, bytes)
    PROVE  bytes % BeatBytes(c) = 0 /\ bytes >= BeatBytes(c)
  <1> DEFINE rows == IF Unpacks(c) THEN 8 ELSE RecordGrid(c)
  <1>1. BeatBytes(c) \in {8, 16, 32, 64}
    BY DEF BeatBytes, Generates, Accepted, SizesInRange, Widths
  <1>2. rows \in Grids
    BY RecordOnGrid DEF Generates, IsComposition, Grids
  <1>3. bytes # 0 /\ bytes % (IF rows > BeatBytes(c) THEN rows ELSE BeatBytes(c)) = 0
    BY DEF length_ok, GridBytes
  <1> HIDE DEF rows
  <1> QED  BY <1>1, <1>2, <1>3 DEF Grids

\* The gate takes every length that is whole beats and whole records.
THEOREM GateTakesWholeJobs ==
    ASSUME NEW c, IsComposition(c), Generates(c), NEW bytes \in Nat \ {0},
           bytes % BeatBytes(c) = 0,
           NEW records \in Nat, bytes = records * (IF Unpacks(c) THEN 8 ELSE c.input_row_bytes)
    PROVE  length_ok(c, bytes)
  <1>1. BeatBytes(c) \in {8, 16, 32, 64}
    BY DEF BeatBytes, Generates, Accepted, SizesInRange, Widths
  <1>2. CASE Unpacks(c)
    BY <1>1, <1>2 DEF length_ok, GridBytes
  <1>3. CASE ~Unpacks(c)
    <2> DEFINE row == c.input_row_bytes
               g == RecordGrid(c)
    <2>1. row \in Int /\ g \in Grids /\ row % g = 0
      BY <1>3, RecordOnGrid DEF Generates, IsComposition
    <2>2. bytes % g = 0
      <3> HIDE DEF row, g
      <3>1. row = g * (row \div g)
        BY <2>1 DEF Grids
      <3>2. row \div g \in Int
        BY <2>1 DEF Grids
      <3>3. bytes = records * row
        BY <1>3 DEF row
      <3> DEFINE q == row \div g
      <3>4. bytes = g * (records * q)
        BY <2>1, <3>1, <3>2, <3>3 DEF Grids
      <3>5. records * q \in Int
        BY <3>2
      <3> DEFINE k == records * q
      <3> HIDE DEF q, k
      <3>6. bytes = g * k /\ k \in Int
        BY <3>4, <3>5 DEF k
      <3> QED  BY <2>1, <3>6 DEF Grids
    <2> QED  BY <1>1, <1>3, <2>1, <2>2 DEF length_ok, GridBytes
  <1> QED  BY <1>2, <1>3

------------------------------------------------------------------------------
(* The register window. *)

\* All the registers that a top may have but the lanes'.
Everything == JobRegisters \union DebugRegisters \union HandleRegisters \union {LoadPhase, InputHigh, BaseHigh}

LEMMA TopOffsets ==
    ASSUME NEW r \in Everything
    PROVE  r.offset \in Int /\ ((0 <= r.offset /\ r.offset < 256) \/ (4032 <= r.offset /\ r.offset < 4096))
  <1>1. CASE r \in JobRegisters
    BY <1>1 DEF JobRegisters, Register
  <1>2. CASE r \in DebugRegisters
    BY <1>2 DEF DebugRegisters, Register
  <1>3. CASE r \in HandleRegisters
    BY <1>3 DEF HandleRegisters, Register
  <1>4. CASE r \in {LoadPhase, InputHigh, BaseHigh}
    BY <1>4 DEF LoadPhase, InputHigh, BaseHigh, Register
  <1> QED  BY <1>1, <1>2, <1>3, <1>4 DEF Everything

LEMMA TopOffsetsDiffer ==
    ASSUME NEW r \in Everything, NEW s \in Everything, r.offset = s.offset
    PROVE  r = s
  <1>1. CASE r \in JobRegisters
    BY <1>1 DEF Everything, JobRegisters, DebugRegisters, HandleRegisters, LoadPhase, InputHigh, BaseHigh, Register
  <1>2. CASE r \in DebugRegisters
    BY <1>2 DEF Everything, JobRegisters, DebugRegisters, HandleRegisters, LoadPhase, InputHigh, BaseHigh, Register
  <1>3. CASE r \in HandleRegisters
    BY <1>3 DEF Everything, JobRegisters, DebugRegisters, HandleRegisters, LoadPhase, InputHigh, BaseHigh, Register
  <1>4. CASE r \in {LoadPhase, InputHigh, BaseHigh}
    BY <1>4 DEF Everything, JobRegisters, DebugRegisters, HandleRegisters, LoadPhase, InputHigh, BaseHigh, Register
  <1> QED  BY <1>1, <1>2, <1>3, <1>4 DEF Everything

\* Two registers of a shell of at most 118 lanes never share an offset.
THEOREM RegistersAnswerAlone ==
    ASSUME NEW c, NEW n \in Nat, Lanes(c) = 1 .. n, n <= MaxLanes
    PROVE  EachAnswersAlone(c)
  <1>1. ASSUME NEW r \in Registers(c)
        PROVE  \/ r \in Everything
               \/ \E i \in 1 .. n : r \in LaneWindow(c, i)
    BY DEF Registers, TopRegisters, Everything, When
  <1>3. ASSUME NEW i \in 1 .. n, NEW r \in LaneWindow(c, i)
        PROVE  r.offset \in 256 + 32 * (i - 1) .. 256 + 32 * (i - 1) + 31
    BY DEF LaneWindow, LaneRegister, When, LaneBase, LaneStride
  <1>5. ASSUME NEW i \in 1 .. n, NEW r \in LaneWindow(c, i), NEW s \in LaneWindow(c, i),
               r.offset = s.offset
        PROVE  r = s
    BY <1>5 DEF LaneWindow, LaneRegister, When, LaneBase, LaneStride
  <1>6. ASSUME NEW r \in Registers(c), NEW s \in Registers(c),
               r.offset % Window = s.offset % Window
        PROVE  r = s
    <2>1. CASE r \in Everything /\ s \in Everything
      <3>1. r.offset % Window = r.offset /\ s.offset % Window = s.offset
        BY <2>1, TopOffsets DEF Window
      <3> QED  BY <1>6, <2>1, <3>1, TopOffsetsDiffer
    <2>2. ASSUME NEW x \in Everything, NEW i \in 1 .. n, NEW y \in LaneWindow(c, i)
          PROVE  x.offset % Window # y.offset % Window
      <3>1. y.offset \in Int /\ 256 <= y.offset /\ y.offset < 4032
        BY <1>3 DEF MaxLanes
      <3>2. x.offset \in Int /\ ((0 <= x.offset /\ x.offset < 256) \/ (4032 <= x.offset /\ x.offset < 4096))
        BY TopOffsets
      <3> QED  BY <3>1, <3>2 DEF Window
    <2>4. ASSUME NEW i \in 1 .. n, r \in LaneWindow(c, i), NEW j \in 1 .. n, s \in LaneWindow(c, j)
          PROVE  r = s
      <3>1. /\ r.offset \in 256 + 32 * (i - 1) .. 256 + 32 * (i - 1) + 31
            /\ s.offset \in 256 + 32 * (j - 1) .. 256 + 32 * (j - 1) + 31
        BY <1>3, <2>4
      <3>2. r.offset = s.offset /\ i = j
        BY <1>6, <3>1 DEF Window, MaxLanes
      <3> QED  BY <1>5, <2>4, <3>2
    <2> QED  BY <1>1, <1>6, <2>1, <2>2, <2>4
  <1> QED  BY <1>6 DEF EachAnswersAlone, Selected

\* The bound is sharp: the output address of one lane more answers where the
\* first debug word does.
THEOREM OneLaneTooMany ==
    ASSUME NEW c, MaxLanes + 1 \in Lanes(c)
    PROVE  ~EachAnswersAlone(c)
  <1> DEFINE r == LaneRegister("OUTPUT_ADDRESS", MaxLanes + 1, 0)
             s == Register("dbg_first_stream_word_low", 4032)
  <1>1. r \in Registers(c) /\ s \in Registers(c)
    BY DEF Registers, LaneWindow, TopRegisters, DebugRegisters
  <1>2. r.offset = 4032 /\ s.offset = 4032 /\ r # s
    BY DEF LaneRegister, Register, MaxLanes, LaneBase, LaneStride
  <1> QED  BY <1>1, <1>2 DEF EachAnswersAlone, Selected

------------------------------------------------------------------------------
(* The row stream. *)

\* The composition is one the generator emits, and the gate judges by it.
Fixed ==
    /\ comp \in Compositions /\ Generates(comp)
    /\ length \in Nat
    /\ length_fail => ~length_ok(comp, length)

LEMMA FixedStays ==
    ASSUME Fixed, [Next]_vars
    PROVE  Fixed'
  <1> USE FeedAssumption
  <1>1. CASE Submit
    <2> PICK bytes \in Lengths : Start(bytes)
      BY <1>1 DEF Submit
    <2>1. comp' = comp
      BY <1>1 DEF Submit
    <2> QED  BY <2>1 DEF Fixed, Start
  <1>2. CASE Reset
    BY <1>2 DEF Reset, Fixed
  <1>3. CASE UNCHANGED <<comp, length, length_fail>>
    BY <1>3 DEF Fixed
  <1>4. CASE Poll \/ GiveUp \/ ReaderBeat \/ Misconfigured \/ FrontBeat \/ FrontAtEnd
             \/ Route \/ EndRoutes \/ DoneClock \/ UNCHANGED vars
    BY <1>3, <1>4 DEF Poll, GiveUp, ReaderBeat, Misconfigured, FrontBeat, FrontAtEnd, Route,
       EndRoutes, DoneClock, vars
  <1>5. ASSUME NEW i \in Lanes(comp), Close(i)  PROVE  Fixed'
    BY <1>3, <1>5 DEF Close
  <1> QED  BY <1>1, <1>2, <1>4, <1>5 DEF Next

THEOREM CompositionFixed == Spec => []Fixed
  <1>1. Init => Fixed
    BY FeedAssumption DEF Init, Fixed
  <1> QED  BY <1>1, FixedStays, PTL DEF Spec

\* A shell is never built from a composition whose wires do not fit.
THEOREM ShapesFit == Spec => []ShapeIsCoherent
  <1>1. Fixed => ShapeIsCoherent
    BY FeedAssumption, AcceptedIsCoherent, AcceptedFeedsLanes, AcceptedLoadsWhole
       DEF Fixed, Generates, ShapeIsCoherent
  <1> QED  BY <1>1, CompositionFixed, PTL

\* The length gate never turns away a job of whole records and whole beats.
THEOREM WholeJobsTaken == Spec => []WholeJobsAreTaken
  <1>1. ASSUME Fixed  PROVE  WholeJobsAreTaken
    <2> DEFINE row == IF Unpacks(comp) THEN 8 ELSE comp.input_row_bytes
    <2> SUFFICES ASSUME length_fail, length # 0, length % BeatBytes(comp) = 0, length % row = 0
                 PROVE  FALSE
      BY DEF WholeJobsAreTaken
    <2>1. IsComposition(comp) /\ Generates(comp) /\ length \in Nat \ {0}
      BY <1>1, FeedAssumption DEF Fixed
    <2>2. row \in Int /\ row > 0
      BY <2>1 DEF Generates, IsComposition
    <2>3. length = (length \div row) * row /\ length \div row \in Nat
      <3> HIDE DEF row
      <3> QED  BY <2>1, <2>2
    <2>4. length_ok(comp, length)
      BY <2>1, <2>3, GateTakesWholeJobs
    <2> QED  BY <1>1, <2>4 DEF Fixed
  <1> QED  BY <1>1, CompositionFixed, PTL

------------------------------------------------------------------------------
(* Types.  The reader's counter stays a number only because it comes down  *)
(* in whole beats, which is what the grid is for.                          *)

WholeBeats == reader.left % BeatBytes(comp) = 0

Typed == Fixed /\ TypeOK /\ WholeBeats

LaneState == [words : Nat, ended : BOOLEAN, torn : BOOLEAN]
WriterState == [busy : BOOLEAN, done : BOOLEAN, error : BOOLEAN, words : Nat]
FrontState == [held : Nat, made : Nat, ended : BOOLEAN, refused : BOOLEAN]

\* The units' states when nothing is in them.
LEMMA IdleTypes ==
    /\ NoBytes \in [left : Nat, done : BOOLEAN, error : BOOLEAN]
    /\ NoFront \in FrontState
    /\ NoRow \in [held : Nat, ended : BOOLEAN]
    /\ NoBatch \in LaneState
    /\ NoJob \in WriterState /\ [NoJob EXCEPT !.busy = TRUE] \in WriterState
  BY DEF NoBytes, NoFront, NoRow, NoBatch, NoJob, FrontState, LaneState, WriterState

\* A record of a unit's state stays one when a field gets a value of its type.
LEMMA FieldTypes ==
    ASSUME NEW n \in Nat, NEW b \in BOOLEAN
    PROVE  /\ \A r \in LaneState : [r EXCEPT !.words = n] \in LaneState /\ [r EXCEPT !.ended = b] \in LaneState
           /\ \A r \in FrontState : [r EXCEPT !.held = n] \in FrontState /\ [r EXCEPT !.made = n] \in FrontState
                                   /\ [r EXCEPT !.ended = b] \in FrontState
           /\ \A r \in WriterState : [r EXCEPT !.words = n] \in WriterState
  BY DEF LaneState, FrontState, WriterState

LEMMA TypeParts ==
    TypeOK <=>
      /\ comp \in Compositions
      /\ length \in Lengths \union {0}
      /\ reader \in [left : Nat, done : BOOLEAN, error : BOOLEAN]
      /\ front \in FrontState
      /\ part \in [held : Nat, ended : BOOLEAN]
      /\ lane \in [Lanes(comp) -> LaneState]
      /\ writer \in [Lanes(comp) -> WriterState]
      /\ {length_fail, front_error, prev_done, awaiting} \subseteq BOOLEAN
      /\ retries \in 0 .. Retries
  BY DEF TypeOK, FrontState, LaneState, WriterState

LEMMA CarriedType ==
    ASSUME Fixed, NEW net \in Nets(comp)
    PROVE  Carried(net) \in Nat /\ Carried(net) = Wire(comp, net) \div 64
  <1> DEFINE widths == {end.width : end \in {e \in Drivers(comp) \union Takers(comp) : e.net = net}}
  <1>1. Coherent(comp) /\ IsComposition(comp) /\ Accepted(comp)
    BY FeedAssumption, AcceptedIsCoherent DEF Fixed, Generates
  <1>2. widths = {Wire(comp, net)}
    <2>1. PICK d \in Drivers(comp) : {e \in Drivers(comp) : e.net = net} = {d} /\ d.width = Wire(comp, net)
      BY <1>1 DEF Coherent
    <2>2. PICK t \in Takers(comp) : {e \in Takers(comp) : e.net = net} = {t} /\ t.width = Wire(comp, net)
      BY <1>1 DEF Coherent
    <2>3. {e \in Drivers(comp) \union Takers(comp) : e.net = net} = {d, t}
      BY <2>1, <2>2
    <2> QED  BY <2>1, <2>2, <2>3
  <1>3. Wire(comp, net) \in Nat
    <2>1. net \in {"scan", "feed", "geared"} /\ (net = "feed" => Unpacks(comp)) /\ (net = "geared" => Gears(comp))
      BY DEF Nets, Drivers, When, End
    <2>2. FrontWidth(comp) \in Int /\ (Unpacks(comp) => FrontWidth(comp) > 0)
      BY <1>1, ParamType DEF IsComposition, FrontWidth, Accepted, UnpackedToRows, Widths
    <2>3. comp.input_row_bytes \in Int /\ (Gears(comp) => comp.input_row_bytes > 0)
      BY <1>1 DEF IsComposition, Accepted, GearedByRecord
    <2>4. comp.data_width \in Nat
      BY <1>1 DEF Accepted, SizesInRange, Widths
    <2> QED  BY <2>1, <2>2, <2>3, <2>4 DEF Wire
  <1>4. Min(widths) = Wire(comp, net)
    BY <1>2, <1>3 DEF Min
  <1> QED  BY <1>3, <1>4 DEF Carried

\* A beat into the fan-out keeps the types of what it goes to.
LEMMA FanTypes ==
    ASSUME Typed, NEW net \in Nets(comp), NEW last \in BOOLEAN, Fan(net, last), UNCHANGED comp
    PROVE  /\ part' \in [held : Nat, ended : BOOLEAN]
           /\ lane' \in [Lanes(comp) -> LaneState]
           /\ writer' \in [Lanes(comp) -> WriterState]
  <1>0. /\ part \in [held : Nat, ended : BOOLEAN]
        /\ lane \in [Lanes(comp) -> LaneState] /\ writer \in [Lanes(comp) -> WriterState]
    BY TypeParts DEF Typed
  <1>1. Carried(net) \in Nat
    BY CarriedType DEF Typed
  <1>2. CASE Shares(comp)
    BY <1>0, <1>1, <1>2 DEF Fan, Dispatch
  <1>3. CASE ~Shares(comp)
    <2> DEFINE words == Carried(net)
    <2>1. ASSUME NEW i \in Lanes(comp)
          PROVE  /\ [lane[i] EXCEPT !.words = @ + words, !.ended = last] \in LaneState
                 /\ [writer[i] EXCEPT !.words = @ + words] \in WriterState
      <3>1. lane[i] \in LaneState /\ lane[i].words + words \in Nat
        BY <1>0, <1>1 DEF LaneState
      <3>2. writer[i] \in WriterState /\ writer[i].words + words \in Nat
        BY <1>0, <1>1 DEF WriterState
      <3>3. [lane[i] EXCEPT !.words = lane[i].words + words] \in LaneState
        BY <3>1, FieldTypes
      <3> QED  BY <3>2, <3>3, FieldTypes
    <2>2. /\ lane' = [i \in Lanes(comp) |-> [lane[i] EXCEPT !.words = @ + words, !.ended = last]]
          /\ writer' = [i \in Lanes(comp) |-> [writer[i] EXCEPT !.words = @ + words]]
          /\ part' = part
      BY <1>3 DEF Fan, Broadcast
    <2> QED  BY <1>0, <2>1, <2>2
  <1> QED  BY <1>2, <1>3

LEMMA Sizes ==
    ASSUME Fixed
    PROVE  /\ BeatBytes(comp) \in {8, 16, 32, 64}
           /\ RecordWords \in Int /\ RowWords \in Nat
           /\ FrontWidth(comp) \div 64 \in Int
           /\ StreamPrefix(comp) \in Nets(comp) /\ "scan" \in Nets(comp)
  <1>1. IsComposition(comp) /\ Accepted(comp)
    BY FeedAssumption DEF Fixed, Generates
  <1>2. BeatBytes(comp) \in {8, 16, 32, 64}
    BY <1>1 DEF BeatBytes, Accepted, SizesInRange, Widths
  <1>3. comp.input_row_bytes \in Int /\ FrontWidth(comp) \in Int
    BY <1>1, ParamType DEF IsComposition, FrontWidth
  <1>4. ~Unpacks(comp) => comp.input_row_bytes > 0
    BY DEF Fixed, Generates
  <1>5. StreamPrefix(comp) \in Nets(comp) /\ "scan" \in Nets(comp)
    <2>1. End("scan", <<"reader">>, comp.data_width) \in Drivers(comp)
      BY DEF Drivers
    <2>2. Unpacks(comp) => End("feed", <<"front_unpack">>, FrontWidth(comp)) \in Drivers(comp)
      BY DEF Drivers, When
    <2>3. Gears(comp) =>
            End("geared", <<"front_gearbox">>, 64 * (comp.input_row_bytes \div 8)) \in Drivers(comp)
      BY DEF Drivers, When
    <2>4. \A end \in Drivers(comp) : end.net \in Nets(comp)
      BY DEF Nets
    <2> QED  BY <2>1, <2>2, <2>3, <2>4 DEF StreamPrefix, End
  <1> QED  BY <1>2, <1>3, <1>4, <1>5 DEF RecordWords, RowWords

LEMMA TypedStays ==
    ASSUME Typed, [Next]_vars
    PROVE  Typed'
  <1> DEFINE Parts ==
        /\ length \in Lengths \union {0}
        /\ reader \in [left : Nat, done : BOOLEAN, error : BOOLEAN]
        /\ front \in FrontState
        /\ part \in [held : Nat, ended : BOOLEAN]
        /\ lane \in [Lanes(comp) -> LaneState]
        /\ writer \in [Lanes(comp) -> WriterState]
        /\ {length_fail, front_error, prev_done, awaiting} \subseteq BOOLEAN
        /\ retries \in 0 .. Retries
  <1>0. Fixed /\ Parts /\ WholeBeats
    BY TypeParts DEF Typed
  <1>a. /\ comp' = comp
        /\ BeatBytes(comp) \in {8, 16, 32, 64} /\ RecordWords \in Int /\ RowWords \in Nat
        /\ FrontWidth(comp) \div 64 \in Int
        /\ StreamPrefix(comp) \in Nets(comp) /\ "scan" \in Nets(comp)
    BY <1>0, Sizes DEF Next, vars, Submit, Poll, GiveUp, Reset, ReaderBeat, Misconfigured, FrontBeat,
       FrontAtEnd, Route, EndRoutes, DoneClock, Close
  <1>b. UNCHANGED reader => WholeBeats'
    BY <1>0, <1>a DEF WholeBeats
  <1> SUFFICES Parts' /\ WholeBeats'
    <2>1. Fixed'
      BY <1>0, FixedStays
    <2>2. Parts' /\ Fixed' => TypeOK'
      BY DEF TypeOK, FrontState, LaneState, WriterState, Fixed
    <2> QED  BY <2>1, <2>2 DEF Typed
  <1>1. CASE Submit
    <2> PICK bytes \in Lengths : Start(bytes)
      BY <1>1 DEF Submit
    <2>1. length_ok(comp, bytes) => bytes \in Nat /\ bytes % BeatBytes(comp) = 0
      BY <1>0, GateHoldsBeats, FeedAssumption DEF Fixed
    <2>2. reader' \in [left : Nat, done : BOOLEAN, error : BOOLEAN] /\ WholeBeats'
      <3>1. \A r \in [left : Nat, done : BOOLEAN, error : BOOLEAN], n \in Nat :
              LET started == [r EXCEPT !.left = n] IN
              started \in [left : Nat, done : BOOLEAN, error : BOOLEAN] /\ started.left = n
        OBVIOUS
      <3>2. CASE length_ok(comp, bytes) /\ ~reader_busy
        <4>1. reader' = [NoBytes EXCEPT !.left = bytes]
          BY <3>2 DEF Start
        <4>2. reader' \in [left : Nat, done : BOOLEAN, error : BOOLEAN] /\ reader'.left = bytes
          BY <2>1, <3>1, <3>2, <4>1, IdleTypes
        <4> QED  BY <1>a, <2>1, <3>2, <4>2 DEF WholeBeats
      <3>3. CASE ~(length_ok(comp, bytes) /\ ~reader_busy)
        <4>1. reader' = reader
          BY <3>3 DEF Start
        <4> QED  BY <1>0, <1>b, <4>1
      <3> QED  BY <3>2, <3>3
    <2>3. writer' \in [Lanes(comp) -> WriterState]
      BY <1>0, IdleTypes DEF Start
    <2>4. length' \in Lengths /\ {length_fail', front_error'} \subseteq BOOLEAN
      BY <1>0 DEF Start
    <2>5. retries' \in 0 .. Retries
      BY <1>0, <1>1, FeedAssumption DEF Submit
    <2> QED  BY <1>0, <1>1, <1>a, <2>2, <2>3, <2>4, <2>5 DEF Submit
  <1>2. CASE Poll \/ GiveUp
    BY <1>0, <1>a, <1>b, <1>2 DEF Poll, GiveUp, units
  <1>3. CASE Reset
    <2>1. WholeBeats'
      BY <1>a, <1>3 DEF Reset, NoBytes, WholeBeats
    <2>2. lane' \in [Lanes(comp) -> LaneState] /\ writer' \in [Lanes(comp) -> WriterState]
      BY <1>3, IdleTypes DEF Reset
    <2>3. retries' \in 0 .. Retries
      BY <1>3, FeedAssumption DEF Reset
    <2> QED  BY <1>a, <1>3, <2>1, <2>2, <2>3, IdleTypes DEF Reset
  <1>4. CASE ReaderBeat
    <2> PICK error \in BOOLEAN :
          LET left == IF error THEN 0 ELSE reader.left - BeatBytes(comp) IN
          /\ reader' = [left |-> left, done |-> left = 0, error |-> error]
          /\ IF Unpacks(comp) \/ Gears(comp)
               THEN FrontIntake(Carried("scan"), left = 0) /\ UNCHANGED <<part, lane, writer>>
               ELSE Fan("scan", left = 0) /\ UNCHANGED front
      BY <1>4 DEF ReaderBeat
    <2> DEFINE left == IF error THEN 0 ELSE reader.left - BeatBytes(comp)
    <2>1. reader.left > 0 /\ reader.left \in Nat /\ reader.left % BeatBytes(comp) = 0
      BY <1>0, <1>4 DEF ReaderBeat, reader_busy, WholeBeats
    <2>2. reader' \in [left : Nat, done : BOOLEAN, error : BOOLEAN] /\ WholeBeats'
      BY <1>a, <2>1 DEF WholeBeats
    <2>3. Carried("scan") \in Nat
      BY <1>0, <1>a, CarriedType
    <2>4. CASE Unpacks(comp) \/ Gears(comp)
      <3>1. FrontIntake(Carried("scan"), left = 0) /\ UNCHANGED <<part, lane, writer>>
        BY <2>4
      <3>2. front' \in FrontState
        <4> DEFINE held == IF front.refused THEN 0
                            ELSE front.held + IF Unpacks(comp) THEN 2 * Carried("scan") ELSE Carried("scan")
        <4>1. held \in Nat
          BY <1>0, <2>3 DEF FrontState
        <4>2. (left = 0) \in BOOLEAN
          OBVIOUS
        <4>3. [front EXCEPT !.held = held] \in FrontState
          BY <1>0, <4>1, FieldTypes
        <4> HIDE DEF left
        <4>4. [front EXCEPT !.held = held, !.ended = (left = 0)] \in FrontState
          BY <4>2, <4>3, FieldTypes
        <4> QED  BY <3>1, <4>4 DEF FrontIntake
      <3> QED  BY <1>0, <1>4, <1>a, <2>2, <3>1, <3>2 DEF ReaderBeat
    <2>5. CASE ~(Unpacks(comp) \/ Gears(comp))
      <3>1. Fan("scan", left = 0) /\ UNCHANGED front
        BY <2>5
      <3>2. (left = 0) \in BOOLEAN
        OBVIOUS
      <3>3. /\ part' \in [held : Nat, ended : BOOLEAN]
            /\ lane' \in [Lanes(comp) -> LaneState] /\ writer' \in [Lanes(comp) -> WriterState]
        <4> HIDE DEF left
        <4> QED  BY <1>a, <3>1, <3>2, FanTypes
      <3> QED  BY <1>0, <1>4, <1>a, <2>2, <3>1, <3>3 DEF ReaderBeat
    <2> QED  BY <2>4, <2>5
  <1>5. CASE Misconfigured
    <2>1. front' \in FrontState
      BY <1>0, <1>5 DEF Misconfigured, FrontState
    <2> QED  BY <1>0, <1>a, <1>b, <1>5, <2>1 DEF Misconfigured
  <1>6. CASE FrontBeat
    <2> PICK words \in Int, last \in BOOLEAN :
          /\ front.held >= words
          /\ front' = IF last THEN NoFront ELSE [front EXCEPT !.held = @ - words, !.made = @ + 1]
          /\ Fan(StreamPrefix(comp), last)
      BY <1>6, <1>a DEF FrontBeat
    <2>1. front' \in FrontState
      <3>1. front.held \in Nat /\ front.held - words \in Nat
        BY <1>0 DEF FrontState
      <3>2. front \in FrontState /\ front.made + 1 \in Nat
        BY <1>0 DEF FrontState
      <3>3. [front EXCEPT !.held = front.held - words] \in FrontState
        BY <3>1, <3>2, FieldTypes
      <3>4. [front EXCEPT !.held = front.held - words, !.made = front.made + 1] \in FrontState
        BY <3>2, <3>3, FieldTypes
      <3> QED  BY <3>4, IdleTypes
    <2>2. /\ part' \in [held : Nat, ended : BOOLEAN]
          /\ lane' \in [Lanes(comp) -> LaneState] /\ writer' \in [Lanes(comp) -> WriterState]
      BY <1>a, FanTypes
    <2> QED  BY <1>0, <1>6, <1>a, <1>b, <2>1, <2>2 DEF FrontBeat
  <1>7. CASE FrontAtEnd
    BY <1>0, <1>a, <1>b, <1>7, IdleTypes DEF FrontAtEnd
  <1>8. CASE Route
    <2>1. part' \in [held : Nat, ended : BOOLEAN]
      BY <1>0, <1>8, <1>a DEF Route
    <2>2. PICK i \in Lanes(comp) : Received(i, RowWords)
      BY <1>8 DEF Route
    <2>3. /\ [lane[i] EXCEPT !.words = @ + RowWords] \in LaneState
          /\ [writer[i] EXCEPT !.words = @ + RowWords] \in WriterState
      BY <1>0, <1>a DEF LaneState, WriterState
    <2>4. lane' \in [Lanes(comp) -> LaneState] /\ writer' \in [Lanes(comp) -> WriterState]
      <3>1. /\ lane' = [lane EXCEPT ![i] = [lane[i] EXCEPT !.words = @ + RowWords]]
            /\ writer' = [writer EXCEPT ![i] = [writer[i] EXCEPT !.words = @ + RowWords]]
        BY <1>0, <2>2 DEF Received
      <3> QED  BY <1>0, <2>3, <3>1
    <2> QED  BY <1>0, <1>8, <1>a, <1>b, <2>1, <2>4 DEF Route
  <1>9. CASE EndRoutes
    <2>1. ASSUME NEW i \in Lanes(comp)
          PROVE  [lane[i] EXCEPT !.ended = TRUE, !.torn = part.held # 0] \in LaneState
      <3>1. (part.held # 0) \in BOOLEAN
        OBVIOUS
      <3> QED  BY <1>0, <3>1 DEF LaneState
    <2>2. lane' \in [Lanes(comp) -> LaneState]
      BY <1>9, <2>1 DEF EndRoutes
    <2> QED  BY <1>0, <1>a, <1>b, <1>9, <2>2, IdleTypes DEF EndRoutes
  <1>10. CASE DoneClock
    <2>1. prev_done' \in BOOLEAN
      BY <1>0, <1>10 DEF DoneClock, job_done
    <2>2. front' \in FrontState /\ part' \in [held : Nat, ended : BOOLEAN]
      BY <1>0, <1>10, IdleTypes DEF DoneClock
    <2>3. lane' \in [Lanes(comp) -> LaneState]
      BY <1>0, <1>10, IdleTypes DEF DoneClock
    <2> QED  BY <1>0, <1>a, <1>b, <1>10, <2>1, <2>2, <2>3 DEF DoneClock
  <1>11. ASSUME NEW i \in Lanes(comp), Close(i)  PROVE  Parts' /\ WholeBeats'
    <2> PICK failed \in BOOLEAN :
          writer' = [writer EXCEPT ![i] = [@ EXCEPT !.busy = FALSE, !.done = TRUE,
                       !.error = failed \/ lane[i].torn \/ lane[i].words % RowWords # 0]]
      BY <1>11 DEF Close
    <2>1. writer' \in [Lanes(comp) -> WriterState]
      <3> DEFINE torn == failed \/ lane[i].torn \/ lane[i].words % RowWords # 0
      <3>1. torn \in BOOLEAN
        OBVIOUS
      <3> HIDE DEF torn
      <3>2. [writer[i] EXCEPT !.busy = FALSE, !.done = TRUE, !.error = torn] \in WriterState
        BY <1>0, <3>1 DEF WriterState
      <3>3. writer' = [writer EXCEPT ![i] = [writer[i] EXCEPT !.busy = FALSE, !.done = TRUE, !.error = torn]]
        BY <1>0 DEF torn
      <3> QED  BY <1>0, <3>2, <3>3
    <2>2. lane' \in [Lanes(comp) -> LaneState]
      BY <1>0, <1>11, IdleTypes DEF Close
    <2> QED  BY <1>0, <1>11, <1>a, <1>b, <2>1, <2>2 DEF Close
  <1>12. CASE UNCHANGED vars
    BY <1>0, <1>a, <1>b, <1>12 DEF vars, units
  <1> QED  BY <1>1, <1>2, <1>3, <1>4, <1>5, <1>6, <1>7, <1>8, <1>9, <1>10, <1>11, <1>12 DEF Next

\* A shell comes out of reset well typed.
LEMMA TypedStarts ==
    ASSUME Init
    PROVE  Typed
  <1>1. Fixed
    BY FeedAssumption DEF Init, Fixed
  <1>2. WholeBeats
    BY <1>1, Sizes DEF Init, NoBytes, WholeBeats
  <1>3. TypeOK
    <2>1. lane \in [Lanes(comp) -> LaneState] /\ writer \in [Lanes(comp) -> WriterState]
      BY IdleTypes DEF Init
    <2>2. comp \in Compositions /\ length \in Lengths \union {0} /\ retries \in 0 .. Retries
      BY FeedAssumption DEF Init
    <2>3. {length_fail, front_error, prev_done, awaiting} \subseteq BOOLEAN
      BY DEF Init
    <2> QED  BY <2>1, <2>2, <2>3, IdleTypes, TypeParts DEF Init
  <1> QED  BY <1>1, <1>2, <1>3 DEF Typed

\* The registers and counters keep their types, for any compositions and
\* lengths: in particular the reader ends on a whole beat.
THEOREM FeedTypes == Spec => []TypeOK
  BY TypedStarts, TypedStays, PTL DEF Spec, Typed

------------------------------------------------------------------------------
(* Sums over the lanes.  The fold of the community modules adds the lanes   *)
(* up in an order of its own; what it adds up to is shown by induction on   *)
(* the subsets of the lanes, each time from a smallest one that fails.      *)

\* The words that the lanes of a set took, all told: the fold, and the order
\* it takes the lanes in.
Pick(S) == CHOOSE x \in S : TRUE
WordsOf(w, S) == MapThenSumSet(LAMBDA i : w[i].words, S)

\* A function that does what the fold's does on the subsets of S in T.
Adds(F, w, T) ==
    F = [s \in T |-> IF s = {} THEN 0 ELSE w[Pick(s)].words + F[s \ {Pick(s)}]]

\* What the fold's function does on a set of lanes.
Sums(F, w, S) ==
    \A s \in SUBSET S : F[s] = IF s = {} THEN 0 ELSE w[Pick(s)].words + F[s \ {Pick(s)}]

LEMMA FoldIsSum ==
    ASSUME NEW S, NEW w
    PROVE  WordsOf(w, S) = (CHOOSE F : Adds(F, w, SUBSET S))[S]
  BY DEF WordsOf, MapThenSumSet, MapThenFoldSet, Adds, Pick

\* Among sets of subsets of a finite set there is one that loses its property
\* with the next element: the step of an induction.
LEMMA SmallestSubset ==
    ASSUME NEW S, IsFiniteSet(S), NEW B \in SUBSET (SUBSET S), B # {}
    PROVE  \E s \in B : s = {} \/ s \ {Pick(s)} \notin B
  <1> DEFINE R == StrictSubsetOrdering(S)
  <1>1. IsWellFoundedOn(R, SUBSET S)
    BY FS_StrictSubsetOrderingWellFounded, FS_FiniteSubsetsOfFinite
  <1>2. PICK s \in B : \A t \in B : ~(<<t, s>> \in R)
    <2> HIDE DEF R
    <2> QED BY <1>1, WFMin
  <1>3. ASSUME s # {}, s \ {Pick(s)} \in B  PROVE FALSE
    <2>1. Pick(s) \in s
      BY <1>3 DEF Pick
    <2>2. <<s \ {Pick(s)}, s>> \in R
      BY <2>1, <1>3 DEF StrictSubsetOrdering
    <2> QED BY <1>2, <1>3, <2>2
  <1> QED BY <1>3

\* There is such a function for a finite set: it is built up one cardinality
\* at a time.
LEMMA SumExists ==
    ASSUME NEW S, IsFiniteSet(S), NEW w
    PROVE  \E F : Adds(F, w, SUBSET S)
  <1> DEFINE Small(n) == {s \in SUBSET S : Cardinality(s) <= n}
             Bad == {n \in Nat : ~\E F : Adds(F, w, Small(n))}
  <1>0. ASSUME NEW s \in SUBSET S
        PROVE  /\ IsFiniteSet(s) /\ Cardinality(s) \in Nat /\ Cardinality(s) <= Cardinality(S)
               /\ Cardinality(s) = 0 <=> s = {}
               /\ s # {} => Cardinality(s \ {Pick(s)}) = Cardinality(s) - 1
    <2>1. IsFiniteSet(s) /\ Cardinality(s) <= Cardinality(S)
      BY FS_Subset
    <2>2. s # {} => Pick(s) \in s
      BY DEF Pick
    <2> QED  BY <2>1, <2>2, FS_CardinalityType, FS_EmptySet, FS_RemoveElement
  <1>1. 0 \notin Bad
    <2>1. Small(0) = {{}}
      <3>1. ASSUME NEW s \in SUBSET S  PROVE s \in Small(0) <=> s = {}
        <4>1. Cardinality(s) \in Nat
          BY <1>0
        <4>2. Cardinality(s) = 0 <=> s = {}
          BY <1>0
        <4> QED  BY <4>1, <4>2
      <3> HIDE DEF Small
      <3>2. \A s \in Small(0) : s \in SUBSET S
        BY DEF Small
      <3> QED  BY <3>1, <3>2
    <2> DEFINE F == [s \in {{}} |-> 0]
    <2>2. Adds(F, w, {{}})
      BY DEF Adds
    <2> QED  BY <2>1, <2>2
  <1>2. ASSUME NEW n \in Nat, NEW F, Adds(F, w, Small(n))
        PROVE  \E G : Adds(G, w, Small(n + 1))
    <2> DEFINE Step(f, s) == IF s = {} THEN 0 ELSE w[Pick(s)].words + f[s \ {Pick(s)}]
               G == [s \in Small(n + 1) |-> Step(F, s)]
    <2>1. \A s \in Small(n) : F[s] = Step(F, s)
      BY <1>2 DEF Adds
    <2>2. \A s \in Small(n) : s \in Small(n + 1)
      <3> TAKE s \in Small(n)
      <3>1. Cardinality(s) \in Nat
        BY <1>0
      <3> QED  BY <3>1
    <2>3. \A s \in Small(n) : G[s] = F[s]
      BY <2>1, <2>2
    <2>4. \A s \in Small(n + 1) : s # {} => s \ {Pick(s)} \in Small(n)
      BY <1>0
    <2>5. \A s \in Small(n + 1) : Step(F, s) = Step(G, s)
      <3> HIDE DEF G, Small
      <3> QED  BY <2>3, <2>4
    <2>6. G = [s \in Small(n + 1) |-> Step(G, s)]
      <3>1. G = [s \in Small(n + 1) |-> Step(F, s)]
        OBVIOUS
      <3> HIDE DEF G, Small, Step
      <3> QED  BY <3>1, <2>5
    <2> QED  BY <2>6 DEF Adds
  <1>3. Bad = {}
    <2> SUFFICES ASSUME Bad # {}  PROVE FALSE
      OBVIOUS
    <2> HIDE DEF Small
    <2>1. PICK n \in Bad : \A m \in Bad : ~(<<m, n>> \in OpToRel(<, Nat))
      <3>1. Bad \subseteq Nat
        OBVIOUS
      <3> HIDE DEF Bad
      <3> QED BY <3>1, WFMin, NatLessThanWellFounded
    <2>2. n \in Nat \ {0} /\ n - 1 \in Nat
      BY <1>1
    <2>3. n - 1 \notin Bad
      <3>1. <<n - 1, n>> \in OpToRel(<, Nat)
        BY <2>2 DEF OpToRel
      <3> QED  BY <2>1, <3>1
    <2>4. \E F : Adds(F, w, Small(n - 1))
      BY <2>2, <2>3
    <2>5. \E F : Adds(F, w, Small((n - 1) + 1))
      BY <1>2, <2>2, <2>4
    <2>6. (n - 1) + 1 = n
      BY <2>2
    <2> QED BY <2>5, <2>6
  <1>4. Small(Cardinality(S)) = SUBSET S
    BY <1>0
  <1>5. Cardinality(S) \in Nat
    BY FS_CardinalityType
  <1> HIDE DEF Small
  <1>6. \E F : Adds(F, w, Small(Cardinality(S)))
    BY <1>3, <1>5
  <1> QED  BY <1>4, <1>6

\* What the fold computes, lane by lane.
LEMMA SumUnfolds ==
    ASSUME NEW S, IsFiniteSet(S), NEW w
    PROVE  \E F : WordsOf(w, S) = F[S] /\ Sums(F, w, S)
  <1> DEFINE F == CHOOSE f : Adds(f, w, SUBSET S)
  <1>1. Adds(F, w, SUBSET S)
    BY SumExists
  <1>2. WordsOf(w, S) = F[S]
    BY FoldIsSum
  <1>3. Sums(F, w, S)
    <2> HIDE DEF F
    <2> QED  BY <1>1 DEF Adds, Sums
  <1> HIDE DEF F
  <1> QED  BY <1>2, <1>3

\* Lanes that took nothing took nothing together.
LEMMA SumOfNone ==
    ASSUME NEW S, IsFiniteSet(S), NEW w, \A i \in S : w[i].words = 0
    PROVE  WordsOf(w, S) = 0
  <1> PICK F : WordsOf(w, S) = F[S] /\ Sums(F, w, S)
    BY SumUnfolds
  <1> DEFINE B == {s \in SUBSET S : F[s] # 0}
  <1>1. B = {}
    <2> SUFFICES ASSUME B # {}  PROVE FALSE
      OBVIOUS
    <2> PICK s \in B : s = {} \/ s \ {Pick(s)} \notin B
      <3> HIDE DEF B
      <3>1. B \in SUBSET (SUBSET S)
        BY DEF B
      <3> QED  BY <3>1, SmallestSubset
    <2>1. s # {} /\ F[s] = w[Pick(s)].words + F[s \ {Pick(s)}]
      BY DEF Sums
    <2>2. Pick(s) \in s
      BY <2>1 DEF Pick
    <2>3. F[s \ {Pick(s)}] = 0 /\ w[Pick(s)].words = 0
      BY <2>1, <2>2
    <2> QED  BY <2>1, <2>3
  <1> QED  BY <1>1

\* What one lane takes more, all of them together take more.
LEMMA SumAdds ==
    ASSUME NEW S, IsFiniteSet(S), NEW w, NEW v, NEW j \in S, NEW k \in Nat,
           \A i \in S : w[i].words \in Nat,
           \A i \in S : v[i].words = w[i].words + (IF i = j THEN k ELSE 0)
    PROVE  WordsOf(w, S) \in Nat /\ WordsOf(v, S) = WordsOf(w, S) + k
  <1> PICK F : WordsOf(w, S) = F[S] /\ Sums(F, w, S)
    BY SumUnfolds
  <1> PICK G : WordsOf(v, S) = G[S] /\ Sums(G, v, S)
    BY SumUnfolds
  <1> DEFINE More(s) == IF j \in s THEN k ELSE 0
             Good(s) == F[s] \in Nat /\ G[s] = F[s] + More(s)
             B == {s \in SUBSET S : ~Good(s)}
  <1>1. B = {}
    <2> SUFFICES ASSUME B # {}  PROVE FALSE
      OBVIOUS
    <2> PICK s \in B : s = {} \/ s \ {Pick(s)} \notin B
      <3> HIDE DEF B
      <3>1. B \in SUBSET (SUBSET S)
        BY DEF B
      <3> QED  BY <3>1, SmallestSubset
    <2>1. s # {}
      <3>1. F[{}] = 0 /\ G[{}] = 0
        BY DEF Sums
      <3> QED  BY <3>1
    <2> DEFINE p == Pick(s)
               t == s \ {p}
    <2>2. p \in s /\ p \in S /\ t \in SUBSET S
      BY <2>1 DEF Pick
    <2>3. F[s] = w[p].words + F[t] /\ G[s] = v[p].words + G[t]
      BY <2>1 DEF Sums
    <2>4. F[t] \in Nat /\ G[t] = F[t] + More(t)
      BY <2>1, <2>2
    <2>5. More(s) = More(t) + (IF p = j THEN k ELSE 0)
      <3> HIDE DEF p
      <3> QED  BY <2>2
    <2>6. Good(s)
      <3>1. w[p].words \in Nat /\ v[p].words = w[p].words + (IF p = j THEN k ELSE 0) /\ More(t) \in Nat
        BY <2>2
      <3> HIDE DEF p, t, More
      <3> QED  BY <2>3, <2>4, <2>5, <3>1
    <2> QED  BY <2>6
  <1>2. Good(S)
    BY <1>1
  <1> QED  BY <1>2

\* Lanes that take no more take no more together.
LEMMA SumKept ==
    ASSUME NEW S, IsFiniteSet(S), S # {}, NEW w, NEW v,
           \A i \in S : w[i].words \in Nat /\ v[i].words = w[i].words
    PROVE  WordsOf(w, S) \in Nat /\ WordsOf(v, S) = WordsOf(w, S)
  <1> PICK j \in S : TRUE
    OBVIOUS
  <1> DEFINE none == 0
  <1>1. none \in Nat /\ \A i \in S : v[i].words = w[i].words + (IF i = j THEN none ELSE 0)
    OBVIOUS
  <1> HIDE DEF none
  <1>2. WordsOf(w, S) \in Nat /\ WordsOf(v, S) = WordsOf(w, S) + none
    BY <1>1, SumAdds
  <1> QED  BY <1>2 DEF none

\* A quotient and a remainder in range are those of the division.
LEMMA Remainder ==
    ASSUME NEW a \in Int, NEW d \in Nat \ {0}, NEW q \in Int, NEW r \in 0 .. d - 1, a = d * q + r
    PROVE  a % d = r
  <1> DEFINE p == a \div d
             s == a % d
  <1>1. a = d * p + s /\ p \in Int /\ s \in 0 .. d - 1
    OBVIOUS
  <1> HIDE DEF p, s
  <1>2. d * (p - q) = r - s
    BY <1>1
  <1>3. CASE p - q >= 1
    <2>1. d * (p - q) >= d
      BY <1>1, <1>3
    <2> QED  BY <1>1, <1>2, <2>1
  <1>4. CASE p - q <= -1
    <2>1. d * (p - q) <= -d
      BY <1>1, <1>4
    <2> QED  BY <1>1, <1>2, <2>1
  <1>5. p = q
    BY <1>1, <1>3, <1>4
  <1>6. r = s
    BY <1>1, <1>2, <1>5
  <1> QED  BY <1>6 DEF s

\* One row more is as much of a row as before.
LEMMA OneRowMore ==
    ASSUME NEW n \in Nat, NEW d \in Nat \ {0}
    PROVE  (n + d) % d = n % d
  <1> DEFINE q == n \div d
             r == n % d
  <1>1. n = d * q + r /\ q \in Int /\ r \in 0 .. d - 1
    OBVIOUS
  <1> HIDE DEF q, r
  <1>2. d * (q + 1) = d * q + d
    BY <1>1
  <1>3. n + d = d * (q + 1) + r
    BY <1>1, <1>2
  <1>4. (n + d) % d = r
    BY <1>1, <1>3, Remainder
  <1> QED  BY <1>4 DEF r

------------------------------------------------------------------------------
(* The words of a job, from the reader to the writers. *)

\* Where the words of a job are counted, and in what.
Total == WordsOf(writer, Lanes(comp))
Scale == IF Unpacks(comp) THEN 2 ELSE 1
Fronted == Unpacks(comp) \/ Gears(comp)

\* Nothing of a job is in the units.
Fresh ==
    /\ reader.left = 0 /\ front = NoFront /\ part = NoRow
    /\ \A i \in Lanes(comp) : lane[i] = NoBatch /\ ~writer[i].busy

\* The end of the batch is with one unit, and nothing is left of the batch
\* before it.
InReader == reader.left > 0 /\ ~reader.done /\ ~reader.error /\ ~front.ended /\ ~part.ended
InFront == reader.left = 0 /\ reader.done /\ front.ended /\ ~part.ended
InPart == reader.left = 0 /\ reader.done /\ front = NoFront /\ part.ended

\* Every lane runs and has all of what its writer counted.
LanesTake ==
    \A i \in Lanes(comp) : /\ writer[i].busy /\ ~writer[i].done
                           /\ ~lane[i].ended /\ lane[i].words = writer[i].words

\* A unit that the shell does not have holds nothing.
UnitsThere == (~Fronted => front = NoFront) /\ (~Shares(comp) => part = NoRow)

\* No word that was read is lost or doubled on its way.
Balance ==
    ~reader.error =>
      IF Shares(comp)
        THEN 8 * (Total + part.held + front.held) = Scale * (length - reader.left)
        ELSE \A i \in Lanes(comp) : 8 * (writer[i].words + front.held) = Scale * (length - reader.left)

\* The shared partitioner has only routed whole rows.
RoutedWhole == Shares(comp) => Total % RowWords = 0

Streaming ==
    LanesTake /\ (InReader \/ InFront \/ InPart) /\ UnitsThere /\ Balance /\ RoutedWhole

\* The lanes have the end of their batches, and some have given them up.
LanesEnd ==
    \A i \in Lanes(comp) :
      \/ writer[i].busy /\ ~writer[i].done /\ lane[i].ended /\ lane[i].words = writer[i].words
      \/ /\ ~writer[i].busy /\ writer[i].done /\ lane[i] = NoBatch
         /\ writer[i].error \/ writer[i].words % RowWords = 0

\* A lane whose job ends in an error, now or when it closes out.
Spoiled(i) == IF writer[i].done THEN writer[i].error ELSE lane[i].torn

\* Every word has come to the lanes, or a torn row spoils them all.
Delivered ==
    ~reader.error =>
      IF Shares(comp)
        THEN 8 * Total = Scale * length \/ \A i \in Lanes(comp) : Spoiled(i)
        ELSE \A i \in Lanes(comp) : 8 * writer[i].words = Scale * length

Closing ==
    /\ reader.left = 0 /\ reader.done /\ front = NoFront /\ part = NoRow
    /\ LanesEnd /\ Delivered /\ RoutedWhole

\* Nothing runs, or the words are on their way, or the lanes close out.
Phase ==
    \/ Fresh /\ (length_fail \/ ~reader.done)
    \/ ~length_fail /\ (Streaming \/ Closing)

\* Behind a front error nothing is promised until the reset.
FlowInv ==
    /\ length_fail \/ length % 8 = 0
    /\ ~front_error => ~front.refused /\ Phase /\ (~awaiting => Fresh)

\* How much the beats carry, and that there are lanes and rows to carry it.
LEMMA FlowSizes ==
    ASSUME Fixed
    PROVE  /\ Lanes(comp) # {} /\ IsFiniteSet(Lanes(comp))
           /\ BeatBytes(comp) \in {8, 16, 32, 64} /\ 8 * Carried("scan") = BeatBytes(comp)
           /\ RowWords \in Nat \ {0}
           /\ ~(Unpacks(comp) /\ Gears(comp))
           /\ Fronted => /\ Carried(StreamPrefix(comp)) \in Nat \ {0}
                         /\ Carried(StreamPrefix(comp)) =
                              IF Gears(comp) THEN RecordWords ELSE FrontWidth(comp) \div 64
  <1>1. IsComposition(comp) /\ Accepted(comp)
    BY FeedAssumption DEF Fixed, Generates
  <1>2. Lanes(comp) # {} /\ IsFiniteSet(Lanes(comp))
    BY <1>1, FS_Interval DEF IsComposition, Accepted, SizesInRange, Lanes
  <1>3. comp.data_width \in {64, 128, 256, 512}
    BY <1>1 DEF Accepted, SizesInRange, Widths
  <1>4. BeatBytes(comp) \in {8, 16, 32, 64} /\ 8 * Carried("scan") = BeatBytes(comp)
    <2>1. Carried("scan") = comp.data_width \div 64
      BY Sizes, CarriedType DEF Wire
    <2> QED  BY <1>3, <2>1 DEF BeatBytes
  <1>5. ~Unpacks(comp) => RecordWords \in Nat \ {0}
    BY <1>1 DEF Fixed, Generates, IsComposition, RecordWords
  <1>6. ~(Unpacks(comp) /\ Gears(comp))
    BY <1>1 DEF Accepted, GearedByRecord
  <1>7. ASSUME Fronted
        PROVE  /\ Carried(StreamPrefix(comp)) \in Nat \ {0}
               /\ Carried(StreamPrefix(comp)) =
                    IF Gears(comp) THEN RecordWords ELSE FrontWidth(comp) \div 64
    <2>1. Carried(StreamPrefix(comp)) = Wire(comp, StreamPrefix(comp)) \div 64
      BY Sizes, CarriedType
    <2>2. CASE Unpacks(comp)
      <3>1. FrontWidth(comp) \in {64, 128, 256, 512, 1024}
        BY <1>1, <2>2 DEF Accepted, UnpackedToRows, Widths
      <3>2. Wire(comp, StreamPrefix(comp)) = FrontWidth(comp)
        BY <2>2 DEF Wire, StreamPrefix
      <3> QED  BY <1>6, <2>1, <2>2, <3>1, <3>2
    <2>3. CASE Gears(comp)
      <3>1. Wire(comp, StreamPrefix(comp)) = comp.input_row_bytes * 8
        BY <1>6, <2>3 DEF Wire, StreamPrefix
      <3>2. comp.input_row_bytes \in Int
        BY <1>1 DEF IsComposition
      <3>3. Carried(StreamPrefix(comp)) = RecordWords
        BY <2>1, <3>1, <3>2 DEF RecordWords
      <3> QED  BY <1>5, <1>6, <2>3, <3>3
    <2> QED  BY <1>7, <2>2, <2>3 DEF Fronted
  <1>8. RowWords \in Nat \ {0}
    BY <1>5 DEF RowWords
  <1> QED  BY <1>2, <1>4, <1>6, <1>7, <1>8

\* A beat into the fan-out: into the shared partitioner, or into every lane.
LEMMA FanMoves ==
    ASSUME Typed, NEW net \in Nets(comp), NEW last \in BOOLEAN, Fan(net, last)
    PROVE  /\ Shares(comp) => /\ part'.held = part.held + Carried(net) /\ part'.ended = last
                              /\ UNCHANGED <<lane, writer>>
           /\ ~Shares(comp) =>
                /\ UNCHANGED part
                /\ \A i \in Lanes(comp) :
                     /\ writer'[i].words = writer[i].words + Carried(net)
                     /\ writer'[i].busy = writer[i].busy /\ writer'[i].done = writer[i].done
                     /\ lane'[i].words = lane[i].words + Carried(net) /\ lane'[i].ended = last
  <1>1. lane \in [Lanes(comp) -> LaneState] /\ writer \in [Lanes(comp) -> WriterState]
    BY TypeParts DEF Typed
  <1>2. CASE Shares(comp)
    BY <1>2 DEF Fan, Dispatch
  <1>3. CASE ~Shares(comp)
    <2> DEFINE words == Carried(net)
    <2>1. /\ lane' = [i \in Lanes(comp) |-> [lane[i] EXCEPT !.words = @ + words, !.ended = last]]
          /\ writer' = [i \in Lanes(comp) |-> [writer[i] EXCEPT !.words = @ + words]]
          /\ part' = part
      BY <1>3 DEF Fan, Broadcast
    <2> HIDE DEF words
    <2>2. ASSUME NEW i \in Lanes(comp)
          PROVE  /\ writer'[i].words = writer[i].words + words
                 /\ writer'[i].busy = writer[i].busy /\ writer'[i].done = writer[i].done
                 /\ lane'[i].words = lane[i].words + words /\ lane'[i].ended = last
      <3>1. lane[i] \in LaneState /\ writer[i] \in WriterState
        BY <1>1
      <3> QED  BY <2>1, <3>1 DEF LaneState, WriterState
    <2> QED  BY <1>3, <2>1, <2>2 DEF words
  <1> QED  BY <1>2, <1>3

\* What a phase says of the units, for the steps that need no more.
LEMMA PhaseParts ==
    ASSUME Typed, FlowInv, ~front_error
    PROVE  /\ ~front.refused
           /\ reader.left > 0 \/ front # NoFront \/ part # NoRow \/ (\E i \in Lanes(comp) : lane[i] # NoBatch)
                => awaiting /\ ~length_fail /\ (Streaming \/ Closing)
           /\ front # NoFront \/ part # NoRow \/ reader.left > 0
                => awaiting /\ ~length_fail /\ Streaming
  <1>1. reader.left > 0 \/ front # NoFront \/ part # NoRow \/ (\E i \in Lanes(comp) : lane[i] # NoBatch)
          => ~Fresh
    BY DEF Fresh
  <1>2. front # NoFront \/ part # NoRow \/ reader.left > 0 => ~Closing
    BY DEF Closing
  <1> QED  BY <1>1, <1>2, TypeParts DEF FlowInv, Phase

\* A job is done when nothing of it is left in the units.
LEMMA DoneIsFresh ==
    ASSUME Typed, FlowInv, ~front_error, job_done
    PROVE  /\ Fresh
           /\ length_fail \/ (Closing /\ \A i \in Lanes(comp) : writer[i].done /\ ~writer[i].busy /\ lane[i] = NoBatch)
  <1>0. Lanes(comp) # {}
    BY FlowSizes DEF Typed
  <1>1. length_fail \/ (reader.done /\ \A i \in Lanes(comp) : writer[i].done)
    BY DEF job_done
  <1>2. CASE length_fail
    BY <1>2 DEF FlowInv, Phase
  <1>3. CASE ~length_fail
    <2>1. ~Streaming
      BY <1>0, <1>1, <1>3 DEF Streaming, LanesTake
    <2>2. Closing
      BY <1>1, <1>3, <2>1 DEF FlowInv, Phase
    <2>3. \A i \in Lanes(comp) : writer[i].done /\ ~writer[i].busy /\ lane[i] = NoBatch
      BY <1>1, <1>3, <2>2 DEF Closing, LanesEnd
    <2> QED  BY <2>2, <2>3 DEF Fresh, Closing
  <1> QED  BY <1>2, <1>3

\* A job that starts finds nothing of another, and nothing of it is counted yet.
LEMMA SubmitFlows ==
    ASSUME Typed, FlowInv, Submit
    PROVE  FlowInv'
  <1> PICK bytes \in Lengths : Start(bytes)
    BY DEF Submit
  <1>0. /\ comp' = comp /\ front_error' = front_error /\ ~awaiting /\ awaiting'
        /\ UNCHANGED <<front, part, lane>>
        /\ length' = bytes /\ length_fail' = ~length_ok(comp, bytes)
    BY DEF Submit, Start
  <1>1. length_ok(comp, bytes) => bytes \in Nat \ {0} /\ bytes % 8 = 0
    <2>1. IsComposition(comp) /\ Generates(comp) /\ bytes \in Nat
      BY FeedAssumption DEF Typed, Fixed
    <2>2. BeatBytes(comp) \in {8, 16, 32, 64}
      BY FlowSizes DEF Typed
    <2> QED  BY <2>1, <2>2, GateHoldsBeats
  <1>2. (length_fail \/ length % 8 = 0)'
    BY <1>0, <1>1
  <1>3. ASSUME ~front_error  PROVE ~front'.refused /\ Phase'
    <2>1. Fresh /\ ~front.refused
      BY <1>0, <1>3 DEF FlowInv
    <2>2. CASE ~length_ok(comp, bytes)
      <3>1. UNCHANGED <<reader, writer>>
        BY <2>2 DEF Start
      <3> QED  BY <1>0, <2>1, <2>2, <3>1 DEF Phase, Fresh
    <2>3. CASE length_ok(comp, bytes)
      <3>1. /\ reader' = [left |-> bytes, done |-> FALSE, error |-> FALSE]
            /\ writer' = [i \in Lanes(comp) |-> [busy |-> TRUE, done |-> FALSE, error |-> FALSE, words |-> 0]]
        BY <2>1, <2>3 DEF Start, Fresh, NoBytes, NoJob, reader_busy
      <3>2. \A i \in Lanes(comp) : writer'[i] = [busy |-> TRUE, done |-> FALSE, error |-> FALSE, words |-> 0]
        BY <3>1
      <3>3. WordsOf(writer', Lanes(comp)) = 0
        BY <3>2, SumOfNone, FlowSizes DEF Typed
      <3>4. front' = NoFront /\ part' = NoRow /\ \A i \in Lanes(comp) : lane'[i] = NoBatch
        BY <1>0, <2>1 DEF Fresh
      <3>5. LanesTake'
        BY <1>0, <3>2, <3>4 DEF LanesTake, NoBatch
      <3>6. InReader' /\ UnitsThere'
        BY <1>1, <2>3, <3>1, <3>4 DEF InReader, UnitsThere, NoFront, NoRow
      <3>7. Balance'
        BY <1>0, <1>1, <2>3, <3>1, <3>2, <3>3, <3>4 DEF Balance, Total, Scale, NoFront, NoRow
      <3>8. RoutedWhole'
        <4>1. RowWords \in Nat \ {0} /\ RowWords' = RowWords
          BY <1>0, FlowSizes DEF Typed, RowWords, RecordWords
        <4> QED  BY <1>0, <3>3, <4>1 DEF RoutedWhole, Total
      <3> QED  BY <1>0, <2>1, <2>3, <3>5, <3>6, <3>7, <3>8 DEF Phase, Streaming
    <2> QED  BY <2>2, <2>3, <1>0, <2>1
  <1> QED  BY <1>0, <1>2, <1>3 DEF FlowInv

\* A step that leaves the units alone leaves the phase alone.
LEMMA PhaseKept ==
    ASSUME UNCHANGED <<comp, length, length_fail, reader, front, part, lane, writer>>
    PROVE  /\ Phase' = Phase /\ Fresh' = Fresh
           /\ (length_fail \/ length % 8 = 0)' = (length_fail \/ length % 8 = 0)
  BY DEF Phase, Fresh, Streaming, Closing, LanesTake, InReader, InFront, InPart, UnitsThere, Fronted,
     Balance, Delivered, Spoiled, RoutedWhole, LanesEnd, Total, Scale, RowWords, RecordWords

\* The host, and the steps of the front stages that leave an error behind.
LEMMA HostFlows ==
    ASSUME Typed, FlowInv, Poll \/ GiveUp \/ Reset \/ Misconfigured \/ FrontAtEnd
    PROVE  FlowInv'
  <1>1. CASE Poll
    <2>1. UNCHANGED <<comp, length, length_fail, reader, front, part, lane, writer, front_error>>
      BY <1>1 DEF Poll, units
    <2>2. ~front_error => Fresh
      BY <1>1, DoneIsFresh DEF Poll
    <2> QED  BY <2>1, <2>2, PhaseKept DEF FlowInv
  <1>2. CASE GiveUp
    <2>1. UNCHANGED <<comp, length, length_fail, reader, front, part, lane, writer, front_error>> /\ front_error
      BY <1>2 DEF GiveUp, units
    <2> QED  BY <2>1, PhaseKept DEF FlowInv
  <1>3. CASE Reset
    <2>1. /\ reader' = NoBytes /\ front' = NoFront /\ part' = NoRow /\ comp' = comp
          /\ lane' = [i \in Lanes(comp) |-> NoBatch] /\ writer' = [i \in Lanes(comp) |-> NoJob]
          /\ length' = 0
      BY <1>3 DEF Reset
    <2>2. \A i \in Lanes(comp) : lane'[i] = NoBatch /\ writer'[i] = NoJob
      BY <2>1
    <2>3. Fresh' /\ ~reader'.done /\ ~front'.refused
      BY <2>1, <2>2 DEF Fresh, NoBytes, NoJob, NoFront
    <2> QED  BY <2>1, <2>3 DEF FlowInv, Phase
  <1>4. CASE Misconfigured
    BY <1>4 DEF Misconfigured, FlowInv
  <1>5. CASE FrontAtEnd
    BY <1>5 DEF FrontAtEnd, FlowInv
  <1> QED  BY <1>1, <1>2, <1>3, <1>4, <1>5

\* Behind a good job there is nothing for the reset to throw away.
LEMMA DoneFlows ==
    ASSUME Typed, FlowInv, DoneClock
    PROVE  FlowInv'
  <1>1. UNCHANGED <<comp, length, length_fail, reader, writer, front_error, awaiting>>
    BY DEF DoneClock
  <1>2. ASSUME ~front_error  PROVE UNCHANGED <<front, part, lane>>
    <2>1. CASE job_done /\ job_error
      <3>1. Fresh
        BY <1>2, <2>1, DoneIsFresh
      <3>2. lane = [i \in Lanes(comp) |-> NoBatch]
        BY <3>1, TypeParts DEF Fresh, Typed
      <3> QED  BY <2>1, <3>1, <3>2 DEF DoneClock, Fresh
    <2> QED  BY <2>1 DEF DoneClock
  <1> QED  BY <1>1, <1>2, PhaseKept DEF FlowInv

\* A lane that closes out had all of its batch.
LEMMA CloseFlows ==
    ASSUME Typed, FlowInv, NEW i \in Lanes(comp), Close(i)
    PROVE  FlowInv'
  <1> PICK failed \in BOOLEAN :
        writer' = [writer EXCEPT ![i] = [@ EXCEPT !.busy = FALSE, !.done = TRUE,
                     !.error = failed \/ lane[i].torn \/ lane[i].words % RowWords # 0]]
    BY DEF Close
  <1>0. /\ lane \in [Lanes(comp) -> LaneState] /\ writer \in [Lanes(comp) -> WriterState]
        /\ UNCHANGED <<comp, length, length_fail, reader, front, front_error, part, awaiting>>
        /\ lane[i].ended /\ writer[i].busy
        /\ lane' = [lane EXCEPT ![i] = NoBatch]
    BY TypeParts DEF Typed, Close
  <1> SUFFICES ASSUME ~front_error  PROVE ~front.refused /\ Phase' /\ awaiting
    BY <1>0 DEF FlowInv
  <1> DEFINE error == failed \/ lane[i].torn \/ lane[i].words % RowWords # 0
  <1>1. lane[i] # NoBatch
    BY <1>0 DEF NoBatch
  <1>2. ~front.refused /\ awaiting /\ ~length_fail /\ Closing
    <2>1. ~Streaming
      BY <1>0 DEF Streaming, LanesTake
    <2> QED  BY <1>1, <2>1, PhaseParts
  <1>3. /\ \A k \in Lanes(comp) : writer'[k].words = writer[k].words /\ writer[k].words \in Nat
        /\ \A k \in Lanes(comp) : k # i => writer'[k] = writer[k] /\ lane'[k] = lane[k]
        /\ lane'[i] = NoBatch /\ writer'[i].busy = FALSE /\ writer'[i].done = TRUE /\ writer'[i].error = error
    <2>1. writer[i] \in WriterState
      BY <1>0
    <2> HIDE DEF error
    <2>2. writer' = [writer EXCEPT ![i] = [writer[i] EXCEPT !.busy = FALSE, !.done = TRUE, !.error = error]]
      BY <1>0 DEF error
    <2>3. writer'[i] = [writer[i] EXCEPT !.busy = FALSE, !.done = TRUE, !.error = error]
      BY <1>0, <2>2
    <2>4. \A k \in Lanes(comp) : k # i => writer'[k] = writer[k] /\ lane'[k] = lane[k]
      BY <1>0, <2>2
    <2>5. writer'[i].words = writer[i].words
      BY <2>1, <2>3 DEF WriterState
    <2>6. writer'[i].busy = FALSE /\ writer'[i].done = TRUE /\ writer'[i].error = error
      BY <2>1, <2>3 DEF WriterState
    <2>7. \A k \in Lanes(comp) : writer[k].words \in Nat
      BY <1>0 DEF WriterState
    <2> QED  BY <1>0, <2>4, <2>5, <2>6, <2>7
  <1>4. RowWords' = RowWords /\ Scale' = Scale
    BY <1>0 DEF RowWords, RecordWords, Scale
  <1>5. Total' = Total
    <2>1. WordsOf(writer', Lanes(comp)) = WordsOf(writer, Lanes(comp))
      <3>1. IsFiniteSet(Lanes(comp)) /\ Lanes(comp) # {}
        BY FlowSizes DEF Typed
      <3>2. \A k \in Lanes(comp) : writer[k].words \in Nat /\ writer'[k].words = writer[k].words
        BY <1>3
      <3> QED  BY <3>1, <3>2, SumKept
    <2> QED  BY <1>0, <2>1 DEF Total
  <1>6. LanesEnd'
    <2>1. ASSUME NEW k \in Lanes(comp), k # i
          PROVE  \/ writer'[k].busy /\ ~writer'[k].done /\ lane'[k].ended /\ lane'[k].words = writer'[k].words
                 \/ /\ ~writer'[k].busy /\ writer'[k].done /\ lane'[k] = NoBatch
                    /\ writer'[k].error \/ writer'[k].words % RowWords = 0
      BY <1>2, <1>3, <2>1 DEF Closing, LanesEnd
    <2>2. writer'[i].error \/ writer'[i].words % RowWords = 0
      <3>1. lane[i].words = writer[i].words
        BY <1>0, <1>1, <1>2 DEF Closing, LanesEnd
      <3> QED  BY <1>3, <3>1
    <2> QED  BY <1>0, <1>3, <1>4, <2>1, <2>2 DEF LanesEnd
  <1>7. Delivered'
    <2>1. \A k \in Lanes(comp) : Spoiled(k) => Spoiled(k)'
      <3>1. ~writer[i].done
        BY <1>0, <1>2 DEF Closing, LanesEnd
      <3>2. Spoiled(i) => writer'[i].error
        BY <1>3, <3>1 DEF Spoiled
      <3> QED  BY <1>3, <3>2 DEF Spoiled
    <2>2. Shares(comp) => (Delivered => Delivered')
      BY <1>0, <1>4, <1>5, <2>1 DEF Delivered
    <2>3. ~Shares(comp) => (Delivered => Delivered')
      BY <1>0, <1>3, <1>4 DEF Delivered
    <2> QED  BY <1>2, <2>2, <2>3 DEF Closing
  <1> QED  BY <1>0, <1>2, <1>4, <1>5, <1>6, <1>7 DEF Phase, Closing, RoutedWhole

\* The shared partitioner gives a row to one lane, and ends all their batches.
LEMMA RouteFlows ==
    ASSUME Typed, FlowInv, Route
    PROVE  FlowInv'
  <1> PICK i \in Lanes(comp) : Received(i, RowWords)
    BY DEF Route
  <1>0. /\ lane \in [Lanes(comp) -> LaneState] /\ writer \in [Lanes(comp) -> WriterState]
        /\ part \in [held : Nat, ended : BOOLEAN] /\ part.held >= RowWords /\ RowWords \in Nat \ {0}
        /\ UNCHANGED <<comp, length, length_fail, reader, front, front_error, awaiting>>
        /\ part' = [part EXCEPT !.held = @ - RowWords]
        /\ IsFiniteSet(Lanes(comp))
    BY TypeParts, FlowSizes DEF Typed, Route
  <1> SUFFICES ASSUME ~front_error  PROVE ~front.refused /\ Phase' /\ awaiting
    BY <1>0 DEF FlowInv
  <1>1. part # NoRow
    BY <1>0 DEF NoRow
  <1>2. ~front.refused /\ awaiting /\ ~length_fail /\ Streaming
    BY <1>1, PhaseParts
  <1>3. Shares(comp)
    BY <1>1, <1>2 DEF Streaming, UnitsThere
  <1>4. part'.held = part.held - RowWords /\ part'.ended = part.ended
    BY <1>0
  <1>5. /\ \A k \in Lanes(comp) : k # i => writer'[k] = writer[k] /\ lane'[k] = lane[k]
        /\ writer'[i].words = writer[i].words + RowWords
        /\ lane'[i].words = lane[i].words + RowWords
        /\ writer'[i].busy = writer[i].busy /\ writer'[i].done = writer[i].done /\ lane'[i].ended = lane[i].ended
    <2>1. /\ lane' = [lane EXCEPT ![i] = [lane[i] EXCEPT !.words = @ + RowWords]]
          /\ writer' = [writer EXCEPT ![i] = [writer[i] EXCEPT !.words = @ + RowWords]]
      BY <1>0 DEF Received
    <2>2. lane[i] \in LaneState /\ writer[i] \in WriterState
      BY <1>0
    <2> QED  BY <1>0, <2>1, <2>2 DEF LaneState, WriterState
  <1>6. Total \in Nat /\ Total' = Total + RowWords
    <2>1. \A k \in Lanes(comp) : writer[k].words \in Nat
      BY <1>0 DEF WriterState
    <2>2. \A k \in Lanes(comp) : writer'[k].words = writer[k].words + (IF k = i THEN RowWords ELSE 0)
      BY <1>5, <2>1
    <2>3. WordsOf(writer, Lanes(comp)) \in Nat
          /\ WordsOf(writer', Lanes(comp)) = WordsOf(writer, Lanes(comp)) + RowWords
      <3>1. IsFiniteSet(Lanes(comp)) /\ RowWords \in Nat /\ i \in Lanes(comp)
        BY <1>0
      <3> QED  BY <2>1, <2>2, <3>1, SumAdds
    <2> QED  BY <1>0, <2>3 DEF Total
  <1>7. LanesTake'
    BY <1>0, <1>2, <1>5 DEF Streaming, LanesTake, LaneState, WriterState
  <1>8. (InReader \/ InFront \/ InPart)'
    BY <1>0, <1>2, <1>4 DEF Streaming, InReader, InFront, InPart
  <1>9. Balance'
    <2>1. front.held \in Nat
      BY TypeParts DEF Typed, FrontState
    <2>2. Total' + part'.held + front'.held = Total + part.held + front.held
      BY <1>0, <1>4, <1>6, <2>1
    <2>3. Scale' = Scale
      BY <1>0 DEF Scale
    <2> QED  BY <1>0, <1>2, <1>3, <2>2, <2>3 DEF Streaming, Balance
  <1>10. RoutedWhole' /\ UnitsThere'
    <2>1. (Total + RowWords) % RowWords = Total % RowWords
      BY <1>0, <1>6, OneRowMore
    <2>2. RowWords' = RowWords
      BY <1>0 DEF RowWords, RecordWords
    <2> QED  BY <1>0, <1>2, <1>3, <1>6, <2>1, <2>2 DEF Streaming, RoutedWhole, UnitsThere, Fronted
  <1> QED  BY <1>0, <1>2, <1>7, <1>8, <1>9, <1>10 DEF Phase, Streaming

\* Behind the last row every lane ends, torn if words are left over.
LEMMA EndRoutesFlows ==
    ASSUME Typed, FlowInv, EndRoutes
    PROVE  FlowInv'
  <1>0. /\ lane \in [Lanes(comp) -> LaneState] /\ part \in [held : Nat, ended : BOOLEAN]
        /\ UNCHANGED <<comp, length, length_fail, reader, front, front_error, writer, awaiting>>
        /\ part.ended /\ part' = NoRow
        /\ lane' = [i \in Lanes(comp) |-> [lane[i] EXCEPT !.ended = TRUE, !.torn = part.held # 0]]
    BY TypeParts DEF Typed, EndRoutes
  <1> SUFFICES ASSUME ~front_error  PROVE ~front.refused /\ Phase' /\ awaiting
    BY <1>0 DEF FlowInv
  <1>1. part # NoRow
    <2>1. ~NoRow.ended
      BY DEF NoRow
    <2> QED  BY <1>0, <2>1
  <1>2. ~front.refused /\ awaiting /\ ~length_fail /\ Streaming
    BY <1>1, PhaseParts
  <1>3. Shares(comp) /\ InPart
    BY <1>0, <1>1, <1>2 DEF Streaming, UnitsThere, InReader, InFront
  <1>4. ASSUME NEW i \in Lanes(comp)
        PROVE  lane'[i].ended = TRUE /\ lane'[i].torn = (part.held # 0) /\ lane'[i].words = lane[i].words
    <2>1. lane[i] \in LaneState
      BY <1>0
    <2> QED  BY <1>0, <2>1 DEF LaneState
  <1>5. LanesEnd'
    BY <1>0, <1>2, <1>4 DEF Streaming, LanesTake, LanesEnd
  <1>6. Delivered'
    <2>1. Total' = Total /\ Scale' = Scale
      BY <1>0 DEF Total, Scale
    <2>2. CASE part.held = 0
      <3>1. reader.left = 0 /\ front.held = 0 /\ length \in Nat /\ Total \in Nat
        <4>1. \A k \in Lanes(comp) : writer[k].words \in Nat
          BY TypeParts DEF Typed, WriterState
        <4> QED  BY <1>3, <4>1, FlowSizes, SumKept DEF InPart, NoFront, Typed, Fixed, Total
      <3>2. ~reader.error => 8 * (Total + part.held + front.held) = Scale * (length - reader.left)
        BY <1>2, <1>3 DEF Streaming, Balance
      <3>3. ~reader.error => 8 * Total = Scale * length
        BY <2>2, <3>1, <3>2
      <3> QED  BY <1>0, <1>3, <2>1, <3>3 DEF Delivered
    <2>3. CASE part.held # 0
      <3>1. \A i \in Lanes(comp) : Spoiled(i)'
        BY <1>0, <1>2, <1>4, <2>3 DEF Spoiled, Streaming, LanesTake
      <3> QED  BY <1>0, <1>3, <3>1 DEF Delivered
    <2> QED  BY <2>2, <2>3
  <1>7. RoutedWhole'
    BY <1>0, <1>2 DEF Streaming, RoutedWhole, Total, RowWords, RecordWords
  <1> QED  BY <1>0, <1>2, <1>3, <1>5, <1>6, <1>7 DEF Phase, Closing, InPart

\* A beat that the fan-out takes: the words are taken off where they came
\* from, and the last of them takes the end of the batch along.
LEMMA FanFlows ==
    ASSUME Typed, Typed', Streaming, ~part.ended, UNCHANGED <<comp, length>>,
           NEW net \in Nets(comp), NEW last \in BOOLEAN, Fan(net, last),
           ~reader'.error =>
             /\ ~reader.error
             /\ 8 * (front'.held + Carried(net) - front.held) = Scale * (reader.left - reader'.left),
           last => reader'.left = 0 /\ reader'.done /\ front' = NoFront,
           ~last => \/ reader'.left > 0 /\ ~reader'.done /\ ~reader'.error /\ ~front'.ended
                    \/ reader'.left = 0 /\ reader'.done /\ front'.ended,
           ~Fronted => front' = NoFront
    PROVE  Streaming' \/ Closing'
  <1>0. /\ \A i \in Lanes(comp) : writer[i].words \in Nat /\ writer'[i].words \in Nat
        /\ front.held \in Nat /\ front'.held \in Nat /\ part.held \in Nat
        /\ reader.left \in Nat /\ reader'.left \in Nat /\ length \in Nat
        /\ Carried(net) \in Nat /\ Scale \in {1, 2} /\ Scale' = Scale
        /\ Total \in Nat /\ RowWords' = RowWords /\ Lanes(comp) # {}
    <2>1. comp' = comp
      OBVIOUS
    <2>2. \A i \in Lanes(comp) : writer[i].words \in Nat /\ writer'[i].words \in Nat
      BY <2>1 DEF Typed, TypeOK
    <2>3. IsFiniteSet(Lanes(comp)) /\ Lanes(comp) # {}
      BY FlowSizes DEF Typed
    <2>4. Total \in Nat
      BY <2>2, <2>3, SumKept DEF Total
    <2>5. front.held \in Nat /\ front'.held \in Nat /\ part.held \in Nat
      BY DEF Typed, TypeOK
    <2>6. reader.left \in Nat /\ reader'.left \in Nat /\ length \in Nat
      BY DEF Typed, TypeOK, Fixed
    <2>7. Carried(net) \in Nat /\ Scale \in {1, 2} /\ Scale' = Scale
      BY <2>1, CarriedType DEF Typed, Scale
    <2> QED  BY <2>1, <2>2, <2>3, <2>4, <2>5, <2>6, <2>7 DEF RowWords, RecordWords
  <1>1. LanesTake /\ UnitsThere /\ RoutedWhole /\ Balance
    BY DEF Streaming
  <1>a. Scale * (length - reader'.left) =
          Scale * (length - reader.left) + Scale * (reader.left - reader'.left)
    <2>1. CASE Scale = 1
      BY <1>0, <2>1
    <2>2. CASE Scale = 2
      BY <1>0, <2>2
    <2> QED  BY <1>0, <2>1, <2>2
  <1>2. CASE Shares(comp)
    <2>1. part'.held = part.held + Carried(net) /\ part'.ended = last /\ UNCHANGED <<lane, writer>>
      BY <1>2, FanMoves
    <2>2. Total' = Total
      BY <2>1 DEF Total
    <2>3. LanesTake' /\ RoutedWhole' /\ UnitsThere'
      BY <1>0, <1>1, <1>2, <2>1, <2>2 DEF LanesTake, RoutedWhole, UnitsThere, Fronted
    <2>4. (InReader \/ InFront \/ InPart)'
      BY <2>1 DEF InReader, InFront, InPart
    <2>5. Balance'
      <3>1. ASSUME ~reader'.error
            PROVE  8 * (Total' + part'.held + front'.held) = Scale * (length - reader'.left)
        <4>1. 8 * (Total + part.held + front.held) = Scale * (length - reader.left)
          BY <1>1, <1>2, <3>1 DEF Balance
        <4>2. 8 * (front'.held + Carried(net) - front.held) = Scale * (reader.left - reader'.left)
          BY <3>1
        <4>3. Scale * (length - reader.left) \in Int /\ Scale * (reader.left - reader'.left) \in Int
          BY <1>0
        <4> QED  BY <1>0, <1>a, <2>1, <2>2, <4>1, <4>2, <4>3
      <3> QED  BY <1>0, <1>2, <3>1 DEF Balance
    <2> QED  BY <2>3, <2>4, <2>5 DEF Streaming
  <1>3. CASE ~Shares(comp)
    <2>1. part' = NoRow
      BY <1>1, <1>3, FanMoves DEF UnitsThere
    <2>2. ASSUME NEW i \in Lanes(comp)
          PROVE  /\ writer'[i].words = writer[i].words + Carried(net) /\ lane'[i].words = writer'[i].words
                 /\ writer'[i].busy /\ ~writer'[i].done /\ lane'[i].ended = last
      BY <1>1, <1>3, FanMoves DEF LanesTake
    <2>3. ASSUME ~reader'.error, NEW i \in Lanes(comp)
          PROVE  8 * (writer'[i].words + front'.held) = Scale * (length - reader'.left)
      <3>1. 8 * (writer[i].words + front.held) = Scale * (length - reader.left)
        BY <1>1, <1>3, <2>3 DEF Balance
      <3>2. writer[i].words \in Nat /\ writer'[i].words = writer[i].words + Carried(net)
        BY <1>0, <2>2
      <3>3. 8 * (front'.held + Carried(net) - front.held) = Scale * (reader.left - reader'.left)
        BY <2>3
      <3>4. Scale * (length - reader.left) \in Int /\ Scale * (reader.left - reader'.left) \in Int
        BY <1>0
      <3> QED  BY <1>0, <1>a, <3>1, <3>2, <3>3, <3>4
    <2>4. CASE last
      <3>1. LanesEnd'
        BY <2>2, <2>4 DEF LanesEnd
      <3>2. Delivered'
        <4>1. ASSUME ~reader'.error, NEW i \in Lanes(comp)
              PROVE  8 * writer'[i].words = Scale' * length'
          <5>1. front'.held = 0 /\ reader'.left = 0
            BY <2>4 DEF NoFront
          <5>2. writer'[i].words \in Nat
            BY <1>0
          <5> QED  BY <1>0, <2>3, <4>1, <5>1, <5>2
        <4> QED  BY <1>3, <4>1 DEF Delivered
      <3> QED  BY <1>3, <2>1, <2>4, <3>1, <3>2 DEF Closing, RoutedWhole
    <2>5. CASE ~last
      <3>1. LanesTake' /\ UnitsThere'
        BY <2>1, <2>2, <2>5 DEF LanesTake, UnitsThere, Fronted
      <3>2. (InReader \/ InFront)'
        BY <2>1, <2>5 DEF InReader, InFront, NoRow
      <3>3. Balance'
        BY <1>0, <1>3, <2>3 DEF Balance
      <3> QED  BY <1>3, <3>1, <3>2, <3>3 DEF Streaming, RoutedWhole
    <2> QED  BY <2>4, <2>5
  <1> QED  BY <1>2, <1>3

\* A beat of the reader goes to the front stage, or straight into the fan-out.
LEMMA ReaderFlows ==
    ASSUME Typed, Typed', FlowInv, ReaderBeat
    PROVE  FlowInv'
  <1> PICK error \in BOOLEAN :
        LET left == IF error THEN 0 ELSE reader.left - BeatBytes(comp) IN
        /\ reader' = [left |-> left, done |-> left = 0, error |-> error]
        /\ IF Unpacks(comp) \/ Gears(comp)
             THEN FrontIntake(Carried("scan"), left = 0) /\ UNCHANGED <<part, lane, writer>>
             ELSE Fan("scan", left = 0) /\ UNCHANGED front
    BY DEF ReaderBeat
  <1> DEFINE left == IF error THEN 0 ELSE reader.left - BeatBytes(comp)
  <1>0. /\ UNCHANGED <<comp, length, length_fail, front_error, awaiting>> /\ reader.left > 0
        /\ reader.left \in Nat /\ BeatBytes(comp) \in {8, 16, 32, 64} /\ 8 * Carried("scan") = BeatBytes(comp)
        /\ "scan" \in Nets(comp) /\ Carried("scan") \in Nat
    BY Sizes, FlowSizes, CarriedType DEF ReaderBeat, reader_busy, Typed, TypeOK
  <1>1. left \in Nat /\ reader'.left = left /\ reader'.done = (left = 0) /\ reader'.error = error
    <2>1. reader'.left = left /\ reader'.done = (left = 0) /\ reader'.error = error
      OBVIOUS
    <2>2. reader'.left \in Nat
      BY DEF Typed, TypeOK
    <2> QED  BY <2>1, <2>2
  <1> SUFFICES ASSUME ~front_error  PROVE ~front'.refused /\ Phase' /\ awaiting
    BY <1>0 DEF FlowInv
  <1>2. ~front.refused /\ awaiting /\ ~length_fail /\ Streaming
    BY <1>0, PhaseParts
  <1>3. ~reader.done /\ ~reader.error /\ ~front.ended /\ ~part.ended
    BY <1>0, <1>2 DEF Streaming, InReader, InFront, InPart
  <1>4. CASE Fronted
    <2>1. FrontIntake(Carried("scan"), left = 0) /\ UNCHANGED <<part, lane, writer>>
      BY <1>4 DEF Fronted
    <2>2. /\ front'.held = front.held + Scale * Carried("scan") /\ front'.ended = (left = 0)
          /\ ~front'.refused
      <3>1. front \in FrontState
        BY TypeParts DEF Typed
      <3> DEFINE held == front.held + Scale * Carried("scan")
      <3>2. held = front.held + (IF Unpacks(comp) THEN 2 * Carried("scan") ELSE Carried("scan"))
        BY <1>0 DEF Scale
      <3>3. front' = [front EXCEPT !.held = held, !.ended = (left = 0)]
        BY <1>2, <2>1, <3>2 DEF FrontIntake
      <3> HIDE DEF held, left
      <3>4. front'.held = held /\ front'.ended = (left = 0) /\ front'.refused = front.refused
        BY <3>1, <3>3 DEF FrontState
      <3> QED  BY <1>2, <3>4 DEF held
    <2>3. (InReader \/ InFront)'
      <3>1. error => left = 0
        OBVIOUS
      <3> HIDE DEF left
      <3>2. part'.ended = part.ended
        BY <2>1
      <3>3. CASE left = 0
        BY <1>1, <1>3, <2>2, <3>2, <3>3 DEF InFront
      <3>4. CASE left # 0
        <4>1. left > 0 /\ ~error
          BY <1>1, <3>1, <3>4
        <4> QED  BY <1>1, <1>3, <2>2, <3>2, <3>4, <4>1 DEF InReader
      <3> QED  BY <3>3, <3>4
    <2>4. LanesTake' /\ RoutedWhole' /\ Total' = Total /\ Scale' = Scale
      BY <1>0, <1>2, <2>1 DEF Streaming, LanesTake, RoutedWhole, Total, Scale, RowWords, RecordWords
    <2>5. UnitsThere'
      BY <1>0, <1>2, <1>4, <2>1 DEF Streaming, UnitsThere, Fronted
    <2>6. Balance'
      <3> SUFFICES ASSUME ~error  PROVE Balance'
        BY <1>1 DEF Balance
      <3>1. /\ front.held \in Nat /\ part.held \in Nat /\ length \in Nat
            /\ \A i \in Lanes(comp) : writer[i].words \in Nat
            /\ Total \in Nat
        <4>1. \A i \in Lanes(comp) : writer[i].words \in Nat
          BY DEF Typed, TypeOK
        <4> QED  BY <4>1, FlowSizes, SumKept DEF Typed, TypeOK, Fixed, Total
      <3>2. 8 * (Scale * Carried("scan")) = Scale * (reader.left - left)
        <4>1. Scale = 1 \/ Scale = 2
          BY DEF Scale
        <4>2. reader.left - left = 8 * Carried("scan")
          BY <1>0
        <4> HIDE DEF left
        <4> QED  BY <1>0, <4>1, <4>2
      <3>3. Scale * (length - left) = Scale * (length - reader.left) + Scale * (reader.left - left)
        <4>1. Scale = 1 \/ Scale = 2
          BY DEF Scale
        <4> HIDE DEF left
        <4> QED  BY <1>0, <1>1, <3>1, <4>1
      <3>4. Scale \in {1, 2}
        BY DEF Scale
      <3>5. Scale * Carried("scan") \in Int /\ Scale * (length - reader.left) \in Int
            /\ Scale * (reader.left - left) \in Int
        BY <1>0, <1>1, <3>1, <3>4
      <3> HIDE DEF left
      <3>7. CASE Shares(comp)
        <4>1. 8 * (Total + part.held + front.held) = Scale * (length - reader.left)
          BY <1>2, <1>3, <3>7 DEF Streaming, Balance
        <4>2. 8 * (Total' + part'.held + front'.held) = Scale' * (length' - reader'.left)
          BY <1>0, <1>1, <2>1, <2>2, <2>4, <3>1, <3>2, <3>3, <3>5, <4>1
        <4> QED  BY <1>0, <3>7, <4>2 DEF Balance
      <3>8. CASE ~Shares(comp)
        <4>1. ASSUME NEW i \in Lanes(comp)
              PROVE  8 * (writer'[i].words + front'.held) = Scale' * (length' - reader'.left)
          <5>1. 8 * (writer[i].words + front.held) = Scale * (length - reader.left)
            BY <1>2, <1>3, <3>8 DEF Streaming, Balance
          <5>2. writer[i].words \in Nat /\ writer' = writer
            BY <2>1, <3>1
          <5> QED  BY <1>0, <1>1, <2>2, <2>4, <3>1, <3>2, <3>3, <3>5, <5>1, <5>2
        <4> QED  BY <1>0, <3>8, <4>1 DEF Balance
      <3> QED  BY <3>7, <3>8
    <2> QED  BY <1>0, <1>2, <2>2, <2>3, <2>4, <2>5, <2>6 DEF Phase, Streaming
  <1>5. CASE ~Fronted
    <2>1. Fan("scan", left = 0) /\ UNCHANGED front
      BY <1>5 DEF Fronted
    <2>2. front = NoFront
      BY <1>2, <1>5 DEF Streaming, UnitsThere
    <2>3. Scale = 1
      BY <1>5 DEF Fronted, Scale
    <2>4. (left = 0) \in BOOLEAN
      OBVIOUS
    <2>5. Streaming' \/ Closing'
      <3>1. ~reader'.error =>
              /\ ~reader.error
              /\ 8 * (front'.held + Carried("scan") - front.held) = Scale * (reader.left - reader'.left)
        <4> SUFFICES ASSUME ~error
                     PROVE  8 * (front.held + Carried("scan") - front.held) = Scale * (reader.left - left)
          BY <1>1, <1>3, <2>1
        <4>1. front.held = 0
          BY <2>2 DEF NoFront
        <4> QED  BY <1>0, <2>3, <4>1
      <3>2. (left = 0) => reader'.left = 0 /\ reader'.done /\ front' = NoFront
        BY <1>1, <2>1, <2>2
      <3>3. ~(left = 0) => reader'.left > 0 /\ ~reader'.done /\ ~reader'.error /\ ~front'.ended
        BY <1>1, <2>1, <2>2 DEF NoFront
      <3>4. ~Fronted => front' = NoFront
        BY <2>1, <2>2
      <3> DEFINE last == left = 0
      <3>5. last \in BOOLEAN /\ Fan("scan", last)
        BY <2>1, <2>4
      <3>6. /\ last => reader'.left = 0 /\ reader'.done /\ front' = NoFront
            /\ ~last => reader'.left > 0 /\ ~reader'.done /\ ~reader'.error /\ ~front'.ended
        BY <3>2, <3>3
      <3> HIDE DEF left, last
      <3> QED  BY <1>0, <1>2, <1>3, <3>1, <3>4, <3>5, <3>6, FanFlows
    <2> QED  BY <1>0, <1>2, <2>1, <2>2, <2>5 DEF Phase
  <1> QED  BY <1>4, <1>5

\* A beat of the front stage takes out of it what the fan-out gets.
LEMMA FrontFlows ==
    ASSUME Typed, Typed', FlowInv, FrontBeat
    PROVE  FlowInv'
  <1> DEFINE words == IF Gears(comp) THEN RecordWords ELSE FrontWidth(comp) \div 64
             last == front.ended /\ front.held = words /\ (Gears(comp) => FinalRecord)
  <1>0. /\ UNCHANGED <<comp, length, length_fail, reader, front_error, awaiting>>
        /\ Fronted /\ ~front.refused /\ front.held >= words
        /\ front' = IF last THEN NoFront ELSE [front EXCEPT !.held = @ - words, !.made = @ + 1]
        /\ Fan(StreamPrefix(comp), last)
    BY DEF FrontBeat, Fronted
  <1>1. /\ words \in Nat \ {0} /\ words = Carried(StreamPrefix(comp)) /\ StreamPrefix(comp) \in Nets(comp)
        /\ front \in FrontState /\ last \in BOOLEAN
    BY <1>0, FlowSizes, Sizes, TypeParts DEF Typed
  <1> SUFFICES ASSUME ~front_error  PROVE ~front'.refused /\ Phase' /\ awaiting
    BY <1>0 DEF FlowInv
  <1>2. last => front.ended /\ front.held = words
    OBVIOUS
  <1> HIDE DEF words, last
  <1>3. front # NoFront
    BY <1>0, <1>1 DEF NoFront
  <1>4. awaiting /\ ~length_fail /\ Streaming
    BY <1>3, PhaseParts
  <1>5. ~part.ended /\ (InReader \/ InFront)
    BY <1>3, <1>4 DEF Streaming, InReader, InFront, InPart
  <1>6. /\ front'.held + words = front.held /\ ~front'.refused
        /\ ~last => front'.ended = front.ended
    <2>1. CASE last
      BY <1>0, <1>1, <1>2, <2>1 DEF NoFront
    <2>2. CASE ~last
      <3>1. front' = [front EXCEPT !.held = @ - words, !.made = @ + 1]
        BY <1>0, <2>2
      <3>2. front'.held = front.held - words /\ front'.refused = front.refused /\ front'.ended = front.ended
        BY <1>1, <3>1 DEF FrontState
      <3> QED  BY <1>0, <1>1, <3>2 DEF FrontState
    <2> QED  BY <2>1, <2>2
  <1>7. Streaming' \/ Closing'
    <2>1. ~reader'.error =>
            /\ ~reader.error
            /\ 8 * (front'.held + Carried(StreamPrefix(comp)) - front.held) = Scale * (reader.left - reader'.left)
      <3>1. reader' = reader /\ reader.left \in Nat /\ front.held \in Nat /\ front'.held \in Nat
        BY <1>0 DEF Typed, TypeOK
      <3>2. Scale * (reader.left - reader'.left) = 0
        BY <3>1 DEF Scale
      <3>3. front'.held + Carried(StreamPrefix(comp)) - front.held = 0
        BY <1>1, <1>6, <3>1
      <3> QED  BY <3>1, <3>2, <3>3
    <2>2. last => reader'.left = 0 /\ reader'.done /\ front' = NoFront
      BY <1>0, <1>2, <1>5 DEF InReader, InFront
    <2>3. ~last => \/ reader'.left > 0 /\ ~reader'.done /\ ~reader'.error /\ ~front'.ended
                   \/ reader'.left = 0 /\ reader'.done /\ front'.ended
      BY <1>0, <1>5, <1>6 DEF InReader, InFront
    <2> QED  BY <1>0, <1>1, <1>4, <1>5, <2>1, <2>2, <2>3, FanFlows
  <1> QED  BY <1>0, <1>4, <1>6, <1>7 DEF Phase

\* The invariant of the flow is inductive beside the types.
LEMMA FlowStays ==
    ASSUME Typed, FlowInv, [Next]_vars
    PROVE  Typed' /\ FlowInv'
  <1>1. Typed'
    BY TypedStays
  <1>2. CASE UNCHANGED vars
    <2>1. UNCHANGED <<comp, length, length_fail, reader, front, part, lane, writer, front_error, awaiting>>
      BY <1>2 DEF vars, units
    <2> QED  BY <1>1, <2>1, PhaseKept DEF FlowInv
  <1>3. CASE Next
    BY <1>1, <1>3, SubmitFlows, HostFlows, ReaderFlows, FrontFlows, RouteFlows, EndRoutesFlows, DoneFlows,
       CloseFlows DEF Next
  <1> QED  BY <1>1, <1>2, <1>3

\* A shell comes out of reset with nothing in it.
LEMMA FlowStarts ==
    ASSUME Init
    PROVE  Typed /\ FlowInv
  <1>1. Fresh /\ ~reader.done /\ length = 0 /\ ~front.refused
    <2>1. \A i \in Lanes(comp) : lane[i] = NoBatch /\ writer[i] = NoJob
      BY DEF Init
    <2> QED  BY <2>1 DEF Init, Fresh, NoBytes, NoFront, NoJob
  <1> QED  BY <1>1, TypedStarts DEF FlowInv, Phase

\* A job that is done without an error is one of whole rows, and the writers
\* got every word of it, once.
THEOREM GoodJobsAreWhole == Spec => []GoodJobSawEverything
  <1>1. ASSUME Typed, FlowInv  PROVE GoodJobSawEverything
    <2> SUFFICES ASSUME job_done, ~job_error
                 PROVE  /\ Expected % RowWords = 0
                        /\ IF Shares(comp) THEN Total = Expected
                           ELSE \A i \in Lanes(comp) : writer[i].words = Expected
      BY DEF GoodJobSawEverything, Total, WordsOf
    <2>1. ~length_fail /\ ~reader.error /\ ~front_error /\ \A i \in Lanes(comp) : ~writer[i].error
      BY DEF job_error
    <2>2. Closing /\ \A i \in Lanes(comp) : writer[i].done /\ lane[i] = NoBatch
      BY <1>1, <2>1, DoneIsFresh
    <2>3. length \in Nat /\ length % 8 = 0 /\ Lanes(comp) # {} /\ Total \in Nat
          /\ \A i \in Lanes(comp) : writer[i].words \in Nat
      <3>1. \A i \in Lanes(comp) : writer[i].words \in Nat
        BY <1>1 DEF Typed, TypeOK
      <3> QED  BY <1>1, <2>1, <3>1, FlowSizes, SumKept DEF FlowInv, Typed, Fixed, Total
    <2>4. ASSUME NEW n \in Nat, 8 * n = Scale * length  PROVE n = Expected
      BY <2>3, <2>4 DEF Scale, Expected
    <2>5. CASE Shares(comp)
      <3>1. 8 * Total = Scale * length
        BY <2>1, <2>2, <2>3, <2>5 DEF Closing, Delivered, Spoiled
      <3> QED  BY <2>2, <2>3, <2>4, <2>5, <3>1 DEF Closing, RoutedWhole
    <2>6. CASE ~Shares(comp)
      <3>1. \A i \in Lanes(comp) : writer[i].words = Expected
        BY <2>1, <2>2, <2>3, <2>4, <2>6 DEF Closing, Delivered
      <3>2. \A i \in Lanes(comp) : writer[i].words % RowWords = 0
        BY <2>1, <2>2 DEF Closing, LanesEnd
      <3> QED  BY <2>3, <2>6, <3>1, <3>2
    <2> QED  BY <2>5, <2>6
  <1> QED  BY <1>1, FlowStarts, FlowStays, PTL DEF Spec

\* A job's first beat meets nothing of an earlier job in the units on its way.
THEOREM BatchesStartFresh == Spec => StartsFresh
  <1> DEFINE Begins == ~reader_busy /\ reader'.left > 0 /\ ~front_error =>
                         /\ front = NoFront /\ part = NoRow
                         /\ \A i \in Lanes(comp) : lane[i] = NoBatch /\ ~writer[i].busy
  <1>1. ASSUME Typed, FlowInv, [Next]_vars  PROVE Begins
    <2> SUFFICES ASSUME ~reader_busy, reader'.left > 0, ~front_error  PROVE Fresh
      BY DEF Fresh
    <2>1. CASE Submit
      BY <1>1, <2>1 DEF Submit, FlowInv
    <2>2. CASE ~Submit
      <3>1. reader'.left = 0 \/ reader' = reader \/ reader_busy
        <4>1. Reset => reader'.left = 0
          BY DEF Reset, NoBytes
        <4>2. ReaderBeat => reader_busy
          BY DEF ReaderBeat
        <4>3. \A i \in Lanes(comp) : Close(i) => reader' = reader
          BY DEF Close
        <4>4. Poll \/ GiveUp \/ Misconfigured \/ FrontBeat \/ FrontAtEnd \/ Route \/ EndRoutes \/ DoneClock
                \/ UNCHANGED vars => reader' = reader
          BY DEF vars, units, Poll, GiveUp, Misconfigured, FrontBeat, FrontAtEnd, Route, EndRoutes, DoneClock
        <4> QED  BY <1>1, <2>2, <4>1, <4>2, <4>3, <4>4 DEF Next
      <3> QED  BY <3>1 DEF reader_busy
    <2> QED  BY <2>1, <2>2
  <1> QED  BY <1>1, FlowStarts, FlowStays, PTL DEF Spec, StartsFresh
===============================================================================
