------------------------------ MODULE MCScanFeed ------------------------------
(***************************************************************************)
(* Model values for ScanFeed: compositions of one or two lanes with every  *)
(* mix of the fan-outs and front stages, good and bad, and the lengths of  *)
(* up to six words, on and off the grids of 16- and 24-byte records.       *)
(***************************************************************************)
EXTENDS ScanFeed, TLC

None == [x \in {} |-> 0]
TileOf(params, config) == [params |-> params, config |-> config]
Plain == TileOf(None, None)
Sized(name, width) == TileOf(name :> width, None)
Loader == TileOf(None, "cfg_load" :> "load_phase")

LaneOf(chain, partition) == [tile |-> Plain, partition |-> partition, chain |-> chain]

LaneSets ==
    {<<LaneOf(<<>>, NoTile)>>, <<LaneOf(<<>>, NoTile), LaneOf(<<>>, NoTile)>>,
     <<LaneOf(<<Loader>>, NoTile), LaneOf(<<Loader, Plain>>, NoTile)>>,
     <<LaneOf(<<Loader>>, NoTile), LaneOf(<<>>, Plain)>>}

Shapes(unpackers, gearboxes, sizes) ==
    [lanes : LaneSets,
     partitioner : {NoTile, Plain, Sized("IN_WIDTH", 128), Sized("IN_WIDTH", 256)},
     front_unpack : unpackers, front_gearbox : gearboxes, data_width : {64, 128, 256},
     wide_lane : BOOLEAN, input_row_bytes : sizes, handle_table_capacity : {0},
     addr_width : {32}]

\* The record size says nothing of packed rows.
Candidates ==
    Shapes({NoTile}, {NoTile, Plain}, {16, 24})
      \union Shapes({Plain, Sized("OUT_WIDTH", 128), Sized("OUT_WIDTH", 256)}, {NoTile, Plain}, {16})

Bytes == {8, 24, 32, 48}
==============================================================================
