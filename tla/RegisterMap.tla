------------------------------ MODULE RegisterMap ------------------------------
(***************************************************************************)
(* The register window of a generated shell                                *)
(* (dau_build/scan_composition.py: RegisterLayout, the localparams of the  *)
(* top, and the register block's cases).  A register is a name and a lane; *)
(* an access selects by the low 12 bits of its address, so two registers   *)
(* whose offsets agree there answer for each other.                        *)
(*                                                                         *)
(* The number of lanes is nowhere bounded: the lane windows run into the   *)
(* debug registers, and behind them over the end of the window.            *)
(***************************************************************************)
EXTENDS ScanShape

Window == 4096

LaneBase == 256
LaneStride == 32

\* A register that is no lane's has lane 0; the lanes count from 1.
Register(name, offset) == [name |-> name, lane |-> 0, offset |-> offset]
LaneRegister(name, i, offset) ==
    [name |-> name, lane |-> i, offset |-> LaneBase + (i - 1) * LaneStride + offset]

HasTable(c) == c.handle_table_capacity > 0
WideAddress(c) == c.addr_width > 32

JobRegisters ==
    {Register("LAST_ERROR", 44), Register("JOB_CONTROL", 80), Register("JOB_STATUS", 84),
     Register("INPUT_ADDRESS_LOW", 88), Register("INPUT_LENGTH_LOW", 96)}

HandleRegisters ==
    {Register("HANDLE_INDEX", 212), Register("HANDLE_BASE_LOW", 216),
     Register("HANDLE_LENGTH", 224), Register("HANDLE_GENERATION", 228),
     Register("HANDLE_CONTROL", 232), Register("JOB_HANDLE_ID", 236),
     Register("JOB_HANDLE_GENERATION", 240)}

DebugRegisters ==
    {Register("dbg_first_stream_word_low", 4032), Register("dbg_first_stream_word_high", 4036),
     Register("dbg_first_araddr", 4040), Register("dbg_beats_while_idle", 4044),
     Register("dbg_final_fifo_count", 4048)}

InputHigh == Register("INPUT_ADDRESS_HIGH", 92)
LoadPhase == Register("LOAD_PHASE", 132)
BaseHigh == Register("HANDLE_BASE_HIGH", 220)

\* The registers of the top itself, each there when the composition calls for it.
TopRegisters(c) ==
    JobRegisters \union DebugRegisters
      \union When(HasTable(c), HandleRegisters)
      \union When(UsesLoadPhase(c), {LoadPhase})
      \union When(WideAddress(c), {InputHigh})
      \union When(WideAddress(c) /\ HasTable(c), {BaseHigh})

LaneWindow(c, i) ==
    {LaneRegister("OUTPUT_ADDRESS", i, 0), LaneRegister("RESULT_LENGTH", i, 4),
     LaneRegister("RECORD_COUNT_LOW", i, 8), LaneRegister("RECORD_COUNT_HIGH", i, 12),
     LaneRegister("ERROR", i, 16)}
      \union When(WideAddress(c), {LaneRegister("OUTPUT_ADDRESS_HIGH", i, 20)})

Registers(c) == TopRegisters(c) \union UNION {LaneWindow(c, i) : i \in Lanes(c)}

\* The registers that answer an access.
Selected(c, address) == {r \in Registers(c) : r.offset % Window = address % Window}

\* The lanes that the window has room for below the debug registers.
MaxLanes == 118

\* Every register answers at its own offset alone.
EachAnswersAlone(c) == \A r \in Registers(c) : Selected(c, r.offset) = {r}
==============================================================================
