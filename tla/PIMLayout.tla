------------------------------- MODULE PIMLayout -------------------------------
(***************************************************************************)
(* Where the operands and the results of a kernel lie in the banks.  The   *)
(* sides of a PIM block are its even bank (0) and its odd bank (1); a cell *)
(* is named << side, row, col >>.                                          *)
(***************************************************************************)
EXTENDS PIMCmdGen

CONSTANT
  NUM_COLS_PER_BL  \* bursts per row

ASSUME LayoutAssumption == NUM_COLS_PER_BL \in Nat \ {0}

INPUT0_ROW == 0
INPUT1_ROW == 128
RESULT_ROW == 256
ZERO_ROW   == 1000

(* Columns run on into the next row.                                       *)
Linear(row, col) == row * NUM_COLS_PER_BL + col

CellAt(side, row, col) ==
  << side, row + col \div NUM_COLS_PER_BL, col % NUM_COLS_PER_BL >>

-----------------------------------------------------------------------------
(* What the host stores: preloadGemv fills the even and the odd banks each *)
(* from the start, one tile after the other, output tiles outermost;       *)
(* preloadNoReplacement stores vectors as they are.                        *)

TilesOf(job, side) == IF side = 0 THEN EvenTiles(job) ELSE OddTiles(job)

OperandRows(job) ==
  CASE IsGemv(job)         -> {0}
    [] job.kernel = "RELU" -> {INPUT0_ROW}
    [] OTHER               -> {INPUT0_ROW, INPUT1_ROW}

OperandSize(job, side) ==
  NUM_GRF * (IF IsGemv(job) THEN job.outputs * TilesOf(job, side) * NUM_GRF
                            ELSE job.tiles)

OperandRow(job, key) ==
  {row \in OperandRows(job) :
     Linear(key[2] - row, key[3]) \in 0 .. OperandSize(job, key[1]) - 1}

HasOperand(job, key) == OperandRow(job, key) # {}

(* The burst of the input that the cell holds: of a matrix, by row and     *)
(* column in the part of it that belongs to the block.                     *)
OperandAt(job, key) ==
  LET row  == CHOOSE row \in OperandRow(job, key) : TRUE
      at   == Linear(key[2] - row, key[3])
      tile == at \div (NUM_GRF * NUM_GRF)
      n    == TilesOf(job, key[1])
  IN  IF IsGemv(job)
        THEN << "w_data",
                (tile \div n) * NUM_GRF + ((at \div NUM_GRF) % NUM_GRF),
                (2 * (tile % n) + key[1]) * NUM_GRF + (at % NUM_GRF) >>
        ELSE << "input", row, << key[1], at >> >>

-----------------------------------------------------------------------------
(* What the kernel does.                                                   *)

(* The tile of weights that a pass over an input and an output tile reads. *)
WeightTile(job, input, output) == input \div 2 + (output * job.tiles) \div 2

(* The column of the first result, getResultColGemv, and of the others.    *)
ResultColGemv(job) == ((job.outputs * job.tiles) \div 2) * NUM_GRF * NUM_GRF

ResultCol(job, j, b) == ResultColGemv(job) + (j + b) * NUM_GRF

=============================================================================
