-------------------------------- MODULE PIMData --------------------------------
(***************************************************************************)
(* The data a kernel moves, in all-bank mode: the cells of an even and an  *)
(* odd bank and the vector registers of the PIM block between them.  The   *)
(* blocks of a rank do the same to their own data, so one stands for all.  *)
(*                                                                         *)
(* A burst holds a polynomial over the bursts the host has stored: a bag   *)
(* of monomials, each of them a bag of stored bursts.  Sums and products   *)
(* are exact, so that rounding, and with it the order of a sum, is left    *)
(* out.  A cell is named << 0 (even bank) or 1, row, col >>.               *)
(***************************************************************************)
EXTENDS PIMKernel, Bags, FiniteSetsExt

VARIABLES
  cells,   \* the cells that a kernel has written, by rank and name
  loaded,  \* the job whose operands the host has stored in the other cells
  grf,     \* grfA and grfB, by rank
  scratch  \* null_bst_, which the accesses of a kernel point to

dataVars == << cells, loaded, grf, scratch >>

-----------------------------------------------------------------------------
(* PIMBlock: values.                                                       *)

Zero       == EmptyBag
Stored(x)  == SetToBag({SetToBag({x})})
Plus(v, w) == v (+) w

Times(v, w) ==
  LET pairs == (DOMAIN v) \X (DOMAIN w) IN
  [ m \in {q[1] (+) q[2] : q \in pairs} |->
      MapThenSumSet(LAMBDA q : v[q[1]] * w[q[2]],
                    {q \in pairs : q[1] (+) q[2] = m}) ]

Relu(v) == Stored(<< "relu", v >>)

-----------------------------------------------------------------------------
(* What the host stores: preloadGemv and preloadNoReplacement.             *)

Operand(job, key) == Stored(OperandAt(job, key))

ZeroRowKeys == {<< side, ZERO_ROW, col >> : side \in 0 .. 1, col \in 0 .. NUM_GRF - 1}

(* The writes to the row of zeros point to null_bst_ as well.              *)
HostStores(job) ==
  /\ cells' = [r \in Ranks |->
       LET kept == [k \in {k \in DOMAIN cells[r] : ~HasOperand(job, k)} |-> cells[r][k]]
       IN  IF job.kernel = "GEMVTREE" /\ r = 0
             THEN [k \in ZeroRowKeys |-> scratch] @@ kept ELSE kept]
  /\ loaded' = job
  /\ UNCHANGED << grf, scratch >>

DataInit(job) ==
  /\ cells = [r \in Ranks |-> << >>]
  /\ loaded = job
  /\ grf = [r \in Ranks |-> [file \in {"GRF_A", "GRF_B"} |->
                               [i \in 0 .. NUM_GRF - 1 |-> Zero]]]
  /\ scratch = Zero

-----------------------------------------------------------------------------
(* Column commands.                                                        *)

Key(side, c) == << side, c.row % 2 ^ 13, c.col >>

(* Bank::read leaves the burst it was given alone if the row has never     *)
(* been written.                                                           *)
Content(r, key) ==
  IF key \in DOMAIN cells[r] THEN cells[r][key]
  ELSE IF HasOperand(loaded, key) THEN Operand(loaded, key) ELSE scratch

GrfIdx(c) == c.col % NUM_GRF

LowIdxOnly(c, opd, isMac) == GrfIdx(c)  \* mutant

(* A MAC accumulates in the register of the row of weights: getGrfIdxHigh. *)
RegisterOf(c, opd, isMac) ==
  IF isMac /\ opd = "GRF_B"
    THEN (Linear(c.row, c.col) \div NUM_GRF) % NUM_GRF ELSE GrfIdx(c)

BankSides == {"EVEN_BANK", "ODD_BANK"}

(* readOpd, of the operands that the kernels use; all of them are indexed  *)
(* by the address.                                                         *)
readOpd(c, opd, isMac) ==
  IF opd \in BankSides
    THEN Content(c.rank, Key(IF opd = "EVEN_BANK" THEN 0 ELSE 1, c))
    ELSE grf[c.rank][opd][RegisterOf(c, opd, isMac)]

HasOperands(cmd) == cmd.type \in {"FILL", "ADD", "MUL", "MAC"}

(* doPIMBlock; one operand comes from a bank, through the buffer that the  *)
(* access points to, and the destination is a register.                    *)
Compute(c) ==
  LET cmd   == Executed(c.rank)
      isMac == cmd.type = "MAC"
      v     == readOpd(c, cmd.src0, isMac)
      w     == readOpd(c, cmd.src1, isMac)
  IN
  /\ IsPIMStep(c) /\ HasOperands(cmd)
  /\ grf' = [grf EXCEPT ![c.rank][cmd.dst][RegisterOf(c, cmd.dst, isMac)] =
               CASE cmd.type = "FILL" -> IF cmd.isRelu = 1 THEN Relu(v) ELSE v
                 [] cmd.type = "ADD"  -> Plus(v, w)
                 [] cmd.type = "MUL"  -> Times(v, w)
                 [] isMac             -> Plus(Times(v, w), @)]
  /\ scratch' = IF cmd.src0 \in BankSides THEN v ELSE w
  /\ UNCHANGED << cells, loaded >>

(* A NOP under a write stores a register, as a write does while no program *)
(* runs.  Bank 0 stands for all even banks, bank 1 for all odd ones.       *)
StoresGrf(c) ==
  /\ c.type = "WRITE" /\ c.bank \in {0, 1}
  /\ IF IsPIMStep(c) THEN Executed(c.rank).type = "NOP" ELSE ~IsReservedRA(c.row)

StoreGrf(c) ==
  LET v == grf[c.rank][IF c.bank = 0 THEN "GRF_A" ELSE "GRF_B"][GrfIdx(c)] IN
  /\ StoresGrf(c)
  /\ cells' = [cells EXCEPT ![c.rank] = (Key(c.bank, c) :> v) @@ @]
  /\ scratch' = v
  /\ UNCHANGED << loaded, grf >>

(* readHab.                                                                *)
LoadsGrf(c) == c.type = "READ" /\ ~IsPIMStep(c) /\ ~IsReservedRA(c.row)

LoadGrf(c) ==
  LET w == Content(c.rank, Key(c.bank, c)) IN
  /\ LoadsGrf(c)
  /\ grf' = [grf EXCEPT ![c.rank]["GRF_B"][GrfIdx(c)] = w]
  /\ scratch' = w
  /\ UNCHANGED << cells, loaded >>

(* writeHab: the registers can be written themselves ...                   *)
FileAt(col) ==
  {file \in {"GRF_A", "GRF_B"} :
     col - (IF file = "GRF_A" THEN 8 ELSE 24) \in 0 .. NUM_GRF - 1}

WritesGrf(c) == IsRegisterWrite(c) /\ FileAt(c.col) # {}

WriteGrf(c) ==
  /\ WritesGrf(c)
  /\ \E file \in FileAt(c.col) :
       grf' = [grf EXCEPT ![c.rank][file][GrfIdx(c)] = Stored(WriteData(c.trans.id))]
  /\ UNCHANGED << cells, loaded, scratch >>

(* ... and the control word can clear them.                                *)
ClearGrf(c) ==
  /\ IsRegisterWrite(c) /\ c.col = 0
  /\ grf' = [grf EXCEPT ![c.rank] = [file \in DOMAIN @ |->
               IF file \in WriteData(c.trans.id).zero
                 THEN [i \in DOMAIN @[file] |-> Zero] ELSE @[file]]]
  /\ UNCHANGED << cells, loaded, scratch >>

KeepData(c) ==
  /\ ~(IsPIMStep(c) /\ HasOperands(Executed(c.rank)))
  /\ ~StoresGrf(c) /\ ~LoadsGrf(c) /\ ~WritesGrf(c)
  /\ ~(IsRegisterWrite(c) /\ c.col = 0)
  /\ UNCHANGED dataVars

AccessData(c) ==
  Compute(c) \/ StoreGrf(c) \/ LoadGrf(c) \/ WriteGrf(c) \/ ClearGrf(c) \/ KeepData(c)

=============================================================================
