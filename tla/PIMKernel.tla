------------------------------- MODULE PIMKernel -------------------------------
(***************************************************************************)
(* The kernels of tests/PIMKernel.cpp: the list of transactions and        *)
(* barriers that a kernel adds to the channels.                            *)
(* A kernel is straight-line code, so it is a sequence here, in the order  *)
(* of the calls.  What a call means to achieve is kept with it:            *)
(*   modes  the modes in which it is meant to reach the rank,              *)
(*   step   the type of the instruction it is meant to execute, or "NONE". *)
(* Transactions carry pointers: to crf_bst_, bst_hab_pim_ and bst_hab_,    *)
(* which the next kernel uses again, or to a burst of the input data.      *)
(***************************************************************************)
EXTENDS PIMRank, PIMLayout

CONSTANT
  NUM_PIM_RANKS  \* the ranks a kernel drives, the first ones of a channel

ASSUME KernelAssumption == NUM_PIM_RANKS \in 1 .. NUM_RANKS

-----------------------------------------------------------------------------
(* Calls of addTransaction and addBarrier.                                 *)

Barrier == [call |-> "addBarrier"]

(* addrGenSafe wraps a column past the end of a row.                       *)
Call(type, rank, bank, row, col, note) ==
  [ call |-> "addTransaction", type |-> type,
    addr |-> [ rank |-> rank, bank |-> bank, row |-> row + col \div NUM_COLS_PER_BL,
               col |-> col % NUM_COLS_PER_BL ],
    data |-> note.data, modes |-> note.modes, step |-> note.step ]

(* null_bst_ is what the others point to.                                  *)
NULL_BST == << "null_bst_" >>

In(modes)        == [data |-> NULL_BST, modes |-> modes, step |-> "NONE"]
Carrying(p, m)   == [data |-> p, modes |-> {m}, step |-> "NONE"]
Executing(step)  == [data |-> NULL_BST, modes |-> {"HAB_PIM"}, step |-> step]

NeverFenced(fenced) == << >>  \* mutant

Fenced(fenced) == IF fenced THEN << Barrier >> ELSE << >>

(* A loop: what its passes add, one after the other.                       *)
Joined(n, passes) ==
  LET done[i \in 0 .. n] == IF i = 0 THEN << >> ELSE done[i - 1] \o passes[i - 1]
  IN  done[n]

ForEach(n, F(_)) == Joined(n, [i \in 0 .. n - 1 |-> F(i)])

AddTransactionAll(type, bank, row, col, note, fenced, n) ==
  ForEach(NUM_PIM_RANKS,
          LAMBDA r : [i \in 1 .. n |-> Call(type, r, bank, row, col + i - 1, note)])
    \o Fenced(fenced)

BanksPerGroup == NUM_BANKS \div NUM_BANK_GROUPS

(* One read of a reserved row in every bank, bank groups innermost.        *)
Park ==
  ForEach(NUM_PIM_RANKS, LAMBDA r :
    ForEach(BanksPerGroup, LAMBDA b :
      ForEach(NUM_BANK_GROUPS, LAMBDA g :
        << Call("DATA_READ", r, g * BanksPerGroup + b, 2 ^ 13, 0,
                In({"SB", "HAB"})) >>)))

ParkIn == << Barrier >> \o Park \o << Barrier >>

ParkOut == Park \o << Barrier >>

(* The writes that switch SB and HAB do it by opening and closing their    *)
(* row, before and after they are done.                                    *)
ChangePIMMode(current, next) ==
  CASE current = "SB" ->
         ForEach(4, LAMBDA i :
           AddTransactionAll("DATA_WRITE",
             << 0, 1, 2 * BanksPerGroup, 2 * BanksPerGroup + 1 >>[i + 1],
             PIM_ABMR_RA, MODE_COLUMN, In({"SB", "HAB"}), FALSE, 1))
           \o << Barrier >>
    [] current = "HAB" /\ next = "SB" ->
         AddTransactionAll("DATA_WRITE", 0, PIM_SBMR_RA, MODE_COLUMN,
                           In({"SB", "HAB"}), FALSE, 1)
           \o AddTransactionAll("DATA_WRITE", 1, PIM_SBMR_RA, MODE_COLUMN,
                                In({"SB", "HAB"}), TRUE, 1)
    [] current = "HAB" /\ next = "HAB_PIM" ->
         AddTransactionAll("DATA_WRITE", 0, PIM_REG_RA, 0,
           Carrying(<< "bst_hab_pim_" >>, "HAB"), TRUE, 1)
    [] current = "HAB_PIM" ->
         AddTransactionAll("DATA_WRITE", 0, PIM_REG_RA, 0,
           Carrying(<< "bst_hab_" >>, "HAB_PIM"), TRUE, 1)

ProgramCrf(cmds) ==
  ForEach((Len(cmds) + 7) \div 8, LAMBDA i :
    AddTransactionAll("DATA_WRITE", 1, PIM_REG_RA, 4 + i,
      Carrying(<< "crf_bst_", i >>, "HAB"), FALSE, 1))
    \o << Barrier >>

(* The buffers of a PIMKernel, as programCrf and setControl fill them:     *)
(* whole bursts with NOPs at the end; a shorter program leaves the bursts  *)
(* behind it alone, and executeGemv never sets bst_hab_.                   *)
FreshBuffers ==
  [ crf     |-> [i \in 0 .. 3 |-> [j \in 1 .. 8 |-> {}]],
    started |-> [op |-> FALSE, toggle |-> 0, zero |-> {}],
    stopped |-> [op |-> FALSE, toggle |-> 0, zero |-> {}] ]

Zeroed(job) == IF IsGemv(job) THEN {"GRF_B"} ELSE {}

BuffersAfter(buffers, job) ==
  LET cmds == Program(job)
      word(n) == toInt(IF n \in DOMAIN cmds THEN cmds[n] ELSE Nop(0))
  IN  [ crf     |-> [i \in 0 .. 3 |-> IF i * 8 < Len(cmds)
                                       THEN [j \in 1 .. 8 |-> word(i * 8 + j)]
                                       ELSE buffers.crf[i]],
        started |-> [op |-> TRUE, toggle |-> 0, zero |-> Zeroed(job)],
        stopped |-> IF IsGemv(job) THEN buffers.stopped
                    ELSE [op |-> FALSE, toggle |-> 0, zero |-> {}] ]

(* What a pointer points to, when the write is executed.                   *)
Contents(buffers, p) ==
  CASE p[1] = "crf_bst_"     -> buffers.crf[p[2]]
    [] p[1] = "bst_hab_pim_" -> buffers.started
    [] p[1] = "bst_hab_"     -> buffers.stopped
    [] OTHER                 -> p

-----------------------------------------------------------------------------
(* The kernels.                                                            *)

ComputeAddOrMul(job) ==
  ForEach(job.tiles, LAMBDA i : ForEach(2, LAMBDA b :
    AddTransactionAll("DATA_READ", b, INPUT0_ROW, NUM_GRF * i, Executing("FILL"),
                      TRUE, NUM_GRF)
    \o AddTransactionAll("DATA_READ", b, INPUT1_ROW, NUM_GRF * i,
                         Executing(job.kernel), TRUE, NUM_GRF)
    \o AddTransactionAll("DATA_WRITE", b, RESULT_ROW, NUM_GRF * i,
                         Executing("NOP"), TRUE, NUM_GRF)))

ComputeRelu(job) ==
  ForEach(job.tiles, LAMBDA i : ForEach(2, LAMBDA b :
    AddTransactionAll("DATA_READ", b, INPUT0_ROW, NUM_GRF * i, Executing("FILL"),
                      TRUE, NUM_GRF)
    \o AddTransactionAll("DATA_WRITE", b, RESULT_ROW, NUM_GRF * i,
                         Executing("NOP"), TRUE, NUM_GRF)))

ExecuteEltwise(job) ==
  ParkIn \o ChangePIMMode("SB", "HAB") \o ProgramCrf(Program(job))
    \o ChangePIMMode("HAB", "HAB_PIM")
    \o (IF job.kernel = "RELU" THEN ComputeRelu(job) ELSE ComputeAddOrMul(job))
    \o ChangePIMMode("HAB_PIM", "HAB") \o ChangePIMMode("HAB", "SB") \o ParkOut

(* One tile: the input vector goes to the registers of each rank, then the *)
(* weights are read.                                                       *)
ComputeGemv(job, input, output, batch, bank) ==
  ForEach(NUM_PIM_RANKS, LAMBDA r :
    [g \in 1 .. NUM_GRF |->
       Call("DATA_WRITE", r, 1, PIM_REG_RA, 7 + g,
            Carrying(<< "i_data", (batch * job.tiles + input) * NUM_GRF + g - 1 >>,
                     "HAB_PIM"))] \o << Barrier >>)
  \o ForEach(NUM_GRF, LAMBDA c :
       AddTransactionAll("DATA_READ", bank, 0,
         NUM_GRF * NUM_GRF * WeightTile(job, input, output) + c * NUM_GRF,
         Executing("MAC"), TRUE, NUM_GRF))

GemvPass(job, j, b) ==
  ForEach(EvenTiles(job), LAMBDA i : ComputeGemv(job, 2 * i, j, b, 0))
    \o ForEach(OddTiles(job), LAMBDA i : ComputeGemv(job, 2 * i + 1, j, b, 1))
    \o AddTransactionAll("DATA_WRITE", 1, 0, ResultCol(job, j, b), Executing("NOP"),
                         TRUE, NUM_GRF)

GemvTreePass(job, j, b) ==
  ForEach(job.tiles, LAMBDA i :
    ComputeGemv(job, i, j, b, i % 2)
    \o AddTransactionAll("DATA_WRITE", 1, 0, ResultCol(job, j, b) + i * NUM_GRF,
                         Executing("NOP"), TRUE, NUM_GRF)
    \o AddTransactionAll("DATA_READ", 0, ZERO_ROW, 0, Executing("MUL"), TRUE, NUM_GRF))

ClearZeroRow ==
  [i \in 1 .. NUM_BANKS * NUM_GRF |->
     Call("DATA_WRITE", 0, (i - 1) \div NUM_GRF, ZERO_ROW, (i - 1) % NUM_GRF,
          In({"SB"}))]

ExecuteGemv(job) ==
  (IF job.kernel = "GEMVTREE" THEN ClearZeroRow ELSE << >>)
    \o ParkIn \o ChangePIMMode("SB", "HAB") \o ProgramCrf(Program(job))
    \o ForEach(job.outputs, LAMBDA j : ForEach(job.batch, LAMBDA b :
         ChangePIMMode("HAB", "HAB_PIM")
         \o (IF job.kernel = "GEMVTREE" THEN GemvTreePass(job, j, b)
                                        ELSE GemvPass(job, j, b))
         \o ChangePIMMode("HAB_PIM", "HAB")))
    \o ChangePIMMode("HAB", "SB") \o ParkOut

Kernel(job) == IF IsGemv(job) THEN ExecuteGemv(job) ELSE ExecuteEltwise(job)

(* A call finds its rank in a mode it was meant for, its access executes   *)
(* an instruction of the type it was meant to (or none, if it was meant to *)
(* move data), and an instruction with an operand in a bank gets the side  *)
(* of the bank that was addressed, which readOpd and writeOpd warn about   *)
(* or exit on.                                                             *)
AsIntended(c, e) ==
  LET cmd == Executed(c.rank) IN
  /\ mode[c.rank] \in e.modes
  /\ IF IsPIMStep(c)
       THEN /\ cmd.type = e.step
            /\ "EVEN_BANK" \in {cmd.src0, cmd.src1} => c.bank % 2 = 0
            /\ "ODD_BANK" \in {cmd.src0, cmd.src1} => c.bank % 2 = 1
       ELSE e.step = "NONE"

=============================================================================
