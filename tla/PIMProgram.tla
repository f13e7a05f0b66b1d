------------------------------ MODULE PIMProgram ------------------------------
(***************************************************************************)
(* Kernels and the rank they run on, without the channel between them.     *)
(* What the channel promises is that accesses on two sides of a barrier    *)
(* arrive in the order in which they were added (BarrierOrder of           *)
(* TransactionFlow); those between two barriers arrive in any order.       *)
(* The sequencer is told nothing but that an access has come, so the       *)
(* program must fit the accesses: the counts of its loops, the repeats of  *)
(* its instructions and the place of every barrier.                        *)
(*                                                                         *)
(* A session is a sequence of kernels that one PIMKernel runs, one after   *)
(* the other; its buffers are the same for all of them.                    *)
(***************************************************************************)
EXTENDS PIMData

CONSTANT Sessions

Jobs == UNION {{s[i] : i \in 1 .. Len(s)} : s \in Sessions}

ASSUME SessionsAssumption ==
  /\ \A s \in Sessions : s \in Seq(Jobs) /\ s # << >>
  /\ \A j \in Jobs :
       /\ j.kernel \in {"ADD", "MUL", "RELU", "GEMV", "GEMVTREE"}
       /\ j.tiles \in Nat \ {0} /\ j.outputs \in Nat \ {0} /\ j.batch \in Nat \ {0}

VARIABLES
  session, \* the kernels to run
  added,   \* how many of them have been added to the channel
  buffers, \* crf_bst_, bst_hab_pim_ and bst_hab_
  barrier, \* the place of the next barrier among the calls of those added
  todo     \* the calls before it that have not arrived yet, by place

programVars == << pimVars, dataVars, session, added, buffers, barrier, todo >>

CallsOf == [j \in Jobs |-> Kernel(j)]

(* The calls of the first n kernels of a session.                          *)
SessionCalls ==
  [s \in Sessions |-> [n \in 0 .. Len(s) |-> ForEach(n, LAMBDA i : CallsOf[s[i + 1]])]]

Calls == SessionCalls[session][added]

(* The accesses that arrive in all-bank mode: without the parking and the  *)
(* writes that switch SB and HAB.                                          *)
InAllBankMode(e) == "SB" \notin e.modes

NextBarrier(after) ==
  CHOOSE i \in after + 1 .. Len(Calls) :
    /\ Calls[i] = Barrier
    /\ \A k \in after + 1 .. i - 1 : Calls[k] # Barrier

(* The rank has been switched to HAB.                                      *)
ProgramInit ==
  /\ mode = [r \in Ranks |-> "HAB"]
  /\ crf = [r \in Ranks |-> [i \in 0 .. CRF_WORDS - 1 |-> DefaultCmd]]
  /\ control = [r \in Ranks |-> [op |-> FALSE, toggle |-> 0, zero |-> {}]]
  /\ pim = [r \in Ranks |-> ProgramStart]
  /\ session \in Sessions
  /\ DataInit(session[1])
  /\ added = 0 /\ barrier = 0 /\ todo = << >>
  /\ buffers = FreshBuffers

NothingPending == todo = << >> /\ barrier = Len(Calls)

NoWait == TRUE  \* mutant: the client adds a kernel without running the last

(* The clients call runPIM before they build the next kernel.              *)
ClientMayAdd == NothingPending

AddKernel ==
  /\ added < Len(session) /\ ClientMayAdd
  /\ LET job == session[added + 1] IN
     /\ buffers' = BuffersAfter(buffers, job)
     /\ HostStores(job)
  /\ added' = added + 1
  /\ UNCHANGED << pimVars, session, barrier, todo >>

(* The column command that a call becomes.  Where the id of a transaction  *)
(* is what it carries, WriteData has nothing to look up.                   *)
CommandOf(e) ==
  [ type |-> IF e.type = "DATA_READ" THEN "READ" ELSE "WRITE",
    rank |-> e.addr.rank, bank |-> e.addr.bank, row |-> e.addr.row,
    col |-> e.addr.col, trans |-> [id |-> Contents(buffers, e.data)] ]

Carried(id) == id

Arrive(i) ==
  /\ AccessColumn(CommandOf(todo[i]))
  /\ AccessData(CommandOf(todo[i]))
  /\ todo' = [k \in DOMAIN todo \ {i} |-> todo[k]]
  /\ UNCHANGED << session, added, buffers, barrier >>

PassBarrier ==
  /\ todo = << >>
  /\ barrier < Len(Calls)
  /\ barrier' = NextBarrier(barrier)
  /\ todo' = [i \in {i \in barrier + 1 .. barrier' - 1 : InAllBankMode(Calls[i])} |->
                Calls[i]]
  /\ UNCHANGED << pimVars, dataVars, session, added, buffers >>

ProgramNext == AddKernel \/ (\E i \in DOMAIN todo : Arrive(i)) \/ PassBarrier

ProgramSpec == ProgramInit /\ [][ProgramNext]_programVars

-----------------------------------------------------------------------------

(* Types; in particular the program counter stays inside the CRF, which    *)
(* doPIM does not check, and the mode agrees with the control word.        *)
ProgramTypeOK ==
  /\ PIMTypeOK
  /\ added \in 0 .. Len(session)
  /\ barrier \in 0 .. Len(Calls)
  /\ DOMAIN todo \subseteq 1 .. barrier - 1

(* Whichever of the outstanding accesses comes next does what the kernel   *)
(* meant it to do: the program is in step with the accesses.               *)
StepAsIntended == \A i \in DOMAIN todo : AsIntended(CommandOf(todo[i]), todo[i])

(* When a kernel stops the sequencer, the program has come to its EXIT:    *)
(* the next access would find nothing else.  A program that was not used   *)
(* up would have left the last results in the registers.  The GEMVTREE     *)
(* program is written for two tiles.                                       *)
Stops(c) == IsRegisterWrite(c) /\ c.col = 0 /\ mode[c.rank] = "HAB_PIM"

ProgramUsedUp ==
  (added > 0 /\ session[added].kernel = "GEMVTREE" => session[added].tiles = 2) =>
  \A i \in DOMAIN todo :
    LET c == CommandOf(todo[i]) IN Stops(c) => Executed(c.rank).type = "EXIT"

(* The cells that readResult and readData read back, each with the value   *)
(* it is to hold: sums, products or positive parts of the operands, and a  *)
(* product of a matrix with one vector of the batch, for GEMVTREE the      *)
(* share of each input tile, which adderTree sums up.                      *)
Weighted(job, y, b, inputs) ==
  LET term(x) == Times(Stored(<< "w_data", y, x >>),
                       Stored(<< "i_data", b * job.tiles * NUM_GRF + x >>))
      sum[n \in 0 .. Len(inputs)] ==
        IF n = 0 THEN Zero ELSE Plus(sum[n - 1], term(inputs[n]))
  IN  sum[Len(inputs)]

From(first, n) == [i \in 1 .. n |-> first + i - 1]

EltwiseResult(job) ==
  LET in(row, side, n) == Stored(<< "input", row, << side, n >> >>)
      f(side, n) == CASE job.kernel = "ADD"  -> Plus(in(INPUT0_ROW, side, n),
                                                     in(INPUT1_ROW, side, n))
                      [] job.kernel = "MUL"  -> Times(in(INPUT0_ROW, side, n),
                                                      in(INPUT1_ROW, side, n))
                      [] job.kernel = "RELU" -> Relu(in(INPUT0_ROW, side, n))
  IN  {<< CellAt(side, RESULT_ROW, n), f(side, n) >> :
         side \in 0 .. 1, n \in 0 .. NUM_GRF * job.tiles - 1}

(* readResult reads a block's results of the first output tile, then those *)
(* of the next, and so on for every vector of the batch.                   *)
GemvResult(job) ==
  {<< CellAt(1, 0, ResultColGemv(job) + b * job.outputs * NUM_GRF + y),
      Weighted(job, y, b, From(0, job.tiles * NUM_GRF)) >> :
     y \in 0 .. job.outputs * NUM_GRF - 1, b \in 0 .. job.batch - 1}

GemvTreeResult(job) ==
  {<< CellAt(1, 0, ResultColGemv(job) + i * NUM_GRF + y),
      Weighted(job, y, 0, From(i * NUM_GRF, NUM_GRF)) >> :
     y \in 0 .. NUM_GRF - 1, i \in 0 .. job.tiles - 1}

Results ==
  [j \in Jobs |-> CASE j.kernel = "GEMV"     -> GemvResult(j)
                    [] j.kernel = "GEMVTREE" -> GemvTreeResult(j)
                    [] OTHER                 -> EltwiseResult(j)]

(* A kernel leaves the product or sum it is called for in every cell that  *)
(* the client reads back, for any order of the accesses between barriers.  *)
ResultCorrect ==
  NothingPending /\ added > 0 =>
    \A q \in Results[session[added]] :
      \A r \in 0 .. NUM_PIM_RANKS - 1 : q[1] \in DOMAIN cells[r] /\ cells[r][q[1]] = q[2]

(* The same for the kernels that the clients run: several output tiles     *)
(* only with an even number of input tiles and a batch of 1, and GEMVTREE  *)
(* only as the first kernel, with an even number of input tiles and one    *)
(* output tile.                                                            *)
Supported(job) ==
  /\ job.outputs > 1 => job.tiles % 2 = 0 /\ job.batch = 1
  /\ job.kernel = "GEMVTREE" =>
       added = 1 /\ job.tiles % 2 = 0 /\ job.outputs = 1 /\ job.batch = 1

SupportedResultCorrect ==
  (added > 0 => Supported(session[added])) => ResultCorrect

-----------------------------------------------------------------------------
(* What the theorems of PIMProgramProofs ask of the kernels: no loop count *)
(* is cut off by the width of its field, the rows of the cells do not run  *)
(* into those of the registers, and a matrix has two tiles at least.       *)

CanLoop(n) == n \in 0 .. 2 ^ 17 - 1

InCells(row, col) ==
  \A k \in 1 .. NUM_GRF : ~IsReservedRA(row + (col + k - 1) \div NUM_COLS_PER_BL)

RegularSizes == NUM_GRF <= 2 ^ 11 /\ NUM_COLS_PER_BL > 5

RegularEltwise(job) ==
  /\ CanLoop(job.tiles - 1)
  /\ \A i \in 0 .. job.tiles - 1 :
       /\ InCells(INPUT0_ROW, NUM_GRF * i) /\ InCells(INPUT1_ROW, NUM_GRF * i)
       /\ InCells(RESULT_ROW, NUM_GRF * i)

WeightCol(job, input, output) == NUM_GRF * NUM_GRF * WeightTile(job, input, output)

InWeights(job, input, output) ==
  /\ WeightCol(job, input, output) \in Nat
  /\ \A m \in 0 .. NUM_GRF - 1 : InCells(0, WeightCol(job, input, output) + m * NUM_GRF)

InResults(job, output, batch) ==
  /\ ResultCol(job, output, batch) \in Nat
  /\ InCells(0, ResultCol(job, output, batch))

RegularGemv(job) ==
  /\ job.tiles >= 2 /\ NUM_GRF >= 2 /\ NUM_GRF + 7 < NUM_COLS_PER_BL
  /\ CanLoop(NUM_GRF * EvenTiles(job) - 1) /\ CanLoop(NUM_GRF * OddTiles(job) - 1)
  /\ \A j \in 0 .. job.outputs - 1 :
       /\ \A i \in 0 .. job.tiles - 1 : InWeights(job, i, j)
       /\ \A b \in 0 .. job.batch - 1 : InResults(job, j, b)

InTreeResults(job, output, batch, i) ==
  /\ ResultCol(job, output, batch) + i * NUM_GRF \in Int
  /\ InCells(0, ResultCol(job, output, batch) + i * NUM_GRF)

RegularTree(job) ==
  /\ NUM_GRF >= 2 /\ NUM_GRF + 7 < NUM_COLS_PER_BL
  /\ CanLoop(EvenTiles(job) - 1)
  /\ InCells(ZERO_ROW, 0)
  /\ \A j \in 0 .. job.outputs - 1 : \A i \in 0 .. job.tiles - 1 :
       /\ InWeights(job, i, j)
       /\ \A b \in 0 .. job.batch - 1 : InTreeResults(job, j, b, i)

RegularMatrix(job) ==
  IF job.kernel = "GEMVTREE" THEN RegularTree(job) ELSE RegularGemv(job)

RegularJob(job) == IF IsGemv(job) THEN RegularMatrix(job) ELSE RegularEltwise(job)

=============================================================================
