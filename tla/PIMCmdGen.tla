------------------------------- MODULE PIMCmdGen -------------------------------
(***************************************************************************)
(* PIMCmdGen: the program that each kernel loads into the CRF, as a        *)
(* sequence of instructions.                                               *)
(* A job is [kernel, tiles, outputs, batch]: num_tile, or num_input_tiles, *)
(* num_output_tiles and num_batch.                                         *)
(***************************************************************************)
EXTENDS PIMCmd

CONSTANT
  NUM_GRF  \* registers per file, 8 in the code: the length of a repeat

ASSUME GrfAssumption == NUM_GRF \in Nat \ {0}

(* The constructors: NOP, JUMP, and with operands.                         *)
Nop(n) == [DefaultCmd EXCEPT !.loopCounter = n]

Jump(n, offset) ==
  [DefaultCmd EXCEPT !.type = "JUMP", !.loopCounter = n, !.loopOffset = offset]

Exit == [DefaultCmd EXCEPT !.type = "EXIT"]

Fill(dst, src0, relu) ==
  [DefaultCmd EXCEPT !.type = "FILL", !.dst = dst, !.src0 = src0, !.isAuto = relu,
                     !.isRelu = relu]

AutoCmd(type, dst, src0, src1) ==
  [DefaultCmd EXCEPT !.type = type, !.dst = dst, !.src0 = src0, !.src1 = src1,
                     !.isAuto = 1]

Mac(bank) == AutoCmd("MAC", "GRF_B", "GRF_A", bank)

LoopedOnceMore(cmds, n) ==  \* mutant: off by one
  cmds \o (IF n # 0 THEN << Jump(n + 1, Len(cmds) + 1) >> ELSE << >>) \o << Exit >>

Looped(cmds, n) ==
  cmds \o (IF n # 0 THEN << Jump(n, Len(cmds) + 1) >> ELSE << >>) \o << Exit >>

EltwisePIMKernel(type, n) ==
  Looped(<< Fill("GRF_A", "EVEN_BANK", 0), AutoCmd(type, "GRF_A", "GRF_A", "EVEN_BANK"),
            Nop(NUM_GRF - 1),
            Fill("GRF_B", "ODD_BANK", 0), AutoCmd(type, "GRF_B", "GRF_B", "ODD_BANK"),
            Nop(NUM_GRF - 1) >>, n)

ActPIMKernel(n) ==
  Looped(<< Fill("GRF_A", "EVEN_BANK", 1), Nop(NUM_GRF - 1),
            Fill("GRF_B", "ODD_BANK", 1), Nop(NUM_GRF - 1) >>, n)

GemvPIMKernel(odd, even) ==
  Looped(<< Mac("EVEN_BANK"), Jump(even, 2), Mac("ODD_BANK"), Jump(odd, 2),
            Nop(NUM_GRF - 1) >>, 0)

GemvTreePIMKernel(n) ==
  LET Half(bank) ==
        << Mac(bank), Jump(NUM_GRF - 1, 2), Nop(NUM_GRF - 1),
           AutoCmd("MUL", "GRF_B", "GRF_B", "EVEN_BANK") >>
  IN  Looped(Half("EVEN_BANK") \o Half("ODD_BANK"), n)

(* Rounded up and down.                                                    *)
EvenTiles(job) == (job.tiles + 1) \div 2
OddTiles(job)  == job.tiles \div 2

IsGemv(job) == job.kernel \in {"GEMV", "GEMVTREE"}

Program(job) ==
  CASE job.kernel \in {"ADD", "MUL"} -> EltwisePIMKernel(job.kernel, job.tiles - 1)
    [] job.kernel = "RELU" -> ActPIMKernel(job.tiles - 1)
    [] job.kernel = "GEMV" -> GemvPIMKernel(NUM_GRF * OddTiles(job) - 1,
                                            NUM_GRF * EvenTiles(job) - 1)
    [] job.kernel = "GEMVTREE" -> GemvTreePIMKernel(EvenTiles(job) - 1)

=============================================================================
