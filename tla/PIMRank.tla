-------------------------------- MODULE PIMRank --------------------------------
(***************************************************************************)
(* The processing-in-memory side of a rank: the register row, the program  *)
(* (the CRF, 32 words written in four bursts) and the sequencer, which     *)
(* executes one instruction of it for every column access that toggles it. *)
(* In single-bank mode (SB) accesses go to the cells; in all-bank mode     *)
(* (HAB) writes to the register row load a program and start it            *)
(* (HAB_PIM); then an access to a cell executes an instruction.            *)
(*                                                                         *)
(* The contents of cells and vector registers are those of PIMData.  What  *)
(* a write to the register row carries is given by WriteData, by the       *)
(* number of the transaction: a control word [op, toggle, zero], or eight  *)
(* words.                                                                  *)
(***************************************************************************)
EXTENDS DramTiming, PIMCmdGen

CONSTANT
  WriteData(_)  \* what a write to the register row carries, by transaction

VARIABLES
  mode,       \* mode_ of each rank
  crf,        \* crf.data of each rank, decoded
  control,    \* pimOpMode_ and the toggle conditions
  pim         \* the sequencer

pimVars == << mode, crf, control, pim >>

(* Rows with bit 13 set are registers, not cells.                          *)
PIM_REG_RA  == 16383
PIM_ABMR_RA == 10239
PIM_SBMR_RA == 12287
MODE_COLUMN == 31

IsReservedRA(row) == (row \div 2 ^ 13) % 2 = 1

CRF_WORDS == 32

ProgramStart == [ pc |-> 0, lastJump |-> -1, jumps |-> -1,
                  lastRepeat |-> -1, repeats |-> -1, exit |-> FALSE ]

(* The constructor does not set pimOpMode_ and the toggles; they are read  *)
(* in HAB_PIM only, and controlPIM, which enters it, sets them.            *)
PIMInit ==
  /\ mode = [r \in Ranks |-> "SB"]
  /\ crf = [r \in Ranks |-> [i \in 0 .. CRF_WORDS - 1 |-> DefaultCmd]]
  /\ control = [r \in Ranks |-> [op |-> FALSE, toggle |-> 0, zero |-> {}]]
  /\ pim = [r \in Ranks |-> ProgramStart]

-----------------------------------------------------------------------------
(* doPIM: the sequencer.                                                   *)

(* One register pair remembers the jump that is being counted.             *)
Jumped(s, cmd) ==
  LET armed == IF s.lastJump # s.pc /\ cmd.loopCounter > 0
                 THEN [s EXCEPT !.lastJump = s.pc, !.jumps = cmd.loopCounter] ELSE s
  IN  IF armed.jumps > 0
        THEN [armed EXCEPT !.pc = @ - cmd.loopOffset, !.jumps = @ - 1] ELSE armed

(* Another one the instruction that repeats itself.                        *)
RepeatedOnceMore(s, times) ==  \* mutant: off by one
  LET armed == IF s.lastRepeat # s.pc
                 THEN [s EXCEPT !.lastRepeat = s.pc, !.repeats = times + 1] ELSE s
  IN  IF armed.repeats > 0
        THEN [armed EXCEPT !.pc = @ - 1, !.repeats = @ - 1]
        ELSE [armed EXCEPT !.lastRepeat = -1]

Repeated(s, times) ==
  LET armed == IF s.lastRepeat # s.pc
                 THEN [s EXCEPT !.lastRepeat = s.pc, !.repeats = times] ELSE s
  IN  IF armed.repeats > 0
        THEN [armed EXCEPT !.pc = @ - 1, !.repeats = @ - 1]
        ELSE [armed EXCEPT !.lastRepeat = -1]

(* One turn of the loop: the sequencer after it.                           *)
Turned(code, s) ==
  LET cmd   == code[s.pc]
      after ==
        CASE cmd.type = "JUMP"                          -> Jumped(s, cmd)
          [] cmd.type # "JUMP" /\ (cmd.type = "FILL" \/ cmd.isAuto = 1) ->
               Repeated(s, NUM_GRF - 1)
          [] cmd.type = "NOP"                           -> Repeated(s, cmd.loopCounter)
          [] OTHER                                      -> s
      next == after.pc + 1
  IN  IF cmd.type = "EXIT"
        THEN [s EXCEPT !.exit = TRUE]
        ELSE [after EXCEPT !.pc = next,
                           !.exit = @ \/ code[next].type = "EXIT"]

(* Jumps take no access of their own: the loop goes on until another       *)
(* instruction has been executed.  No program of the kernels has more than *)
(* three of them in a row.                                                 *)
PastJump(code, s) == IF code[s.pc].type = "JUMP" THEN Turned(code, s) ELSE s

Turns(r) == PastJump(crf[r], PastJump(crf[r], PastJump(crf[r], pim[r])))

(* The instruction that an access executes now, and the sequencer after it.*)
Executed(r) == crf[r][Turns(r).pc]

DoPIM(r) == Turned(crf[r], Turns(r))

-----------------------------------------------------------------------------
(* Column commands, as seen by the sequencer.                              *)

Toggles(r, c) ==
  LET t == control[r].toggle IN
  /\ control[r].op /\ ~pim[r].exit
  /\ (t \div 4) % 2 = 1 \/ ~IsReservedRA(c.row)
  /\ IF c.bank % 2 = 0 THEN t % 2 = 0 ELSE (t \div 2) % 2 = 0

IsPIMStep(c) == mode[c.rank] = "HAB_PIM" /\ Toggles(c.rank, c)

ExecutePIM(c) ==
  /\ IsPIMStep(c)
  /\ pim' = [pim EXCEPT ![c.rank] = DoPIM(c.rank)]
  /\ UNCHANGED << mode, crf, control >>

IsRegisterWrite(c) ==
  /\ mode[c.rank] # "SB" /\ ~IsPIMStep(c)
  /\ c.type = "WRITE" /\ c.row = PIM_REG_RA

(* A control word starts or stops the sequencer; starting it resets it.    *)
NeverStopped(word) == "HAB_PIM"  \* mutant

ModeAfter(word) == IF word.op THEN "HAB_PIM" ELSE "HAB"

Restarted(s, word) == IF word.op THEN ProgramStart ELSE s

ControlPIM(c) ==
  /\ IsRegisterWrite(c) /\ c.col = 0
  /\ LET word == WriteData(c.trans.id) IN
     /\ control' = [control EXCEPT ![c.rank] = word]
     /\ mode' = [mode EXCEPT ![c.rank] = ModeAfter(word)]
     /\ pim' = [pim EXCEPT ![c.rank] = Restarted(@, word)]
  /\ UNCHANGED crf

(* A word is decoded when it is written instead of each time it is fetched.*)
(* doPIM decodes into one PIMCmd again and again, which keeps nothing that *)
(* is used: only jumps come before another instruction.                    *)
WriteCrf(c) ==
  /\ IsRegisterWrite(c) /\ c.col \in 4 .. 7
  /\ LET words == WriteData(c.trans.id) IN
     crf' = [crf EXCEPT ![c.rank] = [i \in DOMAIN @ |->
               IF i \div 8 = c.col - 4 THEN fromInt(DefaultCmd, words[(i % 8) + 1])
                                        ELSE @[i]]]
  /\ UNCHANGED << mode, control, pim >>

(* Everything else moves data only.                                        *)
MoveData(c) ==
  /\ ~IsPIMStep(c)
  /\ IsRegisterWrite(c) => c.col \notin {0} \cup 4 .. 7
  /\ UNCHANGED pimVars

AccessColumn(c) == ExecutePIM(c) \/ ControlPIM(c) \/ WriteCrf(c) \/ MoveData(c)

PIMTypeOK ==
  /\ mode \in [Ranks -> {"SB", "HAB", "HAB_PIM"}]
  /\ \A r \in Ranks :
       /\ DOMAIN crf[r] = 0 .. CRF_WORDS - 1
       /\ control[r].op \in BOOLEAN /\ control[r].toggle \in 0 .. 7
       /\ pim[r].pc \in 0 .. CRF_WORDS - 1
       /\ pim[r].exit \in BOOLEAN
       /\ mode[r] = "HAB_PIM" <=> control[r].op

=============================================================================
