-------------------------------- MODULE PIMCmd --------------------------------
(***************************************************************************)
(* An instruction of a PIM block, and the 32-bit word of the CRF that      *)
(* encodes it.  A word is the set of the positions of its one-bits.        *)
(***************************************************************************)
EXTENDS Integers, Sequences

LOCAL INSTANCE TLC

PIMCmdType ==
  << "NOP", "ADD", "MUL", "MAC", "MAD", "REV0", "REV1", "REV2", "MOV", "FILL",
     "REV3", "REV4", "REV5", "REV6", "JUMP", "EXIT" >>

PIMOpdType ==
  << "A_OUT", "M_OUT", "EVEN_BANK", "ODD_BANK", "GRF_A", "GRF_B", "SRF_M", "SRF_A" >>

(* The default constructor.  isRelu_, which it does not set, is decoded    *)
(* before it is used.                                                      *)
DefaultCmd ==
  [ type |-> "NOP", dst |-> "A_OUT", src0 |-> "A_OUT", src1 |-> "A_OUT",
    src2 |-> "A_OUT", loopCounter |-> 0, loopOffset |-> 0, isAuto |-> 0,
    dstIdx |-> 0, src0Idx |-> 0, src1Idx |-> 0, isRelu |-> 0 ]

(* The low bits of a number, moved up; negative numbers are in two's       *)
(* complement, as \div and % are.                                          *)
toBit(val, len, pos) ==
  {pos + i : i \in {i \in 0 .. len - 1 : (val \div 2 ^ i) % 2 = 1}}

fromBit(word, len, pos) ==
  LET low[n \in 0 .. len] ==
        IF n = 0 THEN 0
        ELSE low[n - 1] + (IF pos + n - 1 \in word THEN 2 ^ (n - 1) ELSE 0)
  IN  low[len]

-----------------------------------------------------------------------------
(* Where the fields of a type are, << length, position >>: toInt ...       *)

EncodedFields(type) ==
  LET common ==
        [ dst |-> << 3, 25 >>, src0 |-> << 3, 22 >>, src1 |-> << 3, 19 >>,
          isAuto |-> << 1, 15 >>, dstIdx |-> << 4, 8 >>, src0Idx |-> << 4, 4 >>,
          src1Idx |-> << 4, 0 >> ]
  IN
  CASE type = "NOP"  -> [loopCounter |-> << 11, 0 >>]
    [] type = "JUMP" -> [loopCounter |-> << 17, 11 >>, loopOffset |-> << 11, 0 >>]
    [] type \in {"FILL", "MOV"} ->
         [ dst |-> << 3, 25 >>, src0 |-> << 3, 22 >>, dstIdx |-> << 4, 8 >>,
           src0Idx |-> << 4, 4 >>, src1Idx |-> << 4, 0 >>, isRelu |-> << 1, 12 >> ]
    [] type \in {"ADD", "MUL", "MAC"} -> common
    [] type = "MAD" -> [src2 |-> << 3, 16 >>] @@ common
    [] OTHER -> << >>

(* ... and fromInt.                                                        *)
DecodedFields(type) ==
  LET common ==
        [ dst |-> << 3, 25 >>, src0 |-> << 3, 22 >>, src1 |-> << 3, 19 >>,
          isAuto |-> << 1, 15 >>, dstIdx |-> << 4, 8 >>, src0Idx |-> << 4, 4 >>,
          src1Idx |-> << 4, 0 >> ]
  IN
  CASE type = "NOP"  -> [loopCounter |-> << 11, 0 >>]
    [] type = "JUMP" -> [loopCounter |-> << 17, 11 >>, loopOffset |-> << 11, 0 >>]
    [] type \in {"FILL", "MOV"} ->
         [ dst |-> << 3, 25 >>, src0 |-> << 3, 22 >>, isRelu |-> << 1, 12 >>,
           dstIdx |-> << 4, 8 >>, src0Idx |-> << 4, 4 >>, src1Idx |-> << 4, 0 >> ]
    [] type \in {"ADD", "MUL", "MAC"} -> common
    [] type = "MAD" -> [src2 |-> << 3, 16 >>] @@ common
    [] OTHER -> << >>

-----------------------------------------------------------------------------
(* Enumerators count from 0.                                               *)
Code(names, name) == (CHOOSE i \in DOMAIN names : names[i] = name) - 1

IsOperand(field) == field \in {"dst", "src0", "src1", "src2"}

toInt(cmd) ==
  LET at == EncodedFields(cmd.type)
      value(f) == IF IsOperand(f) THEN Code(PIMOpdType, cmd[f]) ELSE cmd[f]
  IN  toBit(Code(PIMCmdType, cmd.type), 4, 28)
        \cup UNION {toBit(value(f), at[f][1], at[f][2]) : f \in DOMAIN at}

(* The fields that the type does not have keep what they had.              *)
fromInt(cmd, word) ==
  LET type == PIMCmdType[fromBit(word, 4, 28) + 1]
      at   == DecodedFields(type)
      value(f) == LET n == fromBit(word, at[f][1], at[f][2]) IN
                  IF IsOperand(f) THEN PIMOpdType[n + 1] ELSE n
  IN  [f \in DOMAIN cmd |-> IF f = "type" THEN type
                            ELSE IF f \in DOMAIN at THEN value(f) ELSE cmd[f]]

=============================================================================
