----------------------------- MODULE MCPIMProgram -----------------------------
(* Every kernel with an even and an odd number of tiles, the program of a   *)
(* matrix-vector product started again for the next output tile and the     *)
(* next vector, and every kernel after a longer and a shorter one.          *)
EXTENDS PIMProgram

Job(kernel, tiles, outputs, batch) ==
  [kernel |-> kernel, tiles |-> tiles, outputs |-> outputs, batch |-> batch]

TheSessions ==
  { << Job("ADD", 1, 1, 1), Job("RELU", 2, 1, 1), Job("MUL", 3, 1, 1) >>,
    << Job("RELU", 1, 1, 1), Job("GEMV", 2, 2, 1), Job("ADD", 2, 1, 1) >>,
    << Job("GEMV", 3, 1, 1), Job("RELU", 3, 1, 1) >>,
    << Job("GEMVTREE", 2, 1, 1), Job("GEMV", 2, 1, 2) >>,
    << Job("GEMVTREE", 4, 1, 1) >>,
    << Job("GEMVTREE", 3, 1, 1), Job("GEMV", 3, 2, 1), Job("RELU", 1, 1, 1) >> }

(* The theorems of PIMProgramProofs are about these sessions too.           *)
ASSUME TheSessionsAreRegular ==
  RegularSizes /\ \A s \in TheSessions : \A i \in DOMAIN s : RegularJob(s[i])

OneTileGemv == { << Job("GEMV", 1, 1, 1) >> }

ReluThenTree == { << Job("RELU", 1, 1, 1), Job("GEMVTREE", 2, 1, 1) >> }

=============================================================================
