--------------------------- MODULE MCMemorySystem ---------------------------
(* MemorySystem on two banks: two columns of one row, a second row of the  *)
(* same bank, and another bank.  AddrMapping sends every access to rank 0. *)
EXTENDS MemorySystem

(* No transaction goes to a register row. *)
NoData(id) == << >>

A(rank, bank, row, col) == [rank |-> rank, bank |-> bank, row |-> row, col |-> col]

OneRank == { A(0, 0, 0, 0), A(0, 0, 0, 1), A(0, 0, 1, 0), A(0, 1, 0, 0) }

=============================================================================
