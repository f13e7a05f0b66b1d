------------------------- MODULE MCTransactionFlow -------------------------
(* TransactionFlow on three bursts.  AddrMapping sends every access to     *)
(* rank 0.                                                                 *)
EXTENDS TransactionFlow

MCAddresses == { [rank |-> 0, burst |-> b] : b \in 0 .. 2 }
=============================================================================
