------------------------------ MODULE MCPIMSystem ------------------------------
EXTENDS PIMSystem

Relu == [kernel |-> "RELU", tiles |-> 1, outputs |-> 1, batch |-> 1]
Add  == [kernel |-> "ADD", tiles |-> 1, outputs |-> 1, batch |-> 1]
Gemv == [kernel |-> "GEMV", tiles |-> 2, outputs |-> 1, batch |-> 1]

KernelAddresses == {e.addr : e \in {Added[i] : i \in DOMAIN Added}}

=============================================================================
