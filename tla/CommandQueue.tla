----------------------------- MODULE CommandQueue -----------------------------
(***************************************************************************)
(* The scheduler of a channel: one queue of column commands per rank (the  *)
(* PerRank structure, the only one pop() allows), from which pop() picks   *)
(* at most one DRAM command per cycle.  A refresh goes first, then a       *)
(* column command that is ready, then an ACTIVATE for a waiting command,   *)
(* then a PRECHARGE of a row no waiting command wants.                     *)
(*                                                                         *)
(* bankStates belongs to MemoryController and is shared by reference.      *)
(* tXAWCountdown and rowAccessCounters are read by isIssuable but nothing  *)
(* ever fills or increments them, so their tests are always true and are   *)
(* left out.                                                               *)
(***************************************************************************)
EXTENDS Rank

CONSTANTS
  CMD_QUEUE_DEPTH,
  SCHEDULING_POLICY  \* "RankThenBank" or "BankThenRank", for precharges

ASSUME CommandQueueAssumption ==
  /\ CMD_QUEUE_DEPTH \in Nat \ {0}
  /\ SCHEDULING_POLICY \in {"RankThenBank", "BankThenRank"}

VARIABLES
  bankStates,       \* the controller's view of every bank
  queues,           \* column commands (their transactions) per rank
  nextRank,         \* round robin over the ranks' queues
  nextPRE,          \* [rank, bank]: round robin over the banks to precharge
  refreshWaiting,   \* a refresh is owed ...
  refreshRank       \* ... to this rank

commandQueueVars == << queues, nextRank, nextPRE, refreshWaiting, refreshRank >>

CommandQueueInit ==
  /\ queues = [r \in Ranks |-> << >>]
  /\ nextRank = 0
  /\ nextPRE = [rank |-> 0, bank |-> 0]
  /\ refreshWaiting = FALSE
  /\ refreshRank = 0

HasRoomForOneMore(r) == Len(queues[r]) <= CMD_QUEUE_DEPTH  \* mutant

HasRoomFor(r) == Len(queues[r]) < CMD_QUEUE_DEPTH

(* A command is kept as its transaction.  enqueue exits when there is no   *)
(* room.                                                                   *)
Enqueue(t) ==
  /\ queues' = [queues EXCEPT ![t.addr.rank] = Append(@, t)]
  /\ fault' = IF HasRoomFor(t.addr.rank) THEN fault ELSE "enqueue"

NeedRefresh(r) == refreshWaiting' = TRUE /\ refreshRank' = r

-----------------------------------------------------------------------------
(* Commands, and CommandQueue::isIssuable for each type.                   *)

BankCommand(type, addr) ==
  [type |-> type, rank |-> addr.rank, bank |-> addr.bank,
   row |-> addr.row, col |-> addr.col]

Precharge(r, b) ==
  [type |-> "PRECHARGE", rank |-> r, bank |-> b,
   row |-> bankStates[r][b].row, col |-> 0]

Refresh(r) == [type |-> "REF", rank |-> r, bank |-> 0, row |-> 0, col |-> 0]

ColumnCommand(t) ==
  [type |-> IF t.type = "DATA_READ" THEN "READ" ELSE "WRITE",
   rank |-> t.addr.rank, bank |-> t.addr.bank, row |-> t.addr.row,
   col |-> t.addr.col, trans |-> t]

ColumnIssuable(t) ==
  LET b == bankStates[t.addr.rank][t.addr.bank] IN
  /\ b.state = "RowActive"
  /\ b.row = t.addr.row
  /\ (IF t.type = "DATA_READ" THEN b.nextRead ELSE b.nextWrite) = 0

ActivateIssuable(r, b) ==
  /\ mode[r] # "SB" => b < 2
  /\ bankStates[r][b].state \in {"Idle", "Refreshing"}
  /\ bankStates[r][b].nextActivate = 0

PrechargeIssuable(r, b) ==
  bankStates[r][b].state = "RowActive" /\ bankStates[r][b].nextPrecharge = 0

-----------------------------------------------------------------------------
(* process_refresh: close the open banks of the rank one by one, in the    *)
(* order of their numbers as they become closable, then refresh.           *)

OpenBanks(r) == {b \in Banks : bankStates[r][b].state = "RowActive"}

ClosableBanks(r) == {b \in OpenBanks(r) : PrechargeIssuable(r, b)}

RefreshFirst ==
  refreshWaiting /\ (OpenBanks(refreshRank) = {} \/ ClosableBanks(refreshRank) # {})

PopRefresh ==
  /\ refreshWaiting
  /\ OpenBanks(refreshRank) = {}
  /\ refreshWaiting' = FALSE
  /\ UNCHANGED << queues, nextRank, nextPRE, refreshRank >>

PopPrechargeForRefresh(b) ==
  /\ refreshWaiting
  /\ ClosableBanks(refreshRank) # {}
  /\ b = Min(ClosableBanks(refreshRank))
  /\ UNCHANGED commandQueueVars

-----------------------------------------------------------------------------
(* process_command.                                                        *)

NeverSameBurst(t, u) == FALSE  \* mutant

SameBurst(t, u) ==
  t.addr.bank = u.addr.bank /\ t.addr.row = u.addr.row /\ t.addr.col = u.addr.col

(* A column command may leave the queue past others unless it is a         *)
(* barrier, stands behind one, or follows an access to its own burst.      *)
ReadyColumns(r) ==
  {i \in 1 .. Len(queues[r]) :
     /\ ColumnIssuable(queues[r][i])
     /\ queues[r][i].bar => i = 1
     /\ \A j \in 1 .. i - 1 :
          ~queues[r][j].bar /\ ~SameBurst(queues[r][j], queues[r][i])}

(* A waiting command may have its row opened unless a barrier other than   *)
(* the front of the queue stands in between (or is itself one).            *)
ReadyRows(r) ==
  {i \in 1 .. Len(queues[r]) :
     LET a == queues[r][i].addr IN
     /\ \A j \in 2 .. i : ~queues[r][j].bar
     /\ bankStates[r][a.bank].state = "Idle"
     /\ ActivateIssuable(r, a.bank)}

HasCommand(r) == ReadyColumns(r) # {} \/ ReadyRows(r) # {}

(* The k-th rank after the round-robin cursor, and the first of them with  *)
(* something to do.                                                        *)
RankAt(k) == (nextRank + k) % NUM_RANKS

Turn(r) ==
  \E k \in 0 .. NUM_RANKS - 1 :
    /\ r = RankAt(k) /\ HasCommand(r)
    /\ \A j \in 0 .. k - 1 : ~HasCommand(RankAt(j))

NextColumn(r) == queues[r][Min(ReadyColumns(r))]

NextRow(r) == queues[r][Min(ReadyRows(r))].addr

PopColumn(r) ==
  /\ ~RefreshFirst
  /\ Turn(r)
  /\ ReadyColumns(r) # {}
  /\ queues' = [queues EXCEPT ![r] = RemoveAt(@, Min(ReadyColumns(r)))]
  /\ nextRank' = r
  /\ UNCHANGED << nextPRE, refreshWaiting, refreshRank >>

PopActivate(r) ==
  /\ ~RefreshFirst
  /\ Turn(r)
  /\ ReadyColumns(r) = {}
  /\ nextRank' = r
  /\ UNCHANGED << queues, nextPRE, refreshWaiting, refreshRank >>

-----------------------------------------------------------------------------
(* process_precharge: round robin over all banks.                          *)

Position(rank, bank) ==
  IF SCHEDULING_POLICY = "RankThenBank" THEN bank * NUM_RANKS + rank
                                        ELSE rank * NUM_BANKS + bank

Distance(rank, bank) ==
  (Position(rank, bank) - Position(nextPRE.rank, nextPRE.bank))
    % (NUM_RANKS * NUM_BANKS)

(* The open row still has a waiting command, up to the first barrier.      *)
AnyRowWanted(r, b) ==  \* mutant: which row is not compared
  \E i \in 1 .. Len(queues[r]) :
    /\ queues[r][i].addr.bank = b
    /\ \A j \in 1 .. i - 1 : ~queues[r][j].bar

RowWanted(r, b) ==
  \E i \in 1 .. Len(queues[r]) :
    /\ queues[r][i].addr.bank = b
    /\ bankStates[r][b].state = "RowActive"
    /\ queues[r][i].addr.row = bankStates[r][b].row
    /\ \A j \in 1 .. i - 1 : ~queues[r][j].bar

Unwanted ==
  {p \in [rank : Ranks, bank : Banks] :
     PrechargeIssuable(p.rank, p.bank) /\ ~RowWanted(p.rank, p.bank)}

PopPrecharge(p) ==
  /\ ~RefreshFirst
  /\ \A r \in Ranks : ~HasCommand(r)
  /\ p \in Unwanted
  /\ \A o \in Unwanted : Distance(p.rank, p.bank) <= Distance(o.rank, o.bank)
  /\ nextPRE' = p
  /\ UNCHANGED << queues, nextRank, refreshWaiting, refreshRank >>

(* Nothing can be issued: the cursors have gone once around.               *)
PopNothing ==
  /\ ~RefreshFirst
  /\ \A r \in Ranks : ~HasCommand(r)
  /\ Unwanted = {}
  /\ UNCHANGED commandQueueVars

=============================================================================
