--------------------------- MODULE MemoryController ---------------------------
(***************************************************************************)
(* The memory controller of a channel: the transaction queue, the          *)
(* controller's own timing state of every bank, the command and write data *)
(* buses, the refresh timers and the matching of returned read data with   *)
(* the transactions that wait for it.                                      *)
(*                                                                         *)
(* MemoryController::update() does its work in a fixed order; each step of *)
(* it is an action here, which MemorySystem puts in sequence.              *)
(***************************************************************************)
EXTENDS CommandQueue

CONSTANT TRANS_QUEUE_DEPTH

ASSUME ControllerAssumption == TRANS_QUEUE_DEPTH \in Nat \ {0}

VARIABLES
  transactionQueue,
  pendingReadTransactions, \* reads that became commands, in that order
  returnTransaction,       \* read data that arrived and is not yet returned
  outgoingCmd,             \* outgoingCmdPacket with cmdCyclesLeft, or << >>
  outgoingData,            \* outgoingDataPacket with dataCyclesLeft, or << >>
  writeData,               \* writeDataToSend with writeDataCountdown
  refreshCountdown,        \* cycles until each rank is due
  nextRefresh              \* MemoryController::refreshRank: whose turn it is

controllerVars == << bankStates, transactionQueue, pendingReadTransactions,
                     returnTransaction, outgoingCmd, outgoingData, writeData,
                     refreshCountdown, nextRefresh >>

IdleBank == [ state |-> "Idle", row |-> 0, countdown |-> 0, nextRead |-> 0,
              nextWrite |-> 0, nextPrecharge |-> 0, nextActivate |-> 0 ]

(* The refreshes of the ranks are staggered.                               *)
FirstRefreshTogether(r) == tREFI  \* mutant

FirstRefreshAdjacent(r) == tREFI + r  \* mutant

FirstRefresh(r) == (tREFI \div NUM_RANKS) * (r + 1)

ControllerInit ==
  /\ CommandQueueInit
  /\ bankStates = [r \in Ranks |-> [b \in Banks |-> IdleBank]]
  /\ transactionQueue = << >>
  /\ pendingReadTransactions = << >>
  /\ returnTransaction = << >>
  /\ outgoingCmd = << >>
  /\ outgoingData = << >>
  /\ writeData = << >>
  /\ refreshCountdown = [r \in Ranks |-> FirstRefresh(r)]
  /\ nextRefresh = 0

WillAcceptTransaction == Len(transactionQueue) < TRANS_QUEUE_DEPTH

-----------------------------------------------------------------------------
(* updateBankState, and the two buses.                                     *)

(* lastCommand is PRECHARGE or REF whenever a countdown runs.              *)
CountBankEarly(b) ==  \* mutant: off by one
  [b EXCEPT !.countdown = Tick(@), !.state = IF b.countdown = 2 THEN "Idle" ELSE @]

CountBank(b) ==
  [b EXCEPT !.countdown = Tick(@), !.state = IF b.countdown = 1 THEN "Idle" ELSE @]

UpdateBankState ==
  bankStates' = [r \in Ranks |-> [b \in Banks |-> CountBank(bankStates[r][b])]]

CommandArrivesLate ==  \* mutant: tested before it is decremented
  outgoingCmd # << >> /\ Head(outgoingCmd).cyclesLeft = 0

CommandArrives == outgoingCmd # << >> /\ Head(outgoingCmd).cyclesLeft = 1

CommandTravels ==
  outgoingCmd' =
    IF outgoingCmd = << >> \/ CommandArrives THEN << >>
    ELSE << [Head(outgoingCmd) EXCEPT !.cyclesLeft = @ - 1] >>

(* The write burst on the data bus ends: WriteDataDone is called.          *)
WriteEnds == outgoingData # << >> /\ Head(outgoingData).cyclesLeft = 1

(* The data of the oldest WRITE is due, WL cycles after its command.       *)
WriteStarts == writeData # << >> /\ Head(writeData).countdown = 1

DataBusCollision == WriteStarts /\ outgoingData # << >> /\ ~WriteEnds

WriteDataMoves ==
  /\ writeData' = LET later == CountReturns(writeData) IN
                  IF WriteStarts THEN Tail(later) ELSE later
  /\ outgoingData' =
       IF WriteStarts
         THEN << [trans |-> Head(writeData).trans, cyclesLeft |-> BurstCycles] >>
       ELSE IF outgoingData = << >> \/ WriteEnds THEN << >>
       ELSE << [Head(outgoingData) EXCEPT !.cyclesLeft = @ - 1] >>

(* The command reaches its rank, which stops the program if it disagrees;  *)
(* then the data bus moves, and a second burst on it stops the program.    *)
DriveBuses ==
  /\ UpdateBankState
  /\ CommandTravels
  /\ WriteDataMoves
  /\ fault' = CASE CommandArrives /\ Refuses(Head(outgoingCmd).cmd) -> "check"
                [] OTHER -> IF DataBusCollision THEN "databus" ELSE fault
  /\ \/ /\ CommandArrives
        /\ ReceiveCommand(Head(outgoingCmd).cmd)
     \/ /\ ~CommandArrives
        /\ UNCHANGED << modeVars, rankBanks, rankRefreshWaiting, readReturn >>
  /\ UNCHANGED << commandQueueVars, transactionQueue, pendingReadTransactions,
                  returnTransaction, refreshCountdown, nextRefresh, rankData >>

-----------------------------------------------------------------------------
(* updateRefresh.                                                          *)

(* The rank whose turn it is becomes due.  needRefresh() has one slot.     *)
UpdateRefresh ==
  /\ IF refreshCountdown[nextRefresh] = 0
       THEN /\ NeedRefresh(nextRefresh)
            /\ rankRefreshWaiting' = [rankRefreshWaiting EXCEPT ![nextRefresh] = TRUE]
            /\ refreshCountdown' = [refreshCountdown EXCEPT ![nextRefresh] = tREFI]
            /\ nextRefresh' = (nextRefresh + 1) % NUM_RANKS
       ELSE UNCHANGED << refreshWaiting, refreshRank, rankRefreshWaiting,
                         refreshCountdown, nextRefresh >>
  /\ UNCHANGED << queues, nextRank, nextPRE, bankStates, transactionQueue,
                  pendingReadTransactions, returnTransaction, outgoingCmd,
                  outgoingData, writeData, modeVars, rankBanks,
                  readReturn, rankData, fault >>

-----------------------------------------------------------------------------
(* updateCommandQueue: the command that was popped.                        *)

(* setBankStatesRW.                                                        *)
ReadWriteSwapped(b, read, write) ==  \* mutant
  [b EXCEPT !.nextRead = Postpone(@, write), !.nextWrite = Postpone(@, read)]

ReadWriteAfter(b, read, write) ==
  [b EXCEPT !.nextRead = Postpone(@, read), !.nextWrite = Postpone(@, write)]

(* Banks of other ranks notice a READ or WRITE only if a row is open in    *)
(* them.                                                                   *)
OtherRankAfter(bank, type) ==
  CASE bank.state # "RowActive" -> bank
    [] bank.state = "RowActive" /\ type = "READ" ->
         ReadWriteAfter(bank, BurstCycles + tRTRS, READ_TO_WRITE_DELAY)
    [] bank.state = "RowActive" /\ type = "WRITE" ->
         ReadWriteAfter(bank, WRITE_TO_READ_DELAY_R, BurstCycles + tRTRS)

SameRankAfter(bank, type, sameGroup) ==
  IF type = "READ"
    THEN ReadWriteAfter(bank, ColumnDelay(sameGroup), READ_TO_WRITE_DELAY)
    ELSE ReadWriteAfter(bank, WRITE_TO_READ_DELAY_B_LONG, ColumnDelay(sameGroup))

AfterColumn(r, b, c) ==
  LET moved == IF r # c.rank
                 THEN OtherRankAfter(bankStates[r][b], c.type)
                 ELSE SameRankAfter(bankStates[r][b], c.type,
                                    SameBankgroup(b, c.bank))
  IN  IF r = c.rank /\ b = c.bank
        THEN [moved EXCEPT !.nextPrecharge =
                Postpone(@, IF c.type = "READ" THEN READ_TO_PRE_DELAY
                                               ELSE WRITE_TO_PRE_DELAY)]
        ELSE moved

AfterActivate(b, c) ==
  LET bank == bankStates[c.rank][b] IN
  IF b = c.bank
    THEN [ReadWriteAfter(bank, tRCDRD - AL, tRCDWR - AL) EXCEPT
            !.state = "RowActive", !.row = c.row,
            !.nextActivate = Postpone(@, tRC), !.nextPrecharge = Postpone(@, tRAS)]
    ELSE [bank EXCEPT !.nextActivate =
            Postpone(@, ActivateDelay(SameBankgroup(b, c.bank)))]

AfterPrechargeEarly(bank) ==  \* mutant
  [bank EXCEPT !.state = "Precharging", !.countdown = tRP - 1]

AfterPrecharge(bank) ==
  [bank EXCEPT !.state = "Precharging", !.countdown = tRP,
               !.nextActivate = Postpone(@, tRP)]

AfterRefreshEarly(bank) ==  \* mutant
  [bank EXCEPT !.state = "Refreshing", !.countdown = tRFC - 1]

AfterRefresh(bank) ==
  [bank EXCEPT !.state = "Refreshing", !.countdown = tRFC, !.nextActivate = tRFC]

BankStatesAfter(c) ==
  CASE c.type \in {"READ", "WRITE"} ->
         [r \in Ranks |-> [b \in Banks |-> AfterColumn(r, b, c)]]
    [] c.type = "ACTIVATE" ->
         [bankStates EXCEPT ![c.rank] = [b \in Banks |-> AfterActivate(b, c)]]
    [] c.type = "PRECHARGE" ->
         [bankStates EXCEPT ![c.rank][c.bank] = AfterPrecharge(@)]
    [] c.type = "REF" ->
         [bankStates EXCEPT ![c.rank] = [b \in Banks |-> AfterRefresh(@[b])]]

(* The popped command goes onto the command bus.                           *)
UpdateCommandQueue(c) ==
  /\ bankStates' = BankStatesAfter(c)
  /\ writeData' = IF c.type = "WRITE"
                    THEN Append(writeData, [trans |-> c.trans, countdown |-> WL])
                    ELSE writeData
  /\ outgoingCmd' = << [cmd |-> c, cyclesLeft |-> tCMD] >>
  /\ fault' = IF outgoingCmd # << >> THEN "cmdbus" ELSE fault

(* commandQueue.pop().                                                     *)
SendRefresh ==
  PopRefresh /\ UpdateCommandQueue(Refresh(refreshRank))

SendPrechargeForRefresh ==
  \E b \in Banks : /\ PopPrechargeForRefresh(b)
                   /\ UpdateCommandQueue(Precharge(refreshRank, b))

SendColumn ==
  \E r \in Ranks : PopColumn(r) /\ UpdateCommandQueue(ColumnCommand(NextColumn(r)))

SendActivate ==
  \E r \in Ranks :
    PopActivate(r) /\ UpdateCommandQueue(BankCommand("ACTIVATE", NextRow(r)))

SendPrecharge ==
  \E p \in Unwanted :
    PopPrecharge(p) /\ UpdateCommandQueue(Precharge(p.rank, p.bank))

SendNothing ==
  PopNothing /\ UNCHANGED << bankStates, writeData, outgoingCmd, fault >>

SendCommand ==
  /\ \/ SendRefresh \/ SendPrechargeForRefresh \/ SendColumn
     \/ SendActivate \/ SendPrecharge \/ SendNothing
  /\ UNCHANGED << transactionQueue, pendingReadTransactions, returnTransaction,
                  outgoingData, refreshCountdown, nextRefresh, rankVars >>

-----------------------------------------------------------------------------
(* updateTransactionQueue: the first transaction whose rank has room in    *)
(* its queue becomes a command.                                            *)

AllDispatchable == 1 .. Len(transactionQueue)  \* mutant: without asking for room

Dispatchable ==
  {i \in 1 .. Len(transactionQueue) : HasRoomFor(transactionQueue[i].addr.rank)}

UpdateTransactionQueue ==
  /\ IF Dispatchable = {}
       THEN UNCHANGED << transactionQueue, queues, pendingReadTransactions, fault >>
       ELSE LET i == Min(Dispatchable)
                t == transactionQueue[i]
            IN /\ transactionQueue' = RemoveAt(transactionQueue, i)
               /\ Enqueue(t)
               /\ pendingReadTransactions' =
                    IF t.type = "DATA_READ" THEN Append(pendingReadTransactions, t)
                                            ELSE pendingReadTransactions
  /\ UNCHANGED << nextRank, nextPRE, refreshWaiting, refreshRank, bankStates,
                  returnTransaction, outgoingCmd, outgoingData, writeData,
                  refreshCountdown, nextRefresh, rankVars >>

-----------------------------------------------------------------------------
(* Returning read data: the oldest pending read of the same address.       *)

MatchesAnyAddress == 1 .. Len(pendingReadTransactions)  \* mutant

Matches ==
  {i \in 1 .. Len(pendingReadTransactions) :
     pendingReadTransactions[i].addr = Head(returnTransaction).addr}

ReturnReadData ==
  /\ returnTransaction # << >>
  /\ Matches # {}
  /\ pendingReadTransactions' = RemoveAt(pendingReadTransactions, Min(Matches))
  /\ returnTransaction' = Tail(returnTransaction)
  /\ UNCHANGED fault

ReturnUnmatched ==
  /\ returnTransaction # << >>
  /\ Matches = {}
  /\ fault' = "nomatch"
  /\ UNCHANGED << pendingReadTransactions, returnTransaction >>

ReturnNothing ==
  /\ returnTransaction = << >>
  /\ UNCHANGED << pendingReadTransactions, returnTransaction, fault >>

(* The end of update(): the refresh timers and all clocks advance.         *)
TickController ==
  /\ bankStates' = [r \in Ranks |-> [b \in Banks |-> TickBank(bankStates[r][b])]]
  /\ refreshCountdown' = [r \in Ranks |-> refreshCountdown[r] - 1]
  /\ UNCHANGED << commandQueueVars, transactionQueue, outgoingCmd, outgoingData,
                  writeData, nextRefresh >>

=============================================================================
