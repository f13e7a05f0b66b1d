----------------------------- MODULE MemorySystem -----------------------------
(***************************************************************************)
(* One channel of the simulator, cycle by cycle: the ranks, the memory     *)
(* controller with its command queue, and the client that drives them.     *)
(* MemorySystem::update() is cut at the places where it hands control from *)
(* one part to the next:                                                   *)
(*                                                                         *)
(*   client -> pending -> bus -> refresh -> command -> dispatch -> return  *)
(*      ^______________________________________________________________|  *)
(***************************************************************************)
EXTENDS MemoryController

CONSTANTS
  Addresses,           \* decoded addresses the client uses
  MaxTransactions,     \* bound on the transactions the client adds
  CLIENT               \* "batch", "polite" or "eager", as in TransactionFlow

ASSUME SystemAssumption ==
  /\ Addresses \subseteq Address
  /\ MaxTransactions \in Nat
  /\ CLIENT \in {"batch", "polite", "eager"}

VARIABLES
  pendingTransactions, numOnTheFlyTransactions, nextId, fences, running, phase

clientVars == << nextId, fences, running >>

vars == << rankVars, commandQueueVars, controllerVars, clientVars, fault,
           pendingTransactions, numOnTheFlyTransactions, phase >>

Init ==
  /\ RankInit
  /\ ControllerInit
  /\ pendingTransactions = << >>
  /\ numOnTheFlyTransactions = 0
  /\ nextId = 1
  /\ fences = {}
  /\ running = FALSE
  /\ phase = "client"

-----------------------------------------------------------------------------
(* The client, between two calls of update().                              *)

MayAdd ==
  CASE CLIENT = "batch"  -> ~running
    [] CLIENT = "polite" -> WillAcceptTransaction /\ pendingTransactions = << >>
    [] OTHER             -> TRUE

ChannelUnchanged ==
  UNCHANGED << rankVars, commandQueueVars, bankStates, pendingReadTransactions,
               returnTransaction, outgoingCmd, outgoingData, writeData,
               refreshCountdown, nextRefresh, fault >>

AddTransaction(type, addr) ==
  LET t == [id |-> nextId, type |-> type, addr |-> addr, bar |-> FALSE] IN
  /\ phase = "client"
  /\ MayAdd
  /\ nextId <= MaxTransactions
  /\ nextId' = nextId + 1
  /\ IF WillAcceptTransaction
       THEN /\ transactionQueue' = Append(transactionQueue, t)
            /\ numOnTheFlyTransactions' = numOnTheFlyTransactions + 1
            /\ UNCHANGED pendingTransactions
       ELSE /\ pendingTransactions' = Append(pendingTransactions, t)
            /\ UNCHANGED << transactionQueue, numOnTheFlyTransactions >>
  /\ UNCHANGED << fences, running, phase >>
  /\ ChannelUnchanged

TagLast(q) == [q EXCEPT ![Len(q)].bar = TRUE]

Fence(q) == {[id |-> nextId - 1, rank |-> Last(q).addr.rank]}

(* A barrier that finds nothing to tag is refused and leaves no trace.     *)
NothingToTag ==
  IF WillAcceptTransaction THEN transactionQueue = << >> ELSE pendingTransactions = << >>

AddBarrier ==
  /\ phase = "client"
  /\ MayAdd
  /\ \/ /\ WillAcceptTransaction
        /\ transactionQueue # << >>
        /\ transactionQueue' = TagLast(transactionQueue)
        /\ fences' = fences \cup Fence(transactionQueue)
        /\ UNCHANGED pendingTransactions
     \/ /\ ~WillAcceptTransaction
        /\ pendingTransactions # << >>
        /\ pendingTransactions' = TagLast(pendingTransactions)
        /\ fences' = fences \cup Fence(pendingTransactions)
        /\ UNCHANGED transactionQueue
  /\ UNCHANGED << numOnTheFlyTransactions, nextId, running, phase >>
  /\ ChannelUnchanged

(* run(): the loop ends when nothing is on the fly.                        *)
RunReturns ==
  /\ phase = "client"
  /\ running
  /\ numOnTheFlyTransactions = 0
  /\ running' = FALSE
  /\ UNCHANGED << transactionQueue, pendingTransactions, nextId, fences,
                  numOnTheFlyTransactions, phase >>
  /\ ChannelUnchanged

-----------------------------------------------------------------------------
(* update().                                                               *)

(* Every rank is updated; a burst that ends is handed to the controller.   *)
BeginUpdate ==
  /\ phase = "client"
  /\ CLIENT = "batch" => numOnTheFlyTransactions # 0
  /\ running' = (CLIENT = "batch")
  /\ UpdateRanks
  /\ returnTransaction' =
       returnTransaction \o FlattenSeq([i \in 1 .. NUM_RANKS |-> Delivered(i - 1)])
  /\ phase' = "pending"
  /\ UNCHANGED << commandQueueVars, bankStates, transactionQueue,
                  pendingReadTransactions, outgoingCmd, outgoingData, writeData,
                  refreshCountdown, nextRefresh, pendingTransactions,
                  numOnTheFlyTransactions, nextId, fences, fault >>

AcceptPending ==
  /\ phase = "pending"
  /\ IF pendingTransactions # << >> /\ WillAcceptTransaction
       THEN /\ transactionQueue' =
                 Append(transactionQueue, Head(pendingTransactions))
            /\ pendingTransactions' = Tail(pendingTransactions)
            /\ numOnTheFlyTransactions' = numOnTheFlyTransactions + 1
       ELSE UNCHANGED << transactionQueue, pendingTransactions,
                         numOnTheFlyTransactions >>
  /\ phase' = "bus"
  /\ UNCHANGED clientVars
  /\ ChannelUnchanged

Bus ==
  /\ phase = "bus"
  /\ DriveBuses
  /\ numOnTheFlyTransactions' =
       numOnTheFlyTransactions - (IF WriteEnds THEN 1 ELSE 0)
  /\ phase' = "refresh"
  /\ UNCHANGED << clientVars, pendingTransactions >>

RefreshTimers ==
  /\ phase = "refresh"
  /\ UpdateRefresh
  /\ phase' = "command"
  /\ UNCHANGED << clientVars, pendingTransactions, numOnTheFlyTransactions >>

Command ==
  /\ phase = "command"
  /\ SendCommand
  /\ phase' = "dispatch"
  /\ UNCHANGED << clientVars, pendingTransactions, numOnTheFlyTransactions >>

Dispatch ==
  /\ phase = "dispatch"
  /\ UpdateTransactionQueue
  /\ phase' = "return"
  /\ UNCHANGED << clientVars, pendingTransactions, numOnTheFlyTransactions >>

EndUpdate ==
  /\ phase = "return"
  /\ \/ /\ ReturnReadData
        /\ numOnTheFlyTransactions' = numOnTheFlyTransactions - 1
     \/ /\ ReturnNothing \/ ReturnUnmatched
        /\ UNCHANGED numOnTheFlyTransactions
  /\ TickController
  /\ TickRanks
  /\ phase' = "client"
  /\ UNCHANGED << clientVars, pendingTransactions, modeVars, rankRefreshWaiting,
                  readReturn, rankData >>

ClientStep ==
  \/ \E type \in {"DATA_READ", "DATA_WRITE"}, addr \in Addresses :
       AddTransaction(type, addr)
  \/ AddBarrier
  \/ RunReturns

(* The steps of the program's own loop: run() and update().                *)
UpdateStep ==
  BeginUpdate \/ AcceptPending \/ Bus \/ RefreshTimers \/ Command \/ Dispatch
    \/ EndUpdate

(* A fault is a call of exit() or abort().                                 *)
Next == fault = "none" /\ (ClientStep \/ UpdateStep)

Spec == Init /\ [][Next]_vars

(* The program is one thread: while run() has work it keeps calling        *)
(* update(), and update() never blocks.                                    *)
FairSpec == Spec /\ WF_vars(fault = "none" /\ (UpdateStep \/ RunReturns))

-----------------------------------------------------------------------------
(* Refinement: this module decides which command is issued when, and       *)
(* TransactionFlow leaves it open.  A read is in flight from its READ      *)
(* command until it is returned: it is a pending read that is no longer in *)
(* a queue.  A write is in flight from its WRITE command until its data    *)
(* has been sent.                                                          *)
InQueues == UNION {ToSet(queues[r]) : r \in Ranks}

InFlight ==
  (ToSet(pendingReadTransactions) \ InQueues)
    \cup {w.trans : w \in ToSet(writeData) \cup ToSet(outgoingData)}

FlowPhase ==
  CASE phase = "bus"                     -> "write"
    [] phase \in {"refresh", "command"} -> "issue"
    [] OTHER                             -> phase

Flow == INSTANCE TransactionFlow WITH inFlight <- InFlight, phase <- FlowPhase

(* The channel moves transactions as TransactionFlow says: nothing is      *)
(* lost, doubled or counted twice, at most one command is issued and one   *)
(* burst completed in a cycle, and barriers and same-burst order hold.     *)
ImplementsFlow == Flow!FlowSpec

-----------------------------------------------------------------------------
(* Properties.                                                             *)

Transactions == [ id : 1 .. MaxTransactions, type : {"DATA_READ", "DATA_WRITE"},
                  addr : Addresses, bar : BOOLEAN ]

Commands ==
  [ type : {"ACTIVATE", "PRECHARGE", "REF"}, rank : Ranks, bank : Banks,
    row : Nat, col : Nat ]
  \cup [ type : {"READ", "WRITE"}, rank : Ranks, bank : Banks,
         row : Nat, col : Nat, trans : Transactions ]

Times == [nextRead : Nat, nextWrite : Nat, nextPrecharge : Nat, nextActivate : Nat]

HasTimes(b) ==
  \A f \in {"nextRead", "nextWrite", "nextPrecharge", "nextActivate", "row"} :
    b[f] \in Nat

AtMostOne(S) == {<< >>} \cup {<< s >> : s \in S}

(* Every variable holds what its C++ type can; an open bank in the view of *)
(* the controller has no state change under way.                           *)
TypeOK ==
  /\ \A r \in Ranks, b \in Banks :
       /\ HasTimes(rankBanks[r][b]) /\ HasTimes(bankStates[r][b])
       /\ rankBanks[r][b].state \in {"Idle", "RowActive"}
       /\ bankStates[r][b].state
            \in {"Idle", "RowActive", "Precharging", "Refreshing"}
       /\ bankStates[r][b].countdown \in Nat
       /\ bankStates[r][b].countdown > 0
            <=> bankStates[r][b].state \in {"Precharging", "Refreshing"}
  /\ PIMTypeOK
  /\ \A r \in Ranks : abmr[r] \subseteq {0, 1, 8, 9} /\ sbmr[r] \subseteq {0, 1}
  /\ rankRefreshWaiting \in [Ranks -> BOOLEAN]
  /\ \A r \in Ranks :
       /\ \A i \in DOMAIN readReturn[r] :
            readReturn[r][i].trans \in Transactions
              /\ readReturn[r][i].countdown \in 1 .. RL
       /\ \A i \in DOMAIN rankData[r] :
            i = 1 /\ rankData[r][i].trans \in Transactions
              /\ rankData[r][i].cyclesLeft \in 1 .. BurstCycles
       /\ queues[r] \in Seq(Transactions) /\ Len(queues[r]) <= CMD_QUEUE_DEPTH
  /\ fault \in {"none", "check", "cmdbus", "databus", "enqueue", "nomatch"}
  /\ nextRank \in Ranks /\ refreshRank \in Ranks /\ nextRefresh \in Ranks
  /\ nextPRE \in [rank : Ranks, bank : Banks]
  /\ refreshWaiting \in BOOLEAN
  /\ transactionQueue \in Seq(Transactions)
  /\ Len(transactionQueue) <= TRANS_QUEUE_DEPTH
  /\ pendingTransactions \in Seq(Transactions)
  /\ pendingReadTransactions \in Seq(Transactions)
  /\ returnTransaction \in Seq(Transactions)
  /\ \A i \in DOMAIN outgoingCmd :
       i = 1 /\ outgoingCmd[i].cmd \in Commands /\ outgoingCmd[i].cyclesLeft \in 1 .. tCMD
  /\ \A i \in DOMAIN outgoingData :
       i = 1 /\ outgoingData[i].trans \in Transactions
         /\ outgoingData[i].cyclesLeft \in 1 .. BurstCycles
  /\ \A i \in DOMAIN writeData :
       writeData[i].trans \in Transactions /\ writeData[i].countdown \in 1 .. WL
  /\ refreshCountdown \in [Ranks -> Int]
  /\ numOnTheFlyTransactions \in Nat
  /\ nextId \in 1 .. MaxTransactions + 1
  /\ running \in BOOLEAN
  /\ phase \in {"client", "pending", "bus", "refresh", "command", "dispatch",
                "return"}

(* The controller's view of the banks is never ahead of the ranks': no     *)
(* command reaches a rank that Rank::check would stop the program for.     *)
RanksAgree == fault # "check"

(* Read data is matched by address alone, with the oldest pending read of  *)
(* that address: a match is always found, and it is the very read that     *)
(* fetched the data.                                                       *)
OwnReadReturned ==
  [][/\ fault' # "nomatch"
     /\ \A t \in ToSet(pendingReadTransactions) \ ToSet(pendingReadTransactions') :
          t = Head(returnTransaction)]_vars

(* One command at a time is on the command bus, and one burst on the data  *)
(* bus, which serves all ranks and both directions. The controller exits   *)
(* for a second command or a second write burst, but does not look at the  *)
(* bursts of reads.                                                        *)
BusesExclusive ==
  /\ fault \notin {"cmdbus", "databus"}
  /\ phase = "refresh" =>
       Cardinality({r \in Ranks : rankData[r] # << >>})
         + Cardinality(ToSet(outgoingData)) <= 1

(* A rank that was told to expect a refresh gets it: the single slot of    *)
(* needRefresh() is not overwritten by the next rank's.                    *)
RefreshNotLost ==
  \A r \in Ranks : rankRefreshWaiting[r] =>
    \/ refreshWaiting /\ refreshRank = r
    \/ \E i \in DOMAIN outgoingCmd :
         outgoingCmd[i].cmd.type = "REF" /\ outgoingCmd[i].cmd.rank = r

(* The unsigned timers never pass 0: only the rank whose turn it is falls  *)
(* due, although updateRefresh looks at no other.                          *)
RefreshOnSchedule == \A r \in Ranks : refreshCountdown[r] >= 0

(* When commands wait for a rank, none of its timers is running and still  *)
(* nothing is sent to any rank, the queue stands still until the next      *)
(* refresh closes the rows.                                                *)
TimersExpired(r) ==
  \A b \in Banks :
    LET bank == bankStates[r][b] IN
    /\ bank.countdown = 0 /\ bank.nextRead = 0 /\ bank.nextWrite = 0
    /\ bank.nextPrecharge = 0 /\ bank.nextActivate = 0

StandsStill(r) ==
  /\ phase = "command"
  /\ queues[r] # << >> /\ TimersExpired(r)
  /\ ~RefreshFirst /\ Unwanted = {} /\ \A s \in Ranks : ~HasCommand(s)

(* The scheduler works whenever it can: a queue stands still only when the *)
(* open row of some bank is kept for a barrier that is not yet in front.   *)
StandstillOnlyAtBarrier ==
  \A r \in Ranks : StandsStill(r) =>
    \E i \in 2 .. Len(queues[r]) :
      queues[r][i].bar /\ ColumnIssuable(queues[r][i])

(* Every call of run() returns.                                            *)
RunTerminates == running ~> ~running

=============================================================================
