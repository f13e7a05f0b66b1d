--------------------------------- MODULE Rank ---------------------------------
(***************************************************************************)
(* A rank of DRAM banks.  It receives commands from the controller's bus,  *)
(* checks every one of them against its own timing state and stops the     *)
(* simulation if the command comes too early, switches between single-bank *)
(* (SB) and all-bank (HAB) mode, and drives read bursts on the data bus.   *)
(***************************************************************************)
EXTENDS PIMRank, SequencesExt

VARIABLES
  rankBanks,          \* BankState per rank and bank, the rank's own view
  abmr, sbmr,         \* banks whose mode-register row was activated / closed
  rankRefreshWaiting, \* refreshWaiting of each rank
  readReturn,         \* readReturnPacket with readReturnCountdown
  rankData,           \* outgoingDataPacket with dataCyclesLeft, << >> if NULL
  fault               \* why the program exited, "none" while it runs

modeVars == << pimVars, abmr, sbmr >>

rankVars == << modeVars, rankBanks, rankRefreshWaiting, readReturn, rankData >>

IdleRankBank == [ state |-> "Idle", row |-> 0, nextRead |-> 0, nextWrite |-> 0,
                  nextPrecharge |-> 0, nextActivate |-> 0 ]

RankInit ==
  /\ rankBanks = [r \in Ranks |-> [b \in Banks |-> IdleRankBank]]
  /\ PIMInit
  /\ abmr = [r \in Ranks |-> {}]
  /\ sbmr = [r \in Ranks |-> {}]
  /\ rankRefreshWaiting = [r \in Ranks |-> FALSE]
  /\ readReturn = [r \in Ranks |-> << >>]
  /\ rankData = [r \in Ranks |-> << >>]
  /\ fault = "none"

-----------------------------------------------------------------------------
(* Receiving a command.                                                    *)

BankAllows(b, type, row) ==
  CASE type = "READ"      -> b.state = "RowActive" /\ b.nextRead = 0 /\ b.row = row
    [] type = "WRITE"     -> b.state = "RowActive" /\ b.nextWrite = 0 /\ b.row = row
    [] type = "ACTIVATE"  -> b.state = "Idle" /\ b.nextActivate = 0
    [] type = "PRECHARGE" -> b.state = "RowActive" /\ b.nextPrecharge = 0

(* Rank::check: in all-bank mode every bank of the parity must agree.      *)
Check(c) ==
  LET banks == rankBanks[c.rank] IN
  IF c.type = "REF"
    THEN \A b \in Banks : banks[b].state = "Idle"
    ELSE \A b \in Banks :
           (IF mode[c.rank] = "SB" THEN b = c.bank ELSE b % 2 = c.bank % 2)
             => BankAllows(banks[b], c.type, c.row)

(* Rank::updateBank.                                                       *)
UpdateBank(b, type, row, target, sameGroup) ==
  CASE type = "READ" ->
         [b EXCEPT
            !.nextPrecharge = IF target THEN Postpone(@, READ_TO_PRE_DELAY) ELSE @,
            !.nextRead  = Postpone(@, ColumnDelay(sameGroup)),
            !.nextWrite = Postpone(@, READ_TO_WRITE_DELAY)]
    [] type = "WRITE" ->
         [b EXCEPT
            !.nextPrecharge = IF target THEN Postpone(@, WRITE_TO_PRE_DELAY) ELSE @,
            !.nextRead  = Postpone(@, IF sameGroup THEN WRITE_TO_READ_DELAY_B_LONG
                                                   ELSE WRITE_TO_READ_DELAY_B_SHORT),
            !.nextWrite = Postpone(@, ColumnDelay(sameGroup))]
    [] type = "ACTIVATE" /\ target ->
         [ state |-> "RowActive", row |-> row,
           nextRead |-> tRCDRD - AL, nextWrite |-> tRCDWR - AL,
           nextPrecharge |-> tRAS, nextActivate |-> tRC ]
    [] type = "ACTIVATE" /\ ~target ->
         [b EXCEPT !.nextActivate = Postpone(@, ActivateDelay(sameGroup))]
    [] type = "PRECHARGE" /\ target ->
         [b EXCEPT !.state = "Idle", !.nextActivate = Postpone(@, tRP)]
    [] type = "PRECHARGE" /\ ~target -> b
    [] type = "REF" -> [b EXCEPT !.nextActivate = tRFC]

(* Rank::updateState.                                                      *)
BanksAfter(c) ==
  LET single == mode[c.rank] = "SB" IN
  [b \in Banks |->
     UpdateBank(rankBanks[c.rank][b], c.type, c.row,
                IF single THEN b = c.bank ELSE b % 2 = c.bank,
                single => SameBankgroup(b, c.bank))]

LowAbmrBanks == {0, 1}  \* mutant: two of the four

AbmrBanks == IF NUM_BANKS <= 2 THEN {0, 1} ELSE {0, 1, 8, 9}
SbmrBanks == {0, 1}

(* The banks seen are forgotten when the last of them has been.            *)
NeverForgotten(seen, wanted) == seen  \* mutant: a missing reset

Forgotten(seen, wanted) == IF wanted \subseteq seen THEN {} ELSE seen

(* The mode registers: activating the ABMR row of every bank in AbmrBanks  *)
(* enters all-bank mode, precharging the SBMR row of both leaves it.       *)
SwitchMode(c) ==
  LET r  == c.rank
      up == /\ c.type = "ACTIVATE" /\ mode[r] = "SB"
            /\ c.row = PIM_ABMR_RA /\ c.col = MODE_COLUMN
      down == c.type = "PRECHARGE" /\ mode[r] = "HAB" /\ c.row = PIM_SBMR_RA
      seenUp   == abmr[r] \cup ({c.bank} \cap {0, 1, 8, 9})
      seenDown == sbmr[r] \cup ({c.bank} \cap SbmrBanks)
  IN
  /\ abmr' = [abmr EXCEPT ![r] =
       IF up THEN Forgotten(seenUp, AbmrBanks) ELSE @]
  /\ sbmr' = [sbmr EXCEPT ![r] =
       IF down THEN Forgotten(seenDown, SbmrBanks) ELSE @]
  /\ mode' = [mode EXCEPT ![r] =
       CASE up /\ AbmrBanks \subseteq seenUp     -> "HAB"
         [] down /\ SbmrBanks \subseteq seenDown -> "SB"
         [] OTHER                                -> @]
  /\ UNCHANGED << crf, control, pim >>

(* Rank::receiveFromBus.  The reserved rows bypass the check, whose        *)
(* failure ends the program, and the timing state.  A READ starts its      *)
(* latency and carries the transaction.  sendToBank hands column commands  *)
(* to the PIM side and lets the others switch the mode.                    *)
Refuses(c) == ~IsReservedRA(c.row) /\ ~Check(c)

ReceiveCommand(c) ==
  LET r == c.rank IN
  /\ rankBanks' = IF IsReservedRA(c.row) THEN rankBanks
                  ELSE [rankBanks EXCEPT ![r] = BanksAfter(c)]
  /\ rankRefreshWaiting' =
       [rankRefreshWaiting EXCEPT ![r] = @ /\ c.type # "REF"]
  /\ readReturn' =
       IF c.type = "READ"
         THEN [readReturn EXCEPT ![r] =
                 Append(@, [trans |-> c.trans, countdown |-> RL])]
         ELSE readReturn
  /\ \/ /\ c.type \in {"READ", "WRITE"}
        /\ AccessColumn(c)
        /\ UNCHANGED << abmr, sbmr >>
     \/ /\ c.type \notin {"READ", "WRITE"}
        /\ SwitchMode(c)

-----------------------------------------------------------------------------
(* Rank::update, once per cycle in every rank.                             *)

(* The burst that ends now, handed to MemoryController::receiveFromBus.    *)
Delivered(r) ==
  IF rankData[r] # << >> /\ Head(rankData[r]).cyclesLeft = 1
    THEN << Head(rankData[r]).trans >> ELSE << >>

CountReturns(q) == [i \in DOMAIN q |-> [q[i] EXCEPT !.countdown = @ - 1]]

ReturnStarts(r) == readReturn[r] # << >> /\ Head(readReturn[r]).countdown = 1

(* A read whose latency is over takes the rank's data pins, whatever is on *)
(* them.                                                                   *)
UpdateRanks ==
  /\ rankData' =
       [r \in Ranks |->
          IF ReturnStarts(r)
            THEN << [trans |-> Head(readReturn[r]).trans,
                     cyclesLeft |-> BurstCycles] >>
          ELSE IF rankData[r] = << >> \/ Delivered(r) # << >> THEN << >>
          ELSE << [Head(rankData[r]) EXCEPT !.cyclesLeft = @ - 1] >>]
  /\ readReturn' =
       [r \in Ranks |->
          IF ReturnStarts(r) THEN Tail(CountReturns(readReturn[r]))
                             ELSE CountReturns(readReturn[r])]
  /\ UNCHANGED << modeVars, rankBanks, rankRefreshWaiting >>

TickRanks ==
  rankBanks' = [r \in Ranks |-> [b \in Banks |-> TickBank(rankBanks[r][b])]]

=============================================================================
