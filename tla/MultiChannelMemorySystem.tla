----------------------- MODULE MultiChannelMemorySystem -----------------------
(***************************************************************************)
(* MultiChannelMemorySystem: what a client calls.  update() crosses into   *)
(* the clock of the memory, where actual_update() opens the output files   *)
(* on its first cycle, writes a row of statistics once an epoch, and       *)
(* updates one channel after the other.  A channel is reduced to counts of *)
(* its transactions; module MemorySystem has what is in them, and that a   *)
(* channel with work makes progress.                                       *)
(***************************************************************************)
EXTENDS ClockDomain, SequencesExt

CONSTANTS
  NUM_CHANS, NUM_RANKS, TRANS_QUEUE_DEPTH, CMD_QUEUE_DEPTH, EPOCH_LENGTH,
  maxNumber,       \* of FilenameWithNumberSuffix
  MaxTransactions  \* bound on the transactions the client adds

ASSUME FrontAssumption ==
  /\ NUM_CHANS \in Nat \ {0} /\ NUM_RANKS \in Nat \ {0}
  /\ TRANS_QUEUE_DEPTH \in Nat \ {0} /\ CMD_QUEUE_DEPTH \in Nat \ {0}
  /\ EPOCH_LENGTH \in Nat \ {0} /\ maxNumber \in Nat \ {0, 1} /\ MaxTransactions \in Nat

VARIABLES
  running,            \* the client is in its run() loop
  thrown,             \* an exception has left update()
  accepted,           \* history: transactions added
  channels,
  channel,            \* the one actual_update is at, 0 outside of it
  currentClockCycle,  \* from EPOCH_LENGTH it goes on at 1
  VIS_FILE_OUTPUT, visFilename,
  files,              \* suffixes of the files that exist, 0 for none, or Bare
  visDataOut,         \* the one that is open
  csvOut

clientVars == << running, accepted >>
fileVars == << VIS_FILE_OUTPUT, visFilename, files, visDataOut >>
frontVars == << clockVars, clientVars, thrown, channels, channel, currentClockCycle,
                fileVars, csvOut >>

Channels == 1 .. NUM_CHANS

(* pendingTransactions and transactionQueue, the commands waiting, those   *)
(* issued, and totalReads + totalWrites.                                   *)
Idle == [pending |-> 0, queued |-> 0, commanded |-> 0, issued |-> 0, total |-> 0]

Closed == -1

(* No suffix and no ".vis": what is left when all names exist.  An earlier *)
(* run may have left this file too.                                        *)
Bare == maxNumber

FrontInit ==
  /\ ClockInit
  /\ running = FALSE /\ thrown = FALSE /\ accepted = 0
  /\ channels = [c \in Channels |-> Idle]
  /\ channel = 0 /\ currentClockCycle = 0
  /\ VIS_FILE_OUTPUT \in BOOLEAN /\ visFilename \in BOOLEAN
  /\ files \in SUBSET (IF VIS_FILE_OUTPUT THEN 0 .. Bare ELSE {})
  /\ visDataOut = Closed
  /\ csvOut = [names |-> << >>, finalized |-> FALSE, idx |-> 0, line |-> << >>,
               fields |-> 0, epoch |-> << >>]

-----------------------------------------------------------------------------
(* CSVWriter.  Until the first finalize() it gathers the names and drops   *)
(* the values; afterwards it writes the values and drops the names.        *)

Write(csv, fields) ==
  IF csv.finalized
    THEN [csv EXCEPT !.line = @ \o fields, !.idx = @ + Len(fields)]
    ELSE [csv EXCEPT !.names = @ \o fields]

(* Text that is sent to the stream itself, on lines of its own.            *)
WriteThrough(csv) == [csv EXCEPT !.line = << >>]

(* What the row had is kept in fields: there is a warning when it is less  *)
(* than the header has.                                                    *)
Finalize(csv) ==
  IF csv.finalized
    THEN [csv EXCEPT !.fields = csv.idx, !.idx = 0, !.line = << >>]
    ELSE [csv EXCEPT !.finalized = TRUE]

(* MemoryControllerStats::printStats: some fields for every rank and some  *)
(* for the channel; the final ones end in a histogram.                     *)
ChannelFields(c) ==
  Append([r \in 1 .. NUM_RANKS |-> << "Power", c, r >>], << "Bandwidth", c >>)

PrintChannel(csv, c, finalStats) ==
  LET written == Write(csv, ChannelFields(c))
  IN  IF ~VIS_FILE_OUTPUT THEN csv
      ELSE IF finalStats THEN WriteThrough(written) ELSE written

Row(csv, finalStats) ==
  LET upTo[c \in 0 .. NUM_CHANS] ==
        IF c = 0 THEN Write(csv, << << "ms" >> >>)
                 ELSE PrintChannel(upTo[c - 1], c, finalStats)
  IN  upTo[NUM_CHANS]

(* The file names that are tried; the first suffix is tried twice.         *)
Candidates == << 0 >> \o [i \in 1 .. maxNumber - 1 |-> IF i = 1 THEN 1 ELSE i - 1]

LastNameKept ==  \* mutant
  LET free == SelectInSeq(Candidates, LAMBDA n : n \notin files)
  IN  Candidates[IF free = 0 THEN Len(Candidates) ELSE free]

FilenameWithNumberSuffix ==
  LET free == SelectInSeq(Candidates, LAMBDA n : n \notin files)
  IN  IF free = 0 THEN Bare ELSE Candidates[free]

(* The name that InitOutputFiles makes up has the mapping scheme in it,    *)
(* which it asks for as a number: "Scheme8" is none.                       *)
InitOutputFiles ==
  IF VIS_FILE_OUTPUT /\ visFilename
    THEN /\ visDataOut' = FilenameWithNumberSuffix
         /\ files' = files \cup {FilenameWithNumberSuffix}
    ELSE UNCHANGED << files, visDataOut >>

CannotName == currentClockCycle = 0 /\ VIS_FILE_OUTPUT /\ ~visFilename

-----------------------------------------------------------------------------
(* The client, between two calls of update().                              *)

Between == updating = FALSE /\ channel = 0 /\ ~thrown

HasPendingFirst == channels[1].queued + channels[1].commanded + channels[1].issued > 0  \* mutant

(* numOnTheFlyTransactions does not count what is in pendingTransactions.  *)
hasPendingTransactions ==
  \E c \in Channels : channels[c].queued + channels[c].commanded + channels[c].issued > 0

WillAcceptTransaction(ch) == ch.queued < TRANS_QUEUE_DEPTH

AddTransaction(c) ==
  /\ Between /\ ~running /\ accepted < MaxTransactions
  /\ accepted' = accepted + 1
  /\ channels' =
       IF WillAcceptTransaction(channels[c])
         THEN [channels EXCEPT ![c].queued = @ + 1]
         ELSE [channels EXCEPT ![c].pending = @ + 1]
  /\ UNCHANGED << clockVars, running, thrown, channel, currentClockCycle, fileVars, csvOut >>

SetSpeed ==
  /\ Between /\ currentClockCycle = 0 /\ clock1 = 1
  /\ \E cpuClkFreqHz \in CpuClkFreqHz : SetCPUClockSpeed(cpuClkFreqHz)
  /\ UNCHANGED << clientVars, thrown, channels, channel, currentClockCycle, fileVars, csvOut >>

(* The clients print when they are done.                                   *)
PrintStats ==
  /\ Between /\ ~running /\ ~hasPendingTransactions
  /\ csvOut' = Finalize(Row(csvOut, TRUE))
  /\ UNCHANGED << clockVars, clientVars, thrown, channels, channel, currentClockCycle,
                  fileVars >>

Run ==
  /\ Between /\ ~running /\ hasPendingTransactions
  /\ running' = TRUE
  /\ UNCHANGED << clockVars, accepted, thrown, channels, channel, currentClockCycle,
                  fileVars, csvOut >>

RunReturns ==
  /\ Between /\ running /\ ~hasPendingTransactions
  /\ running' = FALSE
  /\ UNCHANGED << clockVars, accepted, thrown, channels, channel, currentClockCycle,
                  fileVars, csvOut >>

-----------------------------------------------------------------------------
(* update() and actual_update().                                           *)

EpochUnfinished(csv) ==  \* mutant
  LET row == Row(csv, FALSE) IN [row EXCEPT !.epoch = row.line]

EpochRow(csv) ==
  LET row == Row(csv, FALSE) IN [Finalize(row) EXCEPT !.epoch = row.line]

BeginActualUpdate ==
  /\ thrown' = CannotName
  /\ IF currentClockCycle = 0 THEN InitOutputFiles ELSE UNCHANGED << files, visDataOut >>
  /\ csvOut' = IF currentClockCycle = EPOCH_LENGTH THEN EpochRow(csvOut) ELSE csvOut
  /\ channel' = IF CannotName THEN 0 ELSE 1
  /\ running' = (running /\ ~CannotName)
  /\ UNCHANGED << accepted, channels, currentClockCycle, VIS_FILE_OUTPUT, visFilename >>

Update ==
  /\ Between /\ running /\ hasPendingTransactions
  /\ \/ ShortCircuit /\ BeginActualUpdate
     \/ /\ BeginUpdate
        /\ UNCHANGED << clientVars, thrown, channels, channel, currentClockCycle,
                        fileVars, csvOut >>

ActualUpdate ==
  /\ channel = 0 /\ ~thrown
  /\ Callback
  /\ BeginActualUpdate

UpdateReturns ==
  /\ channel = 0 /\ ~thrown
  /\ EndUpdate
  /\ UNCHANGED << clientVars, thrown, channels, channel, currentClockCycle, fileVars, csvOut >>

AcceptAnyway(ch) ==  \* mutant
  IF ch.pending > 0 THEN [ch EXCEPT !.pending = @ - 1, !.queued = @ + 1] ELSE ch

AcceptPending(ch) ==
  IF ch.pending > 0 /\ WillAcceptTransaction(ch)
    THEN [ch EXCEPT !.pending = @ - 1, !.queued = @ + 1]
    ELSE ch

(* MemorySystem::update: bursts end, a command is issued and counted, a    *)
(* transaction becomes a command.                                          *)
Updated(ch) ==
  LET a == AcceptPending(ch)
      Work == {w \in [ended : 0 .. 1, sent : 0 .. 1, moved : 0 .. 1] :
                 /\ w.ended <= a.issued /\ w.sent <= a.commanded /\ w.moved <= a.queued
                 /\ a.commanded - w.sent + w.moved <= CMD_QUEUE_DEPTH}
  IN  {[a EXCEPT !.issued = @ - w.ended + w.sent, !.commanded = @ - w.sent + w.moved,
                 !.queued = @ - w.moved, !.total = @ + w.sent] : w \in Work}

AllButTheLast == channel = NUM_CHANS - 1  \* mutant

AtLastChannel == channel = NUM_CHANS

UpdateChannel(c) ==
  /\ channel = c
  /\ \E ch \in Updated(channels[c]) : channels' = [channels EXCEPT ![c] = ch]
  /\ IF AtLastChannel
       THEN /\ channel' = 0
            /\ currentClockCycle' = (currentClockCycle % EPOCH_LENGTH) + 1
       ELSE /\ channel' = channel + 1
            /\ UNCHANGED currentClockCycle
  /\ UNCHANGED << clockVars, clientVars, thrown, fileVars, csvOut >>

Step ==
  \/ RunReturns \/ Update \/ ActualUpdate \/ UpdateReturns
  \/ \E c \in Channels : UpdateChannel(c)

FrontNext ==
  \/ \E c \in Channels : AddTransaction(c)
  \/ SetSpeed \/ PrintStats \/ Run \/ Step

(* A client that is in run() goes on; a channel that is updated again and  *)
(* again and has work gets on with it (RunTerminates of MemorySystem).       *)
Fairness ==
  /\ WF_frontVars(Step)
  /\ \A c \in Channels : SF_channels(UpdateChannel(c))

FrontSpec == FrontInit /\ [][FrontNext]_frontVars /\ Fairness

-----------------------------------------------------------------------------
(* Types; no channel holds more than its queues do.                        *)
FrontTypeOK ==
  /\ channel \in 0 .. NUM_CHANS
  /\ currentClockCycle \in 0 .. EPOCH_LENGTH
  /\ visDataOut \in Closed .. maxNumber
  /\ \A c \in Channels :
       /\ \A f \in DOMAIN Idle : channels[c][f] \in 0 .. MaxTransactions
       /\ channels[c].queued <= TRANS_QUEUE_DEPTH
       /\ channels[c].commanded <= CMD_QUEUE_DEPTH
  /\ running => ~thrown

SumOver(f) ==
  LET upTo[c \in 0 .. NUM_CHANS] == IF c = 0 THEN 0 ELSE upTo[c - 1] + f[c]
  IN  upTo[NUM_CHANS]

(* hasPendingTransactions looks at numOnTheFlyTransactions alone, which    *)
(* leaves out what waits in pendingTransactions.  All the same, when it is *)
(* 0 nothing waits on any channel, and the totals that the bandwidth is    *)
(* worked out from have every transaction that was ever added.             *)
EveryAccessCounted ==
  ~hasPendingTransactions =>
    /\ \A c \in Channels : channels[c].pending = 0
    /\ accepted = SumOver([c \in Channels |-> channels[c].total])

(* The rows of the epochs and the final ones come in any order and share   *)
(* one writer, which tells a header from a row by when it is called.  Yet  *)
(* every row has as many values as the header has names, and on an epoch's *)
(* line each value stands below its own name.                              *)
RowsMatchHeader ==
  /\ csvOut.fields \in {0, Len(csvOut.names)}
  /\ csvOut.epoch \in {<< >>, csvOut.names}

(* The rows of a run all go to one file, which no earlier run has left:    *)
(* opening it empties it.  InitOutputFiles is called when the cycle is 0,  *)
(* to which it never goes back, and the search for a name gives none that  *)
(* ends in ".vis" and exists.  The one file that a run may empty is that   *)
(* of the bare name, when every name with ".vis" that is tried exists; an  *)
(* earlier run that found them all taken has left it, and its rows are     *)
(* lost.                                                                   *)
OneFileOfItsOwn ==
  [][visDataOut' # visDataOut =>
       /\ visDataOut = Closed
       /\ \/ visDataOut' \notin files
          \/ visDataOut' = Bare /\ 0 .. maxNumber - 2 \subseteq files]_frontVars

(* The loop of run() ends, with the last transaction or by an exception.   *)
RunReturned == running ~> ~running

=============================================================================
