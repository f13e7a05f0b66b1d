# A verification model of PIMSimulator

PIMSimulator is a cycle-accurate simulator of HBM2 memory with processing in
memory (PIM), derived from DRAMSim2. This directory holds TLA+ modules of its
core, the TLC configurations that check them on small instances, and proofs
that TLAPS checks for every instance.

## 1. The system

A *client* (`tests/PIMKernel.cpp`, `tools/emulator_api/PimSimulator.cpp`, the
labs and tests) adds transactions and barriers to a
`MultiChannelMemorySystem` and then calls `update()` once per cycle until
`hasPendingTransactions()` is 0. Channels share nothing but the clock. A
channel is one thread: `MemorySystem::update()` calls its parts in a fixed
order, and what is concurrent is the hardware it simulates: commands, bursts
and timers under way at once.

```
client --> pendingTransactions --> transactionQueue --> queues[rank] --> command bus --> Rank
       \______________________________^                                      data bus <--/
```

| component | state | operations | hard parts |
|---|---|---|---|
| `MultiChannelMemorySystem` | channels, cycle, output files | `addTransaction`, `addBarrier`, `update`, `run` | polling a count that leaves out a backlog; one writer for epoch rows and final rows |
| `ClockDomainCrosser` | two counters | `update` | the ratio over a long run |
| `AddressMapping`, `PIMAddrManager` | bit widths | `addressMapping`, `addrGen` | two opinions of one layout; widths read before the rank count is fixed |
| configuration | one table per process | reading ini files, defaults, choice of policies | the table of an earlier system, two copies of one parameter |
| `MemorySystem` | `pendingTransactions`, `numOnTheFlyTransactions` | `addTransaction`, `addBarrier`, `update` | a full controller, overtaking of the backlog, what a barrier tags |
| `MemoryController` | `transactionQueue`, `bankStates`, the two buses, pending reads, refresh timers | the steps of `update()` | its own copy of the bank timing; bus turnaround between ranks; matching read data |
| `CommandQueue` | a queue per rank, two round-robin cursors, one refresh slot | `pop()`, `enqueue()`, `needRefresh()` | reordering under barriers, starvation, a single slot for all ranks |
| `Rank` | `bankStates`, `mode_`, mode-register flags, read return queue | `receiveFromBus`, `update` | exits when it disagrees with the controller; modes switch as a side effect of ACTIVATE and PRECHARGE |
| `PIMRank`, `PIMBlock`, `Bank` | the program (CRF), its counter, one jump and one repeat register, vector registers, cells | `controlPIM`, `writeHab`, `readHab`, `doPIM` | it counts accesses and must stay in step with them; loops and the end of the program |
| `PIMCmd`, `PIMCmdGen` | instructions | encoding, the programs of the kernels | fields of fixed width |
| `PIMKernel`, `CustomPIMKernel` | a list of transactions, four buffers they point to | preload, the kernels, `runPIM`, `readResult` | relies on barriers alone to separate the modes; buffers used again under pointers to them |
| `PimSimulator` | a system, bursts | stores and reads streams, adds up results | swapped row bits; sums in place |
| `CSVWriter` | names, values, one flag | `<<`, `finalize` | a header or a row, by the time of the call |

What makes each part correct: the channel neither loses, duplicates nor
miscounts a transaction and lets `run()` return only when nothing is left;
accesses to one burst and accesses around a barrier keep their order although
the scheduler reorders the rest; the controller never sends what the rank would
stop the program for; one burst is on the data bus at a time; every refresh
owed is sent; every batch is finished. For PIM: every access of a kernel
arrives in the mode, with the program and at the instruction it was written
for, although the sequencer sees nothing but a stream of accesses; a kernel
ends, leaves the rank in single-bank mode and leaves the right result in every
cell that is read back. For the client: all parts of a system mean the same
place by an address, operands lie where the kernels read them, and results come
back complete and in order.

The hard parts, one by one and with the property that watches each, are the
`hazards` of `PROJECT.json`.

## 2. The modules

| module | models | EXTENDS |
|---|---|---|
| `TransactionFlow` | the path of a transaction, timing abstracted: the abstract specification | |
| `CommonLemmas` | lemmas on sequences, sets and loops that the proofs share | |
| `TransactionFlowProofs` | types, accounting and order on a transaction's path | `TransactionFlow`, `CommonLemmas` |
| `DramTiming` | parameters and derived delays (`Configuration.h`), time arithmetic | |
| `PIMCmd` | `PIMCmd.h`, `PIMCmd.cpp`: instructions and their 32-bit code | |
| `PIMRank` | modes, control word, CRF and sequencer of `PIMRank.cpp` | `DramTiming`, `PIMCmdGen` |
| `Rank` | `Rank.cpp` | `PIMRank` |
| `CommandQueue` | `CommandQueue.cpp` | `Rank` |
| `MemoryController` | `MemoryController.cpp` | `CommandQueue` |
| `MemorySystem` | `MemorySystem.cpp` and the client: the whole channel, `Spec`, `FairSpec` | `MemoryController` |
| `ChannelProofs` | types, timers and reads of the channel; that it implements `TransactionFlow`, step by step | `MemorySystem`, `CommonLemmas`; `TransactionFlowProofs` by `INSTANCE` |
| `ChannelTimingProofs` | buses, bank timing, refreshes and progress of the channel | `ChannelProofs` |
| `PIMCmdGen` | the programs of `tests/PIMCmdGen.h`, `labs/CustomPIMCmdGen.cpp` | `PIMCmd` |
| `PIMLayout` | where operands and results of a kernel lie | `PIMCmdGen` |
| `PIMKernel` | the kernels as sequences of calls, and the buffers they point to | `PIMRank`, `PIMLayout` |
| `PIMData` | cells, vector registers and the arithmetic of `PIMRank.cpp`, `PIMBlock.cpp` | `PIMKernel` |
| `PIMProgram` | a session of kernels and a sequencer, with any order the barriers allow between them: `ProgramSpec` | `PIMData` |
| `PIMProgramProofs` | that the accesses of the kernels and their programs stay in step | `PIMProgram`, `CommonLemmas` |
| `PIMSystem` | a kernel on the channel: `SystemSpec` | `MemorySystem`, `PIMKernel` |
| `PIMSystemProofs` | what a kernel has from its channel | `PIMSystem`, `ChannelTimingProofs` |
| `Configuration` | ini files, defaults, the table of parameters | |
| `AddressMapping` | the ten schemes of `AddressMapping.cpp`, and `PIMAddrManager` | `Configuration` |
| `PIMHost` | a client with one system after the other: construction, preload, read back, sums, streams: `HostSpec` | `PIMLayout`, `AddressMapping` |
| `PIMHostProofs` | one geometry, operands and results in their places, sums, streams | `PIMHost`, `CommonLemmas` |
| `ClockDomain` | `ClockDomain.cpp` | |
| `MultiChannelMemorySystem` | `update()`, `run()`, statistics rows, output files: `FrontSpec` | `ClockDomain` |
| `MultiChannelMemorySystemProofs` | theorems on it and on `ClockDomain` | `MultiChannelMemorySystem`, `CommonLemmas` |
| `MCTransactionFlow`, `MCMemorySystem`, `MCPIMProgram`, `MCPIMSystem`, `MCPIMHost` | addresses, kernels and files of the instances | |

**Correspondence.** Variables and operators keep the names of the source.
`MemorySystem::update()` is cut where control passes from one part to the next;
`phase` says which step is next, so one cycle is the walk
`client, pending, bus, refresh, command, dispatch, return`, and each step is one
action that models all of its code. `fault` records a call of `exit()` or
`abort()`; nothing happens after it.

**Time.** The code compares absolute cycles (`nextRead`, ...) with
`currentClockCycle`; only differences matter, so the model keeps the number of
cycles until a time is due, which makes the state space finite.

**Data.** On the channel an address is a record of rank, bank, row and column;
two are equal iff they are the same burst. A transaction carries a ghost `id`, its
place in the order of the adds, and `fences` is a ghost set of the barriers that
were accepted. A write to the register row carries data that matters, a control
word or eight instructions; `WriteData`, a constant operator, gives it by `id`.
`PIMData` adds what the cells and registers hold: an exact polynomial in the
bursts of the operands, so that two results are equal iff the same products
were summed, whatever the numbers are. `PIMHost` keeps for each place the name
of the burst that was stored there last.

**PIM.** `Rank` calls `AccessColumn` of `PIMRank` for a READ or WRITE, as
`sendToBank` does: an access executes an instruction (`ExecutePIM`), writes the
control word (`ControlPIM`) or a burst of the program (`WriteCrf`), or only
moves data (`MoveData`). `DoPIM` is one call of `doPIM`, with the jumps it takes
before it finds an instruction to execute. Instructions are records
with the fields of `PIMCmd`; `toInt` gives each its bits and `fromInt` takes them
out again, so a value that does not fit arrives cut off as in the code. A program
goes through both on its way to the CRF.

**Kernels.** The functions of `PIMKernel` are straight-line code, so each is the
sequence of its calls, built with the same loops. Each call carries what it is
for: the modes in which it should arrive and the type of the instruction it
should execute. `AsIntended` compares that with what the rank does. The intent
is taken from the tags and comments of the calls (`"MAC_"`, `"GRF_TO_BANK"`,
`"BANK_TO_GRF_"`, ...) and from which side of the banks they address.

`labs/CustomPIMKernel.cpp` is a copy of the GEMV functions of
`tests/PIMKernel.cpp` with the same calls in the same order; one definition
stands for both. A transaction points to a buffer of the kernel (`crf_bst_`,
`bst_hab_pim_`, `bst_hab_`, `null_bst_`) or of the input, and the buffer is read
when the access is executed; a session runs several kernels on one `PIMKernel`,
which uses these buffers again.

**Clients.** `CLIENT` says how the driver behaves: `"batch"` adds a program and
then runs it (`PIMKernel`, `PimSimulator`), `"polite"` streams and asks
`willAcceptTransaction()` first, `"eager"` streams without asking.
`MaxTransactions` bounds what a client adds in a behaviour.

**Refinement.** `MemorySystem!ImplementsFlow` says that the channel implements
`TransactionFlow`: a read is in flight from its READ command until it is
returned, a write from its WRITE command until its data is sent.
`PIMProgram` takes from the channel only what `TransactionFlow!BarrierOrder`
promises: accesses between two barriers arrive in any order, those on two sides
of one in order. `PIMSystem` puts the same kernel on the real channel. `PIMHost`
takes from `PIMProgram` which cells a kernel reads and writes (both use
`PIMLayout`) and asks whether the client's addresses are those cells.
`MultiChannelMemorySystem` takes from `MemorySystem` that a channel with work
makes progress, and keeps of a channel how many transactions are where.

## 3. What the runs check

Timing of the small channels is shrunk (RL 5, WL 2, tRAS 8, tREFI 40, ...) with
the order of the parameters kept, so that refreshes, row conflicts and
turnarounds all happen within three transactions; `kernel_hbm2` uses the
values of `ini/HBM2_samsung_2M_16B_x64.ini`.

| run | instance | shows |
|---|---|---|
| `flow_batch` | 2 ranks, queues of 2, 4 transactions | the path of a transaction counts, orders and fences them whatever the timing does (`Accounting`, `NothingLeftBehind`, `SameAddressOrder`, `BarrierOrder`) |
| `channel_batch` | 1 rank, 2 banks, queues of 2, 3 transactions, refreshes | the controller sends nothing its rank exits for (`RanksAgree`), one command and one burst are under way on a bus (`BusesExclusive`), the scheduler stands still only at a barrier, reads get their own data, the channel implements `TransactionFlow` and every run ends (`RunTerminates`) |
| `channel_ranks` | 2 ranks, bank-then-rank policy | no refresh is lost in the one slot, no timer runs past 0, `RanksAgree`, and the refinement with two queues |
| `programs` | sessions of one to three kernels (ADD, MUL, RELU, GEMV, GEMVTREE), 1 to 4 tiles, 2 output tiles or 2 vectors | each access executes the instruction it was written for, the program has come to its EXIT when it is stopped, every cell that is read back holds the right polynomial (`SupportedResultCorrect`) |
| `kernel` | GEMV of 2 tiles, 2 registers, 16 banks, small timing, queues of 4 | the kernel on the channel, started at every distance from a refresh: `NoFault`, `AccessAsIntended`, `ModeRestored`, `KernelTerminates` |
| `kernel_hbm2` | RELU of 1 tile, 8 registers, device timing, queues of 64 | the same safety and `BusesExclusive` with the shipped timing |
| `host` | two systems of up to 2 channels from good and bad files, of sizes down to none for a channel, all schemes, GEMV and GEMVTREE jobs, streams over all of the memory | `GeometryAgrees`, `WeightsPlaced`, `ResultsInOrder`, `SumsComplete`, `StreamKept` |
| `front_end` | 2 channels, ratio 1:1 and 2:3, epochs of 2 cycles, every set of earlier files, the one of the bare name included | `RunReturned`, `EveryAccessCounted`, `RowsMatchHeader`, `OneFileOfItsOwn`, `NoDrift` |

Bounds. Two accesses are enough for each pairwise timing rule, three for a
barrier or an overtaking between them, four for an overflow of both queues. A
queue depth of 2 makes every queue fill up. Deadlock is checked except where a
client may be done.

A session has kernels of different length one after the other, so that a longer
program and a shorter one each follow the other in the same buffers. The loops
of a program meet the even and the odd side with two tiles and an
uneven number of turns with three. `NUM_GRF`, 8 in the code, is both the number
of registers of a file and the length of a repeat; `programs` uses 4 and `kernel`
2, with the same shape. `NUM_COLS_PER_BL`, 32 in the device, is reduced along
with it (16 for 4), so that a matrix crosses the end of a row as it does there.
`PRELOAD` and `RESULTS` bound what the test writes before the kernel and reads
after it. The client of a kernel run may let the channel run idle first; an idle channel
only counts down to its next refresh, so the kernel starts at every distance
from one, which is all that a longer history could change. `kernel_hbm2`
shortens the refresh, tREFI from 3900 to 240 cycles and tRFC from 350 to 100, so that
several refreshes fall into the kernel; everything else is the shipped device.

`host` has banks of four rows of four bursts: every field of an address has at
least one bit, and a stream touches every place of the memory. Two systems are
enough for what one leaves behind in the table. The number of a channel's ranks
is worked out from the memory size, but AddrMapping never gives it a bit (see
`second_rank`), so rank 1 cannot be reached: every run on the channel level
with two ranks goes further than the clients can. Two sizes are at the boundary of
`MemorySystem.cpp:109`: one leaves nothing for a channel, so that it has no rank,
`NUM_RANKS` stays at 0 and nothing is stored, and one is less than a rank and gets
one all the same. In `front_end` a queue depth
of 1 makes a backlog in front of a channel, and three transactions leave one
channel with work when the other has none.

Four runs show where the code departs from what it says of itself:

* `one_tile`: a GEMV of one input tile gives its odd loop the count -1, which
  becomes 131071 in the 17 bits of the instruction. The sequencer never leaves
  the loop and the accesses that should store the results accumulate instead.
* `lost_barrier`: a barrier added when the transaction queue is exactly full
  (64 in the shipped configuration) with nothing pending is refused, and
  `PIMKernel` does not look. Whether it happens depends only on how many
  transactions were added before.
* `reset_grf_b`: GEMVTREE clears GRF_B by a multiplication with a row of zeros,
  which it writes from `null_bst_`. An earlier kernel on the same `PIMKernel` has
  left data in that buffer, since every access whose data nobody wants points
  to it.
* `second_rank`: `AddrMapping` is made before `MemorySystem` works out the number
  of ranks, so its rank field has no bits, and in a memory with room for two
  ranks the second half overwrites the first.

Also noted while modelling, without a run of its own:

* `tXAWCountdown` is never filled (`CommandQueue.cpp:431`), so the window that
  `isIssuable` tests is always empty. In the shipped device four activations
  spaced by tRRDS take tXAW anyway. `rowAccessCounters` is never incremented,
  so `TOTAL_ROW_ACCESSES` (`CommandQueue.cpp:445`) limits nothing.
* With two ranks, banks of the other rank that have no open row when a READ or
  WRITE is issued are not told of it (`MemoryController.cpp:215`). Activated
  right after, they put a write burst on the data bus while the read burst is
  still there, also with the shipped timing; the collision check looks at
  writes only. For this reason `channel_ranks` does not check `BusesExclusive`.
  No client reaches a second rank (see `second_rank`).
* `addBarrier` tags one transaction, so with two PIM ranks only the queue of the
  last is fenced. The clients in the repository use one rank, and so do the runs.
* The column of the results of output tile j and vector b is a function of j + b
  (`PIMKernel.cpp:414`): with several of both, results overwrite each other. With
  an odd number of input tiles and several output tiles the place of the tiles
  is rounded down and they overlap (`PIMKernel.cpp:413`). GEMVTREE's program is
  written for two tiles (`PIMCmdGen.h:143`). The properties are limited to what
  the clients run: see `Supported`.
* `adderTree` halves the number of tiles level by level; when a later level has
  an odd number of them, `temp[num_tile]` (`PIMKernel.cpp:618`) is one past the
  last sum. `SumsComplete` is checked for the powers of two the clients have.
* An access to another row of a bank in front of the queue and a barrier on the
  open row behind it wait for each other until the next refresh closes the row.
  `StandstillOnlyAtBarrier` shows that this is the only way for the scheduler to
  stand still.
* A refresh does not stop commands (the test at `CommandQueue.cpp:213` is
  commented out, although `MemoryController.cpp:545` says *else*), so an endless
  stream of row hits postpones it for ever; and a REF follows its last
  PRECHARGE without waiting tRP.
* With `VIS_FILE_OUTPUT` and no file name, `update()` throws in its first cycle:
  it reads the name of the mapping scheme as a number
  (`MultiChannelMemorySystem.cpp:262`). `RunReturned` holds because the loop ends
  with the exception.
* `FilenameWithNumberSuffix` tries suffix 1 twice and the last one never, and when
  every name that it tries exists it returns the name without suffix and ".vis"
  (`MultiChannelMemorySystem.cpp:150`). The first run of this kind leaves that file
  and the next one empties it when it opens it (line 283): the rows of the first are
  lost. `OneFileOfItsOwn` has this as its one exception.
* The final rows of statistics end in a histogram that is written through the
  line (`MemoryController.cpp:780`): the values of later channels do not stand
  below their names. `RowsMatchHeader` therefore compares names with values for
  epoch rows and only counts them for final ones. `resetStats()` is not called
  at the end of an epoch, the fence counter counts refused barriers too
  (`MultiChannelMemorySystem.cpp:455`), a second system truncates the log of the
  first (line 309), and the destructor reads `configuration` after it has been
  deleted (line 359). The comment at `MemorySystem.cpp:241` expects
  `pendingTransactions` to be used by MARSS alone, but every client that fills the
  controller uses it.

**Fairness.** The simulator is one thread, `update()` never blocks, and `run()`
keeps calling it while anything is pending. `FairSpec` therefore assumes weak
fairness of the steps of `update()` and of the return of `run()`, and nothing of
the client's adds. `SystemSpec` assumes weak fairness of the next step once the
first call has been made: a test adds its kernel and calls `runPIM` in one
thread, and only the idle running before that is left open. `FrontSpec` assumes
weak fairness of the steps of `run()` and `update()`. A channel is reduced to
counts there, and which of them move in a cycle is left open; that a channel
with work which is updated again and again gets on with it is strong fairness of
`UpdateChannel(c)` with respect to `channels`. It is what `RunTerminates` shows
of the whole channel.

## 4. What is proved

TLAPS checks every proof to the last leaf. The theorems hold for every value of
the constants under the assumptions of the modules (`QueueAssumption`,
`ClientAssumption`, `GeometryAssumption`, `TimingAssumption`, `SystemAssumption`,
`ClockAssumption`, `FrontAssumption`, `ScriptAssumption`, `KernelAssumption`, `SessionsAssumption`:
counts and delays are numbers, an address has a rank and a bank, the memory's clock is not 0, a
script has reads, writes and barriers, a session is a sequence of at least one of the five kernels)
and of what is named with them below.

### The path of a transaction

`TransactionFlowProofs` proves `TypeOK`, `Accounting` and `NothingLeftBehind` of
`FlowSpec`. None is inductive. `FlowInv` adds that every transaction is in exactly
one place (`OnePlace`), that ids are given out once (`FreshId`), so that moving a
transaction leaves the set of ids the controller holds unchanged, and
`OverflowBacked`: while something waits in front of the controller, its queue is
full or has just passed one command on. That is why the counter cannot read 0 with
a backlog.

It also proves `SameAddressOrder` and `BarrierOrder`, for every client whose adds
overtake nothing (`Patient`): a transaction that is added right into the queue finds no
backlog in front of the controller. Clients that ask first are patient, and so is one that
adds all before it runs; the `"eager"` one is not (`MemorySystem.cpp:212`). `OrderInv` says that ids grow along each queue (`QueuesSorted`),
that what is pending is younger than what is queued (`PendingNewest`), that what
has been split over the ranks keeps the order of each rank (`RankOrder`), that of
two accesses to one burst the older is issued first (`NoOvertaking`) and that a
tagged command has everything older in front of it and everything younger behind
it (`Fenced`). The guard that matters is the one that the scheduler passes over no
access to the same burst and stops at a barrier.

### The channel

| theorem | says | assumes besides |
|---|---|---|
| `RefreshOnScheduleAlways` | no refresh timer is run past its end | |
| `ReadsSpacedAlways` | the reads of a rank are a burst apart in its return queue | |
| `OwnReadReturnedAlways` | data goes to the read that asked for it | |
| `ImplementsFlowAlways` | the channel implements `TransactionFlow` | W |
| `ChannelAccounting`, `ChannelNothingLeftBehind`, `ChannelSameAddressOrder`, `ChannelBarrierOrder` | what `TransactionFlow` promises holds of the channel | W; the last two a client that is not `"eager"` |
| `BusesExclusiveAlways` | one command and one burst on a bus | `DataFits` |
| `RanksAgreeAlways` | the rank refuses no command | C, T, P |
| `OnlyRanksStop` | no queue, bus or return path stops the program | `DataFits` |
| `ChannelNeverStops` | nothing does: `exit()` and `abort()` are out of reach | `DataFits`, T, P |
| `StandstillOnlyAtBarrierAlways` | the scheduler rests only at a barrier | C, T, P |
| `ChannelTypeCorrect` | `TypeOK` | W, C, T, P |
| `RefreshNotLostAlways` | no refresh is lost | C, one rank |
| `RefreshNotLostUnlessOverwritten` | the same for any number of ranks, while the slot is served in time (`SlotServed`) | C |

W is `tRCDWR - AL + 1 >= BurstCycles`, C is `tCMD = 1`, T is `tWTRS <= tWTRL`, P is
`PlainRows`: no address lies in a register row, so the mode stays SB; only the PIM
driver uses these rows. The shipped device satisfies W (10 + 1 >= 2), C and T
(4 <= 9), and so do all instances that TLC checks. `tCMD` is 1 in the ini
file.
`DataFits` is C, W, `tRTRS >= 1` and either one rank or an ACTIVATE that takes
long enough for the turnaround between ranks. The shipped timing does not satisfy
the second alternative (it asks for tRCDWR >= RL + 2 - WL = 14, the device has 10),
and the collision noted at `MemoryController.cpp:215` is what follows;
with one rank, as AddrMapping leaves it, the theorem covers it.

The inductive invariants, and why each is needed:

* *Refresh timers.* `InTurn`: the countdowns of all ranks follow from that of
  `nextRefresh`, each ahead of the next by its share of the interval. So the
  only timer that `updateRefresh` looks at is the one that runs out first.
* *Reads.* Nobody tests the data pins of a rank: `ReadsSpaced` says that
  `nextRead` of every open bank keeps the next READ a burst behind the last one in
  the return queue, wherever that is: on the command bus, in the queue or on the
  bus. The controller finds the transaction of returned data by searching
  `pendingReadTransactions` for its address, so it is right only if reads of one
  burst come back in the order in which they were sent: `ReadsInOrder` says that
  the pending reads are exactly those under way, and in that order.
* *Refinement.* A write leaves `TransactionFlow` when its data is sent, so
  `WritesSpaced` has to keep each write burst clear of the next, and
  `CommandsOnce` says that a transaction is in one of the queues, pending or in the
  write data, once. Every action of the channel is then one step of
  `TransactionFlow` or a stutter, action by action. The order and accounting
  theorems are instances of those of `TransactionFlowProofs`, whose assumptions
  are proved of the channel's constants (`FlowAssumptions`).
* *Buses.* `DataApart` looks at each rank and the controller as a lane and gives
  every burst that is in it a slot, the cycle at which it will be on the bus. Slots
  never overlap (`Apart`), none is further away than that of a command sent
  now (`InTime`), and the bank times keep the next command's slot clear (`Clear`).
* *Bank timing.* The controller and the rank both count the timing of every bank,
  and the rank calls `exit()` when a command comes too early for its copy.
  `Agreement` says that they stay in step: a time of the rank is at most one cycle
  later than the controller's, since a command takes a cycle to arrive; a command
  that is on the bus has been charged to the controller's copy and will be accepted
  on arrival; open rows are the same once the command on the bus is counted in.
* *Refreshes.* `RefreshNotLost` is inductive only while the single slot
  (`refreshWaiting`, `refreshRank`) is free when the next rank falls due. With one
  rank it always is, since the rank that overwrites is the rank that waits.
* *Progress of the scheduler.* When all timers of a rank have run out, the first
  access whose row is open (`OnOpenRow`) could be sent, and a bank that is
  not open could be opened or closed; what is left is a barrier.
* *Types.* `ChannelTypeInv` adds bounds: cursors of the round robin
  (`CursorsTyped`), queues within their depth (`QueuesBounded`), latencies and
  bursts in range (`LatencyBounded`), register rows untouched
  (`RegistersUntouched`). That the counters are numbers from 0 comes from the
  refinement.

### The front end

`MultiChannelMemorySystemProofs` proves `NoDrift` of the crosser for any two frequencies. The history variable
`lead` adds `clock2` for a callback and takes `clock1` off for an update; the
claim is that between updates it is from 0 to `clock2 - 1`, so the memory has
made the ratio of the clocks, rounded up. `ClockInv` says that `lead` is the
difference of the two counters, also across their reset.

Of the front end it proves `FrontTypeOK`, `EveryAccessCounted`,
`RowsMatchHeader`, `OneFileOfItsOwn` and, through the steps of the crosser inside it,
`NoDrift`, for any number of channels, depths, clocks, epochs and earlier files, and any number of file names to
try, from 2 on (the code has 100).
`FrontInv` adds to the types that accesses are conserved between the client and
the totals and that a backlog has a full queue behind it (`CountsInv`, `Backed`),
that the writer is at the start of a line between two calls and its names are the
header or none (`CsvInv`), and that until the first cycle no file is open
(`FilesInv`). `FreshName` says of the search that it returns a name that no file has,
or the bare one, and that then every name has been found taken.

### A kernel on the channel

`PIMSystemProofs` shows that a run of a kernel is a behaviour of `Spec`
(`KernelIsClient`), so what holds of the channel for every client holds of a
kernel: `KernelBusesExclusive`, `KernelReadsOwnData`, `KernelOnlyRanksStop`. None of
them assumes `PlainRows`, so they cover the changes of mode and the register rows.
`ScriptInv` says how far the script has come, and that whatever waits in front of the
controller between two calls has a full queue behind it.

`KernelSameAddressOrder` and `KernelBarrierOrder` need more. The kernels of the driver
never ask `willAcceptTransaction`, like the `"eager"` client that can be overtaken.
But no update falls between two calls of a kernel: once the queue is full it stays
full until `run()`, and every later call goes behind what waits. So no call overtakes
anything (`KernelPatient`, `UpdateAddsNothing`), and `OrderOfPatientClients` does the
rest.

That is about barriers which `addBarrier` accepted. `KernelBarriersKept` says which those are:
all of a kernel, except those before which exactly `TRANS_QUEUE_DEPTH` accesses (or none) were
added. So the run `lost_barrier` shows the only way to lose one, and whether a script does
can be counted off. `CallsInv` says that before the last call the two queues hold all
accesses so far, that `Filling` is the queue with the newest of them, and that the ids are the places
of the accesses in the script. `KernelStagesInOrder` puts both together: what stands before a
barrier of the script that is not lost is issued before what stands behind it, on the rank of the access that the
barrier tags. With the one rank that the memory has this is what `PIMProgram` takes for granted: that the
accesses arrive stage by stage.

### A kernel and its program

`PIMProgramProofs` is about `ProgramSpec`, for any number of ranks, registers and columns, and any
sequence of kernels with any number of tiles, outputs and vectors.

| theorem | says |
|---|---|
| `InstructionReadBack` | an instruction that fits its fields comes back from its 32-bit code as it went in, but for the fields that its opcode does not have |
| `ControlInvariant` | the invariant `ControlInv`, from which the others follow |
| `ProgramTyped` | `ProgramTypeOK`: the program counter, which `doPIM` does not check, stays in the CRF |
| `StepsAsIntended` | `StepAsIntended`: every access executes an instruction of the type that the kernel meant it to, on the side of the bank that it addressed |
| `ProgramsUsedUp` | `ProgramUsedUp`: when a kernel stops the sequencer, its program has come to EXIT |

None of the three properties is inductive, since each speaks of the next access only, and whether
that one finds its instruction depends on the ones before it and on the order in which they came. The argument
goes rank by rank:

* `Stage` says of the accesses between two barriers that there is a state of the rank for each set
  of those still to come (`Sound`), in which every one of the set is as intended and leads to the state for
  the set without it. So the order does not matter: inside a stage all accesses execute the same word, or
  the words of a burst of the program, or set the control word once.
* `Leads(r, s, ...)` chains the stages of a list of calls, wherever it stands among the others. It
  composes over sequences (`LeadsFurther`) and loops (`LeadsJoined`), as `PIMKernel.cpp` builds a kernel:
  the program is loaded (`LeadsCrf`), started (`LeadsStart`), and a group of `NUM_GRF` accesses goes
  once through the repeats of its word (`LeadsGroup`).
* A JUMP jumps back as often as its count says and then falls through, also when several follow each other
  (`LoopedLoads`, `LeadsLap`, `LeadsHalf`): the one loop register is armed anew only by a JUMP at another
  index than the last, which the rounds of a program see to. So a kernel leads from one rest to the next (`EltwiseFits`, `MatrixFits`),
  whatever the kernel before has left in the CRF and the buffers.
* `ControlInv` says that of what is outstanding now each rank is in the state for that set, and that
  the calls behind the next barrier lead on from there (`OnCourse`). It speaks of functions that exist and so is not
  one that TLC can evaluate; the properties that it implies are those of the run `programs`.

What recursive definitions give for every input, `ForEach` and the bits of `toInt`, is obtained from
their defining equations by `InductionUpTo`, which needs no induction over data: a set of
numbers that has 0 and with each its successor has all.

The theorems assume `RegularSessions`. It says of the device that a register file has at most 2^11 registers (the
repeats of a NOP are an 11-bit field) and a row more than 5 bursts, so that the program has columns of its own
(`RegularSizes`; the device has 8 and 32), and of each kernel (`RegularJob`) that the counts of its loops fit
the 17 bits they have, that its cells do not reach into the rows of the registers, and that a GEMV
has two tiles at least: with one its count is -1, which is what the run `one_tile` shows. `MCPIMProgram` states
of the sessions of the runs that they are regular (`TheSessionsAreRegular`), so TLC evaluates it. Last,
`Carries` says that the data of a write is what the buffer it points to holds, which the configurations of
`PIMProgram` give by `WriteData <- Carried`. With more than one rank, the theorems hold of ranks whose accesses
all barriers hold back; the channel fences one rank at a time, see *Also noted* above.

### The host

`PIMHostProofs` is about powers of two, as far as an unsigned int has them (2^0 to
2^31, where `uLog2` is proved to find the exponent).

`GeometryAgreesAlways`: `AddrMapping`, the channels and `PIMAddrManager` read the table
of parameters at different times, and each channel changes it in between. `GeometryInv`
says what each has worked out in terms of the files alone, that the table has not
changed but for `NUM_RANKS` and `TOTAL_STORAGE`, and that every channel gets the same
number of ranks although it reads what the one before has written. It assumes
`RegularGeometry`: columns, burst length and bytes of the bus are powers of two and
a burst fits a row, and NUM_RANKS is no parameter of the files, for every system that can be used. Otherwise the two constructors really
differ, since one takes the logarithm of a quotient and the other the difference of logarithms.
The shipped files satisfy it. The size is any power of two, also one that leaves nothing for a channel:
no rank is built then, and `NUM_RANKS` still is the 0 that all parts read (`RanksTold`).

The other theorems assume `RegularSystems`: besides that, the numbers of channels, rows,
banks, bank groups and PIM blocks are powers of two (`defaultConfiguration` has no NUM_RANKS, so no file can
set it); every channel of a system with kernels or streams has some memory; a PIM block has at least two banks and lies in one bank group; kernels use
scheme 8, the only one that `addrGen` knows; and operands and results of a kernel fit the
rows of a bank. The files and clients of the repository are of this kind, and TLC confirmed it of the
instance of `host`.

* *Addresses.* `RoundTrip`: by scheme 8 `addressMapping` takes apart what `addrGen` has put
  together. So the walk of preload and read back (`changeBank`) is at a bank of a PIM block
  (`AtBlock`, `WalkPlace`), and different bursts of different blocks are in different cells
  (`CellsApart`).
* `ResultsInOrderAlways`: `ReadInv` says that every result is where the kernel left it, and
  that what has been read are the results of the blocks before the walk, in order.
* `WeightsPlacedAlways`: `PreloadInv` says that the tiles before the walk are stored, each
  in the place that its round has on its side (`TilesDone`). `SlotsApart` and `BlocksApart`
  keep later tiles off them; `TileOfColumn` leads from the column in which a kernel looks
  for a burst back to the round that stored it.
* `SumsCompleteAlways`: `adderTree` halves the partial sums level by level in the array it
  reads. `TreeInv` says that after `step` levels the first `num_tile` entries are the sums
  of runs of 2^step neighbouring tiles, and that what the array holds behind them is never
  read. It assumes `TreesHalve` (GEMVTREE has 2^k tiles, k >= 1).
* `StreamKeptAlways`: `AddressesApart` says that by every one of the ten schemes two bursts
  share a place only if they are one. Its hypothesis `RegularStreams` keeps a stream in the first rank of every
  channel, and the two bits that the emulator swaps among those of a burst's number;
  `SwapStays` and `SwapsApart` say that the swap is one-to-one on the memory. The run
  `second_rank` shows what happens beyond the first rank.
* `HostTypeOKAlways`: every access is to a channel, a rank and a bank that there is.

### Only model-checked

* Liveness (`RunTerminates`, `KernelTerminates`, `RunReturned`): out of this
  prover's reach.
* What the cells hold in the end (`SupportedResultCorrect` of `PIMProgram`): sums and products are recursive
  functions of the data, and a proof would follow every value through registers and cells. The control that it
  rests on is proved.
* Of `PIMSystem` `NoFault`, `AccessAsIntended`, `ModeRestored`, and its types, which depend on
  them. The modes of a rank change as a side effect of opening and closing rows, and which rows the scheduler
  and the refreshes open and close in the meantime is not fixed by the barriers alone. That the accesses come in
  the order the program needs is proved (`KernelStagesInOrder`), and that it then fits (`StepsAsIntended`).
* `RefreshNotLost` with several ranks when the slot is not served in time: the code
  gives no bound on how long a refresh waits.
* `RanksAgree` with register rows (`kernel`, `kernel_hbm2`): there a rank changes its
  mode, and with it which banks an ACTIVATE opens.

## 5. Not modelled

* `lib/` (`half.h`, `npy.h` and others): vendored. Values are exact polynomials, so
  rounding and the order of sums in floating point are left out.
* `Burst.h`: how a burst is cut into numbers; a burst is one value here.
* Printing, statistics that are only printed, energy, log and verification files.
* Destructors, and two systems in use at once: `PIMHost` makes one after the other,
  as every client does.
* `powerUp` and `powerDown`: nothing calls them. The per-bank queue structure:
  `pop()` exits for it.
* Of the instructions MAD, MOV to a bank and the scalar registers, which no kernel
  that is run uses; the batch norm and SRF kernels, which are commented out; and
  `executeMemset` of the labs, an exercise without its changes of mode.
* Reading trace and array files in `PimSimulator`: input only. The exercises of the labs
  and the expected values of the tests: what they do with the library is the
  client of the models.

## 6. Plan

All the components of the table in section 1 have a module, and the channel, the
path of a transaction, the front end, a kernel's program, its use of the channel and the host
have their theorems. What is left, in order of worth:

1. `SupportedResultCorrect`: the states that `Stage` gives for each set of outstanding accesses, with the
   registers and cells added to them.
2. `ModeRestored` and `NoFault` of `PIMSystem`, from `RanksAgreeAlways` without
   `PlainRows`: the modes of a rank change with its rows, so an invariant has to say
   which rows are open in which mode.
3. `RefreshNotLost` for two ranks, from a bound on how long the slot is taken.
