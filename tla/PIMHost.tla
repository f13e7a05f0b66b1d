------------------------------- MODULE PIMHost -------------------------------
(***************************************************************************)
(* A client of the simulator: it makes a memory system from two ini files  *)
(* and a size, stores operands in it, has a kernel run, and reads the      *)
(* results back.  The accesses take effect in the order in which they are  *)
(* made; what the channels do to that is in MemorySystem, and how a kernel *)
(* computes is in PIMProgram.  Here the question is whether all parts mean *)
(* the same place by an address.                                           *)
(*                                                                         *)
(* Sizes are in bytes where the code has megabytes, the unit it divides    *)
(* the memory by.  A kernel stores to the start of every bank; streams     *)
(* start at address 0.                                                     *)
(***************************************************************************)
EXTENDS PIMLayout, AddressMapping

CONSTANTS
  Systems,     \* What clients ask for.
  MaxSystems,  \* Bound on the systems a client makes.
  RA12         \* The bit of an address that is bit 12 of the row.

(* A system is [device, system, megsOfMemory, num_pim_chans, clients]: two *)
(* files, a size, the channels with kernels, and what is done with it.     *)
ASSUME SystemsAssumption ==
  /\ MaxSystems \in Nat /\ RA12 \in 0 .. MAX_LOG - 1
  /\ \A s \in Systems : /\ s.megsOfMemory \in Nat /\ IsPowerOfTwo(s.megsOfMemory)
                        /\ s.num_pim_chans \in Nat \ {0}

NUM_PIM_RANKS == 1  \* in every client

VARIABLES
  db,       \* ConfigurationDB
  made,     \* systems made so far
  system,   \* the one in use
  phase,    \* where its client is
  mapping,  \* its AddrMapping
  config,   \* its Configuration, the number of channels and ranks
  ranks,    \* the ranks that each channel was made with
  manager,  \* the PIMAddrManager of its kernel
  banks,    \* what is stored, by channel, rank, bank, row and column
  walk,     \* the loops of preloadGemv, readResult and adderTree
  got,      \* the bursts read back, in order
  sums      \* adderTree's temp, and its results

hostVars == << db, made, system, phase, mapping, config, ranks, manager, banks,
               walk, got, sums >>

-----------------------------------------------------------------------------
(* Making a system.                                                        *)

NoSystem == [jobs |-> {}, streams |-> {}]

HostInit ==
  /\ db = << >> /\ made = 0 /\ system = NoSystem /\ phase = "none"
  /\ mapping = << >> /\ config = << >> /\ ranks = << >> /\ manager = << >>
  /\ banks = << >> /\ walk = << >> /\ got = << >> /\ sums = << >>

(* The table of the process is filled again.  The second file overrides    *)
(* the first.  A file that cannot be read throws after the one before it   *)
(* has been applied.                                                       *)
Tables(s) ==
  LET first  == Initialize(db, defaultConfiguration)
      second == UpdateFromFile(first, GetParameter(s.device))
  IN  CASE ~Readable(s.device) -> first
        [] ~Readable(s.system) -> second
        [] OTHER -> UpdateFromFile(second, GetParameter(s.system))

Construct(s) ==
  /\ phase \in {"none", "done"} /\ made < MaxSystems
  /\ made' = made + 1 /\ system' = s
  /\ db' = Tables(s)
  /\ IF Readable(s.device) /\ Readable(s.system) /\ IsUsable(db')
       THEN /\ phase' = "channels"
            /\ mapping' = AddrMapping(db')
            /\ config' = [ NUM_CHANS |-> GetConfigParam(db', "NUM_CHANS"),
                           NUM_RANKS |-> GetConfigParam(db', "NUM_RANKS") ]
       ELSE phase' = "thrown" /\ UNCHANGED << mapping, config >>
  /\ ranks' = << >> /\ banks' = << >> /\ manager' = << >>
  /\ walk' = << >> /\ got' = << >> /\ sums' = << >>

BytesPerRank ==
  LET p(key) == GetConfigParam(db, key) IN
  (p("NUM_ROWS") * (p("NUM_COLS") * p("DEVICE_WIDTH")) * p("NUM_BANKS")
     * (p("JEDEC_DATA_BUS_BITS") \div p("DEVICE_WIDTH"))) \div 8

NotSynchronized(n) == config  \* mutant

Synchronized(n) == [config EXCEPT !.NUM_RANKS = n]

(* MemorySystem's constructor: the size determines the number of ranks.    *)
(* There is none when nothing is left for a channel, and NUM_RANKS stays   *)
(* as it was.                                                              *)
ConstructChannel ==
  /\ phase = "channels" /\ Len(ranks) < config.NUM_CHANS
  /\ LET bytes == system.megsOfMemory \div config.NUM_CHANS
         fit   == bytes \div BytesPerRank
         n     == IF bytes = 0 THEN 0 ELSE IF fit > 0 THEN fit ELSE 1
     IN  /\ db' = Put(IF bytes # 0 THEN Put(db, "NUM_RANKS", n) ELSE db,
                      "TOTAL_STORAGE", n * BytesPerRank)
         /\ config' = IF bytes # 0 THEN Synchronized(n) ELSE config
         /\ ranks' = Append(ranks, n)
  /\ UNCHANGED << made, system, phase, mapping, manager, banks, walk, got, sums >>

(* PIMKernel's constructor.                                                *)
ConstructKernel ==
  /\ phase = "channels" /\ Len(ranks) = config.NUM_CHANS
  /\ manager' = PIMAddrManager(db)
  /\ phase' = "ready"
  /\ UNCHANGED << db, made, system, mapping, config, ranks, banks, walk, got, sums >>

-----------------------------------------------------------------------------
(* Accesses.                                                               *)

Store(b, addr, value) == Put(b, addressMapping(mapping, addr), value)

(* Stores to many cells.                                                   *)
StoreAll(b, new) ==
  [c \in DOMAIN b \cup DOMAIN new |-> IF c \in DOMAIN new THEN new[c] ELSE b[c]]

(* Bank::read leaves the caller's burst as it is where nothing was stored. *)
Load(addr) ==
  LET c == addressMapping(mapping, addr) IN
  IF c \in DOMAIN banks THEN banks[c] ELSE << "unread" >>

BanksPerGroup == GetConfigParam(db, "NUM_BANKS") \div GetConfigParam(db, "NUM_BANK_GROUPS")
BanksPerBlock == GetConfigParam(db, "NUM_BANKS") \div GetConfigParam(db, "NUM_PIM_BLOCKS")
PimBlocks     == GetConfigParam(db, "NUM_PIM_BLOCKS") * system.num_pim_chans * NUM_PIM_RANKS

(* One side of the next PIM block; the starting column moves on when all   *)
(* of them have had their turn.                                            *)
Starting(op, start) == [ op |-> op, at |-> 0, ch |-> 0, ra |-> 0, bg |-> 0, bank |-> 0,
                         start |-> start ]

NextStartEarly(w, side, wrapped, end) ==  \* mutant: after every channel
  IF w.bank = 0 /\ w.bg = 0 THEN [w.start EXCEPT ![side] = end] ELSE w.start

NextStart(w, side, wrapped, end) ==
  IF wrapped THEN [w.start EXCEPT ![side] = end] ELSE w.start

ChangeBank(w, side, end) ==
  LET bank == w.bank + BanksPerBlock
      bg   == w.bg + (IF bank >= BanksPerGroup THEN 1 ELSE 0)
      ra   == w.ra + (IF bg >= GetConfigParam(db, "NUM_BANK_GROUPS") THEN 1 ELSE 0)
      ch   == w.ch + (IF ra >= NUM_PIM_RANKS THEN 1 ELSE 0)
      below(x, n) == IF x >= n THEN 0 ELSE x
  IN  [w EXCEPT !.at    = @ + 1,
                !.bank  = below(bank, BanksPerGroup),
                !.bg    = below(bg, GetConfigParam(db, "NUM_BANK_GROUPS")),
                !.ra    = below(ra, NUM_PIM_RANKS),
                !.ch    = below(ch, system.num_pim_chans),
                !.start = NextStart(w, side, ch >= system.num_pim_chans, end)]

WalkAddr(side, n) ==
  addrGenSafe(manager, walk.ch, walk.ra, walk.bg, walk.bank + side, walk.start[side] + n)

-----------------------------------------------------------------------------
(* A matrix-vector product.  The job names the kernel; an element of the   *)
(* matrix is its row and its column, counted in bursts.                    *)

Begin(op, p) ==
  /\ phase = "ready"
  /\ phase' = p /\ walk' = op
  /\ UNCHANGED << db, made, system, mapping, config, ranks, manager, banks, got, sums >>

BeginGemv(job) == Begin(Starting(job, [side \in 0 .. 1 |-> 0]), "preload")

(* preloadGemv: one tile of one block, burst by burst; of two in one cell  *)
(* the later one stays.                                                    *)
PreloadTile ==
  LET job  == walk.op
      y    == walk.at \div (job.tiles * PimBlocks)
      x    == (walk.at \div PimBlocks) % job.tiles
      row0 == (y * PimBlocks + (walk.at % PimBlocks)) * NUM_GRF
      bursts   == 0 .. NUM_GRF * NUM_GRF - 1
      cell(n)  == addressMapping(mapping, WalkAddr(x % 2, n))
      burst(n) == << row0 + (n \div NUM_GRF), x * NUM_GRF + (n % NUM_GRF) >>
      last(c)  == CHOOSE n \in bursts : cell(n) = c /\ \A m \in bursts : cell(m) = c => m <= n
  IN  /\ phase = "preload" /\ y < job.outputs
      /\ banks' = StoreAll(banks, [c \in {cell(n) : n \in bursts} |-> burst(last(c))])
      /\ walk' = ChangeBank(walk, x % 2, walk.start[x % 2] + NUM_GRF * NUM_GRF)
      /\ UNCHANGED << db, made, system, phase, mapping, config, ranks, manager, got, sums >>

(* The kernel, as PIMProgram finds it: each block leaves its results in    *)
(* its odd bank, for every output tile and vector, or every input tile.    *)
Groups(job) == IF job.kernel = "GEMVTREE" THEN job.tiles ELSE job.outputs * job.batch

ResultKeys ==
  [ch : 0 .. system.num_pim_chans - 1, ra : 0 .. NUM_PIM_RANKS - 1,
   bg : 0 .. GetConfigParam(db, "NUM_BANK_GROUPS") - 1,
   pair : 0 .. BanksPerGroup \div BanksPerBlock - 1]

CellOf(k, side, at) ==
  [ chan |-> k.ch, rank |-> k.ra, bank |-> k.bg * BanksPerGroup + k.pair * BanksPerBlock + side,
    row |-> at \div NUM_COLS_PER_BL, col |-> at % NUM_COLS_PER_BL ]

BlockNumber(k) ==
  ((k.ch * NUM_PIM_RANKS + k.ra) * GetConfigParam(db, "NUM_BANK_GROUPS") + k.bg)
    * (BanksPerGroup \div BanksPerBlock) + k.pair

KernelRuns ==
  LET job      == walk.op
      results  == [k : ResultKeys, t : 0 .. Groups(job) - 1, g : 0 .. NUM_GRF - 1]
      cell(r)  == CellOf(r.k, 1, ResultColGemv(job) + r.t * NUM_GRF + r.g)
      value(r) == << "result", r.t, BlockNumber(r.k) * NUM_GRF + r.g >>
  IN  /\ phase = "preload" /\ walk.at = job.outputs * job.tiles * PimBlocks
      /\ banks' = StoreAll(banks, [c \in {cell(r) : r \in results} |->
                                     value(CHOOSE r \in results : cell(r) = c)])
      /\ phase' = "readResult"
      /\ walk' = Starting(job, [side \in {1} |-> ResultColGemv(job)])
      /\ got' = << >>
      /\ UNCHANGED << db, made, system, mapping, config, ranks, manager, sums >>

(* readResult: the registers of one block.                                 *)
ReadBlock ==
  /\ phase = "readResult" /\ walk.at < Groups(walk.op) * PimBlocks
  /\ got' = got \o [n \in 1 .. NUM_GRF |-> Load(WalkAddr(1, n - 1))]
  /\ walk' = ChangeBank(walk, 1, walk.start[1] + NUM_GRF)
  /\ UNCHANGED << db, made, system, phase, mapping, config, ranks, manager, banks, sums >>

ResultsRead ==
  /\ phase = "readResult" /\ walk.at = Groups(walk.op) * PimBlocks
  /\ IF walk.op.kernel = "GEMVTREE"
       THEN /\ phase' = "adderTree"
            /\ walk' = [op |-> walk.op, at |-> 0, num_tile |-> walk.op.tiles, step |-> 0]
            /\ sums' = [temp |-> [i \in 0 .. walk.op.tiles |-> << "undefined" >>],
                        done |-> << >>]
       ELSE phase' = "done" /\ UNCHANGED << walk, sums >>
  /\ UNCHANGED << db, made, system, mapping, config, ranks, manager, banks, got >>

-----------------------------------------------------------------------------
(* adderTree, a level of its recursion at a time; temp is the same for all *)
(* outputs.  A sum is the sequence of what has been added up.              *)

OutputDim == PimBlocks * NUM_GRF

TermTransposed(tile) == << got[walk.at * walk.op.tiles + tile + 1] >>  \* mutant

TermOfTile(tile) == << got[tile * OutputDim + walk.at + 1] >>

AddLevel ==
  LET n    == walk.num_tile
      half == n \div 2
      pair(i) == IF walk.step = 0 THEN TermOfTile(2 * i) \o TermOfTile(2 * i + 1)
                 ELSE sums.temp[2 * i] \o sums.temp[2 * i + 1]
  IN  /\ phase = "adderTree" /\ walk.at < OutputDim /\ n # 1
      /\ sums' = [sums EXCEPT !.temp =
                    [i \in DOMAIN @ |-> CASE i < half -> pair(i)
                                          [] i = half /\ n % 2 = 1 /\ walk.step > 0 -> @[n]
                                          [] OTHER -> @[i]]]
      /\ walk' = [walk EXCEPT !.num_tile = (n + 1) \div 2, !.step = @ + 1]
      /\ UNCHANGED << db, made, system, phase, mapping, config, ranks, manager, banks, got >>

OutputDone ==
  /\ phase = "adderTree" /\ walk.at < OutputDim /\ walk.num_tile = 1
  /\ sums' = [sums EXCEPT !.done = Append(@, sums.temp[0])]
  /\ walk' = [walk EXCEPT !.at = @ + 1, !.num_tile = walk.op.tiles, !.step = 0]
  /\ phase' = IF walk.at + 1 = OutputDim THEN "done" ELSE phase
  /\ UNCHANGED << db, made, system, mapping, config, ranks, manager, banks, got >>

-----------------------------------------------------------------------------
(* Streams: preloadNoReplacement and readData, or preload_data_with_addr   *)
(* and read_result of the emulator, which swaps two bits of the row.       *)

Bit(addr, i) == (addr \div 2^i) % 2

FlipOnlyRA12(addr) ==  \* mutant
  IF Bit(addr, RA12) # Bit(addr, RA12 + 1) THEN addr + (1 - 2 * Bit(addr, RA12)) * 2^RA12
  ELSE addr

changeRA12RA13(addr) ==
  addr + (Bit(addr, RA12 + 1) - Bit(addr, RA12)) * (2^RA12 - 2^(RA12 + 1))

StreamAddr(x) ==
  LET addr == x * TransactionSize(db) IN
  IF walk.op.api = "emulator" THEN changeRA12RA13(addr) ELSE addr

BeginStream(s) == Begin([op |-> s, at |-> 0], "store")

StoreBurst ==
  /\ phase = "store" /\ walk.at < walk.op.bursts
  /\ banks' = Store(banks, StreamAddr(walk.at), << "burst", walk.at >>)
  /\ walk' = [walk EXCEPT !.at = @ + 1]
  /\ UNCHANGED << db, made, system, phase, mapping, config, ranks, manager, got, sums >>

ReadStream ==
  /\ phase = "store" /\ walk.at = walk.op.bursts
  /\ got' = [i \in 1 .. walk.op.bursts |-> Load(StreamAddr(i - 1))]
  /\ phase' = "done"
  /\ UNCHANGED << db, made, system, mapping, config, ranks, manager, banks, walk, sums >>

-----------------------------------------------------------------------------

HostNext ==
  \/ \E s \in Systems : Construct(s)
  \/ ConstructChannel
  \/ ConstructKernel
  \/ \E job \in system.jobs : BeginGemv(job)
  \/ PreloadTile \/ KernelRuns \/ ReadBlock \/ ResultsRead
  \/ AddLevel \/ OutputDone
  \/ \E s \in system.streams : BeginStream(s)
  \/ StoreBurst \/ ReadStream

HostSpec == HostInit /\ [][HostNext]_hostVars

-----------------------------------------------------------------------------

(* Types.  Every access is to a channel, a rank and a bank that exist:     *)
(* findChannelNumber would abort, and the others are used as indices.      *)
HostTypeOK ==
  /\ phase \in {"none", "thrown", "channels", "ready", "preload", "readResult",
               "adderTree", "store", "done"}
  /\ made \in 0 .. MaxSystems
  /\ \A c \in DOMAIN banks :
       /\ c.chan \in 0 .. config.NUM_CHANS - 1
       /\ c.rank \in 0 .. config.NUM_RANKS - 1
       /\ c.bank \in 0 .. GetConfigParam(db, "NUM_BANKS") - 1

(* A system that is ready for use goes by one geometry: the widths that    *)
(* AddrMapping and PIMAddrManager worked out at different times, the table *)
(* that the statistics are printed by, the copy in Configuration, and the  *)
(* channels as they were built.  The rank is left out: see StreamKept.     *)
InUse == phase \notin {"none", "thrown", "channels"}

GeometryAgrees ==
  InUse =>
    /\ \A f \in {"chan", "low", "bg", "row", "col"} : mapping.width[f] = manager[f]
    /\ mapping.offset = manager.offset /\ mapping.scheme = manager.scheme
    /\ \A i \in DOMAIN ranks : ranks[i] = config.NUM_RANKS
    /\ config.NUM_RANKS = GetConfigParam(db, "NUM_RANKS")
    /\ config.NUM_CHANS = GetConfigParam(db, "NUM_CHANS")

(* When the matrix has been stored, every PIM block finds in its banks the *)
(* rows of it that the kernels of PIMProgram take to be there.             *)
WeightsPlaced ==
  phase = "preload" /\ walk.at = walk.op.outputs * walk.op.tiles * PimBlocks =>
    \A k \in ResultKeys, side \in 0 .. 1 :
      \A at \in 0 .. OperandSize(walk.op, side) - 1 :
        LET w    == OperandAt(walk.op, CellAt(side, 0, at))
            row  == ((w[2] \div NUM_GRF) * PimBlocks + BlockNumber(k)) * NUM_GRF
            cell == CellOf(k, side, at)
        IN  cell \in DOMAIN banks /\ banks[cell] = << row + (w[2] % NUM_GRF), w[3] >>

(* readResult returns the product in the order of the rows of the matrix,  *)
(* one vector of the batch, or one input tile, after the other.            *)
ResultsInOrder ==
  phase = "readResult" =>
    \A i \in DOMAIN got :
      got[i] = << "result", (i - 1) \div OutputDim, (i - 1) % OutputDim >>

(* adderTree adds each tile's share of an output to it once, for the       *)
(* numbers of tiles that clients have: powers of two from 2 on.            *)
SumsComplete ==
  phase \in {"adderTree", "done"} /\ sums # << >> =>
    \A y \in DOMAIN sums.done :
      /\ Len(sums.done[y]) = walk.op.tiles
      /\ ToSet(sums.done[y]) = {<< "result", t, y - 1 >> : t \in 0 .. walk.op.tiles - 1}

(* Bursts stored at different addresses are all read back, by any scheme   *)
(* and through either interface: no two addresses of the memory share a    *)
(* place.  MemorySystem.cpp says "TOTAL_STORAGE = PER_RANK_STORAGE *       *)
(* NUM_RANKS".                                                             *)
StreamKept ==
  phase = "done" /\ sums = << >> /\ "bursts" \in DOMAIN walk.op =>
    \A i \in DOMAIN got : got[i] = << "burst", i - 1 >>

=============================================================================
