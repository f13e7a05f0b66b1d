---------------------------- MODULE PIMHostProofs ----------------------------
(***************************************************************************)
(* The host's side: that the two ways of taking addresses apart go by one  *)
(* geometry, that what is stored is where it will be looked for, and that  *)
(* it comes back in order, for any sizes that are powers of two.           *)
(*                                                                         *)
(* GeometryInv is the ground of all: what was worked out from the table    *)
(* still is what the table says.  On it stand ReadInv, of the results of a *)
(* kernel, PreloadInv, of its matrix, TreeInv, of the adder tree, TypeInv, *)
(* of the cells that there are, and StreamInv, of streams.                 *)
(***************************************************************************)
EXTENDS PIMHost, CommonLemmas

-----------------------------------------------------------------------------
(* Powers of two that fit an unsigned int.                                 *)

(* Exponents add up.                                                       *)
LEMMA PowerSum ==
  ASSUME NEW a \in 0 .. 31, NEW b \in 0 .. 31 - a
  PROVE  2^(a + b) = 2^a * 2^b
<1> DEFINE P == {n \in 0 .. 31 - a : 2^(a + n) = 2^a * 2^n}
<1>1. 0 \in P
  <2>1. a + 0 = a
    OBVIOUS
  <2>2. 2^a \in Nat
    BY PowerPositive
  <2> QED
    BY <2>1, <2>2, Doubling
<1>2. ASSUME NEW n \in 0 .. (31 - a) - 1, n \in P PROVE n + 1 \in P
  <2>0. n \in 0 .. 30 /\ a + n \in 0 .. 30 /\ n \in 0 .. 31
    OBVIOUS
  <2>1. 2^(n + 1) = 2 * 2^n /\ 2^((a + n) + 1) = 2 * 2^(a + n)
    BY <2>0, Doubling
  <2>2. 2^(a + n) = 2^a * 2^n /\ a + (n + 1) = (a + n) + 1 /\ n + 1 \in 0 .. 31 - a
    BY <1>2
  <2>3. 2^a \in Nat /\ 2^n \in Nat
    BY <2>0, PowerPositive
  <2>4. \A x, y \in Nat : 2 * (x * y) = x * (2 * y)
    OBVIOUS
  <2> QED
    BY <2>1, <2>2, <2>3, <2>4
<1>3. 0 .. 31 - a \subseteq P
  <2> HIDE DEF P
  <2> QED
    BY <1>1, <1>2, InductionUpTo
<1> QED
  BY <1>3

(* They grow, ...                                                          *)
LEMMA PowersGrow ==
  ASSUME NEW a \in 0 .. 31, NEW b \in 0 .. 31, a < b
  PROVE  2^a < 2^b
<1>1. b - a \in 0 .. 31 - a /\ b - a - 1 \in 0 .. 30 /\ b = a + (b - a)
  OBVIOUS
<1>2. 2^b = 2^a * 2^(b - a)
  BY <1>1, PowerSum
<1>3. 2^(b - a) = 2 * 2^(b - a - 1)
  <2>1. 2^((b - a - 1) + 1) = 2 * 2^(b - a - 1)
    BY <1>1, Doubling
  <2> QED
    BY <2>1
<1>4. 2^a \in Nat \ {0} /\ 2^(b - a - 1) \in Nat \ {0}
  <2>1. b - a - 1 \in 0 .. 31
    BY <1>1
  <2> QED
    BY <2>1, PowerPositive
<1>5. \A x, y \in Nat \ {0} : x < x * (2 * y)
  <2> TAKE x, y \in Nat \ {0}
  <2>1. x * y >= x
    OBVIOUS
  <2>2. x * (2 * y) = 2 * (x * y)
    OBVIOUS
  <2> QED
    BY <2>1, <2>2
<1> QED
  BY <1>2, <1>3, <1>4, <1>5

(* ... and uLog2 finds the exponent.                                       *)
LEMMA LogOfPower ==
  ASSUME NEW k \in 0 .. 31
  PROVE  uLog2(2^k) = k
<1> DEFINE Log(j) == 2^j >= 2^k /\ \A i \in 0 .. j - 1 : 2^i < 2^k
<1>1. Log(k)
  <2>1. ASSUME NEW i \in 0 .. k - 1 PROVE 2^i < 2^k
    <3>1. i \in 0 .. 31 /\ i < k
      OBVIOUS
    <3> QED
      BY <3>1, PowersGrow
  <2>2. 2^k \in Nat
    BY PowerPositive
  <2> QED
    BY <2>1, <2>2
<1>2. ASSUME NEW j \in 0 .. 31, Log(j) PROVE j = k
  <2>1. ~(j < k)
    <3>1. j < k => 2^j < 2^k
      BY PowersGrow
    <3>2. 2^j \in Nat /\ 2^k \in Nat
      BY PowerPositive
    <3> QED
      BY <1>2, <3>1, <3>2
  <2>2. ~(k < j)
    <3>1. k < j => 2^k < 2^k
      BY <1>2
    <3>2. 2^k \in Nat
      BY PowerPositive
    <3> QED
      BY <3>1, <3>2
  <2> QED
    BY <2>1, <2>2
<1>3. uLog2(2^k) = CHOOSE j \in 0 .. 31 : Log(j)
  BY DEF uLog2, MAX_LOG
<1> HIDE DEF Log
<1> QED
  BY <1>1, <1>2, <1>3

(* Quotients of powers.                                                    *)
LEMMA PowerQuotient ==
  ASSUME NEW a \in 0 .. 31, NEW b \in 0 .. a
  PROVE  2^a \div 2^b = 2^(a - b)
<1>1. 2^a = 2^b * 2^(a - b)
  <2>1. b + (a - b) = a /\ a - b \in 0 .. 31 - b /\ b \in 0 .. 31
    OBVIOUS
  <2> QED
    BY <2>1, PowerSum
<1>2. 2^b \in Nat \ {0} /\ 2^(a - b) \in Nat
  <2>1. b \in 0 .. 31 /\ a - b \in 0 .. 31
    OBVIOUS
  <2> QED
    BY <2>1, PowerPositive
<1>3. \A x \in Nat \ {0}, y \in Nat : (x * y) \div x = y
  OBVIOUS
<1> QED
  BY <1>1, <1>2, <1>3

-----------------------------------------------------------------------------
(* One geometry.                                                           *)

(* What the table holds after both files have been applied: nothing of the *)
(* systems before is left in it.                                           *)
Table(s) ==
  UpdateFromFile(UpdateFromFile(Initialize(<< >>, defaultConfiguration),
                                GetParameter(s.device)),
                 GetParameter(s.system))

Param(s, key) == GetConfigParam(Table(s), key)

Exponents == 0 .. MAX_LOG

(* A row, a burst and the data bus are powers of two, and a burst fits a   *)
(* row.  The two constructors round differently otherwise.                 *)
PowersOfTwo(s) ==
  \E c, b, j \in Exponents :
    /\ Param(s, "NUM_COLS") = 2^c /\ Param(s, "BL") = 2^b
    /\ Param(s, "JEDEC_DATA_BUS_BITS") \div 8 = 2^j
    /\ b <= c /\ j + b <= MAX_LOG

(* No default has made NUM_RANKS a parameter, either.                      *)
RegularGeometry ==
  \A s \in Systems :
    Readable(s.device) /\ Readable(s.system) /\ IsUsable(Table(s)) =>
      PowersOfTwo(s) /\ Param(s, "NUM_RANKS") = 0

(* The parameters that a channel does not change.                          *)
Kept(key) == key \notin {"NUM_RANKS", "TOTAL_STORAGE"}

(* The other parameters of a table stay.                                   *)
LEMMA PutOther ==
  ASSUME NEW d, NEW key, NEW value, NEW k, k # key
  PROVE  /\ k \in DOMAIN Put(d, key, value) <=> k \in DOMAIN d
         /\ k \in DOMAIN d => Put(d, key, value)[k] = d[k]
         /\ GetConfigParam(Put(d, key, value), k) = GetConfigParam(d, k)
  BY DEF Put, GetConfigParam

(* A parameter that is put is there.                                       *)
LEMMA PutSame ==
  ASSUME NEW d, NEW key, NEW value
  PROVE  GetConfigParam(Put(d, key, value), key) = value
  BY DEF Put, GetConfigParam

(* The table of the system in use, as its files left it.                   *)
FilesApplied ==
  \A k : Kept(k) =>
    /\ k \in DOMAIN db <=> k \in DOMAIN Table(system)
    /\ k \in DOMAIN db => db[k] = Table(system)[k]

(* How many ranks a channel gets.                                          *)
RankBytes(s) ==
  (Param(s, "NUM_ROWS") * (Param(s, "NUM_COLS") * Param(s, "DEVICE_WIDTH"))
     * Param(s, "NUM_BANKS")
     * (Param(s, "JEDEC_DATA_BUS_BITS") \div Param(s, "DEVICE_WIDTH"))) \div 8

SizeOfChannel(s) == s.megsOfMemory \div Param(s, "NUM_CHANS")

RanksOf(s) ==
  LET fit == SizeOfChannel(s) \div RankBytes(s) IN
  IF SizeOfChannel(s) = 0 THEN 0 ELSE IF fit > 0 THEN fit ELSE 1

(* What a channel leaves in NUM_RANKS.                                     *)
RanksTold(s) == IF SizeOfChannel(s) # 0 THEN RanksOf(s) ELSE Param(s, "NUM_RANKS")

(* All that was worked out from the table and still is in it.              *)
GeometryInv ==
  phase \notin {"none", "thrown"} =>
    /\ system \in Systems
    /\ Readable(system.device) /\ Readable(system.system) /\ IsUsable(Table(system))
    /\ FilesApplied
    /\ mapping = AddrMapping(Table(system))
    /\ config = [ NUM_CHANS |-> Param(system, "NUM_CHANS"),
                  NUM_RANKS |-> GetConfigParam(db, "NUM_RANKS") ]
    /\ \A i \in DOMAIN ranks : ranks[i] = RanksOf(system)
    /\ ranks \in Seq({RanksOf(system)})
    /\ config.NUM_RANKS = IF ranks = << >> THEN Param(system, "NUM_RANKS")
                           ELSE RanksTold(system)
    /\ InUse => manager = PIMAddrManager(Table(system))

(* A parameter the channels leave alone reads as the files gave it.        *)
LEMMA ParamKept ==
  ASSUME FilesApplied, NEW k, Kept(k)
  PROVE  GetConfigParam(db, k) = Param(system, k)
  BY DEF FilesApplied, Param, GetConfigParam

(* There is no system at first.                                            *)
LEMMA GeometryInit == HostInit => GeometryInv
  BY DEF HostInit, GeometryInv

(* The tables in use are those of the files, changed by the channels.      *)
LEMMA TablesOnlyFiles ==
  ASSUME NEW s, Readable(s.device), Readable(s.system)
  PROVE  Tables(s) = Table(s)
  BY DEF Tables, Table, Initialize

(* A new system reads its files, ...                                       *)
LEMMA ConstructGeometry ==
  ASSUME NEW s \in Systems, Construct(s)
  PROVE  GeometryInv'
<1>1. CASE phase' = "thrown"
  BY <1>1 DEF GeometryInv
<1>2. CASE phase' # "thrown"
  <2>1. /\ Readable(s.device) /\ Readable(s.system) /\ IsUsable(db')
        /\ phase' = "channels" /\ system' = s /\ db' = Table(s) /\ ranks' = << >>
        /\ mapping' = AddrMapping(db')
        /\ config' = [ NUM_CHANS |-> GetConfigParam(db', "NUM_CHANS"),
                       NUM_RANKS |-> GetConfigParam(db', "NUM_RANKS") ]
    BY <1>2, TablesOnlyFiles DEF Construct
  <2>2. FilesApplied'
    BY <2>1 DEF FilesApplied
  <2>3. ranks' \in Seq({RanksOf(s)}) /\ DOMAIN ranks' = {}
    BY <2>1
  <2> QED
    BY <2>1, <2>2, <2>3 DEF GeometryInv, InUse, Param
<1> QED
  BY <1>1, <1>2

(* ... its channels change the sizes they then read, ...                   *)
LEMMA ChannelGeometry ==
  ASSUME GeometryInv, ConstructChannel
  PROVE  GeometryInv'
<1> DEFINE n == RanksOf(system)
           told == RanksTold(system)
           some == SizeOfChannel(system) # 0
<1>1. /\ system \in Systems /\ phase = "channels" /\ FilesApplied
      /\ Readable(system.device) /\ Readable(system.system) /\ IsUsable(Table(system))
      /\ mapping = AddrMapping(Table(system))
      /\ config = [ NUM_CHANS |-> Param(system, "NUM_CHANS"),
                    NUM_RANKS |-> GetConfigParam(db, "NUM_RANKS") ]
      /\ ranks \in Seq({n})
      /\ config.NUM_RANKS = IF ranks = << >> THEN Param(system, "NUM_RANKS") ELSE told
  BY DEF GeometryInv, ConstructChannel
<1>2. BytesPerRank = RankBytes(system)
  <2>1. \A k \in {"NUM_ROWS", "NUM_COLS", "DEVICE_WIDTH", "NUM_BANKS", "JEDEC_DATA_BUS_BITS"} :
          GetConfigParam(db, k) = Param(system, k)
    BY <1>1, ParamKept DEF Kept
  <2> QED
    BY <2>1 DEF BytesPerRank, RankBytes
<1>3. /\ db' = Put(IF some THEN Put(db, "NUM_RANKS", n) ELSE db,
                   "TOTAL_STORAGE", n * BytesPerRank)
      /\ config' = IF some THEN Synchronized(n) ELSE config
      /\ ranks' = Append(ranks, n)
  <2>1. config.NUM_CHANS = Param(system, "NUM_CHANS")
    BY <1>1
  <2> QED
    BY <1>2, <2>1 DEF ConstructChannel, RanksOf, SizeOfChannel
<1>4. UNCHANGED << system, phase, mapping, manager >>
  BY DEF ConstructChannel
<1>5. FilesApplied'
  <2> SUFFICES ASSUME NEW k, Kept(k)
               PROVE  /\ k \in DOMAIN db' <=> k \in DOMAIN Table(system)
                      /\ k \in DOMAIN db' => db'[k] = Table(system)[k]
    BY <1>4 DEF FilesApplied
  <2>1. k # "NUM_RANKS" /\ k # "TOTAL_STORAGE"
    BY DEF Kept
  <2>2. /\ k \in DOMAIN db' <=> k \in DOMAIN db
        /\ k \in DOMAIN db => db'[k] = db[k]
    BY <1>3, <2>1, PutOther
  <2> QED
    BY <1>1, <2>2 DEF FilesApplied
<1>6. ranks' \in Seq({n}) /\ ranks' # << >> /\ \A i \in DOMAIN ranks' : ranks'[i] = n
  <2>1. ranks' \in Seq({n}) /\ Len(ranks') = Len(ranks) + 1 /\ Len(ranks) \in Nat
    BY <1>1, <1>3
  <2>2. DOMAIN ranks' = 1 .. Len(ranks') /\ \A i \in 1 .. Len(ranks') : ranks'[i] \in {n}
    BY <2>1, ElementOfSeq, LenProperties
  <2> QED
    BY <2>1, <2>2
<1>7. ASSUME some
      PROVE  /\ config' = [ NUM_CHANS |-> Param(system, "NUM_CHANS"), NUM_RANKS |-> told ]
             /\ GetConfigParam(db', "NUM_RANKS") = told
  <2>1. config' = [ NUM_CHANS |-> Param(system, "NUM_CHANS"), NUM_RANKS |-> n ]
    BY <1>1, <1>3, <1>7 DEF Synchronized
  <2>2. GetConfigParam(db', "NUM_RANKS") = n
    BY <1>3, <1>7, PutOther, PutSame
  <2>3. told = n
    BY <1>7 DEF RanksTold
  <2> HIDE DEF n, told, some
  <2> QED BY <2>1, <2>2, <2>3
<1>8. ASSUME ~some
      PROVE  /\ config' = [ NUM_CHANS |-> Param(system, "NUM_CHANS"), NUM_RANKS |-> told ]
             /\ GetConfigParam(db', "NUM_RANKS") = told
  <2>1. GetConfigParam(db', "NUM_RANKS") = GetConfigParam(db, "NUM_RANKS")
    BY <1>3, <1>8, PutOther
  <2>2. config' = config
    BY <1>3, <1>8
  <2>3. told = Param(system, "NUM_RANKS")
    BY <1>8 DEF RanksTold
  <2> HIDE DEF n, told, some
  <2> QED BY <1>1, <2>1, <2>2, <2>3
<1> HIDE DEF n, told, some
<1>9. /\ config' = [ NUM_CHANS |-> Param(system, "NUM_CHANS"),
                     NUM_RANKS |-> GetConfigParam(db', "NUM_RANKS") ]
      /\ config'.NUM_RANKS = told
  BY <1>7, <1>8
<1>10. ~InUse'
  BY <1>1, <1>4 DEF InUse
<1>11. n = RanksOf(system) /\ told = RanksTold(system)
  BY DEF n, told
<1> QED
  BY <1>1, <1>4, <1>5, <1>6, <1>9, <1>10, <1>11 DEF GeometryInv

(* What PIMAddrManager reads, no channel changes.                          *)
LEMMA ManagerOfFiles ==
  ASSUME FilesApplied
  PROVE  PIMAddrManager(db) = PIMAddrManager(Table(system))
<1>1. \A k \in {"NUM_COLS", "BL", "JEDEC_DATA_BUS_BITS", "NUM_CHANS", "NUM_BANKS",
                "NUM_BANK_GROUPS", "NUM_ROWS"} :
        GetConfigParam(db, k) = GetConfigParam(Table(system), k)
  BY ParamKept DEF Kept, Param
<1>2. TransactionSize(db) = TransactionSize(Table(system))
  BY <1>1 DEF TransactionSize
<1>3. getAddressMappingScheme(db) = getAddressMappingScheme(Table(system))
  BY ParamKept DEF Kept, Param, getAddressMappingScheme
<1> QED
  BY <1>1, <1>2, <1>3 DEF PIMAddrManager

(* ... and the kernel of a system reads its table as they left it.         *)
LEMMA KernelGeometry ==
  ASSUME GeometryInv, ConstructKernel
  PROVE  GeometryInv'
<1>1. /\ phase = "channels" /\ phase' = "ready" /\ manager' = PIMAddrManager(db)
      /\ UNCHANGED << db, system, mapping, config, ranks >>
  BY DEF ConstructKernel
<1>2. FilesApplied /\ FilesApplied'
  BY <1>1 DEF GeometryInv, FilesApplied
<1>3. manager' = PIMAddrManager(Table(system))
  BY <1>1, <1>2, ManagerOfFiles
<1> QED
  BY <1>1, <1>2, <1>3 DEF GeometryInv

(* The accesses leave all of it alone.                                     *)
LEMMA AccessGeometry ==
  ASSUME GeometryInv, UNCHANGED << db, system, mapping, config, ranks, manager >>,
         (InUse /\ InUse') \/ UNCHANGED phase
  PROVE  GeometryInv'
<1>1. FilesApplied' <=> FilesApplied
  BY DEF FilesApplied
<1> QED
  BY <1>1 DEF GeometryInv, InUse

(* Every step of the host keeps the geometry.                              *)
LEMMA GeometryNext == GeometryInv /\ [HostNext]_hostVars => GeometryInv'
<1> SUFFICES ASSUME GeometryInv, [HostNext]_hostVars PROVE GeometryInv'
  OBVIOUS
<1>1. ASSUME NEW s \in Systems, Construct(s) PROVE GeometryInv'
  BY <1>1, ConstructGeometry
<1>2. CASE ConstructChannel
  BY <1>2, ChannelGeometry
<1>3. CASE ConstructKernel
  BY <1>3, KernelGeometry
<1>4. ASSUME NEW job \in system.jobs, BeginGemv(job) PROVE GeometryInv'
  BY <1>4, AccessGeometry DEF BeginGemv, Begin, InUse
<1>5. ASSUME NEW s \in system.streams, BeginStream(s) PROVE GeometryInv'
  BY <1>5, AccessGeometry DEF BeginStream, Begin, InUse
<1>6. CASE PreloadTile
  BY <1>6, AccessGeometry DEF PreloadTile, InUse
<1>7. CASE KernelRuns
  BY <1>7, AccessGeometry, Zenon DEF KernelRuns, InUse
<1>8. CASE ReadBlock \/ ResultsRead
  BY <1>8, AccessGeometry DEF ReadBlock, ResultsRead, InUse
<1>9. CASE AddLevel \/ OutputDone \/ StoreBurst \/ ReadStream
  BY <1>9, AccessGeometry DEF AddLevel, OutputDone, StoreBurst, ReadStream, InUse
<1>10. CASE UNCHANGED hostVars
  BY <1>10, AccessGeometry DEF hostVars
<1> QED
  BY <1>1, <1>2, <1>3, <1>4, <1>5, <1>6, <1>7, <1>8, <1>9, <1>10 DEF HostNext

(* Taken apart and put together, an address has the same columns.          *)
LEMMA ColumnsAgree ==
  ASSUME NEW s, PowersOfTwo(s)
  PROVE  /\ AddrMapping(Table(s)).width["col"] = PIMAddrManager(Table(s)).col
         /\ AddrMapping(Table(s)).offset = PIMAddrManager(Table(s)).offset
<1>1. PICK c, b, j \in Exponents :
        /\ Param(s, "NUM_COLS") = 2^c /\ Param(s, "BL") = 2^b
        /\ Param(s, "JEDEC_DATA_BUS_BITS") \div 8 = 2^j
        /\ b <= c /\ j + b <= MAX_LOG
  BY DEF PowersOfTwo
<1>2. /\ c \in 0 .. 31 /\ b \in 0 .. 31 /\ j \in 0 .. 31 /\ b \in 0 .. c
      /\ b \in 0 .. 31 - j /\ j + b \in 0 .. 31 /\ c - b \in 0 .. 31
  BY <1>1 DEF Exponents, MAX_LOG
<1>3. TransactionSize(Table(s)) = 2^(j + b)
  <2>1. 2^(j + b) = 2^j * 2^b
    BY <1>2, PowerSum
  <2> QED
    BY <1>1, <2>1 DEF TransactionSize, Param
<1>4. Param(s, "NUM_COLS") \div Param(s, "BL") = 2^(c - b)
  BY <1>1, <1>2, PowerQuotient
<1>5. /\ uLog2(TransactionSize(Table(s))) = j + b
      /\ uLog2(Param(s, "JEDEC_DATA_BUS_BITS") \div 8) = j
      /\ uLog2(Param(s, "NUM_COLS")) = c
      /\ uLog2(Param(s, "NUM_COLS") \div Param(s, "BL")) = c - b
  BY <1>1, <1>2, <1>3, <1>4, LogOfPower
<1>6. j + ((j + b) - j) = j + b /\ c - ((j + b) - j) = c - b
  BY <1>2
<1> QED
  BY <1>5, <1>6 DEF AddrMapping, PIMAddrManager, Param

(* With powers of two the two managers then agree.                         *)
LEMMA GeometryImplies ==
  ASSUME RegularGeometry
  PROVE  GeometryInv => GeometryAgrees
<1> SUFFICES ASSUME GeometryInv, InUse
             PROVE  /\ \A f \in {"chan", "low", "bg", "row", "col"} :
                         mapping.width[f] = manager[f]
                    /\ mapping.offset = manager.offset /\ mapping.scheme = manager.scheme
                    /\ \A i \in DOMAIN ranks : ranks[i] = config.NUM_RANKS
                    /\ config.NUM_RANKS = GetConfigParam(db, "NUM_RANKS")
                    /\ config.NUM_CHANS = GetConfigParam(db, "NUM_CHANS")
  BY DEF GeometryAgrees
<1> DEFINE t == Table(system)
<1>1. /\ system \in Systems /\ FilesApplied
      /\ Readable(system.device) /\ Readable(system.system) /\ IsUsable(t)
      /\ mapping = AddrMapping(t) /\ manager = PIMAddrManager(t)
      /\ config = [ NUM_CHANS |-> Param(system, "NUM_CHANS"),
                    NUM_RANKS |-> GetConfigParam(db, "NUM_RANKS") ]
      /\ \A i \in DOMAIN ranks : ranks[i] = RanksOf(system)
      /\ ranks # << >> => config.NUM_RANKS = RanksTold(system)
  BY DEF GeometryInv, InUse
<1>2. PowersOfTwo(system) /\ Param(system, "NUM_RANKS") = 0
  BY <1>1 DEF RegularGeometry
<1>3. mapping.width["col"] = manager.col /\ mapping.offset = manager.offset
  BY <1>1, <1>2, ColumnsAgree
<1>4. /\ mapping.width["chan"] = manager.chan /\ mapping.width["low"] = manager.low
      /\ mapping.width["bg"] = manager.bg /\ mapping.width["row"] = manager.row
      /\ mapping.scheme = manager.scheme
  BY <1>1 DEF AddrMapping, PIMAddrManager
<1>5. config.NUM_CHANS = GetConfigParam(db, "NUM_CHANS")
  BY <1>1, ParamKept DEF Kept
<1>6. RanksTold(system) = RanksOf(system)
  BY <1>2 DEF RanksTold, RanksOf
<1>7. \A i \in DOMAIN ranks : ranks # << >>
  OBVIOUS
<1> QED
  BY <1>1, <1>3, <1>4, <1>5, <1>6, <1>7

(* All parts of a system that is ready for use go by one geometry,         *)
(* although they took it from the table at different times and each        *)
(* channel changes the table while it is built: for any files whose rows,  *)
(* bursts and bus are powers of two, any size, also one too small to leave *)
(* a megabyte for a channel, and any systems before.                       *)
THEOREM GeometryAgreesAlways ==
  ASSUME RegularGeometry
  PROVE  HostSpec => []GeometryAgrees
<1>1. GeometryInv => GeometryAgrees
  BY GeometryImplies
<1> QED
  BY <1>1, GeometryInit, GeometryNext, PTL DEF HostSpec

-----------------------------------------------------------------------------
(* The adder tree.                                                         *)

Partials == {"result"} \X Nat \X Nat

(* What p tiles from the i-th group of p on add to an output.              *)
Share(i, p, output) == [j \in 1 .. p |-> << "result", i * p + j - 1, output >>]

(* A share is as long as its tiles.                                        *)
LEMMA ShareType ==
  ASSUME NEW i \in Nat, NEW p \in Nat, NEW y \in Nat
  PROVE  Share(i, p, y) \in Seq(Partials) /\ Len(Share(i, p, y)) = p
<1>1. ASSUME NEW j \in 1 .. p PROVE << "result", i * p + j - 1, y >> \in Partials
  <2>1. i * p \in Nat
    OBVIOUS
  <2>2. i * p + j - 1 \in Nat
    BY <2>1
  <2> QED
    BY <2>2 DEF Partials
<1>2. Share(i, p, y) \in [1 .. p -> Partials]
  BY <1>1 DEF Share
<1> QED
  BY <1>2

(* Neighbouring shares make one of twice the size.                         *)
LEMMA ShareJoin ==
  ASSUME NEW i \in Nat, NEW p \in Nat, NEW y \in Nat
  PROVE  Share(2 * i, p, y) \o Share(2 * i + 1, p, y) = Share(i, 2 * p, y)
<1> DEFINE s == Share(2 * i, p, y)
           t == Share(2 * i + 1, p, y)
           u == Share(i, 2 * p, y)
<1>1. /\ s \in Seq(Partials) /\ Len(s) = p
      /\ t \in Seq(Partials) /\ Len(t) = p
      /\ u \in Seq(Partials) /\ Len(u) = 2 * p
  <2>1. 2 * i \in Nat /\ 2 * i + 1 \in Nat /\ 2 * p \in Nat
    OBVIOUS
  <2> QED
    BY <2>1, ShareType
<1>2. \A j \in 1 .. p : s[j] = << "result", (2 * i) * p + j - 1, y >>
  BY DEF Share
<1>3. \A j \in 1 .. p : t[j] = << "result", (2 * i + 1) * p + j - 1, y >>
  BY DEF Share
<1>4. \A j \in 1 .. 2 * p : u[j] = << "result", i * (2 * p) + j - 1, y >>
  BY DEF Share
<1>5. (2 * i) * p = i * (2 * p) /\ (2 * i + 1) * p = i * (2 * p) + p /\ i * (2 * p) \in Nat
  <2>1. i * p \in Nat /\ (2 * i) * p = 2 * (i * p) /\ i * (2 * p) = 2 * (i * p)
    OBVIOUS
  <2>2. (2 * i + 1) * p = (2 * i) * p + p
    OBVIOUS
  <2> QED
    BY <2>1, <2>2
<1> HIDE DEF s, t, u
<1>6. /\ s \o t \in Seq(Partials) /\ Len(s \o t) = p + p
      /\ \A j \in 1 .. p + p : (s \o t)[j] = IF j <= p THEN s[j] ELSE t[j - p]
  BY <1>1, ConcatProperties
<1>7. ASSUME NEW j \in 1 .. p + p PROVE (s \o t)[j] = u[j]
  <2>1. CASE j <= p
    <3>1. j \in 1 .. p /\ j \in 1 .. 2 * p
      BY <2>1
    <3> QED
      BY <1>2, <1>4, <1>5, <1>6, <2>1, <3>1
  <2>2. CASE ~(j <= p)
    <3>1. j - p \in 1 .. p /\ j \in 1 .. 2 * p
      BY <2>2
    <3>2. (i * (2 * p) + p) + (j - p) - 1 = i * (2 * p) + j - 1
      BY <1>5
    <3> QED
      BY <1>3, <1>4, <1>5, <1>6, <2>2, <3>1, <3>2
  <2> QED
    BY <2>1, <2>2
<1>8. Len(s \o t) = Len(u) /\ Len(s \o t) = p + p
  BY <1>1, <1>6
<1>9. s \o t = u
  BY <1>1, <1>6, <1>7, <1>8, SeqEqual
<1> QED
  BY <1>9 DEF s, t, u

(* Rows of d, one after the other.                                         *)
LEMMA RowAndColumn ==
  ASSUME NEW a \in Nat, NEW d \in Nat, NEW r \in 0 .. d - 1
  PROVE  (a * d + r) \div d = a /\ (a * d + r) % d = r
OBVIOUS

(* What is in a row is in the table.                                       *)
LEMMA WithinRows ==
  ASSUME NEW n \in Nat, NEW a \in 0 .. n - 1, NEW d \in Nat, NEW r \in 0 .. d - 1
  PROVE  a * d + r + 1 \in 1 .. n * d
<1>1. n * d = (a + 1) * d + (n - (a + 1)) * d /\ (a + 1) * d = a * d + d
  OBVIOUS
<1>2. (n - (a + 1)) * d \in Nat /\ a * d \in Nat
  OBVIOUS
<1> QED
  BY <1>1, <1>2

(* The adder tree is given a number of tiles that it can halve down to 1,  *)
(* and the number of blocks is a number.                                   *)
TreesHalve ==
  \A s \in Systems :
    /\ Param(s, "NUM_PIM_BLOCKS") \in Nat
    /\ \A job \in s.jobs : job.kernel = "GEMVTREE" => \E k \in 1 .. MAX_LOG : job.tiles = 2^k

(* What the product has been read back as: each tile's share of each row.  *)
SharesRead ==
  \A tile \in 0 .. walk.op.tiles - 1, y \in 0 .. OutputDim - 1 :
    got[tile * OutputDim + y + 1] = << "result", tile, y >>

(* The outputs that are done.                                              *)
OutputsDone(n) ==
  /\ walk.op.tiles \in Nat
  /\ Len(sums.done) = n
  /\ sums.done \in Seq(Seq(Partials))
  /\ \A y \in 1 .. n : sums.done[y] = Share(0, walk.op.tiles, y - 1)

(* After a number of levels every sum left has the shares of a run of      *)
(* tiles, twice as long with each level.                                   *)
LevelsDone ==
  \E k \in 1 .. MAX_LOG :
    /\ walk.op.tiles = 2^k
    /\ walk.step \in 0 .. k
    /\ walk.num_tile = 2^(k - walk.step)
    /\ walk.step > 0 =>
         \A i \in 0 .. walk.num_tile - 1 : sums.temp[i] = Share(i, 2^walk.step, walk.at)

TreeInv ==
  /\ phase \in {"none", "thrown", "channels", "ready", "preload", "readResult",
                "adderTree", "store", "done"}
  /\ phase \in {"preload", "readResult", "adderTree"} =>
       walk.op \in system.jobs /\ {"op", "at"} \subseteq DOMAIN walk
  /\ phase = "readResult" =>
       /\ walk.at \in Nat
       /\ \E S : got \in Seq(S)
       /\ Len(got) = NUM_GRF * walk.at
  /\ phase = "adderTree" =>
       /\ walk = [op |-> walk.op, at |-> walk.at, num_tile |-> walk.num_tile,
                  step |-> walk.step]
       /\ walk.at \in Nat
       /\ sums = [temp |-> sums.temp, done |-> sums.done]
       /\ DOMAIN sums.temp = 0 .. walk.op.tiles
       /\ SharesRead /\ LevelsDone /\ OutputsDone(walk.at)
  /\ phase = "done" => sums = << >> \/ \E n \in Nat : OutputsDone(n)
  /\ phase \notin {"adderTree", "done"} => sums = << >>

(* There is no tree at first.                                              *)
LEMMA TreeInit == HostInit => TreeInv
  BY DEF HostInit, TreeInv

(* A new system has no sums yet.                                           *)
LEMMA ConstructTree ==
  ASSUME TreeInv, NEW s \in Systems, Construct(s)
  PROVE  TreeInv'
<1>1. phase' \in {"channels", "thrown"} /\ sums' = << >>
  BY DEF Construct
<1> QED
  BY <1>1 DEF TreeInv

(* The steps that neither read back nor add up.                            *)
LEMMA OtherTree ==
  ASSUME TreeInv, sums' = sums,
         phase \in {"channels", "ready", "store"}, phase' \in {"channels", "ready", "store", "done"}
  PROVE  TreeInv'
  BY DEF TreeInv

(* Preloading asks for no results.                                         *)
LEMMA PreloadTree ==
  ASSUME TreeInv, PreloadTile
  PROVE  TreeInv'
<1>1. /\ phase = "preload" /\ UNCHANGED << phase, system, sums >>
      /\ \E side, end : walk' = ChangeBank(walk, side, end)
  BY DEF PreloadTile
<1>2. \A side, end : /\ DOMAIN ChangeBank(walk, side, end) = DOMAIN walk
                     /\ "op" \in DOMAIN walk => ChangeBank(walk, side, end).op = walk.op
  BY DEF ChangeBank
<1>3. DOMAIN walk' = DOMAIN walk /\ walk'.op = walk.op
  BY <1>1, <1>2 DEF TreeInv
<1> QED
  BY <1>1, <1>3 DEF TreeInv

(* Nor does the kernel.                                                    *)
LEMMA KernelTree ==
  ASSUME TreeInv, KernelRuns
  PROVE  TreeInv'
<1>1. /\ phase = "preload" /\ phase' = "readResult" /\ got' = << >>
      /\ walk' = Starting(walk.op, [side \in {1} |-> ResultColGemv(walk.op)])
      /\ UNCHANGED << system, sums >>
  BY Zenon DEF KernelRuns
<1>2. walk'.op = walk.op /\ {"op", "at"} \subseteq DOMAIN walk' /\ walk'.at = 0
  BY <1>1 DEF Starting
<1>3. got' \in Seq({}) /\ Len(got') = NUM_GRF * walk'.at
  BY <1>1, <1>2, GrfAssumption
<1> QED
  BY <1>1, <1>2, <1>3 DEF TreeInv

(* Reading one block back adds its results in order.                       *)
LEMMA ReadTree ==
  ASSUME TreeInv, ReadBlock
  PROVE  TreeInv'
<1> DEFINE block == [n \in 1 .. NUM_GRF |-> Load(WalkAddr(1, n - 1))]
           T     == {block[n] : n \in 1 .. NUM_GRF}
<1>1. /\ phase = "readResult" /\ UNCHANGED << phase, system, sums >>
      /\ got' = got \o block
      /\ \E side, end : walk' = ChangeBank(walk, side, end)
  BY DEF ReadBlock
<1>2. \A side, end : /\ DOMAIN ChangeBank(walk, side, end) = DOMAIN walk
                     /\ "op" \in DOMAIN walk => ChangeBank(walk, side, end).op = walk.op
                     /\ "at" \in DOMAIN walk => ChangeBank(walk, side, end).at = walk.at + 1
  BY DEF ChangeBank
<1>3. DOMAIN walk' = DOMAIN walk /\ walk'.op = walk.op /\ walk'.at = walk.at + 1
  BY <1>1, <1>2 DEF TreeInv
<1>4. block \in Seq(T) /\ Len(block) = NUM_GRF
  <2>1. NUM_GRF \in Nat /\ \A n \in 1 .. NUM_GRF : block[n] \in T
    BY GrfAssumption
  <2>2. block = [n \in 1 .. NUM_GRF |-> block[n]]
    OBVIOUS
  <2> HIDE DEF block, T
  <2> QED
    BY <2>1, <2>2, IsASeq
<1>5. PICK S : got \in Seq(S)
  BY <1>1 DEF TreeInv
<1> HIDE DEF block, T
<1>6. block \in Seq(S \cup T) /\ got \in Seq(S \cup T)
  BY <1>4, <1>5, SeqMonotonic
<1>7. got' \in Seq(S \cup T) /\ Len(got') = Len(got) + NUM_GRF
  BY <1>1, <1>4, <1>6, ConcatProperties
<1>8. walk.at \in Nat /\ Len(got) = NUM_GRF * walk.at
  BY <1>1 DEF TreeInv
<1>9. walk'.at \in Nat /\ Len(got') = NUM_GRF * walk'.at
  <2>1. NUM_GRF * (walk.at + 1) = NUM_GRF * walk.at + NUM_GRF
    BY <1>8, GrfAssumption
  <2> QED
    BY <1>3, <1>7, <1>8, <2>1
<1> QED
  BY <1>1, <1>3, <1>7, <1>9 DEF TreeInv

(* The sizes of the outputs.                                               *)
LEMMA OutputsType ==
  ASSUME TreesHalve, GeometryInv, phase \notin {"none", "thrown"}
  PROVE  PimBlocks \in Nat /\ OutputDim \in Nat /\ OutputDim = NUM_GRF * PimBlocks
<1>1. system \in Systems /\ FilesApplied
  BY DEF GeometryInv
<1>2. GetConfigParam(db, "NUM_PIM_BLOCKS") \in Nat
  BY <1>1, ParamKept DEF Kept, TreesHalve
<1>3. system.num_pim_chans \in Nat
  BY <1>1, SystemsAssumption
<1>4. PimBlocks \in Nat
  BY <1>2, <1>3 DEF PimBlocks, NUM_PIM_RANKS
<1> HIDE DEF PimBlocks
<1> QED
  BY <1>4, GrfAssumption DEF OutputDim

(* With the last block read the leaves are the shares of one result.       *)
LEMMA ReadAllTree ==
  ASSUME TreesHalve, GeometryInv, TreeInv, ResultsInOrder, ResultsRead
  PROVE  TreeInv'
<1>1. /\ phase = "readResult" /\ walk.at = Groups(walk.op) * PimBlocks
      /\ UNCHANGED << db, system, got >>
  BY DEF ResultsRead
<1>2. sums = << >>
  BY <1>1 DEF TreeInv
<1>3. CASE walk.op.kernel # "GEMVTREE"
  <2>1. phase' = "done" /\ sums' = sums
    BY <1>3 DEF ResultsRead
  <2> QED
    BY <1>2, <2>1 DEF TreeInv
<1>4. CASE walk.op.kernel = "GEMVTREE"
  <2> DEFINE tiles == walk.op.tiles
  <2>1. /\ phase' = "adderTree"
        /\ walk' = [op |-> walk.op, at |-> 0, num_tile |-> tiles, step |-> 0]
        /\ sums' = [temp |-> [i \in 0 .. tiles |-> << "undefined" >>], done |-> << >>]
    BY <1>4 DEF ResultsRead
  <2>2. walk.op \in system.jobs /\ system \in Systems
    BY <1>1 DEF TreeInv, GeometryInv
  <2>3. PICK k \in 1 .. 31 : tiles = 2^k
    BY <1>4, <2>2 DEF TreesHalve, MAX_LOG
  <2>4. tiles \in Nat
    <3>1. k \in 0 .. 31
      OBVIOUS
    <3> QED
      BY <2>3, <3>1, PowerPositive
  <2>5. PimBlocks \in Nat /\ OutputDim \in Nat /\ OutputDim = NUM_GRF * PimBlocks
    BY <1>1, OutputsType
  <2>6. UNCHANGED OutputDim
    BY <1>1 DEF OutputDim, PimBlocks
  <2>7. Len(got) = tiles * OutputDim
    <3>1. Len(got) = NUM_GRF * (tiles * PimBlocks)
      BY <1>1, <1>4 DEF TreeInv, Groups
    <3>2. \A g, t, p \in Nat : g * (t * p) = t * (g * p)
      OBVIOUS
    <3> QED
      BY <2>4, <2>5, <3>1, <3>2, GrfAssumption
  <2>8. DOMAIN got = 1 .. tiles * OutputDim
    <3>1. PICK S : got \in Seq(S)
      BY <1>1 DEF TreeInv
    <3> QED
      BY <2>7, <3>1, LenProperties
  <2>9. SharesRead'
    <3> SUFFICES ASSUME NEW tile \in 0 .. tiles - 1, NEW y \in 0 .. OutputDim - 1
                 PROVE  got[tile * OutputDim + y + 1] = << "result", tile, y >>
      BY <1>1, <2>1, <2>6 DEF SharesRead
    <3> DEFINE i == tile * OutputDim + y + 1
    <3>1. i \in DOMAIN got
      BY <2>4, <2>5, <2>8, WithinRows
    <3>2. got[i] = << "result", (i - 1) \div OutputDim, (i - 1) % OutputDim >>
      BY <1>1, <3>1 DEF ResultsInOrder
    <3>3. i - 1 = tile * OutputDim + y
      BY <2>5
    <3>4. (i - 1) \div OutputDim = tile /\ (i - 1) % OutputDim = y
      <4>1. tile \in Nat
        BY <2>4
      <4>2. (tile * OutputDim + y) \div OutputDim = tile /\ (tile * OutputDim + y) % OutputDim = y
        BY <2>5, <4>1, RowAndColumn
      <4> QED
        BY <3>3, <4>2
    <3> QED
      BY <3>2, <3>4
  <2>10. LevelsDone'
    <3>1. walk'.op = walk.op /\ walk'.step = 0 /\ walk'.num_tile = tiles
      BY <2>1
    <3>2. k - 0 = k /\ 0 \in 0 .. k /\ ~(0 > 0)
      OBVIOUS
    <3> QED
      BY <2>3, <3>1, <3>2 DEF LevelsDone, MAX_LOG
  <2>11. OutputsDone(walk.at)'
    <3>1. walk'.at = 0 /\ sums'.done = << >>
      BY <2>1
    <3> QED
      BY <2>1, <2>4, <3>1 DEF OutputsDone
  <2>12. /\ walk' = [op |-> walk'.op, at |-> walk'.at, num_tile |-> walk'.num_tile,
                     step |-> walk'.step]
         /\ walk'.at = 0 /\ walk'.op = walk.op
         /\ sums' = [temp |-> sums'.temp, done |-> sums'.done]
         /\ DOMAIN sums'.temp = 0 .. tiles
    BY <2>1
  <2> QED
    BY <1>1, <2>1, <2>2, <2>9, <2>10, <2>11, <2>12 DEF TreeInv
<1> QED
  BY <1>3, <1>4

(* One level: pairs of shares are joined.                                  *)
LEMMA LevelTree ==
  ASSUME TreesHalve, GeometryInv, TreeInv, AddLevel
  PROVE  TreeInv'
<1> DEFINE n    == walk.num_tile
           p    == 2^walk.step
           half == n \div 2
           pair(i) == IF walk.step = 0 THEN TermOfTile(2 * i) \o TermOfTile(2 * i + 1)
                      ELSE sums.temp[2 * i] \o sums.temp[2 * i + 1]
           temp(i) == CASE i < half -> pair(i)
                        [] i = half /\ n % 2 = 1 /\ walk.step > 0 -> sums.temp[n]
                        [] OTHER -> sums.temp[i]
<1>1. /\ phase = "adderTree" /\ walk.at < OutputDim /\ n # 1
      /\ sums' = [sums EXCEPT !.temp = [i \in DOMAIN sums.temp |-> temp(i)]]
      /\ walk' = [walk EXCEPT !.num_tile = (n + 1) \div 2, !.step = walk.step + 1]
      /\ UNCHANGED << db, system, phase, got >>
  BY DEF AddLevel
<1>2. /\ walk.op \in system.jobs
      /\ walk = [op |-> walk.op, at |-> walk.at, num_tile |-> walk.num_tile,
                 step |-> walk.step]
      /\ walk.at \in Nat
      /\ sums = [temp |-> sums.temp, done |-> sums.done]
      /\ DOMAIN sums.temp = 0 .. walk.op.tiles
      /\ SharesRead /\ LevelsDone /\ OutputsDone(walk.at)
  BY <1>1 DEF TreeInv
<1>3. PICK k \in 1 .. 31 :
        /\ walk.op.tiles = 2^k /\ walk.step \in 0 .. k /\ n = 2^(k - walk.step)
        /\ walk.step > 0 =>
             \A i \in 0 .. n - 1 : sums.temp[i] = Share(i, p, walk.at)
  BY <1>2 DEF LevelsDone, MAX_LOG
<1>4. walk.step \in 0 .. k - 1
  <2>1. walk.step # k
    <3>1. k - k = 0
      OBVIOUS
    <3> QED
      BY <1>1, <1>3, <3>1, Doubling
  <2> QED
    BY <1>3, <2>1
<1>5. n = 2 * 2^(k - (walk.step + 1))
  <2>1. k - walk.step = (k - (walk.step + 1)) + 1 /\ k - (walk.step + 1) \in 0 .. 30
    BY <1>4
  <2> QED
    BY <1>3, <2>1, Doubling
<1>6. 2^(k - (walk.step + 1)) \in Nat \ {0}
  <2>1. k - (walk.step + 1) \in 0 .. 31
    BY <1>4
  <2> QED
    BY <2>1, PowerPositive
<1>7. half = 2^(k - (walk.step + 1)) /\ (n + 1) \div 2 = half /\ n = 2 * half /\ half \in Nat \ {0}
  BY <1>5, <1>6
<1>8. p \in Nat /\ 2^(walk.step + 1) = 2 * p
  <2>1. walk.step \in 0 .. 31 /\ walk.step \in 0 .. 30
    BY <1>4
  <2> QED
    BY <2>1, PowerPositive, Doubling
<1>9. walk.op.tiles \in Nat /\ n <= walk.op.tiles
  <2>1. k \in 0 .. 31 /\ k - walk.step \in 0 .. 31
    BY <1>4
  <2>2. 2^k \in Nat /\ 2^(k - walk.step) \in Nat
    BY <2>1, PowerPositive
  <2>3. k - walk.step < k => 2^(k - walk.step) < 2^k
    BY <2>1, PowersGrow
  <2>4. k - walk.step = k \/ k - walk.step < k
    BY <1>4
  <2> QED
    BY <1>3, <2>2, <2>3, <2>4
<1>10. OutputDim \in Nat /\ UNCHANGED OutputDim
  BY <1>1, OutputsType DEF OutputDim, PimBlocks
<1>11. \A t \in 0 .. walk.op.tiles - 1 : TermOfTile(t) = Share(t, 1, walk.at)
  <2> TAKE t \in 0 .. walk.op.tiles - 1
  <2>1. walk.at \in 0 .. OutputDim - 1
    BY <1>1, <1>2, <1>10
  <2>2. got[t * OutputDim + walk.at + 1] = << "result", t, walk.at >>
    BY <1>2, <2>1 DEF SharesRead
  <2>3. TermOfTile(t) = << << "result", t, walk.at >> >>
    BY <2>2 DEF TermOfTile
  <2>4. t * 1 + 1 - 1 = t
    BY <1>9
  <2>5. Share(t, 1, walk.at) = [j \in 1 .. 1 |-> << "result", t, walk.at >>]
    BY <1>9 DEF Share
  <2>6. [j \in 1 .. 1 |-> << "result", t, walk.at >>] = << << "result", t, walk.at >> >>
    OBVIOUS
  <2> QED
    BY <2>3, <2>5, <2>6
<1>12. \A i \in 0 .. half - 1 : pair(i) = Share(i, 2 * p, walk.at)
  <2> TAKE i \in 0 .. half - 1
  <2>1. i \in Nat /\ 2 * i \in 0 .. n - 1 /\ 2 * i + 1 \in 0 .. n - 1
    BY <1>7
  <2>2. pair(i) = Share(2 * i, p, walk.at) \o Share(2 * i + 1, p, walk.at)
    <3>1. CASE walk.step = 0
      <4>1. p = 1
        BY <3>1, Doubling
      <4>2. 2 * i \in 0 .. walk.op.tiles - 1 /\ 2 * i + 1 \in 0 .. walk.op.tiles - 1
        BY <1>7, <1>9, <2>1
      <4> QED
        BY <1>11, <3>1, <4>1, <4>2
    <3>2. CASE walk.step # 0
      <4>1. walk.step > 0
        BY <1>4, <3>2
      <4> QED
        BY <1>3, <2>1, <3>2, <4>1
    <3> QED
      BY <3>1, <3>2
  <2> HIDE DEF pair, p
  <2> QED
    BY <1>2, <1>8, <2>1, <2>2, ShareJoin
<1>13. \A i \in 0 .. half - 1 : temp(i) = pair(i)
  BY <1>7
<1> HIDE DEF pair, p, half, n
<1>14. /\ sums'.temp = [i \in 0 .. walk.op.tiles |-> temp(i)] /\ sums'.done = sums.done
       /\ sums' = [temp |-> sums'.temp, done |-> sums'.done]
  BY <1>1, <1>2
<1>15. \A i \in 0 .. half - 1 : sums'.temp[i] = Share(i, 2^(walk.step + 1), walk.at)
  <2> TAKE i \in 0 .. half - 1
  <2>1. i \in 0 .. walk.op.tiles
    BY <1>7, <1>9
  <2> QED
    BY <1>8, <1>12, <1>13, <1>14, <2>1
<1>16. /\ walk' = [op |-> walk.op, at |-> walk.at, num_tile |-> half,
                   step |-> walk.step + 1]
       /\ walk' = [op |-> walk'.op, at |-> walk'.at, num_tile |-> walk'.num_tile,
                   step |-> walk'.step]
       /\ walk'.op = walk.op /\ walk'.at = walk.at /\ walk'.num_tile = half
       /\ walk'.step = walk.step + 1 /\ {"op", "at"} \subseteq DOMAIN walk'
  BY <1>1, <1>2, <1>7 DEF n
<1>17. LevelsDone'
  <2>1. walk.step + 1 \in 0 .. k
    BY <1>4
  <2> QED
    BY <1>3, <1>7, <1>15, <1>16, <2>1 DEF LevelsDone, MAX_LOG
<1>18. SharesRead' /\ OutputsDone(walk.at)'
  BY <1>1, <1>2, <1>10, <1>14, <1>16 DEF SharesRead, OutputsDone
<1>19. DOMAIN sums'.temp = 0 .. walk'.op.tiles
  BY <1>14, <1>16
<1> QED
  BY <1>1, <1>2, <1>14, <1>16, <1>17, <1>18, <1>19 DEF TreeInv

(* The one sum that is left has them all.                                  *)
LEMMA OutputTree ==
  ASSUME TreesHalve, GeometryInv, TreeInv, OutputDone
  PROVE  TreeInv'
<1> DEFINE tiles == walk.op.tiles
<1>1. /\ phase = "adderTree" /\ walk.at < OutputDim /\ walk.num_tile = 1
      /\ sums' = [sums EXCEPT !.done = Append(@, sums.temp[0])]
      /\ walk' = [walk EXCEPT !.at = @ + 1, !.num_tile = tiles, !.step = 0]
      /\ phase' \in {"adderTree", "done"}
      /\ UNCHANGED << db, system, got >>
  BY DEF OutputDone
<1>2. /\ walk.op \in system.jobs
      /\ walk = [op |-> walk.op, at |-> walk.at, num_tile |-> walk.num_tile,
                 step |-> walk.step]
      /\ walk.at \in Nat
      /\ sums = [temp |-> sums.temp, done |-> sums.done]
      /\ DOMAIN sums.temp = 0 .. tiles
      /\ SharesRead /\ LevelsDone /\ OutputsDone(walk.at)
  BY <1>1 DEF TreeInv
<1>3. PICK k \in 1 .. 31 :
        /\ tiles = 2^k /\ walk.step \in 0 .. k /\ walk.num_tile = 2^(k - walk.step)
        /\ walk.step > 0 =>
             \A i \in 0 .. walk.num_tile - 1 :
               sums.temp[i] = Share(i, 2^walk.step, walk.at)
  BY <1>2 DEF LevelsDone, MAX_LOG
<1>4. walk.step = k
  <2>1. k - walk.step \in 0 .. 31 /\ 0 \in 0 .. 31
    BY <1>3
  <2>2. 0 < k - walk.step => 2^0 < 2^(k - walk.step)
    BY <2>1, PowersGrow
  <2>3. ~(0 < k - walk.step)
    BY <1>1, <1>3, <2>2, Doubling
  <2> QED
    BY <1>3, <2>1, <2>3
<1>5. sums.temp[0] = Share(0, tiles, walk.at)
  <2>1. walk.step > 0
    BY <1>4
  <2>2. 0 \in 0 .. walk.num_tile - 1
    BY <1>1
  <2> QED
    BY <1>3, <1>4, <2>1, <2>2
<1>6. tiles \in Nat
  <2>1. k \in 0 .. 31
    OBVIOUS
  <2> QED
    BY <1>3, <2>1, PowerPositive
<1> HIDE DEF tiles
<1>7. /\ sums'.temp = sums.temp /\ sums'.done = Append(sums.done, Share(0, tiles, walk.at))
      /\ sums' = [temp |-> sums'.temp, done |-> sums'.done]
  BY <1>1, <1>2, <1>5
<1>8. /\ walk'.op = walk.op /\ walk'.at = walk.at + 1 /\ walk'.num_tile = tiles
      /\ walk'.step = 0 /\ {"op", "at"} \subseteq DOMAIN walk'
      /\ walk' = [op |-> walk'.op, at |-> walk'.at, num_tile |-> walk'.num_tile,
                  step |-> walk'.step]
  BY <1>1, <1>2
<1>9. OutputsDone(walk.at)'
  <2>1. Share(0, tiles, walk.at) \in Seq(Partials)
    BY <1>2, <1>6, ShareType
  <2>2. /\ Len(sums.done) = walk.at /\ sums.done \in Seq(Seq(Partials))
        /\ \A y \in 1 .. walk.at : sums.done[y] = Share(0, tiles, y - 1)
    BY <1>2 DEF OutputsDone, tiles
  <2>3. /\ sums'.done \in Seq(Seq(Partials)) /\ Len(sums'.done) = walk.at + 1
        /\ \A y \in 1 .. walk.at : sums'.done[y] = sums.done[y]
        /\ sums'.done[walk.at + 1] = Share(0, tiles, walk.at)
    BY <1>7, <2>1, <2>2, AppendProperties
  <2>4. ASSUME NEW y \in 1 .. walk.at + 1 PROVE sums'.done[y] = Share(0, tiles, y - 1)
    <3>1. CASE y = walk.at + 1
      <4>1. y - 1 = walk.at
        BY <1>2, <3>1
      <4> QED
        BY <2>3, <3>1, <4>1
    <3>2. CASE y # walk.at + 1
      <4>1. y \in 1 .. walk.at
        BY <1>2, <3>2
      <4> QED
        BY <2>2, <2>3, <4>1
    <3> QED
      BY <3>1, <3>2
  <2>5. walk'.op.tiles = tiles
    BY <1>8 DEF tiles
  <2> QED
    BY <1>6, <1>8, <2>3, <2>4, <2>5 DEF OutputsDone
<1>10. LevelsDone'
  <2>1. k - 0 = k /\ 0 \in 0 .. k /\ ~(0 > 0)
    OBVIOUS
  <2> QED
    BY <1>3, <1>8, <2>1 DEF LevelsDone, MAX_LOG, tiles
<1>11. SharesRead'
  <2>1. UNCHANGED OutputDim
    BY <1>1 DEF OutputDim, PimBlocks
  <2> QED
    BY <1>1, <1>2, <1>8, <2>1 DEF SharesRead
<1>12. walk'.at \in Nat /\ DOMAIN sums'.temp = 0 .. walk'.op.tiles
  BY <1>2, <1>7, <1>8 DEF tiles
<1> QED
  BY <1>1, <1>2, <1>7, <1>8, <1>9, <1>10, <1>11, <1>12 DEF TreeInv

(* Every step of the host keeps the tree.                                  *)
LEMMA TreeNext ==
  ASSUME TreesHalve
  PROVE  GeometryInv /\ TreeInv /\ ResultsInOrder /\ [HostNext]_hostVars => TreeInv'
<1> SUFFICES ASSUME GeometryInv, TreeInv, ResultsInOrder, [HostNext]_hostVars
             PROVE  TreeInv'
  OBVIOUS
<1>1. ASSUME NEW s \in Systems, Construct(s) PROVE TreeInv'
  BY <1>1, ConstructTree
<1>2. CASE ConstructChannel \/ ConstructKernel
  BY <1>2, OtherTree DEF ConstructChannel, ConstructKernel
<1>3. ASSUME NEW job \in system.jobs, BeginGemv(job) PROVE TreeInv'
  <2>1. /\ phase = "ready" /\ phase' = "preload" /\ UNCHANGED << system, sums >>
        /\ walk'.op = job /\ {"op", "at"} \subseteq DOMAIN walk'
    BY <1>3 DEF BeginGemv, Begin, Starting
  <2> QED
    BY <2>1 DEF TreeInv
<1>4. CASE PreloadTile
  BY <1>4, PreloadTree
<1>5. CASE KernelRuns
  BY <1>5, KernelTree
<1>6. CASE ReadBlock
  BY <1>6, ReadTree
<1>7. CASE ResultsRead
  BY <1>7, ReadAllTree
<1>8. CASE AddLevel
  BY <1>8, LevelTree
<1>9. CASE OutputDone
  BY <1>9, OutputTree
<1>10. ASSUME NEW s \in system.streams, BeginStream(s) PROVE TreeInv'
  BY <1>10, OtherTree DEF BeginStream, Begin
<1>11. CASE StoreBurst \/ ReadStream
  BY <1>11, OtherTree DEF StoreBurst, ReadStream
<1>12. CASE UNCHANGED hostVars
  BY <1>12 DEF hostVars, TreeInv, SharesRead, LevelsDone, OutputsDone, OutputDim, PimBlocks
<1> QED
  BY <1>1, <1>2, <1>3, <1>4, <1>5, <1>6, <1>7, <1>8, <1>9, <1>10, <1>11, <1>12 DEF HostNext

(* A complete list of shares is the sum asked for.                         *)
LEMMA SumsOfShares ==
  ASSUME NEW n \in Nat, OutputsDone(n), NEW y \in DOMAIN sums.done
  PROVE  /\ Len(sums.done[y]) = walk.op.tiles
         /\ ToSet(sums.done[y])
              = {<< "result", t, y - 1 >> : t \in 0 .. walk.op.tiles - 1}
<1> DEFINE tiles == walk.op.tiles
<1>1. y \in 1 .. n /\ sums.done[y] = Share(0, tiles, y - 1)
  BY LenProperties DEF OutputsDone
<1>2. y - 1 \in Nat /\ 0 \in Nat
  BY <1>1
<1>3. tiles \in Nat /\ Len(Share(0, tiles, y - 1)) = tiles
  BY <1>2, ShareType, ZenonT(30) DEF OutputsDone
<1>4. Share(0, tiles, y - 1) = [j \in 1 .. tiles |-> << "result", j - 1, y - 1 >>]
  <2>1. \A j \in 1 .. tiles : 0 * tiles + j - 1 = j - 1
    BY <1>3
  <2> QED
    BY <2>1 DEF Share
<1>5. ToSet(Share(0, tiles, y - 1)) = {<< "result", j - 1, y - 1 >> : j \in 1 .. tiles}
  BY <1>4 DEF ToSet
<1>6. {<< "result", j - 1, y - 1 >> : j \in 1 .. tiles}
        = {<< "result", t, y - 1 >> : t \in 0 .. tiles - 1}
  <2>1. ASSUME NEW t \in 0 .. tiles - 1
        PROVE  << "result", t, y - 1 >> \in {<< "result", j - 1, y - 1 >> : j \in 1 .. tiles}
    <3>1. t + 1 \in 1 .. tiles /\ (t + 1) - 1 = t
      BY <1>3
    <3> QED
      BY <3>1
  <2>2. ASSUME NEW j \in 1 .. tiles
        PROVE  << "result", j - 1, y - 1 >> \in {<< "result", t, y - 1 >> : t \in 0 .. tiles - 1}
    <3>1. j - 1 \in 0 .. tiles - 1
      BY <1>3
    <3> QED
      BY <3>1
  <2> QED
    BY <2>1, <2>2
<1> QED
  BY <1>1, <1>3, <1>5, <1>6

(* At the end every output has every share.                                *)
LEMMA TreeImplies == TreeInv => SumsComplete
<1> SUFFICES ASSUME TreeInv, phase \in {"adderTree", "done"}, sums # << >>,
                    NEW y \in DOMAIN sums.done
             PROVE  /\ Len(sums.done[y]) = walk.op.tiles
                    /\ ToSet(sums.done[y])
                         = {<< "result", t, y - 1 >> : t \in 0 .. walk.op.tiles - 1}
  BY DEF SumsComplete
<1>1. PICK n \in Nat : OutputsDone(n)
  BY DEF TreeInv
<1> QED
  BY <1>1, SumsOfShares

(* Once readResult returns the shares in order, adderTree adds up every    *)
(* tile's share of every output, and once: for any power of two of tiles,  *)
(* any number of blocks, and although the levels work in one array that    *)
(* no output finds empty.                                                  *)
LEMMA SumsFromResults ==
  ASSUME TreesHalve
  PROVE  HostSpec /\ []ResultsInOrder => []SumsComplete
<1>1. GeometryInv /\ TreeInv /\ ResultsInOrder /\ [HostNext]_hostVars => TreeInv'
  BY TreeNext
<1>2. TreeInv => SumsComplete
  BY TreeImplies
<1> QED
  BY <1>1, <1>2, GeometryInit, GeometryNext, TreeInit, PTL DEF HostSpec

-----------------------------------------------------------------------------
(* Taking addresses apart.                                                 *)

FieldNames == {"chan", "rank", "bank", "low", "bg", "row", "col"}

(* An AddrMapping whose widths fit.                                        *)
IsMapping(m) ==
  /\ m.scheme \in 1 .. 10 /\ m.offset \in 0 .. 31
  /\ \A f \in FieldNames : m.width[f] \in 0 .. 31

Order(m) == Fields[m.scheme]

(* What is left of an address when k fields have been taken off.           *)
IsRest(m, addr, u) ==
  u = [k \in 0 .. Len(Order(m)) |->
         IF k = 0 THEN addr \div 2^m.offset ELSE u[k - 1] \div 2^m.width[Order(m)[k]]]

Rest(m, addr) == CHOOSE u : IsRest(m, addr, u)

Place(m, f) == CHOOSE k \in DOMAIN Order(m) : Order(m)[k] = f

Part(m, addr, f) ==
  IF f \in ToSet(Order(m)) THEN Rest(m, addr)[Place(m, f) - 1] % 2^m.width[f] ELSE 0

(* A cell is the parts of its address.                                     *)
LEMMA AddressParts ==
  ASSUME NEW m, NEW addr
  PROVE  addressMapping(m, addr) =
           [ chan |-> Part(m, addr, "chan"), rank |-> Part(m, addr, "rank"),
             bank |-> Part(m, addr, "bank") + Part(m, addr, "low")
                        + Part(m, addr, "bg") * 2^m.width.low,
             row |-> Part(m, addr, "row"), col |-> Part(m, addr, "col") ]
  BY DEF addressMapping, Part, Rest, IsRest, Order, Place

(* The fields of every scheme.                                             *)
LEMMA SchemeFields ==
  ASSUME NEW m, IsMapping(m)
  PROVE  /\ Order(m) \in Seq(FieldNames) /\ Len(Order(m)) \in 5 .. 6
         /\ {"chan", "rank", "row", "col"} \subseteq ToSet(Order(m))
         /\ \A i, j \in 1 .. Len(Order(m)) : Order(m)[i] = Order(m)[j] => i = j
         /\ \/ "bank" \in ToSet(Order(m)) /\ "low" \notin ToSet(Order(m)) /\ "bg" \notin ToSet(Order(m))
            \/ "bank" \notin ToSet(Order(m)) /\ {"low", "bg"} \subseteq ToSet(Order(m))
<1>1. m.scheme \in 1 .. 10
  BY DEF IsMapping
<1>2. CASE m.scheme = 1
  BY <1>2 DEF Order, Fields, ToSet, FieldNames
<1>3. CASE m.scheme = 2
  BY <1>3 DEF Order, Fields, ToSet, FieldNames
<1>4. CASE m.scheme = 3
  BY <1>4 DEF Order, Fields, ToSet, FieldNames
<1>5. CASE m.scheme = 4
  BY <1>5 DEF Order, Fields, ToSet, FieldNames
<1>6. CASE m.scheme = 5
  BY <1>6 DEF Order, Fields, ToSet, FieldNames
<1>7. CASE m.scheme = 6
  BY <1>7 DEF Order, Fields, ToSet, FieldNames
<1>8. CASE m.scheme = 7
  BY <1>8 DEF Order, Fields, ToSet, FieldNames
<1>9. CASE m.scheme = 8
  BY <1>9 DEF Order, Fields, ToSet, FieldNames
<1>10. CASE m.scheme = 9
  BY <1>10 DEF Order, Fields, ToSet, FieldNames
<1>11. CASE m.scheme = 10
  BY <1>11 DEF Order, Fields, ToSet, FieldNames
<1> QED
  BY <1>1, <1>2, <1>3, <1>4, <1>5, <1>6, <1>7, <1>8, <1>9, <1>10, <1>11

(* The fields come off one after the other.                                *)
LEMMA RestDef ==
  ASSUME NEW m, IsMapping(m), NEW addr \in Nat
  PROVE  /\ Rest(m, addr) \in [0 .. Len(Order(m)) -> Nat]
         /\ Rest(m, addr)[0] = addr \div 2^m.offset
         /\ \A k \in 1 .. Len(Order(m)) :
              Rest(m, addr)[k] = Rest(m, addr)[k - 1] \div 2^m.width[Order(m)[k]]
<1> DEFINE N == Len(Order(m))
           step == [k \in 1 .. N |-> [x \in Nat |-> x \div 2^m.width[Order(m)[k]]]]
           start == addr \div 2^m.offset
           Run(u) == /\ u[0] = start
                     /\ \A k \in 1 .. N : u[k] = u[k - 1] \div 2^m.width[Order(m)[k]]
<1>1. N \in Nat /\ \A k \in 1 .. N : 2^m.width[Order(m)[k]] \in Nat \ {0}
  <2>1. Order(m) \in Seq(FieldNames) /\ N \in Nat
    BY SchemeFields
  <2>2. ASSUME NEW k \in 1 .. N PROVE 2^m.width[Order(m)[k]] \in Nat \ {0}
    <3>1. Order(m)[k] \in FieldNames
      BY <2>1, ElementOfSeq
    <3>2. m.width[Order(m)[k]] \in 0 .. 31
      BY <3>1 DEF IsMapping
    <3> QED
      BY <3>2, PowerPositive
  <2> QED
    BY <2>1, <2>2
<1>2. start \in Nat
  <2>1. 2^m.offset \in Nat \ {0}
    BY PowerPositive DEF IsMapping
  <2>2. \A d \in Nat \ {0} : addr \div d \in Nat
    OBVIOUS
  <2> QED
    BY <2>1, <2>2
<1>3. step \in [1 .. N -> [Nat -> Nat]]
  <2>1. \A x \in Nat, d \in Nat \ {0} : x \div d \in Nat
    OBVIOUS
  <2> QED
    BY <1>1, <2>1
<1> HIDE DEF N
<1>4. PICK f \in [0 .. N -> Nat] : IsLoop(N, start, step, f)
  <2> HIDE DEF step, start
  <2> QED
    BY <1>1, <1>2, <1>3, LoopExists
<1>5. Run(f)
  <2>1. \A k \in 1 .. N : k - 1 \in 0 .. N
    BY <1>1
  <2>2. \A k \in 1 .. N : f[k - 1] \in Nat /\ f[k] = step[k][f[k - 1]]
    BY <1>1, <1>4, <2>1 DEF IsLoop
  <2>3. f[0] = start
    BY <1>4 DEF IsLoop
  <2> HIDE DEF start
  <2> QED
    BY <2>2, <2>3
<1>6. IsRest(m, addr, f)
  <2>1. f = [k \in 0 .. N |-> f[k]]
    OBVIOUS
  <2>2. \A k \in 0 .. N : f[k] = IF k = 0 THEN start ELSE f[k - 1] \div 2^m.width[Order(m)[k]]
    BY <1>1, <1>5
  <2> QED
    BY <2>1, <2>2 DEF IsRest, N
<1>7. IsRest(m, addr, Rest(m, addr))
  <2> HIDE DEF IsRest
  <2> QED
    BY <1>6 DEF Rest
<1> DEFINE r == Rest(m, addr)
<1> HIDE DEF r
<1>8. r = [k \in 0 .. N |-> IF k = 0 THEN start ELSE r[k - 1] \div 2^m.width[Order(m)[k]]]
  BY <1>7 DEF IsRest, N, r
<1>9. Run(r) /\ DOMAIN r = 0 .. N
  BY <1>1, <1>8
<1>10. \A k \in 0 .. N : r[k] \in Nat
  <2> DEFINE P == {k \in 0 .. N : r[k] \in Nat}
  <2>1. 0 \in P
    BY <1>1, <1>2, <1>9
  <2>2. ASSUME NEW n \in 0 .. N - 1, n \in P PROVE n + 1 \in P
    <3>1. n + 1 \in 1 .. N /\ n + 1 \in 0 .. N /\ (n + 1) - 1 = n
      BY <1>1
    <3>2. r[n + 1] = r[n] \div 2^m.width[Order(m)[n + 1]]
      BY <1>9, <3>1
    <3>3. \A x \in Nat, d \in Nat \ {0} : x \div d \in Nat
      OBVIOUS
    <3> QED
      BY <1>1, <2>2, <3>1, <3>2, <3>3
  <2>3. 0 .. N \subseteq P
    <3> HIDE DEF P
    <3> QED
      BY <1>1, <2>1, <2>2, InductionUpTo
  <2> QED
    BY <2>3
<1>11. r = [k \in 0 .. N |-> r[k]]
  BY <1>8
<1> QED
  BY <1>9, <1>10, <1>11 DEF r, N

(* Both sides of an address mean the same widths.                          *)
SameWidths(m, p) ==
  /\ p.scheme = m.scheme /\ p.offset = m.offset
  /\ p.chan = m.width["chan"] /\ p.low = m.width["low"] /\ p.bg = m.width["bg"]
  /\ p.col = m.width["col"] /\ p.row = m.width["row"]

(* The fields of the scheme of the kernels.                                *)
LEMMA EighthOrder ==
  ASSUME NEW m, m.scheme = 8
  PROVE  /\ Order(m) = << "chan", "low", "bg", "col", "row", "rank" >> /\ Len(Order(m)) = 6
         /\ Place(m, "chan") = 1 /\ Place(m, "low") = 2 /\ Place(m, "bg") = 3
         /\ Place(m, "col") = 4 /\ Place(m, "row") = 5 /\ Place(m, "rank") = 6
         /\ {"chan", "low", "bg", "col", "row", "rank"} \subseteq ToSet(Order(m))
         /\ "bank" \notin ToSet(Order(m))
<1>1. Order(m) = << "chan", "low", "bg", "col", "row", "rank" >> /\ Len(Order(m)) = 6
  BY DEF Order, Fields
<1>2. /\ {"chan", "low", "bg", "col", "row", "rank"} \subseteq ToSet(Order(m))
      /\ "bank" \notin ToSet(Order(m))
  BY <1>1 DEF ToSet
<1>3. /\ Place(m, "chan") = 1 /\ Place(m, "low") = 2 /\ Place(m, "bg") = 3
      /\ Place(m, "col") = 4 /\ Place(m, "row") = 5 /\ Place(m, "rank") = 6
  BY <1>1 DEF Place
<1> QED
  BY <1>1, <1>2, <1>3

(* The last field put in front of the others is the first to come off.     *)
LEMMA TakenOff ==
  \A a \in Nat, d \in Nat \ {0} : \A r \in 0 .. d - 1 :
    a * d + r \in Nat /\ (a * d + r) \div d = a /\ (a * d + r) % d = r
<1> SUFFICES ASSUME NEW a \in Nat, NEW d \in Nat \ {0}, NEW r \in 0 .. d - 1
             PROVE  a * d + r \in Nat /\ (a * d + r) \div d = a /\ (a * d + r) % d = r
  OBVIOUS
<1> QED
  BY RowAndColumn

(* addressMapping takes apart what addrGen has put together.               *)
LEMMA RoundTrip ==
  ASSUME NEW m, IsMapping(m), m.scheme = 8, NEW p, SameWidths(m, p),
         NEW chan \in 0 .. 2^m.width["chan"] - 1, NEW rank \in 0 .. 2^m.width["rank"] - 1,
         NEW bg \in 0 .. 2^m.width["bg"] - 1, NEW bank \in 0 .. 2^m.width["low"] - 1,
         NEW row \in 0 .. 2^m.width["row"] - 1, NEW col \in 0 .. 2^m.width["col"] - 1
  PROVE  addressMapping(m, addrGen(p, chan, rank, bg, bank, row, col)) =
           [ chan |-> chan, rank |-> rank, bank |-> bank + bg * 2^m.width["low"],
             row |-> row, col |-> col ]
<1> DEFINE O == 2^m.offset
           C == 2^m.width["chan"]
           L == 2^m.width["low"]
           G == 2^m.width["bg"]
           K == 2^m.width["col"]
           R == 2^m.width["row"]
           Q == 2^m.width["rank"]
           x5 == rank * R + row
           x4 == x5 * K + col
           x3 == x4 * G + bg
           x2 == x3 * L + bank
           x1 == x2 * C + chan
           addr == x1 * O
           r == Rest(m, addr)
<1>1. /\ O \in Nat \ {0} /\ C \in Nat \ {0} /\ L \in Nat \ {0} /\ G \in Nat \ {0}
      /\ K \in Nat \ {0} /\ R \in Nat \ {0} /\ Q \in Nat \ {0}
  BY PowerPositive DEF IsMapping, FieldNames
<1>2. addrGen(p, chan, rank, bg, bank, row, col) = addr
  BY DEF addrGen, SameWidths
<1> HIDE DEF O, C, L, G, K, R, Q
<1>3. /\ rank \in Nat /\ rank \in 0 .. Q - 1 /\ row \in 0 .. R - 1 /\ col \in 0 .. K - 1
      /\ bg \in 0 .. G - 1 /\ bank \in 0 .. L - 1 /\ chan \in 0 .. C - 1
  BY <1>1 DEF Q, R, K, G, L, C
<1>4. x5 \in Nat /\ x5 \div R = rank /\ x5 % R = row
  BY <1>1, <1>3, TakenOff, Zenon
<1> HIDE DEF x5
<1>5. x4 \in Nat /\ x4 \div K = x5 /\ x4 % K = col
  BY <1>1, <1>3, <1>4, TakenOff, Zenon
<1> HIDE DEF x4
<1>6. x3 \in Nat /\ x3 \div G = x4 /\ x3 % G = bg
  BY <1>1, <1>3, <1>5, TakenOff, Zenon
<1> HIDE DEF x3
<1>7. x2 \in Nat /\ x2 \div L = x3 /\ x2 % L = bank
  BY <1>1, <1>3, <1>6, TakenOff, Zenon
<1> HIDE DEF x2
<1>8. x1 \in Nat /\ x1 \div C = x2 /\ x1 % C = chan
  BY <1>1, <1>3, <1>7, TakenOff, Zenon
<1> HIDE DEF x1
<1>9. addr \in Nat /\ addr \div O = x1
  <2>1. addr = x1 * O + 0 /\ 0 \in 0 .. O - 1
    BY <1>1, <1>8
  <2>2. x1 * O + 0 \in Nat /\ (x1 * O + 0) \div O = x1
    BY <1>1, <1>8, <2>1, TakenOff, Zenon
  <2> QED
    BY <2>1, <2>2
<1>10. rank % Q = rank
  BY <1>1, <1>3
<1> HIDE DEF addr
<1>11. /\ Order(m) = << "chan", "low", "bg", "col", "row", "rank" >> /\ Len(Order(m)) = 6
       /\ Place(m, "chan") = 1 /\ Place(m, "low") = 2 /\ Place(m, "bg") = 3
       /\ Place(m, "col") = 4 /\ Place(m, "row") = 5 /\ Place(m, "rank") = 6
       /\ {"chan", "low", "bg", "col", "row", "rank"} \subseteq ToSet(Order(m))
       /\ "bank" \notin ToSet(Order(m))
  BY EighthOrder
<1>12. /\ r[0] = addr \div O
       /\ \A k \in 1 .. 6 : r[k] = r[k - 1] \div 2^m.width[Order(m)[k]]
  BY <1>9, <1>11, RestDef DEF O
<1> HIDE DEF r
<1>13. /\ r[0] = x1 /\ r[1] = r[0] \div C /\ r[2] = r[1] \div L /\ r[3] = r[2] \div G
       /\ r[4] = r[3] \div K /\ r[5] = r[4] \div R
  <2>1. /\ r[1] = r[1 - 1] \div 2^m.width[Order(m)[1]] /\ r[2] = r[2 - 1] \div 2^m.width[Order(m)[2]]
        /\ r[3] = r[3 - 1] \div 2^m.width[Order(m)[3]] /\ r[4] = r[4 - 1] \div 2^m.width[Order(m)[4]]
        /\ r[5] = r[5 - 1] \div 2^m.width[Order(m)[5]]
    BY <1>12
  <2> QED
    BY <1>9, <1>11, <1>12, <2>1 DEF C, L, G, K, R
<1>14. /\ r[0] = x1 /\ r[1] = x2 /\ r[2] = x3 /\ r[3] = x4 /\ r[4] = x5 /\ r[5] = rank
  BY <1>4, <1>5, <1>6, <1>7, <1>8, <1>13
<1>15. /\ Part(m, addr, "chan") = r[0] % C /\ Part(m, addr, "low") = r[1] % L
       /\ Part(m, addr, "bg") = r[2] % G /\ Part(m, addr, "col") = r[3] % K
       /\ Part(m, addr, "row") = r[4] % R /\ Part(m, addr, "rank") = r[5] % Q
       /\ Part(m, addr, "bank") = 0
  BY <1>11 DEF Part, r, C, L, G, K, R, Q
<1>16. /\ Part(m, addr, "chan") = chan /\ Part(m, addr, "low") = bank
       /\ Part(m, addr, "bg") = bg /\ Part(m, addr, "col") = col
       /\ Part(m, addr, "row") = row /\ Part(m, addr, "rank") = rank
       /\ Part(m, addr, "bank") = 0
  BY <1>4, <1>5, <1>6, <1>7, <1>8, <1>10, <1>14, <1>15
<1>17. m.width.low = m.width["low"]
  OBVIOUS
<1>18. 0 + bank + bg * L = bank + bg * L
  BY <1>1
<1> QED
  BY <1>2, <1>16, <1>17, <1>18, AddressParts DEF L

-----------------------------------------------------------------------------
(* The sizes of a system with kernels.                                     *)

(* Channels, banks and rows are powers of two, as well, a rank has room,   *)
(* and no default has made NUM_RANKS a parameter.                          *)
RegularSize(s) ==
  /\ Param(s, "NUM_RANKS") = 0 /\ RankBytes(s) \in Nat \ {0}
  /\ \E h, n, g, r \in Exponents :
       /\ Param(s, "NUM_CHANS") = 2^h /\ Param(s, "NUM_ROWS") = 2^r
       /\ Param(s, "NUM_BANKS") = 2^n /\ Param(s, "NUM_BANK_GROUPS") = 2^g /\ g <= n

(* A PIM block has two banks or more and its bank group to itself or with  *)
(* others, addresses go by the one scheme that addrGen knows, and operands *)
(* and results fit the rows.                                               *)
KernelFits(s, job) ==
  /\ Param(s, "ADDRESS_MAPPING_SCHEME") = "scheme8"
  /\ s.num_pim_chans <= Param(s, "NUM_CHANS")
  /\ Param(s, "NUM_COLS") \div Param(s, "BL") = NUM_COLS_PER_BL
  /\ \E n, p, g \in Exponents :
       /\ Param(s, "NUM_BANKS") = 2^n /\ Param(s, "NUM_PIM_BLOCKS") = 2^p
       /\ Param(s, "NUM_BANK_GROUPS") = 2^g /\ g <= p /\ p < n
  /\ IsGemv(job)
  /\ job.tiles \in Nat \ {0} /\ job.outputs \in Nat \ {0} /\ job.batch \in Nat \ {0}
  /\ \A side \in 0 .. 1 : OperandSize(job, side) <= Param(s, "NUM_ROWS") * NUM_COLS_PER_BL
  /\ ResultColGemv(job) + Groups(job) * NUM_GRF <= Param(s, "NUM_ROWS") * NUM_COLS_PER_BL

(* In a system that is used, every channel has some memory.                *)
RegularSystems ==
  \A s \in Systems : Readable(s.device) /\ Readable(s.system) /\ IsUsable(Table(s)) =>
    /\ PowersOfTwo(s) /\ RegularSize(s)
    /\ s.jobs # {} \/ s.streams # {} => SizeOfChannel(s) # 0
    /\ \A job \in s.jobs : KernelFits(s, job)

(* What uLog2 makes of a parameter that is missing.                        *)
LEMMA LogOfZero == uLog2(0) = 0
<1> DEFINE Log(k) == 2^k >= 0 /\ \A j \in 0 .. k - 1 : 2^j < 0
<1>1. Log(0)
  BY Doubling
<1>2. ASSUME NEW k \in 0 .. 31, Log(k) PROVE k = 0
  <2>0. k # 0 => 0 \in 0 .. k - 1
    OBVIOUS
  <2>1. k # 0 => 2^0 < 0
    BY <1>2, <2>0, Zenon
  <2> QED
    BY <2>1, Doubling
<1>3. uLog2(0) = CHOOSE k \in 0 .. 31 : Log(k)
  BY DEF uLog2, MAX_LOG
<1> HIDE DEF Log
<1> QED
  BY <1>1, <1>2, <1>3

(* A usable table names one of the ten schemes.                            *)
LEMMA SchemeType ==
  ASSUME NEW t, IsUsable(t)
  PROVE  /\ getAddressMappingScheme(t) \in 1 .. 10
         /\ GetConfigParam(t, "ADDRESS_MAPPING_SCHEME") = "scheme8" => getAddressMappingScheme(t) = 8
<1> DEFINE name == GetConfigParam(t, "ADDRESS_MAPPING_SCHEME")
<1>1. name \in ToSet(Schemes)
  BY DEF IsUsable, Policies
<1>2. DOMAIN Schemes = 1 .. 10
  BY DEF Schemes
<1>3. \E k \in 1 .. 10 : Schemes[k] = name
  BY <1>1, <1>2 DEF ToSet
<1>4. \A k \in 1 .. 10 : Schemes[k] = "scheme8" => k = 8
  BY DEF Schemes
<1> QED
  BY <1>2, <1>3, <1>4 DEF getAddressMappingScheme

(* The widths of a regular system are the logarithms of its sizes.         *)
LEMMA MappingSizes ==
  ASSUME NEW s, PowersOfTwo(s), RegularSize(s), IsUsable(Table(s)),
         NEW m, m = AddrMapping(Table(s))
  PROVE  /\ IsMapping(m) /\ SameWidths(m, PIMAddrManager(Table(s)))
         /\ m.width["rank"] = 0
         /\ 2^m.width["chan"] = Param(s, "NUM_CHANS")
         /\ 2^m.width["row"] = Param(s, "NUM_ROWS")
         /\ 2^m.width["col"] = Param(s, "NUM_COLS") \div Param(s, "BL")
         /\ 2^m.width["bank"] = Param(s, "NUM_BANKS")
         /\ 2^m.width["bg"] = Param(s, "NUM_BANK_GROUPS")
         /\ 2^m.width["low"] = Param(s, "NUM_BANKS") \div Param(s, "NUM_BANK_GROUPS")
         /\ 2^m.width["low"] * 2^m.width["bg"] = Param(s, "NUM_BANKS")
<1>1. PICK c, b, j \in Exponents :
        /\ Param(s, "NUM_COLS") = 2^c /\ Param(s, "BL") = 2^b
        /\ Param(s, "JEDEC_DATA_BUS_BITS") \div 8 = 2^j
        /\ b <= c /\ j + b <= MAX_LOG
  BY DEF PowersOfTwo
<1>2. PICK h, n, g, r \in Exponents :
        /\ Param(s, "NUM_CHANS") = 2^h /\ Param(s, "NUM_ROWS") = 2^r
        /\ Param(s, "NUM_BANKS") = 2^n /\ Param(s, "NUM_BANK_GROUPS") = 2^g /\ g <= n
  BY DEF RegularSize
<1>3. /\ c \in 0 .. 31 /\ b \in 0 .. 31 /\ j \in 0 .. 31 /\ b \in 0 .. c
      /\ b \in 0 .. 31 - j /\ j + b \in 0 .. 31 /\ c - b \in 0 .. 31
  BY <1>1 DEF Exponents, MAX_LOG
<1>4. /\ h \in 0 .. 31 /\ n \in 0 .. 31 /\ g \in 0 .. 31 /\ r \in 0 .. 31 /\ g \in 0 .. n
      /\ n - g \in 0 .. 31 /\ g \in 0 .. 31 - (n - g) /\ (n - g) + g = n
  BY <1>2 DEF Exponents, MAX_LOG
<1>5. TransactionSize(Table(s)) = 2^(j + b)
  <2>1. 2^(j + b) = 2^j * 2^b
    BY <1>3, PowerSum
  <2> QED
    BY <1>1, <2>1 DEF TransactionSize, Param
<1>6. /\ uLog2(TransactionSize(Table(s))) = j + b
      /\ uLog2(Param(s, "JEDEC_DATA_BUS_BITS") \div 8) = j
      /\ uLog2(Param(s, "NUM_COLS")) = c
      /\ uLog2(Param(s, "NUM_CHANS")) = h /\ uLog2(Param(s, "NUM_ROWS")) = r
      /\ uLog2(Param(s, "NUM_BANKS")) = n /\ uLog2(Param(s, "NUM_BANK_GROUPS")) = g
      /\ uLog2(Param(s, "NUM_RANKS")) = 0
  <2>1. uLog2(2^(j + b)) = j + b /\ uLog2(2^j) = j /\ uLog2(2^c) = c
    BY <1>3, LogOfPower
  <2>2. uLog2(2^h) = h /\ uLog2(2^r) = r /\ uLog2(2^n) = n /\ uLog2(2^g) = g
    BY <1>4, LogOfPower
  <2>3. uLog2(Param(s, "NUM_RANKS")) = 0
    BY LogOfZero DEF RegularSize
  <2> QED
    BY <1>1, <1>2, <1>5, <2>1, <2>2, <2>3, Zenon
<1>7. /\ j + ((j + b) - j) = j + b /\ c - ((j + b) - j) = c - b
  BY <1>3
<1>8. getAddressMappingScheme(Table(s)) \in 1 .. 10
  BY SchemeType
<1>9. /\ m.scheme = getAddressMappingScheme(Table(s)) /\ m.offset = j + b
      /\ m.width = [ chan |-> h, rank |-> 0, bank |-> n, low |-> n - g, bg |-> g, row |-> r,
                     col |-> c - b ]
  BY <1>6, <1>7 DEF AddrMapping, Param
<1>10. IsMapping(m)
  BY <1>3, <1>4, <1>8, <1>9 DEF IsMapping, FieldNames
<1>11. SameWidths(m, PIMAddrManager(Table(s)))
  <2>1. m.width["col"] = PIMAddrManager(Table(s)).col /\ m.offset = PIMAddrManager(Table(s)).offset
    BY ColumnsAgree DEF AddrMapping
  <2> QED
    BY <1>6, <1>9, <2>1 DEF SameWidths, PIMAddrManager, Param
<1>12. 2^(c - b) = Param(s, "NUM_COLS") \div Param(s, "BL")
  BY <1>1, <1>3, PowerQuotient
<1>13. /\ 2^(n - g) = Param(s, "NUM_BANKS") \div Param(s, "NUM_BANK_GROUPS")
       /\ 2^(n - g) * 2^g = Param(s, "NUM_BANKS")
  <2>1. 2^n \div 2^g = 2^(n - g) /\ 2^((n - g) + g) = 2^(n - g) * 2^g
    BY <1>4, PowerQuotient, PowerSum
  <2> QED
    BY <1>2, <1>4, <2>1
<1> QED
  BY <1>2, <1>9, <1>10, <1>11, <1>12, <1>13

(* The offset of an address is in a burst.                                 *)
LEMMA TransactionOfMapping ==
  ASSUME NEW s, PowersOfTwo(s), NEW m, m = AddrMapping(Table(s))
  PROVE  TransactionSize(Table(s)) = 2^m.offset
<1>1. PICK b, j \in Exponents :
        /\ Param(s, "BL") = 2^b /\ Param(s, "JEDEC_DATA_BUS_BITS") \div 8 = 2^j
        /\ j + b <= MAX_LOG
  BY DEF PowersOfTwo
<1>2. /\ b \in 0 .. 31 - j /\ j \in 0 .. 31 /\ j + b \in 0 .. 31 /\ j + ((j + b) - j) = j + b
  BY <1>1 DEF Exponents, MAX_LOG
<1>3. TransactionSize(Table(s)) = 2^(j + b)
  <2>1. 2^(j + b) = 2^j * 2^b
    BY <1>2, PowerSum
  <2> QED
    BY <1>1, <2>1 DEF TransactionSize, Param
<1>4. /\ uLog2(TransactionSize(Table(s))) = j + b
      /\ uLog2(Param(s, "JEDEC_DATA_BUS_BITS") \div 8) = j
  BY <1>1, <1>2, <1>3, LogOfPower
<1> QED
  BY <1>2, <1>3, <1>4 DEF AddrMapping, Param

BankGroups == GetConfigParam(db, "NUM_BANK_GROUPS")
Pairs      == BanksPerGroup \div BanksPerBlock

(* The sizes by which kernels lay out their data, and those of addresses.  *)
KernelSizes ==
  /\ BankGroups \in Nat \ {0} /\ Pairs \in Nat \ {0}
  /\ BanksPerBlock \in Nat /\ BanksPerBlock >= 2
  /\ BanksPerGroup = Pairs * BanksPerBlock
  /\ system.num_pim_chans \in Nat \ {0}
  /\ PimBlocks = system.num_pim_chans * (BankGroups * Pairs)

AddressSizes ==
  /\ IsMapping(mapping) /\ mapping.scheme = 8 /\ SameWidths(mapping, manager)
  /\ system.num_pim_chans <= 2^mapping.width["chan"]
  /\ 2^mapping.width["bg"] = BankGroups /\ 2^mapping.width["low"] = BanksPerGroup
  /\ 2^mapping.width["col"] = NUM_COLS_PER_BL /\ manager.num_cols_per_bl = NUM_COLS_PER_BL

JobFits(job) ==
  /\ IsGemv(job)
  /\ job.tiles \in Nat \ {0} /\ job.outputs \in Nat \ {0} /\ job.batch \in Nat \ {0}
  /\ \A side \in 0 .. 1 : OperandSize(job, side) <= 2^mapping.width["row"] * NUM_COLS_PER_BL
  /\ ResultColGemv(job) + Groups(job) * NUM_GRF <= 2^mapping.width["row"] * NUM_COLS_PER_BL

(* Steps that leave the system leave its sizes.                            *)
LEMMA SizesKept ==
  ASSUME UNCHANGED << db, system, mapping, manager >>
  PROVE  /\ BankGroups' = BankGroups /\ Pairs' = Pairs /\ BanksPerBlock' = BanksPerBlock
         /\ BanksPerGroup' = BanksPerGroup /\ PimBlocks' = PimBlocks
  BY DEF BankGroups, Pairs, BanksPerBlock, BanksPerGroup, PimBlocks, NUM_PIM_RANKS

(* A regular system has the sizes that its kernels need.                   *)
LEMMA SizesOfKernels ==
  ASSUME RegularSystems, GeometryInv, InUse, NEW job \in system.jobs
  PROVE  KernelSizes /\ AddressSizes /\ JobFits(job)
<1> DEFINE s == system
<1>1. /\ s \in Systems /\ FilesApplied /\ IsUsable(Table(s))
      /\ Readable(s.device) /\ Readable(s.system)
      /\ mapping = AddrMapping(Table(s)) /\ manager = PIMAddrManager(Table(s))
  BY DEF GeometryInv, InUse
<1>2. PowersOfTwo(s) /\ RegularSize(s) /\ KernelFits(s, job)
  BY <1>1 DEF RegularSystems
<1>3. /\ BankGroups = Param(s, "NUM_BANK_GROUPS")
      /\ GetConfigParam(db, "NUM_BANKS") = Param(s, "NUM_BANKS")
      /\ GetConfigParam(db, "NUM_PIM_BLOCKS") = Param(s, "NUM_PIM_BLOCKS")
  BY <1>1, ParamKept DEF Kept, BankGroups
<1>4. PICK n, p, g \in Exponents :
        /\ Param(s, "NUM_BANKS") = 2^n /\ Param(s, "NUM_PIM_BLOCKS") = 2^p
        /\ Param(s, "NUM_BANK_GROUPS") = 2^g /\ g <= p /\ p < n
  BY <1>2 DEF KernelFits
<1>5. /\ n \in 0 .. 31 /\ p \in 0 .. 31 /\ g \in 0 .. 31 /\ g \in 0 .. n /\ p \in 0 .. n
      /\ g \in 0 .. p /\ n - g \in 0 .. 31 /\ n - p \in 0 .. 31 /\ p - g \in 0 .. 31
      /\ n - p \in 0 .. n - g /\ (n - g) - (n - p) = p - g /\ 0 < n - p
      /\ n - p \in 0 .. 31 - (p - g) /\ (p - g) + (n - p) = n - g
      /\ p - g \in 0 .. 31 - g /\ g + (p - g) = p
  BY <1>4 DEF Exponents, MAX_LOG
<1>6. /\ BanksPerGroup = 2^(n - g) /\ BanksPerBlock = 2^(n - p)
  <2>1. 2^n \div 2^g = 2^(n - g) /\ 2^n \div 2^p = 2^(n - p)
    BY <1>5, PowerQuotient
  <2> QED
    BY <1>3, <1>4, <2>1 DEF BanksPerGroup, BanksPerBlock, BankGroups
<1>7. Pairs = 2^(p - g)
  <2>1. 2^(n - g) \div 2^(n - p) = 2^((n - g) - (n - p))
    BY <1>5, PowerQuotient
  <2> QED
    BY <1>5, <1>6, <2>1 DEF Pairs
<1>8. /\ BankGroups \in Nat \ {0} /\ Pairs \in Nat \ {0} /\ BanksPerBlock \in Nat \ {0}
  BY <1>3, <1>4, <1>5, <1>6, <1>7, PowerPositive
<1>9. BanksPerBlock >= 2
  <2>0. 0 \in 0 .. 31
    OBVIOUS
  <2>1. 2^0 < 2^(n - p)
    BY <1>5, <2>0, PowersGrow, Zenon
  <2> QED
    BY <1>6, <1>8, <2>1, Doubling
<1>10. BanksPerGroup = Pairs * BanksPerBlock
  <2>1. 2^((p - g) + (n - p)) = 2^(p - g) * 2^(n - p)
    BY <1>5, PowerSum
  <2> QED
    BY <1>5, <1>6, <1>7, <2>1
<1>11. s.num_pim_chans \in Nat \ {0}
  BY <1>1, SystemsAssumption
<1>12. PimBlocks = s.num_pim_chans * (BankGroups * Pairs)
  <2>1. 2^(g + (p - g)) = 2^g * 2^(p - g)
    BY <1>5, PowerSum
  <2>2. GetConfigParam(db, "NUM_PIM_BLOCKS") = BankGroups * Pairs
    BY <1>3, <1>4, <1>5, <1>7, <2>1
  <2>3. BankGroups * Pairs \in Nat
    BY <1>8
  <2>4. \A x, y \in Nat : x * y * 1 = y * x
    OBVIOUS
  <2> QED
    BY <1>11, <2>2, <2>3, <2>4 DEF PimBlocks, NUM_PIM_RANKS
<1>13. KernelSizes
  BY <1>8, <1>9, <1>10, <1>11, <1>12 DEF KernelSizes
<1>14. /\ IsMapping(mapping) /\ SameWidths(mapping, manager)
       /\ 2^mapping.width["chan"] = Param(s, "NUM_CHANS")
       /\ 2^mapping.width["row"] = Param(s, "NUM_ROWS")
       /\ 2^mapping.width["col"] = Param(s, "NUM_COLS") \div Param(s, "BL")
       /\ 2^mapping.width["bg"] = Param(s, "NUM_BANK_GROUPS")
       /\ 2^mapping.width["low"] = Param(s, "NUM_BANKS") \div Param(s, "NUM_BANK_GROUPS")
  <2> DEFINE m == mapping
  <2>1. m = AddrMapping(Table(s))
    BY <1>1
  <2> QED
    BY <1>1, <1>2, <2>1, MappingSizes
<1>15. mapping.scheme = 8 /\ manager.num_cols_per_bl = NUM_COLS_PER_BL
  <2>1. getAddressMappingScheme(Table(s)) = 8
    BY <1>1, <1>2, SchemeType DEF KernelFits, Param
  <2> QED
    BY <1>1, <1>2, <2>1 DEF AddrMapping, PIMAddrManager, KernelFits, Param
<1>16. AddressSizes
  BY <1>2, <1>3, <1>14, <1>15 DEF AddressSizes, KernelFits, BankGroups, BanksPerGroup
<1>17. JobFits(job)
  BY <1>2, <1>14 DEF JobFits, KernelFits
<1> QED
  BY <1>13, <1>16, <1>17

-----------------------------------------------------------------------------
(* The walk over the blocks.                                               *)

IsWalk(w) ==
  w = [ op |-> w.op, at |-> w.at, ch |-> w.ch, ra |-> w.ra, bg |-> w.bg, bank |-> w.bank,
        start |-> w.start ]

(* Where the walk is: at a pair of banks, on so many rounds of all blocks. *)
BlockIndex(ch, bg, pair) == (ch * BankGroups + bg) * Pairs + pair

AtBlock(w, round, pair) ==
  /\ IsWalk(w) /\ w.ra = 0
  /\ w.ch \in 0 .. system.num_pim_chans - 1 /\ w.bg \in 0 .. BankGroups - 1
  /\ pair \in 0 .. Pairs - 1 /\ round \in Nat
  /\ w.bank = pair * BanksPerBlock
  /\ w.at = round * PimBlocks + BlockIndex(w.ch, w.bg, pair)

(* Blocks are numbered from 0.                                             *)
LEMMA BlockIndexType ==
  ASSUME KernelSizes, NEW ch \in 0 .. system.num_pim_chans - 1, NEW bg \in 0 .. BankGroups - 1,
         NEW pair \in 0 .. Pairs - 1
  PROVE  PimBlocks \in Nat \ {0} /\ BlockIndex(ch, bg, pair) \in 0 .. PimBlocks - 1
<1> DEFINE G == BankGroups
           P == Pairs
           C == system.num_pim_chans
<1>1. G \in Nat \ {0} /\ P \in Nat \ {0} /\ C \in Nat \ {0} /\ PimBlocks = C * (G * P)
  BY DEF KernelSizes
<1> HIDE DEF G, P, C
<1>2. ch \in 0 .. C - 1 /\ bg \in 0 .. G - 1 /\ pair \in 0 .. P - 1
  BY DEF C, G, P
<1>3. ch * G + bg + 1 \in 1 .. C * G /\ C * G \in Nat
  BY <1>1, <1>2, WithinRows
<1>4. ch * G + bg \in 0 .. C * G - 1
  <2>1. ch * G + bg \in Int
    BY <1>1, <1>2
  <2> QED
    BY <1>3, <2>1
<1>5. (ch * G + bg) * P + pair + 1 \in 1 .. (C * G) * P
  BY <1>1, <1>2, <1>3, <1>4, WithinRows
<1>6. (C * G) * P = PimBlocks /\ PimBlocks \in Nat \ {0}
  BY <1>1
<1>7. (ch * G + bg) * P + pair \in Int
  BY <1>1, <1>2, <1>4
<1> QED
  BY <1>5, <1>6, <1>7 DEF BlockIndex, G, P

(* changeBank goes to the next block, and after the last to the first.     *)
LEMMA NextBlock ==
  ASSUME KernelSizes, NEW w, NEW round, NEW pair, AtBlock(w, round, pair), NEW side, NEW end,
         NEW v, v = ChangeBank(w, side, end)
  PROVE  /\ v.op = w.op
         /\ \/ (\E q : AtBlock(v, round, q)) /\ v.start = w.start
            \/ AtBlock(v, round + 1, 0) /\ v.start = [w.start EXCEPT ![side] = end]
<1> DEFINE G == BankGroups
           P == Pairs
           C == system.num_pim_chans
           B == BanksPerBlock
           bank == w.bank + B
           bg   == w.bg + (IF bank >= BanksPerGroup THEN 1 ELSE 0)
           ra   == w.ra + (IF bg >= G THEN 1 ELSE 0)
           ch   == w.ch + (IF ra >= 1 THEN 1 ELSE 0)
           below(x, n) == IF x >= n THEN 0 ELSE x
<1>1. /\ G \in Nat \ {0} /\ P \in Nat \ {0} /\ C \in Nat \ {0} /\ B \in Nat /\ B >= 2
      /\ PimBlocks = C * (G * P) /\ BanksPerGroup = P * B
  BY DEF KernelSizes
<1>2. v = [ op |-> w.op, at |-> w.at + 1, ch |-> below(ch, C), ra |-> below(ra, 1),
            bg |-> below(bg, G), bank |-> below(bank, BanksPerGroup),
            start |-> IF ch >= C THEN [w.start EXCEPT ![side] = end] ELSE w.start ]
  <2>1. w = [ op |-> w.op, at |-> w.at, ch |-> w.ch, ra |-> w.ra, bg |-> w.bg,
              bank |-> w.bank, start |-> w.start ]
    BY DEF AtBlock, IsWalk
  <2> QED
    BY <2>1 DEF ChangeBank, NextStart, NUM_PIM_RANKS, BankGroups
<1> HIDE DEF G, P, C, B
<1>3. /\ w.ra = 0 /\ w.ch \in 0 .. C - 1 /\ w.bg \in 0 .. G - 1 /\ pair \in 0 .. P - 1
      /\ round \in Nat /\ w.bank = pair * B
      /\ w.at = round * (C * (G * P)) + ((w.ch * G + w.bg) * P + pair)
  BY <1>1 DEF AtBlock, BlockIndex, G, P, C, B
<1>4. /\ v.op = w.op /\ v.at = w.at + 1 /\ v.ch = below(ch, C) /\ v.ra = below(ra, 1)
      /\ v.bg = below(bg, G) /\ v.bank = below(bank, BanksPerGroup)
      /\ v.start = IF ch >= C THEN [w.start EXCEPT ![side] = end] ELSE w.start
      /\ IsWalk(v)
  BY <1>2 DEF IsWalk
<1> DEFINE At(u, r, q) == r * (C * (G * P)) + ((u.ch * G + u.bg) * P + q)
<1>5. ASSUME NEW r, NEW q, v.ra = 0, v.ch \in 0 .. C - 1, v.bg \in 0 .. G - 1,
             q \in 0 .. P - 1, r \in Nat, v.bank = q * B, v.at = At(v, r, q)
      PROVE  AtBlock(v, r, q)
  BY <1>1, <1>4, <1>5 DEF AtBlock, BlockIndex, G, P, C, B
<1>6. bank = (pair + 1) * B
  BY <1>1, <1>3
<1>7. ASSUME NEW x \in Nat, NEW y \in Nat PROVE x * B >= y * B <=> x >= y
  <2>1. x >= y => (x - y) * B \in Nat /\ x * B = y * B + (x - y) * B
    BY <1>1
  <2>2. ~(x >= y) => (y - x) * B \in Nat \ {0} /\ y * B = x * B + (y - x) * B
    BY <1>1
  <2>3. x * B \in Nat /\ y * B \in Nat
    BY <1>1
  <2> QED
    BY <2>1, <2>2, <2>3
<1>8. bank >= BanksPerGroup <=> pair + 1 >= P
  BY <1>1, <1>3, <1>6, <1>7
<1> HIDE DEF bank
<1>9. CASE pair + 1 < P
  <2>1. bg = w.bg /\ ~(bank >= BanksPerGroup)
    BY <1>1, <1>3, <1>8, <1>9
  <2>2. ra = 0 /\ ch = w.ch
    BY <1>1, <1>3, <2>1
  <2>3. /\ v.ch = w.ch /\ v.ra = 0 /\ v.bg = w.bg /\ v.bank = (pair + 1) * B
        /\ v.start = w.start
    BY <1>1, <1>3, <1>4, <1>6, <2>1, <2>2
  <2>4. v.at = At(v, round, pair + 1) /\ pair + 1 \in 0 .. P - 1
    <3>1. (w.ch * G + w.bg) * P \in Int /\ round * (C * (G * P)) \in Int
      BY <1>1, <1>3
    <3>2. \A a, b \in Int : (a + (b + pair)) + 1 = a + (b + (pair + 1))
      BY <1>1, <1>3
    <3>3. w.at + 1 = round * (C * (G * P)) + ((w.ch * G + w.bg) * P + (pair + 1))
      BY <1>3, <3>1, <3>2
    <3>4. pair + 1 \in 0 .. P - 1
      BY <1>1, <1>3, <1>9
    <3> QED
      BY <1>4, <2>3, <3>3, <3>4
  <2>5. AtBlock(v, round, pair + 1)
    BY <1>3, <1>5, <2>3, <2>4
  <2> QED
    BY <1>4, <2>3, <2>5
<1>10. CASE pair + 1 = P /\ w.bg + 1 < G
  <2>1. bg = w.bg + 1 /\ bank >= BanksPerGroup
    BY <1>1, <1>3, <1>8, <1>10
  <2>2. ra = 0 /\ ch = w.ch
    BY <1>1, <1>3, <1>10, <2>1
  <2>3. /\ v.ch = w.ch /\ v.ra = 0 /\ v.bg = w.bg + 1 /\ v.bank = 0 /\ v.start = w.start
    BY <1>1, <1>3, <1>4, <1>10, <2>1, <2>2
  <2>4. v.at = At(v, round, 0)
    <3>1. (w.ch * G + (w.bg + 1)) * P + 0 = ((w.ch * G + w.bg) * P + pair) + 1
      <4>1. \A a \in Nat : (a + 1) * P = a * P + P
        BY <1>1
      <4>2. w.ch * G + w.bg \in Nat /\ w.ch * G + (w.bg + 1) = (w.ch * G + w.bg) + 1
        BY <1>1, <1>3
      <4>3. (w.ch * G + (w.bg + 1)) * P = (w.ch * G + w.bg) * P + P
        BY <4>1, <4>2
      <4>4. (w.ch * G + w.bg) * P \in Nat
        BY <1>1, <4>2
      <4> QED
        BY <1>3, <1>10, <4>3, <4>4
    <3>2. (w.ch * G + w.bg) * P + pair \in Int /\ round * (C * (G * P)) \in Int
      BY <1>1, <1>3
    <3> QED
      BY <1>3, <1>4, <2>3, <3>1, <3>2
  <2>5. AtBlock(v, round, 0)
    <3>1. 0 * B = 0 /\ 0 \in 0 .. P - 1 /\ v.bg \in 0 .. G - 1
      BY <1>1, <1>3, <1>10, <2>3
    <3> QED
      BY <1>3, <1>5, <2>3, <2>4, <3>1
  <2> QED
    BY <1>4, <2>3, <2>5
<1>11. CASE pair + 1 = P /\ w.bg + 1 = G
  <2>1. bg = w.bg + 1 /\ bank >= BanksPerGroup
    BY <1>1, <1>3, <1>8, <1>11
  <2>2. ra = 1 /\ ch = w.ch + 1
    BY <1>1, <1>3, <1>11, <2>1
  <2>3. v.ra = 0 /\ v.bg = 0 /\ v.bank = 0
    BY <1>1, <1>3, <1>4, <1>11, <2>1, <2>2
  <2>4. (w.ch * G + w.bg) * P + pair + 1 = (w.ch + 1) * (G * P)
    <3>1. w.ch * G + w.bg = (w.ch + 1) * G - 1
      BY <1>1, <1>3, <1>11
    <3>2. \A a \in Int : (a - 1) * P + pair + 1 = a * P
      BY <1>1, <1>3, <1>11
    <3>3. (w.ch + 1) * G \in Int /\ ((w.ch + 1) * G) * P = (w.ch + 1) * (G * P)
      BY <1>1, <1>3
    <3> QED
      BY <3>1, <3>2, <3>3
  <2>5. G * P \in Nat /\ (w.ch * G + w.bg) * P + pair \in Int
    BY <1>1, <1>3
  <2>6. 0 * B = 0 /\ 0 \in 0 .. P - 1 /\ 0 \in 0 .. G - 1
    BY <1>1
  <2>7. CASE w.ch + 1 < C
    <3>1. v.ch = w.ch + 1 /\ v.start = w.start
      BY <1>1, <1>3, <1>4, <2>2, <2>7
    <3>2. v.at = At(v, round, 0)
      <4>1. ((w.ch + 1) * G + 0) * P + 0 = (w.ch + 1) * (G * P)
        BY <1>1, <1>3
      <4>2. round * (C * (G * P)) \in Int
        BY <1>1, <1>3
      <4> QED
        BY <1>3, <1>4, <2>3, <2>4, <2>5, <3>1, <4>1, <4>2
    <3>3. AtBlock(v, round, 0)
      <4>1. v.ch \in 0 .. C - 1
        BY <1>1, <1>3, <2>7, <3>1
      <4> QED
        BY <1>3, <1>5, <2>3, <2>6, <3>2, <4>1
    <3> QED
      BY <1>4, <3>1, <3>3
  <2>8. CASE w.ch + 1 = C
    <3>1. v.ch = 0 /\ v.start = [w.start EXCEPT ![side] = end]
      BY <1>1, <1>3, <1>4, <2>2, <2>8
    <3>2. v.at = At(v, round + 1, 0)
      <4>1. (0 * G + 0) * P + 0 = 0
        BY <1>1
      <4>2. \A a \in Int : (round + 1) * a = round * a + a
        BY <1>3
      <4>3. C * (G * P) \in Int /\ round * (C * (G * P)) \in Int
        BY <1>1, <1>3
      <4> QED
        BY <1>3, <1>4, <2>3, <2>4, <2>5, <2>8, <3>1, <4>1, <4>2, <4>3
    <3>3. AtBlock(v, round + 1, 0)
      <4>1. 0 \in 0 .. C - 1 /\ round + 1 \in Nat
        BY <1>1, <1>3
      <4> QED
        BY <1>5, <2>3, <2>6, <3>1, <3>2, <4>1
    <3> QED
      BY <1>4, <3>1, <3>3
  <2> QED
    BY <1>1, <1>3, <2>7, <2>8
<1> QED
  BY <1>1, <1>3, <1>9, <1>10, <1>11

-----------------------------------------------------------------------------
(* Cells.                                                                  *)

(* The at-th burst of a bank of a PIM block.                               *)
BlockCell(ch, bg, pair, side, at) ==
  [ chan |-> ch, rank |-> 0, bank |-> bg * BanksPerGroup + pair * BanksPerBlock + side,
    row |-> at \div NUM_COLS_PER_BL, col |-> at % NUM_COLS_PER_BL ]

(* A bank of a PIM block is one of its bank group.                         *)
LEMMA BankInGroup ==
  ASSUME KernelSizes, NEW pair \in 0 .. Pairs - 1, NEW side \in 0 .. 1
  PROVE  pair * BanksPerBlock + side \in 0 .. BanksPerGroup - 1
<1> DEFINE P == Pairs
           B == BanksPerBlock
<1>1. P \in Nat \ {0} /\ B \in Nat /\ B >= 2 /\ BanksPerGroup = P * B
  BY DEF KernelSizes
<1> HIDE DEF P, B
<1>2. pair \in 0 .. P - 1 /\ side \in 0 .. B - 1
  BY <1>1 DEF P
<1>3. pair * B + side + 1 \in 1 .. P * B
  BY <1>1, <1>2, WithinRows
<1>4. pair * B + side \in Int
  BY <1>1, <1>2
<1> QED
  BY <1>1, <1>3, <1>4 DEF P, B

(* Different bursts of different blocks lie in different cells.            *)
LEMMA CellsApart ==
  ASSUME KernelSizes
  PROVE  \A ch, bg, pair, side, at, ch2, bg2, pair2, side2, at2 :
           /\ bg \in 0 .. BankGroups - 1 /\ pair \in 0 .. Pairs - 1 /\ side \in 0 .. 1 /\ at \in Nat
           /\ bg2 \in 0 .. BankGroups - 1 /\ pair2 \in 0 .. Pairs - 1 /\ side2 \in 0 .. 1 /\ at2 \in Nat
           /\ BlockCell(ch, bg, pair, side, at) = BlockCell(ch2, bg2, pair2, side2, at2)
           => ch = ch2 /\ bg = bg2 /\ pair = pair2 /\ side = side2 /\ at = at2
<1> SUFFICES ASSUME NEW ch, NEW bg, NEW pair, NEW side, NEW at,
                    NEW ch2, NEW bg2, NEW pair2, NEW side2, NEW at2,
                    bg \in 0 .. BankGroups - 1, pair \in 0 .. Pairs - 1, side \in 0 .. 1, at \in Nat,
                    bg2 \in 0 .. BankGroups - 1, pair2 \in 0 .. Pairs - 1, side2 \in 0 .. 1, at2 \in Nat,
                    BlockCell(ch, bg, pair, side, at) = BlockCell(ch2, bg2, pair2, side2, at2)
             PROVE  ch = ch2 /\ bg = bg2 /\ pair = pair2 /\ side = side2 /\ at = at2
  OBVIOUS
<1> DEFINE K == NUM_COLS_PER_BL
           B == BanksPerBlock
           L == BanksPerGroup
           x == pair * B + side
           y == pair2 * B + side2
<1>1. /\ ch = ch2
      /\ bg * L + pair * B + side = bg2 * L + pair2 * B + side2
      /\ at \div K = at2 \div K /\ at % K = at2 % K
  BY DEF BlockCell
<1>2. /\ B \in Nat \ {0} /\ side \in 0 .. B - 1 /\ side2 \in 0 .. B - 1 /\ K \in Nat \ {0}
      /\ pair \in Nat /\ pair2 \in Nat /\ bg \in Nat /\ bg2 \in Nat
  BY LayoutAssumption DEF KernelSizes
<1>3. x \in 0 .. L - 1 /\ y \in 0 .. L - 1
  BY BankInGroup
<1>4. L \in Nat \ {0}
  <2>1. Pairs \in Nat \ {0} /\ L = Pairs * B
    BY DEF KernelSizes
  <2> QED
    BY <1>2, <2>1
<1> HIDE DEF K, B, L
<1>5. bg * L + x = bg2 * L + y
  BY <1>1, <1>2, <1>4
<1>6. /\ x % B = side /\ x \div B = pair /\ y % B = side2 /\ y \div B = pair2
  BY <1>2, TakenOff, Zenon
<1> HIDE DEF x, y
<1>7. /\ (bg * L + x) % L = x /\ (bg * L + x) \div L = bg
      /\ (bg2 * L + y) % L = y /\ (bg2 * L + y) \div L = bg2
  BY <1>2, <1>3, <1>4, TakenOff, Zenon
<1>8. x = y /\ bg = bg2
  BY <1>5, <1>7
<1>9. at = at2
  <2>1. \A a \in Nat, d \in Nat \ {0} : a = (a \div d) * d + (a % d)
    OBVIOUS
  <2>2. at = (at \div K) * K + (at % K) /\ at2 = (at2 \div K) * K + (at2 % K)
    BY <1>2, <2>1, Zenon
  <2> QED
    BY <1>1, <2>2, Zenon
<1> QED
  BY <1>1, <1>6, <1>8, <1>9

(* The walk's address is that of a cell of its block.                      *)
LEMMA WalkPlace ==
  ASSUME KernelSizes, AddressSizes, NEW round, NEW pair, AtBlock(walk, round, pair),
         NEW side \in 0 .. 1, NEW n,
         walk.start[side] + n \in 0 .. 2^mapping.width["row"] * NUM_COLS_PER_BL - 1
  PROVE  addressMapping(mapping, WalkAddr(side, n))
           = BlockCell(walk.ch, walk.bg, pair, side, walk.start[side] + n)
<1> DEFINE K  == NUM_COLS_PER_BL
           R  == 2^mapping.width["row"]
           at == walk.start[side] + n
           bank == walk.bank + side
<1>1. K \in Nat \ {0}
  BY LayoutAssumption
<1>2. R \in Nat \ {0} /\ 2^mapping.width["rank"] \in Nat \ {0}
  BY PowerPositive DEF AddressSizes, IsMapping, FieldNames
<1>3. /\ walk.ch \in 0 .. 2^mapping.width["chan"] - 1
      /\ walk.bg \in 0 .. 2^mapping.width["bg"] - 1
      /\ walk.ra = 0 /\ walk.bank = pair * BanksPerBlock /\ pair \in 0 .. Pairs - 1
  <2>1. 2^mapping.width["chan"] \in Nat
    BY PowerPositive DEF AddressSizes, IsMapping, FieldNames
  <2> QED
    BY <2>1 DEF AtBlock, AddressSizes, KernelSizes
<1>4. bank \in 0 .. 2^mapping.width["low"] - 1
  BY <1>3, BankInGroup DEF AddressSizes
<1>5. 0 \in 0 .. 2^mapping.width["rank"] - 1
  BY <1>2
<1>6. at \div K \in 0 .. R - 1 /\ at % K \in 0 .. K - 1
  <2> HIDE DEF R, K, at
  <2>1. \A a \in Nat, d \in Nat \ {0}, r \in Nat : a < r * d => a \div d < r /\ a \div d \in Nat
    OBVIOUS
  <2>2. \A a \in Nat, d \in Nat \ {0} : a % d \in 0 .. d - 1
    OBVIOUS
  <2>3. at \in Nat /\ at < R * K
    <3>1. R * K \in Nat
      BY <1>1, <1>2
    <3>2. at \in 0 .. R * K - 1
      BY DEF R, K, at
    <3> QED
      BY <3>1, <3>2
  <2>4. at \div K < R /\ at \div K \in Nat /\ at % K \in 0 .. K - 1 /\ R \in Nat
    BY <1>1, <1>2, <2>1, <2>2, <2>3, Zenon
  <2> QED
    BY <2>4
<1>7. WalkAddr(side, n) = addrGen(manager, walk.ch, 0, walk.bg, bank, at \div K, at % K)
  BY <1>3 DEF WalkAddr, addrGenSafe, AddressSizes
<1>8. addressMapping(mapping, addrGen(manager, walk.ch, 0, walk.bg, bank, at \div K, at % K))
        = [ chan |-> walk.ch, rank |-> 0, bank |-> bank + walk.bg * 2^mapping.width["low"],
            row |-> at \div K, col |-> at % K ]
  <2> HIDE DEF R, K, at, bank
  <2>1. at \div K \in 0 .. 2^mapping.width["row"] - 1 /\ at % K \in 0 .. 2^mapping.width["col"] - 1
    BY <1>6 DEF AddressSizes, R, K
  <2> QED
    BY <1>3, <1>4, <1>5, <2>1, RoundTrip DEF AddressSizes
<1>9. bank + walk.bg * 2^mapping.width["low"]
        = walk.bg * BanksPerGroup + pair * BanksPerBlock + side
  <2>1. /\ walk.bg \in Int /\ BanksPerGroup \in Int /\ BanksPerBlock \in Int /\ pair \in Int
    <3>1. Pairs * BanksPerBlock \in Int
      BY DEF KernelSizes
    <3> QED
      BY <1>3, <3>1 DEF KernelSizes, AtBlock
  <2>2. walk.bg * BanksPerGroup \in Int /\ pair * BanksPerBlock \in Int
    BY <2>1
  <2>3. \A a, b \in Int : (b + side) + a = a + b + side
    OBVIOUS
  <2> QED
    BY <1>3, <2>2, <2>3 DEF AddressSizes
<1> QED
  BY <1>7, <1>8, <1>9 DEF BlockCell

-----------------------------------------------------------------------------
(* The results.                                                            *)

ResultCell(ch, bg, pair, t, g) ==
  BlockCell(ch, bg, pair, 1, ResultColGemv(walk.op) + t * NUM_GRF + g)

(* Every block's results are where the kernel has left them.               *)
ResultsStored ==
  \A ch \in 0 .. system.num_pim_chans - 1, bg \in 0 .. BankGroups - 1, pair \in 0 .. Pairs - 1 :
    \A t \in 0 .. Groups(walk.op) - 1, g \in 0 .. NUM_GRF - 1 :
      /\ ResultCell(ch, bg, pair, t, g) \in DOMAIN banks
      /\ banks[ResultCell(ch, bg, pair, t, g)]
           = << "result", t, BlockIndex(ch, bg, pair) * NUM_GRF + g >>

(* Those of the blocks before the walk have been read, in order.           *)
ResultsSoFar ==
  /\ got \in Seq(Partials) /\ Len(got) = walk.at * NUM_GRF
  /\ \A i \in 1 .. Len(got) :
       got[i] = << "result", (i - 1) \div OutputDim, (i - 1) % OutputDim >>

ReadWalk ==
  \E round, pair :
    /\ AtBlock(walk, round, pair)
    /\ walk.start = [side \in {1} |-> ResultColGemv(walk.op) + round * NUM_GRF]

ReadInv ==
  /\ phase \in {"preload", "readResult"} => walk.op \in system.jobs
  /\ phase = "readResult" => ResultsStored /\ ResultsSoFar /\ ReadWalk

(* Numbers of rounds and of output bursts.                                 *)
LEMMA BlockBurst ==
  \A N \in Nat \ {0}, d \in Nat \ {0}, round \in Nat : \A block \in 0 .. N - 1, g \in 0 .. d - 1 :
    /\ ((round * N + block) * d + g) \div (N * d) = round
    /\ ((round * N + block) * d + g) % (N * d) = block * d + g
<1> SUFFICES ASSUME NEW N \in Nat \ {0}, NEW d \in Nat \ {0}, NEW round \in Nat,
                    NEW block \in 0 .. N - 1, NEW g \in 0 .. d - 1
             PROVE  /\ ((round * N + block) * d + g) \div (N * d) = round
                    /\ ((round * N + block) * d + g) % (N * d) = block * d + g
  OBVIOUS
<1>1. block * d + g + 1 \in 1 .. N * d
  BY WithinRows
<1>2. N * d \in Nat \ {0} /\ block * d + g \in Int
  OBVIOUS
<1>3. block * d + g \in 0 .. N * d - 1
  BY <1>1, <1>2
<1>4. (round * N + block) * d + g = round * (N * d) + (block * d + g)
  <2>1. (round * N + block) * d = (round * N) * d + block * d /\ (round * N) * d = round * (N * d)
    OBVIOUS
  <2>2. (round * N) * d \in Int /\ block * d \in Int /\ round * (N * d) \in Int
    OBVIOUS
  <2> QED
    BY <2>1, <2>2
<1>5. /\ (round * (N * d) + (block * d + g)) \div (N * d) = round
      /\ (round * (N * d) + (block * d + g)) % (N * d) = block * d + g
  BY <1>2, <1>3, TakenOff, Zenon
<1> QED
  BY <1>4, <1>5

(* Results have room.                                                      *)
LEMMA ResultColumns ==
  ASSUME NEW job, JobFits(job), IsMapping(mapping)
  PROVE  /\ ResultColGemv(job) \in Nat /\ Groups(job) \in Nat \ {0}
         /\ \A t \in 0 .. Groups(job) - 1, g \in 0 .. NUM_GRF - 1 :
              ResultColGemv(job) + t * NUM_GRF + g
                \in 0 .. 2^mapping.width["row"] * NUM_COLS_PER_BL - 1
<1> DEFINE c == ResultColGemv(job)
           n == Groups(job)
           M == 2^mapping.width["row"] * NUM_COLS_PER_BL
<1>1. c \in Nat
  <2>1. job.outputs * job.tiles \in Nat
    BY DEF JobFits
  <2>2. (job.outputs * job.tiles) \div 2 \in Nat
    BY <2>1
  <2>3. \A a \in Nat : a * NUM_GRF * NUM_GRF \in Nat
    BY GrfAssumption
  <2> QED
    BY <2>2, <2>3 DEF ResultColGemv
<1>2. n \in Nat \ {0}
  BY DEF JobFits, Groups
<1>3. M \in Nat
  <2>1. 2^mapping.width["row"] \in Nat
    BY PowerPositive DEF IsMapping, FieldNames
  <2> QED
    BY <2>1, LayoutAssumption
<1>4. c + n * NUM_GRF <= M
  BY DEF JobFits
<1> HIDE DEF c, n, M
<1>5. ASSUME NEW t \in 0 .. n - 1, NEW g \in 0 .. NUM_GRF - 1
      PROVE  c + t * NUM_GRF + g \in 0 .. M - 1
  <2>1. t * NUM_GRF + g + 1 \in 1 .. n * NUM_GRF
    BY <1>2, GrfAssumption, WithinRows
  <2>2. t * NUM_GRF \in Nat /\ n * NUM_GRF \in Nat
    BY <1>2, GrfAssumption
  <2> QED
    BY <1>1, <1>3, <1>4, <2>1, <2>2, GrfAssumption
<1> QED
  BY <1>1, <1>2, <1>5 DEF c, n, M

(* Two results do not share a cell.                                        *)
LEMMA ResultsApart ==
  ASSUME KernelSizes, ResultColGemv(walk.op) \in Nat,
         NEW ch, NEW bg \in 0 .. BankGroups - 1, NEW pair \in 0 .. Pairs - 1,
         NEW t \in Nat, NEW g \in 0 .. NUM_GRF - 1,
         NEW ch2, NEW bg2 \in 0 .. BankGroups - 1, NEW pair2 \in 0 .. Pairs - 1,
         NEW t2 \in Nat, NEW g2 \in 0 .. NUM_GRF - 1,
         ResultCell(ch, bg, pair, t, g) = ResultCell(ch2, bg2, pair2, t2, g2)
  PROVE  ch = ch2 /\ bg = bg2 /\ pair = pair2 /\ t = t2 /\ g = g2
<1> DEFINE c == ResultColGemv(walk.op)
           a == c + t * NUM_GRF + g
           b == c + t2 * NUM_GRF + g2
<1>1. t * NUM_GRF \in Nat /\ t2 * NUM_GRF \in Nat /\ NUM_GRF \in Nat \ {0}
  BY GrfAssumption
<1>2. a \in Nat /\ b \in Nat
  BY <1>1
<1>3. ch = ch2 /\ bg = bg2 /\ pair = pair2 /\ a = b
  <2>1. BlockCell(ch, bg, pair, 1, a) = BlockCell(ch2, bg2, pair2, 1, b)
    BY DEF ResultCell
  <2> HIDE DEF a, b
  <2> QED
    BY <1>2, <2>1, CellsApart
<1>4. t * NUM_GRF + g = t2 * NUM_GRF + g2
  BY <1>1, <1>3
<1>5. /\ (t * NUM_GRF + g) \div NUM_GRF = t /\ (t * NUM_GRF + g) % NUM_GRF = g
      /\ (t2 * NUM_GRF + g2) \div NUM_GRF = t2 /\ (t2 * NUM_GRF + g2) % NUM_GRF = g2
  BY <1>1, TakenOff, Zenon
<1> QED
  BY <1>3, <1>4, <1>5

(* The kernel leaves a result in every cell that readResult will read.     *)
LEMMA KernelResults ==
  ASSUME KernelSizes, ResultColGemv(walk.op) \in Nat, KernelRuns
  PROVE  ResultsStored'
<1> DEFINE job == walk.op
           results == [k : ResultKeys, t : 0 .. Groups(job) - 1, g : 0 .. NUM_GRF - 1]
           cell(r) == CellOf(r.k, 1, ResultColGemv(job) + r.t * NUM_GRF + r.g)
           value(r) == << "result", r.t, BlockNumber(r.k) * NUM_GRF + r.g >>
           chosen(c) == CHOOSE r \in results : cell(r) = c
           cells == {cell(r) : r \in results}
<1>1. banks' = [c \in DOMAIN banks \cup cells |->
                  IF c \in cells THEN value(chosen(c)) ELSE banks[c]]
  BY DEF KernelRuns, StoreAll
<1>2. UNCHANGED << db, system, mapping, manager >> /\ walk'.op = walk.op
  BY DEF KernelRuns, Starting
<1>3. ASSUME NEW r \in results
      PROVE  /\ r.k.ch \in 0 .. system.num_pim_chans - 1 /\ r.k.bg \in 0 .. BankGroups - 1
             /\ r.k.pair \in 0 .. Pairs - 1 /\ r.t \in 0 .. Groups(job) - 1
             /\ r.g \in 0 .. NUM_GRF - 1
             /\ r = [k |-> [ch |-> r.k.ch, ra |-> 0, bg |-> r.k.bg, pair |-> r.k.pair],
                     t |-> r.t, g |-> r.g]
             /\ cell(r) = ResultCell(r.k.ch, r.k.bg, r.k.pair, r.t, r.g)
             /\ value(r) = << "result", r.t,
                              BlockIndex(r.k.ch, r.k.bg, r.k.pair) * NUM_GRF + r.g >>
  <2> DEFINE k == r.k
  <2>1. /\ k \in ResultKeys /\ r.t \in 0 .. Groups(job) - 1 /\ r.g \in 0 .. NUM_GRF - 1
        /\ r = [k |-> k, t |-> r.t, g |-> r.g]
    OBVIOUS
  <2> HIDE DEF k
  <2>2. /\ k.ch \in 0 .. system.num_pim_chans - 1 /\ k.bg \in 0 .. BankGroups - 1
        /\ k.pair \in 0 .. Pairs - 1 /\ k.ra = 0
        /\ k = [ch |-> k.ch, ra |-> 0, bg |-> k.bg, pair |-> k.pair]
    BY <2>1 DEF ResultKeys, BankGroups, Pairs, NUM_PIM_RANKS
  <2>3. k.ch * 1 + 0 = k.ch
    BY <2>2 DEF KernelSizes
  <2>4. BlockNumber(k) = BlockIndex(k.ch, k.bg, k.pair)
    BY <2>2, <2>3 DEF BlockNumber, BlockIndex, NUM_PIM_RANKS, BankGroups, Pairs
  <2>5. \A at : CellOf(k, 1, at) = BlockCell(k.ch, k.bg, k.pair, 1, at)
    BY <2>2 DEF CellOf, BlockCell
  <2> QED
    BY <2>1, <2>2, <2>4, <2>5 DEF ResultCell, k
<1> HIDE DEF cell, value, chosen
<1> SUFFICES ASSUME NEW ch \in 0 .. system.num_pim_chans - 1, NEW bg \in 0 .. BankGroups - 1,
                    NEW pair \in 0 .. Pairs - 1, NEW t \in 0 .. Groups(job) - 1,
                    NEW g \in 0 .. NUM_GRF - 1
             PROVE  /\ ResultCell(ch, bg, pair, t, g) \in DOMAIN banks'
                    /\ banks'[ResultCell(ch, bg, pair, t, g)]
                         = << "result", t, BlockIndex(ch, bg, pair) * NUM_GRF + g >>
  <2>1. BankGroups' = BankGroups /\ Pairs' = Pairs /\ BanksPerBlock' = BanksPerBlock
        /\ BanksPerGroup' = BanksPerGroup
    BY <1>2, SizesKept
  <2>2. \A ch, bg, pair, t, g :
          /\ ResultCell(ch, bg, pair, t, g)' = ResultCell(ch, bg, pair, t, g)
          /\ BlockIndex(ch, bg, pair)' = BlockIndex(ch, bg, pair)
    BY <1>2, <2>1 DEF ResultCell, BlockCell, BlockIndex
  <2> QED
    BY <1>2, <2>1, <2>2 DEF ResultsStored, Groups
<1> DEFINE r0 == [k |-> [ch |-> ch, ra |-> 0, bg |-> bg, pair |-> pair], t |-> t, g |-> g]
           c0 == ResultCell(ch, bg, pair, t, g)
<1>4. r0 \in results
  BY DEF ResultKeys, BankGroups, Pairs, NUM_PIM_RANKS
<1>5. /\ r0.k.ch = ch /\ r0.k.bg = bg /\ r0.k.pair = pair /\ r0.t = t /\ r0.g = g
  OBVIOUS
<1> HIDE DEF results
<1>6. cell(r0) = c0 /\ value(r0) = << "result", t, BlockIndex(ch, bg, pair) * NUM_GRF + g >>
  <2> HIDE DEF r0
  <2> QED
    BY <1>3, <1>4, <1>5
<1>7. ASSUME NEW r \in results, cell(r) = c0 PROVE r = r0
  <2>1. r.t \in Nat /\ t \in Nat
    BY <1>3
  <2>2. r.k.ch = ch /\ r.k.bg = bg /\ r.k.pair = pair /\ r.t = t /\ r.g = g
    BY <1>3, <1>7, <2>1, ResultsApart
  <2> QED
    BY <1>3, <2>2
<1> HIDE DEF r0, c0
<1>8. chosen(c0) = r0
  BY <1>4, <1>6, <1>7 DEF chosen
<1>9. c0 \in cells
  BY <1>4, <1>6
<1> QED
  BY <1>1, <1>6, <1>8, <1>9 DEF c0

(* A walk over the same blocks is where it is.                             *)
LEMMA AtBlockKept ==
  ASSUME UNCHANGED << db, system, mapping, manager >>, NEW round, NEW pair
  PROVE  AtBlock(walk, round, pair)' <=> AtBlock(walk', round, pair)
<1>1. /\ BankGroups' = BankGroups /\ Pairs' = Pairs /\ BanksPerBlock' = BanksPerBlock
      /\ PimBlocks' = PimBlocks
  BY SizesKept
<1> QED
  BY <1>1 DEF AtBlock, BlockIndex, IsWalk

(* The first block.                                                        *)
LEMMA FirstBlock ==
  ASSUME KernelSizes, NEW w, IsWalk(w), w.at = 0, w.ch = 0, w.ra = 0, w.bg = 0, w.bank = 0
  PROVE  AtBlock(w, 0, 0)
<1> DEFINE G == BankGroups
           P == Pairs
           C == system.num_pim_chans
<1>1. /\ G \in Nat \ {0} /\ P \in Nat \ {0} /\ C \in Nat \ {0} /\ BanksPerBlock \in Nat
      /\ PimBlocks = C * (G * P)
  BY DEF KernelSizes
<1>2. 0 \in 0 .. C - 1 /\ 0 \in 0 .. G - 1 /\ 0 \in 0 .. P - 1 /\ 0 = 0 * BanksPerBlock
  BY <1>1
<1>3. 0 = 0 * PimBlocks + ((0 * G + 0) * P + 0)
  <2>1. C * (G * P) \in Nat
    BY <1>1
  <2> QED
    BY <1>1, <2>1
<1> QED
  BY <1>2, <1>3 DEF AtBlock, BlockIndex

(* readResult starts at the first block, with the first results.           *)
LEMMA KernelWalk ==
  ASSUME KernelSizes, ResultColGemv(walk.op) \in Nat, KernelRuns
  PROVE  ReadWalk'
<1>1. /\ walk' = Starting(walk.op, [side \in {1} |-> ResultColGemv(walk.op)])
      /\ UNCHANGED << db, system, mapping, manager >>
  BY DEF KernelRuns
<1>2. /\ IsWalk(walk') /\ walk'.op = walk.op /\ walk'.at = 0 /\ walk'.ch = 0 /\ walk'.ra = 0
      /\ walk'.bg = 0 /\ walk'.bank = 0
      /\ walk'.start = [side \in {1} |-> ResultColGemv(walk.op)]
  BY <1>1 DEF Starting, IsWalk
<1>3. AtBlock(walk', 0, 0)
  BY <1>2, FirstBlock
<1>4. AtBlock(walk, 0, 0)'
  BY <1>1, <1>3, AtBlockKept
<1>5. ResultColGemv(walk'.op) + 0 * NUM_GRF = ResultColGemv(walk.op)
  BY <1>2, GrfAssumption
<1>6. walk'.start = [side \in {1} |-> ResultColGemv(walk'.op) + 0 * NUM_GRF]
  BY <1>2, <1>5
<1>7. ReadWalk' <=> \E round, pair :
                      /\ AtBlock(walk, round, pair)'
                      /\ walk'.start = [side \in {1} |-> ResultColGemv(walk'.op) + round * NUM_GRF]
  BY DEF ReadWalk, ResultColGemv
<1> QED
  BY <1>4, <1>6, <1>7

(* What readResult reads of a block.                                       *)
LEMMA BlockRead ==
  ASSUME KernelSizes, AddressSizes, JobFits(walk.op), ResultsStored,
         walk.at < Groups(walk.op) * PimBlocks,
         NEW round, NEW pair, AtBlock(walk, round, pair),
         walk.start = [side \in {1} |-> ResultColGemv(walk.op) + round * NUM_GRF],
         NEW g \in 0 .. NUM_GRF - 1
  PROVE  Load(WalkAddr(1, g))
           = << "result", round, BlockIndex(walk.ch, walk.bg, pair) * NUM_GRF + g >>
<1> DEFINE b == BlockIndex(walk.ch, walk.bg, pair)
           G == Groups(walk.op)
           c == ResultColGemv(walk.op)
<1>1. /\ walk.ch \in 0 .. system.num_pim_chans - 1 /\ walk.bg \in 0 .. BankGroups - 1
      /\ pair \in 0 .. Pairs - 1 /\ round \in Nat /\ walk.at = round * PimBlocks + b
  BY DEF AtBlock
<1>2. b \in 0 .. PimBlocks - 1 /\ PimBlocks \in Nat \ {0}
  BY <1>1, BlockIndexType
<1>3. /\ c \in Nat /\ G \in Nat \ {0}
      /\ \A t \in 0 .. G - 1, h \in 0 .. NUM_GRF - 1 :
           c + t * NUM_GRF + h \in 0 .. 2^mapping.width["row"] * NUM_COLS_PER_BL - 1
  BY ResultColumns DEF AddressSizes
<1>4. round \in 0 .. G - 1
  <2> HIDE DEF b, G
  <2>1. ASSUME round >= G PROVE FALSE
    <3>1. round * PimBlocks = G * PimBlocks + (round - G) * PimBlocks
      BY <1>1, <1>2, <1>3
    <3>2. (round - G) * PimBlocks \in Nat /\ G * PimBlocks \in Nat
      BY <1>1, <1>2, <1>3, <2>1
    <3>3. round * PimBlocks + b < G * PimBlocks
      BY <1>1 DEF G
    <3> QED
      BY <1>2, <3>1, <3>2, <3>3
  <2> QED
    BY <1>1, <1>3, <2>1
<1>5. walk.start[1] + g = c + round * NUM_GRF + g
  OBVIOUS
<1>6. walk.start[1] + g \in 0 .. 2^mapping.width["row"] * NUM_COLS_PER_BL - 1
  BY <1>3, <1>4, <1>5
<1>7. addressMapping(mapping, WalkAddr(1, g)) = ResultCell(walk.ch, walk.bg, pair, round, g)
  <2>1. PICK side \in 0 .. 1 : side = 1
    OBVIOUS
  <2>2. walk.start[side] + g \in 0 .. 2^mapping.width["row"] * NUM_COLS_PER_BL - 1
    BY <1>6, <2>1
  <2>3. addressMapping(mapping, WalkAddr(side, g))
          = BlockCell(walk.ch, walk.bg, pair, side, walk.start[side] + g)
    BY <2>2, WalkPlace
  <2> QED
    BY <1>5, <2>1, <2>3 DEF ResultCell
<1>8. /\ ResultCell(walk.ch, walk.bg, pair, round, g) \in DOMAIN banks
      /\ banks[ResultCell(walk.ch, walk.bg, pair, round, g)] = << "result", round, b * NUM_GRF + g >>
  BY <1>1, <1>4 DEF ResultsStored
<1> QED
  BY <1>7, <1>8 DEF Load

(* One block more has been read, in order.                                 *)
LEMMA BlocksRead ==
  ASSUME KernelSizes, AddressSizes, JobFits(walk.op), ResultsStored, ResultsSoFar, ReadWalk,
         ReadBlock
  PROVE  /\ got' \in Seq(Partials) /\ Len(got') = (walk.at + 1) * NUM_GRF
         /\ \A i \in 1 .. Len(got') :
              got'[i] = << "result", (i - 1) \div OutputDim, (i - 1) % OutputDim >>
<1> DEFINE d == NUM_GRF
           N == PimBlocks
           block == [n \in 1 .. d |-> Load(WalkAddr(1, n - 1))]
<1>1. walk.at < Groups(walk.op) * PimBlocks /\ got' = got \o block
  BY DEF ReadBlock
<1>2. PICK round, pair :
        /\ AtBlock(walk, round, pair)
        /\ walk.start = [side \in {1} |-> ResultColGemv(walk.op) + round * NUM_GRF]
  BY DEF ReadWalk
<1> DEFINE b == BlockIndex(walk.ch, walk.bg, pair)
<1>3. /\ walk.ch \in 0 .. system.num_pim_chans - 1 /\ walk.bg \in 0 .. BankGroups - 1
      /\ pair \in 0 .. Pairs - 1 /\ round \in Nat /\ walk.at = round * N + b
  BY <1>2 DEF AtBlock
<1>4. b \in 0 .. N - 1 /\ N \in Nat \ {0} /\ d \in Nat \ {0}
  BY <1>3, BlockIndexType, GrfAssumption
<1>5. \A n \in 1 .. d : block[n] = << "result", round, b * d + (n - 1) >>
  <2> SUFFICES ASSUME NEW n \in 1 .. d PROVE block[n] = << "result", round, b * d + (n - 1) >>
    OBVIOUS
  <2>1. n - 1 \in 0 .. d - 1
    BY <1>4
  <2>2. Load(WalkAddr(1, n - 1)) = << "result", round, b * d + (n - 1) >>
    BY <1>1, <1>2, <2>1, BlockRead
  <2> QED
    BY <2>2
<1>6. block \in Seq(Partials) /\ Len(block) = d
  <2>1. \A n \in 1 .. d : block[n] \in Partials
    <3> SUFFICES ASSUME NEW n \in 1 .. d PROVE block[n] \in Partials
      OBVIOUS
    <3> HIDE DEF b, block, d, N
    <3>1. b * d \in Nat /\ n - 1 \in Nat
      BY <1>4
    <3>2. b * d + (n - 1) \in Nat
      BY <3>1
    <3>3. \A x, y \in Nat : << "result", x, y >> \in Partials
      BY DEF Partials
    <3>4. block[n] = << "result", round, b * d + (n - 1) >>
      BY <1>5
    <3> QED
      BY <1>3, <3>2, <3>3, <3>4
  <2>2. block = [n \in 1 .. d |-> block[n]]
    OBVIOUS
  <2> HIDE DEF block, d
  <2> QED
    BY <1>4, <2>1, <2>2, IsASeq
<1>7. got \in Seq(Partials) /\ Len(got) = walk.at * d
  BY DEF ResultsSoFar
<1>8. /\ got' \in Seq(Partials) /\ Len(got') = walk.at * d + d
      /\ \A i \in 1 .. walk.at * d + d :
           got'[i] = IF i <= walk.at * d THEN got[i] ELSE block[i - walk.at * d]
  <2>1. /\ got \o block \in Seq(Partials) /\ Len(got \o block) = Len(got) + Len(block)
        /\ \A i \in 1 .. Len(got) + Len(block) :
             (got \o block)[i] = IF i <= Len(got) THEN got[i] ELSE block[i - Len(got)]
    <3> HIDE DEF block, d
    <3> QED
      BY <1>6, <1>7, ConcatProperties
  <2> HIDE DEF block, d
  <2> QED
    BY <1>1, <1>6, <1>7, <2>1
<1>9. walk.at \in Nat /\ walk.at * d \in Nat /\ walk.at * d + d = (walk.at + 1) * d
  <2> HIDE DEF b, d, N
  <2>1. round * N \in Nat
    BY <1>3, <1>4
  <2>2. walk.at \in Nat
    BY <1>3, <1>4, <2>1
  <2> QED
    BY <1>4, <2>2
<1>10. ASSUME NEW i \in 1 .. walk.at * d + d
       PROVE  got'[i] = << "result", (i - 1) \div OutputDim, (i - 1) % OutputDim >>
  <2>1. CASE i <= walk.at * d
    <3>1. i \in 1 .. Len(got)
      BY <1>7, <1>9, <2>1, <1>10
    <3>2. got[i] = << "result", (i - 1) \div OutputDim, (i - 1) % OutputDim >>
      BY <3>1 DEF ResultsSoFar
    <3> QED
      BY <1>8, <2>1, <3>2
  <2>2. CASE ~(i <= walk.at * d)
    <3> DEFINE g == i - walk.at * d - 1
    <3> HIDE DEF b, block, d, N
    <3>1. g \in 0 .. d - 1 /\ i - walk.at * d = g + 1 /\ i - 1 = walk.at * d + g
      BY <1>4, <1>9, <2>2
    <3>2. g + 1 \in 1 .. d /\ (g + 1) - 1 = g
      BY <1>4, <3>1
    <3> HIDE DEF g
    <3>3. got'[i] = block[g + 1]
      BY <1>8, <2>2, <3>1
    <3>4. got'[i] = << "result", round, b * d + g >>
      BY <1>5, <3>2, <3>3
    <3>5. /\ ((round * N + b) * d + g) \div (N * d) = round
          /\ ((round * N + b) * d + g) % (N * d) = b * d + g
      BY <1>3, <1>4, <3>1, BlockBurst, SMTT(30)
    <3>6. i - 1 = (round * N + b) * d + g /\ OutputDim = N * d
      BY <1>3, <3>1 DEF OutputDim, N, d
    <3> QED
      BY <3>4, <3>5, <3>6
  <2> QED
    BY <2>1, <2>2
<1> HIDE DEF block, d
<1> QED
  BY <1>8, <1>9, <1>10 DEF d

(* The walk goes on to the next block, and to the next results after all.  *)
LEMMA ReadWalkOn ==
  ASSUME KernelSizes, ResultColGemv(walk.op) \in Nat, ReadWalk, ReadBlock
  PROVE  ReadWalk' /\ walk'.op = walk.op /\ walk'.at = walk.at + 1
<1> DEFINE c == ResultColGemv(walk.op)
           end == walk.start[1] + NUM_GRF
<1>1. walk' = ChangeBank(walk, 1, end) /\ UNCHANGED << db, system, mapping, manager >>
  BY DEF ReadBlock
<1>2. PICK round, pair :
        /\ AtBlock(walk, round, pair)
        /\ walk.start = [side \in {1} |-> c + round * NUM_GRF]
  BY DEF ReadWalk
<1>3. /\ walk'.op = walk.op
      /\ \/ (\E q : AtBlock(walk', round, q)) /\ walk'.start = walk.start
         \/ AtBlock(walk', round + 1, 0) /\ walk'.start = [walk.start EXCEPT ![1] = end]
  <2> HIDE DEF end
  <2>1. KernelSizes /\ AtBlock(walk, round, pair)
    BY <1>2
  <2> QED
    BY <1>1, <2>1, NextBlock
<1>4. walk'.at = walk.at + 1
  <2>1. walk = [ op |-> walk.op, at |-> walk.at, ch |-> walk.ch, ra |-> walk.ra,
                 bg |-> walk.bg, bank |-> walk.bank, start |-> walk.start ]
    BY <1>2 DEF AtBlock, IsWalk
  <2> QED
    BY <1>1, <2>1 DEF ChangeBank
<1>5. ReadWalk' <=> \E r, q :
                      /\ AtBlock(walk', r, q)
                      /\ walk'.start = [side \in {1} |-> c + r * NUM_GRF]
  <2>1. \A r, q : AtBlock(walk, r, q)' <=> AtBlock(walk', r, q)
    BY <1>1, AtBlockKept
  <2> QED
    BY <1>3, <2>1 DEF ReadWalk, ResultColGemv
<1>6. CASE (\E q : AtBlock(walk', round, q)) /\ walk'.start = walk.start
  BY <1>2, <1>3, <1>4, <1>5, <1>6
<1>7. CASE AtBlock(walk', round + 1, 0) /\ walk'.start = [walk.start EXCEPT ![1] = end]
  <2>1. round \in Nat
    BY <1>2 DEF AtBlock
  <2>2. walk'.start = [side \in {1} |-> (c + round * NUM_GRF) + NUM_GRF]
    BY <1>2, <1>7
  <2>3. (c + round * NUM_GRF) + NUM_GRF = c + (round + 1) * NUM_GRF
    <3>1. c \in Int
      OBVIOUS
    <3>2. (round + 1) * NUM_GRF = round * NUM_GRF + NUM_GRF /\ round * NUM_GRF \in Nat
      BY <2>1, GrfAssumption
    <3> QED
      BY <3>1, <3>2, GrfAssumption
  <2>4. walk'.start = [side \in {1} |-> c + (round + 1) * NUM_GRF]
    <3>1. \A x, y : x = y /\ walk'.start = [side \in {1} |-> x] => walk'.start = [side \in {1} |-> y]
      OBVIOUS
    <3> QED
      BY <2>2, <2>3, <3>1
  <2>5. \E r, q : AtBlock(walk', r, q) /\ walk'.start = [side \in {1} |-> c + r * NUM_GRF]
    BY <1>7, <2>4
  <2> QED
    BY <1>3, <1>4, <1>5, <2>5
<1> HIDE DEF end
<1> QED
  BY <1>3, <1>6, <1>7, Zenon

(* Steps that leave the accesses where they are.                           *)
LEMMA OtherRead ==
  ASSUME ReadInv, phase' \notin {"preload", "readResult"}
  PROVE  ReadInv'
  BY DEF ReadInv

(* Storing the matrix asks for no results.                                 *)
LEMMA PreloadRead ==
  ASSUME ReadInv, PreloadTile
  PROVE  ReadInv'
<1>1. /\ phase = "preload" /\ UNCHANGED << phase, system >>
      /\ \E side, end : walk' = ChangeBank(walk, side, end)
  BY DEF PreloadTile
<1>2. \A side, end : ChangeBank(walk, side, end).op = walk.op
  BY DEF ChangeBank
<1> QED
  BY <1>1, <1>2 DEF ReadInv

(* The kernel leaves results, none of which has been read.                 *)
LEMMA KernelRead ==
  ASSUME RegularSystems, GeometryInv, ReadInv, KernelRuns
  PROVE  ReadInv'
<1>1. /\ phase = "preload" /\ got' = << >> /\ UNCHANGED system
      /\ walk' = Starting(walk.op, [side \in {1} |-> ResultColGemv(walk.op)])
  BY DEF KernelRuns
<1>2. walk'.op = walk.op /\ walk'.at = 0 /\ walk.op \in system.jobs
  BY <1>1 DEF ReadInv, Starting
<1>3. KernelSizes /\ AddressSizes /\ JobFits(walk.op)
  BY <1>1, <1>2, SizesOfKernels DEF InUse
<1>4. ResultColGemv(walk.op) \in Nat
  BY <1>3, ResultColumns DEF AddressSizes
<1>5. ResultsStored' /\ ReadWalk'
  BY <1>3, <1>4, KernelResults, KernelWalk
<1>6. ResultsSoFar'
  <2>1. << >> \in Seq(Partials) /\ Len(<< >>) = 0 /\ 0 * NUM_GRF = 0
    BY GrfAssumption
  <2> QED
    BY <1>1, <1>2, <2>1 DEF ResultsSoFar
<1> QED
  BY <1>1, <1>2, <1>5, <1>6 DEF ReadInv

(* Each block adds its results to what has been read.                      *)
LEMMA BlockAfterBlock ==
  ASSUME RegularSystems, GeometryInv, ReadInv, ReadBlock
  PROVE  ReadInv'
<1>1. /\ phase = "readResult" /\ UNCHANGED << db, system, mapping, phase, manager, banks >>
      /\ walk.op \in system.jobs /\ ResultsStored /\ ResultsSoFar /\ ReadWalk
  BY DEF ReadBlock, ReadInv
<1>2. KernelSizes /\ AddressSizes /\ JobFits(walk.op)
  BY <1>1, SizesOfKernels DEF InUse
<1>3. ResultColGemv(walk.op) \in Nat
  BY <1>2, ResultColumns DEF AddressSizes
<1>4. ReadWalk' /\ walk'.op = walk.op /\ walk'.at = walk.at + 1
  BY <1>1, <1>2, <1>3, ReadWalkOn
<1>5. BankGroups' = BankGroups /\ Pairs' = Pairs /\ BanksPerBlock' = BanksPerBlock
      /\ BanksPerGroup' = BanksPerGroup /\ PimBlocks' = PimBlocks
  BY <1>1, SizesKept
<1>6. ResultsStored'
  <2>1. \A ch, bg, pair, t, g :
          /\ ResultCell(ch, bg, pair, t, g)' = ResultCell(ch, bg, pair, t, g)
          /\ BlockIndex(ch, bg, pair)' = BlockIndex(ch, bg, pair)
    BY <1>4, <1>5 DEF ResultCell, BlockCell, BlockIndex
  <2> QED
    BY <1>1, <1>4, <1>5, <2>1 DEF ResultsStored, Groups
<1>7. ResultsSoFar'
  <2>1. OutputDim' = OutputDim
    BY <1>5 DEF OutputDim
  <2> QED
    BY <1>1, <1>2, <1>4, <2>1, BlocksRead DEF ResultsSoFar
<1> QED
  BY <1>1, <1>4, <1>6, <1>7 DEF ReadInv

(* Every step keeps the results in order.                                  *)
LEMMA ReadNext ==
  ASSUME RegularSystems
  PROVE  GeometryInv /\ ReadInv /\ [HostNext]_hostVars => ReadInv'
<1> SUFFICES ASSUME GeometryInv, ReadInv, [HostNext]_hostVars PROVE ReadInv'
  OBVIOUS
<1>1. ASSUME NEW s \in Systems, Construct(s) PROVE ReadInv'
  <2>1. phase' \in {"channels", "thrown"}
    BY <1>1 DEF Construct
  <2> QED
    BY <2>1, OtherRead
<1>2. CASE ConstructChannel \/ ConstructKernel
  <2>1. phase' \in {"channels", "ready"}
    BY <1>2 DEF ConstructChannel, ConstructKernel
  <2> QED
    BY <2>1, OtherRead
<1>3. ASSUME NEW job \in system.jobs, BeginGemv(job) PROVE ReadInv'
  <2>1. phase' = "preload" /\ system' = system /\ walk'.op = job
    BY <1>3 DEF BeginGemv, Begin, Starting
  <2> QED
    BY <2>1 DEF ReadInv
<1>4. CASE PreloadTile
  BY <1>4, PreloadRead
<1>5. CASE KernelRuns
  BY <1>5, KernelRead
<1>6. CASE ReadBlock
  BY <1>6, BlockAfterBlock
<1>7. CASE ResultsRead
  <2>1. phase' \in {"adderTree", "done"}
    BY <1>7 DEF ResultsRead
  <2> QED
    BY <2>1, OtherRead
<1>8. CASE AddLevel \/ OutputDone
  <2>1. phase' \in {"adderTree", "done"}
    BY <1>8 DEF AddLevel, OutputDone
  <2> QED
    BY <2>1, OtherRead
<1>9. ASSUME NEW s \in system.streams, BeginStream(s) PROVE ReadInv'
  <2>1. phase' = "store"
    BY <1>9 DEF BeginStream, Begin
  <2> QED
    BY <2>1, OtherRead
<1>10. CASE StoreBurst \/ ReadStream
  <2>1. phase' \in {"store", "done"}
    BY <1>10 DEF StoreBurst, ReadStream
  <2> QED
    BY <2>1, OtherRead
<1>11. CASE UNCHANGED hostVars
  <2>1. /\ UNCHANGED << db, system, mapping, phase, manager, banks, walk, got >>
        /\ BankGroups' = BankGroups /\ Pairs' = Pairs /\ BanksPerBlock' = BanksPerBlock
        /\ BanksPerGroup' = BanksPerGroup /\ PimBlocks' = PimBlocks
    BY <1>11, SizesKept DEF hostVars
  <2>2. ResultsStored' <=> ResultsStored
    BY <2>1 DEF ResultsStored, ResultCell, BlockCell, BlockIndex, Groups, ResultColGemv
  <2>3. ResultsSoFar' <=> ResultsSoFar
    BY <2>1 DEF ResultsSoFar, OutputDim
  <2>4. ReadWalk' <=> ReadWalk
    BY <2>1 DEF ReadWalk, AtBlock, IsWalk, BlockIndex, ResultColGemv
  <2> QED
    BY <2>1, <2>2, <2>3, <2>4 DEF ReadInv
<1> QED
  BY <1>1, <1>2, <1>3, <1>4, <1>5, <1>6, <1>7, <1>8, <1>9, <1>10, <1>11 DEF HostNext

(* Nothing has been read at first.                                         *)
LEMMA ReadInit == HostInit => ReadInv
  BY DEF HostInit, ReadInv

(* What has been read so far is all that has been read.                    *)
LEMMA ReadImplies == ReadInv => ResultsInOrder
<1> SUFFICES ASSUME ReadInv, phase = "readResult", NEW i \in DOMAIN got
             PROVE  got[i] = << "result", (i - 1) \div OutputDim, (i - 1) % OutputDim >>
  BY DEF ResultsInOrder
<1>1. ResultsSoFar
  BY DEF ReadInv
<1>2. i \in 1 .. Len(got)
  BY <1>1, LenProperties DEF ResultsSoFar
<1> QED
  BY <1>1, <1>2 DEF ResultsSoFar

(* readResult finds every result where the kernel left it, and returns     *)
(* them in order: for any sizes that are powers of two, any matrix that    *)
(* fits the banks, and any number of channels and PIM blocks.              *)
THEOREM ResultsInOrderAlways ==
  ASSUME RegularSystems
  PROVE  HostSpec => []ResultsInOrder
<1>1. GeometryInv /\ ReadInv /\ [HostNext]_hostVars => ReadInv'
  BY ReadNext
<1> QED
  BY <1>1, GeometryInit, GeometryNext, ReadInit, ReadImplies, PTL DEF HostSpec

(* With them adderTree adds up every tile's share of every output, once:   *)
(* for any power of two of tiles, and although the levels work in one      *)
(* array that no output finds empty.                                       *)
THEOREM SumsCompleteAlways ==
  ASSUME RegularSystems, TreesHalve
  PROVE  HostSpec => []SumsComplete
<1>1. HostSpec => []ResultsInOrder
  BY ResultsInOrderAlways
<1>2. HostSpec /\ []ResultsInOrder => []SumsComplete
  BY SumsFromResults
<1> QED
  BY <1>1, <1>2, PTL

-----------------------------------------------------------------------------
(* The matrix.                                                             *)

(* The tiles that so many rounds of all blocks have put on one side.       *)
TilesDone(job, round, side) ==
  (round \div job.tiles) * TilesOf(job, side) + ((round % job.tiles) + 1 - side) \div 2

(* The side that a round is for.                                           *)
SideOf(job, round) == (round % job.tiles) % 2

(* A tile of the matrix is the only one in its place.                      *)
LEMMA TileSlot ==
  ASSUME NEW job, job.tiles \in Nat \ {0}, NEW round \in Nat, NEW side, side = SideOf(job, round)
  PROVE  /\ side \in 0 .. 1 /\ TilesOf(job, side) \in Nat \ {0}
         /\ \E k \in 0 .. TilesOf(job, side) - 1 :
              /\ TilesDone(job, round, side) = (round \div job.tiles) * TilesOf(job, side) + k
              /\ round % job.tiles = 2 * k + side
<1> DEFINE t == job.tiles
           x == round % t
           k == (x + 1 - side) \div 2
           T == TilesOf(job, side)
<1>1. x \in 0 .. t - 1 /\ x \in Nat /\ t \in Nat
  OBVIOUS
<1>2. side = x % 2
  BY DEF SideOf
<1> HIDE DEF x
<1>3. side \in 0 .. 1 /\ k \in Nat /\ x = 2 * k + side
  BY <1>1, <1>2
<1>4. T = IF side = 0 THEN (t + 1) \div 2 ELSE t \div 2
  BY <1>3 DEF TilesOf, EvenTiles, OddTiles
<1> HIDE DEF k, t, T
<1>5. T \in Nat /\ k < T
  BY <1>1, <1>3, <1>4
<1>6. k \in 0 .. T - 1 /\ T \in Nat \ {0}
  BY <1>3, <1>5
<1> QED
  BY <1>3, <1>6 DEF TilesDone, k, x, t, T

(* Each round adds a tile to one side.                                     *)
LEMMA NextRound ==
  ASSUME NEW job, job.tiles \in Nat \ {0}, NEW round \in Nat, NEW s \in 0 .. 1
  PROVE  /\ TilesDone(job, round, s) \in Nat
         /\ TilesDone(job, round + 1, s)
              = TilesDone(job, round, s) + (IF s = SideOf(job, round) THEN 1 ELSE 0)
<1> DEFINE t == job.tiles
           x == round % t
           y == round \div t
           T == TilesOf(job, s)
<1>1. t \in Nat \ {0} /\ x \in 0 .. t - 1 /\ y \in Nat /\ round = y * t + x
  <2>1. \A n \in Nat, d \in Nat \ {0} :
          n % d \in 0 .. d - 1 /\ n \div d \in Nat /\ n = (n \div d) * d + (n % d)
    OBVIOUS
  <2> HIDE DEF t
  <2>2. t \in Nat \ {0}
    BY DEF t
  <2> QED
    BY <2>1, <2>2
<1>2. T = IF s = 0 THEN (t + 1) \div 2 ELSE t \div 2
  BY DEF TilesOf, EvenTiles, OddTiles
<1> HIDE DEF t, x, y, T
<1>3. T \in Nat
  BY <1>1, <1>2
<1>4. y * T \in Nat /\ (x + 1 - s) \div 2 \in Nat
  BY <1>1, <1>3
<1>5. /\ TilesDone(job, round, s) = y * T + (x + 1 - s) \div 2
      /\ SideOf(job, round) = x % 2
  BY DEF TilesDone, SideOf, t, x, y, T
<1>6. CASE x + 1 < t
  <2>1. x + 1 \in 0 .. t - 1 /\ round + 1 = y * t + (x + 1)
    <3>1. y * t \in Nat
      BY <1>1
    <3> QED
      BY <1>1, <1>6, <3>1
  <2>2. (round + 1) \div t = y /\ (round + 1) % t = x + 1
    <3>1. (y * t + (x + 1)) \div t = y /\ (y * t + (x + 1)) % t = x + 1
      BY <1>1, <2>1, TakenOff, Zenon
    <3> QED
      BY <2>1, <3>1
  <2>3. TilesDone(job, round + 1, s) = y * T + ((x + 1) + 1 - s) \div 2
    BY <2>2 DEF TilesDone, t, T
  <2>4. ((x + 1) + 1 - s) \div 2
          = (x + 1 - s) \div 2 + (IF s = x % 2 THEN 1 ELSE 0)
    BY <1>1
  <2>5. ((x + 1) + 1 - s) \div 2 \in Nat
    BY <1>1
  <2> QED
    BY <1>4, <1>5, <2>3, <2>4, <2>5
<1>7. CASE x + 1 = t
  <2>1. 0 \in 0 .. t - 1 /\ y + 1 \in Nat /\ round + 1 = (y + 1) * t + 0
    <3>1. y * t \in Nat /\ (y + 1) * t = y * t + t
      BY <1>1
    <3> QED
      BY <1>1, <1>7, <3>1
  <2>2. (round + 1) \div t = y + 1 /\ (round + 1) % t = 0
    <3>1. ((y + 1) * t + 0) \div t = y + 1 /\ ((y + 1) * t + 0) % t = 0
      BY <1>1, <2>1, TakenOff, Zenon
    <3> QED
      BY <2>1, <3>1
  <2>3. TilesDone(job, round + 1, s) = (y + 1) * T + (0 + 1 - s) \div 2
    BY <2>2 DEF TilesDone, t, T
  <2>4. (0 + 1 - s) \div 2 = 0
    OBVIOUS
  <2>5. T = (x + 1 - s) \div 2 + (IF s = x % 2 THEN 1 ELSE 0)
    BY <1>1, <1>2, <1>7
  <2>6. (y + 1) * T = y * T + T
    BY <1>1, <1>3
  <2> QED
    BY <1>3, <1>4, <1>5, <2>3, <2>4, <2>5, <2>6
<1> QED
  BY <1>1, <1>4, <1>5, <1>6, <1>7

(* Where a block keeps a burst of the tile that a round is for, and which  *)
(* burst that is.                                                          *)
TileCell(ch, bg, pair, round, n) ==
  BlockCell(ch, bg, pair, SideOf(walk.op, round),
            TilesDone(walk.op, round, SideOf(walk.op, round)) * (NUM_GRF * NUM_GRF) + n)

Weight(round, block, n) ==
  << ((round \div walk.op.tiles) * PimBlocks + block) * NUM_GRF + (n \div NUM_GRF),
     (round % walk.op.tiles) * NUM_GRF + (n % NUM_GRF) >>

(* The tiles before the walk are stored.                                   *)
WeightsStored ==
  \A ch \in 0 .. system.num_pim_chans - 1, bg \in 0 .. BankGroups - 1, pair \in 0 .. Pairs - 1 :
    \A round \in 0 .. walk.op.outputs * walk.op.tiles - 1, n \in 0 .. NUM_GRF * NUM_GRF - 1 :
      round * PimBlocks + BlockIndex(ch, bg, pair) < walk.at =>
        /\ TileCell(ch, bg, pair, round, n) \in DOMAIN banks
        /\ banks[TileCell(ch, bg, pair, round, n)] = Weight(round, BlockIndex(ch, bg, pair), n)

PreloadWalk ==
  \E round, pair :
    /\ AtBlock(walk, round, pair)
    /\ walk.start = [side \in 0 .. 1 |-> TilesDone(walk.op, round, side) * (NUM_GRF * NUM_GRF)]

PreloadInv ==
  phase = "preload" => walk.op \in system.jobs /\ WeightsStored /\ PreloadWalk

(* Two rounds do not share a place.                                        *)
LEMMA SlotsApart ==
  ASSUME NEW job, job.tiles \in Nat \ {0}, NEW r \in Nat, NEW u \in Nat,
         SideOf(job, r) = SideOf(job, u),
         TilesDone(job, r, SideOf(job, r)) = TilesDone(job, u, SideOf(job, u))
  PROVE  r = u
<1> DEFINE side == SideOf(job, r)
           T == TilesOf(job, side)
           t == job.tiles
<1>1. PICK k \in 0 .. T - 1 :
        TilesDone(job, r, side) = (r \div t) * T + k /\ r % t = 2 * k + side
  BY TileSlot
<1>2. PICK m \in 0 .. T - 1 :
        TilesDone(job, u, side) = (u \div t) * T + m /\ u % t = 2 * m + side
  BY TileSlot
<1>3. T \in Nat \ {0} /\ side \in 0 .. 1
  BY TileSlot
<1>4. (r \div t) * T + k = (u \div t) * T + m
  BY <1>1, <1>2
<1> HIDE DEF T, side
<1>5. \A n \in Nat, d \in Nat \ {0} : n \div d \in Nat /\ n = (n \div d) * d + (n % d)
  OBVIOUS
<1>6. r \div t \in Nat /\ u \div t \in Nat
  BY <1>5
<1>7. /\ ((r \div t) * T + k) \div T = r \div t /\ ((r \div t) * T + k) % T = k
      /\ ((u \div t) * T + m) \div T = u \div t /\ ((u \div t) * T + m) % T = m
  BY <1>3, <1>6, TakenOff, Zenon
<1>8. r \div t = u \div t /\ k = m
  BY <1>4, <1>7
<1>9. r = (r \div t) * t + (r % t) /\ u = (u \div t) * t + (u % t)
  BY <1>5
<1>10. r % t = u % t
  BY <1>1, <1>2, <1>8, Zenon
<1> QED
  BY <1>8, <1>9, <1>10, Zenon

(* The index tells the block.                                              *)
LEMMA BlocksApart ==
  ASSUME KernelSizes,
         NEW ch \in 0 .. system.num_pim_chans - 1, NEW bg \in 0 .. BankGroups - 1,
         NEW pair \in 0 .. Pairs - 1,
         NEW ch2 \in 0 .. system.num_pim_chans - 1, NEW bg2 \in 0 .. BankGroups - 1,
         NEW pair2 \in 0 .. Pairs - 1,
         BlockIndex(ch, bg, pair) = BlockIndex(ch2, bg2, pair2)
  PROVE  ch = ch2 /\ bg = bg2 /\ pair = pair2
<1> DEFINE G == BankGroups
           P == Pairs
           x == ch * G + bg
           y == ch2 * G + bg2
<1>1. /\ G \in Nat \ {0} /\ P \in Nat \ {0} /\ system.num_pim_chans \in Nat
      /\ bg \in 0 .. G - 1 /\ bg2 \in 0 .. G - 1 /\ pair \in 0 .. P - 1 /\ pair2 \in 0 .. P - 1
      /\ ch \in Nat /\ ch2 \in Nat
  BY DEF KernelSizes
<1>2. x * P + pair = y * P + pair2
  BY DEF BlockIndex
<1> HIDE DEF G, P
<1>3. /\ x \in Nat /\ y \in Nat /\ x \div G = ch /\ x % G = bg /\ y \div G = ch2 /\ y % G = bg2
  BY <1>1, TakenOff, Zenon
<1> HIDE DEF x, y
<1>4. /\ (x * P + pair) \div P = x /\ (x * P + pair) % P = pair
      /\ (y * P + pair2) \div P = y /\ (y * P + pair2) % P = pair2
  BY <1>1, <1>3, TakenOff, Zenon
<1> QED
  BY <1>2, <1>3, <1>4

(* Tiles have room.                                                        *)
LEMMA TileFits ==
  ASSUME NEW job, JobFits(job), IsMapping(mapping),
         NEW round \in 0 .. job.outputs * job.tiles - 1, NEW n \in 0 .. NUM_GRF * NUM_GRF - 1
  PROVE  /\ TilesDone(job, round, SideOf(job, round)) \in Nat
         /\ TilesDone(job, round, SideOf(job, round)) * (NUM_GRF * NUM_GRF) + n
              \in 0 .. 2^mapping.width["row"] * NUM_COLS_PER_BL - 1
<1> DEFINE s == SideOf(job, round)
           T == TilesOf(job, s)
           y == round \div job.tiles
           D == NUM_GRF * NUM_GRF
           M == 2^mapping.width["row"] * NUM_COLS_PER_BL
<1>1. job.tiles \in Nat \ {0} /\ job.outputs \in Nat \ {0} /\ round \in Nat
  BY DEF JobFits
<1>2. PICK k \in 0 .. T - 1 :
        s \in 0 .. 1 /\ T \in Nat \ {0} /\ TilesDone(job, round, s) = y * T + k
  BY <1>1, TileSlot
<1>3. y \in 0 .. job.outputs - 1
  <2>1. \A a \in Nat, d \in Nat \ {0}, r \in Nat : a < r * d => a \div d < r /\ a \div d \in Nat
    OBVIOUS
  <2>2. round < job.outputs * job.tiles
    BY <1>1
  <2>3. y < job.outputs /\ y \in Nat
    BY <1>1, <2>1, <2>2
  <2> QED
    BY <1>1, <2>3
<1>4. OperandSize(job, s) <= M
  BY <1>2 DEF JobFits
<1>5. M \in Nat
  <2>1. 2^mapping.width["row"] \in Nat
    BY PowerPositive DEF IsMapping, FieldNames
  <2> QED
    BY <2>1, LayoutAssumption
<1>6. D \in Nat \ {0} /\ OperandSize(job, s) = job.outputs * T * D
  <2>1. \A a \in Nat : NUM_GRF * (a * NUM_GRF) = a * (NUM_GRF * NUM_GRF)
    BY GrfAssumption
  <2>2. job.outputs * T \in Nat
    BY <1>1, <1>2
  <2>3. OperandSize(job, s) = NUM_GRF * (job.outputs * T * NUM_GRF)
    BY DEF OperandSize, JobFits
  <2>4. D \in Nat \ {0}
    BY GrfAssumption
  <2> QED
    BY <2>1, <2>2, <2>3, <2>4
<1> HIDE DEF s, T, y, D, M
<1>7. y * T + k + 1 \in 1 .. job.outputs * T
  BY <1>1, <1>2, <1>3, WithinRows
<1>8. y * T + k \in Nat /\ job.outputs * T \in Nat
  BY <1>1, <1>2, <1>3
<1>9. y * T + k \in 0 .. job.outputs * T - 1 /\ n \in 0 .. D - 1
  BY <1>7, <1>8 DEF D
<1>10. (y * T + k) * D + n + 1 \in 1 .. job.outputs * T * D
  BY <1>6, <1>8, <1>9, WithinRows
<1>11. (y * T + k) * D + n \in Int
  BY <1>6, <1>8, <1>9
<1>12. (y * T + k) * D + n \in 0 .. M - 1
  <2>1. job.outputs * T * D <= M /\ job.outputs * T * D \in Nat
    BY <1>4, <1>6, <1>8
  <2> QED
    BY <1>5, <1>6, <1>8, <1>9, <1>10, <1>11, <2>1
<1> QED
  BY <1>2, <1>8, <1>12 DEF s, D, M

(* What preloadGemv computes of where it is.                               *)
LEMMA RoundOfWalk ==
  \A t \in Nat \ {0}, N \in Nat \ {0}, round \in Nat : \A b \in 0 .. N - 1 :
    /\ (round * N + b) \div (t * N) = round \div t
    /\ ((round * N + b) \div N) % t = round % t
    /\ (round * N + b) % N = b
<1> SUFFICES ASSUME NEW t \in Nat \ {0}, NEW N \in Nat \ {0}, NEW round \in Nat,
                    NEW b \in 0 .. N - 1
             PROVE  /\ (round * N + b) \div (t * N) = round \div t
                    /\ ((round * N + b) \div N) % t = round % t
                    /\ (round * N + b) % N = b
  OBVIOUS
<1> DEFINE y == round \div t
           x == round % t
<1>1. x \in 0 .. t - 1 /\ y \in Nat /\ round = y * t + x
  <2>1. \A n \in Nat, d \in Nat \ {0} :
          n % d \in 0 .. d - 1 /\ n \div d \in Nat /\ n = (n \div d) * d + (n % d)
    OBVIOUS
  <2> QED
    BY <2>1
<1>2. (round * N + b) \div N = round /\ (round * N + b) % N = b
  BY TakenOff, Zenon
<1> HIDE DEF x, y
<1>3. ((y * t + x) * N + b) \div (t * N) = y
  BY <1>1, BlockBurst
<1>4. (round * N + b) \div (t * N) = y
  BY <1>1, <1>3
<1> QED
  BY <1>2, <1>4 DEF x, y

(* The tile that preloadGemv takes its turn to be for.                     *)
LEMMA WalkRound ==
  ASSUME KernelSizes, JobFits(walk.op), NEW round, NEW pair, AtBlock(walk, round, pair)
  PROVE  /\ walk.at \div (walk.op.tiles * PimBlocks) = round \div walk.op.tiles
         /\ (walk.at \div PimBlocks) % walk.op.tiles = round % walk.op.tiles
         /\ walk.at % PimBlocks = BlockIndex(walk.ch, walk.bg, pair)
<1>1. PICK N, t, b : N = PimBlocks /\ t = walk.op.tiles /\ b = BlockIndex(walk.ch, walk.bg, pair)
  OBVIOUS
<1>2. t \in Nat \ {0} /\ round \in Nat /\ walk.at = round * N + b
  BY <1>1 DEF JobFits, AtBlock
<1>3. b \in 0 .. N - 1 /\ N \in Nat \ {0}
  BY <1>1, BlockIndexType DEF AtBlock
<1>4. /\ (round * N + b) \div (t * N) = round \div t
      /\ ((round * N + b) \div N) % t = round % t
      /\ (round * N + b) % N = b
  BY <1>2, <1>3, RoundOfWalk, Zenon
<1> QED
  BY <1>1, <1>2, <1>4

(* Different bursts of one bank lie in different cells.                    *)
LEMMA BurstsApart ==
  ASSUME NEW ch, NEW bg, NEW pair, NEW side, NEW at \in Nat, NEW at2 \in Nat,
         BlockCell(ch, bg, pair, side, at) = BlockCell(ch, bg, pair, side, at2)
  PROVE  at = at2
<1>1. at \div NUM_COLS_PER_BL = at2 \div NUM_COLS_PER_BL /\ at % NUM_COLS_PER_BL = at2 % NUM_COLS_PER_BL
  BY DEF BlockCell
<1>2. \A a \in Nat, d \in Nat \ {0} : a = (a \div d) * d + (a % d)
  OBVIOUS
<1> QED
  BY <1>1, <1>2, LayoutAssumption

(* One tile, and no other, is stored.                                      *)
TileCells(ch, bg, pair, round) ==
  {TileCell(ch, bg, pair, round, n) : n \in 0 .. NUM_GRF * NUM_GRF - 1}

StoresTile(ch, bg, pair, round) ==
  /\ \A n \in 0 .. NUM_GRF * NUM_GRF - 1 :
       /\ TileCell(ch, bg, pair, round, n) \in DOMAIN banks'
       /\ banks'[TileCell(ch, bg, pair, round, n)] = Weight(round, BlockIndex(ch, bg, pair), n)
  /\ DOMAIN banks' = DOMAIN banks \cup TileCells(ch, bg, pair, round)
  /\ \A c \in DOMAIN banks : c \notin TileCells(ch, bg, pair, round) => banks'[c] = banks[c]

(* One step stores the tile that it is the turn of, where it belongs.      *)
LEMMA TileStored ==
  ASSUME KernelSizes, AddressSizes, JobFits(walk.op), PreloadTile,
         NEW round, NEW pair, AtBlock(walk, round, pair),
         walk.start = [side \in 0 .. 1 |-> TilesDone(walk.op, round, side) * (NUM_GRF * NUM_GRF)]
  PROVE  /\ round \in 0 .. walk.op.outputs * walk.op.tiles - 1
         /\ walk' = ChangeBank(walk, SideOf(walk.op, round),
                               walk.start[SideOf(walk.op, round)] + NUM_GRF * NUM_GRF)
         /\ StoresTile(walk.ch, walk.bg, pair, round)
<1> DEFINE job  == walk.op
           N    == PimBlocks
           b    == BlockIndex(walk.ch, walk.bg, pair)
           y    == walk.at \div (job.tiles * N)
           x    == (walk.at \div N) % job.tiles
           row0 == (y * N + (walk.at % N)) * NUM_GRF
           D        == NUM_GRF * NUM_GRF
           bursts   == 0 .. NUM_GRF * NUM_GRF - 1
           cell(n)  == addressMapping(mapping, WalkAddr(x % 2, n))
           burst(n) == << row0 + (n \div NUM_GRF), x * NUM_GRF + (n % NUM_GRF) >>
           last(c)  == CHOOSE n \in bursts : cell(n) = c /\ \A m \in bursts : cell(m) = c => m <= n
           cells    == {cell(n) : n \in bursts}
           s        == SideOf(job, round)
<1>1. /\ y < job.outputs
      /\ banks' = [c \in DOMAIN banks \cup cells |-> IF c \in cells THEN burst(last(c)) ELSE banks[c]]
      /\ walk' = ChangeBank(walk, x % 2, walk.start[x % 2] + NUM_GRF * NUM_GRF)
  <2> DEFINE new == [c \in cells |-> burst(last(c))]
  <2>1. y < job.outputs /\ banks' = StoreAll(banks, new)
    BY DEF PreloadTile
  <2>2. walk' = ChangeBank(walk, x % 2, walk.start[x % 2] + NUM_GRF * NUM_GRF)
    BY DEF PreloadTile
  <2>3. DOMAIN new = cells /\ \A c \in cells : new[c] = burst(last(c))
    BY Zenon
  <2> HIDE DEF y, x, new, cells, burst, last
  <2>4. StoreAll(banks, new) = [c \in DOMAIN banks \cup cells |->
                                  IF c \in cells THEN burst(last(c)) ELSE banks[c]]
    BY <2>3 DEF StoreAll
  <2> QED
    BY <2>1, <2>2, <2>4
<1>2. /\ walk.ch \in 0 .. system.num_pim_chans - 1 /\ walk.bg \in 0 .. BankGroups - 1
      /\ pair \in 0 .. Pairs - 1 /\ round \in Nat /\ walk.at = round * N + b
  BY DEF AtBlock
<1>3. b \in 0 .. N - 1 /\ N \in Nat \ {0}
  BY <1>2, BlockIndexType
<1>4. job.tiles \in Nat \ {0} /\ job.outputs \in Nat \ {0}
  BY DEF JobFits
<1>5. y = round \div job.tiles /\ x = round % job.tiles /\ walk.at % N = b
  BY WalkRound
<1>6. x % 2 = s
  BY <1>5 DEF SideOf
<1>7. round \in 0 .. job.outputs * job.tiles - 1
  <2>1. \A a \in Nat, d \in Nat \ {0}, r \in Nat : a \div d < r => a < r * d
    <3> SUFFICES ASSUME NEW a \in Nat, NEW d \in Nat \ {0}, NEW r \in Nat, a \div d < r
                 PROVE  a < r * d
      OBVIOUS
    <3>1. a % d \in 0 .. d - 1 /\ a \div d \in Nat /\ a = (a \div d) * d + (a % d)
      OBVIOUS
    <3>2. (a \div d) * d + (a % d) + 1 \in 1 .. r * d
      BY <3>1, WithinRows
    <3>3. (a \div d) * d + (a % d) \in Int /\ r * d \in Int
      BY <3>1
    <3> QED
      BY <3>1, <3>2, <3>3
  <2>2. round \div job.tiles < job.outputs
    BY <1>1, <1>5
  <2>3. round < job.outputs * job.tiles
    BY <1>2, <1>4, <2>1, <2>2
  <2>4. job.outputs * job.tiles \in Nat
    BY <1>4
  <2> QED
    BY <1>2, <2>3, <2>4
<1>8. \A n \in bursts : cell(n) = TileCell(walk.ch, walk.bg, pair, round, n)
  <2> SUFFICES ASSUME NEW n \in bursts
               PROVE  cell(n) = TileCell(walk.ch, walk.bg, pair, round, n)
    OBVIOUS
  <2>1. s \in 0 .. 1
    BY <1>2, <1>4, TileSlot
  <2>2. walk.start[s] + n = TilesDone(job, round, s) * D + n
    <3> HIDE DEF s
    <3> QED
      BY <2>1
  <2>3. TilesDone(job, round, s) * D + n \in 0 .. 2^mapping.width["row"] * NUM_COLS_PER_BL - 1
    BY <1>7, TileFits DEF AddressSizes
  <2>4. addressMapping(mapping, WalkAddr(s, n))
          = BlockCell(walk.ch, walk.bg, pair, s, walk.start[s] + n)
    <3> HIDE DEF s, D, job
    <3>1. walk.start[s] + n \in 0 .. 2^mapping.width["row"] * NUM_COLS_PER_BL - 1
      BY <2>2, <2>3
    <3> QED
      BY <2>1, <3>1, WalkPlace
  <2> HIDE DEF x
  <2> QED
    BY <1>6, <2>2, <2>4 DEF TileCell
<1>9. \A n \in bursts : burst(n) = Weight(round, b, n)
  <2> HIDE DEF y, x, b, bursts
  <2> QED
    BY <1>5 DEF Weight
<1>10. ASSUME NEW n \in bursts, NEW m \in bursts, cell(n) = cell(m) PROVE n = m
  <2> DEFINE base == TilesDone(job, round, s) * D
  <2>1. s \in 0 .. 1
    BY <1>2, <1>4, TileSlot
  <2>2. base \in Nat
    <3> HIDE DEF s
    <3>1. TilesDone(job, round, s) \in Nat
      BY <1>2, <1>4, <2>1, NextRound
    <3> QED
      BY <3>1, GrfAssumption
  <2>3. BlockCell(walk.ch, walk.bg, pair, s, base + n) = BlockCell(walk.ch, walk.bg, pair, s, base + m)
    <3> HIDE DEF cell
    <3> QED
      BY <1>8, <1>10 DEF TileCell
  <2> HIDE DEF base, s
  <2>4. base + n \in Nat /\ base + m \in Nat
    BY <2>2
  <2>5. base + n = base + m
    BY <2>3, <2>4, BurstsApart
  <2> QED
    BY <2>2, <2>5
<1>11. \A n \in bursts : last(cell(n)) = n
  <2> SUFFICES ASSUME NEW n \in bursts PROVE last(cell(n)) = n
    OBVIOUS
  <2> HIDE DEF cell
  <2>1. cell(n) = cell(n) /\ \A m \in bursts : cell(m) = cell(n) => m <= n
    BY <1>10
  <2>2. \A m \in bursts : cell(m) = cell(n) => m = n
    BY <1>10
  <2> QED
    BY <2>1, <2>2
<1> HIDE DEF cell, burst, last, bursts
<1>12. cells = TileCells(walk.ch, walk.bg, pair, round)
  <2>1. cells = {TileCell(walk.ch, walk.bg, pair, round, n) : n \in bursts}
    BY <1>8
  <2> QED
    BY <2>1 DEF TileCells, bursts
<1>13. \A n \in bursts : /\ TileCell(walk.ch, walk.bg, pair, round, n) \in DOMAIN banks'
                         /\ banks'[TileCell(walk.ch, walk.bg, pair, round, n)] = Weight(round, b, n)
  BY <1>1, <1>8, <1>9, <1>11
<1>14. /\ DOMAIN banks' = DOMAIN banks \cup cells
       /\ \A c \in DOMAIN banks : c \notin cells => banks'[c] = banks[c]
  <2> HIDE DEF cells
  <2> QED
    BY <1>1
<1>15. walk' = ChangeBank(walk, s, walk.start[s] + NUM_GRF * NUM_GRF)
  <2> HIDE DEF x, s
  <2> QED
    BY <1>1, <1>6
<1> HIDE DEF cells
<1> QED
  BY <1>7, <1>12, <1>13, <1>14, <1>15 DEF StoresTile, bursts

(* The tiles stored before stay.                                           *)
LEMMA WeightsStay ==
  ASSUME KernelSizes, AddressSizes, JobFits(walk.op), WeightsStored, PreloadWalk, PreloadTile
  PROVE  WeightsStored'
<1> DEFINE job == walk.op
           N   == PimBlocks
<1>1. PICK round, pair :
        /\ AtBlock(walk, round, pair)
        /\ walk.start = [side \in 0 .. 1 |-> TilesDone(walk.op, round, side) * (NUM_GRF * NUM_GRF)]
  BY DEF PreloadWalk
<1> DEFINE b   == BlockIndex(walk.ch, walk.bg, pair)
           new == TileCells(walk.ch, walk.bg, pair, round)
<1>2. round \in 0 .. job.outputs * job.tiles - 1 /\ StoresTile(walk.ch, walk.bg, pair, round)
  BY <1>1, TileStored
<1>3. /\ UNCHANGED << db, system, mapping, manager >>
      /\ walk'.op = job /\ walk'.at = walk.at + 1
  <2>1. PICK side, end : walk' = ChangeBank(walk, side, end)
    BY DEF PreloadTile
  <2>2. walk = [ op |-> walk.op, at |-> walk.at, ch |-> walk.ch, ra |-> walk.ra,
                 bg |-> walk.bg, bank |-> walk.bank, start |-> walk.start ]
    BY <1>1 DEF AtBlock, IsWalk
  <2> QED
    BY <2>1, <2>2 DEF PreloadTile, ChangeBank
<1>4. /\ walk.ch \in 0 .. system.num_pim_chans - 1 /\ walk.bg \in 0 .. BankGroups - 1
      /\ pair \in 0 .. Pairs - 1 /\ round \in Nat /\ walk.at = round * N + b
  BY <1>1 DEF AtBlock
<1>5. b \in 0 .. N - 1 /\ N \in Nat \ {0}
  BY <1>4, BlockIndexType
<1>6. job.tiles \in Nat \ {0}
  BY DEF JobFits
<1>7. ASSUME NEW ch \in 0 .. system.num_pim_chans - 1, NEW bg \in 0 .. BankGroups - 1,
             NEW q \in 0 .. Pairs - 1, NEW r \in 0 .. job.outputs * job.tiles - 1,
             NEW n \in 0 .. NUM_GRF * NUM_GRF - 1,
             r * N + BlockIndex(ch, bg, q) < walk.at + 1
      PROVE  /\ TileCell(ch, bg, q, r, n) \in DOMAIN banks'
             /\ banks'[TileCell(ch, bg, q, r, n)] = Weight(r, BlockIndex(ch, bg, q), n)
  <2> DEFINE i == BlockIndex(ch, bg, q)
             c == TileCell(ch, bg, q, r, n)
  <2>1. i \in 0 .. N - 1 /\ r \in Nat
    BY BlockIndexType
  <2>2. r * N \in Nat /\ round * N \in Nat
    BY <1>4, <1>5, <2>1
  <2>3. CASE r * N + i = walk.at
    <3> HIDE DEF i, b, N
    <3>1. /\ (r * N + i) \div N = r /\ (r * N + i) % N = i
          /\ (round * N + b) \div N = round /\ (round * N + b) % N = b
      BY <1>4, <1>5, <2>1, TakenOff, Zenon
    <3>2. r = round /\ i = b
      BY <1>4, <2>3, <3>1
    <3>3. ch = walk.ch /\ bg = walk.bg /\ q = pair
      BY <1>4, <3>2, BlocksApart DEF i, b
    <3> QED
      BY <1>2, <3>2, <3>3 DEF i, StoresTile
  <2>4. CASE r * N + i # walk.at
    <3>1. r * N + i < walk.at
      <4> HIDE DEF i, b, N
      <4>1. walk.at \in Nat /\ r * N + i \in Nat
        BY <1>4, <1>5, <2>1, <2>2
      <4>2. r * N + i < walk.at + 1
        BY <1>7 DEF i, N
      <4> QED
        BY <2>4, <4>1, <4>2
    <3>2. c \in DOMAIN banks /\ banks[c] = Weight(r, i, n)
      BY <3>1 DEF WeightsStored
    <3>3. c \notin new
      <4> SUFFICES ASSUME NEW m \in 0 .. NUM_GRF * NUM_GRF - 1,
                          c = TileCell(walk.ch, walk.bg, pair, round, m)
                   PROVE  FALSE
        BY DEF TileCells
      <4> DEFINE D == NUM_GRF * NUM_GRF
                 s == SideOf(job, r)
                 u == SideOf(job, round)
                 T == TilesDone(job, r, s)
                 V == TilesDone(job, round, u)
      <4>1. D \in Nat \ {0}
        BY GrfAssumption
      <4>2. s \in 0 .. 1 /\ u \in 0 .. 1
        BY <1>4, <1>6, <2>1, TileSlot
      <4>3. T \in Nat /\ V \in Nat
        BY <1>2, <1>6, TileFits DEF AddressSizes
      <4>4. BlockCell(ch, bg, q, s, T * D + n) = BlockCell(walk.ch, walk.bg, pair, u, V * D + m)
        BY DEF TileCell
      <4>5. n \in 0 .. D - 1 /\ m \in 0 .. D - 1
        OBVIOUS
      <4> HIDE DEF D, s, u, T, V
      <4>6. T * D + n \in Nat /\ V * D + m \in Nat
        BY <4>1, <4>3, <4>5
      <4>7. ch = walk.ch /\ bg = walk.bg /\ q = pair /\ s = u /\ T * D + n = V * D + m
        BY <1>4, <4>2, <4>4, <4>6, CellsApart
      <4>8. (T * D + n) \div D = T /\ (V * D + m) \div D = V
        BY <4>1, <4>3, <4>5, TakenOff, Zenon
      <4>9. T = V
        BY <4>7, <4>8
      <4>10. r = round
        BY <1>4, <1>6, <2>1, <4>7, <4>9, SlotsApart DEF s, u, T, V
      <4> QED
        BY <1>4, <2>4, <4>7, <4>10
    <3> HIDE DEF c
    <3>4. c \in DOMAIN banks' /\ banks'[c] = banks[c]
      BY <1>2, <3>2, <3>3 DEF StoresTile
    <3> QED
      BY <3>2, <3>4 DEF c
  <2> QED
    BY <2>3, <2>4
<1>8. BankGroups' = BankGroups /\ Pairs' = Pairs /\ BanksPerBlock' = BanksPerBlock
      /\ BanksPerGroup' = BanksPerGroup /\ PimBlocks' = PimBlocks
  BY <1>3, SizesKept
<1>9. \A ch, bg, q, r, n : /\ TileCell(ch, bg, q, r, n)' = TileCell(ch, bg, q, r, n)
                           /\ BlockIndex(ch, bg, q)' = BlockIndex(ch, bg, q)
  BY <1>3, <1>8 DEF TileCell, BlockCell, BlockIndex, SideOf, TilesDone
<1>10. \A r, i, n : Weight(r, i, n)' = Weight(r, i, n)
  BY <1>3, <1>8 DEF Weight
<1> QED
  BY <1>3, <1>7, <1>8, <1>9, <1>10 DEF WeightsStored

(* The walk goes on.                                                       *)
LEMMA PreloadWalkOn ==
  ASSUME KernelSizes, AddressSizes, JobFits(walk.op), PreloadWalk, PreloadTile
  PROVE  PreloadWalk' /\ walk'.op = walk.op
<1> DEFINE job == walk.op
           D   == NUM_GRF * NUM_GRF
           starts(r) == [side \in 0 .. 1 |-> TilesDone(job, r, side) * D]
<1>1. PICK round, pair : AtBlock(walk, round, pair) /\ walk.start = starts(round)
  BY DEF PreloadWalk
<1> DEFINE s   == SideOf(job, round)
           end == walk.start[s] + D
<1>2. walk' = ChangeBank(walk, s, end) /\ UNCHANGED << db, system, mapping, manager >>
  <2>1. walk' = ChangeBank(walk, s, end)
    BY <1>1, TileStored
  <2> QED
    BY <2>1 DEF PreloadTile
<1>3. /\ walk'.op = walk.op
      /\ \/ (\E q : AtBlock(walk', round, q)) /\ walk'.start = walk.start
         \/ AtBlock(walk', round + 1, 0) /\ walk'.start = [walk.start EXCEPT ![s] = end]
  <2> HIDE DEF end, s
  <2>1. KernelSizes /\ AtBlock(walk, round, pair)
    BY <1>1
  <2> QED
    BY <1>2, <2>1, NextBlock
<1>4. PreloadWalk' <=> \E r, q : AtBlock(walk', r, q) /\ walk'.start = starts(r)
  <2>1. \A r, q : AtBlock(walk, r, q)' <=> AtBlock(walk', r, q)
    BY <1>2, AtBlockKept
  <2> QED
    BY <1>3, <2>1 DEF PreloadWalk, TilesDone
<1>5. CASE (\E q : AtBlock(walk', round, q)) /\ walk'.start = walk.start
  BY <1>1, <1>3, <1>4, <1>5
<1>6. CASE AtBlock(walk', round + 1, 0) /\ walk'.start = [walk.start EXCEPT ![s] = end]
  <2>1. round \in Nat /\ job.tiles \in Nat \ {0}
    BY <1>1 DEF AtBlock, JobFits
  <2>2. s \in 0 .. 1 /\ D \in Nat
    BY <2>1, TileSlot, GrfAssumption
  <2>3. \A side \in 0 .. 1 :
          /\ TilesDone(job, round, side) \in Nat
          /\ TilesDone(job, round + 1, side)
               = TilesDone(job, round, side) + (IF side = s THEN 1 ELSE 0)
    BY <2>1, NextRound
  <2>4. \A side \in 0 .. 1 : starts(round)[side] = TilesDone(job, round, side) * D
    OBVIOUS
  <2>5. walk'.start = [side \in 0 .. 1 |-> IF side = s THEN end ELSE starts(round)[side]]
    BY <1>1, <1>6
  <2>6. \A side \in 0 .. 1 :
          (IF side = s THEN end ELSE starts(round)[side]) = TilesDone(job, round + 1, side) * D
    <3> SUFFICES ASSUME NEW side \in 0 .. 1
                 PROVE  (IF side = s THEN end ELSE starts(round)[side])
                          = TilesDone(job, round + 1, side) * D
      OBVIOUS
    <3>1. end = TilesDone(job, round, s) * D + D
      BY <1>1, <2>2, <2>4
    <3>2. \A a \in Nat : (a + 1) * D = a * D + D /\ (a + 0) * D = a * D
      BY <2>2
    <3> HIDE DEF s, end, starts, D
    <3>3. CASE side = s
      BY <2>3, <3>1, <3>2, <3>3
    <3>4. CASE side # s
      BY <2>3, <2>4, <3>2, <3>4
    <3> QED
      BY <3>3, <3>4
  <2>7. walk'.start = starts(round + 1)
    <3> HIDE DEF s, end, D
    <3> QED
      BY <2>5, <2>6
  <2>8. \E r, q : AtBlock(walk', r, q) /\ walk'.start = starts(r)
    <3> HIDE DEF starts
    <3> QED
      BY <1>6, <2>7
  <2> QED
    BY <1>3, <1>4, <2>8
<1> HIDE DEF end, s
<1> QED
  BY <1>3, <1>5, <1>6, Zenon

(* A column of a square of bursts.                                         *)
LEMMA InSquare ==
  ASSUME NEW d \in Nat \ {0}, NEW at \in Nat
  PROVE  /\ at \div (d * d) \in Nat /\ at % (d * d) \in 0 .. d * d - 1
         /\ (at \div (d * d)) * (d * d) + (at % (d * d)) = at
         /\ (at % (d * d)) \div d = (at \div d) % d
         /\ (at % (d * d)) % d = at % d
         /\ (at \div d) % d \in 0 .. d - 1
<1>1. \A n \in Nat, m \in Nat \ {0} :
        n % m \in 0 .. m - 1 /\ n \div m \in Nat /\ n = (n \div m) * m + (n % m)
  OBVIOUS
<1>2. PICK q \in Nat, e \in 0 .. d - 1, f \in 0 .. d - 1 :
        /\ at = (q * d + e) * d + f
        /\ q * d + e = at \div d /\ e = (at \div d) % d /\ f = at % d
  <2>1. PICK a \in Nat, f \in 0 .. d - 1 : at = a * d + f /\ a = at \div d /\ f = at % d
    BY <1>1
  <2>2. PICK q \in Nat, e \in 0 .. d - 1 : a = q * d + e /\ e = a % d
    BY <1>1
  <2> QED
    BY <2>1, <2>2
<1>3. /\ ((q * d + e) * d + f) \div (d * d) = q
      /\ ((q * d + e) * d + f) % (d * d) = e * d + f
  BY BlockBurst, Zenon
<1>4. at \div (d * d) = q /\ at % (d * d) = e * d + f
  BY <1>2, <1>3
<1>5. (e * d + f) \div d = e /\ (e * d + f) % d = f
  <2>1. e \in Nat
    OBVIOUS
  <2> QED
    BY <2>1, TakenOff, Zenon
<1>6. d * d \in Nat \ {0}
  OBVIOUS
<1> QED
  BY <1>1, <1>2, <1>4, <1>5, <1>6

(* What the kernels take to be in a column.                                *)
LEMMA OperandOfColumn ==
  ASSUME NEW job, IsGemv(job), NEW side \in 0 .. 1, NEW at \in 0 .. OperandSize(job, side) - 1,
         at \in Nat
  PROVE  OperandAt(job, CellAt(side, 0, at))
           = LET tile == at \div (NUM_GRF * NUM_GRF)
                 n    == TilesOf(job, side)
             IN  << "w_data", (tile \div n) * NUM_GRF + ((at \div NUM_GRF) % NUM_GRF),
                    (2 * (tile % n) + side) * NUM_GRF + (at % NUM_GRF) >>
<1> DEFINE key == CellAt(side, 0, at)
<1>1. key = << side, at \div NUM_COLS_PER_BL, at % NUM_COLS_PER_BL >>
  <2>1. at \div NUM_COLS_PER_BL \in Nat
    BY LayoutAssumption
  <2> QED
    BY <2>1 DEF CellAt
<1>2. OperandRows(job) = {0}
  BY DEF OperandRows, IsGemv
<1> HIDE DEF key
<1>3. Linear(key[2] - 0, key[3]) = at /\ key[1] = side
  <2>1. \A d \in Nat \ {0} : at \div d \in Nat /\ (at \div d) * d + (at % d) = at
    OBVIOUS
  <2>2. key[2] - 0 = at \div NUM_COLS_PER_BL
    BY <1>1, <2>1, LayoutAssumption
  <2> QED
    BY <1>1, <2>1, <2>2, LayoutAssumption DEF Linear
<1>4. OperandRow(job, key) = {0}
  BY <1>2, <1>3 DEF OperandRow
<1>5. (CHOOSE row \in OperandRow(job, key) : TRUE) = 0
  BY <1>4
<1> QED
  BY <1>3, <1>5 DEF OperandAt, key

(* Where the kernels look for a tile, it has been stored.                  *)
LEMMA TileOfColumn ==
  ASSUME NEW job, JobFits(job), NEW side \in 0 .. 1, NEW at \in 0 .. OperandSize(job, side) - 1
  PROVE  \E round \in 0 .. job.outputs * job.tiles - 1, k \in Nat :
           /\ at \in Nat /\ SideOf(job, round) = side
           /\ TilesDone(job, round, side) = at \div (NUM_GRF * NUM_GRF)
           /\ round \div job.tiles = (at \div (NUM_GRF * NUM_GRF)) \div TilesOf(job, side)
           /\ k = (at \div (NUM_GRF * NUM_GRF)) % TilesOf(job, side)
           /\ round % job.tiles = 2 * k + side
<1> DEFINE t == job.tiles
           D == NUM_GRF * NUM_GRF
           T == TilesOf(job, side)
           tile == at \div D
           y == tile \div T
           k == tile % T
           r == y * t + (2 * k + side)
<1>1. t \in Nat \ {0} /\ job.outputs \in Nat \ {0} /\ D \in Nat \ {0}
  BY GrfAssumption DEF JobFits
<1>2. T = IF side = 0 THEN (t + 1) \div 2 ELSE t \div 2
  BY DEF TilesOf, EvenTiles, OddTiles
<1>3. OperandSize(job, side) = job.outputs * T * D
  <2>1. T \in Nat
    <3> HIDE DEF T, t
    <3> QED
      BY <1>1, <1>2
  <2>2. \A a \in Nat : NUM_GRF * (a * NUM_GRF) = a * (NUM_GRF * NUM_GRF)
    BY GrfAssumption
  <2>3. job.outputs * T \in Nat
    BY <1>1, <2>1
  <2>4. OperandSize(job, side) = NUM_GRF * (job.outputs * T * NUM_GRF)
    BY DEF OperandSize, JobFits
  <2> QED
    BY <2>2, <2>3, <2>4
<1> HIDE DEF t, D, T
<1>4. T \in Nat /\ at \in Nat /\ at < job.outputs * T * D
  <2>1. T \in Nat
    BY <1>1, <1>2
  <2>2. job.outputs * T * D \in Nat
    BY <1>1, <2>1
  <2> QED
    BY <1>3, <2>1, <2>2
<1>5. T # 0
  <2>1. ASSUME T = 0 PROVE FALSE
    <3>1. job.outputs * T * D = 0
      BY <1>1, <2>1
    <3> QED
      BY <1>4, <3>1
  <2> QED
    BY <2>1
<1>6. T \in Nat \ {0}
  BY <1>4, <1>5
<1>7. \A a \in Nat, d \in Nat \ {0}, n \in Nat : a < n * d => a \div d < n /\ a \div d \in Nat
  OBVIOUS
<1>8. tile \in Nat /\ tile < job.outputs * T
  <2>1. job.outputs * T \in Nat
    BY <1>1, <1>4
  <2> QED
    BY <1>1, <1>4, <1>7, <2>1
<1> HIDE DEF tile
<1>9. y \in Nat /\ y < job.outputs
  BY <1>1, <1>6, <1>7, <1>8
<1>10. k \in 0 .. T - 1
  BY <1>6, <1>8
<1>11. tile = y * T + k
  <2>1. \A n \in Nat, m \in Nat \ {0} : n = (n \div m) * m + (n % m)
    OBVIOUS
  <2> QED
    BY <1>6, <1>8, <2>1
<1> HIDE DEF y, k
<1>12. 2 * k + side \in 0 .. t - 1 /\ (2 * k + side) % 2 = side /\ k \in Nat
  BY <1>1, <1>2, <1>10
<1>13. r \div t = y /\ r % t = 2 * k + side /\ r \in Nat
  BY <1>1, <1>9, <1>12, TakenOff, Zenon
<1>14. r \in 0 .. job.outputs * t - 1
  <2>1. y \in 0 .. job.outputs - 1
    BY <1>1, <1>9
  <2>2. r + 1 \in 1 .. job.outputs * t
    <3>1. t \in Nat /\ job.outputs \in Nat
      BY <1>1
    <3>2. y * t + (2 * k + side) + 1 \in 1 .. job.outputs * t
      BY <1>12, <2>1, <3>1, WithinRows
    <3> QED
      BY <3>2
  <2>3. job.outputs * t \in Nat
    BY <1>1
  <2> QED
    BY <1>13, <2>2, <2>3
<1> HIDE DEF r
<1>15. SideOf(job, r) = side
  BY <1>12, <1>13 DEF SideOf, t
<1>16. TilesDone(job, r, side) = tile
  <2>1. (2 * k + side + 1 - side) \div 2 = k
    BY <1>12
  <2>2. TilesDone(job, r, side) = y * T + (2 * k + side + 1 - side) \div 2
    BY <1>13 DEF TilesDone, t, T
  <2> QED
    BY <1>11, <2>1, <2>2
<1> QED
  BY <1>4, <1>12, <1>13, <1>14, <1>15, <1>16 DEF t, D, T, tile, y, k

(* The matrix as a kernel finds it.                                        *)
LEMMA WeightsFound ==
  ASSUME KernelSizes, JobFits(walk.op), WeightsStored,
         walk.at = walk.op.outputs * walk.op.tiles * PimBlocks,
         NEW k \in ResultKeys, NEW side \in 0 .. 1, NEW at \in 0 .. OperandSize(walk.op, side) - 1
  PROVE  LET w    == OperandAt(walk.op, CellAt(side, 0, at))
             row  == ((w[2] \div NUM_GRF) * PimBlocks + BlockNumber(k)) * NUM_GRF
             cell == CellOf(k, side, at)
         IN  cell \in DOMAIN banks /\ banks[cell] = << row + (w[2] % NUM_GRF), w[3] >>
<1> DEFINE job  == walk.op
           d    == NUM_GRF
           D    == NUM_GRF * NUM_GRF
           T    == TilesOf(job, side)
           tile == at \div D
           m    == at % D
           y    == tile \div T
           e    == (at \div d) % d
           N    == PimBlocks
           i    == BlockIndex(k.ch, k.bg, k.pair)
           w    == OperandAt(walk.op, CellAt(side, 0, at))
<1>1. PICK r \in 0 .. job.outputs * job.tiles - 1, x \in Nat :
        /\ at \in Nat /\ SideOf(job, r) = side /\ TilesDone(job, r, side) = tile
        /\ r \div job.tiles = y /\ x = tile % T /\ r % job.tiles = 2 * x + side
  BY TileOfColumn
<1>2. /\ k.ch \in 0 .. system.num_pim_chans - 1 /\ k.bg \in 0 .. BankGroups - 1
      /\ k.pair \in 0 .. Pairs - 1 /\ k.ra = 0
  BY DEF ResultKeys, BankGroups, Pairs, NUM_PIM_RANKS
<1>3. BlockNumber(k) = i /\ CellOf(k, side, at) = BlockCell(k.ch, k.bg, k.pair, side, at)
  <2>1. k.ch * 1 + 0 = k.ch
    BY <1>2 DEF KernelSizes
  <2> QED
    BY <1>2, <2>1 DEF BlockNumber, BlockIndex, NUM_PIM_RANKS, BankGroups, Pairs, CellOf, BlockCell
<1>4. i \in 0 .. N - 1 /\ N \in Nat \ {0}
  BY <1>2, BlockIndexType
<1>5. d \in Nat \ {0} /\ D \in Nat \ {0} /\ job.outputs * job.tiles \in Nat
  BY GrfAssumption DEF JobFits
<1>6. /\ m \in 0 .. D - 1 /\ tile * D + m = at /\ m \div d = e /\ m % d = at % d
      /\ e \in 0 .. d - 1
  <2> HIDE DEF d
  <2>1. /\ at % (d * d) \in 0 .. d * d - 1
        /\ (at \div (d * d)) * (d * d) + (at % (d * d)) = at
        /\ (at % (d * d)) \div d = (at \div d) % d
        /\ (at % (d * d)) % d = at % d
        /\ (at \div d) % d \in 0 .. d - 1
    BY <1>1, <1>5, InSquare
  <2> QED
    BY <2>1 DEF d
<1>7. w = << "w_data", y * d + e, (2 * x + side) * d + (at % d) >>
  BY <1>1, OperandOfColumn DEF JobFits
<1>8. y \in Nat
  <2>1. r \in Nat /\ job.tiles \in Nat \ {0}
    BY DEF JobFits
  <2>2. \A a \in Nat, b \in Nat \ {0} : a \div b \in Nat
    OBVIOUS
  <2> QED
    BY <1>1, <2>1, <2>2
<1>9. r * N + i < walk.at
  <2> DEFINE R == job.outputs * job.tiles
  <2>1. walk.at = R * N
    OBVIOUS
  <2> HIDE DEF R, N, i
  <2>2. r * N + i + 1 \in 1 .. R * N
    <3>1. R \in Nat /\ r \in 0 .. R - 1 /\ N \in Nat
      BY <1>4, <1>5 DEF R
    <3> QED
      BY <1>4, <3>1, WithinRows
  <2>3. r * N + i \in Int /\ R * N \in Int
    BY <1>4, <1>5 DEF R
  <2> QED
    BY <2>1, <2>2, <2>3
<1>10. /\ TileCell(k.ch, k.bg, k.pair, r, m) \in DOMAIN banks
       /\ banks[TileCell(k.ch, k.bg, k.pair, r, m)] = Weight(r, i, m)
  BY <1>2, <1>6, <1>9 DEF WeightsStored
<1>11. TileCell(k.ch, k.bg, k.pair, r, m) = CellOf(k, side, at)
  <2> HIDE DEF tile, m, D
  <2>1. TileCell(k.ch, k.bg, k.pair, r, m) = BlockCell(k.ch, k.bg, k.pair, side, tile * D + m)
    BY <1>1 DEF TileCell, D
  <2> QED
    BY <1>3, <1>6, <2>1
<1>12. Weight(r, i, m) = << (y * N + i) * d + e, (2 * x + side) * d + (at % d) >>
  <2> HIDE DEF m, y, e, i
  <2> QED
    BY <1>1, <1>6 DEF Weight
<1>13. w[2] \div d = y /\ w[2] % d = e /\ w[3] = (2 * x + side) * d + (at % d)
  <2> HIDE DEF y, e, d, w
  <2>1. (y * d + e) \div d = y /\ (y * d + e) % d = e
    <3>1. y \in Nat /\ d \in Nat \ {0} /\ e \in 0 .. d - 1
      BY <1>5, <1>6, <1>8
    <3> QED
      BY <3>1, TakenOff, Zenon
  <2> QED
    BY <1>7, <2>1
<1> HIDE DEF w, y, e, i, m
<1> QED
  BY <1>3, <1>10, <1>11, <1>12, <1>13 DEF w

(* When the walk is through, every tile is there.                          *)
LEMMA PreloadImplies ==
  ASSUME RegularSystems
  PROVE  GeometryInv /\ PreloadInv => WeightsPlaced
<1> SUFFICES ASSUME GeometryInv, PreloadInv, phase = "preload",
                    walk.at = walk.op.outputs * walk.op.tiles * PimBlocks
             PROVE  WeightsPlaced
  BY DEF WeightsPlaced
<1>1. walk.op \in system.jobs /\ WeightsStored
  BY DEF PreloadInv
<1>2. KernelSizes /\ JobFits(walk.op)
  BY <1>1, SizesOfKernels DEF InUse
<1> QED
  BY <1>1, <1>2, WeightsFound DEF WeightsPlaced

(* Nothing has been stored at first.                                       *)
LEMMA PreloadInit == HostInit => PreloadInv
  BY DEF HostInit, PreloadInv

(* preloadGemv starts at the first block, with nothing stored.             *)
LEMMA BeginPreload ==
  ASSUME RegularSystems, GeometryInv, NEW job \in system.jobs, BeginGemv(job)
  PROVE  PreloadInv'
<1>1. /\ phase = "ready" /\ walk' = Starting(job, [side \in 0 .. 1 |-> 0])
      /\ UNCHANGED << db, system, mapping, manager, banks >>
  BY DEF BeginGemv, Begin
<1>2. KernelSizes /\ AddressSizes /\ JobFits(job)
  BY <1>1, SizesOfKernels DEF InUse
<1>3. /\ IsWalk(walk') /\ walk'.op = job /\ walk'.at = 0 /\ walk'.ch = 0 /\ walk'.ra = 0
      /\ walk'.bg = 0 /\ walk'.bank = 0 /\ walk'.start = [side \in 0 .. 1 |-> 0]
  BY <1>1 DEF Starting, IsWalk
<1>4. /\ BankGroups' = BankGroups /\ Pairs' = Pairs /\ BanksPerBlock' = BanksPerBlock
      /\ BanksPerGroup' = BanksPerGroup /\ PimBlocks' = PimBlocks
  BY <1>1, SizesKept
<1>5. AtBlock(walk', 0, 0)
  BY <1>2, <1>3, FirstBlock
<1>6. PreloadWalk'
  <2>1. AtBlock(walk, 0, 0)'
    BY <1>1, <1>5, AtBlockKept
  <2>2. \A side \in 0 .. 1 : TilesDone(job, 0, side) * (NUM_GRF * NUM_GRF) = 0
    <3> SUFFICES ASSUME NEW side \in 0 .. 1
                 PROVE  TilesDone(job, 0, side) * (NUM_GRF * NUM_GRF) = 0
      OBVIOUS
    <3>1. \A t \in Nat \ {0} : 0 \div t = 0 /\ 0 % t = 0
      OBVIOUS
    <3>2. job.tiles \in Nat \ {0}
      BY <1>2 DEF JobFits
    <3>3. TilesOf(job, side) \in Nat
      BY <3>2 DEF TilesOf, EvenTiles, OddTiles
    <3>4. (0 + 1 - side) \div 2 = 0
      OBVIOUS
    <3>5. TilesDone(job, 0, side) = 0
      BY <3>1, <3>2, <3>3, <3>4 DEF TilesDone
    <3> QED
      BY <3>5, GrfAssumption
  <2>3. walk'.start = [side \in 0 .. 1 |-> TilesDone(walk'.op, 0, side) * (NUM_GRF * NUM_GRF)]
    BY <1>3, <2>2
  <2>4. PreloadWalk' <=> \E r, q :
          /\ AtBlock(walk, r, q)'
          /\ walk'.start = [side \in 0 .. 1 |-> TilesDone(walk'.op, r, side) * (NUM_GRF * NUM_GRF)]
    BY DEF PreloadWalk, TilesDone
  <2> QED
    BY <2>1, <2>3, <2>4
<1>7. WeightsStored'
  <2> SUFFICES ASSUME NEW ch \in 0 .. system.num_pim_chans - 1, NEW bg \in 0 .. BankGroups - 1,
                      NEW pair \in 0 .. Pairs - 1, NEW round \in Nat
               PROVE  ~(round * PimBlocks + BlockIndex(ch, bg, pair) < 0)
    <3>1. \A ch, bg, pair : BlockIndex(ch, bg, pair)' = BlockIndex(ch, bg, pair)
      BY <1>4 DEF BlockIndex
    <3> QED
      BY <1>1, <1>3, <1>4, <3>1 DEF WeightsStored
  <2>1. BlockIndex(ch, bg, pair) \in Nat /\ PimBlocks \in Nat
    BY <1>2, BlockIndexType
  <2>2. round * PimBlocks \in Nat
    BY <2>1
  <2> QED
    BY <2>1, <2>2
<1> QED
  BY <1>1, <1>3, <1>6, <1>7 DEF PreloadInv

(* Steps of others.                                                        *)
LEMMA OtherPreload ==
  ASSUME phase' # "preload"
  PROVE  PreloadInv'
  BY DEF PreloadInv

(* Tile after tile.                                                        *)
LEMMA TileAfterTile ==
  ASSUME RegularSystems, GeometryInv, PreloadInv, PreloadTile
  PROVE  PreloadInv'
<1>1. /\ phase = "preload" /\ UNCHANGED system
      /\ walk.op \in system.jobs /\ WeightsStored /\ PreloadWalk
  BY DEF PreloadTile, PreloadInv
<1>2. KernelSizes /\ AddressSizes /\ JobFits(walk.op)
  BY <1>1, SizesOfKernels DEF InUse
<1>3. WeightsStored' /\ PreloadWalk' /\ walk'.op = walk.op
  BY <1>1, <1>2, WeightsStay, PreloadWalkOn
<1> QED
  BY <1>1, <1>3 DEF PreloadInv

(* Every step keeps the tiles that have been stored.                       *)
LEMMA PreloadNext ==
  ASSUME RegularSystems
  PROVE  GeometryInv /\ PreloadInv /\ [HostNext]_hostVars => PreloadInv'
<1> SUFFICES ASSUME GeometryInv, PreloadInv, [HostNext]_hostVars PROVE PreloadInv'
  OBVIOUS
<1>1. ASSUME NEW s \in Systems, Construct(s) PROVE PreloadInv'
  <2>1. phase' \in {"channels", "thrown"}
    BY <1>1 DEF Construct
  <2> QED
    BY <2>1, OtherPreload
<1>2. CASE ConstructChannel \/ ConstructKernel
  <2>1. phase' \in {"channels", "ready"}
    BY <1>2 DEF ConstructChannel, ConstructKernel
  <2> QED
    BY <2>1, OtherPreload
<1>3. ASSUME NEW job \in system.jobs, BeginGemv(job) PROVE PreloadInv'
  BY <1>3, BeginPreload
<1>4. CASE PreloadTile
  BY <1>4, TileAfterTile
<1>5. CASE KernelRuns \/ ReadBlock
  <2>1. phase' = "readResult"
    BY <1>5 DEF KernelRuns, ReadBlock
  <2> QED
    BY <2>1, OtherPreload
<1>6. CASE ResultsRead \/ AddLevel \/ OutputDone
  <2>1. phase' \in {"adderTree", "done"}
    BY <1>6 DEF ResultsRead, AddLevel, OutputDone
  <2> QED
    BY <2>1, OtherPreload
<1>7. ASSUME NEW s \in system.streams, BeginStream(s) PROVE PreloadInv'
  <2>1. phase' = "store"
    BY <1>7 DEF BeginStream, Begin
  <2> QED
    BY <2>1, OtherPreload
<1>8. CASE StoreBurst \/ ReadStream
  <2>1. phase' \in {"store", "done"}
    BY <1>8 DEF StoreBurst, ReadStream
  <2> QED
    BY <2>1, OtherPreload
<1>9. CASE UNCHANGED hostVars
  <2>1. /\ UNCHANGED << db, system, mapping, phase, manager, banks, walk >>
        /\ BankGroups' = BankGroups /\ Pairs' = Pairs /\ BanksPerBlock' = BanksPerBlock
        /\ BanksPerGroup' = BanksPerGroup /\ PimBlocks' = PimBlocks
    BY <1>9, SizesKept DEF hostVars
  <2>2. WeightsStored' <=> WeightsStored
    BY <2>1 DEF WeightsStored, TileCell, BlockCell, BlockIndex, Weight, SideOf, TilesDone
  <2>3. PreloadWalk' <=> PreloadWalk
    BY <2>1 DEF PreloadWalk, AtBlock, IsWalk, BlockIndex, TilesDone
  <2> QED
    BY <2>1, <2>2, <2>3 DEF PreloadInv
<1> QED
  BY <1>1, <1>2, <1>3, <1>4, <1>5, <1>6, <1>7, <1>8, <1>9 DEF HostNext

(* preloadGemv puts every burst of the matrix where the kernels look for   *)
(* it, for any matrix that fits the banks: also an odd number of tiles,    *)
(* which leaves the two sides of a block unequal.                          *)
THEOREM WeightsPlacedAlways ==
  ASSUME RegularSystems
  PROVE  HostSpec => []WeightsPlaced
<1>1. GeometryInv /\ PreloadInv /\ [HostNext]_hostVars => PreloadInv'
  BY PreloadNext
<1>2. GeometryInv /\ PreloadInv => WeightsPlaced
  BY PreloadImplies
<1> QED
  BY <1>1, <1>2, GeometryInit, GeometryNext, PreloadInit, PTL DEF HostSpec

-----------------------------------------------------------------------------
(* Cells exist.                                                            *)

Exists(c) ==
  /\ c.chan \in 0 .. config.NUM_CHANS - 1
  /\ c.rank \in 0 .. config.NUM_RANKS - 1
  /\ c.bank \in 0 .. GetConfigParam(db, "NUM_BANKS") - 1

(* A system in use has a rank in every channel, and nothing is stored in   *)
(* one that is not.                                                        *)
TypeInv ==
  /\ HostTypeOK
  /\ ~InUse => banks = << >>
  /\ InUse => ranks # << >>
  /\ phase = "store" => walk.at \in Nat /\ system.streams # {}

(* A field of an address is smaller than its width allows.                 *)
LEMMA PartType ==
  ASSUME NEW m, IsMapping(m), NEW addr \in Nat, NEW f \in FieldNames
  PROVE  Part(m, addr, f) \in 0 .. 2^m.width[f] - 1
<1> DEFINE d == 2^m.width[f]
<1>1. d \in Nat \ {0}
  BY PowerPositive DEF IsMapping
<1>2. CASE f \in ToSet(Order(m))
  <2>1. Order(m) \in Seq(FieldNames) /\ Len(Order(m)) \in Nat
    BY SchemeFields
  <2>2. \E k \in DOMAIN Order(m) : Order(m)[k] = f
    BY <1>2 DEF ToSet
  <2>3. Place(m, f) \in DOMAIN Order(m)
    BY <2>2 DEF Place
  <2>4. Place(m, f) - 1 \in 0 .. Len(Order(m))
    BY <2>1, <2>3, LenProperties
  <2>5. Rest(m, addr)[Place(m, f) - 1] \in Nat
    BY <2>4, RestDef
  <2>6. \A a \in Nat, e \in Nat \ {0} : a % e \in 0 .. e - 1
    OBVIOUS
  <2> HIDE DEF d
  <2>7. Rest(m, addr)[Place(m, f) - 1] % d \in 0 .. d - 1
    BY <1>1, <2>5, <2>6
  <2> QED
    BY <1>2, <2>7 DEF Part, d
<1>3. CASE f \notin ToSet(Order(m))
  BY <1>1, <1>3 DEF Part
<1> QED
  BY <1>2, <1>3

(* What there is of a system in use.                                       *)
SizesInUse ==
  /\ IsMapping(mapping)
  /\ 2^mapping.width["chan"] = config.NUM_CHANS
  /\ mapping.width["rank"] = 0 /\ config.NUM_RANKS \in Nat \ {0}
  /\ 2^mapping.width["bank"] = GetConfigParam(db, "NUM_BANKS")
  /\ 2^mapping.width["low"] * 2^mapping.width["bg"] = GetConfigParam(db, "NUM_BANKS")
  /\ TransactionSize(db) \in Nat

(* A regular system has the sizes that addresses need.                     *)
LEMMA SizesOfSystem ==
  ASSUME RegularSystems, GeometryInv, InUse, ranks # << >>,
         system.jobs # {} \/ system.streams # {}
  PROVE  SizesInUse
<1> DEFINE s == system
<1>1. /\ s \in Systems /\ FilesApplied /\ IsUsable(Table(s))
      /\ Readable(s.device) /\ Readable(s.system)
      /\ mapping = AddrMapping(Table(s))
      /\ config.NUM_CHANS = Param(s, "NUM_CHANS") /\ config.NUM_RANKS = RanksTold(s)
  BY DEF GeometryInv, InUse
<1>2. PowersOfTwo(s) /\ RegularSize(s) /\ SizeOfChannel(s) # 0
  BY <1>1 DEF RegularSystems
<1>3. /\ IsMapping(mapping) /\ mapping.width["rank"] = 0
      /\ 2^mapping.width["chan"] = Param(s, "NUM_CHANS")
      /\ 2^mapping.width["bank"] = Param(s, "NUM_BANKS")
      /\ 2^mapping.width["low"] * 2^mapping.width["bg"] = Param(s, "NUM_BANKS")
  <2> DEFINE m == mapping
  <2>1. m = AddrMapping(Table(s))
    BY <1>1
  <2> QED
    BY <1>1, <1>2, <2>1, MappingSizes
<1>4. GetConfigParam(db, "NUM_BANKS") = Param(s, "NUM_BANKS")
  BY <1>1, ParamKept DEF Kept
<1>5. RanksOf(s) \in Nat \ {0}
  <2>1. s.megsOfMemory \in Nat
    BY <1>1, SystemsAssumption
  <2>2. Param(s, "NUM_CHANS") \in Nat \ {0} /\ RankBytes(s) \in Nat \ {0}
    BY <1>2, <1>3, PowerPositive DEF IsMapping, FieldNames, RegularSize
  <2>3. \A a \in Nat, d \in Nat \ {0} : a \div d \in Nat
    OBVIOUS
  <2>4. SizeOfChannel(s) \div RankBytes(s) \in Nat
    BY <2>1, <2>2, <2>3 DEF SizeOfChannel
  <2> QED
    BY <1>2, <2>4 DEF RanksOf
<1>6. TransactionSize(db) \in Nat
  <2>1. /\ GetConfigParam(db, "JEDEC_DATA_BUS_BITS") = Param(s, "JEDEC_DATA_BUS_BITS")
        /\ GetConfigParam(db, "BL") = Param(s, "BL")
    BY <1>1, ParamKept DEF Kept
  <2>2. PICK b, j \in Exponents :
          Param(s, "BL") = 2^b /\ Param(s, "JEDEC_DATA_BUS_BITS") \div 8 = 2^j
    BY <1>2 DEF PowersOfTwo
  <2>3. 2^b \in Nat /\ 2^j \in Nat
    BY PowerPositive DEF Exponents, MAX_LOG
  <2> QED
    BY <2>1, <2>2, <2>3 DEF TransactionSize
<1>7. RanksTold(s) = RanksOf(s)
  BY <1>2 DEF RanksTold
<1> QED
  BY <1>1, <1>3, <1>4, <1>5, <1>6, <1>7 DEF SizesInUse

(* An address leads to a cell that exists, by any scheme.                  *)
LEMMA MappedExists ==
  ASSUME SizesInUse, NEW addr \in Nat
  PROVE  Exists(addressMapping(mapping, addr))
<1> DEFINE part(f) == Part(mapping, addr, f)
           L == 2^mapping.width["low"]
           G == 2^mapping.width["bg"]
<1>1. \A f \in FieldNames : part(f) \in 0 .. 2^mapping.width[f] - 1
  BY PartType DEF SizesInUse
<1> HIDE DEF part
<1>2. /\ part("chan") \in 0 .. config.NUM_CHANS - 1
      /\ part("rank") \in 0 .. 2^0 - 1
      /\ part("bank") \in 0 .. GetConfigParam(db, "NUM_BANKS") - 1
      /\ part("low") \in 0 .. L - 1 /\ part("bg") \in 0 .. G - 1
  BY <1>1 DEF SizesInUse, FieldNames
<1>3. L \in Nat \ {0} /\ G \in Nat \ {0} /\ L * G = GetConfigParam(db, "NUM_BANKS")
  BY PowerPositive DEF SizesInUse, IsMapping, FieldNames
<1>4. part("rank") \in 0 .. config.NUM_RANKS - 1
  BY <1>2, Doubling DEF SizesInUse
<1>5. \/ part("low") = 0 /\ part("bg") = 0
      \/ part("bank") = 0
  BY SchemeFields DEF SizesInUse, Part, part
<1> HIDE DEF L, G
<1>6. part("bank") + part("low") + part("bg") * L \in 0 .. GetConfigParam(db, "NUM_BANKS") - 1
  <2>1. CASE part("low") = 0 /\ part("bg") = 0
    <3>1. 0 * L = 0
      BY <1>3
    <3> QED
      BY <1>2, <2>1, <3>1
  <2>2. CASE part("bank") = 0
    <3>1. part("bg") * L + part("low") + 1 \in 1 .. G * L
      BY <1>2, <1>3, WithinRows
    <3>2. part("bg") * L \in Nat /\ G * L = L * G /\ L * G \in Nat
      BY <1>2, <1>3
    <3> QED
      BY <1>2, <1>3, <2>2, <3>1, <3>2
  <2> QED
    BY <1>5, <2>1, <2>2
<1>7. mapping.width.low = mapping.width["low"]
  OBVIOUS
<1> QED
  BY <1>2, <1>4, <1>6, <1>7, AddressParts DEF Exists, part, L

(* The banks of the PIM blocks exist.                                      *)
LEMMA BlockCellExists ==
  ASSUME SizesInUse, KernelSizes, AddressSizes,
         NEW ch \in 0 .. system.num_pim_chans - 1, NEW bg \in 0 .. BankGroups - 1,
         NEW pair \in 0 .. Pairs - 1, NEW side \in 0 .. 1, NEW at
  PROVE  Exists(BlockCell(ch, bg, pair, side, at))
<1> DEFINE L == BanksPerGroup
           G == BankGroups
           x == pair * BanksPerBlock + side
           N == GetConfigParam(db, "NUM_BANKS")
<1>1. x \in 0 .. L - 1
  BY BankInGroup
<1>2. L \in Nat \ {0} /\ G \in Nat \ {0} /\ L * G = N
  <2>1. L = 2^mapping.width["low"] /\ G = 2^mapping.width["bg"]
    BY DEF AddressSizes
  <2> QED
    BY <2>1, PowerPositive DEF SizesInUse, IsMapping, FieldNames
<1>3. pair * BanksPerBlock \in Nat
  BY DEF KernelSizes
<1> HIDE DEF L, N
<1>4. bg * L + x + 1 \in 1 .. G * L
  <2> HIDE DEF x, G
  <2>1. bg \in 0 .. G - 1
    BY DEF G
  <2> QED
    BY <1>1, <1>2, <2>1, WithinRows
<1>5. bg * L \in Nat /\ G * L = L * G /\ L * G \in Nat
  BY <1>2
<1>6. bg * L + pair * BanksPerBlock + side \in 0 .. N - 1
  <2> HIDE DEF G
  <2>1. bg * L + pair * BanksPerBlock + side = bg * L + x
    BY <1>3, <1>5
  <2> HIDE DEF x
  <2> QED
    BY <1>1, <1>2, <1>4, <1>5, <2>1
<1>7. ch \in 0 .. config.NUM_CHANS - 1
  <2>1. config.NUM_CHANS \in Nat /\ system.num_pim_chans <= config.NUM_CHANS
    BY PowerPositive DEF SizesInUse, AddressSizes, IsMapping, FieldNames
  <2> QED
    BY <2>1 DEF KernelSizes
<1>8. 0 \in 0 .. config.NUM_RANKS - 1
  BY DEF SizesInUse
<1> QED
  BY <1>6, <1>7, <1>8 DEF Exists, BlockCell, L, N

(* Swapping two bits of an address leaves an address.                      *)
LEMMA SwapType ==
  ASSUME NEW addr \in Nat
  PROVE  changeRA12RA13(addr) \in Nat
<1> DEFINE P == 2^RA12
           Q == 2^(RA12 + 1)
           b == addr \div P
           c == addr \div Q
<1>1. RA12 \in 0 .. 30 /\ RA12 \in 0 .. 31
  BY SystemsAssumption DEF MAX_LOG
<1>2. P \in Nat \ {0} /\ Q = 2 * P
  BY <1>1, PowerPositive, Doubling
<1>3. /\ changeRA12RA13(addr) = addr + ((c % 2) - (b % 2)) * (P - Q)
  BY DEF changeRA12RA13, Bit
<1> HIDE DEF P, Q
<1>4. b \in Nat /\ c \in Nat /\ b % 2 \in {0, 1} /\ c % 2 \in {0, 1}
  <2>1. \A a \in Nat, d \in Nat \ {0} : a \div d \in Nat
    OBVIOUS
  <2>2. \A a \in Nat : a % 2 \in {0, 1}
    OBVIOUS
  <2>3. Q \in Nat \ {0}
    BY <1>2
  <2> QED
    BY <1>2, <2>1, <2>2, <2>3
<1>5. c % 2 = 1 => addr >= Q
  <2>1. \A a \in Nat, d \in Nat \ {0} : a < d => a \div d = 0
    OBVIOUS
  <2>2. Q \in Nat \ {0}
    BY <1>2
  <2>3. 0 % 2 # 1
    OBVIOUS
  <2> QED
    BY <1>4, <2>1, <2>2, <2>3
<1>6. P - Q = -P /\ Q >= P
  BY <1>2
<1> HIDE DEF b, c
<1>7. /\ (0 - 0) * (P - Q) = 0 /\ (1 - 1) * (P - Q) = 0
      /\ (1 - 0) * (P - Q) = -P /\ (0 - 1) * (P - Q) = P
  BY <1>2, <1>6
<1> QED
  BY <1>2, <1>3, <1>4, <1>5, <1>6, <1>7

(* Steps that store nothing, and steps that store in cells that exist.      *)
LEMMA CellsStay ==
  ASSUME TypeInv, UNCHANGED << db, system, config, ranks, made, banks >>, InUse,
         phase' \in {"ready", "preload", "readResult", "adderTree", "store", "done"},
         phase' = "store" => walk'.at \in Nat /\ system.streams # {}
  PROVE  TypeInv'
<1>1. InUse'
  BY DEF InUse
<1>2. HostTypeOK'
  BY DEF TypeInv, HostTypeOK
<1> QED
  BY <1>1, <1>2 DEF TypeInv

(* Steps that store in cells that exist.                                   *)
LEMMA CellsMore ==
  ASSUME TypeInv, UNCHANGED << db, system, config, ranks, made >>, InUse,
         phase' \in {"preload", "readResult", "store"},
         phase' = "store" => walk'.at \in Nat /\ system.streams # {},
         \A c \in DOMAIN banks' : c \in DOMAIN banks \/ Exists(c)
  PROVE  TypeInv'
<1>1. InUse'
  BY DEF InUse
<1>2. HostTypeOK'
  BY DEF TypeInv, HostTypeOK, Exists
<1> QED
  BY <1>1, <1>2 DEF TypeInv

(* Making a system.                                                        *)
LEMMA ConstructTypes ==
  ASSUME TypeInv, GeometryInv, NEW s \in Systems, Construct(s)
  PROVE  TypeInv'
<1>1. /\ made \in 0 .. MaxSystems /\ made < MaxSystems /\ made' = made + 1
      /\ phase' \in {"channels", "thrown"} /\ banks' = << >>
  BY DEF Construct, TypeInv, HostTypeOK
<1>2. made' \in 0 .. MaxSystems
  BY <1>1, SystemsAssumption
<1> QED
  BY <1>1, <1>2 DEF TypeInv, HostTypeOK, InUse

(* Channels are made before anything is stored, ...                        *)
LEMMA ChannelTypes ==
  ASSUME TypeInv, ConstructChannel
  PROVE  TypeInv'
<1>1. phase = "channels" /\ UNCHANGED << made, phase, banks >> /\ banks = << >>
  BY DEF ConstructChannel, TypeInv, InUse
<1> QED
  BY <1>1 DEF TypeInv, HostTypeOK, InUse

(* ... and so is the kernel of a system, which has a channel.              *)
LEMMA KernelTypes ==
  ASSUME RegularSystems, TypeInv, GeometryInv, ConstructKernel
  PROVE  TypeInv'
<1>1. /\ phase = "channels" /\ phase' = "ready" /\ Len(ranks) = config.NUM_CHANS
      /\ UNCHANGED << made, ranks, banks >> /\ banks = << >>
  BY DEF ConstructKernel, TypeInv, InUse
<1>2. ranks # << >>
  <2>1. /\ system \in Systems /\ IsUsable(Table(system))
        /\ Readable(system.device) /\ Readable(system.system)
        /\ config.NUM_CHANS = Param(system, "NUM_CHANS")
    BY <1>1 DEF GeometryInv
  <2>2. PICK h \in Exponents : Param(system, "NUM_CHANS") = 2^h
    BY <2>1 DEF RegularSystems, RegularSize
  <2>3. config.NUM_CHANS # 0
    BY <2>1, <2>2, PowerPositive DEF Exponents, MAX_LOG
  <2> QED
    BY <1>1, <2>3
<1> QED
  BY <1>1, <1>2 DEF TypeInv, HostTypeOK, InUse

(* Storing.                                                                *)
LEMMA TileTypes ==
  ASSUME RegularSystems, TypeInv, GeometryInv, PreloadInv, PreloadTile
  PROVE  TypeInv'
<1>1. /\ phase = "preload" /\ UNCHANGED << db, system, config, ranks, made, phase >>
      /\ walk.op \in system.jobs /\ PreloadWalk
  BY DEF PreloadTile, PreloadInv
<1>2. InUse /\ ranks # << >>
  BY <1>1 DEF InUse, TypeInv
<1>3. KernelSizes /\ AddressSizes /\ JobFits(walk.op) /\ SizesInUse
  BY <1>1, <1>2, SizesOfKernels, SizesOfSystem
<1>4. PICK round, pair :
        /\ AtBlock(walk, round, pair)
        /\ walk.start = [side \in 0 .. 1 |-> TilesDone(walk.op, round, side) * (NUM_GRF * NUM_GRF)]
  BY <1>1 DEF PreloadWalk
<1>5. DOMAIN banks' = DOMAIN banks \cup TileCells(walk.ch, walk.bg, pair, round)
  BY <1>3, <1>4, TileStored DEF StoresTile
<1>6. SideOf(walk.op, round) \in 0 .. 1
  BY <1>3, <1>4, TileSlot DEF AtBlock, JobFits
<1>7. \A c \in TileCells(walk.ch, walk.bg, pair, round) : Exists(c)
  BY <1>3, <1>4, <1>6, BlockCellExists DEF TileCells, TileCell, AtBlock
<1> QED
  BY <1>1, <1>2, <1>5, <1>7, CellsMore

(* The results of a kernel.                                                *)
LEMMA ResultTypes ==
  ASSUME RegularSystems, TypeInv, GeometryInv, PreloadInv, KernelRuns
  PROVE  TypeInv'
<1> DEFINE job == walk.op
           results == [k : ResultKeys, t : 0 .. Groups(job) - 1, g : 0 .. NUM_GRF - 1]
           cell(r) == CellOf(r.k, 1, ResultColGemv(job) + r.t * NUM_GRF + r.g)
           cells == {cell(r) : r \in results}
<1>1. /\ phase = "preload" /\ UNCHANGED << db, system, config, ranks, made >>
      /\ walk.op \in system.jobs /\ phase' = "readResult"
      /\ DOMAIN banks' = DOMAIN banks \cup cells
  BY DEF KernelRuns, PreloadInv, StoreAll
<1>2. InUse /\ ranks # << >>
  BY <1>1 DEF InUse, TypeInv
<1>3. KernelSizes /\ AddressSizes /\ SizesInUse
  BY <1>1, <1>2, SizesOfKernels, SizesOfSystem
<1>4. ASSUME NEW k \in ResultKeys, NEW at PROVE Exists(CellOf(k, 1, at))
  <2>1. /\ k.ch \in 0 .. system.num_pim_chans - 1 /\ k.bg \in 0 .. BankGroups - 1
        /\ k.pair \in 0 .. Pairs - 1 /\ k.ra = 0
    BY DEF ResultKeys, BankGroups, Pairs, NUM_PIM_RANKS
  <2>2. CellOf(k, 1, at) = BlockCell(k.ch, k.bg, k.pair, 1, at)
    BY <2>1 DEF CellOf, BlockCell
  <2> QED
    BY <1>3, <2>1, <2>2, BlockCellExists
<1>5. \A c \in cells : Exists(c)
  BY <1>4
<1> HIDE DEF cells
<1> QED
  BY <1>1, <1>2, <1>5, CellsMore

(* The bursts of a stream.                                                 *)
LEMMA BurstTypes ==
  ASSUME RegularSystems, TypeInv, GeometryInv, StoreBurst
  PROVE  TypeInv'
<1>1. /\ phase = "store" /\ UNCHANGED << db, system, config, ranks, made, phase >>
      /\ walk.at \in Nat /\ walk'.at = walk.at + 1 /\ system.streams # {}
      /\ DOMAIN banks' = DOMAIN banks \cup {addressMapping(mapping, StreamAddr(walk.at))}
  <2>1. walk.at \in Nat /\ phase = "store" /\ system.streams # {}
    BY DEF StoreBurst, TypeInv
  <2> QED
    BY <2>1 DEF StoreBurst, Store, Put
<1>2. InUse /\ ranks # << >>
  BY <1>1 DEF InUse, TypeInv
<1>3. SizesInUse
  BY <1>1, <1>2, SizesOfSystem
<1>4. StreamAddr(walk.at) \in Nat
  <2>1. walk.at * TransactionSize(db) \in Nat
    BY <1>1, <1>3 DEF SizesInUse
  <2> QED
    BY <2>1, SwapType DEF StreamAddr
<1>5. Exists(addressMapping(mapping, StreamAddr(walk.at)))
  BY <1>3, <1>4, MappedExists
<1> QED
  BY <1>1, <1>2, <1>5, CellsMore

(* Every step keeps to the cells that there are.                           *)
LEMMA TypeNext ==
  ASSUME RegularSystems
  PROVE  TypeInv /\ GeometryInv /\ PreloadInv /\ [HostNext]_hostVars => TypeInv'
<1> SUFFICES ASSUME TypeInv, GeometryInv, PreloadInv, [HostNext]_hostVars PROVE TypeInv'
  OBVIOUS
<1>1. ASSUME NEW s \in Systems, Construct(s) PROVE TypeInv'
  BY <1>1, ConstructTypes
<1>2. CASE ConstructChannel
  BY <1>2, ChannelTypes
<1>3. CASE ConstructKernel
  BY <1>3, KernelTypes
<1>4. ASSUME NEW job \in system.jobs, BeginGemv(job) PROVE TypeInv'
  <2>1. /\ phase = "ready" /\ phase' = "preload"
        /\ UNCHANGED << db, system, config, ranks, made, banks >>
    BY <1>4 DEF BeginGemv, Begin
  <2> QED
    BY <2>1, CellsStay DEF InUse
<1>5. CASE PreloadTile
  BY <1>5, TileTypes
<1>6. CASE KernelRuns
  BY <1>6, ResultTypes
<1>7. CASE ReadBlock
  <2>1. /\ phase = "readResult" /\ phase' = "readResult"
        /\ UNCHANGED << db, system, config, ranks, made, banks >>
    BY <1>7 DEF ReadBlock
  <2> QED
    BY <2>1, CellsStay DEF InUse
<1>8. CASE ResultsRead
  <2>1. /\ phase = "readResult" /\ phase' \in {"adderTree", "done"}
        /\ UNCHANGED << db, system, config, ranks, made, banks >>
    BY <1>8 DEF ResultsRead
  <2> QED
    BY <2>1, CellsStay DEF InUse
<1>9. CASE AddLevel \/ OutputDone
  <2>1. /\ phase = "adderTree" /\ phase' \in {"adderTree", "done"}
        /\ UNCHANGED << db, system, config, ranks, made, banks >>
    BY <1>9 DEF AddLevel, OutputDone
  <2> QED
    BY <2>1, CellsStay DEF InUse
<1>10. ASSUME NEW s \in system.streams, BeginStream(s) PROVE TypeInv'
  <2>1. /\ phase = "ready" /\ phase' = "store" /\ walk'.at = 0 /\ system.streams # {}
        /\ UNCHANGED << db, system, config, ranks, made, banks >>
    BY <1>10 DEF BeginStream, Begin
  <2> QED
    BY <2>1, CellsStay DEF InUse
<1>11. CASE StoreBurst
  BY <1>11, BurstTypes
<1>12. CASE ReadStream
  <2>1. /\ phase = "store" /\ phase' = "done"
        /\ UNCHANGED << db, system, config, ranks, made, banks >>
    BY <1>12 DEF ReadStream
  <2> QED
    BY <2>1, CellsStay DEF InUse
<1>13. CASE UNCHANGED hostVars
  BY <1>13 DEF hostVars, TypeInv, HostTypeOK, InUse
<1> QED
  BY <1>1, <1>2, <1>3, <1>4, <1>5, <1>6, <1>7, <1>8, <1>9, <1>10, <1>11, <1>12, <1>13 DEF HostNext

(* Nothing is stored at first.                                             *)
LEMMA TypeInit == HostInit => TypeInv
  BY SystemsAssumption DEF HostInit, TypeInv, HostTypeOK, InUse

(* Every access, of a kernel's driver or of a stream by any scheme, is to  *)
(* a channel, a rank and a bank that the system has.                       *)
THEOREM HostTypeOKAlways ==
  ASSUME RegularSystems
  PROVE  HostSpec => []HostTypeOK
<1>1. GeometryInv /\ PreloadInv /\ [HostNext]_hostVars => PreloadInv'
  BY PreloadNext
<1>2. TypeInv /\ GeometryInv /\ PreloadInv /\ [HostNext]_hostVars => TypeInv'
  BY TypeNext
<1>3. TypeInv => HostTypeOK
  BY DEF TypeInv
<1> QED
  BY <1>1, <1>2, <1>3, GeometryInit, GeometryNext, PreloadInit, TypeInit, PTL DEF HostSpec

-----------------------------------------------------------------------------
(* Addresses and places.                                                   *)

(* How much the fields behind the k-th can hold, taken together.           *)
IsRoom(m, room) ==
  /\ room \in [0 .. Len(Order(m)) -> Nat \ {0}] /\ room[Len(Order(m))] = 1
  /\ \A k \in 1 .. Len(Order(m)) : room[k - 1] = room[k] * 2^m.width[Order(m)[k]]

(* The bursts that there are addresses for.                                *)
Capacity(m) ==
  2^m.width["chan"] * 2^m.width["rank"] * (2^m.width["low"] * 2^m.width["bg"])
    * 2^m.width["row"] * 2^m.width["col"]

(* A field has a value.                                                    *)
LEMMA WidthsPositive ==
  ASSUME NEW m, IsMapping(m)
  PROVE  \A k \in 1 .. Len(Order(m)) : 2^m.width[Order(m)[k]] \in Nat \ {0}
<1> SUFFICES ASSUME NEW k \in 1 .. Len(Order(m)) PROVE 2^m.width[Order(m)[k]] \in Nat \ {0}
  OBVIOUS
<1>1. Order(m)[k] \in FieldNames
  BY SchemeFields, ElementOfSeq
<1> QED
  BY <1>1, PowerPositive DEF IsMapping

(* There is such a function.                                               *)
LEMMA RoomExists ==
  ASSUME NEW m, IsMapping(m)
  PROVE  \E room : IsRoom(m, room)
<1> DEFINE N == Len(Order(m))
           d(k) == 2^m.width[Order(m)[k]]
           step == [n \in 1 .. N |-> [x \in Nat \ {0} |-> x * d(N + 1 - n)]]
<1>1. N \in Nat /\ \A k \in 1 .. N : d(k) \in Nat \ {0}
  BY SchemeFields, WidthsPositive
<1> HIDE DEF N, d
<1>2. step \in [1 .. N -> [Nat \ {0} -> Nat \ {0}]]
  <2>1. \A n \in 1 .. N : d(N + 1 - n) \in Nat \ {0}
    BY <1>1
  <2>2. \A x, y \in Nat \ {0} : x * y \in Nat \ {0}
    OBVIOUS
  <2> QED
    BY <2>1, <2>2
<1>3. PICK f \in [0 .. N -> Nat \ {0}] : IsLoop(N, 1, step, f)
  <2> HIDE DEF step
  <2>1. 1 \in Nat \ {0}
    OBVIOUS
  <2> QED
    BY <1>1, <1>2, <2>1, LoopExists
<1> DEFINE room == [k \in 0 .. N |-> f[N - k]]
<1>4. room \in [0 .. N -> Nat \ {0}] /\ room[N] = 1
  <2>1. \A k \in 0 .. N : N - k \in 0 .. N
    BY <1>1
  <2>2. N \in 0 .. N /\ N - N = 0 /\ f[0] = 1
    BY <1>1, <1>3 DEF IsLoop
  <2> QED
    BY <2>1, <2>2
<1>5. ASSUME NEW k \in 1 .. N PROVE room[k - 1] = room[k] * d(k)
  <2>1. /\ N - k + 1 \in 1 .. N /\ N - (k - 1) = N - k + 1 /\ (N - k + 1) - 1 = N - k
        /\ N + 1 - (N - k + 1) = k /\ k - 1 \in 0 .. N /\ k \in 0 .. N /\ N - k \in 0 .. N
    BY <1>1
  <2>2. f[N - k + 1] = step[N - k + 1][f[N - k]]
    BY <1>3, <2>1 DEF IsLoop
  <2>3. step[N - k + 1][f[N - k]] = f[N - k] * d(k)
    BY <2>1
  <2> HIDE DEF step
  <2> QED
    BY <2>1, <2>2, <2>3
<1> HIDE DEF room
<1>6. IsRoom(m, room)
  BY <1>4, <1>5 DEF IsRoom, N, d
<1> QED
  BY <1>6

(* By any scheme, the fields can hold all bursts.                          *)
LEMMA RoomOfScheme ==
  ASSUME NEW m, IsMapping(m), NEW room, IsRoom(m, room),
         2^m.width["bank"] = 2^m.width["low"] * 2^m.width["bg"]
  PROVE  room[0] = Capacity(m)
<1> DEFINE C == 2^m.width["chan"]
           Q == 2^m.width["rank"]
           B == 2^m.width["bank"]
           L == 2^m.width["low"]
           G == 2^m.width["bg"]
           R == 2^m.width["row"]
           K == 2^m.width["col"]
<1>1. /\ C \in Nat /\ Q \in Nat /\ L \in Nat /\ G \in Nat /\ R \in Nat /\ K \in Nat
      /\ B = L * G
  BY PowerPositive DEF IsMapping, FieldNames
<1> DEFINE a(k) == room[k]
           d(k) == 2^m.width[Order(m)[k]]
<1>2. ASSUME Len(Order(m)) = 5
      PROVE  /\ a(5) = 1 /\ a(4) = a(5) * d(5) /\ a(3) = a(4) * d(4) /\ a(2) = a(3) * d(3)
             /\ a(1) = a(2) * d(2) /\ a(0) = a(1) * d(1)
  <2>1. /\ a(5 - 1) = a(5) * d(5) /\ a(4 - 1) = a(4) * d(4) /\ a(3 - 1) = a(3) * d(3)
        /\ a(2 - 1) = a(2) * d(2) /\ a(1 - 1) = a(1) * d(1)
    BY <1>2 DEF IsRoom
  <2> QED
    BY <1>2, <2>1 DEF IsRoom
<1>3. ASSUME Len(Order(m)) = 6
      PROVE  /\ a(6) = 1 /\ a(5) = a(6) * d(6) /\ a(4) = a(5) * d(5) /\ a(3) = a(4) * d(4)
             /\ a(2) = a(3) * d(3) /\ a(1) = a(2) * d(2) /\ a(0) = a(1) * d(1)
  <2>1. /\ a(6 - 1) = a(6) * d(6)
        /\ a(5 - 1) = a(5) * d(5) /\ a(4 - 1) = a(4) * d(4) /\ a(3 - 1) = a(3) * d(3)
        /\ a(2 - 1) = a(2) * d(2) /\ a(1 - 1) = a(1) * d(1)
    BY <1>3 DEF IsRoom
  <2> QED
    BY <1>3, <2>1 DEF IsRoom
<1>4. Capacity(m) = C * Q * (L * G) * R * K
  BY DEF Capacity
<1> HIDE DEF a
<1>5. m.scheme \in 1 .. 10
  BY DEF IsMapping
<1>6. CASE m.scheme = 1
  <2>1. Len(Order(m)) = 5 /\ d(1) = B /\ d(2) = K /\ d(3) = R /\ d(4) = Q /\ d(5) = C
    BY <1>6 DEF Order, Fields
  <2> HIDE DEF C, Q, B, L, G, R, K, d
  <2>2. a(0) = ((((1 * C) * Q) * R) * K) * (L * G)
    BY <1>1, <1>2, <2>1
  <2> QED
    BY <1>1, <1>4, <2>2 DEF a
<1>7. CASE m.scheme = 2
  <2>1. Len(Order(m)) = 5 /\ d(1) = Q /\ d(2) = B /\ d(3) = K /\ d(4) = R /\ d(5) = C
    BY <1>7 DEF Order, Fields
  <2> HIDE DEF C, Q, B, L, G, R, K, d
  <2>2. a(0) = ((((1 * C) * R) * K) * (L * G)) * Q
    BY <1>1, <1>2, <2>1
  <2> QED
    BY <1>1, <1>4, <2>2 DEF a
<1>8. CASE m.scheme = 3
  <2>1. Len(Order(m)) = 5 /\ d(1) = R /\ d(2) = K /\ d(3) = B /\ d(4) = Q /\ d(5) = C
    BY <1>8 DEF Order, Fields
  <2> HIDE DEF C, Q, B, L, G, R, K, d
  <2>2. a(0) = ((((1 * C) * Q) * (L * G)) * K) * R
    BY <1>1, <1>2, <2>1
  <2> QED
    BY <1>1, <1>4, <2>2 DEF a
<1>9. CASE m.scheme = 4
  <2>1. Len(Order(m)) = 5 /\ d(1) = K /\ d(2) = R /\ d(3) = B /\ d(4) = Q /\ d(5) = C
    BY <1>9 DEF Order, Fields
  <2> HIDE DEF C, Q, B, L, G, R, K, d
  <2>2. a(0) = ((((1 * C) * Q) * (L * G)) * R) * K
    BY <1>1, <1>2, <2>1
  <2> QED
    BY <1>1, <1>4, <2>2 DEF a
<1>10. CASE m.scheme = 5
  <2>1. Len(Order(m)) = 5 /\ d(1) = B /\ d(2) = Q /\ d(3) = K /\ d(4) = R /\ d(5) = C
    BY <1>10 DEF Order, Fields
  <2> HIDE DEF C, Q, B, L, G, R, K, d
  <2>2. a(0) = ((((1 * C) * R) * K) * Q) * (L * G)
    BY <1>1, <1>2, <2>1
  <2> QED
    BY <1>1, <1>4, <2>2 DEF a
<1>11. CASE m.scheme = 6
  <2>1. Len(Order(m)) = 5 /\ d(1) = K /\ d(2) = Q /\ d(3) = B /\ d(4) = R /\ d(5) = C
    BY <1>11 DEF Order, Fields
  <2> HIDE DEF C, Q, B, L, G, R, K, d
  <2>2. a(0) = ((((1 * C) * R) * (L * G)) * Q) * K
    BY <1>1, <1>2, <2>1
  <2> QED
    BY <1>1, <1>4, <2>2 DEF a
<1>12. CASE m.scheme = 7
  <2>1. Len(Order(m)) = 5 /\ d(1) = C /\ d(2) = B /\ d(3) = Q /\ d(4) = K /\ d(5) = R
    BY <1>12 DEF Order, Fields
  <2> HIDE DEF C, Q, B, L, G, R, K, d
  <2>2. a(0) = ((((1 * R) * K) * Q) * (L * G)) * C
    BY <1>1, <1>2, <2>1
  <2> QED
    BY <1>1, <1>4, <2>2 DEF a
<1>13. CASE m.scheme = 8
  <2>1. Len(Order(m)) = 6 /\ d(1) = C /\ d(2) = L /\ d(3) = G /\ d(4) = K /\ d(5) = R /\ d(6) = Q
    BY <1>13 DEF Order, Fields
  <2> HIDE DEF C, Q, B, L, G, R, K, d
  <2>2. a(0) = (((((1 * Q) * R) * K) * G) * L) * C
    BY <1>1, <1>3, <2>1
  <2> QED
    BY <1>1, <1>4, <2>2 DEF a
<1>14. CASE m.scheme = 9
  <2>1. Len(Order(m)) = 6 /\ d(1) = L /\ d(2) = G /\ d(3) = K /\ d(4) = R /\ d(5) = Q /\ d(6) = C
    BY <1>14 DEF Order, Fields
  <2> HIDE DEF C, Q, B, L, G, R, K, d
  <2>2. a(0) = (((((1 * C) * Q) * R) * K) * G) * L
    BY <1>1, <1>3, <2>1
  <2> QED
    BY <1>1, <1>4, <2>2 DEF a
<1>15. CASE m.scheme = 10
  <2>1. Len(Order(m)) = 6 /\ d(1) = C /\ d(2) = K /\ d(3) = R /\ d(4) = Q /\ d(5) = L /\ d(6) = G
    BY <1>15 DEF Order, Fields
  <2> HIDE DEF C, Q, B, L, G, R, K, d
  <2>2. a(0) = (((((1 * G) * L) * Q) * R) * K) * C
    BY <1>1, <1>3, <2>1
  <2> QED
    BY <1>1, <1>4, <2>2 DEF a
<1> QED
  BY <1>5, <1>6, <1>7, <1>8, <1>9, <1>10, <1>11, <1>12, <1>13, <1>14, <1>15

(* A field's part of an address that the scheme puts it in, and of others. *)
LEMMA PartAt ==
  ASSUME NEW m, IsMapping(m), NEW addr, NEW k \in 1 .. Len(Order(m))
  PROVE  /\ Order(m)[k] \in FieldNames
         /\ Part(m, addr, Order(m)[k]) = Rest(m, addr)[k - 1] % 2^m.width[Order(m)[k]]
<1>1. /\ Order(m) \in Seq(FieldNames) /\ Len(Order(m)) \in Nat
      /\ \A i, j \in 1 .. Len(Order(m)) : Order(m)[i] = Order(m)[j] => i = j
  BY SchemeFields
<1>2. DOMAIN Order(m) = 1 .. Len(Order(m)) /\ Order(m)[k] \in FieldNames
  BY <1>1, LenProperties, ElementOfSeq
<1>3. Order(m)[k] \in ToSet(Order(m))
  BY <1>2 DEF ToSet
<1>4. Place(m, Order(m)[k]) = k
  BY <1>1, <1>2 DEF Place
<1> QED
  BY <1>2, <1>3, <1>4 DEF Part

(* Addresses of one cell have the same parts.                              *)
LEMMA SameParts ==
  ASSUME NEW m, IsMapping(m), NEW x \in Nat, NEW y \in Nat,
         addressMapping(m, x) = addressMapping(m, y)
  PROVE  \A k \in 1 .. Len(Order(m)) : Part(m, x, Order(m)[k]) = Part(m, y, Order(m)[k])
<1> DEFINE p(f) == Part(m, x, f)
           q(f) == Part(m, y, f)
           L == 2^m.width["low"]
<1>1. /\ p("chan") = q("chan") /\ p("rank") = q("rank") /\ p("row") = q("row")
      /\ p("col") = q("col")
      /\ p("bank") + p("low") + p("bg") * L = q("bank") + q("low") + q("bg") * L
  <2> HIDE DEF p, q
  <2>1. m.width.low = m.width["low"]
    OBVIOUS
  <2> QED
    BY <2>1, AddressParts DEF p, q, L
<1>2. \A f \in FieldNames : p(f) \in 0 .. 2^m.width[f] - 1 /\ q(f) \in 0 .. 2^m.width[f] - 1
  BY PartType
<1>3. L \in Nat \ {0}
  BY PowerPositive DEF IsMapping, FieldNames
<1>4. /\ p("low") \in 0 .. L - 1 /\ q("low") \in 0 .. L - 1
      /\ p("bank") \in Nat /\ q("bank") \in Nat /\ p("bg") \in Nat /\ q("bg") \in Nat
  <2>1. 2^m.width["bank"] \in Nat /\ 2^m.width["bg"] \in Nat
    BY PowerPositive DEF IsMapping, FieldNames
  <2> QED
    BY <1>2, <2>1 DEF FieldNames, L
<1>5. CASE "bank" \in ToSet(Order(m)) /\ "low" \notin ToSet(Order(m)) /\ "bg" \notin ToSet(Order(m))
  <2>1. p("low") = 0 /\ q("low") = 0 /\ p("bg") = 0 /\ q("bg") = 0
    BY <1>5 DEF Part
  <2> HIDE DEF p, q, L
  <2>2. 0 * L = 0
    BY <1>3
  <2>3. p("bank") = q("bank")
    BY <1>1, <1>4, <2>1, <2>2
  <2>4. \A f \in FieldNames : p(f) = q(f)
    BY <1>1, <2>1, <2>3 DEF FieldNames
  <2> QED
    BY <2>4, PartAt DEF p, q
<1>6. CASE "bank" \notin ToSet(Order(m)) /\ {"low", "bg"} \subseteq ToSet(Order(m))
  <2>1. p("bank") = 0 /\ q("bank") = 0
    BY <1>6 DEF Part
  <2> HIDE DEF p, q, L
  <2>2. p("bg") * L + p("low") = q("bg") * L + q("low")
    <3>1. p("bg") * L \in Int /\ q("bg") * L \in Int
      BY <1>3, <1>4
    <3> QED
      BY <1>1, <1>4, <2>1, <3>1
  <2>3. /\ (p("bg") * L + p("low")) \div L = p("bg") /\ (p("bg") * L + p("low")) % L = p("low")
        /\ (q("bg") * L + q("low")) \div L = q("bg") /\ (q("bg") * L + q("low")) % L = q("low")
    BY <1>3, <1>4, TakenOff, Zenon
  <2>4. p("bg") = q("bg") /\ p("low") = q("low")
    BY <2>2, <2>3
  <2>5. \A f \in FieldNames : p(f) = q(f)
    BY <1>1, <2>1, <2>4 DEF FieldNames
  <2> QED
    BY <2>5, PartAt DEF p, q
<1> QED
  BY <1>5, <1>6, SchemeFields

(* Nothing is left of an address when all fields have been taken off.      *)
LEMMA RestEmpty ==
  ASSUME NEW m, IsMapping(m), NEW room, IsRoom(m, room), NEW addr \in Nat,
         addr \div 2^m.offset < room[0]
  PROVE  Rest(m, addr)[Len(Order(m))] = 0
<1> DEFINE N == Len(Order(m))
           r == Rest(m, addr)
           d(k) == 2^m.width[Order(m)[k]]
           P == {k \in 0 .. N : r[k] < room[k]}
<1>1. N \in Nat /\ \A k \in 1 .. N : d(k) \in Nat \ {0}
  BY SchemeFields, WidthsPositive
<1>2. /\ \A k \in 0 .. N : r[k] \in Nat
      /\ r[0] = addr \div 2^m.offset
      /\ \A k \in 1 .. N : r[k] = r[k - 1] \div d(k)
  BY RestDef
<1>3. /\ \A k \in 0 .. N : room[k] \in Nat
      /\ room[N] = 1 /\ \A k \in 1 .. N : room[k - 1] = room[k] * d(k)
  BY DEF IsRoom
<1> HIDE DEF N, r, d
<1>4. 0 \in P
  BY <1>1, <1>2
<1>5. ASSUME NEW n \in 0 .. N - 1, n \in P PROVE n + 1 \in P
  <2>1. n + 1 \in 1 .. N /\ n + 1 \in 0 .. N /\ (n + 1) - 1 = n /\ n \in 0 .. N
    BY <1>1
  <2>2. r[n] < room[n + 1] * d(n + 1) /\ r[n + 1] = r[n] \div d(n + 1)
    BY <1>2, <1>3, <1>5, <2>1
  <2>3. \A a \in Nat, e \in Nat \ {0}, b \in Nat : a < b * e => a \div e < b
    OBVIOUS
  <2>4. r[n + 1] < room[n + 1]
    BY <1>1, <1>2, <1>3, <2>1, <2>2, <2>3
  <2> QED
    BY <2>1, <2>4
<1>6. 0 .. N \subseteq P
  <2> HIDE DEF P
  <2> QED
    BY <1>1, <1>4, <1>5, InductionUpTo
<1>7. r[N] < 1 /\ r[N] \in Nat
  BY <1>1, <1>2, <1>3, <1>6
<1> QED
  BY <1>7 DEF r, N

(* No two bursts that there are addresses for share a place.               *)
LEMMA AddressesApart ==
  ASSUME NEW m, IsMapping(m), 2^m.width["bank"] = 2^m.width["low"] * 2^m.width["bg"],
         NEW x \in Nat, NEW y \in Nat,
         x \div 2^m.offset < Capacity(m), y \div 2^m.offset < Capacity(m),
         addressMapping(m, x) = addressMapping(m, y)
  PROVE  x \div 2^m.offset = y \div 2^m.offset
<1> DEFINE N == Len(Order(m))
           r == Rest(m, x)
           s == Rest(m, y)
           d(k) == 2^m.width[Order(m)[k]]
           P == {i \in 0 .. N : r[N - i] = s[N - i]}
<1>1. N \in Nat /\ \A k \in 1 .. N : d(k) \in Nat \ {0}
  <2>1. N \in Nat
    BY SchemeFields
  <2>2. \A k \in 1 .. N : d(k) \in Nat \ {0}
    BY WidthsPositive, Zenon
  <2> QED
    BY <2>1, <2>2
<1>2. PICK room : IsRoom(m, room)
  BY RoomExists
<1>3. room[0] = Capacity(m)
  BY <1>2, RoomOfScheme
<1>4. r[N] = 0 /\ s[N] = 0
  BY <1>2, <1>3, RestEmpty
<1>5. \A k \in 1 .. N : r[k - 1] % d(k) = s[k - 1] % d(k)
  BY SameParts, PartAt
<1>6. /\ \A k \in 0 .. N : r[k] \in Nat /\ s[k] \in Nat
      /\ r[0] = x \div 2^m.offset /\ s[0] = y \div 2^m.offset
      /\ \A k \in 1 .. N : r[k] = r[k - 1] \div d(k) /\ s[k] = s[k - 1] \div d(k)
  BY RestDef
<1> HIDE DEF N, r, s, d
<1>7. 0 \in P
  BY <1>1, <1>4
<1>8. ASSUME NEW n \in 0 .. N - 1, n \in P PROVE n + 1 \in P
  <2>1. N - n \in 1 .. N /\ (N - n) - 1 = N - (n + 1) /\ n + 1 \in 0 .. N /\ N - (n + 1) \in 0 .. N
    BY <1>1
  <2>2. \A a, b \in Nat, e \in Nat \ {0} : a \div e = b \div e /\ a % e = b % e => a = b
    <3> SUFFICES ASSUME NEW a \in Nat, NEW b \in Nat, NEW e \in Nat \ {0},
                        a \div e = b \div e, a % e = b % e
                 PROVE  a = b
      OBVIOUS
    <3>1. a = (a \div e) * e + (a % e) /\ b = (b \div e) * e + (b % e)
      OBVIOUS
    <3> QED
      BY <3>1
  <2>3. /\ r[N - (n + 1)] \div d(N - n) = s[N - (n + 1)] \div d(N - n)
        /\ r[N - (n + 1)] % d(N - n) = s[N - (n + 1)] % d(N - n)
    BY <1>5, <1>6, <1>8, <2>1
  <2>4. r[N - (n + 1)] = s[N - (n + 1)]
    BY <1>1, <1>6, <2>1, <2>2, <2>3, Zenon
  <2> QED
    BY <2>1, <2>4
<1>9. 0 .. N \subseteq P
  <2> HIDE DEF P
  <2> QED
    BY <1>1, <1>7, <1>8, InductionUpTo
<1>10. N \in P /\ N - N = 0
  BY <1>1, <1>9
<1>11. r[0] = s[0]
  BY <1>10
<1> QED
  BY <1>6, <1>11

-----------------------------------------------------------------------------
(* Streams.  A stream stays in the first rank of every channel, and the    *)
(* two bits that the emulator swaps are bits of the number of a burst.     *)

BurstsOfRanks(s) ==
  Param(s, "NUM_CHANS") * Param(s, "NUM_BANKS") * Param(s, "NUM_ROWS")
    * (Param(s, "NUM_COLS") \div Param(s, "BL"))

StreamFits(s, stream) ==
  /\ stream.bursts \in Nat /\ stream.bursts <= BurstsOfRanks(s)
  /\ stream.api = "emulator" =>
       /\ 2^RA12 % TransactionSize(Table(s)) = 0
       /\ (BurstsOfRanks(s) * TransactionSize(Table(s))) % (4 * 2^RA12) = 0

RegularStreams ==
  \A s \in Systems : Readable(s.device) /\ Readable(s.system) /\ IsUsable(Table(s)) =>
    /\ \A stream \in s.streams : StreamFits(s, stream)
    /\ \A job \in s.jobs : "bursts" \notin DOMAIN job

(* Two bits of a number swapped: its lowest two, and those above the p.    *)
Swapped(q) == q + (q % 2) - ((q \div 2) % 2)

SwappedAt(x, p) == Swapped(x \div p) * p + (x % p)

(* Swapping them keeps numbers apart, and among as many fours.             *)
LEMMA SwappedApart ==
  /\ \A q \in Nat : Swapped(q) \in Nat /\ (\A k \in Nat : q < 4 * k => Swapped(q) < 4 * k)
  /\ \A q, r \in Nat : Swapped(q) = Swapped(r) => q = r
  BY DEF Swapped

(* Quotients of multiples, and of quotients.                               *)
LEMMA QuotientOfMultiples ==
  \A x \in Nat, d \in Nat \ {0}, p \in Nat \ {0} : (x * d) \div (p * d) = x \div p
<1> SUFFICES ASSUME NEW x \in Nat, NEW d \in Nat \ {0}, NEW p \in Nat \ {0}
             PROVE  (x * d) \div (p * d) = x \div p
  OBVIOUS
<1>1. PICK a \in Nat, r \in 0 .. p - 1 : x = a * p + r
  <2>1. x \div p \in Nat /\ x % p \in 0 .. p - 1 /\ x = (x \div p) * p + (x % p)
    OBVIOUS
  <2> QED
    BY <2>1
<1>2. r * d + 0 + 1 \in 1 .. p * d
  <2>1. 0 \in 0 .. d - 1
    OBVIOUS
  <2> QED
    BY <2>1, WithinRows
<1>3. r * d \in 0 .. p * d - 1 /\ p * d \in Nat \ {0}
  <2>1. r * d \in Nat /\ p * d \in Nat \ {0}
    OBVIOUS
  <2> QED
    BY <1>2, <2>1
<1>4. x * d = a * (p * d) + r * d
  <2>1. (a * p + r) * d = (a * p) * d + r * d /\ (a * p) * d = a * (p * d)
    OBVIOUS
  <2> QED
    BY <1>1, <2>1
<1>5. (a * (p * d) + r * d) \div (p * d) = a
  BY <1>1, <1>3, TakenOff, Zenon
<1>6. (a * p + r) \div p = a
  BY <1>1, TakenOff, Zenon
<1> QED
  BY <1>1, <1>4, <1>5, <1>6

(* The quotient of a quotient.                                             *)
LEMMA QuotientOfQuotient ==
  \A x \in Nat, p \in Nat \ {0} : x \div (2 * p) = (x \div p) \div 2
<1> SUFFICES ASSUME NEW x \in Nat, NEW p \in Nat \ {0}
             PROVE  x \div (2 * p) = (x \div p) \div 2
  OBVIOUS
<1>1. PICK a \in Nat, r \in 0 .. p - 1 : x = a * p + r
  <2>1. x \div p \in Nat /\ x % p \in 0 .. p - 1 /\ x = (x \div p) * p + (x % p)
    OBVIOUS
  <2> QED
    BY <2>1
<1>2. PICK c \in Nat, e \in 0 .. 1 : a = 2 * c + e
  <2>1. a \div 2 \in Nat /\ a % 2 \in 0 .. 1 /\ a = 2 * (a \div 2) + (a % 2)
    OBVIOUS
  <2> QED
    BY <2>1
<1>3. e * p + r \in 0 .. 2 * p - 1
  <2>1. e * p = 0 \/ e * p = p
    OBVIOUS
  <2> QED
    BY <2>1
<1>4. x = c * (2 * p) + (e * p + r)
  <2>1. (2 * c + e) * p = (2 * c) * p + e * p /\ (2 * c) * p = c * (2 * p)
    OBVIOUS
  <2>2. c * (2 * p) \in Nat /\ e * p \in Nat
    OBVIOUS
  <2> QED
    BY <1>1, <1>2, <2>1, <2>2
<1>5. (c * (2 * p) + (e * p + r)) \div (2 * p) = c
  <2>1. 2 * p \in Nat \ {0}
    OBVIOUS
  <2> QED
    BY <1>2, <1>3, <2>1, TakenOff, Zenon
<1>6. (a * p + r) \div p = a
  BY <1>1, TakenOff, Zenon
<1>7. a \div 2 = c
  BY <1>2
<1> QED
  BY <1>1, <1>4, <1>5, <1>6, <1>7

(* The swap of the emulator, by numbers of bursts of d bytes.              *)
LEMMA SwapOfBursts ==
  ASSUME NEW d \in Nat \ {0}, NEW p \in Nat \ {0}, 2^RA12 = p * d, NEW x \in Nat
  PROVE  changeRA12RA13(x * d) = SwappedAt(x, p) * d
<1> DEFINE P == 2^RA12
           Q == 2^(RA12 + 1)
           q == x \div p
           r == x % p
<1>1. RA12 \in 0 .. 30
  BY SystemsAssumption DEF MAX_LOG
<1>2. Q = 2 * P /\ P = p * d
  BY <1>1, Doubling
<1>3. changeRA12RA13(x * d)
        = x * d + ((((x * d) \div Q) % 2) - (((x * d) \div P) % 2)) * (P - Q)
  BY DEF changeRA12RA13, Bit
<1> HIDE DEF P, Q
<1>4. (x * d) \div P = q
  BY <1>2, QuotientOfMultiples
<1>5. (x * d) \div Q = q \div 2
  <2>1. Q = (2 * p) * d /\ 2 * p \in Nat \ {0}
    BY <1>2
  <2>2. (x * d) \div ((2 * p) * d) = x \div (2 * p)
    BY <2>1, QuotientOfMultiples, Zenon
  <2> QED
    BY <2>1, <2>2, QuotientOfQuotient
<1>6. q \in Nat /\ r \in Nat /\ x = q * p + r
  OBVIOUS
<1> HIDE DEF q, r
<1>7. PICK b, c \in 0 .. 1 : q % 2 = b /\ (q \div 2) % 2 = c
  <2>1. q % 2 \in 0 .. 1 /\ (q \div 2) % 2 \in 0 .. 1
    BY <1>6
  <2> QED
    BY <2>1
<1>8. changeRA12RA13(x * d) = x * d + (c - b) * (P - Q)
  BY <1>3, <1>4, <1>5, <1>7
<1>9. (c - b) * (P - Q) = ((b - c) * p) * d
  <2>1. P - Q = -(p * d)
    BY <1>2
  <2> QED
    BY <1>7, <2>1
<1>10. SwappedAt(x, p) = (q + b - c) * p + r
  BY <1>7 DEF SwappedAt, Swapped, q, r
<1>11. (q + b - c) * p + r = x + (b - c) * p
  <2>1. (q + b - c) * p = q * p + (b - c) * p
    BY <1>6, <1>7
  <2>2. (b - c) * p \in Int /\ q * p \in Int
    BY <1>6, <1>7
  <2> QED
    BY <1>6, <2>1, <2>2
<1>12. (x + (b - c) * p) * d = x * d + ((b - c) * p) * d
  <2>1. (b - c) * p \in Int
    BY <1>7
  <2>2. \A y \in Int : (x + y) * d = x * d + y * d
    OBVIOUS
  <2> QED
    BY <2>1, <2>2
<1> QED
  BY <1>8, <1>9, <1>10, <1>11, <1>12

(* It leaves numbers of bursts in their range, and different ones apart.   *)
LEMMA SwapStays ==
  ASSUME NEW p \in Nat \ {0}, NEW k \in Nat, NEW x \in 0 .. 4 * k * p - 1
  PROVE  SwappedAt(x, p) \in 0 .. 4 * k * p - 1
<1> DEFINE q == x \div p
           r == x % p
<1>1. 4 * k * p \in Nat /\ 4 * k \in Nat
  OBVIOUS
<1>2. q \in Nat /\ r \in 0 .. p - 1
  BY <1>1
<1>3. q < 4 * k
  <2>1. \A a \in Nat, d \in Nat \ {0}, n \in Nat : a < n * d => a \div d < n
    OBVIOUS
  <2>2. x < (4 * k) * p
    BY <1>1
  <2> QED
    BY <1>1, <2>1, <2>2
<1> HIDE DEF q, r
<1>4. Swapped(q) \in 0 .. 4 * k - 1
  BY <1>1, <1>2, <1>3, SwappedApart
<1>5. Swapped(q) * p + r + 1 \in 1 .. (4 * k) * p
  BY <1>1, <1>2, <1>4, WithinRows
<1>6. Swapped(q) * p \in Nat
  BY <1>4
<1> QED
  BY <1>1, <1>2, <1>5, <1>6 DEF SwappedAt, q, r

(* Different numbers stay different.                                       *)
LEMMA SwapsApart ==
  ASSUME NEW p \in Nat \ {0}, NEW x \in Nat, NEW y \in Nat, SwappedAt(x, p) = SwappedAt(y, p)
  PROVE  x = y
<1> DEFINE q == x \div p
           r == x % p
           u == y \div p
           v == y % p
<1>1. /\ q \in Nat /\ r \in 0 .. p - 1 /\ u \in Nat /\ v \in 0 .. p - 1
      /\ x = q * p + r /\ y = u * p + v
  OBVIOUS
<1>2. SwappedAt(x, p) = Swapped(q) * p + r /\ SwappedAt(y, p) = Swapped(u) * p + v
  BY DEF SwappedAt
<1> HIDE DEF q, r, u, v
<1>3. Swapped(q) \in Nat /\ Swapped(u) \in Nat
  BY <1>1, SwappedApart
<1>4. /\ (Swapped(q) * p + r) \div p = Swapped(q) /\ (Swapped(q) * p + r) % p = r
      /\ (Swapped(u) * p + v) \div p = Swapped(u) /\ (Swapped(u) * p + v) % p = v
  BY <1>1, <1>3, TakenOff, Zenon
<1>5. Swapped(q) = Swapped(u) /\ r = v
  BY <1>2, <1>4
<1>6. q = u
  BY <1>1, <1>5, SwappedApart
<1> QED
  BY <1>1, <1>5, <1>6

StreamCell(i) == addressMapping(mapping, StreamAddr(i))

(* The bursts stored so far are there; other clients are out of the way.   *)
StreamInv ==
  /\ phase = "store" =>
       /\ walk = [op |-> walk.op, at |-> walk.at]
       /\ walk.op \in system.streams /\ walk.at \in 0 .. walk.op.bursts
       /\ \A i \in 0 .. walk.at - 1 :
            StreamCell(i) \in DOMAIN banks /\ banks[StreamCell(i)] = << "burst", i >>
  /\ phase = "adderTree" => "temp" \in DOMAIN sums
  /\ StreamKept

StreamSizes(op) ==
  /\ IsMapping(mapping) /\ 2^mapping.width["bank"] = 2^mapping.width["low"] * 2^mapping.width["bg"]
  /\ TransactionSize(db) = 2^mapping.offset
  /\ op.bursts \in Nat /\ op.bursts <= Capacity(mapping)
  /\ op.api = "emulator" =>
       /\ 2^RA12 % TransactionSize(db) = 0
       /\ (Capacity(mapping) * TransactionSize(db)) % (4 * 2^RA12) = 0

(* A regular system has the sizes that streams need.                       *)
LEMMA SizesOfStreams ==
  ASSUME RegularSystems, RegularStreams, GeometryInv, InUse, NEW stream \in system.streams
  PROVE  StreamSizes(stream)
<1> DEFINE s == system
           m == mapping
<1>1. /\ s \in Systems /\ FilesApplied /\ IsUsable(Table(s))
      /\ Readable(s.device) /\ Readable(s.system)
      /\ m = AddrMapping(Table(s))
  BY DEF GeometryInv, InUse
<1>2. PowersOfTwo(s) /\ RegularSize(s) /\ StreamFits(s, stream)
  BY <1>1 DEF RegularSystems, RegularStreams
<1>3. /\ IsMapping(m) /\ m.width["rank"] = 0
      /\ 2^m.width["chan"] = Param(s, "NUM_CHANS")
      /\ 2^m.width["row"] = Param(s, "NUM_ROWS")
      /\ 2^m.width["col"] = Param(s, "NUM_COLS") \div Param(s, "BL")
      /\ 2^m.width["bank"] = Param(s, "NUM_BANKS")
      /\ 2^m.width["low"] * 2^m.width["bg"] = Param(s, "NUM_BANKS")
  BY <1>1, <1>2, MappingSizes
<1>4. TransactionSize(db) = TransactionSize(Table(s))
  <2>1. /\ GetConfigParam(db, "JEDEC_DATA_BUS_BITS") = Param(s, "JEDEC_DATA_BUS_BITS")
        /\ GetConfigParam(db, "BL") = Param(s, "BL")
    BY <1>1, ParamKept DEF Kept
  <2> QED
    BY <2>1 DEF TransactionSize, Param
<1>5. TransactionSize(Table(s)) = 2^m.offset
  BY <1>1, <1>2, TransactionOfMapping
<1>6. Capacity(m) = BurstsOfRanks(s)
  <2>1. 2^m.width["rank"] = 1
    BY <1>3, Doubling
  <2>2. Param(s, "NUM_CHANS") \in Nat
    BY <1>3, PowerPositive DEF IsMapping, FieldNames
  <2>3. Param(s, "NUM_CHANS") * 1 = Param(s, "NUM_CHANS")
    BY <2>2
  <2> HIDE DEF m
  <2> QED
    BY <1>3, <2>1, <2>3 DEF Capacity, BurstsOfRanks
<1> QED
  BY <1>2, <1>3, <1>4, <1>5, <1>6 DEF StreamSizes, StreamFits

(* A number of bursts.                                                     *)
LEMMA CapacityType ==
  ASSUME NEW m, IsMapping(m)
  PROVE  Capacity(m) \in Nat
<1> DEFINE a(f) == 2^m.width[f]
<1>1. \A f \in FieldNames : a(f) \in Nat
  BY PowerPositive DEF IsMapping
<1> HIDE DEF a
<1>2. a("chan") * a("rank") * (a("low") * a("bg")) * a("row") * a("col") \in Nat
  <2>1. /\ a("chan") \in Nat /\ a("rank") \in Nat /\ a("low") \in Nat /\ a("bg") \in Nat
        /\ a("row") \in Nat /\ a("col") \in Nat
    BY <1>1 DEF FieldNames
  <2> QED
    BY <2>1
<1> QED
  BY <1>2 DEF a, Capacity

(* The bit that is swapped.                                                *)
LEMMA SwapBitType == 2^RA12 \in Nat \ {0}
<1>1. RA12 \in 0 .. 31
  BY SystemsAssumption DEF MAX_LOG
<1> QED
  BY <1>1, PowerPositive

(* The number of the burst at a stream's i-th address.                     *)
BurstOf(i) ==
  IF walk.op.api = "emulator" THEN SwappedAt(i, 2^RA12 \div TransactionSize(db)) ELSE i

(* Where the i-th burst of a stream goes.                                  *)
LEMMA StreamPlace ==
  ASSUME StreamSizes(walk.op)
  PROVE  \A i \in 0 .. walk.op.bursts - 1 :
           /\ BurstOf(i) \in 0 .. Capacity(mapping) - 1
           /\ StreamAddr(i) = BurstOf(i) * TransactionSize(db)
<1> DEFINE N == Capacity(mapping)
           d == TransactionSize(db)
           P == 2^RA12
<1>1. d \in Nat \ {0} /\ P \in Nat \ {0}
  BY SwapBitType, PowerPositive DEF StreamSizes, IsMapping
<1>2. N \in Nat
  BY CapacityType DEF StreamSizes
<1>3. walk.op.bursts \in Nat /\ walk.op.bursts <= N
  BY DEF StreamSizes
<1> SUFFICES ASSUME NEW i \in 0 .. walk.op.bursts - 1
             PROVE  BurstOf(i) \in 0 .. N - 1 /\ StreamAddr(i) = BurstOf(i) * d
  OBVIOUS
<1> HIDE DEF N
<1>4. i \in 0 .. N - 1 /\ i \in Nat
  BY <1>2, <1>3
<1>5. CASE walk.op.api = "emulator"
  <2> DEFINE p == P \div d
  <2>1. P % d = 0 /\ (N * d) % (4 * P) = 0
    BY <1>5 DEF StreamSizes, N
  <2> HIDE DEF d, P
  <2>2. p \in Nat /\ P = p * d
    <3>1. P = (P \div d) * d + (P % d) /\ P \div d \in Nat
      BY <1>1
    <3>2. (P \div d) * d \in Nat
      BY <1>1, <3>1
    <3> QED
      BY <2>1, <3>1, <3>2
  <2>3. p \in Nat \ {0}
    <3>1. 0 * d = 0
      BY <1>1
    <3> QED
      BY <1>1, <2>2, <3>1
  <2> HIDE DEF p
  <2>4. PICK k \in Nat : N = 4 * k * p
    <3> DEFINE k == (N * d) \div (4 * P)
    <3>1. N * d \in Nat /\ 4 * P \in Nat \ {0}
      BY <1>1, <1>2
    <3>2. k \in Nat /\ N * d = k * (4 * P)
      <4>1. \A a \in Nat, b \in Nat \ {0} : a % b = 0 => a \div b \in Nat /\ a = (a \div b) * b
        OBVIOUS
      <4> QED
        BY <2>1, <3>1, <4>1
    <3> HIDE DEF k
    <3>3. k * (4 * P) = (4 * k * p) * d
      <4>1. k * (4 * (p * d)) = (4 * k * p) * d
        BY <1>1, <2>3, <3>2
      <4> QED
        BY <2>2, <4>1
    <3>4. 4 * k * p \in Nat
      BY <2>3, <3>2
    <3>5. \A a, b \in Nat : a * d = b * d => a = b
      BY <1>1
    <3>6. N = 4 * k * p
      BY <1>2, <3>2, <3>3, <3>4, <3>5
    <3> QED
      BY <3>2, <3>6
  <2>5. BurstOf(i) = SwappedAt(i, p)
    BY <1>5 DEF BurstOf, p, d, P
  <2>6. SwappedAt(i, p) \in 0 .. N - 1
    BY <1>4, <2>3, <2>4, SwapStays
  <2>7. changeRA12RA13(i * d) = SwappedAt(i, p) * d
    BY <1>1, <1>4, <2>2, <2>3, SwapOfBursts DEF P
  <2>8. StreamAddr(i) = changeRA12RA13(i * d)
    BY <1>5 DEF StreamAddr, d
  <2> QED
    BY <2>5, <2>6, <2>7, <2>8
<1>6. CASE walk.op.api # "emulator"
  BY <1>4, <1>6 DEF BurstOf, StreamAddr
<1> QED
  BY <1>5, <1>6

(* No two bursts of a stream share a cell.                                 *)
LEMMA StreamApart ==
  ASSUME StreamSizes(walk.op)
  PROVE  \A i, j \in 0 .. walk.op.bursts - 1 : StreamCell(i) = StreamCell(j) => i = j
<1> SUFFICES ASSUME NEW i \in 0 .. walk.op.bursts - 1, NEW j \in 0 .. walk.op.bursts - 1,
                    StreamCell(i) = StreamCell(j)
             PROVE  i = j
  OBVIOUS
<1> DEFINE d == TransactionSize(db)
           x == BurstOf(i)
           y == BurstOf(j)
           N == Capacity(mapping)
<1>1. d \in Nat \ {0} /\ d = 2^mapping.offset
  BY PowerPositive DEF StreamSizes, IsMapping
<1>2. /\ x \in 0 .. N - 1 /\ StreamAddr(i) = x * d
      /\ y \in 0 .. N - 1 /\ StreamAddr(j) = y * d
  BY StreamPlace
<1> HIDE DEF x, y, d, N
<1>3. (x * d) \div d = x /\ (y * d) \div d = y /\ x * d \in Nat /\ y * d \in Nat
  <2>1. x * d + 0 = x * d /\ y * d + 0 = y * d /\ 0 \in 0 .. d - 1 /\ x \in Nat /\ y \in Nat
    BY <1>1, <1>2
  <2>2. (x * d + 0) \div d = x /\ (y * d + 0) \div d = y
    BY <1>1, <2>1, TakenOff, Zenon
  <2> QED
    BY <1>1, <2>1, <2>2
<1>4. x < N /\ y < N
  <2>1. N \in Nat
    BY CapacityType DEF StreamSizes, N
  <2> QED
    BY <1>2, <2>1
<1>5. x = y
  <2> DEFINE u == x * d
             v == y * d
  <2>1. addressMapping(mapping, u) = addressMapping(mapping, v)
    BY <1>2 DEF StreamCell
  <2>2. u \div d = x /\ v \div d = y /\ u \in Nat /\ v \in Nat
    BY <1>3
  <2> HIDE DEF u, v
  <2>3. u \div 2^mapping.offset < Capacity(mapping) /\ v \div 2^mapping.offset < Capacity(mapping)
    BY <1>1, <1>4, <2>2 DEF N
  <2>4. u \div 2^mapping.offset = v \div 2^mapping.offset
    BY <2>1, <2>2, <2>3, AddressesApart DEF StreamSizes
  <2> QED
    BY <1>1, <2>2, <2>4
<1>6. CASE walk.op.api = "emulator"
  <2> DEFINE p == 2^RA12 \div d
  <2>1. x = SwappedAt(i, p) /\ y = SwappedAt(j, p)
    BY <1>6 DEF BurstOf, x, y, d
  <2>2. p \in Nat \ {0}
    <3>1. 2^RA12 \in Nat \ {0} /\ 2^RA12 % d = 0
      BY <1>6, SwapBitType DEF StreamSizes, d
    <3>2. \A a \in Nat \ {0}, b \in Nat \ {0} : a % b = 0 => a \div b \in Nat \ {0}
      OBVIOUS
    <3> QED
      BY <1>1, <3>1, <3>2
  <2> HIDE DEF p
  <2>3. i \in Nat /\ j \in Nat
    BY DEF StreamSizes
  <2> QED
    BY <1>5, <2>1, <2>2, <2>3, SwapsApart
<1>7. CASE walk.op.api # "emulator"
  BY <1>5, <1>7 DEF BurstOf, x, y
<1> QED
  BY <1>6, <1>7

(* Steps of clients that are not storing a stream.                         *)
LEMMA OtherStream ==
  ASSUME phase' \notin {"store", "adderTree", "done"}
  PROVE  StreamInv'
  BY DEF StreamInv, StreamKept

(* Storing a stream, and reading it back.                                  *)
LEMMA BeginOfStream ==
  ASSUME RegularSystems, RegularStreams, GeometryInv, NEW s \in system.streams, BeginStream(s)
  PROVE  StreamInv'
<1>1. /\ phase = "ready" /\ phase' = "store" /\ UNCHANGED system
      /\ walk' = [op |-> s, at |-> 0]
  BY DEF BeginStream, Begin
<1>2. s.bursts \in Nat
  BY <1>1, SizesOfStreams DEF StreamSizes, InUse
<1>3. 0 \in 0 .. s.bursts /\ 0 .. 0 - 1 = {}
  BY <1>2
<1>4. walk'.op = s /\ walk'.at = 0
  BY <1>1
<1> QED
  BY <1>1, <1>3, <1>4 DEF StreamInv, StreamKept

(* Each burst goes to a cell of its own.                                   *)
LEMMA BurstAfterBurst ==
  ASSUME RegularSystems, RegularStreams, GeometryInv, StreamInv, StoreBurst
  PROVE  StreamInv'
<1> DEFINE at == walk.at
           c  == StreamCell(at)
<1>1. /\ phase = "store" /\ UNCHANGED << db, system, phase, mapping >>
      /\ at < walk.op.bursts /\ walk' = [walk EXCEPT !.at = @ + 1]
      /\ banks' = Put(banks, c, << "burst", at >>)
      /\ walk = [op |-> walk.op, at |-> walk.at]
      /\ walk.op \in system.streams /\ at \in 0 .. walk.op.bursts
      /\ \A i \in 0 .. at - 1 :
            StreamCell(i) \in DOMAIN banks /\ banks[StreamCell(i)] = << "burst", i >>
  BY DEF StoreBurst, Store, StreamInv, StreamCell
<1>2. StreamSizes(walk.op)
  BY <1>1, SizesOfStreams DEF InUse
<1>3. walk.op.bursts \in Nat
  BY <1>2 DEF StreamSizes
<1>4. /\ walk'.op = walk.op /\ walk'.at = at + 1 /\ walk' = [op |-> walk'.op, at |-> walk'.at]
  BY <1>1
<1>5. /\ at \in 0 .. walk.op.bursts - 1 /\ at + 1 \in 0 .. walk.op.bursts
      /\ 0 .. (at + 1) - 1 = 0 .. at /\ \A i \in 0 .. at - 1 : i \in 0 .. walk.op.bursts - 1 /\ i # at
      /\ \A i \in 0 .. at : i = at \/ i \in 0 .. at - 1
  BY <1>1, <1>3
<1>6. \A i : StreamCell(i)' = StreamCell(i)
  BY <1>1, <1>4 DEF StreamCell, StreamAddr
<1>7. ASSUME NEW i \in 0 .. at
      PROVE  StreamCell(i) \in DOMAIN banks' /\ banks'[StreamCell(i)] = << "burst", i >>
  <2>1. CASE i = at
    BY <1>1, <2>1 DEF Put
  <2>2. CASE i \in 0 .. at - 1
    <3>1. StreamCell(i) # c
      BY <1>2, <1>5, <2>2, StreamApart
    <3> HIDE DEF c
    <3> QED
      BY <1>1, <2>2, <3>1 DEF Put
  <2> QED
    BY <1>5, <2>1, <2>2
<1>8. \A i \in 0 .. walk'.at - 1 :
        StreamCell(i)' \in DOMAIN banks' /\ banks'[StreamCell(i)'] = << "burst", i >>
  BY <1>4, <1>5, <1>6, <1>7
<1>9. StreamKept'
  BY <1>1 DEF StreamKept
<1> QED
  BY <1>1, <1>4, <1>5, <1>8, <1>9 DEF StreamInv

(* What was stored is read back.                                           *)
LEMMA StreamBack ==
  ASSUME RegularSystems, RegularStreams, GeometryInv, StreamInv, ReadStream
  PROVE  StreamInv'
<1>1. /\ phase = "store" /\ phase' = "done" /\ UNCHANGED walk
      /\ got' = [i \in 1 .. walk.op.bursts |-> Load(StreamAddr(i - 1))]
      /\ walk.at = walk.op.bursts /\ walk.op \in system.streams
      /\ \A i \in 0 .. walk.at - 1 :
            StreamCell(i) \in DOMAIN banks /\ banks[StreamCell(i)] = << "burst", i >>
  BY DEF ReadStream, StreamInv
<1>2. walk.op.bursts \in Nat
  BY <1>1, SizesOfStreams DEF StreamSizes, InUse
<1>3. ASSUME NEW i \in DOMAIN got' PROVE got'[i] = << "burst", i - 1 >>
  <2>1. i \in 1 .. walk.op.bursts /\ i - 1 \in 0 .. walk.at - 1
    BY <1>1, <1>2
  <2>2. got'[i] = Load(StreamAddr(i - 1))
    BY <1>1, <2>1
  <2> QED
    BY <1>1, <2>1, <2>2 DEF Load, StreamCell
<1>4. StreamKept'
  BY <1>3 DEF StreamKept
<1> QED
  BY <1>1, <1>4 DEF StreamInv

(* Kernels and their adder trees are no streams.                           *)
LEMMA ResultsStream ==
  ASSUME RegularStreams, GeometryInv, ReadInv, ResultsRead
  PROVE  StreamInv'
<1>1. phase = "readResult" /\ walk.op \in system.jobs
  BY DEF ResultsRead, ReadInv
<1>2. CASE walk.op.kernel = "GEMVTREE"
  <2>1. phase' = "adderTree" /\ "temp" \in DOMAIN sums'
    BY <1>2 DEF ResultsRead
  <2> QED
    BY <2>1 DEF StreamInv, StreamKept
<1>3. CASE walk.op.kernel # "GEMVTREE"
  <2>1. phase' = "done" /\ walk'.op = walk.op
    BY <1>3 DEF ResultsRead
  <2>2. "bursts" \notin DOMAIN walk.op
    BY <1>1 DEF RegularStreams, GeometryInv
  <2> QED
    BY <2>1, <2>2 DEF StreamInv, StreamKept
<1> QED
  BY <1>2, <1>3

(* A client with sums has no stream.                                       *)
LEMMA TreeStream ==
  ASSUME StreamInv, AddLevel \/ OutputDone
  PROVE  StreamInv'
<1>1. /\ phase = "adderTree" /\ phase' \in {"adderTree", "done"}
      /\ DOMAIN sums' = DOMAIN sums
  BY DEF AddLevel, OutputDone
<1>2. "temp" \in DOMAIN sums'
  BY <1>1 DEF StreamInv
<1>3. sums' # << >>
  BY <1>2
<1> QED
  BY <1>1, <1>2, <1>3 DEF StreamInv, StreamKept

(* Every step keeps the bursts that have been stored.                      *)
LEMMA StreamNext ==
  ASSUME RegularSystems, RegularStreams
  PROVE  GeometryInv /\ ReadInv /\ StreamInv /\ [HostNext]_hostVars => StreamInv'
<1> SUFFICES ASSUME GeometryInv, ReadInv, StreamInv, [HostNext]_hostVars PROVE StreamInv'
  OBVIOUS
<1>1. ASSUME NEW s \in Systems, Construct(s) PROVE StreamInv'
  <2>1. phase' \in {"channels", "thrown"}
    BY <1>1 DEF Construct
  <2> QED
    BY <2>1, OtherStream
<1>2. CASE ConstructChannel \/ ConstructKernel
  <2>1. phase' \in {"channels", "ready"}
    BY <1>2 DEF ConstructChannel, ConstructKernel
  <2> QED
    BY <2>1, OtherStream
<1>3. ASSUME NEW job \in system.jobs, BeginGemv(job) PROVE StreamInv'
  <2>1. phase' = "preload"
    BY <1>3 DEF BeginGemv, Begin
  <2> QED
    BY <2>1, OtherStream
<1>4. CASE PreloadTile \/ KernelRuns \/ ReadBlock
  <2>1. phase' \in {"preload", "readResult"}
    BY <1>4 DEF PreloadTile, KernelRuns, ReadBlock
  <2> QED
    BY <2>1, OtherStream
<1>5. CASE ResultsRead
  BY <1>5, ResultsStream
<1>6. CASE AddLevel \/ OutputDone
  BY <1>6, TreeStream
<1>7. ASSUME NEW s \in system.streams, BeginStream(s) PROVE StreamInv'
  BY <1>7, BeginOfStream
<1>8. CASE StoreBurst
  BY <1>8, BurstAfterBurst
<1>9. CASE ReadStream
  BY <1>9, StreamBack
<1>10. CASE UNCHANGED hostVars
  <2>1. UNCHANGED << db, system, mapping, phase, banks, walk, got, sums >>
    BY <1>10 DEF hostVars
  <2>2. \A i : StreamCell(i)' = StreamCell(i)
    BY <2>1 DEF StreamCell, StreamAddr
  <2>3. StreamKept' <=> StreamKept
    BY <2>1 DEF StreamKept
  <2> QED
    BY <2>1, <2>2, <2>3 DEF StreamInv
<1> QED
  BY <1>1, <1>2, <1>3, <1>4, <1>5, <1>6, <1>7, <1>8, <1>9, <1>10 DEF HostNext

(* There is no client at first.                                            *)
LEMMA StreamInit == HostInit => StreamInv
  BY DEF HostInit, StreamInv, StreamKept

(* Bursts stored at different addresses are all read back, by any scheme   *)
(* and through either interface, as long as a stream stays in the first    *)
(* rank of every channel and the bits that the emulator swaps are bits of  *)
(* the number of a burst.  Run second_rank shows why the rank matters.      *)
THEOREM StreamKeptAlways ==
  ASSUME RegularSystems, RegularStreams
  PROVE  HostSpec => []StreamKept
<1>1. GeometryInv /\ ReadInv /\ [HostNext]_hostVars => ReadInv'
  BY ReadNext
<1>2. GeometryInv /\ ReadInv /\ StreamInv /\ [HostNext]_hostVars => StreamInv'
  BY StreamNext
<1>3. StreamInv => StreamKept
  BY DEF StreamInv
<1> QED
  BY <1>1, <1>2, <1>3, GeometryInit, GeometryNext, ReadInit, StreamInit, PTL DEF HostSpec

=============================================================================
