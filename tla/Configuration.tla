---------------------------- MODULE Configuration ----------------------------
(***************************************************************************)
(* ConfigurationDB, the table of parameters that all systems of the        *)
(* program share, and ParameterReader, which reads the ini files.          *)
(* A table is a function on the keys that it holds.  Values are numbers    *)
(* or, for the parameters that choose among policies, texts; the text of   *)
(* an address mapping scheme is in lower case, as its capitals make no     *)
(* difference.  Parameters that nothing here depends on are left out.      *)
(***************************************************************************)
EXTENDS Integers, SequencesExt

(* A line of an ini file, without its spaces and tabs: how many "=" there  *)
(* are in all of it, its comment included, the texts around the first, and *)
(* whether one of the two is empty.                                        *)
Assignment(key, value) ==
  [comment |-> FALSE, equals |-> 1, blank |-> FALSE, key |-> key, value |-> value]

Comment == [comment |-> TRUE, equals |-> 0, blank |-> TRUE, key |-> "", value |-> 0]

(* getParameter throws for lines that are neither.                         *)
IsValid(line) == line.comment \/ (line.equals = 1 /\ ~line.blank)

Readable(file) == \A i \in DOMAIN file : IsValid(file[i])

GetParameter(file) == SelectSeq(file, LAMBDA line : ~line.comment)

(* update with one parameter, which puts it into the table, and with the   *)
(* parameters of a file, which finds it there.                             *)
Put(db, key, value) == [k \in DOMAIN db \cup {key} |-> IF k = key THEN value ELSE db[k]]

UpdateFromFile(db, params) ==
  FoldLeft(LAMBDA d, p : IF p.key \in DOMAIN d THEN Put(d, p.key, p.value) ELSE d,
           db, params)

InitializeUncleared(db, defaults) ==  \* mutant
  FoldLeft(LAMBDA d, p : Put(d, p.key, p.value), db, defaults)

(* The table is emptied first.  Of several defaults of one name the last   *)
(* counts.                                                                 *)
Initialize(db, defaults) ==
  FoldLeft(LAMBDA d, p : Put(d, p.key, p.value), << >>, defaults)

Default(name, value) == [key |-> name, value |-> value]

(* ConfigurationData.h.  The texts are all there twice.                    *)
defaultConfiguration ==
  << Default("NUM_BANKS", 0), Default("NUM_BANK_GROUPS", 0),
     Default("NUM_ROWS", 0), Default("NUM_COLS", 0),
     Default("NUM_PIM_BLOCKS", 0), Default("DEVICE_WIDTH", 0), Default("BL", 0),
     Default("NUM_CHANS", 0), Default("JEDEC_DATA_BUS_BITS", 0),
     Default("ROW_BUFFER_POLICY", ""), Default("SCHEDULING_POLICY", ""),
     Default("ADDRESS_MAPPING_SCHEME", ""), Default("QUEUING_STRUCTURE", ""),
     Default("PIM_PRECISION", ""),
     Default("PIM_MODE", "mac_in_bankgroup"), Default("PIM_PRECISION", "FP16"),
     Default("ROW_BUFFER_POLICY", "open_page"),
     Default("SCHEDULING_POLICY", "rank_then_bank_round_robin"),
     Default("QUEUING_STRUCTURE", "per_rank"),
     Default("ADDRESS_MAPPING_SCHEME", "scheme8") >>

(* A parameter that is not in the table reads as 0.                        *)
GetConfigParam(db, key) == IF key \in DOMAIN db THEN db[key] ELSE 0

(* PIMConfiguration, which throws for any other text.                      *)
Schemes ==
  << "scheme1", "scheme2", "scheme3", "scheme4", "scheme5",
     "scheme6", "scheme7", "scheme8", "scheme9", "scheme10" >>

getAddressMappingScheme(db) ==
  CHOOSE n \in DOMAIN Schemes : Schemes[n] = GetConfigParam(db, "ADDRESS_MAPPING_SCHEME")

Policies ==
  [ ADDRESS_MAPPING_SCHEME |-> ToSet(Schemes),
    ROW_BUFFER_POLICY      |-> {"open_page", "close_page"},
    SCHEDULING_POLICY      |-> {"rank_then_bank_round_robin", "bank_then_rank_round_robin"},
    QUEUING_STRUCTURE      |-> {"per_rank", "per_rank_per_bank"},
    PIM_MODE               |-> {"mac_in_bankgroup", "mac_in_bank"},
    PIM_PRECISION          |-> {"FP16", "INT8", "FP32"} ]

(* The constructors of AddrMapping and Configuration return.               *)
IsUsable(db) ==
  /\ \A key \in DOMAIN Policies : GetConfigParam(db, key) \in Policies[key]
  /\ GetConfigParam(db, "NUM_CHANS") # 0

(* Utils.h.  The logarithm is rounded up, and 0 for 0.                     *)
MAX_LOG == 31

uLog2(n) == CHOOSE k \in 0 .. MAX_LOG :
              2^k >= n /\ \A j \in 0 .. k - 1 : 2^j < n

IsPowerOfTwo(n) == 2^uLog2(n) = n

=============================================================================
