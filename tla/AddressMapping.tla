---------------------------- MODULE AddressMapping ----------------------------
(***************************************************************************)
(* The two translations between addresses and places in the memory:        *)
(* AddrMapping, which takes an address apart by one of ten schemes, and    *)
(* PIMAddrManager, by which the kernels put addresses together.  Each      *)
(* takes its widths from the parameters as they are when it is made.       *)
(***************************************************************************)
EXTENDS Configuration

TransactionSize(db) ==
  (GetConfigParam(db, "JEDEC_DATA_BUS_BITS") \div 8) * GetConfigParam(db, "BL")

(* The fields of an address from its lowest bits on, behind the offset in  *)
(* the burst.  "low" is the number of the bank in its bank group.          *)
Fields ==
  << << "bank", "col", "row", "rank", "chan" >>,
     << "rank", "bank", "col", "row", "chan" >>,
     << "row", "col", "bank", "rank", "chan" >>,
     << "col", "row", "bank", "rank", "chan" >>,
     << "bank", "rank", "col", "row", "chan" >>,
     << "col", "rank", "bank", "row", "chan" >>,
     << "chan", "bank", "rank", "col", "row" >>,
     << "chan", "low", "bg", "col", "row", "rank" >>,
     << "low", "bg", "col", "row", "rank", "chan" >>,
     << "chan", "col", "row", "rank", "low", "bg" >> >>

AddrMapping(db) ==
  LET log(key)  == uLog2(GetConfigParam(db, key))
      byteBits  == uLog2(GetConfigParam(db, "JEDEC_DATA_BUS_BITS") \div 8)
      colLow    == uLog2(TransactionSize(db)) - byteBits
      bankBits  == log("NUM_BANKS")
      groupBits == log("NUM_BANK_GROUPS")
  IN  [ scheme |-> getAddressMappingScheme(db),
        offset |-> byteBits + colLow,
        width  |-> [ chan |-> log("NUM_CHANS"), rank |-> log("NUM_RANKS"),
                     bank |-> bankBits, low |-> bankBits - groupBits,
                     bg |-> groupBits, row |-> log("NUM_ROWS"),
                     col |-> log("NUM_COLS") - colLow ] ]

(* diffBitWidth: the fields are taken off the low end of the address one   *)
(* after the other.  A field that the scheme does not have is 0.           *)
addressMapping(m, addr) ==
  LET order == Fields[m.scheme]
      rest[k \in 0 .. Len(order)] ==
        IF k = 0 THEN addr \div 2^m.offset ELSE rest[k - 1] \div 2^m.width[order[k]]
      Value(f) ==
        LET i == CHOOSE k \in DOMAIN order : order[k] = f
        IN  IF f \in ToSet(order) THEN rest[i - 1] % 2^m.width[f] ELSE 0
  IN  [ chan |-> Value("chan"), rank |-> Value("rank"),
        bank |-> Value("bank") + Value("low") + Value("bg") * 2^m.width.low,
        row |-> Value("row"), col |-> Value("col") ]

-----------------------------------------------------------------------------
(* PIMAddrManager.                                                         *)

PIMAddrManager(db) ==
  LET log(key) == uLog2(GetConfigParam(db, key))
      colsPerBl == GetConfigParam(db, "NUM_COLS") \div GetConfigParam(db, "BL")
  IN  [ scheme |-> getAddressMappingScheme(db),
        offset |-> uLog2(TransactionSize(db)), chan |-> log("NUM_CHANS"),
        low |-> log("NUM_BANKS") - log("NUM_BANK_GROUPS"),
        bg |-> log("NUM_BANK_GROUPS"), col |-> uLog2(colsPerBl),
        row |-> log("NUM_ROWS"), num_cols_per_bl |-> colsPerBl ]

(* Each field is smaller than its width allows, except for the rank, so    *)
(* that "or" is "+".  Schemes other than 8 are not supported.              *)
addrGen(p, chan, rank, bg, bank, row, col) ==
  IF p.scheme # 8 THEN 0
  ELSE (((((rank * 2^p.row + row) * 2^p.col + col) * 2^p.bg + bg) * 2^p.low + bank)
           * 2^p.chan + chan) * 2^p.offset

(* Columns run on into the next rows; at is row * num_cols_per_bl + col.   *)
addrGenSafe(p, chan, rank, bg, bank, at) ==
  addrGen(p, chan, rank, bg, bank, at \div p.num_cols_per_bl, at % p.num_cols_per_bl)

=============================================================================
