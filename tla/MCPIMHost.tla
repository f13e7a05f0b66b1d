------------------------------ MODULE MCPIMHost ------------------------------
(* A device of eight banks in two groups with one PIM block for every two, *)
(* four rows of four bursts in every bank, two files of parameters, and    *)
(* clients like those of the tests, the labs and the emulator.             *)
EXTENDS PIMHost

(* NUM_RANKS is not in the table; a file cannot set it.                    *)
Device ==
  << Assignment("NUM_BANK_GROUPS", 2), Assignment("NUM_BANKS", 8),
     Assignment("NUM_COLS", 16), Assignment("NUM_ROWS", 4), Comment,
     Assignment("NUM_PIM_BLOCKS", 4), Assignment("DEVICE_WIDTH", 16),
     Assignment("BL", 4), Assignment("NUM_RANKS", 2) >>

System(chans, scheme) ==
  << Comment, Assignment("NUM_CHANS", chans), Assignment("JEDEC_DATA_BUS_BITS", 16),
     Assignment("ADDRESS_MAPPING_SCHEME", scheme) >>

(* Without a scheme.                                                       *)
Short == << Assignment("NUM_CHANS", 2), Assignment("JEDEC_DATA_BUS_BITS", 16) >>

(* A name without a value.                                                 *)
Valueless == << [Assignment("NUM_CHANS", 2) EXCEPT !.blank = TRUE] >>

(* A comment with "=" in it behind a parameter.                            *)
Broken == << [Assignment("NUM_CHANS", 2) EXCEPT !.equals = 2] >>

RANK_BYTES == 4 * 16 * 8 * 2

Client(file, size, chans, jobs, streams) ==
  [ device |-> Device, system |-> file, megsOfMemory |-> size, num_pim_chans |-> chans,
    jobs |-> jobs, streams |-> streams ]

Gemv(kernel, tiles, outputs, batch) ==
  [kernel |-> kernel, tiles |-> tiles, outputs |-> outputs, batch |-> batch]

Gemvs == { Gemv("GEMV", 2, 2, 1), Gemv("GEMV", 3, 1, 2), Gemv("GEMVTREE", 2, 1, 1) }

Stream(api, n) == [api |-> api, bursts |-> n]

(* All of one rank on every channel.                                       *)
All(chans) == Stream("kernel", chans * 4 * 4 * 8)

(* Among them some whose files cannot be used, one of a size that leaves   *)
(* nothing for a channel, in which nothing can be stored, and one that has *)
(* less than a rank for a channel.                                         *)
TheSystems ==
  { Client(System(2, "scheme8"), 2 * RANK_BYTES, 2, Gemvs, {All(2)}),
    Client(Short, 4 * RANK_BYTES, 2, Gemvs, {Stream("emulator", 256)}),
    Client(System(1, "scheme8"), RANK_BYTES, 1, { Gemv("GEMVTREE", 4, 1, 1) }, {All(1)}),
    Client(Valueless, RANK_BYTES, 1, {}, {}),
    Client(Broken, RANK_BYTES, 1, {}, {}),
    Client(System(0, "scheme8"), RANK_BYTES, 1, {}, {}),
    Client(System(2, "scheme8"), 1, 2, {}, {}),
    Client(System(2, "scheme8"), 2, 2, {}, {All(2)}) }
  \cup { Client(System(2, scheme), 2 * RANK_BYTES, 1, {}, {All(2)}) :
         scheme \in ToSet(Schemes) \cup {"scheme11"} }

(* The whole memory of a system that is told to have two ranks.            *)
WholeMemory ==
  { Client(System(2, "scheme8"), 4 * RANK_BYTES, 2, {}, {Stream("kernel", 512)}) }
=============================================================================
