---------------------------- MODULE AddressMapping ----------------------------
(***************************************************************************)
(* The location of a physical address in the DRAM.  The code shifts and    *)
(* masks by log_base2() of the sizes, which divides by the sizes because   *)
(* they are powers of two; `mapping' is the configuration's                *)
(* ADDRESS_MAPPING, 1 or 2, or any other number for the third order.       *)
(***************************************************************************)
EXTENDS Integers

CONSTANTS
  NUM_CHANNELS, NUM_RANKS, NUM_BANKS, NUM_ROWS, NUM_COLUMNS,
  CACHE_LINE_SIZE

log_base2(n) == CHOOSE k \in 0..n : 2^k <= n /\ n < 2^(k + 1)

Size == [channel |-> NUM_CHANNELS, rank |-> NUM_RANKS, bank |-> NUM_BANKS,
         row |-> NUM_ROWS, column |-> NUM_COLUMNS]
Fields == {"channel", "rank", "bank", "row", "column"}

ASSUME AddressAssumption ==
  /\ {NUM_CHANNELS, NUM_RANKS, NUM_BANKS, NUM_ROWS, NUM_COLUMNS, CACHE_LINE_SIZE}
       \subseteq Nat \ {0}
  /\ \A n \in {NUM_CHANNELS, NUM_RANKS, NUM_BANKS, NUM_ROWS, NUM_COLUMNS, CACHE_LINE_SIZE} :
       2^log_base2(n) = n

\* Lines that the memory has place for: ADDRESS_BITS without the byte offset.
Capacity == NUM_CHANNELS * NUM_RANKS * NUM_BANKS * NUM_ROWS * NUM_COLUMNS

Locations == [channel : 0..(NUM_CHANNELS - 1), rank : 0..(NUM_RANKS - 1),
              bank : 0..(NUM_BANKS - 1), row : 0..(NUM_ROWS - 1),
              column : 0..(NUM_COLUMNS - 1)]

\* Fault: the fourth field is read where the third one lies.
SlicedTwice(line, f1, f2, f3, f4, f5) ==
  LET q2 == line \div Size[f1]
      q3 == q2 \div Size[f2]
      q5 == q3 \div Size[f4]
  IN [f \in Fields |->
        (CASE f = f1 -> line [] f = f2 -> q2 [] f = f3 -> q3 [] f = f4 -> q3 [] f = f5 -> q5)
          % Size[f]]

\* The fields of a line number from the lowest, f1, to the highest.
Sliced(line, f1, f2, f3, f4, f5) ==
  LET q2 == line \div Size[f1]
      q3 == q2 \div Size[f2]
      q4 == q3 \div Size[f3]
      q5 == q4 \div Size[f4]
  IN [f \in Fields |->
        (CASE f = f1 -> line [] f = f2 -> q2 [] f = f3 -> q3 [] f = f4 -> q4 [] f = f5 -> q5)
          % Size[f]]

calc_dram_addr(mapping, physical_address) ==
  LET line == physical_address \div CACHE_LINE_SIZE IN
  IF mapping = 1 THEN Sliced(line, "column", "channel", "bank", "rank", "row")
  ELSE IF mapping = 2 THEN Sliced(line, "bank", "rank", "channel", "row", "column")
  ELSE Sliced(line, "channel", "bank", "rank", "column", "row")

\* The channel is computed twice more, with two orders only.
get_dram_channel_addr(mapping, physical_address) ==
  LET line == physical_address \div CACHE_LINE_SIZE
  IN IF mapping = 1 THEN (line \div NUM_COLUMNS) % NUM_CHANNELS ELSE line % NUM_CHANNELS
check_dram_addr(mapping, physical_address, channel) ==
  IF get_dram_channel_addr(mapping, physical_address) = channel THEN 0 ELSE 1

\* Fault: addresses are composed in one order for all mappings.
RandomInOneOrder(mapping, l) ==
  ((((l.row * NUM_COLUMNS + l.column) * NUM_RANKS + l.rank) * NUM_BANKS + l.bank)
     * NUM_CHANNELS + l.channel) * CACHE_LINE_SIZE

\* The address that generate_random_addr() composes of its fields.
Composed(mapping, l) ==
  (IF mapping = 1
   THEN (((l.row * NUM_RANKS + l.rank) * NUM_BANKS + l.bank) * NUM_CHANNELS + l.channel)
          * NUM_COLUMNS + l.column
   ELSE (((l.row * NUM_COLUMNS + l.column) * NUM_RANKS + l.rank) * NUM_BANKS + l.bank)
          * NUM_CHANNELS + l.channel)
    * CACHE_LINE_SIZE

\* Every field but the channel is drawn.
generate_random_addr(mapping, channel) ==
  {Composed(mapping, l) : l \in {k \in Locations : k.channel = channel}}
=============================================================================
