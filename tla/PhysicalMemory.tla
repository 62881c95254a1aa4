---------------------------- MODULE PhysicalMemory ----------------------------
(***************************************************************************)
(* From the pages of the traces to the cells of the DRAM: PageTables gives *)
(* a page its frame, os_v2p_lineaddr() makes a line address of it, which   *)
(* becomes the physical address of the requests, and AddressMapping finds  *)
(* the location of that.                                                   *)
(***************************************************************************)
EXTENDS PageTables, AddressMapping

CONSTANTS
  Mappings,         \* values of ADDRESS_MAPPING to be checked
  OS_PAGESIZE

lines_in_page == OS_PAGESIZE \div CACHE_LINE_SIZE
Lines == 0..(lines_in_page - 1)

\* The configurations give the program as many pages as the memory holds, or less;
\* the code does not check it.
ASSUME MemoryAssumption ==
  /\ Mappings \subseteq Nat
  /\ lines_in_page \in Nat \ {0}
  /\ num_pages * lines_in_page <= Capacity

\* os_v2p_lineaddr computes a line address in 32 bits: no line of the pages is beyond.
ASSUME WidthAssumption == (num_pages * lines_in_page) \div 2^16 <= 2^16

VARIABLE ADDRESS_MAPPING    \* the configuration's, never changed

memoryVars == <<vars, ADDRESS_MAPPING>>

MemoryInit == os_new /\ ADDRESS_MAPPING \in Mappings
MemoryNext == Next /\ UNCHANGED ADDRESS_MAPPING
MemorySpec == MemoryInit /\ [][MemoryNext]_memoryVars

os_v2p_lineaddr(pfn, lineid) == pfn * lines_in_page + lineid

\* The cell of a line of a frame.
Cell(pfn, lineid) ==
  calc_dram_addr(ADDRESS_MAPPING, os_v2p_lineaddr(pfn, lineid) * CACHE_LINE_SIZE)

-----------------------------------------------------------------------------
(* Properties. *)

\* No cell of the DRAM belongs to two lines: neither to two lines of a page nor to
\* lines of two pages that have frames, whichever frames the clock has given them
\* and in whichever order the mapping takes the bits.  The activations of a row are
\* those of the lines that really lie in it.
LinesApart ==
  \A p, q \in Pages : pt[p] # NoFrame /\ pt[q] # NoFrame =>
    \A i, j \in Lines : Cell(pt[p], i) = Cell(pt[q], j) => p = q /\ i = j

\* A random address made for a channel passes the check of the channel (the assertion
\* in main), and the request really goes to that channel, unless ADDRESS_MAPPING is 2.
RandomOnChannel ==
  \A c \in 0..(NUM_CHANNELS - 1) : \A a \in generate_random_addr(ADDRESS_MAPPING, c) :
    /\ check_dram_addr(ADDRESS_MAPPING, a, c) = 0
    /\ ADDRESS_MAPPING # 2 => calc_dram_addr(ADDRESS_MAPPING, a).channel = c
=============================================================================
