----------------------------- MODULE MemoryMap ------------------------------
(***************************************************************************)
(* memory.c: the table of 64K banks.  A mapped region is one heap object   *)
(* (addrbank) that all its banks point to; map, unmap, init and uninit     *)
(* allocate, share and free those objects, and keep the JIT's view of each *)
(* bank (baseaddr[], jit_read_flag, jit_write_flag) in step with the map,  *)
(* the JIT memory base and the direct access setting.  The build has the   *)
(* JIT; the debugger's banks are left out.                                 *)
(***************************************************************************)
EXTENDS Integers

CONSTANTS
  MemoryBanks,  \* MEMORY_BANKS, 65536 in the code
  BankSize,     \* bytes of a bank, 65536 in the code
  Objects,      \* heap objects that calloc can return
  Regions,      \* regions the host maps and unmaps
  Bases,        \* host addresses it passes to uae_cpu_set_jit_memory_base
  NULL, dummy_bank

\* uint32_t arithmetic wraps at the end of the address space.
Space == MemoryBanks * BankSize

Kinds == {"ram", "rom", "custom"}

RegionType == [kind : Kinds, start : 0..(Space - 1), size : 0..(Space - 1),
               host : Int \cup {NULL}, direct : BOOLEAN, burst : BOOLEAN,
               cacheable : BOOLEAN]

ASSUME MemoryMapAssumption ==
  /\ MemoryBanks \in Nat \ {0}
  /\ BankSize \in Nat \ {0}
  /\ Regions \subseteq RegionType
  /\ \A r \in Regions : (r.host = NULL) <=> (r.kind = "custom")
  /\ Bases \subseteq Int
  /\ NULL \notin Int /\ NULL \notin Regions
  /\ dummy_bank \notin Objects

VARIABLES
  mem_banks,               \* the bank table: an object, or dummy_bank
  heap,                    \* the allocated objects: region and JIT flags
  baseaddr,                \* the JIT's host base of each bank, NULL the poison pointer
  ce_cachable,             \* whether the 68030/040 caches may hold a bank's data
  canbang, natmem_offset,  \* direct access is on; the JIT memory base
  jit_n_addr_bank_unsafe   \* the JIT's conservative mode

vars == <<mem_banks, heap, baseaddr, ce_cachable, canbang, natmem_offset,
          jit_n_addr_bank_unsafe>>

Slots == 0..(MemoryBanks - 1)

\* jit_read, jit_write: inline access is allowed (the flag in the code is 0).
Banks == [region : Regions, jit_read : BOOLEAN, jit_write : BOOLEAN]

\* The statics are zeroed, then memory_init runs.
Init ==
  /\ mem_banks = [i \in Slots |-> dummy_bank]
  /\ heap = [o \in {} |-> NULL]
  /\ baseaddr = [i \in Slots |-> NULL]
  /\ ce_cachable = [i \in Slots |-> FALSE]
  /\ canbang = FALSE
  /\ natmem_offset = NULL
  /\ jit_n_addr_bank_unsafe = FALSE
-----------------------------------------------------------------------------
\* Mutant: one bank too many for a size that ends on a bank.
NumBanksRoundsUp(size) == ((size + BankSize) % Space) \div BankSize

\* (size + 0xFFFF) >> 16, in 32 bits.
NumBanks(size) == ((size + BankSize - 1) % Space) \div BankSize

StartBank(start) == start \div BankSize

\* The banks an area covers, going round at the end of the address space.
Covered(start, size) ==
  {(StartBank(start) + i) % MemoryBanks : i \in 0..(NumBanks(size) - 1)}

\* Mutant: regions flagged direct are inlined wherever their host memory is.
DirectAnywhere(r, bang, base) == bang /\ base # NULL /\ r.host # NULL /\ r.direct

\* jit_sync_baseaddr: whether a bank may be accessed inline.
Direct(r, bang, base) ==
  /\ bang
  /\ base # NULL
  /\ r.host # NULL
  /\ r.direct
  /\ r.host = base + r.start

\* The host byte that ram_bget and the other handlers use for an address.
HandlerByte(r, addr) == r.host + ((addr - r.start) % Space)

\* The addresses of a bank, and two shapes of region: mapped in whole banks,
\* and going round the end of the address space.
Addresses(i) == (i * BankSize)..(i * BankSize + BankSize - 1)

WholeBanks(r) == r.start % BankSize = 0 /\ r.size % BankSize = 0

GoesRound(r) == r.start + r.size > Space

HostBase(h, o) ==
  IF o \in DOMAIN h /\ h[o].region.host # NULL
  THEN h[o].region.host - h[o].region.start ELSE NULL

Synced(b, bang, base) ==
  LET direct == Direct(b.region, bang, base)
  IN  [b EXCEPT !.jit_read = direct, !.jit_write = direct /\ b.region.kind # "rom"]

\* Mutant: the conservative mode is not recomputed.
SyncAllKeepsMode(banks, h, bang, base) ==
  /\ mem_banks' = banks
  /\ heap' = [o \in DOMAIN h |-> IF \E i \in Slots : banks[i] = o
                                 THEN Synced(h[o], bang, base) ELSE h[o]]
  /\ baseaddr' = [i \in Slots |-> HostBase(h, banks[i])]
  /\ UNCHANGED jit_n_addr_bank_unsafe

\* memory_jit_sync_all, on the bank table and the heap that a call leaves.
SyncAll(banks, h, bang, base) ==
  /\ mem_banks' = banks
  /\ heap' = [o \in DOMAIN h |-> IF \E i \in Slots : banks[i] = o
                                 THEN Synced(h[o], bang, base) ELSE h[o]]
  /\ baseaddr' = [i \in Slots |-> HostBase(h, banks[i])]
  /\ jit_n_addr_bank_unsafe' =
       (bang /\ \E i \in Slots : banks[i] \in DOMAIN h /\ h[banks[i]].region.burst)

\* Mutant: the loop over the banks starts at bank 1.
PointFromOne(area, o) ==
  [i \in Slots |-> IF i \in area /\ i > 0 THEN o ELSE mem_banks[i]]

Point(area, o) == [i \in Slots |-> IF i \in area THEN o ELSE mem_banks[i]]

Allocated(o, r) ==
  [x \in DOMAIN heap \cup {o} |->
     IF x = o THEN [region |-> r, jit_read |-> FALSE, jit_write |-> FALSE] ELSE heap[x]]

Freed(os) == [x \in DOMAIN heap \ os |-> heap[x]]
-----------------------------------------------------------------------------
\* A map call that finds no memory returns -1 and changes nothing.
MapBanks(r) ==
  /\ \E o \in Objects \ DOMAIN heap :
       SyncAll(Point(Covered(r.start, r.size), o), Allocated(o, r), canbang, natmem_offset)
  /\ UNCHANGED <<canbang, natmem_offset>>

\* memory_map_ptr.
MapMemory(r) ==
  /\ r.kind # "custom"
  /\ MapBanks(r)
  /\ ce_cachable' =
       [i \in Slots |-> IF i \in Covered(r.start, r.size) THEN r.cacheable ELSE ce_cachable[i]]

\* memory_map_custom: ce_cachable keeps what the last region left.
MapCustom(r) ==
  /\ r.kind = "custom"
  /\ MapBanks(r)
  /\ UNCHANGED ce_cachable

\* Mutant: unmap frees the region of its first bank without the last scan.
UnusedUnscanned(first, banks) == {first} \cap DOMAIN heap

\* The region of the first bank, if no bank of the table still points to it.
Unused(first, banks) ==
  {o \in {first} \cap DOMAIN heap : \A i \in Slots : banks[i] # o}

\* memory_unmap; only the region of the first bank is ever freed.
Unmap(start, size) ==
  LET area  == Covered(start, size)
      banks == Point(area, dummy_bank)
      first == IF area = {} THEN dummy_bank ELSE mem_banks[StartBank(start)]
  IN  /\ SyncAll(banks, Freed(Unused(first, banks)), canbang, natmem_offset)
      /\ ce_cachable' = [i \in Slots |-> ce_cachable[i] /\ i \notin area]
      /\ UNCHANGED <<canbang, natmem_offset>>

\* memory_init, also from a second m68k_init: the regions' objects are left behind.
MemoryInit ==
  /\ mem_banks' = [i \in Slots |-> dummy_bank]
  /\ baseaddr' = [i \in Slots |-> NULL]
  /\ ce_cachable' = [i \in Slots |-> FALSE]
  /\ UNCHANGED <<heap, canbang, natmem_offset, jit_n_addr_bank_unsafe>>

\* memory_uninit: every region in the table is freed once.
MemoryUninit ==
  /\ mem_banks' = [i \in Slots |-> dummy_bank]
  /\ heap' = Freed({mem_banks[i] : i \in Slots})
  /\ baseaddr' = [i \in Slots |-> NULL]
  /\ UNCHANGED <<ce_cachable, canbang, natmem_offset, jit_n_addr_bank_unsafe>>

\* uae_host_configure_jit, called by uae_cpu_set_config.
ConfigureJit(direct_memory) ==
  /\ canbang' = direct_memory
  /\ SyncAll(mem_banks, heap, direct_memory, natmem_offset)
  /\ UNCHANGED <<ce_cachable, natmem_offset>>

\* uae_host_set_jit_memory_base.
SetJitMemoryBase(base) ==
  /\ natmem_offset # base
  /\ natmem_offset' = base
  /\ SyncAll(mem_banks, heap, canbang, base)
  /\ UNCHANGED <<ce_cachable, canbang>>

Next ==
  \/ \E r \in Regions : MapMemory(r) \/ MapCustom(r) \/ Unmap(r.start, r.size)
  \/ MemoryInit
  \/ MemoryUninit
  \/ \E direct_memory \in BOOLEAN : ConfigureJit(direct_memory)
  \/ \E base \in Bases \cup {NULL} : SetJitMemoryBase(base)

Spec == Init /\ [][Next]_vars
-----------------------------------------------------------------------------
(***************************************************************************)
(* The bank table never points to a freed region: unmapping part of a      *)
(* region, or a region mapped over another, leaves every bank that is      *)
(* still in use with a live object.                                        *)
(***************************************************************************)
NoDanglingBank ==
  /\ mem_banks \in [Slots -> Objects \cup {dummy_bank}]
  /\ DOMAIN heap \subseteq Objects
  /\ heap \in [DOMAIN heap -> Banks]
  /\ \A i \in Slots : mem_banks[i] # dummy_bank => mem_banks[i] \in DOMAIN heap

(***************************************************************************)
(* The banks, shared, freed and allocated again as they are, implement     *)
(* RegionMap: a bank always shows the region mapped over it last.          *)
(***************************************************************************)
Region(i) == IF mem_banks[i] \in DOMAIN heap THEN heap[mem_banks[i]].region ELSE NULL

Map == INSTANCE RegionMap WITH map <- [i \in Slots |-> Region(i)], Unmapped <- NULL

BanksShowRegions == Map!Spec

(***************************************************************************)
(* Translated code reads and writes natmem_offset + address.  A bank that  *)
(* allows inline access is one where this is the very host byte that the   *)
(* handlers use for the address, inside the region's host memory, and so   *)
(* is baseaddr[] + address; writes never reach a ROM and a device is never *)
(* accessed inline: no map, unmap or change of the JIT settings leaves a   *)
(* stale permission or base in the table.  The host byte is stated for     *)
(* regions of whole banks that do not go round the end of the address      *)
(* space: past the end only the handlers' addr - start wraps, and both     *)
(* natmem_offset and baseaddr[] lead to a byte before the region.          *)
(***************************************************************************)
JitAccessesAreSound ==
  \A i \in Slots : mem_banks[i] \in DOMAIN heap =>
    LET b == heap[mem_banks[i]]
        r == b.region
    IN  /\ b.jit_read => canbang /\ r.direct /\ r.kind # "custom"
        /\ b.jit_write => b.jit_read /\ r.kind # "rom"
        /\ r.host # NULL /\ WholeBanks(r) /\ ~GoesRound(r) =>
             \A addr \in Addresses(i) :
               /\ HandlerByte(r, addr) \in r.host..(r.host + r.size - 1)
               /\ baseaddr[i] + addr = HandlerByte(r, addr)
               /\ b.jit_read => natmem_offset + addr = HandlerByte(r, addr)

(***************************************************************************)
(* While direct access is on and a region marked UAE_MEM_JIT_UNSAFE_BURST  *)
(* is in the map, the JIT is in its conservative mode.                     *)
(***************************************************************************)
BurstsAreConservative ==
  canbang /\ (\E i \in Slots : Region(i) # NULL /\ Region(i).burst)
    => jit_n_addr_bank_unsafe

(***************************************************************************)
(* An access to a bank of a region mapped in whole banks lands inside the  *)
(* region's host memory, also when the region goes round the end of the    *)
(* address space (ram_lget and the others add addr - start to the host     *)
(* pointer).                                                               *)
(***************************************************************************)
AccessesStayInside ==
  \A i \in Slots : \A addr \in Addresses(i) :
    Region(i) # NULL /\ WholeBanks(Region(i)) =>
      (addr - Region(i).start) % Space < Region(i).size
=============================================================================
