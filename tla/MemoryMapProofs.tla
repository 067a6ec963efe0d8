-------------------------- MODULE MemoryMapProofs ---------------------------
(***************************************************************************)
(* The properties of the bank table for any number and size of banks, any  *)
(* regions, heap objects and JIT memory bases.                             *)
(***************************************************************************)
EXTENDS MemoryMap, TLAPS

-----------------------------------------------------------------------------
(***************************************************************************)
(* What a call leaves when it ends in memory_jit_sync_all, given a bank    *)
(* table and a heap in which no bank dangles.                              *)
(***************************************************************************)
Live(banks, h) ==
  /\ banks \in [Slots -> Objects \cup {dummy_bank}]
  /\ DOMAIN h \subseteq Objects
  /\ h \in [DOMAIN h -> Banks]
  /\ \A i \in Slots : banks[i] # dummy_bank => banks[i] \in DOMAIN h

\* The region a bank shows, for a table and a heap.
Shown(banks, h, i) == IF banks[i] \in DOMAIN h THEN h[banks[i]].region ELSE NULL

\* The settings the JIT's view depends on.
JitTypes ==
  /\ canbang \in BOOLEAN
  /\ natmem_offset \in Bases \cup {NULL}

\* The JIT's view of a bank, in terms of its region and of the settings.
PermissionsSound ==
  \A i \in Slots :
    /\ baseaddr[i] = HostBase(heap, mem_banks[i])
    /\ mem_banks[i] \in DOMAIN heap =>
         LET b == heap[mem_banks[i]]
         IN  /\ b.jit_read => canbang /\ b.region.direct /\ baseaddr[i] = natmem_offset
             /\ b.jit_write => b.jit_read /\ b.region.kind # "rom"
             /\ b.region.kind = "custom" => ~b.jit_read

\* What SyncAll writes is a bank, of the same region, with sound permissions.
LEMMA SyncedBank ==
  ASSUME NEW b \in Banks, NEW bang \in BOOLEAN, NEW base \in Bases \cup {NULL}
  PROVE  /\ Synced(b, bang, base) \in Banks
         /\ Synced(b, bang, base).region = b.region
         /\ Synced(b, bang, base).jit_read =>
              /\ bang /\ b.region.direct
              /\ b.region.host # NULL
              /\ b.region.host - b.region.start = base
         /\ Synced(b, bang, base).jit_write =>
              Synced(b, bang, base).jit_read /\ b.region.kind # "rom"
         /\ b.region.kind = "custom" => ~Synced(b, bang, base).jit_read
<1> DEFINE direct == Direct(b.region, bang, base)
           write == direct /\ b.region.kind # "rom"
<1>1. /\ b.region \in Regions /\ b.region \in RegionType
      /\ (b.region.host = NULL) <=> (b.region.kind = "custom")
  BY MemoryMapAssumption DEF Banks
<1>2. /\ b.region.start \in Int
      /\ b.region.host \in Int \cup {NULL}
      /\ base \in Int \cup {NULL}
  BY <1>1, MemoryMapAssumption DEF RegionType
<1>3. direct \in BOOLEAN /\ write \in BOOLEAN
  BY DEF Direct
<1>4. direct => /\ bang /\ b.region.direct
                /\ b.region.host # NULL
                /\ b.region.host - b.region.start = base
  BY <1>2 DEF Direct
<1>5. Synced(b, bang, base) = [b EXCEPT !.jit_read = direct, !.jit_write = write]
  BY DEF Synced
<1> HIDE DEF direct, write
<1>6. /\ Synced(b, bang, base) \in Banks
      /\ Synced(b, bang, base).region = b.region
      /\ Synced(b, bang, base).jit_read = direct
      /\ Synced(b, bang, base).jit_write = write
  BY <1>3, <1>5 DEF Banks
<1>7. QED
  BY <1>1, <1>4, <1>6 DEF write

LEMMA SyncAllLive ==
  ASSUME NEW banks, NEW h, NEW bang \in BOOLEAN, NEW base \in Bases \cup {NULL},
         Live(banks, h), SyncAll(banks, h, bang, base)
  PROVE  /\ NoDanglingBank'
         /\ \A i \in Slots : Region(i)' = Shown(banks, h, i)
<1>1. /\ mem_banks' = banks
      /\ heap' = [o \in DOMAIN h |-> IF \E i \in Slots : banks[i] = o
                                     THEN Synced(h[o], bang, base) ELSE h[o]]
  BY DEF SyncAll
<1>2. DOMAIN heap' = DOMAIN h
  BY <1>1
<1>3. ASSUME NEW o \in DOMAIN h
      PROVE  heap'[o] \in Banks /\ heap'[o].region = h[o].region
  <2>1. h[o] \in Banks
    BY DEF Live
  <2>2. QED
    BY <1>1, <2>1, SyncedBank
<1>4. heap' \in [DOMAIN heap' -> Banks]
  BY <1>1, <1>2, <1>3
<1>5. NoDanglingBank'
  BY <1>1, <1>2, <1>4 DEF NoDanglingBank, Live
<1>6. \A i \in Slots : Region(i)' = Shown(banks, h, i)
  BY <1>1, <1>2, <1>3 DEF Region, Shown
<1>7. QED
  BY <1>5, <1>6

LEMMA SyncAllSound ==
  ASSUME NEW banks, NEW h, NEW bang \in BOOLEAN, NEW base \in Bases \cup {NULL},
         Live(banks, h), SyncAll(banks, h, bang, base),
         canbang' = bang, natmem_offset' = base
  PROVE  PermissionsSound' /\ BurstsAreConservative'
<1>1. /\ mem_banks' = banks
      /\ heap' = [o \in DOMAIN h |-> IF \E i \in Slots : banks[i] = o
                                     THEN Synced(h[o], bang, base) ELSE h[o]]
      /\ baseaddr' = [i \in Slots |-> HostBase(h, banks[i])]
      /\ jit_n_addr_bank_unsafe' =
           (bang /\ \E i \in Slots : banks[i] \in DOMAIN h /\ h[banks[i]].region.burst)
  BY DEF SyncAll
<1>2. DOMAIN heap' = DOMAIN h
  BY <1>1
<1>3. ASSUME NEW i \in Slots, banks[i] \in DOMAIN h
      PROVE  /\ h[banks[i]] \in Banks
             /\ heap'[banks[i]] = Synced(h[banks[i]], bang, base)
             /\ heap'[banks[i]].region = h[banks[i]].region
  <2>1. h[banks[i]] \in Banks
    BY <1>3 DEF Live
  <2>2. QED
    BY <1>1, <1>3, <2>1, SyncedBank
<1>4. ASSUME NEW i \in Slots PROVE HostBase(heap', banks[i]) = HostBase(h, banks[i])
  BY <1>2, <1>3 DEF HostBase
<1>5. ASSUME NEW i \in Slots, banks[i] \in DOMAIN h
      PROVE  LET b == heap'[banks[i]]
             IN  /\ b.jit_read => bang /\ b.region.direct /\ HostBase(h, banks[i]) = base
                 /\ b.jit_write => b.jit_read /\ b.region.kind # "rom"
                 /\ b.region.kind = "custom" => ~b.jit_read
  <2> DEFINE c == h[banks[i]]
  <2>1. c \in Banks /\ heap'[banks[i]] = Synced(c, bang, base)
    BY <1>3, <1>5
  <2>2. c.region.host # NULL => HostBase(h, banks[i]) = c.region.host - c.region.start
    BY <1>5 DEF HostBase
  <2> HIDE DEF c
  <2>3. QED
    BY <2>1, <2>2, SyncedBank
<1>6. PermissionsSound'
  BY <1>1, <1>2, <1>4, <1>5 DEF PermissionsSound
<1>7. BurstsAreConservative'
  BY <1>1, <1>2, <1>3 DEF BurstsAreConservative, Region
<1>8. QED
  BY <1>6, <1>7

\* A new region's object, and a heap from which objects no bank uses are gone.
LEMMA AllocatedLive ==
  ASSUME NoDanglingBank, NEW r \in Regions, NEW o \in Objects \ DOMAIN heap, NEW area
  PROVE  /\ Live(Point(area, o), Allocated(o, r))
         /\ \A i \in Slots : Shown(Point(area, o), Allocated(o, r), i)
                               = IF i \in area THEN r ELSE Region(i)
<1> DEFINE new == [region |-> r, jit_read |-> FALSE, jit_write |-> FALSE]
<1>1. new \in Banks /\ new.region = r
  BY DEF Banks
<1>2. /\ DOMAIN Allocated(o, r) = DOMAIN heap \cup {o}
      /\ Allocated(o, r)[o] = new
      /\ \A x \in DOMAIN heap : Allocated(o, r)[x] = heap[x]
      /\ Allocated(o, r) = [x \in DOMAIN heap \cup {o} |-> Allocated(o, r)[x]]
  BY DEF Allocated
<1> HIDE DEF new
<1>3. Allocated(o, r) \in [DOMAIN Allocated(o, r) -> Banks]
  BY <1>1, <1>2 DEF NoDanglingBank
<1>4. Live(Point(area, o), Allocated(o, r))
  BY <1>2, <1>3 DEF Live, Point, NoDanglingBank
<1>5. ASSUME NEW i \in Slots
      PROVE  Shown(Point(area, o), Allocated(o, r), i) = IF i \in area THEN r ELSE Region(i)
  <2>1. CASE i \in area
    BY <1>1, <1>2, <2>1 DEF Shown, Point
  <2>2. CASE i \notin area
    <3>1. Point(area, o)[i] = mem_banks[i] /\ mem_banks[i] # o
      BY <2>2, MemoryMapAssumption DEF Point, NoDanglingBank
    <3>2. QED
      BY <1>2, <2>2, <3>1 DEF Shown, Region
  <2>3. QED
    BY <2>1, <2>2
<1>6. QED
  BY <1>4, <1>5

LEMMA FreedLive ==
  ASSUME NoDanglingBank, NEW area, NEW os, NEW banks,
         banks = Point(area, dummy_bank), \A i \in Slots : banks[i] \notin os
  PROVE  /\ Live(banks, Freed(os))
         /\ \A i \in Slots : Shown(banks, Freed(os), i)
                               = IF i \in area THEN NULL ELSE Region(i)
<1>1. /\ DOMAIN Freed(os) = DOMAIN heap \ os
      /\ \A x \in DOMAIN heap \ os : Freed(os)[x] = heap[x]
      /\ Freed(os) \in [DOMAIN heap \ os -> Banks]
  BY DEF Freed, NoDanglingBank
<1>2. \A i \in Slots : banks[i] = IF i \in area THEN dummy_bank ELSE mem_banks[i]
  BY DEF Point
<1>3. dummy_bank \notin DOMAIN heap
  BY MemoryMapAssumption DEF NoDanglingBank
<1>4. Live(banks, Freed(os))
  BY <1>1, <1>2 DEF Live, NoDanglingBank, Point
<1>5. QED
  BY <1>1, <1>2, <1>3, <1>4 DEF Shown, Region
-----------------------------------------------------------------------------
(***************************************************************************)
(* Every step ends with a table in which no bank dangles and whose JIT     *)
(* view is sound, and changes the regions as RegionMap says.               *)
(***************************************************************************)
Inv == NoDanglingBank /\ JitTypes /\ PermissionsSound /\ BurstsAreConservative

\* The banks of an area now show region, the others what they showed before.
Shows(area, region) ==
  \A i \in Slots : Region(i)' = IF i \in area THEN region ELSE Region(i)

LEMMA MapStep ==
  ASSUME Inv, NEW r \in Regions, MapMemory(r) \/ MapCustom(r)
  PROVE  Inv' /\ Shows(Covered(r.start, r.size), r)
<1> DEFINE area == Covered(r.start, r.size)
<1> HIDE DEF area
<1>1. PICK o \in Objects \ DOMAIN heap :
        SyncAll(Point(area, o), Allocated(o, r), canbang, natmem_offset)
  BY DEF MapMemory, MapCustom, MapBanks, area
<1>2. canbang' = canbang /\ natmem_offset' = natmem_offset
  BY DEF MapMemory, MapCustom, MapBanks
<1>3. /\ Live(Point(area, o), Allocated(o, r))
      /\ \A i \in Slots : Shown(Point(area, o), Allocated(o, r), i)
                            = IF i \in area THEN r ELSE Region(i)
  BY AllocatedLive DEF Inv
<1>4. canbang \in BOOLEAN /\ natmem_offset \in Bases \cup {NULL}
  BY DEF Inv, JitTypes
<1>5. NoDanglingBank' /\ Shows(area, r)
  BY <1>1, <1>3, <1>4, SyncAllLive DEF Shows
<1>6. PermissionsSound' /\ BurstsAreConservative'
  BY <1>1, <1>2, <1>3, <1>4, SyncAllSound
<1>7. QED
  BY <1>2, <1>4, <1>5, <1>6 DEF Inv, JitTypes, area

LEMMA UnmapStep ==
  ASSUME Inv, NEW start, NEW size, Unmap(start, size)
  PROVE  Inv' /\ Shows(Covered(start, size), NULL)
<1> DEFINE area == Covered(start, size)
           banks == Point(area, dummy_bank)
           first == IF area = {} THEN dummy_bank ELSE mem_banks[StartBank(start)]
           os == Unused(first, banks)
<1>1. /\ SyncAll(banks, Freed(os), canbang, natmem_offset)
      /\ canbang' = canbang /\ natmem_offset' = natmem_offset
  BY DEF Unmap
<1>2. \A i \in Slots : banks[i] \notin os
  BY DEF Unused
<1>3. banks = Point(area, dummy_bank)
  OBVIOUS
<1> HIDE DEF area, banks, first, os
<1>4. /\ Live(banks, Freed(os))
      /\ \A i \in Slots : Shown(banks, Freed(os), i) = IF i \in area THEN NULL ELSE Region(i)
  BY <1>2, <1>3, FreedLive DEF Inv
<1>5. canbang \in BOOLEAN /\ natmem_offset \in Bases \cup {NULL}
  BY DEF Inv, JitTypes
<1>6. NoDanglingBank' /\ Shows(area, NULL)
  BY <1>1, <1>4, <1>5, SyncAllLive DEF Shows
<1>7. PermissionsSound' /\ BurstsAreConservative'
  BY <1>1, <1>4, <1>5, SyncAllSound
<1>8. QED
  BY <1>1, <1>5, <1>6, <1>7 DEF Inv, JitTypes, area

LEMMA ClearStep ==
  ASSUME Inv, MemoryInit \/ MemoryUninit
  PROVE  Inv' /\ Shows(Slots, NULL)
<1>1. /\ mem_banks' = [i \in Slots |-> dummy_bank]
      /\ baseaddr' = [i \in Slots |-> NULL]
      /\ canbang' = canbang /\ natmem_offset' = natmem_offset
  BY DEF MemoryInit, MemoryUninit
<1>2. DOMAIN heap' \subseteq Objects /\ heap' \in [DOMAIN heap' -> Banks]
  BY DEF MemoryInit, MemoryUninit, Freed, Inv, NoDanglingBank
<1>3. dummy_bank \notin DOMAIN heap'
  BY <1>2, MemoryMapAssumption
<1>4. NoDanglingBank'
  BY <1>1, <1>2 DEF NoDanglingBank
<1>5. \A i \in Slots : Region(i)' = NULL /\ HostBase(heap', mem_banks'[i]) = NULL
  BY <1>1, <1>3 DEF Region, HostBase
<1>6. PermissionsSound' /\ BurstsAreConservative'
  BY <1>1, <1>3, <1>5 DEF PermissionsSound, BurstsAreConservative
<1>7. QED
  BY <1>1, <1>4, <1>5, <1>6 DEF Inv, JitTypes, Shows

LEMMA JitStep ==
  ASSUME Inv, NEW bang \in BOOLEAN, NEW base \in Bases \cup {NULL},
         SyncAll(mem_banks, heap, bang, base), canbang' = bang, natmem_offset' = base
  PROVE  Inv' /\ Shows({}, NULL)
<1>1. Live(mem_banks, heap)
  BY DEF Inv, NoDanglingBank, Live
<1>2. NoDanglingBank' /\ \A i \in Slots : Region(i)' = Shown(mem_banks, heap, i)
  BY <1>1, SyncAllLive
<1>3. PermissionsSound' /\ BurstsAreConservative'
  BY <1>1, SyncAllSound
<1>4. QED
  BY <1>2, <1>3 DEF Inv, JitTypes, Shows, Shown, Region

LEMMA InitInv == Init => Inv
<1> SUFFICES ASSUME Init PROVE Inv
  OBVIOUS
<1>1. /\ DOMAIN heap = {} /\ heap \in [DOMAIN heap -> Banks]
      /\ mem_banks = [i \in Slots |-> dummy_bank]
      /\ baseaddr = [i \in Slots |-> NULL]
      /\ canbang = FALSE /\ natmem_offset = NULL
  BY DEF Init
<1>2. NoDanglingBank
  BY <1>1 DEF NoDanglingBank
<1>3. PermissionsSound
  BY <1>1 DEF PermissionsSound, HostBase
<1>4. BurstsAreConservative /\ JitTypes
  BY <1>1 DEF BurstsAreConservative, JitTypes
<1>5. QED
  BY <1>2, <1>3, <1>4 DEF Inv

LEMMA NextInv ==
  ASSUME Inv, Next
  PROVE  /\ Inv'
         /\ \/ \E r \in Regions : Shows(Covered(r.start, r.size), r)
            \/ \E r \in Regions : Shows(Covered(r.start, r.size), NULL)
            \/ Shows(Slots, NULL)
            \/ Shows({}, NULL)
<1>1. ASSUME NEW r \in Regions, MapMemory(r) \/ MapCustom(r)
      PROVE  Inv' /\ Shows(Covered(r.start, r.size), r)
  BY <1>1, MapStep
<1>2. ASSUME NEW r \in Regions, Unmap(r.start, r.size)
      PROVE  Inv' /\ Shows(Covered(r.start, r.size), NULL)
  BY <1>2, UnmapStep
<1>3. CASE MemoryInit \/ MemoryUninit
  BY <1>3, ClearStep
<1>4. canbang \in BOOLEAN /\ natmem_offset \in Bases \cup {NULL}
  BY DEF Inv, JitTypes
<1>5. ASSUME NEW bang \in BOOLEAN, ConfigureJit(bang) PROVE Inv' /\ Shows({}, NULL)
  <2>1. /\ SyncAll(mem_banks, heap, bang, natmem_offset)
        /\ canbang' = bang /\ natmem_offset' = natmem_offset
    BY <1>5 DEF ConfigureJit
  <2>2. QED
    BY <1>4, <2>1, JitStep
<1>6. ASSUME NEW base \in Bases \cup {NULL}, SetJitMemoryBase(base)
      PROVE  Inv' /\ Shows({}, NULL)
  <2>1. /\ SyncAll(mem_banks, heap, canbang, base)
        /\ canbang' = canbang /\ natmem_offset' = base
    BY <1>6 DEF SetJitMemoryBase
  <2>2. QED
    BY <1>4, <2>1, JitStep
<1>7. QED
  BY <1>1, <1>2, <1>3, <1>5, <1>6 DEF Next

LEMMA StutterInv == Inv /\ UNCHANGED vars => Inv'
  BY DEF vars, Inv, NoDanglingBank, JitTypes, PermissionsSound, BurstsAreConservative,
         Region, HostBase

LEMMA Invariance == Spec => []Inv
<1>1. Inv /\ [Next]_vars => Inv'
  BY NextInv, StutterInv
<1>2. QED
  BY <1>1, InitInv, PTL DEF Spec
-----------------------------------------------------------------------------
(***************************************************************************)
(* No bank ever points to a freed region, however maps and unmaps overlap. *)
(***************************************************************************)
THEOREM NoDangling == Spec => []NoDanglingBank
<1>1. Inv => NoDanglingBank
  BY DEF Inv
<1>2. QED
  BY <1>1, Invariance, PTL

(***************************************************************************)
(* The bank table implements the region map.                               *)
(***************************************************************************)
THEOREM BanksRefine == Spec => BanksShowRegions
<1> DEFINE shown == [i \in Slots |-> Region(i)]
<1>1. Init => Map!Init
  <2> SUFFICES ASSUME Init PROVE \A i \in Slots : Region(i) = NULL
    BY DEF Map!Init
  <2>1. DOMAIN heap = {}
    BY DEF Init
  <2>2. QED
    BY <2>1 DEF Region
<1>2. ASSUME Inv, Next PROVE Map!Next \/ shown' = shown
  <2>1. ASSUME NEW area, NEW region, Shows(area, region)
        PROVE  shown' = [i \in Slots |-> IF i \in area THEN region ELSE shown[i]]
    BY <2>1 DEF Shows
  <2>2. CASE \E r \in Regions : Shows(Covered(r.start, r.size), r)
    BY <2>1, <2>2 DEF Map!Next, Map!Map, Map!Cover
  <2>3. CASE \E r \in Regions : Shows(Covered(r.start, r.size), NULL)
    BY <2>1, <2>3 DEF Map!Next, Map!Unmap, Map!Cover
  <2>4. CASE Shows(Slots, NULL)
    BY <2>1, <2>4 DEF Map!Next, Map!Clear
  <2>5. CASE Shows({}, NULL)
    BY <2>1, <2>5
  <2>6. QED
    BY <1>2, <2>2, <2>3, <2>4, <2>5, NextInv
<1>3. UNCHANGED vars => shown' = shown
  BY DEF vars, Region
<1>4. Inv /\ [Next]_vars => [Map!Next]_shown
  BY <1>2, <1>3
<1>5. QED
  BY <1>1, <1>4, Invariance, PTL DEF Spec, BanksShowRegions, Map!Spec
-----------------------------------------------------------------------------
(***************************************************************************)
(* While a region with the burst mark is in the map and direct access is   *)
(* on, the JIT is in its conservative mode (memory_jit_sync_all).          *)
(***************************************************************************)
THEOREM BurstTheorem == Spec => []BurstsAreConservative
<1>1. Inv => BurstsAreConservative
  BY DEF Inv
<1>2. QED
  BY <1>1, Invariance, PTL

(***************************************************************************)
(* Where the accesses of a bank land.  A region of whole banks covers as   *)
(* many banks as its size holds, and a bank it covers is that many banks   *)
(* away from its start, going round the end at most once.                  *)
(***************************************************************************)
LEMMA DivMultiple ==
  ASSUME NEW k \in Nat, NEW b \in Nat \ {0}, NEW c \in 0..(b - 1)
  PROVE  (k * b + c) \div b = k
OBVIOUS

LEMMA WholeMultiple ==
  ASSUME NEW x \in Nat, NEW b \in Nat \ {0}, x % b = 0
  PROVE  /\ x \div b \in Nat
         /\ x = (x \div b) * b
OBVIOUS

LEMMA Remainder ==
  ASSUME NEW x \in Nat, NEW s \in Nat \ {0}
  PROVE  /\ x < s => x % s = x /\ (x - s) % s = x
         /\ s <= x /\ x < 2 * s => x % s = x - s
OBVIOUS

LEMMA Multiples ==
  ASSUME NEW j \in Nat, NEW k \in Nat, NEW b \in Nat \ {0}
  PROVE  /\ j * b < k * b <=> j < k
         /\ j * b <= k * b <=> j <= k
OBVIOUS

LEMMA WholeBanksCovered ==
  ASSUME NEW r \in Regions, WholeBanks(r)
  PROVE  /\ NumBanks(r.size) \in Nat
         /\ r.size = NumBanks(r.size) * BankSize
         /\ NumBanks(r.size) < MemoryBanks
         /\ StartBank(r.start) \in Nat
         /\ r.start = StartBank(r.start) * BankSize
         /\ StartBank(r.start) < MemoryBanks
<1> DEFINE n == r.size \div BankSize
           a == r.start \div BankSize
<1>1. /\ BankSize \in Nat \ {0} /\ MemoryBanks \in Nat \ {0}
      /\ r.size \in Nat /\ r.start \in Nat
      /\ r.size < MemoryBanks * BankSize /\ r.start < MemoryBanks * BankSize
  BY MemoryMapAssumption DEF RegionType, Space
<1>2. /\ n \in Nat /\ r.size = n * BankSize
      /\ a \in Nat /\ r.start = a * BankSize
  BY <1>1, WholeMultiple DEF WholeBanks
<1> HIDE DEF n, a
<1>3. n < MemoryBanks /\ a < MemoryBanks
  BY <1>1, <1>2, Multiples
<1>4. (n + 1) * BankSize <= MemoryBanks * BankSize
  BY <1>1, <1>2, <1>3, Multiples
<1>5. (n + 1) * BankSize = n * BankSize + BankSize
  BY <1>1, <1>2
<1>6. r.size + BankSize - 1 \in Nat /\ r.size + BankSize - 1 < Space
  BY <1>1, <1>2, <1>4, <1>5 DEF Space
<1>7. (r.size + BankSize - 1) % Space = n * BankSize + (BankSize - 1)
  <2>1. Space \in Nat \ {0}
    BY <1>1, <1>6 DEF Space
  <2>2. (r.size + BankSize - 1) % Space = r.size + BankSize - 1
    BY <1>6, <2>1, Remainder
  <2>3. QED
    BY <1>1, <1>2, <2>2
<1>8. NumBanks(r.size) = n
  BY <1>1, <1>2, <1>7, DivMultiple DEF NumBanks
<1>9. StartBank(r.start) = a
  BY DEF StartBank, a
<1>10. QED
  BY <1>2, <1>3, <1>8, <1>9

LEMMA CoveredAccess ==
  ASSUME NEW r \in Regions, WholeBanks(r), NEW i \in Covered(r.start, r.size),
         NEW addr \in Addresses(i)
  PROVE  /\ (addr - r.start) % Space \in Nat
         /\ (addr - r.start) % Space < r.size
         /\ ~GoesRound(r) => (addr - r.start) % Space = addr - r.start
<1> DEFINE offset == addr - i * BankSize
           n == NumBanks(r.size)
           a == StartBank(r.start)
<1>1. /\ n \in Nat /\ r.size = n * BankSize /\ n < MemoryBanks
      /\ a \in Nat /\ r.start = a * BankSize /\ a < MemoryBanks
  BY WholeBanksCovered
<1>2. BankSize \in Nat \ {0} /\ MemoryBanks \in Nat \ {0}
  BY MemoryMapAssumption
<1>3. PICK k \in 0..(n - 1) : i = (a + k) % MemoryBanks
  BY DEF Covered
<1> HIDE DEF n, a
<1>a. i \in Int
  BY <1>1, <1>2, <1>3
<1>b. i * BankSize \in Int
  BY <1>2, <1>a
<1>c. addr = i * BankSize + offset /\ offset \in 0..(BankSize - 1)
  BY <1>2, <1>b DEF Addresses
<1> HIDE DEF offset
<1>4. k \in Nat /\ k < n /\ offset \in Nat /\ offset < BankSize
  BY <1>1, <1>2, <1>3, <1>c
<1>5. i = a + k \/ i = a + k - MemoryBanks
  <2>1. a + k \in Nat /\ a + k < 2 * MemoryBanks
    BY <1>1, <1>2, <1>4
  <2>2. CASE a + k < MemoryBanks
    <3>1. (a + k) % MemoryBanks = a + k
      BY <1>2, <2>1, <2>2, Remainder
    <3>2. QED
      BY <1>3, <3>1
  <2>3. CASE MemoryBanks <= a + k
    <3>1. (a + k) % MemoryBanks = (a + k) - MemoryBanks
      BY <1>2, <2>1, <2>3, Remainder
    <3>2. QED
      BY <1>1, <1>2, <1>3, <1>4, <3>1
  <2>4. QED
    BY <1>2, <2>1, <2>2, <2>3
<1> DEFINE d == k * BankSize + offset
<1>6. d \in Nat /\ d < n * BankSize
  <2>1. (k + 1) * BankSize <= n * BankSize
    BY <1>1, <1>2, <1>4, Multiples
  <2>2. (k + 1) * BankSize = k * BankSize + BankSize
    BY <1>2, <1>4
  <2>3. QED
    BY <1>1, <1>2, <1>4, <2>1, <2>2
<1>7. Space \in Nat \ {0} /\ n * BankSize < Space
  BY <1>1, <1>2, Multiples DEF Space
<1>8. \/ (i * BankSize + offset) - r.start = d
      \/ (i * BankSize + offset) - r.start = d - Space
  <2>1. (a + k) * BankSize = a * BankSize + k * BankSize
    BY <1>1, <1>2, <1>4
  <2>2. (a + k - MemoryBanks) * BankSize = a * BankSize + k * BankSize - MemoryBanks * BankSize
    BY <1>1, <1>2, <1>4
  <2>3. CASE i = a + k
    BY <1>1, <1>2, <1>4, <2>1, <2>3
  <2>4. CASE i = a + k - MemoryBanks
    BY <1>1, <1>2, <1>4, <2>2, <2>4 DEF Space
  <2>5. QED
    BY <1>5, <2>3, <2>4
<1> HIDE DEF d
<1>9. d < Space
  BY <1>1, <1>2, <1>6, <1>7
<1>10. (addr - r.start) % Space = d
  <2>1. addr - r.start = d \/ addr - r.start = d - Space
    BY <1>8, <1>c
  <2>2. d % Space = d /\ (d - Space) % Space = d
    BY <1>6, <1>7, <1>9, Remainder
  <2>3. QED
    BY <2>1, <2>2
<1>11. ASSUME ~GoesRound(r) PROVE addr - r.start = d
  <2>1. a * BankSize + n * BankSize <= MemoryBanks * BankSize
    BY <1>1, <1>2, <1>11 DEF GoesRound, Space
  <2>2. (a + n) * BankSize = a * BankSize + n * BankSize
    BY <1>1, <1>2
  <2>3. a + n <= MemoryBanks
    BY <1>1, <1>2, <2>1, <2>2, Multiples
  <2>4. a + k \in 0..(MemoryBanks - 1)
    BY <1>1, <1>2, <1>4, <2>3
  <2>5. i = a + k
    BY <1>2, <1>3, <2>4, Remainder
  <2>6. (a + k) * BankSize = a * BankSize + k * BankSize
    BY <1>1, <1>2, <1>4
  <2>7. QED
    BY <1>1, <1>2, <1>4, <1>c, <2>5, <2>6 DEF d
<1>12. QED
  BY <1>1, <1>6, <1>10, <1>11

\* A bank only ever shows a region that covers it.
RegionsCover ==
  \A i \in Slots : Region(i) # NULL =>
    Region(i) \in Regions /\ i \in Covered(Region(i).start, Region(i).size)

LEMMA RegionsCovered == Spec => []RegionsCover
<1>1. Init => RegionsCover
  <2> SUFFICES ASSUME Init PROVE \A i \in Slots : Region(i) = NULL
    BY DEF RegionsCover
  <2>1. DOMAIN heap = {}
    BY DEF Init
  <2>2. QED
    BY <2>1 DEF Region
<1>2. ASSUME Inv, RegionsCover, Next PROVE RegionsCover'
  <2>1. CASE \E r \in Regions : Shows(Covered(r.start, r.size), r)
    BY <1>2, <2>1 DEF RegionsCover, Shows
  <2>2. CASE \E r \in Regions : Shows(Covered(r.start, r.size), NULL)
    BY <1>2, <2>2 DEF RegionsCover, Shows
  <2>3. CASE Shows(Slots, NULL) \/ Shows({}, NULL)
    BY <1>2, <2>3 DEF RegionsCover, Shows
  <2>4. QED
    BY <1>2, <2>1, <2>2, <2>3, NextInv
<1>3. RegionsCover /\ UNCHANGED vars => RegionsCover'
  BY DEF RegionsCover, vars, Region
<1>4. Inv /\ RegionsCover /\ [Next]_vars => RegionsCover'
  BY <1>2, <1>3
<1>5. QED
  BY <1>1, <1>4, Invariance, PTL DEF Spec

(***************************************************************************)
(* An access to a bank of a region mapped in whole banks stays inside the  *)
(* host memory of the region, for every number and size of banks and every *)
(* region, those that go round the end of the address space included       *)
(* (memory_map_ptr, ram_lget).                                             *)
(***************************************************************************)
THEOREM AccessTheorem == Spec => []AccessesStayInside
<1>1. RegionsCover => AccessesStayInside
  BY CoveredAccess DEF RegionsCover, AccessesStayInside
<1>2. QED
  BY <1>1, RegionsCovered, PTL

(***************************************************************************)
(* Translated code is only allowed inline accesses, at natmem_offset plus  *)
(* the address, that reach the host byte the handlers reach, inside the    *)
(* region's own host memory, and none that write a ROM; baseaddr[] leads   *)
(* to the same byte.  It holds for every region of whole banks that does   *)
(* not go round the end of the address space (jit_sync_baseaddr).          *)
(***************************************************************************)
THEOREM JitSoundness == Spec => []JitAccessesAreSound
<1>1. ASSUME Inv, RegionsCover, NEW i \in Slots, mem_banks[i] \in DOMAIN heap
      PROVE  LET b == heap[mem_banks[i]]
                 r == b.region
             IN  /\ b.jit_read => canbang /\ r.direct /\ r.kind # "custom"
                 /\ b.jit_write => b.jit_read /\ r.kind # "rom"
                 /\ r.host # NULL /\ WholeBanks(r) /\ ~GoesRound(r) =>
                      \A addr \in Addresses(i) :
                        /\ HandlerByte(r, addr) \in r.host..(r.host + r.size - 1)
                        /\ baseaddr[i] + addr = HandlerByte(r, addr)
                        /\ b.jit_read => natmem_offset + addr = HandlerByte(r, addr)
  <2> DEFINE b == heap[mem_banks[i]]
             r == b.region
  <2>1. /\ baseaddr[i] = HostBase(heap, mem_banks[i])
        /\ b.jit_read => canbang /\ r.direct /\ baseaddr[i] = natmem_offset
        /\ b.jit_write => b.jit_read /\ r.kind # "rom"
        /\ r.kind = "custom" => ~b.jit_read
    BY <1>1 DEF Inv, PermissionsSound
  <2>2. r \in Regions /\ r \in RegionType /\ Region(i) = r
    BY <1>1, MemoryMapAssumption DEF Inv, NoDanglingBank, Banks, Region
  <2>3. i \in Covered(r.start, r.size)
    BY <1>1, <2>2, MemoryMapAssumption DEF RegionsCover
  <2>4. ASSUME r.host # NULL, WholeBanks(r), ~GoesRound(r), NEW addr \in Addresses(i)
        PROVE  /\ HandlerByte(r, addr) \in r.host..(r.host + r.size - 1)
               /\ baseaddr[i] + addr = HandlerByte(r, addr)
               /\ b.jit_read => natmem_offset + addr = HandlerByte(r, addr)
    <3>1. baseaddr[i] = r.host - r.start
      BY <1>1, <2>1, <2>4 DEF HostBase
    <3>2. r.host \in Int /\ r.start \in Int /\ r.size \in Int
      BY <2>2, <2>4 DEF RegionType
    <3>3. addr \in Int
      BY MemoryMapAssumption DEF Addresses, Slots
    <3>4. (addr - r.start) % Space \in 0..(r.size - 1)
          /\ (addr - r.start) % Space = addr - r.start
      BY <2>2, <2>3, <2>4, <3>2, CoveredAccess
    <3> HIDE DEF b, r
    <3>5. HandlerByte(r, addr) = r.host + (addr - r.start)
      BY <3>4 DEF HandlerByte
    <3>6. QED
      BY <2>1, <3>1, <3>2, <3>3, <3>4, <3>5
  <2>5. QED
    BY <2>1, <2>4
<1>2. Inv /\ RegionsCover => JitAccessesAreSound
  BY <1>1 DEF JitAccessesAreSound
<1>3. QED
  BY <1>2, Invariance, RegionsCovered, PTL
=============================================================================
