--------------------------------- MODULE Atc --------------------------------
(***************************************************************************)
(* The 68040 and 68060 MMU: the address translation caches, the shortcut   *)
(* caches in front of them, the table search and the instructions that     *)
(* flush and test.  Every access is one step: the CPU is the only one that *)
(* uses the MMU.  AddressSpace says what a guest may rely on.              *)
(***************************************************************************)
EXTENDS PageTables, Integers, FiniteSets

CONSTANTS
  Models,      \* MMU models the host configures: 68040, 68060
  ATC_WAYS,    \* lines per slot
  Slots,       \* slots of each cache
  Slot,        \* the slot of a page: low bits of its number
  Index,       \* its index in the shortcut caches: more of them
  LastIndex,   \* with the supervisor bit, the one index never filled
  Uses,        \* bound: which pages the guest uses, on which side, in which mode
  GuestDescs,  \* descriptors the guest writes
  GuestTables, \* tables it starts with
  ResetRoot,   \* URP and SRP after reset
  GuestTcrs, GuestTtrs,
  MaxChanges   \* bound on the guest's changes of tables, roots and TTRs

ASSUME AtcAssumption ==
  /\ Models \subseteq {"68040", "68060"}
  /\ ATC_WAYS \in Nat \ {0}
  /\ Slot \in [Pages -> Slots]
  /\ Uses \subseteq Types \X Pages \X BOOLEAN
  /\ MaxChanges \in Nat
  /\ GuestDescs \subseteq Descriptors
  /\ GuestTables \subseteq Tables /\ ResetRoot \in Roots
  /\ GuestTcrs \subseteq Tcrs /\ GuestTtrs \subseteq Ttrs
  /\ \A d \in GuestDescs : d.kind # "page" => ~d.w /\ ~d.s /\ ~d.g /\ ~d.m
  /\ None \notin [kind : Kinds \cup {"plpa", "ptest"}, page : Pages, super : BOOLEAN,
                  out : Phys \cup Descriptors \cup {Fault, Direct}]

VARIABLES
  tables, roots, tcr, ttr,
  model,
  atc,            \* mmu_atc_array: for each type, slot and way a line or None
  mmu_atc_ways,   \* the way each type was last found in
  fast,           \* atc_last_ins, atc_data_cache_read, atc_data_cache_write
  seen,           \* history: the descriptors of each page since its last flush
  last,           \* history: the last access and what it gave
  changes         \* bounded by MaxChanges

vars == <<tables, roots, tcr, ttr, model, atc, mmu_atc_ways, fast, seen, last,
          changes>>

Ways == 0..(ATC_WAYS - 1)
Lines == [page : Pages, super : BOOLEAN, desc : Descriptors]
Entries == [page : Pages, super : BOOLEAN, phys : Phys]
Indexes == {<<Index[p], s>> : p \in Pages, s \in BOOLEAN}
Indexed(page, super) == <<Index[page], super>>

EmptyAtc == [t \in Types |-> [n \in Slots |-> [w \in Ways |-> None]]]
EmptyFast ==
  [ins |-> None, read |-> [i \in Indexes |-> None], write |-> [i \in Indexes |-> None]]

TtrsOff == [t \in Types |-> [p \in Pages |-> [s \in BOOLEAN |-> "noMatch"]]]
Off == [enabled |-> FALSE, dwo |-> FALSE]

History == INSTANCE AddressSpace

\* After m68k_reset; the tables are whatever is in memory.
Init ==
  /\ tables \in GuestTables
  /\ roots = [s \in BOOLEAN |-> ResetRoot]
  /\ tcr = Off /\ ttr = TtrsOff
  /\ model \in Models
  /\ atc = EmptyAtc
  /\ mmu_atc_ways = [t \in Types |-> 0]
  /\ fast = EmptyFast
  /\ seen = History!Fresh(tables, roots)
  /\ last = None
  /\ changes = 0
-----------------------------------------------------------------------------
(***************************************************************************)
(* Lookup.                                                                 *)
(***************************************************************************)
Line(type, page, way) == atc[type][Slot[page]][way]
Holds(l, page, super) == l # None /\ l.page = page /\ l.super = super

\* The search starts at the way last used and wraps around.
Scan(type) == [i \in 1..ATC_WAYS |-> (mmu_atc_ways[type] + i - 1) % ATC_WAYS]
Hit(type, page, super) ==
  {i \in 1..ATC_WAYS : Holds(Line(type, page, Scan(type)[i]), page, super)}
First(indexes) == CHOOSE i \in indexes : \A j \in indexes : i <= j
LastOf(indexes) == CHOOSE i \in indexes : \A j \in indexes : j <= i

\* Mutant: the next way is saved for the next access, without wrapping.
NextWaySaved(type, way) == [mmu_atc_ways EXCEPT ![type] = way + 1]

\* The way that answered is the first to be looked at next time.
WaySaved(type, way) == [mmu_atc_ways EXCEPT ![type] = way]

\* Mutant: a search always fills the next random way.
VictimsRandom(type, page, super) == Ways

\* The way a table search fills: the one that holds the page, else the last
\* other valid one met, else a random one (way_random counts lookups).
Victims(type, page, super) ==
  LET hit == Hit(type, page, super)
      valid == {i \in 1..ATC_WAYS : Line(type, page, Scan(type)[i]) # None}
  IN  IF hit # {} THEN {Scan(type)[First(hit)]}
      ELSE IF valid # {} THEN {Scan(type)[LastOf(valid)]}
      ELSE Ways

\* flush_shortcut_cache: the page in this mode, and the last instruction page.
FastFlushed(f, page, super) ==
  LET Clear(cache) == [i \in Indexes |->
        IF cache[i] # None /\ cache[i].page = page /\ cache[i].super = super
        THEN None ELSE cache[i]]
  IN  [ins |-> None, read |-> Clear(f.read), write |-> Clear(f.write)]

\* Mutant: a read is also remembered as good for writes.
FastAddedBoth(f, page, super, type, write, phys) ==
  LET entry == [page |-> page, super |-> super, phys |-> phys]
      at == Indexed(page, super)
  IN  IF type = "ins" THEN [f EXCEPT !.ins = entry]
      ELSE IF at = <<LastIndex, TRUE>> THEN f
      ELSE [f EXCEPT !.write[at] = entry, !.read[at] = entry]

\* mmu_add_cache.
FastAdded(f, page, super, type, write, phys) ==
  LET entry == [page |-> page, super |-> super, phys |-> phys]
      at == Indexed(page, super)
  IN  IF type = "ins" THEN [f EXCEPT !.ins = entry]
      ELSE IF at = <<LastIndex, TRUE>> THEN f
      ELSE IF write THEN [f EXCEPT !.write[at] = entry]
      ELSE [f EXCEPT !.read[at] = entry]
-----------------------------------------------------------------------------
(***************************************************************************)
(* mmu_fill_atc: search the tables, mark the page modified for a write,    *)
(* fill the line.  The 68060 keeps no line for a page that is not there.   *)
(***************************************************************************)
Fill(type, page, super, way, d, cache) ==
  IF model = "68060" /\ d.kind # "page" THEN cache
  ELSE [cache EXCEPT ![type][Slot[page]][way] =
          [page |-> page, super |-> super, desc |-> d]]

SearchTables(page, super, d) ==
  /\ tables' = [tables EXCEPT ![roots[super]][page] = d]
  /\ seen' = History!Grown(tables', roots)

Report(kind, page, super, out) ==
  last' = [kind |-> kind, page |-> page, super |-> super, out |-> out]

\* A line found answers unless a first write must mark the page modified.
Usable(l, super, write) == Denied(l.desc, super, write) \/ ~write \/ l.desc.m

\* mmu_translate on a line that answers.
TranslateHit(kind, type, page, super, write) ==
  LET hit == Hit(type, page, super)
      way == Scan(type)[First(hit)]
      l == Line(type, page, way)
      denied == Denied(l.desc, super, write)
  IN  /\ hit # {}
      /\ Usable(l, super, write)
      /\ mmu_atc_ways' = IF denied THEN mmu_atc_ways ELSE WaySaved(type, way)
      /\ fast' = IF denied THEN fast ELSE FastAdded(fast, page, super, type, write, l.desc.phys)
      /\ Report(kind, page, super, Outcome(l.desc, super, write))
      /\ UNCHANGED <<tables, atc, seen>>

\* mmu_translate with a table search, then the same checks on the new line.
TranslateSearch(kind, type, page, super, write) ==
  LET d == Searched(History!Current(page, super), super, write)
      denied == Denied(d, super, write)
      flushed == FastFlushed(fast, page, super)
      hit == Hit(type, page, super)
  IN  /\ hit # {} => ~Usable(Line(type, page, Scan(type)[First(hit)]), super, write)
      /\ SearchTables(page, super, d)
      /\ \E way \in Victims(type, page, super) :
           /\ atc' = Fill(type, page, super, way, d, atc)
           /\ mmu_atc_ways' = IF denied THEN mmu_atc_ways ELSE WaySaved(type, way)
      /\ fast' = IF denied THEN flushed
                 ELSE FastAdded(flushed, page, super, type, write, d.phys)
      /\ Report(kind, page, super, Outcome(d, super, write))

\* MOVE16 reads and writes go straight to mmu_translate; without translation
\* they are as other accesses (AccessDirect).
MOVE16(kind, page, super) ==
  /\ kind \in {"read", "write"}
  /\ Translated(ttr, tcr, "data", page, super)
  /\ \/ TranslateHit(kind, "data", page, super, Writes(kind))
     \/ TranslateSearch(kind, "data", page, super, Writes(kind))
  /\ UNCHANGED <<roots, tcr, ttr, model, changes>>

\* PLPA of the 68060: PLPAW asks mmu_match_ttr_write whether or not a register
\* is enabled; then mmu_translate, also with translation off.
PLPA(type, page, super, write) ==
  LET fault == write /\ WriteFault(ttr, tcr, type, page, super)
  IN  /\ model = "68060"
      /\ IF fault \/ ttr[type][page][super] # "noMatch"
         THEN /\ Report("plpa", page, super, IF fault THEN Fault ELSE Direct)
              /\ UNCHANGED <<tables, atc, mmu_atc_ways, fast, seen>>
         ELSE \/ TranslateHit("plpa", type, page, super, write)
              \/ TranslateSearch("plpa", type, page, super, write)
      /\ UNCHANGED <<roots, tcr, ttr, model, changes>>

\* Mutant: every data access tries the shortcut for reads.
ShortcutForReads(kind, page, super) ==
  IF kind = "fetch" THEN fast.ins ELSE fast.read[Indexed(page, super)]

\* The shortcut an access tries first: a locked read and the fetch of an
\* immediate byte (mmu_get_byte) try the one for data reads.
Shortcut(kind, page, super) ==
  CASE kind = "fetch" -> fast.ins
    [] kind = "write" -> fast.write[Indexed(page, super)]
    [] OTHER -> fast.read[Indexed(page, super)]

ShortcutHits(kind, page, super) ==
  Holds(Shortcut(kind, page, super), page, super)

\* An access that needs no translation.
AccessDirect(kind, page, super) ==
  LET type == TypeOf(kind)
      fault == TtrFault(ttr, tcr, type, page, super, Writes(kind))
  IN  /\ fault \/ ~Translated(ttr, tcr, type, page, super)
      /\ Report(kind, page, super, IF fault THEN Fault ELSE Direct)
      /\ UNCHANGED <<tables, roots, tcr, ttr, model, atc, mmu_atc_ways, fast, seen,
                 changes>>

\* mmu_get_*, mmu_put_*, mmu_get_iword, get_ibyte and the locked and MOVES variants.
AccessShortcut(kind, page, super) ==
  /\ Translated(ttr, tcr, TypeOf(kind), page, super)
  /\ ShortcutHits(kind, page, super)
  /\ Report(kind, page, super, Shortcut(kind, page, super).phys)
  /\ UNCHANGED <<tables, roots, tcr, ttr, model, atc, mmu_atc_ways, fast, seen,
                 changes>>

AccessTranslated(kind, page, super) ==
  /\ Translated(ttr, tcr, TypeOf(kind), page, super)
  /\ ~ShortcutHits(kind, page, super)
  /\ \/ TranslateHit(kind, TypeOf(kind), page, super, Writes(kind))
     \/ TranslateSearch(kind, TypeOf(kind), page, super, Writes(kind))
  /\ UNCHANGED <<roots, tcr, ttr, model, changes>>
-----------------------------------------------------------------------------
(***************************************************************************)
(* The guest's other instructions.                                         *)
(***************************************************************************)
\* Mutant: PFLUSH looks at the data cache only.
AtcFlushedData(page, super, global) ==
  [t \in Types |-> [n \in Slots |-> [w \in Ways |->
     LET l == atc[t][n][w] IN
     IF t = "data" /\ Holds(l, page, super) /\ (global \/ ~l.desc.g) THEN None ELSE l]]]

\* mmu_flush_atc.
AtcFlushed(page, super, global) ==
  [t \in Types |-> [n \in Slots |-> [w \in Ways |->
     LET l == atc[t][n][w] IN
     IF Holds(l, page, super) /\ (global \/ ~l.desc.g) THEN None ELSE l]]]

\* mmu_flush_atc_all.
AtcFlushedAll(global) ==
  [t \in Types |-> [n \in Slots |-> [w \in Ways |->
     LET l == atc[t][n][w] IN
     IF l # None /\ (global \/ ~l.desc.g) THEN None ELSE l]]]

PFLUSH(page, super, global) ==
  /\ atc' = AtcFlushed(page, super, global)
  /\ fast' = FastFlushed(fast, page, super)
  /\ History!FlushPage(page, super, global)
  /\ UNCHANGED <<model, mmu_atc_ways, changes>>

PFLUSHA(global) ==
  /\ atc' = AtcFlushedAll(global)
  /\ fast' = EmptyFast
  /\ History!FlushAll(global)
  /\ UNCHANGED <<model, mmu_atc_ways, changes>>

\* PTEST: flush the page, search, fill the first free way or a random one.
PTEST(type, page, super, write) ==
  LET flushed == AtcFlushed(page, super, TRUE)
      free == {w \in Ways : flushed[type][Slot[page]][w] = None}
      ways == IF free # {} THEN {First(free)} ELSE Ways
      d == Searched(History!Current(page, super), super, write)
  IN  /\ model = "68040"
      /\ fast' = FastFlushed(fast, page, super)
      /\ UNCHANGED <<roots, tcr, ttr, model, mmu_atc_ways, changes>>
      /\ IF ttr[type][page][super] # "noMatch"
         THEN /\ Report("ptest", page, super,
                        IF ttr[type][page][super] = "noWrite" /\ write THEN Fault ELSE Direct)
              /\ atc' = flushed
              /\ seen' = [seen EXCEPT ![page][super] = {History!Current(page, super)}]
              /\ UNCHANGED tables
         ELSE /\ Report("ptest", page, super, d)
              /\ \E way \in ways : atc' = Fill(type, page, super, way, d, flushed)
              /\ tables' = [tables EXCEPT ![roots[super]][page] = d]
              /\ seen' = [History!Grown(tables', roots) EXCEPT ![page][super] = {d}]

\* mmu_set_tc, by MOVEC.
SetTcr(new) ==
  /\ tcr' = new
  /\ atc' = EmptyAtc /\ fast' = EmptyFast
  /\ seen' = History!Fresh(tables, roots)
  /\ last' = None
  /\ UNCHANGED <<tables, roots, ttr, model, mmu_atc_ways, changes>>

\* MOVEC to ITTn or DTTn, to URP or SRP, and a write into the tables: no cache
\* is told.
Change ==
  /\ changes < MaxChanges
  /\ changes' = changes + 1
  /\ UNCHANGED <<model, atc, mmu_atc_ways, fast>>

SetTtr(new) ==
  /\ Change
  /\ ttr' = new
  /\ last' = None
  /\ UNCHANGED <<tables, roots, tcr, seen>>

SetRoot(super, root) ==
  /\ Change
  /\ History!SetRoot(super, root)

SetDescriptor(root, page, d) ==
  /\ Change
  /\ tables' = [tables EXCEPT ![root][page] = d]
  /\ seen' = History!Grown(tables', roots)
  /\ last' = None
  /\ UNCHANGED <<roots, tcr, ttr>>

\* m68k_reset: mmu_reset and mmu_set_tc(0).
Reset ==
  /\ atc' = EmptyAtc /\ fast' = EmptyFast
  /\ History!Reset(ResetRoot)
  /\ UNCHANGED <<model, mmu_atc_ways, changes>>

Next ==
  \/ \E k \in Kinds, u \in Uses : TypeOf(k) = u[1] /\ AccessDirect(k, u[2], u[3])
  \/ \E k \in Kinds, u \in Uses : TypeOf(k) = u[1] /\ AccessShortcut(k, u[2], u[3])
  \/ \E k \in Kinds, u \in Uses : TypeOf(k) = u[1] /\ AccessTranslated(k, u[2], u[3])
  \/ \E k \in Kinds, u \in Uses : TypeOf(k) = u[1] /\ MOVE16(k, u[2], u[3])
  \/ \E u \in Uses, w \in BOOLEAN : PLPA(u[1], u[2], u[3], w)
  \/ \E u \in Uses, w \in BOOLEAN : PTEST(u[1], u[2], u[3], w)
  \/ \E p \in Pages, s \in BOOLEAN, g \in BOOLEAN : PFLUSH(p, s, g)
  \/ \E g \in BOOLEAN : PFLUSHA(g)
  \/ \E new \in GuestTcrs : SetTcr(new)
  \/ \E new \in GuestTtrs : SetTtr(new)
  \/ \E s \in BOOLEAN, r \in Roots : SetRoot(s, r)
  \/ \E r \in Roots, p \in Pages, d \in GuestDescs : SetDescriptor(r, p, d)
  \/ Reset

Spec == Init /\ [][Next]_vars
-----------------------------------------------------------------------------
\* The types of the MMU's state.
TypeOK ==
  /\ tables \in Tables /\ roots \in [BOOLEAN -> Roots]
  /\ tcr \in Tcrs /\ ttr \in Ttrs /\ model \in Models
  /\ atc \in [Types -> [Slots -> [Ways -> Lines \cup {None}]]]
  /\ mmu_atc_ways \in [Types -> Ways]
  /\ fast.ins \in Entries \cup {None}
  /\ fast.read \in [Indexes -> Entries \cup {None}]
  /\ fast.write \in [Indexes -> Entries \cup {None}]
  /\ seen \in [Pages -> [BOOLEAN -> SUBSET Descriptors]]
  /\ changes \in 0..MaxChanges

\* No page is in two ways of a slot: mmu_translate and mmu_flush_atc compare
\* tags way by way, and a second line would answer differently for the page.
OneLinePerPage ==
  \A t \in Types, n \in Slots, w1, w2 \in Ways :
    LET l1 == atc[t][n][w1]
        l2 == atc[t][n][w2]
    IN  w1 # w2 /\ l1 # None /\ l2 # None => l1.page # l2.page \/ l1.super # l2.super

\* A line is in its page's slot and holds a descriptor the page has had since
\* the guest last flushed it, in either type's cache (mmu_flush_atc).
LinesNotStale ==
  \A t \in Types, n \in Slots, w \in Ways :
    LET l == atc[t][n][w]
    IN  l # None => Slot[l.page] = n /\ l.desc \in seen[l.page][l.super]

\* A shortcut skips every check of mmu_translate, so it stands for a descriptor
\* since the last flush that passes them; for writes, one marked modified.
ShortcutsNotStale ==
  LET Justified(e, write) == e # None =>
        \E d \in seen[e.page][e.super] :
          d.phys = e.phys /\ ~Denied(d, e.super, write) /\ (write => d.m)
  IN  /\ Justified(fast.ins, FALSE)
      /\ \A i \in Indexes : Justified(fast.read[i], FALSE) /\ Justified(fast.write[i], TRUE)

\* The MMU with its caches is one the guest can program by AddressSpace.
ImplementsAddressSpace == History!Spec
=============================================================================
