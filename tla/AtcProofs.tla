------------------------------ MODULE AtcProofs ------------------------------
(***************************************************************************)
(* The 68040 and 68060 MMU, for any number of pages, slots, ways and       *)
(* shortcut indexes: no stale translation, and the caches implement        *)
(* AddressSpace.                                                           *)
(***************************************************************************)
EXTENDS Atc, WellFoundedInduction, TLAPS

-----------------------------------------------------------------------------
(***************************************************************************)
(* The search for a way.                                                   *)
(***************************************************************************)
LEMMA LeastMember ==
  ASSUME NEW S \in SUBSET Nat, S # {}
  PROVE  \E x \in S : \A y \in S : x <= y
<1>1. \E x \in S : \A y \in S : ~(<<y, x>> \in OpToRel(<, Nat))
  BY NatLessThanWellFounded, WFMin
<1>2. PICK x \in S : \A y \in S : ~(<<y, x>> \in OpToRel(<, Nat))
  BY <1>1
<1>3. \A y \in S : ~(y < x)
  BY <1>2 DEF OpToRel
<1>4. QED
  BY <1>3

LEMMA FirstMember ==
  ASSUME NEW S \in SUBSET Nat, S # {}
  PROVE  First(S) \in S
BY LeastMember DEF First

LEMMA LastMember ==
  ASSUME NEW n \in Nat, NEW S \in SUBSET (1..n), S # {}
  PROVE  LastOf(S) \in S
<1> DEFINE T == {n - i : i \in S}
<1>1. T \in SUBSET Nat /\ T # {}
  <2>1. \A i \in S : n - i \in Nat
    OBVIOUS
  <2>2. PICK i \in S : TRUE
    OBVIOUS
  <2>3. n - i \in T
    OBVIOUS
  <2>4. QED
    BY <2>1, <2>3
<1>2. PICK x \in T : \A y \in T : x <= y
  BY <1>1, LeastMember
<1>3. PICK i \in S : x = n - i
  BY <1>2
<1>4. \A j \in S : j <= i
  <2> TAKE j \in S
  <2>1. n - j \in T
    OBVIOUS
  <2>2. n - i <= n - j
    BY <1>2, <1>3, <2>1
  <2>3. QED
    BY <2>2
<1>5. QED
  BY <1>4 DEF LastOf

\* x % n of a number below 2 * n.
LEMMA WrapAround ==
  ASSUME NEW n \in Nat \ {0}, NEW x \in Nat, x < n + n
  PROVE  x % n = IF x < n THEN x ELSE x - n
OBVIOUS

LEMMA ScanFacts ==
  ASSUME NEW t \in Types, mmu_atc_ways \in [Types -> Ways]
  PROVE  /\ \A i \in 1..ATC_WAYS : Scan(t)[i] \in Ways
         /\ \A w \in Ways : \E i \in 1..ATC_WAYS : Scan(t)[i] = w
<1> DEFINE n == ATC_WAYS
           m == mmu_atc_ways[t]
<1>1. n \in Nat \ {0} /\ m \in 0..(n - 1)
  BY AtcAssumption DEF Ways
<1>2. \A i \in 1..n : Scan(t)[i] = (m + i - 1) % n
  BY DEF Scan
<1> HIDE DEF n, m
<1>3. \A i \in 1..n : m + i - 1 \in Nat /\ m + i - 1 < n + n
  BY <1>1
<1>4. \A i \in 1..n : Scan(t)[i] = IF m + i - 1 < n THEN m + i - 1 ELSE m + i - 1 - n
  <2> TAKE i \in 1..n
  <2> DEFINE x == m + i - 1
  <2>2. x \in Nat /\ x < n + n /\ Scan(t)[i] = x % n
    BY <1>2, <1>3
  <2> HIDE DEF x
  <2>3. x % n = IF x < n THEN x ELSE x - n
    BY <1>1, <2>2, WrapAround
  <2>4. Scan(t)[i] = IF x < n THEN x ELSE x - n
    BY <2>2, <2>3
  <2>5. QED
    BY <1>1, <2>4 DEF x
<1>5. \A i \in 1..n : Scan(t)[i] \in 0..(n - 1)
  BY <1>1, <1>4
<1>6. ASSUME NEW w \in 0..(n - 1)
      PROVE  \E i \in 1..n : Scan(t)[i] = w
  <2>1. CASE w >= m
    <3>1. w - m + 1 \in 1..n
      BY <1>1, <2>1
    <3>2. Scan(t)[w - m + 1] = w
      BY <1>1, <1>4, <2>1, <3>1
    <3>3. QED
      BY <3>1, <3>2
  <2>2. CASE w < m
    <3>1. w - m + 1 + n \in 1..n
      BY <1>1, <2>2
    <3>2. Scan(t)[w - m + 1 + n] = w
      BY <1>1, <1>4, <2>2, <3>1
    <3>3. QED
      BY <3>1, <3>2
  <2>3. QED
    BY <1>1, <2>1, <2>2
<1>7. QED
  BY <1>5, <1>6 DEF Ways, n
-----------------------------------------------------------------------------
(***************************************************************************)
(* The invariants, as predicates of the caches and of what the guest has   *)
(* been shown.                                                             *)
(***************************************************************************)
AtcType == [Types -> [Slots -> [Ways -> Lines \cup {None}]]]
FastType == [ins : Entries \cup {None}, read : [Indexes -> Entries \cup {None}],
             write : [Indexes -> Entries \cup {None}]]
SeenType == [Pages -> [BOOLEAN -> SUBSET Descriptors]]

OneLine(a) ==
  \A t \in Types, n \in Slots, w1, w2 \in Ways :
    w1 # w2 /\ a[t][n][w1] # None /\ a[t][n][w2] # None =>
      a[t][n][w1].page # a[t][n][w2].page \/ a[t][n][w1].super # a[t][n][w2].super

LineOK(l, n, shown) == l # None => Slot[l.page] = n /\ l.desc \in shown[l.page][l.super]

AtcOK(a, shown) == \A t \in Types, n \in Slots, w \in Ways : LineOK(a[t][n][w], n, shown)

Justified(e, write, shown) ==
  e # None => \E d \in shown[e.page][e.super] :
                d.phys = e.phys /\ ~Denied(d, e.super, write) /\ (write => d.m)

FastOK(f, shown) ==
  /\ Justified(f.ins, FALSE, shown)
  /\ \A i \in Indexes : Justified(f.read[i], FALSE, shown) /\ Justified(f.write[i], TRUE, shown)

GuestInv ==
  /\ tables \in Tables /\ roots \in [BOOLEAN -> Roots]
  /\ tcr \in Tcrs /\ ttr \in Ttrs /\ seen \in SeenType

MmuInv ==
  /\ model \in Models /\ changes \in 0..MaxChanges
  /\ mmu_atc_ways \in [Types -> Ways]

AtcInv == atc \in AtcType /\ OneLine(atc) /\ AtcOK(atc, seen)

FastInv == fast \in FastType /\ FastOK(fast, seen)

\* The invariants of the run together are inductive.
Inv == GuestInv /\ MmuInv /\ AtcInv /\ FastInv

LEMMA InvImplies ==
  ASSUME Inv
  PROVE  TypeOK /\ OneLinePerPage /\ LinesNotStale /\ ShortcutsNotStale
<1>1. TypeOK
  BY DEF Inv, GuestInv, MmuInv, AtcInv, FastInv, TypeOK, AtcType, FastType, SeenType
<1>2. OneLinePerPage
  BY DEF Inv, AtcInv, OneLinePerPage, OneLine
<1>3. LinesNotStale
  BY DEF Inv, AtcInv, AtcOK, LineOK, LinesNotStale
<1>4. ShortcutsNotStale
  BY DEF Inv, FastInv, FastOK, Justified, ShortcutsNotStale
<1>5. QED
  BY <1>1, <1>2, <1>3, <1>4
-----------------------------------------------------------------------------
(***************************************************************************)
(* What the guest has been shown only grows between flushes.               *)
(***************************************************************************)
Grows(shown, more) == \A p \in Pages, s \in BOOLEAN : shown[p][s] \subseteq more[p][s]

LEMMA LineFacts ==
  ASSUME NEW a \in AtcType, NEW t \in Types, NEW n \in Slots, NEW w \in Ways, a[t][n][w] # None
  PROVE  /\ a[t][n][w] \in Lines
         /\ a[t][n][w].page \in Pages /\ a[t][n][w].super \in BOOLEAN
         /\ a[t][n][w].desc \in Descriptors
<1>1. a[t][n][w] \in Lines
  BY DEF AtcType
<1>2. QED
  BY <1>1 DEF Lines

LEMMA EntryFacts ==
  ASSUME NEW e \in Entries \cup {None}, e # None
  PROVE  e.page \in Pages /\ e.super \in BOOLEAN /\ e.phys \in Phys
BY DEF Entries

LEMMA AtcGrows ==
  ASSUME NEW a \in AtcType, NEW shown, NEW more, AtcOK(a, shown), Grows(shown, more)
  PROVE  AtcOK(a, more)
<1> SUFFICES ASSUME NEW t \in Types, NEW n \in Slots, NEW w \in Ways, a[t][n][w] # None
             PROVE  Slot[a[t][n][w].page] = n /\ a[t][n][w].desc \in more[a[t][n][w].page][a[t][n][w].super]
  BY DEF AtcOK, LineOK
<1>1. a[t][n][w].page \in Pages /\ a[t][n][w].super \in BOOLEAN
  BY LineFacts
<1>2. QED
  BY <1>1 DEF AtcOK, LineOK, Grows

LEMMA JustifiedGrows ==
  ASSUME NEW e \in Entries \cup {None}, NEW write, NEW shown, NEW more,
         Justified(e, write, shown), e # None => shown[e.page][e.super] \subseteq more[e.page][e.super]
  PROVE  Justified(e, write, more)
BY DEF Justified

LEMMA FastGrows ==
  ASSUME NEW f \in FastType, NEW shown, NEW more, FastOK(f, shown), Grows(shown, more)
  PROVE  FastOK(f, more)
<1>1. /\ f.ins \in Entries \cup {None}
      /\ \A i \in Indexes : f.read[i] \in Entries \cup {None} /\ f.write[i] \in Entries \cup {None}
  BY DEF FastType
<1>2. \A e \in Entries \cup {None} : e # None => shown[e.page][e.super] \subseteq more[e.page][e.super]
  BY EntryFacts DEF Grows
<1>3. QED
  BY <1>1, <1>2, JustifiedGrows DEF FastOK

LEMMA GrownFacts ==
  ASSUME NEW table \in Tables, NEW root \in [BOOLEAN -> Roots], seen \in SeenType
  PROVE  /\ History!Grown(table, root) \in SeenType
         /\ Grows(seen, History!Grown(table, root))
         /\ \A p \in Pages, s \in BOOLEAN : table[root[s]][p] \in History!Grown(table, root)[p][s]
<1>1. \A p \in Pages, s \in BOOLEAN :
        /\ table[root[s]][p] \in Descriptors
        /\ seen[p][s] \in SUBSET Descriptors
        /\ History!Grown(table, root)[p][s] = seen[p][s] \cup {table[root[s]][p]}
  BY DEF Tables, SeenType, History!Grown
<1>2. History!Grown(table, root) \in SeenType
  BY <1>1 DEF History!Grown, SeenType
<1>3. QED
  BY <1>1, <1>2 DEF Grows

LEMMA FreshFacts ==
  ASSUME NEW table \in Tables, NEW root \in [BOOLEAN -> Roots]
  PROVE  History!Fresh(table, root) \in SeenType
<1>1. \A p \in Pages, s \in BOOLEAN : table[root[s]][p] \in Descriptors
  BY DEF Tables
<1>2. QED
  BY <1>1 DEF History!Fresh, SeenType

LEMMA EmptyFacts ==
  ASSUME NEW shown
  PROVE  /\ EmptyAtc \in AtcType /\ OneLine(EmptyAtc) /\ AtcOK(EmptyAtc, shown)
         /\ EmptyFast \in FastType /\ FastOK(EmptyFast, shown)
<1>1. EmptyAtc \in AtcType /\ \A t \in Types, n \in Slots, w \in Ways : EmptyAtc[t][n][w] = None
  BY DEF EmptyAtc, AtcType
<1>2. OneLine(EmptyAtc) /\ AtcOK(EmptyAtc, shown)
  BY <1>1 DEF OneLine, AtcOK, LineOK
<1>3. /\ EmptyFast \in FastType /\ EmptyFast.ins = None
      /\ \A i \in Indexes : EmptyFast.read[i] = None /\ EmptyFast.write[i] = None
  BY DEF EmptyFast, FastType
<1>4. FastOK(EmptyFast, shown)
  BY <1>3 DEF FastOK, Justified
<1>5. QED
  BY <1>1, <1>2, <1>3, <1>4
-----------------------------------------------------------------------------
(***************************************************************************)
(* Filling a line and adding a shortcut.                                   *)
(***************************************************************************)
\* A step that keeps or drops lines.
LEMMA AtcDrops ==
  ASSUME NEW a \in AtcType, OneLine(a), NEW b \in AtcType, NEW shown,
         \A t \in Types, n \in Slots, w \in Ways :
           b[t][n][w] # None => b[t][n][w] = a[t][n][w] /\ LineOK(b[t][n][w], n, shown)
  PROVE  OneLine(b) /\ AtcOK(b, shown)
<1>1. AtcOK(b, shown)
  BY DEF AtcOK, LineOK
<1>2. OneLine(b)
  <2> SUFFICES ASSUME NEW t \in Types, NEW n \in Slots, NEW w1 \in Ways, NEW w2 \in Ways,
                      w1 # w2, b[t][n][w1] # None, b[t][n][w2] # None
               PROVE  \/ b[t][n][w1].page # b[t][n][w2].page
                      \/ b[t][n][w1].super # b[t][n][w2].super
    BY DEF OneLine
  <2>1. b[t][n][w1] = a[t][n][w1] /\ b[t][n][w2] = a[t][n][w2]
    OBVIOUS
  <2>2. QED
    BY <2>1 DEF OneLine
<1>3. QED
  BY <1>1, <1>2

\* The line is filled in a way such that no other holds the page.
LEMMA FillFacts ==
  ASSUME NEW a \in AtcType, OneLine(a), NEW shown, AtcOK(a, shown),
         NEW type \in Types, NEW page \in Pages, NEW super \in BOOLEAN, NEW way \in Ways,
         NEW d \in Descriptors, d \in shown[page][super],
         \A w \in Ways \ {way} : ~Holds(a[type][Slot[page]][w], page, super)
  PROVE  LET b == Fill(type, page, super, way, d, a)
         IN  b \in AtcType /\ OneLine(b) /\ AtcOK(b, shown)
<1> DEFINE b == Fill(type, page, super, way, d, a)
           new == [page |-> page, super |-> super, desc |-> d]
           at == Slot[page]
<1>1. CASE model = "68060" /\ d.kind # "page"
  BY <1>1 DEF Fill
<1>2. CASE ~(model = "68060" /\ d.kind # "page")
  <2>1. b = [a EXCEPT ![type][at][way] = new]
    BY <1>2 DEF Fill
  <2>2. new \in Lines /\ at \in Slots /\ new.page = page /\ new.super = super /\ new.desc = d
    BY AtcAssumption DEF Lines
  <2> HIDE DEF b, new, at
  <2>3. b \in AtcType
    BY <2>1, <2>2 DEF AtcType
  <2>4. \A t \in Types, n \in Slots, w \in Ways :
          b[t][n][w] = IF t = type /\ n = at /\ w = way THEN new ELSE a[t][n][w]
    BY <2>1, <2>2 DEF AtcType
  <2>5. LineOK(new, at, shown)
    BY <2>2 DEF LineOK, at
  <2>6. AtcOK(b, shown)
    BY <2>4, <2>5 DEF AtcOK
  <2>7. \A w \in Ways : w # way /\ a[type][at][w] # None =>
          a[type][at][w].page # page \/ a[type][at][w].super # super
    BY DEF Holds, at
  <2>8. OneLine(b)
    <3> SUFFICES ASSUME NEW t \in Types, NEW n \in Slots, NEW w1 \in Ways, NEW w2 \in Ways,
                        w1 # w2, b[t][n][w1] # None, b[t][n][w2] # None
                 PROVE  \/ b[t][n][w1].page # b[t][n][w2].page
                        \/ b[t][n][w1].super # b[t][n][w2].super
      BY DEF OneLine
    <3>1. CASE t = type /\ n = at /\ w1 = way
      BY <2>2, <2>4, <2>7, <3>1
    <3>2. CASE t = type /\ n = at /\ w2 = way
      BY <2>2, <2>4, <2>7, <3>2
    <3>3. CASE ~(t = type /\ n = at /\ (w1 = way \/ w2 = way))
      <4>1. b[t][n][w1] = a[t][n][w1] /\ b[t][n][w2] = a[t][n][w2]
        BY <2>4, <3>3
      <4>2. QED
        BY <4>1 DEF OneLine
    <3>4. QED
      BY <3>1, <3>2, <3>3
  <2>9. QED
    BY <2>3, <2>6, <2>8 DEF b
<1>3. QED
  BY <1>1, <1>2

\* The line the search fills is the page's own, or no way holds the page.
LEMMA VictimFacts ==
  ASSUME AtcInv, mmu_atc_ways \in [Types -> Ways],
         NEW type \in Types, NEW page \in Pages, NEW super \in BOOLEAN,
         NEW way \in Victims(type, page, super)
  PROVE  /\ way \in Ways
         /\ \A w \in Ways \ {way} : ~Holds(atc[type][Slot[page]][w], page, super)
<1> DEFINE hit == Hit(type, page, super)
           valid == {i \in 1..ATC_WAYS : Line(type, page, Scan(type)[i]) # None}
<1>1. /\ \A i \in 1..ATC_WAYS : Scan(type)[i] \in Ways
      /\ \A w \in Ways : \E i \in 1..ATC_WAYS : Scan(type)[i] = w
  BY ScanFacts
<1>2. ATC_WAYS \in Nat /\ Slot[page] \in Slots
  BY AtcAssumption
<1>3. hit \in SUBSET (1..ATC_WAYS) /\ valid \in SUBSET (1..ATC_WAYS) /\ 1..ATC_WAYS \subseteq Nat
  BY <1>2 DEF Hit
<1>4. \A i \in 1..ATC_WAYS :
        i \in hit <=> Holds(atc[type][Slot[page]][Scan(type)[i]], page, super)
  BY DEF Hit, Line
<1>5. way \in IF hit # {} THEN {Scan(type)[First(hit)]}
              ELSE IF valid # {} THEN {Scan(type)[LastOf(valid)]} ELSE Ways
  BY DEF Victims
<1> HIDE DEF hit, valid
<1>6. CASE hit # {}
  <2>1. First(hit) \in hit /\ way = Scan(type)[First(hit)]
    BY <1>3, <1>5, <1>6, FirstMember
  <2>2. way \in Ways /\ Holds(atc[type][Slot[page]][way], page, super)
    BY <1>1, <1>3, <1>4, <2>1
  <2>3. QED
    BY <1>2, <2>2 DEF AtcInv, OneLine, Holds
<1>7. CASE hit = {}
  <2>1. \A w \in Ways : ~Holds(atc[type][Slot[page]][w], page, super)
    BY <1>1, <1>4, <1>7
  <2>2. way \in Ways
    <3>1. CASE valid # {}
      <4>1. LastOf(valid) \in valid
        BY <1>2, <1>3, <3>1, LastMember
      <4>2. QED
        BY <1>1, <1>3, <1>5, <1>7, <3>1, <4>1
    <3>2. CASE valid = {}
      BY <1>5, <1>7, <3>2
    <3>3. QED
      BY <3>1, <3>2
  <2>3. QED
    BY <2>1, <2>2
<1>8. QED
  BY <1>6, <1>7

\* The line that answers.
LEMMA HitFacts ==
  ASSUME AtcInv, mmu_atc_ways \in [Types -> Ways],
         NEW type \in Types, NEW page \in Pages, NEW super \in BOOLEAN,
         Hit(type, page, super) # {}
  PROVE  LET way == Scan(type)[First(Hit(type, page, super))]
             l == Line(type, page, way)
         IN  /\ way \in Ways /\ l.desc \in Descriptors
             /\ l.desc \in seen[page][super]
<1> DEFINE hit == Hit(type, page, super)
           way == Scan(type)[First(hit)]
           l == Line(type, page, way)
<1>1. \A i \in 1..ATC_WAYS : Scan(type)[i] \in Ways
  BY ScanFacts
<1>2. ATC_WAYS \in Nat /\ Slot[page] \in Slots
  BY AtcAssumption
<1>3. hit \in SUBSET (1..ATC_WAYS) /\ hit \in SUBSET Nat
  BY <1>2 DEF Hit
<1>4. First(hit) \in hit
  BY <1>3, FirstMember
<1>5. way \in Ways /\ Holds(l, page, super) /\ l = atc[type][Slot[page]][way]
  BY <1>1, <1>3, <1>4 DEF Hit, Line
<1> HIDE DEF hit, way, l
<1>6. l # None /\ l.page = page /\ l.super = super
  BY <1>5 DEF Holds
<1>7. l.desc \in Descriptors
  BY <1>2, <1>5, <1>6, LineFacts DEF AtcInv
<1>8. l.desc \in seen[page][super]
  BY <1>2, <1>5, <1>6 DEF AtcInv, AtcOK, LineOK
<1>9. QED
  BY <1>5, <1>7, <1>8 DEF hit, way, l

LEMMA FastAddedFacts ==
  ASSUME NEW f \in FastType, NEW shown, FastOK(f, shown),
         NEW page \in Pages, NEW super \in BOOLEAN, NEW type \in Types, NEW write \in BOOLEAN,
         NEW d \in Descriptors, d \in shown[page][super],
         ~Denied(d, super, write), write => d.m
  PROVE  LET g == FastAdded(f, page, super, type, write, d.phys)
         IN  g \in FastType /\ FastOK(g, shown)
<1> DEFINE g == FastAdded(f, page, super, type, write, d.phys)
           entry == [page |-> page, super |-> super, phys |-> d.phys]
           at == Indexed(page, super)
<1>1. entry \in Entries /\ entry.page = page /\ entry.super = super /\ entry.phys = d.phys
  BY DEF Entries, Descriptors
<1>2. at \in Indexes
  BY DEF Indexed, Indexes
<1>3. \/ g = f
      \/ type = "ins" /\ g = [f EXCEPT !.ins = entry]
      \/ write /\ g = [f EXCEPT !.write[at] = entry]
      \/ ~write /\ g = [f EXCEPT !.read[at] = entry]
  BY DEF FastAdded
<1>4. Justified(entry, FALSE, shown) /\ (write => Justified(entry, TRUE, shown))
  <2>1. ~Denied(d, super, FALSE) /\ (write => ~Denied(d, super, TRUE))
    BY DEF Denied
  <2>2. QED
    BY <1>1, <2>1 DEF Justified
<1> HIDE DEF g, entry, at
<1>5. CASE g = f
  BY <1>5 DEF g
<1>6. CASE g = [f EXCEPT !.ins = entry]
  <2>1. g \in FastType /\ g.ins = entry /\ g.read = f.read /\ g.write = f.write
    BY <1>1, <1>6 DEF FastType
  <2>2. QED
    BY <1>4, <2>1 DEF FastOK, g
<1>7. CASE write /\ g = [f EXCEPT !.write[at] = entry]
  <2>1. /\ g \in FastType /\ g.ins = f.ins /\ g.read = f.read
        /\ \A i \in Indexes : g.write[i] = IF i = at THEN entry ELSE f.write[i]
    BY <1>1, <1>2, <1>7 DEF FastType
  <2>2. QED
    BY <1>4, <1>7, <2>1 DEF FastOK, g
<1>8. CASE ~write /\ g = [f EXCEPT !.read[at] = entry]
  <2>1. /\ g \in FastType /\ g.ins = f.ins /\ g.write = f.write
        /\ \A i \in Indexes : g.read[i] = IF i = at THEN entry ELSE f.read[i]
    BY <1>1, <1>2, <1>8 DEF FastType
  <2>2. QED
    BY <1>4, <2>1 DEF FastOK, g
<1>9. QED
  BY <1>3, <1>5, <1>6, <1>7, <1>8 DEF g

\* flush_shortcut_cache: what is left is about other pages or the other mode.
LEMMA FastFlushedFacts ==
  ASSUME NEW f \in FastType, NEW shown, FastOK(f, shown), NEW more,
         NEW page \in Pages, NEW super \in BOOLEAN,
         \A p \in Pages, s \in BOOLEAN :
           p # page \/ s # super => shown[p][s] \subseteq more[p][s]
  PROVE  LET g == FastFlushed(f, page, super)
         IN  g \in FastType /\ FastOK(g, more)
<1> DEFINE g == FastFlushed(f, page, super)
<1>1. \A i \in Indexes : f.read[i] \in Entries \cup {None} /\ f.write[i] \in Entries \cup {None}
  BY DEF FastType
<1>2. /\ g.ins = None
      /\ \A i \in Indexes :
           /\ g.read[i] = IF f.read[i] # None /\ f.read[i].page = page /\ f.read[i].super = super
                          THEN None ELSE f.read[i]
           /\ g.write[i] = IF f.write[i] # None /\ f.write[i].page = page /\ f.write[i].super = super
                           THEN None ELSE f.write[i]
  BY DEF FastFlushed
<1>3. g \in FastType
  BY <1>1 DEF FastFlushed, FastType
<1> HIDE DEF g
<1>4. ASSUME NEW e \in Entries \cup {None}, NEW write, Justified(e, write, shown),
             ~(e # None /\ e.page = page /\ e.super = super)
      PROVE  Justified(e, write, more)
  BY <1>4, EntryFacts, JustifiedGrows
<1>5. ASSUME NEW i \in Indexes
      PROVE  Justified(g.read[i], FALSE, more) /\ Justified(g.write[i], TRUE, more)
  <2>1. Justified(f.read[i], FALSE, shown) /\ Justified(f.write[i], TRUE, shown)
    BY DEF FastOK
  <2>2. Justified(g.read[i], FALSE, more)
    <3>1. CASE g.read[i] = None
      BY <3>1 DEF Justified
    <3>2. CASE g.read[i] # None
      <4>1. g.read[i] = f.read[i] /\ ~(f.read[i] # None /\ f.read[i].page = page /\ f.read[i].super = super)
        BY <1>2, <3>2
      <4>2. QED
        BY <1>1, <1>4, <2>1, <4>1
    <3>3. QED
      BY <3>1, <3>2
  <2>3. Justified(g.write[i], TRUE, more)
    <3>1. CASE g.write[i] = None
      BY <3>1 DEF Justified
    <3>2. CASE g.write[i] # None
      <4>1. g.write[i] = f.write[i] /\ ~(f.write[i] # None /\ f.write[i].page = page /\ f.write[i].super = super)
        BY <1>2, <3>2
      <4>2. QED
        BY <1>1, <1>4, <2>1, <4>1
    <3>3. QED
      BY <3>1, <3>2
  <2>4. QED
    BY <2>2, <2>3
<1>6. Justified(g.ins, FALSE, more)
  BY <1>2 DEF Justified
<1>7. QED
  BY <1>3, <1>5, <1>6 DEF FastOK, g

\* mmu_flush_atc: what is left is about other pages, the other mode, or global.
LEMMA AtcFlushedFacts ==
  ASSUME AtcInv, NEW page \in Pages, NEW super \in BOOLEAN, NEW global \in BOOLEAN, NEW more,
         \A p \in Pages, s \in BOOLEAN :
           p # page \/ s # super => seen[p][s] \subseteq more[p][s],
         ~global => {d \in seen[page][super] : d.g} \subseteq more[page][super]
  PROVE  LET a == AtcFlushed(page, super, global)
         IN  /\ a \in AtcType /\ OneLine(a) /\ AtcOK(a, more)
             /\ global => \A t \in Types, n \in Slots, w \in Ways : ~Holds(a[t][n][w], page, super)
<1> DEFINE a == AtcFlushed(page, super, global)
<1>1. \A t \in Types, n \in Slots, w \in Ways :
        a[t][n][w] = IF Holds(atc[t][n][w], page, super) /\ (global \/ ~atc[t][n][w].desc.g)
                     THEN None ELSE atc[t][n][w]
  BY DEF AtcFlushed
<1>2. a \in AtcType
  BY DEF AtcFlushed, AtcInv, AtcType
<1> HIDE DEF a
<1>3. ASSUME NEW t \in Types, NEW n \in Slots, NEW w \in Ways, a[t][n][w] # None
      PROVE  a[t][n][w] = atc[t][n][w] /\ LineOK(a[t][n][w], n, more)
  <2>1. /\ a[t][n][w] = atc[t][n][w] /\ atc[t][n][w] # None
        /\ ~(Holds(atc[t][n][w], page, super) /\ (global \/ ~atc[t][n][w].desc.g))
    BY <1>1, <1>3
  <2>2. PICK l : l = atc[t][n][w]
    OBVIOUS
  <2>3. /\ Slot[l.page] = n /\ l.desc \in seen[l.page][l.super]
        /\ l.page \in Pages /\ l.super \in BOOLEAN
    BY <2>1, <2>2, LineFacts DEF AtcInv, AtcOK, LineOK
  <2>4. l.desc \in more[l.page][l.super]
    <3>1. CASE l.page = page /\ l.super = super
      <4>1. ~global /\ l.desc.g
        BY <2>1, <2>2, <3>1 DEF Holds
      <4>2. QED
        BY <2>3, <3>1, <4>1
    <3>2. CASE l.page # page \/ l.super # super
      BY <2>3, <3>2
    <3>3. QED
      BY <3>1, <3>2
  <2>5. QED
    BY <2>1, <2>2, <2>3, <2>4 DEF LineOK
<1>4. OneLine(a) /\ AtcOK(a, more)
  BY <1>2, <1>3, AtcDrops DEF AtcInv
<1>5. ASSUME global, NEW t \in Types, NEW n \in Slots, NEW w \in Ways
      PROVE  ~Holds(a[t][n][w], page, super)
  BY <1>1, <1>5 DEF Holds
<1>6. QED
  BY <1>2, <1>4, <1>5 DEF a

LEMMA AtcFlushedAllFacts ==
  ASSUME AtcInv, NEW global \in BOOLEAN, NEW more,
         ~global => \A p \in Pages, s \in BOOLEAN : {d \in seen[p][s] : d.g} \subseteq more[p][s]
  PROVE  LET a == AtcFlushedAll(global)
         IN  a \in AtcType /\ OneLine(a) /\ AtcOK(a, more)
<1> DEFINE a == AtcFlushedAll(global)
<1>1. \A t \in Types, n \in Slots, w \in Ways :
        a[t][n][w] = IF atc[t][n][w] # None /\ (global \/ ~atc[t][n][w].desc.g)
                     THEN None ELSE atc[t][n][w]
  BY DEF AtcFlushedAll
<1>2. a \in AtcType
  BY DEF AtcFlushedAll, AtcInv, AtcType
<1> HIDE DEF a
<1>3. ASSUME NEW t \in Types, NEW n \in Slots, NEW w \in Ways, a[t][n][w] # None
      PROVE  a[t][n][w] = atc[t][n][w] /\ LineOK(a[t][n][w], n, more)
  <2>1. /\ a[t][n][w] = atc[t][n][w] /\ atc[t][n][w] # None
        /\ ~global /\ atc[t][n][w].desc.g
    BY <1>1, <1>3
  <2>2. PICK l : l = atc[t][n][w]
    OBVIOUS
  <2>3. /\ Slot[l.page] = n /\ l.desc \in seen[l.page][l.super]
        /\ l.page \in Pages /\ l.super \in BOOLEAN
    BY <2>1, <2>2, LineFacts DEF AtcInv, AtcOK, LineOK
  <2>4. l.desc \in more[l.page][l.super]
    BY <2>1, <2>2, <2>3
  <2>5. QED
    BY <2>1, <2>2, <2>3, <2>4 DEF LineOK
<1>4. OneLine(a) /\ AtcOK(a, more)
  BY <1>2, <1>3, AtcDrops DEF AtcInv
<1>5. QED
  BY <1>2, <1>4 DEF a
-----------------------------------------------------------------------------
(***************************************************************************)
(* The accesses.                                                           *)
(***************************************************************************)
LEMMA UsesFacts ==
  ASSUME NEW u \in Uses
  PROVE  u[1] \in Types /\ u[2] \in Pages /\ u[3] \in BOOLEAN
BY AtcAssumption

LEMMA SearchedFacts ==
  ASSUME NEW d \in Descriptors, NEW super \in BOOLEAN, NEW write \in BOOLEAN
  PROVE  /\ Searched(d, super, write) \in Descriptors
         /\ ~Denied(Searched(d, super, write), super, write) /\ write => Searched(d, super, write).m
<1>1. CASE write /\ ~Denied(d, super, write)
  <2>1. Searched(d, super, write) = [d EXCEPT !.m = TRUE]
    BY <1>1 DEF Searched
  <2>2. [d EXCEPT !.m = TRUE] \in Descriptors /\ [d EXCEPT !.m = TRUE].m = TRUE
    BY DEF Descriptors
  <2>3. QED
    BY <2>1, <2>2
<1>2. CASE ~(write /\ ~Denied(d, super, write))
  <2>1. Searched(d, super, write) = d
    BY <1>2 DEF Searched
  <2>2. QED
    BY <1>2, <2>1
<1>3. QED
  BY <1>1, <1>2

\* A table search shows the guest the descriptor it ends with.
LEMMA SearchFacts ==
  ASSUME GuestInv, NEW page \in Pages, NEW super \in BOOLEAN, NEW d \in Descriptors,
         tables' = [tables EXCEPT ![roots[super]][page] = d]
  PROVE  /\ tables' \in Tables /\ tables'[roots[super]][page] = d
         /\ History!Grown(tables', roots) \in SeenType
         /\ Grows(seen, History!Grown(tables', roots))
         /\ d \in History!Grown(tables', roots)[page][super]
<1>1. tables \in Tables /\ roots \in [BOOLEAN -> Roots] /\ roots[super] \in Roots /\ seen \in SeenType
  BY DEF GuestInv
<1>2. tables' \in Tables /\ tables'[roots[super]][page] = d
  BY <1>1 DEF Tables
<1>3. /\ History!Grown(tables', roots) \in SeenType
      /\ Grows(seen, History!Grown(tables', roots))
      /\ \A p \in Pages, s \in BOOLEAN : tables'[roots[s]][p] \in History!Grown(tables', roots)[p][s]
  BY <1>1, <1>2, GrownFacts
<1>4. tables'[roots[super]][page] \in History!Grown(tables', roots)[page][super]
  BY <1>3
<1>5. QED
  BY <1>2, <1>3, <1>4

LEMMA WaySavedType ==
  ASSUME MmuInv, NEW type \in Types, NEW way \in Ways
  PROVE  WaySaved(type, way) \in [Types -> Ways]
BY DEF MmuInv, WaySaved

LEMMA TranslateHitKeeps ==
  ASSUME Inv, NEW kind, NEW type \in Types, NEW page \in Pages, NEW super \in BOOLEAN,
         NEW write \in BOOLEAN, TranslateHit(kind, type, page, super, write),
         UNCHANGED <<roots, tcr, ttr, model, changes>>
  PROVE  /\ Inv' /\ UNCHANGED <<tables, seen>>
         /\ \E d \in seen[page][super] :
              /\ last' = [kind |-> kind, page |-> page, super |-> super,
                          out |-> Outcome(d, super, write)]
              /\ ~Denied(d, super, write) /\ write => d.m
<1> DEFINE way == Scan(type)[First(Hit(type, page, super))]
           d == Line(type, page, way).desc
           denied == Denied(d, super, write)
<1>1. /\ Hit(type, page, super) # {}
      /\ denied \/ ~write \/ d.m
      /\ mmu_atc_ways' = IF denied THEN mmu_atc_ways ELSE WaySaved(type, way)
      /\ fast' = IF denied THEN fast ELSE FastAdded(fast, page, super, type, write, d.phys)
      /\ last' = [kind |-> kind, page |-> page, super |-> super, out |-> Outcome(d, super, write)]
      /\ UNCHANGED <<tables, atc, seen>>
  BY DEF TranslateHit, Usable, Report
<1>2. GuestInv /\ MmuInv /\ AtcInv /\ FastInv
  BY DEF Inv
<1>3. way \in Ways /\ d \in Descriptors /\ d \in seen[page][super]
  BY <1>1, <1>2, HitFacts DEF MmuInv
<1> HIDE DEF way, d
<1>4. FastInv'
  <2>1. CASE denied
    BY <1>1, <1>2, <2>1 DEF FastInv
  <2>2. CASE ~denied
    BY <1>1, <1>2, <1>3, <2>2, FastAddedFacts DEF FastInv
  <2>3. QED
    BY <2>1, <2>2
<1>5. MmuInv'
  BY <1>1, <1>2, <1>3, WaySavedType DEF MmuInv
<1>6. GuestInv' /\ AtcInv'
  BY <1>1, <1>2 DEF GuestInv, AtcInv
<1>7. QED
  BY <1>1, <1>3, <1>4, <1>5, <1>6 DEF Inv

LEMMA TranslateSearchKeeps ==
  ASSUME Inv, NEW kind, NEW type \in Types, NEW page \in Pages, NEW super \in BOOLEAN,
         NEW write \in BOOLEAN, TranslateSearch(kind, type, page, super, write),
         UNCHANGED <<roots, tcr, ttr, model, changes>>
  PROVE  /\ Inv' /\ History!Search(page, super, write)
         /\ last' = [kind |-> kind, page |-> page, super |-> super,
                     out |-> Outcome(tables'[roots[super]][page], super, write)]
<1> DEFINE current == tables[roots[super]][page]
           d == Searched(current, super, write)
           denied == Denied(d, super, write)
           flushed == FastFlushed(fast, page, super)
<1>1. GuestInv /\ MmuInv /\ AtcInv /\ FastInv
  BY DEF Inv
<1>2. PICK way \in Victims(type, page, super) :
        /\ tables' = [tables EXCEPT ![roots[super]][page] = d]
        /\ seen' = History!Grown(tables', roots)
        /\ atc' = Fill(type, page, super, way, d, atc)
        /\ mmu_atc_ways' = IF denied THEN mmu_atc_ways ELSE WaySaved(type, way)
        /\ fast' = IF denied THEN flushed
                   ELSE FastAdded(flushed, page, super, type, write, d.phys)
        /\ last' = [kind |-> kind, page |-> page, super |-> super, out |-> Outcome(d, super, write)]
  BY DEF TranslateSearch, SearchTables, Report, History!Current
<1>3. current \in Descriptors
  BY <1>1 DEF GuestInv, Tables
<1>4. d \in Descriptors /\ (~denied /\ write => d.m)
  BY <1>3, SearchedFacts
<1>5. History!Search(page, super, write)
  <2>1. tables' = [tables EXCEPT ![roots[super]][page] = Searched(@, super, write)]
    BY <1>2
  <2>2. QED
    BY <1>2, <2>1 DEF History!Search, History!Searched, History!Denied, Searched, Denied
<1> HIDE DEF d
<1>6. /\ tables' \in Tables /\ tables'[roots[super]][page] = d
      /\ seen' \in SeenType /\ Grows(seen, seen') /\ d \in seen'[page][super]
  <2>1. tables' = [tables EXCEPT ![roots[super]][page] = d]
    BY <1>2
  <2>2. /\ tables' \in Tables /\ tables'[roots[super]][page] = d
        /\ History!Grown(tables', roots) \in SeenType
        /\ Grows(seen, History!Grown(tables', roots))
        /\ d \in History!Grown(tables', roots)[page][super]
    BY <1>1, <1>4, <2>1, SearchFacts
  <2>3. QED
    BY <1>2, <2>2
<1>7. /\ way \in Ways
      /\ \A w \in Ways \ {way} : ~Holds(atc[type][Slot[page]][w], page, super)
  BY <1>1, VictimFacts DEF MmuInv
<1>8. AtcInv'
  <2>1. atc \in AtcType /\ OneLine(atc) /\ AtcOK(atc, seen')
    BY <1>1, <1>6, AtcGrows DEF AtcInv
  <2>2. QED
    BY <1>2, <1>4, <1>6, <1>7, <2>1, FillFacts DEF AtcInv
<1>9. FastInv'
  <2>1. fast \in FastType /\ FastOK(fast, seen)
    BY <1>1 DEF FastInv
  <2>2. flushed \in FastType /\ FastOK(flushed, seen')
    BY <1>6, <2>1, FastFlushedFacts DEF Grows
  <2> HIDE DEF flushed
  <2>3. CASE denied
    BY <1>2, <2>2, <2>3 DEF FastInv
  <2>4. CASE ~denied
    BY <1>2, <1>4, <1>6, <2>2, <2>4, FastAddedFacts DEF FastInv
  <2>5. QED
    BY <2>3, <2>4
<1>10. MmuInv'
  BY <1>1, <1>2, <1>7, WaySavedType DEF MmuInv
<1>11. GuestInv'
  BY <1>1, <1>6 DEF GuestInv
<1>12. QED
  BY <1>2, <1>5, <1>6, <1>8, <1>9, <1>10, <1>11 DEF Inv
-----------------------------------------------------------------------------
(***************************************************************************)
(* The guest's other instructions.                                         *)
(***************************************************************************)
LEMMA PFLUSHKeeps ==
  ASSUME Inv, NEW page \in Pages, NEW super \in BOOLEAN, NEW global \in BOOLEAN,
         PFLUSH(page, super, global)
  PROVE  Inv'
<1> DEFINE new == {tables[roots[super]][page]}
                    \cup (IF global THEN {} ELSE {d \in seen[page][super] : d.g})
<1>1. GuestInv /\ MmuInv /\ AtcInv /\ FastInv
  BY DEF Inv
<1>2. /\ atc' = AtcFlushed(page, super, global) /\ fast' = FastFlushed(fast, page, super)
      /\ seen' = [seen EXCEPT ![page][super] = new]
      /\ UNCHANGED <<tables, roots, tcr, ttr, model, mmu_atc_ways, changes>>
  BY DEF PFLUSH, History!FlushPage, History!Current, History!Kept
<1>3. new \in SUBSET Descriptors
  BY <1>1 DEF GuestInv, Tables, SeenType
<1>4. ~global => {d \in seen[page][super] : d.g} \subseteq new
  OBVIOUS
<1> HIDE DEF new
<1>5. /\ seen' \in SeenType
      /\ \A p \in Pages, s \in BOOLEAN : p # page \/ s # super => seen[p][s] \subseteq seen'[p][s]
      /\ seen'[page][super] = new
  BY <1>1, <1>2, <1>3 DEF GuestInv, SeenType
<1>6. AtcInv'
  BY <1>1, <1>2, <1>4, <1>5, AtcFlushedFacts DEF AtcInv
<1>7. FastInv'
  BY <1>1, <1>2, <1>5, FastFlushedFacts DEF FastInv
<1>8. QED
  BY <1>1, <1>2, <1>5, <1>6, <1>7 DEF Inv, GuestInv, MmuInv

LEMMA PFLUSHAKeeps ==
  ASSUME Inv, NEW global \in BOOLEAN, PFLUSHA(global)
  PROVE  Inv'
<1>1. GuestInv /\ MmuInv /\ AtcInv /\ FastInv
  BY DEF Inv
<1>2. /\ atc' = AtcFlushedAll(global) /\ fast' = EmptyFast
      /\ UNCHANGED <<tables, roots, tcr, ttr, model, mmu_atc_ways, changes>>
  BY DEF PFLUSHA, History!FlushAll
<1>3. /\ seen' = [p \in Pages |-> [s \in BOOLEAN |->
                    {tables[roots[s]][p]} \cup (IF global THEN {} ELSE {d \in seen[p][s] : d.g})]]
  BY DEF PFLUSHA, History!FlushAll, History!Current, History!Kept
<1>4. \A p \in Pages, s \in BOOLEAN :
        tables[roots[s]][p] \in Descriptors /\ seen[p][s] \in SUBSET Descriptors
  BY <1>1 DEF GuestInv, Tables, SeenType
<1>5. seen' \in SeenType
  BY <1>3, <1>4 DEF SeenType
<1>6. ~global => \A p \in Pages, s \in BOOLEAN : {d \in seen[p][s] : d.g} \subseteq seen'[p][s]
  BY <1>3
<1>7. AtcInv'
  BY <1>1, <1>2, <1>6, AtcFlushedAllFacts DEF AtcInv
<1>8. FastInv'
  BY <1>2, EmptyFacts DEF FastInv
<1>9. QED
  BY <1>1, <1>2, <1>5, <1>7, <1>8 DEF Inv, GuestInv, MmuInv

LEMMA PTESTKeeps ==
  ASSUME Inv, NEW type \in Types, NEW page \in Pages, NEW super \in BOOLEAN, NEW write \in BOOLEAN,
         PTEST(type, page, super, write)
  PROVE  Inv'
<1> DEFINE flushed == AtcFlushed(page, super, TRUE)
           current == tables[roots[super]][page]
           d == Searched(current, super, write)
           free == {w \in Ways : flushed[type][Slot[page]][w] = None}
           ways == IF free # {} THEN {First(free)} ELSE Ways
<1>1. GuestInv /\ MmuInv /\ AtcInv /\ FastInv
  BY DEF Inv
<1>2. /\ fast' = FastFlushed(fast, page, super)
      /\ UNCHANGED <<roots, tcr, ttr, model, mmu_atc_ways, changes>>
      /\ \/ /\ atc' = flushed /\ tables' = tables
            /\ seen' = [seen EXCEPT ![page][super] = {current}]
         \/ /\ \E way \in ways : atc' = Fill(type, page, super, way, d, flushed)
            /\ tables' = [tables EXCEPT ![roots[super]][page] = d]
            /\ seen' = [History!Grown(tables', roots) EXCEPT ![page][super] = {d}]
  BY DEF PTEST, History!Current
<1>3. current \in Descriptors
  BY <1>1 DEF GuestInv, Tables
<1>4. d \in Descriptors
  BY <1>3, SearchedFacts
<1>5. ways \subseteq Ways
  <2>1. Ways \in SUBSET Nat
    BY AtcAssumption DEF Ways
  <2>2. free \in SUBSET Nat /\ free \subseteq Ways
    BY <2>1
  <2> HIDE DEF free
  <2>3. free # {} => First(free) \in free
    BY <2>2, FirstMember
  <2>4. QED
    BY <2>2, <2>3
<1> HIDE DEF d, current, ways
<1>6. /\ tables' \in Tables /\ seen' \in SeenType
      /\ \A p \in Pages, s \in BOOLEAN : p # page \/ s # super => seen[p][s] \subseteq seen'[p][s]
  <2>1. CASE tables' = tables /\ seen' = [seen EXCEPT ![page][super] = {current}]
    BY <1>1, <1>3, <2>1 DEF GuestInv, SeenType
  <2>2. CASE /\ tables' = [tables EXCEPT ![roots[super]][page] = d]
             /\ seen' = [History!Grown(tables', roots) EXCEPT ![page][super] = {d}]
    <3>1. /\ tables' \in Tables /\ History!Grown(tables', roots) \in SeenType
          /\ Grows(seen, History!Grown(tables', roots))
      BY <1>1, <1>4, <2>2, SearchFacts
    <3>2. QED
      BY <1>4, <2>2, <3>1 DEF Grows, SeenType
  <2>3. QED
    BY <1>2, <2>1, <2>2
<1>7. /\ flushed \in AtcType /\ OneLine(flushed) /\ AtcOK(flushed, seen')
      /\ \A t \in Types, n \in Slots, w \in Ways : ~Holds(flushed[t][n][w], page, super)
  BY <1>1, <1>6, AtcFlushedFacts
<1> HIDE DEF flushed
<1>8. AtcInv'
  <2>1. CASE atc' = flushed
    BY <1>7, <2>1 DEF AtcInv
  <2>2. ASSUME NEW way \in ways, atc' = Fill(type, page, super, way, d, flushed),
               seen' = [History!Grown(tables', roots) EXCEPT ![page][super] = {d}]
        PROVE  AtcInv'
    <3>1. d \in seen'[page][super]
      BY <2>2 DEF History!Grown
    <3>2. Slot[page] \in Slots /\ way \in Ways
      BY <1>5, AtcAssumption
    <3>3. \A w \in Ways \ {way} : ~Holds(flushed[type][Slot[page]][w], page, super)
      BY <1>7, <3>2
    <3>4. QED
      BY <1>4, <1>7, <2>2, <3>1, <3>2, <3>3, FillFacts DEF AtcInv
  <2>3. QED
    BY <1>2, <2>1, <2>2
<1>9. FastInv'
  BY <1>1, <1>2, <1>6, FastFlushedFacts DEF FastInv
<1>10. QED
  BY <1>1, <1>2, <1>6, <1>8, <1>9 DEF Inv, GuestInv, MmuInv

\* Both caches are emptied.
LEMMA EmptiedKeeps ==
  ASSUME Inv, (\E new \in GuestTcrs : SetTcr(new)) \/ Reset
  PROVE  Inv'
<1>1. GuestInv /\ MmuInv
  BY DEF Inv
<1>2. /\ atc' = EmptyAtc /\ fast' = EmptyFast /\ seen' = History!Fresh(tables, roots')
      /\ UNCHANGED <<tables, model, mmu_atc_ways, changes>>
      /\ roots' = roots \/ roots' = [s \in BOOLEAN |-> ResetRoot]
  BY DEF SetTcr, Reset, History!Reset
<1>3. tcr' \in Tcrs /\ ttr' \in Ttrs
  <2>1. CASE Reset
    BY <2>1 DEF Reset, History!Reset, Tcrs, Ttrs, History!Types, Types
  <2>2. ASSUME NEW new \in GuestTcrs, SetTcr(new) PROVE tcr' \in Tcrs /\ ttr' \in Ttrs
    BY <1>1, <2>2, AtcAssumption DEF SetTcr, GuestInv
  <2>3. QED
    BY <2>1, <2>2
<1>4. roots' \in [BOOLEAN -> Roots]
  BY <1>1, <1>2, AtcAssumption DEF GuestInv
<1>5. seen' \in SeenType
  BY <1>1, <1>2, <1>4, FreshFacts DEF GuestInv
<1>6. AtcInv' /\ FastInv'
  BY <1>2, EmptyFacts DEF AtcInv, FastInv
<1>7. QED
  BY <1>1, <1>2, <1>3, <1>4, <1>5, <1>6 DEF Inv, GuestInv, MmuInv

\* No cache is told: what the guest has been shown grows.
LEMMA ChangeKeeps ==
  ASSUME Inv, Change, tables' \in Tables, roots' \in [BOOLEAN -> Roots], tcr' = tcr, ttr' \in Ttrs,
         seen' = seen \/ seen' = History!Grown(tables', roots')
  PROVE  Inv'
<1>1. GuestInv /\ MmuInv /\ AtcInv /\ FastInv
  BY DEF Inv
<1>2. seen' \in SeenType /\ Grows(seen, seen')
  <2>1. CASE seen' = seen
    BY <1>1, <2>1 DEF GuestInv, Grows
  <2>2. CASE seen' = History!Grown(tables', roots')
    BY <1>1, <2>2, GrownFacts DEF GuestInv
  <2>3. QED
    BY <2>1, <2>2
<1>3. changes' \in 0..MaxChanges
  BY <1>1, AtcAssumption DEF Change, MmuInv
<1>4. UNCHANGED <<model, atc, mmu_atc_ways, fast>>
  BY DEF Change
<1>5. AtcInv'
  BY <1>1, <1>2, <1>4, AtcGrows DEF AtcInv
<1>6. FastInv'
  BY <1>1, <1>2, <1>4, FastGrows DEF FastInv
<1>7. QED
  BY <1>1, <1>2, <1>3, <1>4, <1>5, <1>6 DEF Inv, GuestInv, MmuInv

LEMMA SetKeeps ==
  ASSUME Inv,
         \/ \E new \in GuestTtrs : SetTtr(new)
         \/ \E s \in BOOLEAN, r \in Roots : SetRoot(s, r)
         \/ \E r \in Roots, p \in Pages, d \in GuestDescs : SetDescriptor(r, p, d)
  PROVE  Inv'
<1>1. GuestInv
  BY DEF Inv
<1>2. ASSUME NEW new \in GuestTtrs, SetTtr(new) PROVE Inv'
  <2>1. /\ Change /\ ttr' \in Ttrs /\ seen' = seen
        /\ tables' = tables /\ roots' = roots /\ tcr' = tcr
    BY <1>2, AtcAssumption DEF SetTtr
  <2>2. QED
    BY <1>1, <2>1, ChangeKeeps DEF GuestInv
<1>3. ASSUME NEW s \in BOOLEAN, NEW r \in Roots, SetRoot(s, r) PROVE Inv'
  <2>1. /\ Change /\ roots' = [roots EXCEPT ![s] = r] /\ seen' = History!Grown(tables', roots')
        /\ tables' = tables /\ tcr' = tcr /\ ttr' = ttr
    BY <1>3 DEF SetRoot, History!SetRoot
  <2>2. roots' \in [BOOLEAN -> Roots]
    BY <1>1, <2>1 DEF GuestInv
  <2>3. QED
    BY <1>1, <2>1, <2>2, ChangeKeeps DEF GuestInv
<1>4. ASSUME NEW r \in Roots, NEW p \in Pages, NEW d \in GuestDescs, SetDescriptor(r, p, d)
      PROVE  Inv'
  <2>1. /\ Change /\ tables' = [tables EXCEPT ![r][p] = d] /\ seen' = History!Grown(tables', roots')
        /\ roots' = roots /\ tcr' = tcr /\ ttr' = ttr
    BY <1>4 DEF SetDescriptor
  <2>2. tables' \in Tables
    BY <1>1, <2>1, AtcAssumption DEF GuestInv, Tables
  <2>3. QED
    BY <1>1, <2>1, <2>2, ChangeKeeps DEF GuestInv
<1>5. QED
  BY <1>2, <1>3, <1>4
-----------------------------------------------------------------------------
LEMMA KindFacts ==
  ASSUME NEW k \in Kinds
  PROVE  TypeOf(k) \in Types /\ Writes(k) \in BOOLEAN
BY DEF Kinds, TypeOf, Types, Writes

\* An access that changes nothing but last.
LEMMA QuietKeeps ==
  ASSUME Inv,
         UNCHANGED <<tables, roots, tcr, ttr, model, atc, mmu_atc_ways, fast, seen, changes>>
  PROVE  Inv'
BY DEF Inv, GuestInv, MmuInv, AtcInv, FastInv

\* MOVE16 translates as other data accesses do.
LEMMA MOVE16Facts ==
  ASSUME NEW k \in Kinds, NEW page, NEW super, MOVE16(k, page, super)
  PROVE  /\ Translated(ttr, tcr, TypeOf(k), page, super)
         /\ TranslateHit(k, TypeOf(k), page, super, Writes(k))
              \/ TranslateSearch(k, TypeOf(k), page, super, Writes(k))
         /\ UNCHANGED <<roots, tcr, ttr, model, changes>>
<1>1. TypeOf(k) = "data"
  BY DEF MOVE16, TypeOf
<1>2. QED
  BY <1>1 DEF MOVE16

LEMMA AccessKeeps ==
  ASSUME Inv, NEW k \in Kinds, NEW page \in Pages, NEW super \in BOOLEAN,
         AccessDirect(k, page, super) \/ AccessShortcut(k, page, super)
           \/ AccessTranslated(k, page, super) \/ MOVE16(k, page, super)
  PROVE  Inv'
<1>1. CASE AccessDirect(k, page, super) \/ AccessShortcut(k, page, super)
  BY <1>1, QuietKeeps DEF AccessDirect, AccessShortcut
<1>2. CASE AccessTranslated(k, page, super)
  BY <1>2, KindFacts, TranslateHitKeeps, TranslateSearchKeeps DEF AccessTranslated
<1>3. CASE MOVE16(k, page, super)
  BY <1>3, MOVE16Facts, KindFacts, TranslateHitKeeps, TranslateSearchKeeps
<1>4. QED
  BY <1>1, <1>2, <1>3

LEMMA PLPAKeeps ==
  ASSUME Inv, NEW type \in Types, NEW page \in Pages, NEW super \in BOOLEAN, NEW write \in BOOLEAN,
         PLPA(type, page, super, write)
  PROVE  Inv'
<1>1. UNCHANGED <<roots, tcr, ttr, model, changes>>
  BY DEF PLPA
<1>2. CASE TranslateHit("plpa", type, page, super, write)
             \/ TranslateSearch("plpa", type, page, super, write)
  BY <1>1, <1>2, TranslateHitKeeps, TranslateSearchKeeps
<1>3. CASE UNCHANGED <<tables, atc, mmu_atc_ways, fast, seen>>
  BY <1>1, <1>3, QuietKeeps
<1>4. QED
  BY <1>2, <1>3 DEF PLPA

LEMMA InitInv ==
  ASSUME Init
  PROVE  Inv
<1>1. tables \in Tables /\ ResetRoot \in Roots /\ MaxChanges \in Nat /\ ATC_WAYS \in Nat \ {0}
  BY AtcAssumption DEF Init
<1>2. roots \in [BOOLEAN -> Roots]
  BY <1>1 DEF Init
<1>3. seen \in SeenType
  BY <1>1, <1>2, FreshFacts DEF Init
<1>4. tcr \in Tcrs /\ ttr \in Ttrs
  BY DEF Init, Off, TtrsOff, Tcrs, Ttrs
<1>5. MmuInv
  <2>1. 0 \in Ways
    BY <1>1 DEF Ways
  <2>2. 0 \in 0..MaxChanges
    BY <1>1
  <2>3. QED
    BY <2>1, <2>2 DEF Init, MmuInv
<1>6. AtcInv /\ FastInv
  BY EmptyFacts DEF Init, AtcInv, FastInv
<1>7. QED
  BY <1>1, <1>2, <1>3, <1>4, <1>5, <1>6 DEF Inv, GuestInv

LEMMA NextInv ==
  ASSUME Inv, [Next]_vars
  PROVE  Inv'
<1>1. ASSUME NEW k \in Kinds, NEW u \in Uses,
             AccessDirect(k, u[2], u[3]) \/ AccessShortcut(k, u[2], u[3])
               \/ AccessTranslated(k, u[2], u[3]) \/ MOVE16(k, u[2], u[3])
      PROVE  Inv'
  BY <1>1, UsesFacts, AccessKeeps
<1>2. ASSUME NEW u \in Uses, NEW w \in BOOLEAN, PLPA(u[1], u[2], u[3], w) PROVE Inv'
  BY <1>2, UsesFacts, PLPAKeeps
<1>3. ASSUME NEW u \in Uses, NEW w \in BOOLEAN, PTEST(u[1], u[2], u[3], w) PROVE Inv'
  BY <1>3, UsesFacts, PTESTKeeps
<1>4. CASE UNCHANGED vars
  BY <1>4, QuietKeeps DEF vars
<1>5. QED
  BY <1>1, <1>2, <1>3, <1>4, PFLUSHKeeps, PFLUSHAKeeps, EmptiedKeeps, SetKeeps DEF Next

\* The invariants of the run, together, are inductive.
THEOREM InvTheorem == Spec => []Inv
<1>1. Init => Inv
  BY InitInv
<1>2. Inv /\ [Next]_vars => Inv'
  BY NextInv
<1>3. QED
  BY <1>1, <1>2, PTL DEF Spec

\* The variables keep their types: no way beyond the last is ever saved or filled.
THEOREM TypeTheorem == Spec => []TypeOK
<1>1. Inv => TypeOK
  BY InvImplies
<1>2. QED
  BY <1>1, InvTheorem, PTL

(***************************************************************************)
(* No slot holds a page twice, for any number of ways: the way a table     *)
(* search fills is the page's own if it has one, since the scan from the   *)
(* way last used meets every way.                                          *)
(***************************************************************************)
THEOREM OneLineTheorem == Spec => []OneLinePerPage
<1>1. Inv => OneLinePerPage
  BY InvImplies
<1>2. QED
  BY <1>1, InvTheorem, PTL

(***************************************************************************)
(* A line holds a descriptor its page has had since the guest last flushed *)
(* it: PFLUSH, PFLUSHA, PTEST and MOVEC to TC leave no older one behind.   *)
(***************************************************************************)
THEOREM LinesTheorem == Spec => []LinesNotStale
<1>1. Inv => LinesNotStale
  BY InvImplies
<1>2. QED
  BY <1>1, InvTheorem, PTL

(***************************************************************************)
(* An entry of a shortcut cache stands for a descriptor since the last     *)
(* flush that permits the access, for a write one that is marked modified. *)
(***************************************************************************)
THEOREM ShortcutsTheorem == Spec => []ShortcutsNotStale
<1>1. Inv => ShortcutsNotStale
  BY InvImplies
<1>2. QED
  BY <1>1, InvTheorem, PTL
-----------------------------------------------------------------------------
(***************************************************************************)
(* The caches implement AddressSpace.                                      *)
(***************************************************************************)
LEMMA SameTerms ==
  /\ History!Tables = Tables /\ History!Tcrs = Tcrs /\ History!Ttrs = Ttrs
  /\ History!Types = Types /\ History!Kinds = Kinds
  /\ \A k : History!TypeOf(k) = TypeOf(k) /\ (History!Writes(k) <=> Writes(k))
  /\ \A d, s, w : History!Outcome(d, s, w) = Outcome(d, s, w)
  /\ \A d, s, w : History!Searched(d, s, w) = Searched(d, s, w)
  /\ \A a, b, t, p, s : History!WriteFault(a, b, t, p, s) <=> WriteFault(a, b, t, p, s)
  /\ \A a, b, t, p, s, w : History!TtrFault(a, b, t, p, s, w) <=> TtrFault(a, b, t, p, s, w)
  /\ \A a, b, t, p, s : History!Translated(a, b, t, p, s) <=> Translated(a, b, t, p, s)
<1>1. History!Types = Types /\ History!Kinds = Kinds /\ History!Descriptors = Descriptors
  BY DEF History!Types, Types, History!Kinds, Kinds, History!Descriptors, Descriptors
<1>2. History!Tables = Tables /\ History!Tcrs = Tcrs /\ History!Ttrs = Ttrs
  BY <1>1 DEF History!Tables, Tables, History!Tcrs, Tcrs, History!Ttrs, Ttrs
<1>3. \A k : History!TypeOf(k) = TypeOf(k) /\ (History!Writes(k) <=> Writes(k))
  BY DEF History!TypeOf, TypeOf, History!Writes, Writes
<1>4. \A d, s, w : History!Denied(d, s, w) <=> Denied(d, s, w)
  BY DEF History!Denied, Denied
<1>5. \A d, s, w : History!Outcome(d, s, w) = Outcome(d, s, w)
  BY <1>4 DEF History!Outcome, Outcome
<1>6. \A d, s, w : History!Searched(d, s, w) = Searched(d, s, w)
  BY <1>4 DEF History!Searched, Searched
<1>7. \A a, b, t, p, s : History!WriteFault(a, b, t, p, s) <=> WriteFault(a, b, t, p, s)
  BY DEF History!WriteFault, WriteFault
<1>8. \A a, b, t, p, s, w : History!TtrFault(a, b, t, p, s, w) <=> TtrFault(a, b, t, p, s, w)
  BY <1>1, <1>7 DEF History!TtrFault, TtrFault
<1>9. \A a, b, t, p, s : History!Translated(a, b, t, p, s) <=> Translated(a, b, t, p, s)
  BY DEF History!Translated, Translated
<1>10. QED
  BY <1>1, <1>2, <1>3, <1>5, <1>6, <1>7, <1>8, <1>9

LEMMA ReportFacts ==
  ASSUME NEW kind \in Kinds \cup {"plpa", "ptest"}, NEW page \in Pages, NEW super \in BOOLEAN,
         NEW out \in Phys \cup Descriptors \cup {Fault, Direct},
         last' = [kind |-> kind, page |-> page, super |-> super, out |-> out]
  PROVE  History!Report(kind, page, super) /\ last'.out = out
<1>1. last' \in [kind : Kinds \cup {"plpa", "ptest"}, page : Pages, super : BOOLEAN,
                 out : Phys \cup Descriptors \cup {Fault, Direct}]
  OBVIOUS
<1>2. last' # None
  BY <1>1, AtcAssumption
<1>3. QED
  BY <1>2 DEF History!Report

LEMMA OutcomeType ==
  ASSUME NEW d \in Descriptors, NEW super, NEW write
  PROVE  Outcome(d, super, write) \in Phys \cup Descriptors \cup {Fault, Direct}
BY DEF Outcome, Descriptors

\* mmu_translate, with or without a table search.
LEMMA TranslateRefines ==
  ASSUME Inv, NEW kind \in Kinds \cup {"plpa", "ptest"}, NEW type \in Types, NEW page \in Pages,
         NEW super \in BOOLEAN, NEW write \in BOOLEAN,
         TranslateHit(kind, type, page, super, write)
           \/ TranslateSearch(kind, type, page, super, write),
         UNCHANGED <<roots, tcr, ttr, model, changes>>
  PROVE  /\ History!Report(kind, page, super)
         /\ History!Translate(page, super, write, last'.out)
<1>1. CASE TranslateHit(kind, type, page, super, write)
  <2>1. UNCHANGED <<tables, seen>>
    BY <1>1, TranslateHitKeeps
  <2>2. PICK d \in seen[page][super] :
          /\ last' = [kind |-> kind, page |-> page, super |-> super,
                      out |-> Outcome(d, super, write)]
          /\ ~Denied(d, super, write) /\ write => d.m
    BY <1>1, TranslateHitKeeps
  <2>3. d \in Descriptors
    BY DEF Inv, GuestInv, SeenType
  <2>4. Outcome(d, super, write) \in Phys \cup Descriptors \cup {Fault, Direct}
    BY <2>3, OutcomeType
  <2>5. History!Report(kind, page, super) /\ last'.out = Outcome(d, super, write)
    BY <2>2, <2>4, ReportFacts
  <2>6. last'.out # Fault /\ write => d.m
    BY <2>2, <2>5 DEF Outcome
  <2>7. last'.out = History!Outcome(d, super, write)
    BY <2>5, SameTerms
  <2>8. History!Translate(page, super, write, last'.out)
    BY <2>1, <2>6, <2>7 DEF History!Translate
  <2>9. QED
    BY <2>5, <2>8
<1>2. CASE TranslateSearch(kind, type, page, super, write)
  <2>1. /\ Inv' /\ History!Search(page, super, write)
        /\ last' = [kind |-> kind, page |-> page, super |-> super,
                    out |-> Outcome(tables'[roots[super]][page], super, write)]
    BY <1>2, TranslateSearchKeeps
  <2>2. tables'[roots[super]][page] \in Descriptors
    BY <2>1 DEF Inv, GuestInv, Tables
  <2>3. PICK d \in Descriptors : d = tables'[roots[super]][page]
    BY <2>2
  <2>4. Outcome(d, super, write) \in Phys \cup Descriptors \cup {Fault, Direct}
    BY <2>3, OutcomeType
  <2>5. History!Report(kind, page, super) /\ last'.out = Outcome(d, super, write)
    BY <2>1, <2>3, <2>4, ReportFacts
  <2>6. last'.out = History!Outcome(tables'[roots[super]][page], super, write)
    BY <2>3, <2>5, SameTerms
  <2>7. QED
    BY <2>1, <2>5, <2>6 DEF History!Translate
<1>3. QED
  BY <1>1, <1>2

\* The shortcut that answers stands for a descriptor the guest has been shown.
LEMMA ShortcutFacts ==
  ASSUME Inv, NEW k \in Kinds, NEW page \in Pages, NEW super \in BOOLEAN,
         ShortcutHits(k, page, super)
  PROVE  /\ Shortcut(k, page, super).phys \in Phys
         /\ \E d \in seen[page][super] :
              /\ d.phys = Shortcut(k, page, super).phys
              /\ ~Denied(d, super, k = "write") /\ (k = "write" => d.m)
<1> DEFINE e == Shortcut(k, page, super)
<1>1. Indexed(page, super) \in Indexes
  BY DEF Indexed, Indexes
<1>2. e \in Entries \cup {None} /\ Justified(e, k = "write", seen)
  <2>1. CASE k = "fetch"
    BY <2>1 DEF Shortcut, Inv, FastInv, FastType, FastOK
  <2>2. CASE k = "write"
    BY <1>1, <2>2 DEF Shortcut, Inv, FastInv, FastType, FastOK
  <2>3. CASE k \notin {"fetch", "write"}
    BY <1>1, <2>3 DEF Shortcut, Inv, FastInv, FastType, FastOK
  <2>4. QED
    BY <2>1, <2>2, <2>3
<1>3. e # None /\ e.page = page /\ e.super = super
  BY DEF ShortcutHits, Holds
<1>4. QED
  BY <1>2, <1>3, EntryFacts DEF Justified

LEMMA AccessRefines ==
  ASSUME Inv, NEW k \in Kinds, NEW page \in Pages, NEW super \in BOOLEAN,
         AccessDirect(k, page, super) \/ AccessShortcut(k, page, super)
           \/ AccessTranslated(k, page, super) \/ MOVE16(k, page, super)
  PROVE  History!Access(k, page, super)
<1> DEFINE type == TypeOf(k)
           write == Writes(k)
<1>1. /\ type \in Types /\ write \in BOOLEAN
      /\ type = History!TypeOf(k) /\ (write <=> History!Writes(k))
  BY KindFacts, SameTerms
<1>2. UNCHANGED <<roots, tcr, ttr>>
  BY DEF AccessDirect, AccessShortcut, AccessTranslated, MOVE16
<1>3. Translated(ttr, tcr, type, page, super) => ~TtrFault(ttr, tcr, type, page, super, write)
  BY DEF Translated, TtrFault, WriteFault
<1>4. SUFFICES
        /\ History!Report(k, page, super)
        /\ IF TtrFault(ttr, tcr, type, page, super, write)
           THEN last'.out = Fault /\ UNCHANGED <<tables, seen>>
           ELSE IF Translated(ttr, tcr, type, page, super)
           THEN \/ History!Translate(page, super, write, last'.out)
                \/ k = "rmw" /\ History!Translate(page, super, FALSE, last'.out)
           ELSE last'.out = Direct /\ UNCHANGED <<tables, seen>>
  BY <1>1, <1>2, SameTerms DEF History!Access, History!TypeOf, TypeOf, History!Writes, Writes
<1> HIDE DEF type, write
<1>5. CASE AccessDirect(k, page, super)
  <2> DEFINE fault == TtrFault(ttr, tcr, type, page, super, write)
             out == IF fault THEN Fault ELSE Direct
  <2>1. /\ fault \/ ~Translated(ttr, tcr, type, page, super)
        /\ last' = [kind |-> k, page |-> page, super |-> super, out |-> out]
        /\ UNCHANGED <<tables, seen>>
    BY <1>5 DEF AccessDirect, Report, type, write
  <2>2. out \in Phys \cup Descriptors \cup {Fault, Direct}
    OBVIOUS
  <2> HIDE DEF out
  <2>3. History!Report(k, page, super) /\ last'.out = out
    BY <2>1, <2>2, ReportFacts
  <2>4. QED
    BY <2>1, <2>3 DEF out
<1>6. CASE AccessShortcut(k, page, super)
  <2> DEFINE out == Shortcut(k, page, super).phys
  <2>1. /\ Translated(ttr, tcr, type, page, super) /\ ShortcutHits(k, page, super)
        /\ last' = [kind |-> k, page |-> page, super |-> super, out |-> out]
        /\ UNCHANGED <<tables, seen>>
    BY <1>6 DEF AccessShortcut, Report, type
  <2>2. out \in Phys
    BY <2>1, ShortcutFacts
  <2>3. PICK d \in seen[page][super] :
          d.phys = out /\ ~Denied(d, super, k = "write") /\ (k = "write" => d.m)
    BY <2>1, ShortcutFacts
  <2> HIDE DEF out
  <2>4. History!Report(k, page, super) /\ last'.out = out
    BY <2>1, <2>2, ReportFacts
  <2>5. out = Outcome(d, super, k = "write")
    BY <2>3 DEF Outcome
  <2>6. History!Translate(page, super, k = "write", last'.out)
    BY <2>1, <2>3, <2>4, <2>5, SameTerms DEF History!Translate
  <2>7. k = "rmw" \/ (write <=> k = "write")
    BY DEF write, Writes
  <2>8. QED
    <3>1. CASE k = "rmw"
      <4>1. (k = "write") = FALSE
        BY <3>1
      <4>2. History!Translate(page, super, FALSE, last'.out)
        BY <2>6, <4>1
      <4>3. QED
        BY <1>3, <2>1, <2>4, <3>1, <4>2
    <3>2. CASE k # "rmw"
      <4>1. (k = "write") = write
        BY <1>1, <2>7, <3>2
      <4>2. History!Translate(page, super, write, last'.out)
        BY <2>6, <4>1
      <4>3. QED
        BY <1>3, <2>1, <2>4, <4>2
    <3>3. QED
      BY <3>1, <3>2
<1>7. CASE AccessTranslated(k, page, super) \/ MOVE16(k, page, super)
  <2>1. /\ Translated(ttr, tcr, type, page, super)
        /\ TranslateHit(k, type, page, super, write) \/ TranslateSearch(k, type, page, super, write)
        /\ UNCHANGED <<roots, tcr, ttr, model, changes>>
    BY <1>7, MOVE16Facts DEF AccessTranslated, type, write
  <2>2. History!Report(k, page, super) /\ History!Translate(page, super, write, last'.out)
    BY <1>1, <2>1, TranslateRefines
  <2>3. QED
    BY <1>3, <2>1, <2>2
<1>8. QED
  BY <1>5, <1>6, <1>7

LEMMA PLPARefines ==
  ASSUME Inv, NEW type \in Types, NEW page \in Pages, NEW super \in BOOLEAN, NEW write \in BOOLEAN,
         PLPA(type, page, super, write)
  PROVE  History!Plpa(type, page, super, write)
<1> DEFINE fault == write /\ WriteFault(ttr, tcr, type, page, super)
           match == ttr[type][page][super] # "noMatch"
<1>1. UNCHANGED <<roots, tcr, ttr, model, changes>>
  BY DEF PLPA
<1>2. "plpa" \in Kinds \cup {"plpa", "ptest"}
  OBVIOUS
<1>3. SUFFICES
        /\ History!Report("plpa", page, super)
        /\ IF fault THEN last'.out = Fault /\ UNCHANGED <<tables, seen>>
           ELSE IF ~match THEN History!Translate(page, super, write, last'.out)
           ELSE last'.out = Direct /\ UNCHANGED <<tables, seen>>
  BY <1>1, SameTerms DEF History!Plpa
<1>4. CASE fault \/ match
  <2> DEFINE out == IF fault THEN Fault ELSE Direct
  <2>1. /\ last' = [kind |-> "plpa", page |-> page, super |-> super, out |-> out]
        /\ UNCHANGED <<tables, seen>>
    BY <1>4 DEF PLPA, Report
  <2>2. out \in Phys \cup Descriptors \cup {Fault, Direct}
    OBVIOUS
  <2> HIDE DEF out
  <2>3. History!Report("plpa", page, super) /\ last'.out = out
    BY <1>2, <2>1, <2>2, ReportFacts
  <2>4. QED
    BY <1>4, <2>1, <2>3 DEF out
<1>5. CASE ~(fault \/ match)
  <2>1. TranslateHit("plpa", type, page, super, write)
          \/ TranslateSearch("plpa", type, page, super, write)
    BY <1>5 DEF PLPA
  <2>2. History!Report("plpa", page, super) /\ History!Translate(page, super, write, last'.out)
    BY <1>1, <1>2, <2>1, TranslateRefines
  <2>3. QED
    BY <1>5, <2>2
<1>6. QED
  BY <1>4, <1>5

LEMMA PTESTRefines ==
  ASSUME Inv, NEW type \in Types, NEW page \in Pages, NEW super \in BOOLEAN, NEW write \in BOOLEAN,
         PTEST(type, page, super, write)
  PROVE  History!PTest(type, page, super, write)
<1> DEFINE current == tables[roots[super]][page]
           d == Searched(current, super, write)
<1>1. current \in Descriptors
  BY DEF Inv, GuestInv, Tables
<1>2. d \in Descriptors /\ d = History!Searched(History!Current(page, super), super, write)
  BY <1>1, SearchedFacts, SameTerms DEF History!Current
<1>3. UNCHANGED <<roots, tcr, ttr>> /\ "ptest" \in Kinds \cup {"plpa", "ptest"}
  BY DEF PTEST
<1> HIDE DEF d
<1>4. CASE ttr[type][page][super] # "noMatch"
  <2> DEFINE out == IF ttr[type][page][super] = "noWrite" /\ write THEN Fault ELSE Direct
  <2>1. /\ last' = [kind |-> "ptest", page |-> page, super |-> super, out |-> out]
        /\ seen' = [seen EXCEPT ![page][super] = {History!Current(page, super)}]
        /\ UNCHANGED tables
    BY <1>4 DEF PTEST, Report
  <2>2. out \in Phys \cup Descriptors \cup {Fault, Direct}
    OBVIOUS
  <2> HIDE DEF out
  <2>3. History!Report("ptest", page, super) /\ last'.out = out
    BY <1>3, <2>1, <2>2, ReportFacts
  <2>4. QED
    BY <1>3, <1>4, <2>1, <2>3 DEF History!PTest, out
<1>5. CASE ttr[type][page][super] = "noMatch"
  <2>1. /\ last' = [kind |-> "ptest", page |-> page, super |-> super, out |-> d]
        /\ tables' = [tables EXCEPT ![roots[super]][page] = d]
        /\ seen' = [History!Grown(tables', roots) EXCEPT ![page][super] = {d}]
    BY <1>5 DEF PTEST, Report, d, History!Current
  <2>2. d \in Phys \cup Descriptors \cup {Fault, Direct}
    BY <1>2
  <2>3. History!Report("ptest", page, super) /\ last'.out = d
    BY <1>3, <2>1, <2>2, ReportFacts
  <2>4. QED
    BY <1>2, <1>3, <1>5, <2>1, <2>3 DEF History!PTest
<1>6. QED
  BY <1>4, <1>5

LEMMA SetRefines ==
  ASSUME Inv
  PROVE  /\ \A new \in GuestTcrs : SetTcr(new) => History!SetTcr
         /\ \A new \in GuestTtrs : SetTtr(new) => History!SetTtr
         /\ \A r \in Roots, p \in Pages, d \in GuestDescs :
              SetDescriptor(r, p, d) => History!SetDescriptor(r, p)
<1>1. \A new \in GuestTcrs : SetTcr(new) => History!SetTcr
  BY AtcAssumption, SameTerms DEF SetTcr, History!SetTcr
<1>2. \A new \in GuestTtrs : SetTtr(new) => History!SetTtr
  BY AtcAssumption, SameTerms DEF SetTtr, History!SetTtr
<1>3. ASSUME NEW r \in Roots, NEW p \in Pages, NEW d \in GuestDescs, SetDescriptor(r, p, d)
      PROVE  History!SetDescriptor(r, p)
  <2>1. /\ last' = None /\ seen' = History!Grown(tables', roots) /\ UNCHANGED <<roots, tcr, ttr>>
        /\ tables' = [tables EXCEPT ![r][p] = d]
    BY <1>3 DEF SetDescriptor
  <2>2. tables \in Tables /\ d \in Descriptors
    BY AtcAssumption DEF Inv, GuestInv
  <2>3. tables' \in Tables /\ tables'[r][p] = d
    BY <2>1, <2>2 DEF Tables
  <2>4. QED
    BY <2>1, <2>3, SameTerms DEF History!SetDescriptor
<1>4. QED
  BY <1>1, <1>2, <1>3

LEMMA StepRefines ==
  ASSUME Inv, [Next]_vars
  PROVE  History!Next \/ UNCHANGED History!vars
<1>1. ASSUME NEW k \in Kinds, NEW u \in Uses,
             AccessDirect(k, u[2], u[3]) \/ AccessShortcut(k, u[2], u[3])
               \/ AccessTranslated(k, u[2], u[3]) \/ MOVE16(k, u[2], u[3])
      PROVE  History!Next
  BY <1>1, UsesFacts, AccessRefines, SameTerms DEF History!Next
<1>2. ASSUME NEW u \in Uses, NEW w \in BOOLEAN, PLPA(u[1], u[2], u[3], w) PROVE History!Next
  BY <1>2, UsesFacts, PLPARefines, SameTerms DEF History!Next
<1>3. ASSUME NEW u \in Uses, NEW w \in BOOLEAN, PTEST(u[1], u[2], u[3], w) PROVE History!Next
  BY <1>3, UsesFacts, PTESTRefines, SameTerms DEF History!Next
<1>4. ASSUME NEW p \in Pages, NEW s \in BOOLEAN, NEW g \in BOOLEAN, PFLUSH(p, s, g)
      PROVE  History!Next
  BY <1>4 DEF PFLUSH, History!Next
<1>5. ASSUME NEW g \in BOOLEAN, PFLUSHA(g) PROVE History!Next
  BY <1>5 DEF PFLUSHA, History!Next
<1>6. ASSUME NEW new \in GuestTcrs, SetTcr(new) PROVE History!Next
  BY <1>6, SetRefines DEF History!Next
<1>7. ASSUME NEW new \in GuestTtrs, SetTtr(new) PROVE History!Next
  BY <1>7, SetRefines DEF History!Next
<1>8. ASSUME NEW s \in BOOLEAN, NEW r \in Roots, SetRoot(s, r) PROVE History!Next
  BY <1>8 DEF SetRoot, History!Next
<1>9. ASSUME NEW r \in Roots, NEW p \in Pages, NEW d \in GuestDescs, SetDescriptor(r, p, d)
      PROVE  History!Next
  BY <1>9, SetRefines DEF History!Next
<1>10. ASSUME Reset PROVE History!Next
  BY <1>10, AtcAssumption DEF Reset, History!Next
<1>11. CASE UNCHANGED vars
  BY <1>11 DEF vars, History!vars
<1>12. QED
  BY <1>1, <1>2, <1>3, <1>4, <1>5, <1>6, <1>7, <1>8, <1>9, <1>10, <1>11 DEF Next

LEMMA InitRefines ==
  ASSUME Init
  PROVE  History!Init
<1>1. GuestInv
  BY InitInv DEF Inv
<1>2. QED
  BY <1>1, SameTerms DEF Init, History!Init, GuestInv

(***************************************************************************)
(* The 68040 and 68060 MMU with its caches is one the guest can program by *)
(* AddressSpace: every translation comes from the tables or from a         *)
(* descriptor the page has had since its last flush, whatever the number   *)
(* of ways and slots and whichever way is replaced.                        *)
(***************************************************************************)
THEOREM RefinementTheorem == Spec => ImplementsAddressSpace
<1>1. Init => History!Init
  BY InitRefines
<1>2. Inv /\ [Next]_vars => [History!Next]_(History!vars)
  BY StepRefines
<1>3. QED
  BY <1>1, <1>2, InvTheorem, PTL DEF Spec, ImplementsAddressSpace, History!Spec
=============================================================================
