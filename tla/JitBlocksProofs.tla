-------------------------- MODULE JitBlocksProofs ---------------------------
(***************************************************************************)
(* The translation cache of the x86 JIT, for any number of blocks, tags    *)
(* and contents and any graph of jumps: lists, tags and jumps agree, no    *)
(* stale translation runs, and the cache implements CodeCache.             *)
(***************************************************************************)
EXTENDS JitBlocks, FiniteSetTheorems, SequenceTheorems, WellFoundedInduction, TLAPS

-----------------------------------------------------------------------------
(***************************************************************************)
(* The recursion of block_check_checksum and called_check_checksum.        *)
(***************************************************************************)
LEMMA LeastMember ==
  ASSUME NEW S \in SUBSET Nat, S # {}
  PROVE  \E x \in S : \A y \in S : x <= y
<1>1. PICK x \in S : \A y \in S : ~(<<y, x>> \in OpToRel(<, Nat))
  BY NatLessThanWellFounded, WFMin
<1>2. \A y \in S : ~(y < x)
  BY <1>1 DEF OpToRel
<1>3. QED
  BY <1>2

\* Calls that nest n deep, when g has those that nest less deep.
Level(g, n) ==
  [x \in Jits \X Pcs |-> IF n = 0 THEN [j |-> x[1], good |-> TRUE]
                         ELSE CheckWith(g[n - 1], x[1], x[2])]

\* The part of Nested up to n.
UpTo(g, n) == g = [i \in 0..n |-> Level(g, i)]

LEMMA LevelCongruent ==
  ASSUME NEW g, NEW h, NEW n \in Nat, n # 0 => g[n - 1] = h[n - 1]
  PROVE  Level(g, n) = Level(h, n)
BY DEF Level

LEMMA UpToAt ==
  ASSUME NEW n \in Nat, NEW g, UpTo(g, n), NEW i \in 0..n
  PROVE  g[i] = Level(g, i)
<1> DEFINE f == [k \in 0..n |-> Level(g, k)]
<1>1. f[i] = Level(g, i)
  OBVIOUS
<1>2. g = f
  BY DEF UpTo
<1> HIDE DEF f
<1>3. QED
  BY <1>1, <1>2

LEMMA UpToUnique ==
  ASSUME NEW m \in Nat, NEW n \in Nat, NEW g, NEW h, UpTo(g, m), UpTo(h, n),
         NEW k \in Nat, k <= m, k <= n
  PROVE  g[k] = h[k]
<1> DEFINE Bad == {i \in Nat : i <= m /\ i <= n /\ g[i] # h[i]}
<1>1. SUFFICES ASSUME Bad # {} PROVE FALSE
  OBVIOUS
<1>2. PICK i \in Bad : \A l \in Bad : i <= l
  BY <1>1, LeastMember
<1>3. g[i] = Level(g, i) /\ h[i] = Level(h, i)
  BY <1>2, UpToAt
<1>4. i # 0 => g[i - 1] = h[i - 1]
  BY <1>2
<1>5. QED
  BY <1>2, <1>3, <1>4, LevelCongruent

LEMMA UpToExists ==
  ASSUME NEW n \in Nat
  PROVE  \E g : UpTo(g, n)
<1> DEFINE Bad == {i \in Nat : ~ \E g : UpTo(g, i)}
<1>1. SUFFICES ASSUME Bad # {} PROVE FALSE
  OBVIOUS
<1>2. PICK i \in Bad : \A l \in Bad : i <= l
  BY <1>1, LeastMember
<1>3. CASE i = 0
  <2> DEFINE g == [k \in 0..0 |-> Level(<<>>, 0)]
  <2>1. Level(g, 0) = Level(<<>>, 0)
    BY LevelCongruent
  <2>2. \A k \in 0..0 : Level(g, k) = Level(<<>>, 0)
    BY <2>1
  <2> HIDE DEF UpTo
  <2>3. g = [k \in 0..0 |-> Level(g, k)]
    BY <2>2
  <2>4. UpTo(g, i)
    BY <1>3, <2>3 DEF UpTo
  <2>5. QED
    BY <1>2, <2>4
<1>4. CASE i # 0
  <2>1. PICK g : UpTo(g, i - 1)
    BY <1>2, <1>4
  <2> DEFINE h == [k \in 0..i |-> IF k = i THEN Level(g, i) ELSE g[k]]
  <2>2. ASSUME NEW k \in 0..i PROVE h[k] = Level(h, k)
    <3>1. k # 0 => h[k - 1] = g[k - 1]
      BY <1>2
    <3> HIDE DEF h
    <3>2. Level(h, k) = Level(g, k)
      BY <3>1, <1>2, LevelCongruent
    <3>3. k # i => g[k] = Level(g, k)
      BY <1>2, <1>4, <2>1, UpToAt
    <3>4. QED
      BY <3>2, <3>3 DEF h
  <2>3. h = [k \in 0..i |-> Level(h, k)]
    BY <2>2
  <2>4. UpTo(h, i)
    BY <2>3 DEF UpTo
  <2>5. QED
    BY <1>2, <2>4
<1>5. QED
  BY <1>3, <1>4

LEMMA NestedDef == Nested = [n \in Nat |-> Level(Nested, n)]
<1> DEFINE part(n) == CHOOSE g : UpTo(g, n)
           f == [n \in Nat |-> part(n)[n]]
<1>1. \A n \in Nat : UpTo(part(n), n)
  BY UpToExists
<1> HIDE DEF part
<1>2. ASSUME NEW n \in Nat PROVE f[n] = Level(f, n)
  <2>1. f[n] = Level(part(n), n)
    BY <1>1, UpToAt
  <2>2. n # 0 => f[n - 1] = part(n)[n - 1]
    BY <1>1, UpToUnique
  <2>3. QED
    BY <2>1, <2>2, LevelCongruent
<1>3. f = [n \in Nat |-> Level(f, n)]
  BY <1>2
<1> HIDE DEF f
<1>4. \E g : g = [n \in Nat |-> Level(g, n)]
  BY <1>3
<1>5. QED
  BY <1>4, Zenon DEF Nested, Level

\* One call, in terms of calls that nest one less deep.
LEMMA NestedStep ==
  ASSUME NEW n \in Nat, NEW j \in Jits, NEW p \in Pcs
  PROVE  /\ Nested[0][<<j, p>>] = [j |-> j, good |-> TRUE]
         /\ Nested[n + 1][<<j, p>>] = CheckWith(Nested[n], j, p)
<1>1. Nested[0] = Level(Nested, 0) /\ Nested[n + 1] = Level(Nested, n + 1)
  BY NestedDef
<1> DEFINE x == <<j, p>>
<1>2. x \in Jits \X Pcs /\ x[1] = j /\ x[2] = p
  OBVIOUS
<1> HIDE DEF x
<1>3. Level(Nested, 0)[x] = [j |-> j, good |-> TRUE]
  BY <1>2 DEF Level
<1>4. n + 1 # 0 /\ (n + 1) - 1 = n
  OBVIOUS
<1>5. Level(Nested, n + 1)[x] = CheckWith(Nested[n], j, p)
  BY <1>2, <1>4 DEF Level
<1>6. QED
  BY <1>1, <1>3, <1>5 DEF x

-----------------------------------------------------------------------------
(***************************************************************************)
(* The list of a tag, and the blocks.                                      *)
(***************************************************************************)
LEMMA RemoveAtFacts ==
  ASSUME NEW s \in Seq(Pcs), NEW m \in 1..Len(s)
  PROVE  /\ RemoveAt(s, m) \in Seq(Pcs)
         /\ Len(RemoveAt(s, m)) = Len(s) - 1
         /\ \A i \in 1..(Len(s) - 1) : RemoveAt(s, m)[i] = IF i < m THEN s[i] ELSE s[i + 1]
<1> DEFINE a == SubSeq(s, 1, m - 1)
           b == SubSeq(s, m + 1, Len(s))
<1>1. Len(s) \in Nat /\ m \in Nat /\ \A i \in 1..Len(s) : s[i] \in Pcs
  BY LenProperties, ElementOfSeq
<1>2. /\ a \in Seq(Pcs) /\ Len(a) = m - 1
      /\ \A i \in 1..(m - 1) : a[i] = s[i]
  <2>1. \A i \in 1..(m - 1) : s[i] \in Pcs
    BY <1>1
  <2>2. /\ a \in Seq(Pcs) /\ Len(a) = IF 1 <= m - 1 THEN (m - 1) - 1 + 1 ELSE 0
        /\ \A i \in 1..((m - 1) - 1 + 1) : a[i] = s[1 + i - 1]
    BY <1>1, <2>1, SubSeqProperties
  <2>3. QED
    BY <1>1, <2>2
<1>3. /\ b \in Seq(Pcs) /\ Len(b) = Len(s) - m
      /\ \A i \in 1..(Len(s) - m) : b[i] = s[m + i]
  <2>1. \A i \in (m + 1)..Len(s) : s[i] \in Pcs
    BY <1>1
  <2>2. /\ b \in Seq(Pcs) /\ Len(b) = IF m + 1 <= Len(s) THEN Len(s) - (m + 1) + 1 ELSE 0
        /\ \A i \in 1..(Len(s) - (m + 1) + 1) : b[i] = s[(m + 1) + i - 1]
    BY <1>1, <2>1, SubSeqProperties
  <2>3. QED
    BY <1>1, <2>2
<1> HIDE DEF a, b
<1>4. /\ a \o b \in Seq(Pcs) /\ Len(a \o b) = Len(a) + Len(b)
      /\ \A i \in 1..(Len(a) + Len(b)) : (a \o b)[i] = IF i <= Len(a) THEN a[i] ELSE b[i - Len(a)]
  BY <1>2, <1>3, ConcatProperties
<1>5. RemoveAt(s, m) = a \o b
  BY DEF RemoveAt, a, b
<1>6. ASSUME NEW i \in 1..(Len(s) - 1)
      PROVE  (a \o b)[i] = IF i < m THEN s[i] ELSE s[i + 1]
  <2>1. i \in 1..(Len(a) + Len(b))
    BY <1>1, <1>2, <1>3
  <2>2. CASE i < m
    BY <1>1, <1>2, <1>4, <2>1, <2>2
  <2>3. CASE ~(i < m)
    <3>1. i - Len(a) \in 1..(Len(s) - m) /\ m + (i - Len(a)) = i + 1 /\ ~(i <= Len(a))
      BY <1>1, <1>2, <2>3
    <3>2. QED
      BY <1>3, <1>4, <2>1, <2>3, <3>1
  <2>4. QED
    BY <2>2, <2>3
<1>7. Len(a) + Len(b) = Len(s) - 1
  BY <1>1, <1>2, <1>3
<1>8. QED
  BY <1>4, <1>5, <1>6, <1>7

\* A block raised to the head of a list.
LEMMA RaisedFacts ==
  ASSUME NEW s \in Seq(Pcs), IsInjective(s), NEW p \in Pcs
  PROVE  LET t == <<p>> \o Without(s, p) IN
         /\ t \in Seq(Pcs) /\ t # <<>> /\ Head(t) = p /\ IsInjective(t)
         /\ \A q \in Pcs : (\E i \in DOMAIN t : t[i] = q) <=> q = p \/ \E i \in DOMAIN s : s[i] = q
<1> DEFINE w == Without(s, p)
           t == <<p>> \o w
<1>1. Len(s) \in Nat /\ DOMAIN s = 1..Len(s) /\ \A i \in 1..Len(s) : s[i] \in Pcs
  BY LenProperties, ElementOfSeq
<1>2. /\ w \in Seq(Pcs) /\ IsInjective(w)
      /\ \A i \in DOMAIN w : w[i] # p
      /\ \A q \in Pcs : q # p => ((\E i \in DOMAIN w : w[i] = q) <=> \E i \in DOMAIN s : s[i] = q)
  <2>1. CASE \E i \in DOMAIN s : s[i] = p
    <3> DEFINE m == CHOOSE i \in DOMAIN s : s[i] = p
    <3>1. m \in 1..Len(s) /\ s[m] = p
      BY <1>1, <2>1
    <3>2. w = RemoveAt(s, m)
      BY <2>1 DEF Without
    <3> HIDE DEF m, w
    <3>3. /\ w \in Seq(Pcs) /\ Len(w) = Len(s) - 1
          /\ \A i \in 1..(Len(s) - 1) : w[i] = IF i < m THEN s[i] ELSE s[i + 1]
      BY <3>1, <3>2, RemoveAtFacts
    <3>4. DOMAIN w = 1..(Len(s) - 1)
      BY <3>3, LenProperties
    <3>5. \A i \in 1..Len(s) : s[i] = p => i = m
      BY <1>1, <3>1 DEF IsInjective
    <3>6. \A i \in DOMAIN w : w[i] # p
      BY <1>1, <3>1, <3>3, <3>4, <3>5
    <3>7. IsInjective(w)
      <4> SUFFICES ASSUME NEW c \in DOMAIN w, NEW d \in DOMAIN w, w[c] = w[d] PROVE c = d
        BY DEF IsInjective
      <4>1. \A x, y \in 1..Len(s) : s[x] = s[y] => x = y
        BY <1>1 DEF IsInjective
      <4>2. QED
        BY <1>1, <3>1, <3>3, <3>4, <4>1
    <3>8. ASSUME NEW q \in Pcs, q # p
          PROVE  (\E i \in DOMAIN w : w[i] = q) <=> \E i \in DOMAIN s : s[i] = q
      <4>1. ASSUME NEW i \in DOMAIN w, w[i] = q PROVE \E x \in DOMAIN s : s[x] = q
        BY <1>1, <3>1, <3>3, <3>4, <4>1
      <4>2. ASSUME NEW i \in DOMAIN s, s[i] = q PROVE \E x \in DOMAIN w : w[x] = q
        <5>1. i # m
          BY <3>1, <3>8, <4>2
        <5>2. CASE i < m
          <6>1. i \in 1..(Len(s) - 1)
            BY <1>1, <3>1, <5>2
          <6>2. QED
            BY <3>3, <3>4, <4>2, <5>2, <6>1
        <5>3. CASE i > m
          <6>1. i - 1 \in 1..(Len(s) - 1) /\ ~(i - 1 < m) /\ (i - 1) + 1 = i
            BY <1>1, <3>1, <5>3
          <6>2. QED
            BY <3>3, <3>4, <4>2, <6>1
        <5>4. QED
          BY <1>1, <3>1, <5>1, <5>2, <5>3
      <4>3. QED
        BY <4>1, <4>2
    <3>9. QED
      BY <3>3, <3>6, <3>7, <3>8
  <2>2. CASE ~ \E i \in DOMAIN s : s[i] = p
    BY <2>2 DEF Without
  <2>3. QED
    BY <2>1, <2>2
<1> HIDE DEF w
<1>3. Len(w) \in Nat /\ DOMAIN w = 1..Len(w)
  BY <1>2, LenProperties
<1>4. /\ t \in Seq(Pcs) /\ Len(t) = Len(w) + 1
      /\ t[1] = p /\ \A i \in 1..Len(w) : t[i + 1] = w[i]
  <2>1. <<p>> \in Seq(Pcs) /\ Len(<<p>>) = 1 /\ <<p>>[1] = p
    OBVIOUS
  <2>2. /\ t \in Seq(Pcs) /\ Len(t) = 1 + Len(w)
        /\ \A i \in 1..(1 + Len(w)) : t[i] = IF i <= 1 THEN <<p>>[i] ELSE w[i - 1]
    BY <1>2, <2>1, ConcatProperties
  <2>3. \A i \in 1..Len(w) : i + 1 \in 1..(1 + Len(w)) /\ ~(i + 1 <= 1) /\ (i + 1) - 1 = i
    BY <1>3
  <2>4. QED
    BY <1>3, <2>1, <2>2, <2>3
<1> HIDE DEF t
<1>5. DOMAIN t = 1..(Len(w) + 1) /\ t # <<>> /\ Head(t) = p
  BY <1>3, <1>4, LenProperties
<1>6. \A i \in DOMAIN t : i = 1 \/ (i - 1 \in 1..Len(w) /\ t[i] = w[i - 1])
  <2> TAKE i \in DOMAIN t
  <2>1. i # 1 => i - 1 \in 1..Len(w) /\ (i - 1) + 1 = i
    BY <1>3, <1>5
  <2>2. QED
    BY <1>4, <2>1
<1>7. IsInjective(t)
  <2> SUFFICES ASSUME NEW c \in DOMAIN t, NEW d \in DOMAIN t, t[c] = t[d] PROVE c = d
    BY DEF IsInjective
  <2>1. CASE c # 1 /\ d # 1
    <3>1. c - 1 = d - 1
      BY <1>2, <1>3, <1>6, <2>1 DEF IsInjective
    <3>2. c \in Int /\ d \in Int
      BY <1>3, <1>5
    <3>3. QED
      BY <3>1, <3>2
  <2>2. QED
    BY <1>2, <1>3, <1>4, <1>6, <2>1
<1>8. ASSUME NEW q \in Pcs
      PROVE  (\E i \in DOMAIN t : t[i] = q) <=> q = p \/ \E i \in DOMAIN s : s[i] = q
  <2>1. ASSUME NEW i \in DOMAIN t, t[i] = q, q # p PROVE \E x \in DOMAIN s : s[x] = q
    <3>1. i - 1 \in DOMAIN w /\ w[i - 1] = q
      BY <1>3, <1>4, <1>6, <2>1
    <3>2. QED
      BY <1>2, <2>1, <3>1
  <2>2. q = p => \E i \in DOMAIN t : t[i] = q
    BY <1>3, <1>4, <1>5
  <2>3. ASSUME NEW x \in DOMAIN s, s[x] = q, q # p PROVE \E i \in DOMAIN t : t[i] = q
    <3>1. PICK i \in DOMAIN w : w[i] = q
      BY <1>2, <2>3
    <3>2. i + 1 \in DOMAIN t /\ t[i + 1] = q
      BY <1>3, <1>4, <1>5, <3>1
    <3>3. QED
      BY <3>2
  <2>4. QED
    BY <2>1, <2>2, <2>3
<1>9. QED
  BY <1>4, <1>5, <1>7, <1>8 DEF t, w

-----------------------------------------------------------------------------
(***************************************************************************)
(* What holds of the blocks, the lists, the tags and the jumps, also in    *)
(* the middle of a check or a compilation.                                 *)
(***************************************************************************)
BlockOK(b, p) ==
  /\ b.status = "none" => b.list = "none" /\ b.count = 0
  /\ b.status = "INVALID" => b.count = OptCount - 1
  /\ b.status \in {"none", "INVALID"} =>
       b.tr = NoCode /\ b.handler_to_use = Normal /\ b.dhtu = Normal /\ b.dep = NoDeps
  /\ b.status \notin {"none", "INVALID"} => b.tr.pc = p
  /\ b.status = "NEED_CHECK" => b.handler_to_use = Check /\ b.dhtu = Check
  /\ b.status \in {"CHECKING", "ACTIVE"} =>
       b.handler_to_use = Jump(b.tr) /\ b.dhtu = Jump(b.tr)
  /\ b.status = "COMPILING" => b.dhtu = Jump(b.tr)
  /\ b.status = "ACTIVE" => b.list = "active"

BlocksOK(j) == \A p \in Pcs : BlockOK(j.bi[p], p)

Linked(j) ==
  \A p \in Pcs, i \in 1..2 : j.bi[p].dep[i] # NoDep =>
    /\ Exists(j, j.bi[p].dep[i].target)
    /\ j.bi[p].dep[i].jmp = j.bi[j.bi[p].dep[i].target].dhtu

\* The blocks of X need not be on their lists yet.
ListsOK(j, X) ==
  /\ \A l \in Lines : /\ IsInjective(j.cl[l])
                      /\ \A i \in DOMAIN j.cl[l] :
                           Line[j.cl[l][i]] = l /\ Exists(j, j.cl[l][i])
  /\ \A p \in Pcs : Exists(j, p) /\ p \notin X =>
       \E i \in DOMAIN j.cl[Line[p]] : j.cl[Line[p]][i] = p

\* The tag follows the head of the list, unless that is in X or is being
\* checked.
TagsOK(j, X) ==
  \A l \in Lines :
    /\ j.cl[l] = <<>> => j.tag[l] = Normal
    /\ j.cl[l] # <<>> => \/ Head(j.cl[l]) \in X
                         \/ j.bi[Head(j.cl[l])].status = "CHECKING"
                         \/ j.tag[l] = j.bi[Head(j.cl[l])].handler_to_use

JitOK(j) == j \in Jits /\ BlocksOK(j) /\ Linked(j) /\ ListsOK(j, {}) /\ TagsOK(j, {})

\* The same but for the jumps the block contains.
Same(b, c) ==
  /\ c.status = b.status /\ c.list = b.list /\ c.count = b.count /\ c.tr = b.tr
  /\ c.handler_to_use = b.handler_to_use /\ c.dhtu = b.dhtu

LEMMA NoneFacts == None \notin Pcs /\ NoCode.pc = None /\ NoDep.target = None
BY CodeBlocksAssumption DEF NoCode, NoDep

LEMMA AddressFacts ==
  /\ Normal \in Addresses /\ Check \in Addresses /\ NoCode \in Codes
  /\ NoDep \in Deps /\ NoDeps \in [1..2 -> Deps]
  /\ \A tr \in Codes : Jump(tr) \in Addresses
  /\ Normal # Check /\ \A tr : Jump(tr) # Normal /\ Jump(tr) # Check /\ Jump(tr).tr = tr
  /\ \A p \in Pcs : Line[p] \in Lines
BY DEF Addresses, Codes, Deps, NoDeps, Normal, Check, Jump, Lines

LEMMA DepFacts ==
  ASSUME NEW d \in Deps
  PROVE  /\ d # NoDep => d \in [target : Pcs, jmp : Addresses] /\ d.target \in Pcs
         /\ d.target \in Pcs => d # NoDep
BY NoneFacts DEF Deps, NoDep

LEMMA JitFields ==
  ASSUME NEW j \in Jits
  PROVE  /\ j.bi \in [Pcs -> Blocks] /\ j.cl \in [Lines -> Seq(Pcs)]
         /\ j.tag \in [Lines -> Addresses]
         /\ j = [bi |-> j.bi, cl |-> j.cl, tag |-> j.tag]
         /\ \A p \in Pcs : /\ j.bi[p] \in Blocks
                           /\ j.bi[p].dep \in [1..2 -> Deps]
                           /\ \A i \in 1..2 : j.bi[p].dep[i] \in Deps
BY DEF Jits, Blocks

LEMMA BiChanged ==
  ASSUME NEW j \in Jits, NEW bi \in [Pcs -> Blocks]
  PROVE  LET k == [j EXCEPT !.bi = bi] IN
         k \in Jits /\ k.bi = bi /\ k.cl = j.cl /\ k.tag = j.tag
BY DEF Jits

LEMMA RaiseFacts ==
  ASSUME NEW j \in Jits, NEW p \in Pcs, IsInjective(j.cl[Line[p]])
  PROVE  LET k == RaiseInClList(j, p) IN
         /\ k \in Jits /\ k.bi = j.bi
         /\ k.tag = [j.tag EXCEPT ![Line[p]] = j.bi[p].handler_to_use]
         /\ k.cl = [j.cl EXCEPT ![Line[p]] = <<p>> \o Without(j.cl[Line[p]], p)]
<1> DEFINE t == <<p>> \o Without(j.cl[Line[p]], p)
<1>1. j.cl[Line[p]] \in Seq(Pcs) /\ Line[p] \in Lines /\ j.bi[p].handler_to_use \in Addresses
  BY JitFields, AddressFacts DEF Blocks
<1>2. t \in Seq(Pcs)
  BY <1>1, RaisedFacts
<1>3. RaiseInClList(j, p) = [j EXCEPT !.cl[Line[p]] = t, !.tag[Line[p]] = j.bi[p].handler_to_use]
  BY DEF RaiseInClList
<1> HIDE DEF t
<1> DEFINE cl == [j.cl EXCEPT ![Line[p]] = t]
           tag == [j.tag EXCEPT ![Line[p]] = j.bi[p].handler_to_use]
<1>4. cl \in [Lines -> Seq(Pcs)] /\ tag \in [Lines -> Addresses]
  BY <1>1, <1>2, JitFields
<1>5. RaiseInClList(j, p) = [j EXCEPT !.cl = cl, !.tag = tag]
  BY <1>3
<1> HIDE DEF cl, tag
<1>6. LET k == [j EXCEPT !.cl = cl, !.tag = tag]
      IN  k \in Jits /\ k.bi = j.bi /\ k.cl = cl /\ k.tag = tag
  BY <1>4 DEF Jits
<1>7. QED
  BY <1>5, <1>6 DEF cl, tag, t

LEMMA RaiseOK ==
  ASSUME NEW j \in Jits, NEW p \in Pcs, Exists(j, p), ListsOK(j, {p}), TagsOK(j, {p})
  PROVE  LET k == RaiseInClList(j, p) IN
         k \in Jits /\ k.bi = j.bi /\ ListsOK(k, {}) /\ TagsOK(k, {}) /\ IsHead(k, p)
<1> DEFINE k == RaiseInClList(j, p)
           t == <<p>> \o Without(j.cl[Line[p]], p)
<1>1. IsInjective(j.cl[Line[p]]) /\ Line[p] \in Lines
  BY AddressFacts DEF ListsOK
<1>2. /\ k \in Jits /\ k.bi = j.bi
      /\ k.tag = [j.tag EXCEPT ![Line[p]] = j.bi[p].handler_to_use]
      /\ k.cl = [j.cl EXCEPT ![Line[p]] = t]
  BY <1>1, RaiseFacts
<1>3. j.cl \in [Lines -> Seq(Pcs)] /\ j.tag \in [Lines -> Addresses]
  BY JitFields
<1>4. /\ t \in Seq(Pcs) /\ t # <<>> /\ Head(t) = p /\ IsInjective(t)
      /\ \A q \in Pcs : (\E i \in DOMAIN t : t[i] = q) <=> q = p \/ \E i \in DOMAIN j.cl[Line[p]] : j.cl[Line[p]][i] = q
  BY <1>1, <1>3, RaisedFacts
<1> HIDE DEF t, k
<1>5. /\ k.cl[Line[p]] = t /\ k.tag[Line[p]] = j.bi[p].handler_to_use
      /\ \A l \in Lines : l # Line[p] => k.cl[l] = j.cl[l] /\ k.tag[l] = j.tag[l]
  BY <1>1, <1>2, <1>3
<1>6. \A q : Exists(k, q) <=> Exists(j, q)
  BY <1>2 DEF Exists
<1>7. \A i \in DOMAIN t : t[i] \in Pcs /\ Line[t[i]] = Line[p] /\ Exists(k, t[i])
  <2> TAKE i \in DOMAIN t
  <2>1. t[i] \in Pcs
    BY <1>4, LenProperties, ElementOfSeq
  <2>2. t[i] = p \/ \E x \in DOMAIN j.cl[Line[p]] : j.cl[Line[p]][x] = t[i]
    BY <1>4, <2>1
  <2>3. QED
    BY <1>1, <1>6, <2>1, <2>2 DEF ListsOK
<1>8. ListsOK(k, {})
  <2>1. ASSUME NEW l \in Lines
        PROVE  /\ IsInjective(k.cl[l])
               /\ \A i \in DOMAIN k.cl[l] : Line[k.cl[l][i]] = l /\ Exists(k, k.cl[l][i])
    <3>1. CASE l = Line[p]
      BY <1>4, <1>5, <1>7, <3>1
    <3>2. CASE l # Line[p]
      BY <1>5, <1>6, <3>2 DEF ListsOK
    <3>3. QED
      BY <3>1, <3>2
  <2>2. ASSUME NEW q \in Pcs, Exists(k, q)
        PROVE  \E i \in DOMAIN k.cl[Line[q]] : k.cl[Line[q]][i] = q
    <3>0. Line[q] \in Lines
      BY AddressFacts
    <3>1. q # p => \E i \in DOMAIN j.cl[Line[q]] : j.cl[Line[q]][i] = q
      BY <1>6, <2>2 DEF ListsOK
    <3>2. CASE Line[q] = Line[p]
      BY <1>4, <1>5, <3>1, <3>2
    <3>3. CASE Line[q] # Line[p]
      BY <1>5, <3>0, <3>1, <3>3
    <3>4. QED
      BY <3>2, <3>3
  <2>3. QED
    BY <2>1, <2>2 DEF ListsOK
<1>9. TagsOK(k, {})
  <2> SUFFICES ASSUME NEW l \in Lines
               PROVE  /\ k.cl[l] = <<>> => k.tag[l] = Normal
                      /\ k.cl[l] # <<>> => \/ k.bi[Head(k.cl[l])].status = "CHECKING"
                                           \/ k.tag[l] = k.bi[Head(k.cl[l])].handler_to_use
    BY DEF TagsOK
  <2>1. CASE l = Line[p]
    BY <1>2, <1>4, <1>5, <2>1
  <2>2. CASE l # Line[p]
    <3>1. k.cl[l] # <<>> => Head(k.cl[l]) # p
      <4> SUFFICES ASSUME k.cl[l] # <<>> PROVE Head(k.cl[l]) # p
        OBVIOUS
      <4>1. j.cl[l] \in Seq(Pcs) /\ j.cl[l] # <<>>
        BY <1>3, <1>5, <2>2
      <4>2. 1 \in DOMAIN j.cl[l] /\ Head(j.cl[l]) = j.cl[l][1]
        BY <4>1
      <4>3. Line[Head(j.cl[l])] = l
        BY <4>2 DEF ListsOK
      <4>4. QED
        BY <1>5, <2>2, <4>3
    <3>2. QED
      BY <1>2, <1>5, <2>2, <3>1 DEF TagsOK
  <2>3. QED
    BY <2>1, <2>2
<1>10. IsHead(k, p)
  BY <1>4, <1>5 DEF IsHead
<1>11. QED
  BY <1>2, <1>8, <1>9, <1>10 DEF k

-----------------------------------------------------------------------------
(***************************************************************************)
(* set_dhtu.                                                               *)
(***************************************************************************)
\* The blocks of k are those of j, and their jumps go to the same blocks;
\* to says where the blocks of its domain are to be entered now.
Relinked(j, k, to) ==
  \A q \in Pcs :
    /\ k.bi[q].status = j.bi[q].status /\ k.bi[q].list = j.bi[q].list
    /\ k.bi[q].count = j.bi[q].count /\ k.bi[q].tr = j.bi[q].tr
    /\ k.bi[q].handler_to_use = j.bi[q].handler_to_use
    /\ k.bi[q].dhtu = IF q \in DOMAIN to THEN to[q] ELSE j.bi[q].dhtu
    /\ j.bi[q].dep = NoDeps => k.bi[q].dep = NoDeps
    /\ \A i \in 1..2 : LET d == j.bi[q].dep[i]
                           e == k.bi[q].dep[i]
                       IN  /\ e.target = d.target /\ (e = NoDep <=> d = NoDep)
                           /\ e.jmp = IF d.target \in DOMAIN to THEN to[d.target] ELSE d.jmp

LEMMA PatchedFacts ==
  ASSUME NEW D \in SUBSET Pcs, NEW to \in [D -> Addresses], NEW d \in Deps
  PROVE  LET e == IF d.target \in DOMAIN to THEN [d EXCEPT !.jmp = to[d.target]] ELSE d IN
         /\ e \in Deps /\ e.target = d.target /\ (e = NoDep <=> d = NoDep)
         /\ e.jmp = IF d.target \in DOMAIN to THEN to[d.target] ELSE d.jmp
<1>1. CASE d.target \in D
  <2>1. d \in [target : Pcs, jmp : Addresses]
    BY <1>1, DepFacts
  <2> DEFINE e == [d EXCEPT !.jmp = to[d.target]]
  <2>2. e \in [target : Pcs, jmp : Addresses] /\ e.target = d.target /\ e.jmp = to[d.target]
    BY <1>1, <2>1
  <2>3. e \in Deps /\ e # NoDep /\ d # NoDep
    BY <2>1, <2>2, NoneFacts DEF Deps
  <2>4. QED
    BY <1>1, <2>2, <2>3
<1>2. CASE d.target \notin D
  BY <1>2
<1>3. QED
  BY <1>1, <1>2

LEMMA SetDhtusFacts ==
  ASSUME NEW j \in Jits, NEW D \in SUBSET Pcs, NEW to \in [D -> Addresses]
  PROVE  LET k == SetDhtus(j, to) IN
         k \in Jits /\ k.cl = j.cl /\ k.tag = j.tag /\ Relinked(j, k, to)
<1> DEFINE Patched(d) == IF d.target \in DOMAIN to THEN [d EXCEPT !.jmp = to[d.target]] ELSE d
           dhtu(q) == IF q \in DOMAIN to THEN to[q] ELSE j.bi[q].dhtu
           dep(q) == [i \in 1..2 |-> Patched(j.bi[q].dep[i])]
           block(q) == [j.bi[q] EXCEPT !.dhtu = dhtu(q), !.dep = dep(q)]
           bi == [q \in Pcs |-> block(q)]
           k == SetDhtus(j, to)
<1>1. k = [j EXCEPT !.bi = bi]
  BY DEF SetDhtus
<1>2. ASSUME NEW q \in Pcs
      PROVE  /\ block(q) \in Blocks
             /\ block(q).status = j.bi[q].status /\ block(q).list = j.bi[q].list
             /\ block(q).count = j.bi[q].count /\ block(q).tr = j.bi[q].tr
             /\ block(q).handler_to_use = j.bi[q].handler_to_use
             /\ block(q).dhtu = dhtu(q) /\ block(q).dep = dep(q)
  <2>1. j.bi[q] \in Blocks /\ \A i \in 1..2 : j.bi[q].dep[i] \in Deps
    BY JitFields
  <2>2. dhtu(q) \in Addresses
    BY <2>1 DEF Blocks
  <2>3. \A i \in 1..2 : Patched(j.bi[q].dep[i]) \in Deps
    BY <2>1, PatchedFacts
  <2>4. dep(q) \in [1..2 -> Deps]
    BY <2>3
  <2> HIDE DEF dhtu, dep
  <2>5. QED
    BY <2>1, <2>2, <2>4 DEF Blocks
<1>3. ASSUME NEW q \in Pcs, NEW i \in 1..2
      PROVE  LET d == j.bi[q].dep[i]
                 e == dep(q)[i]
             IN  /\ e.target = d.target /\ (e = NoDep <=> d = NoDep)
                 /\ e.jmp = IF d.target \in DOMAIN to THEN to[d.target] ELSE d.jmp
  <2>1. j.bi[q].dep[i] \in Deps
    BY JitFields
  <2>2. dep(q)[i] = Patched(j.bi[q].dep[i])
    OBVIOUS
  <2>3. QED
    BY <2>1, <2>2, PatchedFacts
<1>4. ASSUME NEW q \in Pcs, j.bi[q].dep = NoDeps PROVE dep(q) = NoDeps
  <2>1. \A i \in 1..2 : j.bi[q].dep[i] = NoDep
    BY <1>4 DEF NoDeps
  <2>2. \A i \in 1..2 : Patched(NoDep) = NoDep
    BY NoneFacts
  <2>3. QED
    BY <2>1, <2>2 DEF NoDeps
<1> HIDE DEF block, dhtu, dep, k
<1>5. bi \in [Pcs -> Blocks] /\ \A q \in Pcs : bi[q] = block(q)
  BY <1>2
<1> HIDE DEF bi
<1>6. k \in Jits /\ k.bi = bi /\ k.cl = j.cl /\ k.tag = j.tag
  BY <1>1, <1>5, BiChanged
<1>7. \A q : dhtu(q) = IF q \in DOMAIN to THEN to[q] ELSE j.bi[q].dhtu
  BY DEF dhtu
<1>8. Relinked(j, k, to)
  BY <1>2, <1>3, <1>4, <1>5, <1>6, <1>7 DEF Relinked
<1>9. QED
  BY <1>6, <1>8 DEF k

\* Jumps stay linked when a block is relinked, whatever else happens to it
\* that leaves it a block.
LEMMA RelinkedLinked ==
  ASSUME NEW j \in Jits, NEW k, NEW D \in SUBSET Pcs, NEW to \in [D -> Addresses],
         Linked(j), Relinked(j, k, to)
  PROVE  Linked(k)
<1> SUFFICES ASSUME NEW q \in Pcs, NEW i \in 1..2, k.bi[q].dep[i] # NoDep
             PROVE  /\ Exists(k, k.bi[q].dep[i].target)
                    /\ k.bi[q].dep[i].jmp = k.bi[k.bi[q].dep[i].target].dhtu
  BY DEF Linked
<1> DEFINE d == j.bi[q].dep[i]
<1>1. /\ k.bi[q].dep[i].target = d.target /\ d # NoDep
      /\ k.bi[q].dep[i].jmp = IF d.target \in D THEN to[d.target] ELSE d.jmp
  BY DEF Relinked
<1>2. d.target \in Pcs
  BY <1>1, JitFields, DepFacts
<1>3. Exists(j, d.target) /\ d.jmp = j.bi[d.target].dhtu
  BY <1>1 DEF Linked
<1>4. /\ k.bi[d.target].status = j.bi[d.target].status
      /\ k.bi[d.target].dhtu = IF d.target \in D THEN to[d.target] ELSE j.bi[d.target].dhtu
  BY <1>2 DEF Relinked
<1>5. QED
  BY <1>1, <1>3, <1>4 DEF Exists

\* What Relinked says when one block is relinked.
OneRelinked(j, k, p, a) ==
  /\ \A q \in Pcs : q # p => Same(j.bi[q], k.bi[q])
  /\ k.bi[p].status = j.bi[p].status /\ k.bi[p].list = j.bi[p].list
  /\ k.bi[p].count = j.bi[p].count /\ k.bi[p].tr = j.bi[p].tr
  /\ k.bi[p].handler_to_use = j.bi[p].handler_to_use /\ k.bi[p].dhtu = a
  /\ \A q \in Pcs : j.bi[q].dep = NoDeps => k.bi[q].dep = NoDeps
  /\ \A q \in Pcs, i \in 1..2 :
       /\ k.bi[q].dep[i].target = j.bi[q].dep[i].target
       /\ k.bi[q].dep[i] = NoDep <=> j.bi[q].dep[i] = NoDep

LEMMA SetDhtuFacts ==
  ASSUME NEW j \in Jits, NEW p \in Pcs, NEW a \in Addresses
  PROVE  LET k == SetDhtu(j, p, a) IN
         /\ k \in Jits /\ k.cl = j.cl /\ k.tag = j.tag
         /\ OneRelinked(j, k, p, a)
         /\ Linked(j) => Linked(k)
<1> DEFINE to == [q \in {p} |-> a]
           k == SetDhtus(j, to)
<1>1. {p} \in SUBSET Pcs /\ to \in [{p} -> Addresses] /\ DOMAIN to = {p} /\ to[p] = a
  OBVIOUS
<1>2. SetDhtu(j, p, a) = k
  BY DEF SetDhtu
<1> HIDE DEF to
<1>3. k \in Jits /\ k.cl = j.cl /\ k.tag = j.tag /\ Relinked(j, k, to)
  BY <1>1, SetDhtusFacts
<1>4. Linked(j) => Linked(k)
  BY <1>1, <1>3, RelinkedLinked
<1> HIDE DEF k
<1>5. OneRelinked(j, k, p, a)
  BY <1>1, <1>3 DEF Relinked, OneRelinked, Same
<1>6. QED
  BY <1>2, <1>3, <1>4, <1>5

-----------------------------------------------------------------------------
(***************************************************************************)
(* Changes of one block.                                                   *)
(***************************************************************************)
\* Only block p differs in more than where its jumps go.
Touched(j, k, p) ==
  /\ k.cl = j.cl /\ k.tag = j.tag
  /\ \A q \in Pcs : q # p => /\ Same(j.bi[q], k.bi[q])
                             /\ j.bi[q].dep = NoDeps => k.bi[q].dep = NoDeps

LEMMA BlockSet ==
  ASSUME NEW j \in Jits, NEW p \in Pcs, NEW b \in Blocks
  PROVE  LET k == [j EXCEPT !.bi[p] = b] IN
         /\ k \in Jits /\ k.cl = j.cl /\ k.tag = j.tag /\ k.bi[p] = b
         /\ \A q \in Pcs : q # p => k.bi[q] = j.bi[q]
<1> DEFINE bi == [j.bi EXCEPT ![p] = b]
<1>1. bi \in [Pcs -> Blocks] /\ bi[p] = b /\ \A q \in Pcs : q # p => bi[q] = j.bi[q]
  BY JitFields
<1>2. [j EXCEPT !.bi[p] = b] = [j EXCEPT !.bi = bi]
  OBVIOUS
<1> HIDE DEF bi
<1>3. LET k == [j EXCEPT !.bi = bi] IN k \in Jits /\ k.bi = bi /\ k.cl = j.cl /\ k.tag = j.tag
  BY <1>1, BiChanged
<1>4. QED
  BY <1>1, <1>2, <1>3

LEMMA BlockSetLinked ==
  ASSUME NEW j \in Jits, NEW p \in Pcs, NEW k, Linked(j),
         \A q \in Pcs : q # p => k.bi[q] = j.bi[q],
         k.bi[p].status # "none", k.bi[p].dhtu = j.bi[p].dhtu,
         k.bi[p].dep \in {j.bi[p].dep, NoDeps}
  PROVE  Linked(k)
<1> SUFFICES ASSUME NEW q \in Pcs, NEW i \in 1..2, k.bi[q].dep[i] # NoDep
             PROVE  /\ Exists(k, k.bi[q].dep[i].target)
                    /\ k.bi[q].dep[i].jmp = k.bi[k.bi[q].dep[i].target].dhtu
  BY DEF Linked
<1>1. k.bi[q].dep[i] = j.bi[q].dep[i]
  BY DEF NoDeps
<1>2. j.bi[q].dep[i].target \in Pcs
  BY <1>1, JitFields, DepFacts
<1> DEFINE u == j.bi[q].dep[i].target
<1>3. Exists(j, u) /\ j.bi[q].dep[i].jmp = j.bi[u].dhtu
  BY <1>1 DEF Linked
<1>4. Exists(k, u) /\ k.bi[u].dhtu = j.bi[u].dhtu
  BY <1>2, <1>3 DEF Exists
<1> HIDE DEF u
<1>5. k.bi[q].dep[i].target = u /\ k.bi[q].dep[i].jmp = k.bi[u].dhtu
  BY <1>1, <1>3, <1>4 DEF u
<1>6. QED
  BY <1>4, <1>5

LEMMA InvalidateFacts ==
  ASSUME NEW j \in Jits, NEW p \in Pcs, Linked(j)
  PROVE  LET k == InvalidateBlock(j, p) IN
         /\ k \in Jits /\ Linked(k) /\ Touched(j, k, p)
         /\ k.bi[p].status = "INVALID" /\ k.bi[p].list = j.bi[p].list
         /\ k.bi[p].count = OptCount - 1 /\ k.bi[p].tr = NoCode
         /\ k.bi[p].handler_to_use = Normal /\ k.bi[p].dhtu = Normal /\ k.bi[p].dep = NoDeps
<1> DEFINE x == SetDhtu(j, p, Normal)
           b == [x.bi[p] EXCEPT !.status = "INVALID", !.count = OptCount - 1, !.tr = NoCode,
                                !.handler_to_use = Normal, !.dep = NoDeps]
           k == InvalidateBlock(j, p)
<1>1. /\ x \in Jits /\ x.cl = j.cl /\ x.tag = j.tag /\ Linked(x)
      /\ OneRelinked(j, x, p, Normal)
  BY AddressFacts, SetDhtuFacts
<1>2. k = [x EXCEPT !.bi[p] = b]
  BY DEF InvalidateBlock
<1> HIDE DEF x
<1>3. x.bi[p] \in Blocks /\ OptCount - 1 \in Int
  BY <1>1, JitFields, JitBlocksAssumption
<1>4. /\ b \in Blocks /\ b.status = "INVALID" /\ b.list = x.bi[p].list
      /\ b.count = OptCount - 1 /\ b.tr = NoCode
      /\ b.handler_to_use = Normal /\ b.dhtu = x.bi[p].dhtu /\ b.dep = NoDeps
  BY <1>3, AddressFacts DEF Blocks
<1> HIDE DEF b, k
<1>5. /\ k \in Jits /\ k.cl = x.cl /\ k.tag = x.tag /\ k.bi[p] = b
      /\ \A q \in Pcs : q # p => k.bi[q] = x.bi[q]
  BY <1>1, <1>2, <1>4, BlockSet
<1>6. Linked(k)
  BY <1>1, <1>4, <1>5, BlockSetLinked
<1>7. /\ \A q \in Pcs : q # p => Same(j.bi[q], x.bi[q])
      /\ x.bi[p].list = j.bi[p].list /\ x.bi[p].dhtu = Normal
      /\ \A q \in Pcs : j.bi[q].dep = NoDeps => x.bi[q].dep = NoDeps
  BY <1>1 DEF OneRelinked
<1>8. Touched(j, k, p)
  BY <1>1, <1>5, <1>7 DEF Touched
<1>9. QED
  BY <1>4, <1>5, <1>6, <1>7, <1>8 DEF k

\* The block while its successors are checked.
Checking(j, p) ==
  [SetDhtu(j, p, Jump(j.bi[p].tr)) EXCEPT !.bi[p].handler_to_use = Jump(j.bi[p].tr),
                                          !.bi[p].status = "CHECKING"]

LEMMA CheckingFacts ==
  ASSUME NEW j \in Jits, NEW p \in Pcs, Linked(j)
  PROVE  LET k == Checking(j, p) IN
         /\ k \in Jits /\ Linked(k) /\ Touched(j, k, p)
         /\ k.bi[p].status = "CHECKING" /\ k.bi[p].list = j.bi[p].list
         /\ k.bi[p].count = j.bi[p].count /\ k.bi[p].tr = j.bi[p].tr
         /\ k.bi[p].handler_to_use = Jump(j.bi[p].tr) /\ k.bi[p].dhtu = Jump(j.bi[p].tr)
<1> DEFINE a == Jump(j.bi[p].tr)
           x == SetDhtu(j, p, a)
           b == [x.bi[p] EXCEPT !.handler_to_use = a, !.status = "CHECKING"]
           k == Checking(j, p)
<1>0. a \in Addresses
  BY AddressFacts, JitFields DEF Blocks
<1> HIDE DEF a
<1>1. /\ x \in Jits /\ x.cl = j.cl /\ x.tag = j.tag /\ Linked(x)
      /\ OneRelinked(j, x, p, a)
  BY <1>0, SetDhtuFacts
<1>2. k = [x EXCEPT !.bi[p] = b]
  BY DEF Checking, a
<1> HIDE DEF x
<1>3. x.bi[p] \in Blocks
  BY <1>1, JitFields
<1>4. /\ b \in Blocks /\ b.status = "CHECKING" /\ b.list = x.bi[p].list
      /\ b.count = x.bi[p].count /\ b.tr = x.bi[p].tr
      /\ b.handler_to_use = a /\ b.dhtu = x.bi[p].dhtu /\ b.dep = x.bi[p].dep
  BY <1>0, <1>3 DEF Blocks
<1> HIDE DEF b, k
<1>5. /\ k \in Jits /\ k.cl = x.cl /\ k.tag = x.tag /\ k.bi[p] = b
      /\ \A q \in Pcs : q # p => k.bi[q] = x.bi[q]
  BY <1>1, <1>2, <1>4, BlockSet
<1>6. Linked(k)
  BY <1>1, <1>4, <1>5, BlockSetLinked
<1>7. /\ \A q \in Pcs : q # p => Same(j.bi[q], x.bi[q])
      /\ x.bi[p].list = j.bi[p].list /\ x.bi[p].count = j.bi[p].count
      /\ x.bi[p].tr = j.bi[p].tr /\ x.bi[p].dhtu = a
      /\ \A q \in Pcs : j.bi[q].dep = NoDeps => x.bi[q].dep = NoDeps
  BY <1>1 DEF OneRelinked
<1>8. Touched(j, k, p)
  BY <1>1, <1>5, <1>7 DEF Touched
<1>9. QED
  BY <1>4, <1>5, <1>6, <1>7, <1>8 DEF a, k

\* Lists and tags after a change of block p, which may have to be raised.
LEMMA TouchedLists ==
  ASSUME NEW j \in Jits, NEW k \in Jits, NEW p \in Pcs,
         ListsOK(j, {}), TagsOK(j, {}), Touched(j, k, p), Exists(k, p)
  PROVE  /\ ListsOK(k, {p}) /\ TagsOK(k, {p})
         /\ Exists(j, p) => ListsOK(k, {})
<1>1. \A q \in Pcs : q # p => k.bi[q].status = j.bi[q].status /\ k.bi[q].handler_to_use = j.bi[q].handler_to_use
  BY DEF Touched, Same
<1>2. \A q \in Pcs : Exists(j, q) => Exists(k, q)
  BY <1>1 DEF Exists
<1>3. \A l \in Lines : \A i \in DOMAIN j.cl[l] : j.cl[l][i] \in Pcs
  BY JitFields, LenProperties, ElementOfSeq
<1>4. \A l \in Lines : j.cl[l] # <<>> => Head(j.cl[l]) \in Pcs
  BY JitFields
<1>5. ListsOK(k, {p}) /\ (Exists(j, p) => ListsOK(k, {}))
  BY <1>1, <1>2, <1>3 DEF ListsOK, Touched, Exists
<1>6. TagsOK(k, {p})
  BY <1>1, <1>4 DEF TagsOK, Touched
<1>7. QED
  BY <1>5, <1>6

LEMMA TouchedBlocks ==
  ASSUME NEW j, NEW k, NEW p \in Pcs, BlocksOK(j), Touched(j, k, p), BlockOK(k.bi[p], p)
  PROVE  BlocksOK(k)
BY DEF BlocksOK, BlockOK, Touched, Same

\* Every other block is the same.
Others(j, k, p) == \A q \in Pcs : q # p => Same(j.bi[q], k.bi[q])

\* invalidate_block and raise_in_cl_list.
LEMMA DiscardOK ==
  ASSUME NEW j, JitOK(j), NEW p \in Pcs
  PROVE  LET k == RaiseInClList(InvalidateBlock(j, p), p) IN
         JitOK(k) /\ Others(j, k, p) /\ k.bi[p].status = "INVALID" /\ IsHead(k, p)
<1> DEFINE x == InvalidateBlock(j, p)
           k == RaiseInClList(x, p)
<1>1. j \in Jits /\ BlocksOK(j) /\ Linked(j) /\ ListsOK(j, {}) /\ TagsOK(j, {})
  BY DEF JitOK
<1>2. /\ x \in Jits /\ Linked(x) /\ Touched(j, x, p)
      /\ x.bi[p].status = "INVALID" /\ x.bi[p].count = OptCount - 1 /\ x.bi[p].tr = NoCode
      /\ x.bi[p].handler_to_use = Normal /\ x.bi[p].dhtu = Normal /\ x.bi[p].dep = NoDeps
  BY <1>1, InvalidateFacts
<1> HIDE DEF x, k
<1>3. BlocksOK(x)
  BY <1>1, <1>2, TouchedBlocks DEF BlockOK
<1>4. Exists(x, p) /\ ListsOK(x, {p}) /\ TagsOK(x, {p})
  BY <1>1, <1>2, TouchedLists DEF Exists
<1>5. k \in Jits /\ k.bi = x.bi /\ ListsOK(k, {}) /\ TagsOK(k, {}) /\ IsHead(k, p)
  BY <1>2, <1>4, RaiseOK DEF k
<1>6. BlocksOK(k) /\ Linked(k)
  BY <1>2, <1>3, <1>5 DEF BlocksOK, Linked, Exists
<1>7. QED
  BY <1>2, <1>5, <1>6 DEF JitOK, Others, Touched, k, x

\* get_blockinfo_addr_new.
LEMMA GetNewOK ==
  ASSUME NEW j, JitOK(j), NEW p \in Pcs
  PROVE  LET k == GetBlockinfoNew(j, p) IN
         /\ JitOK(k) /\ Others(j, k, p) /\ Exists(k, p)
         /\ Exists(j, p) => k = j
         /\ ~ Exists(j, p) => k.bi[p].status = "INVALID"
<1>1. CASE Exists(j, p)
  BY <1>1 DEF GetBlockinfoNew, Others, Same
<1>2. CASE ~ Exists(j, p)
  <2> DEFINE y == InvalidateBlock(j, p)
             b == [y.bi[p] EXCEPT !.list = "active"]
             x == [y EXCEPT !.bi[p] = b]
             k == RaiseInClList(x, p)
  <2>1. j \in Jits /\ BlocksOK(j) /\ Linked(j) /\ ListsOK(j, {}) /\ TagsOK(j, {})
    BY DEF JitOK
  <2>2. /\ y \in Jits /\ Linked(y) /\ Touched(j, y, p)
        /\ y.bi[p].status = "INVALID" /\ y.bi[p].count = OptCount - 1 /\ y.bi[p].tr = NoCode
        /\ y.bi[p].handler_to_use = Normal /\ y.bi[p].dhtu = Normal /\ y.bi[p].dep = NoDeps
    BY <2>1, InvalidateFacts
  <2>3. GetBlockinfoNew(j, p) = k
    BY <1>2 DEF GetBlockinfoNew
  <2> HIDE DEF y
  <2>4. y.bi[p] \in Blocks
    BY <2>2, JitFields
  <2>5. /\ b \in Blocks /\ b.status = "INVALID" /\ b.list = "active" /\ b.count = OptCount - 1
        /\ b.tr = NoCode /\ b.handler_to_use = Normal /\ b.dhtu = Normal /\ b.dep = NoDeps
    BY <2>2, <2>4 DEF Blocks
  <2> HIDE DEF b
  <2>6. /\ x \in Jits /\ x.cl = y.cl /\ x.tag = y.tag /\ x.bi[p] = b
        /\ \A q \in Pcs : q # p => x.bi[q] = y.bi[q]
    BY <2>2, <2>5, BlockSet
  <2> HIDE DEF x
  <2>7. Linked(x)
    BY <2>2, <2>5, <2>6, BlockSetLinked
  <2>8. Touched(j, x, p)
    BY <2>2, <2>6 DEF Touched
  <2>9. BlocksOK(x)
    BY <2>1, <2>5, <2>6, <2>8, TouchedBlocks DEF BlockOK
  <2>10. Exists(x, p) /\ ListsOK(x, {p}) /\ TagsOK(x, {p})
    BY <2>1, <2>5, <2>6, <2>8, TouchedLists DEF Exists
  <2>11. k \in Jits /\ k.bi = x.bi /\ ListsOK(k, {}) /\ TagsOK(k, {}) /\ IsHead(k, p)
    BY <2>6, <2>10, RaiseOK
  <2> HIDE DEF k
  <2>12. BlocksOK(k) /\ Linked(k)
    BY <2>7, <2>9, <2>11 DEF BlocksOK, Linked, Exists
  <2>13. QED
    BY <1>2, <2>3, <2>5, <2>6, <2>8, <2>11, <2>12 DEF JitOK, Others, Touched, Exists
<1>3. QED
  BY <1>1, <1>2

\* block_check_checksum up to the call of called_check_checksum.
LEMMA CheckingOK ==
  ASSUME NEW j, JitOK(j), NEW p \in Pcs, j.bi[p].status = "NEED_CHECK"
  PROVE  LET k == Checking(j, p) IN
         /\ JitOK(k) /\ Others(j, k, p) /\ k.bi[p].status = "CHECKING"
         /\ k.bi[p].list = j.bi[p].list /\ k.bi[p].count = j.bi[p].count
         /\ k.bi[p].tr = j.bi[p].tr
<1> DEFINE k == Checking(j, p)
<1>1. j \in Jits /\ BlocksOK(j) /\ Linked(j) /\ ListsOK(j, {}) /\ TagsOK(j, {})
  BY DEF JitOK
<1>2. /\ k \in Jits /\ Linked(k) /\ Touched(j, k, p)
      /\ k.bi[p].status = "CHECKING" /\ k.bi[p].list = j.bi[p].list
      /\ k.bi[p].count = j.bi[p].count /\ k.bi[p].tr = j.bi[p].tr
      /\ k.bi[p].handler_to_use = Jump(j.bi[p].tr) /\ k.bi[p].dhtu = Jump(j.bi[p].tr)
  BY <1>1, CheckingFacts
<1> HIDE DEF k
<1>3. BlocksOK(k)
  <2>1. BlockOK(j.bi[p], p)
    BY <1>1 DEF BlocksOK
  <2>2. BlockOK(k.bi[p], p)
    BY <1>2, <2>1 DEF BlockOK
  <2>3. QED
    BY <1>1, <1>2, <2>2, TouchedBlocks
<1>4. ListsOK(k, {}) /\ TagsOK(k, {p})
  BY <1>1, <1>2, TouchedLists DEF Exists
<1>5. TagsOK(k, {})
  BY <1>2, <1>4 DEF TagsOK
<1>6. QED
  BY <1>2, <1>3, <1>4, <1>5 DEF JitOK, Others, Touched, k

LEMMA ReactivateOK ==
  ASSUME NEW j, JitOK(j), NEW p \in Pcs, j.bi[p].status = "CHECKING"
  PROVE  LET k == Reactivate(j, p) IN
         /\ JitOK(k) /\ Others(j, k, p) /\ k.bi[p].status = "ACTIVE"
         /\ k.bi[p].count = j.bi[p].count /\ k.bi[p].tr = j.bi[p].tr /\ IsHead(k, p)
<1> DEFINE x == RaiseInClList(j, p)
           b == [x.bi[p] EXCEPT !.status = "ACTIVE", !.list = "active"]
           k == [x EXCEPT !.bi[p] = b]
<1>1. j \in Jits /\ BlocksOK(j) /\ Linked(j) /\ ListsOK(j, {}) /\ TagsOK(j, {})
  BY DEF JitOK
<1>2. ListsOK(j, {p}) /\ TagsOK(j, {p}) /\ Exists(j, p)
  BY <1>1 DEF ListsOK, TagsOK, Exists
<1>3. x \in Jits /\ x.bi = j.bi /\ ListsOK(x, {}) /\ TagsOK(x, {}) /\ IsHead(x, p)
  BY <1>1, <1>2, RaiseOK
<1>3a. x.tag = [j.tag EXCEPT ![Line[p]] = j.bi[p].handler_to_use]
  BY <1>1, RaiseFacts, AddressFacts DEF ListsOK
<1>4. Reactivate(j, p) = k
  BY DEF Reactivate
<1> HIDE DEF x
<1>5. x.bi[p] \in Blocks /\ j.tag \in [Lines -> Addresses] /\ Line[p] \in Lines
  BY <1>1, <1>3, JitFields, AddressFacts
<1>6. /\ b \in Blocks /\ b.status = "ACTIVE" /\ b.list = "active" /\ b.count = j.bi[p].count
      /\ b.tr = j.bi[p].tr /\ b.handler_to_use = j.bi[p].handler_to_use
      /\ b.dhtu = j.bi[p].dhtu /\ b.dep = j.bi[p].dep
  BY <1>3, <1>5 DEF Blocks
<1> HIDE DEF b
<1>7. /\ k \in Jits /\ k.cl = x.cl /\ k.tag = x.tag /\ k.bi[p] = b
      /\ \A q \in Pcs : q # p => k.bi[q] = x.bi[q]
  BY <1>3, <1>6, BlockSet
<1> HIDE DEF k
<1>8. Linked(x) /\ BlocksOK(x)
  BY <1>1, <1>3 DEF Linked, BlocksOK, Exists
<1>9. Linked(k)
  BY <1>3, <1>6, <1>7, <1>8, BlockSetLinked
<1>10. Touched(x, k, p)
  BY <1>7 DEF Touched, Same
<1>11. BlockOK(b, p)
  BY <1>1, <1>6, NoneFacts DEF BlocksOK, BlockOK
<1>12. BlocksOK(k)
  BY <1>7, <1>8, <1>10, <1>11, TouchedBlocks
<1>13. ListsOK(k, {}) /\ TagsOK(k, {p})
  BY <1>2, <1>3, <1>6, <1>7, <1>10, TouchedLists DEF Exists
<1>14. k.tag[Line[p]] = b.handler_to_use
  BY <1>3a, <1>5, <1>6, <1>7
<1>15. ASSUME NEW l \in Lines, k.cl[l] # <<>>, Head(k.cl[l]) = p PROVE l = Line[p]
  <2>1. k.cl[l] \in Seq(Pcs)
    BY <1>7, JitFields
  <2>2. 1 \in DOMAIN k.cl[l] /\ k.cl[l][1] = p
    BY <1>15, <2>1
  <2>3. QED
    BY <1>13, <2>2 DEF ListsOK
<1>16. TagsOK(k, {})
  BY <1>7, <1>13, <1>14, <1>15 DEF TagsOK
<1>17. IsHead(k, p)
  BY <1>3, <1>7 DEF IsHead
<1>18. QED
  BY <1>3, <1>4, <1>6, <1>7, <1>9, <1>12, <1>13, <1>16, <1>17 DEF JitOK, Others, Same

-----------------------------------------------------------------------------
(***************************************************************************)
(* block_check_checksum.                                                   *)
(***************************************************************************)
\* What a check may make of a block: nothing, take it back into use when its
\* checksum matches, or discard it; compile_block also adds blocks.
BlockEvolves(b, c, q) ==
  \/ c.status = b.status /\ c.list = b.list /\ c.count = b.count /\ c.tr = b.tr
  \/ /\ b.status = "NEED_CHECK" /\ c.status = "ACTIVE" /\ c.count = b.count /\ c.tr = b.tr
     /\ Checksum[b.tr.code] # 0 /\ Checksum[b.tr.code] = Checksum[mem[q]]
  \/ b.status \in {"none", "NEED_CHECK"} /\ c.status = "INVALID"

Evolves(j, k) == \A q \in Pcs : BlockEvolves(j.bi[q], k.bi[q], q)

LEMMA EvolvesSame ==
  ASSUME NEW j
  PROVE  Evolves(j, j)
BY DEF Evolves, BlockEvolves

LEMMA BlockEvolvesTransitive ==
  ASSUME NEW b, NEW c, NEW d, NEW q, BlockEvolves(b, c, q), BlockEvolves(c, d, q)
  PROVE  BlockEvolves(b, d, q)
BY DEF BlockEvolves

LEMMA EvolvesTransitive ==
  ASSUME NEW i, NEW j, NEW k, Evolves(i, j), Evolves(j, k)
  PROVE  Evolves(i, k)
BY BlockEvolvesTransitive DEF Evolves

LEMMA OthersEvolve ==
  ASSUME NEW j, NEW k, NEW p \in Pcs, Others(j, k, p), BlockEvolves(j.bi[p], k.bi[p], p)
  PROVE  Evolves(j, k)
BY DEF Others, Same, Evolves, BlockEvolves

\* The answer r to a check in j.
Answers(j, r) == JitOK(r.j) /\ Evolves(j, r.j) /\ r.good \in BOOLEAN

\* A check answers for every block.
Checks(check) == \A j \in Jits, p \in Pcs : JitOK(j) => Answers(j, check[<<j, p>>])

\* called_check_checksum, when check answers.
LEMMA CalledOK ==
  ASSUME NEW check, Checks(check), NEW j, JitOK(j), NEW p \in Pcs
  PROVE  Answers(j, CalledCheckChecksum(check, j, p))
<1> DEFINE Step(r, d) == IF r.good /\ d # NoDep THEN check[<<r.j, d.target>>] ELSE r
           start == [j |-> j, good |-> TRUE]
<1>1. CalledCheckChecksum(check, j, p) = Step(Step(start, j.bi[p].dep[1]), j.bi[p].dep[2])
  BY DEF CalledCheckChecksum
<1>2. Answers(j, start)
  BY EvolvesSame DEF Answers
<1>3. ASSUME NEW r, Answers(j, r), NEW d \in Deps
      PROVE  Answers(j, Step(r, d))
  <2>1. CASE r.good /\ d # NoDep
    <3>1. r.j \in Jits /\ JitOK(r.j) /\ d.target \in Pcs /\ Evolves(j, r.j)
      BY <1>3, <2>1, DepFacts DEF Answers, JitOK
    <3>2. Answers(r.j, check[<<r.j, d.target>>])
      BY <3>1 DEF Checks
    <3>3. Answers(j, check[<<r.j, d.target>>])
      BY <3>1, <3>2, EvolvesTransitive DEF Answers
    <3>4. QED
      BY <2>1, <3>3
  <2>2. CASE ~(r.good /\ d # NoDep)
    BY <1>3, <2>2
  <2>3. QED
    BY <2>1, <2>2
<1>4. j.bi[p].dep[1] \in Deps /\ j.bi[p].dep[2] \in Deps
  BY JitFields DEF JitOK
<1> HIDE DEF Step, start
<1>5. QED
  BY <1>1, <1>2, <1>3, <1>4

\* block_check_checksum, when check answers for the successors.
LEMMA CheckWithOK ==
  ASSUME NEW check, Checks(check), NEW j, JitOK(j), NEW p \in Pcs
  PROVE  LET r == CheckWith(check, j, p) IN
         /\ Answers(j, r)
         /\ j.bi[p].status = "NEED_CHECK" =>
              /\ IsHead(r.j, p)
              /\ r.j.bi[p].status = IF r.good THEN "ACTIVE" ELSE "INVALID"
<1> DEFINE r == CheckWith(check, j, p)
<1>1. CASE j.bi[p].status # "NEED_CHECK"
  <2>1. r = [j |-> j, good |-> TRUE]
    BY <1>1 DEF CheckWith
  <2> HIDE DEF r
  <2>2. QED
    BY <1>1, <2>1, EvolvesSame DEF Answers, r
<1>2. CASE j.bi[p].status = "NEED_CHECK"
  <2> DEFINE x == Checking(j, p)
             called == IF ChecksumMatches(j, p)
                       THEN CalledCheckChecksum(check, x, p)
                       ELSE [j |-> j, good |-> FALSE]
             keep == Reactivate(called.j, p)
             drop == RaiseInClList(InvalidateBlock(called.j, p), p)
  <2>1. r = IF called.good THEN [j |-> keep, good |-> TRUE] ELSE [j |-> drop, good |-> FALSE]
    BY <1>2 DEF CheckWith, Checking
  <2>2. /\ JitOK(x) /\ Others(j, x, p) /\ x.bi[p].status = "CHECKING"
        /\ x.bi[p].list = j.bi[p].list /\ x.bi[p].count = j.bi[p].count
        /\ x.bi[p].tr = j.bi[p].tr
    BY <1>2, CheckingOK
  <2> HIDE DEF x, r
  <2>3. ChecksumMatches(j, p) => Answers(x, called)
    BY <2>2, CalledOK
  <2>4. ~ ChecksumMatches(j, p) => called.j = j /\ called.good = FALSE
    OBVIOUS
  <2>5. JitOK(called.j) /\ called.good \in BOOLEAN
    <3>1. CASE ChecksumMatches(j, p)
      BY <2>3, <3>1 DEF Answers
    <3>2. CASE ~ ChecksumMatches(j, p)
      BY <2>4, <3>2
    <3>3. QED
      BY <3>1, <3>2
  <2> HIDE DEF called
  <2>6. \A q \in Pcs : q # p => BlockEvolves(j.bi[q], called.j.bi[q], q)
    <3>1. CASE ChecksumMatches(j, p)
      BY <2>2, <2>3, <3>1 DEF Answers, Evolves, Others, Same, BlockEvolves
    <3>2. CASE ~ ChecksumMatches(j, p)
      BY <2>4, <3>2 DEF BlockEvolves
    <3>3. QED
      BY <3>1, <3>2
  <2>7. CASE called.good
    <3>1. ChecksumMatches(j, p) /\ Answers(x, called)
      BY <2>3, <2>4, <2>7
    <3>2. BlockEvolves(x.bi[p], called.j.bi[p], p)
      BY <3>1 DEF Answers, Evolves
    <3>3. /\ called.j.bi[p].status = "CHECKING" /\ called.j.bi[p].count = j.bi[p].count
          /\ called.j.bi[p].tr = j.bi[p].tr
      BY <2>2, <3>2 DEF BlockEvolves
    <3>4. /\ JitOK(keep) /\ Others(called.j, keep, p) /\ keep.bi[p].status = "ACTIVE"
          /\ keep.bi[p].count = called.j.bi[p].count /\ keep.bi[p].tr = called.j.bi[p].tr
          /\ IsHead(keep, p)
      BY <2>5, <3>3, ReactivateOK
    <3> HIDE DEF keep
    <3>5. r.j = keep /\ r.good = TRUE
      BY <2>1, <2>7
    <3>6. Evolves(j, keep)
      <4>1. BlockEvolves(j.bi[p], keep.bi[p], p)
        BY <1>2, <3>1, <3>3, <3>4 DEF BlockEvolves, ChecksumMatches
      <4>2. \A q \in Pcs : q # p => BlockEvolves(j.bi[q], keep.bi[q], q)
        BY <2>6, <3>4 DEF Others, Same, BlockEvolves
      <4>3. QED
        BY <4>1, <4>2 DEF Evolves
    <3>7. QED
      BY <3>4, <3>5, <3>6 DEF Answers, r
  <2>8. CASE ~ called.good
    <3>1. /\ JitOK(drop) /\ Others(called.j, drop, p) /\ drop.bi[p].status = "INVALID"
          /\ IsHead(drop, p)
      BY <2>5, DiscardOK
    <3> HIDE DEF drop
    <3>2. r.j = drop /\ r.good = FALSE
      BY <2>1, <2>8
    <3>3. Evolves(j, drop)
      <4>1. BlockEvolves(j.bi[p], drop.bi[p], p)
        BY <1>2, <3>1 DEF BlockEvolves
      <4>2. \A q \in Pcs : q # p => BlockEvolves(j.bi[q], drop.bi[q], q)
        BY <2>6, <3>1 DEF Others, Same, BlockEvolves
      <4>3. QED
        BY <4>1, <4>2 DEF Evolves
    <3>4. QED
      BY <3>1, <3>2, <3>3 DEF Answers, r
  <2>9. QED
    BY <2>5, <2>7, <2>8
<1>3. QED
  BY <1>1, <1>2

\* Calls answer however deep they nest: the least depth at which they did
\* not would make calls that nest one less deep.
LEMMA NestedChecks ==
  ASSUME NEW n \in Nat
  PROVE  Checks(Nested[n])
<1> DEFINE Bad == {m \in Nat : ~ Checks(Nested[m])}
<1> SUFFICES ASSUME Bad # {} PROVE FALSE
  OBVIOUS
<1>1. PICK m \in Bad : \A i \in Bad : m <= i
  BY LeastMember
<1>2. PICK j \in Jits, p \in Pcs : JitOK(j) /\ ~ Answers(j, Nested[m][<<j, p>>])
  BY <1>1 DEF Checks
<1>3. CASE m = 0
  <2>1. Nested[m][<<j, p>>] = [j |-> j, good |-> TRUE]
    BY <1>2, <1>3, NestedStep
  <2>2. QED
    BY <1>2, <2>1, EvolvesSame DEF Answers
<1>4. CASE m # 0
  <2>1. m - 1 \in Nat /\ m = (m - 1) + 1 /\ m - 1 \notin Bad
    BY <1>1, <1>4
  <2>2. Nested[m][<<j, p>>] = CheckWith(Nested[m - 1], j, p)
    BY <1>2, <2>1, NestedStep
  <2>3. Checks(Nested[m - 1])
    BY <2>1
  <2>4. QED
    BY <1>2, <2>2, <2>3, CheckWithOK
<1>5. QED
  BY <1>3, <1>4

\* What block_check_checksum does.
LEMMA CheckOK ==
  ASSUME NEW j, JitOK(j), NEW p \in Pcs
  PROVE  LET r == BlockCheckChecksum(j, p) IN
         /\ Answers(j, r)
         /\ j.bi[p].status = "NEED_CHECK" =>
              /\ IsHead(r.j, p)
              /\ r.j.bi[p].status = IF r.good THEN "ACTIVE" ELSE "INVALID"
<1> DEFINE n == Cardinality(Pcs)
<1>1. n \in Nat /\ n # 0
  BY JitBlocksAssumption, FS_CardinalityType, FS_EmptySet
<1>2. j \in Jits
  BY DEF JitOK
<1>3. BlockCheckChecksum(j, p) = Nested[n][<<j, p>>]
  BY DEF BlockCheckChecksum
<1> HIDE DEF n
<1>4. n - 1 \in Nat /\ n = (n - 1) + 1
  BY <1>1
<1>5. Nested[n][<<j, p>>] = CheckWith(Nested[n - 1], j, p)
  BY <1>2, <1>4, NestedStep
<1>6. Checks(Nested[n - 1])
  BY <1>4, NestedChecks
<1>7. QED
  BY <1>3, <1>5, <1>6, CheckWithOK

\* The blocks still to be checked.  A check adds none.
Pending(j) == {q \in Pcs : j.bi[q].status = "NEED_CHECK"}

LEMMA PendingFacts ==
  ASSUME NEW j
  PROVE  /\ IsFiniteSet(Pending(j)) /\ Cardinality(Pending(j)) \in Nat
         /\ Cardinality(Pending(j)) <= Cardinality(Pcs) /\ Cardinality(Pcs) \in Nat
<1>1. IsFiniteSet(Pcs) /\ Pending(j) \subseteq Pcs
  BY JitBlocksAssumption DEF Pending
<1>2. QED
  BY <1>1, FS_Subset, FS_CardinalityType

LEMMA EvolvesPending ==
  ASSUME NEW j, NEW k, Evolves(j, k)
  PROVE  Cardinality(Pending(k)) <= Cardinality(Pending(j))
<1>1. Pending(k) \subseteq Pending(j)
  BY DEF Pending, Evolves, BlockEvolves
<1>2. QED
  BY <1>1, PendingFacts, FS_Subset

\* f and g agree while no more than n blocks are to be checked.
Agree(f, g, n) ==
  \A j \in Jits, p \in Pcs :
    JitOK(j) /\ Cardinality(Pending(j)) <= n => f[<<j, p>>] = g[<<j, p>>]

LEMMA CalledAgree ==
  ASSUME NEW f, NEW g, NEW n \in Nat, Agree(f, g, n), Checks(f),
         NEW j, JitOK(j), Cardinality(Pending(j)) <= n, NEW p \in Pcs
  PROVE  CalledCheckChecksum(f, j, p) = CalledCheckChecksum(g, j, p)
<1> DEFINE F(r, d) == IF r.good /\ d # NoDep THEN f[<<r.j, d.target>>] ELSE r
           G(r, d) == IF r.good /\ d # NoDep THEN g[<<r.j, d.target>>] ELSE r
           start == [j |-> j, good |-> TRUE]
<1>1. /\ CalledCheckChecksum(f, j, p) = F(F(start, j.bi[p].dep[1]), j.bi[p].dep[2])
      /\ CalledCheckChecksum(g, j, p) = G(G(start, j.bi[p].dep[1]), j.bi[p].dep[2])
  BY DEF CalledCheckChecksum
<1>2. Answers(j, start)
  BY EvolvesSame DEF Answers
<1>3. ASSUME NEW r, Answers(j, r), NEW d \in Deps
      PROVE  F(r, d) = G(r, d) /\ Answers(j, F(r, d))
  <2>1. CASE r.good /\ d # NoDep
    <3>1. r.j \in Jits /\ JitOK(r.j) /\ d.target \in Pcs /\ Evolves(j, r.j)
      BY <1>3, <2>1, DepFacts DEF Answers, JitOK
    <3>2. Answers(r.j, f[<<r.j, d.target>>])
      BY <3>1 DEF Checks
    <3>3. Answers(j, f[<<r.j, d.target>>])
      BY <3>1, <3>2, EvolvesTransitive DEF Answers
    <3>4. /\ Cardinality(Pending(r.j)) <= Cardinality(Pending(j))
          /\ Cardinality(Pending(r.j)) \in Nat /\ Cardinality(Pending(j)) \in Nat
      BY <3>1, EvolvesPending, PendingFacts
    <3>5. Cardinality(Pending(r.j)) <= n
      BY <3>4
    <3>6. f[<<r.j, d.target>>] = g[<<r.j, d.target>>]
      BY <3>1, <3>5 DEF Agree
    <3>7. QED
      BY <2>1, <3>3, <3>6
  <2>2. CASE ~(r.good /\ d # NoDep)
    BY <1>3, <2>2
  <2>3. QED
    BY <2>1, <2>2
<1>4. j.bi[p].dep[1] \in Deps /\ j.bi[p].dep[2] \in Deps
  BY JitFields DEF JitOK
<1> HIDE DEF F, G, start
<1>5. QED
  BY <1>1, <1>2, <1>3, <1>4

LEMMA CheckWithAgree ==
  ASSUME NEW f, NEW g, NEW n \in Nat, Agree(f, g, n), Checks(f),
         NEW j, JitOK(j), Cardinality(Pending(j)) <= n + 1, NEW p \in Pcs
  PROVE  CheckWith(f, j, p) = CheckWith(g, j, p)
<1>1. CASE j.bi[p].status # "NEED_CHECK"
  BY <1>1 DEF CheckWith
<1>2. CASE j.bi[p].status = "NEED_CHECK"
  <2> DEFINE x == Checking(j, p)
             C(called) == IF called.good
                          THEN [j |-> Reactivate(called.j, p), good |-> TRUE]
                          ELSE [j |-> RaiseInClList(InvalidateBlock(called.j, p), p), good |-> FALSE]
             bad == [j |-> j, good |-> FALSE]
  <2>1. JitOK(x) /\ Others(j, x, p) /\ x.bi[p].status = "CHECKING"
    BY <1>2, CheckingOK
  <2>2. /\ CheckWith(f, j, p) = C(IF ChecksumMatches(j, p) THEN CalledCheckChecksum(f, x, p) ELSE bad)
        /\ CheckWith(g, j, p) = C(IF ChecksumMatches(j, p) THEN CalledCheckChecksum(g, x, p) ELSE bad)
    BY <1>2 DEF CheckWith, Checking
  <2> HIDE DEF x, C, bad
  <2>3. Pending(x) = Pending(j) \ {p} /\ p \in Pending(j)
    BY <1>2, <2>1 DEF Pending, Others, Same
  <2>4. Cardinality(Pending(x)) = Cardinality(Pending(j)) - 1
    BY <2>3, PendingFacts, FS_RemoveElement
  <2>5. Cardinality(Pending(x)) <= n
    BY <2>4, PendingFacts
  <2>6. CalledCheckChecksum(f, x, p) = CalledCheckChecksum(g, x, p)
    BY <2>1, <2>5, CalledAgree
  <2>7. QED
    BY <2>2, <2>6
<1>3. QED
  BY <1>1, <1>2

LEMMA NestedAgree ==
  ASSUME NEW n \in Nat
  PROVE  Agree(Nested[n], Nested[n + 1], n)
<1> DEFINE Bad == {m \in Nat : ~ Agree(Nested[m], Nested[m + 1], m)}
<1> SUFFICES ASSUME Bad # {} PROVE FALSE
  OBVIOUS
<1>1. PICK m \in Bad : \A i \in Bad : m <= i
  BY LeastMember
<1>2. PICK j \in Jits, p \in Pcs : /\ JitOK(j) /\ Cardinality(Pending(j)) <= m
                                   /\ Nested[m][<<j, p>>] # Nested[m + 1][<<j, p>>]
  BY <1>1 DEF Agree
<1>3. Nested[m + 1][<<j, p>>] = CheckWith(Nested[m], j, p)
  BY <1>1, <1>2, NestedStep
<1>4. CASE m = 0
  <2>1. Nested[m][<<j, p>>] = [j |-> j, good |-> TRUE]
    BY <1>2, <1>4, NestedStep
  <2>2. Cardinality(Pending(j)) = 0
    BY <1>2, <1>4, PendingFacts
  <2>3. Pending(j) = {}
    BY <2>2, PendingFacts, FS_EmptySet
  <2>4. j.bi[p].status # "NEED_CHECK"
    BY <1>2, <2>3 DEF Pending
  <2>5. QED
    BY <1>2, <1>3, <2>1, <2>4 DEF CheckWith
<1>5. CASE m # 0
  <2> DEFINE i == m - 1
  <2>1. i \in Nat /\ m = i + 1 /\ i \notin Bad
    BY <1>1, <1>5
  <2>2. Agree(Nested[i], Nested[m], i) /\ Checks(Nested[i])
    BY <2>1, NestedChecks
  <2>3. Nested[m][<<j, p>>] = CheckWith(Nested[i], j, p)
    BY <1>2, <2>1, NestedStep
  <2>4. Cardinality(Pending(j)) <= i + 1
    BY <1>2, <2>1
  <2> HIDE DEF i
  <2>5. CheckWith(Nested[i], j, p) = CheckWith(Nested[m], j, p)
    BY <1>2, <2>1, <2>2, <2>4, CheckWithAgree
  <2>6. QED
    BY <1>2, <1>3, <2>3, <2>5
<1>6. QED
  BY <1>4, <1>5

(***************************************************************************)
(* The depth that BlockCheckChecksum allows is never reached: it is what   *)
(* block_check_checksum computes when every call for a successor is again  *)
(* block_check_checksum, for every graph of blocks, so the recursion of    *)
(* the code ends, no deeper than there are blocks.                         *)
(***************************************************************************)
THEOREM NestingTheorem ==
  ASSUME NEW j, JitOK(j), NEW p \in Pcs
  PROVE  BlockCheckChecksum(j, p) = CheckWith(Nested[Cardinality(Pcs)], j, p)
<1> DEFINE n == Cardinality(Pcs)
<1>1. n \in Nat /\ Cardinality(Pending(j)) <= n /\ j \in Jits
  BY PendingFacts DEF JitOK
<1>2. BlockCheckChecksum(j, p) = Nested[n][<<j, p>>]
  BY DEF BlockCheckChecksum
<1> HIDE DEF n
<1>3. Nested[n][<<j, p>>] = Nested[n + 1][<<j, p>>]
  BY <1>1, NestedAgree DEF Agree
<1>4. Nested[n + 1][<<j, p>>] = CheckWith(Nested[n], j, p)
  BY <1>1, NestedStep
<1>5. QED
  BY <1>2, <1>3, <1>4 DEF n

-----------------------------------------------------------------------------
(***************************************************************************)
(* compile_block.                                                          *)
(***************************************************************************)
LEMMA SameLists ==
  ASSUME NEW j \in Jits, NEW k \in Jits, k.cl = j.cl, k.tag = j.tag,
         \A q \in Pcs : k.bi[q].status = j.bi[q].status /\ k.bi[q].handler_to_use = j.bi[q].handler_to_use,
         ListsOK(j, {}), TagsOK(j, {})
  PROVE  ListsOK(k, {}) /\ TagsOK(k, {})
<1>1. \A l \in Lines : \A i \in DOMAIN j.cl[l] : j.cl[l][i] \in Pcs
  BY JitFields, LenProperties, ElementOfSeq
<1>2. \A l \in Lines : j.cl[l] # <<>> => Head(j.cl[l]) \in Pcs
  BY JitFields
<1>3. QED
  BY <1>1, <1>2 DEF ListsOK, TagsOK, Exists

\* A block that is needed is there afterwards.
LEMMA GetNewEvolves ==
  ASSUME NEW j, JitOK(j), NEW p \in Pcs
  PROVE  Evolves(j, GetBlockinfoNew(j, p))
<1> DEFINE k == GetBlockinfoNew(j, p)
<1>1. /\ Others(j, k, p)
      /\ Exists(j, p) => k = j
      /\ ~ Exists(j, p) => k.bi[p].status = "INVALID"
  BY GetNewOK
<1> HIDE DEF k
<1>2. CASE Exists(j, p)
  BY <1>1, <1>2, EvolvesSame DEF k
<1>3. CASE ~ Exists(j, p)
  <2>1. BlockEvolves(j.bi[p], k.bi[p], p)
    BY <1>1, <1>3 DEF BlockEvolves, Exists
  <2>2. QED
    BY <1>1, <2>1, OthersEvolve DEF k
<1>4. QED
  BY <1>2, <1>3

LEMMA AddExitOK ==
  ASSUME NEW j, JitOK(j), NEW p \in Pcs, j.bi[p].status = "COMPILING",
         NEW i \in 1..2, NEW t \in Pcs
  PROVE  JitOK(AddExit(j, p, i, t)) /\ Evolves(j, AddExit(j, p, i, t))
<1> DEFINE g == GetBlockinfoNew(j, t)
           r == BlockCheckChecksum(g, t)
           k == r.j
           d == [target |-> t, jmp |-> k.bi[t].dhtu]
           b == [k.bi[p] EXCEPT !.dep[i] = d]
           f == [k EXCEPT !.bi[p] = b]
<1>1. JitOK(g) /\ Evolves(j, g) /\ Exists(g, t)
  BY GetNewOK, GetNewEvolves
<1>2. AddExit(j, p, i, t) = f
  BY DEF AddExit
<1> HIDE DEF g
<1>3. Answers(g, r)
  BY <1>1, CheckOK
<1> HIDE DEF r
<1>4. JitOK(k) /\ Evolves(g, k)
  BY <1>3 DEF Answers
<1> HIDE DEF k
<1>5. Evolves(j, k)
  BY <1>1, <1>4, EvolvesTransitive
<1>6. Exists(k, t)
  BY <1>1, <1>4 DEF Evolves, BlockEvolves, Exists
<1>7. k \in Jits /\ BlocksOK(k) /\ Linked(k) /\ ListsOK(k, {}) /\ TagsOK(k, {})
  BY <1>4 DEF JitOK
<1>8. k.bi[p] \in Blocks /\ k.bi[p].dep \in [1..2 -> Deps] /\ k.bi[t].dhtu \in Addresses
  BY <1>7, JitFields DEF Blocks
<1>9. d \in Deps /\ d.target = t /\ d.jmp = k.bi[t].dhtu
  BY <1>8 DEF Deps
<1> HIDE DEF d
<1>10. /\ b \in Blocks /\ Same(k.bi[p], b)
       /\ b.dep[i] = d /\ \A x \in 1..2 : x # i => b.dep[x] = k.bi[p].dep[x]
  BY <1>8, <1>9 DEF Blocks, Same
<1> HIDE DEF b
<1>11. /\ f \in Jits /\ f.cl = k.cl /\ f.tag = k.tag /\ f.bi[p] = b
       /\ \A q \in Pcs : q # p => f.bi[q] = k.bi[q]
  BY <1>7, <1>10, BlockSet
<1> HIDE DEF f
<1>12. \A q \in Pcs : Same(k.bi[q], f.bi[q])
  BY <1>10, <1>11 DEF Same
<1>13. ListsOK(f, {}) /\ TagsOK(f, {})
  BY <1>7, <1>11, <1>12, SameLists DEF Same
<1>14. k.bi[p].status = "COMPILING"
  BY <1>5 DEF Evolves, BlockEvolves
<1>15. BlocksOK(f)
  <2> SUFFICES ASSUME NEW q \in Pcs PROVE BlockOK(f.bi[q], q)
    BY DEF BlocksOK
  <2>1. CASE q # p
    BY <1>7, <1>11, <2>1 DEF BlocksOK
  <2>2. CASE q = p
    BY <1>7, <1>12, <1>14, <2>2 DEF BlocksOK, BlockOK, Same
  <2>3. QED
    BY <2>1, <2>2
<1>16. Linked(f)
  <2> SUFFICES ASSUME NEW q \in Pcs, NEW x \in 1..2, f.bi[q].dep[x] # NoDep
               PROVE  /\ Exists(f, f.bi[q].dep[x].target)
                      /\ f.bi[q].dep[x].jmp = f.bi[f.bi[q].dep[x].target].dhtu
    BY DEF Linked
  <2>1. CASE q = p /\ x = i
    BY <1>6, <1>9, <1>10, <1>11, <1>12, <2>1 DEF Same, Exists
  <2>2. CASE ~(q = p /\ x = i)
    <3>1. f.bi[q].dep[x] = k.bi[q].dep[x]
      BY <1>10, <1>11, <2>2
    <3>2. k.bi[q].dep[x].target \in Pcs
      BY <1>7, <3>1, JitFields, DepFacts
    <3> DEFINE u == k.bi[q].dep[x].target
    <3>3. Exists(k, u) /\ k.bi[q].dep[x].jmp = k.bi[u].dhtu
      BY <1>7, <3>1 DEF Linked
    <3>4. f.bi[u].status = k.bi[u].status /\ f.bi[u].dhtu = k.bi[u].dhtu
      BY <1>12, <3>2 DEF Same
    <3> HIDE DEF u
    <3>5. f.bi[q].dep[x].target = u /\ f.bi[q].dep[x].jmp = f.bi[u].dhtu /\ Exists(f, u)
      BY <3>1, <3>3, <3>4 DEF Exists, u
    <3>6. QED
      BY <3>5
  <2>3. QED
    BY <2>1, <2>2
<1>17. Evolves(j, f)
  BY <1>5, <1>12 DEF Evolves, BlockEvolves, Same
<1>18. QED
  BY <1>2, <1>11, <1>13, <1>15, <1>16, <1>17 DEF JitOK

LEMMA AddExitsOK ==
  ASSUME NEW j, JitOK(j), NEW p \in Pcs, j.bi[p].status = "COMPILING",
         NEW exits \in BoundedSeq(Pcs, 2)
  PROVE  JitOK(AddExits(j, p, exits)) /\ Evolves(j, AddExits(j, p, exits))
<1> DEFINE first == IF Len(exits) >= 1 THEN AddExit(j, p, 1, exits[1]) ELSE j
<1>1. PICK m \in 0..2 : exits \in [1..m -> Pcs]
  BY DEF BoundedSeq, SeqOf
<1>2. exits \in Seq(Pcs) /\ Len(exits) = m
  BY <1>1
<1>3. JitOK(first) /\ Evolves(j, first)
  <2>1. CASE m >= 1
    BY <1>1, <1>2, <2>1, AddExitOK
  <2>2. CASE m = 0
    BY <1>2, <2>2, EvolvesSame
  <2>3. QED
    BY <1>1, <2>1, <2>2
<1>4. AddExits(j, p, exits) = IF Len(exits) = 2 THEN AddExit(first, p, 2, exits[2]) ELSE first
  BY DEF AddExits
<1> HIDE DEF first
<1>5. first.bi[p].status = "COMPILING"
  BY <1>3 DEF Evolves, BlockEvolves
<1>6. CASE m = 2
  <2> DEFINE k == AddExit(first, p, 2, exits[2])
  <2>1. exits[2] \in Pcs
    BY <1>1, <1>6
  <2>2. JitOK(k) /\ Evolves(first, k)
    BY <1>3, <1>5, <2>1, AddExitOK
  <2> HIDE DEF k
  <2>3. Evolves(j, k)
    BY <1>3, <2>2, EvolvesTransitive
  <2>4. QED
    BY <1>2, <1>4, <1>6, <2>2, <2>3 DEF k
<1>7. CASE m # 2
  BY <1>2, <1>3, <1>4, <1>7
<1>8. QED
  BY <1>6, <1>7

\* No block is in the middle of a check or a compilation.
AtRest(j) == \A p \in Pcs : j.bi[p].status \notin {"CHECKING", "COMPILING"}

LEMMA EvolvesAtRest ==
  ASSUME NEW j, NEW k, AtRest(j), Evolves(j, k)
  PROVE  AtRest(k)
BY DEF AtRest, Evolves, BlockEvolves

\* compile_block up to the jumps of the block.
Started(b, p, tr, n) ==
  [SetDhtu(b, p, Jump(tr)) EXCEPT !.bi[p] =
     [@ EXCEPT !.status = "COMPILING", !.tr = tr, !.dep = NoDeps, !.count = n]]

\* compile_block after them.
Finished(j, p, tr) ==
  RaiseInClList([j EXCEPT !.bi[p] = [@ EXCEPT !.handler_to_use = Jump(tr), !.status = "ACTIVE",
                                               !.list = "active"]], p)

LEMMA StartedOK ==
  ASSUME NEW j, JitOK(j), AtRest(j), NEW p \in Pcs, Exists(j, p),
         NEW tr \in Codes, tr.pc = p, NEW n \in Int
  PROVE  LET k == Started(j, p, tr, n) IN
         /\ JitOK(k) /\ Others(j, k, p) /\ k.bi[p].status = "COMPILING"
         /\ k.bi[p].tr = tr /\ k.bi[p].count = n
<1> DEFINE a == Jump(tr)
           x == SetDhtu(j, p, a)
           b == [x.bi[p] EXCEPT !.status = "COMPILING", !.tr = tr, !.dep = NoDeps, !.count = n]
           k == [x EXCEPT !.bi[p] = b]
<1>0. j \in Jits /\ BlocksOK(j) /\ Linked(j) /\ ListsOK(j, {}) /\ TagsOK(j, {})
  BY DEF JitOK
<1>1. a \in Addresses
  BY AddressFacts
<1>2. Started(j, p, tr, n) = k
  BY DEF Started
<1> HIDE DEF a
<1>3. /\ x \in Jits /\ x.cl = j.cl /\ x.tag = j.tag /\ Linked(x)
      /\ OneRelinked(j, x, p, a)
  BY <1>0, <1>1, SetDhtuFacts
<1> HIDE DEF x
<1>4. x.bi[p] \in Blocks
  BY <1>3, JitFields
<1>5. /\ b \in Blocks /\ b.status = "COMPILING" /\ b.list = x.bi[p].list
      /\ b.count = n /\ b.tr = tr
      /\ b.handler_to_use = x.bi[p].handler_to_use /\ b.dhtu = x.bi[p].dhtu /\ b.dep = NoDeps
  BY <1>4, AddressFacts DEF Blocks
<1> HIDE DEF b
<1>6. /\ k \in Jits /\ k.cl = x.cl /\ k.tag = x.tag /\ k.bi[p] = b
      /\ \A q \in Pcs : q # p => k.bi[q] = x.bi[q]
  BY <1>3, <1>5, BlockSet
<1> HIDE DEF k
<1>7. Linked(k)
  BY <1>3, <1>5, <1>6, BlockSetLinked
<1>8. /\ \A q \in Pcs : q # p => Same(j.bi[q], x.bi[q])
      /\ x.bi[p].dhtu = a /\ x.bi[p].handler_to_use = j.bi[p].handler_to_use
      /\ \A q \in Pcs : j.bi[q].dep = NoDeps => x.bi[q].dep = NoDeps
  BY <1>3 DEF OneRelinked
<1>9. Touched(j, k, p)
  BY <1>3, <1>6, <1>8 DEF Touched
<1>10. BlocksOK(k)
  <2>1. BlockOK(k.bi[p], p)
    BY <1>5, <1>6, <1>8 DEF BlockOK, a
  <2>2. QED
    BY <1>0, <1>9, <2>1, TouchedBlocks
<1>11. ListsOK(k, {}) /\ TagsOK(k, {p})
  BY <1>0, <1>5, <1>6, <1>9, TouchedLists DEF Exists
<1>12. TagsOK(k, {})
  <2>1. k.bi[p].handler_to_use = j.bi[p].handler_to_use /\ j.bi[p].status # "CHECKING"
    BY <1>5, <1>6, <1>8 DEF AtRest
  <2>2. QED
    BY <1>0, <1>9, <1>11, <2>1 DEF TagsOK, Touched
<1>13. QED
  BY <1>2, <1>5, <1>6, <1>7, <1>8, <1>9, <1>10, <1>11, <1>12 DEF JitOK, Others, Touched

LEMMA FinishedOK ==
  ASSUME NEW j, JitOK(j), NEW p \in Pcs, j.bi[p].status = "COMPILING"
  PROVE  LET k == Finished(j, p, j.bi[p].tr) IN
         /\ JitOK(k) /\ Others(j, k, p) /\ k.bi[p].status = "ACTIVE" /\ IsHead(k, p)
         /\ k.bi[p].tr = j.bi[p].tr /\ k.bi[p].count = j.bi[p].count
<1> DEFINE a == Jump(j.bi[p].tr)
           b == [j.bi[p] EXCEPT !.handler_to_use = a, !.status = "ACTIVE", !.list = "active"]
           x == [j EXCEPT !.bi[p] = b]
           k == RaiseInClList(x, p)
<1>0. j \in Jits /\ BlocksOK(j) /\ Linked(j) /\ ListsOK(j, {}) /\ TagsOK(j, {})
  BY DEF JitOK
<1>1. j.bi[p] \in Blocks /\ a \in Addresses
  BY <1>0, JitFields, AddressFacts DEF Blocks
<1>2. Finished(j, p, j.bi[p].tr) = k
  BY DEF Finished
<1>3. j.bi[p].dhtu = a /\ j.bi[p].tr.pc = p
  BY <1>0 DEF BlocksOK, BlockOK
<1> HIDE DEF a
<1>4. /\ b \in Blocks /\ b.status = "ACTIVE" /\ b.list = "active"
      /\ b.count = j.bi[p].count /\ b.tr = j.bi[p].tr
      /\ b.handler_to_use = a /\ b.dhtu = j.bi[p].dhtu /\ b.dep = j.bi[p].dep
  BY <1>1 DEF Blocks
<1> HIDE DEF b
<1>5. /\ x \in Jits /\ x.cl = j.cl /\ x.tag = j.tag /\ x.bi[p] = b
      /\ \A q \in Pcs : q # p => x.bi[q] = j.bi[q]
  BY <1>0, <1>4, BlockSet
<1> HIDE DEF x
<1>6. Linked(x)
  BY <1>0, <1>4, <1>5, BlockSetLinked
<1>7. Touched(j, x, p)
  BY <1>5 DEF Touched, Same
<1>8. BlocksOK(x)
  <2>1. BlockOK(x.bi[p], p)
    BY <1>3, <1>4, <1>5 DEF BlockOK, a
  <2>2. QED
    BY <1>0, <1>7, <2>1, TouchedBlocks
<1>9. Exists(x, p) /\ ListsOK(x, {p}) /\ TagsOK(x, {p})
  BY <1>0, <1>4, <1>5, <1>7, TouchedLists DEF Exists
<1>10. k \in Jits /\ k.bi = x.bi /\ ListsOK(k, {}) /\ TagsOK(k, {}) /\ IsHead(k, p)
  BY <1>5, <1>9, RaiseOK
<1> HIDE DEF k
<1>11. BlocksOK(k) /\ Linked(k)
  BY <1>6, <1>8, <1>10 DEF BlocksOK, Linked, Exists
<1>12. QED
  BY <1>2, <1>4, <1>5, <1>7, <1>10, <1>11 DEF JitOK, Others, Touched

\* What compile_block makes of a block, and the code it generates.
Translation(n, p, torn) ==
  LET native == n = -1
  IN  [pc |-> p, kind |-> IF native THEN "native" ELSE "nostats",
       code |-> mem[p], torn |-> native /\ torn,
       call |-> IF native THEN CompiledCall(tables, LastOp[mem[p]]) ELSE "none"]

LEMMA TranslationFacts ==
  ASSUME NEW p \in Pcs, NEW torn \in BOOLEAN, mem \in [Pcs -> Contents],
         HostOpcodesTypeOK, NEW n \in Int
  PROVE  LET tr == Translation(n, p, torn) IN
         /\ tr \in Codes /\ tr.pc = p /\ tr.code = mem[p] /\ tr.torn \in BOOLEAN
         /\ n = -1 => /\ tr.kind = "native"
                      /\ tr.call = CompiledCall(tables, LastOp[mem[p]])
         /\ n # -1 => tr.kind = "nostats"
<1> DEFINE c == CompiledCall(tables, LastOp[mem[p]])
<1>1. LastOp[mem[p]] \in Opcodes
  BY JitBlocksAssumption
<1>2. c \in {"native", "op", "illg"}
  BY <1>1 DEF CompiledCall, HostOpcodesTypeOK
<1> HIDE DEF c
<1>3. CASE n = -1
  <2>1. Translation(n, p, torn) = [pc |-> p, kind |-> "native", code |-> mem[p],
                                   torn |-> torn, call |-> c]
    BY <1>3 DEF Translation, c
  <2>2. QED
    BY <1>2, <1>3, <2>1 DEF Codes, c
<1>4. CASE n # -1
  <2>1. Translation(n, p, torn) = [pc |-> p, kind |-> "nostats", code |-> mem[p],
                                   torn |-> FALSE, call |-> "none"]
    BY <1>4 DEF Translation
  <2>2. QED
    BY <1>4, <2>1 DEF Codes
<1>5. QED
  BY <1>3, <1>4

\* compile_block.
LEMMA CompileOK ==
  ASSUME NEW j, JitOK(j), AtRest(j), NEW p \in Pcs, NEW torn \in BOOLEAN,
         mem \in [Pcs -> Contents], HostOpcodesTypeOK
  PROVE  LET k == Compile(j, p, torn)
             n == IF Exists(j, p) THEN j.bi[p].count ELSE OptCount - 1
         IN  /\ JitOK(k) /\ AtRest(k)
             /\ \A q \in Pcs : q # p => BlockEvolves(j.bi[q], k.bi[q], q)
             /\ n # -1 => \A q \in Pcs : q # p => k.bi[q].status = j.bi[q].status
                                               /\ k.bi[q].tr = j.bi[q].tr
             /\ k.bi[p].status = "ACTIVE" /\ k.bi[p].tr = Translation(n, p, torn)
             /\ k.bi[p].count = IF n = -1 THEN -2 ELSE n
<1> DEFINE b == GetBlockinfoNew(j, p)
           n == b.bi[p].count
           exits == IF n = -1 THEN Exits[p][mem[p]] ELSE <<>>
           tr == Translation(n, p, torn)
           s == Started(b, p, tr, IF n = -1 THEN -2 ELSE n)
           x == AddExits(s, p, exits)
           k == Finished(x, p, tr)
<1>1. /\ JitOK(b) /\ Others(j, b, p) /\ Exists(b, p)
      /\ Exists(j, p) => b = j
      /\ ~ Exists(j, p) => b.bi[p].status = "INVALID"
  BY GetNewOK
<1>2. Compile(j, p, torn) = k
  BY DEF Compile, Translation, Started, Finished
<1>3. AtRest(b)
  BY GetNewEvolves, EvolvesAtRest
<1>4. n = IF Exists(j, p) THEN j.bi[p].count ELSE OptCount - 1
  BY <1>1 DEF JitOK, BlocksOK, BlockOK
<1> HIDE DEF b
<1>5. n \in Int
  BY <1>1, JitFields DEF JitOK, Blocks
<1> HIDE DEF n
<1>6. tr \in Codes /\ tr.pc = p
  BY <1>5, TranslationFacts
<1> HIDE DEF tr
<1>7. /\ JitOK(s) /\ Others(b, s, p) /\ s.bi[p].status = "COMPILING"
      /\ s.bi[p].tr = tr /\ s.bi[p].count = IF n = -1 THEN -2 ELSE n
  BY <1>1, <1>3, <1>5, <1>6, StartedOK
<1> HIDE DEF s
<1>8. exits \in BoundedSeq(Pcs, 2)
  <2>1. <<>> \in [1..0 -> Pcs]
    OBVIOUS
  <2>2. <<>> \in BoundedSeq(Pcs, 2)
    BY <2>1 DEF BoundedSeq, SeqOf
  <2>3. QED
    BY <2>2, JitBlocksAssumption
<1>9. n # -1 => x = s
  BY DEF AddExits
<1> HIDE DEF exits
<1>10. JitOK(x) /\ Evolves(s, x)
  BY <1>7, <1>8, AddExitsOK
<1> HIDE DEF x
<1>11. x.bi[p].status = "COMPILING" /\ x.bi[p].tr = tr /\ x.bi[p].count = s.bi[p].count
  BY <1>7, <1>10 DEF Evolves, BlockEvolves
<1>12. /\ JitOK(k) /\ Others(x, k, p) /\ k.bi[p].status = "ACTIVE"
       /\ k.bi[p].tr = tr /\ k.bi[p].count = x.bi[p].count
  BY <1>10, <1>11, FinishedOK
<1> HIDE DEF k
<1>13. \A q \in Pcs : q # p => BlockEvolves(j.bi[q], k.bi[q], q)
  BY <1>1, <1>7, <1>10, <1>12 DEF Others, Same, Evolves, BlockEvolves
<1>14. AtRest(k)
  BY <1>12, <1>13 DEF AtRest, BlockEvolves
<1>15. n # -1 => \A q \in Pcs : q # p => k.bi[q].status = j.bi[q].status
                                      /\ k.bi[q].tr = j.bi[q].tr
  BY <1>1, <1>7, <1>9, <1>12 DEF Others, Same
<1>16. QED
  BY <1>2, <1>4, <1>7, <1>11, <1>12, <1>13, <1>14, <1>15 DEF tr

-----------------------------------------------------------------------------
(***************************************************************************)
(* flush_icache_lazy and flush_icache_hard.                                *)
(***************************************************************************)
\* Every translation has to be checked; nothing else of a block changes.
Flushes(j, k) ==
  \A q \in Pcs :
    /\ k.bi[q].count = j.bi[q].count /\ k.bi[q].tr = j.bi[q].tr
    /\ j.bi[q].status \in {"none", "INVALID"} => k.bi[q].status = j.bi[q].status
    /\ j.bi[q].status \notin {"none", "INVALID"} => k.bi[q].status = "NEED_CHECK"

LEMMA FlushOK ==
  ASSUME NEW j, JitOK(j), AtRest(j)
  PROVE  LET k == FlushIcacheLazy(j) IN
         JitOK(k) /\ AtRest(k) /\ k.cl = j.cl /\ Flushes(j, k)
<1> DEFINE active == {p \in Pcs : j.bi[p].list = "active"}
           to == [p \in active |-> FlushedTo(j, p)]
           u == SetDhtus(j, to)
           Flushed(p) == [u.bi[p] EXCEPT
                            !.status = IF @ = "INVALID" THEN @ ELSE "NEED_CHECK",
                            !.handler_to_use = FlushedTo(j, p),
                            !.list = "dormant"]
           bi == [p \in Pcs |-> IF p \in active THEN Flushed(p) ELSE u.bi[p]]
           tag == FlushedTags(j, active)
           k == [j EXCEPT !.bi = bi, !.tag = tag]
<1>0. j \in Jits /\ BlocksOK(j) /\ Linked(j) /\ ListsOK(j, {}) /\ TagsOK(j, {})
  BY DEF JitOK
<1>1. FlushIcacheLazy(j) = k
  BY DEF FlushIcacheLazy
<1>2. /\ \A p : FlushedTo(j, p) \in Addresses
      /\ \A p : FlushedTo(j, p) = IF j.bi[p].status = "INVALID" THEN Normal ELSE Check
  BY AddressFacts DEF FlushedTo
<1>3. /\ active \in SUBSET Pcs /\ to \in [active -> Addresses]
      /\ \A p \in active : to[p] = FlushedTo(j, p)
      /\ \A p \in Pcs : p \in active <=> j.bi[p].list = "active"
  BY <1>2
<1>4. tag \in [Lines -> Addresses]
  BY <1>0, <1>2, JitFields DEF FlushedTags
<1>5. \A l \in Lines : tag[l] = IF j.cl[l] # <<>> /\ Head(j.cl[l]) \in active
                                THEN FlushedTo(j, Head(j.cl[l])) ELSE j.tag[l]
  BY DEF FlushedTags
<1> HIDE DEF active, to, tag
<1>6. u \in Jits /\ u.cl = j.cl /\ Relinked(j, u, to)
  BY <1>0, <1>3, SetDhtusFacts
<1>7. Linked(u)
  BY <1>0, <1>3, <1>6, RelinkedLinked
<1> HIDE DEF u
<1>8. \A q \in Pcs :
        /\ u.bi[q] \in Blocks
        /\ u.bi[q].status = j.bi[q].status /\ u.bi[q].list = j.bi[q].list
        /\ u.bi[q].count = j.bi[q].count /\ u.bi[q].tr = j.bi[q].tr
        /\ u.bi[q].handler_to_use = j.bi[q].handler_to_use
        /\ u.bi[q].dhtu = IF q \in active THEN FlushedTo(j, q) ELSE j.bi[q].dhtu
        /\ j.bi[q].dep = NoDeps => u.bi[q].dep = NoDeps
  BY <1>3, <1>6, JitFields DEF Relinked
<1>9. ASSUME NEW q \in Pcs
      PROVE  LET f == Flushed(q) IN
             /\ f \in Blocks /\ f.list = "dormant" /\ f.handler_to_use = FlushedTo(j, q)
             /\ f.status = IF j.bi[q].status = "INVALID" THEN "INVALID" ELSE "NEED_CHECK"
             /\ f.count = u.bi[q].count /\ f.tr = u.bi[q].tr /\ f.dhtu = u.bi[q].dhtu
             /\ f.dep = u.bi[q].dep
  <2> DEFINE v == u.bi[q]
             s == IF j.bi[q].status = "INVALID" THEN "INVALID" ELSE "NEED_CHECK"
             h == FlushedTo(j, q)
             f == [v EXCEPT !.status = s, !.handler_to_use = h, !.list = "dormant"]
  <2>1. v \in Blocks /\ v.status = j.bi[q].status /\ h \in Addresses
    BY <1>2, <1>8
  <2>2. Flushed(q) = f
    <3>1. (IF v.status = "INVALID" THEN v.status ELSE "NEED_CHECK") = s
      BY <2>1
    <3>2. QED
      BY <3>1
  <2> HIDE DEF v, h
  <2>3. /\ f \in Blocks /\ f.list = "dormant" /\ f.handler_to_use = h /\ f.status = s
        /\ f.count = v.count /\ f.tr = v.tr /\ f.dhtu = v.dhtu /\ f.dep = v.dep
    BY <2>1 DEF Blocks
  <2> HIDE DEF f
  <2>4. QED
    BY <2>2, <2>3 DEF v, h
<1>10. bi \in [Pcs -> Blocks]
  <2>1. \A q \in Pcs : Flushed(q) \in Blocks /\ u.bi[q] \in Blocks
    BY <1>8, <1>9
  <2> HIDE DEF Flushed
  <2>2. QED
    BY <2>1
<1>11. \A q \in Pcs : bi[q] = IF q \in active THEN Flushed(q) ELSE u.bi[q]
  OBVIOUS
<1> HIDE DEF Flushed, bi
<1>12. k \in Jits /\ k.bi = bi /\ k.cl = j.cl /\ k.tag = tag
  BY <1>0, <1>4, <1>10 DEF Jits
<1> HIDE DEF k
<1>13. ASSUME NEW q \in Pcs, q \in active
       PROVE  /\ k.bi[q].list = "dormant" /\ k.bi[q].handler_to_use = FlushedTo(j, q)
              /\ k.bi[q].status = IF j.bi[q].status = "INVALID" THEN "INVALID" ELSE "NEED_CHECK"
              /\ k.bi[q].count = j.bi[q].count /\ k.bi[q].tr = j.bi[q].tr
              /\ k.bi[q].dhtu = FlushedTo(j, q) /\ k.bi[q].dep = u.bi[q].dep
              /\ j.bi[q].status # "none"
  BY <1>0, <1>3, <1>8, <1>9, <1>11, <1>12, <1>13 DEF BlocksOK, BlockOK
<1>14. ASSUME NEW q \in Pcs, q \notin active
       PROVE  k.bi[q] = u.bi[q] /\ j.bi[q].status \in {"none", "INVALID", "NEED_CHECK"}
  <2>1. j.bi[q] \in Blocks /\ j.bi[q].status # "ACTIVE"
    BY <1>0, <1>3, <1>14, JitFields DEF BlocksOK, BlockOK
  <2>2. QED
    BY <1>11, <1>12, <1>14, <2>1 DEF AtRest, Blocks
<1>15. Flushes(j, k)
  <2> SUFFICES ASSUME NEW q \in Pcs
               PROVE  /\ k.bi[q].count = j.bi[q].count /\ k.bi[q].tr = j.bi[q].tr
                      /\ j.bi[q].status \in {"none", "INVALID"} => k.bi[q].status = j.bi[q].status
                      /\ j.bi[q].status \notin {"none", "INVALID"} => k.bi[q].status = "NEED_CHECK"
    BY DEF Flushes
  <2>1. CASE q \in active
    BY <1>13, <2>1
  <2>2. CASE q \notin active
    BY <1>8, <1>14, <2>2
  <2>3. QED
    BY <2>1, <2>2
<1>16. BlocksOK(k)
  <2> SUFFICES ASSUME NEW q \in Pcs PROVE BlockOK(k.bi[q], q)
    BY DEF BlocksOK
  <2>1. BlockOK(j.bi[q], q)
    BY <1>0 DEF BlocksOK
  <2>2. CASE q \in active
    BY <1>2, <1>8, <1>13, <2>1, <2>2 DEF BlockOK
  <2>3. CASE q \notin active
    BY <1>8, <1>14, <2>1, <2>3 DEF BlockOK
  <2>4. QED
    BY <2>2, <2>3
<1>17. \A q \in Pcs : k.bi[q].dep = u.bi[q].dep /\ k.bi[q].dhtu = u.bi[q].dhtu
  BY <1>8, <1>13, <1>14
<1>18. \A q \in Pcs : Exists(k, q) <=> Exists(j, q)
  BY <1>15 DEF Flushes, Exists
<1>19. Linked(k)
  <2> SUFFICES ASSUME NEW q \in Pcs, NEW i \in 1..2, k.bi[q].dep[i] # NoDep
               PROVE  /\ Exists(k, k.bi[q].dep[i].target)
                      /\ k.bi[q].dep[i].jmp = k.bi[k.bi[q].dep[i].target].dhtu
    BY DEF Linked
  <2>1. u.bi[q].dep[i] # NoDep /\ u.bi[q].dep[i].target \in Pcs
    BY <1>6, <1>17, JitFields, DepFacts
  <2>2. /\ Exists(u, u.bi[q].dep[i].target)
        /\ u.bi[q].dep[i].jmp = u.bi[u.bi[q].dep[i].target].dhtu
    BY <1>7, <2>1 DEF Linked
  <2>3. Exists(k, u.bi[q].dep[i].target)
    BY <1>8, <1>18, <2>1, <2>2 DEF Exists
  <2>4. QED
    BY <1>17, <2>1, <2>2, <2>3
<1>20. \A l \in Lines : \A i \in DOMAIN j.cl[l] : j.cl[l][i] \in Pcs
  BY <1>0, JitFields, LenProperties, ElementOfSeq
<1>21. \A l \in Lines : j.cl[l] # <<>> => Head(j.cl[l]) \in Pcs
  BY <1>0, JitFields
<1>22. ListsOK(k, {})
  BY <1>0, <1>12, <1>18, <1>20 DEF ListsOK
<1>23. TagsOK(k, {})
  <2> SUFFICES ASSUME NEW l \in Lines
               PROVE  /\ k.cl[l] = <<>> => k.tag[l] = Normal
                      /\ k.cl[l] # <<>> => k.tag[l] = k.bi[Head(k.cl[l])].handler_to_use
    BY DEF TagsOK
  <2>1. CASE j.cl[l] = <<>>
    BY <1>0, <1>5, <1>12, <2>1 DEF TagsOK
  <2>2. CASE j.cl[l] # <<>>
    <3> DEFINE h == Head(j.cl[l])
    <3>1. h \in Pcs /\ j.bi[h].status # "CHECKING"
      BY <1>21, <2>2 DEF AtRest
    <3>2. j.tag[l] = j.bi[h].handler_to_use
      BY <1>0, <2>2, <3>1 DEF TagsOK
    <3>3. k.tag[l] = IF h \in active THEN FlushedTo(j, h) ELSE j.tag[l]
      BY <1>5, <1>12, <2>2
    <3>4. k.bi[h].handler_to_use = IF h \in active THEN FlushedTo(j, h) ELSE j.bi[h].handler_to_use
      BY <1>8, <1>13, <1>14, <3>1
    <3>5. QED
      BY <1>12, <2>2, <3>2, <3>3, <3>4
  <2>3. QED
    BY <2>1, <2>2
<1>24. AtRest(k)
  BY <1>15 DEF Flushes, AtRest
<1>25. QED
  BY <1>1, <1>12, <1>15, <1>16, <1>19, <1>22, <1>23, <1>24 DEF JitOK

LEMMA EmptyOK ==
  /\ JitOK(EmptyJit) /\ AtRest(EmptyJit)
  /\ \A p \in Pcs : EmptyJit.bi[p] = NoBlock /\ ~ Exists(EmptyJit, p)
<1>1. /\ EmptyJit.bi = [p \in Pcs |-> NoBlock] /\ EmptyJit.cl = [l \in Lines |-> <<>>]
      /\ EmptyJit.tag = [l \in Lines |-> Normal]
  BY DEF EmptyJit
<1>2. /\ NoBlock.status = "none" /\ NoBlock.list = "none" /\ NoBlock.count = 0
      /\ NoBlock.tr = NoCode /\ NoBlock.handler_to_use = Normal /\ NoBlock.dhtu = Normal
      /\ NoBlock.dep = NoDeps /\ NoBlock \in Blocks
  BY AddressFacts DEF NoBlock, Blocks
<1>3. \A i \in 1..2 : NoDeps[i] = NoDep
  BY DEF NoDeps
<1>4. EmptyJit \in Jits
  BY <1>2, AddressFacts DEF Jits, EmptyJit
<1> HIDE DEF EmptyJit
<1>5. BlocksOK(EmptyJit) /\ Linked(EmptyJit) /\ AtRest(EmptyJit)
  BY <1>1, <1>2, <1>3 DEF BlocksOK, BlockOK, Linked, AtRest
<1>6. ListsOK(EmptyJit, {}) /\ TagsOK(EmptyJit, {})
  <2>1. \A l \in Lines : EmptyJit.cl[l] = <<>> /\ EmptyJit.tag[l] = Normal
    BY <1>1
  <2>2. \A p \in Pcs : ~ Exists(EmptyJit, p)
    BY <1>1, <1>2 DEF Exists
  <2>3. IsInjective(<<>>) /\ DOMAIN <<>> = {}
    BY DEF IsInjective
  <2>4. QED
    BY <2>1, <2>2, <2>3 DEF ListsOK, TagsOK
<1>7. QED
  BY <1>1, <1>2, <1>4, <1>5, <1>6 DEF JitOK, Exists

-----------------------------------------------------------------------------
(***************************************************************************)
(* The inductive invariant.                                                *)
(***************************************************************************)
CpuType == [at : {"out", "dispatch", "enter", "trace", "nostats", "native"},
            pc : Pcs, tr : Codes, torn : BOOLEAN, retries : Nat]

\* The state around the blocks.
AroundOK ==
  /\ mem \in [Pcs -> Contents]
  /\ changed \subseteq Pcs
  /\ cache_enabled \in BOOLEAN
  /\ cpu \in CpuType
  /\ cut \subseteq Faulting
  /\ HostOpcodesTypeOK

\* A translation was made with the tables of now; one in use, from the code
\* of now unless that changed since.
CodeOK(b, p) ==
  b.tr.kind = "native" =>
    /\ b.count = -2
    /\ b.tr.call = CompiledCall(tables, LastOp[b.tr.code])
    /\ b.status = "ACTIVE" => b.tr.torn \/ b.tr.code = mem[p] \/ p \in changed

Tracing(p) == cpu.at = "trace" /\ cpu.pc = p

\* The countdown of a block that is not translated yet expires once, at the
\* start of the trace it is translated from; a bus error cuts that short.
CountOK(b, p) ==
  b.tr.kind = "nostats" =>
    /\ -2 <= b.count /\ b.count < OptCount
    /\ b.count = -1 => p \in cut \/ Tracing(p)
    /\ b.count = -2 => aborted # None \/ (Tracing(p) /\ p \in cut)

\* What the dispatcher, the block entered and a trace rely on.
CpuOK ==
  /\ cpu.retries # 0 => /\ cpu.at = "dispatch" /\ cpu.retries <= 2 /\ IsHead(jit, cpu.pc)
                        /\ cpu.retries = 2 => jit.bi[cpu.pc].status = "ACTIVE"
  /\ cpu.at = "enter" => cpu.tr = jit.bi[cpu.pc].tr /\ jit.bi[cpu.pc].status = "ACTIVE"
  /\ cpu.at = "trace" /\ Exists(jit, cpu.pc) =>
       /\ IsHead(jit, cpu.pc)
       /\ \/ jit.bi[cpu.pc].status = "INVALID"
          \/ jit.bi[cpu.pc].tr.kind = "nostats" /\ jit.bi[cpu.pc].count < 0

\* The compiler leaves the reserved words alone.
TablesOK == \A op \in tables.native : ~ IsReserved(reserved, op)

Inv ==
  /\ AroundOK /\ TablesOK
  /\ JitOK(jit) /\ AtRest(jit)
  /\ \A p \in Pcs : CodeOK(jit.bi[p], p) /\ CountOK(jit.bi[p], p)
  /\ CpuOK
  /\ ~ cache_enabled => \A p \in Pcs : ~ Exists(jit, p)
  /\ AbortsOnlyAfterFault

\* cpu after a step.
Placed(c, at, p, n) ==
  c \in CpuType /\ c.at = at /\ c.pc = p /\ c.tr = NoCode /\ c.torn = FALSE /\ c.retries = n

LEMMA AtFacts ==
  ASSUME AroundOK, NEW p \in Pcs
  PROVE  /\ Placed(At("out", p), "out", p, 0) /\ Placed(At("enter", p), "enter", p, 0)
         /\ Placed(At("trace", p), "trace", p, 0) /\ Placed(At("nostats", p), "nostats", p, 0)
         /\ Placed(At("native", p), "native", p, 0)
         /\ Placed(At("dispatch", p), "dispatch", p,
                   IF cpu.at = "dispatch" THEN cpu.retries + 1 ELSE 0)
<1> DEFINE n == IF cpu.at = "dispatch" THEN cpu.retries + 1 ELSE 0
           i == [at |-> "out", pc |-> p, tr |-> NoCode, torn |-> FALSE, retries |-> 0]
<1>1. n \in Nat /\ NoCode \in Codes
  BY AddressFacts DEF AroundOK, CpuType
<1>2. /\ At("out", p) = [i EXCEPT !.at = "out", !.retries = 0]
      /\ At("enter", p) = [i EXCEPT !.at = "enter", !.retries = 0]
      /\ At("trace", p) = [i EXCEPT !.at = "trace", !.retries = 0]
      /\ At("nostats", p) = [i EXCEPT !.at = "nostats", !.retries = 0]
      /\ At("native", p) = [i EXCEPT !.at = "native", !.retries = 0]
      /\ At("dispatch", p) = [i EXCEPT !.at = "dispatch", !.retries = n]
  BY DEF At, Idle
<1> HIDE DEF n
<1>3. Placed([i EXCEPT !.at = "out", !.retries = 0], "out", p, 0)
  BY <1>1 DEF CpuType, Placed
<1>4. Placed([i EXCEPT !.at = "enter", !.retries = 0], "enter", p, 0)
  BY <1>1 DEF CpuType, Placed
<1>5. Placed([i EXCEPT !.at = "trace", !.retries = 0], "trace", p, 0)
  BY <1>1 DEF CpuType, Placed
<1>6. Placed([i EXCEPT !.at = "nostats", !.retries = 0], "nostats", p, 0)
  BY <1>1 DEF CpuType, Placed
<1>7. Placed([i EXCEPT !.at = "native", !.retries = 0], "native", p, 0)
  BY <1>1 DEF CpuType, Placed
<1>8. Placed([i EXCEPT !.at = "dispatch", !.retries = n], "dispatch", p, n)
  BY <1>1 DEF CpuType, Placed
<1> HIDE DEF i
<1>9. QED
  BY <1>2, <1>3, <1>4, <1>5, <1>6, <1>7, <1>8 DEF n

LEMMA EnterFacts ==
  ASSUME AroundOK, NEW p \in Pcs, NEW tr \in Codes
  PROVE  LET c == [At("enter", p) EXCEPT !.tr = tr] IN
         c \in CpuType /\ c.at = "enter" /\ c.pc = p /\ c.tr = tr /\ c.retries = 0
<1> DEFINE d == At("enter", p)
<1>1. d \in CpuType /\ d.at = "enter" /\ d.pc = p /\ d.retries = 0
  BY AtFacts DEF Placed
<1> HIDE DEF d
<1>2. LET c == [d EXCEPT !.tr = tr] IN
      c \in CpuType /\ c.at = "enter" /\ c.pc = p /\ c.tr = tr /\ c.retries = 0
  BY <1>1 DEF CpuType
<1>3. QED
  BY <1>2 DEF d

\* What is known of a block at rest.
LEMMA KindFacts ==
  ASSUME NEW j, JitOK(j), NEW p \in Pcs
  PROVE  /\ j.bi[p] \in Blocks /\ j.bi[p].tr \in Codes
         /\ j.bi[p].status \in {"none", "INVALID"} => j.bi[p].tr = NoCode /\ NoCode.kind = "none"
         /\ j.bi[p].status \notin {"none", "INVALID"} =>
              /\ j.bi[p].tr.kind \in {"nostats", "native"} /\ j.bi[p].tr.pc = p
              /\ j.bi[p].tr.code \in Contents /\ j.bi[p].tr.torn \in BOOLEAN
<1>1. j.bi[p] \in Blocks /\ BlockOK(j.bi[p], p)
  BY JitFields DEF JitOK, BlocksOK
<1>2. j.bi[p].tr \in Codes
  BY <1>1 DEF Blocks
<1>3. j.bi[p].status \notin {"none", "INVALID"} => j.bi[p].tr # NoCode
  BY <1>1, NoneFacts DEF BlockOK
<1>4. QED
  BY <1>1, <1>2, <1>3 DEF BlockOK, Codes, NoCode

LEMMA HeadFacts ==
  ASSUME NEW j, JitOK(j), AtRest(j), NEW p \in Pcs
  PROVE  /\ IsHead(j, p) => Exists(j, p) /\ j.tag[Line[p]] = j.bi[p].handler_to_use
         /\ j.cl[Line[p]] = <<>> => ~ Exists(j, p)
         /\ j.cl[Line[p]] # <<>> => Head(j.cl[Line[p]]) \in Pcs /\ IsHead(j, Head(j.cl[Line[p]]))
         /\ j.cl[Line[p]] = <<>> => j.tag[Line[p]] = Normal
<1>1. j \in Jits /\ ListsOK(j, {}) /\ TagsOK(j, {}) /\ Line[p] \in Lines
  BY AddressFacts DEF JitOK
<1>2. j.cl[Line[p]] \in Seq(Pcs)
  BY <1>1, JitFields
<1>3. j.cl[Line[p]] # <<>> => /\ 1 \in DOMAIN j.cl[Line[p]]
                              /\ Head(j.cl[Line[p]]) = j.cl[Line[p]][1]
                              /\ Head(j.cl[Line[p]]) \in Pcs
  BY <1>2
<1>4. IsHead(j, p) => Exists(j, p)
  BY <1>1, <1>3 DEF IsHead, ListsOK
<1>5. IsHead(j, p) => j.tag[Line[p]] = j.bi[p].handler_to_use
  BY <1>1 DEF IsHead, TagsOK, AtRest
<1>6. j.cl[Line[p]] = <<>> => ~ Exists(j, p)
  <2> SUFFICES ASSUME j.cl[Line[p]] = <<>>, Exists(j, p) PROVE FALSE
    OBVIOUS
  <2>1. PICK i \in DOMAIN j.cl[Line[p]] : TRUE
    BY <1>1 DEF ListsOK
  <2>2. QED
    BY <2>1
<1>7. j.cl[Line[p]] # <<>> => IsHead(j, Head(j.cl[Line[p]]))
  BY <1>1, <1>3 DEF ListsOK, IsHead
<1>8. QED
  BY <1>1, <1>3, <1>4, <1>5, <1>6, <1>7 DEF TagsOK

LEMMA RaiseJitOK ==
  ASSUME NEW j, JitOK(j), NEW p \in Pcs, Exists(j, p)
  PROVE  LET k == RaiseInClList(j, p) IN JitOK(k) /\ k.bi = j.bi /\ IsHead(k, p)
<1> DEFINE k == RaiseInClList(j, p)
<1>1. j \in Jits /\ BlocksOK(j) /\ Linked(j) /\ ListsOK(j, {p}) /\ TagsOK(j, {p})
  BY DEF JitOK, ListsOK, TagsOK
<1>2. k \in Jits /\ k.bi = j.bi /\ ListsOK(k, {}) /\ TagsOK(k, {}) /\ IsHead(k, p)
  BY <1>1, RaiseOK
<1> HIDE DEF k
<1>3. BlocksOK(k) /\ Linked(k)
  BY <1>1, <1>2 DEF BlocksOK, Linked, Exists
<1>4. QED
  BY <1>2, <1>3 DEF JitOK, k

-----------------------------------------------------------------------------
(***************************************************************************)
(* Where control goes.                                                     *)
(***************************************************************************)
\* With the PC at p: to the code of a block in use; back to the dispatcher
\* with the block raised or checked; or to a trace.
Goes(p) ==
  /\ aborted' = aborted
  /\ JitOK(jit') /\ AtRest(jit') /\ Evolves(jit, jit')
  /\ ~ Exists(jit, p) => jit' = jit
  /\ \/ /\ jit' = jit /\ jit.bi[p].status = "ACTIVE"
        /\ cpu' = [At("enter", p) EXCEPT !.tr = jit.bi[p].tr]
     \/ /\ cpu' = At("dispatch", p) /\ IsHead(jit', p)
        /\ \/ ~ IsHead(jit, p)
           \/ jit.bi[p].status = "NEED_CHECK" /\ jit'.bi[p].status = "ACTIVE"
     \/ /\ cpu' = At("trace", p)
        /\ Exists(jit', p) => IsHead(jit', p) /\ jit'.bi[p].status = "INVALID"

\* The addresses that control is given to with the PC at p.
LeadsTo(a, p) ==
  /\ a \in Addresses
  /\ a.to = "normal" /\ IsHead(jit, p) => jit.bi[p].status = "INVALID"
  /\ a.to = "check" /\ IsHead(jit, p) => jit.bi[p].status = "NEED_CHECK"
  /\ a.to = "code" => IF a.tr.pc = p THEN a.tr = jit.bi[p].tr /\ jit.bi[p].status = "ACTIVE"
                      ELSE ~ IsHead(jit, p)

LEMMA RaisedGoes ==
  ASSUME JitOK(jit), AtRest(jit), NEW p \in Pcs, Exists(jit, p), ~ IsHead(jit, p),
         jit' = RaiseInClList(jit, p), cpu' = At("dispatch", p), aborted' = aborted
  PROVE  Goes(p)
<1>1. JitOK(jit') /\ jit'.bi = jit.bi /\ IsHead(jit', p)
  BY RaiseJitOK
<1>2. AtRest(jit') /\ Evolves(jit, jit')
  BY <1>1 DEF AtRest, Evolves, BlockEvolves
<1>3. QED
  BY <1>1, <1>2 DEF Goes

\* execute_normal, in the state the caller found.
LEMMA NormalGoes ==
  ASSUME JitOK(jit), AtRest(jit), NEW p \in Pcs, ExecuteNormal(jit, p),
         IsHead(jit, p) => jit.bi[p].status = "INVALID"
  PROVE  Goes(p)
<1>1. CASE Exists(jit, p) /\ ~ IsHead(jit, p)
  BY <1>1, RaisedGoes DEF ExecuteNormal
<1>2. CASE ~(Exists(jit, p) /\ ~ IsHead(jit, p))
  <2>1. jit' = jit /\ cpu' = At("trace", p) /\ aborted' = aborted
    BY <1>2 DEF ExecuteNormal
  <2>2. QED
    BY <1>2, <2>1, EvolvesSame DEF Goes
<1>3. QED
  BY <1>1, <1>2

\* cache_miss
LEMMA MissGoes ==
  ASSUME JitOK(jit), AtRest(jit), aborted = None, NEW p \in Pcs, CacheMiss(p), ~ IsHead(jit, p)
  PROVE  Goes(p)
<1>1. CASE ~ Exists(jit, p)
  BY <1>1, NormalGoes DEF CacheMiss
<1>2. CASE Exists(jit, p)
  BY <1>2, RaisedGoes DEF CacheMiss
<1>3. QED
  BY <1>1, <1>2

\* check_checksum
LEMMA CheckGoes ==
  ASSUME JitOK(jit), AtRest(jit), aborted = None, NEW p \in Pcs, CheckChecksum(p),
         IsHead(jit, p) => jit.bi[p].status = "NEED_CHECK"
  PROVE  Goes(p)
<1>1. CASE ~ Exists(jit, p)
  <2>1. ~ IsHead(jit, p)
    BY <1>1, HeadFacts
  <2>2. ExecuteNormal(jit, p)
    BY <1>1 DEF CheckChecksum
  <2>3. QED
    BY <2>1, <2>2, NormalGoes
<1>2. CASE Exists(jit, p) /\ ~ IsHead(jit, p)
  <2>1. CacheMiss(p)
    BY <1>2 DEF CheckChecksum
  <2>2. QED
    BY <1>2, <2>1, MissGoes
<1>3. CASE Exists(jit, p) /\ IsHead(jit, p)
  <2> DEFINE r == BlockCheckChecksum(jit, p)
  <2>1. IF r.good THEN jit' = r.j /\ cpu' = At("dispatch", p) /\ aborted' = aborted
        ELSE ExecuteNormal(r.j, p)
    BY <1>3 DEF CheckChecksum
  <2>2. /\ Answers(jit, r) /\ IsHead(r.j, p)
        /\ r.j.bi[p].status = IF r.good THEN "ACTIVE" ELSE "INVALID"
    BY <1>3, CheckOK
  <2> HIDE DEF r
  <2>3. JitOK(r.j) /\ Evolves(jit, r.j) /\ AtRest(r.j) /\ r.good \in BOOLEAN
    BY <2>2, EvolvesAtRest DEF Answers
  <2>4. CASE r.good
    BY <1>3, <2>1, <2>2, <2>3, <2>4 DEF Goes
  <2>5. CASE ~ r.good
    <3>1. jit' = r.j /\ cpu' = At("trace", p) /\ aborted' = aborted
      BY <2>1, <2>2, <2>5 DEF ExecuteNormal
    <3>2. QED
      BY <1>3, <2>2, <2>3, <2>5, <3>1 DEF Goes
  <2>6. QED
    BY <2>3, <2>4, <2>5
<1>4. QED
  BY <1>1, <1>2, <1>3

LEMMA GoToGoes ==
  ASSUME JitOK(jit), AtRest(jit), aborted = None, NEW p \in Pcs, NEW a, LeadsTo(a, p), GoTo(a, p)
  PROVE  Goes(p)
<1>1. a.to \in {"normal", "check", "code"}
  BY DEF LeadsTo, Addresses, Normal, Check, Jump
<1>2. CASE a.to = "normal"
  BY <1>2, NormalGoes DEF GoTo, LeadsTo
<1>3. CASE a.to = "check"
  BY <1>3, CheckGoes DEF GoTo, LeadsTo
<1>4. CASE a.to = "code" /\ a.tr.pc = p
  <2>1. jit' = jit /\ aborted' = aborted /\ cpu' = [At("enter", p) EXCEPT !.tr = a.tr]
    BY <1>4 DEF GoTo, Enter
  <2>2. a.tr = jit.bi[p].tr /\ jit.bi[p].status = "ACTIVE"
    BY <1>4 DEF LeadsTo
  <2>3. QED
    BY <2>1, <2>2, EvolvesSame DEF Goes
<1>5. CASE a.to = "code" /\ a.tr.pc # p
  BY <1>5, MissGoes DEF GoTo, LeadsTo
<1>6. QED
  BY <1>1, <1>2, <1>3, <1>4, <1>5

\* The dispatcher jumps through the tag of the PC.
LEMMA TagLeads ==
  ASSUME JitOK(jit), AtRest(jit), NEW p \in Pcs
  PROVE  LeadsTo(jit.tag[Line[p]], p)
<1> DEFINE h == Head(jit.cl[Line[p]])
           a == jit.tag[Line[p]]
<1>1. a \in Addresses
  BY JitFields, AddressFacts DEF JitOK
<1>2. CASE jit.cl[Line[p]] = <<>>
  <2>1. a = Normal /\ ~ IsHead(jit, p)
    BY <1>2, HeadFacts DEF IsHead
  <2>2. QED
    BY <1>1, <2>1 DEF LeadsTo, Normal
<1>3. CASE jit.cl[Line[p]] # <<>>
  <2>1. h \in Pcs /\ IsHead(jit, h)
    BY <1>3, HeadFacts
  <2>1a. Line[h] = Line[p]
    <3>1. jit.cl[Line[p]] \in Seq(Pcs) /\ Line[p] \in Lines
      BY JitFields, AddressFacts DEF JitOK
    <3>2. 1 \in DOMAIN jit.cl[Line[p]] /\ jit.cl[Line[p]][1] = h
      BY <1>3, <3>1
    <3>3. QED
      BY <3>1, <3>2 DEF JitOK, ListsOK
  <2>2. Exists(jit, h) /\ a = jit.bi[h].handler_to_use /\ BlockOK(jit.bi[h], h)
    BY <2>1, <2>1a, HeadFacts DEF JitOK, BlocksOK
  <2>3. IsHead(jit, p) <=> h = p
    BY <1>3 DEF IsHead
  <2>4. jit.bi[h].status \in {"INVALID", "NEED_CHECK", "ACTIVE"}
    <3>1. jit.bi[h] \in Blocks
      BY <2>1, KindFacts
    <3>2. jit.bi[h].status \notin {"none", "CHECKING", "COMPILING"}
      BY <2>1, <2>2 DEF AtRest, Exists
    <3>3. QED
      BY <3>1, <3>2 DEF Blocks
  <2> HIDE DEF a, h
  <2>5. jit.bi[h].status = "INVALID" => LeadsTo(a, p)
    BY <1>1, <2>2, <2>3 DEF LeadsTo, BlockOK, Normal
  <2>6. jit.bi[h].status = "NEED_CHECK" => LeadsTo(a, p)
    BY <1>1, <2>2, <2>3 DEF LeadsTo, BlockOK, Check
  <2>7. jit.bi[h].status = "ACTIVE" => LeadsTo(a, p)
    BY <1>1, <2>2, <2>3 DEF LeadsTo, BlockOK, Jump
  <2>8. QED
    BY <2>4, <2>5, <2>6, <2>7 DEF a
<1>4. QED
  BY <1>2, <1>3

\* A translated block jumps to where its successor is to be entered.
LEMMA JumpLeads ==
  ASSUME JitOK(jit), AtRest(jit), NEW q \in Pcs, NEW i \in 1..2, jit.bi[q].dep[i] # NoDep
  PROVE  LET d == jit.bi[q].dep[i] IN d.target \in Pcs /\ LeadsTo(d.jmp, d.target)
<1> DEFINE d == jit.bi[q].dep[i]
           p == d.target
           a == d.jmp
<1>1. d \in Deps /\ p \in Pcs /\ a \in Addresses
  BY JitFields, DepFacts DEF JitOK
<1>2. Exists(jit, p) /\ a = jit.bi[p].dhtu
  BY DEF JitOK, Linked
<1> HIDE DEF d, p, a
<1>3. BlockOK(jit.bi[p], p)
  BY <1>1 DEF JitOK, BlocksOK
<1>4. jit.bi[p].status \in {"INVALID", "NEED_CHECK", "ACTIVE"}
  BY <1>1, <1>2, KindFacts DEF AtRest, Exists, Blocks
<1>5. jit.bi[p].status = "INVALID" => LeadsTo(a, p)
  BY <1>1, <1>2, <1>3 DEF LeadsTo, BlockOK, Normal
<1>6. jit.bi[p].status = "NEED_CHECK" => LeadsTo(a, p)
  BY <1>1, <1>2, <1>3 DEF LeadsTo, BlockOK, Check
<1>7. jit.bi[p].status = "ACTIVE" => LeadsTo(a, p)
  BY <1>1, <1>2, <1>3 DEF LeadsTo, BlockOK, Jump
<1>8. QED
  BY <1>1, <1>4, <1>5, <1>6, <1>7 DEF d, p, a

-----------------------------------------------------------------------------
(***************************************************************************)
(* The invariant is preserved.                                             *)
(***************************************************************************)
\* A translation that a check takes back is the code in memory.
LEMMA EvolvesCodes ==
  ASSUME mem \in [Pcs -> Contents], NEW j, JitOK(j), NEW k, JitOK(k), NEW q \in Pcs,
         CodeOK(j.bi[q], q), BlockEvolves(j.bi[q], k.bi[q], q)
  PROVE  /\ CodeOK(k.bi[q], q)
         /\ k.bi[q].tr.kind = "nostats" => /\ j.bi[q].tr.kind = "nostats"
                                           /\ k.bi[q].count = j.bi[q].count
<1>1. /\ k.bi[q].status = "INVALID" => k.bi[q].tr.kind = "none"
      /\ j.bi[q].status = "NEED_CHECK" => j.bi[q].tr.code \in Contents
      /\ mem[q] \in Contents
  BY KindFacts
<1>2. CASE /\ k.bi[q].status = j.bi[q].status
           /\ k.bi[q].count = j.bi[q].count /\ k.bi[q].tr = j.bi[q].tr
  BY <1>2 DEF CodeOK
<1>3. CASE /\ j.bi[q].status = "NEED_CHECK" /\ k.bi[q].count = j.bi[q].count
           /\ k.bi[q].tr = j.bi[q].tr
           /\ Checksum[j.bi[q].tr.code] = Checksum[mem[q]]
  <2>1. j.bi[q].tr.code = mem[q]
    BY <1>1, <1>3, CodeBlocksAssumption
  <2>2. QED
    BY <1>3, <2>1 DEF CodeOK
<1>4. CASE k.bi[q].status = "INVALID"
  BY <1>1, <1>4 DEF CodeOK
<1>5. QED
  BY <1>2, <1>3, <1>4 DEF BlockEvolves

LEMMA InvStep ==
  ASSUME Inv, UNCHANGED <<mem, changed, cache_enabled, opcodeVars>>,
         cut' \subseteq Faulting, cpu' \in CpuType, CpuOK', JitOK(jit'), AtRest(jit'),
         \A q \in Pcs : CodeOK(jit'.bi[q], q) /\ CountOK(jit.bi[q], q)',
         ~ cache_enabled => \A q \in Pcs : ~ Exists(jit', q), AbortsOnlyAfterFault'
  PROVE  Inv'
<1>1. \A q \in Pcs : CodeOK(jit'.bi[q], q) => CodeOK(jit.bi[q], q)'
  BY DEF CodeOK, opcodeVars
<1>2. AroundOK' /\ TablesOK'
  BY DEF Inv, AroundOK, TablesOK, HostOpcodesTypeOK, opcodeVars
<1>3. QED
  BY <1>1, <1>2 DEF Inv

\* Outside a trace, only a block that a bus error cut has counted past zero.
LEMMA CalmCounts ==
  ASSUME Inv, aborted = None, NEW q \in Pcs, ~ Tracing(q), jit.bi[q].tr.kind = "nostats"
  PROVE  /\ jit.bi[q].count \in Int /\ -1 <= jit.bi[q].count /\ jit.bi[q].count < OptCount
         /\ jit.bi[q].count = -1 => q \in cut
<1>1. CountOK(jit.bi[q], q) /\ jit.bi[q].count \in Int
  BY KindFacts DEF Inv, Blocks
<1>2. QED
  BY <1>1 DEF CountOK

LEMMA GoesInv ==
  ASSUME Inv, aborted = None, NEW p \in Pcs, Goes(p),
         cpu.at = "native" \/ (cpu.at = "dispatch" /\ cpu.pc = p),
         UNCHANGED <<mem, changed, cache_enabled, cut, opcodeVars>>
  PROVE  Inv'
<1>1. JitOK(jit) /\ AtRest(jit) /\ AroundOK /\ CpuOK /\ jit.bi[p].tr \in Codes
  BY KindFacts DEF Inv
<1>2. aborted' = None /\ JitOK(jit') /\ AtRest(jit') /\ Evolves(jit, jit')
  BY DEF Goes
<1>3. cpu' \in CpuType
  <2>1. At("dispatch", p) \in CpuType /\ At("trace", p) \in CpuType
    BY <1>1, AtFacts DEF Placed
  <2>2. [At("enter", p) EXCEPT !.tr = jit.bi[p].tr] \in CpuType
    BY <1>1, EnterFacts
  <2>3. QED
    BY <2>1, <2>2 DEF Goes
<1>4. ASSUME NEW q \in Pcs
      PROVE  CodeOK(jit'.bi[q], q) /\ CountOK(jit.bi[q], q)'
  <2>1. /\ CodeOK(jit'.bi[q], q)
        /\ jit'.bi[q].tr.kind = "nostats" => /\ jit.bi[q].tr.kind = "nostats"
                                             /\ jit'.bi[q].count = jit.bi[q].count
    BY <1>1, <1>2, EvolvesCodes DEF Evolves, Inv, AroundOK
  <2>2. ~ Tracing(q)
    BY DEF Tracing
  <2>3. QED
    BY <2>1, <2>2, CalmCounts DEF CountOK
<1>5. ~ cache_enabled => \A q \in Pcs : ~ Exists(jit', q)
  BY DEF Goes, Inv
<1>6. CpuOK'
  <2>1. CASE jit' = jit /\ jit.bi[p].status = "ACTIVE" /\ cpu' = [At("enter", p) EXCEPT !.tr = jit.bi[p].tr]
    <3>1. cpu'.at = "enter" /\ cpu'.pc = p /\ cpu'.tr = jit.bi[p].tr /\ cpu'.retries = 0
      BY <1>1, <2>1, EnterFacts
    <3>2. QED
      BY <2>1, <3>1 DEF CpuOK
  <2>2. CASE /\ cpu' = At("dispatch", p) /\ IsHead(jit', p)
             /\ \/ ~ IsHead(jit, p)
                \/ jit.bi[p].status = "NEED_CHECK" /\ jit'.bi[p].status = "ACTIVE"
    <3>1. /\ cpu'.at = "dispatch" /\ cpu'.pc = p
          /\ cpu'.retries = IF cpu.at = "dispatch" THEN cpu.retries + 1 ELSE 0
      BY <1>1, <2>2, AtFacts DEF Placed
    <3>2. cpu.retries \in Nat
      BY <1>1 DEF AroundOK, CpuType
    <3>3. ~ IsHead(jit, p) => cpu'.retries <= 1
      BY <1>1, <3>1, <3>2 DEF CpuOK
    <3>4. jit.bi[p].status = "NEED_CHECK" => cpu'.retries <= 2
      BY <1>1, <3>1, <3>2 DEF CpuOK
    <3>5. QED
      BY <2>2, <3>1, <3>2, <3>3, <3>4 DEF CpuOK
  <2>3. CASE /\ cpu' = At("trace", p)
             /\ Exists(jit', p) => IsHead(jit', p) /\ jit'.bi[p].status = "INVALID"
    <3>1. cpu'.at = "trace" /\ cpu'.pc = p /\ cpu'.retries = 0
      BY <1>1, <2>3, AtFacts DEF Placed
    <3>2. QED
      BY <2>3, <3>1 DEF CpuOK, Exists
  <2>4. QED
    BY <2>1, <2>2, <2>3 DEF Goes
<1>7. cut' \subseteq Faulting /\ AbortsOnlyAfterFault'
  BY <1>1, <1>2 DEF AroundOK, AbortsOnlyAfterFault
<1>8. QED
  BY <1>2, <1>3, <1>4, <1>5, <1>6, <1>7, InvStep

LEMMA DispatchGoes ==
  ASSUME Inv, Dispatch
  PROVE  aborted = None /\ cpu.at = "dispatch" /\ cpu.pc \in Pcs /\ Goes(cpu.pc)
<1>1. aborted = None /\ cpu.at = "dispatch" /\ cpu.pc \in Pcs
  BY DEF Dispatch, Running, Inv, AroundOK, CpuType
<1>2. JitOK(jit) /\ AtRest(jit) /\ GoTo(jit.tag[Line[cpu.pc]], cpu.pc)
  BY DEF Inv, Dispatch
<1>3. LeadsTo(jit.tag[Line[cpu.pc]], cpu.pc)
  BY <1>1, <1>2, TagLeads
<1>4. QED
  BY <1>1, <1>2, <1>3, GoToGoes

LEMMA FollowJumpGoes ==
  ASSUME Inv, FollowJump
  PROVE  aborted = None /\ cpu.at = "native" /\ \E p \in Pcs : Goes(p)
<1>1. aborted = None /\ cpu.at = "native" /\ cpu.pc \in Pcs
  BY DEF FollowJump, Running, Inv, AroundOK, CpuType
<1>2. JitOK(jit) /\ AtRest(jit)
  BY DEF Inv
<1>3. PICK i \in 1..2 : /\ jit.bi[cpu.pc].dep[i] # NoDep
                        /\ GoTo(jit.bi[cpu.pc].dep[i].jmp, jit.bi[cpu.pc].dep[i].target)
  BY DEF FollowJump
<1> DEFINE d == jit.bi[cpu.pc].dep[i]
<1>4. d.target \in Pcs /\ LeadsTo(d.jmp, d.target)
  BY <1>1, <1>2, <1>3, JumpLeads
<1>5. GoTo(d.jmp, d.target)
  BY <1>3
<1> HIDE DEF d
<1>6. Goes(d.target)
  BY <1>1, <1>2, <1>4, <1>5, GoToGoes
<1>7. QED
  BY <1>1, <1>4, <1>6

\* Control goes on with the blocks as they are, not from a trace.
LEMMA MovesInv ==
  ASSUME Inv, aborted = None, cpu.at # "trace", NEW p \in Pcs,
         NEW at \in {"out", "dispatch", "nostats", "native"},
         at = "dispatch" => cpu.at # "dispatch", cpu' = At(at, p),
         UNCHANGED <<mem, changed, jit, cache_enabled, cut, aborted, opcodeVars>>
  PROVE  Inv'
<1>1. JitOK(jit) /\ AtRest(jit) /\ AroundOK
  BY DEF Inv
<1>2. cpu' \in CpuType /\ cpu'.at = at /\ cpu'.retries = 0
  <2>1. /\ Placed(At("out", p), "out", p, 0) /\ Placed(At("nostats", p), "nostats", p, 0)
        /\ Placed(At("native", p), "native", p, 0)
        /\ Placed(At("dispatch", p), "dispatch", p,
                  IF cpu.at = "dispatch" THEN cpu.retries + 1 ELSE 0)
    BY <1>1, AtFacts
  <2>2. CASE at = "out"
    BY <2>1, <2>2 DEF Placed
  <2>3. CASE at = "dispatch"
    BY <2>1, <2>3 DEF Placed
  <2>4. CASE at = "nostats"
    BY <2>1, <2>4 DEF Placed
  <2>5. CASE at = "native"
    BY <2>1, <2>5 DEF Placed
  <2>6. QED
    BY <2>2, <2>3, <2>4, <2>5
<1>3. CpuOK'
  BY <1>2 DEF CpuOK
<1>4. ASSUME NEW q \in Pcs
      PROVE  CodeOK(jit'.bi[q], q) /\ CountOK(jit.bi[q], q)'
  <2>1. CodeOK(jit'.bi[q], q) /\ ~ Tracing(q)
    BY DEF Inv, Tracing
  <2>2. QED
    BY <2>1, CalmCounts DEF CountOK
<1>5. /\ JitOK(jit') /\ AtRest(jit') /\ cut' \subseteq Faulting
      /\ AbortsOnlyAfterFault' /\ (~ cache_enabled => (\A q \in Pcs : ~ Exists(jit', q)))
  BY <1>1 DEF Inv, AroundOK, AbortsOnlyAfterFault
<1>6. QED
  BY <1>2, <1>3, <1>4, <1>5, InvStep

\* The countdown of a block.
LEMMA CountdownOK ==
  ASSUME NEW j, JitOK(j), NEW p \in Pcs, j.bi[p].status = "ACTIVE"
  PROVE  LET k == [j EXCEPT !.bi[p].count = @ - 1] IN
         /\ JitOK(k) /\ k.bi[p].count = j.bi[p].count - 1
         /\ \A q \in Pcs : k.bi[q].status = j.bi[q].status /\ k.bi[q].tr = j.bi[q].tr
         /\ \A q \in Pcs : q # p => k.bi[q].count = j.bi[q].count
<1> DEFINE n == j.bi[p].count - 1
           b == [j.bi[p] EXCEPT !.count = n]
           k == [j EXCEPT !.bi[p] = b]
<1>1. j \in Jits /\ BlocksOK(j) /\ Linked(j) /\ ListsOK(j, {}) /\ TagsOK(j, {})
  BY DEF JitOK
<1>2. [j EXCEPT !.bi[p].count = @ - 1] = k
  OBVIOUS
<1>3. j.bi[p] \in Blocks /\ n \in Int
  BY <1>1, JitFields DEF Blocks
<1> HIDE DEF n
<1>4. /\ b \in Blocks /\ b.count = n /\ b.status = j.bi[p].status /\ b.list = j.bi[p].list
      /\ b.tr = j.bi[p].tr /\ b.handler_to_use = j.bi[p].handler_to_use
      /\ b.dhtu = j.bi[p].dhtu /\ b.dep = j.bi[p].dep
  BY <1>3 DEF Blocks
<1> HIDE DEF b
<1>5. /\ k \in Jits /\ k.cl = j.cl /\ k.tag = j.tag /\ k.bi[p] = b
      /\ \A q \in Pcs : q # p => k.bi[q] = j.bi[q]
  BY <1>1, <1>4, BlockSet
<1> HIDE DEF k
<1>6. Linked(k)
  BY <1>1, <1>4, <1>5, BlockSetLinked
<1>7. /\ \A q \in Pcs : k.bi[q].status = j.bi[q].status /\ k.bi[q].tr = j.bi[q].tr
      /\ \A q \in Pcs : k.bi[q].handler_to_use = j.bi[q].handler_to_use
      /\ \A q \in Pcs : q # p => k.bi[q].count = j.bi[q].count
  BY <1>4, <1>5
<1>8. ListsOK(k, {}) /\ TagsOK(k, {})
  BY <1>1, <1>5, <1>7, SameLists
<1>9. BlocksOK(k)
  <2> SUFFICES ASSUME NEW q \in Pcs PROVE BlockOK(k.bi[q], q)
    BY DEF BlocksOK
  <2>1. BlockOK(j.bi[q], q)
    BY <1>1 DEF BlocksOK
  <2>2. q = p => BlockOK(k.bi[q], q)
    BY <1>4, <1>5, <2>1 DEF BlockOK
  <2>3. QED
    BY <1>5, <2>1, <2>2
<1>10. QED
  BY <1>2, <1>4, <1>5, <1>6, <1>7, <1>8, <1>9 DEF JitOK, n

\* Entering a block whose countdown runs, to interpret it or to trace it.
LEMMA EnterNostatsStep ==
  ASSUME Inv, EnterNostats
  PROVE  /\ Inv'
         /\ \A q \in Pcs : jit'.bi[q].status = jit.bi[q].status /\ jit'.bi[q].tr = jit.bi[q].tr
         /\ cpu'.at \in {"nostats", "trace"}
<1> DEFINE p == cpu.pc
           j == [jit EXCEPT !.bi[p].count = @ - 1]
<1>1. /\ aborted = None /\ cpu.at = "enter" /\ cpu.tr.kind = "nostats" /\ p \in Pcs
      /\ JitOK(jit) /\ AtRest(jit) /\ AroundOK /\ ~ Tracing(p)
      /\ jit.bi[p].status = "ACTIVE" /\ jit.bi[p].tr.kind = "nostats"
  BY DEF EnterNostats, Running, Inv, AroundOK, CpuType, CpuOK, Tracing
<1>2. IF j.bi[p].count < 0 THEN ExecuteNormal(RaiseInClList(j, p), p)
      ELSE jit' = j /\ cpu' = At("nostats", p) /\ UNCHANGED aborted
  BY DEF EnterNostats
<1>3. /\ JitOK(j) /\ j.bi[p].count = jit.bi[p].count - 1
      /\ \A q \in Pcs : j.bi[q].status = jit.bi[q].status /\ j.bi[q].tr = jit.bi[q].tr
      /\ \A q \in Pcs : q # p => j.bi[q].count = jit.bi[q].count
  BY <1>1, CountdownOK
<1>4. /\ jit.bi[p].count \in Int /\ -1 <= jit.bi[p].count /\ jit.bi[p].count < OptCount
      /\ jit.bi[p].count = -1 => p \in cut
  BY <1>1, CalmCounts
<1> HIDE DEF j
<1>5. /\ JitOK(jit') /\ jit'.bi = j.bi /\ aborted' = None
      /\ \/ cpu' = At("nostats", p) /\ ~(j.bi[p].count < 0)
         \/ cpu' = At("trace", p) /\ j.bi[p].count < 0 /\ IsHead(jit', p)
  <2>1. CASE j.bi[p].count < 0
    <3> DEFINE k == RaiseInClList(j, p)
    <3>1. JitOK(k) /\ k.bi = j.bi /\ IsHead(k, p)
      BY <1>1, <1>3, RaiseJitOK DEF Exists
    <3>2. ExecuteNormal(k, p)
      BY <1>2, <2>1
    <3> HIDE DEF k
    <3>3. jit' = k /\ cpu' = At("trace", p) /\ aborted' = aborted
      BY <3>1, <3>2 DEF ExecuteNormal
    <3>4. QED
      BY <1>1, <2>1, <3>1, <3>3
  <2>2. CASE ~(j.bi[p].count < 0)
    BY <1>1, <1>2, <1>3, <2>2
  <2>3. QED
    BY <2>1, <2>2
<1>6. /\ cpu' \in CpuType /\ cpu'.at \in {"nostats", "trace"} /\ cpu'.pc = p /\ cpu'.retries = 0
      /\ cpu'.at = "nostats" => ~(j.bi[p].count < 0)
      /\ cpu'.at = "trace" => j.bi[p].count < 0 /\ IsHead(jit', p)
  <2>1. /\ At("nostats", p) \in CpuType /\ At("nostats", p).at = "nostats"
        /\ At("nostats", p).pc = p /\ At("nostats", p).retries = 0
        /\ At("trace", p) \in CpuType /\ At("trace", p).at = "trace"
        /\ At("trace", p).pc = p /\ At("trace", p).retries = 0
    BY <1>1, AtFacts DEF Placed
  <2>2. QED
    BY <1>5, <2>1
<1>7. \A q \in Pcs : jit'.bi[q].status = jit.bi[q].status /\ jit'.bi[q].tr = jit.bi[q].tr
  BY <1>3, <1>5
<1>8. UNCHANGED <<mem, changed, cache_enabled, cut, opcodeVars>>
  BY DEF EnterNostats
<1>9. AtRest(jit')
  BY <1>1, <1>7 DEF AtRest
<1>10. CpuOK'
  BY <1>1, <1>5, <1>6, <1>7 DEF CpuOK
<1>11. ASSUME NEW q \in Pcs
       PROVE  CodeOK(jit'.bi[q], q) /\ CountOK(jit.bi[q], q)'
  <2>1. CASE q = p
    <3>1. CodeOK(jit'.bi[q], q)
      BY <1>1, <1>7, <2>1 DEF CodeOK
    <3>2. jit'.bi[q].count = jit.bi[p].count - 1
      BY <1>3, <1>5, <2>1
    <3>3. OptCount \in Int
      BY JitBlocksAssumption
    <3>4. jit'.bi[q].count = -1 => Tracing(q)'
      BY <1>3, <1>4, <1>6, <2>1, <3>2 DEF Tracing
    <3>5. jit'.bi[q].count = -2 => Tracing(q)' /\ q \in cut'
      BY <1>3, <1>4, <1>6, <1>8, <2>1, <3>2 DEF Tracing
    <3>6. CountOK(jit.bi[q], q)'
      BY <1>4, <3>2, <3>3, <3>4, <3>5 DEF CountOK
    <3>7. QED
      BY <3>1, <3>6
  <2>2. CASE q # p
    <3>1. /\ jit'.bi[q].count = jit.bi[q].count /\ ~ Tracing(q)
          /\ CodeOK(jit.bi[q], q)
      BY <1>1, <1>3, <1>5, <2>2 DEF Tracing, Inv
    <3>2. CodeOK(jit'.bi[q], q)
      BY <1>7, <3>1 DEF CodeOK
    <3>3. CountOK(jit.bi[q], q)'
      BY <1>1, <1>7, <1>8, <3>1, CalmCounts DEF CountOK
    <3>4. QED
      BY <3>2, <3>3
  <2>3. QED
    BY <2>1, <2>2
<1>12. cache_enabled
  <2>1. ~ cache_enabled => jit.bi[p].status = "none"
    BY <1>1 DEF Inv, Exists
  <2>2. QED
    BY <1>1, <2>1
<1>13. cut' \subseteq Faulting /\ AbortsOnlyAfterFault'
  BY <1>1, <1>5, <1>8 DEF AroundOK, AbortsOnlyAfterFault
<1>14. Inv'
  BY <1>5, <1>6, <1>8, <1>9, <1>10, <1>11, <1>12, <1>13, InvStep
<1>15. QED
  BY <1>6, <1>7, <1>14

LEMMA AddOne ==
  ASSUME NEW S, IsFiniteSet(S), NEW x
  PROVE  /\ IsFiniteSet(S \cup {x})
         /\ Cardinality(S) \in Nat /\ Cardinality(S \cup {x}) \in Nat
         /\ Cardinality(S \cup {x}) <= Cardinality(S) + 1
<1>1. Cardinality(S) \in Nat
  BY FS_CardinalityType
<1>2. /\ IsFiniteSet(S \cup {x})
      /\ Cardinality(S \cup {x}) = IF x \in S THEN Cardinality(S) ELSE Cardinality(S) + 1
  BY FS_AddElement
<1>3. QED
  BY <1>1, <1>2

\* compile_block never runs out of blockinfos: it needs one for the block and
\* one for each of its successors.
LEMMA TakenFacts ==
  ASSUME NEW j, NEW p \in Pcs, NEW exits \in BoundedSeq(Pcs, 2)
  PROVE  ~(BlockinfosTaken(j, p, exits) > MaxHold)
<1> DEFINE S == {q \in {p} \cup Range(exits) : ~ Exists(j, q)}
<1>1. PICK m \in 0..2 : exits \in [1..m -> Pcs]
  BY DEF BoundedSeq, SeqOf
<1>2. PICK a, b : S \subseteq {p, a, b}
  <2>1. Range(exits) \subseteq {exits[1], exits[2]}
    BY <1>1 DEF Range
  <2>2. S \subseteq {p, exits[1], exits[2]}
    BY <2>1
  <2>3. QED
    BY <2>2
<1> HIDE DEF S
<1>3. IsFiniteSet({p, a, b}) /\ Cardinality({p, a, b}) \in Nat /\ Cardinality({p, a, b}) <= 3
  <2> DEFINE S1 == {p}
             S2 == S1 \cup {a}
             S3 == S2 \cup {b}
  <2>1. IsFiniteSet(S1) /\ Cardinality(S1) = 1
    BY FS_Singleton
  <2>2. S3 = {p, a, b}
    OBVIOUS
  <2> HIDE DEF S1
  <2>3. IsFiniteSet(S2) /\ Cardinality(S2) \in Nat /\ Cardinality(S2) <= Cardinality(S1) + 1
    BY <2>1, AddOne
  <2> HIDE DEF S2
  <2>4. IsFiniteSet(S3) /\ Cardinality(S3) \in Nat /\ Cardinality(S3) <= Cardinality(S2) + 1
    BY <2>3, AddOne
  <2> HIDE DEF S3
  <2>5. Cardinality(S3) <= 3
    BY <2>1, <2>3, <2>4
  <2>6. QED
    BY <2>2, <2>4, <2>5
<1>4. Cardinality(S) \in Nat /\ Cardinality(S) <= 3
  BY <1>2, <1>3, FS_Subset, FS_CardinalityType
<1>5. QED
  BY <1>4, JitBlocksAssumption DEF BlockinfosTaken, S

\* The assertions of compile_block in a trace.
LEMMA AssertionFacts ==
  ASSUME Inv, aborted = None, Running("trace")
  PROVE  /\ CompileAssertion(jit, cpu.pc) \in {None, "count"}
         /\ CompileAssertion(jit, cpu.pc) # None => cut # {} /\ jit.bi[cpu.pc].count # -1
         /\ CompileAssertion(jit, cpu.pc) = None =>
              \/ ~ Exists(jit, cpu.pc) \/ jit.bi[cpu.pc].status = "INVALID"
              \/ jit.bi[cpu.pc].count = -1
<1> DEFINE p == cpu.pc
<1>0. None # "count"
  BY JitBlocksAssumption DEF Assertions
<1>1. cpu.at = "trace" /\ p \in Pcs /\ Tracing(p)
  BY DEF Running, Inv, AroundOK, CpuType, Tracing
<1>2. Exists(jit, p) => IsHead(jit, p)
  BY <1>1 DEF Inv, CpuOK
<1>3. CASE ~ Exists(jit, p) \/ jit.bi[p].status = "INVALID"
  BY <1>3 DEF CompileAssertion
<1>4. CASE Exists(jit, p) /\ jit.bi[p].status # "INVALID"
  <2>1. /\ jit.bi[p].tr.kind = "nostats" /\ jit.bi[p].count < 0 /\ CountOK(jit.bi[p], p)
        /\ jit.bi[p].count \in Int
    BY <1>1, <1>4, KindFacts DEF Inv, CpuOK, Blocks
  <2>2. CompileAssertion(jit, p) = IF jit.bi[p].count # -1 THEN "count" ELSE None
    BY <1>2, <1>4 DEF CompileAssertion
  <2>3. jit.bi[p].count # -1 => cut # {}
    BY <2>1 DEF CountOK
  <2>4. CASE jit.bi[p].count = -1
    BY <2>2, <2>4
  <2>5. CASE jit.bi[p].count # -1
    <3>1. CompileAssertion(jit, p) = "count" /\ cut # {}
      BY <2>2, <2>3, <2>5
    <3>2. QED
      BY <1>0, <2>5, <3>1
  <2>6. QED
    BY <2>4, <2>5
<1>5. QED
  BY <1>3, <1>4

\* What a trace ends in.
LEMMA EndTraceCases ==
  ASSUME Inv, NEW next \in Pcs, NEW full \in {"no", "before", "after"}, EndTrace(next, full)
  PROVE  /\ aborted = None /\ cpu.at = "trace" /\ cpu.pc \in Pcs /\ cpu.torn \in BOOLEAN
         /\ cpu' = At("dispatch", next)
         /\ UNCHANGED <<mem, changed, cache_enabled, cut, opcodeVars>>
         /\ \/ ~ cache_enabled /\ jit' = jit /\ aborted' = None
            \/ /\ cache_enabled /\ jit' = jit /\ aborted' = "count" /\ cut # {}
               /\ jit.bi[cpu.pc].count # -1
            \/ cache_enabled /\ jit' = EmptyJit /\ aborted' = None
            \/ /\ cache_enabled /\ aborted' = None
               /\ \E j \in {jit, EmptyJit} :
                    /\ jit' = Compile(j, cpu.pc, cpu.torn)
                    /\ \/ ~ Exists(j, cpu.pc) \/ j.bi[cpu.pc].status = "INVALID"
                       \/ j.bi[cpu.pc].count = -1
<1> DEFINE p == cpu.pc
           j == IF full = "before" THEN FlushIcacheHard(jit) ELSE jit
           exits == IF j.bi[p].count = -1 THEN Exits[p][mem[p]] ELSE <<>>
<1>1. /\ aborted = None /\ Running("trace") /\ cpu.at = "trace" /\ p \in Pcs
      /\ cpu.torn \in BOOLEAN /\ mem[p] \in Contents
  BY DEF EndTrace, Running, Inv, AroundOK, CpuType
<1>2. /\ cpu' = At("dispatch", next)
      /\ UNCHANGED <<mem, changed, cache_enabled, cut, opcodeVars>>
  BY DEF EndTrace
<1>3. CASE ~ cache_enabled
  <2>1. jit' = jit /\ aborted' = aborted
    BY <1>3 DEF EndTrace
  <2>2. QED
    BY <1>1, <1>2, <1>3, <2>1
<1>4. CASE cache_enabled
  <2>1. /\ aborted' = IF BlockinfosTaken(j, p, exits) > MaxHold
                      THEN "blockinfo" ELSE CompileAssertion(j, p)
        /\ jit' = IF aborted' # None THEN jit
                  ELSE IF full = "after" THEN FlushIcacheHard(jit)
                  ELSE Compile(j, p, cpu.torn)
    BY <1>4 DEF EndTrace
  <2>2. exits \in BoundedSeq(Pcs, 2)
    <3>1. <<>> \in [1..0 -> Pcs]
      OBVIOUS
    <3>2. <<>> \in BoundedSeq(Pcs, 2)
      BY <3>1 DEF BoundedSeq, SeqOf
    <3>3. QED
      BY <1>1, <3>2, JitBlocksAssumption
  <2>3. aborted' = CompileAssertion(j, p)
    BY <1>1, <2>1, <2>2, TakenFacts
  <2> HIDE DEF exits
  <2>4. CASE full = "before"
    <3>1. j = EmptyJit
      BY <2>4 DEF FlushIcacheHard
    <3>2. ~ Exists(EmptyJit, p)
      BY <1>1, EmptyOK
    <3>3. aborted' = None
      BY <2>3, <3>1, <3>2 DEF CompileAssertion
    <3>4. jit' = Compile(EmptyJit, p, cpu.torn)
      BY <2>1, <2>4, <3>1, <3>3
    <3>5. QED
      BY <1>1, <1>2, <1>4, <3>2, <3>3, <3>4
  <2>5. CASE full # "before"
    <3>1. j = jit
      BY <2>5
    <3>2. /\ CompileAssertion(jit, p) \in {None, "count"}
          /\ CompileAssertion(jit, p) # None => cut # {} /\ jit.bi[p].count # -1
          /\ CompileAssertion(jit, p) = None =>
               \/ ~ Exists(jit, p) \/ jit.bi[p].status = "INVALID"
               \/ jit.bi[p].count = -1
      BY <1>1, AssertionFacts
    <3>3. CASE aborted' # None
      <4>1. jit' = jit /\ aborted' = "count" /\ cut # {} /\ jit.bi[p].count # -1
        BY <2>1, <2>3, <3>1, <3>2, <3>3
      <4>2. QED
        BY <1>1, <1>2, <1>4, <4>1
    <3>4. CASE aborted' = None
      <4>1. \/ ~ Exists(jit, p) \/ jit.bi[p].status = "INVALID"
            \/ jit.bi[p].count = -1
        BY <2>3, <3>1, <3>2, <3>4
      <4>2. jit' = IF full = "after" THEN EmptyJit ELSE Compile(jit, p, cpu.torn)
        BY <2>1, <3>1, <3>4 DEF FlushIcacheHard
      <4>3. QED
        BY <1>1, <1>2, <1>4, <3>4, <4>1, <4>2
    <3>5. QED
      BY <3>3, <3>4
  <2>6. QED
    BY <2>4, <2>5
<1>5. QED
  BY <1>1, <1>3, <1>4 DEF Inv, AroundOK

\* Nothing is known of no block.
LEMMA EmptyCodes ==
  ASSUME NEW q \in Pcs
  PROVE  CodeOK(EmptyJit.bi[q], q) /\ EmptyJit.bi[q].tr.kind = "none"
<1>1. EmptyJit.bi[q] = NoBlock /\ NoBlock.tr.kind = "none"
  BY EmptyOK DEF NoBlock, NoCode
<1>2. QED
  BY <1>1 DEF CodeOK

LEMMA CompiledCodes ==
  ASSUME Inv, aborted = None, cpu.at = "trace", NEW p \in Pcs, p = cpu.pc,
         NEW j \in {jit, EmptyJit}, NEW torn \in BOOLEAN,
         ~ Exists(j, p) \/ j.bi[p].status = "INVALID" \/ j.bi[p].count = -1
  PROVE  LET k == Compile(j, p, torn) IN
         /\ JitOK(k) /\ AtRest(k)
         /\ \A q \in Pcs :
              /\ CodeOK(k.bi[q], q)
              /\ k.bi[q].tr.kind = "nostats" =>
                   /\ k.bi[q].count \in Int /\ -1 <= k.bi[q].count /\ k.bi[q].count < OptCount
                   /\ k.bi[q].count = -1 => q \in cut
<1> DEFINE k == Compile(j, p, torn)
           n == IF Exists(j, p) THEN j.bi[p].count ELSE OptCount - 1
           tr == Translation(n, p, torn)
<1>1. JitOK(j) /\ AtRest(j) /\ AroundOK /\ mem \in [Pcs -> Contents] /\ HostOpcodesTypeOK
  BY EmptyOK DEF Inv, AroundOK
<1>2. /\ JitOK(k) /\ AtRest(k)
      /\ \A q \in Pcs : q # p => BlockEvolves(j.bi[q], k.bi[q], q)
      /\ k.bi[p].status = "ACTIVE" /\ k.bi[p].tr = tr
      /\ k.bi[p].count = IF n = -1 THEN -2 ELSE n
  BY <1>1, CompileOK
<1>3. OptCount \in Int /\ OptCount > 0 /\ OptCount - 1 # -1
  BY JitBlocksAssumption
<1>4. n = -1 \/ n = OptCount - 1
  BY <1>1 DEF JitOK, BlocksOK, BlockOK
<1>5. n \in Int
  BY <1>3, <1>4
<1> HIDE DEF k, n
<1>6. /\ tr.code = mem[p]
      /\ n = -1 => tr.kind = "native" /\ tr.call = CompiledCall(tables, LastOp[mem[p]])
      /\ n # -1 => tr.kind = "nostats"
  BY <1>1, <1>5, TranslationFacts
<1> HIDE DEF tr
<1>7. ASSUME NEW q \in Pcs
      PROVE  /\ CodeOK(k.bi[q], q)
             /\ k.bi[q].tr.kind = "nostats" =>
                  /\ k.bi[q].count \in Int /\ -1 <= k.bi[q].count /\ k.bi[q].count < OptCount
                  /\ k.bi[q].count = -1 => q \in cut
  <2>1. CASE q = p
    <3>1. CASE n = -1
      BY <1>2, <1>6, <2>1, <3>1 DEF CodeOK
    <3>2. CASE n # -1
      BY <1>2, <1>3, <1>4, <1>6, <2>1, <3>2 DEF CodeOK
    <3>3. QED
      BY <3>1, <3>2
  <2>2. CASE q # p
    <3>1. CodeOK(j.bi[q], q)
      BY EmptyCodes DEF Inv
    <3>2. /\ CodeOK(k.bi[q], q)
          /\ k.bi[q].tr.kind = "nostats" => /\ j.bi[q].tr.kind = "nostats"
                                            /\ k.bi[q].count = j.bi[q].count
      BY <1>1, <1>2, <2>2, <3>1, EvolvesCodes
    <3>3. ~ Tracing(q)
      BY <2>2 DEF Tracing
    <3>4. j.bi[q].tr.kind = "nostats" => /\ j.bi[q].count \in Int /\ -1 <= j.bi[q].count
                                         /\ j.bi[q].count < OptCount
                                         /\ j.bi[q].count = -1 => q \in cut
      BY <3>3, EmptyCodes, CalmCounts
    <3>5. QED
      BY <3>2, <3>4
  <2>3. QED
    BY <2>1, <2>2
<1>8. QED
  BY <1>2, <1>7 DEF k

LEMMA EndTraceInv ==
  ASSUME Inv, NEW next \in Pcs, NEW full \in {"no", "before", "after"}, EndTrace(next, full)
  PROVE  Inv'
<1> DEFINE p == cpu.pc
<1>1. /\ aborted = None /\ cpu.at = "trace" /\ p \in Pcs /\ cpu.torn \in BOOLEAN
      /\ cpu' = At("dispatch", next)
      /\ UNCHANGED <<mem, changed, cache_enabled, cut, opcodeVars>>
  BY EndTraceCases
<1>2. AroundOK /\ JitOK(jit) /\ AtRest(jit)
  BY DEF Inv
<1>3. cpu' \in CpuType /\ cpu'.at = "dispatch" /\ cpu'.retries = 0
  BY <1>1, <1>2, AtFacts DEF Placed
<1>4. CpuOK'
  BY <1>3 DEF CpuOK
<1>5. \A q : q # p => ~ Tracing(q)
  BY DEF Tracing
<1>6. ASSUME JitOK(jit'), AtRest(jit'), ~ cache_enabled => \A q \in Pcs : ~ Exists(jit', q), AbortsOnlyAfterFault',
             \A q \in Pcs : CodeOK(jit'.bi[q], q) /\ CountOK(jit.bi[q], q)'
      PROVE  Inv'
  BY <1>1, <1>2, <1>3, <1>4, <1>6, InvStep DEF AroundOK
<1>7. CASE ~ cache_enabled /\ jit' = jit /\ aborted' = None
  <2>1. \A q \in Pcs : ~ Exists(jit', q) /\ jit'.bi[q].tr.kind = "none"
    BY <1>2, <1>7, KindFacts DEF Inv, Exists
  <2>2. \A q \in Pcs : CodeOK(jit'.bi[q], q) /\ CountOK(jit.bi[q], q)'
    BY <2>1 DEF CodeOK, CountOK
  <2>3. QED
    BY <1>2, <1>6, <1>7, <2>1, <2>2 DEF AbortsOnlyAfterFault
<1>8. CASE /\ cache_enabled /\ jit' = jit /\ aborted' = "count" /\ cut # {}
           /\ jit.bi[p].count # -1
  <2>1. aborted' # None
    BY <1>8, JitBlocksAssumption DEF Assertions
  <2>2. ASSUME NEW q \in Pcs PROVE CodeOK(jit'.bi[q], q) /\ CountOK(jit.bi[q], q)'
    <3>1. CodeOK(jit.bi[q], q) /\ CountOK(jit.bi[q], q)
      BY DEF Inv
    <3>2. QED
      BY <1>1, <1>5, <1>8, <2>1, <3>1 DEF CountOK
  <2>3. QED
    BY <1>1, <1>2, <1>6, <1>8, <2>2 DEF AbortsOnlyAfterFault
<1>9. CASE cache_enabled /\ jit' = EmptyJit /\ aborted' = None
  <2>1. \A q \in Pcs : CodeOK(jit'.bi[q], q) /\ CountOK(jit.bi[q], q)'
    BY <1>9, EmptyCodes DEF CountOK
  <2>2. QED
    BY <1>6, <1>9, <2>1, EmptyOK DEF AbortsOnlyAfterFault
<1>10. CASE /\ cache_enabled /\ aborted' = None
            /\ \E j \in {jit, EmptyJit} :
                 /\ jit' = Compile(j, p, cpu.torn)
                 /\ ~ Exists(j, p) \/ j.bi[p].status = "INVALID" \/ j.bi[p].count = -1
  <2>1. PICK j \in {jit, EmptyJit} :
             /\ jit' = Compile(j, p, cpu.torn)
             /\ ~ Exists(j, p) \/ j.bi[p].status = "INVALID" \/ j.bi[p].count = -1
    BY <1>10
  <2>2. /\ JitOK(jit') /\ AtRest(jit')
        /\ \A q \in Pcs :
             /\ CodeOK(jit'.bi[q], q)
             /\ jit'.bi[q].tr.kind = "nostats" =>
                  /\ jit'.bi[q].count \in Int /\ -1 <= jit'.bi[q].count
                  /\ jit'.bi[q].count < OptCount
                  /\ jit'.bi[q].count = -1 => q \in cut
    BY <1>1, <2>1, CompiledCodes
  <2>3. \A q \in Pcs : CountOK(jit.bi[q], q)'
    BY <1>1, <2>2 DEF CountOK
  <2>4. QED
    BY <1>6, <1>10, <2>2, <2>3 DEF AbortsOnlyAfterFault
<1>11. QED
  BY <1>7, <1>8, <1>9, <1>10, EndTraceCases

\* A bus error in a trace.
LEMMA BusErrorInv ==
  ASSUME Inv, NEW next \in Pcs, BusErrorInTrace(next)
  PROVE  Inv'
<1> DEFINE p == cpu.pc
<1>1. /\ aborted = None /\ cpu.at = "trace" /\ p \in Faulting \ cut
      /\ cpu' = At("dispatch", next) /\ cut' = cut \cup {p}
      /\ UNCHANGED <<mem, changed, jit, cache_enabled, aborted, opcodeVars>>
  BY DEF BusErrorInTrace, Running
<1>2. AroundOK /\ JitOK(jit) /\ AtRest(jit)
  BY DEF Inv
<1>3. cpu' \in CpuType /\ cpu'.at = "dispatch" /\ cpu'.retries = 0
  BY <1>1, <1>2, AtFacts DEF Placed
<1>4. CpuOK'
  BY <1>3 DEF CpuOK
<1>5. ASSUME NEW q \in Pcs PROVE CodeOK(jit'.bi[q], q) /\ CountOK(jit.bi[q], q)'
  <2>1. CodeOK(jit.bi[q], q) /\ CountOK(jit.bi[q], q)
    BY DEF Inv
  <2>2. QED
    BY <1>1, <2>1 DEF CountOK, Tracing
<1>6. /\ cut' \subseteq Faulting /\ AbortsOnlyAfterFault' /\ JitOK(jit') /\ AtRest(jit')
      /\ ~ cache_enabled => \A q \in Pcs : ~ Exists(jit', q)
  BY <1>1, <1>2 DEF AroundOK, AbortsOnlyAfterFault, Inv
<1>7. QED
  BY <1>1, <1>3, <1>4, <1>5, <1>6, InvStep

\* cpu.at while the host or an instruction acts.
LEMMA ActsFacts ==
  ASSUME Inv, InstructionsRun \/ Running("out")
  PROVE  /\ aborted = None /\ cpu.at \notin {"dispatch", "enter"} /\ cpu.retries = 0
         /\ JitOK(jit) /\ AtRest(jit) /\ AroundOK
<1>1. aborted = None /\ cpu.at \in {"trace", "nostats", "native", "out"}
  BY DEF InstructionsRun, Running
<1>2. CpuOK /\ JitOK(jit) /\ AtRest(jit) /\ AroundOK
  BY DEF Inv
<1>3. QED
  BY <1>1, <1>2 DEF CpuOK

LEMMA ModifyInv ==
  ASSUME Inv, NEW p \in Pcs, NEW c \in Contents, Modify(p, c)
  PROVE  Inv' /\ cpu'.at = cpu.at /\ cpu.at # "enter"
<1> DEFINE t == cpu.torn \/ (cpu.at = "trace" /\ cpu.pc = p)
<1>1. /\ aborted = None /\ cpu.at \notin {"dispatch", "enter"} /\ cpu.retries = 0
      /\ JitOK(jit) /\ AtRest(jit) /\ AroundOK
  BY ActsFacts DEF Modify
<1>2. /\ mem' = [mem EXCEPT ![p] = c] /\ changed' = changed \cup {p}
      /\ cpu' = [cpu EXCEPT !.torn = t]
      /\ UNCHANGED <<jit, cache_enabled, cut, aborted, opcodeVars>>
  BY DEF Modify
<1>3. t \in BOOLEAN /\ cpu \in CpuType
  BY <1>1 DEF AroundOK, CpuType
<1> HIDE DEF t
<1>4. cpu' \in CpuType /\ cpu'.at = cpu.at /\ cpu'.pc = cpu.pc /\ cpu'.retries = cpu.retries
  BY <1>2, <1>3 DEF CpuType
<1>5. CpuOK'
  BY <1>1, <1>2, <1>4 DEF CpuOK, Inv
<1>6. ASSUME NEW q \in Pcs PROVE CodeOK(jit.bi[q], q)' /\ CountOK(jit.bi[q], q)'
  <2>1. CodeOK(jit.bi[q], q) /\ CountOK(jit.bi[q], q)
    BY DEF Inv
  <2>2. q # p => mem'[q] = mem[q]
    BY <1>1, <1>2 DEF AroundOK
  <2>3. CodeOK(jit.bi[q], q)'
    BY <1>2, <2>1, <2>2 DEF CodeOK, opcodeVars
  <2>4. CountOK(jit.bi[q], q)'
    BY <1>2, <1>4, <2>1 DEF CountOK, Tracing
  <2>5. QED
    BY <2>3, <2>4
<1>7. AroundOK'
  BY <1>1, <1>2, <1>4 DEF AroundOK, HostOpcodesTypeOK, opcodeVars
<1>8. TablesOK' /\ AbortsOnlyAfterFault' /\ (~ cache_enabled' => \A q \in Pcs : ~ Exists(jit', q))
  BY <1>2 DEF Inv, TablesOK, AbortsOnlyAfterFault, opcodeVars
<1>9. Inv'
  BY <1>1, <1>2, <1>5, <1>6, <1>7, <1>8 DEF Inv
<1>10. QED
  BY <1>1, <1>4, <1>9

LEMMA InvalidateInv ==
  ASSUME Inv, InvalidateCode
  PROVE  Inv' /\ Flushes(jit, jit') /\ cpu.at # "enter"
<1>1. /\ aborted = None /\ cpu.at \notin {"dispatch", "enter"} /\ cpu.retries = 0
      /\ JitOK(jit) /\ AtRest(jit) /\ AroundOK
  BY ActsFacts DEF InvalidateCode
<1>2. /\ jit' = FlushIcacheLazy(jit) /\ changed' = {}
      /\ UNCHANGED <<mem, cache_enabled, cpu, cut, aborted, opcodeVars>>
  BY DEF InvalidateCode
<1>3. JitOK(jit') /\ AtRest(jit') /\ jit'.cl = jit.cl /\ Flushes(jit, jit')
  BY <1>1, <1>2, FlushOK
<1>4. \A q \in Pcs : /\ Exists(jit', q) <=> Exists(jit, q)
                     /\ IsHead(jit', q) <=> IsHead(jit, q)
  BY <1>3 DEF Flushes, Exists, IsHead
<1>5. cpu.pc \in Pcs
  BY <1>1 DEF AroundOK, CpuType
<1>6. CpuOK'
  BY <1>1, <1>2, <1>3, <1>4, <1>5 DEF CpuOK, Inv, Flushes
<1>7. ASSUME NEW q \in Pcs PROVE CodeOK(jit.bi[q], q)' /\ CountOK(jit.bi[q], q)'
  <2>1. CodeOK(jit.bi[q], q) /\ CountOK(jit.bi[q], q)
    BY DEF Inv
  <2>2. jit'.bi[q].tr.kind = "native" => jit'.bi[q].status # "ACTIVE"
    BY <1>1, <1>3, KindFacts DEF Flushes
  <2>3. CodeOK(jit.bi[q], q)'
    BY <1>2, <1>3, <2>1, <2>2 DEF CodeOK, opcodeVars, Flushes
  <2>4. CountOK(jit.bi[q], q)'
    BY <1>2, <1>3, <2>1 DEF CountOK, Tracing, Flushes
  <2>5. QED
    BY <2>3, <2>4
<1>8. AroundOK'
  BY <1>1, <1>2 DEF AroundOK, HostOpcodesTypeOK, opcodeVars
<1>9. TablesOK' /\ AbortsOnlyAfterFault' /\ (~ cache_enabled' => \A q \in Pcs : ~ Exists(jit', q))
  BY <1>2, <1>4 DEF Inv, TablesOK, AbortsOnlyAfterFault, opcodeVars
<1>10. QED
  BY <1>1, <1>3, <1>6, <1>7, <1>8, <1>9 DEF Inv

\* All blocks are freed while the host or an instruction acts.
LEMMA DropInv ==
  ASSUME Inv, InstructionsRun \/ Running("out"), jit' = EmptyJit,
         cache_enabled' \in BOOLEAN, HostOpcodesTypeOK', TablesOK',
         UNCHANGED <<mem, changed, cpu, cut, aborted>>
  PROVE  Inv'
<1>1. /\ aborted = None /\ cpu.at \notin {"dispatch", "enter"} /\ cpu.retries = 0
      /\ JitOK(jit) /\ AtRest(jit) /\ AroundOK
  BY ActsFacts
<1>2. JitOK(jit') /\ AtRest(jit') /\ \A q \in Pcs : ~ Exists(jit', q)
  BY EmptyOK
<1>3. cpu.pc \in Pcs
  BY <1>1 DEF AroundOK, CpuType
<1>4. CpuOK'
  BY <1>1, <1>2, <1>3 DEF CpuOK
<1>5. \A q \in Pcs : CodeOK(jit.bi[q], q)' /\ CountOK(jit.bi[q], q)'
  BY EmptyCodes DEF CodeOK, CountOK
<1>6. AroundOK' /\ AbortsOnlyAfterFault'
  BY <1>1 DEF AroundOK, AbortsOnlyAfterFault, Inv
<1>7. QED
  BY <1>2, <1>4, <1>5, <1>6 DEF Inv

\* build_cpufunctbl and build_comp.
LEMMA BuildFacts ==
  ASSUME NEW res, NEW hook
  PROVE  /\ BuildTables(res, hook) \in [cpufunctbl : [Opcodes -> {"op", "illg"}],
                                        nfcpufunctbl : [Opcodes -> {"op", "illg"}],
                                        native : SUBSET Opcodes]
         /\ \A op \in BuildTables(res, hook).native : ~ IsReserved(res, op)
<1> DEFINE c == [op \in Opcodes |-> IF op \in Decoded /\ ~ IsReserved(res, op) THEN "op" ELSE "illg"]
           n == [op \in Opcodes |-> IF op \in Decoded THEN "op" ELSE "illg"]
           native == {op \in Decoded : ~ MustInterpret(res, hook, op)}
<1>1. BuildTables(res, hook) = [cpufunctbl |-> c, nfcpufunctbl |-> n, native |-> native]
  BY DEF BuildTables
<1>2. c \in [Opcodes -> {"op", "illg"}] /\ n \in [Opcodes -> {"op", "illg"}]
  OBVIOUS
<1>3. native \in SUBSET Opcodes
  <2>1. Decoded \subseteq Opcodes
    BY HostOpcodesAssumption
  <2>2. QED
    BY <2>1
<1>4. \A op \in native : ~ IsReserved(res, op)
  BY DEF MustInterpret
<1> HIDE DEF c, n, native
<1>5. QED
  BY <1>1, <1>2, <1>3, <1>4

\* uae_host_reserve_opcodes
LEMMA ReserveInv ==
  ASSUME Inv, NEW r \in Claims, HostReserve(r)
  PROVE  Inv' /\ cpu.at = "out"
<1>1. /\ Running("out") /\ ReserveOpcodes(r) /\ jit' = EmptyJit
      /\ UNCHANGED <<mem, changed, cache_enabled, cpu, cut, aborted>>
  BY DEF HostReserve, DropTranslations
<1>2. HostOpcodesTypeOK /\ cache_enabled \in BOOLEAN
  BY DEF Inv, AroundOK
<1>3. /\ reserved' = Append(reserved, r) /\ Len(reserved) < MaxRanges
      /\ tables' = BuildTables(reserved', dbf_spin) /\ dbf_spin' = dbf_spin
      /\ tables_dbf_hook' = (tables_dbf_hook \/ dbf_spin)
  BY <1>1 DEF ReserveOpcodes, RangeFits, Rebuild
<1>4. reserved \in Seq(Ranges) /\ r \in Ranges /\ MaxRanges \in Nat
  <2>1. r \in Ranges
    BY JitBlocksAssumption
  <2>2. MaxRanges \in Nat
    BY HostOpcodesAssumption
  <2>3. QED
    BY <1>2, <2>1, <2>2 DEF HostOpcodesTypeOK
<1>5. reserved' \in Seq(Ranges) /\ Len(reserved') <= MaxRanges
  BY <1>3, <1>4
<1>6. HostOpcodesTypeOK'
  BY <1>2, <1>3, <1>5, BuildFacts DEF HostOpcodesTypeOK
<1>7. TablesOK'
  BY <1>3, BuildFacts DEF TablesOK
<1>8. Inv'
  BY <1>1, <1>2, <1>6, <1>7, DropInv
<1>9. QED
  BY <1>1, <1>8 DEF Running

\* uae_host_clear_reserved_opcodes
LEMMA ClearInv ==
  ASSUME Inv, HostClear
  PROVE  Inv' /\ cpu.at = "out"
<1>1. /\ Running("out") /\ ClearReservedOpcodes /\ jit' = EmptyJit
      /\ UNCHANGED <<mem, changed, cache_enabled, cpu, cut, aborted>>
  BY DEF HostClear, DropTranslations
<1>2. HostOpcodesTypeOK /\ cache_enabled \in BOOLEAN
  BY DEF Inv, AroundOK
<1>3. /\ reserved' = <<>> /\ tables' = BuildTables(<<>>, dbf_spin) /\ dbf_spin' = dbf_spin
      /\ tables_dbf_hook' = (tables_dbf_hook \/ dbf_spin)
  BY <1>1 DEF ClearReservedOpcodes, Rebuild
<1>4. reserved' \in Seq(Ranges) /\ Len(reserved') <= MaxRanges
  BY <1>3, HostOpcodesAssumption
<1>5. HostOpcodesTypeOK'
  BY <1>2, <1>3, <1>4, BuildFacts DEF HostOpcodesTypeOK
<1>6. TablesOK'
  BY <1>3, BuildFacts DEF TablesOK
<1>7. Inv'
  BY <1>1, <1>2, <1>5, <1>6, DropInv
<1>8. QED
  BY <1>1, <1>7 DEF Running

\* uae_host_set_hooks
LEMMA SetHooksInv ==
  ASSUME Inv, NEW hook \in Hooks, HostSetHooks(hook)
  PROVE  /\ Inv' /\ cpu.at = "out" /\ UNCHANGED <<mem, changed, cpu>>
         /\ jit' = EmptyJit \/ jit' = jit
<1>1. /\ Running("out") /\ SetHooks(hook)
      /\ UNCHANGED <<mem, changed, cache_enabled, cpu, cut, aborted>>
  BY DEF HostSetHooks
<1>2. HostOpcodesTypeOK /\ cache_enabled \in BOOLEAN /\ hook \in BOOLEAN
  BY JitBlocksAssumption DEF Inv, AroundOK
<1>3. CASE hook # tables_dbf_hook
  <2>1. /\ jit' = EmptyJit /\ reserved' = reserved /\ dbf_spin' = hook
        /\ tables' = BuildTables(reserved, hook)
        /\ tables_dbf_hook' = (tables_dbf_hook \/ hook)
    BY <1>1, <1>3 DEF HostSetHooks, DropTranslations, SetHooks, Rebuild
  <2>2. HostOpcodesTypeOK'
    BY <1>2, <2>1, BuildFacts DEF HostOpcodesTypeOK
  <2>3. TablesOK'
    BY <2>1, BuildFacts DEF TablesOK
  <2>4. Inv'
    BY <1>1, <1>2, <2>1, <2>2, <2>3, DropInv
  <2>5. QED
    BY <1>1, <2>1, <2>4 DEF Running
<1>4. CASE hook = tables_dbf_hook
  <2>1. /\ UNCHANGED <<jit, reserved, tables, tables_dbf_hook>> /\ dbf_spin' = hook
    BY <1>1, <1>4 DEF HostSetHooks, SetHooks
  <2>2. HostOpcodesTypeOK' /\ TablesOK'
    BY <1>2, <2>1 DEF HostOpcodesTypeOK, TablesOK, Inv
  <2>3. AroundOK' /\ CpuOK' /\ AbortsOnlyAfterFault'
    BY <1>1, <2>1, <2>2 DEF Inv, AroundOK, CpuOK, AbortsOnlyAfterFault
  <2>4. ASSUME NEW q \in Pcs PROVE CodeOK(jit.bi[q], q)' /\ CountOK(jit.bi[q], q)'
    <3>1. CodeOK(jit.bi[q], q) /\ CountOK(jit.bi[q], q)
      BY DEF Inv
    <3>2. QED
      BY <1>1, <2>1, <3>1 DEF CodeOK, CountOK, Tracing
  <2>5. JitOK(jit') /\ AtRest(jit') /\ (~ cache_enabled' => \A q \in Pcs : ~ Exists(jit', q))
    BY <1>1, <2>1 DEF Inv
  <2>6. Inv'
    BY <2>2, <2>3, <2>4, <2>5 DEF Inv
  <2>7. QED
    BY <1>1, <2>1, <2>6 DEF Running
<1>5. QED
  BY <1>3, <1>4

\* set_cpu_caches
LEMMA SetCacheStateInv ==
  ASSUME Inv, NEW enabled \in BOOLEAN, SetCacheState(enabled)
  PROVE  Inv' /\ cpu.at # "enter"
<1>1. /\ InstructionsRun /\ jit' = EmptyJit /\ cache_enabled' = enabled
      /\ UNCHANGED <<mem, changed, cpu, cut, aborted, opcodeVars>>
  BY DEF SetCacheState, FlushIcacheHard
<1>2. HostOpcodesTypeOK' /\ TablesOK'
  BY <1>1 DEF Inv, AroundOK, TablesOK, HostOpcodesTypeOK, opcodeVars
<1>3. Inv'
  BY <1>1, <1>2, DropInv
<1>4. QED
  BY <1>1, <1>3, ActsFacts

LEMMA InitInv == Init => Inv
<1> SUFFICES ASSUME Init PROVE Inv
  OBVIOUS
<1>1. PICK p \in Pcs : cpu = Idle(p)
  BY DEF Init
<1>2. /\ mem = Loaded /\ changed = {} /\ jit = EmptyJit /\ cache_enabled = TRUE
      /\ cut = {} /\ aborted = None
      /\ reserved = <<>> /\ dbf_spin = FALSE /\ tables_dbf_hook = FALSE
      /\ tables = BuildTables(<<>>, FALSE)
  BY DEF Init, HostOpcodesInit
<1>3. cpu \in CpuType /\ cpu.at = "out" /\ cpu.retries = 0
  BY <1>1, AddressFacts DEF Idle, CpuType
<1>4. <<>> \in Seq(Ranges) /\ Len(<<>>) <= MaxRanges
  BY HostOpcodesAssumption
<1>5. HostOpcodesTypeOK /\ TablesOK
  BY <1>2, <1>4, BuildFacts DEF HostOpcodesTypeOK, TablesOK
<1>6. AroundOK
  BY <1>2, <1>3, <1>5, JitBlocksAssumption DEF AroundOK
<1>7. CpuOK
  BY <1>3 DEF CpuOK
<1>8. JitOK(jit) /\ AtRest(jit)
  BY <1>2, EmptyOK
<1>9. \A q \in Pcs : CodeOK(jit.bi[q], q) /\ CountOK(jit.bi[q], q)
  BY <1>2, EmptyCodes DEF CountOK
<1>10. QED
  BY <1>2, <1>5, <1>6, <1>7, <1>8, <1>9 DEF Inv, AbortsOnlyAfterFault

LEMMA NextInv == Inv /\ [Next]_vars => Inv'
<1> SUFFICES ASSUME Inv, [Next]_vars PROVE Inv'
  OBVIOUS
<1>0. cpu.pc \in Pcs
  BY DEF Inv, AroundOK, CpuType
<1>1. ASSUME Dispatch PROVE Inv'
  <2>1. UNCHANGED <<mem, changed, cache_enabled, cut, opcodeVars>>
    BY <1>1 DEF Dispatch
  <2>2. QED
    BY <1>1, <2>1, DispatchGoes, GoesInv
<1>2. ASSUME EnterNostats PROVE Inv'
  BY <1>2, EnterNostatsStep
<1>3. ASSUME EnterNative PROVE Inv'
  BY <1>0, <1>3, MovesInv DEF EnterNative, Running
<1>4. ASSUME FollowJump PROVE Inv'
  <2>1. UNCHANGED <<mem, changed, cache_enabled, cut, opcodeVars>>
    BY <1>4 DEF FollowJump
  <2>2. aborted = None /\ cpu.at = "native" /\ \E p \in Pcs : Goes(p)
    BY <1>4, FollowJumpGoes
  <2>3. QED
    BY <2>1, <2>2, GoesInv
<1>5. ASSUME NEW next \in Pcs, LeaveNostats(next) \/ LeaveNative(next) PROVE Inv'
  BY <1>5, MovesInv DEF LeaveNostats, LeaveNative, Running
<1>6. ASSUME NEW next \in Pcs, BusErrorInTrace(next) PROVE Inv'
  BY <1>6, BusErrorInv
<1>7. ASSUME NEW next \in Pcs, NEW full \in {"no", "before", "after"}, EndTrace(next, full)
      PROVE  Inv'
  BY <1>7, EndTraceInv
<1>8. ASSUME NEW p \in Pcs, Execute(p) PROVE Inv'
  BY <1>8, MovesInv DEF Execute, Running
<1>9. ASSUME Return PROVE Inv'
  BY <1>0, <1>9, MovesInv DEF Return, Running
<1>10. ASSUME NEW p \in Written, NEW c \in Contents, Modify(p, c) PROVE Inv'
  <2>1. p \in Pcs
    BY JitBlocksAssumption
  <2>2. QED
    BY <1>10, <2>1, ModifyInv
<1>11. ASSUME InvalidateCode PROVE Inv'
  BY <1>11, InvalidateInv
<1>12. ASSUME NEW enabled \in BOOLEAN, SetCacheState(enabled) PROVE Inv'
  BY <1>12, SetCacheStateInv
<1>13. ASSUME NEW r \in Claims, HostReserve(r) PROVE Inv'
  BY <1>13, ReserveInv
<1>14. ASSUME HostClear PROVE Inv'
  BY <1>14, ClearInv
<1>15. ASSUME NEW hook \in Hooks, HostSetHooks(hook) PROVE Inv'
  BY <1>15, SetHooksInv
<1>16. ASSUME UNCHANGED vars PROVE Inv'
  <2>1. UNCHANGED <<mem, changed, jit, cache_enabled, cpu, cut, aborted, reserved, dbf_spin,
                    tables_dbf_hook, tables>>
    BY <1>16 DEF vars, opcodeVars
  <2>2. AroundOK' /\ TablesOK' /\ CpuOK' /\ AbortsOnlyAfterFault'
    BY <2>1 DEF Inv, AroundOK, TablesOK, HostOpcodesTypeOK, CpuOK, AbortsOnlyAfterFault
  <2>3. \A q \in Pcs : CodeOK(jit.bi[q], q)' /\ CountOK(jit.bi[q], q)'
    BY <2>1 DEF Inv, CodeOK, CountOK, Tracing
  <2>4. QED
    BY <2>1, <2>2, <2>3 DEF Inv
<1>17. QED
  BY <1>1, <1>2, <1>3, <1>4, <1>5, <1>6, <1>7, <1>8, <1>9, <1>10, <1>11, <1>12, <1>13,
     <1>14, <1>15, <1>16 DEF Next, CpuStep, HostStep

-----------------------------------------------------------------------------
(***************************************************************************)
(* The invariants TLC checks.                                              *)
(***************************************************************************)
LEMMA InvTheorem == Spec => []Inv
<1>1. QED
  BY InitInv, NextInv, PTL DEF Spec

(***************************************************************************)
(* Blocks, lists, tags, countdowns and the CPU have their types; between   *)
(* steps no block is left half checked or half compiled, and no list holds *)
(* a block twice (block_check_checksum, compile_block, raise_in_cl_list).  *)
(***************************************************************************)
THEOREM TypeTheorem == Spec => []TypeOK
<1>1. Inv => TypeOK
  <2> SUFFICES ASSUME Inv PROVE TypeOK
    OBVIOUS
  <2>1. AroundOK /\ JitOK(jit) /\ AtRest(jit)
    BY DEF Inv
  <2>2. ASSUME NEW p \in Pcs PROVE jit.bi[p].count \in -2 .. OptCount
    <3>1. /\ jit.bi[p].count \in Int /\ BlockOK(jit.bi[p], p)
          /\ CodeOK(jit.bi[p], p) /\ CountOK(jit.bi[p], p)
      BY <2>1, KindFacts DEF Inv, JitOK, BlocksOK, Blocks
    <3>2. OptCount \in Int /\ OptCount > 0
      BY JitBlocksAssumption
    <3>3. CASE jit.bi[p].status \in {"none", "INVALID"}
      BY <3>1, <3>2, <3>3 DEF BlockOK
    <3>4. CASE jit.bi[p].status \notin {"none", "INVALID"}
      <4>1. jit.bi[p].tr.kind \in {"nostats", "native"}
        BY <2>1, <3>4, KindFacts
      <4>2. QED
        BY <3>1, <3>2, <4>1 DEF CodeOK, CountOK
    <3>5. QED
      BY <3>3, <3>4
  <2>3. jit \in Jits /\ \A l \in Lines : IsInjective(jit.cl[l])
    BY <2>1 DEF JitOK, ListsOK
  <2>4. aborted \in {None} \cup Assertions
    BY DEF Inv, AbortsOnlyAfterFault, Assertions
  <2>5. QED
    BY <2>1, <2>2, <2>3, <2>4 DEF TypeOK, AroundOK, CpuType, AtRest
<1>2. QED
  BY <1>1, InvTheorem, PTL

(***************************************************************************)
(* Every jump in translated code goes where its target is to be entered,   *)
(* whatever the graph of jumps and however checks, flushes and             *)
(* recompilations follow each other (set_dhtu, create_jmpdep).             *)
(***************************************************************************)
THEOREM JumpsTheorem == Spec => []JumpsAreLinked
<1>1. Inv => JumpsAreLinked
  BY DEF Inv, JitOK, Linked, JumpsAreLinked
<1>2. QED
  BY <1>1, InvTheorem, PTL

(***************************************************************************)
(* The dispatcher's tag follows the head of its list and each block is on  *)
(* the list of its tag, for any number of blocks that share one            *)
(* (raise_in_cl_list, flush_icache_lazy).                                  *)
(***************************************************************************)
THEOREM TagsTheorem == Spec => []TagsFollowHeads
<1>1. Inv => TagsFollowHeads
  <2> SUFFICES ASSUME Inv PROVE TagsFollowHeads
    OBVIOUS
  <2>1. jit \in Jits /\ ListsOK(jit, {}) /\ TagsOK(jit, {}) /\ AtRest(jit)
    BY DEF Inv, JitOK
  <2>2. ASSUME NEW l \in Lines
        PROVE  jit.tag[l] = IF jit.cl[l] = <<>> THEN Normal
                            ELSE jit.bi[Head(jit.cl[l])].handler_to_use
    <3>1. jit.cl[l] # <<>> => Head(jit.cl[l]) \in Pcs
      BY <2>1, JitFields
    <3>2. QED
      BY <2>1, <3>1 DEF TagsOK, AtRest
  <2>3. ASSUME NEW p \in Pcs
        PROVE  Exists(jit, p) <=> \E i \in DOMAIN jit.cl[Line[p]] : jit.cl[Line[p]][i] = p
    BY <2>1, AddressFacts DEF ListsOK
  <2>4. QED
    BY <2>2, <2>3 DEF TagsFollowHeads
<1>2. QED
  BY <1>1, InvTheorem, PTL

\* The code about to run is that of a block in use.
LEMMA EnteredFacts ==
  ASSUME Inv, cpu.at = "enter", cpu.tr.kind = "native"
  PROVE  /\ cpu.pc \in Pcs /\ cpu.tr = jit.bi[cpu.pc].tr /\ jit.bi[cpu.pc].status = "ACTIVE"
         /\ CodeOK(jit.bi[cpu.pc], cpu.pc) /\ cpu.tr.code \in Contents
<1>1. cpu.pc \in Pcs /\ JitOK(jit)
  BY DEF Inv, AroundOK, CpuType
<1>2. cpu.tr = jit.bi[cpu.pc].tr /\ jit.bi[cpu.pc].status = "ACTIVE"
  BY DEF Inv, CpuOK
<1>3. cpu.tr.code \in Contents
  BY <1>1, <1>2, KindFacts
<1>4. QED
  BY <1>1, <1>2, <1>3 DEF Inv

(***************************************************************************)
(* No stale translation runs: native code that is entered was made from    *)
(* the code in memory, unless that changed after the last flush or in the  *)
(* trace it was made from (uae_host_invalidate_code,                       *)
(* block_check_checksum).                                                  *)
(***************************************************************************)
THEOREM CurrentTheorem == Spec => []CodeIsCurrent
<1>1. Inv => CodeIsCurrent
  BY EnteredFacts DEF CodeIsCurrent, CodeOK
<1>2. QED
  BY <1>1, InvTheorem, PTL

(***************************************************************************)
(* No translation outlives the tables it was made with                     *)
(* (uae_host_reserve_opcodes, uae_host_set_hooks, build_comp).             *)
(***************************************************************************)
THEOREM TablesTheorem == Spec => []TranslationsFollowTables
<1>1. Inv => TranslationsFollowTables
  BY DEF Inv, TranslationsFollowTables, CodeOK
<1>2. QED
  BY <1>1, InvTheorem, PTL

(***************************************************************************)
(* No word the host reserved runs as native code, whatever was translated  *)
(* before it was reserved (uae_host_jit_must_interpret, build_comp).       *)
(***************************************************************************)
THEOREM ReservedTheorem == Spec => []ReservedNeverNative
<1>1. Inv => ReservedNeverNative
  <2> SUFFICES ASSUME Inv, cpu.at = "enter", cpu.tr.kind = "native",
                      IsReserved(reserved, LastOp[cpu.tr.code])
               PROVE  cpu.tr.call # "native"
    BY DEF ReservedNeverNative
  <2> DEFINE op == LastOp[cpu.tr.code]
  <2>1. cpu.tr.call = CompiledCall(tables, op) /\ cpu.tr.code \in Contents
    BY EnteredFacts DEF CodeOK
  <2>2. op \in Opcodes
    BY <2>1, JitBlocksAssumption
  <2>3. HostOpcodesTypeOK /\ op \notin tables.native
    BY DEF Inv, AroundOK, TablesOK
  <2> HIDE DEF op
  <2>4. CompiledCall(tables, op) \in {"op", "illg"}
    BY <2>2, <2>3 DEF CompiledCall, HostOpcodesTypeOK
  <2>5. QED
    BY <2>1, <2>4
<1>2. QED
  BY <1>1, InvTheorem, PTL

(***************************************************************************)
(* The assertions of compile_block, cache_miss and get_blockinfo_addr_new  *)
(* never fail, but for the countdown of a block whose trace a bus error    *)
(* cut short.                                                              *)
(***************************************************************************)
THEOREM AbortTheorem == Spec => []AbortsOnlyAfterFault
<1>1. Inv => AbortsOnlyAfterFault
  BY DEF Inv
<1>2. QED
  BY <1>1, InvTheorem, PTL

(***************************************************************************)
(* A PC costs the dispatcher one miss and one check at most, however many  *)
(* blocks share its tag (check_for_cache_miss, cache_miss,                 *)
(* check_checksum).                                                        *)
(***************************************************************************)
THEOREM DispatchTheorem == Spec => []DispatchGetsThere
<1>1. Inv => DispatchGetsThere
  <2> SUFFICES ASSUME Inv PROVE DispatchGetsThere
    OBVIOUS
  <2>1. CpuOK /\ cpu.retries \in Nat
    BY DEF Inv, AroundOK, CpuType
  <2>2. QED
    BY <2>1 DEF CpuOK, DispatchGetsThere
<1>2. QED
  BY <1>1, InvTheorem, PTL


-----------------------------------------------------------------------------
(***************************************************************************)
(* JitBlocks implements CodeCache.                                         *)
(***************************************************************************)
\* A record set to another state.
LEMMA ReState ==
  ASSUME NEW S, NEW s \in STRING, NEW c \in S, NEW t \in BOOLEAN, NEW v \in STRING,
         NEW x, x = [state |-> s, code |-> c, torn |-> t]
  PROVE  [x EXCEPT !.state = v] = [state |-> v, code |-> c, torn |-> t]
OBVIOUS

\* What CodeCache sees in a block.
LEMMA ViewFacts ==
  ASSUME NEW j, JitOK(j), NEW p \in Pcs
  PROVE  LET t == TranslationOf(j.bi[p]) IN
         /\ j.bi[p].tr.kind # "native" => t = Cache!Untranslated
         /\ j.bi[p].tr.kind = "native" =>
              /\ j.bi[p].status \notin {"none", "INVALID"}
              /\ t = [state |-> IF j.bi[p].status = "ACTIVE" THEN "valid" ELSE "unchecked",
                      code |-> j.bi[p].tr.code, torn |-> j.bi[p].tr.torn]
              /\ t.state = (IF j.bi[p].status = "ACTIVE" THEN "valid" ELSE "unchecked")
              /\ t.code = j.bi[p].tr.code
              /\ j.bi[p].tr.code \in Contents /\ j.bi[p].tr.torn \in BOOLEAN
<1>1. j.bi[p].tr.kind = "native" =>
        /\ j.bi[p].status \notin {"none", "INVALID"}
        /\ j.bi[p].tr.code \in Contents /\ j.bi[p].tr.torn \in BOOLEAN
  BY KindFacts
<1>2. QED
  BY <1>1 DEF TranslationOf, Cache!Untranslated

\* The translations of S taken back, and those discarded, between j and k.
Kept(j, k, S) ==
  {q \in S : /\ j.bi[q].tr.kind = "native" /\ j.bi[q].status = "NEED_CHECK"
             /\ k.bi[q].status = "ACTIVE"}
Dropped(j, k, S) ==
  {q \in S : /\ j.bi[q].tr.kind = "native" /\ j.bi[q].status = "NEED_CHECK"
             /\ k.bi[q].status = "INVALID"}

LEMMA EvolvesView ==
  ASSUME NEW j, JitOK(j), NEW k, JitOK(k), NEW S \in SUBSET Pcs, NEW q \in S,
         BlockEvolves(j.bi[q], k.bi[q], q)
  PROVE  LET t == TranslationOf(j.bi[q])
             u == TranslationOf(k.bi[q])
         IN  /\ q \in Kept(j, k, S) \cup Dropped(j, k, S) => t.state = "unchecked"
             /\ q \in Kept(j, k, S) => /\ Checksum[t.code] # 0
                                       /\ Checksum[t.code] = Checksum[mem[q]]
                                       /\ u = [t EXCEPT !.state = "valid"]
             /\ q \in Dropped(j, k, S) => u = Cache!Untranslated
             /\ q \notin Kept(j, k, S) \cup Dropped(j, k, S) => u = t
<1> DEFINE t == TranslationOf(j.bi[q])
           u == TranslationOf(k.bi[q])
<1>0. q \in Pcs
  OBVIOUS
<1>1. /\ k.bi[q].status \in {"none", "INVALID"} => k.bi[q].tr.kind # "native"
      /\ j.bi[q].status \in {"none", "INVALID"} => j.bi[q].tr.kind # "native"
  BY <1>0, ViewFacts
<1>2. CASE q \in Kept(j, k, S)
  <2>1. /\ j.bi[q].tr.kind = "native" /\ j.bi[q].status = "NEED_CHECK"
        /\ k.bi[q].status = "ACTIVE" /\ q \notin Dropped(j, k, S)
    BY <1>2 DEF Kept, Dropped
  <2>2. /\ k.bi[q].tr = j.bi[q].tr
        /\ Checksum[j.bi[q].tr.code] # 0 /\ Checksum[j.bi[q].tr.code] = Checksum[mem[q]]
    BY <2>1 DEF BlockEvolves
  <2>3. /\ t = [state |-> "unchecked", code |-> j.bi[q].tr.code, torn |-> j.bi[q].tr.torn]
        /\ t.state = "unchecked" /\ t.code = j.bi[q].tr.code
        /\ j.bi[q].tr.code \in Contents /\ j.bi[q].tr.torn \in BOOLEAN
    BY <1>0, <2>1, ViewFacts
  <2>4. u = [state |-> "valid", code |-> j.bi[q].tr.code, torn |-> j.bi[q].tr.torn]
    BY <1>0, <2>1, <2>2, ViewFacts
  <2> HIDE DEF t, u
  <2>5. u = [t EXCEPT !.state = "valid"]
    BY <2>3, <2>4, ReState
  <2>6. QED
    BY <1>2, <2>1, <2>2, <2>3, <2>5 DEF t, u
<1>3. CASE q \in Dropped(j, k, S)
  <2>1. /\ j.bi[q].tr.kind = "native" /\ j.bi[q].status = "NEED_CHECK"
        /\ k.bi[q].status = "INVALID" /\ q \notin Kept(j, k, S)
    BY <1>3 DEF Kept, Dropped
  <2>2. t.state = "unchecked" /\ u = Cache!Untranslated
    BY <1>0, <1>1, <2>1, ViewFacts
  <2>3. QED
    BY <1>3, <2>1, <2>2
<1>4. CASE q \notin Kept(j, k, S) \cup Dropped(j, k, S)
  <2>1. CASE k.bi[q].status = j.bi[q].status /\ k.bi[q].tr = j.bi[q].tr
    BY <1>4, <2>1 DEF TranslationOf
  <2>2. CASE /\ j.bi[q].tr.kind # "native"
             /\ k.bi[q].tr = j.bi[q].tr \/ k.bi[q].status = "INVALID"
    <3>1. t = Cache!Untranslated
      BY <1>0, <2>2, ViewFacts
    <3>2. k.bi[q].tr.kind # "native"
      BY <1>1, <2>2
    <3>3. u = Cache!Untranslated
      BY <1>0, <3>2, ViewFacts
    <3>4. QED
      BY <1>4, <3>1, <3>3
  <2>3. QED
    BY <1>1, <1>4, <2>1, <2>2 DEF BlockEvolves, Kept, Dropped
<1>5. QED
  BY <1>2, <1>3, <1>4

Entered == IF cpu.at = "enter" /\ cpu.tr.kind = "native" THEN cpu.pc ELSE None

\* Checks and discards.
LEMMA CheckRefines ==
  ASSUME JitOK(jit), JitOK(jit'), Evolves(jit, jit'), UNCHANGED <<mem, changed>>, Entered' = None
  PROVE  Cache!Next
<1> DEFINE keep == Kept(jit, jit', Pcs)
           drop == Dropped(jit, jit', Pcs)
           old == [p \in Pcs |-> TranslationOf(jit.bi[p])]
<1>1. keep \in SUBSET Pcs /\ drop \in SUBSET Pcs
  BY DEF Kept, Dropped
<1>2. \A q \in Pcs :
        LET t == TranslationOf(jit.bi[q])
            u == TranslationOf(jit'.bi[q])
        IN  /\ q \in keep \cup drop => t.state = "unchecked"
            /\ q \in keep => /\ Checksum[t.code] # 0 /\ Checksum[t.code] = Checksum[mem[q]]
                             /\ u = [t EXCEPT !.state = "valid"]
            /\ q \in drop => u = Cache!Untranslated
            /\ q \notin keep \cup drop => u = t
  BY EvolvesView DEF Evolves
<1> HIDE DEF keep, drop
<1>3. Cache!Decided(keep, drop)
  BY <1>1, <1>2 DEF Cache!Decided, Cache!Matches
<1>4. Cache!Checked(keep, drop) = [p \in Pcs |-> TranslationOf(jit'.bi[p])]
  BY <1>1, <1>2 DEF Cache!Checked
<1>5. Cache!Check(keep, drop)
  BY <1>3, <1>4 DEF Cache!Check, Entered
<1>6. QED
  BY <1>1, <1>5 DEF Cache!Next

\* Nothing of a translation changes.
LEMMA LeaveRefines ==
  ASSUME \A q \in Pcs : \/ jit'.bi[q].status = jit.bi[q].status /\ jit'.bi[q].tr = jit.bi[q].tr
                        \/ jit.bi[q].tr.kind # "native" /\ jit'.bi[q].tr.kind # "native",
         UNCHANGED <<mem, changed>>, Entered' = None
  PROVE  Cache!Next
<1>1. \A q \in Pcs : TranslationOf(jit'.bi[q]) = TranslationOf(jit.bi[q])
  BY DEF TranslationOf
<1>2. Cache!Leave
  BY <1>1 DEF Cache!Leave, Entered
<1>3. QED
  BY <1>2 DEF Cache!Next

\* There are no translations left, nor any new one.
LEMMA DropAllRefines ==
  ASSUME \A q \in Pcs : jit'.bi[q].tr.kind # "native",
         UNCHANGED <<mem, changed>>, Entered' = None
  PROVE  Cache!Next
<1>1. \A q \in Pcs : TranslationOf(jit'.bi[q]) = Cache!Untranslated
  BY DEF TranslationOf, Cache!Untranslated
<1>2. Cache!DropAll
  BY <1>1 DEF Cache!DropAll, Entered
<1>3. QED
  BY <1>2 DEF Cache!Next

\* A block is entered.
LEMMA EnterRefines ==
  ASSUME JitOK(jit), NEW p \in Pcs, jit.bi[p].status = "ACTIVE", jit.bi[p].tr.kind = "native",
         UNCHANGED <<mem, changed, jit>>, Entered' = p
  PROVE  Cache!Next
<1>1. TranslationOf(jit.bi[p]).state = "valid"
  BY ViewFacts
<1>2. Cache!Enter(p)
  BY <1>1 DEF Cache!Enter, Entered
<1>3. QED
  BY <1>2 DEF Cache!Next

\* compile_block.
LEMMA TranslateRefines ==
  ASSUME JitOK(jit), JitOK(jit'), NEW p \in Pcs, NEW torn \in BOOLEAN,
         \A q \in Pcs : q # p => BlockEvolves(jit.bi[q], jit'.bi[q], q),
         jit'.bi[p].status = "ACTIVE", jit'.bi[p].tr.kind = "native",
         jit'.bi[p].tr.code = mem[p], jit'.bi[p].tr.torn = torn,
         UNCHANGED <<mem, changed>>, Entered' = None
  PROVE  Cache!Next
<1> DEFINE S == Pcs \ {p}
           keep == Kept(jit, jit', S)
           drop == Dropped(jit, jit', S)
           new == [state |-> "valid", code |-> mem[p], torn |-> torn]
<1>1. keep \in SUBSET Pcs /\ drop \in SUBSET Pcs /\ p \notin keep \cup drop
  BY DEF Kept, Dropped
<1>2. \A q \in S :
        LET t == TranslationOf(jit.bi[q])
            u == TranslationOf(jit'.bi[q])
        IN  /\ q \in keep \cup drop => t.state = "unchecked"
            /\ q \in keep => /\ Checksum[t.code] # 0 /\ Checksum[t.code] = Checksum[mem[q]]
                             /\ u = [t EXCEPT !.state = "valid"]
            /\ q \in drop => u = Cache!Untranslated
            /\ q \notin keep \cup drop => u = t
  <2>1. S \in SUBSET Pcs /\ \A q \in S : BlockEvolves(jit.bi[q], jit'.bi[q], q)
    OBVIOUS
  <2> HIDE DEF S
  <2>2. QED
    BY <2>1, EvolvesView
<1>3. keep \cup drop \subseteq S
  BY <1>1
<1> HIDE DEF keep, drop
<1>4. Cache!Decided(keep, drop)
  BY <1>1, <1>2, <1>3 DEF Cache!Decided, Cache!Matches
<1>5. TranslationOf(jit'.bi[p]) = new
  BY ViewFacts
<1> HIDE DEF new
<1>6. [Cache!Checked(keep, drop) EXCEPT ![p] = new] = [q \in Pcs |-> TranslationOf(jit'.bi[q])]
  BY <1>1, <1>2, <1>3, <1>5 DEF Cache!Checked
<1>7. Cache!Translate(p, torn, keep, drop)
  BY <1>4, <1>6 DEF Cache!Translate, Entered, new
<1>8. QED
  BY <1>1, <1>7 DEF Cache!Next

\* flush_icache_lazy.
LEMMA FlushRefines ==
  ASSUME JitOK(jit), JitOK(jit'), Flushes(jit, jit'), mem' = mem, changed' = {}, Entered' = None
  PROVE  Cache!Next
<1>1. ASSUME NEW q \in Pcs
      PROVE  TranslationOf(jit'.bi[q]) =
               IF TranslationOf(jit.bi[q]).state = "none" THEN TranslationOf(jit.bi[q])
               ELSE [TranslationOf(jit.bi[q]) EXCEPT !.state = "unchecked"]
  <2> DEFINE t == TranslationOf(jit.bi[q])
             u == TranslationOf(jit'.bi[q])
             s == IF jit.bi[q].status = "ACTIVE" THEN "valid" ELSE "unchecked"
  <2>1. jit'.bi[q].tr = jit.bi[q].tr
    BY DEF Flushes
  <2>2. CASE jit.bi[q].tr.kind # "native"
    <3>1. t = Cache!Untranslated
      BY <2>2, ViewFacts
    <3>2. u = Cache!Untranslated
      BY <2>1, <2>2, ViewFacts
    <3>3. Cache!Untranslated.state = "none"
      BY DEF Cache!Untranslated
    <3>4. QED
      BY <3>1, <3>2, <3>3
  <2>3. CASE jit.bi[q].tr.kind = "native"
    <3>1. /\ t = [state |-> s, code |-> jit.bi[q].tr.code, torn |-> jit.bi[q].tr.torn]
          /\ t.state = s /\ jit.bi[q].status \notin {"none", "INVALID"}
          /\ jit.bi[q].tr.code \in Contents /\ jit.bi[q].tr.torn \in BOOLEAN
      BY <2>3, ViewFacts
    <3>2. jit'.bi[q].status = "NEED_CHECK"
      BY <3>1 DEF Flushes
    <3>3. u = [state |-> "unchecked", code |-> jit.bi[q].tr.code, torn |-> jit.bi[q].tr.torn]
      BY <2>1, <2>3, <3>2, ViewFacts
    <3> HIDE DEF t, u
    <3>4. CASE s = "valid"
      <4>1. u = [t EXCEPT !.state = "unchecked"]
        BY <3>1, <3>3, <3>4, ReState
      <4>2. t.state # "none"
        BY <3>1, <3>4
      <4>3. QED
        BY <4>1, <4>2 DEF t, u
    <3>5. CASE s = "unchecked"
      <4>1. u = [t EXCEPT !.state = "unchecked"]
        BY <3>1, <3>3, <3>5, ReState
      <4>2. t.state # "none"
        BY <3>1, <3>5
      <4>3. QED
        BY <4>1, <4>2 DEF t, u
    <3>6. QED
      BY <3>4, <3>5
  <2>4. QED
    BY <2>2, <2>3
<1>2. Cache!Flush
  BY <1>1 DEF Cache!Flush, Entered
<1>3. QED
  BY <1>2 DEF Cache!Next

\* Control goes to the code of a block, to the dispatcher or to a trace.
LEMMA GoesRefines ==
  ASSUME Inv, NEW p \in Pcs, Goes(p), UNCHANGED <<mem, changed>>
  PROVE  Cache!Next
<1>1. JitOK(jit) /\ AroundOK /\ JitOK(jit') /\ Evolves(jit, jit') /\ jit.bi[p].tr \in Codes
  BY KindFacts DEF Inv, Goes
<1>2. CASE /\ jit' = jit /\ jit.bi[p].status = "ACTIVE"
           /\ cpu' = [At("enter", p) EXCEPT !.tr = jit.bi[p].tr]
  <2>1. cpu'.at = "enter" /\ cpu'.pc = p /\ cpu'.tr = jit.bi[p].tr
    BY <1>1, <1>2, EnterFacts
  <2>2. CASE jit.bi[p].tr.kind = "native"
    <3>1. Entered' = p
      BY <2>1, <2>2 DEF Entered
    <3>2. QED
      BY <1>1, <1>2, <2>2, <3>1, EnterRefines
  <2>3. CASE jit.bi[p].tr.kind # "native"
    <3>1. Entered' = None
      BY <2>1, <2>3 DEF Entered
    <3>2. QED
      BY <1>2, <3>1, LeaveRefines
  <2>4. QED
    BY <2>2, <2>3
<1>3. CASE cpu' = At("dispatch", p) \/ cpu' = At("trace", p)
  <2>1. cpu'.at # "enter"
    <3>1. At("dispatch", p).at = "dispatch" /\ At("trace", p).at = "trace"
      BY <1>1, AtFacts DEF Placed
    <3>2. QED
      BY <1>3, <3>1
  <2>2. Entered' = None
    BY <2>1 DEF Entered
  <2>3. QED
    BY <1>1, <2>2, CheckRefines
<1>4. QED
  BY <1>2, <1>3 DEF Goes

\* Control goes on with the blocks as they are.
LEMMA MovesRefines ==
  ASSUME Inv, NEW p \in Pcs, NEW at \in {"out", "dispatch", "nostats", "native"},
         cpu' = At(at, p), UNCHANGED <<mem, changed, jit>>
  PROVE  Cache!Next
<1>1. /\ At("out", p).at = "out" /\ At("dispatch", p).at = "dispatch"
      /\ At("nostats", p).at = "nostats" /\ At("native", p).at = "native"
  BY AtFacts DEF Inv, Placed
<1>2. cpu'.at # "enter"
  BY <1>1
<1>3. Entered' = None
  BY <1>2 DEF Entered
<1>4. QED
  BY <1>3, LeaveRefines

\* A trace ends with a translation, or with a block that is to count down.
LEMMA EndTraceRefines ==
  ASSUME Inv, NEW next \in Pcs, NEW full \in {"no", "before", "after"}, EndTrace(next, full)
  PROVE  Cache!Next
<1> DEFINE p == cpu.pc
<1>1. /\ aborted = None /\ cpu.at = "trace" /\ p \in Pcs /\ cpu.torn \in BOOLEAN
      /\ cpu' = At("dispatch", next) /\ UNCHANGED <<mem, changed>>
  BY EndTraceCases
<1>2. AroundOK /\ JitOK(jit) /\ AtRest(jit) /\ mem \in [Pcs -> Contents] /\ HostOpcodesTypeOK
  BY DEF Inv, AroundOK
<1>3. Entered' = None
  <2>1. cpu'.at = "dispatch"
    BY <1>1, <1>2, AtFacts DEF Placed
  <2>2. QED
    BY <2>1 DEF Entered
<1>4. CASE jit' = jit
  BY <1>1, <1>3, <1>4, LeaveRefines
<1>5. CASE jit' = EmptyJit
  BY <1>1, <1>3, <1>5, DropAllRefines, EmptyCodes
<1>6. CASE \E j \in {jit, EmptyJit} :
             /\ jit' = Compile(j, p, cpu.torn)
             /\ ~ Exists(j, p) \/ j.bi[p].status = "INVALID" \/ j.bi[p].count = -1
  <2>1. PICK j \in {jit, EmptyJit} :
             /\ jit' = Compile(j, p, cpu.torn)
             /\ ~ Exists(j, p) \/ j.bi[p].status = "INVALID" \/ j.bi[p].count = -1
    BY <1>6
  <2> DEFINE n == IF Exists(j, p) THEN j.bi[p].count ELSE OptCount - 1
             tr == Translation(n, p, cpu.torn)
  <2>2. JitOK(j) /\ AtRest(j)
    BY <1>2, EmptyOK
  <2>3. /\ JitOK(jit')
        /\ \A q \in Pcs : q # p => BlockEvolves(j.bi[q], jit'.bi[q], q)
        /\ n # -1 => \A q \in Pcs : q # p => jit'.bi[q].status = j.bi[q].status
                                          /\ jit'.bi[q].tr = j.bi[q].tr
        /\ jit'.bi[p].status = "ACTIVE" /\ jit'.bi[p].tr = tr
    <3> DEFINE k == Compile(j, p, cpu.torn)
    <3>1. /\ JitOK(k)
          /\ \A q \in Pcs : q # p => BlockEvolves(j.bi[q], k.bi[q], q)
          /\ n # -1 => \A q \in Pcs : q # p => k.bi[q].status = j.bi[q].status
                                            /\ k.bi[q].tr = j.bi[q].tr
          /\ k.bi[p].status = "ACTIVE" /\ k.bi[p].tr = tr
      BY <1>1, <1>2, <2>2, CompileOK
    <3>2. jit' = k
      BY <2>1
    <3> HIDE DEF k, n, tr
    <3>3. QED
      BY <3>1, <3>2
  <2>4. OptCount \in Int /\ OptCount - 1 # -1
    BY JitBlocksAssumption
  <2>5. n \in Int
    BY <1>1, <2>2, <2>4, KindFacts DEF Blocks
  <2>6. n # -1 => ~ Exists(j, p) \/ j.bi[p].status = "INVALID"
    BY <2>1
  <2>7. n = -1 => Exists(j, p)
    BY <2>4
  <2> HIDE DEF n
  <2>8. /\ tr.code = mem[p] /\ tr.torn \in BOOLEAN
        /\ n = -1 => tr.kind = "native"
        /\ n # -1 => tr.kind = "nostats"
    BY <1>1, <1>2, <2>5, TranslationFacts
  <2> HIDE DEF tr
  <2>9. CASE n = -1
    <3>1. ~ Exists(EmptyJit, p)
      BY <1>1, EmptyOK
    <3>2. j = jit
      BY <2>7, <2>9, <3>1
    <3>3. QED
      BY <1>1, <1>2, <1>3, <2>3, <2>8, <2>9, <3>2, TranslateRefines
  <2>10. CASE n # -1 /\ j = jit
    <3>1. j.bi[p].tr.kind # "native" /\ jit'.bi[p].tr.kind # "native"
      BY <1>1, <2>2, <2>3, <2>6, <2>8, <2>10, KindFacts DEF Exists
    <3>2. \A q \in Pcs : \/ jit'.bi[q].status = jit.bi[q].status /\ jit'.bi[q].tr = jit.bi[q].tr
                         \/ jit.bi[q].tr.kind # "native" /\ jit'.bi[q].tr.kind # "native"
      BY <2>3, <2>10, <3>1
    <3>3. QED
      BY <1>1, <1>3, <3>2, LeaveRefines
  <2>11. CASE n # -1 /\ j = EmptyJit
    <3>1. \A q \in Pcs : jit'.bi[q].tr.kind # "native"
      BY <2>3, <2>8, <2>11, EmptyCodes
    <3>2. QED
      BY <1>1, <1>3, <3>1, DropAllRefines
  <2>12. QED
    BY <2>9, <2>10, <2>11
<1>7. QED
  BY <1>4, <1>5, <1>6, EndTraceCases

\* The guest or the host writes code.
LEMMA ModifyRefines ==
  ASSUME Inv, NEW p \in Pcs, NEW c \in Contents, Modify(p, c)
  PROVE  Cache!Next
<1>1. /\ mem' = [mem EXCEPT ![p] = c] /\ changed' = changed \cup {p} /\ jit' = jit
  BY DEF Modify
<1>2. cpu'.at # "enter"
  BY ModifyInv
<1>3. Cache!Modify(p, c)
  BY <1>1, <1>2 DEF Cache!Modify
<1>4. QED
  BY <1>3 DEF Cache!Next

LEMMA StepRefines ==
  ASSUME Inv, [Next]_vars
  PROVE  Cache!Next \/ UNCHANGED Cache!vars
<1>0. cpu.pc \in Pcs
  BY DEF Inv, AroundOK, CpuType
<1>1. ASSUME Dispatch PROVE Cache!Next
  <2>1. UNCHANGED <<mem, changed>>
    BY <1>1 DEF Dispatch
  <2>2. QED
    BY <1>1, <2>1, DispatchGoes, GoesRefines
<1>2. ASSUME EnterNostats PROVE Cache!Next
  <2>1. UNCHANGED <<mem, changed>>
    BY <1>2 DEF EnterNostats
  <2>2. /\ \A q \in Pcs : jit'.bi[q].status = jit.bi[q].status /\ jit'.bi[q].tr = jit.bi[q].tr
        /\ Entered' = None
    BY <1>2, EnterNostatsStep DEF Entered
  <2>3. QED
    BY <2>1, <2>2, LeaveRefines
<1>3. ASSUME EnterNative PROVE Cache!Next
  BY <1>0, <1>3, MovesRefines DEF EnterNative
<1>4. ASSUME FollowJump PROVE Cache!Next
  <2>1. UNCHANGED <<mem, changed>>
    BY <1>4 DEF FollowJump
  <2>2. \E p \in Pcs : Goes(p)
    BY <1>4, FollowJumpGoes
  <2>3. QED
    BY <2>1, <2>2, GoesRefines
<1>5. ASSUME NEW next \in Pcs, LeaveNostats(next) \/ LeaveNative(next) \/ BusErrorInTrace(next)
      PROVE  Cache!Next
  BY <1>5, MovesRefines DEF LeaveNostats, LeaveNative, BusErrorInTrace
<1>6. ASSUME NEW next \in Pcs, NEW full \in {"no", "before", "after"}, EndTrace(next, full)
      PROVE  Cache!Next
  BY <1>6, EndTraceRefines
<1>7. ASSUME NEW p \in Pcs, Execute(p) PROVE Cache!Next
  BY <1>7, MovesRefines DEF Execute
<1>8. ASSUME Return PROVE Cache!Next
  BY <1>0, <1>8, MovesRefines DEF Return
<1>9. ASSUME NEW p \in Written, NEW c \in Contents, Modify(p, c) PROVE Cache!Next
  <2>1. p \in Pcs
    BY JitBlocksAssumption
  <2>2. QED
    BY <1>9, <2>1, ModifyRefines
<1>10. ASSUME InvalidateCode PROVE Cache!Next
  <2>1. mem' = mem /\ changed' = {} /\ cpu' = cpu
    BY <1>10 DEF InvalidateCode
  <2>2. Inv' /\ Flushes(jit, jit') /\ cpu.at # "enter"
    BY <1>10, InvalidateInv
  <2>3. JitOK(jit) /\ JitOK(jit') /\ Entered' = None
    BY <2>1, <2>2 DEF Inv, Entered
  <2>4. QED
    BY <2>1, <2>2, <2>3, FlushRefines
<1>11. ASSUME jit' = EmptyJit \/ jit' = jit, UNCHANGED <<mem, changed, cpu>>, cpu.at # "enter"
       PROVE  Cache!Next
  <2>1. Entered' = None
    BY <1>11 DEF Entered
  <2>2. CASE jit' = jit
    BY <1>11, <2>1, <2>2, LeaveRefines
  <2>3. CASE jit' = EmptyJit
    BY <1>11, <2>1, <2>3, DropAllRefines, EmptyCodes
  <2>4. QED
    BY <1>11, <2>2, <2>3
<1>12. ASSUME NEW enabled \in BOOLEAN, SetCacheState(enabled) PROVE Cache!Next
  <2>1. jit' = EmptyJit /\ UNCHANGED <<mem, changed, cpu>>
    BY <1>12 DEF SetCacheState, FlushIcacheHard
  <2>2. QED
    BY <1>11, <1>12, <2>1, SetCacheStateInv
<1>13. ASSUME NEW r \in Claims, HostReserve(r) PROVE Cache!Next
  <2>1. jit' = EmptyJit /\ UNCHANGED <<mem, changed, cpu>>
    BY <1>13 DEF HostReserve, DropTranslations
  <2>2. QED
    BY <1>11, <1>13, <2>1, ReserveInv
<1>14. ASSUME HostClear PROVE Cache!Next
  <2>1. jit' = EmptyJit /\ UNCHANGED <<mem, changed, cpu>>
    BY <1>14 DEF HostClear, DropTranslations
  <2>2. QED
    BY <1>11, <1>14, <2>1, ClearInv
<1>15. ASSUME NEW hook \in Hooks, HostSetHooks(hook) PROVE Cache!Next
  BY <1>11, <1>15, SetHooksInv
<1>16. CASE UNCHANGED vars
  BY <1>16 DEF vars, Cache!vars
<1>17. QED
  BY <1>1, <1>2, <1>3, <1>4, <1>5, <1>6, <1>7, <1>8, <1>9, <1>10, <1>12, <1>13, <1>14, <1>15,
     <1>16 DEF Next, CpuStep, HostStep

LEMMA InitRefines ==
  ASSUME Init
  PROVE  Cache!Init
<1>1. PICK p \in Pcs : cpu = Idle(p)
  BY DEF Init
<1>2. mem = Loaded /\ changed = {} /\ jit = EmptyJit /\ cpu.at = "out"
  BY <1>1 DEF Init, Idle
<1>3. \A q \in Pcs : TranslationOf(jit.bi[q]) = Cache!Untranslated
  BY <1>2, EmptyCodes DEF TranslationOf, Cache!Untranslated
<1>4. mem \in [Pcs -> Contents]
  BY <1>2, JitBlocksAssumption
<1>5. QED
  BY <1>2, <1>3, <1>4 DEF Cache!Init

(***************************************************************************)
(* The blocks, lists, tags and jumps of the JIT are a translation cache as *)
(* CodeCache promises it: only a checked translation is entered, a flush   *)
(* leaves none checked, and one is taken back only when its checksum       *)
(* matches, however far the checks of successors nest and whatever block   *)
(* the compiler, the dispatcher or the host touches in between             *)
(* (block_check_checksum, compile_block, flush_icache_lazy).               *)
(***************************************************************************)
THEOREM RefinementTheorem == Spec => ImplementsCodeCache
<1>1. Init => Cache!Init
  BY InitRefines
<1>2. Inv /\ [Next]_vars => [Cache!Next]_(Cache!vars)
  BY StepRefines
<1>3. QED
  BY <1>1, <1>2, InvTheorem, PTL DEF Spec, ImplementsCodeCache, Cache!Spec
=============================================================================
