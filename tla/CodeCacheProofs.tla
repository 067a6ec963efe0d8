-------------------------- MODULE CodeCacheProofs ---------------------------
(***************************************************************************)
(* The cache of translations never runs stale code, for every set of       *)
(* blocks and of contents, and every checksum that tells them apart.       *)
(***************************************************************************)
EXTENDS CodeCache, TLAPS

\* ValidIsCurrent is what an entry relies on; an unchecked translation may
\* be out of date, so the checksum has to bring it back.
CacheInv == TypeOK /\ ValidIsCurrent /\ EnteredIsCurrent

\* A translation whose checksum matches was made from the code in memory
\* (calc_checksum, block_check_checksum).
LEMMA MatchIsCurrent ==
  ASSUME TypeOK, NEW p \in Pcs, cached[p].state = "unchecked", Matches(p)
  PROVE  cached[p].code = mem[p]
BY CodeBlocksAssumption DEF TypeOK, Translations, Untranslated, Matches

\* Taking translations back and discarding others leaves a well-formed
\* cache whose valid translations are current (called_check_checksum).
LEMMA CheckedIsCurrent ==
  ASSUME TypeOK, ValidIsCurrent,
         NEW keep \in SUBSET Pcs, NEW drop \in SUBSET Pcs, Decided(keep, drop)
  PROVE  /\ Checked(keep, drop) \in [Pcs -> Translations]
         /\ \A p \in Pcs : LET t == Checked(keep, drop)[p] IN
              t.state = "valid" => t.torn \/ t.code = mem[p] \/ p \in changed
<1>1. ASSUME NEW p \in Pcs, p \in keep
      PROVE  /\ Checked(keep, drop)[p] \in Translations
             /\ Checked(keep, drop)[p].code = mem[p]
  <2>1. cached[p].state = "unchecked" /\ Matches(p)
    BY <1>1 DEF Decided
  <2>2. cached[p] \in [state : {"valid", "unchecked"}, code : Contents, torn : BOOLEAN]
    BY <2>1 DEF TypeOK, Translations, Untranslated
  <2>3. Checked(keep, drop)[p] = [cached[p] EXCEPT !.state = "valid"]
    BY <1>1 DEF Checked
  <2>4. cached[p].code = mem[p]
    BY <2>1, MatchIsCurrent
  <2> QED BY <2>2, <2>3, <2>4 DEF Translations
<1>2. ASSUME NEW p \in Pcs, p \notin keep, p \in drop
      PROVE  Checked(keep, drop)[p] = Untranslated
  BY <1>2 DEF Checked
<1>3. ASSUME NEW p \in Pcs, p \notin keep, p \notin drop
      PROVE  Checked(keep, drop)[p] = cached[p]
  BY <1>3 DEF Checked
<1>4. \A p \in Pcs : Checked(keep, drop)[p] \in Translations
  BY <1>1, <1>2, <1>3 DEF TypeOK, Translations
<1>5. Checked(keep, drop) \in [Pcs -> Translations]
  BY <1>4 DEF Checked
<1>6. ASSUME NEW p \in Pcs, Checked(keep, drop)[p].state = "valid"
      PROVE  Checked(keep, drop)[p].torn \/ Checked(keep, drop)[p].code = mem[p] \/ p \in changed
  <2>1. CASE p \in keep BY <2>1, <1>1
  <2>2. CASE p \notin keep /\ p \in drop BY <2>2, <1>2, <1>6 DEF Untranslated
  <2>3. CASE p \notin keep /\ p \notin drop
    BY <2>3, <1>3, <1>6 DEF ValidIsCurrent, Current
  <2> QED BY <2>1, <2>2, <2>3
<1> QED BY <1>5, <1>6

LEMMA CacheInit == Init => CacheInv
<1> SUFFICES ASSUME Init PROVE CacheInv
  OBVIOUS
<1>1. TypeOK
  BY DEF Init, TypeOK, Translations
<1>2. ValidIsCurrent
  BY DEF Init, ValidIsCurrent, Untranslated
<1>3. EnteredIsCurrent
  BY DEF Init, EnteredIsCurrent
<1> QED BY <1>1, <1>2, <1>3 DEF CacheInv

LEMMA CacheStep == CacheInv /\ [Next]_vars => CacheInv'
<1> SUFFICES ASSUME CacheInv, [Next]_vars PROVE CacheInv'
  OBVIOUS
<1> USE DEF CacheInv
<1> None \notin Pcs
  BY CodeBlocksAssumption
<1>1. ASSUME NEW p \in Pcs, NEW c \in Contents, Modify(p, c) PROVE CacheInv'
  <2>1. TypeOK'
    BY <1>1 DEF Modify, TypeOK
  <2>2. ValidIsCurrent'
    BY <1>1 DEF Modify, TypeOK, ValidIsCurrent, Current
  <2>3. EnteredIsCurrent'
    BY <1>1 DEF Modify, EnteredIsCurrent
  <2> QED BY <2>1, <2>2, <2>3
<1>2. ASSUME Flush PROVE CacheInv'
  <2>1. \A p \in Pcs : /\ cached'[p] \in Translations
                       /\ cached'[p].state # "valid"
    <3> SUFFICES ASSUME NEW p \in Pcs
                 PROVE  cached'[p] \in Translations /\ cached'[p].state # "valid"
      OBVIOUS
    <3>1. CASE cached[p].state = "none"
      BY <1>2, <3>1 DEF Flush, TypeOK
    <3>2. CASE cached[p].state # "none"
      <4>1. cached[p] \in [state : {"valid", "unchecked"}, code : Contents, torn : BOOLEAN]
        BY <3>2 DEF TypeOK, Translations, Untranslated
      <4>2. cached'[p] = [cached[p] EXCEPT !.state = "unchecked"]
        BY <1>2, <3>2 DEF Flush
      <4> QED BY <4>1, <4>2 DEF Translations
    <3> QED BY <3>1, <3>2
  <2>2. TypeOK'
    BY <1>2, <2>1 DEF Flush, TypeOK
  <2>3. ValidIsCurrent'
    BY <2>1 DEF ValidIsCurrent
  <2>4. EnteredIsCurrent'
    BY <1>2 DEF Flush, EnteredIsCurrent
  <2> QED BY <2>2, <2>3, <2>4
<1>3. ASSUME NEW keep \in SUBSET Pcs, NEW drop \in SUBSET Pcs, Check(keep, drop)
      PROVE  CacheInv'
  <2>1. Decided(keep, drop) /\ cached' = Checked(keep, drop) /\ entered' = None
        /\ mem' = mem /\ changed' = changed
    BY <1>3 DEF Check
  <2>2. TypeOK'
    BY <2>1, CheckedIsCurrent DEF TypeOK
  <2>3. ValidIsCurrent'
    BY <2>1, CheckedIsCurrent DEF ValidIsCurrent, Current
  <2>4. EnteredIsCurrent'
    BY <2>1 DEF EnteredIsCurrent
  <2> QED BY <2>2, <2>3, <2>4
<1>4. ASSUME NEW p \in Pcs, NEW torn \in BOOLEAN,
             NEW keep \in SUBSET Pcs, NEW drop \in SUBSET Pcs,
             Translate(p, torn, keep, drop)
      PROVE  CacheInv'
  <2> DEFINE new == [state |-> "valid", code |-> mem[p], torn |-> torn]
  <2>1. Decided(keep, drop) /\ cached' = [Checked(keep, drop) EXCEPT ![p] = new]
        /\ entered' = None /\ mem' = mem /\ changed' = changed
    BY <1>4 DEF Translate
  <2>2. new \in Translations
    BY DEF TypeOK, Translations
  <2>3. Checked(keep, drop) \in [Pcs -> Translations]
    BY <2>1, CheckedIsCurrent
  <2>4. cached' \in [Pcs -> Translations]
    BY <2>1, <2>2, <2>3
  <2>5. TypeOK'
    BY <2>1, <2>4 DEF TypeOK
  <2>6. ASSUME NEW q \in Pcs, cached'[q].state = "valid" PROVE Current(q)'
    <3>1. CASE q = p
      BY <3>1, <2>1, <2>3 DEF Current
    <3>2. CASE q # p
      <4>1. cached'[q] = Checked(keep, drop)[q]
        BY <3>2, <2>1, <2>3
      <4> QED BY <4>1, <2>1, <2>6, CheckedIsCurrent DEF Current
    <3> QED BY <3>1, <3>2
  <2>7. ValidIsCurrent'
    BY <2>6 DEF ValidIsCurrent
  <2>8. EnteredIsCurrent'
    BY <2>1 DEF EnteredIsCurrent
  <2> QED BY <2>5, <2>7, <2>8
<1>5. ASSUME DropAll PROVE CacheInv'
  <2>1. TypeOK'
    BY <1>5 DEF DropAll, TypeOK, Translations
  <2>2. ValidIsCurrent'
    BY <1>5 DEF DropAll, ValidIsCurrent, Untranslated
  <2>3. EnteredIsCurrent'
    BY <1>5 DEF DropAll, EnteredIsCurrent
  <2> QED BY <2>1, <2>2, <2>3
<1>6. ASSUME NEW p \in Pcs, Enter(p) PROVE CacheInv'
  BY <1>6 DEF Enter, TypeOK, ValidIsCurrent, EnteredIsCurrent, Current
<1>7. ASSUME Leave PROVE CacheInv'
  BY <1>7 DEF Leave, TypeOK, ValidIsCurrent, EnteredIsCurrent, Current
<1>8. ASSUME UNCHANGED vars PROVE CacheInv'
  BY <1>8 DEF vars, TypeOK, ValidIsCurrent, EnteredIsCurrent, Current
<1> QED
  BY <1>1, <1>2, <1>3, <1>4, <1>5, <1>6, <1>7, <1>8 DEF Next

\* What runs was made from the code in memory, unless that code changed
\* after the last flush or while it was recorded, for every number of
\* blocks (block_check_checksum, flush_icache_lazy).  With
\* ImplementsCodeCache it holds of the JIT's blocks, lists and tags.
THEOREM CacheIsCurrent == Spec => []EnteredIsCurrent
<1>1. CacheInv => EnteredIsCurrent
  BY DEF CacheInv
<1> QED
  BY <1>1, CacheInit, CacheStep, PTL DEF Spec
=============================================================================
