--------------------------- MODULE HostRunProofs ---------------------------
(***************************************************************************)
(* The invariants of the execute and step loops, for any nesting depth,    *)
(* budgets, interrupt levels and lines.                                    *)
(***************************************************************************)
EXTENDS HostRun, FiniteSetTheorems, SequenceTheorems, TLAPS

-----------------------------------------------------------------------------
(***************************************************************************)
(* Counting the members of S among the first n calls.                      *)
(***************************************************************************)
Count(S, n) == Cardinality(S \cap (1..n))

LEMMA CountType ==
  ASSUME NEW S, NEW n \in Int
  PROVE  IsFiniteSet(S \cap (1..n)) /\ Count(S, n) \in Nat
<1>1. IsFiniteSet(1..n)
  BY FS_Interval
<1>2. S \cap (1..n) \in SUBSET (1..n)
  OBVIOUS
<1>3. IsFiniteSet(S \cap (1..n))
  BY <1>1, <1>2, FS_Subset
<1>4. QED
  BY <1>3, FS_CardinalityType DEF Count

LEMMA CountZero ==
  ASSUME NEW S
  PROVE  Count(S, 0) = 0
<1>1. S \cap (1..0) = {}
  OBVIOUS
<1>2. QED
  BY <1>1, FS_EmptySet DEF Count

LEMMA CountNext ==
  ASSUME NEW S, NEW n \in Nat \ {0}
  PROVE  Count(S, n) = Count(S, n - 1) + (IF n \in S THEN 1 ELSE 0)
<1>1. IsFiniteSet(S \cap (1..(n - 1))) /\ n - 1 \in Int
  BY CountType
<1>2. CASE n \in S
  <2>1. S \cap (1..n) = (S \cap (1..(n - 1))) \cup {n} /\ n \notin S \cap (1..(n - 1))
    BY <1>2
  <2>2. QED
    BY <1>1, <1>2, <2>1, FS_AddElement DEF Count
<1>3. CASE n \notin S
  <2>1. S \cap (1..n) = S \cap (1..(n - 1))
    BY <1>3
  <2>2. Count(S, n - 1) \in Nat
    BY <1>1, CountType
  <2>3. Count(S, n) = Count(S, n - 1)
    BY <2>1 DEF Count
  <2>4. QED
    BY <1>3, <2>2, <2>3
<1>4. QED
  BY <1>2, <1>3

LEMMA CountMonotone ==
  ASSUME NEW S, NEW m \in Int, NEW n \in Int, m <= n
  PROVE  Count(S, m) <= Count(S, n)
<1>1. IsFiniteSet(S \cap (1..n))
  BY CountType
<1>2. S \cap (1..m) \in SUBSET (S \cap (1..n))
  OBVIOUS
<1>3. QED
  BY <1>1, <1>2, FS_Subset DEF Count

LEMMA CountSame ==
  ASSUME NEW S, NEW T, NEW n \in Int, \A i \in 1..n : i \in S <=> i \in T
  PROVE  Count(S, n) = Count(T, n)
<1>1. S \cap (1..n) = T \cap (1..n)
  OBVIOUS
<1>2. QED
  BY <1>1 DEF Count

LEMMA CountBound ==
  ASSUME NEW S, NEW n \in Nat
  PROVE  Count(S, n) <= n
<1>1. IsFiniteSet(1..n) /\ Cardinality(1..n) = n
  BY FS_Interval
<1>2. S \cap (1..n) \in SUBSET (1..n)
  OBVIOUS
<1>3. QED
  BY <1>1, <1>2, FS_Subset DEF Count
-----------------------------------------------------------------------------
(***************************************************************************)
(* Sequences.                                                              *)
(***************************************************************************)
LEMMA FunctionIsSeq ==
  ASSUME NEW S, NEW n \in Nat, NEW f \in [1..n -> S]
  PROVE  f \in Seq(S) /\ Len(f) = n
BY SeqDef

LEMMA PrefixFacts ==
  ASSUME NEW S, NEW s \in Seq(S), NEW n \in 0..Len(s)
  PROVE  /\ SubSeq(s, 1, n) \in Seq(S) /\ Len(SubSeq(s, 1, n)) = n
         /\ \A i \in 1..n : SubSeq(s, 1, n)[i] = s[i]
<1>1. Len(s) \in Nat /\ n \in Nat
  BY LenProperties
<1>2. \A i \in 1..n : s[i] \in S
  BY <1>1, ElementOfSeq
<1>3. /\ SubSeq(s, 1, n) \in Seq(S)
      /\ Len(SubSeq(s, 1, n)) = IF 1 <= n THEN n - 1 + 1 ELSE 0
      /\ \A i \in 1..(n - 1 + 1) : SubSeq(s, 1, n)[i] = s[1 + i - 1]
  BY <1>1, <1>2, SubSeqProperties
<1>4. QED
  BY <1>1, <1>3
-----------------------------------------------------------------------------
(***************************************************************************)
(* The interrupt state keeps its type.                                     *)
(***************************************************************************)
LEMMA MaxOfLevels ==
  ASSUME NEW S \in SUBSET IPL
  PROVE  Max(S \cup {0}) \in IPL
<1> DEFINE T == S \cup {0}
<1>1. \E x \in T : \A y \in T : x >= y
  <2>1. \A y \in T : y \in 0..7
    BY DEF IPL
  <2>2. 0 \in T
    OBVIOUS
  <2> HIDE DEF T
  <2>3. CASE 7 \in T
    BY <2>1, <2>3
  <2>4. CASE 7 \notin T /\ 6 \in T
    BY <2>1, <2>4
  <2>5. CASE {6, 7} \cap T = {} /\ 5 \in T
    BY <2>1, <2>5
  <2>6. CASE {5, 6, 7} \cap T = {} /\ 4 \in T
    BY <2>1, <2>6
  <2>7. CASE {4, 5, 6, 7} \cap T = {} /\ 3 \in T
    BY <2>1, <2>7
  <2>8. CASE {3, 4, 5, 6, 7} \cap T = {} /\ 2 \in T
    BY <2>1, <2>8
  <2>9. CASE {2, 3, 4, 5, 6, 7} \cap T = {}
    BY <2>1, <2>2, <2>9
  <2>10. QED
    BY <2>3, <2>4, <2>5, <2>6, <2>7, <2>8, <2>9
<1>2. Max(T) \in T
  BY <1>1 DEF Max
<1>3. 0 \in IPL
  BY DEF IPL
<1>4. QED
  BY <1>2, <1>3

LEMMA IntlevType ==
  ASSUME NEW l \in Lines
  PROVE  intlev(l) \in IPL
BY MaxOfLevels DEF Lines, intlev

LEMMA RegsTypes ==
  ASSUME NEW r \in Regs, NEW level \in IPL, NEW other \in IPL, NEW flags \in SUBSET SpcFlags
  PROVE  /\ set_special(r, flags) \in Regs
         /\ unset_special(r, flags) \in Regs
         /\ doint(r, level) \in Regs
         /\ checkint(r, level) \in Regs
         /\ MakeFromSR(r, level) \in Regs
         /\ StopInstruction(r, level, other) \in Regs
         /\ m68k_resumestopped(r) \in Regs
         /\ ExceptionEntered(r, level) \in Regs
         /\ InterruptEntered(r, level, other) \in Regs
         /\ SpecialtiesTail(r, flags) \in Regs
         /\ [r EXCEPT !.lastipl = level] \in Regs
         /\ [r EXCEPT !.halted = TRUE] \in Regs
<1>1. ASSUME NEW s \in Regs, NEW f \in SUBSET SpcFlags
      PROVE  set_special(s, f) \in Regs /\ unset_special(s, f) \in Regs
  BY DEF Regs, set_special, unset_special
<1>2. {"INT"} \in SUBSET SpcFlags /\ {"DOINT"} \in SUBSET SpcFlags /\ {"BRK"} \in SUBSET SpcFlags
  BY DEF SpcFlags
<1>3. ASSUME NEW s \in Regs, NEW l \in IPL
      PROVE  doint(s, l) \in Regs
  <2>1. [s EXCEPT !.ipl_pin = l] \in Regs
    BY DEF Regs
  <2>2. QED
    BY <1>1, <1>2, <2>1 DEF doint
<1>4. ASSUME NEW s \in Regs, NEW l \in IPL
      PROVE  checkint(s, l) \in Regs
  BY <1>1, <1>2, <1>3 DEF checkint
<1>5. ASSUME NEW s \in Regs, NEW l \in IPL
      PROVE  MakeFromSR(s, l) \in Regs
  <2>1. [s EXCEPT !.intmask = l] \in Regs
    BY DEF Regs
  <2>2. QED
    BY <1>1, <1>2, <2>1 DEF MakeFromSR
<1>6. StopInstruction(r, level, other) \in Regs
  <2> DEFINE operand == IF r.stopped THEN r.stop_sr ELSE level
             s == MakeFromSR(checkint(r, other), operand)
  <2>1. operand \in IPL
    BY DEF Regs
  <2>2. s \in Regs
    BY <1>4, <1>5, <2>1
  <2>3. StopInstruction(r, level, other) = [s EXCEPT !.stopped = TRUE, !.stop_sr = operand]
    BY DEF StopInstruction
  <2> HIDE DEF operand, s
  <2>4. QED
    BY <2>1, <2>2, <2>3 DEF Regs
<1>7. m68k_resumestopped(r) \in Regs
  <2>1. 0 \in IPL
    BY DEF IPL
  <2>2. QED
    BY <2>1 DEF m68k_resumestopped, Regs
<1>8. ASSUME NEW s \in Regs, NEW l \in IPL
      PROVE  ExceptionEntered(s, l) \in Regs
  BY DEF ExceptionEntered, Regs
<1>9. InterruptEntered(r, level, other) \in Regs
  <2>1. [r EXCEPT !.intmask = level] \in Regs
    BY DEF Regs
  <2>2. QED
    BY <1>3, <1>8, <2>1 DEF InterruptEntered
<1>10. SpecialtiesTail(r, flags) \in Regs
  BY <1>1, <1>2 DEF SpecialtiesTail
<1>11. [r EXCEPT !.lastipl = level] \in Regs /\ [r EXCEPT !.halted = TRUE] \in Regs
  BY DEF Regs
<1>12. QED
  BY <1>1, <1>3, <1>4, <1>5, <1>6, <1>7, <1>8, <1>9, <1>10, <1>11

\* No operator takes a special flag away, but for do_specialties' own.
LEMMA FlagsKept ==
  ASSUME NEW r \in Regs
  PROVE  /\ \A f : set_special(r, f).spcflags = r.spcflags \cup f
         /\ \A f : unset_special(r, f).spcflags = r.spcflags \ f
         /\ \A l \in IPL : r.spcflags \subseteq MakeFromSR(r, l).spcflags
         /\ \A l, k \in IPL : r.spcflags \subseteq StopInstruction(r, l, k).spcflags
         /\ r.spcflags \subseteq m68k_resumestopped(r).spcflags
         /\ \A l \in IPL :
              r.spcflags \subseteq ExceptionEntered(m68k_resumestopped(r), l).spcflags
         /\ \A l, k \in IPL :
              r.spcflags \subseteq InterruptEntered(m68k_resumestopped(r), l, k).spcflags
<1>1. ASSUME NEW s \in Regs
      PROVE  /\ \A f : set_special(s, f).spcflags = s.spcflags \cup f
             /\ \A f : unset_special(s, f).spcflags = s.spcflags \ f
  BY DEF set_special, unset_special, Regs
<1>2. {"INT"} \in SUBSET SpcFlags /\ 0 \in IPL
  BY DEF SpcFlags, IPL
<1>3. ASSUME NEW s \in Regs, NEW l \in IPL
      PROVE  s.spcflags \subseteq doint(s, l).spcflags
  <2> DEFINE p == [s EXCEPT !.ipl_pin = l]
  <2>1. p \in Regs /\ p.spcflags = s.spcflags
    BY DEF Regs
  <2>2. doint(s, l) = set_special(p, {"DOINT"}) \/ doint(s, l) = p
    BY DEF doint
  <2> HIDE DEF p
  <2>3. set_special(p, {"DOINT"}).spcflags = p.spcflags \cup {"DOINT"}
    BY <1>1, <2>1
  <2>4. QED
    BY <2>1, <2>2, <2>3
<1>4. ASSUME NEW s \in Regs, NEW l \in IPL
      PROVE  s.spcflags \subseteq checkint(s, l).spcflags
  <2>1. doint(s, l) \in Regs
    BY <1>2, RegsTypes
  <2>2. QED
    BY <1>1, <1>3, <2>1 DEF checkint
<1>5. ASSUME NEW s \in Regs, NEW l \in IPL
      PROVE  s.spcflags \subseteq MakeFromSR(s, l).spcflags
  <2> DEFINE p == [s EXCEPT !.intmask = l]
  <2>1. p \in Regs /\ p.spcflags = s.spcflags
    BY DEF Regs
  <2>2. MakeFromSR(s, l) = set_special(p, {"INT"}) \/ MakeFromSR(s, l) = p
    BY DEF MakeFromSR
  <2> HIDE DEF p
  <2>3. set_special(p, {"INT"}).spcflags = p.spcflags \cup {"INT"}
    BY <1>1, <2>1
  <2>4. QED
    BY <2>1, <2>2, <2>3
<1>6. ASSUME NEW l \in IPL, NEW k \in IPL
      PROVE  r.spcflags \subseteq StopInstruction(r, l, k).spcflags
  <2> DEFINE operand == IF r.stopped THEN r.stop_sr ELSE l
             s == MakeFromSR(checkint(r, k), operand)
  <2>1. operand \in IPL
    BY DEF Regs
  <2>2. checkint(r, k) \in Regs
    BY <1>2, RegsTypes
  <2>3. s \in Regs /\ r.spcflags \subseteq s.spcflags
    BY <1>2, <1>4, <1>5, <2>1, <2>2, RegsTypes
  <2>4. StopInstruction(r, l, k) = [s EXCEPT !.stopped = TRUE, !.stop_sr = operand]
    BY DEF StopInstruction
  <2> HIDE DEF operand, s
  <2>5. QED
    BY <2>3, <2>4 DEF Regs
<1>7. m68k_resumestopped(r) \in Regs /\ m68k_resumestopped(r).spcflags = r.spcflags
  BY <1>2, RegsTypes DEF m68k_resumestopped, Regs
<1>8. ASSUME NEW s \in Regs, NEW l \in IPL
      PROVE  ExceptionEntered(s, l).spcflags = s.spcflags
  BY DEF ExceptionEntered, Regs
<1>9. ASSUME NEW s \in Regs, NEW l \in IPL, NEW k \in IPL
      PROVE  s.spcflags \subseteq InterruptEntered(s, l, k).spcflags
  <2> DEFINE t == [s EXCEPT !.intmask = l]
  <2>1. t \in Regs /\ t.spcflags = s.spcflags
    BY DEF Regs
  <2> HIDE DEF t
  <2>2. ExceptionEntered(t, k) \in Regs /\ ExceptionEntered(t, k).spcflags = s.spcflags
    BY <1>2, <1>8, <2>1, RegsTypes
  <2>3. QED
    BY <1>3, <2>2 DEF InterruptEntered, t
<1>10. QED
  BY <1>1, <1>5, <1>6, <1>7, <1>8, <1>9

LEMMA TailKeeps ==
  ASSUME NEW r \in Regs, NEW spc
  PROVE  /\ {"INT"} \cap r.spcflags \subseteq SpecialtiesTail(r, spc).spcflags
         /\ "BRK" \notin spc =>
              {"BRK"} \cap r.spcflags \subseteq SpecialtiesTail(r, spc).spcflags
<1>1. {"DOINT"} \in SUBSET SpcFlags /\ {"INT"} \in SUBSET SpcFlags /\ 0 \in IPL
  BY DEF SpcFlags, IPL
<1> DEFINE t == unset_special(r, {"DOINT"})
           moved == IF "DOINT" \in spc THEN set_special(t, {"INT"}) ELSE r
<1>2. t \in Regs /\ t.spcflags = r.spcflags \ {"DOINT"}
  BY <1>1, RegsTypes, FlagsKept
<1> HIDE DEF t
<1>3. moved \in Regs /\ {"INT", "BRK"} \cap r.spcflags \subseteq moved.spcflags
  <2>1. set_special(t, {"INT"}) \in Regs /\ set_special(t, {"INT"}).spcflags = t.spcflags \cup {"INT"}
    BY <1>1, <1>2, RegsTypes, FlagsKept
  <2>2. QED
    BY <1>2, <2>1
<1>4. SpecialtiesTail(r, spc) = IF "BRK" \in spc THEN unset_special(moved, {"BRK"}) ELSE moved
  BY DEF SpecialtiesTail, t
<1> HIDE DEF moved
<1>5. unset_special(moved, {"BRK"}).spcflags = moved.spcflags \ {"BRK"}
  BY <1>3, FlagsKept
<1>6. QED
  BY <1>3, <1>4, <1>5
-----------------------------------------------------------------------------
(***************************************************************************)
(* Calls.  SameCalls: the same calls at the same places, whatever is left  *)
(* of their budgets.  Moved: the innermost one is now at place.  Shorter:  *)
(* the innermost one is gone.                                              *)
(***************************************************************************)
SameAt(f, g) == g.kind = f.kind /\ g.at = f.at /\ g.spc = f.spc

SameCalls(fs, gs) ==
  /\ gs \in Seq(Frames)
  /\ Len(gs) = Len(fs)
  /\ \A i \in 1..Len(fs) : SameAt(fs[i], gs[i])

Moved(fs, gs, place) ==
  /\ gs \in Seq(Frames)
  /\ Len(gs) = Len(fs)
  /\ \A i \in 1..(Len(fs) - 1) : SameAt(fs[i], gs[i])
  /\ gs[Len(fs)].at = place

Shorter(fs, gs) ==
  /\ gs \in Seq(Frames)
  /\ Len(gs) = Len(fs) - 1
  /\ \A i \in 1..(Len(fs) - 1) : SameAt(fs[i], gs[i])

LEMMA FrameFacts ==
  ASSUME NEW fs \in Seq(Frames), fs # <<>>
  PROVE  /\ Len(fs) \in Nat \ {0}
         /\ Len(fs) \in 1..Len(fs)
         /\ \A i \in 1..Len(fs) : fs[i] \in Frames
<1>1. Len(fs) \in Nat \ {0}
  BY EmptySeq
<1>2. QED
  BY <1>1, ElementOfSeq

LEMMA SameIsSame ==
  ASSUME NEW fs \in Seq(Frames)
  PROVE  SameCalls(fs, fs)
BY DEF SameCalls, SameAt

LEMMA ChargedSame ==
  ASSUME NEW fs \in Seq(Frames), NEW c \in Nat
  PROVE  SameCalls(fs, Charged(fs, c))
<1>1. Len(fs) \in Nat /\ \A i \in 1..Len(fs) : fs[i] \in Frames
  BY LenProperties, ElementOfSeq
<1>2. ASSUME NEW i \in 1..Len(fs)
      PROVE  Charged(fs, c)[i] \in Frames /\ SameAt(fs[i], Charged(fs, c)[i])
  <2> DEFINE l == IF fs[i].left > c THEN fs[i].left - c ELSE 0
  <2>1. fs[i] \in Frames
    BY <1>1
  <2>2. l \in Nat
    BY <2>1 DEF Frames
  <2>3. Charged(fs, c)[i] = [fs[i] EXCEPT !.left = l]
    BY DEF Charged
  <2> HIDE DEF l
  <2>4. QED
    BY <2>1, <2>2, <2>3 DEF Frames, SameAt
<1>3. Charged(fs, c) \in [1..Len(fs) -> Frames]
  BY <1>2 DEF Charged
<1>4. Charged(fs, c) \in Seq(Frames) /\ Len(Charged(fs, c)) = Len(fs)
  BY <1>1, <1>3, FunctionIsSeq
<1>5. QED
  BY <1>2, <1>4 DEF SameCalls

LEMMA MoveToMoved ==
  ASSUME NEW fs \in Seq(Frames), fs # <<>>, NEW gs, SameCalls(fs, gs), NEW place \in Places
  PROVE  /\ Moved(fs, MoveTo(gs, place), place)
         /\ MoveTo(gs, place)[Len(fs)].spc = {}
<1>1. Len(fs) \in Nat \ {0} /\ Len(gs) = Len(fs) /\ gs \in Seq(Frames)
  BY FrameFacts DEF SameCalls
<1>2. Len(gs) \in 1..Len(gs) /\ gs[Len(gs)] \in Frames
  BY <1>1, ElementOfSeq
<1> DEFINE e == [gs[Len(gs)] EXCEPT !.at = place, !.spc = {}, !.intr = 0]
<1>3. e \in Frames /\ e.at = place /\ e.spc = {}
  <2>1. 0 \in IPL
    BY DEF IPL
  <2>2. QED
    BY <1>2, <2>1 DEF Frames
<1>4. MoveTo(gs, place) = [gs EXCEPT ![Len(gs)] = e]
  BY DEF MoveTo
<1> HIDE DEF e
<1>5. /\ MoveTo(gs, place) \in Seq(Frames)
      /\ Len(MoveTo(gs, place)) = Len(gs)
      /\ \A j \in 1..Len(gs) : MoveTo(gs, place)[j] = IF j = Len(gs) THEN e ELSE gs[j]
  BY <1>1, <1>2, <1>3, <1>4, ExceptSeq
<1>6. QED
  BY <1>1, <1>3, <1>5 DEF Moved, SameCalls

LEMMA DropShorter ==
  ASSUME NEW fs \in Seq(Frames), fs # <<>>, NEW gs, SameCalls(fs, gs)
  PROVE  Shorter(fs, SubSeq(gs, 1, Len(gs) - 1))
<1>1. Len(fs) \in Nat \ {0} /\ Len(gs) = Len(fs) /\ gs \in Seq(Frames)
  BY FrameFacts DEF SameCalls
<1>2. Len(gs) - 1 \in 0..Len(gs)
  BY <1>1
<1>3. /\ SubSeq(gs, 1, Len(gs) - 1) \in Seq(Frames)
      /\ Len(SubSeq(gs, 1, Len(gs) - 1)) = Len(gs) - 1
      /\ \A i \in 1..(Len(gs) - 1) : SubSeq(gs, 1, Len(gs) - 1)[i] = gs[i]
  BY <1>1, <1>2, PrefixFacts
<1>4. QED
  BY <1>1, <1>3 DEF Shorter, SameCalls
-----------------------------------------------------------------------------
(***************************************************************************)
(* The TRY stack.  Base(fs, i) is the number of blocks below call i's.     *)
(***************************************************************************)
Handles(f) == f.at \in {"busObserver", "doubleFault"}
Handlers(fs) == {j \in 1..Len(fs) : Handles(fs[j])}
Base(fs, i) == (i - 1) + Count(Handlers(fs), i - 1)

TryOK(fs, stack, buf) ==
  /\ Len(stack) = Base(fs, Len(fs) + 1)
  /\ \A i \in 1..Len(fs) :
       /\ stack[Base(fs, i) + 1] = Prb(i)
       /\ Handles(fs[i]) => stack[Base(fs, i) + 2] = Prb2(i)
  /\ stack # <<>> => buf = stack[Len(stack)]

LEMMA BaseFacts ==
  ASSUME NEW fs \in Seq(Frames)
  PROVE  /\ Len(fs) \in Nat
         /\ \A i \in 1..(Len(fs) + 1) : Base(fs, i) \in Nat
         /\ Base(fs, 1) = 0
         /\ \A i \in 1..Len(fs) :
              /\ Base(fs, i + 1) = Base(fs, i) + (IF Handles(fs[i]) THEN 2 ELSE 1)
              /\ Base(fs, i) + (IF Handles(fs[i]) THEN 2 ELSE 1) <= Base(fs, Len(fs) + 1)
         /\ \A i \in 1..Len(fs) - 1 :
              Base(fs, i) + (IF Handles(fs[i]) THEN 2 ELSE 1) <= Base(fs, Len(fs))
<1> DEFINE H == Handlers(fs)
<1>1. Len(fs) \in Nat
  BY LenProperties
<1>2. \A i \in 1..(Len(fs) + 1) : Count(H, i - 1) \in Nat
  <2> TAKE i \in 1..(Len(fs) + 1)
  <2>1. i - 1 \in Int
    BY <1>1
  <2>2. QED
    BY <2>1, CountType
<1>3. \A i \in 1..(Len(fs) + 1) : Base(fs, i) \in Nat
  BY <1>1, <1>2 DEF Base
<1>4. Base(fs, 1) = 0
  BY CountZero DEF Base
<1>5. ASSUME NEW i \in 1..Len(fs)
      PROVE  Base(fs, i + 1) = Base(fs, i) + (IF Handles(fs[i]) THEN 2 ELSE 1)
  <2>1. i \in Nat \ {0} /\ i \in 1..(Len(fs) + 1) /\ i + 1 \in 1..(Len(fs) + 1) /\ i + 1 - 1 = i
    BY <1>1
  <2>2. Count(H, i) = Count(H, i - 1) + (IF i \in H THEN 1 ELSE 0)
    BY <2>1, CountNext
  <2>3. i \in H <=> Handles(fs[i])
    BY DEF Handlers
  <2>4. Count(H, i - 1) \in Nat
    BY <1>2, <2>1
  <2>5. Base(fs, i + 1) = i + Count(H, i) /\ Base(fs, i) = (i - 1) + Count(H, i - 1)
    BY <2>1 DEF Base
  <2>6. QED
    BY <2>1, <2>2, <2>3, <2>4, <2>5
<1>6. ASSUME NEW i \in 1..(Len(fs) + 1), NEW j \in 1..(Len(fs) + 1), i <= j
      PROVE  Base(fs, i) <= Base(fs, j)
  <2>1. i - 1 \in Int /\ j - 1 \in Int /\ i - 1 <= j - 1
    BY <1>1, <1>6
  <2>2. Count(H, i - 1) <= Count(H, j - 1)
    BY <2>1, CountMonotone
  <2>3. Count(H, i - 1) \in Nat /\ Count(H, j - 1) \in Nat
    BY <1>2
  <2>4. QED
    BY <2>1, <2>2, <2>3 DEF Base
<1>7. ASSUME NEW i \in 1..Len(fs)
      PROVE  Base(fs, i) + (IF Handles(fs[i]) THEN 2 ELSE 1) <= Base(fs, Len(fs) + 1)
  <2>1. i + 1 \in 1..(Len(fs) + 1) /\ Len(fs) + 1 \in 1..(Len(fs) + 1) /\ i + 1 <= Len(fs) + 1
    BY <1>1
  <2>2. QED
    BY <1>5, <1>6, <2>1
<1>8. ASSUME NEW i \in 1..(Len(fs) - 1)
      PROVE  Base(fs, i) + (IF Handles(fs[i]) THEN 2 ELSE 1) <= Base(fs, Len(fs))
  <2>1. i \in 1..Len(fs) /\ i + 1 \in 1..(Len(fs) + 1) /\ Len(fs) \in 1..(Len(fs) + 1)
        /\ i + 1 <= Len(fs)
    BY <1>1
  <2>2. QED
    BY <1>5, <1>6, <2>1
<1>9. QED
  BY <1>1, <1>3, <1>4, <1>5, <1>7, <1>8

\* Blocks below call i do not depend on the calls from i on.
LEMMA BaseSame ==
  ASSUME NEW fs \in Seq(Frames), NEW gs \in Seq(Frames), NEW n \in Nat,
         n <= Len(fs), n <= Len(gs),
         \A j \in 1..n : Handles(fs[j]) <=> Handles(gs[j])
  PROVE  \A i \in 1..(n + 1) : Base(gs, i) = Base(fs, i)
<1>1. Len(fs) \in Nat /\ Len(gs) \in Nat
  BY LenProperties
<1> TAKE i \in 1..(n + 1)
<1>2. i - 1 \in Int /\ \A j \in 1..(i - 1) : j \in 1..n /\ j \in 1..Len(fs) /\ j \in 1..Len(gs)
  BY <1>1
<1>3. \A j \in 1..(i - 1) : j \in Handlers(fs) <=> j \in Handlers(gs)
  BY <1>2 DEF Handlers
<1>4. Count(Handlers(fs), i - 1) = Count(Handlers(gs), i - 1)
  BY <1>2, <1>3, CountSame
<1>5. QED
  BY <1>4 DEF Base

LEMMA BlockTypes ==
  ASSUME NEW n \in Nat
  PROVE  Prb(n) \in TryBlocks /\ Prb2(n) \in TryBlocks /\ Prb(n).frame = n /\ Prb2(n).frame = n
         /\ Prb(n).handler = "prb" /\ Prb2(n).handler = "prb2"
BY DEF Prb, Prb2, TryBlocks

\* A THROW lands in the innermost call.
LEMMA TopBlock ==
  ASSUME NEW fs \in Seq(Frames), fs # <<>>, NEW stack \in Seq(TryBlocks), NEW buf,
         TryOK(fs, stack, buf)
  PROVE  /\ stack # <<>>
         /\ buf = IF Handles(fs[Len(fs)]) THEN Prb2(Len(fs)) ELSE Prb(Len(fs))
<1>1. Len(fs) \in Nat \ {0} /\ Len(fs) \in 1..Len(fs)
  BY FrameFacts
<1>2. Len(stack) = Base(fs, Len(fs)) + (IF Handles(fs[Len(fs)]) THEN 2 ELSE 1)
  BY <1>1, BaseFacts DEF TryOK
<1>3. Base(fs, Len(fs)) \in Nat
  <2>1. Len(fs) \in 1..(Len(fs) + 1)
    BY <1>1
  <2>2. QED
    BY <2>1, BaseFacts
<1>4. Len(stack) # 0 /\ stack # <<>>
  BY <1>2, <1>3
<1>5. QED
  BY <1>1, <1>2, <1>4 DEF TryOK

\* The calls move without starting or ending to handle a throw.
LEMMA TrySame ==
  ASSUME NEW fs \in Seq(Frames), NEW gs \in Seq(Frames), Len(gs) = Len(fs),
         \A i \in 1..Len(fs) : Handles(fs[i]) <=> Handles(gs[i]),
         NEW stack, NEW buf, TryOK(fs, stack, buf)
  PROVE  TryOK(gs, stack, buf)
<1>1. Len(fs) \in Nat
  BY LenProperties
<1>2. \A i \in 1..(Len(fs) + 1) : Base(gs, i) = Base(fs, i)
  BY <1>1, BaseSame
<1>3. Len(fs) + 1 \in 1..(Len(fs) + 1) /\ \A i \in 1..Len(fs) : i \in 1..(Len(fs) + 1)
  BY <1>1
<1>4. QED
  BY <1>2, <1>3 DEF TryOK

\* A call opens its TRY block.
LEMMA TryOpen ==
  ASSUME NEW fs \in Seq(Frames), NEW f \in Frames, ~Handles(f),
         NEW stack \in Seq(TryBlocks), NEW buf, TryOK(fs, stack, buf)
  PROVE  LET block == Prb(Len(fs) + 1)
         IN  /\ TryOK(Append(fs, f), Append(stack, block), block)
             /\ Append(stack, block) \in Seq(TryBlocks) /\ block \in TryBlocks
<1> DEFINE n == Len(fs)
           block == Prb(n + 1)
           gs == Append(fs, f)
           new == Append(stack, block)
<1>1. n \in Nat /\ n + 1 \in Nat
  BY LenProperties
<1>2. block \in TryBlocks
  BY <1>1, BlockTypes
<1>3. /\ gs \in Seq(Frames) /\ Len(gs) = n + 1 /\ gs[n + 1] = f
      /\ \A i \in 1..n : gs[i] = fs[i]
  BY AppendProperties
<1> HIDE DEF gs, block
<1>4. /\ new \in Seq(TryBlocks) /\ new # <<>> /\ Len(new) = Len(stack) + 1
      /\ \A i \in 1..Len(stack) : new[i] = stack[i]
      /\ new[Len(stack) + 1] = block
  BY <1>2, AppendProperties
<1> HIDE DEF new
<1>5. \A i \in 1..(n + 1) : Base(gs, i) = Base(fs, i)
  <2>1. n <= Len(fs) /\ n <= Len(gs)
    BY <1>1, <1>3
  <2>2. \A j \in 1..n : Handles(fs[j]) <=> Handles(gs[j])
    BY <1>3
  <2>3. QED
    BY <1>1, <1>3, <2>1, <2>2, BaseSame
<1>6. Base(gs, n + 2) = Base(gs, n + 1) + 1
  <2>1. n + 1 \in 1..Len(gs) /\ n + 1 + 1 = n + 2
    BY <1>1, <1>3
  <2>2. QED
    BY <1>3, <2>1, BaseFacts
<1>7. Len(stack) = Base(fs, n + 1) /\ Len(stack) \in Nat
  BY LenProperties DEF TryOK
<1>8. Len(new) = Base(gs, Len(gs) + 1)
  <2>1. Len(gs) + 1 = n + 2 /\ n + 1 \in 1..(n + 1)
    BY <1>1, <1>3
  <2>2. QED
    BY <1>4, <1>5, <1>6, <1>7, <2>1
<1>9. ASSUME NEW i \in 1..Len(gs)
      PROVE  /\ new[Base(gs, i) + 1] = Prb(i)
             /\ Handles(gs[i]) => new[Base(gs, i) + 2] = Prb2(i)
  <2>1. CASE i \in 1..n
    <3>1. i \in 1..(n + 1) /\ Base(gs, i) = Base(fs, i) /\ Base(fs, i) \in Nat
      BY <1>1, <1>5, <2>1, BaseFacts
    <3>2. Base(fs, i) + (IF Handles(fs[i]) THEN 2 ELSE 1) <= Len(stack)
      BY <1>7, <2>1, BaseFacts
    <3>3. /\ Base(fs, i) + 1 \in 1..Len(stack)
          /\ Handles(fs[i]) => Base(fs, i) + 2 \in 1..Len(stack)
      BY <1>7, <3>1, <3>2
    <3>4. /\ stack[Base(fs, i) + 1] = Prb(i)
          /\ Handles(fs[i]) => stack[Base(fs, i) + 2] = Prb2(i)
      BY <2>1 DEF TryOK
    <3>5. gs[i] = fs[i]
      BY <1>3, <2>1
    <3>6. QED
      BY <1>4, <3>1, <3>3, <3>4, <3>5
  <2>2. CASE i = n + 1
    <3>1. Base(gs, i) = Len(stack) /\ ~Handles(gs[i])
      <4>1. n + 1 \in 1..(n + 1)
        BY <1>1
      <4>2. QED
        BY <1>3, <1>5, <1>7, <2>2, <4>1
    <3>2. QED
      BY <1>4, <2>2, <3>1 DEF block
  <2>3. QED
    BY <1>1, <1>3, <2>1, <2>2
<1>10. TryOK(gs, new, block)
  BY <1>4, <1>8, <1>9 DEF TryOK
<1>11. QED
  BY <1>2, <1>4, <1>10 DEF gs, new, block

\* bus_error opens its own block.
LEMMA TryCatch ==
  ASSUME NEW fs \in Seq(Frames), fs # <<>>, ~Handles(fs[Len(fs)]),
         NEW gs, Moved(fs, gs, "busObserver"),
         NEW stack \in Seq(TryBlocks), NEW buf, TryOK(fs, stack, buf)
  PROVE  LET block == Prb2(Len(fs))
         IN  /\ TryOK(gs, Append(stack, block), block)
             /\ Append(stack, block) \in Seq(TryBlocks) /\ block \in TryBlocks
<1> DEFINE n == Len(fs)
           block == Prb2(n)
           new == Append(stack, block)
<1>1. n \in Nat \ {0} /\ n \in 1..n /\ n - 1 \in Nat
  BY FrameFacts
<1>2. block \in TryBlocks
  BY <1>1, BlockTypes
<1>3. /\ gs \in Seq(Frames) /\ Len(gs) = n /\ Handles(gs[n])
      /\ \A i \in 1..(n - 1) : Handles(fs[i]) <=> Handles(gs[i])
  BY <1>1 DEF Moved, SameAt, Handles
<1> HIDE DEF block
<1>4. /\ new \in Seq(TryBlocks) /\ new # <<>> /\ Len(new) = Len(stack) + 1
      /\ \A i \in 1..Len(stack) : new[i] = stack[i]
      /\ new[Len(stack) + 1] = block
  BY <1>2, AppendProperties
<1> HIDE DEF new
<1>5. \A i \in 1..n : Base(gs, i) = Base(fs, i)
  <2>1. n - 1 <= Len(fs) /\ n - 1 <= Len(gs) /\ n - 1 + 1 = n
    BY <1>1, <1>3
  <2>2. QED
    BY <1>1, <1>3, <2>1, BaseSame
<1>6. /\ Base(gs, n + 1) = Base(gs, n) + 2 /\ Base(fs, n + 1) = Base(fs, n) + 1
      /\ Base(fs, n) \in Nat
  <2>1. n \in 1..(n + 1)
    BY <1>1
  <2>2. QED
    BY <1>1, <1>3, <2>1, BaseFacts
<1>7. Len(stack) = Base(fs, n) + 1
  BY <1>6 DEF TryOK
<1>8. Len(new) = Base(gs, Len(gs) + 1)
  BY <1>1, <1>3, <1>4, <1>5, <1>6, <1>7
<1>9. ASSUME NEW i \in 1..Len(gs)
      PROVE  /\ new[Base(gs, i) + 1] = Prb(i)
             /\ Handles(gs[i]) => new[Base(gs, i) + 2] = Prb2(i)
  <2>1. i \in 1..n /\ i \in 1..(n + 1) /\ Base(gs, i) = Base(fs, i) /\ Base(fs, i) \in Nat
    BY <1>1, <1>3, <1>5, BaseFacts
  <2>2. Base(fs, i) + (IF Handles(fs[i]) THEN 2 ELSE 1) <= Len(stack)
    BY <1>6, <1>7, <2>1, BaseFacts
  <2>3. /\ Base(fs, i) + 1 \in 1..Len(stack)
        /\ Handles(fs[i]) => Base(fs, i) + 2 \in 1..Len(stack)
    BY <1>6, <1>7, <2>1, <2>2
  <2>4. /\ stack[Base(fs, i) + 1] = Prb(i)
        /\ Handles(fs[i]) => stack[Base(fs, i) + 2] = Prb2(i)
    BY <2>1 DEF TryOK
  <2>5. CASE i = n
    <3>1. Base(gs, i) + 2 = Len(stack) + 1
      BY <1>6, <1>7, <2>1, <2>5
    <3>2. QED
      BY <1>4, <2>1, <2>3, <2>4, <2>5, <3>1 DEF block
  <2>6. CASE i # n
    <3>1. i \in 1..(n - 1)
      BY <1>1, <2>1, <2>6
    <3>2. QED
      BY <1>3, <1>4, <2>1, <2>3, <2>4, <3>1
  <2>7. QED
    BY <2>5, <2>6
<1>10. TryOK(gs, new, block)
  BY <1>4, <1>8, <1>9 DEF TryOK
<1>11. QED
  BY <1>2, <1>4, <1>10 DEF new, block

\* __poptry: the calls that remain find their blocks.
LEMMA TryPop ==
  ASSUME NEW fs \in Seq(Frames), NEW gs \in Seq(Frames),
         NEW stack \in Seq(TryBlocks), NEW buf \in TryBlocks, TryOK(fs, stack, buf),
         stack # <<>>,
         Len(stack) - 1 = Base(gs, Len(gs) + 1),
         \A i \in 1..Len(gs) :
           /\ i \in 1..Len(fs)
           /\ Base(gs, i) = Base(fs, i)
           /\ Handles(gs[i]) => Handles(fs[i])
  PROVE  LET popped == Popped(stack, buf)
         IN  /\ TryOK(gs, popped.stack, popped.buf)
             /\ popped.stack \in Seq(TryBlocks) /\ popped.buf \in TryBlocks
<1> DEFINE rest == SubSeq(stack, 1, Len(stack) - 1)
           top == IF rest = <<>> THEN buf ELSE rest[Len(rest)]
<1>1. Len(stack) \in Nat \ {0} /\ Len(stack) - 1 \in 0..Len(stack)
  BY EmptySeq
<1>2. /\ rest \in Seq(TryBlocks) /\ Len(rest) = Len(stack) - 1
      /\ \A p \in 1..(Len(stack) - 1) : rest[p] = stack[p]
  BY <1>1, PrefixFacts
<1>3. Popped(stack, buf).stack = rest /\ Popped(stack, buf).buf = top
  BY DEF Popped
<1> HIDE DEF rest
<1>4. top \in TryBlocks
  <2>1. rest # <<>> => Len(rest) \in 1..Len(rest)
    BY <1>1, <1>2, EmptySeq
  <2>2. rest # <<>> => rest[Len(rest)] \in TryBlocks
    BY <1>2, <2>1, ElementOfSeq
  <2>3. QED
    BY <2>2
<1>5. ASSUME NEW i \in 1..Len(gs)
      PROVE  /\ rest[Base(gs, i) + 1] = Prb(i)
             /\ Handles(gs[i]) => rest[Base(gs, i) + 2] = Prb2(i)
  <2>1. Base(gs, i) \in Nat
    <3>1. i \in 1..(Len(gs) + 1)
      BY BaseFacts
    <3>2. QED
      BY <3>1, BaseFacts
  <2>2. Base(gs, i) + (IF Handles(gs[i]) THEN 2 ELSE 1) <= Len(stack) - 1
    BY BaseFacts
  <2>3. /\ Base(gs, i) + 1 \in 1..(Len(stack) - 1)
        /\ Handles(gs[i]) => Base(gs, i) + 2 \in 1..(Len(stack) - 1)
    BY <1>1, <2>1, <2>2
  <2>4. /\ stack[Base(gs, i) + 1] = Prb(i)
        /\ Handles(gs[i]) => stack[Base(gs, i) + 2] = Prb2(i)
    BY DEF TryOK
  <2>5. QED
    BY <1>2, <2>3, <2>4
<1>6. TryOK(gs, rest, top)
  BY <1>2, <1>5 DEF TryOK
<1>7. QED
  BY <1>2, <1>3, <1>4, <1>6

\* ENDTRY of a call that returns.
LEMMA TryLeave ==
  ASSUME NEW fs \in Seq(Frames), fs # <<>>, ~Handles(fs[Len(fs)]),
         NEW gs, Shorter(fs, gs),
         NEW stack \in Seq(TryBlocks), NEW buf \in TryBlocks, TryOK(fs, stack, buf)
  PROVE  LET popped == Popped(stack, buf)
         IN  /\ TryOK(gs, popped.stack, popped.buf)
             /\ popped.stack \in Seq(TryBlocks) /\ popped.buf \in TryBlocks
<1> DEFINE n == Len(fs)
<1>1. n \in Nat \ {0} /\ n \in 1..n /\ n - 1 \in Nat /\ n \in 1..(n + 1)
  BY FrameFacts
<1>2. /\ gs \in Seq(Frames) /\ Len(gs) = n - 1 /\ Len(gs) + 1 = n
      /\ \A i \in 1..(n - 1) : Handles(fs[i]) <=> Handles(gs[i])
  BY <1>1 DEF Shorter, SameAt, Handles
<1>3. \A i \in 1..n : Base(gs, i) = Base(fs, i)
  <2>1. n - 1 <= Len(fs) /\ n - 1 <= Len(gs) /\ n - 1 + 1 = n
    BY <1>1, <1>2
  <2>2. QED
    BY <1>1, <1>2, <2>1, BaseSame
<1>4. Len(stack) = Base(fs, n) + 1 /\ Base(fs, n) \in Nat
  BY <1>1, BaseFacts DEF TryOK
<1>5. Len(stack) - 1 = Base(gs, Len(gs) + 1)
  BY <1>1, <1>2, <1>3, <1>4
<1>6. stack # <<>>
  BY TopBlock
<1>7. \A i \in 1..Len(gs) :
        i \in 1..Len(fs) /\ Base(gs, i) = Base(fs, i) /\ (Handles(gs[i]) => Handles(fs[i]))
  BY <1>1, <1>2, <1>3
<1>8. QED
  BY <1>2, <1>5, <1>6, <1>7, TryPop

\* ENDTRY of bus_error.
LEMMA TryEndCatch ==
  ASSUME NEW fs \in Seq(Frames), fs # <<>>, Handles(fs[Len(fs)]),
         NEW gs, Moved(fs, gs, "top"),
         NEW stack \in Seq(TryBlocks), NEW buf \in TryBlocks, TryOK(fs, stack, buf)
  PROVE  LET popped == Popped(stack, buf)
         IN  /\ TryOK(gs, popped.stack, popped.buf)
             /\ popped.stack \in Seq(TryBlocks) /\ popped.buf \in TryBlocks
<1> DEFINE n == Len(fs)
<1>1. n \in Nat \ {0} /\ n \in 1..n /\ n - 1 \in Nat /\ n \in 1..(n + 1)
  BY FrameFacts
<1>2. /\ gs \in Seq(Frames) /\ Len(gs) = n /\ ~Handles(gs[n])
      /\ \A i \in 1..(n - 1) : Handles(fs[i]) <=> Handles(gs[i])
  BY <1>1 DEF Moved, SameAt, Handles
<1>3. \A i \in 1..n : Base(gs, i) = Base(fs, i)
  <2>1. n - 1 <= Len(fs) /\ n - 1 <= Len(gs) /\ n - 1 + 1 = n
    BY <1>1, <1>2
  <2>2. \A i \in 1..(n - 1 + 1) : Base(gs, i) = Base(fs, i)
    BY <1>1, <1>2, <2>1, BaseSame
  <2>3. QED
    BY <2>1, <2>2
<1>4. Len(stack) = Base(fs, n) + 2 /\ Base(fs, n) \in Nat
  BY <1>1, BaseFacts DEF TryOK
<1>5. Base(gs, n + 1) = Base(gs, n) + 1
  BY <1>1, <1>2, BaseFacts
<1>6. Len(stack) - 1 = Base(gs, Len(gs) + 1)
  BY <1>1, <1>2, <1>3, <1>4, <1>5
<1>7. stack # <<>>
  BY TopBlock
<1>8. \A i \in 1..Len(gs) :
        i \in 1..Len(fs) /\ Base(gs, i) = Base(fs, i) /\ (Handles(gs[i]) => Handles(fs[i]))
  <2> TAKE i \in 1..Len(gs)
  <2>1. i = n \/ i \in 1..(n - 1)
    BY <1>1, <1>2
  <2>2. QED
    BY <1>1, <1>2, <1>3, <2>1
<1>9. QED
  BY <1>2, <1>6, <1>7, <1>8, TryPop
-----------------------------------------------------------------------------
(***************************************************************************)
(* The inductive invariant, and what each way a step ends does to it.      *)
(***************************************************************************)
CallsInv ==
  /\ frames \in Seq(Frames)
  /\ Depth <= MaxDepth
  /\ g_execute_depth = Depth
  /\ s_try_stack \in Seq(TryBlocks)
  /\ exbuf \in TryBlocks
  /\ TryOK(frames, s_try_stack, exbuf)

RegsInv ==
  /\ regs \in Regs
  /\ lines \in Lines
  /\ ssp_ok \in BOOLEAN
  /\ faulting \in BOOLEAN

Inv == CallsInv /\ RegsInv

calls == <<frames, g_execute_depth, s_try_stack, exbuf>>

LEMMA InnermostFacts ==
  ASSUME CallsInv, Running
  PROVE  /\ frames \in Seq(Frames) /\ frames # <<>>
         /\ Depth \in Nat \ {0}
         /\ Innermost \in Frames /\ Innermost = frames[Len(frames)]
BY FrameFacts DEF CallsInv, Running, Innermost, Depth

\* The innermost call moves, and handles a throw afterwards if it did before.
LEMMA MoveKeeps ==
  ASSUME CallsInv, Running, NEW place, Moved(frames, frames', place),
         Handles(Innermost) <=> place \in {"busObserver", "doubleFault"},
         UNCHANGED <<s_try_stack, exbuf, g_execute_depth>>
  PROVE  CallsInv'
<1>1. /\ frames' \in Seq(Frames) /\ Len(frames') = Len(frames) /\ frames \in Seq(Frames)
      /\ Len(frames) \in Nat \ {0}
  BY InnermostFacts DEF Moved, Depth
<1>2. \A i \in 1..Len(frames) : Handles(frames[i]) <=> Handles(frames'[i])
  <2> TAKE i \in 1..Len(frames)
  <2>1. i = Len(frames) \/ i \in 1..(Len(frames) - 1)
    BY <1>1
  <2>2. QED
    BY <2>1, InnermostFacts DEF Moved, SameAt, Handles
<1>3. TryOK(frames', s_try_stack', exbuf')
  BY <1>1, <1>2, TrySame DEF CallsInv
<1>4. QED
  BY <1>1, <1>3 DEF CallsInv, Depth

LEMMA ReturnKeeps ==
  ASSUME CallsInv, Running, ~Handles(Innermost), NEW fs, SameCalls(frames, fs), Return(fs)
  PROVE  CallsInv' /\ Shorter(frames, frames')
<1>1. /\ frames \in Seq(Frames) /\ frames # <<>> /\ Len(frames) \in Nat \ {0}
      /\ ~Handles(frames[Len(frames)])
  BY InnermostFacts DEF Depth
<1>2. Shorter(frames, frames')
  BY <1>1, DropShorter DEF Return
<1>3. /\ TryOK(frames', s_try_stack', exbuf')
      /\ s_try_stack' \in Seq(TryBlocks) /\ exbuf' \in TryBlocks
  BY <1>1, <1>2, TryLeave DEF Return, CallsInv
<1>4. Depth' = Depth - 1 /\ frames' \in Seq(Frames)
  BY <1>2 DEF Shorter, Depth
<1>5. Depth' <= MaxDepth /\ g_execute_depth' = Depth'
  BY <1>1, <1>4, HostRunAssumption DEF CallsInv, Return, Depth
<1>6. QED
  BY <1>2, <1>3, <1>4, <1>5 DEF CallsInv

LEMMA PlainPlaces ==
  /\ {"top", "ready", "fetch", "caught", "instrHook", "hook", "resetHook", "irqObserver",
      "busObserver", "doubleFault"} \subseteq Places
  /\ "doubleFault" \notin Callbacks
BY DEF Places, Callbacks

LEMMA DoneKeeps ==
  ASSUME CallsInv, Running, ~Handles(Innermost), NEW fs, SameCalls(frames, fs),
         InstructionDone(fs)
  PROVE  CallsInv' /\ (Shorter(frames, frames') \/ Moved(frames, frames', "top"))
<1>1. CASE fs[Len(fs)].kind = "step"
  BY <1>1, ReturnKeeps DEF InstructionDone
<1>2. CASE fs[Len(fs)].kind # "step"
  <2>1. /\ frames' = MoveTo(fs, "top")
        /\ UNCHANGED <<s_try_stack, exbuf, g_execute_depth>>
    BY <1>2 DEF InstructionDone
  <2>2. Moved(frames, frames', "top")
    BY <2>1, InnermostFacts, MoveToMoved, PlainPlaces
  <2>3. QED
    BY <2>1, <2>2, MoveKeeps
<1>3. QED
  BY <1>1, <1>2

LEMMA THROWKeeps ==
  ASSUME CallsInv, Running, THROW(frames)
  PROVE  /\ CallsInv'
         /\ Moved(frames, frames', IF Handles(Innermost) THEN "doubleFault" ELSE "caught")
<1>1. /\ frames \in Seq(Frames) /\ frames # <<>> /\ Len(frames) \in Nat \ {0}
      /\ Innermost = frames[Len(frames)]
  BY InnermostFacts DEF Depth
<1>2. exbuf = IF Handles(Innermost) THEN Prb2(Len(frames)) ELSE Prb(Len(frames))
  BY <1>1, TopBlock DEF CallsInv
<1>3. exbuf.frame = Len(frames) /\ (exbuf.handler = "prb" <=> ~Handles(Innermost))
  BY <1>1, <1>2, BlockTypes
<1>4. SubSeq(frames, 1, exbuf.frame) = frames
  BY <1>1, <1>3, SubSeqFull
<1> DEFINE place == IF Handles(Innermost) THEN "doubleFault" ELSE "caught"
<1>5. frames' = MoveTo(frames, place) /\ UNCHANGED <<s_try_stack, exbuf, g_execute_depth>>
  BY <1>3, <1>4 DEF THROW
<1>6. place \in Places /\ (Handles(Innermost) <=> place \in {"busObserver", "doubleFault"})
  BY PlainPlaces
<1> HIDE DEF place
<1>7. Moved(frames, frames', place)
  BY <1>1, <1>5, <1>6, SameIsSame, MoveToMoved
<1>8. CallsInv'
  BY <1>5, <1>6, <1>7, MoveKeeps
<1>9. QED
  BY <1>7, <1>8 DEF place

LEMMA EndCatchKeeps ==
  ASSUME CallsInv, Running, Handles(Innermost), NEW fs, SameCalls(frames, fs), EndCatch(fs)
  PROVE  CallsInv' /\ (Shorter(frames, frames') \/ Moved(frames, frames', "top"))
<1> DEFINE mid == MoveTo(fs, "top")
           low == SubSeq(fs, 1, Len(fs) - 1)
           inner == Popped(s_try_stack, exbuf)
           outer == Popped(inner.stack, inner.buf)
<1>1. /\ frames \in Seq(Frames) /\ frames # <<>> /\ Len(frames) \in Nat \ {0}
      /\ Handles(frames[Len(frames)])
      /\ s_try_stack \in Seq(TryBlocks) /\ exbuf \in TryBlocks
      /\ TryOK(frames, s_try_stack, exbuf)
  BY InnermostFacts DEF Depth, CallsInv
<1>2. fs \in Seq(Frames) /\ Len(fs) = Len(frames) /\ fs # <<>>
  BY <1>1, EmptySeq DEF SameCalls
<1>3. Moved(frames, mid, "top")
  BY <1>1, MoveToMoved, PlainPlaces
<1>4. Shorter(frames, low)
  BY <1>1, DropShorter
<1>5. Moved(fs, mid, "top")
  BY <1>2, SameIsSame, MoveToMoved, PlainPlaces
<1>6. /\ mid \in Seq(Frames) /\ Len(mid) = Len(frames) /\ mid # <<>>
      /\ ~Handles(mid[Len(mid)])
  BY <1>1, <1>3, EmptySeq DEF Moved, Handles
<1>7. Shorter(mid, low)
  BY <1>1, <1>3, <1>4 DEF Moved, Shorter, SameAt
<1> HIDE DEF mid, low
<1>8. /\ TryOK(mid, inner.stack, inner.buf)
      /\ inner.stack \in Seq(TryBlocks) /\ inner.buf \in TryBlocks
  BY <1>1, <1>3, TryEndCatch
<1> HIDE DEF inner
<1>9. /\ TryOK(low, outer.stack, outer.buf)
      /\ outer.stack \in Seq(TryBlocks) /\ outer.buf \in TryBlocks
  BY <1>6, <1>7, <1>8, TryLeave
<1> HIDE DEF outer
<1>10. low \in Seq(Frames) /\ Len(low) = Len(frames) - 1
  BY <1>4 DEF Shorter
<1>11. CASE fs[Len(fs)].kind = "step"
  <2>1. /\ s_try_stack' = outer.stack /\ exbuf' = outer.buf
        /\ g_execute_depth' = g_execute_depth - 1 /\ frames' = low
    BY <1>11 DEF EndCatch, inner, outer, low
  <2>2. Depth' <= MaxDepth /\ g_execute_depth' = Depth'
    BY <1>1, <1>10, <2>1, HostRunAssumption DEF CallsInv, Depth
  <2>3. QED
    BY <1>4, <1>9, <1>10, <2>1, <2>2 DEF CallsInv
<1>12. CASE fs[Len(fs)].kind # "step"
  <2> DEFINE again == Prb(Len(frames))
  <2>1. /\ s_try_stack' = Append(outer.stack, again) /\ exbuf' = again
        /\ g_execute_depth' = g_execute_depth /\ frames' = mid
    BY <1>2, <1>12 DEF EndCatch, inner, outer, mid
  <2>2. mid[Len(mid)] \in Frames /\ Len(low) + 1 = Len(frames)
    BY <1>1, <1>6, <1>10, FrameFacts
  <2> DEFINE gs == Append(low, mid[Len(mid)])
  <2>3. /\ TryOK(gs, Append(outer.stack, again), again)
        /\ Append(outer.stack, again) \in Seq(TryBlocks) /\ again \in TryBlocks
    BY <1>6, <1>9, <1>10, <2>2, TryOpen
  <2>4. /\ gs \in Seq(Frames) /\ Len(gs) = Len(mid)
        /\ \A i \in 1..Len(gs) : Handles(gs[i]) <=> Handles(mid[i])
    <3>1. /\ gs \in Seq(Frames) /\ Len(gs) = Len(low) + 1
          /\ \A i \in 1..Len(low) : gs[i] = low[i]
          /\ gs[Len(low) + 1] = mid[Len(mid)]
      BY <1>10, <2>2, AppendProperties
    <3> HIDE DEF gs
    <3>2. Len(gs) = Len(mid)
      BY <1>6, <2>2, <3>1
    <3>3. ASSUME NEW i \in 1..Len(gs)
          PROVE  Handles(gs[i]) <=> Handles(mid[i])
      <4>1. i \in 1..Len(low) \/ i = Len(low) + 1
        BY <1>1, <1>10, <3>1
      <4>2. CASE i \in 1..Len(low)
        BY <1>6, <1>7, <1>10, <3>1, <4>2 DEF Shorter, SameAt, Handles
      <4>3. CASE i = Len(low) + 1
        BY <1>6, <2>2, <3>1, <4>3
      <4>4. QED
        BY <4>1, <4>2, <4>3
    <3>4. QED
      BY <3>1, <3>2, <3>3
  <2> HIDE DEF gs
  <2>5. TryOK(mid, Append(outer.stack, again), again)
    BY <1>6, <2>3, <2>4, TrySame
  <2>6. Depth' <= MaxDepth /\ g_execute_depth' = Depth'
    BY <1>6, <2>1 DEF CallsInv, Depth
  <2>7. QED
    BY <1>3, <1>6, <2>1, <2>3, <2>5, <2>6 DEF CallsInv
<1>13. QED
  BY <1>11, <1>12

\* uae_cpu_execute or uae_cpu_step begins.
LEMMA EnterKeeps ==
  ASSUME CallsInv, Depth < MaxDepth, NEW f \in Frames, f.at = "top",
         frames' = Append(frames, f), g_execute_depth' = g_execute_depth + 1,
         TRY(Prb(Depth + 1))
  PROVE  CallsInv'
<1>1. frames \in Seq(Frames) /\ Len(frames) \in Nat /\ ~Handles(f)
  BY LenProperties DEF CallsInv, Handles
<1>2. frames' \in Seq(Frames) /\ Len(frames') = Len(frames) + 1
  BY <1>1, AppendProperties
<1>3. /\ TryOK(frames', s_try_stack', exbuf')
      /\ s_try_stack' \in Seq(TryBlocks) /\ exbuf' \in TryBlocks
  BY <1>1, TryOpen DEF CallsInv, TRY, Depth
<1>4. Depth' <= MaxDepth /\ g_execute_depth' = Depth'
  BY <1>1, <1>2, HostRunAssumption DEF CallsInv, Depth
<1>5. QED
  BY <1>2, <1>3, <1>4 DEF CallsInv

LEMMA CaughtKeeps ==
  ASSUME CallsInv, Running, ~Handles(Innermost), TRY(Prb2(Depth)),
         frames' = MoveTo(frames, "busObserver"), UNCHANGED g_execute_depth
  PROVE  CallsInv' /\ Moved(frames, frames', "busObserver")
<1>1. /\ frames \in Seq(Frames) /\ frames # <<>> /\ ~Handles(frames[Len(frames)])
  BY InnermostFacts
<1>2. Moved(frames, frames', "busObserver")
  BY <1>1, SameIsSame, MoveToMoved, PlainPlaces
<1>3. /\ TryOK(frames', s_try_stack', exbuf')
      /\ s_try_stack' \in Seq(TryBlocks) /\ exbuf' \in TryBlocks
  BY <1>1, <1>2, TryCatch DEF CallsInv, TRY, Depth
<1>4. frames' \in Seq(Frames) /\ Depth' = Depth
  BY <1>2 DEF Moved, Depth
<1>5. QED
  BY <1>2, <1>3, <1>4 DEF CallsInv

LEMMA CallsStutter ==
  ASSUME CallsInv, UNCHANGED calls
  PROVE  CallsInv'
BY DEF CallsInv, calls, Depth

LEMMA SpecialtiesEnd ==
  ASSUME CallsInv, Running, ~Handles(Innermost), NEW fs, SameCalls(frames, fs),
         NEW r, NEW spc, EndSpecialties(r, fs, spc)
  PROVE  /\ CallsInv'
         /\ IF "BRK" \in spc THEN Shorter(frames, frames') ELSE Moved(frames, frames', "ready")
<1>1. CASE "BRK" \in spc
  BY <1>1, ReturnKeeps DEF EndSpecialties
<1>2. CASE "BRK" \notin spc
  <2>1. frames' = MoveTo(fs, "ready") /\ UNCHANGED <<s_try_stack, exbuf, g_execute_depth>>
    BY <1>2 DEF EndSpecialties
  <2>2. Moved(frames, frames', "ready")
    BY <2>1, InnermostFacts, MoveToMoved, PlainPlaces
  <2>3. QED
    BY <1>2, <2>1, <2>2, MoveKeeps
<1>3. QED
  BY <1>1, <1>2
-----------------------------------------------------------------------------
(***************************************************************************)
(* Each action keeps the invariant; the lemmas also say where the          *)
(* innermost call goes.                                                    *)
(***************************************************************************)
LEMMA SpecialFlags ==
  /\ {"INT"} \in SUBSET SpcFlags /\ {"BRK"} \in SUBSET SpcFlags
  /\ {"INT", "DOINT"} \in SUBSET SpcFlags
  /\ 0 \in IPL /\ 7 \in IPL
BY DEF SpcFlags, IPL

LEMMA ExecuteKeeps ==
  ASSUME Inv, NEW c \in Budgets, Execute(c)
  PROVE  Inv'
<1> DEFINE f == [kind |-> "run", left |-> c, at |-> "top", spc |-> {}, intr |-> 0]
<1>1. f \in Frames /\ f.at = "top"
  BY HostRunAssumption, SpecialFlags, PlainPlaces DEF Frames
<1>2. /\ Depth < MaxDepth /\ frames' = Append(frames, f)
      /\ g_execute_depth' = g_execute_depth + 1 /\ TRY(Prb(Depth + 1))
  BY DEF Execute
<1> HIDE DEF f
<1>3. CallsInv'
  BY <1>1, <1>2, EnterKeeps DEF Inv
<1>4. set_special(regs, {"INT"}) \in Regs
  BY RegsTypes, SpecialFlags DEF Inv, RegsInv
<1>5. RegsInv'
  BY <1>4 DEF Execute, Inv, RegsInv
<1>6. QED
  BY <1>3, <1>5 DEF Inv

LEMMA StepKeeps ==
  ASSUME Inv, Step
  PROVE  Inv'
<1> DEFINE f == [kind |-> "step", left |-> 0, at |-> "top", spc |-> {}, intr |-> 0]
<1>1. f \in Frames /\ f.at = "top"
  BY SpecialFlags, PlainPlaces DEF Frames
<1>2. /\ Depth < MaxDepth /\ frames' = Append(frames, f)
      /\ g_execute_depth' = g_execute_depth + 1 /\ TRY(Prb(Depth + 1))
  BY DEF Step
<1> HIDE DEF f
<1>3. CallsInv'
  BY <1>1, <1>2, EnterKeeps DEF Inv
<1>4. RegsInv'
  BY DEF Step, Inv, RegsInv
<1>5. QED
  BY <1>3, <1>4 DEF Inv

LEMMA SetIrqKeeps ==
  ASSUME Inv, NEW level \in IPL, SetIrq(level) \/ DeviceLevel(level)
  PROVE  Inv'
<1>1. CallsInv'
  BY CallsStutter DEF SetIrq, DeviceLevel, Inv, calls
<1>2. [lines EXCEPT !.pending_irq_level = level] \in Lines /\ [lines EXCEPT !.get_irq = level] \in Lines
  BY DEF Inv, RegsInv, Lines
<1>3. set_special(regs, {"INT"}) \in Regs
  BY RegsTypes, SpecialFlags DEF Inv, RegsInv
<1>4. RegsInv'
  BY <1>2, <1>3 DEF SetIrq, DeviceLevel, Inv, RegsInv
<1>5. QED
  BY <1>1, <1>4 DEF Inv

LEMMA SetVirqKeeps ==
  ASSUME Inv, NEW level \in Virqs, NEW active \in BOOLEAN, SetVirq(level, active)
  PROVE  Inv'
<1> DEFINE bits == IF active THEN lines.pendingInterrupts \cup {level}
                   ELSE lines.pendingInterrupts \ {level}
<1>1. bits \in SUBSET IPL
  BY HostRunAssumption DEF Inv, RegsInv, Lines
<1>2. CallsInv'
  BY CallsStutter DEF SetVirq, Inv, calls
<1>3. lines' = [lines EXCEPT !.pendingInterrupts = bits]
  BY DEF SetVirq
<1>4. set_special(regs, {"INT"}) \in Regs
  BY RegsTypes, SpecialFlags DEF Inv, RegsInv
<1>5. regs' \in Regs /\ UNCHANGED <<ssp_ok, faulting>>
  BY <1>4 DEF SetVirq, Inv, RegsInv
<1> HIDE DEF bits
<1>6. lines' \in Lines
  BY <1>1, <1>3 DEF Inv, RegsInv, Lines
<1>7. QED
  BY <1>2, <1>5, <1>6 DEF Inv, RegsInv

LEMMA HostRegsKeep ==
  ASSUME Inv, NEW r \in Regs, HostSetsRegs(r)
  PROVE  Inv'
<1>1. CallsInv'
  BY CallsStutter DEF HostSetsRegs, Inv, calls
<1>2. RegsInv'
  BY DEF HostSetsRegs, Inv, RegsInv
<1>3. QED
  BY <1>1, <1>2 DEF Inv

LEMMA ResetType == ResetRegs \in Regs
BY SpecialFlags DEF ResetRegs, Regs

LEMMA OtherHostKeeps ==
  ASSUME Inv, SetPC \/ Reset
  PROVE  Inv'
<1>1. CallsInv'
  BY CallsStutter DEF SetPC, Reset, Inv, calls
<1>2. ssp_ok' \in BOOLEAN
  BY HostRunAssumption DEF SetPC, Reset, Inv, RegsInv
<1>3. RegsInv'
  BY <1>2, ResetType DEF SetPC, Reset, Inv, RegsInv
<1>4. QED
  BY <1>1, <1>3 DEF Inv

LEMMA RaiseKeeps ==
  ASSUME Inv, RaiseBusError
  PROVE  /\ Inv'
         /\ Moved(frames, frames', IF Handles(Innermost) THEN "doubleFault" ELSE "caught")
<1>1. Running /\ CallsInv /\ THROW(frames)
  BY DEF RaiseBusError, Inv
<1>2. RegsInv'
  BY DEF RaiseBusError, Inv, RegsInv
<1>3. QED
  BY <1>1, <1>2, THROWKeeps DEF Inv

LEMMA HostStepKeeps ==
  ASSUME Inv, HostStep
  PROVE  Inv'
<1>1. regs \in Regs
  BY DEF Inv, RegsInv
<1>2. ASSUME NEW c \in Budgets, Execute(c) PROVE Inv'
  BY <1>2, ExecuteKeeps
<1>3. CASE Step
  BY <1>3, StepKeeps
<1>4. ASSUME NEW l \in Levels, SetIrq(l) \/ DeviceLevel(l) PROVE Inv'
  BY <1>4, SetIrqKeeps, HostRunAssumption
<1>5. ASSUME NEW l \in Virqs, NEW active \in BOOLEAN, SetVirq(l, active) PROVE Inv'
  BY <1>5, SetVirqKeeps
<1>6. CASE SignalIrq
  BY <1>1, <1>6, HostRegsKeep, RegsTypes, SpecialFlags DEF SignalIrq
<1>7. CASE EndTimeslice
  BY <1>1, <1>7, HostRegsKeep, RegsTypes, SpecialFlags DEF EndTimeslice
<1>8. CASE PulseHalt
  BY <1>1, <1>8, HostRegsKeep, RegsTypes, SpecialFlags DEF PulseHalt
<1>9. ASSUME NEW mask \in Masks, SetSR(mask) PROVE Inv'
  <2>1. mask \in IPL
    BY HostRunAssumption
  <2>2. MakeFromSR(regs, mask) \in Regs
    BY <1>1, <2>1, RegsTypes, SpecialFlags
  <2>3. QED
    BY <1>9, <2>2, HostRegsKeep DEF SetSR
<1>10. CASE SetPC \/ Reset
  BY <1>10, OtherHostKeeps
<1>11. CASE RaiseBusError
  BY <1>11, RaiseKeeps
<1>12. QED
  BY <1>2, <1>3, <1>4, <1>5, <1>6, <1>7, <1>8, <1>9, <1>10, <1>11 DEF HostStep

\* Before an instruction the innermost call is not handling a throw.
LEMMA ReadyFacts ==
  ASSUME Ready
  PROVE  Running /\ Innermost.at \in {"top", "ready", "fetch"} /\ ~Handles(Innermost)
BY DEF Ready, Unattended, At, Handles

LEMMA InstructionKeeps ==
  ASSUME Inv, NEW r \in Regs, NEW c \in Nat, Instruction(r, c)
  PROVE  Inv' /\ (Shorter(frames, frames') \/ Moved(frames, frames', "top"))
<1>1. Running /\ ~Handles(Innermost)
  BY ReadyFacts DEF Instruction
<1>2. SameCalls(frames, Charged(frames, c))
  BY ChargedSame DEF Inv, CallsInv
<1>3. CallsInv' /\ (Shorter(frames, frames') \/ Moved(frames, frames', "top"))
  BY <1>1, <1>2, DoneKeeps DEF Inv, Instruction
<1>4. RegsInv'
  BY DEF Instruction, Inv, RegsInv
<1>5. QED
  BY <1>3, <1>4 DEF Inv

\* An instruction starts.
LEMMA GuestStepKeeps ==
  ASSUME Inv, GuestStep
  PROVE  /\ Inv' /\ Ready
         /\ \/ Shorter(frames, frames')
            \/ \E place \in {"top", "hook", "resetHook", "caught"} : Moved(frames, frames', place)
<1>1. regs \in Regs /\ lines \in Lines /\ intlev(lines) \in IPL
  BY IntlevType DEF Inv, RegsInv
<1>2. Ready
  BY DEF GuestStep, PlainInstruction, LoadSR, Stop, Instruction, HookedInstruction,
         ResetInstruction, FaultingInstruction
<1>3. Running /\ ~Handles(Innermost)
  BY <1>2, ReadyFacts
<1> DEFINE Done == Inv' /\ (Shorter(frames, frames') \/ Moved(frames, frames', "top"))
           Gone(place) == Inv' /\ Moved(frames, frames', place)
<1>4. ASSUME NEW c \in {1, 2}, PlainInstruction(c) PROVE Done
  BY <1>1, <1>4, InstructionKeeps DEF PlainInstruction
<1>5. ASSUME NEW mask \in Masks, LoadSR(mask) \/ Stop(mask) PROVE Done
  <2>1. mask \in IPL
    BY HostRunAssumption
  <2>2. MakeFromSR(regs, mask) \in Regs /\ StopInstruction(regs, mask, intlev(lines)) \in Regs
    BY <1>1, <2>1, RegsTypes, SpecialFlags
  <2>3. QED
    BY <1>5, <2>2, InstructionKeeps DEF LoadSR, Stop
<1>6. ASSUME NEW place \in {"hook", "resetHook"}, frames' = MoveTo(frames, place),
             UNCHANGED <<regs, g_execute_depth, s_try_stack, exbuf, ssp_ok, faulting>>,
             lines' \in Lines
      PROVE  Gone(place)
  <2>1. place \in Places
    BY PlainPlaces
  <2>2. Moved(frames, frames', place)
    BY <1>3, <1>6, <2>1, InnermostFacts, SameIsSame, MoveToMoved DEF Inv
  <2>3. CallsInv'
    BY <1>3, <1>6, <2>2, MoveKeeps DEF Inv
  <2>4. RegsInv'
    BY <1>6 DEF Inv, RegsInv
  <2>5. QED
    BY <2>2, <2>3, <2>4 DEF Inv
<1>7. CASE HookedInstruction
  <2>1. /\ frames' = MoveTo(frames, "hook") /\ lines' = lines
        /\ UNCHANGED <<regs, g_execute_depth, s_try_stack, exbuf, ssp_ok, faulting>>
    BY <1>7 DEF HookedInstruction
  <2>2. Gone("hook")
    BY <1>1, <1>6, <2>1
  <2>3. QED
    BY <1>2, <2>2
<1>8. CASE ResetInstruction
  <2>1. /\ frames' = MoveTo(frames, "resetHook")
        /\ lines' = [lines EXCEPT !.pendingInterrupts = {}]
        /\ UNCHANGED <<regs, g_execute_depth, s_try_stack, exbuf, ssp_ok, faulting>>
    BY <1>8 DEF ResetInstruction
  <2>2. lines' \in Lines
    BY <1>1, <2>1 DEF Lines
  <2>3. Gone("resetHook")
    BY <1>6, <2>1, <2>2
  <2>4. QED
    BY <1>2, <2>3
<1>9. CASE FaultingInstruction
  <2>1. CallsInv' /\ Moved(frames, frames', "caught")
    BY <1>3, <1>9, THROWKeeps DEF FaultingInstruction, Inv
  <2>2. RegsInv'
    BY <1>9 DEF FaultingInstruction, Inv, RegsInv
  <2>3. QED
    BY <1>2, <2>1, <2>2 DEF Inv
<1>10. QED
  BY <1>2, <1>4, <1>5, <1>7, <1>8, <1>9 DEF GuestStep

LEMMA LeaveLoopKeeps ==
  ASSUME Inv, LeaveLoop
  PROVE  Inv' /\ Shorter(frames, frames')
<1>1. Running /\ ~Handles(Innermost)
  BY DEF LeaveLoop, At, Handles
<1>2. SameCalls(frames, frames)
  BY SameIsSame DEF Inv, CallsInv
<1>3. CallsInv' /\ Shorter(frames, frames')
  BY <1>1, <1>2, ReturnKeeps DEF LeaveLoop, Inv
<1>4. RegsInv'
  BY DEF LeaveLoop, Inv, RegsInv
<1>5. QED
  BY <1>3, <1>4 DEF Inv

\* do_specialties is entered: the call returns for BRK, is ready, or is in the
\* exception observer with the flags it read.
LEMMA SpecialtiesKeeps ==
  ASSUME Inv, Specialties
  PROVE  /\ Inv'
         /\ \/ "BRK" \in regs.spcflags /\ Shorter(frames, frames')
            \/ "BRK" \notin regs.spcflags /\ Moved(frames, frames', "ready")
            \/ /\ Moved(frames, frames', "irqObserver")
               /\ frames'[Depth].spc = regs.spcflags
               /\ regs' = unset_special(regs, {"INT", "DOINT"})
<1> DEFINE spc == regs.spcflags
           intr == intlev(lines)
           taken == unset_special(regs, {"INT", "DOINT"})
<1>1. /\ regs \in Regs /\ lines \in Lines /\ spc \in SUBSET SpcFlags
      /\ CallsInv /\ Running /\ ~Handles(Innermost)
  BY DEF Inv, RegsInv, Regs, Specialties, At, Handles
<1>2. intr \in IPL
  BY <1>1, IntlevType
<1>3. taken \in Regs
  BY <1>1, RegsTypes, SpecialFlags
<1>4. [taken EXCEPT !.lastipl = intr] \in Regs
  BY <1>2, <1>3, RegsTypes, SpecialFlags
<1>5. UNCHANGED <<lines, ssp_ok, faulting>>
  BY DEF Specialties
<1> HIDE DEF intr, taken
<1>6. SameCalls(frames, frames)
  BY SameIsSame DEF Inv, CallsInv
<1>7. ASSUME NEW r \in Regs, EndSpecialties(r, frames, spc)
      PROVE  /\ Inv'
             /\ \/ "BRK" \in spc /\ Shorter(frames, frames')
                \/ "BRK" \notin spc /\ Moved(frames, frames', "ready")
  <2>1. /\ CallsInv'
        /\ IF "BRK" \in spc THEN Shorter(frames, frames') ELSE Moved(frames, frames', "ready")
    BY <1>1, <1>6, <1>7, SpecialtiesEnd
  <2>2. regs' \in Regs
    BY <1>1, <1>7, RegsTypes, SpecialFlags DEF EndSpecialties
  <2>3. RegsInv'
    BY <1>5, <2>2 DEF Inv, RegsInv
  <2>4. QED
    BY <2>1, <2>3 DEF Inv
<1>8. CASE /\ regs' = taken
           /\ frames' = [frames EXCEPT ![Depth] =
                            [@ EXCEPT !.at = "irqObserver", !.spc = spc, !.intr = intr]]
           /\ UNCHANGED <<s_try_stack, exbuf, g_execute_depth>>
  <2> DEFINE e == [frames[Depth] EXCEPT !.at = "irqObserver", !.spc = spc, !.intr = intr]
  <2>1. /\ frames \in Seq(Frames) /\ Depth \in Nat \ {0} /\ Depth = Len(frames)
        /\ frames[Depth] \in Frames
    BY <1>1, InnermostFacts DEF Depth
  <2>2. e \in Frames /\ e.at = "irqObserver" /\ e.spc = spc
    BY <1>1, <1>2, <2>1, PlainPlaces DEF Frames
  <2>3. frames' = [frames EXCEPT ![Depth] = e]
    BY <1>8
  <2> HIDE DEF e
  <2>4. /\ frames' \in Seq(Frames) /\ Len(frames') = Len(frames)
        /\ \A j \in 1..Len(frames) : frames'[j] = IF j = Depth THEN e ELSE frames[j]
    <3>1. Depth \in 1..Len(frames)
      BY <2>1
    <3>2. QED
      BY <2>1, <2>2, <2>3, <3>1, ExceptSeq
  <2>5. Moved(frames, frames', "irqObserver") /\ frames'[Depth].spc = spc
    BY <2>1, <2>2, <2>4 DEF Moved, SameAt
  <2>6. CallsInv'
    BY <1>1, <1>8, <2>5, MoveKeeps
  <2>7. RegsInv'
    BY <1>3, <1>5, <1>8 DEF Inv, RegsInv
  <2>8. QED
    BY <1>8, <2>5, <2>6, <2>7 DEF Inv, taken
<1>9. QED
  BY <1>1, <1>4, <1>7, <1>8 DEF Specialties, intr, taken

\* The exception observer of an interrupt returned.
LEMMA TakeInterruptKeeps ==
  ASSUME Inv, TakeInterrupt
  PROVE  /\ Inv'
         /\ {"INT"} \cap regs.spcflags \subseteq regs'.spcflags
         /\ \/ "BRK" \in Innermost.spc /\ Shorter(frames, frames')
            \/ /\ "BRK" \notin Innermost.spc /\ Moved(frames, frames', "ready")
               /\ {"BRK"} \cap regs.spcflags \subseteq regs'.spcflags
            \/ /\ Moved(frames, frames', "caught")
               /\ {"BRK"} \cap regs.spcflags \subseteq regs'.spcflags
<1> DEFINE awake == m68k_resumestopped(regs)
           intr  == Innermost.intr
           inside == InterruptEntered(awake, intr, intlev(lines))
<1>1. /\ regs \in Regs /\ lines \in Lines /\ intlev(lines) \in IPL
      /\ CallsInv /\ Running /\ ~Handles(Innermost)
  BY IntlevType DEF Inv, RegsInv, TakeInterrupt, At, Handles
<1>2. awake \in Regs
  BY <1>1, RegsTypes, SpecialFlags
<1>3. Innermost.intr \in IPL /\ Innermost.spc \in SUBSET SpcFlags
  BY <1>1, InnermostFacts DEF Frames
<1>4. inside \in Regs
  BY <1>1, <1>2, <1>3, RegsTypes, SpecialFlags
<1>5. [inside EXCEPT !.lastipl = intr] \in Regs
  BY <1>3, <1>4, RegsTypes, SpecialFlags
<1>6. UNCHANGED <<lines, ssp_ok>> /\ SameCalls(frames, Charged(frames, ExcCycles))
  BY ChargedSame, HostRunAssumption DEF TakeInterrupt, Inv, CallsInv
<1>7. CASE ssp_ok
  <2>1. /\ EndSpecialties([inside EXCEPT !.lastipl = intr], Charged(frames, ExcCycles), Innermost.spc)
        /\ faulting' = FALSE
    BY <1>7 DEF TakeInterrupt
  <2> HIDE DEF inside, intr
  <2>2. /\ CallsInv'
        /\ IF "BRK" \in Innermost.spc THEN Shorter(frames, frames')
           ELSE Moved(frames, frames', "ready")
    BY <1>1, <1>6, <2>1, SpecialtiesEnd
  <2>3. regs' \in Regs
    BY <1>3, <1>5, <2>1, RegsTypes, SpecialFlags DEF EndSpecialties
  <2>4. RegsInv'
    BY <1>6, <2>1, <2>3 DEF Inv, RegsInv
  <2>5. regs.spcflags \subseteq [inside EXCEPT !.lastipl = intr].spcflags
    <3>1. regs.spcflags \subseteq inside.spcflags
      BY <1>1, <1>2, <1>3, FlagsKept DEF inside, intr
    <3>2. QED
      BY <1>4, <3>1 DEF Regs
  <2>6. /\ {"INT"} \cap regs.spcflags \subseteq regs'.spcflags
        /\ "BRK" \notin Innermost.spc => {"BRK"} \cap regs.spcflags \subseteq regs'.spcflags
    BY <1>5, <2>1, <2>5, TailKeeps DEF EndSpecialties
  <2>7. QED
    BY <2>2, <2>4, <2>6 DEF Inv
<1>8. CASE ~ssp_ok
  <2>1. regs' = awake /\ THROW(frames) /\ faulting' = faulting
    BY <1>8 DEF TakeInterrupt
  <2>2. CallsInv' /\ Moved(frames, frames', "caught")
    BY <1>1, <2>1, THROWKeeps
  <2>3. RegsInv'
    BY <1>2, <1>6, <2>1 DEF Inv, RegsInv
  <2>4. regs.spcflags \subseteq regs'.spcflags
    BY <1>1, <2>1, FlagsKept
  <2>5. QED
    BY <2>2, <2>3, <2>4 DEF Inv
<1>9. QED
  BY <1>7, <1>8

\* g_instr_hook is called, and returns.
LEMMA InstrHookKeeps ==
  ASSUME Inv, InstrHook \/ InstrHookReturns
  PROVE  /\ Inv'
         /\ Moved(frames, frames', IF InstrHook THEN "instrHook" ELSE "fetch")
<1> DEFINE place == IF InstrHook THEN "instrHook" ELSE "fetch"
<1>1. CallsInv /\ Running /\ ~Handles(Innermost)
  BY DEF Inv, InstrHook, InstrHookReturns, Unattended, At, Handles
<1>2. /\ frames' = MoveTo(frames, place)
      /\ UNCHANGED <<regs, lines, g_execute_depth, s_try_stack, exbuf, ssp_ok, faulting>>
  BY DEF InstrHook, InstrHookReturns
<1>3. place \in Places /\ place \notin {"busObserver", "doubleFault"}
  BY PlainPlaces
<1> HIDE DEF place
<1>4. Moved(frames, frames', place)
  BY <1>1, <1>2, <1>3, InnermostFacts, SameIsSame, MoveToMoved
<1>5. CallsInv'
  BY <1>1, <1>2, <1>3, <1>4, MoveKeeps
<1>6. RegsInv'
  BY <1>2 DEF Inv, RegsInv
<1>7. QED
  BY <1>4, <1>5, <1>6 DEF Inv, place

LEMMA HookReturnsKeeps ==
  ASSUME Inv, HookReturns
  PROVE  Inv' /\ (Shorter(frames, frames') \/ Moved(frames, frames', "top"))
<1>1. CallsInv /\ Running /\ ~Handles(Innermost)
  BY DEF Inv, HookReturns, At, Handles
<1>2. PICK cycles \in {0, 1} : InstructionDone(Charged(frames, cycles))
  BY DEF HookReturns
<1>3. CallsInv' /\ (Shorter(frames, frames') \/ Moved(frames, frames', "top"))
  <2>1. SameCalls(frames, Charged(frames, cycles))
    BY ChargedSame DEF Inv, CallsInv
  <2>2. QED
    BY <1>1, <1>2, <2>1, DoneKeeps
<1>4. RegsInv'
  BY DEF HookReturns, Inv, RegsInv
<1>5. QED
  BY <1>3, <1>4 DEF Inv

LEMMA HookDeclinesKeeps ==
  ASSUME Inv, HookDeclines
  PROVE  /\ Inv'
         /\ \/ Shorter(frames, frames')
            \/ \E place \in {"top", "caught"} : Moved(frames, frames', place)
<1> DEFINE awake == m68k_resumestopped(regs)
<1>1. /\ regs \in Regs /\ lines \in Lines /\ intlev(lines) \in IPL
      /\ CallsInv /\ Running /\ ~Handles(Innermost)
  BY IntlevType DEF Inv, RegsInv, HookDeclines, At, Handles
<1>2. awake \in Regs
  BY <1>1, RegsTypes, SpecialFlags
<1>3. ExceptionEntered(awake, intlev(lines)) \in Regs
  BY <1>1, <1>2, RegsTypes, SpecialFlags
<1>4. UNCHANGED <<lines, ssp_ok, faulting>>
  BY DEF HookDeclines
<1>5. CASE ssp_ok
  <2>1. /\ regs' = ExceptionEntered(awake, intlev(lines))
        /\ InstructionDone(Charged(frames, 1 + ExcCycles))
    BY <1>5 DEF HookDeclines
  <2>2. 1 + ExcCycles \in Nat
    BY HostRunAssumption
  <2>3. SameCalls(frames, Charged(frames, 1 + ExcCycles))
    BY <2>2, ChargedSame DEF Inv, CallsInv
  <2>4. CallsInv' /\ (Shorter(frames, frames') \/ Moved(frames, frames', "top"))
    BY <1>1, <2>1, <2>3, DoneKeeps
  <2>5. RegsInv'
    BY <1>3, <1>4, <2>1 DEF Inv, RegsInv
  <2>6. QED
    BY <2>4, <2>5 DEF Inv
<1>6. CASE ~ssp_ok
  <2>1. regs' = awake /\ THROW(frames)
    BY <1>6 DEF HookDeclines
  <2>2. CallsInv' /\ Moved(frames, frames', "caught")
    BY <1>1, <2>1, THROWKeeps
  <2>3. RegsInv'
    BY <1>2, <1>4, <2>1 DEF Inv, RegsInv
  <2>4. QED
    BY <2>2, <2>3 DEF Inv
<1>7. QED
  BY <1>5, <1>6

LEMMA BusErrorCaughtKeeps ==
  ASSUME Inv, BusErrorCaught
  PROVE  Inv' /\ Moved(frames, frames', "busObserver")
<1>1. CallsInv /\ Running /\ ~Handles(Innermost)
  BY DEF Inv, BusErrorCaught, At, Handles
<1>2. CallsInv' /\ Moved(frames, frames', "busObserver")
  BY <1>1, CaughtKeeps DEF BusErrorCaught
<1>3. RegsInv'
  BY DEF BusErrorCaught, Inv, RegsInv
<1>4. QED
  BY <1>2, <1>3 DEF Inv

LEMMA TakeBusErrorKeeps ==
  ASSUME Inv, TakeBusError
  PROVE  /\ Inv'
         /\ \/ Shorter(frames, frames')
            \/ \E place \in {"top", "doubleFault"} : Moved(frames, frames', place)
<1> DEFINE awake == m68k_resumestopped(regs)
<1>1. /\ regs \in Regs /\ lines \in Lines /\ intlev(lines) \in IPL
      /\ CallsInv /\ Running /\ Handles(Innermost)
  BY IntlevType DEF Inv, RegsInv, TakeBusError, At, Handles
<1>2. awake \in Regs
  BY <1>1, RegsTypes, SpecialFlags
<1>3. ExceptionEntered(awake, intlev(lines)) \in Regs
  BY <1>1, <1>2, RegsTypes, SpecialFlags
<1>4. UNCHANGED <<lines, ssp_ok>> /\ SameCalls(frames, Charged(frames, ExcCycles))
  BY ChargedSame, HostRunAssumption DEF TakeBusError, Inv, CallsInv
<1>5. CASE ssp_ok
  <2>1. /\ regs' = ExceptionEntered(awake, intlev(lines))
        /\ EndCatch(Charged(frames, ExcCycles)) /\ faulting' = FALSE
    BY <1>5 DEF TakeBusError
  <2>2. CallsInv' /\ (Shorter(frames, frames') \/ Moved(frames, frames', "top"))
    BY <1>1, <1>4, <2>1, EndCatchKeeps
  <2>3. RegsInv'
    BY <1>3, <1>4, <2>1 DEF Inv, RegsInv
  <2>4. QED
    BY <2>2, <2>3 DEF Inv
<1>6. CASE ~ssp_ok
  <2>1. regs' = awake /\ THROW(frames) /\ faulting' = faulting
    BY <1>6 DEF TakeBusError
  <2>2. CallsInv' /\ Moved(frames, frames', "doubleFault")
    BY <1>1, <2>1, THROWKeeps
  <2>3. RegsInv'
    BY <1>2, <1>4, <2>1 DEF Inv, RegsInv
  <2>4. QED
    BY <2>2, <2>3 DEF Inv
<1>7. QED
  BY <1>5, <1>6

LEMMA DoubleFaultKeeps ==
  ASSUME Inv, DoubleFault
  PROVE  Inv' /\ (Shorter(frames, frames') \/ Moved(frames, frames', "top"))
<1>1. CallsInv /\ Running /\ Handles(Innermost)
  BY DEF Inv, DoubleFault, At, Handles
<1>2. SameCalls(frames, frames)
  BY SameIsSame DEF Inv, CallsInv
<1>3. CallsInv' /\ (Shorter(frames, frames') \/ Moved(frames, frames', "top"))
  BY <1>1, <1>2, EndCatchKeeps DEF DoubleFault
<1>4. RegsInv'
  BY DEF DoubleFault, Inv, RegsInv
<1>5. QED
  BY <1>3, <1>4 DEF Inv
-----------------------------------------------------------------------------
LEMMA InitInv ==
  ASSUME Init
  PROVE  Inv
<1>1. frames = <<>> /\ Len(frames) = 0 /\ s_try_stack = <<>> /\ Len(s_try_stack) = 0
  BY DEF Init
<1>2. frames \in Seq(Frames) /\ s_try_stack \in Seq(TryBlocks)
  BY <1>1
<1>3. TryOK(frames, s_try_stack, exbuf)
  <2>1. Base(frames, 1) = 0
    BY <1>2, BaseFacts
  <2>2. QED
    BY <1>1, <2>1 DEF TryOK
<1>4. exbuf \in TryBlocks
  BY BlockTypes DEF Init
<1>5. Depth = 0 /\ Depth <= MaxDepth /\ g_execute_depth = Depth
  BY <1>1, HostRunAssumption DEF Depth, Init
<1>6. CallsInv
  BY <1>2, <1>3, <1>4, <1>5 DEF CallsInv
<1>7. lines \in Lines
  <2>1. PICK hooked \in GetIrq :
          lines = [hooked |-> hooked, get_irq |-> 0, pending_irq_level |-> 0,
                   pendingInterrupts |-> {}]
    BY DEF Init
  <2>2. hooked \in BOOLEAN
    BY HostRunAssumption
  <2>3. QED
    BY <2>1, <2>2, SpecialFlags DEF Lines
<1>8. RegsInv
  BY <1>7, ResetType, HostRunAssumption DEF Init, RegsInv
<1>9. QED
  BY <1>6, <1>8 DEF Inv

LEMMA CallbackReturnsKeep ==
  ASSUME Inv, CallbackReturns
  PROVE  Inv'
BY InstrHookKeeps, TakeInterruptKeeps, HookReturnsKeeps, HookDeclinesKeeps, TakeBusErrorKeeps
  DEF CallbackReturns, OtherCallbackReturns

LEMMA CpuStepKeeps ==
  ASSUME Inv, CpuStep
  PROVE  Inv'
BY LeaveLoopKeeps, SpecialtiesKeeps, InstrHookKeeps, GuestStepKeeps, BusErrorCaughtKeeps,
   DoubleFaultKeeps DEF CpuStep

LEMMA NextInv ==
  ASSUME Inv, [Next]_vars
  PROVE  Inv'
<1>1. CASE HostStep
  BY <1>1, HostStepKeeps
<1>2. CASE CallbackReturns
  BY <1>2, CallbackReturnsKeep
<1>3. CASE CpuStep
  BY <1>3, CpuStepKeeps
<1>4. CASE UNCHANGED vars
  <2>1. CallsInv'
    BY <1>4, CallsStutter DEF Inv, vars, calls
  <2>2. RegsInv'
    BY <1>4 DEF Inv, RegsInv, vars
  <2>3. QED
    BY <2>1, <2>2 DEF Inv
<1>5. QED
  BY <1>1, <1>2, <1>3, <1>4 DEF Next

(***************************************************************************)
(* The invariant holds in every reachable state of the loops.              *)
(***************************************************************************)
THEOREM InvTheorem == Spec => []Inv
<1>1. Init => Inv
  BY InitInv
<1>2. Inv /\ [Next]_vars => Inv'
  BY NextInv
<1>3. QED
  BY <1>1, <1>2, PTL DEF Spec

(***************************************************************************)
(* The variables keep their types: interrupt levels and masks stay within  *)
(* 0..7, only flags of the loop are set, __exbuf is always a TRY block.    *)
(***************************************************************************)
THEOREM TypeTheorem == Spec => []TypeOK
<1>1. Inv => TypeOK
  <2> SUFFICES ASSUME Inv PROVE TypeOK
    OBVIOUS
  <2>1. g_execute_depth \in Nat
    BY LenProperties DEF Inv, CallsInv, Depth
  <2>2. QED
    BY <2>1 DEF Inv, CallsInv, RegsInv, TypeOK
<1>2. QED
  BY <1>1, InvTheorem, PTL

(***************************************************************************)
(* uae_cpu_execute_depth() is the number of active calls, at any nesting   *)
(* depth and after any sequence of throws: no THROW skips a call.          *)
(***************************************************************************)
THEOREM DepthTheorem == Spec => []DepthCountsCalls
<1>1. Inv => DepthCountsCalls
  BY DEF Inv, CallsInv, DepthCountsCalls
<1>2. QED
  BY <1>1, InvTheorem, PTL

\* TryBase counts the blocks below a call.
LEMMA TryBaseIs ==
  ASSUME NEW i \in 1..(Len(frames) + 1), frames \in Seq(Frames)
  PROVE  TryBase(i) = Base(frames, i)
<1>1. Len(frames) \in Nat
  BY LenProperties
<1>2. {j \in 1..(i - 1) : HandlingThrow(j)} = Handlers(frames) \cap (1..(i - 1))
  BY <1>1 DEF HandlingThrow, Handlers, Handles
<1>3. QED
  BY <1>2 DEF TryBase, Base, Count

(***************************************************************************)
(* The TRY stack holds exactly the blocks of the active calls, with        *)
(* bus_error's above that of each call that is handling a throw, and       *)
(* __exbuf is the newest: a throw lands in the innermost call.             *)
(***************************************************************************)
THEOREM TryTheorem == Spec => []TryStackMatchesCalls
<1>1. Inv => TryStackMatchesCalls
  <2> SUFFICES ASSUME Inv PROVE TryStackMatchesCalls
    OBVIOUS
  <2>1. frames \in Seq(Frames) /\ TryOK(frames, s_try_stack, exbuf) /\ Depth = Len(frames)
    BY DEF Inv, CallsInv, Depth
  <2>2. Len(frames) \in Nat
    BY <2>1, LenProperties
  <2>3. TryBase(Depth + 1) = Base(frames, Len(frames) + 1)
    BY <2>1, <2>2, TryBaseIs
  <2>4. ASSUME NEW i \in 1..Depth
        PROVE  /\ s_try_stack[TryBase(i) + 1] = Prb(i)
               /\ HandlingThrow(i) => s_try_stack[TryBase(i) + 2] = Prb2(i)
    <3>1. i \in 1..Len(frames) /\ i \in 1..(Len(frames) + 1)
      BY <2>1, <2>2
    <3>2. TryBase(i) = Base(frames, i)
      BY <2>1, <3>1, TryBaseIs
    <3>3. HandlingThrow(i) <=> Handles(frames[i])
      BY DEF HandlingThrow, Handles
    <3>4. QED
      BY <2>1, <3>1, <3>2, <3>3 DEF TryOK
  <2>5. QED
    BY <2>1, <2>3, <2>4 DEF TryOK, TryStackMatchesCalls
<1>2. QED
  BY <1>1, InvTheorem, PTL
=============================================================================
