---------------------------- MODULE JitRunProofs ----------------------------
(***************************************************************************)
(* The properties of the JIT's execute call for any nesting depth, budgets *)
(* and costs, and any number of calls that a bus error skips.              *)
(***************************************************************************)
EXTENDS JitRun, SequenceTheorems, TLAPS

-----------------------------------------------------------------------------
LEMMA FunctionIsSeq ==
  ASSUME NEW S, NEW n \in Nat, NEW f \in [1..n -> S]
  PROVE  f \in Seq(S) /\ Len(f) = n
BY SeqDef

LEMMA PrefixFacts ==
  ASSUME NEW S, NEW s \in Seq(S), NEW n \in 0..Len(s)
  PROVE  /\ SubSeq(s, 1, n) \in Seq(S) /\ Len(SubSeq(s, 1, n)) = n
         /\ \A i \in 1..n : SubSeq(s, 1, n)[i] = s[i]
<1>1. Len(s) \in Nat /\ n \in Nat
  BY LenProperties
<1>2. \A i \in 1..n : s[i] \in S
  BY <1>1, ElementOfSeq
<1>3. /\ SubSeq(s, 1, n) \in Seq(S)
      /\ Len(SubSeq(s, 1, n)) = IF 1 <= n THEN n - 1 + 1 ELSE 0
      /\ \A i \in 1..(n - 1 + 1) : SubSeq(s, 1, n)[i] = s[1 + i - 1]
  BY <1>1, <1>2, SubSeqProperties
<1>4. QED
  BY <1>1, <1>3

-----------------------------------------------------------------------------
(***************************************************************************)
(* Calls.  A JIT call is only ever the outermost one, and a call's place   *)
(* is one of its kind.                                                     *)
(***************************************************************************)
JitPlaces == {"entry", "compiled", "inblock", "blockHook", "trace", "traceHook",
              "returned", "mloop", "mHook", "recover", "done"}
LoopPlaces == {"loop", "ready", "hook", "done"}

Fits(kind, place) == place \in IF kind = "jit" THEN JitPlaces ELSE LoopPlaces

FramesOK(fs) ==
  /\ fs \in Seq(Frames)
  /\ Len(fs) <= MaxDepth
  /\ \A i \in 1..Len(fs) : Fits(fs[i].kind, fs[i].at) /\ (i > 1 => fs[i].kind # "jit")

\* The calls fs after d cycles, the innermost of them now at place.
Moved(fs, gs, d, place) ==
  /\ gs \in Seq(Frames)
  /\ Len(gs) = Len(fs)
  /\ \A i \in 1..Len(fs) :
       /\ gs[i].kind = fs[i].kind
       /\ gs[i].left = fs[i].left - d
       /\ gs[i].at = IF i = Len(fs) THEN place ELSE fs[i].at

LEMMA MoveToMoved ==
  ASSUME NEW fs \in Seq(Frames), fs # <<>>, NEW place \in Places
  PROVE  Moved(fs, MoveTo(fs, place), 0, place)
<1>1. /\ Len(fs) \in Nat \ {0}
      /\ \A i \in 1..Len(fs) : fs[i] \in Frames
  BY EmptySeq, ElementOfSeq
<1> DEFINE e == [fs[Len(fs)] EXCEPT !.at = place]
<1>2. e \in Frames /\ e.kind = fs[Len(fs)].kind /\ e.left = fs[Len(fs)].left /\ e.at = place
  BY <1>1 DEF Frames
<1>3. MoveTo(fs, place) = [fs EXCEPT ![Len(fs)] = e]
  BY DEF MoveTo
<1> HIDE DEF e
<1>4. /\ MoveTo(fs, place) \in Seq(Frames)
      /\ Len(MoveTo(fs, place)) = Len(fs)
      /\ \A j \in 1..Len(fs) : MoveTo(fs, place)[j] = IF j = Len(fs) THEN e ELSE fs[j]
  <2>1. Len(fs) \in 1..Len(fs)
    BY <1>1
  <2>2. QED
    BY <1>2, <1>3, <2>1, ExceptSeq
<1>5. \A j \in 1..Len(fs) : fs[j].left \in Int
  BY <1>1 DEF Frames
<1>6. QED
  BY <1>1, <1>2, <1>4, <1>5 DEF Moved

LEMMA ChargedSeq ==
  ASSUME NEW fs \in Seq(Frames), NEW d \in Int
  PROVE  /\ Charged(fs, d) \in Seq(Frames)
         /\ Len(Charged(fs, d)) = Len(fs)
         /\ \A i \in 1..Len(fs) :
              /\ Charged(fs, d)[i].kind = fs[i].kind
              /\ Charged(fs, d)[i].left = fs[i].left - d
              /\ Charged(fs, d)[i].at = fs[i].at
<1>1. /\ Len(fs) \in Nat
      /\ \A i \in 1..Len(fs) : fs[i] \in Frames
  BY LenProperties, ElementOfSeq
<1>2. \A i \in 1..Len(fs) : Charged(fs, d)[i] = [fs[i] EXCEPT !.left = fs[i].left - d]
  BY DEF Charged
<1>3. ASSUME NEW i \in 1..Len(fs)
      PROVE  /\ Charged(fs, d)[i] \in Frames
             /\ Charged(fs, d)[i].kind = fs[i].kind
             /\ Charged(fs, d)[i].left = fs[i].left - d
             /\ Charged(fs, d)[i].at = fs[i].at
  <2>1. fs[i] \in Frames
    BY <1>1
  <2>2. Charged(fs, d)[i] = [fs[i] EXCEPT !.left = fs[i].left - d]
    BY <1>2
  <2>3. fs[i].left - d \in Int
    BY <2>1 DEF Frames
  <2>4. QED
    BY <2>1, <2>2, <2>3 DEF Frames
<1>4. Charged(fs, d) \in [1..Len(fs) -> Frames]
  BY <1>3 DEF Charged
<1>5. Charged(fs, d) \in Seq(Frames) /\ Len(Charged(fs, d)) = Len(fs)
  BY <1>1, <1>4, FunctionIsSeq
<1>6. QED
  BY <1>3, <1>5

LEMMA ChargedMoved ==
  ASSUME NEW fs \in Seq(Frames), fs # <<>>, NEW d \in Int, NEW place \in Places
  PROVE  Moved(fs, MoveTo(Charged(fs, d), place), d, place)
<1> DEFINE gs == Charged(fs, d)
<1>1. /\ gs \in Seq(Frames) /\ Len(gs) = Len(fs)
      /\ \A i \in 1..Len(fs) :
           gs[i].kind = fs[i].kind /\ gs[i].left = fs[i].left - d /\ gs[i].at = fs[i].at
  BY ChargedSeq
<1>2. Len(fs) # 0
  BY EmptySeq
<1> HIDE DEF gs
<1>3. gs # <<>>
  BY <1>1, <1>2
<1>4. Moved(gs, MoveTo(gs, place), 0, place)
  BY <1>1, <1>3, MoveToMoved
<1>5. \A i \in 1..Len(fs) : gs[i].left \in Int
  <2>1. \A i \in 1..Len(gs) : gs[i] \in Frames
    BY <1>1, ElementOfSeq
  <2>2. QED
    BY <1>1, <2>1 DEF Frames
<1>6. QED
  BY <1>1, <1>4, <1>5 DEF Moved, gs

LEMMA MovedOK ==
  ASSUME NEW fs, FramesOK(fs), fs # <<>>, NEW gs, NEW d \in Int, NEW place,
         Moved(fs, gs, d, place), Fits(fs[Len(fs)].kind, place)
  PROVE  /\ FramesOK(gs) /\ gs # <<>>
         /\ Len(gs) = Len(fs) /\ Len(fs) \in Nat \ {0}
         /\ gs[1].kind = fs[1].kind /\ gs[1].left = fs[1].left - d
         /\ fs[1].left \in Int /\ gs[1].left \in Int
         /\ gs[1].at = IF Len(fs) = 1 THEN place ELSE fs[1].at
<1>1. Len(fs) \in Nat \ {0} /\ gs \in Seq(Frames) /\ fs \in Seq(Frames)
  BY EmptySeq DEF FramesOK, Moved
<1>2. gs # <<>>
  BY <1>1 DEF Moved
<1>3. FramesOK(gs)
  BY <1>1 DEF FramesOK, Moved
<1>4. fs[1] \in Frames /\ gs[1] \in Frames
  BY <1>1, ElementOfSeq DEF Moved
<1>5. QED
  BY <1>1, <1>2, <1>3, <1>4 DEF Moved, Frames
-----------------------------------------------------------------------------
(***************************************************************************)
(* The inductive invariant.                                                *)
(***************************************************************************)
VarsOK ==
  /\ pissoff \in Int /\ pissoff_value \in 0..INT_MAX
  /\ g_jit_run_active \in BOOLEAN /\ jit_in_compiled_code \in BOOLEAN
  /\ spcflags \subseteq Flags
  /\ m \in BOOLEAN
  /\ owed \in Int

\* A TRY block that is not dead is at most leaked places above its call's own.
StackOK(stack, depth, leaks) ==
  /\ stack \in Seq(0..MaxDepth)
  /\ Len(stack) = depth + leaks
  /\ \A p \in 1..Len(stack) :
       /\ stack[p] = 0 \/ (p - leaks <= stack[p] /\ stack[p] <= depth)
       /\ leaks = 0 => stack[p] = p

Top(stack) == IF Len(stack) = 0 THEN 0 ELSE stack[Len(stack)]

TryInv ==
  /\ leaked \in 0..MaxLeaks
  /\ crashed \in BOOLEAN
  /\ g_execute_depth = Len(frames) + leaked
  /\ StackOK(s_try_stack, Len(frames), leaked)
  /\ exbuf = Top(s_try_stack)
  /\ leaked = 0 => ~crashed

JitInv ==
  /\ g_jit_run_active <=> Running /\ frames[1].kind = "jit"
  /\ jit_in_compiled_code => g_jit_run_active /\ frames[1].at # "done"

Inv ==
  /\ FramesOK(frames)
  /\ VarsOK
  /\ TryInv
  /\ JitInv
  /\ CyclesConserved
  /\ CountdownWithinBudget
-----------------------------------------------------------------------------
(***************************************************************************)
(* What the invariant says of the calls.                                   *)
(***************************************************************************)
LEMMA CallFacts ==
  ASSUME Inv, Running
  PROVE  /\ frames \in Seq(Frames) /\ frames # <<>>
         /\ Len(frames) \in Nat \ {0} /\ Len(frames) <= MaxDepth
         /\ frames[1] \in Frames /\ frames[1].left \in Int
         /\ Innermost \in Frames /\ Innermost.left \in Int
         /\ Fits(Innermost.kind, Innermost.at)
         /\ Innermost.kind = "jit" => Len(frames) = 1 /\ g_jit_run_active
<1>1. frames \in Seq(Frames) /\ frames # <<>> /\ Len(frames) <= MaxDepth
  BY DEF Inv, FramesOK, Running
<1>2. Len(frames) \in Nat \ {0}
  BY <1>1, EmptySeq
<1>3. 1 \in 1..Len(frames) /\ Len(frames) \in 1..Len(frames)
  BY <1>2
<1>4. frames[1] \in Frames /\ Innermost \in Frames
  BY <1>1, <1>3, ElementOfSeq DEF Innermost
<1>5. frames[1].left \in Int /\ Innermost.left \in Int
  BY <1>4 DEF Frames
<1>6. Fits(Innermost.kind, Innermost.at)
  BY <1>3 DEF Inv, FramesOK, Innermost
<1>7. Innermost.kind = "jit" => Len(frames) = 1
  <2>1. Len(frames) > 1 => frames[Len(frames)].kind # "jit"
    BY <1>3 DEF Inv, FramesOK
  <2>2. \A n \in Nat \ {0} : n > 1 \/ n = 1
    OBVIOUS
  <2>3. QED
    BY <1>2, <2>1, <2>2 DEF Innermost
<1>8. Innermost.kind = "jit" => g_jit_run_active
  BY <1>7 DEF Inv, JitInv, Innermost
<1>9. QED
  BY <1>1, <1>2, <1>4, <1>5, <1>6, <1>7, <1>8

\* At one of the places of a JIT call, the JIT call is the only one.
LEMMA JitAlone ==
  ASSUME Inv, Running, Innermost.at \in JitPlaces \ {"done"}
  PROVE  Innermost.kind = "jit" /\ Len(frames) = 1 /\ g_jit_run_active
<1>1. Innermost.kind = "jit"
  BY CallFacts DEF Fits, JitPlaces, LoopPlaces
<1>2. QED
  BY <1>1, CallFacts

LEMMA NotJitThere ==
  ASSUME Inv, Running, Innermost.at \in LoopPlaces \ {"done"}
  PROVE  Innermost.kind \in {"run", "step"}
BY CallFacts DEF Fits, JitPlaces, LoopPlaces, Frames

LEMMA PlacesOfKinds ==
  ASSUME NEW kind, NEW place, Fits(kind, place)
  PROVE  place \in Places
BY DEF Fits, JitPlaces, LoopPlaces, Places, Callbacks

(***************************************************************************)
(* A step that moves the innermost call and spends d cycles, and leaves    *)
(* the calls' number and the TRY blocks alone.                             *)
(***************************************************************************)
LEMMA MoveKeeps ==
  ASSUME Inv, Running, NEW d \in Int, NEW place,
         Fits(Innermost.kind, place),
         Moved(frames, frames', d, place),
         UNCHANGED <<g_execute_depth, g_jit_run_active, s_try_stack, exbuf, leaked, crashed>>,
         VarsOK',
         jit_in_compiled_code' =>
           g_jit_run_active /\ (IF Len(frames) = 1 THEN place # "done" ELSE jit_in_compiled_code),
         frames[1].left - d - Pending' = owed',
         CountdownWithinBudget'
  PROVE  Inv'
<1>1. FramesOK(frames) /\ frames # <<>> /\ Fits(frames[Len(frames)].kind, place)
  BY DEF Inv, Running, Innermost
<1>2. /\ FramesOK(frames') /\ frames' # <<>>
      /\ Len(frames') = Len(frames)
      /\ frames'[1].kind = frames[1].kind
      /\ frames'[1].left = frames[1].left - d
      /\ frames'[1].at = IF Len(frames) = 1 THEN place ELSE frames[1].at
  BY <1>1, MovedOK
<1>3. TryInv'
  BY <1>2 DEF Inv, TryInv
<1>4. JitInv'
  BY <1>2, <1>1 DEF Inv, JitInv, Running
<1>5. CyclesConserved'
  BY <1>2 DEF CyclesConserved
<1>6. QED
  BY <1>2, <1>3, <1>4, <1>5 DEF Inv

\* A step that only sets flags.
LEMMA FlagsKeep ==
  ASSUME Inv, UNCHANGED <<frames, entered, cycles, landing>>,
         spcflags' \subseteq Flags, m' \in BOOLEAN
  PROVE  Inv'
BY DEF Inv, FramesOK, VarsOK, TryInv, JitInv, CyclesConserved, CountdownWithinBudget,
       Pending, Running, entered, cycles, landing

\* The innermost call goes to another of its places.
LEMMA PlainMoveKeeps ==
  ASSUME Inv, Running, NEW place, Fits(Innermost.kind, place),
         frames' = MoveTo(frames, place),
         UNCHANGED <<entered, cycles, landing>>,
         spcflags' \subseteq Flags, m' \in BOOLEAN,
         place = "done" => Innermost.kind # "jit"
  PROVE  Inv'
<1>1. Moved(frames, frames', 0, place)
  BY CallFacts, MoveToMoved, PlacesOfKinds
<1>2. VarsOK' /\ CountdownWithinBudget'
  BY DEF Inv, VarsOK, CountdownWithinBudget, cycles, entered, landing
<1>3. frames[1].left - 0 - Pending' = owed'
  <2>1. Pending' = Pending /\ frames[1].left - 0 = frames[1].left
    BY CallFacts DEF Pending, cycles, entered
  <2>2. QED
    BY <2>1 DEF Inv, CyclesConserved, cycles
<1>4. jit_in_compiled_code' =>
        g_jit_run_active /\ (IF Len(frames) = 1 THEN place # "done" ELSE jit_in_compiled_code)
  BY DEF Inv, JitInv, landing, Innermost
<1>5. QED
  BY <1>1, <1>2, <1>3, <1>4, MoveKeeps DEF entered, landing

-----------------------------------------------------------------------------
(***************************************************************************)
(* Cycles.                                                                 *)
(***************************************************************************)
LEMMA ClampedBound ==
  ASSUME NEW n \in Nat
  PROVE  Clamped(n) \in 0..INT_MAX /\ Clamped(n) <= n
BY JitRunAssumption DEF Clamped

LEMMA FoldFacts ==
  ASSUME Inv, Running, NEW count \in Int, NEW n \in Int
  PROVE  LET d == n + pissoff_value - count
             rest == frames[1].left - d
         IN  /\ d \in Int
             /\ Fold(count, n).frames = Charged(frames, d)
             /\ Fold(count, n).count = Clamped(IF rest > 0 THEN rest ELSE 0)
             /\ Fold(count, n).count \in 0..INT_MAX
             /\ Fold(count, n).count <= IF rest > 0 THEN rest ELSE 0
             /\ Fold(count, n).brk \subseteq Flags
<1> DEFINE d == n + pissoff_value - count
           rest == frames[1].left - d
<1>1. d \in Int
  BY DEF Inv, VarsOK
<1> HIDE DEF d
<1>2. rest \in Int
  BY <1>1, CallFacts
<1>3. Charged(frames, d)[1].left = rest
  <2>1. frames \in Seq(Frames) /\ 1 \in 1..Len(frames)
    BY CallFacts
  <2>2. QED
    BY <1>1, <2>1, ChargedSeq
<1>4. /\ Fold(count, n).frames = Charged(frames, d)
      /\ Fold(count, n).count = Clamped(IF rest > 0 THEN rest ELSE 0)
      /\ Fold(count, n).brk \subseteq {"BRK"}
  BY <1>3 DEF Fold, d
<1> HIDE DEF rest
<1>5. (IF rest > 0 THEN rest ELSE 0) \in Nat
  BY <1>2
<1>6. Fold(count, n).count \in 0..INT_MAX /\ Fold(count, n).count <= IF rest > 0 THEN rest ELSE 0
  BY <1>4, <1>5, ClampedBound
<1>7. QED
  BY <1>1, <1>4, <1>6 DEF Flags, d, rest

\* Cycles that go through uae_host_jit_do_cycles.
LEMMA FoldKeeps ==
  ASSUME Inv, Running, g_jit_run_active, NEW count \in Int, NEW n \in Int, NEW place,
         Fits(Innermost.kind, place),
         frames' = MoveTo(Fold(count, n).frames, place),
         pissoff' = Fold(count, n).count,
         pissoff_value' = Fold(count, n).count,
         owed' = owed - n - (pissoff - count),
         UNCHANGED <<g_execute_depth, g_jit_run_active, s_try_stack, exbuf, leaked, crashed>>,
         spcflags' \subseteq Flags, m' \in BOOLEAN, jit_in_compiled_code' \in BOOLEAN,
         jit_in_compiled_code' => IF Len(frames) = 1 THEN place # "done" ELSE jit_in_compiled_code
  PROVE  Inv'
<1> DEFINE d == n + pissoff_value - count
           rest == frames[1].left - d
<1>1. /\ d \in Int
      /\ Fold(count, n).frames = Charged(frames, d)
      /\ Fold(count, n).count \in 0..INT_MAX
      /\ Fold(count, n).count <= IF rest > 0 THEN rest ELSE 0
  BY FoldFacts
<1>2. rest = owed'
  BY CallFacts DEF Inv, CyclesConserved, Pending, VarsOK
<1> HIDE DEF d
<1>3. Moved(frames, frames', d, place)
  BY <1>1, CallFacts, ChargedMoved, PlacesOfKinds
<1>4. rest \in Int
  BY <1>1, CallFacts
<1>5. VarsOK'
  BY <1>1, <1>2, <1>4, JitRunAssumption DEF Inv, VarsOK
<1>6. CountdownWithinBudget'
  BY <1>1, <1>2 DEF CountdownWithinBudget
<1>7. frames[1].left - d - Pending' = owed'
  BY <1>1, <1>2, <1>4 DEF Pending
<1>8. QED
  BY <1>1, <1>3, <1>5, <1>6, <1>7, MoveKeeps

\* Cycles that an instruction, a hook or the end of a block spends.
LEMMA SpendKeeps ==
  ASSUME Inv, Running, NEW count \in Int, NEW n \in Int, NEW place,
         Fits(Innermost.kind, place),
         place = "done" => Innermost.kind # "jit",
         ~g_jit_run_active => count = pissoff,
         Spend(count, n, place),
         owed' = owed - n - (pissoff - count),
         UNCHANGED <<entered, landing, m>>
  PROVE  Inv'
<1>1. /\ UNCHANGED <<g_execute_depth, g_jit_run_active, s_try_stack, exbuf, leaked, crashed>>
      /\ jit_in_compiled_code' = jit_in_compiled_code
      /\ m' \in BOOLEAN /\ jit_in_compiled_code' \in BOOLEAN
  BY DEF Inv, VarsOK, entered, landing
<1>2. jit_in_compiled_code' =>
        g_jit_run_active /\ (IF Len(frames) = 1 THEN place # "done" ELSE jit_in_compiled_code)
  BY <1>1 DEF Inv, JitInv, Innermost
<1>3. CASE g_jit_run_active
  <2>1. /\ frames' = MoveTo(Fold(count, n).frames, place)
        /\ pissoff' = Fold(count, n).count
        /\ pissoff_value' = Fold(count, n).count
        /\ spcflags' = spcflags \cup Fold(count, n).brk
    BY <1>3 DEF Spend, do_cycles
  <2>2. spcflags' \subseteq Flags
    BY <2>1, FoldFacts DEF Inv, VarsOK
  <2>3. QED
    BY <1>1, <1>2, <1>3, <2>1, <2>2, FoldKeeps
<1>4. CASE ~g_jit_run_active
  <2>1. /\ frames' = MoveTo(Charged(frames, n), place)
        /\ pissoff' = pissoff
        /\ pissoff_value' = pissoff_value
        /\ spcflags' = spcflags
    BY <1>4 DEF Spend, do_cycles
  <2>2. Moved(frames, frames', n, place)
    BY <2>1, CallFacts, ChargedMoved, PlacesOfKinds
  <2>3. owed \in Int /\ owed' = owed - n /\ owed' \in Int
    BY <1>4 DEF Inv, VarsOK
  <2>4. VarsOK'
    BY <1>1, <2>1, <2>3 DEF Inv, VarsOK
  <2>5. Pending' = 0 /\ Pending = 0
    BY <1>1, <1>4 DEF Pending
  <2>6. CountdownWithinBudget'
    BY <1>1, <1>4 DEF CountdownWithinBudget
  <2>7. frames[1].left - n - Pending' = owed'
    BY <2>3, <2>5, CallFacts DEF Inv, CyclesConserved
  <2>8. QED
    BY <1>1, <1>2, <2>2, <2>4, <2>6, <2>7, MoveKeeps
<1>5. QED
  BY <1>3, <1>4

\* The JIT call ends.
LEMMA CreditKeeps ==
  ASSUME Inv, Running, Innermost.kind = "jit",
         frames' = Credited(frames),
         pissoff' = 0, pissoff_value' = 0, owed' = owed,
         jit_in_compiled_code' = FALSE,
         UNCHANGED <<g_execute_depth, g_jit_run_active, s_try_stack, exbuf, leaked, crashed>>,
         spcflags' \subseteq Flags, m' \in BOOLEAN
  PROVE  Inv'
<1> DEFINE d == pissoff_value - pissoff
<1>1. d \in Int
  BY DEF Inv, VarsOK
<1>2. g_jit_run_active /\ Fits(Innermost.kind, "done")
  BY CallFacts DEF Fits, JitPlaces
<1>3. frames[1].left - d = owed
  BY <1>2 DEF Inv, CyclesConserved, Pending
<1> HIDE DEF d
<1>4. frames' = MoveTo(Charged(frames, d), "done")
  BY DEF Credited, d
<1>5. Moved(frames, frames', d, "done")
  BY <1>1, <1>2, <1>4, CallFacts, ChargedMoved, PlacesOfKinds
<1>6. VarsOK'
  <2>1. 0 \in 0..INT_MAX /\ 0 \in Int /\ FALSE \in BOOLEAN
    BY JitRunAssumption
  <2>2. QED
    BY <2>1 DEF Inv, VarsOK
<1>7. CountdownWithinBudget'
  BY DEF CountdownWithinBudget, Inv, VarsOK
<1>8. frames[1].left - d - Pending' = owed'
  <2>1. Pending' = 0 /\ owed \in Int
    BY DEF Pending, Inv, VarsOK
  <2>2. QED
    BY <1>3, <2>1
<1>9. QED
  BY <1>1, <1>2, <1>5, <1>6, <1>7, <1>8, MoveKeeps

\* The JIT call goes on in translated code or in the loop for T and M.
LEMMA JitMoveKeeps ==
  ASSUME Inv, Running, Innermost.kind = "jit", NEW place \in JitPlaces \ {"done"},
         frames' = MoveTo(frames, place),
         jit_in_compiled_code' \in BOOLEAN,
         UNCHANGED <<entered, cycles, s_try_stack, exbuf, leaked, crashed>>,
         spcflags' \subseteq Flags, m' \in BOOLEAN
  PROVE  Inv'
<1>1. g_jit_run_active /\ Len(frames) = 1 /\ Fits(Innermost.kind, place)
  BY CallFacts DEF Fits
<1>2. Moved(frames, frames', 0, place)
  BY <1>1, CallFacts, MoveToMoved, PlacesOfKinds
<1>3. VarsOK' /\ CountdownWithinBudget'
  BY DEF Inv, VarsOK, CountdownWithinBudget, cycles, entered
<1>4. frames[1].left - 0 - Pending' = owed'
  <2>1. Pending' = Pending /\ frames[1].left - 0 = frames[1].left
    BY CallFacts DEF Pending, cycles, entered
  <2>2. QED
    BY <2>1 DEF Inv, CyclesConserved, cycles
<1>5. QED
  BY <1>1, <1>2, <1>3, <1>4, MoveKeeps DEF entered
-----------------------------------------------------------------------------
(***************************************************************************)
(* The TRY stack.                                                          *)
(***************************************************************************)
LEMMA PushKeeps ==
  ASSUME NEW stack, NEW depth \in Nat, NEW leaks \in Nat,
         StackOK(stack, depth, leaks), depth < MaxDepth
  PROVE  /\ StackOK(Append(stack, depth + 1), depth + 1, leaks)
         /\ Top(Append(stack, depth + 1)) = depth + 1
<1> DEFINE new == Append(stack, depth + 1)
<1>1. stack \in Seq(0..MaxDepth) /\ Len(stack) = depth + leaks /\ depth + 1 \in 0..MaxDepth
  BY JitRunAssumption DEF StackOK
<1>2. /\ new \in Seq(0..MaxDepth) /\ Len(new) = depth + leaks + 1
      /\ \A p \in 1..(depth + leaks) : new[p] = stack[p]
      /\ new[depth + leaks + 1] = depth + 1
  BY <1>1, AppendProperties
<1> HIDE DEF new
<1>3. ASSUME NEW p \in 1..Len(new)
      PROVE  /\ new[p] = 0 \/ (p - leaks <= new[p] /\ new[p] <= depth + 1)
             /\ leaks = 0 => new[p] = p
  <2>1. CASE p \in 1..(depth + leaks)
    <3>1. /\ stack[p] = 0 \/ (p - leaks <= stack[p] /\ stack[p] <= depth)
          /\ leaks = 0 => stack[p] = p
      BY <1>1, <2>1 DEF StackOK
    <3>2. stack[p] \in 0..MaxDepth
      BY <1>1, <2>1, ElementOfSeq
    <3>3. QED
      BY <1>2, <2>1, <3>1, <3>2, JitRunAssumption
  <2>2. CASE p = depth + leaks + 1
    BY <1>2, <2>2
  <2>3. QED
    BY <1>2, <2>1, <2>2
<1>4. Top(new) = depth + 1
  BY <1>2 DEF Top
<1>5. StackOK(new, depth + 1, leaks)
  BY <1>2, <1>3 DEF StackOK
<1>6. QED
  BY <1>4, <1>5 DEF new

LEMMA BuryFacts ==
  ASSUME NEW stack \in Seq(0..MaxDepth), NEW n \in Nat
  PROVE  /\ Bury(stack, n) \in Seq(0..MaxDepth)
         /\ Len(Bury(stack, n)) = Len(stack)
         /\ \A p \in 1..Len(stack) :
              Bury(stack, n)[p] = IF stack[p] > n THEN 0 ELSE stack[p]
<1>1. Len(stack) \in Nat /\ \A p \in 1..Len(stack) : stack[p] \in 0..MaxDepth
  BY LenProperties, ElementOfSeq
<1>2. Bury(stack, n) \in [1..Len(stack) -> 0..MaxDepth]
  BY <1>1, JitRunAssumption DEF Bury
<1>3. Bury(stack, n) \in Seq(0..MaxDepth) /\ Len(Bury(stack, n)) = Len(stack)
  BY <1>1, <1>2, FunctionIsSeq
<1>4. QED
  BY <1>3 DEF Bury

\* longjmp: all calls but the outermost are skipped.
LEMMA SkipKeeps ==
  ASSUME NEW stack, NEW depth \in Nat \ {0}, NEW leaks \in Nat,
         StackOK(stack, depth, leaks)
  PROVE  /\ StackOK(Bury(stack, 1), 1, leaks + depth - 1)
         /\ Top(Bury(stack, 1)) = IF Top(stack) > 1 THEN 0 ELSE Top(stack)
<1> DEFINE new == Bury(stack, 1)
<1>1. stack \in Seq(0..MaxDepth) /\ Len(stack) = depth + leaks
  BY DEF StackOK
<1>2. /\ new \in Seq(0..MaxDepth) /\ Len(new) = depth + leaks
      /\ \A p \in 1..(depth + leaks) : new[p] = IF stack[p] > 1 THEN 0 ELSE stack[p]
  BY <1>1, BuryFacts
<1> HIDE DEF new
<1>3. ASSUME NEW p \in 1..Len(new)
      PROVE  /\ new[p] = 0 \/ (p - (leaks + depth - 1) <= new[p] /\ new[p] <= 1)
             /\ leaks + depth - 1 = 0 => new[p] = p
  <2>1. /\ stack[p] = 0 \/ (p - leaks <= stack[p] /\ stack[p] <= depth)
        /\ leaks = 0 => stack[p] = p
    BY <1>1, <1>2 DEF StackOK
  <2>2. stack[p] \in 0..MaxDepth
    BY <1>1, <1>2, ElementOfSeq
  <2>3. QED
    BY <1>2, <2>1, <2>2, JitRunAssumption
<1>4. Top(new) = IF Top(stack) > 1 THEN 0 ELSE Top(stack)
  BY <1>1, <1>2 DEF Top
<1>5. StackOK(new, 1, leaks + depth - 1)
  BY <1>2, <1>3 DEF StackOK
<1>6. QED
  BY <1>4, <1>5 DEF new

\* ENDTRY of the innermost call.
LEMMA PopKeeps ==
  ASSUME NEW stack, NEW depth \in Nat \ {0}, NEW leaks \in Nat,
         StackOK(stack, depth, leaks)
  PROVE  LET rest == SubSeq(stack, 1, Len(stack) - 1)
             new == Bury(rest, depth - 1)
         IN  /\ StackOK(new, depth - 1, leaks)
             /\ Top(new) = IF rest = <<>> THEN 0 ELSE new[Len(rest)]
<1> DEFINE rest == SubSeq(stack, 1, Len(stack) - 1)
           new == Bury(rest, depth - 1)
<1>1. stack \in Seq(0..MaxDepth) /\ Len(stack) = depth + leaks
  BY DEF StackOK
<1>2. /\ rest \in Seq(0..MaxDepth) /\ Len(rest) = depth + leaks - 1
      /\ \A p \in 1..(depth + leaks - 1) : rest[p] = stack[p]
  <2>1. Len(stack) - 1 \in 0..Len(stack) /\ Len(stack) - 1 = depth + leaks - 1
    BY <1>1
  <2>2. QED
    BY <1>1, <2>1, PrefixFacts
<1> HIDE DEF rest
<1>3. /\ new \in Seq(0..MaxDepth) /\ Len(new) = depth + leaks - 1
      /\ \A p \in 1..(depth + leaks - 1) :
           new[p] = IF stack[p] > depth - 1 THEN 0 ELSE stack[p]
  BY <1>2, BuryFacts
<1> HIDE DEF new
<1>4. ASSUME NEW p \in 1..Len(new)
      PROVE  /\ new[p] = 0 \/ (p - leaks <= new[p] /\ new[p] <= depth - 1)
             /\ leaks = 0 => new[p] = p
  <2>1. p \in 1..Len(stack) /\ p <= depth + leaks - 1
    BY <1>1, <1>3
  <2>2. /\ stack[p] = 0 \/ (p - leaks <= stack[p] /\ stack[p] <= depth)
        /\ leaks = 0 => stack[p] = p
    BY <2>1 DEF StackOK
  <2>3. stack[p] \in 0..MaxDepth
    BY <1>1, <2>1, ElementOfSeq
  <2>4. QED
    BY <1>3, <2>1, <2>2, <2>3, JitRunAssumption
<1>5. Top(new) = IF rest = <<>> THEN 0 ELSE new[Len(rest)]
  BY <1>2, <1>3, EmptySeq DEF Top
<1>6. StackOK(new, depth - 1, leaks)
  BY <1>3, <1>4 DEF StackOK
<1>7. QED
  BY <1>5, <1>6 DEF new, rest

\* __exbuf names the innermost call or none.
LEMMA LandsInnermost ==
  ASSUME Inv
  PROVE  /\ exbuf = 0 \/ exbuf = Len(frames)
         /\ leaked = 0 => exbuf = Len(frames)
<1>1. frames \in Seq(Frames) /\ leaked \in Nat /\ StackOK(s_try_stack, Len(frames), leaked)
  BY JitRunAssumption DEF Inv, FramesOK, TryInv
<1>2. Len(frames) \in Nat
  BY <1>1
<1>3. CASE Len(s_try_stack) = 0
  BY <1>1, <1>2, <1>3 DEF StackOK, Inv, TryInv, Top
<1>4. CASE Len(s_try_stack) # 0
  <2>1. /\ s_try_stack \in Seq(0..MaxDepth)
        /\ Len(s_try_stack) = Len(frames) + leaked
        /\ Len(s_try_stack) \in 1..Len(s_try_stack)
    BY <1>1, <1>2, <1>4 DEF StackOK
  <2>2. exbuf = s_try_stack[Len(s_try_stack)] /\ exbuf \in 0..MaxDepth
    BY <1>4, <2>1, ElementOfSeq DEF Inv, TryInv, Top
  <2>3. /\ exbuf = 0 \/ (Len(s_try_stack) - leaked <= exbuf /\ exbuf <= Len(frames))
        /\ leaked = 0 => exbuf = Len(s_try_stack)
    BY <1>1, <2>1, <2>2 DEF StackOK
  <2>4. QED
    BY <1>1, <1>2, <2>1, <2>2, <2>3, JitRunAssumption
<1>5. QED
  BY <1>3, <1>4
-----------------------------------------------------------------------------
(***************************************************************************)
(* Calls start and end.                                                    *)
(***************************************************************************)
LEMMA EnterFacts ==
  ASSUME Inv, Len(frames) < MaxDepth, NEW frame \in Frames, Fits(frame.kind, frame.at),
         frame.kind = "jit" => ~Running, Enter(frame), UNCHANGED <<leaked, crashed>>
  PROVE  /\ FramesOK(frames') /\ TryInv' /\ Running'
         /\ frames'[1] = IF Running THEN frames[1] ELSE frame
<1>1. frames \in Seq(Frames) /\ Len(frames) \in Nat /\ frames' = Append(frames, frame)
  BY LenProperties DEF Inv, FramesOK, Enter
<1>2. /\ frames' \in Seq(Frames) /\ frames' # <<>> /\ Len(frames') = Len(frames) + 1
      /\ \A i \in 1..Len(frames) : frames'[i] = frames[i]
      /\ frames'[Len(frames) + 1] = frame
  BY <1>1, AppendProperties
<1>3. Running <=> Len(frames) # 0
  BY <1>1, EmptySeq DEF Running
<1>4. FramesOK(frames')
  <2>1. ASSUME NEW i \in 1..Len(frames')
        PROVE  Fits(frames'[i].kind, frames'[i].at) /\ (i > 1 => frames'[i].kind # "jit")
    <3>1. CASE i \in 1..Len(frames)
      BY <1>2, <3>1 DEF Inv, FramesOK
    <3>2. CASE i = Len(frames) + 1
      BY <1>1, <1>2, <1>3, <3>2
    <3>3. QED
      BY <1>1, <1>2, <3>1, <3>2
  <2>2. Len(frames') <= MaxDepth
    BY <1>1, <1>2, JitRunAssumption
  <2>3. QED
    BY <1>2, <2>1, <2>2 DEF FramesOK
<1>5. TryInv'
  <2>1. leaked \in Nat /\ leaked' = leaked /\ crashed' = crashed
    BY JitRunAssumption DEF Inv, TryInv
  <2>2. StackOK(s_try_stack, Len(frames), leaked)
    BY DEF Inv, TryInv
  <2>3. /\ StackOK(s_try_stack', Len(frames'), leaked')
        /\ exbuf' = Top(s_try_stack')
    BY <1>1, <1>2, <2>1, <2>2, PushKeeps DEF Enter
  <2>4. g_execute_depth' = Len(frames') + leaked'
    BY <1>1, <1>2, <2>1 DEF Inv, TryInv, Enter
  <2>5. QED
    BY <2>1, <2>3, <2>4 DEF Inv, TryInv
<1>6. frames'[1] = IF Running THEN frames[1] ELSE frame
  BY <1>1, <1>2, <1>3
<1>7. QED
  BY <1>2, <1>4, <1>5, <1>6 DEF Running

\* A call on the interpreter.
LEMMA NestKeeps ==
  ASSUME Inv, Len(frames) < MaxDepth, NEW frame \in Frames, Fits(frame.kind, frame.at),
         frame.kind # "jit", Enter(frame),
         UNCHANGED <<pissoff, pissoff_value, g_jit_run_active, jit_in_compiled_code,
                     leaked, crashed, spcflags, m>>
  PROVE  Inv'
<1>1. /\ FramesOK(frames') /\ TryInv' /\ Running'
      /\ frames'[1] = IF Running THEN frames[1] ELSE frame
  BY EnterFacts
<1>2. owed' = (IF Running THEN owed ELSE frame.left) /\ frame.left \in Int
  BY DEF Enter, Frames
<1>3. VarsOK'
  BY <1>2 DEF Inv, VarsOK
<1>4. JitInv'
  BY <1>1 DEF Inv, JitInv
<1>5. CyclesConserved'
  <2>1. CASE Running
    BY <1>1, <1>2, <2>1 DEF Inv, CyclesConserved, Pending
  <2>2. CASE ~Running
    <3>1. ~g_jit_run_active
      BY <2>2 DEF Inv, JitInv
    <3>2. Pending' = 0
      BY <3>1 DEF Pending
    <3>3. QED
      BY <1>1, <1>2, <2>2, <3>2 DEF CyclesConserved
  <2>3. QED
    BY <2>1, <2>2
<1>6. CountdownWithinBudget'
  BY <1>2 DEF Inv, JitInv, CountdownWithinBudget
<1>7. QED
  BY <1>1, <1>3, <1>4, <1>5, <1>6 DEF Inv

LEMMA ExecuteKeeps ==
  ASSUME Inv, NEW b \in Budgets, Execute(b)
  PROVE  Inv'
<1>1. b \in Nat /\ Len(frames) < MaxDepth /\ UNCHANGED <<leaked, crashed>>
  BY JitRunAssumption DEF Execute
<1>2. CASE UseJit
  <2> DEFINE frame == [kind |-> "jit", left |-> b, at |-> "entry"]
  <2>1. /\ frame \in Frames /\ Fits(frame.kind, frame.at)
        /\ frame.kind = "jit" /\ frame.left = b /\ frame.at = "entry"
    BY <1>1 DEF Frames, Fits, JitPlaces, Places
  <2>2. /\ Enter(frame)
        /\ pissoff' = Clamped(b) /\ pissoff_value' = Clamped(b) /\ g_jit_run_active' = TRUE
        /\ UNCHANGED <<jit_in_compiled_code, spcflags, m>>
    BY <1>2 DEF Execute
  <2> HIDE DEF frame
  <2>3. ~Running
    <3>1. frames \in Seq(Frames) /\ leaked \in Nat /\ Len(frames) + leaked = 0
      BY <1>2, JitRunAssumption DEF UseJit, Inv, FramesOK, TryInv
    <3>2. Len(frames) = 0
      BY <3>1, LenProperties
    <3>3. QED
      BY <3>1, <3>2, EmptySeq DEF Running
  <2>4. FramesOK(frames') /\ TryInv' /\ Running' /\ frames'[1] = frame
    BY <1>1, <2>1, <2>2, <2>3, EnterFacts
  <2>5. owed' = b
    BY <2>1, <2>2, <2>3 DEF Enter
  <2>6. pissoff' \in 0..INT_MAX /\ pissoff' <= b /\ pissoff_value' = pissoff'
    BY <1>1, <2>2, ClampedBound
  <2>7. VarsOK'
    BY <1>1, <2>2, <2>5, <2>6, JitRunAssumption DEF Inv, VarsOK
  <2>8. JitInv'
    BY <2>1, <2>2, <2>3, <2>4 DEF Inv, JitInv
  <2>9. Pending' = 0
    BY <2>2, <2>6, JitRunAssumption DEF Pending
  <2>10. CyclesConserved'
    BY <1>1, <2>1, <2>4, <2>5, <2>9 DEF CyclesConserved
  <2>11. CountdownWithinBudget'
    BY <1>1, <2>5, <2>6, JitRunAssumption DEF CountdownWithinBudget
  <2>12. QED
    BY <2>4, <2>7, <2>8, <2>10, <2>11 DEF Inv
<1>3. CASE ~UseJit
  <2> DEFINE frame == [kind |-> "run", left |-> b, at |-> "loop"]
  <2>1. frame \in Frames /\ Fits(frame.kind, frame.at) /\ frame.kind # "jit"
    BY <1>1 DEF Frames, Fits, LoopPlaces, Places
  <2>2. Enter(frame)
    BY <1>3 DEF Execute
  <2> HIDE DEF frame
  <2>3. UNCHANGED <<pissoff, pissoff_value, g_jit_run_active, jit_in_compiled_code,
                    leaked, crashed, spcflags, m>>
    BY <1>3 DEF Execute
  <2>4. QED
    BY <1>1, <2>1, <2>2, <2>3, NestKeeps
<1>4. QED
  BY <1>2, <1>3

LEMMA StepKeeps ==
  ASSUME Inv, Step
  PROVE  Inv'
<1> DEFINE frame == [kind |-> "step", left |-> 1, at |-> "loop"]
<1>1. frame \in Frames /\ Fits(frame.kind, frame.at) /\ frame.kind # "jit"
  BY DEF Frames, Fits, LoopPlaces, Places
<1>2. Enter(frame)
  BY DEF Step
<1> HIDE DEF frame
<1>3. /\ Len(frames) < MaxDepth
      /\ UNCHANGED <<pissoff, pissoff_value, g_jit_run_active, jit_in_compiled_code,
                     leaked, crashed, spcflags, m>>
  BY DEF Step
<1>4. QED
  BY <1>1, <1>2, <1>3, NestKeeps

LEMMA ReturnKeeps ==
  ASSUME Inv, Return
  PROVE  Inv'
<1>1. Running /\ Innermost.at = "done"
  BY DEF Return, At
<1>2. /\ frames \in Seq(Frames) /\ Len(frames) \in Nat \ {0} /\ Len(frames) <= MaxDepth
      /\ Innermost.kind = "jit" => Len(frames) = 1 /\ g_jit_run_active
  BY <1>1, CallFacts
<1>3. /\ frames' \in Seq(Frames) /\ Len(frames') = Len(frames) - 1
      /\ \A i \in 1..(Len(frames) - 1) : frames'[i] = frames[i]
  <2>1. Len(frames) - 1 \in 0..Len(frames)
    BY <1>2
  <2>2. frames' = SubSeq(frames, 1, Len(frames) - 1)
    BY DEF Return
  <2>3. QED
    BY <1>2, <2>1, <2>2, PrefixFacts
<1>4. Running' <=> Len(frames) # 1
  BY <1>2, <1>3, EmptySeq DEF Running
<1>5. FramesOK(frames')
  BY <1>2, <1>3, JitRunAssumption DEF Inv, FramesOK
<1>6. TryInv'
  <2>1. leaked \in Nat /\ leaked' = leaked /\ crashed' = crashed
    BY JitRunAssumption DEF Inv, TryInv, Return
  <2>2. StackOK(s_try_stack, Len(frames), leaked)
    BY DEF Inv, TryInv
  <2>3. StackOK(s_try_stack', Len(frames'), leaked') /\ exbuf' = Top(s_try_stack')
    BY <1>2, <1>3, <2>1, <2>2, PopKeeps DEF Return
  <2>4. g_execute_depth' = Len(frames') + leaked'
    BY <1>2, <1>3, <2>1 DEF Inv, TryInv, Return
  <2>5. QED
    BY <2>1, <2>3, <2>4 DEF Inv, TryInv
<1>7. UNCHANGED <<pissoff, pissoff_value, owed, jit_in_compiled_code, spcflags, m>>
  BY DEF Return, cycles
<1>8. g_jit_run_active' = (g_jit_run_active /\ Innermost.kind # "jit")
  BY DEF Return
<1>9. VarsOK'
  BY <1>7, <1>8 DEF Inv, VarsOK
<1>10. CASE Len(frames) = 1
  <2>1. Innermost = frames[1]
    BY <1>10 DEF Innermost
  <2>2. ~g_jit_run_active' /\ ~jit_in_compiled_code'
    BY <1>1, <1>7, <1>8, <2>1 DEF Inv, JitInv
  <2>3. QED
    BY <1>4, <1>5, <1>6, <1>9, <1>10, <2>2
      DEF Inv, JitInv, CyclesConserved, CountdownWithinBudget
<1>11. CASE Len(frames) # 1
  <2>1. frames'[1] = frames[1] /\ g_jit_run_active' = g_jit_run_active
    BY <1>2, <1>3, <1>8, <1>11 DEF Inv, VarsOK
  <2>2. JitInv'
    BY <1>1, <1>4, <1>7, <1>11, <2>1 DEF Inv, JitInv
  <2>3. CyclesConserved' /\ CountdownWithinBudget'
    BY <1>1, <1>7, <2>1 DEF Inv, CyclesConserved, CountdownWithinBudget, Pending
  <2>4. QED
    BY <1>5, <1>6, <1>9, <2>2, <2>3 DEF Inv
<1>12. QED
  BY <1>10, <1>11
-----------------------------------------------------------------------------
(***************************************************************************)
(* Bus errors.                                                             *)
(***************************************************************************)
LEMMA LongJmpKeeps ==
  ASSUME Inv, Running, LongJmp, UNCHANGED <<entered, spcflags, m>>
  PROVE  Inv'
<1>1. g_jit_run_active /\ frames[1].kind = "jit"
  BY DEF Inv, JitInv, LongJmp
<1>2. /\ frames' = MoveTo(SubSeq(frames, 1, 1), "recover")
      /\ s_try_stack' = Bury(s_try_stack, 1)
      /\ exbuf' = IF exbuf > 1 THEN 0 ELSE exbuf
      /\ leaked' = leaked + Len(frames) - 1
      /\ leaked + Len(frames) - 1 <= MaxLeaks
      /\ crashed' = crashed /\ jit_in_compiled_code' = FALSE
      /\ UNCHANGED <<g_execute_depth, g_jit_run_active, pissoff, pissoff_value, owed>>
  BY <1>1 DEF LongJmp, cycles, entered
<1> DEFINE outer == SubSeq(frames, 1, 1)
<1>3. frames \in Seq(Frames) /\ Len(frames) \in Nat \ {0}
  BY CallFacts
<1>4. outer \in Seq(Frames) /\ Len(outer) = 1 /\ outer[1] = frames[1]
  <2>1. 1 \in 0..Len(frames) /\ 1 \in 1..1
    BY <1>3
  <2>2. QED
    BY <1>3, <2>1, PrefixFacts
<1> HIDE DEF outer
<1>5. FramesOK(outer) /\ outer # <<>> /\ Fits(outer[Len(outer)].kind, "recover")
  <2>1. Fits(frames[1].kind, frames[1].at)
    BY <1>3 DEF Inv, FramesOK
  <2>2. \A i \in 1..Len(outer) : Fits(outer[i].kind, outer[i].at) /\ ~(i > 1)
    BY <1>4, <2>1
  <2>3. QED
    BY <1>1, <1>4, <2>2, EmptySeq, JitRunAssumption DEF FramesOK, Fits, JitPlaces
<1>6. Moved(outer, frames', 0, "recover")
  BY <1>2, <1>4, <1>5, MoveToMoved, PlacesOfKinds DEF outer
<1>7. /\ FramesOK(frames') /\ frames' # <<>> /\ Len(frames') = 1
      /\ frames'[1].kind = "jit" /\ frames'[1].left = frames[1].left
  <2>1. /\ FramesOK(frames') /\ frames' # <<>> /\ Len(frames') = Len(outer)
        /\ frames'[1].kind = outer[1].kind /\ frames'[1].left = outer[1].left - 0
    BY <1>5, <1>6, MovedOK
  <2>2. frames[1].left \in Int
    BY CallFacts
  <2>3. QED
    BY <1>1, <1>4, <2>1, <2>2
<1>8. TryInv'
  <2>1. leaked \in Nat /\ leaked' \in 0..MaxLeaks
    BY <1>2, <1>3, JitRunAssumption DEF Inv, TryInv
  <2>2. StackOK(s_try_stack, Len(frames), leaked) /\ exbuf = Top(s_try_stack)
    BY DEF Inv, TryInv
  <2>3. StackOK(s_try_stack', 1, leaked') /\ exbuf' = Top(s_try_stack')
    BY <1>2, <1>3, <2>1, <2>2, SkipKeeps
  <2>4. g_execute_depth' = Len(frames') + leaked'
    <3>1. g_execute_depth = Len(frames) + leaked
      BY DEF Inv, TryInv
    <3>2. Len(frames) + leaked = 1 + (leaked + Len(frames) - 1)
      BY <1>3, <2>1
    <3>3. QED
      BY <1>2, <1>7, <3>1, <3>2
  <2>5. leaked' = 0 => ~crashed'
    <3>1. leaked' = 0 => leaked = 0
      BY <1>2, <1>3, <2>1
    <3>2. QED
      BY <1>2, <3>1 DEF Inv, TryInv
  <2>6. QED
    BY <1>2, <1>7, <2>1, <2>3, <2>4, <2>5 DEF Inv, TryInv
<1>9. JitInv'
  BY <1>1, <1>2, <1>7 DEF JitInv, Running
<1>10. VarsOK' /\ CyclesConserved' /\ CountdownWithinBudget'
  BY <1>2, <1>7 DEF Inv, VarsOK, CyclesConserved, CountdownWithinBudget, Pending
<1>11. QED
  BY <1>7, <1>8, <1>9, <1>10 DEF Inv

\* A THROW skips no call: __exbuf names the innermost call or none.
LEMMA THROWKeeps ==
  ASSUME Inv, Running, THROW, UNCHANGED <<entered, spcflags, m>>
  PROVE  Inv'
<1>1. /\ frames \in Seq(Frames) /\ Len(frames) \in Nat \ {0}
      /\ Innermost \in Frames
  BY CallFacts
<1>2. UNCHANGED <<s_try_stack, exbuf, jit_in_compiled_code, leaked, g_execute_depth,
                  g_jit_run_active, spcflags, m>> /\ ~jit_in_compiled_code
  BY DEF THROW, entered
<1>3. CASE exbuf = 0
  <2>1. crashed' = TRUE /\ UNCHANGED <<frames, pissoff, pissoff_value, owed>>
    BY <1>3 DEF THROW, cycles
  <2>2. leaked # 0
    BY <1>1, <1>3, LandsInnermost
  <2>3. TryInv'
    BY <1>2, <2>1, <2>2 DEF Inv, TryInv
  <2>4. QED
    BY <1>2, <2>1, <2>3
      DEF Inv, FramesOK, VarsOK, JitInv, CyclesConserved, CountdownWithinBudget, Pending, Running
<1>4. CASE exbuf # 0
  <2>1. exbuf = Len(frames)
    BY <1>4, LandsInnermost
  <2>2. SubSeq(frames, 1, exbuf) = frames
    BY <1>1, <2>1, SubSeqFull
  <2>3. UNCHANGED <<crashed, owed>>
    BY <1>4 DEF THROW
  <2>4. /\ Innermost.kind = "jit" => /\ frames' = Credited(frames)
                                     /\ pissoff' = 0 /\ pissoff_value' = 0
        /\ Innermost.kind # "jit" =>
             /\ frames' = MoveTo(frames, IF Innermost.kind = "run" THEN "loop" ELSE "done")
             /\ UNCHANGED <<pissoff, pissoff_value>>
    BY <1>4, <2>1, <2>2 DEF THROW, Innermost
  <2>5. spcflags' \subseteq Flags /\ m' \in BOOLEAN /\ jit_in_compiled_code' = FALSE
    BY <1>2 DEF Inv, VarsOK
  <2>6. CASE Innermost.kind = "jit"
    BY <1>2, <2>3, <2>4, <2>5, <2>6, CreditKeeps
  <2>7. CASE Innermost.kind # "jit"
    <3> DEFINE place == IF Innermost.kind = "run" THEN "loop" ELSE "done"
    <3>1. Fits(Innermost.kind, place)
      BY <2>7 DEF Fits, LoopPlaces
    <3>2. frames' = MoveTo(frames, place)
      BY <2>4, <2>7
    <3> HIDE DEF place
    <3>3. UNCHANGED <<entered, cycles, landing>>
      BY <1>2, <2>3, <2>4, <2>7 DEF entered, cycles, landing
    <3>4. QED
      BY <2>5, <2>7, <3>1, <3>2, <3>3, PlainMoveKeeps
  <2>8. QED
    BY <2>6, <2>7
<1>5. QED
  BY <1>3, <1>4

LEMMA BusErrorKeeps ==
  ASSUME Inv, BusError
  PROVE  Inv'
BY LongJmpKeeps, THROWKeeps DEF BusError, At

-----------------------------------------------------------------------------
(***************************************************************************)
(* The other steps.                                                        *)
(***************************************************************************)
LEMMA FlagStepsKeep ==
  ASSUME Inv, EndTimeslice \/ SignalIrq \/ WriteSR
  PROVE  Inv'
<1>1. UNCHANGED <<frames, entered, cycles, landing>>
  BY DEF EndTimeslice, SignalIrq, WriteSR
<1>2. spcflags' \subseteq Flags
  BY DEF EndTimeslice, SignalIrq, WriteSR, Inv, VarsOK, Flags
<1>3. m' \in BOOLEAN
  BY DEF EndTimeslice, SignalIrq, WriteSR, Inv, VarsOK
<1>4. QED
  BY <1>1, <1>2, <1>3, FlagsKeep

LEMMA RecoveredKeeps ==
  ASSUME Inv, Recovered
  PROVE  Inv'
<1>1. Running /\ Innermost.at = "recover"
  BY DEF Recovered, At
<1>2. Innermost.kind = "jit"
  BY <1>1, JitAlone DEF JitPlaces
<1>3. "compiled" \in JitPlaces \ {"done"}
  BY DEF JitPlaces
<1>4. spcflags' \subseteq Flags /\ m' \in BOOLEAN /\ jit_in_compiled_code' \in BOOLEAN
  BY DEF Recovered, Inv, VarsOK
<1>5. QED
  BY <1>1, <1>2, <1>3, <1>4, JitMoveKeeps DEF Recovered

LEMMA SpinKeeps ==
  ASSUME Inv, NEW n \in Costs, dbf_spin(n)
  PROVE  Inv'
<1>1. Running /\ n \in Int /\ pissoff \in Int /\ owed \in Int
  BY JitRunAssumption DEF dbf_spin, At, Inv, VarsOK
<1>2. Fits(Innermost.kind, Innermost.at) /\ Innermost.at # "done"
  BY <1>1, CallFacts DEF dbf_spin, At, Callbacks
<1>3. owed' = owed - n - (pissoff - pissoff)
  BY <1>1 DEF dbf_spin
<1>4. QED
  BY <1>1, <1>2, <1>3, SpendKeeps DEF dbf_spin

\* A call moves between a C handler's hook and where the handler was called.
LEMMA HookKeeps ==
  ASSUME Inv, CallHook \/ HookReturns
  PROVE  Inv'
<1>1. PICK way \in
        {<<"compiled", "blockHook">>, <<"inblock", "blockHook">>, <<"trace", "traceHook">>,
         <<"mloop", "mHook">>, <<"ready", "hook">>, <<"blockHook", "inblock">>,
         <<"traceHook", "trace">>, <<"mHook", "mloop">>, <<"hook", "ready">>} :
          At({way[1]}) /\ frames' = MoveTo(frames, way[2])
  BY DEF CallHook, HookReturns
<1>2. UNCHANGED <<entered, cycles, landing, spcflags, m>>
  BY DEF CallHook, HookReturns
<1>3. Running /\ Innermost.at = way[1]
  BY <1>1 DEF At
<1>4. Fits(Innermost.kind, way[2]) /\ way[2] # "done"
  BY <1>1, <1>3, CallFacts DEF Fits, JitPlaces, LoopPlaces
<1>5. spcflags' \subseteq Flags /\ m' \in BOOLEAN
  BY <1>2 DEF Inv, VarsOK
<1>6. QED
  BY <1>1, <1>2, <1>3, <1>4, <1>5, PlainMoveKeeps

\* do_specialties and what follows it: the JIT call ends or goes on.
LEMMA DispatchKeeps ==
  ASSUME Inv, Start \/ Dispatch
  PROVE  Inv'
<1>1. Running /\ Innermost.at \in {"entry", "returned"}
  BY DEF Start, Dispatch, At
<1>2. Innermost.kind = "jit"
  BY <1>1, JitAlone DEF JitPlaces
<1>3. /\ UNCHANGED <<entered, owed, s_try_stack, exbuf, leaked, crashed, m>>
      /\ spcflags' = {}
  BY DEF Start, Dispatch
<1>4. spcflags' \subseteq Flags /\ m' \in BOOLEAN
  BY <1>3 DEF Inv, VarsOK
<1>5. CASE LeaveRun
  BY <1>1, <1>2, <1>3, <1>4, <1>5, CreditKeeps DEF LeaveRun, entered
<1>6. ASSUME NEW place \in {"compiled", "mloop"}, frames' = MoveTo(frames, place),
             jit_in_compiled_code' \in BOOLEAN, UNCHANGED <<pissoff, pissoff_value>>
      PROVE  Inv'
  <2>1. place \in JitPlaces \ {"done"}
    BY DEF JitPlaces
  <2>2. QED
    BY <1>1, <1>2, <1>3, <1>4, <1>6, <2>1, JitMoveKeeps DEF cycles
<1>7. QED
  BY <1>5, <1>6 DEF Start, Dispatch, EnterCompiled

LEMMA BlockEndKeeps ==
  ASSUME Inv, NEW n \in Costs, BlockEnd(n)
  PROVE  Inv'
<1>1. Running /\ Innermost.at \in {"compiled", "inblock"}
  BY DEF BlockEnd, At
<1>2. Innermost.kind = "jit" /\ Len(frames) = 1 /\ g_jit_run_active
  BY <1>1, JitAlone DEF JitPlaces
<1>3. /\ n \in Nat \ {0} /\ pissoff \in Int /\ pissoff - n \in Int
      /\ pissoff_value \in Int /\ owed \in Int /\ owed' = owed - n
  BY JitRunAssumption DEF BlockEnd, Inv, VarsOK
<1>4. UNCHANGED <<entered, landing, m>>
  BY DEF BlockEnd
<1>5. CASE pissoff - n >= 0
  <2>1. /\ frames' = MoveTo(frames, "compiled")
        /\ pissoff' = pissoff - n
        /\ UNCHANGED <<pissoff_value, spcflags>>
    BY <1>5 DEF BlockEnd
  <2>2. Fits(Innermost.kind, "compiled")
    BY <1>2 DEF Fits, JitPlaces
  <2>3. Moved(frames, frames', 0, "compiled")
    BY <1>1, <2>1, <2>2, CallFacts, MoveToMoved, PlacesOfKinds
  <2>4. VarsOK'
    BY <1>3, <1>4, <2>1 DEF Inv, VarsOK, entered, landing
  <2>5. CountdownWithinBudget'
    BY <1>2, <1>3, <1>5, <2>1 DEF Inv, CountdownWithinBudget
  <2>6. frames[1].left - 0 - Pending' = owed'
    <3>1. frames[1].left - (pissoff_value - pissoff) = owed /\ frames[1].left \in Int
      BY <1>1, <1>2, CallFacts DEF Inv, CyclesConserved, Pending
    <3>2. Pending' = pissoff_value - (pissoff - n)
      BY <1>2, <1>4, <2>1 DEF Pending, entered
    <3>3. QED
      BY <1>3, <3>1, <3>2
  <2>7. QED
    BY <1>1, <1>2, <1>4, <2>2, <2>3, <2>4, <2>5, <2>6, MoveKeeps DEF entered, landing
<1>6. CASE ~(pissoff - n >= 0)
  <2>1. Spend(pissoff - n, 0, "returned")
    BY <1>6 DEF BlockEnd
  <2>2. Fits(Innermost.kind, "returned")
    BY <1>2 DEF Fits, JitPlaces
  <2>3. owed' = owed - 0 - (pissoff - (pissoff - n))
    BY <1>3
  <2>4. QED
    BY <1>1, <1>2, <1>3, <1>4, <2>1, <2>2, <2>3, SpendKeeps
<1>7. QED
  BY <1>5, <1>6

LEMMA LeaveBlockKeeps ==
  ASSUME Inv, NEW n \in Costs, LeaveBlock(n)
  PROVE  Inv'
<1>1. Running /\ Innermost.at = "inblock"
  BY DEF LeaveBlock, At
<1>2. Innermost.kind = "jit" /\ g_jit_run_active /\ Fits(Innermost.kind, "returned")
  BY <1>1, JitAlone DEF JitPlaces, Fits
<1>3. /\ n \in Int /\ pissoff \in Int /\ pissoff - n \in Int
      /\ owed' = owed - n /\ owed \in Int
  BY JitRunAssumption DEF LeaveBlock, Inv, VarsOK
<1>4. owed' = owed - 0 - (pissoff - (pissoff - n))
  BY <1>3
<1>5. QED
  BY <1>1, <1>2, <1>3, <1>4, SpendKeeps DEF LeaveBlock

\* An instruction of execute_normal, or one of the interpreter.
LEMMA InstrKeeps ==
  ASSUME Inv, NEW n \in Costs, TraceInstr(n) \/ Instr(n)
  PROVE  Inv'
<1>1. Running /\ Innermost.at \in {"trace", "ready"}
  BY DEF TraceInstr, Instr, At
<1>2. /\ n \in Int /\ pissoff \in Int /\ owed \in Int
      /\ owed' = owed - n - (pissoff - pissoff)
  BY JitRunAssumption DEF TraceInstr, Instr, Inv, VarsOK
<1>3. PICK place : /\ Spend(pissoff, n, place)
                   /\ Fits(Innermost.kind, place)
                   /\ place = "done" => Innermost.kind # "jit"
  <2>1. CASE TraceInstr(n)
    <3>1. Innermost.kind = "jit"
      BY <1>1, <2>1, JitAlone DEF JitPlaces, TraceInstr, At
    <3>2. PICK place \in {"trace", "returned"} : Spend(pissoff, n, place)
      BY <2>1 DEF TraceInstr
    <3>3. Fits(Innermost.kind, place) /\ place # "done"
      BY <3>1 DEF Fits, JitPlaces
    <3>4. QED
      BY <3>2, <3>3
  <2>2. CASE Instr(n)
    <3>1. Innermost.kind \in {"run", "step"}
      BY <1>1, <2>2, NotJitThere DEF LoopPlaces, Instr, At
    <3> DEFINE place == IF Innermost.kind = "run" THEN "loop" ELSE "done"
    <3>2. Fits(Innermost.kind, place) /\ Innermost.kind # "jit"
      BY <3>1 DEF Fits, LoopPlaces
    <3>3. Spend(pissoff, n, place)
      BY <2>2 DEF Instr
    <3>4. QED
      BY <3>2, <3>3
  <2>3. QED
    BY <2>1, <2>2
<1>4. UNCHANGED <<entered, landing, m>>
  BY DEF TraceInstr, Instr
<1>5. QED
  BY <1>1, <1>2, <1>3, <1>4, SpendKeeps

LEMMA MInstrKeeps ==
  ASSUME Inv, NEW n \in Costs, MInstr(n)
  PROVE  Inv'
<1>1. Running /\ Innermost.at = "mloop"
  BY DEF MInstr, At
<1>2. Innermost.kind = "jit" /\ Len(frames) = 1 /\ g_jit_run_active
  BY <1>1, JitAlone DEF JitPlaces
<1>3. /\ n \in Int /\ pissoff \in Int /\ owed \in Int
      /\ owed' = owed - n - (pissoff - pissoff)
  BY JitRunAssumption DEF MInstr, Inv, VarsOK
<1>4. do_cycles(pissoff, n) = Fold(pissoff, n)
  BY <1>2 DEF do_cycles
<1> DEFINE exit == "BRK" \in spcflags \cup Fold(pissoff, n).brk \/ ~m
           place == IF exit THEN "compiled" ELSE "mloop"
<1>5. /\ frames' = MoveTo(Fold(pissoff, n).frames, place)
      /\ jit_in_compiled_code' = exit
      /\ pissoff' = Fold(pissoff, n).count /\ pissoff_value' = Fold(pissoff, n).count
      /\ spcflags' = {}
  BY <1>4 DEF MInstr
<1>6. Fits(Innermost.kind, place) /\ place # "done"
  BY <1>2 DEF Fits, JitPlaces
<1>7. jit_in_compiled_code' \in BOOLEAN /\ spcflags' \subseteq Flags
  BY <1>5
<1>8. m' \in BOOLEAN
  BY DEF MInstr, Inv, VarsOK
<1> HIDE DEF exit, place
<1>9. UNCHANGED <<g_execute_depth, g_jit_run_active, s_try_stack, exbuf, leaked, crashed>>
  BY DEF MInstr, entered
<1>10. QED
  BY <1>1, <1>2, <1>3, <1>5, <1>6, <1>7, <1>8, <1>9, FoldKeeps

\* execute_normal is entered, or the interpreter's loop goes round.
LEMMA LoopKeeps ==
  ASSUME Inv, EnterTrace \/ Loop
  PROVE  Inv'
<1>1. Running /\ Innermost.at \in {"compiled", "loop"}
  BY DEF EnterTrace, Loop, At
<1>2. UNCHANGED <<entered, cycles, landing, m>>
  BY DEF EnterTrace, Loop
<1>3. spcflags' \subseteq Flags /\ m' \in BOOLEAN
  BY DEF EnterTrace, Loop, Inv, VarsOK
<1>4. PICK place : /\ frames' = MoveTo(frames, place)
                   /\ Fits(Innermost.kind, place)
                   /\ place = "done" => Innermost.kind # "jit"
  <2>1. CASE EnterTrace
    <3>1. Innermost.kind = "jit"
      BY <1>1, <2>1, JitAlone DEF JitPlaces, EnterTrace, At
    <3>2. QED
      BY <2>1, <3>1 DEF EnterTrace, Fits, JitPlaces
  <2>2. CASE Loop
    <3>1. Innermost.kind \in {"run", "step"}
      BY <1>1, <2>2, NotJitThere DEF LoopPlaces, Loop, At
    <3>2. \E place \in {"done", "ready"} : frames' = MoveTo(frames, place)
      BY <2>2 DEF Loop
    <3>3. QED
      BY <3>1, <3>2 DEF Fits, LoopPlaces
  <2>3. QED
    BY <2>1, <2>2
<1>5. QED
  BY <1>1, <1>2, <1>3, <1>4, PlainMoveKeeps
-----------------------------------------------------------------------------
LEMMA InitInv ==
  ASSUME Init
  PROVE  Inv
<1>1. frames = <<>> /\ s_try_stack = <<>> /\ Len(frames) = 0 /\ Len(s_try_stack) = 0
  BY DEF Init
<1>2. FramesOK(frames)
  BY <1>1, JitRunAssumption DEF FramesOK
<1>3. VarsOK
  <2>1. 0 \in Int /\ 0 \in 0..INT_MAX
    BY JitRunAssumption
  <2>2. QED
    BY <2>1 DEF Init, VarsOK
<1>4. TryInv
  <2>1. s_try_stack \in Seq(0..MaxDepth)
    BY <1>1
  <2>2. StackOK(s_try_stack, Len(frames), 0)
    BY <1>1, <2>1 DEF StackOK
  <2>3. 0 \in 0..MaxLeaks /\ 0 = Len(frames) + 0
    BY <1>1, JitRunAssumption
  <2>4. QED
    BY <1>1, <2>2, <2>3 DEF Init, TryInv, Top
<1>5. JitInv /\ CyclesConserved /\ CountdownWithinBudget
  BY DEF Init, JitInv, CyclesConserved, CountdownWithinBudget, Running
<1>6. QED
  BY <1>2, <1>3, <1>4, <1>5 DEF Inv

LEMMA NextInv ==
  ASSUME Inv, [Next]_vars
  PROVE  Inv'
<1>1. ASSUME NEW b \in Budgets, Execute(b) PROVE Inv'
  BY <1>1, ExecuteKeeps
<1>2. ASSUME NEW n \in Costs, BlockEnd(n) PROVE Inv'
  BY <1>2, BlockEndKeeps
<1>3. ASSUME NEW n \in Costs, LeaveBlock(n) PROVE Inv'
  BY <1>3, LeaveBlockKeeps
<1>4. ASSUME NEW n \in Costs, TraceInstr(n) \/ Instr(n) PROVE Inv'
  BY <1>4, InstrKeeps
<1>5. ASSUME NEW n \in Costs, MInstr(n) PROVE Inv'
  BY <1>5, MInstrKeeps
<1>6. ASSUME NEW n \in Costs, dbf_spin(n) PROVE Inv'
  BY <1>6, SpinKeeps
<1>7. CASE Step
  BY <1>7, StepKeeps
<1>8. CASE Return
  BY <1>8, ReturnKeeps
<1>9. CASE EndTimeslice \/ SignalIrq \/ WriteSR
  BY <1>9, FlagStepsKeep
<1>10. CASE CallHook \/ HookReturns
  BY <1>10, HookKeeps
<1>11. CASE BusError
  BY <1>11, BusErrorKeeps
<1>12. CASE Recovered
  BY <1>12, RecoveredKeeps
<1>13. CASE Start \/ Dispatch
  BY <1>13, DispatchKeeps
<1>14. CASE EnterTrace \/ Loop
  BY <1>14, LoopKeeps
<1>15. CASE UNCHANGED vars
  <2>1. UNCHANGED <<frames, entered, cycles, landing>> /\ spcflags' = spcflags /\ m' = m
    BY <1>15 DEF vars, entered, cycles, landing
  <2>2. spcflags' \subseteq Flags /\ m' \in BOOLEAN
    BY <2>1 DEF Inv, VarsOK
  <2>3. QED
    BY <2>1, <2>2, FlagsKeep
<1>16. QED
  BY <1>1, <1>2, <1>3, <1>4, <1>5, <1>6, <1>7, <1>8, <1>9, <1>10, <1>11, <1>12, <1>13, <1>14,
     <1>15 DEF Next

(***************************************************************************)
(* The invariant holds in every reachable state.                           *)
(***************************************************************************)
THEOREM InvTheorem == Spec => []Inv
<1>1. Init => Inv
  BY InitInv
<1>2. Inv /\ [Next]_vars => Inv'
  BY NextInv
<1>3. QED
  BY <1>1, <1>2, PTL DEF Spec

(***************************************************************************)
(* Every variable keeps its type: no call is nested deeper than MaxDepth   *)
(* and the countdown is never loaded with less than 0 or more than         *)
(* INT_MAX.                                                                *)
(***************************************************************************)
THEOREM TypeTheorem == Spec => []TypeOK
<1>1. Inv => TypeOK
  <2> SUFFICES ASSUME Inv PROVE TypeOK
    OBVIOUS
  <2>1. frames \in Seq(Frames) /\ Len(frames) <= MaxDepth /\ Len(frames) \in Nat
    BY LenProperties DEF Inv, FramesOK
  <2>2. leaked \in 0..MaxLeaks /\ g_execute_depth \in Nat
    BY <2>1, JitRunAssumption DEF Inv, TryInv
  <2>3. s_try_stack \in Seq(0..MaxDepth) /\ crashed \in BOOLEAN
    BY DEF Inv, TryInv, StackOK
  <2>4. exbuf \in 0..MaxDepth
    BY <2>1, LandsInnermost, JitRunAssumption
  <2>5. QED
    BY <2>1, <2>2, <2>3, <2>4 DEF Inv, VarsOK, TypeOK
<1>2. QED
  BY <1>1, InvTheorem, PTL

(***************************************************************************)
(* No cycle is lost or counted twice between translated code's countdown   *)
(* and currcycle (uae_host_jit_do_cycles, the credit at the end of         *)
(* m68k_run_jit), whatever the budgets, costs and nesting.                 *)
(***************************************************************************)
THEOREM CyclesTheorem == Spec => []CyclesConserved
<1>1. Inv => CyclesConserved
  BY DEF Inv
<1>2. QED
  BY <1>1, InvTheorem, PTL

(***************************************************************************)
(* Translated code never holds more countdown than the outermost budget    *)
(* still has, so a chain of blocks ends by itself.                         *)
(***************************************************************************)
THEOREM CountdownTheorem == Spec => []CountdownWithinBudget
<1>1. Inv => CountdownWithinBudget
  BY DEF Inv
<1>2. QED
  BY <1>1, InvTheorem, PTL

(***************************************************************************)
(* A bus error lands in a live call: in the dispatcher's while             *)
(* jit_in_compiled_code is set, and, as long as no longjmp has skipped a   *)
(* call, in the innermost call's TRY block.                                *)
(***************************************************************************)
THEOREM LandingsTheorem == Spec => []LandingsAlive
<1>1. Inv => LandingsAlive
  <2> SUFFICES ASSUME Inv PROVE LandingsAlive
    OBVIOUS
  <2>1. jit_in_compiled_code => Running /\ frames[1].kind = "jit"
    BY DEF Inv, JitInv
  <2>2. leaked = 0 => exbuf = Len(frames) /\ ~crashed
    BY LandsInnermost DEF Inv, TryInv
  <2>3. QED
    BY <2>1, <2>2 DEF LandingsAlive
<1>2. QED
  BY <1>1, InvTheorem, PTL

(***************************************************************************)
(* execute_depth and the height of the TRY stack are the number of active  *)
(* calls and of calls a longjmp skipped, and never less.                   *)
(***************************************************************************)
THEOREM DepthTheorem == Spec => []DepthCountsCallsAndLeaks
<1>1. Inv => DepthCountsCallsAndLeaks
  BY DEF Inv, TryInv, StackOK, DepthCountsCallsAndLeaks
<1>2. QED
  BY <1>1, InvTheorem, PTL

(***************************************************************************)
(* Translated code is not re-entered: only the outermost call of           *)
(* uae_host_run takes m68k_run_jit, also after calls were skipped.         *)
(***************************************************************************)
THEOREM ReentryTheorem == Spec => []NotReentered
<1>1. Inv => NotReentered
  <2> SUFFICES ASSUME Inv, NEW i \in 2..Len(frames) PROVE frames[i].kind # "jit"
    BY DEF NotReentered
  <2>1. Len(frames) \in Nat
    BY LenProperties DEF Inv, FramesOK
  <2>2. i \in 1..Len(frames) /\ i > 1
    BY <2>1
  <2>3. QED
    BY <2>2 DEF Inv, FramesOK
<1>2. QED
  BY <1>1, InvTheorem, PTL
=============================================================================
