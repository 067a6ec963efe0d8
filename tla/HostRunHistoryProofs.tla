------------------------ MODULE HostRunHistoryProofs ------------------------
(***************************************************************************)
(* The two promises about requests made to a running CPU: no instruction   *)
(* starts before a requested interrupt check, none in the call that        *)
(* uae_cpu_end_timeslice is to end, but for those HostRunHistory allows.   *)
(***************************************************************************)
EXTENDS HostRunHistory, HostRunProofs

-----------------------------------------------------------------------------
(***************************************************************************)
(* Calls that start an instruction before they look at the flags again.    *)
(* One inside do_specialties that read BRK on entry returns instead.       *)
(***************************************************************************)
Passed == {"instrHook", "ready", "fetch"}

Behind(fs) == {i \in 1..Len(fs) : fs[i].at \in Passed \cup {"irqObserver"}}

BehindBrk(fs) ==
  {i \in 1..Len(fs) :
     fs[i].at \in Passed \/ (fs[i].at = "irqObserver" /\ "BRK" \notin fs[i].spc)}

\* Each call but the innermost is inside a callback.
OuterInv == \A i \in 1..(Depth - 1) : frames[i].at \in Callbacks

\* An outstanding request is in spcflags, and is not overtaken too often.
IrqInv ==
  /\ irqDue \in Nat
  /\ irqDue # NotDue =>
       "INT" \in regs.spcflags /\ Count(Behind(frames), Depth) <= irqDue

BrkInv ==
  /\ brkDue \in Nat
  /\ brkDue # NotDue =>
       "BRK" \in regs.spcflags /\ Count(BehindBrk(frames), Depth) <= brkDue

HInv == Inv /\ OuterInv /\ IrqInv /\ BrkInv
-----------------------------------------------------------------------------
(***************************************************************************)
(* Counting.                                                               *)
(***************************************************************************)
\* Only the n-th call changes.
LEMMA CountMoves ==
  ASSUME NEW S, NEW T, NEW n \in Nat \ {0}, \A i \in 1..(n - 1) : i \in S <=> i \in T
  PROVE  /\ Count(S, n) \in Nat /\ Count(T, n) \in Nat /\ Count(T, n - 1) \in Nat
         /\ Count(T, n) = Count(S, n) - (IF n \in S THEN 1 ELSE 0) + (IF n \in T THEN 1 ELSE 0)
         /\ Count(T, n - 1) = Count(S, n) - (IF n \in S THEN 1 ELSE 0)
<1>1. n \in Int /\ n - 1 \in Int
  OBVIOUS
<1>2. /\ Count(S, n) \in Nat /\ Count(T, n) \in Nat
      /\ Count(S, n - 1) \in Nat /\ Count(T, n - 1) \in Nat
  BY <1>1, CountType
<1>3. Count(T, n - 1) = Count(S, n - 1)
  BY <1>1, CountSame
<1>4. /\ Count(S, n) = Count(S, n - 1) + (IF n \in S THEN 1 ELSE 0)
      /\ Count(T, n) = Count(T, n - 1) + (IF n \in T THEN 1 ELSE 0)
  BY CountNext
<1>5. QED
  BY <1>2, <1>3, <1>4

\* The n-th call returns.
LEMMA CountDrops ==
  ASSUME NEW S, NEW T, NEW n \in Nat \ {0}, NEW m, m = n - 1,
         \A i \in 1..m : i \in S <=> i \in T
  PROVE  Count(S, n) \in Nat /\ Count(T, m) = Count(S, n) - (IF n \in S THEN 1 ELSE 0)
<1>1. n \in Int /\ m \in Int
  OBVIOUS
<1>2. Count(S, n) \in Nat /\ Count(S, m) \in Nat
  BY <1>1, CountType
<1>3. Count(T, m) = Count(S, m)
  BY <1>1, CountSame
<1>4. Count(S, n) = Count(S, m) + (IF n \in S THEN 1 ELSE 0)
  BY CountNext
<1>5. QED
  BY <1>2, <1>3, <1>4

\* An m-th call is entered that is not counted.
LEMMA CountEnters ==
  ASSUME NEW S, NEW T, NEW n \in Nat, NEW m, m = n + 1, m \notin T,
         \A i \in 1..n : i \in S <=> i \in T
  PROVE  Count(T, m) = Count(S, n)
<1>1. m \in Nat \ {0} /\ m - 1 = n /\ n \in Int
  OBVIOUS
<1>2. Count(T, n) = Count(S, n) /\ Count(T, n) \in Nat
  BY <1>1, CountSame, CountType
<1>3. Count(T, m) = Count(T, m - 1) + (IF m \in T THEN 1 ELSE 0)
  BY <1>1, CountNext
<1>4. QED
  BY <1>1, <1>2, <1>3

\* Where the calls below the innermost one are.
LEMMA BehindBelow ==
  ASSUME CallsInv, Running, NEW n \in Nat, n = Depth,
         frames' \in Seq(Frames), Len(frames') >= n - 1,
         \A i \in 1..(n - 1) : SameAt(frames[i], frames'[i])
  PROVE  \A i \in 1..(n - 1) :
           /\ i \in Behind(frames) <=> i \in Behind(frames')
           /\ i \in BehindBrk(frames) <=> i \in BehindBrk(frames')
<1>1. Len(frames) \in Nat /\ Len(frames) = n /\ Len(frames') \in Nat
  BY LenProperties DEF CallsInv, Depth
<1> TAKE i \in 1..(n - 1)
<1>2. i \in 1..Len(frames) /\ i \in 1..Len(frames')
  BY <1>1
<1>3. QED
  BY <1>2 DEF Behind, BehindBrk, SameAt

\* The innermost call moves.
LEMMA MovedCounts ==
  ASSUME CallsInv, Running, NEW place, Moved(frames, frames', place)
  PROVE  /\ Depth' = Depth /\ Depth \in Nat \ {0}
         /\ Count(Behind(frames), Depth) \in Nat /\ Count(BehindBrk(frames), Depth) \in Nat
         /\ Count(Behind(frames'), Depth') \in Nat /\ Count(BehindBrk(frames'), Depth') \in Nat
         /\ Count(Behind(frames'), Depth') =
              Count(Behind(frames), Depth) - (IF Depth \in Behind(frames) THEN 1 ELSE 0)
                                           + (IF Depth \in Behind(frames') THEN 1 ELSE 0)
         /\ Count(BehindBrk(frames'), Depth') =
              Count(BehindBrk(frames), Depth) - (IF Depth \in BehindBrk(frames) THEN 1 ELSE 0)
                                              + (IF Depth \in BehindBrk(frames') THEN 1 ELSE 0)
<1>1. Depth \in Nat \ {0} /\ Depth = Len(frames)
  BY InnermostFacts DEF Depth
<1>2. /\ frames' \in Seq(Frames) /\ Len(frames') = Len(frames) /\ Depth' = Depth
      /\ Len(frames') >= Depth - 1
  BY <1>1 DEF Moved, Depth
<1>3. \A i \in 1..(Depth - 1) : SameAt(frames[i], frames'[i])
  BY <1>1 DEF Moved
<1>4. \A i \in 1..(Depth - 1) :
        /\ i \in Behind(frames) <=> i \in Behind(frames')
        /\ i \in BehindBrk(frames) <=> i \in BehindBrk(frames')
  BY <1>1, <1>2, <1>3, BehindBelow
<1>5. /\ Count(Behind(frames), Depth) \in Nat /\ Count(Behind(frames'), Depth) \in Nat
      /\ Count(Behind(frames'), Depth) =
           Count(Behind(frames), Depth) - (IF Depth \in Behind(frames) THEN 1 ELSE 0)
                                        + (IF Depth \in Behind(frames') THEN 1 ELSE 0)
  BY <1>1, <1>4, CountMoves
<1>6. /\ Count(BehindBrk(frames), Depth) \in Nat /\ Count(BehindBrk(frames'), Depth) \in Nat
      /\ Count(BehindBrk(frames'), Depth) =
           Count(BehindBrk(frames), Depth) - (IF Depth \in BehindBrk(frames) THEN 1 ELSE 0)
                                           + (IF Depth \in BehindBrk(frames') THEN 1 ELSE 0)
  BY <1>1, <1>4, CountMoves
<1>7. QED
  BY <1>1, <1>2, <1>5, <1>6

\* The innermost call returns.
LEMMA ShorterCounts ==
  ASSUME CallsInv, Running, Shorter(frames, frames')
  PROVE  /\ Depth' = Depth - 1 /\ Depth \in Nat \ {0}
         /\ Count(Behind(frames), Depth) \in Nat /\ Count(BehindBrk(frames), Depth) \in Nat
         /\ Count(Behind(frames'), Depth') =
              Count(Behind(frames), Depth) - (IF Depth \in Behind(frames) THEN 1 ELSE 0)
         /\ Count(BehindBrk(frames'), Depth') =
              Count(BehindBrk(frames), Depth) - (IF Depth \in BehindBrk(frames) THEN 1 ELSE 0)
<1>1. Depth \in Nat \ {0} /\ Depth = Len(frames)
  BY InnermostFacts DEF Depth
<1>2. /\ frames' \in Seq(Frames) /\ Len(frames') = Len(frames) - 1 /\ Depth' = Depth - 1
      /\ Len(frames') >= Depth - 1
  BY <1>1 DEF Shorter, Depth
<1>3. \A i \in 1..(Depth - 1) : SameAt(frames[i], frames'[i])
  BY <1>1 DEF Shorter
<1>4. /\ \A i \in 1..Depth' : i \in Behind(frames) <=> i \in Behind(frames')
      /\ \A i \in 1..Depth' : i \in BehindBrk(frames) <=> i \in BehindBrk(frames')
  <2>1. \A i \in 1..(Depth - 1) :
          /\ i \in Behind(frames) <=> i \in Behind(frames')
          /\ i \in BehindBrk(frames) <=> i \in BehindBrk(frames')
    BY <1>1, <1>2, <1>3, BehindBelow
  <2>2. QED
    BY <1>2, <2>1
<1>5. /\ Count(Behind(frames), Depth) \in Nat
      /\ Count(Behind(frames'), Depth') =
           Count(Behind(frames), Depth) - (IF Depth \in Behind(frames) THEN 1 ELSE 0)
  BY <1>1, <1>2, <1>4, CountDrops
<1>6. /\ Count(BehindBrk(frames), Depth) \in Nat
      /\ Count(BehindBrk(frames'), Depth') =
           Count(BehindBrk(frames), Depth) - (IF Depth \in BehindBrk(frames) THEN 1 ELSE 0)
  BY <1>1, <1>2, <1>4, CountDrops
<1>7. QED
  BY <1>1, <1>2, <1>5, <1>6

LEMMA InnermostBehind ==
  ASSUME CallsInv, Running
  PROVE  /\ Depth \in Behind(frames) <=> Innermost.at \in Passed \cup {"irqObserver"}
         /\ Depth \in BehindBrk(frames) <=>
              \/ Innermost.at \in Passed
              \/ Innermost.at = "irqObserver" /\ "BRK" \notin Innermost.spc
<1>1. Depth \in 1..Len(frames) /\ Innermost = frames[Depth]
  BY InnermostFacts DEF Depth
<1>2. QED
  BY <1>1 DEF Behind, BehindBrk

LEMMA MovedBehind ==
  ASSUME CallsInv, Running, NEW place, Moved(frames, frames', place)
  PROVE  /\ Depth \in Behind(frames') <=> place \in Passed \cup {"irqObserver"}
         /\ place # "irqObserver" => (Depth \in BehindBrk(frames') <=> place \in Passed)
         /\ "BRK" \in frames'[Depth].spc /\ place = "irqObserver" => Depth \notin BehindBrk(frames')
<1>1. Depth \in Nat \ {0} /\ Depth = Len(frames) /\ Depth = Len(frames')
  BY InnermostFacts DEF Depth, Moved
<1>2. Depth \in 1..Len(frames') /\ frames'[Depth].at = place
  BY <1>1 DEF Moved
<1>3. "irqObserver" \notin Passed
  BY DEF Passed
<1>4. QED
  BY <1>2, <1>3 DEF Behind, BehindBrk

\* The calls below the innermost one stay inside their callbacks.
LEMMA OuterKeeps ==
  ASSUME CallsInv, Running, OuterInv,
         Shorter(frames, frames') \/ \E place : Moved(frames, frames', place)
  PROVE  OuterInv'
<1>1. Depth \in Nat \ {0} /\ Depth = Len(frames)
  BY InnermostFacts DEF Depth
<1>2. Depth' = Depth \/ Depth' = Depth - 1
  BY <1>1 DEF Shorter, Moved, Depth
<1>3. \A i \in 1..(Depth - 1) : frames'[i].at = frames[i].at
  BY <1>1 DEF Shorter, Moved, SameAt
<1>4. QED
  BY <1>1, <1>2, <1>3 DEF OuterInv
-----------------------------------------------------------------------------
(***************************************************************************)
(* A step that leaves the requests as they are: it takes neither flag away *)
(* and the innermost call ends up behind only if it was before.            *)
(***************************************************************************)
Kept == {"INT", "BRK"} \cap regs.spcflags \subseteq regs'.spcflags

LEMMA QuietKeeps ==
  ASSUME HInv, Running, Inv', Kept, irqDue' = irqDue, brkDue' \in {brkDue, NotDue},
         \/ Shorter(frames, frames')
         \/ \E place \in Places : Moved(frames, frames', place) /\ place \notin Passed \cup {"irqObserver"}
         \/ \E place \in Passed : Moved(frames, frames', place) /\ Innermost.at \in Passed
  PROVE  HInv'
<1>1. CallsInv /\ OuterInv
  BY DEF HInv, Inv
<1>2. OuterInv'
  BY <1>1, OuterKeeps
<1>3. /\ Count(Behind(frames), Depth) \in Nat /\ Count(BehindBrk(frames), Depth) \in Nat
      /\ Count(Behind(frames'), Depth') <= Count(Behind(frames), Depth)
      /\ Count(BehindBrk(frames'), Depth') <= Count(BehindBrk(frames), Depth)
      /\ Count(Behind(frames'), Depth') \in Nat /\ Count(BehindBrk(frames'), Depth') \in Nat
  <2>0. Depth' \in Int
    BY LenProperties DEF Inv, CallsInv, Depth
  <2>1. Count(Behind(frames'), Depth') \in Nat /\ Count(BehindBrk(frames'), Depth') \in Nat
    BY <2>0, CountType
  <2>2. CASE Shorter(frames, frames')
    BY <1>1, <2>1, <2>2, ShorterCounts
  <2>3. ASSUME NEW place, Moved(frames, frames', place), place \notin Passed \cup {"irqObserver"}
        PROVE  /\ Count(Behind(frames), Depth) \in Nat /\ Count(BehindBrk(frames), Depth) \in Nat
               /\ Count(Behind(frames'), Depth') <= Count(Behind(frames), Depth)
               /\ Count(BehindBrk(frames'), Depth') <= Count(BehindBrk(frames), Depth)
    <3>1. Depth \notin Behind(frames') /\ Depth \notin BehindBrk(frames')
      BY <1>1, <2>3, MovedBehind
    <3>2. QED
      BY <1>1, <2>3, <3>1, MovedCounts
  <2>4. ASSUME NEW place, Moved(frames, frames', place), Innermost.at \in Passed
        PROVE  /\ Count(Behind(frames), Depth) \in Nat /\ Count(BehindBrk(frames), Depth) \in Nat
               /\ Count(Behind(frames'), Depth') <= Count(Behind(frames), Depth)
               /\ Count(BehindBrk(frames'), Depth') <= Count(BehindBrk(frames), Depth)
    <3>1. Depth \in Behind(frames) /\ Depth \in BehindBrk(frames)
      BY <1>1, <2>4, InnermostBehind
    <3>2. QED
      BY <1>1, <2>4, <3>1, MovedCounts
  <2>5. QED
    BY <2>1, <2>2, <2>3, <2>4
<1>4. IrqInv'
  BY <1>3 DEF HInv, IrqInv, Kept, NotDue
<1>5. BrkInv'
  <2>1. CASE brkDue' = brkDue
    BY <1>3, <2>1 DEF HInv, BrkInv, Kept, NotDue
  <2>2. CASE brkDue' = NotDue
    BY <2>2, HostRunAssumption DEF BrkInv, NotDue
  <2>3. QED
    BY <2>1, <2>2
<1>6. QED
  BY <1>2, <1>4, <1>5 DEF HInv
-----------------------------------------------------------------------------
(***************************************************************************)
(* The host's steps.                                                       *)
(***************************************************************************)
\* The host's steps leave the active calls alone, or add one at "top".
LEMMA HostCounts ==
  ASSUME HInv, Inv', HostTurn, frames' = frames \/ \E f \in Frames : f.at = "top" /\ frames' = Append(frames, f)
  PROVE  /\ OuterInv'
         /\ Count(Behind(frames), Depth) \in Nat /\ Count(BehindBrk(frames), Depth) \in Nat
         /\ Count(Behind(frames'), Depth') = Count(Behind(frames), Depth)
         /\ Count(BehindBrk(frames'), Depth') = Count(BehindBrk(frames), Depth)
<1>1. frames \in Seq(Frames) /\ Depth \in Nat /\ Depth = Len(frames) /\ Depth \in Int
  BY LenProperties DEF HInv, Inv, CallsInv, Depth
<1>2. Count(Behind(frames), Depth) \in Nat /\ Count(BehindBrk(frames), Depth) \in Nat
  BY <1>1, CountType
<1>3. CASE frames' = frames
  BY <1>2, <1>3 DEF HInv, OuterInv, Depth
<1>4. ASSUME NEW f \in Frames, f.at = "top", frames' = Append(frames, f)
      PROVE  /\ OuterInv'
             /\ Count(Behind(frames'), Depth') = Count(Behind(frames), Depth)
             /\ Count(BehindBrk(frames'), Depth') = Count(BehindBrk(frames), Depth)
  <2>1. /\ frames' \in Seq(Frames) /\ Len(frames') = Depth + 1 /\ Depth' = Depth + 1
        /\ \A i \in 1..Depth : frames'[i] = frames[i]
        /\ frames'[Depth + 1] = f
    BY <1>1, <1>4, AppendProperties DEF Depth
  <2>2. OuterInv'
    <3>1. ASSUME NEW i \in 1..Depth PROVE frames[i].at \in Callbacks
      <4>1. CASE i \in 1..(Depth - 1)
        BY <4>1 DEF HInv, OuterInv
      <4>2. CASE i = Depth
        <5>1. Running
          BY <1>1, <4>2, EmptySeq DEF Running
        <5>2. QED
          BY <4>2, <5>1 DEF HostTurn, Innermost
      <4>3. QED
        BY <1>1, <4>1, <4>2
    <3>2. \A i \in 1..(Depth' - 1) : i \in 1..Depth
      BY <1>1, <2>1
    <3>3. QED
      BY <2>1, <3>1, <3>2 DEF OuterInv
  <2>3. /\ \A i \in 1..Depth : i \in Behind(frames) <=> i \in Behind(frames')
        /\ \A i \in 1..Depth : i \in BehindBrk(frames) <=> i \in BehindBrk(frames')
        /\ Depth' \notin Behind(frames') /\ Depth' \notin BehindBrk(frames')
    <3>1. \A i \in 1..Depth : i \in 1..Len(frames) /\ i \in 1..Len(frames')
      BY <1>1, <2>1
    <3>2. QED
      BY <1>4, <2>1, <3>1 DEF Behind, BehindBrk, Passed
  <2>4. Count(Behind(frames'), Depth') = Count(Behind(frames), Depth)
    BY <1>1, <2>1, <2>3, CountEnters
  <2>5. Count(BehindBrk(frames'), Depth') = Count(BehindBrk(frames), Depth)
    BY <1>1, <2>1, <2>3, CountEnters
  <2>6. QED
    BY <2>2, <2>4, <2>5
<1>5. QED
  BY <1>2, <1>3, <1>4

\* On the host's turn a call that is behind is in a callback.
LEMMA DueFacts ==
  ASSUME HInv, HostTurn
  PROVE  /\ Due \in Nat /\ Due < NotDue
         /\ Count(Behind(frames), Depth) = Due
         /\ Count(BehindBrk(frames), Depth) <= Due
<1>1. frames \in Seq(Frames) /\ Depth \in Nat /\ Depth = Len(frames) /\ Depth \in Int /\ Depth <= MaxDepth
  BY LenProperties DEF HInv, Inv, CallsInv, Depth
<1>2. ASSUME NEW i \in 1..Depth PROVE frames[i].at \in Callbacks
  <2>1. CASE i \in 1..(Depth - 1)
    BY <2>1 DEF HInv, OuterInv
  <2>2. CASE i = Depth
    <3>1. Running
      BY <1>1, <2>2, EmptySeq DEF Running
    <3>2. QED
      BY <2>2, <3>1 DEF HostTurn, Innermost
  <2>3. QED
    BY <1>1, <2>1, <2>2
<1> DEFINE D == {i \in 1..Depth : frames[i].at \in {"irqObserver", "instrHook"}}
<1>3. Behind(frames) \cap (1..Depth) = D
  BY <1>1, <1>2 DEF Behind, Passed, Callbacks
<1>4. Count(Behind(frames), Depth) = Due
  BY <1>3 DEF Count, Due
<1>5. BehindBrk(frames) \cap (1..Depth) \in SUBSET (Behind(frames) \cap (1..Depth))
  BY DEF Behind, BehindBrk
<1>6. IsFiniteSet(Behind(frames) \cap (1..Depth)) /\ Due \in Nat
  BY <1>1, <1>4, CountType
<1>7. Count(BehindBrk(frames), Depth) <= Due
  BY <1>4, <1>5, <1>6, FS_Subset DEF Count
<1>8. Due <= Depth
  BY <1>1, <1>4, CountBound
<1>9. QED
  BY <1>1, <1>4, <1>6, <1>7, <1>8, HostRunAssumption DEF NotDue

\* What the host's calls do to the flags and to the calls.
LEMMA HostEffects ==
  ASSUME HInv
  PROVE  /\ \A c \in Budgets : Execute(c) =>
              /\ Kept /\ HostTurn /\ Inv'
              /\ lines.hooked => "INT" \in regs'.spcflags
              /\ \E f \in Frames : f.at = "top" /\ frames' = Append(frames, f)
         /\ Step => /\ Kept /\ HostTurn /\ Inv'
                    /\ \E f \in Frames : f.at = "top" /\ frames' = Append(frames, f)
         /\ \A l \in IPL : SetIrq(l) \/ DeviceLevel(l) =>
              /\ Kept /\ HostTurn /\ Inv' /\ frames' = frames
         /\ \A l \in IPL \ {0} : SetIrq(l) => "INT" \in regs'.spcflags
         /\ \A l \in Virqs, active \in BOOLEAN : SetVirq(l, active) =>
              /\ Kept /\ HostTurn /\ Inv' /\ frames' = frames
              /\ active => "INT" \in regs'.spcflags
<1>1. Inv /\ regs \in Regs
  BY DEF HInv, Inv, RegsInv
<1>2. set_special(regs, {"INT"}).spcflags = regs.spcflags \cup {"INT"}
  BY <1>1, FlagsKept
<1>3. ASSUME NEW c \in Budgets, Execute(c)
      PROVE  /\ Kept /\ HostTurn /\ Inv'
             /\ lines.hooked => "INT" \in regs'.spcflags
             /\ \E f \in Frames : f.at = "top" /\ frames' = Append(frames, f)
  <2> DEFINE f == [kind |-> "run", left |-> c, at |-> "top", spc |-> {}, intr |-> 0]
  <2>1. f \in Frames /\ f.at = "top"
    BY HostRunAssumption, SpecialFlags, PlainPlaces DEF Frames
  <2>2. /\ frames' = Append(frames, f) /\ HostTurn
        /\ regs' = IF lines.hooked THEN set_special(regs, {"INT"}) ELSE regs
    BY <1>3 DEF Execute
  <2> HIDE DEF f
  <2>3. Kept /\ (lines.hooked => "INT" \in regs'.spcflags)
    BY <1>2, <2>2 DEF Kept
  <2>4. QED
    BY <1>1, <1>3, <2>1, <2>2, <2>3, ExecuteKeeps
<1>4. ASSUME Step
      PROVE  /\ Kept /\ HostTurn /\ Inv'
             /\ \E f \in Frames : f.at = "top" /\ frames' = Append(frames, f)
  <2> DEFINE f == [kind |-> "step", left |-> 0, at |-> "top", spc |-> {}, intr |-> 0]
  <2>1. f \in Frames /\ f.at = "top"
    BY SpecialFlags, PlainPlaces DEF Frames
  <2>2. frames' = Append(frames, f) /\ HostTurn /\ regs' = regs
    BY <1>4 DEF Step
  <2> HIDE DEF f
  <2>3. QED
    BY <1>1, <1>4, <2>1, <2>2, StepKeeps DEF Kept
<1>5. ASSUME NEW l \in IPL, SetIrq(l) \/ DeviceLevel(l)
      PROVE  Kept /\ HostTurn /\ Inv' /\ frames' = frames
  <2>1. Kept
    BY <1>2, <1>5 DEF SetIrq, DeviceLevel, Kept
  <2>2. QED
    BY <1>1, <1>5, <2>1, SetIrqKeeps DEF SetIrq, DeviceLevel
<1>6. ASSUME NEW l \in IPL \ {0}, SetIrq(l)
      PROVE  "INT" \in regs'.spcflags
  <2>1. l > 0
    BY DEF IPL
  <2>2. QED
    BY <1>2, <1>6, <2>1 DEF SetIrq
<1>7. ASSUME NEW l \in Virqs, NEW active \in BOOLEAN, SetVirq(l, active)
      PROVE  /\ Kept /\ HostTurn /\ Inv' /\ frames' = frames
             /\ active => "INT" \in regs'.spcflags
  <2>1. Kept /\ HostTurn /\ frames' = frames
    BY <1>2, <1>7 DEF SetVirq, Kept
  <2>2. active => "INT" \in regs'.spcflags
    <3>1. active => lines.pendingInterrupts \cup {l} # {}
      OBVIOUS
    <3>2. QED
      BY <1>2, <1>7, <3>1 DEF SetVirq
  <2>3. QED
    BY <1>1, <1>7, <2>1, <2>2, SetVirqKeeps
<1>8. QED
  BY <1>3, <1>4, <1>5, <1>6, <1>7

\* The host's calls that only write regs.
LEMMA HostRegsEffects ==
  ASSUME HInv
  PROVE  /\ SignalIrq => Kept /\ HostTurn /\ Inv' /\ frames' = frames /\ "INT" \in regs'.spcflags
         /\ EndTimeslice => Kept /\ HostTurn /\ Inv' /\ frames' = frames /\ "BRK" \in regs'.spcflags
         /\ PulseHalt => Kept /\ HostTurn /\ Inv' /\ frames' = frames
         /\ \A mask \in Masks : SetSR(mask) => Kept /\ HostTurn /\ Inv' /\ frames' = frames
         /\ SetPC => Kept /\ HostTurn /\ Inv' /\ frames' = frames
<1>1. Inv /\ regs \in Regs
  BY DEF HInv, Inv, RegsInv
<1>2. ASSUME NEW r \in Regs, HostSetsRegs(r), regs.spcflags \subseteq r.spcflags
      PROVE  Kept /\ HostTurn /\ Inv' /\ frames' = frames /\ regs' = r
  BY <1>1, <1>2, HostRegsKeep DEF HostSetsRegs, Kept
<1>3. /\ set_special(regs, {"INT"}).spcflags = regs.spcflags \cup {"INT"}
      /\ set_special(regs, {"INT"}) \in Regs
      /\ set_special(regs, {"BRK"}).spcflags = regs.spcflags \cup {"BRK"}
      /\ set_special(regs, {"BRK"}) \in Regs
  BY <1>1, FlagsKept, RegsTypes, SpecialFlags
<1>4. ASSUME SignalIrq
      PROVE  Kept /\ HostTurn /\ Inv' /\ frames' = frames /\ "INT" \in regs'.spcflags
  BY <1>2, <1>3, <1>4 DEF SignalIrq
<1>5. ASSUME EndTimeslice
      PROVE  Kept /\ HostTurn /\ Inv' /\ frames' = frames /\ "BRK" \in regs'.spcflags
  BY <1>2, <1>3, <1>5 DEF EndTimeslice
<1>6. ASSUME PulseHalt
      PROVE  Kept /\ HostTurn /\ Inv' /\ frames' = frames
  <2>1. [regs EXCEPT !.halted = TRUE] \in Regs /\ [regs EXCEPT !.halted = TRUE].spcflags = regs.spcflags
    BY <1>1 DEF Regs
  <2>2. QED
    BY <1>2, <1>6, <2>1 DEF PulseHalt
<1>7. ASSUME NEW mask \in Masks, SetSR(mask)
      PROVE  Kept /\ HostTurn /\ Inv' /\ frames' = frames
  <2>1. mask \in IPL
    BY HostRunAssumption
  <2>2. MakeFromSR(regs, mask) \in Regs /\ regs.spcflags \subseteq MakeFromSR(regs, mask).spcflags
    BY <1>1, <2>1, FlagsKept, RegsTypes, SpecialFlags
  <2>3. QED
    BY <1>2, <1>7, <2>2 DEF SetSR
<1>8. ASSUME SetPC
      PROVE  Kept /\ HostTurn /\ Inv' /\ frames' = frames
  BY <1>1, <1>8, OtherHostKeeps DEF SetPC, Kept
<1>9. QED
  BY <1>4, <1>5, <1>6, <1>7, <1>8

LEMMA PostInterruptKeeps ==
  ASSUME HInv, PostInterrupt
  PROVE  HInv'
<1>1. /\ Kept /\ HostTurn /\ Inv' /\ "INT" \in regs'.spcflags
      /\ frames' = frames \/ \E f \in Frames : f.at = "top" /\ frames' = Append(frames, f)
  <2>1. ASSUME NEW l \in Levels \ {0}, SetIrq(l)
        PROVE  Kept /\ HostTurn /\ Inv' /\ "INT" \in regs'.spcflags /\ frames' = frames
    BY <2>1, HostEffects, HostRunAssumption
  <2>2. ASSUME NEW l \in Virqs, SetVirq(l, TRUE)
        PROVE  Kept /\ HostTurn /\ Inv' /\ "INT" \in regs'.spcflags /\ frames' = frames
    BY <2>2, HostEffects
  <2>3. QED
    BY <2>1, <2>2, HostEffects, HostRegsEffects DEF PostInterrupt
<1>2. /\ OuterInv'
      /\ Count(Behind(frames), Depth) \in Nat /\ Count(BehindBrk(frames), Depth) \in Nat
      /\ Count(Behind(frames'), Depth') = Count(Behind(frames), Depth)
      /\ Count(BehindBrk(frames'), Depth') = Count(BehindBrk(frames), Depth)
  BY <1>1, HostCounts
<1>3. Due \in Nat /\ Due < NotDue /\ Count(Behind(frames), Depth) = Due
  BY <1>1, DueFacts
<1>4. IrqInv'
  <2>1. irqDue \in Nat /\ irqDue' = IF irqDue < Due THEN irqDue ELSE Due
    BY DEF PostInterrupt, HInv, IrqInv
  <2>2. ~(irqDue < Due)
    BY <1>3, <2>1, HostRunAssumption DEF HInv, IrqInv, NotDue
  <2>3. irqDue' = Due
    BY <2>1, <2>2
  <2>4. QED
    BY <1>1, <1>2, <1>3, <2>3 DEF IrqInv
<1>5. BrkInv'
  BY <1>1, <1>2 DEF PostInterrupt, HInv, BrkInv, Kept, NotDue
<1>6. QED
  BY <1>1, <1>2, <1>4, <1>5 DEF HInv

LEMMA RequestTimesliceKeeps ==
  ASSUME HInv, RequestTimeslice
  PROVE  HInv'
<1>1. Kept /\ HostTurn /\ Inv' /\ "BRK" \in regs'.spcflags /\ frames' = frames
  BY HostRegsEffects DEF RequestTimeslice
<1>2. /\ OuterInv'
      /\ Count(Behind(frames), Depth) \in Nat /\ Count(BehindBrk(frames), Depth) \in Nat
      /\ Count(Behind(frames'), Depth') = Count(Behind(frames), Depth)
      /\ Count(BehindBrk(frames'), Depth') = Count(BehindBrk(frames), Depth)
  BY <1>1, HostCounts
<1>3. Due \in Nat /\ Due < NotDue /\ Count(BehindBrk(frames), Depth) <= Due
  BY <1>1, DueFacts
<1>4. BrkInv'
  <2>1. brkDue \in Nat /\ brkDue' = IF brkDue < Due THEN brkDue ELSE Due
    BY DEF RequestTimeslice, HInv, BrkInv
  <2>2. CASE brkDue < Due
    <3>1. brkDue # NotDue
      BY <1>3, <2>1, <2>2, HostRunAssumption DEF NotDue
    <3>2. brkDue' = brkDue
      BY <2>1, <2>2
    <3>3. QED
      BY <1>1, <1>2, <2>1, <3>1, <3>2 DEF HInv, BrkInv
  <2>3. CASE ~(brkDue < Due)
    <3>1. brkDue' = Due
      BY <2>1, <2>3
    <3>2. QED
      BY <1>1, <1>2, <1>3, <3>1 DEF BrkInv
  <2>4. QED
    BY <2>2, <2>3
<1>5. IrqInv'
  BY <1>1, <1>2 DEF RequestTimeslice, HInv, IrqInv, Kept, NotDue
<1>6. QED
  BY <1>1, <1>2, <1>4, <1>5 DEF HInv

\* Host steps that ask for nothing, and steps that change nothing.
LEMMA IdleKeeps ==
  ASSUME HInv, Inv', HostTurn, Kept, UNCHANGED history,
         frames' = frames \/ \E f \in Frames : f.at = "top" /\ frames' = Append(frames, f)
  PROVE  HInv'
<1>1. /\ OuterInv'
      /\ Count(Behind(frames), Depth) \in Nat /\ Count(BehindBrk(frames), Depth) \in Nat
      /\ Count(Behind(frames'), Depth') = Count(Behind(frames), Depth)
      /\ Count(BehindBrk(frames'), Depth') = Count(BehindBrk(frames), Depth)
  BY HostCounts
<1>2. IrqInv'
  BY <1>1 DEF HInv, IrqInv, Kept, NotDue, history
<1>3. BrkInv'
  BY <1>1 DEF HInv, BrkInv, Kept, NotDue, history
<1>4. QED
  BY <1>1, <1>2, <1>3 DEF HInv

LEMMA OtherHostStepKeeps ==
  ASSUME HInv, OtherHostStep
  PROVE  HInv'
<1>1. UNCHANGED history /\ 0 \in IPL
  BY SpecialFlags DEF OtherHostStep
<1>2. CASE RaiseBusError
  <2>1. Inv /\ Running
    BY <1>2 DEF HInv, RaiseBusError
  <2>2. /\ Inv'
        /\ Moved(frames, frames', IF Handles(Innermost) THEN "doubleFault" ELSE "caught")
    BY <1>2, <2>1, RaiseKeeps
  <2>3. Kept
    BY <1>2 DEF RaiseBusError, Kept
  <2>4. "caught" \notin Passed \cup {"irqObserver"} /\ "doubleFault" \notin Passed \cup {"irqObserver"}
    BY DEF Passed
  <2>5. irqDue' = irqDue /\ brkDue' = brkDue
    BY <1>1 DEF history
  <2>6. QED
    BY <2>1, <2>2, <2>3, <2>4, <2>5, QuietKeeps, PlainPlaces
<1>3. CASE ~RaiseBusError
  <2>1. /\ Kept /\ HostTurn /\ Inv'
        /\ frames' = frames \/ \E f \in Frames : f.at = "top" /\ frames' = Append(frames, f)
    <3>1. ASSUME NEW l \in Levels, DeviceLevel(l)
          PROVE  Kept /\ HostTurn /\ Inv' /\ frames' = frames
      BY <3>1, HostEffects, HostRunAssumption
    <3>2. ASSUME NEW l \in Virqs, SetVirq(l, FALSE)
          PROVE  Kept /\ HostTurn /\ Inv' /\ frames' = frames
      BY <3>2, HostEffects
    <3>3. SetIrq(0) => Kept /\ HostTurn /\ Inv' /\ frames' = frames
      BY <1>1, HostEffects
    <3>4. QED
      BY <1>3, <3>1, <3>2, <3>3, HostEffects, HostRegsEffects DEF OtherHostStep
  <2>2. QED
    BY <1>1, <2>1, IdleKeeps
<1>4. QED
  BY <1>2, <1>3

LEMMA ResetAllKeeps ==
  ASSUME HInv, ResetAll
  PROVE  HInv'
<1>1. Inv' /\ frames' = frames
  BY OtherHostKeeps DEF HInv, ResetAll, Reset
<1>2. OuterInv'
  BY <1>1 DEF HInv, OuterInv, Depth
<1>3. NotDue \in Nat /\ irqDue' = NotDue /\ brkDue' = NotDue
  BY HostRunAssumption DEF NotDue, ResetAll
<1>4. QED
  BY <1>1, <1>2, <1>3 DEF HInv, IrqInv, BrkInv, NotDue
-----------------------------------------------------------------------------
(***************************************************************************)
(* The CPU's steps.                                                        *)
(***************************************************************************)
LEMMA GuestFlags ==
  ASSUME Inv, GuestStep
  PROVE  Kept
<1>1. regs \in Regs /\ lines \in Lines /\ intlev(lines) \in IPL
  BY IntlevType DEF Inv, RegsInv
<1>2. ASSUME NEW c \in {1, 2}, PlainInstruction(c) PROVE Kept
  BY <1>2 DEF PlainInstruction, Instruction, Kept
<1>3. ASSUME NEW mask \in Masks, LoadSR(mask) \/ Stop(mask) PROVE Kept
  <2>1. mask \in IPL
    BY HostRunAssumption
  <2>2. /\ regs.spcflags \subseteq MakeFromSR(regs, mask).spcflags
        /\ regs.spcflags \subseteq StopInstruction(regs, mask, intlev(lines)).spcflags
    BY <1>1, <2>1, FlagsKept
  <2>3. QED
    BY <1>3, <2>2 DEF LoadSR, Stop, Instruction, Kept
<1>4. CASE HookedInstruction \/ ResetInstruction \/ FaultingInstruction
  BY <1>4 DEF HookedInstruction, ResetInstruction, FaultingInstruction, Kept
<1>5. QED
  BY <1>2, <1>3, <1>4 DEF GuestStep

\* An instruction starts only if no request is outstanding that it must wait for.
LEMMA NotOvertaken ==
  ASSUME HInv, Ready
  PROVE  /\ irqDue # 0 /\ brkDue # 0
         /\ irqDue # NotDue => Depth \in Behind(frames)
         /\ brkDue # NotDue => Depth \in BehindBrk(frames)
<1>1. CallsInv /\ Running
  BY ReadyFacts DEF HInv, Inv
<1>2. \/ Innermost.at \in {"ready", "fetch"}
      \/ regs.spcflags = {}
  BY DEF Ready, Unattended, At
<1>3. Innermost.at \in {"ready", "fetch"} => Depth \in Behind(frames) /\ Depth \in BehindBrk(frames)
  BY <1>1, InnermostBehind DEF Passed
<1>4. /\ irqDue # NotDue => Depth \in Behind(frames)
      /\ brkDue # NotDue => Depth \in BehindBrk(frames)
  BY <1>2, <1>3 DEF HInv, IrqInv, BrkInv
<1>5. Depth \in Nat \ {0}
  BY <1>1, InnermostFacts
<1>6. ASSUME NEW S, Depth \in S PROVE Count(S, Depth) \in Nat /\ Count(S, Depth) # 0
  <2>1. Count(S, Depth) = Count(S, Depth - 1) + 1
    BY <1>5, <1>6, CountNext
  <2>2. Depth - 1 \in Int
    BY <1>5
  <2>3. Count(S, Depth - 1) \in Nat
    BY <2>2, CountType
  <2>4. QED
    BY <2>1, <2>3
<1>7. NotDue # 0
  BY HostRunAssumption DEF NotDue
<1>8. irqDue # 0
  BY <1>4, <1>6, <1>7 DEF HInv, IrqInv
<1>9. brkDue # 0
  BY <1>4, <1>6, <1>7 DEF HInv, BrkInv
<1>10. QED
  BY <1>4, <1>8, <1>9

LEMMA StartInstructionKeeps ==
  ASSUME HInv, StartInstruction
  PROVE  HInv'
<1>1. /\ Inv' /\ Ready /\ Inv
      /\ \/ Shorter(frames, frames')
         \/ \E place \in {"top", "hook", "resetHook", "caught"} : Moved(frames, frames', place)
  BY GuestStepKeeps DEF HInv, StartInstruction
<1>2. CallsInv /\ Running /\ Kept
  BY <1>1, ReadyFacts, GuestFlags DEF HInv, Inv, StartInstruction
<1>3. OuterInv'
  BY <1>1, <1>2, OuterKeeps DEF HInv
<1>4. /\ irqDue # 0 /\ brkDue # 0
      /\ irqDue # NotDue => Depth \in Behind(frames)
      /\ brkDue # NotDue => Depth \in BehindBrk(frames)
  BY <1>1, NotOvertaken
<1>5. /\ Count(Behind(frames), Depth) \in Nat /\ Count(BehindBrk(frames), Depth) \in Nat
      /\ Count(Behind(frames'), Depth') =
           Count(Behind(frames), Depth) - (IF Depth \in Behind(frames) THEN 1 ELSE 0)
      /\ Count(BehindBrk(frames'), Depth') =
           Count(BehindBrk(frames), Depth) - (IF Depth \in BehindBrk(frames) THEN 1 ELSE 0)
  <2>1. CASE Shorter(frames, frames')
    BY <1>2, <2>1, ShorterCounts
  <2>2. ASSUME NEW place \in {"top", "hook", "resetHook", "caught"}, Moved(frames, frames', place)
        PROVE  /\ Count(Behind(frames), Depth) \in Nat /\ Count(BehindBrk(frames), Depth) \in Nat
               /\ Count(Behind(frames'), Depth') =
                    Count(Behind(frames), Depth) - (IF Depth \in Behind(frames) THEN 1 ELSE 0)
               /\ Count(BehindBrk(frames'), Depth') =
                    Count(BehindBrk(frames), Depth) - (IF Depth \in BehindBrk(frames) THEN 1 ELSE 0)
    <3>1. place \notin Passed \cup {"irqObserver"}
      BY DEF Passed
    <3>2. Depth \notin Behind(frames') /\ Depth \notin BehindBrk(frames')
      BY <1>2, <2>2, <3>1, MovedBehind
    <3>3. QED
      BY <1>2, <2>2, <3>2, MovedCounts
  <2>3. QED
    BY <1>1, <2>1, <2>2
<1>6. NotDue \in Nat
  BY HostRunAssumption DEF NotDue
<1>7. IrqInv'
  <2>1. irqDue \in Nat /\ irqDue' = IF irqDue = NotDue THEN irqDue ELSE irqDue - 1
    BY <1>4 DEF StartInstruction, CountDown, HInv, IrqInv
  <2>2. CASE irqDue = NotDue
    BY <1>6, <2>1, <2>2 DEF IrqInv, NotDue
  <2>3. CASE irqDue # NotDue
    <3>1. "INT" \in regs'.spcflags /\ Count(Behind(frames), Depth) <= irqDue
      BY <1>2, <2>3 DEF HInv, IrqInv, Kept
    <3>2. irqDue' \in Nat /\ Count(Behind(frames'), Depth') <= irqDue'
      BY <1>4, <1>5, <2>1, <2>3, <3>1
    <3>3. QED
      BY <3>1, <3>2 DEF IrqInv
  <2>4. QED
    BY <2>2, <2>3
<1>8. BrkInv'
  <2>1. /\ brkDue \in Nat
        /\ brkDue' \in {NotDue, IF brkDue = NotDue THEN brkDue ELSE brkDue - 1}
    BY <1>4 DEF StartInstruction, Expires, CountDown, HInv, BrkInv
  <2>2. CASE brkDue' = NotDue
    BY <1>6, <2>2 DEF BrkInv, NotDue
  <2>3. CASE brkDue' # NotDue
    <3>0. brkDue # NotDue /\ brkDue' = brkDue - 1
      BY <2>1, <2>3
    <3>1. "BRK" \in regs'.spcflags /\ Count(BehindBrk(frames), Depth) <= brkDue
      BY <1>2, <3>0 DEF HInv, BrkInv, Kept
    <3>2. brkDue' \in Nat /\ Count(BehindBrk(frames'), Depth') <= brkDue'
      BY <1>4, <1>5, <2>1, <3>0, <3>1
    <3>3. QED
      BY <3>1, <3>2 DEF BrkInv
  <2>4. QED
    BY <2>2, <2>3
<1>9. QED
  BY <1>1, <1>3, <1>7, <1>8 DEF HInv

\* do_specialties looks at INT, and returns for a BRK it sees.
LEMMA CheckInterruptsKeeps ==
  ASSUME HInv, CheckInterrupts
  PROVE  HInv'
<1>1. /\ Inv' /\ CallsInv /\ Running /\ regs \in Regs
      /\ \/ "BRK" \in regs.spcflags /\ Shorter(frames, frames')
         \/ "BRK" \notin regs.spcflags /\ Moved(frames, frames', "ready")
         \/ /\ Moved(frames, frames', "irqObserver")
            /\ frames'[Depth].spc = regs.spcflags
            /\ regs' = unset_special(regs, {"INT", "DOINT"})
  BY SpecialtiesKeeps DEF HInv, Inv, RegsInv, CheckInterrupts, Specialties, At
<1>2. OuterInv'
  BY <1>1, OuterKeeps DEF HInv
<1>3. NotDue \in Nat
  BY HostRunAssumption DEF NotDue
<1>4. IrqInv'
  <2>1. irqDue' = NotDue
    BY DEF HInv, IrqInv, CheckInterrupts
  <2>2. QED
    BY <1>3, <2>1 DEF IrqInv, NotDue
<1>5. BrkInv'
  <2>1. brkDue \in Nat /\ brkDue' = IF Depth' < Depth THEN NotDue ELSE brkDue
    BY DEF HInv, BrkInv, CheckInterrupts, Answered
  <2>2. CASE brkDue' = NotDue
    BY <1>3, <2>2 DEF BrkInv, NotDue
  <2>3. CASE brkDue' # NotDue
    <3>1. brkDue' = brkDue /\ ~(Depth' < Depth)
      BY <2>1, <2>3
    <3>2. "BRK" \in regs.spcflags /\ Count(BehindBrk(frames), Depth) <= brkDue
      BY <2>3, <3>1 DEF HInv, BrkInv
    <3>3. ~Shorter(frames, frames')
      BY <1>1, <3>1, ShorterCounts
    <3>4. /\ Moved(frames, frames', "irqObserver")
          /\ frames'[Depth].spc = regs.spcflags
          /\ regs' = unset_special(regs, {"INT", "DOINT"})
      BY <1>1, <3>2, <3>3
    <3>5. "BRK" \in regs'.spcflags
      BY <1>1, <3>2, <3>4, FlagsKept
    <3>6. Depth \notin BehindBrk(frames')
      BY <1>1, <3>2, <3>4, MovedBehind
    <3>7. Count(BehindBrk(frames'), Depth') <= brkDue
      BY <1>1, <2>1, <3>2, <3>4, <3>6, MovedCounts
    <3>8. QED
      BY <2>1, <3>1, <3>5, <3>7 DEF BrkInv
  <2>4. QED
    BY <2>2, <2>3
<1>6. QED
  BY <1>1, <1>2, <1>4, <1>5 DEF HInv

\* The observer returned: a BRK seen on entry makes the call return.
LEMMA EnterInterruptKeeps ==
  ASSUME HInv, EnterInterrupt
  PROVE  HInv'
<1>1. /\ Inv' /\ CallsInv /\ Running /\ Innermost.at = "irqObserver"
      /\ {"INT"} \cap regs.spcflags \subseteq regs'.spcflags
      /\ \/ "BRK" \in Innermost.spc /\ Shorter(frames, frames')
         \/ /\ "BRK" \notin Innermost.spc /\ Moved(frames, frames', "ready")
            /\ {"BRK"} \cap regs.spcflags \subseteq regs'.spcflags
         \/ /\ Moved(frames, frames', "caught")
            /\ {"BRK"} \cap regs.spcflags \subseteq regs'.spcflags
  BY TakeInterruptKeeps DEF HInv, Inv, EnterInterrupt, TakeInterrupt, At
<1>2. OuterInv'
  BY <1>1, OuterKeeps DEF HInv
<1>3. NotDue \in Nat
  BY HostRunAssumption DEF NotDue
<1>4. /\ Depth \in Behind(frames)
      /\ Depth \in BehindBrk(frames) <=> "BRK" \notin Innermost.spc
  BY <1>1, InnermostBehind DEF Passed
<1>5. IrqInv'
  <2>1. irqDue \in Nat /\ irqDue' = irqDue
    BY DEF HInv, IrqInv, EnterInterrupt
  <2>2. CASE irqDue = NotDue
    BY <2>1, <2>2 DEF IrqInv, NotDue
  <2>3. CASE irqDue # NotDue
    <3>1. "INT" \in regs'.spcflags /\ Count(Behind(frames), Depth) <= irqDue
      BY <1>1, <2>3 DEF HInv, IrqInv
    <3>2. Count(Behind(frames'), Depth') <= irqDue
      <4>1. CASE Shorter(frames, frames')
        BY <1>1, <1>4, <2>1, <3>1, <4>1, ShorterCounts
      <4>2. ASSUME NEW place, Moved(frames, frames', place)
            PROVE  Count(Behind(frames'), Depth') <= irqDue
        BY <1>1, <1>4, <2>1, <3>1, <4>2, MovedCounts
      <4>3. QED
        BY <1>1, <4>1, <4>2
    <3>3. QED
      BY <2>1, <3>1, <3>2 DEF IrqInv
  <2>4. QED
    BY <2>2, <2>3
<1>6. BrkInv'
  <2>1. brkDue \in Nat /\ brkDue' = IF Depth' < Depth THEN NotDue ELSE brkDue
    BY DEF HInv, BrkInv, EnterInterrupt, Answered
  <2>2. CASE brkDue' = NotDue
    BY <1>3, <2>2 DEF BrkInv, NotDue
  <2>3. CASE brkDue' # NotDue
    <3>1. brkDue' = brkDue /\ ~(Depth' < Depth)
      BY <2>1, <2>3
    <3>2. "BRK" \in regs.spcflags /\ Count(BehindBrk(frames), Depth) <= brkDue
      BY <2>3, <3>1 DEF HInv, BrkInv
    <3>3. ~Shorter(frames, frames')
      BY <1>1, <3>1, ShorterCounts
    <3>4. "BRK" \in regs'.spcflags
      BY <1>1, <3>2, <3>3
    <3>5. Count(BehindBrk(frames'), Depth') <= brkDue
      <4>1. CASE "BRK" \notin Innermost.spc /\ Moved(frames, frames', "ready")
        BY <1>1, <1>4, <2>1, <3>2, <4>1, MovedCounts
      <4>2. CASE Moved(frames, frames', "caught")
        <5>1. Depth \notin BehindBrk(frames')
          BY <1>1, <4>2, MovedBehind DEF Passed
        <5>2. QED
          BY <1>1, <2>1, <3>2, <4>2, <5>1, MovedCounts
      <4>3. QED
        BY <1>1, <3>3, <4>1, <4>2
    <3>6. QED
      BY <2>1, <3>1, <3>4, <3>5 DEF BrkInv
  <2>4. QED
    BY <2>2, <2>3
<1>7. QED
  BY <1>1, <1>2, <1>5, <1>6 DEF HInv

\* The instruction hook is called with no request outstanding, or past the check.
LEMMA InstrHookStepKeeps ==
  ASSUME HInv, InstrHook \/ InstrHookReturns, irqDue' = irqDue, brkDue' \in {brkDue, NotDue}
  PROVE  HInv'
<1>1. /\ Inv' /\ CallsInv /\ Running /\ Kept
      /\ Moved(frames, frames', IF InstrHook THEN "instrHook" ELSE "fetch")
  <2>1. Running /\ Kept
    BY DEF InstrHook, InstrHookReturns, Unattended, At, Kept
  <2>2. QED
    BY <2>1, InstrHookKeeps DEF HInv, Inv
<1>2. CASE Innermost.at \in Passed
  BY <1>1, <1>2, QuietKeeps DEF Passed
<1>3. CASE Innermost.at \notin Passed
  <2>1. regs.spcflags = {}
    BY <1>3 DEF InstrHook, InstrHookReturns, Unattended, At, Passed
  <2>2. irqDue' = NotDue /\ brkDue' = NotDue
    BY <2>1 DEF HInv, IrqInv, BrkInv
  <2>3. NotDue \in Nat
    BY HostRunAssumption DEF NotDue
  <2>4. OuterInv'
    BY <1>1, OuterKeeps DEF HInv
  <2>5. QED
    BY <1>1, <2>2, <2>3, <2>4 DEF HInv, IrqInv, BrkInv, NotDue
<1>4. QED
  BY <1>2, <1>3

LEMMA OtherCpuStepKeeps ==
  ASSUME HInv, OtherCpuStep
  PROVE  HInv'
<1>1. /\ irqDue' = irqDue /\ brkDue' \in {brkDue, NotDue}
      /\ Inv /\ regs \in Regs /\ lines \in Lines /\ intlev(lines) \in IPL
  BY IntlevType DEF OtherCpuStep, Expires, HInv, Inv, RegsInv
<1>2. CASE InstrHook \/ InstrHookReturns
  BY <1>1, <1>2, InstrHookStepKeeps
<1>3. ASSUME LeaveLoop \/ BusErrorCaught \/ DoubleFault \/ HookReturns \/ TakeBusError \/ HookDeclines
      PROVE  HInv'
  <2>1. Running
    BY <1>3 DEF LeaveLoop, BusErrorCaught, DoubleFault, HookReturns, TakeBusError, HookDeclines, At
  <2>2. Kept
    <3>1. CASE LeaveLoop \/ BusErrorCaught \/ DoubleFault \/ HookReturns
      BY <3>1 DEF LeaveLoop, BusErrorCaught, DoubleFault, HookReturns, Kept
    <3>2. /\ regs.spcflags \subseteq m68k_resumestopped(regs).spcflags
          /\ regs.spcflags \subseteq
               ExceptionEntered(m68k_resumestopped(regs), intlev(lines)).spcflags
      BY <1>1, FlagsKept
    <3>3. CASE TakeBusError \/ HookDeclines
      <4>1. \/ regs' = ExceptionEntered(m68k_resumestopped(regs), intlev(lines))
            \/ regs' = m68k_resumestopped(regs)
        BY <3>3 DEF TakeBusError, HookDeclines
      <4>2. QED
        BY <3>2, <4>1 DEF Kept
    <3>4. QED
      BY <1>3, <3>1, <3>3
  <2>3. /\ Inv'
        /\ \/ Shorter(frames, frames')
           \/ \E place \in {"top", "caught", "busObserver", "doubleFault"} :
                Moved(frames, frames', place)
    BY <1>1, <1>3, LeaveLoopKeeps, BusErrorCaughtKeeps, DoubleFaultKeeps, HookReturnsKeeps,
       TakeBusErrorKeeps, HookDeclinesKeeps
  <2>4. \A place \in {"top", "caught", "busObserver", "doubleFault"} :
          place \in Places /\ place \notin Passed \cup {"irqObserver"}
    BY PlainPlaces DEF Passed
  <2>5. QED
    BY <1>1, <2>1, <2>2, <2>3, <2>4, QuietKeeps
<1>4. QED
  BY <1>2, <1>3 DEF OtherCpuStep
-----------------------------------------------------------------------------
LEMMA HInitInv ==
  ASSUME HInit
  PROVE  HInv
<1>1. Inv /\ frames = <<>> /\ Depth = 0
  BY InitInv, EmptySeq DEF HInit, Init, Depth
<1>2. OuterInv
  BY <1>1 DEF OuterInv
<1>3. NotDue \in Nat
  BY HostRunAssumption DEF NotDue
<1>4. QED
  BY <1>1, <1>2, <1>3 DEF HInv, HInit, IrqInv, BrkInv, NotDue

LEMMA HNextInv ==
  ASSUME HInv, [HNext]_hvars
  PROVE  HInv'
<1>1. CASE HNext
  BY <1>1, PostInterruptKeeps, RequestTimesliceKeeps, OtherHostStepKeeps, ResetAllKeeps,
     CheckInterruptsKeeps, EnterInterruptKeeps, StartInstructionKeeps, OtherCpuStepKeeps
     DEF HNext
<1>2. CASE UNCHANGED hvars
  <2>1. UNCHANGED vars /\ UNCHANGED history
    BY <1>2 DEF hvars
  <2>2. Inv'
    BY <2>1, NextInv DEF HInv
  <2>3. UNCHANGED <<frames, regs, irqDue, brkDue>>
    BY <2>1 DEF vars, history
  <2>4. QED
    BY <2>2, <2>3 DEF HInv, OuterInv, IrqInv, BrkInv, Depth, Behind, BehindBrk
<1>3. QED
  BY <1>1, <1>2

\* The strengthening is an invariant of the loops with their history.
THEOREM HInvTheorem == HSpec => []HInv
<1>1. HInit => HInv
  BY HInitInv
<1>2. HInv /\ [HNext]_hvars => HInv'
  BY HNextInv
<1>3. QED
  BY <1>1, <1>2, PTL DEF HSpec

LEMMA GuestStepIsReady ==
  ASSUME HInv
  PROVE  [GuestStep => irqDue # 0 /\ brkDue # 0]_hvars
BY GuestStepKeeps, NotOvertaken DEF HInv

(***************************************************************************)
(* No interrupt check asked for by set_irq, set_virq, signal_irq or an     *)
(* execute call under a get_irq hook is lost, however deeply the calls     *)
(* nest: an instruction starts only when the requests before it have been  *)
(* looked at, but for one instruction of each call that was in the middle  *)
(* of do_specialties.                                                      *)
(***************************************************************************)
THEOREM ChecksTheorem == HSpec => ChecksBeforeInstructions
<1>1. HInv => [GuestStep => irqDue # 0]_hvars
  BY GuestStepIsReady
<1>2. QED
  BY <1>1, HInvTheorem, PTL DEF ChecksBeforeInstructions

(***************************************************************************)
(* After uae_cpu_end_timeslice no instruction starts in the innermost      *)
(* execute call, or in a call nested in it, before such a call has         *)
(* returned for the request, but for one in each call that was in the      *)
(* middle of do_specialties.                                               *)
(***************************************************************************)
THEOREM TimesliceTheorem == HSpec => TimesliceEndsPromptly
<1>1. HInv => [GuestStep => brkDue # 0]_hvars
  BY GuestStepIsReady
<1>2. QED
  BY <1>1, HInvTheorem, PTL DEF TimesliceEndsPromptly
=============================================================================
