---------------------------- MODULE PingBodyProofs ----------------------------
(***************************************************************************)
(* isPingBody computes the classification of spec 4.2 for every frame, of *)
(* any length and over any alphabet: the byte loop keeps its brace counts *)
(* equal to the counts over the bytes it has read, and stops with         *)
(* "command" at the first byte that is neither a brace nor whitespace.    *)
(***************************************************************************)
EXTENDS PingBody, FiniteSetTheorems, TLAPS

(* The number of bytes b among the first n bytes of r.                     *)
PCount(r, n, b) == Cardinality({k \in 1..n : r[k] = b})

(* The loop invariant of the range loop.  While the loop runs, leftBraces *)
(* and rightBraces count the braces among the bytes before index i, and   *)
(* each of those bytes is a brace or whitespace (otherwise the loop would *)
(* have returned); once a result is set, it is the classification.        *)
PInv ==
    /\ raw \in Seq(Byte)
    /\ i \in 1..(Len(raw) + 1)
    /\ res \in {"running", "ping", "command", "bad"}
    /\ res = "running" =>
          /\ left = PCount(raw, i - 1, LBrace)
          /\ right = PCount(raw, i - 1, RBrace)
          /\ \A k \in 1..(i - 1) : raw[k] \in {LBrace, RBrace} \cup Space
    /\ res # "running" => res = Classify(raw)

(* Counting over one more byte adds one when that byte is b.              *)
LEMMA PCountStep ==
    ASSUME NEW r \in Seq(Byte), NEW n \in 0..(Len(r) - 1), NEW b
    PROVE  /\ PCount(r, n, b) \in Nat
           /\ PCount(r, n + 1, b) = PCount(r, n, b) + (IF r[n + 1] = b THEN 1 ELSE 0)
<1>. DEFINE S == {k \in 1..n : r[k] = b}
<1>1. IsFiniteSet(S) /\ Cardinality(S) \in Nat
    <2>1. IsFiniteSet(1..n)
        BY FS_Interval
    <2>2. S \subseteq 1..n
        OBVIOUS
    <2>. QED
        BY <2>1, <2>2, FS_Subset, FS_CardinalityType
<1>2. n + 1 \notin S
    OBVIOUS
<1>3. {k \in 1..(n + 1) : r[k] = b} = IF r[n + 1] = b THEN S \cup {n + 1} ELSE S
    OBVIOUS
<1>4. PCount(r, n, b) = Cardinality(S)
    BY DEF PCount
<1>5. CASE r[n + 1] = b
    <2>1. PCount(r, n + 1, b) = Cardinality(S \cup {n + 1})
        BY <1>3, <1>5 DEF PCount
    <2>2. Cardinality(S \cup {n + 1}) = Cardinality(S) + 1
        BY <1>1, <1>2, FS_AddElement
    <2>. QED
        BY <1>1, <1>4, <1>5, <2>1, <2>2
<1>6. CASE r[n + 1] # b
    <2>1. PCount(r, n + 1, b) = Cardinality(S)
        BY <1>3, <1>6 DEF PCount
    <2>. QED
        BY <1>1, <1>4, <1>6, <2>1
<1>. QED
    BY <1>5, <1>6

(* No byte has been counted before the loop starts.                       *)
LEMMA PCountZero ==
    ASSUME NEW r, NEW b
    PROVE  PCount(r, 0, b) = 0
<1>1. {k \in 1..0 : r[k] = b} = {}
    OBVIOUS
<1>2. PCount(r, 0, b) = Cardinality({})
    BY <1>1 DEF PCount
<1>. QED
    BY <1>2, FS_EmptySet

LEMMA InitPInv == Init => PInv
<1>. SUFFICES ASSUME Init PROVE PInv
    OBVIOUS
<1>1. raw \in Seq(Byte)
    <2>1. PICK n \in 0..MaxLen : raw \in [1..n -> Byte]
        BY DEF Init
    <2>. QED
        BY <2>1, PingBodyAssumption
<1>2. PCount(raw, 0, LBrace) = 0 /\ PCount(raw, 0, RBrace) = 0
    BY PCountZero
<1>. QED
    BY <1>1, <1>2 DEF Init, PInv

LEMMA ScanBytePInv ==
    ASSUME PInv, ScanByte
    PROVE  PInv'
<1>1. /\ raw \in Seq(Byte) /\ i \in 1..Len(raw) /\ ~FastCase(raw)
      /\ left = PCount(raw, i - 1, LBrace) /\ right = PCount(raw, i - 1, RBrace)
      /\ \A k \in 1..(i - 1) : raw[k] \in {LBrace, RBrace} \cup Space
      /\ raw' = raw /\ i' = i + 1
    BY DEF PInv, ScanByte
<1>2. /\ PCount(raw, i, LBrace) = PCount(raw, i - 1, LBrace) + (IF raw[i] = LBrace THEN 1 ELSE 0)
      /\ PCount(raw, i, RBrace) = PCount(raw, i - 1, RBrace) + (IF raw[i] = RBrace THEN 1 ELSE 0)
    <2>1. i - 1 \in 0..(Len(raw) - 1) /\ (i - 1) + 1 = i
        BY <1>1
    <2>. QED
        BY <1>1, <2>1, PCountStep
<1>3. CASE raw[i] \in {LBrace, RBrace} \cup Space
    <2>1. res' = "running" /\ left' = PCount(raw, i, LBrace) /\ right' = PCount(raw, i, RBrace)
        BY <1>1, <1>2, <1>3 DEF ScanByte
    <2>2. \A k \in 1..i : raw[k] \in {LBrace, RBrace} \cup Space
        BY <1>1, <1>3
    <2>. QED
        BY <1>1, <2>1, <2>2 DEF PInv
<1>4. CASE raw[i] \notin {LBrace, RBrace} \cup Space
    <2>1. res' = "command"
        BY <1>4 DEF ScanByte
    <2>2. Classify(raw) = "command"
        BY <1>1, <1>4 DEF Classify
    <2>. QED
        BY <1>1, <2>1, <2>2 DEF PInv
<1>. QED
    BY <1>3, <1>4

LEMMA VerdictPInv ==
    ASSUME PInv, Verdict
    PROVE  PInv'
<1>1. /\ raw \in Seq(Byte) /\ i = Len(raw) + 1 /\ ~FastCase(raw)
      /\ left = Count(raw, LBrace) /\ right = Count(raw, RBrace)
      /\ \A k \in 1..Len(raw) : raw[k] \in {LBrace, RBrace} \cup Space
    <2>1. /\ raw \in Seq(Byte) /\ i = Len(raw) + 1 /\ ~FastCase(raw)
          /\ left = PCount(raw, i - 1, LBrace) /\ right = PCount(raw, i - 1, RBrace)
          /\ \A k \in 1..(i - 1) : raw[k] \in {LBrace, RBrace} \cup Space
        BY DEF PInv, Verdict
    <2>2. i - 1 = Len(raw)
        BY <2>1
    <2>3. \A b : PCount(raw, Len(raw), b) = Count(raw, b)
        BY DEF PCount, Count
    <2>. QED
        BY <2>1, <2>2, <2>3
<1>2. Classify(raw) = IF left <= 1 /\ left = right THEN "ping" ELSE "bad"
    BY <1>1 DEF Classify
<1>. QED
    BY <1>1, <1>2 DEF PInv, Verdict

LEMMA NextPInv == PInv /\ [Next]_vars => PInv'
<1>. SUFFICES ASSUME PInv, [Next]_vars PROVE PInv'
    OBVIOUS
<1>1. CASE Fast
    BY <1>1 DEF Fast, PInv, Classify
<1>2. CASE ScanByte
    BY <1>2, ScanBytePInv
<1>3. CASE Verdict
    BY <1>3, VerdictPInv
<1>4. CASE UNCHANGED vars
    BY <1>4 DEF vars, PInv
<1>. QED
    BY <1>1, <1>2, <1>3, <1>4 DEF Next

(* Whatever the frame, of any length, isPingBody's verdict is the         *)
(* classification spec 4.2 gives it: the fast path for short frames and   *)
(* "{}", the early return on a byte that is neither a brace nor          *)
(* whitespace, and the brace-count test after the loop (worker.go:678-703, *)
(* spec property 3).                                                      *)
THEOREM ClassifiesAsSpecifiedHolds == Spec => []ClassifiesAsSpecified
<1>1. Spec => []PInv
    BY InitPInv, NextPInv, PTL DEF Spec
<1>2. PInv => ClassifiesAsSpecified
    BY DEF PInv, ClassifiesAsSpecified
<1>. QED
    BY <1>1, <1>2, PTL
=============================================================================
