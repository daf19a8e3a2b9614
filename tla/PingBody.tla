------------------------------ MODULE PingBody ------------------------------
(***************************************************************************)
(* isPingBody (worker.go:678-703), the frame classifier the receive loop   *)
(* runs before any JSON decoding, as the loop it is: the fast path for     *)
(* short frames and "{}", then one step per byte counting braces and       *)
(* giving up at the first byte that is neither a brace nor whitespace,     *)
(* then the verdict on the counts.  A frame is a sequence over a small     *)
(* alphabet: the two braces, one whitespace byte standing for tab, CR, LF  *)
(* and space (the code treats the four alike), and one other byte.        *)
(***************************************************************************)
EXTENDS Integers, Sequences, FiniteSets

(* The bytes '{' and '}' of the switch (lines 688 and 690).                *)
LBrace == "lbrace"
RBrace == "rbrace"

CONSTANTS
    Byte,     \* the alphabet of frames
    Space,    \* the whitespace bytes of the switch
    MaxLen    \* bound on the length of a frame

ASSUME PingBodyAssumption ==
    /\ {LBrace, RBrace} \subseteq Byte
    /\ Space \subseteq Byte \ {LBrace, RBrace}
    /\ MaxLen \in Nat

VARIABLES
    raw,      \* the frame
    i,        \* index of the next byte of the range loop
    left,     \* leftBraces
    right,    \* rightBraces
    res       \* "running", or the result: "ping", "command" (false, nil)
              \* or "bad" (false, ErrBadPayload)

vars == <<raw, i, left, right, res>>

(* The fast case of line 679.                                             *)
FastCase(r) == Len(r) < 2 \/ r = <<LBrace, RBrace>>

Init ==
    /\ raw \in UNION {[1..n -> Byte] : n \in 0..MaxLen}
    /\ i = 1
    /\ left = 0 /\ right = 0
    /\ res = "running"

Fast ==
    /\ res = "running"
    /\ FastCase(raw)
    /\ res' = "ping"
    /\ UNCHANGED <<raw, i, left, right>>

(* One iteration of the range loop (lines 686-697).                       *)
ScanByte ==
    /\ res = "running"
    /\ ~FastCase(raw)
    /\ i <= Len(raw)
    /\ i' = i + 1
    /\ left' = IF raw[i] = LBrace THEN left + 1 ELSE left
    /\ right' = IF raw[i] = RBrace THEN right + 1 ELSE right
    /\ res' = IF raw[i] \in {LBrace, RBrace} \cup Space THEN "running" ELSE "command"
    /\ UNCHANGED raw

(* Mutant: a frame with one brace of each kind counted as bad.            *)
VerdictStrict ==
    /\ res = "running"
    /\ ~FastCase(raw)
    /\ i > Len(raw)
    /\ res' = IF left < 1 /\ left = right THEN "ping" ELSE "bad"
    /\ UNCHANGED <<raw, i, left, right>>

(* After the loop (lines 698-702).                                        *)
Verdict ==
    /\ res = "running"
    /\ ~FastCase(raw)
    /\ i > Len(raw)
    /\ res' = IF left <= 1 /\ left = right THEN "ping" ELSE "bad"
    /\ UNCHANGED <<raw, i, left, right>>

Next == Fast \/ ScanByte \/ Verdict

Spec == Init /\ [][Next]_vars

-----------------------------------------------------------------------------
Count(r, b) == Cardinality({k \in 1..Len(r) : r[k] = b})
NonBlank(r) == SelectSeq(r, LAMBDA x : x \notin Space)

(* The classification spec 4.2 states for the whole frame: short frames   *)
(* and "{}" are pings; a frame with any byte other than braces and        *)
(* whitespace is a command; of the rest, at most one '{' matched by as    *)
(* many '}' is a ping and anything else a bad payload.                    *)
Classify(r) ==
    IF FastCase(r) THEN "ping"
    ELSE IF \E k \in 1..Len(r) : r[k] \notin {LBrace, RBrace} \cup Space THEN "command"
    ELSE IF Count(r, LBrace) <= 1 /\ Count(r, LBrace) = Count(r, RBrace) THEN "ping"
    ELSE "bad"

(* The byte loop, with its early exit, computes that classification for   *)
(* every frame up to MaxLen bytes (spec 4.2 and property 3).              *)
ClassifiesAsSpecified == res # "running" => res = Classify(raw)

(* The comment of lines 683-684: a frame that reaches the classifier (the *)
(* loop skips empty ones) is taken for a ping only when it is an empty    *)
(* object literal, ignoring leading and trailing whitespace.              *)
PingIsEmptyObject == res = "ping" /\ raw # <<>> => NonBlank(raw) = <<LBrace, RBrace>>
=============================================================================
