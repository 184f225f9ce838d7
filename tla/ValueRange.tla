----------------------------- MODULE ValueRange ------------------------------
(***************************************************************************)
(* ValueRange: closed intervals of numbers, and what is said of them by     *)
(* comparing their ends.                                                   *)
(***************************************************************************)
EXTENDS Integers

CONSTANTS
  Ranges, \* the ValueRange objects
  Numbers \* the ends and the values in use

ASSUME RangeAssumption == Numbers \subseteq Int

VARIABLE
  range \* what each object holds

IsValid(r) == r.mMaximum >= r.mMinimum

Contains(r, value) == value >= r.mMinimum /\ value <= r.mMaximum

(* std::clamp, which is undefined unless the range is valid.               *)
Clamp(r, value) ==
  IF value < r.mMinimum THEN r.mMinimum
  ELSE IF r.mMaximum < value THEN r.mMaximum
  ELSE value

(* Mutant: ranges that touch do not intersect.                             *)
IntersectsInside(r, s) == r.mMinimum < s.mMaximum /\ s.mMinimum < r.mMaximum

Intersects(r, s) == r.mMinimum <= s.mMaximum /\ s.mMinimum <= r.mMaximum

ContainsRange(r, s) == r.mMinimum <= s.mMinimum /\ s.mMaximum <= r.mMaximum

(* `ValueRange r;`, whose defaulted constructor sets nothing.              *)
RangeInit == range \in [Ranges -> [mMinimum : Numbers, mMaximum : Numbers]]

ConstructRange(x, low, high) ==
  range' = [range EXCEPT ![x] = [mMinimum |-> low, mMaximum |-> high]]

RangeNext == \E x \in Ranges, low, high \in Numbers : ConstructRange(x, low, high)

RangeSpec == RangeInit /\ [][RangeNext]_range

-----------------------------------------------------------------------------
(* The values of a range.                                                  *)
ValuesOf(r) == {v \in Numbers : Contains(r, v)}

(* Distance, and the value of a range that is nearest to another.          *)
Apart(a, b) == IF a < b THEN b - a ELSE a - b

(* Of valid ranges, what the comparisons of the ends say is what is so of   *)
(* the values in them: one intersects another if they share a value, it    *)
(* contains another if it contains each value of it, and clamping goes to  *)
(* the one value of the range that is nearest.                             *)
EndsSpeakForValues ==
  \A x, y \in Ranges :
    LET r == range[x]
        s == range[y]
    IN (IsValid(r) /\ IsValid(s)) =>
         /\ Intersects(r, s) <=> ValuesOf(r) \cap ValuesOf(s) # {}
         /\ ContainsRange(r, s) <=> ValuesOf(s) \subseteq ValuesOf(r)
         /\ \A v \in Numbers :
              /\ Contains(r, Clamp(r, v))
              /\ \A w \in ValuesOf(r) \ {Clamp(r, v)} : Apart(v, Clamp(r, v)) < Apart(v, w)
=============================================================================
