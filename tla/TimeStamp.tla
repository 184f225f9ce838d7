----------------------------- MODULE TimeStamp -------------------------------
(***************************************************************************)
(* TimeStamp: AudioTimeStamps of one stream, and their comparison by        *)
(* whichever representation of time both hold.                             *)
(*                                                                         *)
(* A representation is a clock; each goes forward at a pace of its own, and *)
(* a stamp says of the moment it is of what some of them showed.  mFlags   *)
(* is the set of what is valid; mRateScalar and mSMPTETime, which no        *)
(* comparison looks at, are left out, and so are the flags of the latter.  *)
(***************************************************************************)
EXTENDS Integers

CONSTANTS
  Stamps, \* the TimeStamp objects
  MaxTime \* a bound on what a clock shows

ASSUME StampAssumption == MaxTime \in Nat

Clocks == {"Sample", "Host", "WordClock"}

VARIABLES
  clock, \* what each clock shows now
  now,   \* ghost: how often a clock went forward
  stamp, \* the objects
  taken  \* ghost: the moment each is of, if it was set

stampVars == <<clock, now, stamp, taken>>

Times == 0 .. MaxTime

ClockValues == [Clocks -> Times]

StampValues == [flags : SUBSET Clocks, value : ClockValues]

(* The moment of a stamp that was not set.                                 *)
Never == -1

-----------------------------------------------------------------------------
(* The comparison operators, of a stamp s to a stamp t.                    *)

Both(s, t, c) == c \in s.flags /\ c \in t.flags

(* Mutant: the flag of the other stamp is not looked at.                   *)
DecidesUnchecked(s, t, c) ==
  \/ c = "Sample" /\ c \in s.flags
  \/ c = "Host" /\ Both(s, t, c) /\ ~Both(s, t, "Sample")
  \/ c = "WordClock" /\ Both(s, t, c) /\ ~Both(s, t, "Sample") /\ ~Both(s, t, "Host")

(* The representation a comparison is by: the first of the sample, host and *)
(* word clock times that both hold, if any.                                *)
Decides(s, t, c) ==
  \/ c = "Sample" /\ Both(s, t, c)
  \/ c = "Host" /\ Both(s, t, c) /\ ~Both(s, t, "Sample")
  \/ c = "WordClock" /\ Both(s, t, c) /\ ~Both(s, t, "Sample") /\ ~Both(s, t, "Host")

Equal(s, t) == \E c \in Clocks : Decides(s, t, c) /\ s.value[c] = t.value[c]

(* Mutant: any representation that both hold may decide.                   *)
LessByAny(s, t) == \E c \in Clocks : Both(s, t, c) /\ s.value[c] < t.value[c]

Less(s, t) == \E c \in Clocks : Decides(s, t, c) /\ s.value[c] < t.value[c]

LessOrEqual(s, t) == Less(s, t) \/ Equal(s, t)

Greater(s, t) == \E c \in Clocks : Decides(s, t, c) /\ s.value[c] > t.value[c]

GreaterOrEqual(s, t) == Greater(s, t) \/ Equal(s, t)

-----------------------------------------------------------------------------
(* `TimeStamp t;`, whose defaulted constructor sets nothing: the flags too  *)
(* are whatever was there.                                                 *)
StampInit ==
  /\ clock = [c \in Clocks |-> 0]
  /\ now = 0
  /\ stamp \in [Stamps -> StampValues]
  /\ taken = [x \in Stamps |-> Never]

Advance(c) ==
  /\ clock[c] < MaxTime
  /\ clock' = [clock EXCEPT ![c] = @ + 1]
  /\ now' = now + 1
  /\ UNCHANGED <<stamp, taken>>

SetStamp(x, s) ==
  /\ stamp' = [stamp EXCEPT ![x] = s]
  /\ taken' = [taken EXCEPT ![x] = now]
  /\ UNCHANGED <<clock, now>>

(* The constructors, for the times they are given: all else is zero, and    *)
(* all of it in `TimeStamp t{}`.                                           *)
ConstructStamp(x) ==
  \E valid \in SUBSET {"Sample", "Host"} :
    SetStamp(x, [flags |-> valid, value |-> [c \in Clocks |-> IF c \in valid THEN clock[c] ELSE 0]])

(* operator= of what Core Audio fills in: what is not valid is anything.    *)
AssignStamp(x) ==
  \E valid \in SUBSET Clocks : \E rest \in [Clocks \ valid -> Times] :
    SetStamp(x, [flags |-> valid, value |-> [c \in Clocks |-> IF c \in valid THEN clock[c] ELSE rest[c]]])

(* operator= of another TimeStamp.                                         *)
CopyStamp(x, y) ==
  /\ stamp' = [stamp EXCEPT ![x] = stamp[y]]
  /\ taken' = [taken EXCEPT ![x] = taken[y]]
  /\ UNCHANGED <<clock, now>>

StampNext ==
  \/ \E c \in Clocks : Advance(c)
  \/ \E x \in Stamps : ConstructStamp(x) \/ AssignStamp(x)
  \/ \E x, y \in Stamps : CopyStamp(x, y)

StampSpec == StampInit /\ [][StampNext]_stampVars

-----------------------------------------------------------------------------
StampTypes ==
  /\ clock \in ClockValues
  /\ now \in Nat
  /\ stamp \in [Stamps -> StampValues]
  /\ taken \in [Stamps -> Nat \cup {Never}]

(* The stamps that were set.                                               *)
Dated == {x \in Stamps : taken[x] # Never}

(* Although three stamps may compare by three representations, and of       *)
(* equal stamps one may be less than a third and one not, a stamp is only   *)
(* ever less than one of a later moment, so that going from greater to      *)
(* lesser stamps never leads back to the first.  The comments of the        *)
(* operators have it the other way round: "true if other is less than       *)
(* this" (TimeStamp.hpp:70, and alike 73, 76, 79).                          *)
OrderFollowsTime ==
  \A x, y \in Dated : Less(stamp[x], stamp[y]) => taken[x] < taken[y]

(* Stamps that have a representation in common are in exactly one relation, *)
(* those without are in none, and it is the same one seen from the other.  *)
OneRelation ==
  \A x, y \in Stamps :
    LET s == stamp[x]
        t == stamp[y]
    IN /\ Less(s, t) = Greater(t, s)
       /\ Equal(s, t) = Equal(t, s)
       /\ ~(Less(s, t) /\ (Equal(s, t) \/ Greater(s, t)))
       /\ ~(Equal(s, t) /\ Greater(s, t))
       /\ (LessOrEqual(s, t) \/ Greater(s, t)) = (s.flags \cap t.flags # {})
       /\ GreaterOrEqual(s, t) = LessOrEqual(t, s)

=============================================================================
