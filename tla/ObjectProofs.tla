---------------------------- MODULE ObjectProofs ------------------------------
(***************************************************************************)
(* Objects that one thread uses by itself: time stamps, ranges of numbers   *)
(* and rings that are moved, for any number of them, and the list that a   *)
(* ring is read into, for any size of both.                                *)
(***************************************************************************)
EXTENDS TimeStamp, ValueRange, MovedRings, ListReading, RingArithmetic, TLAPS

-----------------------------------------------------------------------------
(* Time stamps: the order of them, for any clocks.                         *)

(* What a stamp holds is what the clocks showed at its moment: not more     *)
(* than now, just what they show if it is of now, and not more than what   *)
(* a stamp of a later moment, or of the same, holds.                       *)
NotAfterNow ==
  \A x \in Dated :
    /\ taken[x] <= now
    /\ \A c \in stamp[x].flags : stamp[x].value[c] <= clock[c]

OfNow ==
  \A x \in Dated :
    taken[x] = now => \A c \in stamp[x].flags : stamp[x].value[c] = clock[c]

InStep ==
  \A x, y \in Dated :
    taken[x] <= taken[y] =>
      \A c \in stamp[x].flags \cap stamp[y].flags :
        stamp[x].value[c] <= stamp[y].value[c]

StampIInv == StampTypes /\ NotAfterNow /\ OfNow /\ InStep

-----------------------------------------------------------------------------
LEMMA StampInitIInv == StampInit => StampIInv
BY StampAssumption
   DEF StampInit, StampIInv, StampTypes, NotAfterNow, OfNow, InStep, Dated, ClockValues, Times, Clocks

LEMMA AdvanceIInv ==
  ASSUME StampIInv, NEW c \in Clocks, Advance(c)
  PROVE  StampIInv'
<1> USE StampAssumption
<1>1. clock \in [Clocks -> 0 .. MaxTime] /\ now \in Nat
      /\ stamp \in [Stamps -> StampValues]
      /\ taken \in [Stamps -> Nat \cup {Never}]
  BY DEF StampIInv, StampTypes, ClockValues, Times
<1>2. /\ clock[c] < MaxTime
      /\ clock' = [clock EXCEPT ![c] = @ + 1]
      /\ now' = now + 1
      /\ stamp' = stamp /\ taken' = taken
  BY DEF Advance
<1>3. clock' \in [Clocks -> 0 .. MaxTime] /\ \A d \in Clocks : clock[d] <= clock'[d]
  BY <1>1, <1>2
<1>4. StampTypes'
  BY <1>1, <1>2, <1>3 DEF StampTypes, ClockValues, Times
<1>5. NotAfterNow'
  <2> SUFFICES ASSUME NEW x \in Dated
               PROVE  /\ taken[x] <= now + 1
                      /\ \A d \in stamp[x].flags : stamp[x].value[d] <= clock'[d]
    BY <1>2 DEF NotAfterNow, Dated
  <2>1. stamp[x].flags \subseteq Clocks /\ stamp[x].value \in [Clocks -> 0 .. MaxTime]
    BY <1>1 DEF StampValues, ClockValues, Times, Dated
  <2>2. taken[x] <= now /\ \A d \in stamp[x].flags : stamp[x].value[d] <= clock[d]
    BY DEF StampIInv, NotAfterNow
  <2>3. ASSUME NEW d \in stamp[x].flags PROVE stamp[x].value[d] <= clock'[d]
    <3>1. d \in Clocks /\ stamp[x].value[d] \in 0 .. MaxTime
      BY <2>1
    <3>2. clock[d] \in 0 .. MaxTime /\ clock'[d] \in 0 .. MaxTime /\ clock[d] <= clock'[d]
      BY <3>1, <1>1, <1>3
    <3> QED
      BY <2>2, <3>1, <3>2
  <2>4. taken[x] \in Nat
    BY <1>1 DEF Dated
  <2> QED
    BY <1>1, <2>2, <2>3, <2>4
<1>6. OfNow'
  BY <1>1, <1>2 DEF StampIInv, NotAfterNow, OfNow, Dated
<1>7. InStep'
  BY <1>2 DEF StampIInv, InStep, Dated
<1> QED
  BY <1>4, <1>5, <1>6, <1>7 DEF StampIInv

(* A stamp of now, with what the clocks show for all that is valid in it.  *)
LEMMA SetStampIInv ==
  ASSUME StampIInv, NEW x \in Stamps, NEW s \in StampValues,
         \A c \in s.flags : s.value[c] = clock[c],
         SetStamp(x, s)
  PROVE  StampIInv'
<1>1. clock \in [Clocks -> 0 .. MaxTime] /\ now \in Nat
      /\ stamp \in [Stamps -> StampValues]
      /\ taken \in [Stamps -> Nat \cup {Never}]
  BY DEF StampIInv, StampTypes, ClockValues, Times
<1>2. /\ clock' = clock /\ now' = now
      /\ stamp' = [stamp EXCEPT ![x] = s]
      /\ taken' = [taken EXCEPT ![x] = now]
  BY DEF SetStamp
<1>3. /\ stamp' \in [Stamps -> StampValues]
      /\ stamp'[x] = s /\ \A y \in Stamps \ {x} : stamp'[y] = stamp[y]
  BY <1>1, <1>2
<1>4. /\ taken' \in [Stamps -> Nat \cup {Never}]
      /\ taken'[x] = now /\ \A y \in Stamps \ {x} : taken'[y] = taken[y]
  BY <1>1, <1>2
<1>5. StampTypes'
  BY <1>1, <1>2, <1>3, <1>4 DEF StampTypes, ClockValues, Times
<1>6. \A c \in Clocks : clock[c] \in 0 .. MaxTime
  BY <1>1
<1>7. \A y \in Dated \ {x} :
        /\ taken[y] \in Nat
        /\ taken[y] <= now
        /\ \A c \in stamp[y].flags : stamp[y].value[c] <= clock[c]
        /\ taken[y] = now => \A c \in stamp[y].flags : stamp[y].value[c] = clock[c]
  BY <1>1 DEF StampIInv, NotAfterNow, OfNow, Dated
<1>8. \A y \in Dated' \ {x} : y \in Dated /\ y \in Stamps
  BY <1>4 DEF Dated
<1>9. Dated' \subseteq Stamps
  BY DEF Dated
<1>10. NotAfterNow' /\ OfNow'
  <2>1. ASSUME NEW y \in Dated'
        PROVE  /\ taken'[y] <= now
               /\ \A c \in stamp'[y].flags : stamp'[y].value[c] <= clock[c]
               /\ taken'[y] = now => \A c \in stamp'[y].flags : stamp'[y].value[c] = clock[c]
    <3>1. CASE y = x
      <4>1. \A c \in s.flags : s.value[c] <= clock[c]
        BY <1>6 DEF StampValues
      <4>2. stamp'[y] = s /\ taken'[y] = now
        BY <3>1, <1>3, <1>4
      <4>3. now <= now
        BY <1>1
      <4> QED
        BY <4>1, <4>2, <4>3
    <3>2. CASE y # x
      BY <3>2, <1>3, <1>4, <1>7, <1>8
    <3> QED
      BY <3>1, <3>2
  <2> QED
    BY <2>1, <1>2 DEF NotAfterNow, OfNow
<1>11. InStep'
  <2> SUFFICES ASSUME NEW y \in Dated', NEW z \in Dated', taken'[y] <= taken'[z],
                      NEW c \in stamp'[y].flags \cap stamp'[z].flags
               PROVE  stamp'[y].value[c] <= stamp'[z].value[c]
    BY DEF InStep
  <2>1. c \in Clocks /\ clock[c] \in 0 .. MaxTime
    BY <1>3, <1>6, <1>9 DEF StampValues
  <2>2. CASE y = x /\ z = x
    BY <2>1, <2>2, <1>3
  <2>3. CASE y # x /\ z = x
    BY <2>1, <2>3, <1>3, <1>4, <1>7, <1>8
  <2>4. CASE y = x /\ z # x
    <3>1. taken[z] = now
      <4>1. taken'[y] = now /\ taken'[z] = taken[z]
        BY <2>4, <1>4, <1>8
      <4>2. now <= taken[z]
        BY <4>1
      <4>3. taken[z] <= now
        BY <2>4, <1>7, <1>8
      <4>4. now \in Nat /\ taken[z] \in Nat
        BY <2>4, <1>1, <1>7, <1>8
      <4> QED
        BY <4>2, <4>3, <4>4
    <3>2. stamp[z].value[c] = clock[c] /\ s.value[c] = clock[c]
      BY <2>4, <3>1, <1>3, <1>7, <1>8
    <3> QED
      BY <2>1, <2>4, <3>2, <1>3, <1>8
  <2>5. CASE y # x /\ z # x
    BY <2>5, <1>3, <1>4, <1>8 DEF StampIInv, InStep
  <2> QED
    BY <2>2, <2>3, <2>4, <2>5
<1> QED
  BY <1>5, <1>10, <1>11 DEF StampIInv

LEMMA ConstructStampIInv ==
  ASSUME StampIInv, NEW x \in Stamps, ConstructStamp(x)
  PROVE  StampIInv'
<1>1. PICK valid \in SUBSET {"Sample", "Host"} :
        SetStamp(x, [flags |-> valid,
                    value |-> [c \in Clocks |-> IF c \in valid THEN clock[c] ELSE 0]])
  BY DEF ConstructStamp
<1> DEFINE s == [flags |-> valid,
                 value |-> [c \in Clocks |-> IF c \in valid THEN clock[c] ELSE 0]]
<1>2. valid \subseteq Clocks
  BY DEF Clocks
<1>3. s \in StampValues
  BY <1>2, StampAssumption DEF StampIInv, StampTypes, StampValues, ClockValues, Times
<1>4. \A c \in s.flags : s.value[c] = clock[c]
  BY <1>2
<1>5. SetStamp(x, s)
  BY <1>1
<1> HIDE DEF s
<1> QED
  BY <1>3, <1>4, <1>5, SetStampIInv

LEMMA AssignStampIInv ==
  ASSUME StampIInv, NEW x \in Stamps, AssignStamp(x)
  PROVE  StampIInv'
<1>1. PICK valid \in SUBSET Clocks :
        \E rest \in [Clocks \ valid -> Times] :
          SetStamp(x, [flags |-> valid,
                      value |-> [c \in Clocks |-> IF c \in valid THEN clock[c] ELSE rest[c]]])
  BY DEF AssignStamp
<1>2. PICK rest \in [Clocks \ valid -> Times] :
        SetStamp(x, [flags |-> valid,
                    value |-> [c \in Clocks |-> IF c \in valid THEN clock[c] ELSE rest[c]]])
  BY <1>1
<1> DEFINE s == [flags |-> valid,
                 value |-> [c \in Clocks |-> IF c \in valid THEN clock[c] ELSE rest[c]]]
<1>3. s \in StampValues
  BY DEF StampIInv, StampTypes, StampValues, ClockValues, Times
<1>4. \A c \in s.flags : s.value[c] = clock[c]
  OBVIOUS
<1>5. SetStamp(x, s)
  BY <1>2
<1> HIDE DEF s
<1> QED
  BY <1>3, <1>4, <1>5, SetStampIInv

LEMMA CopyStampIInv ==
  ASSUME StampIInv, NEW x \in Stamps, NEW y \in Stamps, CopyStamp(x, y)
  PROVE  StampIInv'
<1>1. clock \in ClockValues /\ now \in Nat
      /\ stamp \in [Stamps -> StampValues]
      /\ taken \in [Stamps -> Nat \cup {Never}]
  BY DEF StampIInv, StampTypes
<1>2. /\ clock' = clock /\ now' = now
      /\ stamp' = [stamp EXCEPT ![x] = stamp[y]]
      /\ taken' = [taken EXCEPT ![x] = taken[y]]
  BY DEF CopyStamp
<1> DEFINE From(z) == IF z = x THEN y ELSE z
<1>3. \A z \in Stamps : /\ From(z) \in Stamps
                        /\ stamp'[z] = stamp[From(z)]
                        /\ taken'[z] = taken[From(z)]
  BY <1>1, <1>2
<1>4. StampTypes'
  BY <1>1, <1>2 DEF StampTypes
<1> HIDE DEF From
<1>5. \A z \in Dated' : From(z) \in Dated /\ z \in Stamps
  BY <1>3 DEF Dated
<1>6. NotAfterNow'
  BY <1>2, <1>3, <1>5 DEF StampIInv, NotAfterNow
<1>7. OfNow'
  BY <1>2, <1>3, <1>5 DEF StampIInv, OfNow
<1>8. InStep'
  BY <1>3, <1>5 DEF StampIInv, InStep
<1> QED
  BY <1>4, <1>6, <1>7, <1>8 DEF StampIInv

LEMMA StampNextIInv == StampIInv /\ [StampNext]_stampVars => StampIInv'
<1> SUFFICES ASSUME StampIInv, [StampNext]_stampVars
             PROVE  StampIInv'
  OBVIOUS
<1>1. CASE \E c \in Clocks : Advance(c)
  BY <1>1, AdvanceIInv
<1>2. CASE \E x \in Stamps : ConstructStamp(x) \/ AssignStamp(x)
  BY <1>2, ConstructStampIInv, AssignStampIInv
<1>3. CASE \E x, y \in Stamps : CopyStamp(x, y)
  BY <1>3, CopyStampIInv
<1>4. CASE UNCHANGED stampVars
  BY <1>4 DEF StampIInv, StampTypes, NotAfterNow, OfNow, InStep, Dated, stampVars
<1> QED
  BY <1>1, <1>2, <1>3, <1>4 DEF StampNext

LEMMA StampIInvHolds == StampSpec => []StampIInv
BY StampInitIInv, StampNextIInv, PTL DEF StampSpec

-----------------------------------------------------------------------------
(* The variables of any number of stamps and clocks have their types.      *)
THEOREM StampTypesHold == StampSpec => []StampTypes
<1>1. StampIInv => StampTypes
  BY DEF StampIInv
<1> QED
  BY <1>1, StampIInvHolds, PTL

(* operator< only ever leads to later moments, by whichever representation *)
(* each comparison of a chain decides.                                     *)
THEOREM OrderHolds == StampSpec => []OrderFollowsTime
<1>1. StampIInv => OrderFollowsTime
  <2> SUFFICES ASSUME StampIInv, NEW x \in Dated, NEW y \in Dated,
                      Less(stamp[x], stamp[y]), ~(taken[x] < taken[y])
               PROVE  FALSE
    BY DEF OrderFollowsTime
  <2>1. PICK c \in Clocks :
          /\ Decides(stamp[x], stamp[y], c)
          /\ stamp[x].value[c] < stamp[y].value[c]
    BY DEF Less
  <2>2. c \in stamp[x].flags \cap stamp[y].flags
    BY <2>1 DEF Decides, Both
  <2>3. taken[x] \in Nat /\ taken[y] \in Nat
        /\ stamp[x].value[c] \in 0 .. MaxTime /\ stamp[y].value[c] \in 0 .. MaxTime
    BY DEF StampIInv, StampTypes, StampValues, ClockValues, Times, Dated
  <2>4. taken[y] <= taken[x]
    BY <2>3
  <2>5. stamp[y].value[c] <= stamp[x].value[c]
    BY <2>2, <2>4 DEF StampIInv, InStep
  <2> QED
    BY <2>1, <2>3, <2>5
<1> QED
  BY <1>1, StampIInvHolds, PTL

(* The six comparison operators are those of one relation.                 *)
THEOREM RelationsHold == StampSpec => []OneRelation
<1>1. StampTypes => OneRelation
  <2> SUFFICES ASSUME StampTypes, NEW x \in Stamps, NEW y \in Stamps,
                      NEW s, NEW t, s = stamp[x], t = stamp[y]
               PROVE  /\ Less(s, t) = Greater(t, s)
                      /\ Equal(s, t) = Equal(t, s)
                      /\ ~(Less(s, t) /\ (Equal(s, t) \/ Greater(s, t)))
                      /\ ~(Equal(s, t) /\ Greater(s, t))
                      /\ (LessOrEqual(s, t) \/ Greater(s, t)) = (s.flags \cap t.flags # {})
                      /\ GreaterOrEqual(s, t) = LessOrEqual(t, s)
    BY DEF OneRelation
  <2>1. /\ s.flags \subseteq Clocks /\ t.flags \subseteq Clocks
        /\ \A c \in Clocks : s.value[c] \in Int /\ t.value[c] \in Int
    BY DEF StampTypes, StampValues, ClockValues, Times
  <2>2. \A c, d \in Clocks : Decides(s, t, c) /\ Decides(s, t, d) => c = d
    BY DEF Decides
  <2>3. \A c \in Clocks : Decides(s, t, c) <=> Decides(t, s, c)
    BY DEF Decides, Both
  <2>4. (\E c \in Clocks : Decides(s, t, c)) <=> s.flags \cap t.flags # {}
    BY <2>1 DEF Decides, Both, Clocks
  <2>5. \A c \in Clocks : (s.value[c] < t.value[c]) <=> (t.value[c] > s.value[c])
    BY <2>1
  <2>6. \A c \in Clocks : (s.value[c] > t.value[c]) <=> (t.value[c] < s.value[c])
    BY <2>1
  <2>7. Less(s, t) <=> Greater(t, s)
    BY <2>3, <2>5 DEF Less, Greater
  <2>8. Greater(s, t) <=> Less(t, s)
    BY <2>3, <2>6 DEF Less, Greater
  <2>9. Equal(s, t) <=> Equal(t, s)
    BY <2>3 DEF Equal
  <2>10. ~(Less(s, t) /\ (Equal(s, t) \/ Greater(s, t)))
    BY <2>1, <2>2 DEF Less, Equal, Greater
  <2>11. ~(Equal(s, t) /\ Greater(s, t))
    BY <2>1, <2>2 DEF Equal, Greater
  <2>12. (LessOrEqual(s, t) \/ Greater(s, t)) <=> \E c \in Clocks : Decides(s, t, c)
    BY <2>1 DEF LessOrEqual, Less, Equal, Greater
  <2>13. GreaterOrEqual(s, t) <=> LessOrEqual(t, s)
    BY <2>8, <2>9 DEF GreaterOrEqual, LessOrEqual
  <2>14. /\ Less(s, t) \in BOOLEAN /\ Greater(t, s) \in BOOLEAN
         /\ Equal(s, t) \in BOOLEAN /\ Equal(t, s) \in BOOLEAN
         /\ (LessOrEqual(s, t) \/ Greater(s, t)) \in BOOLEAN
         /\ GreaterOrEqual(s, t) \in BOOLEAN /\ LessOrEqual(t, s) \in BOOLEAN
    BY DEF Less, Greater, Equal, LessOrEqual, GreaterOrEqual
  <2>15. /\ Less(s, t) = Greater(t, s)
         /\ Equal(s, t) = Equal(t, s)
         /\ GreaterOrEqual(s, t) = LessOrEqual(t, s)
    BY <2>7, <2>9, <2>13, <2>14
  <2>16. (LessOrEqual(s, t) \/ Greater(s, t)) = (s.flags \cap t.flags # {})
    BY <2>4, <2>12, <2>14
  <2> QED
    BY <2>10, <2>11, <2>15, <2>16
<1> QED
  BY <1>1, StampTypesHold, PTL

-----------------------------------------------------------------------------
(* Ranges.                                                                 *)

(* The ends of a range are of the numbers in use.                          *)
RangeTypes == range \in [Ranges -> [mMinimum : Numbers, mMaximum : Numbers]]

LEMMA RangeTypesHold == RangeSpec => []RangeTypes
<1>1. RangeInit => RangeTypes
  BY RangeAssumption DEF RangeInit, RangeTypes
<1>2. RangeTypes /\ [RangeNext]_range => RangeTypes'
  <2>1. ASSUME RangeTypes, NEW x \in Ranges, NEW low \in Numbers, NEW high \in Numbers,
               ConstructRange(x, low, high)
        PROVE  RangeTypes'
    BY <2>1 DEF RangeTypes, ConstructRange
  <2> QED
    BY <2>1 DEF RangeNext, RangeTypes
<1> QED
  BY <1>1, <1>2, PTL DEF RangeSpec

LEMMA ClampedNearest ==
  ASSUME NEW low \in Int, NEW high \in Int, low <= high, NEW v \in Int,
         NEW r, r = [mMinimum |-> low, mMaximum |-> high]
  PROVE  /\ Contains(r, Clamp(r, v))
         /\ \A w \in Int : (Contains(r, w) /\ w # Clamp(r, v)) =>
              Apart(v, Clamp(r, v)) < Apart(v, w)
BY DEF Contains, Clamp, Apart

(* What intersects, contains and clamp find by comparing ends is so of the  *)
(* values, for any set of integers.                                        *)
THEOREM RangesHold == RangeSpec => []EndsSpeakForValues
<1>1. RangeTypes => EndsSpeakForValues
  <2> SUFFICES ASSUME RangeTypes, NEW x \in Ranges, NEW y \in Ranges,
                      NEW r, NEW s, r = range[x], s = range[y], IsValid(r), IsValid(s)
               PROVE  /\ Intersects(r, s) <=> ValuesOf(r) \cap ValuesOf(s) # {}
                      /\ ContainsRange(r, s) <=> ValuesOf(s) \subseteq ValuesOf(r)
                      /\ \A v \in Numbers :
                           /\ Contains(r, Clamp(r, v))
                           /\ \A w \in ValuesOf(r) \ {Clamp(r, v)} :
                                Apart(v, Clamp(r, v)) < Apart(v, w)
    BY DEF EndsSpeakForValues
  <2>1. PICK a \in Numbers, b \in Numbers, c \in Numbers, d \in Numbers :
          r = [mMinimum |-> a, mMaximum |-> b] /\ s = [mMinimum |-> c, mMaximum |-> d]
    BY DEF RangeTypes
  <2>2. Numbers \subseteq Int /\ a \in Int /\ b \in Int /\ c \in Int /\ d \in Int
    BY <2>1, RangeAssumption
  <2>3. a <= b /\ c <= d
    BY <2>1, <2>2 DEF IsValid
  <2>4. /\ \A v : v \in ValuesOf(r) <=> v \in Numbers /\ a <= v /\ v <= b
        /\ \A v : v \in ValuesOf(s) <=> v \in Numbers /\ c <= v /\ v <= d
    BY <2>1, <2>2 DEF ValuesOf, Contains
  <2>5. Intersects(r, s) <=> a <= d /\ c <= b
    BY <2>1 DEF Intersects
  <2>6. ContainsRange(r, s) <=> a <= c /\ d <= b
    BY <2>1 DEF ContainsRange
  <2>7. Intersects(r, s) <=> ValuesOf(r) \cap ValuesOf(s) # {}
    <3>1. ASSUME NEW v \in ValuesOf(r) \cap ValuesOf(s) PROVE a <= d /\ c <= b
      <4>1. v \in Int /\ a <= v /\ v <= b /\ c <= v /\ v <= d
        BY <2>2, <2>4
      <4> QED
        BY <2>2, <4>1
    <3>2. ASSUME a <= d, c <= b PROVE ValuesOf(r) \cap ValuesOf(s) # {}
      <4>1. CASE a <= c
        <5>1. c \in ValuesOf(r) /\ c \in ValuesOf(s)
          BY <2>1, <2>2, <2>3, <2>4, <3>2, <4>1
        <5> QED
          BY <5>1
      <4>2. CASE c <= a
        <5>1. a \in ValuesOf(r) /\ a \in ValuesOf(s)
          BY <2>1, <2>2, <2>3, <2>4, <3>2, <4>2
        <5> QED
          BY <5>1
      <4> QED
        BY <2>2, <4>1, <4>2
    <3> QED
      BY <2>5, <3>1, <3>2
  <2>8. ContainsRange(r, s) <=> ValuesOf(s) \subseteq ValuesOf(r)
    <3>1. c \in ValuesOf(s) /\ d \in ValuesOf(s)
      BY <2>1, <2>2, <2>3, <2>4
    <3>2. ASSUME a <= c, d <= b, NEW v \in ValuesOf(s) PROVE v \in ValuesOf(r)
      <4>1. v \in Numbers /\ v \in Int /\ c <= v /\ v <= d
        BY <2>2, <2>4
      <4> QED
        BY <2>2, <2>4, <3>2, <4>1
    <3>3. ASSUME ValuesOf(s) \subseteq ValuesOf(r) PROVE a <= c /\ d <= b
      <4>1. c \in ValuesOf(r) /\ d \in ValuesOf(r)
        BY <3>1, <3>3
      <4> QED
        BY <2>4, <4>1
    <3> QED
      BY <2>6, <3>2, <3>3
  <2>9. ASSUME NEW v \in Numbers
        PROVE  /\ Contains(r, Clamp(r, v))
               /\ \A w \in ValuesOf(r) \ {Clamp(r, v)} : Apart(v, Clamp(r, v)) < Apart(v, w)
    <3>1. v \in Int /\ \A w \in ValuesOf(r) : w \in Int /\ Contains(r, w)
      BY <2>2 DEF ValuesOf
    <3> QED
      BY <2>1, <2>2, <2>3, <3>1, ClampedNearest
  <2> QED
    BY <2>7, <2>8, <2>9
<1> QED
  BY <1>1, RangeTypesHold, PTL

-----------------------------------------------------------------------------
(* Rings.                                                                  *)

(* What a ring has besides its time bounds.                                *)
SameMemory(r, s) ==
  /\ r.buffers = s.buffers /\ r.capacity = s.capacity
  /\ r.capacityMask = s.capacityMask /\ r.format = s.format

(* A ring that getTimeBounds gets these bounds of.                         *)
Gives(r, b) == Latest(r) = Bound(b.startTime, b.endTime, r.counter)

LEMMA EntryRange ==
  ASSUME NEW n \in Nat
  PROVE  Entry(n) \in Entries
BY ModRange, MovedRingsAssumption DEF Entry, Entries

LEMMA CapacityTyped ==
  ASSUME NEW r \in RingRecords
  PROVE  r.capacity \in Nat
<1> DEFINE c == r.capacity
<1>1. c \in RingSizes \/ c = 0
  BY DEF RingRecords
<1> HIDE DEF c
<1>2. ASSUME c \in RingSizes PROVE c \in Nat
  BY <1>2, MovedRingsAssumption
<1>3. c = 0 => c \in Nat
  OBVIOUS
<1> QED
  BY <1>1, <1>2, <1>3 DEF c

LEMMA NewRingSound ==
  NewRing \in RingRecords /\ InOrder(NewRing) /\ Gives(NewRing, NoBounds)
<1>1. ZeroQueue \in [Entries -> [startTime : Nat, endTime : Nat, updateCounter : Nat]]
  BY DEF ZeroQueue, Bound
<1>2. NewRing \in RingRecords
  BY <1>1 DEF NewRing, RingRecords
<1>3. InOrder(NewRing)
  BY DEF NewRing, InOrder, ZeroQueue, Bound
<1>4. Gives(NewRing, NoBounds)
  BY EntryRange DEF Gives, Latest, NewRing, NoBounds, ZeroQueue, Bound
<1> QED
  BY <1>2, <1>3, <1>4

LEMMA WithoutBoundsSound ==
  ASSUME NEW r \in RingRecords
  PROVE  /\ WithoutBounds(r) \in RingRecords
         /\ InOrder(WithoutBounds(r))
         /\ Gives(WithoutBounds(r), NoBounds)
         /\ SameMemory(WithoutBounds(r), r)
<1> DEFINE s == WithoutBounds(r)
<1>1. ZeroQueue \in [Entries -> [startTime : Nat, endTime : Nat, updateCounter : Nat]]
  BY DEF ZeroQueue, Bound
<1>2. s \in RingRecords /\ s.queue = ZeroQueue /\ s.counter = 0 /\ SameMemory(s, r)
  BY <1>1 DEF WithoutBounds, RingRecords, SameMemory
<1> HIDE DEF s
<1>3. InOrder(s)
  BY <1>2 DEF InOrder, ZeroQueue, Bound
<1>4. Gives(s, NoBounds)
  BY <1>2, EntryRange DEF Gives, Latest, NoBounds, ZeroQueue, Bound
<1> QED
  BY <1>2, <1>3, <1>4 DEF s

LEMMA WithoutMemorySound ==
  ASSUME NEW r \in RingRecords, r.buffers = NoMemory => r = NewRing
  PROVE  WithoutMemory(r) = NewRing
BY DEF WithoutMemory, WithoutBounds, NewRing, RingRecords

LEMMA WithMemorySound ==
  ASSUME NEW r \in RingRecords, r.buffers = NoMemory => r = NewRing,
         NEW b \in Memory, NEW size \in RingSizes,
         NEW f \in RingFormats \cup {NoRingFormat}
  PROVE  LET s == WithMemory(r, b, size, f)
         IN /\ s \in RingRecords /\ InOrder(s) /\ Gives(s, NoBounds)
            /\ s.buffers = b /\ s.capacity = size /\ s.capacityMask = size - 1
<1> DEFINE t == [NewRing EXCEPT !.buffers = b, !.capacity = size,
                                !.capacityMask = size - 1, !.format = f]
<1>1. size - 1 \in Nat
  BY MovedRingsAssumption
<1>2. t \in RingRecords /\ t.buffers = b /\ t.capacity = size /\ t.capacityMask = size - 1
  BY <1>1, NewRingSound DEF RingRecords
<1>3. WithMemory(r, b, size, f) = WithoutBounds(t)
  BY WithoutMemorySound DEF WithMemory
<1> HIDE DEF t
<1> QED
  BY <1>2, <1>3, WithoutBoundsSound DEF SameMemory

-----------------------------------------------------------------------------
(* write.                                                                  *)

LEMMA PublishedSound ==
  ASSUME NEW r \in RingRecords, InOrder(r),
         NEW s \in Nat, NEW e \in Nat, s <= e
  PROVE  /\ Published(r, s, e) \in RingRecords
         /\ InOrder(Published(r, s, e))
         /\ Latest(Published(r, s, e)) = Bound(s, e, Published(r, s, e).counter)
         /\ SameMemory(Published(r, s, e), r)
<1> DEFINE next == r.counter + 1
           q == Published(r, s, e)
           b == Bound(s, e, next)
<1>1. next \in Nat /\ Entry(next) \in Entries
  BY EntryRange DEF RingRecords
<1>2. b \in [startTime : Nat, endTime : Nat, updateCounter : Nat]
  BY <1>1 DEF Bound
<1>3. r.queue \in [Entries -> [startTime : Nat, endTime : Nat, updateCounter : Nat]]
  BY DEF RingRecords
<1> HIDE DEF next, b
<1>4. /\ q \in RingRecords /\ SameMemory(q, r)
      /\ q.queue = [r.queue EXCEPT ![Entry(next)] = b] /\ q.counter = next
  <2>1. q = [r EXCEPT !.queue = [r.queue EXCEPT ![Entry(next)] = b], !.counter = next]
    BY DEF Published, next, b, RingRecords
  <2> DEFINE queue == [r.queue EXCEPT ![Entry(next)] = b]
  <2>2. queue \in [Entries -> [startTime : Nat, endTime : Nat, updateCounter : Nat]]
    BY <1>1, <1>2, <1>3
  <2> HIDE DEF queue, q
  <2>3. q = [r EXCEPT !.queue = queue, !.counter = next]
    BY <2>1 DEF queue
  <2>4. /\ q \in RingRecords /\ SameMemory(q, r)
        /\ q.queue = queue /\ q.counter = next
    BY <1>1, <2>2, <2>3 DEF RingRecords, SameMemory
  <2> QED
    BY <2>4 DEF queue
<1> HIDE DEF q
<1>5. Latest(q) = b
  BY <1>1, <1>3, <1>4 DEF Latest
<1>6. InOrder(q)
  BY <1>1, <1>3, <1>4 DEF InOrder, b, Bound
<1> QED
  BY <1>4, <1>5, <1>6 DEF q, b, next

(* One step of publishing before the end, or none: with it, the ring has    *)
(* the start of the window that the call is to leave.                      *)
LEMMA RingWithRoomSound ==
  ASSUME NEW r \in RingRecords, InOrder(r),
         NEW b \in [startTime : Nat, endTime : Nat], Gives(r, b),
         NEW time \in Nat, NEW end \in Nat, time < end, end - time <= r.capacity
  PROVE  LET q == RingWithRoom(r, time, end)
         IN /\ q \in RingRecords /\ InOrder(q) /\ SameMemory(q, r)
            /\ Latest(q).startTime = Window(b, r.capacity, time, end).startTime
            /\ Latest(q).startTime \in Nat /\ Latest(q).startTime <= end
<1> DEFINE q == RingWithRoom(r, time, end)
           c == r.capacity
<1>1. /\ c \in Nat /\ b.startTime \in Nat /\ b.endTime \in Nat
      /\ Latest(r).startTime = b.startTime /\ Latest(r).endTime = b.endTime
  <2>1. Latest(r).startTime = b.startTime /\ Latest(r).endTime = b.endTime
    BY DEF Gives, Bound
  <2>2. c \in Nat
    BY CapacityTyped
  <2> QED
    BY <2>1, <2>2
<1>2. b.startTime <= b.endTime
  <2>1. Entry(r.counter) \in Entries
    BY EntryRange DEF RingRecords
  <2> QED
    BY <1>1, <2>1 DEF InOrder, Latest
<1> HIDE DEF c
<1>3. CASE time < b.endTime
  <2>1. q = Published(r, time, time)
    BY <1>1, <1>3 DEF RingWithRoom
  <2>2. Window(b, c, time, end).startTime = time
    BY <1>3 DEF Window
  <2>3. /\ q \in RingRecords /\ InOrder(q) /\ SameMemory(q, r)
        /\ Latest(q) = Bound(time, time, q.counter)
    BY <2>1, PublishedSound
  <2>4. Latest(q).startTime = time
    BY <2>3 DEF Bound
  <2> HIDE DEF q
  <2> QED
    BY <2>2, <2>3, <2>4 DEF q, c
<1>4. CASE ~(time < b.endTime) /\ end - b.startTime <= c
  <2>1. q = r
    BY <1>1, <1>4 DEF RingWithRoom, c
  <2>2. Window(b, c, time, end).startTime = b.startTime
    BY <1>1, <1>4 DEF Window, Later
  <2>3. b.startTime <= end
    BY <1>1, <1>2, <1>4
  <2> HIDE DEF q
  <2> QED
    BY <1>1, <2>1, <2>2, <2>3 DEF SameMemory, q, c
<1>5. CASE ~(time < b.endTime) /\ ~(end - b.startTime <= c)
  <2> DEFINE newStart == end - c
             newEnd == Later(newStart, b.endTime)
  <2>1. newStart \in Nat /\ newStart > b.startTime /\ newStart <= time /\ newStart <= end
    BY <1>1, <1>5 DEF c
  <2>2. q = Published(r, newStart, newEnd)
    BY <1>1, <1>5 DEF RingWithRoom, c
  <2>3. newEnd \in Nat /\ newStart <= newEnd
    BY <1>1, <2>1 DEF Later
  <2>4. Window(b, c, time, end).startTime = newStart
    BY <1>1, <1>5, <2>1 DEF Window, Later
  <2> HIDE DEF newStart, newEnd
  <2>5. /\ q \in RingRecords /\ InOrder(q) /\ SameMemory(q, r)
        /\ Latest(q) = Bound(newStart, newEnd, q.counter)
    BY <2>1, <2>2, <2>3, PublishedSound
  <2>6. Latest(q).startTime = newStart
    BY <2>5 DEF Bound
  <2> HIDE DEF q
  <2> QED
    BY <2>1, <2>4, <2>5, <2>6 DEF q, c
<1> QED
  BY <1>3, <1>4, <1>5

LEMMA WrittenSound ==
  ASSUME NEW r \in RingRecords, InOrder(r),
         NEW b \in [startTime : Nat, endTime : Nat], Gives(r, b),
         NEW time \in Nat, NEW end \in Nat, time < end, end - time <= r.capacity
  PROVE  LET q == Written(r, time, end)
             w == Window(b, r.capacity, time, end)
         IN /\ q \in RingRecords /\ InOrder(q) /\ SameMemory(q, r)
            /\ w \in [startTime : Nat, endTime : Nat] /\ Gives(q, w)
<1> DEFINE roomy == RingWithRoom(r, time, end)
           start == Latest(roomy).startTime
           w == Window(b, r.capacity, time, end)
           q == Published(roomy, start, end)
<1>1. /\ roomy \in RingRecords /\ InOrder(roomy) /\ SameMemory(roomy, r)
      /\ start = w.startTime /\ start \in Nat /\ start <= end
  BY RingWithRoomSound
<1>2. w = [startTime |-> w.startTime, endTime |-> end]
  BY DEF Window
<1>3. Written(r, time, end) = q
  BY DEF Written
<1> HIDE DEF roomy, start, w
<1>4. /\ q \in RingRecords /\ InOrder(q) /\ SameMemory(q, roomy)
      /\ Latest(q) = Bound(start, end, q.counter)
  BY <1>1, PublishedSound
<1>5. w.startTime = start /\ w.endTime = end /\ w \in [startTime : Nat, endTime : Nat]
  BY <1>1, <1>2
<1> HIDE DEF q
<1>6. Gives(q, w) /\ SameMemory(q, r)
  BY <1>1, <1>4, <1>5 DEF Gives, SameMemory
<1> QED
  BY <1>3, <1>4, <1>5, <1>6 DEF w

-----------------------------------------------------------------------------
RingsIInv == RingTypes /\ RingsOwnTheirMemory /\ BoundsSurvive

(* What the invariant says of one ring.                                    *)
RingSound(r, b) ==
  /\ r \in RingRecords /\ InOrder(r) /\ b \in [startTime : Nat, endTime : Nat]
  /\ Gives(r, b)
  /\ IF r.buffers = NoMemory THEN r = NewRing
     ELSE r.capacity # 0 /\ r.capacityMask = r.capacity - 1

(* The invariant, ring by ring.                                            *)
LEMMA RingByRing ==
  ASSUME ring \in [Rings -> RingRecords],
         promised \in [Rings -> [startTime : Nat, endTime : Nat]]
  PROVE  RingsIInv <=>
           /\ \A x \in Rings : RingSound(ring[x], promised[x])
           /\ inUse \subseteq Memory
           /\ inUse = {ring[x].buffers : x \in Rings} \ {NoMemory}
           /\ \A x, y \in Rings :
                (ring[x].buffers = ring[y].buffers /\ x # y) => ring[x].buffers = NoMemory
BY DEF RingsIInv, RingTypes, RingsOwnTheirMemory, BoundsSurvive, RingSound, Gives

LEMMA BuffersTyped ==
  ASSUME RingsIInv
  PROVE  /\ \A x \in Rings : ring[x] \in RingRecords /\ RingSound(ring[x], promised[x])
         /\ \A x \in Rings : ring[x].buffers \in Memory \cup {NoMemory}
         /\ ring \in [Rings -> RingRecords]
         /\ promised \in [Rings -> [startTime : Nat, endTime : Nat]]
<1>1. /\ ring \in [Rings -> RingRecords]
      /\ promised \in [Rings -> [startTime : Nat, endTime : Nat]]
  BY DEF RingsIInv, RingTypes
<1>2. \A x \in Rings : ring[x] \in RingRecords /\ RingSound(ring[x], promised[x])
  BY <1>1, RingByRing
<1>3. \A x \in Rings : ring[x].buffers \in Memory \cup {NoMemory}
  BY <1>2 DEF RingRecords
<1> QED
  BY <1>1, <1>2, <1>3

(* One ring becomes another, with no memory or with memory that is nobody   *)
(* else's, and what it had itself is free.                                 *)
LEMMA OneRingChanges ==
  ASSUME RingsIInv, NEW x \in Rings, NEW r, NEW b, RingSound(r, b),
         ring' = [ring EXCEPT ![x] = r],
         promised' = [promised EXCEPT ![x] = b],
         NEW left, left = inUse \ {ring[x].buffers},
         \/ r.buffers = NoMemory /\ inUse' = left
         \/ r.buffers \in Memory \ left /\ inUse' = left \cup {r.buffers}
  PROVE  RingsIInv'
<1>1. /\ ring \in [Rings -> RingRecords]
      /\ promised \in [Rings -> [startTime : Nat, endTime : Nat]]
      /\ r \in RingRecords /\ b \in [startTime : Nat, endTime : Nat]
  BY BuffersTyped DEF RingSound
<1>2. /\ ring' \in [Rings -> RingRecords]
      /\ promised' \in [Rings -> [startTime : Nat, endTime : Nat]]
      /\ ring'[x] = r /\ promised'[x] = b
      /\ \A y \in Rings \ {x} : ring'[y] = ring[y] /\ promised'[y] = promised[y]
  BY <1>1
<1>3. /\ \A y \in Rings : RingSound(ring[y], promised[y])
      /\ inUse \subseteq Memory
      /\ inUse = {ring[y].buffers : y \in Rings} \ {NoMemory}
      /\ \A y, z \in Rings :
           (ring[y].buffers = ring[z].buffers /\ y # z) => ring[y].buffers = NoMemory
  BY <1>1, RingByRing
<1>4. \A y \in Rings : RingSound(ring'[y], promised'[y])
  BY <1>2, <1>3
<1>5. inUse' \subseteq Memory
  BY <1>3
<1>6. left = {ring[y].buffers : y \in Rings \ {x}} \ {NoMemory}
  BY <1>3
<1>7. {ring'[y].buffers : y \in Rings} = {ring[y].buffers : y \in Rings \ {x}} \cup {r.buffers}
  BY <1>2
<1>8. NoMemory \notin Memory
  BY MovedRingsAssumption
<1>9. inUse' = {ring'[y].buffers : y \in Rings} \ {NoMemory}
  BY <1>6, <1>7, <1>8
<1>10. \A y \in Rings \ {x} : ring[y].buffers = NoMemory \/ ring[y].buffers \in left
  BY <1>6
<1>11. \A y, z \in Rings :
         (ring'[y].buffers = ring'[z].buffers /\ y # z) => ring'[y].buffers = NoMemory
  BY <1>2, <1>3, <1>8, <1>10
<1>12. RingTypes'
  BY <1>2, <1>4, <1>5 DEF RingTypes, RingSound
<1>13. RingsOwnTheirMemory'
  BY <1>4, <1>9, <1>11 DEF RingsOwnTheirMemory, RingSound
<1>14. BoundsSurvive'
  BY <1>4 DEF BoundsSurvive, RingSound, Gives
<1> QED
  BY <1>12, <1>13, <1>14 DEF RingsIInv

LEMMA NewRingIsSound == RingSound(NewRing, NoBounds)
BY NewRingSound DEF RingSound, NoBounds, NewRing

LEMMA RingsInitIInv == RingsInit => RingsIInv
<1> SUFFICES ASSUME RingsInit PROVE RingsIInv
  OBVIOUS
<1>1. /\ ring \in [Rings -> RingRecords]
      /\ promised \in [Rings -> [startTime : Nat, endTime : Nat]]
      /\ \A x \in Rings : ring[x] = NewRing /\ promised[x] = NoBounds
      /\ inUse = {}
  BY NewRingSound DEF RingsInit, NoBounds
<1>2. \A x \in Rings : RingSound(ring[x], promised[x]) /\ ring[x].buffers = NoMemory
  <2>1. NewRing.buffers = NoMemory
    BY DEF NewRing
  <2> QED
    BY <1>1, <2>1, NewRingIsSound
<1>3. inUse = {ring[x].buffers : x \in Rings} \ {NoMemory}
  BY <1>1, <1>2
<1> QED
  BY <1>1, <1>2, <1>3, RingByRing

LEMMA AllocateRingIInv ==
  ASSUME RingsIInv, NEW x \in Rings, NEW size \in RingSizes,
         NEW f \in RingFormats \cup {NoRingFormat}, AllocateRing(x, size, f)
  PROVE  RingsIInv'
<1> DEFINE left == inUse \ {ring[x].buffers}
<1>1. /\ ring[x] \in RingRecords /\ (ring[x].buffers = NoMemory => ring[x] = NewRing)
      /\ promised' = [promised EXCEPT ![x] = NoBounds]
  BY BuffersTyped DEF RingSound, AllocateRing
<1>2. CASE /\ ring' = [ring EXCEPT ![x] = WithoutMemory(ring[x])]
           /\ inUse' = left
  <2>1. ring' = [ring EXCEPT ![x] = NewRing]
    BY <1>1, <1>2, WithoutMemorySound
  <2>2. NewRing.buffers = NoMemory
    BY DEF NewRing
  <2> HIDE DEF left
  <2> QED
    BY <1>1, <1>2, <2>1, <2>2, NewRingIsSound, OneRingChanges DEF left
<1>3. CASE \E b \in Memory \ left :
             /\ ring' = [ring EXCEPT ![x] = WithMemory(ring[x], b, size, f)]
             /\ inUse' = left \cup {b}
  <2>1. PICK b \in Memory \ left :
          /\ ring' = [ring EXCEPT ![x] = WithMemory(ring[x], b, size, f)]
          /\ inUse' = left \cup {b}
    BY <1>3
  <2> DEFINE s == WithMemory(ring[x], b, size, f)
  <2>2. /\ s \in RingRecords /\ InOrder(s) /\ Gives(s, NoBounds)
        /\ s.buffers = b /\ s.capacity = size /\ s.capacityMask = size - 1
    BY <1>1, WithMemorySound
  <2> HIDE DEF s, left
  <2>3. RingSound(s, NoBounds)
    BY <2>2, MovedRingsAssumption DEF RingSound, NoBounds
  <2>4. ring' = [ring EXCEPT ![x] = s] /\ s.buffers \in Memory \ left /\ inUse' = left \cup {s.buffers}
    BY <2>1, <2>2 DEF s
  <2> QED
    BY <1>1, <2>3, <2>4, OneRingChanges DEF left
<1> QED
  BY <1>2, <1>3 DEF AllocateRing

(* deallocate and the destructor leave a new ring.                         *)
LEMMA EmptiedIInv ==
  ASSUME RingsIInv, NEW x \in Rings, DeallocateRing(x) \/ DestroyRing(x)
  PROVE  RingsIInv'
<1>1. ring[x] \in RingRecords /\ (ring[x].buffers = NoMemory => ring[x] = NewRing)
  BY BuffersTyped DEF RingSound
<1>2. WithoutMemory(ring[x]) = NewRing /\ NewRing.buffers = NoMemory
  BY <1>1, WithoutMemorySound DEF NewRing
<1>3. /\ ring' = [ring EXCEPT ![x] = NewRing]
      /\ inUse' = inUse \ {ring[x].buffers}
      /\ promised' = [promised EXCEPT ![x] = NoBounds]
  BY <1>2 DEF DeallocateRing, DestroyRing
<1> QED
  BY <1>2, <1>3, NewRingIsSound, OneRingChanges

(* reset and write leave the memory alone.                                 *)
LEMMA SameMemoryIInv ==
  ASSUME RingsIInv, NEW x \in Rings, NEW r, NEW b, RingSound(r, b),
         SameMemory(r, ring[x]),
         ring' = [ring EXCEPT ![x] = r],
         promised' = [promised EXCEPT ![x] = b],
         inUse' = inUse
  PROVE  RingsIInv'
<1> DEFINE left == inUse \ {ring[x].buffers}
<1>1. r.buffers = ring[x].buffers
  BY DEF SameMemory
<1>2. ring[x].buffers \in Memory \cup {NoMemory}
  BY BuffersTyped
<1>3. inUse = {ring[y].buffers : y \in Rings} \ {NoMemory}
  BY DEF RingsIInv, RingsOwnTheirMemory
<1>4. \/ r.buffers = NoMemory /\ inUse' = left
      \/ r.buffers \in Memory \ left /\ inUse' = left \cup {r.buffers}
  BY <1>1, <1>2, <1>3
<1> HIDE DEF left
<1> QED
  BY <1>4, OneRingChanges DEF left

LEMMA ResetRingIInv ==
  ASSUME RingsIInv, NEW x \in Rings, ResetRing(x)
  PROVE  RingsIInv'
<1> DEFINE s == WithoutBounds(ring[x])
<1>1. ring[x] \in RingRecords /\ RingSound(ring[x], promised[x])
  BY BuffersTyped
<1>2. /\ s \in RingRecords /\ InOrder(s) /\ Gives(s, NoBounds) /\ SameMemory(s, ring[x])
  BY <1>1, WithoutBoundsSound
<1>3. ring[x] = NewRing => s = NewRing
  <2>1. s.queue = NewRing.queue /\ s.counter = NewRing.counter
    BY <1>1 DEF WithoutBounds, NewRing, RingRecords
  <2> QED
    BY <1>2, <2>1, NewRingSound DEF SameMemory, RingRecords
<1>4. /\ ring' = [ring EXCEPT ![x] = s]
      /\ promised' = [promised EXCEPT ![x] = NoBounds]
      /\ inUse' = inUse
  BY DEF ResetRing
<1> HIDE DEF s
<1>5. RingSound(s, NoBounds)
  BY <1>1, <1>2, <1>3 DEF RingSound, SameMemory, NoBounds
<1> QED
  BY <1>2, <1>4, <1>5, SameMemoryIInv

LEMMA WriteToRingIInv ==
  ASSUME RingsIInv, NEW x \in Rings, NEW time \in Nat, NEW count \in Nat \ {0},
         WriteToRing(x, time, count)
  PROVE  RingsIInv'
<1> DEFINE end == time + count
           s == Written(ring[x], time, end)
           w == Window(promised[x], ring[x].capacity, time, end)
<1>1. /\ ring[x] \in RingRecords /\ RingSound(ring[x], promised[x])
      /\ ring[x].capacity \in Nat
  BY BuffersTyped, CapacityTyped
<1>2. end \in Nat /\ time < end /\ end - time <= ring[x].capacity /\ ring[x].capacity # 0
  BY <1>1 DEF WriteToRing
<1>3. /\ ring' = [ring EXCEPT ![x] = s]
      /\ promised' = [promised EXCEPT ![x] = w]
      /\ inUse' = inUse
  BY DEF WriteToRing
<1> HIDE DEF end
<1>4. /\ s \in RingRecords /\ InOrder(s) /\ SameMemory(s, ring[x])
      /\ w \in [startTime : Nat, endTime : Nat] /\ Gives(s, w)
  BY <1>1, <1>2, WrittenSound DEF RingSound
<1> HIDE DEF s, w
<1>5. ring[x].buffers # NoMemory
  BY <1>1, <1>2 DEF RingSound, NewRing
<1>6. RingSound(s, w)
  BY <1>1, <1>4, <1>5 DEF RingSound, SameMemory
<1> QED
  BY <1>3, <1>4, <1>6, SameMemoryIInv

(* A move is a change of the ring that is moved from, and one of the ring   *)
(* that is moved to, which takes over memory that is then nobody's.        *)
LEMMA MoveRingIInv ==
  ASSUME RingsIInv, NEW x \in Rings, NEW y \in Rings, MoveRing(x, y)
  PROVE  RingsIInv'
<1>1. /\ x # y
      /\ ring' = [ring EXCEPT ![x] = ring[y], ![y] = NewRing]
      /\ inUse' = inUse \ {ring[x].buffers}
      /\ promised' = [promised EXCEPT ![x] = promised[y], ![y] = NoBounds]
  BY DEF MoveRing
<1>2. /\ ring \in [Rings -> RingRecords]
      /\ promised \in [Rings -> [startTime : Nat, endTime : Nat]]
      /\ \A z \in Rings : RingSound(ring[z], promised[z])
      /\ RingSound(NewRing, NoBounds) /\ NewRing.buffers = NoMemory
  BY BuffersTyped, NewRingIsSound DEF NewRing
<1>3. NewRing \in RingRecords /\ NoBounds \in [startTime : Nat, endTime : Nat]
  BY <1>2 DEF RingSound
<1>4. /\ ring' \in [Rings -> RingRecords]
      /\ promised' \in [Rings -> [startTime : Nat, endTime : Nat]]
      /\ ring'[x] = ring[y] /\ promised'[x] = promised[y]
      /\ ring'[y] = NewRing /\ promised'[y] = NoBounds
      /\ \A z \in Rings \ {x, y} : ring'[z] = ring[z] /\ promised'[z] = promised[z]
  BY <1>1, <1>2, <1>3
<1>5. \A z \in Rings : RingSound(ring'[z], promised'[z])
  BY <1>2, <1>4
<1>6. /\ inUse \subseteq Memory
      /\ inUse = {ring[z].buffers : z \in Rings} \ {NoMemory}
      /\ \A v, z \in Rings :
           (ring[v].buffers = ring[z].buffers /\ v # z) => ring[v].buffers = NoMemory
  BY <1>2, RingByRing
<1>7. inUse' = {ring[z].buffers : z \in Rings \ {x}} \ {NoMemory}
  BY <1>1, <1>6
<1>8. {ring'[z].buffers : z \in Rings} = {ring[z].buffers : z \in Rings \ {x}} \cup {NoMemory}
  BY <1>1, <1>2, <1>4
<1>9. inUse' = {ring'[z].buffers : z \in Rings} \ {NoMemory}
  BY <1>7, <1>8
<1>10. \A v, z \in Rings :
         (ring'[v].buffers = ring'[z].buffers /\ v # z) => ring'[v].buffers = NoMemory
  BY <1>1, <1>2, <1>4, <1>6
<1>11. RingTypes' /\ RingsOwnTheirMemory' /\ BoundsSurvive'
  BY <1>1, <1>4, <1>5, <1>6, <1>9, <1>10
     DEF RingTypes, RingsOwnTheirMemory, BoundsSurvive, RingSound, Gives
<1> QED
  BY <1>11 DEF RingsIInv

LEMMA RingsNextIInv == RingsIInv /\ [RingsNext]_ringVars => RingsIInv'
<1> SUFFICES ASSUME RingsIInv, [RingsNext]_ringVars
             PROVE  RingsIInv'
  OBVIOUS
<1>1. ASSUME NEW x \in Rings, NEW size \in RingSizes, NEW f \in RingFormats,
             AllocateRing(x, size, f)
      PROVE  RingsIInv'
  BY <1>1, AllocateRingIInv
<1>2. ASSUME NEW x \in Rings, NEW size \in RingSizes, AllocateWithOwn(x, size)
      PROVE  RingsIInv'
  BY <1>2, AllocateRingIInv DEF AllocateWithOwn
<1>3. ASSUME NEW x \in Rings, DeallocateRing(x) \/ DestroyRing(x)
      PROVE  RingsIInv'
  BY <1>3, EmptiedIInv
<1>4. ASSUME NEW x \in Rings, ResetRing(x)
      PROVE  RingsIInv'
  BY <1>4, ResetRingIInv
<1>5. ASSUME NEW x \in Rings, NEW y \in Rings, MoveRing(x, y)
      PROVE  RingsIInv'
  BY <1>5, MoveRingIInv
<1>6. ASSUME NEW x \in Rings, NEW time \in 0 .. LatestTime, NEW count \in 0 .. LatestTime,
             count # 0, WriteToRing(x, time, count)
      PROVE  RingsIInv'
  <2>1. time \in Nat /\ count \in Nat \ {0}
    BY <1>6, MovedRingsAssumption
  <2> QED
    BY <1>6, <2>1, WriteToRingIInv
<1>7. CASE UNCHANGED ringVars
  BY <1>7 DEF RingsIInv, RingTypes, RingsOwnTheirMemory, BoundsSurvive, ringVars
<1> QED
  BY <1>1, <1>2, <1>3, <1>4, <1>5, <1>6, <1>7 DEF RingsNext

LEMMA RingsIInvHolds == RingsSpec => []RingsIInv
BY RingsInitIInv, RingsNextIInv, PTL DEF RingsSpec

(* The fields of any rings have their types, and no published window is of  *)
(* a time after its end, after any sequence of calls.                      *)
THEOREM RingTypesHold == RingsSpec => []RingTypes
<1>1. RingsIInv => RingTypes
  BY DEF RingsIInv
<1> QED
  BY <1>1, RingsIInvHolds, PTL

(* allocate, deallocate, moves and the destructor free each block once, and *)
(* none is lost; a ring that was moved from is as a new one.               *)
THEOREM RingMemoryHolds == RingsSpec => []RingsOwnTheirMemory
<1>1. RingsIInv => RingsOwnTheirMemory
  BY DEF RingsIInv
<1> QED
  BY <1>1, RingsIInvHolds, PTL

(* However rings were reset, moved, allocated anew and written to, their    *)
(* queues answer getTimeBounds, with the bounds of the writes that count.  *)
THEOREM BoundsHold == RingsSpec => []BoundsSurvive
<1>1. RingsIInv => BoundsSurvive
  BY DEF RingsIInv
<1> QED
  BY <1>1, RingsIInvHolds, PTL

-----------------------------------------------------------------------------
(* A list that is read into, for any capacities and bounds.               *)

(* A byte and the frame it is of.                                          *)
LEMMA InFrames ==
  ASSUME NEW i \in Nat, NEW k \in Nat
  PROVE  /\ i \div BytesPerFrame \in Nat
         /\ SizeOf(k) \in Nat
         /\ SizeOf(k) <= i <=> k <= i \div BytesPerFrame
         /\ (i - SizeOf(k)) \div BytesPerFrame = (i \div BytesPerFrame) - k
<1> DEFINE b == BytesPerFrame
           q == i \div b
           r == i % b
<1>1. b \in Nat \ {0}
  BY ReadingAssumption
<1>2. i = b * q + r /\ q \in Int /\ r \in 0 .. b - 1
  BY <1>1, DivMod, ModRange
<1> HIDE DEF b, q, r
<1>3. q \in Nat
  <2>1. CASE q <= -1
    <3>1. b * q <= -b
      BY <1>1, <1>2, <2>1
    <3> QED
      BY <1>1, <1>2, <3>1
  <2> QED
    BY <1>2, <2>1
<1>4. k * b \in Nat
  BY <1>1
<1>5. ASSUME k <= q PROVE k * b <= i
  <2>1. b * q = b * k + b * (q - k) /\ b * (q - k) >= 0 /\ b * k = k * b
    BY <1>1, <1>2, <1>5
  <2> QED
    BY <1>1, <1>2, <1>4, <2>1
<1>6. ASSUME q < k PROVE i < k * b
  <2>1. b * k = b * q + b * (k - q) /\ b * (k - q) >= b /\ b * k = k * b
    BY <1>1, <1>2, <1>6
  <2> QED
    BY <1>1, <1>2, <1>4, <2>1
<1>7. k * b <= i <=> k <= q
  BY <1>2, <1>4, <1>5, <1>6
<1>8. (i - k * b) \div b = q - k
  <2>1. i - k * b = b * (q - k) + r
    BY <1>1, <1>2, <1>4
  <2>2. i - k * b \in Int /\ q - k \in Int
    BY <1>2, <1>4
  <2> QED
    BY <1>1, <1>2, <2>1, <2>2, DivUnique
<1> QED
  BY <1>3, <1>4, <1>7, <1>8 DEF SizeOf, b, q

(* Sizes are as frames are.                                                *)
LEMMA SizesOfFrames ==
  ASSUME NEW k \in Nat, NEW m \in Nat
  PROVE  /\ SizeOf(k) \in Nat
         /\ SizeOf(k) + SizeOf(m) = SizeOf(k + m)
         /\ k <= m => SizeOf(m) - SizeOf(k) = SizeOf(m - k)
         /\ k <= m <=> SizeOf(k) <= SizeOf(m)
         /\ k < m <=> SizeOf(k) < SizeOf(m)
         /\ SizeOf(k) \div BytesPerFrame = k
         /\ SizeOf(k) % BytesPerFrame = 0
         /\ SizeOf(k) > 0 <=> k > 0
<1> DEFINE b == BytesPerFrame
<1>1. b \in Nat \ {0}
  BY ReadingAssumption
<1> HIDE DEF b
<1>2. k * b \in Nat /\ m * b \in Nat
  BY <1>1
<1>3. k * b + m * b = (k + m) * b /\ m * b - k * b = (m - k) * b
  BY <1>1
<1>4. k <= m => k * b <= m * b
  <2>1. k <= m => (m - k) * b >= 0
    BY <1>1
  <2> QED
    BY <1>2, <1>3, <2>1
<1>5. k < m => k * b < m * b
  <2>1. k < m => (m - k) * b >= b
    BY <1>1
  <2> QED
    BY <1>1, <1>2, <1>3, <2>1
<1>6. m < k => m * b < k * b
  <2>1. m < k => (k - m) * b >= b
    BY <1>1
  <2>2. k * b - m * b = (k - m) * b
    BY <1>1
  <2> QED
    BY <1>1, <1>2, <2>1, <2>2
<1>7. k = m => k * b = m * b
  OBVIOUS
<1>8. (k * b) \div b = k /\ (k * b) % b = 0
  <2>1. k * b = b * k + 0 /\ 0 \in 0 .. b - 1 /\ k \in Int /\ k * b \in Int
    BY <1>1
  <2> QED
    BY <1>1, <2>1, DivUnique, ModUnique
<1>9. k * b > 0 <=> k > 0
  <2>1. k > 0 => k * b >= b
    BY <1>1
  <2>2. k = 0 => k * b = 0
    BY <1>1
  <2> QED
    BY <1>1, <1>2, <2>1, <2>2
<1>10. /\ k <= m <=> k * b <= m * b
       /\ k < m <=> k * b < m * b
  BY <1>2, <1>4, <1>5, <1>6, <1>7
<1> QED
  BY <1>2, <1>3, <1>8, <1>9, <1>10 DEF SizeOf, b

(* The frames a call is silent for, finds, and is silent for again.        *)
Lead(call) == FirstIn(call) - call.time

Found(call) == EndIn(call) - FirstIn(call)

Rest(call) == call.time + call.count - EndIn(call)

(* What is known of a call.                                                *)
IsCall(call) ==
  /\ call.time \in Nat /\ call.count \in Nat \ {0}
  /\ call.count <= RingCapacity
  /\ call.startTime \in Nat /\ call.endTime \in Nat
  /\ call.startTime <= call.endTime
  /\ call.endTime - call.startTime <= RingCapacity
  /\ call.endTime <= LastTime

LEMMA CallTyped ==
  ASSUME NEW call \in Calls
  PROVE  IsCall(call)
<1>1. /\ call \in [time : 0 .. LastTime, count : 1 .. RingCapacity,
                   startTime : 0 .. LastTime, endTime : 0 .. LastTime]
      /\ call.startTime <= call.endTime /\ call.endTime - call.startTime <= RingCapacity
  BY DEF Calls
<1>2. /\ call.time \in Nat /\ call.startTime \in Nat /\ call.endTime \in Nat
      /\ call.endTime <= LastTime
  BY <1>1, ReadingAssumption
<1>3. call.count \in 1 .. RingCapacity
  BY <1>1
<1>4. /\ call.count \in Nat \ {0}
      /\ call.count <= RingCapacity
  BY <1>3, ReadingAssumption
<1> QED
  BY <1>1, <1>2, <1>4 DEF IsCall

(* A call that meets the bounds: silence, audio and silence, in a row.     *)
LEMMA Overlapping ==
  ASSUME NEW call, IsCall(call), Overlaps(call)
  PROVE  /\ Lead(call) \in Nat /\ Found(call) \in Nat \ {0} /\ Rest(call) \in Nat
         /\ Lead(call) + Found(call) + Rest(call) = call.count
         /\ Found(call) <= RingCapacity
         /\ FirstIn(call) \in Nat
         /\ FirstIn(call) = call.time + Lead(call)
         /\ EndIn(call) = FirstIn(call) + Found(call)
         /\ FirstIn(call) >= call.startTime /\ EndIn(call) <= call.endTime
         /\ Lead(call) > 0 => FirstIn(call) = call.startTime
         /\ Rest(call) > 0 => EndIn(call) = call.endTime
<1>1. /\ call.time \in Nat /\ call.count \in Nat \ {0}
      /\ call.startTime \in Nat /\ call.endTime \in Nat
      /\ call.startTime <= call.endTime
      /\ call.endTime - call.startTime <= RingCapacity
  BY DEF IsCall
<1>2. /\ FirstIn(call) \in Nat /\ FirstIn(call) >= call.time
      /\ FirstIn(call) >= call.startTime
      /\ FirstIn(call) > call.time => FirstIn(call) = call.startTime
  BY <1>1 DEF FirstIn
<1>3. /\ EndIn(call) \in Nat /\ EndIn(call) <= call.time + call.count
      /\ EndIn(call) <= call.endTime
      /\ EndIn(call) < call.time + call.count => EndIn(call) = call.endTime
  BY <1>1 DEF EndIn, Least
<1>4. FirstIn(call) < EndIn(call)
  BY DEF Overlaps
<1>5. RingCapacity \in Nat
  BY ReadingAssumption
<1> QED
  BY <1>1, <1>2, <1>3, <1>4, <1>5 DEF Lead, Found, Rest

(* A piece of whole frames.                                                *)
Whole(offset, count, from) == Piece(SizeOf(offset), SizeOf(count), from)

(* What is copied from the ring, by frames: up to its end, and from its    *)
(* start on.                                                               *)
LEMMA FetchedInParts ==
  ASSUME NEW call, IsCall(call), Overlaps(call),
         NEW r, r = FirstIn(call) % RingCapacity
  PROVE  /\ r \in 0 .. RingCapacity - 1
         /\ SizeFetched(call) = SizeOf(Found(call))
         /\ r + Found(call) < RingCapacity =>
              Fetched(call) = {Whole(Lead(call), Found(call), FirstIn(call))}
         /\ r + Found(call) >= RingCapacity =>
              Fetched(call) =
                {Whole(Lead(call), RingCapacity - r, FirstIn(call)),
                 Whole(Lead(call) + (RingCapacity - r), r + Found(call) - RingCapacity,
                       FirstIn(call) + (RingCapacity - r))}
<1> DEFINE m == Found(call)
           k == Lead(call)
           C == RingCapacity
           f == FirstIn(call)
<1>1. /\ m \in Nat \ {0} /\ k \in Nat /\ C \in Nat \ {0} /\ m <= C /\ f \in Nat
      /\ EndIn(call) = f + m
  BY Overlapping, ReadingAssumption
<1>2. f \in Int /\ m \in 0 .. C
  BY <1>1
<1>3. /\ r \in 0 .. C - 1
      /\ EndIn(call) % C = IF r + m < C THEN r + m ELSE r + m - C
  BY <1>1, <1>2, ModRange, ModShift
<1>4. /\ (FirstIn(call) - call.time) * BytesPerFrame = SizeOf(k)
      /\ Offset(FirstIn(call)) = SizeOf(r)
      /\ C * BytesPerFrame = SizeOf(C)
      /\ Offset(EndIn(call)) = SizeOf(EndIn(call) % C)
  BY DEF Lead, Offset, SizeOf
<1> HIDE DEF m, k, C, f
<1>5. /\ r \in Nat /\ C - r \in Nat /\ r <= C
  BY <1>1, <1>3
<1>6. SizeOf(C) - SizeOf(r) = SizeOf(C - r)
  BY <1>1, <1>5, SizesOfFrames
<1>7. ASSUME r + m < C
      PROVE  /\ SizeFetched(call) = SizeOf(m)
             /\ Fetched(call) = {Whole(k, m, f)}
  <2>1. r + m \in Nat /\ r < r + m /\ r <= r + m /\ (r + m) - r = m
    BY <1>1, <1>5
  <2>2. SizeOf(r) < SizeOf(r + m) /\ SizeOf(r + m) - SizeOf(r) = SizeOf(m)
    BY <1>5, <2>1, SizesOfFrames
  <2>3. Offset(EndIn(call)) = SizeOf(r + m)
    BY <1>3, <1>4, <1>7
  <2> QED
    BY <1>4, <2>2, <2>3 DEF SizeFetched, Fetched, Whole, f
<1>8. ASSUME r + m >= C
      PROVE  /\ SizeFetched(call) = SizeOf(m)
             /\ Fetched(call) = {Whole(k, C - r, f),
                                 Whole(k + (C - r), r + m - C, f + (C - r))}
  <2>1. r + m - C \in Nat /\ r + m - C <= r /\ (C - r) + (r + m - C) = m
    BY <1>1, <1>5, <1>8
  <2>2. /\ ~(SizeOf(r) < SizeOf(r + m - C))
        /\ SizeOf(C - r) + SizeOf(r + m - C) = SizeOf(m)
        /\ SizeOf(k) + SizeOf(C - r) = SizeOf(k + (C - r))
        /\ SizeOf(C - r) \div BytesPerFrame = C - r
    <3>1. ~(r < r + m - C)
      BY <1>1, <1>5, <2>1
    <3>2. ~(SizeOf(r) < SizeOf(r + m - C))
      BY <1>5, <2>1, <3>1, SizesOfFrames
    <3>3. SizeOf(C - r) + SizeOf(r + m - C) = SizeOf((C - r) + (r + m - C))
      BY <1>5, <2>1, SizesOfFrames
    <3>4. SizeOf(k) + SizeOf(C - r) = SizeOf(k + (C - r))
      BY <1>1, <1>5, SizesOfFrames
    <3>5. SizeOf(C - r) \div BytesPerFrame = C - r
      BY <1>5, SizesOfFrames
    <3> QED
      BY <2>1, <3>2, <3>3, <3>4, <3>5
  <2>3. Offset(EndIn(call)) = SizeOf(r + m - C)
    <3>1. ~(r + m < C)
      BY <1>1, <1>5, <1>8
    <3> QED
      BY <1>3, <1>4, <3>1
  <2>4. SizeFetched(call) = SizeOf(m)
    BY <1>4, <1>6, <2>2, <2>3 DEF SizeFetched, C
  <2>5. Fetched(call) = {Piece(SizeOf(k), SizeOf(C - r), f),
                         Piece(SizeOf(k) + SizeOf(C - r), SizeOf(r + m - C),
                               f + SizeOf(C - r) \div BytesPerFrame)}
    BY <1>4, <1>6, <2>2, <2>3 DEF Fetched, f, C
  <2> QED
    BY <2>2, <2>4, <2>5 DEF Whole
<1> QED
  BY <1>1, <1>3, <1>5, <1>7, <1>8 DEF m, k, C, f

(* The frame a caller is told it gets for a time, counted from the first.  *)
FrameOf(call, n) ==
  IF call.time + n \in call.startTime .. call.endTime - 1 THEN call.time + n ELSE Silence

(* A piece that is some of the frames of a call, and the right ones.       *)
IsPart(call, p, o, n) ==
  /\ o \in Nat /\ n \in Nat /\ o + n <= call.count
  /\ p = Whole(o, n, p.from)
  /\ \A k \in o .. o + n - 1 :
       FrameOf(call, k) = IF p.from = Silence THEN Silence ELSE p.from + (k - o)

(* A piece of times that are in the bounds is some of the frames.          *)
LEMMA AudioPart ==
  ASSUME NEW call, IsCall(call), NEW o \in Nat, NEW n \in Nat, o + n <= call.count,
         call.time + o >= call.startTime, call.time + o + n <= call.endTime,
         NEW from \in Nat, from = call.time + o
  PROVE  IsPart(call, Whole(o, n, from), o, n)
<1>1. ASSUME NEW k \in o .. o + n - 1
      PROVE  FrameOf(call, k) = from + (k - o)
  BY <1>1 DEF FrameOf, IsCall
<1>2. from # Silence
  BY ReadingAssumption
<1> QED
  BY <1>1, <1>2 DEF IsPart, Whole, Piece

(* And so is a silent one of times that are not.                           *)
LEMMA SilentPart ==
  ASSUME NEW call, IsCall(call), NEW o \in Nat, NEW n \in Nat, o + n <= call.count,
         \A k \in o .. o + n - 1 : call.time + k \notin call.startTime .. call.endTime - 1
  PROVE  IsPart(call, Whole(o, n, Silence), o, n)
BY DEF IsPart, Whole, Piece, FrameOf

(* The pieces are parts of what the caller is told, and make up all of it. *)
LEMMA PiecesAreParts ==
  ASSUME NEW call, IsCall(call)
  PROVE  /\ \A p \in Pieces(call) : \E o, n \in Nat : IsPart(call, p, o, n)
         /\ \A k \in 0 .. call.count - 1 :
              \E p \in Pieces(call) : \E o, n \in Nat :
                IsPart(call, p, o, n) /\ k \in o .. o + n - 1
<1>1. CASE ~Overlaps(call)
  <2>1. \A k \in 0 .. 0 + call.count - 1 :
          call.time + k \notin call.startTime .. call.endTime - 1
    BY <1>1 DEF IsCall, Overlaps, FirstIn, EndIn, Least
  <2>2. IsPart(call, Whole(0, call.count, Silence), 0, call.count)
    BY <2>1, SilentPart DEF IsCall
  <2>3. SizeOf(0) = 0
    BY ReadingAssumption DEF SizeOf
  <2>4. Pieces(call) = {Whole(0, call.count, Silence)}
    BY <1>1, <2>3 DEF Pieces, Whole, SizeOf
  <2>5. 0 \in Nat /\ call.count \in Nat /\ \A k \in 0 .. call.count - 1 : k \in 0 .. 0 + call.count - 1
    BY DEF IsCall
  <2> QED
    BY <2>2, <2>4, <2>5
<1>2. CASE Overlaps(call)
  <2> DEFINE k == Lead(call)
             m == Found(call)
             z == Rest(call)
             f == FirstIn(call)
             C == RingCapacity
             r == f % C
  <2>1. /\ k \in Nat /\ m \in Nat \ {0} /\ z \in Nat /\ k + m + z = call.count
        /\ m <= C /\ f \in Nat /\ f = call.time + k /\ EndIn(call) = f + m
        /\ f >= call.startTime /\ EndIn(call) <= call.endTime
        /\ k > 0 => f = call.startTime
        /\ z > 0 => EndIn(call) = call.endTime
        /\ C \in Nat \ {0}
    BY <1>2, Overlapping, ReadingAssumption
  <2>2. /\ r \in 0 .. C - 1
        /\ r + m < C => Fetched(call) = {Whole(k, m, f)}
        /\ r + m >= C =>
             Fetched(call) = {Whole(k, C - r, f),
                              Whole(k + (C - r), r + m - C, f + (C - r))}
    BY <1>2, FetchedInParts
  <2>3. Gaps(call) = {p \in {Whole(0, k, Silence), Whole(k + m, z, Silence)} : p.count > 0}
    <3>1. /\ (FirstIn(call) - call.time) * BytesPerFrame = SizeOf(k)
          /\ (EndIn(call) - FirstIn(call)) * BytesPerFrame = SizeOf(m)
          /\ (call.time + call.count - EndIn(call)) * BytesPerFrame = SizeOf(z)
      BY DEF SizeOf, Lead, Found, Rest
    <3>2. SizeOf(0) = 0
      BY ReadingAssumption DEF SizeOf
    <3>3. SizeOf(k) + SizeOf(m) = SizeOf(k + m)
      BY <2>1, SizesOfFrames
    <3> HIDE DEF k, m, z
    <3> QED
      BY <3>1, <3>2, <3>3 DEF Gaps, Whole
  <2> HIDE DEF k, m, z, f, C, r
  <2>4. call.time \in Nat /\ call.startTime \in Nat /\ call.endTime \in Nat /\ call.count \in Nat
    BY DEF IsCall
  <2>5. IsPart(call, Whole(0, k, Silence), 0, k)
    <3>1. \A i \in 0 .. 0 + k - 1 : call.time + i \notin call.startTime .. call.endTime - 1
      BY <2>1, <2>4
    <3>2. 0 + k <= call.count /\ 0 \in Nat /\ k \in Nat
      BY <2>1
    <3> QED
      BY <3>1, <3>2, SilentPart
  <2>6. IsPart(call, Whole(k + m, z, Silence), k + m, z)
    <3>1. \A i \in k + m .. k + m + z - 1 :
            call.time + i \notin call.startTime .. call.endTime - 1
      BY <2>1, <2>4
    <3>2. k + m + z <= call.count /\ k + m \in Nat /\ z \in Nat
      BY <2>1, <2>4
    <3> QED
      BY <3>1, <3>2, SilentPart
  <2>7. /\ Whole(0, k, Silence).count > 0 <=> k > 0
        /\ Whole(k + m, z, Silence).count > 0 <=> z > 0
    BY <2>1, SizesOfFrames DEF Whole, Piece
  <2>8. ASSUME r + m < C
        PROVE  IsPart(call, Whole(k, m, f), k, m)
    <3>1. /\ k \in Nat /\ m \in Nat /\ k + m <= call.count
          /\ call.time + k >= call.startTime /\ call.time + k + m <= call.endTime
      BY <2>1, <2>4
    <3> QED
      BY <2>1, <3>1, AudioPart
  <2>9. ASSUME r + m >= C
        PROVE  /\ IsPart(call, Whole(k, C - r, f), k, C - r)
               /\ IsPart(call, Whole(k + (C - r), r + m - C, f + (C - r)),
                         k + (C - r), r + m - C)
               /\ k + (C - r) \in Nat /\ C - r \in Nat /\ r + m - C \in Nat
    <3>1. /\ C - r \in Nat /\ r + m - C \in Nat /\ k + (C - r) \in Nat /\ k + (C - r) <= call.count
          /\ call.time + k >= call.startTime /\ call.time + k + (C - r) <= call.endTime
      BY <2>1, <2>2, <2>4, <2>9
    <3>2. /\ k + (C - r) + (r + m - C) <= call.count
          /\ call.time + (k + (C - r)) >= call.startTime
          /\ call.time + (k + (C - r)) + (r + m - C) <= call.endTime
          /\ f + (C - r) \in Nat /\ f + (C - r) = call.time + (k + (C - r))
      BY <2>1, <2>2, <2>4, <2>9
    <3>3. IsPart(call, Whole(k, C - r, f), k, C - r)
      BY <2>1, <3>1, AudioPart
    <3>4. IsPart(call, Whole(k + (C - r), r + m - C, f + (C - r)), k + (C - r), r + m - C)
      BY <3>1, <3>2, AudioPart
    <3> QED
      BY <3>1, <3>3, <3>4
  <2>10. Pieces(call) = Gaps(call) \cup Fetched(call)
    BY <1>2 DEF Pieces
  <2>11. 0 \in Nat /\ k \in Nat /\ m \in Nat /\ z \in Nat /\ k + m \in Nat
    BY <2>1
  <2>12. \A p \in Pieces(call) : \E o, n \in Nat : IsPart(call, p, o, n)
    <3>1. \A p \in Gaps(call) : \E o, n \in Nat : IsPart(call, p, o, n)
      BY <2>3, <2>5, <2>6, <2>11
    <3>2. CASE r + m < C
      BY <2>2, <2>8, <2>10, <2>11, <3>1, <3>2
    <3>3. CASE r + m >= C
      BY <2>2, <2>9, <2>10, <2>11, <3>1, <3>3
    <3> QED
      BY <2>1, <2>2, <3>2, <3>3
  <2>13. ASSUME NEW i \in 0 .. call.count - 1
         PROVE  \E p \in Pieces(call) : \E o, n \in Nat :
                  IsPart(call, p, o, n) /\ i \in o .. o + n - 1
    <3>1. CASE i < k
      <4>1. k > 0 /\ i \in 0 .. 0 + k - 1
        BY <2>1, <2>4, <3>1
      <4>2. Whole(0, k, Silence) \in Pieces(call)
        BY <2>3, <2>7, <2>10, <4>1
      <4> QED
        BY <2>5, <2>11, <4>1, <4>2
    <3>2. CASE i >= k + m
      <4>1. z > 0 /\ i \in k + m .. k + m + z - 1
        BY <2>1, <2>4, <3>2
      <4>2. Whole(k + m, z, Silence) \in Pieces(call)
        BY <2>3, <2>7, <2>10, <4>1
      <4> QED
        BY <2>6, <2>11, <4>1, <4>2
    <3>3. CASE i >= k /\ i < k + m /\ r + m < C
      <4>1. i \in k .. k + m - 1
        BY <2>1, <2>4, <3>3
      <4> QED
        BY <2>2, <2>8, <2>10, <2>11, <3>3, <4>1
    <3>4. CASE i >= k /\ i < k + m /\ r + m >= C
      <4>1. CASE i < k + (C - r)
        <5>1. i \in k .. k + (C - r) - 1
          BY <2>1, <2>2, <2>4, <3>4, <4>1
        <5> QED
          BY <2>2, <2>9, <2>10, <2>11, <3>4, <5>1
      <4>2. CASE i >= k + (C - r)
        <5>1. i \in k + (C - r) .. k + (C - r) + (r + m - C) - 1
          BY <2>1, <2>2, <2>4, <3>4, <4>2
        <5> QED
          BY <2>2, <2>9, <2>10, <2>11, <3>4, <5>1
      <4> QED
        BY <2>1, <2>2, <2>4, <4>1, <4>2
    <3> QED
      BY <2>1, <2>2, <2>4, <3>1, <3>2, <3>3, <3>4
  <2> QED
    BY <2>12, <2>13
<1> QED
  BY <1>1, <1>2

(* A piece goes to its own bytes only, which are of the list if it has      *)
(* their frames, or if its size is right and the piece begins in it; and   *)
(* to all of its own that there are if the list is full.                   *)
LEMMA Reached ==
  ASSUME NEW call, IsCall(call), NEW p, NEW o \in Nat, NEW n \in Nat, IsPart(call, p, o, n),
         dataSize \in Nat
  PROVE  /\ \A i \in Reach(p) :
              /\ i \div BytesPerFrame \in o .. o + n - 1
              /\ ContentOf(p, i) = FrameOf(call, i \div BytesPerFrame)
         /\ o + n <= FrameCapacity => Reach(p) \subseteq Bytes
         /\ (p.offset <= dataSize /\ dataSize <= Room) => Reach(p) \subseteq Bytes
         /\ dataSize = Room =>
              \A i \in Bytes : i \div BytesPerFrame \in o .. o + n - 1 => i \in Reach(p)
<1> DEFINE left == (dataSize - p.offset) % UInt32Values
<1>1. p.offset = SizeOf(o) /\ p.count = SizeOf(n) /\ o + n \in Nat
  BY DEF IsPart, Whole, Piece
<1>2. /\ SizeOf(o) \in Nat /\ SizeOf(n) \in Nat /\ SizeOf(o) + SizeOf(n) = SizeOf(o + n)
      /\ SizeOf(o + n) \in Nat
  BY <1>1, SizesOfFrames
<1>3. /\ Room = SizeOf(FrameCapacity) /\ Room \in Nat /\ Room < UInt32Values
      /\ UInt32Values \in Nat \ {0} /\ FrameCapacity \in Nat
  <2>1. SizeOf(FrameCapacity) \in Nat
    BY ReadingAssumption, SizesOfFrames
  <2> QED
    BY <2>1, ReadingAssumption DEF SizeOf, Room
<1>4. left \in Nat
  <2> DEFINE d == dataSize - p.offset
  <2>1. d \in Int
    BY <1>1, <1>2
  <2> HIDE DEF d
  <2>2. d % UInt32Values \in 0 .. UInt32Values - 1
    BY <2>1, <1>3, ModRange
  <2> QED
    BY <2>2, <1>3 DEF d
<1>5. ASSUME p.offset <= dataSize, dataSize <= Room
      PROVE  left = dataSize - p.offset
  BY <1>1, <1>2, <1>3, <1>5, SmallMod
<1> HIDE DEF left
<1> DEFINE end == SizeOf(o) + Least(SizeOf(n), left)
<1>6. /\ Reach(p) = SizeOf(o) .. end - 1
      /\ end \in Nat /\ end <= SizeOf(o + n)
      /\ (p.offset <= dataSize /\ dataSize <= Room) => end <= dataSize
      /\ (p.offset <= dataSize /\ dataSize = Room) => end = Least(SizeOf(o + n), Room)
  <2>1. Reach(p) = SizeOf(o) .. end - 1
    <3>1. Reach(p) = p.offset .. p.offset + Least(p.count, left) - 1
      BY DEF Reach, left
    <3>2. Least(SizeOf(n), left) \in Nat
      BY <1>2, <1>4 DEF Least
    <3>3. end - 1 = SizeOf(o) + Least(SizeOf(n), left) - 1
      BY <1>2, <3>2
    <3> QED
      BY <1>1, <3>1, <3>3
  <2>2. end \in Nat /\ end <= SizeOf(o + n)
    BY <1>2, <1>4 DEF Least
  <2>3. /\ (p.offset <= dataSize /\ dataSize <= Room) => end <= dataSize
        /\ (p.offset <= dataSize /\ dataSize = Room) => end = Least(SizeOf(o + n), Room)
    <3> DEFINE first == SizeOf(o)
               asked == SizeOf(n)
               past == SizeOf(o + n)
    <3>1. /\ first \in Nat /\ asked \in Nat /\ past = first + asked
          /\ Room \in Nat /\ dataSize \in Nat
      BY <1>2, <1>3
    <3>2. (first <= dataSize /\ dataSize <= Room) => left = dataSize - first
      BY <1>1, <1>5
    <3> HIDE DEF first, asked, past
    <3>3. /\ (first <= dataSize /\ dataSize <= Room) => first + Least(asked, left) <= dataSize
          /\ (first <= dataSize /\ dataSize = Room)
               => first + Least(asked, left) = Least(past, Room)
      BY <3>1, <3>2, <1>4 DEF Least
    <3> QED
      BY <3>3, <1>1 DEF first, asked, past
  <2> HIDE DEF end
  <2> QED
    BY <2>1, <2>2, <2>3
<1> HIDE DEF end
<1>7. o + n <= FrameCapacity => Reach(p) \subseteq Bytes
  <2>1. o + n <= FrameCapacity => SizeOf(o + n) <= Room
    BY <1>1, <1>3, SizesOfFrames
  <2> QED
    BY <2>1, <1>2, <1>3, <1>6 DEF Bytes
<1>8. (p.offset <= dataSize /\ dataSize <= Room) => Reach(p) \subseteq Bytes
  BY <1>2, <1>3, <1>6 DEF Bytes
<1>9. ASSUME NEW i \in Reach(p)
      PROVE  /\ i \div BytesPerFrame \in o .. o + n - 1
             /\ ContentOf(p, i) = FrameOf(call, i \div BytesPerFrame)
  <2>1. i \in Nat /\ SizeOf(o) <= i /\ i < SizeOf(o + n)
    BY <1>2, <1>6
  <2>2. /\ i \div BytesPerFrame \in Nat
        /\ SizeOf(o) <= i <=> o <= i \div BytesPerFrame
        /\ SizeOf(o + n) <= i <=> o + n <= i \div BytesPerFrame
        /\ (i - SizeOf(o)) \div BytesPerFrame = (i \div BytesPerFrame) - o
    BY <1>1, <2>1, InFrames
  <2>3. i \div BytesPerFrame \in o .. o + n - 1
    BY <1>1, <1>2, <2>1, <2>2
  <2>4. ContentOf(p, i) =
          IF p.from = Silence THEN Silence ELSE p.from + ((i \div BytesPerFrame) - o)
    BY <1>1, <2>2 DEF ContentOf
  <2> QED
    BY <2>3, <2>4 DEF IsPart
<1>10. ASSUME dataSize = Room, NEW i \in Bytes, i \div BytesPerFrame \in o .. o + n - 1
       PROVE  i \in Reach(p)
  <2>1. i \in Nat /\ i < Room
    BY <1>3 DEF Bytes
  <2>2. /\ i \div BytesPerFrame \in Nat
        /\ SizeOf(o) <= i <=> o <= i \div BytesPerFrame
        /\ SizeOf(o + n) <= i <=> o + n <= i \div BytesPerFrame
    BY <1>1, <2>1, InFrames
  <2>3. SizeOf(o) <= i /\ i < SizeOf(o + n)
    BY <1>1, <1>2, <1>10, <2>1, <2>2
  <2>4. end = Least(SizeOf(o + n), Room)
    <3>1. SizeOf(o) <= Room
      BY <1>2, <1>3, <2>1, <2>3
    <3>2. p.offset <= dataSize
      BY <3>1, <1>1, <1>10
    <3> QED
      BY <3>2, <1>6, <1>10, Zenon
  <2>5. i < end
    BY <1>2, <1>3, <2>1, <2>3, <2>4 DEF Least
  <2> QED
    BY <1>2, <1>6, <2>1, <2>3, <2>5
<1> QED
  BY <1>7, <1>8, <1>9, <1>10

(* A list's size is one of its frames until a read asks for too many, and   *)
(* all of them when it is ready.                                           *)
WholeFrames == \E n \in 0 .. FrameCapacity : dataSize = SizeOf(n)

ListIInv ==
  /\ ListTypes
  /\ ready => dataSize = Room
  /\ tooLong = 0 => WholeFrames
  /\ ReadsStayInside
  /\ ReadsFillTheList

(* The size of a full list is its memory.                                  *)
LEMMA FullList == FrameCapacity \in 0 .. FrameCapacity /\ SizeOf(FrameCapacity) = Room
BY ReadingAssumption DEF SizeOf, Room

LEMMA SizeInRoom ==
  ASSUME WholeFrames
  PROVE  dataSize \in Nat /\ dataSize <= Room
<1>1. PICK n \in 0 .. FrameCapacity : dataSize = SizeOf(n)
  BY DEF WholeFrames
<1>2. n \in Nat /\ FrameCapacity \in Nat /\ n <= FrameCapacity
  BY ReadingAssumption
<1> QED
  BY <1>1, <1>2, FullList, SizesOfFrames

LEMMA FrameTyped ==
  ASSUME NEW call, IsCall(call), NEW n \in Nat
  PROVE  FrameOf(call, n) \in (0 .. LastTime - 1) \cup {Silence}
BY ReadingAssumption DEF FrameOf, IsCall

LEMMA ReadListIInv ==
  ASSUME ListIInv, NEW call \in Calls, Read(call)
  PROVE  ListIInv'
<1>1. IsCall(call)
  BY CallTyped
<1>2. /\ \A p \in Pieces(call) : \E o, n \in Nat : IsPart(call, p, o, n)
      /\ \A k \in 0 .. call.count - 1 :
           \E p \in Pieces(call) : \E o, n \in Nat : IsPart(call, p, o, n) /\ k \in o .. o + n - 1
  BY <1>1, PiecesAreParts
<1>3. dataSize \in Nat
  BY DEF ListIInv, ListTypes
<1>4. tooLong = 0 => dataSize <= Room
  BY SizeInRoom DEF ListIInv
<1>5. ASSUME NEW p \in Pieces(call)
      PROVE  /\ \A i \in Reach(p) :
                  /\ i \div BytesPerFrame \in 0 .. call.count - 1
                  /\ ContentOf(p, i) = FrameOf(call, i \div BytesPerFrame)
             /\ call.count <= FrameCapacity => Reach(p) \subseteq Bytes
             /\ (p.offset <= dataSize /\ dataSize <= Room) => Reach(p) \subseteq Bytes
  <2>1. PICK o \in Nat, n \in Nat : IsPart(call, p, o, n)
    BY <1>2
  <2>2. o + n <= call.count /\ call.count \in Nat
    BY <1>1, <2>1 DEF IsPart, IsCall
  <2>3. \A j \in o .. o + n - 1 : j \in 0 .. call.count - 1
    BY <2>2
  <2>4. call.count <= FrameCapacity => o + n <= FrameCapacity
    BY <2>2, ReadingAssumption
  <2> QED
    BY <1>1, <1>3, <2>1, <2>3, <2>4, Reached
<1>6. data' = [i \in Bytes |->
         IF \E p \in Pieces(call) : i \in Reach(p)
           THEN ContentOf(CHOOSE p \in Pieces(call) : i \in Reach(p), i)
           ELSE data[i]]
  BY DEF Read
<1>7. ASSUME NEW i \in Bytes
      PROVE  data'[i] = IF \E p \in Pieces(call) : i \in Reach(p)
                          THEN FrameOf(call, i \div BytesPerFrame) ELSE data[i]
  <2>1. CASE \E p \in Pieces(call) : i \in Reach(p)
    <3> DEFINE q == CHOOSE p \in Pieces(call) : i \in Reach(p)
    <3>1. q \in Pieces(call) /\ i \in Reach(q)
      BY <2>1
    <3>2. data'[i] = ContentOf(q, i)
      BY <1>6, <2>1
    <3> HIDE DEF q
    <3>3. ContentOf(q, i) = FrameOf(call, i \div BytesPerFrame)
      BY <1>5, <3>1
    <3> QED
      BY <2>1, <3>2, <3>3
  <2>2. CASE ~\E p \in Pieces(call) : i \in Reach(p)
    BY <1>6, <2>2
  <2> QED
    BY <2>1, <2>2
<1>8. \A i \in Bytes : i \in Nat /\ i \div BytesPerFrame \in Nat
  <2> SUFFICES ASSUME NEW i \in Bytes PROVE i \in Nat /\ i \div BytesPerFrame \in Nat
    OBVIOUS
  <2>1. i \in Nat
    BY DEF Bytes
  <2> QED
    BY <2>1, InFrames
<1>9. data' \in [Bytes -> (0 .. LastTime - 1) \cup {Silence, Stale}]
  <2>1. ASSUME NEW i \in Bytes
        PROVE  data'[i] \in (0 .. LastTime - 1) \cup {Silence, Stale}
    <3>1. FrameOf(call, i \div BytesPerFrame) \in (0 .. LastTime - 1) \cup {Silence}
      BY <1>1, <1>8, FrameTyped
    <3>2. data[i] \in (0 .. LastTime - 1) \cup {Silence, Stale}
      BY DEF ListIInv, ListTypes
    <3> QED
      BY <1>7, <3>1, <3>2
  <2>2. data' = [i \in Bytes |-> data'[i]]
    BY <1>6
  <2> QED
    BY <2>1, <2>2
<1>10. dataSize' \in Nat /\ (tooLong' = 0 => WholeFrames')
  <2>1. tooLong' = 0 => (tooLong = 0 /\ call.count <= FrameCapacity)
    BY <1>1, ReadingAssumption DEF Read, ListIInv, ListTypes, Least, IsCall
  <2>2. CASE Overlaps(call)
    <3>1. dataSize' = SizeOf(Found(call))
      BY <1>1, <2>2, FetchedInParts DEF Read
    <3>2. Found(call) \in Nat /\ (call.count <= FrameCapacity => Found(call) <= FrameCapacity)
      BY <1>1, <2>2, Overlapping, ReadingAssumption DEF IsCall
    <3>3. SizeOf(Found(call)) \in Nat
      BY <3>2, SizesOfFrames
    <3> QED
      BY <2>1, <3>1, <3>2, <3>3, ReadingAssumption DEF WholeFrames, SizeOf
  <2>3. CASE ~Overlaps(call)
    BY <1>3, <2>1, <2>3 DEF Read, WholeFrames, ListIInv, SizeOf
  <2> QED
    BY <2>2, <2>3
<1>11. ListTypes'
  <2>1. tooLong' \in 0 .. 2
    BY DEF Read, ListIInv, ListTypes, Least
  <2>2. asserted' \in BOOLEAN /\ inside' \in BOOLEAN
    BY Zenon DEF Read, ListIInv, ListTypes
  <2> QED
    BY <1>9, <1>10, <2>1, <2>2 DEF Read, ListIInv, ListTypes
<1>12. ReadsStayInside'
  <2>1. CASE call.count <= FrameCapacity
    <3>1. inside' = inside
      BY <1>5, <2>1, Zenon DEF Read, ListIInv, ListTypes
    <3>2. tooLong' = tooLong
      BY <1>1, <2>1, ReadingAssumption DEF Read, IsCall
    <3>3. asserted' => asserted
      BY Zenon DEF Read
    <3> QED
      BY <3>1, <3>2, <3>3 DEF ListIInv, ReadsStayInside
  <2>2. CASE call.count > FrameCapacity
    <3>1. /\ tooLong \in 0 .. 2
          /\ tooLong' # 0 /\ (tooLong' = 1 => tooLong = 0)
      BY <2>2 DEF Read, ListIInv, ListTypes, Least
    <3>2. ASSUME tooLong' = 1, asserted'
          PROVE  inside'
      <4>1. tooLong = 0 /\ inside /\ dataSize <= Room
        BY <1>4, <3>1, <3>2 DEF ListIInv, ReadsStayInside
      <4>2. \A p \in Pieces(call) : p.offset <= dataSize
        BY <3>2 DEF Read
      <4> QED
        BY <1>5, <4>1, <4>2 DEF Read
    <3> QED
      BY <3>1, <3>2 DEF ReadsStayInside
  <2> QED
    BY <1>1, <2>1, <2>2, ReadingAssumption DEF IsCall
<1>13. ASSUME ready, NEW i \in Bytes PROVE data'[i] = Wanted(call)[i]
  <2> DEFINE f == i \div BytesPerFrame
  <2>1. /\ f \in Nat /\ call.time \in Nat /\ call.count \in Nat
    BY <1>1, <1>8 DEF IsCall
  <2>2. Wanted(call)[i] = IF call.time + f >= call.time + call.count THEN data[i]
                          ELSE FrameOf(call, f)
    BY DEF Wanted, FrameOf
  <2>3. CASE f >= call.count
    <3>1. ~\E p \in Pieces(call) : i \in Reach(p)
      BY <1>5, <2>1, <2>3
    <3> QED
      BY <1>7, <2>1, <2>2, <2>3, <3>1
  <2>4. CASE f < call.count
    <3>1. f \in 0 .. call.count - 1
      BY <2>1, <2>4
    <3>2. PICK p \in Pieces(call) : \E o, n \in Nat : IsPart(call, p, o, n) /\ f \in o .. o + n - 1
      BY <1>2, <3>1
    <3>3. PICK o \in Nat, n \in Nat : IsPart(call, p, o, n) /\ f \in o .. o + n - 1
      BY <3>2
    <3>4. dataSize = Room
      BY <1>13 DEF ListIInv
    <3>5. i \in Reach(p)
      BY <1>1, <1>3, <3>3, <3>4, Reached
    <3>6. ~(call.time + f >= call.time + call.count)
      BY <2>1, <2>4
    <3> QED
      BY <1>7, <2>2, <3>5, <3>6
  <2> QED
    BY <2>1, <2>3, <2>4
<1>14. \A i \in DOMAIN expected' : data'[i] = expected'[i]
  <2>1. CASE ready
    <3>1. expected' = Wanted(call) /\ DOMAIN Wanted(call) = Bytes
      BY <2>1 DEF Read, Wanted
    <3> QED
      BY <1>13, <2>1, <3>1
  <2>2. CASE ~ready
    BY <2>2 DEF Read, NothingExpected
  <2> QED
    BY <2>1, <2>2
<1>15. ready' = FALSE
  BY DEF Read
<1> QED
  BY <1>10, <1>11, <1>12, <1>14, <1>15 DEF ListIInv, ReadsFillTheList

LEMMA ListInitIInv == ListInit => ListIInv
<1> SUFFICES ASSUME ListInit PROVE ListIInv
  OBVIOUS
<1>1. Room \in Nat /\ 0 \in 0 .. FrameCapacity
  BY FullList, SizesOfFrames, ReadingAssumption
<1>2. WholeFrames
  BY FullList DEF WholeFrames, ListInit
<1>3. ListTypes
  <2>1. /\ data \in [Bytes -> (0 .. LastTime - 1) \cup {Silence, Stale}]
        /\ dataSize \in Nat /\ length \in 0 .. FrameCapacity /\ tooLong \in 0 .. 2
    BY <1>1 DEF ListInit
  <2>2. ready \in BOOLEAN /\ asserted \in BOOLEAN /\ inside \in BOOLEAN
    BY Zenon DEF ListInit
  <2> QED
    BY <2>1, <2>2 DEF ListTypes
<1>4. ReadsStayInside
  BY Zenon DEF ListInit, ReadsStayInside
<1>5. ReadsFillTheList
  BY DEF ListInit, ReadsFillTheList, NothingExpected
<1>6. ready => dataSize = Room
  BY DEF ListInit
<1> QED
  BY <1>2, <1>3, <1>4, <1>5, <1>6 DEF ListIInv

LEMMA ListNextIInv == ListIInv /\ [ListNext]_listVars => ListIInv'
<1> SUFFICES ASSUME ListIInv, [ListNext]_listVars PROVE ListIInv'
  OBVIOUS
<1>1. ASSUME NEW n \in 0 .. FrameCapacity + 1, SetFrameLength(n) PROVE ListIInv'
  <2>1. n \in 0 .. FrameCapacity /\ n \in Nat
    BY <1>1, ReadingAssumption DEF SetFrameLength
  <2>2. SizeOf(n) \in Nat
    BY <2>1, SizesOfFrames
  <2>3. WholeFrames'
    BY <1>1, <2>1 DEF SetFrameLength, WholeFrames, SizeOf
  <2>4. ListTypes'
    <3>1. /\ data' \in [Bytes -> (0 .. LastTime - 1) \cup {Silence, Stale}]
          /\ dataSize' \in Nat /\ length' \in 0 .. FrameCapacity /\ tooLong' \in 0 .. 2
      BY <1>1, <2>1, <2>2 DEF SetFrameLength, SizeIsSet, ListIInv, ListTypes
    <3>2. ready' \in BOOLEAN /\ asserted' \in BOOLEAN /\ inside' \in BOOLEAN
      BY <1>1, Zenon DEF SetFrameLength, SizeIsSet
    <3> QED
      BY <3>1, <3>2 DEF ListTypes, Bytes, Room
  <2>5. ReadsStayInside'
    BY <1>1, Zenon DEF SetFrameLength, SizeIsSet, ReadsStayInside
  <2>6. ReadsFillTheList' /\ ~ready'
    BY <1>1 DEF SetFrameLength, ReadsFillTheList, NothingExpected
  <2> QED
    BY <2>3, <2>4, <2>5, <2>6 DEF ListIInv
<1>2. CASE PrepareForReading
  <2>1. SizeOf(FrameCapacity) \in Nat /\ FrameCapacity \in 0 .. FrameCapacity
    BY FullList, SizesOfFrames, ReadingAssumption
  <2>2. WholeFrames'
    BY <1>2, <2>1 DEF PrepareForReading, WholeFrames, SizeOf
  <2>3. ListTypes'
    <3>1. /\ data' \in [Bytes -> (0 .. LastTime - 1) \cup {Silence, Stale}]
          /\ dataSize' \in Nat /\ length' \in 0 .. FrameCapacity /\ tooLong' \in 0 .. 2
      BY <1>2, <2>1 DEF PrepareForReading, SizeIsSet, ListIInv, ListTypes
    <3>2. ready' \in BOOLEAN /\ asserted' \in BOOLEAN /\ inside' \in BOOLEAN
      BY <1>2, Zenon DEF PrepareForReading, SizeIsSet
    <3> QED
      BY <3>1, <3>2 DEF ListTypes, Bytes, Room
  <2>4. dataSize' = Room
    BY <1>2, FullList DEF PrepareForReading
  <2>5. ReadsStayInside'
    BY <1>2, Zenon DEF PrepareForReading, SizeIsSet, ReadsStayInside
  <2>6. ReadsFillTheList'
    BY <1>2 DEF PrepareForReading, ReadsFillTheList, NothingExpected
  <2> QED
    BY <2>2, <2>3, <2>4, <2>5, <2>6 DEF ListIInv, Room
<1>3. CASE InferFrameLength
  <2>1. dataSize \div BytesPerFrame \in 0 .. FrameCapacity
    <3>1. dataSize \div BytesPerFrame \in Nat
      BY InFrames DEF ListIInv, ListTypes
    <3> QED
      BY <1>3, <3>1, ReadingAssumption DEF InferFrameLength
  <2>2. ListTypes'
    BY <1>3, <2>1 DEF InferFrameLength, ghosts, ListIInv, ListTypes
  <2> QED
    BY <1>3, <2>2
    DEF InferFrameLength, ghosts, ListIInv, ReadsFillTheList, ReadsStayInside,
        NothingExpected, WholeFrames, SizeOf
<1>4. ASSUME NEW call \in Calls, Read(call) PROVE ListIInv'
  BY <1>4, ReadListIInv
<1>5. CASE UNCHANGED listVars
  BY <1>5
  DEF listVars, ghosts, ListIInv, ListTypes, WholeFrames, ReadsFillTheList,
      ReadsStayInside, Room, SizeOf
<1> QED
  BY <1>1, <1>2, <1>3, <1>4, <1>5 DEF ListNext

LEMMA ListIInvHolds == ListSpec => []ListIInv
BY ListInitIInv, ListNextIInv, PTL DEF ListSpec

(* The bytes of the list are those of times, silent or stale, and its length*)
(* is within its capacity.                                                 *)
THEOREM ListTypesHold == ListSpec => []ListTypes
<1>1. ListIInv => ListTypes
  BY DEF ListIInv
<1> QED
  BY <1>1, ListIInvHolds, PTL

(* read fills a list that was prepared with what it is told to, around the *)
(* end of the ring as well, and whatever is asked for that it has no room  *)
(* for.                                                                    *)
THEOREM ListsFilled == ListSpec => []ReadsFillTheList
<1>1. ListIInv => ReadsFillTheList
  BY DEF ListIInv
<1> QED
  BY <1>1, ListIInvHolds, PTL

(* However often a list is read into, and whatever sizes that leaves, what  *)
(* read does stays in its memory up to the first call for more frames than *)
(* it has, and beyond that call if the assertions held, to the next.       *)
THEOREM ListsNotLeft == ListSpec => []ReadsStayInside
<1>1. ListIInv => ReadsStayInside
  BY DEF ListIInv
<1> QED
  BY <1>1, ListIInvHolds, PTL

(* inferFrameLength takes the sizes that reads leave, if they asked for no  *)
(* more than there is room for.                                            *)
THEOREM SizesInferred == ListSpec => []SizesCanBeInferred
<1>1. ListIInv => SizesCanBeInferred
  <2> SUFFICES ASSUME ListIInv, tooLong = 0
               PROVE  dataSize % BytesPerFrame = 0 /\ dataSize \div BytesPerFrame <= FrameCapacity
    BY DEF SizesCanBeInferred
  <2>1. PICK n \in 0 .. FrameCapacity : dataSize = SizeOf(n)
    BY DEF ListIInv, WholeFrames
  <2>2. n \in Nat /\ n <= FrameCapacity
    OBVIOUS
  <2>3. SizeOf(n) % BytesPerFrame = 0 /\ SizeOf(n) \div BytesPerFrame = n
    BY <2>2, SizesOfFrames
  <2> QED
    BY <2>1, <2>2, <2>3 DEF SizesCanBeInferred
<1> QED
  BY <1>1, ListIInvHolds, PTL
=============================================================================
