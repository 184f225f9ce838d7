------------------------- MODULE ChannelLayoutProofs --------------------------
(***************************************************************************)
(* Proofs about ChannelLayout, for any objects, heap, tags and labels.     *)
(***************************************************************************)
EXTENDS ChannelLayout, TLAPS

IInv == TypeOK /\ OwnedOnce /\ FitsItsBlock

LEMMA LabelCount ==
  ASSUME NEW s \in Structs
  PROVE  Len(s.labels) \in Nat
<1>1. PICK n \in 0 .. MaxLabels : s.labels \in [1 .. n -> Labels]
  BY DEF Structs, LabelLists
<1>2. n \in Nat
  BY LayoutAssumption
<1>3. s.labels \in Seq(Labels)
  BY <1>1, <1>2
<1>4. QED
  BY <1>3

(* A block in use holds a layout, and has one owner.                       *)
LEMMA OwnBlock ==
  ASSUME IInv, NEW l \in Layouts, block[l] # NULL
  PROVE  /\ block[l] \in Blocks
         /\ block[l] \notin held \cup freed \cup lost
         /\ \A m \in Layouts \ {l} : block[m] # block[l]
         /\ struct[block[l]] \in Structs
         /\ Len(struct[block[l]].labels) = room[block[l]]
BY DEF IInv, TypeOK, OwnedOnce, FitsItsBlock

LEMMA HeldBlock ==
  ASSUME IInv, NEW b \in held
  PROVE  /\ b \in Blocks
         /\ b # NULL
         /\ b \notin freed \cup lost
         /\ \A l \in Layouts : block[l] # b
         /\ struct[b] \in Structs
BY LayoutAssumption DEF IInv, TypeOK, OwnedOnce, FitsItsBlock

LEMMA FreedBlock ==
  ASSUME IInv, NEW b \in freed
  PROVE  /\ b \in Blocks
         /\ b # NULL
         /\ b \notin held \cup lost
         /\ \A l \in Layouts : block[l] # b
BY LayoutAssumption DEF IInv, TypeOK, OwnedOnce

(* The types that a Renewed or freed block leaves.                         *)
LEMMA RenewedTypes ==
  ASSUME IInv, NEW b \in Blocks, NEW s \in Structs, NEW c \in Blocks \cup {NULL},
         Renewed(b, s, c)
  PROVE  /\ struct' \in [Blocks -> Structs \cup {None}]
         /\ room' \in [Blocks -> Nat]
         /\ freed' \subseteq Blocks
<1>1. Len(s.labels) \in Nat
  BY LabelCount
<1>2. QED
  BY <1>1 DEF IInv, TypeOK, Renewed

LEMMA FreeTypes ==
  ASSUME IInv, NEW c \in Blocks \cup {NULL}, Free(c)
  PROVE  /\ struct' \in [Blocks -> Structs \cup {None}]
         /\ room' \in [Blocks -> Nat]
         /\ freed' \subseteq Blocks
BY DEF IInv, TypeOK, Free

(* What fits still does, when blocks that are used are new or untouched.   *)
LEMMA RenewedFits ==
  ASSUME IInv, NEW b \in Blocks, NEW s \in Structs, NEW c \in Blocks \cup {NULL},
         Renewed(b, s, c), c # b
  PROVE  FitsItsBlock'
<1> SUFFICES ASSUME NEW d \in Blocks, d \notin freed'
             PROVE  struct'[d] \in Structs /\ Len(struct'[d].labels) = room'[d]
  BY DEF FitsItsBlock
<1>1. CASE d = b
  BY <1>1 DEF Renewed
<1>2. CASE d # b
  <2>1. d \notin freed /\ d # c
    BY <1>2, LayoutAssumption DEF Renewed
  <2>2. struct'[d] = struct[d] /\ room'[d] = room[d]
    BY <1>2, <2>1 DEF Renewed
  <2>3. QED
    BY <2>1, <2>2 DEF IInv, FitsItsBlock
<1>3. QED
  BY <1>1, <1>2

LEMMA FreeFits ==
  ASSUME IInv, NEW c \in Blocks \cup {NULL}, Free(c)
  PROVE  FitsItsBlock'
<1> SUFFICES ASSUME NEW d \in Blocks, d \notin freed'
             PROVE  struct'[d] \in Structs /\ Len(struct'[d].labels) = room'[d]
  BY DEF FitsItsBlock
<1>1. d \notin freed /\ d # c
  BY LayoutAssumption DEF Free
<1>2. struct'[d] = struct[d] /\ room'[d] = room[d]
  BY <1>1 DEF Free
<1>3. QED
  BY <1>1, <1>2 DEF IInv, FitsItsBlock

(* An object whose block stays, with what is in it, keeps its value.       *)
LEMMA ValueStays ==
  ASSUME NEW k \in Layouts, block'[k] = block[k],
         block[k] # NULL => struct'[block[k]] = struct[block[k]]
  PROVE  Value(k)' = Value(k)
BY DEF Value

-----------------------------------------------------------------------------
(* What each operation does to the invariant and to the values.            *)

LEMMA HoldKeeps ==
  ASSUME IInv, NEW l \in Layouts, NEW s \in Structs, Hold(l, s)
  PROVE  /\ IInv'
         /\ Value(l)' = s
         /\ \A k \in Layouts \ {l} : Value(k)' = Value(k)
<1>1. PICK b \in freed :
        /\ block' = [block EXCEPT ![l] = b]
        /\ Renewed(b, s, block[l])
        /\ UNCHANGED <<held, lost>>
  BY DEF Hold
<1>2. /\ b \in Blocks
      /\ b # NULL
      /\ b \notin held \cup lost
      /\ \A k \in Layouts : block[k] # b
  BY FreedBlock
<1>3. block[l] \in Blocks \cup {NULL} /\ block[l] # b
  BY <1>2 DEF IInv, TypeOK
<1>4. \A k \in Layouts : block'[k] = IF k = l THEN b ELSE block[k]
  BY <1>1 DEF IInv, TypeOK
<1>5. freed' = (freed \ {b}) \cup ({block[l]} \ {NULL})
  BY <1>1 DEF Renewed
<1>6. TypeOK'
  BY <1>1, <1>2, <1>3, RenewedTypes DEF IInv, TypeOK
<1>7. FitsItsBlock'
  BY <1>1, <1>2, <1>3, RenewedFits
<1>8. OwnedOnce'
  <2>1. block[l] = NULL \/ block[l] \notin held \cup lost
    BY OwnBlock
  <2>2. \A j, k \in Layouts : j # k /\ block'[j] = block'[k] => block'[j] = NULL
    BY <1>2, <1>4 DEF IInv, OwnedOnce
  <2>3. \A k \in Layouts : block'[k] \notin held' \cup freed' \cup lost'
    BY <1>1, <1>2, <1>3, <1>4, <1>5 DEF IInv, OwnedOnce
  <2>4. held' \cap freed' = {} /\ lost' \cap (held' \cup freed') = {}
    BY <1>1, <1>5, <2>1 DEF IInv, OwnedOnce
  <2>5. ASSUME NEW d \in Blocks \ (held' \cup freed' \cup lost')
        PROVE  \E k \in Layouts : block'[k] = d
    <3>1. CASE d = b
      BY <1>4, <3>1
    <3>2. CASE d # b
      <4>1. d \notin held \cup freed \cup lost /\ d # block[l]
        BY <1>1, <1>5, <2>5, <3>2, LayoutAssumption
      <4>2. QED
        BY <1>4, <4>1 DEF IInv, OwnedOnce
    <3>3. QED
      BY <3>1, <3>2
  <2>6. QED
    BY <2>2, <2>3, <2>4, <2>5 DEF OwnedOnce
<1>9. Value(l)' = s
  <2>1. struct'[b] = s
    BY <1>1, <1>2 DEF Renewed
  <2>2. QED
    BY <1>2, <1>4, <2>1 DEF Value
<1>10. ASSUME NEW k \in Layouts \ {l}
       PROVE  Value(k)' = Value(k)
  <2>1. block[k] # NULL => block[k] \in Blocks /\ block[k] # b /\ block[k] # block[l]
    BY <1>2, OwnBlock
  <2>2. block[k] # NULL => struct'[block[k]] = struct[block[k]]
    BY <1>1, <2>1 DEF Renewed
  <2>3. QED
    BY <1>4, <2>2, ValueStays
<1>11. QED
  BY <1>6, <1>7, <1>8, <1>9, <1>10 DEF IInv

LEMMA ResetKeeps ==
  ASSUME IInv, NEW l \in Layouts, NEW b, Reset(l, b)
  PROVE  /\ IInv'
         /\ Value(l)' = IF b = NULL THEN None ELSE struct[b]
         /\ \A k \in Layouts \ {l} : Value(k)' = Value(k)
<1>1. /\ b \in held \cup {NULL}
      /\ block' = [block EXCEPT ![l] = b]
      /\ Free(block[l])
      /\ held' = held \ {b}
      /\ lost' = lost
  BY DEF Reset
<1>2. b # NULL => /\ b \in Blocks
                  /\ b \notin freed \cup lost
                  /\ \A k \in Layouts : block[k] # b
  BY <1>1, HeldBlock
<1>3. /\ block[l] \in Blocks \cup {NULL}
      /\ block[l] = NULL \/ block[l] \notin held \cup lost \cup freed \cup {b}
  BY <1>2, OwnBlock DEF IInv, TypeOK
<1>4. \A k \in Layouts : block'[k] = IF k = l THEN b ELSE block[k]
  BY <1>1 DEF IInv, TypeOK
<1>5. freed' = freed \cup ({block[l]} \ {NULL})
  BY <1>1 DEF Free
<1>6. TypeOK'
  BY <1>1, <1>2, <1>3, FreeTypes DEF IInv, TypeOK
<1>7. FitsItsBlock'
  BY <1>1, <1>3, FreeFits
<1>8. OwnedOnce'
  <2>1. \A j, k \in Layouts : j # k /\ block'[j] = block'[k] => block'[j] = NULL
    BY <1>2, <1>4 DEF IInv, OwnedOnce
  <2>2. NULL \notin held' \cup freed' \cup lost'
    BY <1>6, LayoutAssumption DEF TypeOK
  <2>3. \A k \in Layouts : block'[k] \notin held' \cup freed' \cup lost'
    BY <1>1, <1>2, <1>3, <1>4, <1>5, <2>2 DEF IInv, OwnedOnce
  <2>4. held' \cap freed' = {} /\ lost' \cap (held' \cup freed') = {}
    BY <1>1, <1>3, <1>5 DEF IInv, OwnedOnce
  <2>5. ASSUME NEW d \in Blocks \ (held' \cup freed' \cup lost')
        PROVE  \E k \in Layouts : block'[k] = d
    <3>1. CASE d = b
      BY <1>4, <3>1
    <3>2. CASE d # b
      <4>1. d \notin held \cup freed \cup lost /\ d # block[l]
        BY <1>1, <1>5, <2>5, <3>2, LayoutAssumption
      <4>2. QED
        BY <1>4, <4>1 DEF IInv, OwnedOnce
    <3>3. QED
      BY <3>1, <3>2
  <2>6. QED
    BY <2>1, <2>3, <2>4, <2>5 DEF OwnedOnce
<1>9. Value(l)' = IF b = NULL THEN None ELSE struct[b]
  <2>1. b # NULL => struct'[b] = struct[b]
    BY <1>1, <1>2 DEF Free
  <2>2. QED
    BY <1>4, <2>1 DEF Value
<1>10. ASSUME NEW k \in Layouts \ {l}
       PROVE  Value(k)' = Value(k)
  <2>1. block[k] # NULL => block[k] \in Blocks /\ block[k] # block[l]
    BY OwnBlock
  <2>2. block[k] # NULL => struct'[block[k]] = struct[block[k]]
    BY <1>1, <2>1 DEF Free
  <2>3. QED
    BY <1>4, <2>2, ValueStays
<1>11. QED
  BY <1>6, <1>7, <1>8, <1>9, <1>10 DEF IInv

LEMMA MoveKeeps ==
  ASSUME IInv, NEW l \in Layouts, NEW m \in Layouts, Move(l, m)
  PROVE  /\ IInv'
         /\ Value(l)' = Value(m)
         /\ l # m => Value(m)' = None
         /\ \A k \in Layouts \ {l, m} : Value(k)' = Value(k)
<1> DEFINE c == IF l = m THEN NULL ELSE block[l]
<1>1. \A k \in Layouts : block'[k] = IF k = l THEN block[m]
                                     ELSE IF k = m THEN NULL ELSE block[k]
  BY DEF Move, IInv, TypeOK
<1>2. Free(c) /\ held' = held /\ lost' = lost
  <2>1. [block EXCEPT ![m] = NULL][l] = c
    BY DEF IInv, TypeOK
  <2>2. QED
    BY <2>1 DEF Move
<1>3. /\ c \in Blocks \cup {NULL}
      /\ c = NULL \/ c \notin held \cup lost \cup freed
      /\ \A k \in Layouts : k # l /\ block[k] = c => c = NULL
      /\ \A k \in Layouts : k = l /\ l # m => block[k] = c
  BY OwnBlock DEF IInv, TypeOK
<1>4. block' \in [Layouts -> Blocks \cup {NULL}]
  BY DEF Move, IInv, TypeOK
<1>5. freed' = freed \cup ({c} \ {NULL})
  BY <1>2 DEF Free
<1>6. l = m => c = NULL
  OBVIOUS
<1> HIDE DEF c
<1>7. TypeOK'
  BY <1>2, <1>3, <1>4, FreeTypes DEF IInv, TypeOK
<1>8. FitsItsBlock'
  BY <1>2, <1>3, FreeFits
<1>9. OwnedOnce'
  <2>1. \A j, k \in Layouts : j # k /\ block'[j] = block'[k] => block'[j] = NULL
    BY <1>1 DEF IInv, OwnedOnce
  <2>2. NULL \notin held' \cup freed' \cup lost'
    BY <1>7, LayoutAssumption DEF TypeOK
  <2>3. \A k \in Layouts : block'[k] \notin held' \cup freed' \cup lost'
    <3>1. \A k \in Layouts : block'[k] # NULL => block'[k] # c
      BY <1>1, <1>3, <1>6
    <3>2. \A k \in Layouts : block'[k] = NULL \/ \E j \in Layouts : block'[k] = block[j]
      BY <1>1
    <3>3. QED
      BY <1>2, <1>5, <2>2, <3>1, <3>2 DEF IInv, OwnedOnce
  <2>4. held' \cap freed' = {} /\ lost' \cap (held' \cup freed') = {}
    BY <1>2, <1>3, <1>5 DEF IInv, OwnedOnce
  <2>5. ASSUME NEW d \in Blocks \ (held' \cup freed' \cup lost')
        PROVE  \E k \in Layouts : block'[k] = d
    <3>1. d \notin held \cup freed \cup lost /\ d # c /\ d # NULL
      BY <1>2, <1>5, LayoutAssumption
    <3>2. PICK k \in Layouts : block[k] = d
      BY <3>1 DEF IInv, OwnedOnce
    <3>3. k = m => block'[l] = d
      BY <1>1, <3>2
    <3>4. k # m => block'[k] = d
      BY <1>1, <1>3, <3>1, <3>2
    <3>5. QED
      BY <3>3, <3>4
  <2>6. QED
    BY <2>1, <2>3, <2>4, <2>5 DEF OwnedOnce
<1>10. \A k \in Layouts : block[k] # NULL /\ (k # l \/ l = m)
                            => struct'[block[k]] = struct[block[k]]
  <2>1. \A k \in Layouts : block[k] # NULL /\ (k # l \/ l = m)
                             => block[k] \in Blocks /\ block[k] # c
    BY <1>3, <1>6 DEF IInv, TypeOK
  <2>2. QED
    BY <1>2, <2>1 DEF Free
<1>11. Value(l)' = Value(m)
  BY <1>1, <1>10 DEF Value
<1>12. l # m => Value(m)' = None
  BY <1>1 DEF Value
<1>13. ASSUME NEW k \in Layouts \ {l, m}
       PROVE  Value(k)' = Value(k)
  BY <1>1, <1>10 DEF Value
<1>14. QED
  BY <1>7, <1>8, <1>9, <1>11, <1>12, <1>13 DEF IInv

LEMMA SwapKeeps ==
  ASSUME IInv, NEW l \in Layouts, NEW m \in Layouts, Swap(l, m)
  PROVE  /\ IInv'
         /\ Value(l)' = Value(m)
         /\ Value(m)' = Value(l)
         /\ \A k \in Layouts \ {l, m} : Value(k)' = Value(k)
<1>1. \A k \in Layouts : block'[k] = IF k = m THEN block[l]
                                     ELSE IF k = l THEN block[m] ELSE block[k]
  BY DEF Swap, IInv, TypeOK
<1>2. /\ struct' = struct
      /\ room' = room
      /\ held' = held
      /\ freed' = freed
      /\ lost' = lost
  BY DEF Swap
<1>3. block' \in [Layouts -> Blocks \cup {NULL}]
  BY DEF Swap, IInv, TypeOK
<1>4. TypeOK' /\ FitsItsBlock'
  BY <1>2, <1>3 DEF IInv, TypeOK, FitsItsBlock
<1>5. OwnedOnce'
  <2>1. \A j, k \in Layouts : j # k /\ block'[j] = block'[k] => block'[j] = NULL
    BY <1>1 DEF IInv, OwnedOnce
  <2>2. \A k \in Layouts : block'[k] \notin held' \cup freed' \cup lost'
    BY <1>1, <1>2 DEF IInv, OwnedOnce
  <2>3. ASSUME NEW d \in Blocks \ (held' \cup freed' \cup lost')
        PROVE  \E k \in Layouts : block'[k] = d
    <3>1. PICK k \in Layouts : block[k] = d
      BY <1>2 DEF IInv, OwnedOnce
    <3>2. \/ block'[k] = d
          \/ block'[l] = d
          \/ block'[m] = d
      BY <1>1, <3>1
    <3>3. QED
      BY <3>2
  <2>4. held' \cap freed' = {} /\ lost' \cap (held' \cup freed') = {}
    BY <1>2 DEF IInv, OwnedOnce
  <2>5. QED
    BY <2>1, <2>2, <2>3, <2>4 DEF OwnedOnce
<1>6. Value(l)' = Value(m) /\ Value(m)' = Value(l)
  BY <1>1, <1>2 DEF Value
<1>7. ASSUME NEW k \in Layouts \ {l, m}
      PROVE  Value(k)' = Value(k)
  BY <1>1, <1>2 DEF Value
<1>8. QED
  BY <1>4, <1>5, <1>6, <1>7 DEF IInv

LEMMA ReleaseKeeps ==
  ASSUME IInv, NEW l \in Layouts, Release(l)
  PROVE  /\ IInv'
         /\ \A k \in Layouts \ {l} : Value(k)' = Value(k)
<1>1. /\ block[l] # NULL
      /\ block' = [block EXCEPT ![l] = NULL]
      /\ held' = held \cup {block[l]}
      /\ struct' = struct
      /\ room' = room
      /\ freed' = freed
      /\ lost' = lost
  BY DEF Release
<1>2. \A k \in Layouts : block'[k] = IF k = l THEN NULL ELSE block[k]
  BY <1>1 DEF IInv, TypeOK
<1>3. /\ block[l] \in Blocks
      /\ block[l] \notin held \cup freed \cup lost
      /\ \A k \in Layouts \ {l} : block[k] # block[l]
  BY <1>1, OwnBlock
<1>4. TypeOK' /\ FitsItsBlock'
  BY <1>1, <1>3 DEF IInv, TypeOK, FitsItsBlock
<1>5. OwnedOnce'
  <2>1. \A j, k \in Layouts : j # k /\ block'[j] = block'[k] => block'[j] = NULL
    BY <1>2 DEF IInv, OwnedOnce
  <2>2. NULL \notin held' \cup freed' \cup lost'
    BY <1>4, LayoutAssumption DEF TypeOK
  <2>3. \A k \in Layouts : block'[k] \notin held' \cup freed' \cup lost'
    BY <1>1, <1>2, <1>3, <2>2 DEF IInv, OwnedOnce
  <2>4. \A d \in Blocks \ (held' \cup freed' \cup lost') : \E k \in Layouts : block'[k] = d
    BY <1>1, <1>2 DEF IInv, OwnedOnce
  <2>5. held' \cap freed' = {} /\ lost' \cap (held' \cup freed') = {}
    BY <1>1, <1>3 DEF IInv, OwnedOnce
  <2>6. QED
    BY <2>1, <2>3, <2>4, <2>5 DEF OwnedOnce
<1>6. ASSUME NEW k \in Layouts \ {l}
      PROVE  Value(k)' = Value(k)
  BY <1>1, <1>2 DEF Value
<1>7. QED
  BY <1>4, <1>5, <1>6 DEF IInv

(* A layout that is overwritten with one of as many descriptions.          *)
LEMMA WriteKeeps ==
  ASSUME IInv, NEW b \in Blocks, NEW s \in Structs, Len(s.labels) = room[b],
         struct' = [struct EXCEPT ![b] = s],
         UNCHANGED <<block, room, held, freed, lost>>
  PROVE  /\ IInv'
         /\ \A k \in Layouts : block[k] # b => Value(k)' = Value(k)
         /\ \A k \in Layouts : block[k] = b /\ b # NULL => Value(k)' = s
<1>1. \A d \in Blocks : struct'[d] = IF d = b THEN s ELSE struct[d]
  BY DEF IInv, TypeOK
<1>2. TypeOK'
  BY DEF IInv, TypeOK
<1>3. OwnedOnce'
  BY DEF IInv, OwnedOnce
<1>4. FitsItsBlock'
  BY <1>1 DEF IInv, FitsItsBlock
<1>5. \A k \in Layouts : block[k] \in Blocks \cup {NULL}
  BY DEF IInv, TypeOK
<1>6. QED
  BY <1>1, <1>2, <1>3, <1>4, <1>5 DEF IInv, Value

(* What an assignment of a struct may be given is a layout.                *)
LEMMA StructInUse ==
  ASSUME IInv, NEW p \in held \cup {block[m] : m \in Layouts}, p # NULL
  PROVE  p \in Blocks /\ struct[p] \in Structs
<1>1. CASE p \in held
  BY <1>1, HeldBlock
<1>2. CASE p \in {block[m] : m \in Layouts}
  BY <1>2, OwnBlock
<1>3. QED
  BY <1>1, <1>2

LEMMA AssignStructKeeps ==
  ASSUME IInv, NEW l \in Layouts, NEW p, AssignStruct(l, p)
  PROVE  /\ IInv'
         /\ Value(l)' = IF p = NULL THEN None ELSE struct[p]
         /\ \A k \in Layouts \ {l} : Value(k)' = Value(k)
<1>1. CASE p = NULL
  <2>1. Reset(l, NULL)
    BY <1>1 DEF AssignStruct
  <2>2. QED
    BY <1>1, <2>1, ResetKeeps
<1>2. CASE p # NULL
  <2>1. Hold(l, struct[p]) /\ struct[p] \in Structs
    BY <1>2, StructInUse DEF AssignStruct
  <2>2. QED
    BY <1>2, <2>1, HoldKeeps
<1>3. QED
  BY <1>1, <1>2

LEMMA AssignKeeps ==
  ASSUME IInv, NEW l \in Layouts, NEW m \in Layouts, Assign(l, m)
  PROVE  /\ IInv'
         /\ Value(l)' = Value(m)
         /\ \A k \in Layouts \ {l} : Value(k)' = Value(k)
<1>1. CASE CopiesInPlace(l, m)
  <2>1. /\ block[l] # NULL
        /\ block[m] # NULL
        /\ Len(struct[block[l]].labels) = Len(struct[block[m]].labels)
        /\ struct' = [struct EXCEPT ![block[l]] = struct[block[m]]]
        /\ UNCHANGED <<block, room, held, freed, lost>>
    BY <1>1 DEF Assign, CopiesInPlace
  <2>2. /\ block[l] \in Blocks
        /\ Len(struct[block[m]].labels) = room[block[l]]
        /\ struct[block[m]] \in Structs
    BY <2>1, OwnBlock
  <2>3. /\ IInv'
        /\ \A k \in Layouts : block[k] # block[l] => Value(k)' = Value(k)
        /\ Value(l)' = struct[block[m]]
    BY <2>1, <2>2, WriteKeeps
  <2>4. \A k \in Layouts \ {l} : block[k] # block[l]
    BY <2>1, OwnBlock
  <2>5. QED
    BY <2>1, <2>3, <2>4 DEF Value
<1>2. CASE ~CopiesInPlace(l, m)
  <2>1. AssignStruct(l, block[m])
    BY <1>2 DEF Assign
  <2>2. QED
    BY <2>1, AssignStructKeeps DEF Value
<1>3. QED
  BY <1>1, <1>2

-----------------------------------------------------------------------------
(* Constructors.                                                           *)

LEMMA TagStructs ==
  ASSUME NEW tag \in Tags \cup {UseDescriptions, UseBitmap}
  PROVE  /\ OfTag(tag) \in Structs
         /\ \A bitmap \in Bitmaps : [OfTag(tag) EXCEPT !.bitmap = bitmap] \in Structs
<1>1. << >> \in [1 .. 0 -> Labels]
  OBVIOUS
<1>2. << >> \in LabelLists
  <2>1. 0 \in 0 .. MaxLabels
    BY LayoutAssumption
  <2>2. [1 .. 0 -> Labels] \in {[1 .. n -> Labels] : n \in 0 .. MaxLabels}
    BY <2>1
  <2>3. QED
    BY <1>1, <2>2 DEF LabelLists
<1>3. QED
  BY <1>2 DEF OfTag, Structs

LEMMA LabelStructs ==
  ASSUME NEW labels \in LabelLists
  PROVE  OfLabels(labels) \in Structs
BY DEF OfLabels, Structs

LEMMA TagOfStruct ==
  ASSUME NEW s \in Structs, TagOf[s] # NoTag
  PROVE  /\ TagOf[s] \in Tags
         /\ OfTag(TagOf[s]) \in Structs
<1>1. TagOf[s] \in Tags
  BY ToolboxAssumption
<1>2. QED
  BY <1>1, TagStructs

LEMMA DescriptionCount ==
  ASSUME NEW s, s.tag = UseDescriptions
  PROVE  ChannelCount(s) = Len(s.labels)
BY LayoutAssumption DEF ChannelCount

LEMMA TagCount ==
  ASSUME NEW s, s.tag \in Tags
  PROVE  ChannelCount(s) = TagChannels[s.tag]
BY LayoutAssumption DEF ChannelCount

LEMMA ConstructWithLabelsKeeps ==
  ASSUME IInv, NEW l \in Layouts, NEW labels \in LabelLists,
         ConstructWithLabels(l, labels)
  PROVE  /\ IInv'
         /\ \A k \in Layouts \ {l} : Value(k)' = Value(k)
         /\ ChannelCount(Value(l)') = Len(labels)
<1>1. OfLabels(labels) \in Structs
  BY LabelStructs
<1>2. ChannelCount(OfLabels(labels)) = Len(labels)
  BY DescriptionCount DEF OfLabels
<1>3. CASE TagOf[OfLabels(labels)] = NoTag
  <2>1. Hold(l, OfLabels(labels))
    BY <1>3 DEF ConstructWithLabels
  <2>2. QED
    BY <1>1, <1>2, <2>1, HoldKeeps
<1>4. CASE TagOf[OfLabels(labels)] # NoTag
  <2> DEFINE tag == TagOf[OfLabels(labels)]
  <2>1. Hold(l, OfTag(tag))
    BY <1>4 DEF ConstructWithLabels
  <2>2. tag \in Tags /\ OfTag(tag) \in Structs
    BY <1>1, <1>4, TagOfStruct
  <2>3. TagChannels[tag] = Len(labels)
    BY <1>1, <1>2, <1>4, ToolboxAssumption
  <2>4. ChannelCount(OfTag(tag)) = TagChannels[tag]
    BY <2>2, TagCount DEF OfTag
  <2>5. QED
    BY <2>1, <2>2, <2>3, <2>4, HoldKeeps
<1>5. QED
  BY <1>3, <1>4

LEMMA ConstructKeeps ==
  ASSUME IInv, NEW l \in Layouts, Construct(l)
  PROVE  /\ IInv'
         /\ \A k \in Layouts \ {l} : Value(k)' = Value(k)
<1>1. CASE \E tag \in Tags \cup {UseDescriptions, UseBitmap} : ConstructWithTag(l, tag)
  BY <1>1, TagStructs, HoldKeeps DEF ConstructWithTag
<1>2. CASE \E bitmap \in Bitmaps : ConstructWithBitmap(l, bitmap)
  <2>1. PICK bitmap \in Bitmaps : ConstructWithBitmap(l, bitmap)
    BY <1>2
  <2> DEFINE plain == [OfTag(UseBitmap) EXCEPT !.bitmap = bitmap]
  <2>2. plain \in Structs
    BY TagStructs
  <2>3. TagOf[plain] # NoTag => OfTag(TagOf[plain]) \in Structs
    BY <2>2, TagOfStruct
  <2>4. Hold(l, IF TagOf[plain] = NoTag THEN plain ELSE OfTag(TagOf[plain]))
    BY <2>1 DEF ConstructWithBitmap
  <2> HIDE DEF plain
  <2>5. QED
    BY <2>2, <2>3, <2>4, HoldKeeps
<1>3. CASE \E labels \in LabelLists : ConstructWithLabels(l, labels)
  BY <1>3, ConstructWithLabelsKeeps
<1>4. QED
  BY <1>1, <1>2, <1>3 DEF Construct

LEMMA ConstructorThrowsKeeps ==
  ASSUME IInv, NEW labels \in LabelLists, ConstructorThrows(labels)
  PROVE  /\ IInv'
         /\ \A k \in Layouts : Value(k)' = Value(k)
<1>1. PICK b \in freed : /\ Renewed(b, OfLabels(labels), NULL)
                         /\ lost' = lost \cup {b}
                         /\ block' = block
                         /\ held' = held
  BY DEF ConstructorThrows
<1>2. OfLabels(labels) \in Structs
  BY LabelStructs
<1>3. /\ b \in Blocks
      /\ b # NULL
      /\ b \notin held \cup lost
      /\ \A k \in Layouts : block[k] # b
  BY FreedBlock
<1>4. freed' = freed \ {b}
  BY <1>1 DEF Renewed
<1>5. TypeOK'
  BY <1>1, <1>2, <1>3, RenewedTypes DEF IInv, TypeOK
<1>6. FitsItsBlock'
  BY <1>1, <1>2, <1>3, RenewedFits
<1>7. OwnedOnce'
  BY <1>1, <1>3, <1>4 DEF IInv, OwnedOnce
<1>8. ASSUME NEW k \in Layouts
      PROVE  Value(k)' = Value(k)
  <2>1. block[k] # NULL => struct'[block[k]] = struct[block[k]]
    BY <1>1, <1>3, OwnBlock DEF Renewed
  <2>2. QED
    BY <1>1, <2>1, ValueStays
<1>9. QED
  BY <1>5, <1>6, <1>7, <1>8 DEF IInv

-----------------------------------------------------------------------------
(* The caller.                                                             *)

LEMMA CallerTakesKeeps ==
  ASSUME IInv, NEW s \in Structs, CallerTakes(s)
  PROVE  /\ IInv'
         /\ \A k \in Layouts : Value(k)' = Value(k)
<1>1. PICK b \in freed : /\ Renewed(b, s, NULL)
                         /\ held' = held \cup {b}
                         /\ block' = block
                         /\ lost' = lost
  BY DEF CallerTakes
<1>2. /\ b \in Blocks
      /\ b # NULL
      /\ b \notin held \cup lost
      /\ \A k \in Layouts : block[k] # b
  BY FreedBlock
<1>3. freed' = freed \ {b}
  BY <1>1 DEF Renewed
<1>4. TypeOK'
  BY <1>1, <1>2, RenewedTypes DEF IInv, TypeOK
<1>5. FitsItsBlock'
  BY <1>1, <1>2, RenewedFits
<1>6. OwnedOnce'
  BY <1>1, <1>2, <1>3 DEF IInv, OwnedOnce
<1>7. ASSUME NEW k \in Layouts
      PROVE  Value(k)' = Value(k)
  <2>1. block[k] # NULL => struct'[block[k]] = struct[block[k]]
    BY <1>1, <1>2, OwnBlock DEF Renewed
  <2>2. QED
    BY <1>1, <2>1, ValueStays
<1>8. QED
  BY <1>4, <1>5, <1>6, <1>7 DEF IInv

LEMMA CallerFreesKeeps ==
  ASSUME IInv, NEW b, CallerFrees(b)
  PROVE  /\ IInv'
         /\ \A k \in Layouts : Value(k)' = Value(k)
<1>1. /\ b \in held
      /\ held' = held \ {b}
      /\ Free(b)
      /\ block' = block
      /\ lost' = lost
  BY DEF CallerFrees
<1>2. /\ b \in Blocks
      /\ b # NULL
      /\ b \notin freed \cup lost
      /\ \A k \in Layouts : block[k] # b
  BY <1>1, HeldBlock
<1>3. freed' = freed \cup {b}
  BY <1>1, <1>2 DEF Free
<1>4. TypeOK'
  BY <1>1, <1>2, FreeTypes DEF IInv, TypeOK
<1>5. FitsItsBlock'
  BY <1>1, <1>2, FreeFits
<1>6. OwnedOnce'
  BY <1>1, <1>2, <1>3 DEF IInv, OwnedOnce
<1>7. ASSUME NEW k \in Layouts
      PROVE  Value(k)' = Value(k)
  <2>1. block[k] # NULL => struct'[block[k]] = struct[block[k]]
    BY <1>1, <1>2, OwnBlock DEF Free
  <2>2. QED
    BY <1>1, <2>1, ValueStays
<1>8. QED
  BY <1>4, <1>5, <1>6, <1>7 DEF IInv

LEMMA CallerWritesKeeps ==
  ASSUME IInv, NEW b, NEW s \in Structs, CallerWrites(b, s)
  PROVE  /\ IInv'
         /\ \A k \in Layouts : Value(k)' = Value(k)
<1>1. /\ b \in held
      /\ Len(s.labels) = room[b]
      /\ struct' = [struct EXCEPT ![b] = s]
      /\ UNCHANGED <<block, room, held, freed, lost>>
  BY DEF CallerWrites
<1>2. b \in Blocks /\ \A k \in Layouts : block[k] # b
  BY <1>1, HeldBlock
<1>3. QED
  BY <1>1, <1>2, WriteKeeps

LEMMA CallerKeeps ==
  ASSUME IInv, Caller
  PROVE  /\ IInv'
         /\ \A k \in Layouts : Value(k)' = Value(k)
<1>1. CASE \E n \in 0 .. MaxLabels : CallerAllocates(n)
  <2>1. PICK n \in 0 .. MaxLabels : CallerTakes(Zeroed(n))
    BY <1>1 DEF CallerAllocates
  <2>2. [i \in 1 .. n |-> Unused] \in LabelLists
    BY LayoutAssumption DEF LabelLists
  <2>3. Zeroed(n) \in Structs
    BY <2>2, LabelStructs DEF Zeroed
  <2>4. QED
    BY <2>1, <2>3, CallerTakesKeeps
<1>2. CASE \E b \in Blocks : CallerCopies(b)
  <2>1. PICK b \in Blocks : CallerCopies(b)
    BY <1>2
  <2>2. struct[b] \in Structs /\ CallerTakes(struct[b])
    BY <2>1, StructInUse DEF CallerCopies
  <2>3. QED
    BY <2>2, CallerTakesKeeps
<1>3. CASE \E b \in Blocks : CallerFrees(b)
  BY <1>3, CallerFreesKeeps
<1>4. CASE \E b \in Blocks, tag \in Tags : CallerWrites(b, OfTag(tag))
  BY <1>4, TagStructs, CallerWritesKeeps
<1>5. CASE \E b \in Blocks, labels \in LabelLists : CallerWrites(b, OfLabels(labels))
  BY <1>5, LabelStructs, CallerWritesKeeps
<1>6. QED
  BY <1>1, <1>2, <1>3, <1>4, <1>5 DEF Caller

-----------------------------------------------------------------------------
(* The invariant.                                                          *)

LEMMA InitHolds == Init => IInv
BY LayoutAssumption DEF Init, IInv, TypeOK, OwnedOnce, FitsItsBlock

LEMMA ChangeKeeps ==
  ASSUME IInv, NEW l \in Layouts, Change(l)
  PROVE  IInv'
<1>1. CASE \E b \in Blocks \cup {NULL} : Reset(l, b)
  BY <1>1, ResetKeeps
<1>2. CASE \E b \in Blocks \cup {NULL} : AssignStruct(l, b)
  BY <1>2, AssignStructKeeps
<1>3. CASE \E m \in Layouts : Assign(l, m)
  BY <1>3, AssignKeeps
<1>4. CASE \E m \in Layouts : Move(l, m)
  BY <1>4, MoveKeeps
<1>5. CASE \E m \in Layouts : Swap(l, m)
  BY <1>5, SwapKeeps
<1>6. CASE Release(l)
  BY <1>6, ReleaseKeeps
<1>7. QED
  BY <1>1, <1>2, <1>3, <1>4, <1>5, <1>6 DEF Change

LEMMA StepKeeps == IInv /\ [Next]_vars => IInv'
<1> SUFFICES ASSUME IInv, [Next]_vars
             PROVE  IInv'
  OBVIOUS
<1>1. CASE \E l \in Layouts : Construct(l)
  BY <1>1, ConstructKeeps
<1>2. CASE \E l \in Layouts : Change(l)
  BY <1>2, ChangeKeeps
<1>3. CASE \E labels \in LabelLists : ConstructorThrows(labels)
  BY <1>3, ConstructorThrowsKeeps
<1>4. CASE Caller
  BY <1>4, CallerKeeps
<1>5. CASE UNCHANGED vars
  BY <1>5 DEF vars, IInv, TypeOK, OwnedOnce, FitsItsBlock
<1>6. QED
  BY <1>1, <1>2, <1>3, <1>4, <1>5 DEF Next

LEMMA Invariance == Spec => []IInv
<1>1. QED
  BY InitHolds, StepKeeps, PTL DEF Spec

(* The variables keep their types.                                         *)
THEOREM TypesHold == Spec => []TypeOK
<1>1. IInv => TypeOK
  BY DEF IInv
<1>2. QED
  BY <1>1, Invariance, PTL

(* Through construction, copies, moves, swaps, reset and release, whatever *)
(* the caller does in between and whichever constructor throws, a block    *)
(* has one owner: none is freed twice, or used once it is freed.           *)
THEOREM OwnershipHolds == Spec => []OwnedOnce
<1>1. IInv => OwnedOnce
  BY DEF IInv
<1>2. QED
  BY <1>1, Invariance, PTL

(* The memcpy of an assignment in place stays inside its block.            *)
THEOREM LayoutsFit == Spec => []FitsItsBlock
<1>1. IInv => FitsItsBlock
  BY DEF IInv
<1>2. QED
  BY <1>1, Invariance, PTL

-----------------------------------------------------------------------------
(* Values.                                                                 *)

LEMMA OthersKeep ==
  ASSUME IInv, Next, NEW k \in Layouts,
         ~Construct(k), ~Change(k), ~\E l \in Layouts : Move(l, k) \/ Swap(l, k)
  PROVE  Value(k)' = Value(k)
<1>1. ASSUME NEW l \in Layouts, Construct(l)
      PROVE  Value(k)' = Value(k)
  BY <1>1, ConstructKeeps
<1>2. ASSUME NEW l \in Layouts, Change(l)
      PROVE  Value(k)' = Value(k)
  <2>1. l # k
    BY <1>2
  <2>2. CASE \E b \in Blocks \cup {NULL} : Reset(l, b)
    BY <2>1, <2>2, ResetKeeps
  <2>3. CASE \E b \in Blocks \cup {NULL} : AssignStruct(l, b)
    BY <2>1, <2>3, AssignStructKeeps
  <2>4. CASE \E m \in Layouts : Assign(l, m)
    BY <2>1, <2>4, AssignKeeps
  <2>5. CASE \E m \in Layouts : Move(l, m)
    BY <2>1, <2>5, MoveKeeps
  <2>6. CASE \E m \in Layouts : Swap(l, m)
    BY <2>1, <2>6, SwapKeeps
  <2>7. CASE Release(l)
    BY <2>1, <2>7, ReleaseKeeps
  <2>8. QED
    BY <1>2, <2>2, <2>3, <2>4, <2>5, <2>6, <2>7 DEF Change
<1>3. CASE \E labels \in LabelLists : ConstructorThrows(labels)
  BY <1>3, ConstructorThrowsKeeps
<1>4. CASE Caller
  BY <1>4, CallerKeeps
<1>5. QED
  BY <1>1, <1>2, <1>3, <1>4 DEF Next

(* Objects are values: what is assigned, moved or swapped arrives, even    *)
(* from the object itself or from its own struct, an object made from      *)
(* labels has as many channels, and no other object is disturbed.          *)
THEOREM ValuesKeepPromises == Spec => ValuesAsPromised
<1> DEFINE Promised ==
      /\ \A l, m \in Layouts :
           /\ Assign(l, m) => Value(l)' = Value(m)
           /\ Move(l, m) => Value(l)' = Value(m) /\ (l # m => Value(m)' = None)
           /\ Swap(l, m) => Value(l)' = Value(m) /\ Value(m)' = Value(l)
      /\ \A l \in Layouts, p \in Blocks :
           AssignStruct(l, p) => Value(l)' = struct[p]
      /\ \A l \in Layouts, labels \in LabelLists :
           ConstructWithLabels(l, labels) => ChannelCount(Value(l)') = Len(labels)
      /\ \A k \in Layouts :
           \/ Value(k)' = Value(k)
           \/ Construct(k)
           \/ Change(k)
           \/ \E l \in Layouts : Move(l, k) \/ Swap(l, k)
<1>1. IInv /\ Next => Promised
  <2> SUFFICES ASSUME IInv, Next
               PROVE  Promised
    OBVIOUS
  <2>1. ASSUME NEW l \in Layouts, NEW m \in Layouts
        PROVE  /\ Assign(l, m) => Value(l)' = Value(m)
               /\ Move(l, m) => Value(l)' = Value(m) /\ (l # m => Value(m)' = None)
               /\ Swap(l, m) => Value(l)' = Value(m) /\ Value(m)' = Value(l)
    BY <2>1, AssignKeeps, MoveKeeps, SwapKeeps
  <2>2. ASSUME NEW l \in Layouts, NEW p \in Blocks, AssignStruct(l, p)
        PROVE  Value(l)' = struct[p]
    BY <2>2, AssignStructKeeps, LayoutAssumption
  <2>3. ASSUME NEW l \in Layouts, NEW labels \in LabelLists,
               ConstructWithLabels(l, labels)
        PROVE  ChannelCount(Value(l)') = Len(labels)
    BY <2>3, ConstructWithLabelsKeeps
  <2>4. ASSUME NEW k \in Layouts
        PROVE  \/ Value(k)' = Value(k)
               \/ Construct(k)
               \/ Change(k)
               \/ \E l \in Layouts : Move(l, k) \/ Swap(l, k)
    BY OthersKeep
  <2>5. QED
    BY <2>1, <2>2, <2>3, <2>4
<1> HIDE DEF Promised
<1>2. IInv /\ [Next]_vars => [Promised]_vars
  BY <1>1
<1>3. Spec => [][Promised]_vars
  BY <1>2, Invariance, PTL DEF Spec
<1>4. QED
  BY <1>3 DEF Promised, ValuesAsPromised
=============================================================================
