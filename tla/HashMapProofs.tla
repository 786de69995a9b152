---------------------------- MODULE HashMapProofs -----------------------------
(***************************************************************************)
(* Theorems about HashMap, proved for any names, elements and hash, any    *)
(* initial size, any length of the chains and any number of readers:       *)
(*   Invariance        IInv, the inductive invariant                       *)
(*   TypeCorrect       the types                                           *)
(*   NeverOutOfBounds  a lookup without the lock stays in its array        *)
(*   AlwaysFound       hashmap_get finds the names of the map and no other *)
(*   EachListedOnce    hashmap_iterate visits each once, m->size is right  *)
(*   Implementation    the map is the dictionary NameMap                   *)
(* There is a lemma for each conjunct of IInv and what a step does to it;  *)
(* Live, the slots that hold a name, is what they turn on: all steps but   *)
(* the two writes of in_use leave Live alone (KeptStep).                   *)
(***************************************************************************)
EXTENDS HashMap, FiniteSetTheorems, SequenceTheorems, WellFoundedInduction,
        TLAPS

USE DEF fields

-----------------------------------------------------------------------------
(* Arithmetic and searches.                                                *)

(* A nonempty set of numbers has a least one, as the search of a chain and *)
(* the loop of hashmap_rehash assume.                                      *)
LEMMA Least ==
  ASSUME NEW T \in SUBSET Nat, T # {}
  PROVE  \E x \in T : \A y \in T : x <= y
<1> DEFINE R == OpToRel(<, Nat)
<1>1. IsWellFoundedOn(R, Nat)
  BY NatLessThanWellFounded
<1>2. \A x, y \in Nat : <<y, x>> \in R <=> y < x
  BY DEF OpToRel
<1> HIDE DEF R
<1>3. PICK x \in T : \A y \in T : <<y, x>> \notin R
  BY <1>1, WFMin
<1>4. ASSUME NEW y \in T
      PROVE  x <= y
  <2>1. x \in Nat /\ y \in Nat
    OBVIOUS
  <2>2. ~(y < x)
    BY <1>2, <1>3, <2>1
  <2> QED
    BY <2>1, <2>2
<1> QED
  BY <1>4

(* A remainder is below the divisor.                                       *)
LEMMA ModBound ==
  ASSUME NEW a \in Nat, NEW b \in Nat \ {0}
  PROVE  a % b \in 0..(b - 1)
OBVIOUS

(* Every probed slot is one of the table.                                  *)
LEMMA ChainBound ==
  ASSUME table_size \in Nat \ {0}, NEW k \in Keys, NEW j \in 1..MaxChain
  PROVE  /\ Chain(k)[j] \in 0..(table_size - 1)
         /\ InChain(Chain(k)[j], k)
<1>1. Hash[k] + j - 1 \in Nat
  BY HashMapAssumption DEF HashMapAssumption
<1>2. (Hash[k] + j - 1) % table_size \in 0..(table_size - 1)
  BY <1>1, ModBound
<1> QED
  BY <1>2 DEF Chain, InChain

(* hashmap_get finds the name in its chain, or it is not there.            *)
LEMMA LookupFinds ==
  ASSUME table_size \in Nat \ {0}, NEW k \in Keys
  PROVE  \/ /\ Lookup(k) = NotFound
            /\ \A j \in 1..MaxChain : ~Holds(Chain(k)[j], k)
         \/ /\ Lookup(k) \in 0..(table_size - 1)
            /\ Holds(Lookup(k), k)
<1> DEFINE hits == {j \in 1..MaxChain : Holds(Chain(k)[j], k)}
<1>1. CASE hits = {}
  BY <1>1 DEF Lookup
<1>2. CASE hits # {}
  <2>1. \E j \in hits : \A l \in hits : j <= l
    <3>1. hits \in SUBSET Nat
      OBVIOUS
    <3> HIDE DEF hits
    <3> QED
      BY <1>2, <3>1, Least
  <2>2. PICK m \in hits :
          m = CHOOSE j \in hits : \A l \in hits : j <= l
    BY <2>1
  <2>3. Lookup(k) = Chain(k)[m]
    BY <1>2, <2>2 DEF Lookup
  <2> QED
    BY <2>3, ChainBound
<1> QED
  BY <1>1, <1>2

(* hashmap_hash returns MAP_FULL or a slot of the chain that is free or    *)
(* holds the name.                                                         *)
LEMMA HashFinds ==
  ASSUME table_size \in Nat \ {0}, NEW k \in Keys, HashmapHash(k) # MapFull
  PROVE  LET c == HashmapHash(k)
         IN  /\ c \in 0..(table_size - 1)
             /\ InChain(c, k)
             /\ slots[c].in_use = 0 \/ Holds(c, k)
<1> DEFINE free == {j \in 1..MaxChain :
                      slots[Chain(k)[j]].in_use = 0 \/ Holds(Chain(k)[j], k)}
<1>1. free # {} /\ ~HalfFull
  BY DEF HashmapHash
<1>2. \E j \in free : \A l \in free : j <= l
  <2>1. free \in SUBSET Nat
    OBVIOUS
  <2> HIDE DEF free
  <2> QED
    BY <1>1, <2>1, Least
<1>3. PICK m \in free :
        m = CHOOSE j \in free : \A l \in free : j <= l
  BY <1>2
<1>4. HashmapHash(k) = Chain(k)[m]
  BY <1>1, <1>3 DEF HashmapHash
<1> QED
  BY <1>4, ChainBound

-----------------------------------------------------------------------------
(* The memory and the stack.                                               *)

Frames(n) == [key : Keys, data : Values, old : 0..n, next : Nat]
Arrays(n) == UNION {[0..(m - 1) -> Slot] : m \in 0..n}

(* A sequence is one of its own elements.                                  *)
LEMMA OwnElements ==
  ASSUME NEW S, NEW s \in Seq(S)
  PROVE  s \in Seq({s[a] : a \in DOMAIN s})
<1>1. Len(s) \in Nat /\ DOMAIN s = 1..Len(s) /\ s \in [1..Len(s) -> S]
  BY LenProperties
<1>2. s \in [1..Len(s) -> {s[a] : a \in DOMAIN s}]
  BY <1>1
<1> QED
  BY <1>1, <1>2, SeqDef

(* The sequence that differs from s in one place.                          *)
LEMMA ExceptOne ==
  ASSUME NEW S, NEW s \in Seq(S), NEW i \in 1..Len(s), NEW e \in S,
         NEW u, u = [s EXCEPT ![i] = e]
  PROVE  /\ u \in Seq(S) /\ Len(u) = Len(s)
         /\ \A j \in 1..Len(s) : u[j] = IF j = i THEN e ELSE s[j]
BY ExceptSeq

(* The slot that differs from r in one field.                              *)
LEMMA ExceptField ==
  ASSUME NEW u, NEW k, NEW d, NEW x,
         NEW r, r = [in_use |-> u, key |-> k, data |-> d]
  PROVE  /\ [r EXCEPT !["in_use"] = x] = [in_use |-> x, key |-> k, data |-> d]
         /\ [r EXCEPT !["key"] = x] = [in_use |-> u, key |-> x, data |-> d]
         /\ [r EXCEPT !["data"] = x] = [in_use |-> u, key |-> k, data |-> x]
<1>1. [r EXCEPT !["in_use"] = x] = [in_use |-> x, key |-> k, data |-> d]
  OBVIOUS
<1>2. [r EXCEPT !["key"] = x] = [in_use |-> u, key |-> x, data |-> d]
  OBVIOUS
<1>3. [r EXCEPT !["data"] = x] = [in_use |-> u, key |-> k, data |-> x]
  OBVIOUS
<1> QED
  BY <1>1, <1>2, <1>3

(* heap is a sequence of arrays; each starts at 0.                         *)
LEMMA HeapFacts ==
  ASSUME TypeOK
  PROVE  /\ Len(heap) \in Nat /\ DOMAIN heap = 1..Len(heap)
         /\ data \in 1..Len(heap)
         /\ heap \in Seq(Arrays(2 * table_size))
         /\ \A a \in DOMAIN heap : /\ heap[a] \in [DOMAIN heap[a] -> Slot]
                                   /\ DOMAIN heap[a] \subseteq Nat
<1>1. heap \in Seq({heap[a] : a \in DOMAIN heap})
  BY DEF TypeOK
<1>2. /\ Len(heap) \in Nat /\ DOMAIN heap = 1..Len(heap)
  BY <1>1, LenProperties
<1>3. \A a \in DOMAIN heap : heap[a] \in Arrays(2 * table_size)
  BY DEF TypeOK, Arrays
<1>4. heap \in Seq(Arrays(2 * table_size))
  <2>1. {heap[a] : a \in DOMAIN heap} \subseteq Arrays(2 * table_size)
    BY <1>3
  <2> QED
    BY <1>1, <2>1, SeqMonotonic
<1>5. \A a \in DOMAIN heap : /\ heap[a] \in [DOMAIN heap[a] -> Slot]
                             /\ DOMAIN heap[a] \subseteq Nat
  BY DEF TypeOK
<1> QED
  BY <1>1, <1>2, <1>4, <1>5 DEF TypeOK

(* The other way round: what it takes for heap to keep its type.           *)
LEMMA HeapType ==
  ASSUME NEW h, NEW n, h \in Seq(Arrays(n))
  PROVE  /\ h \in Seq({h[a] : a \in DOMAIN h})
         /\ \A a \in DOMAIN h : \E m \in 0..n : h[a] \in [0..(m - 1) -> Slot]
<1>1. DOMAIN h = 1..Len(h)
  BY LenProperties
<1>2. \A a \in DOMAIN h : h[a] \in Arrays(n)
  BY <1>1, ElementOfSeq
<1>3. h \in Seq({h[a] : a \in DOMAIN h})
  BY OwnElements
<1>4. ASSUME NEW a \in DOMAIN h
      PROVE  \E m \in 0..n : h[a] \in [0..(m - 1) -> Slot]
  <2>1. \A t \in Arrays(n) : \E m \in 0..n : t \in [0..(m - 1) -> Slot]
    BY DEF Arrays
  <2> QED
    BY <1>2, <2>1
<1> QED
  BY <1>3, <1>4

(* The frames of the calls of hashmap_put.                                 *)
LEMMA StackFacts ==
  ASSUME TypeOK
  PROVE  /\ stack \in Seq(Frames(Len(heap)))
         /\ Depth \in Nat /\ DOMAIN stack = 1..Depth
         /\ \A d \in 1..Depth : stack[d] \in Frames(Len(heap))
         /\ stack = <<>> <=> Depth = 0
         /\ stack # <<>> => Depth \in 1..Depth /\ Top = stack[Depth]
<1>1. stack \in Seq(Frames(Len(heap)))
  BY DEF TypeOK, Frames
<1>2. Depth \in Nat /\ DOMAIN stack = 1..Depth
  BY <1>1, LenProperties DEF Depth
<1>3. \A d \in 1..Depth : stack[d] \in Frames(Len(heap))
  BY <1>1, ElementOfSeq DEF Depth
<1>4. stack = <<>> <=> Depth = 0
  BY <1>1, EmptySeq DEF Depth
<1> QED
  BY <1>1, <1>2, <1>3, <1>4 DEF Top, Depth

(* Changing the top frame leaves the others.                               *)
LEMMA SetTopFacts ==
  ASSUME TypeOK, stack # <<>>, NEW n, 0..Len(heap) \subseteq 0..n,
         NEW f \in Frames(n)
  PROVE  /\ SetTop(f) \in Seq(Frames(n))
         /\ Len(SetTop(f)) = Depth
         /\ SetTop(f)[Depth] = f
         /\ \A d \in 1..Depth : d # Depth => SetTop(f)[d] = stack[d]
         /\ SetTop(f) # <<>>
<1>1. Frames(Len(heap)) \subseteq Frames(n)
  BY DEF Frames
<1>2. stack \in Seq(Frames(n))
  BY <1>1, StackFacts, SeqMonotonic
<1>3. Depth \in 1..Len(stack)
  BY StackFacts DEF Depth
<1>4. /\ SetTop(f) \in Seq(Frames(n))
      /\ Len(SetTop(f)) = Depth
      /\ \A d \in 1..Depth : SetTop(f)[d] = IF d = Depth THEN f ELSE stack[d]
  BY <1>2, <1>3, ExceptSeq DEF SetTop, Depth
<1>5. SetTop(f) # <<>>
  BY <1>3, <1>4, EmptySeq DEF Depth
<1> QED
  BY <1>3, <1>4, <1>5 DEF Depth

-----------------------------------------------------------------------------
(* What the actions do to the memory and to the stack.                     *)

(* Slot c of the current array becomes t, and nothing else changes.        *)
Written(c, t) ==
  /\ Len(heap') = Len(heap) /\ DOMAIN heap' = DOMAIN heap
  /\ \A a \in DOMAIN heap : DOMAIN heap'[a] = DOMAIN heap[a]
  /\ \A a \in DOMAIN heap : a # data => heap'[a] = heap[a]
  /\ \A e \in DOMAIN slots : heap'[data][e] = IF e = c THEN t ELSE slots[e]
  /\ heap' \in Seq(Arrays(2 * table_size))

(* An assignment to a slot of the current array.                           *)
LEMMA WriteFacts ==
  ASSUME TypeOK, NEW c \in DOMAIN slots, NEW t \in Slot,
         heap' = [heap EXCEPT ![data] = [slots EXCEPT ![c] = t]]
  PROVE  Written(c, t)
<1> DEFINE new == [slots EXCEPT ![c] = t]
<1>1. /\ Len(heap) \in Nat /\ DOMAIN heap = 1..Len(heap)
      /\ data \in 1..Len(heap)
      /\ heap \in Seq(Arrays(2 * table_size))
      /\ slots \in [DOMAIN slots -> Slot]
  BY HeapFacts DEF slots
<1>2. /\ new \in [DOMAIN slots -> Slot]
      /\ \A e \in DOMAIN slots : new[e] = IF e = c THEN t ELSE slots[e]
  BY <1>1
<1>3. new \in Arrays(2 * table_size)
  <2>1. PICK m \in 0..(2 * table_size) : slots \in [0..(m - 1) -> Slot]
    BY DEF TypeOK, slots
  <2>2. new \in [0..(m - 1) -> Slot]
    BY <1>2, <2>1
  <2> QED
    BY <2>2 DEF Arrays
<1> HIDE DEF new
<1>4. heap' = [heap EXCEPT ![data] = new]
  BY DEF new
<1>5. /\ heap' \in Seq(Arrays(2 * table_size)) /\ Len(heap') = Len(heap)
      /\ \A a \in 1..Len(heap) : heap'[a] = IF a = data THEN new ELSE heap[a]
  <2>1. PICK S : S = Arrays(2 * table_size)
    OBVIOUS
  <2>2. heap \in Seq(S) /\ new \in S /\ data \in 1..Len(heap)
    BY <1>1, <1>3, <2>1
  <2>3. PICK u : u = [heap EXCEPT ![data] = new]
    OBVIOUS
  <2>4. /\ u \in Seq(S) /\ Len(u) = Len(heap)
        /\ \A a \in 1..Len(heap) : u[a] = IF a = data THEN new ELSE heap[a]
    BY <2>2, <2>3, ExceptOne
  <2> QED
    BY <1>4, <2>1, <2>3, <2>4
<1>6. DOMAIN heap' = DOMAIN heap
  BY <1>4
<1>7. \A a \in DOMAIN heap : DOMAIN heap'[a] = DOMAIN heap[a]
  BY <1>1, <1>2, <1>5 DEF slots
<1> QED
  BY <1>1, <1>2, <1>5, <1>6, <1>7 DEF Written

(* The fields of a slot.                                                   *)
LEMMA SlotFacts ==
  ASSUME TypeOK, NEW c \in DOMAIN slots
  PROVE  /\ slots[c] \in Slot
         /\ slots[c].in_use \in {0, 1}
         /\ slots[c].key \in Keys \cup {NULL}
         /\ slots[c].data \in Values \cup {NULL}
         /\ slots[c] = [in_use |-> slots[c].in_use, key |-> slots[c].key,
                        data |-> slots[c].data]
<1>1. slots[c] \in Slot
  BY HeapFacts DEF slots
<1> QED
  BY <1>1 DEF Slot

(* An assignment to one field of a slot.                                   *)
LEMMA SetSlotFacts ==
  ASSUME TypeOK, NEW c \in DOMAIN slots, NEW x
  PROVE  LET s == slots[c]
             Now(t) == heap' = [heap EXCEPT ![data] = [slots EXCEPT ![c] = t]]
         IN  /\ SetSlot(c, "in_use", x) =>
                  Now([in_use |-> x, key |-> s.key, data |-> s.data])
             /\ SetSlot(c, "key", x) =>
                  Now([in_use |-> s.in_use, key |-> x, data |-> s.data])
             /\ SetSlot(c, "data", x) =>
                  Now([in_use |-> s.in_use, key |-> s.key, data |-> x])
<1>1. PICK s, u, k, d :
        /\ s = slots[c] /\ u = s.in_use /\ k = s.key /\ d = s.data
        /\ s = [in_use |-> u, key |-> k, data |-> d]
  BY SlotFacts
<1>2. [s EXCEPT !["in_use"] = x] = [in_use |-> x, key |-> k, data |-> d]
  BY <1>1, ExceptField
<1>3. [s EXCEPT !["key"] = x] = [in_use |-> u, key |-> x, data |-> d]
  BY <1>1, ExceptField
<1>4. [s EXCEPT !["data"] = x] = [in_use |-> u, key |-> k, data |-> x]
  BY <1>1, ExceptField
<1>5. ASSUME NEW f, SetSlot(c, f, x)
      PROVE  heap' = [heap EXCEPT ![data] =
                        [slots EXCEPT ![c] = [s EXCEPT ![f] = x]]]
  BY <1>1, <1>5 DEF SetSlot, slots
<1> QED
  BY <1>1, <1>2, <1>3, <1>4, <1>5

(* What hashmap_put writes into the slot at index.                         *)
LEMMA PutWrites ==
  ASSUME TypeOK, ShapeInv, SlotInv
  PROVE  /\ PutData => Written(index, [in_use |-> 0, key |-> slots[index].key,
                                       data |-> Top.data])
         /\ PutKey => Written(index, [in_use |-> 0, key |-> Top.key,
                                      data |-> Top.data])
         /\ PutInUse => Written(index, [in_use |-> 1, key |-> Top.key,
                                        data |-> Top.data])
<1> SUFFICES ASSUME pc \in {"data", "key", "in_use"}
             PROVE  /\ PutData => Written(index, [in_use |-> 0,
                                    key |-> slots[index].key,
                                    data |-> Top.data])
                    /\ PutKey => Written(index, [in_use |-> 0, key |-> Top.key,
                                                 data |-> Top.data])
                    /\ PutInUse => Written(index, [in_use |-> 1,
                                     key |-> Top.key, data |-> Top.data])
  BY DEF PutData, PutKey, PutInUse, Goto
<1>1. stack # <<>> /\ index \in DOMAIN slots /\ slots[index].in_use = 0
  BY DEF ShapeInv, SlotInv
<1>2. Top.key \in Keys /\ Top.data \in Values
  BY <1>1, StackFacts DEF Frames
<1>3. /\ slots[index] = [in_use |-> 0, key |-> slots[index].key,
                         data |-> slots[index].data]
      /\ slots[index].key \in Keys \cup {NULL}
  BY <1>1, SlotFacts
<1>4. ASSUME PutData
      PROVE  Written(index, [in_use |-> 0, key |-> slots[index].key,
                             data |-> Top.data])
  <2>1. heap' = [heap EXCEPT ![data] = [slots EXCEPT ![index] =
                   [in_use |-> 0, key |-> slots[index].key,
                    data |-> Top.data]]]
    BY <1>1, <1>3, <1>4, SetSlotFacts DEF PutData
  <2>2. [in_use |-> 0, key |-> slots[index].key, data |-> Top.data] \in Slot
    BY <1>2, <1>3 DEF Slot
  <2> QED
    BY <1>1, <2>1, <2>2, WriteFacts
<1>5. ASSUME PutKey
      PROVE  Written(index, [in_use |-> 0, key |-> Top.key, data |-> Top.data])
  <2>1. slots[index].data = Top.data
    BY <1>5 DEF PutKey, Goto, SlotInv
  <2>2. heap' = [heap EXCEPT ![data] = [slots EXCEPT ![index] =
                   [in_use |-> 0, key |-> Top.key, data |-> Top.data]]]
    BY <1>1, <1>3, <1>5, <2>1, SetSlotFacts DEF PutKey
  <2>3. [in_use |-> 0, key |-> Top.key, data |-> Top.data] \in Slot
    BY <1>2 DEF Slot
  <2> QED
    BY <1>1, <2>2, <2>3, WriteFacts
<1>6. ASSUME PutInUse
      PROVE  Written(index, [in_use |-> 1, key |-> Top.key, data |-> Top.data])
  <2>1. slots[index].data = Top.data /\ slots[index].key = Top.key
    BY <1>6 DEF PutInUse, Goto, SlotInv
  <2>2. heap' = [heap EXCEPT ![data] = [slots EXCEPT ![index] =
                   [in_use |-> 1, key |-> Top.key, data |-> Top.data]]]
    BY <1>1, <1>3, <1>6, <2>1, SetSlotFacts DEF PutInUse
  <2>3. [in_use |-> 1, key |-> Top.key, data |-> Top.data] \in Slot
    BY <1>2 DEF Slot
  <2> QED
    BY <1>1, <2>2, <2>3, WriteFacts
<1> QED
  BY <1>4, <1>5, <1>6

(* What hashmap_remove writes into it.                                     *)
LEMMA RemoveWrites ==
  ASSUME TypeOK, ShapeInv, SlotInv, pc \in {"blank", "blank data", "blank key"}
  PROVE  /\ RemoveInUse =>
              Written(index, [in_use |-> 0, key |-> slots[index].key,
                              data |-> slots[index].data])
         /\ RemoveData =>
              Written(index, [in_use |-> 0, key |-> slots[index].key,
                              data |-> NULL])
         /\ RemoveKey =>
              Written(index, [in_use |-> 0, key |-> NULL,
                              data |-> slots[index].data])
<1>1. index \in DOMAIN slots
  BY DEF SlotInv
<1>2. /\ slots[index] = [in_use |-> slots[index].in_use,
                         key |-> slots[index].key,
                         data |-> slots[index].data]
      /\ slots[index].key \in Keys \cup {NULL}
      /\ slots[index].data \in Values \cup {NULL}
  BY <1>1, SlotFacts
<1>3. ASSUME RemoveInUse
      PROVE  Written(index, [in_use |-> 0, key |-> slots[index].key,
                             data |-> slots[index].data])
  <2>1. heap' = [heap EXCEPT ![data] = [slots EXCEPT ![index] =
                   [in_use |-> 0, key |-> slots[index].key,
                    data |-> slots[index].data]]]
    BY <1>1, <1>2, <1>3, SetSlotFacts DEF RemoveInUse
  <2>2. [in_use |-> 0, key |-> slots[index].key,
         data |-> slots[index].data] \in Slot
    BY <1>2 DEF Slot
  <2> QED
    BY <1>1, <2>1, <2>2, WriteFacts
<1>4. ASSUME RemoveData
      PROVE  Written(index, [in_use |-> 0, key |-> slots[index].key,
                             data |-> NULL])
  <2>1. slots[index].in_use = 0
    BY <1>4 DEF RemoveData, Goto, SlotInv
  <2>2. heap' = [heap EXCEPT ![data] = [slots EXCEPT ![index] =
                   [in_use |-> 0, key |-> slots[index].key, data |-> NULL]]]
    BY <1>1, <1>2, <1>4, <2>1, SetSlotFacts DEF RemoveData
  <2>3. [in_use |-> 0, key |-> slots[index].key, data |-> NULL] \in Slot
    BY <1>2 DEF Slot
  <2> QED
    BY <1>1, <2>2, <2>3, WriteFacts
<1>5. ASSUME RemoveKey
      PROVE  Written(index, [in_use |-> 0, key |-> NULL,
                             data |-> slots[index].data])
  <2>1. slots[index].in_use = 0
    BY <1>5 DEF RemoveKey, Goto, SlotInv
  <2>2. heap' = [heap EXCEPT ![data] = [slots EXCEPT ![index] =
                   [in_use |-> 0, key |-> NULL, data |-> slots[index].data]]]
    BY <1>1, <1>2, <1>5, <2>1, SetSlotFacts DEF RemoveKey
  <2>3. [in_use |-> 0, key |-> NULL, data |-> slots[index].data] \in Slot
    BY <1>2 DEF Slot
  <2> QED
    BY <1>1, <2>2, <2>3, WriteFacts
<1> QED
  BY <1>3, <1>4, <1>5

(* The frame that differs from f in the locals of hashmap_rehash.          *)
LEMMA FrameExcept ==
  ASSUME NEW n, NEW f \in Frames(n), NEW o, NEW x
  PROVE  [f EXCEPT !.old = o, !.next = x] =
           [key |-> f.key, data |-> f.data, old |-> o, next |-> x]
<1>1. PICK k, d, p, y :
        f = [key |-> k, data |-> d, old |-> p, next |-> y]
  BY DEF Frames
<1>2. PICK g : g = [f EXCEPT !.old = o]
  OBVIOUS
<1>3. g = [key |-> k, data |-> d, old |-> o, next |-> y]
  BY <1>1, <1>2
<1>4. [g EXCEPT !.next = x] = [key |-> k, data |-> d, old |-> o, next |-> x]
  BY <1>3
<1>5. [f EXCEPT !.old = o, !.next = x] = [g EXCEPT !.next = x]
  BY <1>2
<1>6. f.key = k /\ f.data = d
  BY <1>1
<1> QED
  BY <1>4, <1>5, <1>6

(* hashmap_put is called.                                                  *)
LEMMA CallFacts ==
  ASSUME TypeOK, ShapeInv, NEW k \in Keys, NEW x \in Elements[k], PutCall(k, x)
  PROVE  /\ stack = <<>> /\ Len(stack') = 1 /\ stack' # <<>>
         /\ stack' \in Seq(Frames(Len(heap)))
         /\ stack'[1] = [key |-> k, data |-> x, old |-> 0, next |-> 0]
<1>1. x \in Values
  BY HashMapAssumption DEF HashMapAssumption, Values
<1>2. Frame(k, x) \in Frames(Len(heap))
  BY <1>1, HeapFacts DEF Frame, Frames
<1>3. stack' = <<Frame(k, x)>>
  BY DEF PutCall
<1> QED
  BY <1>2, <1>3 DEF PutCall, Goto, ShapeInv, Frame

(* The frame at the top changes to f.                                      *)
TopBecomes(f) ==
  /\ Len(stack') = Depth /\ stack' # <<>>
  /\ stack'[Depth] = f
  /\ \A d \in 1..Depth : d # Depth => stack'[d] = stack[d]

(* A rehash begins: a second array, twice as long, becomes the table.      *)
LEMMA RehashDataFacts ==
  ASSUME TypeOK, ShapeInv, RehashData
  PROVE  /\ stack # <<>>
         /\ Len(heap') = Len(heap) + 1 /\ data' = Len(heap) + 1
         /\ DOMAIN heap' = 1..(Len(heap) + 1)
         /\ \A a \in DOMAIN heap : heap'[a] = heap[a]
         /\ heap'[Len(heap) + 1] = Table(2 * table_size)
         /\ heap' \in Seq(Arrays(2 * table_size))
         /\ TopBecomes([key |-> Top.key, data |-> Top.data, old |-> data,
                        next |-> 0])
         /\ stack' \in Seq(Frames(Len(heap) + 1))
<1>1. stack # <<>>
  BY DEF RehashData, Goto, ShapeInv
<1>2. Table(2 * table_size) \in Arrays(2 * table_size)
  <2>1. EmptySlot \in Slot
    BY DEF EmptySlot, Slot
  <2>2. 2 * table_size \in 0..(2 * table_size)
    BY DEF TypeOK
  <2>3. Table(2 * table_size) \in [0..(2 * table_size - 1) -> Slot]
    BY <2>1 DEF Table
  <2> QED
    BY <2>2, <2>3 DEF Arrays
<1>3. PICK S, t : S = Arrays(2 * table_size) /\ t = Table(2 * table_size)
  OBVIOUS
<1>4. heap' = Append(heap, t) /\ heap \in Seq(S) /\ t \in S
  BY <1>2, <1>3, HeapFacts DEF RehashData
<1>5. /\ heap' \in Seq(S) /\ Len(heap') = Len(heap) + 1
      /\ \A a \in 1..Len(heap) : heap'[a] = heap[a]
      /\ heap'[Len(heap) + 1] = t
  BY <1>4, AppendProperties
<1>6. DOMAIN heap' = 1..(Len(heap) + 1)
  BY <1>5, LenProperties
<1>7. /\ Top.key \in Keys /\ Top.data \in Values
      /\ [Top EXCEPT !.old = data, !.next = 0] =
           [key |-> Top.key, data |-> Top.data, old |-> data, next |-> 0]
  <2>1. PICK f \in Frames(Len(heap)) : f = Top
    BY <1>1, StackFacts
  <2>2. f.key \in Keys /\ f.data \in Values
    BY DEF Frames
  <2>3. [f EXCEPT !.old = data, !.next = 0] =
          [key |-> f.key, data |-> f.data, old |-> data, next |-> 0]
    BY FrameExcept
  <2> QED
    BY <2>1, <2>2, <2>3
<1>8. [key |-> Top.key, data |-> Top.data, old |-> data, next |-> 0]
        \in Frames(Len(heap) + 1)
  BY <1>7, HeapFacts DEF Frames
<1>9. 0..Len(heap) \subseteq 0..(Len(heap) + 1)
  BY HeapFacts
<1>10. stack' = SetTop([key |-> Top.key, data |-> Top.data, old |-> data,
                        next |-> 0])
  BY <1>7 DEF RehashData
<1>11. TopBecomes([key |-> Top.key, data |-> Top.data, old |-> data,
                   next |-> 0])
  BY <1>1, <1>8, <1>9, <1>10, SetTopFacts DEF TopBecomes
<1>12. stack' \in Seq(Frames(Len(heap) + 1))
  BY <1>1, <1>8, <1>9, <1>10, SetTopFacts
<1> QED
  BY <1>1, <1>3, <1>5, <1>6, <1>11, <1>12, HeapFacts DEF RehashData

(* hashmap_rehash calls hashmap_put for the slot that is next.             *)
LEMMA RehashMoveFacts ==
  ASSUME TypeOK, ShapeInv, LiveInv, RehashMove
  PROVE  /\ stack # <<>> /\ Top.old # 0 /\ Top.old \in DOMAIN heap
         /\ \E j \in Left(Top) :
              /\ \A l \in Left(Top) : j <= l
              /\ heap[Top.old][j].key \in Keys
              /\ heap[Top.old][j].data \in Values
              /\ heap[Top.old][j] = [in_use |-> 1,
                                     key |-> heap[Top.old][j].key,
                                     data |-> heap[Top.old][j].data]
              /\ Len(stack') = Depth + 1 /\ stack' # <<>>
              /\ \A d \in 1..Depth : d # Depth => stack'[d] = stack[d]
              /\ stack'[Depth] = [key |-> Top.key, data |-> Top.data,
                                  old |-> Top.old, next |-> j]
              /\ stack'[Depth + 1] = [key |-> heap[Top.old][j].key,
                                      data |-> heap[Top.old][j].data,
                                      old |-> 0, next |-> 0]
              /\ stack' \in Seq(Frames(Len(heap)))
<1>1. stack # <<>> /\ Top.old # 0
  BY DEF RehashMove, Goto, ShapeInv
<1>2. /\ Top \in Frames(Len(heap)) /\ Depth \in 1..Depth /\ Top = stack[Depth]
      /\ DOMAIN stack = 1..Depth
  BY <1>1, StackFacts
<1>3. Top.old \in DOMAIN heap
  BY <1>1, <1>2, HeapFacts DEF Frames
<1>4. PICK j \in Left(Top) :
        /\ \A l \in Left(Top) : j <= l
        /\ stack' = Append(SetTop([Top EXCEPT !.next = j]),
                           Frame(heap[Top.old][j].key, heap[Top.old][j].data))
  BY DEF RehashMove
<1>5. /\ j \in DOMAIN heap[Top.old] /\ j \in Nat /\ Top.next <= j
      /\ heap[Top.old][j] \in Slot /\ heap[Top.old][j].in_use = 1
  BY <1>3, HeapFacts DEF Left, Slot
<1>6. Live(Top.old, j)
  BY <1>2, <1>3, <1>5 DEF Live, MovedTo, RehashMove, Goto
<1>7. heap[Top.old][j].key \in Keys /\ heap[Top.old][j].data \in Values
  BY <1>3, <1>5, <1>6 DEF LiveInv
<1>8. heap[Top.old][j] = [in_use |-> 1, key |-> heap[Top.old][j].key,
                          data |-> heap[Top.old][j].data]
  BY <1>5 DEF Slot
<1>9. PICK f, g : /\ f = [Top EXCEPT !.next = j]
                  /\ g = Frame(heap[Top.old][j].key, heap[Top.old][j].data)
  OBVIOUS
<1>10. /\ f = [key |-> Top.key, data |-> Top.data, old |-> Top.old, next |-> j]
       /\ f \in Frames(Len(heap))
  BY <1>2, <1>5, <1>9 DEF Frames
<1>11. g \in Frames(Len(heap))
  BY <1>7, <1>9, HeapFacts DEF Frame, Frames
<1>12. /\ SetTop(f) \in Seq(Frames(Len(heap))) /\ Len(SetTop(f)) = Depth
       /\ SetTop(f)[Depth] = f
       /\ \A d \in 1..Depth : d # Depth => SetTop(f)[d] = stack[d]
  BY <1>1, <1>10, SetTopFacts
<1>13. stack' = Append(SetTop(f), g)
  BY <1>4, <1>9
<1>14. /\ stack' \in Seq(Frames(Len(heap))) /\ Len(stack') = Depth + 1
       /\ stack' # <<>>
       /\ \A d \in 1..Depth : stack'[d] = SetTop(f)[d]
       /\ stack'[Depth + 1] = g
  BY <1>11, <1>12, <1>13, AppendProperties
<1>15. g = [key |-> heap[Top.old][j].key, data |-> heap[Top.old][j].data,
            old |-> 0, next |-> 0]
  BY <1>9 DEF Frame
<1>16. stack'[Depth] = f
  BY <1>2, <1>12, <1>14
<1> QED
  BY <1>1, <1>3, <1>4, <1>7, <1>8, <1>10, <1>12, <1>14, <1>15, <1>16

(* A rehash ends: the old array is freed.                                  *)
LEMMA RehashFreeFacts ==
  ASSUME TypeOK, ShapeInv, RehashFree
  PROVE  /\ stack # <<>> /\ Top.old # 0 /\ Top.old \in DOMAIN heap
         /\ Top.old # data
         /\ Len(heap') = Len(heap) /\ DOMAIN heap' = DOMAIN heap
         /\ \A a \in DOMAIN heap :
              heap'[a] = IF a = Top.old THEN Freed ELSE heap[a]
         /\ heap' \in Seq(Arrays(2 * table_size))
         /\ TopBecomes([key |-> Top.key, data |-> Top.data, old |-> 0,
                        next |-> 0])
         /\ stack' \in Seq(Frames(Len(heap)))
<1>1. stack # <<>> /\ Top.old # 0
  BY DEF RehashFree, Goto, ShapeInv
<1>2. /\ Top \in Frames(Len(heap)) /\ Depth \in 1..Depth /\ Top = stack[Depth]
      /\ DOMAIN stack = 1..Depth
  BY <1>1, StackFacts
<1>3. Top.old \in 1..Len(heap) /\ DOMAIN heap = 1..Len(heap)
  BY <1>1, <1>2, HeapFacts DEF Frames
<1>4. Top.old # data
  <2>1. stack[Depth].old < data
    BY <1>2 DEF ShapeInv
  <2> QED
    BY <1>2, <1>3, <2>1, HeapFacts
<1>5. Freed \in Arrays(2 * table_size)
  <2>1. 0 \in 0..(2 * table_size)
    BY DEF TypeOK
  <2>2. Freed \in [0..(0 - 1) -> Slot]
    BY DEF Freed, Table
  <2> QED
    BY <2>1, <2>2 DEF Arrays
<1>6. PICK S, t : S = Arrays(2 * table_size) /\ t = Freed
  OBVIOUS
<1>7. heap' = [heap EXCEPT ![Top.old] = t] /\ heap \in Seq(S) /\ t \in S
  BY <1>5, <1>6, HeapFacts DEF RehashFree
<1>8. PICK o : o = Top.old
  OBVIOUS
<1>9. /\ heap' \in Seq(S) /\ Len(heap') = Len(heap)
      /\ \A a \in 1..Len(heap) : heap'[a] = IF a = o THEN t ELSE heap[a]
  BY <1>3, <1>7, <1>8, ExceptOne
<1>10. DOMAIN heap' = DOMAIN heap
  BY <1>7
<1>11. PICK f : f = [Top EXCEPT !.old = 0, !.next = 0]
  OBVIOUS
<1>12. /\ f = [key |-> Top.key, data |-> Top.data, old |-> 0, next |-> 0]
       /\ f \in Frames(Len(heap))
  <2>1. PICK t0 \in Frames(Len(heap)) : t0 = Top
    BY <1>2
  <2>2. f = [key |-> t0.key, data |-> t0.data, old |-> 0, next |-> 0]
    BY <1>11, <2>1, FrameExcept
  <2>3. t0.key \in Keys /\ t0.data \in Values /\ 0 \in 0..Len(heap)
    BY HeapFacts DEF Frames
  <2>4. f \in Frames(Len(heap))
    BY <2>2, <2>3 DEF Frames
  <2> QED
    BY <2>1, <2>2, <2>4
<1>13. stack' = SetTop(f)
  BY <1>11 DEF RehashFree
<1>14. TopBecomes(f) /\ stack' \in Seq(Frames(Len(heap)))
  BY <1>1, <1>12, <1>13, SetTopFacts DEF TopBecomes
<1> QED
  BY <1>1, <1>3, <1>4, <1>6, <1>8, <1>9, <1>10, <1>12, <1>14

(* hashmap_put returns, to 00 or to hashmap_rehash.                        *)
LEMMA CountFacts ==
  ASSUME TypeOK, ShapeInv, PutCount
  PROVE  /\ stack # <<>> /\ Depth \in 1..Depth
         /\ Depth = 1 => stack' = <<>> /\ pc' = "idle"
         /\ Depth # 1 =>
              /\ pc' = "move" /\ Len(stack') = Depth - 1 /\ stack' # <<>>
              /\ Depth - 1 \in 1..Depth
              /\ \A d \in 1..(Depth - 1) :
                   d # Depth - 1 => stack'[d] = stack[d]
              /\ stack'[Depth - 1] =
                   [key |-> stack[Depth - 1].key,
                    data |-> stack[Depth - 1].data,
                    old |-> stack[Depth - 1].old,
                    next |-> stack[Depth - 1].next + 1]
         /\ stack' \in Seq(Frames(Len(heap)))
<1>1. stack # <<>>
  BY DEF PutCount, Goto, ShapeInv
<1>2. /\ Depth \in Nat /\ Depth # 0
      /\ \A d \in 1..Depth : stack[d] \in Frames(Len(heap))
  BY <1>1, StackFacts
<1>3. PICK outer : outer = SubSeq(stack, 1, Depth - 1)
  OBVIOUS
<1>4. /\ outer \in Seq(Frames(Len(heap)))
      /\ Len(outer) = Depth - 1
      /\ \A d \in 1..(Depth - 1) : outer[d] = stack[d]
  <2>1. 1 \in Int /\ Depth - 1 \in Int
    BY <1>2
  <2>2. \A i \in 1..(Depth - 1) : stack[i] \in Frames(Len(heap))
    BY <1>2
  <2>3. /\ outer \in Seq(Frames(Len(heap)))
        /\ Len(outer) = IF 1 <= Depth - 1 THEN (Depth - 1) - 1 + 1 ELSE 0
        /\ \A i \in 1..((Depth - 1) - 1 + 1) : outer[i] = stack[1 + i - 1]
    BY <1>3, <2>1, <2>2, SubSeqProperties
  <2> QED
    BY <1>2, <2>3
<1>5. /\ pc' = IF outer = <<>> THEN "idle" ELSE "move"
      /\ stack' = IF outer = <<>> THEN outer
                  ELSE [outer EXCEPT ![Len(outer)].next = @ + 1]
  BY <1>3 DEF PutCount, Goto, Depth
<1>6. outer = <<>> <=> Depth = 1
  BY <1>2, <1>4, EmptySeq
<1>7. CASE Depth = 1
  BY <1>1, <1>2, <1>4, <1>5, <1>6, <1>7
<1>8. CASE Depth # 1
  <2>1. Depth - 1 \in 1..Len(outer) /\ Depth - 1 \in 1..Depth
    BY <1>2, <1>4, <1>8
  <2>2. PICK e : e = [stack[Depth - 1] EXCEPT !.next = @ + 1]
    OBVIOUS
  <2>3. /\ e = [key |-> stack[Depth - 1].key,
                data |-> stack[Depth - 1].data,
                old |-> stack[Depth - 1].old,
                next |-> stack[Depth - 1].next + 1]
        /\ e \in Frames(Len(heap))
    BY <1>2, <2>1, <2>2 DEF Frames
  <2>4. stack' = [outer EXCEPT ![Depth - 1] = e]
    BY <1>4, <1>5, <1>6, <1>8, <2>1, <2>2
  <2>5. PICK i : i = Depth - 1
    OBVIOUS
  <2>6. /\ stack' \in Seq(Frames(Len(heap))) /\ Len(stack') = Len(outer)
        /\ \A d \in 1..Len(outer) : stack'[d] = IF d = i THEN e ELSE outer[d]
    BY <1>4, <2>1, <2>3, <2>4, <2>5, ExceptOne
  <2>7. stack' # <<>>
    BY <2>1, <2>6, EmptySeq
  <2> QED
    BY <1>1, <1>2, <1>4, <1>5, <1>6, <1>8, <2>1, <2>3, <2>5, <2>6, <2>7
<1> QED
  BY <1>7, <1>8

(* A slot in use of the table holds a name, and each another one.          *)
LEMMA UsedFacts ==
  ASSUME TypeOK, LiveInv
  PROVE  /\ IsFiniteSet(Used)
         /\ Cardinality(Used) \in Nat
         /\ Cardinality(Used) <= Cardinality(Keys)
         /\ \A c \in Used : /\ Live(data, c)
                            /\ slots[c].key \in Keys
                            /\ slots[c].data \in Values
         /\ \A c, e \in Used : slots[c].key = slots[e].key => c = e
<1>1. data \in DOMAIN heap
  BY DEF TypeOK
<1>2. \A c \in Used : Live(data, c)
  BY <1>1 DEF Used, Live, slots
<1>3. \A c \in Used : slots[c].key \in Keys /\ slots[c].data \in Values
  BY <1>1, <1>2 DEF LiveInv, Used, slots
<1>4. \A c, e \in Used : slots[c].key = slots[e].key => c = e
  BY <1>1, <1>2 DEF LiveInv, Used, slots
<1>5. PICK f : f = [c \in Used |-> slots[c].key]
  OBVIOUS
<1>6. f \in Injection(Used, Keys)
  BY <1>3, <1>4, <1>5 DEF Injection, IsInjective
<1>7. IsFiniteSet(Keys)
  BY HashMapAssumption DEF HashMapAssumption
<1>8. IsFiniteSet(Used) /\ Cardinality(Used) <= Cardinality(Keys)
  BY <1>6, <1>7, FS_Injection
<1> QED
  BY <1>2, <1>3, <1>4, <1>8, FS_CardinalityType

(* A lookup without the lock changes the locals of its reader only.        *)
LEMMA ReaderOnly ==
  ASSUME NEW r \in Readers, ReaderStep(r) \/ \E k \in Sought : GetCall(r, k)
  PROVE  UNCHANGED <<heap, data, table_size, size, pc, stack, index>>
BY DEF ReaderStep, GetCall, GetHash, GetLoad, GetInUse, GetKey, GetData,
       GetNext, GetCrash, Advance

-----------------------------------------------------------------------------
(* Types.                                                                  *)

ReaderTypes(n) == [pc : ReaderSteps, key : Keys \cup {NULL},
                   todo : {"in_use", "key", "data"}, array : 0..n,
                   curr : Nat, i : 0..(MaxChain - 1)]

(* The locals of a reader keep their types.                                *)
LEMMA ReaderTypeStep ==
  ASSUME IInv, NEW r \in Readers,
         ReaderStep(r) \/ \E k \in Sought : GetCall(r, k)
  PROVE  reader' \in [Readers -> ReaderTypes(Len(heap))]
<1>1. /\ reader \in [Readers -> ReaderTypes(Len(heap))]
      /\ table_size \in Nat \ {0}
      /\ data \in 0..Len(heap)
  BY HeapFacts DEF IInv, TypeOK, ReaderTypes
<1>2. MaxChain \in Nat \ {0} /\ Sought \subseteq Keys
  BY HashMapAssumption DEF HashMapAssumption
<1>3. Asleep \in ReaderTypes(Len(heap))
  BY <1>2, HeapFacts DEF IInv, Asleep, ReaderTypes, ReaderSteps
<1>4. ASSUME NEW t \in ReaderTypes(Len(heap)),
             reader' = [reader EXCEPT ![r] = t]
      PROVE  reader' \in [Readers -> ReaderTypes(Len(heap))]
  BY <1>1, <1>4
<1>5. PICK s \in ReaderTypes(Len(heap)) : s = reader[r]
  BY <1>1
<1>6. ASSUME NEW k \in Sought, GetCall(r, k)
      PROVE  reader' \in [Readers -> ReaderTypes(Len(heap))]
  <2>1. \A a \in ReaderTypes(Len(heap)) :
          [a EXCEPT !.pc = "hash", !.key = k] \in ReaderTypes(Len(heap))
    BY <1>2 DEF ReaderTypes, ReaderSteps
  <2> QED
    BY <1>3, <1>4, <1>6, <2>1 DEF GetCall, Advance
<1>7. CASE GetHash(r)
  <2>1. s.key \in Keys
    BY <1>5, <1>7 DEF IInv, ReaderInv, GetHash, Advance
  <2>2. Hash[s.key] % table_size \in Nat
    BY <1>1, <2>1, HashMapAssumption, ModBound DEF HashMapAssumption
  <2>3. [s EXCEPT !.pc = "load", !.curr = Hash[s.key] % table_size]
          \in ReaderTypes(Len(heap))
    BY <2>2 DEF ReaderTypes, ReaderSteps
  <2> QED
    BY <1>4, <1>5, <1>7, <2>3 DEF GetHash, Advance
<1>8. CASE GetLoad(r)
  <2>1. [s EXCEPT !.pc = s.todo, !.array = data] \in ReaderTypes(Len(heap))
    BY <1>1 DEF ReaderTypes, ReaderSteps
  <2> QED
    BY <1>4, <1>5, <1>8, <2>1 DEF GetLoad, Advance
<1>9. CASE GetInUse(r)
  <2>1. /\ [s EXCEPT !.pc = "load", !.todo = "key"] \in ReaderTypes(Len(heap))
        /\ [s EXCEPT !.pc = "next"] \in ReaderTypes(Len(heap))
    BY DEF ReaderTypes, ReaderSteps
  <2> QED
    BY <1>4, <1>5, <1>9, <2>1 DEF GetInUse, Advance
<1>10. CASE GetKey(r)
  <2>1. /\ [s EXCEPT !.pc = "load", !.todo = "data"] \in ReaderTypes(Len(heap))
        /\ [s EXCEPT !.pc = "next"] \in ReaderTypes(Len(heap))
    BY DEF ReaderTypes, ReaderSteps
  <2> QED
    BY <1>4, <1>5, <1>10, <2>1 DEF GetKey, Advance
<1>11. CASE GetData(r)
  BY <1>3, <1>4, <1>11 DEF GetData, Advance
<1>12. CASE GetNext(r)
  <2>1. (s.curr + 1) % table_size \in Nat
    <3>1. s.curr + 1 \in Nat
      BY DEF ReaderTypes
    <3> QED
      BY <1>1, <3>1, ModBound
  <2>2. s.i + 1 # MaxChain => s.i + 1 \in 0..(MaxChain - 1)
    BY <1>2 DEF ReaderTypes
  <2>3. s.i + 1 # MaxChain =>
          [s EXCEPT !.pc = "load", !.todo = "in_use",
                    !.curr = (@ + 1) % table_size, !.i = @ + 1]
            \in ReaderTypes(Len(heap))
    BY <2>1, <2>2 DEF ReaderTypes, ReaderSteps
  <2> QED
    BY <1>3, <1>4, <1>5, <1>12, <2>3 DEF GetNext, Advance
<1>13. CASE GetCrash(r)
  <2>1. [Asleep EXCEPT !.pc = "crashed"] \in ReaderTypes(Len(heap))
    BY <1>2, HeapFacts DEF IInv, Asleep, ReaderTypes, ReaderSteps
  <2> QED
    BY <1>4, <1>13, <2>1 DEF GetCrash, Advance
<1> QED
  BY <1>6, <1>7, <1>8, <1>9, <1>10, <1>11, <1>12, <1>13 DEF ReaderStep

(* What has to be shown of the next state for TypeOK.                      *)
LEMMA TypeFrom ==
  ASSUME heap' \in Seq(Arrays(2 * table_size')),
         data' \in 1..Len(heap'),
         table_size' \in Nat \ {0},
         size' \in 0..Cardinality(Keys),
         pc' \in HolderSteps,
         stack' \in Seq(Frames(Len(heap'))),
         index' \in 0..table_size',
         reader' \in [Readers -> ReaderTypes(Len(heap'))]
  PROVE  TypeOK'
<1>1. PICK h, n : h = heap' /\ n = 2 * table_size'
  OBVIOUS
<1>2. h \in Seq(Arrays(n))
  BY <1>1
<1>3. /\ h \in Seq({h[a] : a \in DOMAIN h})
      /\ \A a \in DOMAIN h : \E m \in 0..n : h[a] \in [0..(m - 1) -> Slot]
  BY <1>2, HeapType
<1>4. DOMAIN h = 1..Len(h)
  BY <1>2, LenProperties
<1>5. /\ heap' \in Seq({heap'[a] : a \in DOMAIN heap'})
      /\ \A a \in DOMAIN heap' :
           \E m \in 0..(2 * table_size') : heap'[a] \in [0..(m - 1) -> Slot]
      /\ data' \in DOMAIN heap'
  BY <1>1, <1>3, <1>4
<1>6. /\ stack' \in Seq([key : Keys, data : Values, old : 0..Len(heap'),
                         next : Nat])
      /\ reader' \in [Readers -> [pc : ReaderSteps, key : Keys \cup {NULL},
                                  todo : {"in_use", "key", "data"},
                                  array : 0..Len(heap'), curr : Nat,
                                  i : 0..(MaxChain - 1)]]
  BY DEF Frames, ReaderTypes
<1> QED
  BY <1>5, <1>6 DEF TypeOK

(* Every step keeps the types.                                             *)
LEMMA TypeStep ==
  ASSUME IInv, [Next]_vars
  PROVE  TypeOK'
<1> USE DEF IInv
<1>1. /\ heap \in Seq(Arrays(2 * table_size)) /\ Len(heap) \in Nat
      /\ data \in 1..Len(heap) /\ DOMAIN heap = 1..Len(heap)
  BY HeapFacts
<1>2. /\ table_size \in Nat \ {0} /\ size \in 0..Cardinality(Keys)
      /\ pc \in HolderSteps /\ index \in 0..table_size
      /\ size \in Nat
  BY DEF TypeOK
<1>3. stack \in Seq(Frames(Len(heap)))
  BY StackFacts
<1>4. reader \in [Readers -> ReaderTypes(Len(heap))]
  BY DEF TypeOK, ReaderTypes
<1>5. Cardinality(Keys) \in Nat
  BY HashMapAssumption, FS_CardinalityType DEF HashMapAssumption
<1>6. CASE UNCHANGED vars
  <2>1. UNCHANGED <<heap, data, table_size, size, pc, stack, index, reader>>
    BY <1>6 DEF vars
  <2> QED
    BY <1>1, <1>2, <1>3, <1>4, <2>1, TypeFrom
<1>7. ASSUME NEW r \in Readers,
             ReaderStep(r) \/ \E k \in Sought : GetCall(r, k)
      PROVE  TypeOK'
  <2>1. UNCHANGED <<heap, data, table_size, size, pc, stack, index>>
    BY <1>7, ReaderOnly
  <2>2. reader' \in [Readers -> ReaderTypes(Len(heap'))]
    BY <1>7, <2>1, ReaderTypeStep
  <2> QED
    BY <1>1, <1>2, <1>3, <2>1, <2>2, TypeFrom
<1>8. ASSUME NEW k \in Keys, RemoveCall(k)
      PROVE  TypeOK'
  <2>1. index' \in 0..table_size
    BY <1>2, <1>8, LookupFinds DEF RemoveCall
  <2>2. pc' \in HolderSteps
    BY <1>8 DEF RemoveCall, Goto, HolderSteps
  <2>3. UNCHANGED <<heap, data, table_size, size, stack, reader>>
    BY <1>8 DEF RemoveCall
  <2> QED
    BY <1>1, <1>2, <1>3, <1>4, <2>1, <2>2, <2>3, TypeFrom
<1>9. ASSUME NEW k \in Keys, NEW x \in Elements[k], PutCall(k, x)
      PROVE  TypeOK'
  <2>1. stack' \in Seq(Frames(Len(heap)))
    BY <1>9, CallFacts
  <2>2. pc' \in HolderSteps
    BY <1>9 DEF PutCall, Goto, HolderSteps
  <2>3. UNCHANGED <<heap, data, table_size, size, index, reader>>
    BY <1>9 DEF PutCall
  <2> QED
    BY <1>1, <1>2, <1>4, <2>1, <2>2, <2>3, TypeFrom
<1>10. CASE PutHash
  <2>1. stack # <<>>
    BY <1>10 DEF PutHash, Goto, ShapeInv
  <2>2. Top.key \in Keys
    BY <2>1, StackFacts DEF Frames
  <2>3. index' \in 0..table_size
    BY <1>2, <1>10, <2>2, HashFinds DEF PutHash
  <2>4. pc' \in HolderSteps
    BY <1>10 DEF PutHash, Goto, HolderSteps
  <2>5. UNCHANGED <<heap, data, table_size, size, stack, reader>>
    BY <1>10 DEF PutHash
  <2> QED
    BY <1>1, <1>2, <1>3, <1>4, <2>3, <2>4, <2>5, TypeFrom
<1>11. CASE PutData \/ PutKey \/ PutInUse \/ RemoveInUse \/ RemoveData
            \/ RemoveKey
  <2>1. \E t : Written(index, t)
    <3>1. CASE PutData \/ PutKey \/ PutInUse
      BY <3>1, PutWrites
    <3>2. CASE RemoveInUse \/ RemoveData \/ RemoveKey
      <4>1. pc \in {"blank", "blank data", "blank key"}
        BY <3>2 DEF RemoveInUse, RemoveData, RemoveKey, Goto
      <4> QED
        BY <3>2, <4>1, RemoveWrites
    <3> QED
      BY <1>11, <3>1, <3>2
  <2>2. heap' \in Seq(Arrays(2 * table_size)) /\ Len(heap') = Len(heap)
    BY <2>1 DEF Written
  <2>3. pc' \in HolderSteps
    BY <1>11 DEF PutData, PutKey, PutInUse, RemoveInUse, RemoveData,
                 RemoveKey, Goto, HolderSteps
  <2>4. UNCHANGED <<data, table_size, size, stack, index, reader>>
    BY <1>11 DEF PutData, PutKey, PutInUse, RemoveInUse, RemoveData, RemoveKey
  <2> QED
    BY <1>1, <1>2, <1>3, <1>4, <2>2, <2>3, <2>4, TypeFrom
<1>12. CASE PutCount
  <2>1. pc = "count"
    BY <1>12 DEF PutCount, Goto
  <2>2. Cardinality(Used) = size + 1
    BY <2>1 DEF SizeInv
  <2>3. size + 1 \in 0..Cardinality(Keys)
    BY <1>2, <1>5, <2>2, UsedFacts
  <2>4. stack' \in Seq(Frames(Len(heap)))
    BY <1>12, CountFacts
  <2>5. pc' \in HolderSteps
    BY <1>12 DEF PutCount, Goto, HolderSteps
  <2>6. /\ UNCHANGED <<heap, data, table_size, reader>>
        /\ size' = size + 1 /\ index' = 0
    BY <1>12 DEF PutCount
  <2> QED
    BY <1>1, <1>2, <1>4, <2>3, <2>4, <2>5, <2>6, TypeFrom
<1>13. CASE RehashData
  <2>1. /\ heap' \in Seq(Arrays(2 * table_size))
        /\ Len(heap') = Len(heap) + 1 /\ data' = Len(heap) + 1
        /\ stack' \in Seq(Frames(Len(heap) + 1))
    BY <1>13, RehashDataFacts
  <2>2. reader \in [Readers -> ReaderTypes(Len(heap) + 1)]
    <3>1. 0..Len(heap) \subseteq 0..(Len(heap) + 1)
      BY <1>1
    <3>2. ReaderTypes(Len(heap)) \subseteq ReaderTypes(Len(heap) + 1)
      BY <3>1 DEF ReaderTypes
    <3> QED
      BY <1>4, <3>2
  <2>3. pc' \in HolderSteps
    BY <1>13 DEF RehashData, Goto, HolderSteps
  <2>4. UNCHANGED <<table_size, size, index, reader>>
    BY <1>13 DEF RehashData
  <2>5. data' \in 1..Len(heap')
    BY <1>1, <2>1
  <2> QED
    BY <1>2, <2>1, <2>2, <2>3, <2>4, <2>5, TypeFrom
<1>14. CASE RehashSize
  <2>1. /\ 2 * table_size \in Nat \ {0}
        /\ index \in 0..(2 * table_size)
        /\ 0..(2 * table_size) \subseteq 0..(2 * (2 * table_size))
    BY <1>2
  <2>2. Arrays(2 * table_size) \subseteq Arrays(2 * (2 * table_size))
    BY <2>1 DEF Arrays
  <2>3. heap \in Seq(Arrays(2 * (2 * table_size)))
    BY <1>1, <2>2, SeqMonotonic
  <2>4. pc' \in HolderSteps
    BY <1>14 DEF RehashSize, Goto, HolderSteps
  <2>5. /\ UNCHANGED <<heap, data, size, stack, index, reader>>
        /\ table_size' = 2 * table_size
    BY <1>14 DEF RehashSize
  <2> QED
    BY <1>1, <1>2, <1>3, <1>4, <2>1, <2>3, <2>4, <2>5, TypeFrom
<1>15. CASE RehashReset
  <2>1. pc' \in HolderSteps
    BY <1>15 DEF RehashReset, Goto, HolderSteps
  <2>2. /\ UNCHANGED <<heap, data, table_size, stack, index, reader>>
        /\ size' = 0
    BY <1>15 DEF RehashReset
  <2>3. 0 \in 0..Cardinality(Keys)
    BY <1>5
  <2> QED
    BY <1>1, <1>2, <1>3, <1>4, <2>1, <2>2, <2>3, TypeFrom
<1>16. CASE RehashMove
  <2>1. stack' \in Seq(Frames(Len(heap)))
    BY <1>16, RehashMoveFacts
  <2>2. pc' \in HolderSteps
    BY <1>16 DEF RehashMove, Goto, HolderSteps
  <2>3. UNCHANGED <<heap, data, table_size, size, index, reader>>
    BY <1>16 DEF RehashMove
  <2> QED
    BY <1>1, <1>2, <1>4, <2>1, <2>2, <2>3, TypeFrom
<1>17. CASE RehashFree
  <2>1. /\ heap' \in Seq(Arrays(2 * table_size)) /\ Len(heap') = Len(heap)
        /\ stack' \in Seq(Frames(Len(heap)))
    BY <1>17, RehashFreeFacts
  <2>2. pc' \in HolderSteps
    BY <1>17 DEF RehashFree, Goto, HolderSteps
  <2>3. UNCHANGED <<data, table_size, size, index, reader>>
    BY <1>17 DEF RehashFree
  <2> QED
    BY <1>1, <1>2, <1>4, <2>1, <2>2, <2>3, TypeFrom
<1>18. CASE RemoveCount
  <2>1. pc = "uncount"
    BY <1>18 DEF RemoveCount, Goto
  <2>2. Cardinality(Used) + 1 = size /\ Cardinality(Used) \in Nat
    BY <2>1, UsedFacts DEF SizeInv
  <2>3. size - 1 \in 0..Cardinality(Keys)
    BY <1>2, <1>5, <2>2
  <2>4. pc' \in HolderSteps
    BY <1>18 DEF RemoveCount, Goto, HolderSteps
  <2>5. /\ UNCHANGED <<heap, data, table_size, stack, reader>>
        /\ size' = size - 1 /\ index' = 0
    BY <1>18 DEF RemoveCount
  <2> QED
    BY <1>1, <1>2, <1>3, <1>4, <2>3, <2>4, <2>5, TypeFrom
<1> QED
  BY <1>6, <1>7, <1>8, <1>9, <1>10, <1>11, <1>12, <1>13, <1>14, <1>15,
     <1>16, <1>17, <1>18 DEF Next, HolderStep, Rest

-----------------------------------------------------------------------------
(* The table, and the calls on the stack.                                  *)

(* The conjuncts of ShapeInv about the stack.                              *)
StackShape ==
  /\ stack = <<>> <=> pc \in {"idle", "blank", "blank data", "blank key",
                             "uncount"}
  /\ stack # <<>> => (Top.old # 0 <=> pc \in {"double", "reset", "move"})
  /\ \A d \in DOMAIN stack : d < Depth => stack[d].old # 0
  /\ \A d \in DOMAIN stack : stack[d].old < data
  /\ \A d, e \in DOMAIN stack :
       stack[d].old # 0 /\ stack[d].old = stack[e].old => d = e

(* Where the old arrays of the pending rehashes are.                       *)
LEMMA OldFacts ==
  ASSUME TypeOK, ShapeInv
  PROVE  /\ \A d \in 1..Depth : /\ d # Depth => stack[d].old # 0
                                /\ stack[d].old < data
                                /\ stack[d].old \in Nat
                                /\ stack[d].old # data
                                /\ stack[d].old # 0 =>
                                     stack[d].old \in DOMAIN heap
         /\ \A d, e \in 1..Depth :
              stack[d].old # 0 /\ stack[d].old = stack[e].old => d = e
<1>1. /\ Depth \in Nat /\ DOMAIN stack = 1..Depth
      /\ \A d \in 1..Depth : stack[d] \in Frames(Len(heap))
  BY StackFacts
<1>2. /\ Len(heap) \in Nat /\ DOMAIN heap = 1..Len(heap)
      /\ data \in Nat
  BY HeapFacts
<1>3. ASSUME NEW d \in 1..Depth
      PROVE  /\ d # Depth => stack[d].old # 0
             /\ stack[d].old < data
             /\ stack[d].old \in Nat
             /\ stack[d].old # data
             /\ stack[d].old # 0 => stack[d].old \in DOMAIN heap
  <2>1. d \in DOMAIN stack /\ (d # Depth => d < Depth)
    BY <1>1
  <2>2. (d # Depth => stack[d].old # 0) /\ stack[d].old < data
    BY <2>1 DEF ShapeInv
  <2>3. stack[d].old \in 0..Len(heap)
    BY <1>1 DEF Frames
  <2> QED
    BY <1>2, <2>2, <2>3
<1>4. \A d, e \in 1..Depth :
        stack[d].old # 0 /\ stack[d].old = stack[e].old => d = e
  BY <1>1 DEF ShapeInv
<1> QED
  BY <1>3, <1>4

(* Every step keeps the shape.                                             *)
LEMMA ShapeStep ==
  ASSUME IInv, [Next]_vars
  PROVE  ShapeInv'
<1> USE DEF IInv
<1>1. /\ Len(heap) \in Nat /\ data \in DOMAIN heap
      /\ DOMAIN heap = 1..Len(heap)
      /\ data = Len(heap) /\ data \in Nat
      /\ table_size \in Nat \ {0}
      /\ DOMAIN slots =
           0..((IF pc = "double" THEN 2 * table_size ELSE table_size) - 1)
  BY HeapFacts DEF ShapeInv, TypeOK
<1>2. /\ Depth \in Nat /\ DOMAIN stack = 1..Depth
      /\ \A d \in 1..Depth : stack[d] \in Frames(Len(heap))
      /\ stack = <<>> <=> Depth = 0
      /\ stack # <<>> => Depth \in 1..Depth /\ Top = stack[Depth]
  BY StackFacts
<1>3. /\ StackShape
      /\ \A d \in 1..Depth : /\ d # Depth => stack[d].old # 0
                             /\ stack[d].old < data
                             /\ stack[d].old \in Nat
      /\ \A d, e \in 1..Depth :
           stack[d].old # 0 /\ stack[d].old = stack[e].old => d = e
  BY OldFacts DEF ShapeInv, StackShape
<1>4. /\ data' = Len(heap')
      /\ DOMAIN slots' =
           0..((IF pc' = "double" THEN 2 * table_size' ELSE table_size') - 1)
      /\ StackShape'
      => ShapeInv'
  BY DEF ShapeInv, StackShape, slots
<1>5. CASE UNCHANGED <<heap, data, table_size, pc, stack>>
  BY <1>5 DEF ShapeInv, slots, Top, Depth
<1>6. ASSUME UNCHANGED stack, data' = data,
             (pc \in {"idle", "blank", "blank data", "blank key", "uncount"})
               <=> (pc' \in {"idle", "blank", "blank data", "blank key",
                             "uncount"}),
             (pc \in {"double", "reset", "move"})
               <=> (pc' \in {"double", "reset", "move"})
      PROVE  StackShape'
  BY <1>3, <1>6 DEF StackShape, Top, Depth
<1>7. CASE \/ PutHash \/ RemoveCount
           \/ \E k \in Keys : RemoveCall(k)
  <2>1. /\ UNCHANGED <<heap, data, table_size, stack>>
        /\ pc # "double" /\ pc' # "double"
    BY <1>7 DEF PutHash, RemoveCount, RemoveCall, Goto
  <2>2. StackShape'
    BY <1>6, <1>7, <2>1 DEF PutHash, RemoveCount, RemoveCall, Goto
  <2> QED
    BY <1>1, <1>4, <2>1, <2>2 DEF slots
<1>8. CASE PutData \/ PutKey \/ PutInUse \/ RemoveInUse \/ RemoveData
           \/ RemoveKey
  <2>1. /\ UNCHANGED <<data, table_size, stack>>
        /\ pc # "double" /\ pc' # "double"
    BY <1>8 DEF PutData, PutKey, PutInUse, RemoveInUse, RemoveData, RemoveKey,
                Goto
  <2>2. StackShape'
    BY <1>6, <1>8, <2>1 DEF PutData, PutKey, PutInUse, RemoveInUse, RemoveData,
                            RemoveKey, Goto
  <2>3. \E t : Written(index, t)
    <3>1. CASE PutData \/ PutKey \/ PutInUse
      BY <3>1, PutWrites
    <3>2. CASE RemoveInUse \/ RemoveData \/ RemoveKey
      <4>1. pc \in {"blank", "blank data", "blank key"}
        BY <3>2 DEF RemoveInUse, RemoveData, RemoveKey, Goto
      <4> QED
        BY <3>2, <4>1, RemoveWrites
    <3> QED
      BY <1>8, <3>1, <3>2
  <2>4. Len(heap') = Len(heap) /\ DOMAIN heap'[data] = DOMAIN heap[data]
    BY <1>1, <2>3 DEF Written
  <2> QED
    BY <1>1, <1>4, <2>1, <2>2, <2>4 DEF slots
<1>9. ASSUME NEW k \in Keys, NEW x \in Elements[k], PutCall(k, x)
      PROVE  ShapeInv'
  <2>1. /\ Len(stack') = 1 /\ stack' # <<>> /\ stack'[1].old = 0
        /\ stack' \in Seq(Frames(Len(heap)))
    <3>1. stack'[1] = [key |-> k, data |-> x, old |-> 0, next |-> 0]
      BY <1>9, CallFacts
    <3>2. stack'[1].old = 0
      BY <3>1
    <3> QED
      BY <1>9, <3>2, CallFacts
  <2>2. DOMAIN stack' = {1}
    BY <2>1, LenProperties
  <2>3. /\ UNCHANGED <<heap, data, table_size>> /\ pc' = "hash" /\ pc = "idle"
    BY <1>9 DEF PutCall, Goto
  <2>4. StackShape'
    BY <1>1, <2>1, <2>2, <2>3 DEF StackShape, Top, Depth
  <2> QED
    BY <1>1, <1>4, <2>3, <2>4 DEF slots
<1>10. CASE PutCount
  <2>1. /\ UNCHANGED <<heap, data, table_size>> /\ pc = "count"
        /\ pc' \in {"idle", "move"}
    BY <1>10 DEF PutCount, Goto
  <2>2. /\ Depth = 1 => stack' = <<>> /\ pc' = "idle"
        /\ Depth # 1 =>
             /\ pc' = "move" /\ Len(stack') = Depth - 1 /\ stack' # <<>>
             /\ Depth - 1 \in 1..Depth
             /\ \A d \in 1..(Depth - 1) : stack'[d].old = stack[d].old
        /\ stack' \in Seq(Frames(Len(heap)))
        /\ Depth \in 1..Depth
    <3>1. Depth # 1 => stack'[Depth - 1].old = stack[Depth - 1].old
      BY <1>10, CountFacts
    <3> QED
      BY <1>10, <3>1, CountFacts
  <2>3. DOMAIN stack' = 1..Len(stack')
    BY <2>2, LenProperties
  <2>4. ASSUME Depth = 1
        PROVE  StackShape'
    <3>1. DOMAIN stack' = {}
      BY <2>2, <2>4
    <3> QED
      BY <2>2, <2>4, <3>1 DEF StackShape
  <2>5. ASSUME Depth # 1
        PROVE  StackShape'
    <3>1. /\ DOMAIN stack' = 1..(Depth - 1) /\ Depth' = Depth - 1
          /\ Top' = stack'[Depth - 1]
      BY <1>2, <2>2, <2>3, <2>5 DEF Depth, Top
    <3>2. \A d \in 1..(Depth - 1) :
            /\ d \in 1..Depth
            /\ stack[d].old # 0 /\ stack[d].old < data
      BY <1>2, <1>3
    <3>3. Top'.old # 0
      BY <2>2, <2>5, <3>1, <3>2
    <3>4. \A d, e \in DOMAIN stack' :
            stack'[d].old # 0 /\ stack'[d].old = stack'[e].old => d = e
      BY <1>3, <2>2, <2>5, <3>1, <3>2
    <3> QED
      BY <2>1, <2>2, <2>5, <3>1, <3>2, <3>3, <3>4 DEF StackShape
  <2> QED
    BY <1>1, <1>4, <2>1, <2>4, <2>5 DEF slots
<1>11. CASE RehashData
  <2>1. /\ stack # <<>>
        /\ Len(heap') = Len(heap) + 1 /\ data' = Len(heap) + 1
        /\ heap'[Len(heap) + 1] = Table(2 * table_size)
        /\ Len(stack') = Depth /\ stack' # <<>>
        /\ stack'[Depth].old = data
        /\ \A d \in 1..Depth : d # Depth => stack'[d] = stack[d]
        /\ stack' \in Seq(Frames(Len(heap) + 1))
    BY <1>11, RehashDataFacts DEF TopBecomes
  <2>2. pc = "hash" /\ pc' = "double" /\ table_size' = table_size
    BY <1>11 DEF RehashData, Goto
  <2>3. DOMAIN slots' = 0..(2 * table_size - 1)
    BY <2>1 DEF slots, Table
  <2>4. DOMAIN stack' = 1..Depth
    BY <2>1, LenProperties
  <2>5. StackShape'
    <3>1. Depth' = Depth /\ Top'.old = data /\ data # 0 /\ data < data'
      BY <1>1, <2>1 DEF Depth, Top
    <3>2. \A d \in 1..Depth : d # Depth =>
            /\ stack'[d].old = stack[d].old
            /\ stack[d].old < data /\ stack[d].old \in Nat
            /\ d < Depth => stack[d].old # 0
      BY <1>3, <2>1
    <3>3. \A d \in DOMAIN stack' : stack'[d].old < data'
      BY <1>1, <1>2, <2>1, <2>4, <3>1, <3>2
    <3>4. \A d \in DOMAIN stack' : d < Depth' => stack'[d].old # 0
      BY <1>2, <2>4, <3>1, <3>2
    <3>5. \A d, e \in DOMAIN stack' :
            stack'[d].old # 0 /\ stack'[d].old = stack'[e].old => d = e
      <4> SUFFICES ASSUME NEW d \in 1..Depth, NEW e \in 1..Depth,
                          stack'[d].old # 0, stack'[d].old = stack'[e].old
                   PROVE  d = e
        BY <2>4
      <4>1. CASE d # Depth /\ e # Depth
        BY <1>3, <2>1, <4>1
      <4>2. CASE d = Depth \/ e = Depth
        BY <1>1, <2>1, <3>2, <4>2
      <4> QED
        BY <4>1, <4>2
    <3> QED
      BY <2>1, <2>2, <3>1, <3>3, <3>4, <3>5 DEF StackShape
  <2> QED
    BY <1>4, <2>1, <2>2, <2>3, <2>5
<1>12. CASE RehashSize
  <2>1. /\ UNCHANGED <<heap, data, stack>> /\ table_size' = 2 * table_size
        /\ pc = "double" /\ pc' = "reset"
    BY <1>12 DEF RehashSize, Goto
  <2>2. StackShape'
    BY <1>6, <2>1
  <2> QED
    BY <1>1, <1>4, <2>1, <2>2 DEF slots
<1>13. CASE RehashReset
  <2>1. /\ UNCHANGED <<heap, data, stack, table_size>>
        /\ pc = "reset" /\ pc' = "move"
    BY <1>13 DEF RehashReset, Goto
  <2>2. StackShape'
    BY <1>6, <2>1
  <2> QED
    BY <1>1, <1>4, <2>1, <2>2 DEF slots
<1>14. CASE RehashMove
  <2>1. /\ UNCHANGED <<heap, data, table_size>>
        /\ pc = "move" /\ pc' = "hash"
    BY <1>14 DEF RehashMove, Goto
  <2>2. /\ stack # <<>> /\ Top.old # 0
        /\ Len(stack') = Depth + 1 /\ stack' # <<>>
        /\ \A d \in 1..Depth : d # Depth => stack'[d] = stack[d]
        /\ stack'[Depth].old = Top.old
        /\ stack'[Depth + 1].old = 0
        /\ stack' \in Seq(Frames(Len(heap)))
    <3>1. PICK j \in Left(Top) :
            /\ Len(stack') = Depth + 1 /\ stack' # <<>>
            /\ \A d \in 1..Depth : d # Depth => stack'[d] = stack[d]
            /\ stack'[Depth] = [key |-> Top.key, data |-> Top.data,
                                old |-> Top.old, next |-> j]
            /\ stack'[Depth + 1] = [key |-> heap[Top.old][j].key,
                                    data |-> heap[Top.old][j].data,
                                    old |-> 0, next |-> 0]
            /\ stack' \in Seq(Frames(Len(heap)))
      BY <1>14, RehashMoveFacts
    <3>2. stack'[Depth].old = Top.old /\ stack'[Depth + 1].old = 0
      BY <3>1
    <3> QED
      BY <1>14, <3>1, <3>2, RehashMoveFacts
  <2>3. DOMAIN stack' = 1..(Depth + 1) /\ Depth' = Depth + 1
    BY <2>2, LenProperties DEF Depth
  <2>4. \A d \in 1..Depth : stack'[d].old = stack[d].old
    BY <1>2, <2>2
  <2>5. \A d \in 1..Depth : stack[d].old # 0 /\ stack[d].old < data
    BY <1>2, <1>3, <2>2
  <2>6. Top'.old = 0
    BY <2>2, <2>3 DEF Top, Depth
  <2>7. \A d \in DOMAIN stack' : d < Depth' => stack'[d].old # 0
    BY <1>2, <2>3, <2>4, <2>5
  <2>8. \A d \in DOMAIN stack' : stack'[d].old < data'
    BY <1>1, <1>2, <2>1, <2>2, <2>3, <2>4, <2>5
  <2>9. \A d, e \in DOMAIN stack' :
          stack'[d].old # 0 /\ stack'[d].old = stack'[e].old => d = e
    <3> SUFFICES ASSUME NEW d \in 1..(Depth + 1), NEW e \in 1..(Depth + 1),
                        stack'[d].old # 0, stack'[d].old = stack'[e].old
                 PROVE  d = e
      BY <2>3
    <3>1. d \in 1..Depth /\ e \in 1..Depth
      BY <1>2, <2>2
    <3> QED
      BY <1>3, <2>4, <3>1
  <2>10. StackShape'
    BY <2>1, <2>2, <2>6, <2>7, <2>8, <2>9 DEF StackShape
  <2> QED
    BY <1>1, <1>4, <2>1, <2>10 DEF slots
<1>15. CASE RehashFree
  <2>1. /\ stack # <<>> /\ Top.old # data
        /\ Len(heap') = Len(heap)
        /\ \A a \in DOMAIN heap :
             heap'[a] = IF a = Top.old THEN Freed ELSE heap[a]
        /\ Len(stack') = Depth /\ stack' # <<>>
        /\ stack'[Depth].old = 0
        /\ \A d \in 1..Depth : d # Depth => stack'[d] = stack[d]
        /\ stack' \in Seq(Frames(Len(heap)))
    BY <1>15, RehashFreeFacts DEF TopBecomes
  <2>2. UNCHANGED <<data, table_size>> /\ pc = "move" /\ pc' = "hash"
    BY <1>15 DEF RehashFree, Goto
  <2>3. DOMAIN slots' = DOMAIN slots
    BY <1>1, <2>1, <2>2 DEF slots
  <2>4. DOMAIN stack' = 1..Depth
    BY <2>1, LenProperties
  <2>5. StackShape'
    <3>1. Depth' = Depth /\ Top'.old = 0
      BY <2>1 DEF Depth, Top
    <3>2. \A d \in 1..Depth : d # Depth =>
            /\ stack'[d].old = stack[d].old
            /\ stack[d].old < data
            /\ d < Depth => stack[d].old # 0
      BY <1>3, <2>1
    <3>3. \A d \in DOMAIN stack' : stack'[d].old < data'
      BY <1>1, <2>1, <2>2, <2>4, <3>2
    <3>4. \A d \in DOMAIN stack' : d < Depth' => stack'[d].old # 0
      BY <1>2, <2>4, <3>1, <3>2
    <3>5. \A d, e \in DOMAIN stack' :
            stack'[d].old # 0 /\ stack'[d].old = stack'[e].old => d = e
      BY <1>3, <2>1, <2>4
    <3> QED
      BY <2>1, <2>2, <3>1, <3>3, <3>4, <3>5 DEF StackShape
  <2> QED
    BY <1>1, <1>4, <2>1, <2>2, <2>3, <2>5
<1>16. ASSUME NEW r \in Readers,
              ReaderStep(r) \/ \E k \in Sought : GetCall(r, k)
       PROVE  ShapeInv'
  BY <1>5, <1>16, ReaderOnly
<1> QED
  BY <1>5, <1>7, <1>8, <1>9, <1>10, <1>11, <1>12, <1>13, <1>14, <1>15, <1>16
  DEF Next, HolderStep, Rest, vars

-----------------------------------------------------------------------------
(* Puts, moves and removes.                                                *)

(* While the put of a rehash is carried out, the slot it moves is still    *)
(* the one that holds its name.                                            *)
LEMMA MovedIsLive ==
  ASSUME TypeOK, ShapeInv, MoveInv, NEW d \in 2..Depth,
         ~(pc = "count" /\ d = Depth)
  PROVE  /\ Live(stack[d - 1].old, stack[d - 1].next)
         /\ stack[d - 1].old \in DOMAIN heap
         /\ stack[d - 1].next \in DOMAIN heap[stack[d - 1].old]
         /\ heap[stack[d - 1].old][stack[d - 1].next].key = stack[d].key
         /\ heap[stack[d - 1].old][stack[d - 1].next].data = stack[d].data
         /\ stack[d - 1].old # data
<1>1. /\ Depth \in Nat /\ DOMAIN stack = 1..Depth
      /\ \A e \in 1..Depth : stack[e] \in Frames(Len(heap))
  BY StackFacts
<1>2. PICK e \in 1..Depth : e = d - 1 /\ e # Depth
  BY <1>1
<1>3. /\ stack[e].old # 0 /\ stack[e].old \in DOMAIN heap
      /\ stack[e].old # data
  BY <1>2, OldFacts
<1>4. /\ stack[e].next \in DOMAIN heap[stack[e].old]
      /\ heap[stack[e].old][stack[e].next] =
           [in_use |-> 1, key |-> stack[d].key, data |-> stack[d].data]
  <2>1. d \in DOMAIN stack \ {1}
    BY <1>1
  <2> QED
    BY <1>2, <2>1 DEF MoveInv
<1>5. MovedTo(e) = stack[e].next
  BY <1>1, <1>2 DEF MovedTo
<1>6. stack[e].next \in Nat
  BY <1>1 DEF Frames
<1> QED
  BY <1>1, <1>2, <1>3, <1>4, <1>5, <1>6 DEF Live

(* The name that is being put is not in the table.                         *)
LEMMA TopAbsent ==
  ASSUME IInv, stack # <<>>, pc # "count"
  PROVE  \A c \in Used : slots[c].key # Top.key
<1> USE DEF IInv
<1> SUFFICES ASSUME NEW c \in Used, slots[c].key = Top.key
             PROVE  FALSE
  OBVIOUS
<1>1. /\ Depth \in Nat /\ Depth # 0 /\ Top = stack[Depth]
  BY StackFacts
<1>2. Live(data, c) /\ data \in DOMAIN heap /\ c \in DOMAIN heap[data]
  BY UsedFacts DEF Used, slots, TypeOK
<1>3. CASE Depth = 1
  BY <1>1, <1>2, <1>3 DEF LiveInv, slots
<1>4. CASE Depth # 1
  <2>1. Depth \in 2..Depth
    BY <1>1, <1>4
  <2>2. PICK a, e :
          /\ a \in DOMAIN heap /\ e \in DOMAIN heap[a]
          /\ Live(a, e) /\ a # data
          /\ heap[a][e].key = Top.key
    BY <1>1, <2>1, MovedIsLive
  <2> QED
    BY <1>2, <2>2 DEF LiveInv, slots
<1> QED
  BY <1>3, <1>4

(* hashmap_get misses the names that are not in the table, and no other.   *)
LEMMA LookupAbsent ==
  ASSUME TypeOK, ShapeInv, ChainInv, pc # "double", NEW k \in Keys
  PROVE  Lookup(k) = NotFound <=> \A c \in Used : slots[c].key # k
<1>1. table_size \in Nat \ {0}
  BY DEF TypeOK
<1>2. ASSUME Lookup(k) = NotFound, NEW c \in Used, slots[c].key = k
      PROVE  FALSE
  <2>1. PICK j \in 1..MaxChain : c = Chain(k)[j]
    BY <1>2 DEF ChainInv, InChain
  <2>2. Holds(Chain(k)[j], k)
    BY <1>2, <2>1 DEF Holds, Used
  <2>3. Lookup(k) \notin 0..(table_size - 1)
    BY <1>1, <1>2 DEF NotFound
  <2> QED
    BY <1>1, <2>2, <2>3, LookupFinds
<1>3. ASSUME Lookup(k) # NotFound
      PROVE  Lookup(k) \in Used /\ slots[Lookup(k)].key = k
  <2>1. Lookup(k) \in 0..(table_size - 1) /\ Holds(Lookup(k), k)
    BY <1>1, <1>3, LookupFinds
  <2> QED
    BY <2>1 DEF Holds, Used, ShapeInv
<1> QED
  BY <1>2, <1>3

(* Every step keeps what is known of the slot at index.                    *)
LEMMA SlotStep ==
  ASSUME IInv, [Next]_vars
  PROVE  SlotInv'
<1> USE DEF IInv
<1>1. /\ data \in DOMAIN heap /\ table_size \in Nat \ {0}
  BY DEF TypeOK
<1>2. CASE UNCHANGED <<heap, data, table_size, pc, stack, index>>
  BY <1>2 DEF SlotInv, slots, Top, InChain, Chain
<1>3. CASE pc' \in {"idle", "hash", "double", "reset", "move", "uncount"}
  BY <1>3 DEF SlotInv
<1>4. ASSUME NEW k \in Keys, RemoveCall(k)
      PROVE  SlotInv'
  <2>1. /\ UNCHANGED <<heap, data>> /\ pc = "idle" /\ pc' = "blank"
        /\ index' = Lookup(k) /\ Lookup(k) # NotFound
    BY <1>4 DEF RemoveCall, Goto
  <2>2. Lookup(k) \in 0..(table_size - 1) /\ Holds(Lookup(k), k)
    BY <1>1, <2>1, LookupFinds
  <2>3. Lookup(k) \in DOMAIN slots
    BY <2>1, <2>2 DEF ShapeInv
  <2> QED
    BY <2>1, <2>2, <2>3 DEF SlotInv, slots, Holds
<1>5. CASE PutHash
  <2>1. /\ UNCHANGED <<heap, data, table_size, stack>>
        /\ pc = "hash" /\ pc' = "data"
        /\ index' = HashmapHash(Top.key) /\ HashmapHash(Top.key) # MapFull
    BY <1>5 DEF PutHash, Goto
  <2>2. stack # <<>>
    BY <2>1 DEF ShapeInv
  <2>3. Top.key \in Keys
    BY <2>2, StackFacts DEF Frames
  <2>4. PICK c : c = HashmapHash(Top.key)
    OBVIOUS
  <2>5. /\ c \in 0..(table_size - 1) /\ InChain(c, Top.key)
        /\ slots[c].in_use = 0 \/ Holds(c, Top.key)
    BY <1>1, <2>1, <2>3, <2>4, HashFinds
  <2>6. c \in DOMAIN slots
    BY <2>1, <2>5 DEF ShapeInv
  <2>7. ~Holds(c, Top.key)
    BY <2>1, <2>2, <2>6, TopAbsent DEF Holds, Used
  <2> QED
    BY <2>1, <2>4, <2>5, <2>6, <2>7 DEF SlotInv, slots, Top, InChain, Chain
<1>6. CASE PutData
  <2>1. /\ UNCHANGED <<data, table_size, stack, index>>
        /\ pc = "data" /\ pc' = "key"
    BY <1>6 DEF PutData, Goto
  <2>2. /\ index \in DOMAIN slots /\ InChain(index, Top.key)
    BY <2>1 DEF SlotInv
  <2>3. /\ DOMAIN slots' = DOMAIN slots
        /\ slots'[index] = [in_use |-> 0, key |-> slots[index].key,
                            data |-> Top.data]
    BY <1>1, <1>6, <2>1, <2>2, PutWrites DEF Written, slots
  <2> QED
    BY <2>1, <2>2, <2>3 DEF SlotInv, Top, InChain, Chain
<1>7. CASE PutKey
  <2>1. /\ UNCHANGED <<data, table_size, stack, index>>
        /\ pc = "key" /\ pc' = "in_use"
    BY <1>7 DEF PutKey, Goto
  <2>2. /\ index \in DOMAIN slots /\ InChain(index, Top.key)
    BY <2>1 DEF SlotInv
  <2>3. /\ DOMAIN slots' = DOMAIN slots
        /\ slots'[index] = [in_use |-> 0, key |-> Top.key, data |-> Top.data]
    BY <1>1, <1>7, <2>1, <2>2, PutWrites DEF Written, slots
  <2> QED
    BY <2>1, <2>2, <2>3 DEF SlotInv, Top, InChain, Chain
<1>8. CASE PutInUse
  <2>1. /\ UNCHANGED <<data, table_size, stack, index>>
        /\ pc = "in_use" /\ pc' = "count"
    BY <1>8 DEF PutInUse, Goto
  <2>2. index \in DOMAIN slots
    BY <2>1 DEF SlotInv
  <2>3. /\ DOMAIN slots' = DOMAIN slots
        /\ slots'[index] = [in_use |-> 1, key |-> Top.key, data |-> Top.data]
    BY <1>1, <1>8, <2>1, <2>2, PutWrites DEF Written, slots
  <2> QED
    BY <2>1, <2>2, <2>3 DEF SlotInv, Top
<1>9. CASE RemoveInUse
  <2>1. /\ UNCHANGED <<data, index>> /\ pc = "blank" /\ pc' = "blank data"
    BY <1>9 DEF RemoveInUse, Goto
  <2>2. index \in DOMAIN slots
    BY <2>1 DEF SlotInv
  <2>3. /\ DOMAIN slots' = DOMAIN slots
        /\ slots'[index] = [in_use |-> 0, key |-> slots[index].key,
                            data |-> slots[index].data]
    BY <1>1, <1>9, <2>1, <2>2, RemoveWrites DEF Written, slots
  <2>4. slots'[index].in_use = 0
    BY <2>3
  <2> QED
    BY <2>1, <2>2, <2>3, <2>4 DEF SlotInv
<1>10. CASE RemoveData
  <2>1. /\ UNCHANGED <<data, index>>
        /\ pc = "blank data" /\ pc' = "blank key"
    BY <1>10 DEF RemoveData, Goto
  <2>2. index \in DOMAIN slots
    BY <2>1 DEF SlotInv
  <2>3. /\ DOMAIN slots' = DOMAIN slots
        /\ slots'[index] = [in_use |-> 0, key |-> slots[index].key,
                            data |-> NULL]
    BY <1>1, <1>10, <2>1, <2>2, RemoveWrites DEF Written, slots
  <2>4. slots'[index].in_use = 0
    BY <2>3
  <2> QED
    BY <2>1, <2>2, <2>3, <2>4 DEF SlotInv
<1>11. ASSUME NEW r \in Readers,
              ReaderStep(r) \/ \E k \in Sought : GetCall(r, k)
       PROVE  SlotInv'
  BY <1>2, <1>11, ReaderOnly
<1>12. ASSUME \/ \E k \in Keys : \E x \in Elements[k] : PutCall(k, x)
              \/ PutCount \/ RehashData \/ RehashSize \/ RehashReset
              \/ RehashMove \/ RehashFree \/ RemoveKey \/ RemoveCount
       PROVE  pc' \in {"idle", "hash", "double", "reset", "move", "uncount"}
  BY <1>12 DEF PutCall, PutCount, RehashData, RehashSize, RehashReset,
     RehashMove, RehashFree, RemoveKey, RemoveCount, Goto
<1> QED
  BY <1>2, <1>3, <1>4, <1>5, <1>6, <1>7, <1>8, <1>9, <1>10, <1>11, <1>12
  DEF Next, HolderStep, Rest, vars

(* What each step does to a move: the old arrays are not written, and the  *)
(* pending moves stay where they are.                                      *)
LEMMA MoveStep ==
  ASSUME IInv, [Next]_vars
  PROVE  MoveInv'
<1> USE DEF IInv
<1>1. /\ Depth \in Nat /\ DOMAIN stack = 1..Depth
      /\ stack = <<>> <=> Depth = 0
      /\ stack # <<>> => Depth \in 1..Depth /\ Top = stack[Depth]
  BY StackFacts
<1>2. ASSUME NEW d \in 2..Depth
      PROVE  /\ d - 1 \in 1..Depth /\ d - 1 # Depth
             /\ stack[d - 1].old \in DOMAIN heap
             /\ stack[d - 1].old # data
             /\ stack[d - 1].next \in DOMAIN heap[stack[d - 1].old]
             /\ heap[stack[d - 1].old][stack[d - 1].next] =
                  [in_use |-> 1, key |-> stack[d].key, data |-> stack[d].data]
  <2>1. d - 1 \in 1..Depth /\ d - 1 # Depth /\ d \in DOMAIN stack \ {1}
    BY <1>1
  <2> QED
    BY <2>1, OldFacts DEF MoveInv
<1>3. ASSUME NEW n \in Nat, DOMAIN stack' = 1..n,
             \A d \in 2..n :
               /\ d \in 2..Depth
               /\ stack'[d - 1].old = stack[d - 1].old
               /\ stack'[d - 1].next = stack[d - 1].next
               /\ stack'[d].key = stack[d].key
               /\ stack'[d].data = stack[d].data
               /\ heap'[stack[d - 1].old] = heap[stack[d - 1].old]
      PROVE  MoveInv'
  <2> SUFFICES ASSUME NEW d \in (DOMAIN stack') \ {1}
               PROVE  /\ stack'[d - 1].next \in DOMAIN heap'[stack'[d - 1].old]
                      /\ heap'[stack'[d - 1].old][stack'[d - 1].next] =
                           [in_use |-> 1, key |-> stack'[d].key,
                            data |-> stack'[d].data]
    BY DEF MoveInv
  <2>1. d \in 2..n
    BY <1>3
  <2> QED
    BY <1>2, <1>3, <2>1
<1>4. ASSUME UNCHANGED stack,
             \A a \in DOMAIN heap : a # data => heap'[a] = heap[a]
      PROVE  MoveInv'
  BY <1>1, <1>2, <1>3, <1>4
<1>5. CASE UNCHANGED <<heap, stack>>
  BY <1>4, <1>5
<1>6. CASE PutData \/ PutKey \/ PutInUse \/ RemoveInUse \/ RemoveData
           \/ RemoveKey
  <2>1. \E t : Written(index, t)
    <3>1. CASE PutData \/ PutKey \/ PutInUse
      BY <3>1, PutWrites
    <3>2. CASE RemoveInUse \/ RemoveData \/ RemoveKey
      <4>1. pc \in {"blank", "blank data", "blank key"}
        BY <3>2 DEF RemoveInUse, RemoveData, RemoveKey, Goto
      <4> QED
        BY <3>2, <4>1, RemoveWrites
    <3> QED
      BY <1>6, <3>1, <3>2
  <2>2. UNCHANGED stack
    BY <1>6 DEF PutData, PutKey, PutInUse, RemoveInUse, RemoveData, RemoveKey
  <2> QED
    BY <1>4, <2>1, <2>2 DEF Written
<1>7. ASSUME NEW k \in Keys, NEW x \in Elements[k], PutCall(k, x)
      PROVE  MoveInv'
  <2>1. DOMAIN stack' = 1..1
    BY <1>7, CallFacts, LenProperties
  <2> QED
    BY <1>3, <2>1
<1>8. CASE PutCount
  <2>1. /\ stack # <<>>
        /\ Depth = 1 => stack' = <<>>
        /\ Depth # 1 =>
             /\ Len(stack') = Depth - 1 /\ Depth - 1 \in 1..Depth
             /\ \A d \in 1..(Depth - 1) :
                  d # Depth - 1 => stack'[d] = stack[d]
             /\ stack'[Depth - 1].key = stack[Depth - 1].key
             /\ stack'[Depth - 1].data = stack[Depth - 1].data
        /\ stack' \in Seq(Frames(Len(heap)))
    <3>1. Depth # 1 =>
            stack'[Depth - 1] = [key |-> stack[Depth - 1].key,
                                 data |-> stack[Depth - 1].data,
                                 old |-> stack[Depth - 1].old,
                                 next |-> stack[Depth - 1].next + 1]
      BY <1>8, CountFacts
    <3>2. Depth # 1 => /\ stack'[Depth - 1].key = stack[Depth - 1].key
                       /\ stack'[Depth - 1].data = stack[Depth - 1].data
      BY <3>1
    <3> QED
      BY <1>8, <3>2, CountFacts
  <2>2. UNCHANGED heap
    BY <1>8 DEF PutCount
  <2>3. CASE Depth = 1
    <3>1. DOMAIN stack' = 1..0
      BY <2>1, <2>3
    <3> QED
      BY <1>3, <3>1
  <2>4. CASE Depth # 1
    <3>1. DOMAIN stack' = 1..(Depth - 1) /\ Depth - 1 \in Nat
      BY <2>1, <2>4, LenProperties
    <3>2. \A d \in 2..(Depth - 1) :
            /\ d \in 2..Depth /\ d - 1 \in 1..(Depth - 1) /\ d - 1 # Depth - 1
            /\ d \in 1..(Depth - 1)
      BY <1>1
    <3> QED
      BY <1>3, <2>1, <2>2, <2>4, <3>1, <3>2
  <2> QED
    BY <2>3, <2>4
<1>9. CASE RehashData
  <2>1. /\ \A a \in DOMAIN heap : heap'[a] = heap[a]
        /\ Len(stack') = Depth
        /\ stack'[Depth] = [key |-> Top.key, data |-> Top.data, old |-> data,
                            next |-> 0]
        /\ \A d \in 1..Depth : d # Depth => stack'[d] = stack[d]
        /\ stack' \in Seq(Frames(Len(heap) + 1)) /\ stack # <<>>
    BY <1>9, RehashDataFacts DEF TopBecomes
  <2>2. DOMAIN stack' = 1..Depth
    BY <2>1, LenProperties
  <2>3. \A d \in 1..Depth : /\ stack'[d].key = stack[d].key
                            /\ stack'[d].data = stack[d].data
    BY <1>1, <2>1
  <2>4. ASSUME NEW d \in 2..Depth
        PROVE  /\ stack'[d - 1].old = stack[d - 1].old
               /\ stack'[d - 1].next = stack[d - 1].next
               /\ stack'[d].key = stack[d].key
               /\ stack'[d].data = stack[d].data
               /\ heap'[stack[d - 1].old] = heap[stack[d - 1].old]
    <3>1. d \in 1..Depth
      BY <1>1
    <3>2. stack'[d - 1] = stack[d - 1]
      BY <1>2, <2>1
    <3> QED
      BY <1>2, <2>1, <2>3, <3>1, <3>2
  <2> QED
    BY <1>1, <1>3, <2>2, <2>4
<1>10. CASE RehashMove
  <2>1. PICK j \in Left(Top) :
          /\ heap[Top.old][j] = [in_use |-> 1,
                                 key |-> heap[Top.old][j].key,
                                 data |-> heap[Top.old][j].data]
          /\ Len(stack') = Depth + 1
          /\ \A d \in 1..Depth : d # Depth => stack'[d] = stack[d]
          /\ stack'[Depth] = [key |-> Top.key, data |-> Top.data,
                              old |-> Top.old, next |-> j]
          /\ stack'[Depth + 1] = [key |-> heap[Top.old][j].key,
                                  data |-> heap[Top.old][j].data,
                                  old |-> 0, next |-> 0]
          /\ stack' \in Seq(Frames(Len(heap)))
    BY <1>10, RehashMoveFacts
  <2>2. stack # <<>>
    BY <1>10, RehashMoveFacts
  <2>3. DOMAIN stack' = 1..(Depth + 1)
    BY <2>1, LenProperties
  <2>4. UNCHANGED heap
    BY <1>10 DEF RehashMove
  <2>5. j \in DOMAIN heap[Top.old]
    BY DEF Left
  <2> SUFFICES ASSUME NEW d \in 2..(Depth + 1)
               PROVE  /\ stack'[d - 1].next \in DOMAIN heap'[stack'[d - 1].old]
                      /\ heap'[stack'[d - 1].old][stack'[d - 1].next] =
                           [in_use |-> 1, key |-> stack'[d].key,
                            data |-> stack'[d].data]
    BY <1>1, <2>3 DEF MoveInv
  <2>6. CASE d = Depth + 1
    <3>1. stack'[d - 1] = stack'[Depth]
      BY <1>1, <2>6
    <3>2. /\ stack'[d - 1].old = Top.old /\ stack'[d - 1].next = j
          /\ stack'[d].key = heap[Top.old][j].key
          /\ stack'[d].data = heap[Top.old][j].data
      BY <2>1, <2>6, <3>1
    <3> QED
      BY <2>1, <2>4, <2>5, <3>2
  <2>7. CASE d # Depth + 1
    <3>1. d \in 2..Depth /\ d \in 1..Depth
      BY <1>1, <2>7
    <3>2. stack'[d].key = stack[d].key /\ stack'[d].data = stack[d].data
      BY <1>1, <2>1, <2>2, <3>1
    <3>3. stack'[d - 1] = stack[d - 1]
      BY <1>2, <2>1, <3>1
    <3> QED
      BY <1>2, <2>4, <3>1, <3>2, <3>3
  <2> QED
    BY <2>6, <2>7
<1>11. CASE RehashFree
  <2>1. /\ stack # <<>> /\ Top.old # 0
        /\ \A a \in DOMAIN heap :
             heap'[a] = IF a = Top.old THEN Freed ELSE heap[a]
        /\ Len(stack') = Depth
        /\ stack'[Depth] = [key |-> Top.key, data |-> Top.data, old |-> 0,
                            next |-> 0]
        /\ \A d \in 1..Depth : d # Depth => stack'[d] = stack[d]
        /\ stack' \in Seq(Frames(Len(heap)))
    BY <1>11, RehashFreeFacts DEF TopBecomes
  <2>2. DOMAIN stack' = 1..Depth
    BY <2>1, LenProperties
  <2>3. \A d \in 1..Depth : /\ stack'[d].key = stack[d].key
                            /\ stack'[d].data = stack[d].data
    BY <1>1, <2>1
  <2>4. \A d \in 1..Depth : d # Depth => stack[d].old # Top.old
    BY <1>1, <2>1, OldFacts
  <2>5. ASSUME NEW d \in 2..Depth
        PROVE  /\ stack'[d - 1].old = stack[d - 1].old
               /\ stack'[d - 1].next = stack[d - 1].next
               /\ stack'[d].key = stack[d].key
               /\ stack'[d].data = stack[d].data
               /\ heap'[stack[d - 1].old] = heap[stack[d - 1].old]
    <3>1. d \in 1..Depth
      BY <1>1
    <3>2. stack'[d - 1] = stack[d - 1] /\ stack[d - 1].old # Top.old
      BY <1>2, <2>1, <2>4
    <3> QED
      BY <1>2, <2>1, <2>3, <3>1, <3>2
  <2> QED
    BY <1>1, <1>3, <2>2, <2>5
<1>12. ASSUME NEW r \in Readers,
              ReaderStep(r) \/ \E k \in Sought : GetCall(r, k)
       PROVE  MoveInv'
  BY <1>5, <1>12, ReaderOnly
<1>13. ASSUME \/ PutHash \/ RehashSize \/ RehashReset \/ RemoveCount
              \/ \E k \in Keys : RemoveCall(k)
       PROVE  UNCHANGED <<heap, stack>>
  BY <1>13 DEF PutHash, RehashSize, RehashReset, RemoveCount, RemoveCall
<1> QED
  BY <1>5, <1>6, <1>7, <1>8, <1>9, <1>10, <1>11, <1>12, <1>13
  DEF Next, HolderStep, Rest, vars

-----------------------------------------------------------------------------
(* The slots that hold the names of the map.                               *)

(* A step that leaves them and what they hold.                             *)
LiveKept ==
  \A a, c : /\ Live(a, c)' <=> Live(a, c)
            /\ Live(a, c) => /\ heap'[a][c].key = heap[a][c].key
                             /\ heap'[a][c].data = heap[a][c].data

(* All steps are of this kind but the two writes of in_use.                *)
LEMMA KeptStep ==
  ASSUME IInv, [Next]_vars, ~PutInUse, ~RemoveInUse
  PROVE  LiveKept
<1> USE DEF IInv
<1>1. /\ Depth \in Nat /\ DOMAIN stack = 1..Depth
      /\ \A d \in 1..Depth : stack[d] \in Frames(Len(heap))
      /\ stack = <<>> <=> Depth = 0
      /\ stack # <<>> => Depth \in 1..Depth /\ Top = stack[Depth]
  BY StackFacts
<1>2. /\ DOMAIN heap = 1..Len(heap) /\ Len(heap) \in Nat
      /\ data \in DOMAIN heap /\ data = Len(heap)
      /\ \A a \in DOMAIN heap : DOMAIN heap[a] \subseteq Nat
  BY HeapFacts DEF ShapeInv
<1>3. CASE /\ UNCHANGED <<heap, data, stack>>
           /\ (pc' = pc) \/ (pc # "count" /\ pc' # "count")
  BY <1>3 DEF LiveKept, Live, MovedTo, Depth
<1>4. CASE PutData \/ PutKey \/ RemoveData \/ RemoveKey
  <2>1. PICK t : Written(index, t) /\ t.in_use = 0
    <3>1. CASE PutData
      <4>1. PICK t : t = [in_use |-> 0, key |-> slots[index].key,
                          data |-> Top.data]
        OBVIOUS
      <4>2. Written(index, t)
        BY <3>1, <4>1, PutWrites
      <4>3. t.in_use = 0
        BY <4>1
      <4> QED
        BY <4>2, <4>3
    <3>2. CASE PutKey
      <4>1. PICK t : t = [in_use |-> 0, key |-> Top.key, data |-> Top.data]
        OBVIOUS
      <4>2. Written(index, t)
        BY <3>2, <4>1, PutWrites
      <4>3. t.in_use = 0
        BY <4>1
      <4> QED
        BY <4>2, <4>3
    <3>3. CASE RemoveData
      <4>1. PICK t : t = [in_use |-> 0, key |-> slots[index].key,
                          data |-> NULL]
        OBVIOUS
      <4>2. pc \in {"blank", "blank data", "blank key"}
        BY <3>3 DEF RemoveData, Goto
      <4>3. Written(index, t)
        BY <3>3, <4>1, <4>2, RemoveWrites
      <4>4. t.in_use = 0
        BY <4>1
      <4> QED
        BY <4>3, <4>4
    <3>4. CASE RemoveKey
      <4>1. PICK t : t = [in_use |-> 0, key |-> NULL,
                          data |-> slots[index].data]
        OBVIOUS
      <4>2. pc \in {"blank", "blank data", "blank key"}
        BY <3>4 DEF RemoveKey, Goto
      <4>3. Written(index, t)
        BY <3>4, <4>1, <4>2, RemoveWrites
      <4>4. t.in_use = 0
        BY <4>1
      <4> QED
        BY <4>3, <4>4
    <3> QED
      BY <1>4, <3>1, <3>2, <3>3, <3>4
  <2>2. /\ UNCHANGED <<data, stack>> /\ pc # "count" /\ pc' # "count"
        /\ index \in DOMAIN slots /\ slots[index].in_use = 0
    BY <1>4 DEF PutData, PutKey, RemoveData, RemoveKey, Goto, SlotInv
  <2>3. ASSUME NEW a, NEW c
        PROVE  /\ Live(a, c)' <=> Live(a, c)
               /\ Live(a, c) => heap'[a][c] = heap[a][c]
    <3>1. \A d : MovedTo(d)' = MovedTo(d)
      BY <2>2 DEF MovedTo
    <3>2. a \in DOMAIN heap /\ c \in DOMAIN heap[a] =>
            \/ heap'[a][c] = heap[a][c]
            \/ heap'[a][c].in_use = 0 /\ heap[a][c].in_use = 0
      BY <1>2, <2>1, <2>2 DEF Written, slots
    <3>3. /\ a \in DOMAIN heap' <=> a \in DOMAIN heap
          /\ a \in DOMAIN heap => DOMAIN heap'[a] = DOMAIN heap[a]
      BY <2>1 DEF Written
    <3> QED
      BY <2>2, <3>1, <3>2, <3>3 DEF Live
  <2> QED
    BY <2>3 DEF LiveKept
<1>5. ASSUME NEW k \in Keys, NEW x \in Elements[k], PutCall(k, x)
      PROVE  LiveKept
  <2>1. /\ stack = <<>> /\ stack' \in Seq(Frames(Len(heap))) /\ Len(stack') = 1
        /\ stack'[1] = [key |-> k, data |-> x, old |-> 0, next |-> 0]
    BY <1>5, CallFacts
  <2>2. DOMAIN stack = {} /\ DOMAIN stack' = {1} /\ stack'[1].old = 0
    BY <1>1, <2>1, LenProperties
  <2>3. UNCHANGED <<heap, data>>
    BY <1>5 DEF PutCall
  <2> QED
    BY <1>2, <2>2, <2>3 DEF LiveKept, Live
<1>6. CASE PutCount
  <2>1. /\ UNCHANGED <<heap, data>> /\ pc = "count" /\ pc' # "count"
        /\ stack # <<>>
    BY <1>6 DEF PutCount, Goto, ShapeInv
  <2>2. stack[Depth].old = 0 /\ Depth # 0
    BY <1>1, <2>1 DEF ShapeInv
  <2>3. ASSUME NEW a \in DOMAIN heap, NEW c \in DOMAIN heap[a]
        PROVE  (\E d \in DOMAIN stack' : stack'[d].old = a /\ MovedTo(d)' <= c)
               <=> (\E d \in DOMAIN stack :
                      stack[d].old = a /\ MovedTo(d) <= c)
    <3>1. CASE Depth = 1
      <4>1. DOMAIN stack' = {}
        BY <1>6, <3>1, CountFacts
      <4> QED
        BY <1>1, <1>2, <2>2, <3>1, <4>1
    <3>2. CASE Depth # 1
      <4>1. PICK e : e = Depth - 1
        OBVIOUS
      <4>2. /\ Len(stack') = e
            /\ \A d \in 1..e : d # e => stack'[d] = stack[d]
            /\ stack'[e] = [key |-> stack[e].key, data |-> stack[e].data,
                            old |-> stack[e].old, next |-> stack[e].next + 1]
            /\ stack' \in Seq(Frames(Len(heap)))
        BY <1>6, <3>2, <4>1, CountFacts
      <4>3. DOMAIN stack' = 1..e
        BY <4>2, LenProperties
      <4>4. /\ stack'[e].old = stack[e].old
            /\ stack'[e].next = stack[e].next + 1
        BY <4>2
      <4>5. ASSUME NEW d \in 1..e
            PROVE  /\ stack'[d].old = stack[d].old
                   /\ MovedTo(d)' = MovedTo(d)
        BY <2>1, <4>1, <4>2, <4>4 DEF MovedTo
      <4>6. \A d \in DOMAIN stack : d = Depth \/ d \in 1..e
        BY <1>1, <4>1
      <4>7. 1..e \subseteq DOMAIN stack
        BY <1>1, <4>1
      <4> QED
        BY <1>2, <2>2, <4>3, <4>5, <4>6, <4>7
    <3> QED
      BY <3>1, <3>2
  <2> QED
    BY <2>1, <2>3 DEF LiveKept, Live
<1>7. CASE RehashData
  <2>1. /\ stack # <<>> /\ data' = Len(heap) + 1
        /\ DOMAIN heap' = 1..(Len(heap) + 1)
        /\ \A a \in DOMAIN heap : heap'[a] = heap[a]
        /\ heap'[Len(heap) + 1] = Table(2 * table_size)
        /\ Len(stack') = Depth
        /\ stack'[Depth] = [key |-> Top.key, data |-> Top.data, old |-> data,
                            next |-> 0]
        /\ \A d \in 1..Depth : d # Depth => stack'[d] = stack[d]
        /\ stack' \in Seq(Frames(Len(heap) + 1))
    BY <1>7, RehashDataFacts DEF TopBecomes
  <2>2. pc # "count" /\ pc' # "count" /\ pc = "hash"
    BY <1>7 DEF RehashData, Goto
  <2>3. DOMAIN stack' = 1..Depth
    BY <2>1, LenProperties
  <2>4. stack[Depth].old = 0
    BY <1>1, <2>1, <2>2 DEF ShapeInv
  <2>5. stack'[Depth].old = data /\ stack'[Depth].next = 0
    BY <2>1
  <2>6. \A d : MovedTo(d) = stack[d].next /\ MovedTo(d)' = stack'[d].next
    BY <2>2 DEF MovedTo
  <2>7. ASSUME NEW c \in DOMAIN heap'[Len(heap) + 1]
        PROVE  heap'[Len(heap) + 1][c].in_use = 0
    BY <2>1, <2>7 DEF Table, EmptySlot
  <2>8. ASSUME NEW a \in DOMAIN heap, NEW c \in DOMAIN heap[a]
        PROVE  (\E d \in DOMAIN stack' :
                  stack'[d].old = a /\ stack'[d].next <= c)
               <=> a = data \/ \E d \in DOMAIN stack :
                                 stack[d].old = a /\ stack[d].next <= c
    <3>1. c \in Nat
      BY <1>2
    <3>2. CASE a = data
      BY <1>1, <2>1, <2>3, <2>5, <3>1, <3>2
    <3>3. CASE a # data
      BY <1>1, <1>2, <2>1, <2>3, <2>4, <2>5, <3>3
    <3> QED
      BY <3>2, <3>3
  <2>9. ASSUME NEW a, NEW c
        PROVE  /\ Live(a, c)' <=> Live(a, c)
               /\ Live(a, c) => heap'[a][c] = heap[a][c]
    <3>1. CASE a \in DOMAIN heap
      <4>1. a \in DOMAIN heap' /\ heap'[a] = heap[a] /\ a # data'
        BY <1>2, <2>1, <3>1
      <4> QED
        BY <2>6, <2>8, <3>1, <4>1 DEF Live
    <3>2. CASE a \notin DOMAIN heap
      <4>1. a \in DOMAIN heap' => a = Len(heap) + 1
        BY <1>2, <2>1, <3>2
      <4> QED
        BY <2>7, <3>2, <4>1 DEF Live
    <3> QED
      BY <3>1, <3>2
  <2> QED
    BY <2>9 DEF LiveKept
<1>8. CASE RehashMove
  <2>1. PICK j \in Left(Top) :
          /\ \A l \in Left(Top) : j <= l
          /\ Len(stack') = Depth + 1
          /\ \A d \in 1..Depth : d # Depth => stack'[d] = stack[d]
          /\ stack'[Depth] = [key |-> Top.key, data |-> Top.data,
                              old |-> Top.old, next |-> j]
          /\ stack'[Depth + 1] = [key |-> heap[Top.old][j].key,
                                  data |-> heap[Top.old][j].data,
                                  old |-> 0, next |-> 0]
          /\ stack' \in Seq(Frames(Len(heap)))
    BY <1>8, RehashMoveFacts
  <2>2. stack # <<>> /\ Top.old \in DOMAIN heap
    BY <1>8, RehashMoveFacts
  <2>3. DOMAIN stack' = 1..(Depth + 1)
    BY <2>1, LenProperties
  <2>4. UNCHANGED <<heap, data>> /\ pc # "count" /\ pc' # "count"
    BY <1>8 DEF RehashMove, Goto
  <2>5. \A d : MovedTo(d) = stack[d].next /\ MovedTo(d)' = stack'[d].next
    BY <2>4 DEF MovedTo
  <2>6. /\ stack'[Depth].old = Top.old /\ stack'[Depth].next = j
        /\ stack'[Depth + 1].old = 0
    BY <2>1
  <2>7. /\ j \in Nat /\ Top.next <= j /\ Top.next \in Nat
    BY <1>1, <1>2, <2>2 DEF Left, Frames
  <2>8. ASSUME NEW a \in DOMAIN heap, NEW c \in DOMAIN heap[a],
               heap[a][c].in_use = 1
        PROVE  (\E d \in DOMAIN stack' :
                  stack'[d].old = a /\ stack'[d].next <= c)
               <=> (\E d \in DOMAIN stack :
                      stack[d].old = a /\ stack[d].next <= c)
    <3>1. c \in Nat /\ a # 0
      BY <1>2
    <3>2. ASSUME NEW d \in 1..Depth
          PROVE  /\ stack'[d].old = stack[d].old
                 /\ stack[d].old = a =>
                      (stack'[d].next <= c <=> stack[d].next <= c)
      <4>1. CASE d # Depth
        BY <2>1, <4>1
      <4>2. CASE d = Depth
        <5>1. Top.old = a /\ Top.next <= c => c \in Left(Top)
          BY <2>8 DEF Left
        <5>2. Top.old = a => (j <= c <=> Top.next <= c)
          BY <2>1, <2>7, <3>1, <5>1
        <5> QED
          BY <1>1, <2>2, <2>6, <4>2, <5>2
      <4> QED
        BY <4>1, <4>2
    <3>3. \A d \in DOMAIN stack' : d = Depth + 1 \/ d \in 1..Depth
      BY <1>1, <2>3
    <3>4. 1..Depth \subseteq DOMAIN stack'
      BY <1>1, <2>3
    <3> QED
      BY <1>1, <2>6, <3>1, <3>2, <3>3, <3>4
  <2> QED
    BY <2>4, <2>5, <2>8 DEF LiveKept, Live
<1>9. CASE RehashFree
  <2>1. /\ stack # <<>> /\ Top.old # 0 /\ Top.old \in DOMAIN heap
        /\ Top.old # data /\ DOMAIN heap' = DOMAIN heap
        /\ \A a \in DOMAIN heap :
             heap'[a] = IF a = Top.old THEN Freed ELSE heap[a]
        /\ Len(stack') = Depth
        /\ stack'[Depth] = [key |-> Top.key, data |-> Top.data, old |-> 0,
                            next |-> 0]
        /\ \A d \in 1..Depth : d # Depth => stack'[d] = stack[d]
        /\ stack' \in Seq(Frames(Len(heap)))
    BY <1>9, RehashFreeFacts DEF TopBecomes
  <2>2. /\ UNCHANGED data /\ pc # "count" /\ pc' # "count" /\ Left(Top) = {}
    BY <1>9 DEF RehashFree, Goto
  <2>3. DOMAIN stack' = 1..Depth
    BY <2>1, LenProperties
  <2>4. \A d : MovedTo(d) = stack[d].next /\ MovedTo(d)' = stack'[d].next
    BY <2>2 DEF MovedTo
  <2>5. stack'[Depth].old = 0
    BY <2>1
  <2>6. \A d \in 1..Depth : stack[d].old = Top.old => d = Depth
    BY <1>1, <2>1, OldFacts
  <2>7. ASSUME NEW a, NEW c
        PROVE  /\ Live(a, c)' <=> Live(a, c)
               /\ Live(a, c) => heap'[a][c] = heap[a][c]
    <3>1. CASE a = Top.old
      <4>1. DOMAIN heap'[a] = {}
        BY <2>1, <3>1 DEF Freed, Table
      <4>2. ~Live(a, c)
        <5> SUFFICES ASSUME Live(a, c)
                     PROVE  FALSE
          OBVIOUS
        <5>1. PICK d \in DOMAIN stack : stack[d].old = a /\ stack[d].next <= c
          BY <2>1, <2>4, <3>1 DEF Live
        <5>2. d = Depth
          BY <1>1, <2>6, <3>1, <5>1
        <5>3. c \in Left(Top)
          BY <1>1, <2>1, <3>1, <5>1, <5>2 DEF Live, Left
        <5> QED
          BY <2>2, <5>3
      <4> QED
        BY <4>1, <4>2 DEF Live
    <3>2. CASE a # Top.old
      <4>1. a \in DOMAIN heap =>
              ((\E d \in DOMAIN stack' :
                  stack'[d].old = a /\ stack'[d].next <= c)
               <=> (\E d \in DOMAIN stack :
                      stack[d].old = a /\ stack[d].next <= c))
        <5> SUFFICES ASSUME a \in DOMAIN heap
                     PROVE  (\E d \in 1..Depth :
                               stack'[d].old = a /\ stack'[d].next <= c)
                            <=> (\E d \in 1..Depth :
                                   stack[d].old = a /\ stack[d].next <= c)
          BY <1>1, <2>3
        <5>1. a # 0
          BY <1>2
        <5> QED
          BY <1>1, <2>1, <2>5, <3>2, <5>1
      <4> QED
        BY <2>1, <2>2, <2>4, <3>2, <4>1 DEF Live
    <3> QED
      BY <3>1, <3>2
  <2> QED
    BY <2>7 DEF LiveKept
<1>10. ASSUME \/ PutHash \/ RehashSize \/ RehashReset \/ RemoveCount
              \/ \E k \in Keys : RemoveCall(k)
       PROVE  UNCHANGED <<heap, data, stack>> /\ pc # "count" /\ pc' # "count"
  BY <1>10 DEF PutHash, RehashSize, RehashReset, RemoveCount, RemoveCall, Goto
<1>11. ASSUME NEW r \in Readers,
              ReaderStep(r) \/ \E k \in Sought : GetCall(r, k)
       PROVE  UNCHANGED <<heap, data, stack, pc>>
  BY <1>11, ReaderOnly
<1> QED
  BY <1>3, <1>4, <1>5, <1>6, <1>7, <1>8, <1>9, <1>10, <1>11
  DEF Next, HolderStep, Rest, vars

(* hashmap_put makes its slot one of them, and the slot it is moved from,  *)
(* if hashmap_rehash calls it, ceases to be one.                           *)
LEMMA PutLive ==
  ASSUME IInv, PutInUse
  PROVE  /\ UNCHANGED <<data, stack>>
         /\ stack # <<>> /\ pc = "in_use" /\ pc' = "count"
         /\ data \in DOMAIN heap /\ index \in DOMAIN heap[data]
         /\ heap[data][index].in_use = 0
         /\ ~Live(data, index)
         /\ heap'[data][index] = [in_use |-> 1, key |-> Top.key,
                                  data |-> Top.data]
         /\ \A a, c : Live(a, c) => heap'[a][c] = heap[a][c]
         /\ \A a, c :
              Live(a, c)' <=>
                \/ a = data /\ c = index
                \/ /\ Live(a, c)
                   /\ Depth # 1 => ~(/\ a = stack[Depth - 1].old
                                     /\ c = stack[Depth - 1].next)
<1> USE DEF IInv
<1>1. /\ Depth \in Nat /\ DOMAIN stack = 1..Depth
      /\ \A d \in 1..Depth : stack[d] \in Frames(Len(heap))
      /\ stack = <<>> <=> Depth = 0
  BY StackFacts
<1>2. /\ data \in DOMAIN heap
      /\ \A a \in DOMAIN heap : DOMAIN heap[a] \subseteq Nat
  BY HeapFacts
<1>3. /\ UNCHANGED <<data, stack>> /\ pc = "in_use" /\ pc' = "count"
  BY DEF PutInUse, Goto
<1>4. stack # <<>> /\ Depth # 0
  BY <1>1, <1>3 DEF ShapeInv
<1>5. index \in DOMAIN heap[data] /\ heap[data][index].in_use = 0
  BY <1>3 DEF SlotInv, slots
<1>6. ~Live(data, index)
  BY <1>5 DEF Live
<1>7. PICK t : t = [in_use |-> 1, key |-> Top.key, data |-> Top.data]
  OBVIOUS
<1>8. Written(index, t)
  BY <1>7, PutWrites
<1>9. /\ DOMAIN heap' = DOMAIN heap
      /\ \A a \in DOMAIN heap : DOMAIN heap'[a] = DOMAIN heap[a]
      /\ \A a \in DOMAIN heap : a # data => heap'[a] = heap[a]
      /\ \A c \in DOMAIN heap[data] :
           c # index => heap'[data][c] = heap[data][c]
      /\ heap'[data][index] = t
  BY <1>5, <1>8 DEF Written, slots
<1>10. \A a, c : Live(a, c) => heap'[a][c] = heap[a][c]
  BY <1>6, <1>9 DEF Live
<1>11. t.in_use = 1
  BY <1>7
<1>12. \A d \in DOMAIN stack : stack[d].old # data
  BY <1>1, OldFacts
<1>13. ASSUME NEW a \in DOMAIN heap, NEW c \in DOMAIN heap[a], a # data
       PROVE  (\E d \in DOMAIN stack : stack[d].old = a /\ MovedTo(d)' <= c)
              <=> /\ \E d \in DOMAIN stack :
                       stack[d].old = a /\ MovedTo(d) <= c
                  /\ Depth # 1 => ~(/\ a = stack[Depth - 1].old
                                    /\ c = stack[Depth - 1].next)
  <2>1. a # 0 /\ c \in Nat
    BY <1>2, HeapFacts
  <2>2. \A d : MovedTo(d) = stack[d].next
    BY <1>3 DEF MovedTo
  <2>3. \A d : MovedTo(d)' = IF d = Depth - 1 THEN stack[d].next + 1
                             ELSE stack[d].next
    BY <1>3 DEF MovedTo, Depth
  <2>4. CASE Depth # 1 /\ a = stack[Depth - 1].old
    <3>1. PICK e \in 1..Depth : e = Depth - 1
      BY <1>1, <1>4, <2>4
    <3>2. \A d \in 1..Depth : stack[d].old = a => d = e
      BY <2>1, <2>4, <3>1, OldFacts
    <3>3. stack[e].next \in Nat
      BY <1>1 DEF Frames
    <3> QED
      BY <1>1, <2>1, <2>2, <2>3, <2>4, <3>1, <3>2, <3>3
  <2>5. CASE Depth = 1 \/ a # stack[Depth - 1].old
    <3>1. \A d \in 1..Depth : stack[d].old = a => d # Depth - 1
      BY <1>1, <2>5
    <3> QED
      BY <1>1, <2>2, <2>3, <2>5, <3>1
  <2> QED
    BY <2>4, <2>5
<1>14. ASSUME NEW a, NEW c
       PROVE  Live(a, c)' <=>
                \/ a = data /\ c = index
                \/ /\ Live(a, c)
                   /\ Depth # 1 => ~(/\ a = stack[Depth - 1].old
                                     /\ c = stack[Depth - 1].next)
  <2>1. CASE a = data
    <3>1. Depth # 1 => stack[Depth - 1].old # data
      BY <1>1, <1>4, <1>12
    <3>2. /\ Live(a, c)' <=> /\ c \in DOMAIN heap[data]
                             /\ heap'[data][c].in_use = 1
          /\ Live(a, c) <=> /\ c \in DOMAIN heap[data]
                            /\ heap[data][c].in_use = 1
      BY <1>2, <1>3, <1>9, <2>1 DEF Live
    <3> QED
      BY <1>5, <1>9, <1>11, <2>1, <3>1, <3>2
  <2>2. CASE a # data
    BY <1>3, <1>9, <1>13, <2>2 DEF Live
  <2> QED
    BY <2>1, <2>2
<1> QED
  BY <1>2, <1>3, <1>4, <1>5, <1>6, <1>7, <1>9, <1>10, <1>14

(* hashmap_remove takes one of them away.                                  *)
LEMMA RemoveLive ==
  ASSUME IInv, RemoveInUse
  PROVE  /\ UNCHANGED <<data, stack>>
         /\ stack = <<>> /\ pc = "blank" /\ pc' = "blank data"
         /\ data \in DOMAIN heap /\ index \in DOMAIN heap[data]
         /\ Live(data, index)
         /\ \A a, c : Live(a, c)' <=> Live(a, c) /\ ~(a = data /\ c = index)
         /\ \A a, c : Live(a, c)' => heap'[a][c] = heap[a][c]
<1> USE DEF IInv
<1>1. /\ UNCHANGED <<data, stack>> /\ pc = "blank" /\ pc' = "blank data"
  BY DEF RemoveInUse, Goto
<1>2. stack = <<>>
  BY <1>1 DEF ShapeInv
<1>3. /\ data \in DOMAIN heap /\ index \in DOMAIN heap[data]
      /\ heap[data][index].in_use = 1
  BY <1>1 DEF SlotInv, slots, TypeOK
<1>4. DOMAIN stack = {}
  BY <1>2
<1>5. PICK t : t = [in_use |-> 0, key |-> slots[index].key,
                    data |-> slots[index].data]
  OBVIOUS
<1>6. Written(index, t)
  BY <1>1, <1>5, RemoveWrites
<1>7. /\ DOMAIN heap' = DOMAIN heap
      /\ \A a \in DOMAIN heap : DOMAIN heap'[a] = DOMAIN heap[a]
      /\ \A c \in DOMAIN heap[data] :
           c # index => heap'[data][c] = heap[data][c]
      /\ heap'[data][index] = t
  BY <1>3, <1>6 DEF Written, slots
<1>8. t.in_use = 0
  BY <1>5
<1>9. ASSUME NEW a, NEW c
      PROVE  /\ Live(a, c)' <=> Live(a, c) /\ ~(a = data /\ c = index)
             /\ Live(a, c)' => heap'[a][c] = heap[a][c]
  <2>1. /\ Live(a, c)' <=> /\ a = data /\ c \in DOMAIN heap[data]
                           /\ heap'[data][c].in_use = 1
        /\ Live(a, c) <=> /\ a = data /\ c \in DOMAIN heap[data]
                          /\ heap[data][c].in_use = 1
    BY <1>1, <1>3, <1>4, <1>7 DEF Live
  <2> QED
    BY <1>3, <1>7, <1>8, <2>1
<1> QED
  BY <1>1, <1>2, <1>3, <1>4, <1>9 DEF Live

(* The name that 00 is putting stays the name of the outermost call.       *)
LEMMA FirstName ==
  ASSUME IInv, [Next]_vars,
         ~(\E k \in Keys : \E x \in Elements[k] : PutCall(k, x)),
         stack' # <<>>, ~(pc' = "count" /\ Depth' = 1)
  PROVE  /\ stack # <<>> /\ ~(pc = "count" /\ Depth = 1)
         /\ stack'[1].key = stack[1].key
<1> USE DEF IInv
<1>1. /\ Depth \in Nat
      /\ stack = <<>> <=> Depth = 0
      /\ stack # <<>> => Depth \in 1..Depth /\ Top = stack[Depth]
  BY StackFacts
<1>2. CASE UNCHANGED <<stack, pc>>
  BY <1>2 DEF Depth
<1>3. ASSUME UNCHANGED stack, pc # "count"
      PROVE  /\ stack # <<>> /\ ~(pc = "count" /\ Depth = 1)
             /\ stack'[1].key = stack[1].key
  BY <1>3
<1>4. ASSUME NEW r \in Readers,
             ReaderStep(r) \/ \E k \in Sought : GetCall(r, k)
      PROVE  UNCHANGED <<stack, pc>>
  BY <1>4, ReaderOnly
<1>5. ASSUME \/ PutHash \/ PutData \/ PutKey \/ PutInUse
             \/ RehashSize \/ RehashReset
             \/ RemoveInUse \/ RemoveData \/ RemoveKey \/ RemoveCount
             \/ \E k \in Keys : RemoveCall(k)
      PROVE  UNCHANGED stack /\ pc # "count"
  BY <1>5 DEF PutHash, PutData, PutKey, PutInUse, RehashSize, RehashReset,
     RemoveInUse, RemoveData, RemoveKey, RemoveCount, RemoveCall, Goto
<1>6. CASE PutCount
  <2>1. Depth # 1 /\ stack # <<>>
    BY <1>6, CountFacts
  <2>2. /\ Depth - 1 \in 1..Depth
        /\ \A d \in 1..(Depth - 1) : d # Depth - 1 => stack'[d] = stack[d]
        /\ stack'[Depth - 1].key = stack[Depth - 1].key
    <3>1. PICK e : e = Depth - 1
      OBVIOUS
    <3>2. stack'[e] = [key |-> stack[e].key, data |-> stack[e].data,
                       old |-> stack[e].old, next |-> stack[e].next + 1]
      BY <1>6, <2>1, <3>1, CountFacts
    <3>3. stack'[e].key = stack[e].key
      BY <3>2
    <3> QED
      BY <1>6, <2>1, <3>1, <3>3, CountFacts
  <2> QED
    BY <1>1, <2>1, <2>2
<1>7. CASE RehashData \/ RehashMove \/ RehashFree
  <2>1. /\ pc # "count" /\ stack # <<>>
        /\ \A d \in 1..Depth : d # Depth => stack'[d] = stack[d]
        /\ \E o, x : stack'[Depth] = [key |-> Top.key, data |-> Top.data,
                                      old |-> o, next |-> x]
    <3>1. CASE RehashData
      BY <3>1, RehashDataFacts DEF TopBecomes, RehashData, Goto
    <3>2. CASE RehashMove
      BY <3>2, RehashMoveFacts DEF RehashMove, Goto
    <3>3. CASE RehashFree
      BY <3>3, RehashFreeFacts DEF TopBecomes, RehashFree, Goto
    <3> QED
      BY <1>7, <3>1, <3>2, <3>3
  <2>2. stack'[Depth].key = Top.key
    BY <2>1
  <2> QED
    BY <1>1, <2>1, <2>2
<1> QED
  BY <1>2, <1>3, <1>4, <1>5, <1>6, <1>7 DEF Next, HolderStep, Rest, vars

(* The name that 00 puts is held by no slot when it calls hashmap_put.     *)
LEMMA AbsentName ==
  ASSUME IInv, NEW k \in Keys, pc = "idle", Absent(k)
  PROVE  \A a, c : Live(a, c) => heap[a][c].key # k
<1> USE DEF IInv
<1>1. stack = <<>>
  BY DEF ShapeInv
<1>2. \A a, c : Live(a, c) => a = data /\ c \in Used
  BY <1>1 DEF Live, Used, slots
<1>3. \A c \in Used : slots[c].key # k
  <2>1. CASE size = 0
    <3>1. IsFiniteSet(Used) /\ Cardinality(Used) = 0
      BY <2>1, UsedFacts DEF SizeInv
    <3>2. Used = {}
      <4>1. PICK S : S = Used
        OBVIOUS
      <4>2. IsFiniteSet(S) => (Cardinality(S) = 0 <=> S = {})
        BY FS_EmptySet
      <4> QED
        BY <3>1, <4>1, <4>2
    <3> QED
      BY <3>2
  <2>2. CASE Lookup(k) = NotFound
    BY <2>2, LookupAbsent
  <2> QED
    BY <2>1, <2>2 DEF Absent
<1> QED
  BY <1>2, <1>3 DEF slots

(* Every step keeps the names apart.                                       *)
LEMMA LiveStep ==
  ASSUME IInv, [Next]_vars
  PROVE  LiveInv'
<1> USE DEF IInv
<1>1. /\ \A a, c : Live(a, c) => /\ heap[a][c].key \in Keys
                                 /\ heap[a][c].data \in Values
      /\ \A a, c, b, e : Live(a, c) /\ Live(b, e)
                         /\ heap[a][c].key = heap[b][e].key => a = b /\ c = e
      /\ stack # <<>> /\ ~(pc = "count" /\ Depth = 1) =>
           \A a, c : Live(a, c) => heap[a][c].key # stack[1].key
  BY DEF LiveInv, Live
<1>2. SUFFICES
        /\ \A a, c : Live(a, c)' => /\ heap'[a][c].key \in Keys
                                    /\ heap'[a][c].data \in Values
        /\ \A a, c, b, e : Live(a, c)' /\ Live(b, e)'
                           /\ heap'[a][c].key = heap'[b][e].key
                           => a = b /\ c = e
        /\ stack' # <<>> /\ ~(pc' = "count" /\ Depth' = 1) =>
             \A a, c : Live(a, c)' => heap'[a][c].key # stack'[1].key
  BY <1>2 DEF LiveInv
<1>3. /\ Depth \in Nat
      /\ \A d \in 1..Depth : stack[d] \in Frames(Len(heap))
      /\ stack = <<>> <=> Depth = 0
      /\ stack # <<>> => Depth \in 1..Depth /\ Top = stack[Depth]
  BY StackFacts
<1>4. ASSUME NEW k \in Keys, NEW x \in Elements[k], PutCall(k, x)
      PROVE  /\ LiveKept
             /\ \A a, c : Live(a, c)' => heap'[a][c].key # stack'[1].key
  <2>1. LiveKept
    <3>1. ~PutInUse /\ ~RemoveInUse
      BY <1>4 DEF PutCall, PutInUse, RemoveInUse, Goto
    <3> QED
      BY <3>1, KeptStep
  <2>2. \A a, c : Live(a, c) => heap[a][c].key # k
    BY <1>4, AbsentName DEF PutCall, Goto
  <2>3. stack'[1].key = k
    <3>1. stack'[1] = [key |-> k, data |-> x, old |-> 0, next |-> 0]
      BY <1>4, CallFacts
    <3> QED
      BY <3>1
  <2> QED
    BY <2>1, <2>2, <2>3 DEF LiveKept
<1>5. CASE LiveKept
  <2>1. CASE \E k \in Keys : \E x \in Elements[k] : PutCall(k, x)
    BY <1>1, <1>4, <1>5, <2>1 DEF LiveKept
  <2>2. CASE ~(\E k \in Keys : \E x \in Elements[k] : PutCall(k, x))
    BY <1>1, <1>5, <2>2, FirstName DEF LiveKept
  <2> QED
    BY <2>1, <2>2
<1>6. CASE PutInUse
  <2>1. /\ UNCHANGED stack /\ stack # <<>> /\ pc = "in_use" /\ pc' = "count"
        /\ \A a, c : Live(a, c) => heap'[a][c] = heap[a][c]
        /\ \A a, c : Live(a, c)' =>
             \/ a = data /\ c = index
             \/ Live(a, c) /\ (Depth # 1 => ~(/\ a = stack[Depth - 1].old
                                              /\ c = stack[Depth - 1].next))
    BY <1>6, PutLive
  <2>2. heap'[data][index].key = Top.key /\ heap'[data][index].data = Top.data
    <3>1. heap'[data][index] = [in_use |-> 1, key |-> Top.key,
                                data |-> Top.data]
      BY <1>6, PutLive
    <3> QED
      BY <3>1
  <2>3. Top.key \in Keys /\ Top.data \in Values
    BY <1>3, <2>1 DEF Frames
  <2>4. ASSUME Depth # 1
        PROVE  /\ Live(stack[Depth - 1].old, stack[Depth - 1].next)
               /\ heap[stack[Depth - 1].old][stack[Depth - 1].next].key
                    = Top.key
    <3>1. Depth \in 2..Depth
      BY <1>3, <2>1, <2>4
    <3> QED
      BY <1>3, <2>1, <3>1, MovedIsLive
  <2>5. ASSUME NEW a, NEW c, Live(a, c)', ~(a = data /\ c = index)
        PROVE  Live(a, c) /\ heap[a][c].key # Top.key
    <3>1. /\ Live(a, c)
          /\ Depth # 1 => ~(/\ a = stack[Depth - 1].old
                            /\ c = stack[Depth - 1].next)
      BY <2>1, <2>5
    <3>2. CASE Depth = 1
      BY <1>1, <1>3, <2>1, <3>1, <3>2
    <3>3. CASE Depth # 1
      BY <1>1, <2>4, <3>1, <3>3
    <3> QED
      BY <3>1, <3>2, <3>3
  <2>6. Depth # 1 => Top.key # stack[1].key
    BY <1>1, <2>1, <2>4
  <2>7. \A a, c : Live(a, c)' => /\ heap'[a][c].key \in Keys
                                 /\ heap'[a][c].data \in Values
    BY <1>1, <2>1, <2>2, <2>3, <2>5
  <2>8. ASSUME NEW a, NEW c, NEW b, NEW e, Live(a, c)', Live(b, e)',
               heap'[a][c].key = heap'[b][e].key
        PROVE  a = b /\ c = e
    BY <1>1, <2>1, <2>2, <2>5, <2>8
  <2>9. ASSUME Depth' # 1, NEW a, NEW c, Live(a, c)'
        PROVE  heap'[a][c].key # stack'[1].key
    <3>1. Depth # 1
      BY <2>1, <2>9 DEF Depth
    <3> QED
      BY <1>1, <2>1, <2>2, <2>5, <2>6, <2>9, <3>1
  <2> QED
    BY <2>1, <2>7, <2>8, <2>9
<1>7. CASE RemoveInUse
  <2>1. /\ UNCHANGED stack /\ stack = <<>>
        /\ \A a, c : Live(a, c)' => Live(a, c) /\ heap'[a][c] = heap[a][c]
    BY <1>7, RemoveLive
  <2> QED
    BY <1>1, <2>1
<1> QED
  BY <1>5, <1>6, <1>7, KeptStep

-----------------------------------------------------------------------------
(* The slots in use, their chains and their number.                        *)

(* What each step does to the slots that are in use.                       *)
LEMMA UsedStep ==
  ASSUME IInv, [Next]_vars
  PROVE  /\ PutInUse => /\ Used' = Used \cup {index} /\ index \notin Used
                        /\ slots'[index].key = Top.key
         /\ RemoveInUse => Used' = Used \ {index} /\ index \in Used
         /\ RehashData => Used' = {}
         /\ ~PutInUse /\ ~RemoveInUse /\ ~RehashData => Used' = Used
         /\ \A c \in Used : c \in Used' => \/ RehashData
                                           \/ slots'[c].key = slots[c].key
<1> USE DEF IInv
<1>1. data \in DOMAIN heap
  BY DEF TypeOK
<1>2. data' \in DOMAIN heap'
  BY TypeStep DEF TypeOK
<1>3. /\ \A c : c \in Used <=> Live(data, c)
      /\ \A c : c \in Used' <=> Live(data, c)'
  BY <1>1, <1>2 DEF Used, Live, slots
<1>4. ~RehashData => UNCHANGED data
  <2>1. CASE UNCHANGED vars
    BY <2>1 DEF vars
  <2>2. ASSUME NEW r \in Readers,
               ReaderStep(r) \/ \E k \in Sought : GetCall(r, k)
        PROVE  UNCHANGED data
    BY <2>2, ReaderOnly
  <2>3. ASSUME \E k \in Keys :
                 RemoveCall(k) \/ \E x \in Elements[k] : PutCall(k, x)
        PROVE  UNCHANGED data
    BY <2>3 DEF RemoveCall, PutCall
  <2>4. CASE HolderStep
    BY <2>4 DEF HolderStep, PutHash, PutData, PutKey, PutInUse, PutCount,
       RehashSize, RehashReset, RehashMove, RehashFree,
       RemoveInUse, RemoveData, RemoveKey, RemoveCount
  <2> QED
    BY <2>1, <2>2, <2>3, <2>4 DEF Next, Rest
<1>5. CASE RehashData
  <2>1. ~PutInUse /\ ~RemoveInUse
    BY <1>5 DEF RehashData, PutInUse, RemoveInUse, Goto
  <2>2. data' = Len(heap) + 1 /\ heap'[Len(heap) + 1] = Table(2 * table_size)
    BY <1>5, RehashDataFacts
  <2>3. slots' = Table(2 * table_size)
    BY <2>2 DEF slots
  <2>4. \A c \in DOMAIN slots' : slots'[c].in_use = 0
    BY <2>3 DEF Table, EmptySlot
  <2>5. Used' = {}
    BY <2>4 DEF Used
  <2> QED
    BY <1>5, <2>1, <2>5
<1>6. CASE PutInUse
  <2>1. ~RemoveInUse /\ ~RehashData
    BY <1>6 DEF RehashData, PutInUse, RemoveInUse, Goto
  <2>2. /\ \A c : Live(data, c)' <=> c = index \/ Live(data, c)
        /\ ~Live(data, index)
        /\ \A c : Live(data, c) => heap'[data][c] = heap[data][c]
    <3>1. /\ Depth \in Nat /\ Depth # 0
      BY <1>6, StackFacts DEF PutInUse, Goto, ShapeInv
    <3>2. Depth # 1 => stack[Depth - 1].old # data
      BY <3>1, OldFacts
    <3> QED
      BY <1>6, <3>2, PutLive
  <2>3. slots'[index].key = Top.key
    <3>1. heap'[data][index] = [in_use |-> 1, key |-> Top.key,
                                data |-> Top.data]
      BY <1>6, PutLive
    <3> QED
      BY <1>4, <2>1, <3>1 DEF slots
  <2> QED
    BY <1>3, <1>4, <1>6, <2>1, <2>2, <2>3 DEF slots
<1>7. CASE RemoveInUse
  <2>1. ~PutInUse /\ ~RehashData
    BY <1>7 DEF RehashData, PutInUse, RemoveInUse, Goto
  <2> QED
    BY <1>3, <1>4, <1>7, <2>1, RemoveLive DEF slots
<1>8. CASE ~PutInUse /\ ~RemoveInUse /\ ~RehashData
  <2>1. LiveKept
    BY <1>8, KeptStep
  <2> QED
    BY <1>3, <1>4, <1>8, <2>1 DEF LiveKept, slots
<1> QED
  BY <1>5, <1>6, <1>7, <1>8

(* m->table_size changes in one place, when the table is empty.            *)
LEMMA TableSizeStep ==
  ASSUME [Next]_vars, ~RehashSize
  PROVE  table_size' = table_size
<1>1. CASE UNCHANGED vars
  BY <1>1 DEF vars
<1>2. ASSUME NEW r \in Readers,
             ReaderStep(r) \/ \E k \in Sought : GetCall(r, k)
      PROVE  table_size' = table_size
  BY <1>2, ReaderOnly
<1>3. ASSUME \E k \in Keys :
               RemoveCall(k) \/ \E x \in Elements[k] : PutCall(k, x)
      PROVE  table_size' = table_size
  BY <1>3 DEF RemoveCall, PutCall
<1>4. CASE HolderStep
  BY <1>4 DEF HolderStep, PutHash, PutData, PutKey, PutInUse, PutCount,
     RehashData, RehashReset, RehashMove, RehashFree,
     RemoveInUse, RemoveData, RemoveKey, RemoveCount
<1> QED
  BY <1>1, <1>2, <1>3, <1>4 DEF Next, Rest

(* Every step keeps each name in its chain.                                *)
LEMMA ChainStep ==
  ASSUME IInv, [Next]_vars
  PROVE  ChainInv'
<1> USE DEF IInv
<1>1. CASE RehashData
  <2>1. Used' = {}
    BY <1>1, UsedStep
  <2> QED
    BY <2>1 DEF ChainInv
<1>2. CASE RehashSize
  <2>1. pc = "double"
    BY <1>2 DEF RehashSize, Goto
  <2>2. ~PutInUse /\ ~RemoveInUse /\ ~RehashData
    BY <2>1 DEF RehashData, PutInUse, RemoveInUse, Goto
  <2>3. Used' = {}
    BY <2>1, <2>2, UsedStep DEF ChainInv
  <2> QED
    BY <2>3 DEF ChainInv
<1>3. CASE ~RehashData /\ ~RehashSize
  <2>1. table_size' = table_size
    BY <1>3, TableSizeStep
  <2>2. \A c, k : InChain(c, k)' <=> InChain(c, k)
    BY <2>1 DEF InChain, Chain
  <2>3. \A c \in Used' : InChain(c, slots'[c].key)
    <3>1. ASSUME NEW c \in Used', c \in Used
          PROVE  InChain(c, slots'[c].key)
      BY <1>3, <3>1, UsedStep DEF ChainInv
    <3>2. ASSUME NEW c \in Used', c \notin Used
          PROVE  InChain(c, slots'[c].key)
      <4>1. PutInUse /\ c = index
        BY <1>3, <3>2, UsedStep
      <4>2. slots'[index].key = Top.key
        BY <4>1, UsedStep
      <4>3. InChain(index, Top.key)
        BY <4>1 DEF PutInUse, Goto, SlotInv
      <4> QED
        BY <4>1, <4>2, <4>3
    <3> QED
      BY <3>1, <3>2
  <2>4. ASSUME pc' \in {"double", "reset"}
        PROVE  Used' = {}
    <3>1. pc' = pc
      <4>1. CASE UNCHANGED vars
        BY <4>1 DEF vars
      <4>2. ASSUME NEW r \in Readers,
                   ReaderStep(r) \/ \E k \in Sought : GetCall(r, k)
            PROVE  pc' = pc
        BY <4>2, ReaderOnly
      <4>3. ~(\E k \in Keys :
                RemoveCall(k) \/ \E x \in Elements[k] : PutCall(k, x))
        BY <2>4 DEF RemoveCall, PutCall, Goto
      <4>4. ~HolderStep
        BY <1>3, <2>4 DEF HolderStep, PutHash, PutData, PutKey, PutInUse,
           PutCount, RehashReset, RehashMove, RehashFree, RemoveInUse,
           RemoveData, RemoveKey, RemoveCount, Goto
      <4> QED
        BY <4>1, <4>2, <4>3, <4>4 DEF Next, Rest
    <3>2. ~PutInUse /\ ~RemoveInUse
      BY <2>4, <3>1 DEF PutInUse, RemoveInUse, Goto
    <3> QED
      BY <1>3, <2>4, <3>1, <3>2, UsedStep DEF ChainInv
  <2> QED
    BY <2>2, <2>3, <2>4 DEF ChainInv
<1> QED
  BY <1>1, <1>2, <1>3

(* Every step keeps the count.                                             *)
LEMMA SizeStep ==
  ASSUME IInv, [Next]_vars
  PROVE  SizeInv'
<1> USE DEF IInv
<1>1. /\ IsFiniteSet(Used) /\ Cardinality(Used) \in Nat
  BY UsedFacts
<1>2. size \in Nat
  BY DEF TypeOK
<1>3. CASE PutInUse
  <2>1. /\ pc = "in_use" /\ pc' = "count" /\ UNCHANGED size
    BY <1>3 DEF PutInUse, Goto
  <2>2. PICK S, c : S = Used /\ c = index
    OBVIOUS
  <2>3. c \notin S /\ IsFiniteSet(S) /\ Used' = S \cup {c}
    BY <1>1, <1>3, <2>2, UsedStep
  <2>4. Cardinality(S \cup {c}) = Cardinality(S) + 1
    BY <2>3, FS_AddElement
  <2>5. Cardinality(Used') = Cardinality(Used) + 1
    BY <2>2, <2>3, <2>4
  <2> QED
    BY <2>1, <2>5 DEF SizeInv
<1>4. CASE RemoveInUse
  <2>1. /\ pc = "blank" /\ pc' = "blank data" /\ UNCHANGED size
    BY <1>4 DEF RemoveInUse, Goto
  <2>2. PICK S, c : S = Used /\ c = index
    OBVIOUS
  <2>3. c \in S /\ IsFiniteSet(S) /\ Used' = S \ {c}
    BY <1>1, <1>4, <2>2, UsedStep
  <2>4. Cardinality(S \ {c}) = Cardinality(S) - 1
    BY <2>3, FS_RemoveElement
  <2>5. Cardinality(Used') = Cardinality(Used) - 1
    BY <2>2, <2>3, <2>4
  <2>6. Cardinality(Used) = size
    BY <2>1 DEF SizeInv
  <2>7. Cardinality(Used') + 1 = size'
    <3>1. PICK n, m : /\ n \in Nat
                      /\ n = Cardinality(Used) /\ m = Cardinality(Used')
      BY <1>1
    <3>2. m = n - 1 /\ n = size /\ size' = size
      BY <2>1, <2>5, <2>6, <3>1
    <3>3. m + 1 = size'
      BY <3>1, <3>2
    <3> QED
      BY <3>1, <3>3
  <2> QED
    BY <2>1, <2>7 DEF SizeInv
<1>5. CASE RehashData
  BY <1>5 DEF RehashData, Goto, SizeInv
<1>6. CASE RehashReset
  <2>1. /\ pc = "reset" /\ pc' = "move" /\ size' = 0
    BY <1>6 DEF RehashReset, Goto
  <2>2. ~PutInUse /\ ~RemoveInUse /\ ~RehashData
    BY <2>1 DEF RehashData, PutInUse, RemoveInUse, Goto
  <2>3. Used' = {}
    BY <2>1, <2>2, UsedStep DEF ChainInv
  <2>4. Cardinality(Used') = 0
    BY <2>3, FS_EmptySet
  <2> QED
    BY <2>1, <2>4 DEF SizeInv
<1>7. ASSUME ~PutInUse, ~RemoveInUse, ~RehashData
      PROVE  Used' = Used
  BY <1>7, UsedStep
<1>8. CASE PutCount
  <2>1. /\ pc = "count" /\ size' = size + 1 /\ pc' \in {"idle", "move"}
    BY <1>8 DEF PutCount, Goto
  <2>2. Used' = Used
    BY <1>7, <2>1 DEF PutInUse, RemoveInUse, RehashData, Goto
  <2> QED
    BY <2>1, <2>2 DEF SizeInv
<1>9. CASE RemoveCount
  <2>1. /\ pc = "uncount" /\ size' = size - 1 /\ pc' = "idle"
    BY <1>9 DEF RemoveCount, Goto
  <2>2. Used' = Used
    BY <1>7, <2>1 DEF PutInUse, RemoveInUse, RehashData, Goto
  <2> QED
    BY <1>1, <1>2, <2>1, <2>2 DEF SizeInv
<1>10. CASE RehashSize
  BY <1>10 DEF RehashSize, Goto, SizeInv
<1>11. CASE RemoveData \/ RemoveKey
  <2>1. /\ pc \in {"blank data", "blank key"}
        /\ pc' \in {"blank key", "uncount"} /\ UNCHANGED size
    BY <1>11 DEF RemoveData, RemoveKey, Goto
  <2>2. Used' = Used
    BY <1>7, <2>1 DEF PutInUse, RemoveInUse, RehashData, Goto
  <2> QED
    BY <2>1, <2>2 DEF SizeInv
<1>12. CASE \/ PutHash \/ PutData \/ PutKey \/ RehashMove \/ RehashFree
            \/ \E k \in Keys :
                 RemoveCall(k) \/ \E x \in Elements[k] : PutCall(k, x)
  <2>1. /\ pc \in {"idle", "hash", "data", "key", "move"}
        /\ pc' \in {"hash", "data", "key", "in_use", "blank"}
        /\ UNCHANGED size /\ ~RehashData
    BY <1>12 DEF PutHash, PutData, PutKey, RehashMove, RehashFree, RehashData,
       RemoveCall, PutCall, Goto
  <2>2. Used' = Used
    BY <1>7, <2>1 DEF PutInUse, RemoveInUse, Goto
  <2> QED
    BY <2>1, <2>2 DEF SizeInv
<1>13. CASE UNCHANGED <<heap, data, pc, size>>
  BY <1>13 DEF SizeInv, Used, slots
<1>14. ASSUME NEW r \in Readers,
              ReaderStep(r) \/ \E k \in Sought : GetCall(r, k)
       PROVE  UNCHANGED <<heap, data, pc, size>>
  BY <1>14, ReaderOnly
<1> QED
  BY <1>3, <1>4, <1>5, <1>6, <1>8, <1>9, <1>10, <1>11, <1>12, <1>13, <1>14
  DEF Next, HolderStep, Rest, vars

-----------------------------------------------------------------------------
(* The lookups without the lock.                                           *)

(* The tables only grow, and an array keeps its length until it is freed.  *)
LEMMA HeapKept ==
  ASSUME IInv, [Next]_vars
  PROVE  /\ table_size' >= table_size
         /\ \A a \in DOMAIN heap :
              \/ heap'[a] = Freed
              \/ heap[a] # Freed /\ DOMAIN heap'[a] = DOMAIN heap[a]
<1> USE DEF IInv
<1>1. table_size \in Nat
  BY DEF TypeOK
<1>2. table_size' >= table_size
  <2>1. CASE RehashSize
    BY <1>1, <2>1 DEF RehashSize
  <2>2. CASE ~RehashSize
    BY <1>1, <2>2, TableSizeStep
  <2> QED
    BY <2>1, <2>2
<1>3. ASSUME NEW a \in DOMAIN heap
      PROVE  \/ heap'[a] = Freed \/ heap'[a] = heap[a]
             \/ a = data /\ DOMAIN heap'[a] = DOMAIN heap[a]
  <2>1. CASE UNCHANGED heap
    BY <2>1
  <2>2. CASE RehashData
    BY <2>2, RehashDataFacts
  <2>3. CASE RehashFree
    BY <2>3, RehashFreeFacts
  <2>4. CASE PutData \/ PutKey \/ PutInUse
    <3>1. \E t : Written(index, t)
      BY <2>4, PutWrites
    <3> QED
      BY <3>1 DEF Written
  <2>5. CASE RemoveInUse \/ RemoveData \/ RemoveKey
    <3>1. pc \in {"blank", "blank data", "blank key"}
      BY <2>5 DEF RemoveInUse, RemoveData, RemoveKey, Goto
    <3>2. \E t : Written(index, t)
      BY <2>5, <3>1, RemoveWrites
    <3> QED
      BY <3>2 DEF Written
  <2>6. ASSUME \/ PutHash \/ PutCount \/ RehashSize \/ RehashReset
               \/ RehashMove \/ RemoveCount
               \/ \E k \in Keys :
                    RemoveCall(k) \/ \E x \in Elements[k] : PutCall(k, x)
        PROVE  UNCHANGED heap
    BY <2>6 DEF PutHash, PutCount, RehashSize, RehashReset, RehashMove,
       RemoveCount, RemoveCall, PutCall
  <2>7. ASSUME NEW r \in Readers,
               ReaderStep(r) \/ \E k \in Sought : GetCall(r, k)
        PROVE  UNCHANGED heap
    BY <2>7, ReaderOnly
  <2> QED
    BY <2>1, <2>2, <2>3, <2>4, <2>5, <2>6, <2>7
    DEF Next, HolderStep, Rest, vars
<1>4. slots # Freed
  <2>1. table_size \in Nat \ {0}
    BY DEF TypeOK
  <2>2. 0 \in 0..(table_size - 1) /\ 0 \in 0..(2 * table_size - 1)
    BY <2>1
  <2>3. 0 \in DOMAIN slots
    BY <2>2 DEF ShapeInv
  <2>4. DOMAIN Freed = {}
    BY DEF Freed, Table
  <2> QED
    BY <2>3, <2>4
<1> QED
  BY <1>2, <1>3, <1>4 DEF slots

(* Where a reader may be; ReaderInv says it of all.                        *)
ReaderOK(s, h, n) ==
  /\ s.pc \notin {"idle", "crashed"} => s.key \in Keys
  /\ s.pc \in {"load", "in_use", "key", "data", "next"} => s.curr < n
  /\ s.pc \in {"in_use", "key", "data"} =>
       s.array # 0 /\ (h[s.array] = Freed \/ s.curr \in DOMAIN h[s.array])

(* Every step keeps the readers in bounds.                                 *)
LEMMA ReaderInvStep ==
  ASSUME IInv, [Next]_vars
  PROVE  ReaderInv'
<1> USE DEF IInv
<1>1. /\ reader \in [Readers -> ReaderTypes(Len(heap))]
      /\ table_size \in Nat \ {0} /\ table_size' \in Nat
      /\ data \in DOMAIN heap /\ DOMAIN heap = 1..Len(heap)
  <2>1. table_size' \in Nat
    BY TypeStep DEF TypeOK
  <2> QED
    BY <2>1, HeapFacts DEF TypeOK, ReaderTypes
<1>2. MaxChain \in Nat \ {0} /\ Sought \subseteq Keys
  BY HashMapAssumption DEF HashMapAssumption
<1>3. \A r \in Readers : ReaderOK(reader[r], heap, table_size)
  BY DEF ReaderInv, ReaderOK
<1>4. SUFFICES \A r \in Readers : ReaderOK(reader'[r], heap', table_size')
  BY <1>4 DEF ReaderInv, ReaderOK
<1>5. ASSUME NEW s \in ReaderTypes(Len(heap)), ReaderOK(s, heap, table_size)
      PROVE  ReaderOK(s, heap', table_size')
  <2>1. s.array \in 0..Len(heap) /\ s.curr \in Nat
    BY DEF ReaderTypes
  <2>2. s.array # 0 => s.array \in DOMAIN heap
    BY <1>1, <2>1
  <2> QED
    BY <1>1, <1>5, <2>1, <2>2, HeapKept DEF ReaderOK
<1>6. CASE UNCHANGED reader
  BY <1>1, <1>3, <1>5, <1>6
<1>7. ASSUME NEW r \in Readers,
             ReaderStep(r) \/ \E k \in Sought : GetCall(r, k)
      PROVE  \A q \in Readers : ReaderOK(reader'[q], heap', table_size')
  <2>1. PICK s \in ReaderTypes(Len(heap)) :
          s = reader[r] /\ ReaderOK(s, heap, table_size)
    BY <1>1, <1>3
  <2>2. UNCHANGED <<heap, data, table_size>>
    BY <1>7, ReaderOnly
  <2>3. ASSUME NEW t, ReaderOK(t, heap, table_size),
               reader' = [reader EXCEPT ![r] = t]
        PROVE  \A q \in Readers : ReaderOK(reader'[q], heap', table_size')
    <3>1. ReaderOK(t, heap', table_size')
      BY <2>2, <2>3 DEF ReaderOK
    <3> QED
      BY <1>1, <1>3, <1>5, <2>3, <3>1
  <2>4. /\ s.key \in Keys \cup {NULL} /\ s.curr \in Nat
        /\ s.todo \in {"in_use", "key", "data"}
    BY DEF ReaderTypes
  <2>5. ReaderOK(Asleep, heap, table_size)
    BY DEF ReaderOK, Asleep
  <2>6. ASSUME NEW k \in Sought, GetCall(r, k)
        PROVE  \A q \in Readers : ReaderOK(reader'[q], heap', table_size')
    <3>1. PICK t : t = [Asleep EXCEPT !.pc = "hash", !.key = k]
      OBVIOUS
    <3>2. t.pc = "hash" /\ t.key = k
      BY <3>1 DEF Asleep
    <3>3. ReaderOK(t, heap, table_size)
      BY <1>2, <3>2 DEF ReaderOK
    <3> QED
      BY <2>3, <2>6, <3>1, <3>3 DEF GetCall, Advance
  <2>7. CASE GetHash(r)
    <3>1. PICK t : t = [s EXCEPT !.pc = "load",
                                 !.curr = Hash[s.key] % table_size]
      OBVIOUS
    <3>2. t.pc = "load" /\ t.key = s.key /\ t.curr = Hash[s.key] % table_size
      BY <3>1 DEF ReaderTypes
    <3>3. s.key \in Keys
      BY <2>1, <2>7 DEF GetHash, Advance, ReaderOK
    <3>4. t.curr < table_size
      <4>1. Hash[s.key] \in Nat
        BY <3>3, HashMapAssumption DEF HashMapAssumption
      <4>2. Hash[s.key] % table_size \in 0..(table_size - 1)
        BY <1>1, <4>1, ModBound
      <4> QED
        BY <1>1, <3>2, <4>2
    <3>5. ReaderOK(t, heap, table_size)
      BY <3>2, <3>3, <3>4 DEF ReaderOK
    <3> QED
      BY <2>1, <2>3, <2>7, <3>1, <3>5 DEF GetHash, Advance
  <2>8. CASE GetLoad(r)
    <3>1. PICK t : t = [s EXCEPT !.pc = s.todo, !.array = data]
      OBVIOUS
    <3>2. /\ t.pc = s.todo /\ t.key = s.key /\ t.curr = s.curr
          /\ t.array = data
      BY <3>1 DEF ReaderTypes
    <3>3. s.pc = "load" /\ s.key \in Keys /\ s.curr < table_size
      BY <2>1, <2>8 DEF GetLoad, Advance, ReaderOK
    <3>4. s.curr \in DOMAIN heap[data]
      <4>1. \/ DOMAIN slots = 0..(table_size - 1)
            \/ DOMAIN slots = 0..(2 * table_size - 1)
        BY DEF ShapeInv
      <4> QED
        BY <1>1, <2>4, <3>3, <4>1 DEF slots
    <3>5. data # 0
      BY <1>1
    <3>6. ReaderOK(t, heap, table_size)
      BY <2>4, <3>2, <3>3, <3>4, <3>5 DEF ReaderOK
    <3> QED
      BY <2>1, <2>3, <2>8, <3>1, <3>6 DEF GetLoad, Advance
  <2>9. ASSUME NEW t, t.pc \in {"load", "next"}, t.key = s.key,
               t.curr = s.curr,
               s.pc \in {"in_use", "key"}
        PROVE  ReaderOK(t, heap, table_size)
    BY <2>1, <2>9 DEF ReaderOK
  <2>10. CASE GetInUse(r) \/ GetKey(r)
    <3>1. PICK t, u, v :
            /\ t = [s EXCEPT !.pc = "load", !.todo = "key"]
            /\ u = [s EXCEPT !.pc = "next"]
            /\ v = [s EXCEPT !.pc = "load", !.todo = "data"]
      OBVIOUS
    <3>2. /\ t.pc = "load" /\ t.key = s.key /\ t.curr = s.curr
          /\ u.pc = "next" /\ u.key = s.key /\ u.curr = s.curr
          /\ v.pc = "load" /\ v.key = s.key /\ v.curr = s.curr
      BY <3>1 DEF ReaderTypes
    <3>3. s.pc \in {"in_use", "key"}
      BY <2>1, <2>10 DEF GetInUse, GetKey, Advance
    <3>4. \A w \in {t, u, v} : ReaderOK(w, heap, table_size)
      BY <2>9, <3>2, <3>3
    <3>5. \/ reader' = [reader EXCEPT ![r] = t]
          \/ reader' = [reader EXCEPT ![r] = u]
          \/ reader' = [reader EXCEPT ![r] = v]
      BY <2>1, <2>10, <3>1 DEF GetInUse, GetKey, Advance
    <3> QED
      BY <2>3, <3>4, <3>5
  <2>11. CASE GetData(r)
    BY <2>3, <2>5, <2>11 DEF GetData, Advance
  <2>12. CASE GetNext(r)
    <3>1. CASE s.i + 1 = MaxChain
      BY <2>1, <2>3, <2>5, <2>12, <3>1 DEF GetNext, Advance
    <3>2. CASE s.i + 1 # MaxChain
      <4>1. PICK t : t = [s EXCEPT !.pc = "load", !.todo = "in_use",
                            !.curr = (@ + 1) % table_size, !.i = @ + 1]
        OBVIOUS
      <4>2. t.pc = "load" /\ t.key = s.key
            /\ t.curr = (s.curr + 1) % table_size
        BY <4>1 DEF ReaderTypes
      <4>3. s.key \in Keys
        BY <2>1, <2>12 DEF GetNext, Advance, ReaderOK
      <4>4. t.curr < table_size
        <5>1. s.curr + 1 \in Nat
          BY <2>4
        <5>2. (s.curr + 1) % table_size \in 0..(table_size - 1)
          BY <1>1, <5>1, ModBound
        <5> QED
          BY <1>1, <4>2, <5>2
      <4>5. ReaderOK(t, heap, table_size)
        BY <4>2, <4>3, <4>4 DEF ReaderOK
      <4> QED
        BY <2>1, <2>3, <2>12, <3>2, <4>1, <4>5 DEF GetNext, Advance
    <3> QED
      BY <3>1, <3>2
  <2>13. CASE GetCrash(r)
    <3>1. PICK t : t = [Asleep EXCEPT !.pc = "crashed"]
      OBVIOUS
    <3>2. t.pc = "crashed"
      BY <3>1 DEF Asleep
    <3>3. ReaderOK(t, heap, table_size)
      BY <3>2 DEF ReaderOK
    <3> QED
      BY <2>3, <2>13, <3>1, <3>3 DEF GetCrash, Advance
  <2> QED
    BY <1>7, <2>6, <2>7, <2>8, <2>10, <2>11, <2>12, <2>13 DEF ReaderStep
<1>8. CASE UNCHANGED vars
  BY <1>6, <1>8 DEF vars
<1>9. ASSUME \/ HolderStep
             \/ \E k \in Keys :
                  RemoveCall(k) \/ \E x \in Elements[k] : PutCall(k, x)
      PROVE  UNCHANGED reader
  BY <1>9 DEF HolderStep, PutHash, PutData, PutKey, PutInUse, PutCount,
     RehashData, RehashSize, RehashReset, RehashMove, RehashFree,
     RemoveInUse, RemoveData, RemoveKey, RemoveCount, RemoveCall, PutCall
<1> QED
  BY <1>6, <1>7, <1>8, <1>9 DEF Next, Rest

-----------------------------------------------------------------------------
(* The invariant.                                                          *)

(* It holds of the empty map.                                              *)
LEMMA InitInv ==
  ASSUME Init
  PROVE  IInv
<1>1. InitialSize \in Nat \ {0} /\ MaxChain \in Nat \ {0}
  BY HashMapAssumption DEF HashMapAssumption
<1>2. PICK t : t = Table(InitialSize)
  OBVIOUS
<1>3. /\ t \in [0..(InitialSize - 1) -> Slot]
      /\ DOMAIN t = 0..(InitialSize - 1)
      /\ \A c \in DOMAIN t : t[c].in_use = 0
  <2>1. EmptySlot \in Slot /\ EmptySlot.in_use = 0
    BY DEF EmptySlot, Slot
  <2> QED
    BY <1>2, <2>1 DEF Table
<1>4. /\ heap = <<t>> /\ Len(heap) = 1 /\ DOMAIN heap = {1} /\ heap[1] = t
      /\ data = 1 /\ slots = t /\ table_size = InitialSize /\ size = 0
      /\ pc = "idle" /\ stack = <<>> /\ DOMAIN stack = {} /\ Depth = 0
      /\ index = 0
  BY <1>2 DEF Init, slots, Depth
<1>5. TypeOK
  <2>1. heap \in Seq({t})
    BY <1>4
  <2>2. {heap[a] : a \in DOMAIN heap} = {t}
    BY <1>4
  <2>3. InitialSize \in 0..(2 * InitialSize)
    BY <1>1
  <2>4. \A a \in DOMAIN heap :
          \E n \in 0..(2 * table_size) : heap[a] \in [0..(n - 1) -> Slot]
    BY <1>3, <1>4, <2>3
  <2>5. Cardinality(Keys) \in Nat
    BY HashMapAssumption, FS_CardinalityType DEF HashMapAssumption
  <2>6. size \in 0..Cardinality(Keys) /\ index \in 0..table_size
    BY <1>1, <1>4, <2>5
  <2>7. Asleep \in ReaderTypes(1)
    BY <1>1 DEF Asleep, ReaderTypes, ReaderSteps
  <2>8. reader \in [Readers -> ReaderTypes(Len(heap))]
    BY <1>4, <2>7 DEF Init
  <2> QED
    BY <1>1, <1>4, <2>1, <2>2, <2>4, <2>6, <2>8
    DEF TypeOK, HolderSteps, ReaderTypes
<1>6. ShapeInv
  BY <1>1, <1>3, <1>4 DEF ShapeInv
<1>7. SlotInv /\ MoveInv
  BY <1>4 DEF SlotInv, MoveInv
<1>8. ASSUME NEW a, NEW c, Live(a, c)
      PROVE  FALSE
  <2>1. a \in DOMAIN heap /\ c \in DOMAIN heap[a] /\ heap[a][c].in_use = 1
    BY <1>8 DEF Live
  <2>2. heap[a] = t
    BY <1>4, <2>1
  <2>3. t[c].in_use = 1 /\ c \in DOMAIN t
    BY <2>1, <2>2
  <2> QED
    BY <1>3, <2>3
<1>9. LiveInv
  BY <1>4, <1>8 DEF LiveInv
<1>10. Used = {}
  BY <1>3, <1>4 DEF Used
<1>11. ChainInv
  BY <1>10 DEF ChainInv
<1>12. SizeInv
  <2>1. Cardinality(Used) = 0
    BY <1>10, FS_EmptySet
  <2> QED
    BY <1>4, <2>1 DEF SizeInv
<1>13. ReaderInv
  BY DEF Init, ReaderInv, Asleep
<1> QED
  BY <1>5, <1>6, <1>7, <1>9, <1>11, <1>12, <1>13 DEF IInv

(* The inductive invariant: the shape of the memory, what the holder of    *)
(* hashmap_lock is about to write, and where the names are.                *)
THEOREM Invariance == Spec => []IInv
<1>1. Init => IInv
  BY InitInv
<1>2. IInv /\ [Next]_vars => IInv'
  BY TypeStep, ShapeStep, SlotStep, MoveStep, LiveStep, ChainStep, SizeStep,
     ReaderInvStep DEF IInv
<1> QED
  BY <1>1, <1>2, PTL DEF Spec

(* Every variable keeps its type; the two tables that a rehash has are at  *)
(* most twice as long as table_size.                                       *)
THEOREM TypeCorrect == Spec => []TypeOK
<1>1. IInv => TypeOK
  BY DEF IInv
<1> QED
  BY <1>1, Invariance, PTL

(* A hashmap_get without the lock reaches into an array at a slot it has,  *)
(* or into one that was freed.                                             *)
THEOREM NeverOutOfBounds == Spec => []InBounds
<1>1. IInv => InBounds
  BY DEF IInv, InBounds, ReaderInv, Accessible
<1> QED
  BY <1>1, Invariance, PTL

-----------------------------------------------------------------------------
(* The dictionary.                                                         *)

(* The entries of the map are the ones in the slots that hold its names;   *)
(* the slot hashmap_rehash has moved is counted twice until hashmap_put    *)
(* returns.                                                                *)
LEMMA ContentsFacts ==
  ASSUME IInv
  PROVE  /\ \A e \in Contents :
              \E a, c : Live(a, c) /\ e = <<heap[a][c].key, heap[a][c].data>>
         /\ \A a, c :
              Live(a, c) => <<heap[a][c].key, heap[a][c].data>> \in Contents
<1> USE DEF IInv
<1>1. /\ Depth \in Nat /\ DOMAIN stack = 1..Depth
      /\ \A d \in 1..Depth : stack[d] \in Frames(Len(heap))
      /\ stack # <<>> => Top = stack[Depth]
  BY StackFacts
<1>2. /\ data \in DOMAIN heap /\ DOMAIN heap = 1..Len(heap)
      /\ \A a \in DOMAIN heap : DOMAIN heap[a] \subseteq Nat
  BY HeapFacts
<1>3. ASSUME NEW a, NEW c, Live(a, c)
      PROVE  <<heap[a][c].key, heap[a][c].data>> \in Contents
  <2>1. /\ a \in DOMAIN heap /\ c \in DOMAIN heap[a] /\ c \in Nat /\ a # 0
        /\ heap[a][c].in_use = 1
    BY <1>2, <1>3 DEF Live
  <2>2. CASE a = data
    BY <2>1, <2>2 DEF Contents, Entries
  <2>3. CASE a # data
    <3>1. PICK d \in DOMAIN stack : stack[d].old = a /\ MovedTo(d) <= c
      BY <1>3, <2>3 DEF Live
    <3>2. stack[d].next \in Nat
      BY <1>1 DEF Frames
    <3>3. stack[d].next <= c
      BY <2>1, <3>1, <3>2 DEF MovedTo
    <3>4. <<heap[a][c].key, heap[a][c].data>>
            \in Entries(stack[d].old, stack[d].next)
      BY <2>1, <3>1, <3>3 DEF Entries
    <3> QED
      BY <2>1, <3>1, <3>4 DEF Contents
  <2> QED
    BY <2>2, <2>3
<1>4. ASSUME NEW e \in Contents
      PROVE  \E a, c : Live(a, c) /\ e = <<heap[a][c].key, heap[a][c].data>>
  <2>1. CASE e \in Entries(data, 0)
    BY <1>2, <2>1 DEF Entries, Live
  <2>2. CASE e \notin Entries(data, 0)
    <3>1. PICK d \in DOMAIN stack :
            stack[d].old # 0 /\ e \in Entries(stack[d].old, stack[d].next)
      BY <2>2 DEF Contents
    <3>2. PICK c \in DOMAIN heap[stack[d].old] :
            /\ stack[d].next <= c /\ heap[stack[d].old][c].in_use = 1
            /\ e = <<heap[stack[d].old][c].key, heap[stack[d].old][c].data>>
      BY <3>1 DEF Entries
    <3>3. stack[d].old \in DOMAIN heap /\ stack[d].next \in Nat
      BY <1>1, <3>1, OldFacts DEF Frames
    <3>4. CASE MovedTo(d) <= c
      BY <3>2, <3>3, <3>4 DEF Live
    <3>5. CASE ~(MovedTo(d) <= c)
      <4>1. pc = "count" /\ d = Depth - 1 /\ c = stack[d].next
        BY <1>2, <3>2, <3>3, <3>5 DEF MovedTo
      <4>2. Depth \in DOMAIN stack \ {1}
        BY <1>1, <4>1
      <4>3. stack # <<>> /\ Top = stack[Depth]
        BY <1>1, <4>2
      <4>4. heap[stack[d].old][c] =
              [in_use |-> 1, key |-> Top.key, data |-> Top.data]
        BY <4>1, <4>2, <4>3 DEF MoveInv
      <4>5. e = <<Top.key, Top.data>>
        BY <3>2, <4>4
      <4>6. /\ index \in DOMAIN heap[data]
            /\ heap[data][index] =
                 [in_use |-> 1, key |-> Top.key, data |-> Top.data]
        BY <4>1 DEF SlotInv, slots
      <4>7. /\ heap[data][index].in_use = 1
            /\ heap[data][index].key = Top.key
            /\ heap[data][index].data = Top.data
        BY <4>6
      <4> QED
        BY <1>2, <4>5, <4>6, <4>7 DEF Live
    <3> QED
      BY <3>4, <3>5
  <2> QED
    BY <2>1, <2>2
<1> QED
  BY <1>3, <1>4

(* What the map has for a name is in the one slot that holds it.           *)
LEMMA DictFacts ==
  ASSUME IInv, NEW k \in Keys
  PROVE  /\ \A a, c : Live(a, c) /\ heap[a][c].key = k =>
                        Dict[k] = heap[a][c].data /\ Dict[k] # NULL
         /\ (\A a, c : Live(a, c) => heap[a][c].key # k) => Dict[k] = NULL
<1> USE DEF IInv
<1>1. Dict[k] = IF \E e \in Contents : e[1] = k
                  THEN (CHOOSE e \in Contents : e[1] = k)[2] ELSE NULL
  BY DEF Dict
<1>2. ASSUME NEW a, NEW c, Live(a, c), heap[a][c].key = k
      PROVE  Dict[k] = heap[a][c].data /\ Dict[k] # NULL
  <2>1. PICK p \in Contents : p = <<heap[a][c].key, heap[a][c].data>>
    BY <1>2, ContentsFacts
  <2>2. p[1] = k
    BY <1>2, <2>1
  <2>3. PICK e \in Contents :
          e[1] = k /\ e = CHOOSE f \in Contents : f[1] = k
    BY <2>2
  <2>4. PICK b, d : Live(b, d) /\ e = <<heap[b][d].key, heap[b][d].data>>
    BY ContentsFacts
  <2>5. heap[b][d].key = k /\ e[2] = heap[b][d].data
    BY <2>3, <2>4
  <2>6. b = a /\ d = c
    BY <1>2, <2>4, <2>5 DEF LiveInv, Live
  <2>7. Dict[k] = heap[a][c].data
    BY <1>1, <2>3, <2>5, <2>6
  <2>8. heap[a][c].data \in Values
    BY <1>2 DEF LiveInv, Live
  <2>9. NULL \notin Values
    BY HashMapAssumption DEF HashMapAssumption, Values
  <2> QED
    BY <2>7, <2>8, <2>9
<1>3. ASSUME \A a, c : Live(a, c) => heap[a][c].key # k
      PROVE  Dict[k] = NULL
  <2>1. ASSUME NEW e \in Contents
        PROVE  e[1] # k
    <3>1. PICK a, c : Live(a, c) /\ e = <<heap[a][c].key, heap[a][c].data>>
      BY ContentsFacts
    <3> QED
      BY <1>3, <3>1
  <2> QED
    BY <1>1, <2>1
<1> QED
  BY <1>2, <1>3

(* When no one holds the lock, the map is what is in the table.            *)
LEMMA IdleFacts ==
  ASSUME IInv, pc = "idle", NEW k \in Keys
  PROVE  /\ \A c \in Used : slots[c].key = k =>
                              Dict[k] = slots[c].data /\ Dict[k] # NULL
         /\ (\A c \in Used : slots[c].key # k) => Dict[k] = NULL
<1> USE DEF IInv
<1>1. stack = <<>> /\ data \in DOMAIN heap
  BY DEF ShapeInv, TypeOK
<1>2. \A a, c : Live(a, c) <=> a = data /\ c \in Used
  BY <1>1 DEF Live, Used, slots
<1> QED
  BY <1>2, DictFacts DEF slots

(* hashmap_get finds every name of the map with its element, and no other. *)
THEOREM AlwaysFound == Spec => []Found
<1>1. ASSUME IInv
      PROVE  Found
  <2> SUFFICES ASSUME pc = "idle", NEW k \in Keys
               PROVE  IF Dict[k] = NULL THEN Lookup(k) = NotFound
                      ELSE /\ Lookup(k) # NotFound
                           /\ slots[Lookup(k)].data = Dict[k]
    BY DEF Found
  <2>1. Lookup(k) = NotFound <=> \A c \in Used : slots[c].key # k
    BY <1>1, LookupAbsent DEF IInv
  <2>2. CASE Lookup(k) = NotFound
    BY <1>1, <2>1, <2>2, IdleFacts
  <2>3. CASE Lookup(k) # NotFound
    <3>1. table_size \in Nat \ {0}
      BY <1>1 DEF IInv, TypeOK
    <3>2. Lookup(k) \in 0..(table_size - 1) /\ Holds(Lookup(k), k)
      BY <2>3, <3>1, LookupFinds
    <3>3. Lookup(k) \in Used /\ slots[Lookup(k)].key = k
      BY <1>1, <3>2 DEF IInv, ShapeInv, Used, Holds
    <3> QED
      BY <1>1, <2>3, <3>3, IdleFacts
  <2> QED
    BY <2>2, <2>3
<1> QED
  BY <1>1, Invariance, PTL

(* hashmap_iterate visits each name of the map once, and m->size counts    *)
(* them.                                                                   *)
THEOREM EachListedOnce == Spec => []Listed
<1>1. ASSUME IInv
      PROVE  Listed
  <2> SUFFICES ASSUME pc = "idle"
               PROVE  /\ size = Cardinality(HashmapIterate)
                      /\ \A i, j \in HashmapIterate :
                           slots[i].key = slots[j].key => i = j
                      /\ {slots[i].key : i \in HashmapIterate} =
                           {k \in Keys : Dict[k] # NULL}
    BY DEF Listed
  <2>1. /\ IsFiniteSet(Used)
        /\ \A c \in Used : slots[c].key \in Keys
        /\ \A c, e \in Used : slots[c].key = slots[e].key => c = e
        /\ size = Cardinality(Used)
    BY <1>1, UsedFacts DEF IInv, SizeInv
  <2>2. HashmapIterate = Used
    <3>1. CASE size = 0
      <4>1. PICK S : S = Used
        OBVIOUS
      <4>2. IsFiniteSet(S) => (Cardinality(S) = 0 <=> S = {})
        BY FS_EmptySet
      <4> QED
        BY <2>1, <3>1, <4>1, <4>2 DEF HashmapIterate
    <3>2. CASE size # 0
      <4>1. DOMAIN slots = 0..(table_size - 1)
        BY <1>1 DEF IInv, ShapeInv
      <4>2. \A c \in DOMAIN slots : slots[c].in_use \in {0, 1}
        BY <1>1, SlotFacts DEF IInv
      <4> QED
        BY <3>2, <4>1, <4>2 DEF HashmapIterate, Used
    <3> QED
      BY <3>1, <3>2
  <2>3. {slots[i].key : i \in Used} = {k \in Keys : Dict[k] # NULL}
    BY <1>1, <2>1, IdleFacts
  <2> QED
    BY <2>1, <2>2, <2>3
<1> QED
  BY <1>1, Invariance, PTL

(* What DictFacts says of every name.                                      *)
Described ==
  \A k \in Keys :
    /\ \A a, c : Live(a, c) /\ heap[a][c].key = k =>
                   Dict[k] = heap[a][c].data /\ Dict[k] # NULL
    /\ (\A a, c : Live(a, c) => heap[a][c].key # k) => Dict[k] = NULL

(* Each step puts a name, takes one away, or leaves the dictionary.        *)
LEMMA DictStep ==
  ASSUME IInv, [Next]_vars, Described, Described'
  PROVE  [Names!MapNext]_Dict
<1> USE DEF IInv
<1>1. /\ DOMAIN Dict = Keys /\ DOMAIN Dict' = Keys
      /\ \A f : (\A k \in Keys : f[k] = Dict'[k])
                /\ f = [k \in Keys |-> f[k]] => Dict' = f
      /\ Dict = [k \in Keys |-> Dict[k]]
      /\ Dict' = [k \in Keys |-> Dict'[k]]
  BY DEF Dict
<1>2. ASSUME NEW k \in Keys,
             \A a, c : Live(a, c) /\ heap[a][c].key = k =>
               /\ Live(a, c)' /\ heap'[a][c].key = k
               /\ heap'[a][c].data = heap[a][c].data,
             \A a, c : Live(a, c)' /\ heap'[a][c].key = k =>
               Live(a, c) /\ heap[a][c].key = k
      PROVE  Dict'[k] = Dict[k]
  <2>1. CASE \E a, c : Live(a, c) /\ heap[a][c].key = k
    BY <1>2, <2>1 DEF Described
  <2>2. CASE ~\E a, c : Live(a, c) /\ heap[a][c].key = k
    BY <1>2, <2>2 DEF Described
  <2> QED
    BY <2>1, <2>2
<1>3. /\ Depth \in Nat /\ DOMAIN stack = 1..Depth
      /\ \A d \in 1..Depth : stack[d] \in Frames(Len(heap))
      /\ stack = <<>> <=> Depth = 0
      /\ stack # <<>> => Depth \in 1..Depth /\ Top = stack[Depth]
  BY StackFacts
<1>4. NULL \notin Values
  BY HashMapAssumption DEF HashMapAssumption, Values
<1>5. CASE ~PutInUse /\ ~RemoveInUse
  <2>1. LiveKept
    BY <1>5, KeptStep
  <2>2. \A k \in Keys : Dict'[k] = Dict[k]
    BY <1>2, <2>1 DEF LiveKept
  <2>3. Dict' = Dict
    BY <1>1, <2>2
  <2> QED
    BY <2>3
<1>6. CASE PutInUse
  <2>1. PICK k \in Keys, x \in Values : k = Top.key /\ x = Top.data
    BY <1>3, <1>6, PutLive DEF Frames
  <2>2. heap'[data][index].key = k /\ heap'[data][index].data = x
    <3>1. heap'[data][index] = [in_use |-> 1, key |-> Top.key,
                                data |-> Top.data]
      BY <1>6, PutLive
    <3> QED
      BY <2>1, <3>1
  <2>3. Dict'[k] = x
    BY <1>6, <2>2, PutLive DEF Described
  <2>4. ASSUME NEW n \in Keys, n # k
        PROVE  Dict'[n] = Dict[n]
    <3>1. ASSUME NEW a, NEW c, Live(a, c), heap[a][c].key = n
          PROVE  /\ Live(a, c)' /\ heap'[a][c].key = n
                 /\ heap'[a][c].data = heap[a][c].data
      <4>1. CASE Depth = 1
        BY <1>6, <3>1, <4>1, PutLive
      <4>2. CASE Depth # 1
        <5>1. Depth \in 2..Depth
          BY <1>3, <1>6, <4>2, PutLive
        <5>2. heap[stack[Depth - 1].old][stack[Depth - 1].next].key = k
          BY <1>3, <1>6, <2>1, <5>1, MovedIsLive, PutLive
        <5> QED
          BY <1>6, <2>4, <3>1, <5>2, PutLive
      <4> QED
        BY <4>1, <4>2
    <3>2. ASSUME NEW a, NEW c, Live(a, c)', heap'[a][c].key = n
          PROVE  Live(a, c) /\ heap[a][c].key = n
      <4>1. ~(a = data /\ c = index)
        BY <2>2, <2>4, <3>2
      <4>2. Live(a, c)
        BY <1>6, <3>2, <4>1, PutLive
      <4> QED
        BY <1>6, <3>2, <4>2, PutLive
    <3> QED
      BY <1>2, <3>1, <3>2
  <2>5. CASE Depth = 1
    <3>1. \A a, c : Live(a, c) => heap[a][c].key # k
      <4>1. pc = "in_use" /\ stack # <<>>
        BY <1>6, PutLive
      <4> QED
        BY <1>3, <2>1, <2>5, <4>1 DEF LiveInv, Live
    <3>2. Dict[k] = NULL
      BY <3>1 DEF Described
    <3>3. Dict' = [Dict EXCEPT ![k] = x]
      BY <1>1, <2>3, <2>4
    <3>4. Dict' # Dict
      BY <1>4, <2>3, <3>2
    <3> QED
      BY <3>2, <3>3, <3>4 DEF Names!MapNext, Names!Put
  <2>6. CASE Depth # 1
    <3>1. Depth \in 2..Depth
      BY <1>3, <1>6, <2>6, PutLive
    <3>2. /\ Live(stack[Depth - 1].old, stack[Depth - 1].next)
          /\ heap[stack[Depth - 1].old][stack[Depth - 1].next].key = k
          /\ heap[stack[Depth - 1].old][stack[Depth - 1].next].data = x
      BY <1>3, <1>6, <2>1, <3>1, MovedIsLive, PutLive
    <3>3. Dict[k] = x
      BY <3>2 DEF Described
    <3>4. \A n \in Keys : Dict'[n] = Dict[n]
      BY <2>3, <2>4, <3>3
    <3>5. Dict' = Dict
      BY <1>1, <3>4
    <3> QED
      BY <3>5
  <2> QED
    BY <2>5, <2>6
<1>7. CASE RemoveInUse
  <2>1. PICK k \in Keys : k = heap[data][index].key
    BY <1>7, RemoveLive DEF LiveInv, Live
  <2>2. Dict[k] # NULL
    BY <1>7, <2>1, RemoveLive DEF Described
  <2>3. \A a, c : Live(a, c)' => heap'[a][c].key # k
    <3>1. /\ Live(data, index)
          /\ \A a, c : Live(a, c)' => /\ Live(a, c) /\ ~(a = data /\ c = index)
                                      /\ heap'[a][c] = heap[a][c]
      BY <1>7, RemoveLive
    <3>2. \A a, c, b, e : Live(a, c) /\ Live(b, e)
                          /\ heap[a][c].key = heap[b][e].key
                          => a = b /\ c = e
      BY DEF LiveInv, Live
    <3> SUFFICES ASSUME NEW a, NEW c, Live(a, c)', heap'[a][c].key = k
                 PROVE  FALSE
      OBVIOUS
    <3>3. Live(a, c) /\ heap[a][c].key = k /\ ~(a = data /\ c = index)
      BY <3>1
    <3> QED
      BY <2>1, <3>1, <3>2, <3>3
  <2>4. Dict'[k] = NULL
    BY <2>3 DEF Described
  <2>5. ASSUME NEW n \in Keys, n # k
        PROVE  Dict'[n] = Dict[n]
    <3>1. ASSUME NEW a, NEW c, Live(a, c), heap[a][c].key = n
          PROVE  /\ Live(a, c)' /\ heap'[a][c].key = n
                 /\ heap'[a][c].data = heap[a][c].data
      BY <1>7, <2>1, <2>5, <3>1, RemoveLive
    <3>2. ASSUME NEW a, NEW c, Live(a, c)', heap'[a][c].key = n
          PROVE  Live(a, c) /\ heap[a][c].key = n
      BY <1>7, <3>2, RemoveLive
    <3> QED
      BY <1>2, <3>1, <3>2
  <2>6. Dict' = [Dict EXCEPT ![k] = NULL]
    BY <1>1, <2>4, <2>5
  <2>7. Dict' # Dict
    BY <2>2, <2>4
  <2> QED
    BY <2>2, <2>6, <2>7 DEF Names!MapNext, Names!Remove
<1> QED
  BY <1>5, <1>6, <1>7

(* The table with its chains and its rehashes implements the dictionary    *)
(* NameMap: a put adds one name, a remove takes one away, and a rehash     *)
(* changes nothing, at any of its steps.                                   *)
THEOREM Implementation == Spec => MapImplemented
<1>1. Init => Names!MapInit
  <2> SUFFICES ASSUME Init
               PROVE  Dict = [k \in Keys |-> NULL]
    BY DEF Names!MapInit
  <2>1. IInv
    BY InitInv
  <2>2. Used = {}
    <3>1. PICK S : S = Used
      OBVIOUS
    <3>2. IsFiniteSet(Used) /\ Cardinality(Used) = 0
      BY <2>1, UsedFacts DEF IInv, SizeInv, Init
    <3>3. IsFiniteSet(S) => (Cardinality(S) = 0 <=> S = {})
      BY FS_EmptySet
    <3> QED
      BY <3>1, <3>2, <3>3
  <2>3. \A k \in Keys : Dict[k] = NULL
    BY <2>1, <2>2, IdleFacts DEF Init
  <2> QED
    BY <2>3 DEF Dict
<1>2. IInv => Described
  BY DictFacts DEF Described
<1>3. IInv /\ IInv' /\ [Next]_vars => [Names!MapNext]_Dict
  <2>1. IInv' => Described'
    BY <1>2, PTL
  <2> QED
    BY <1>2, <2>1, DictStep
<1> QED
  BY <1>1, <1>3, Invariance, PTL DEF Spec, MapImplemented, Names!MapSpec

=============================================================================
