-------------------------- MODULE ProtocolQueueProofs -------------------------
(***************************************************************************)
(* Theorems about ProtocolQueue, proved for any workers, messages and      *)
(* number of calls of enqueue:                                             *)
(*   Invariance    IInv, the inductive invariant                           *)
(*   TypeCorrect   the types                                               *)
(*   InOrder       messages leave once and in order, no memory is misused  *)
(*   CountedRight  size is one less than the messages that wait            *)
(*   LastOneWaits  one message at most is left when main() waits           *)
(* First, Chain, which follows the links from node to node, is shown to be *)
(* the list whenever there is one (ChainIs); from then on the steps are    *)
(* about a sequence that loses its head and gains a last element.          *)
(***************************************************************************)
EXTENDS ProtocolQueue, FiniteSetTheorems, SequenceTheorems,
        WellFoundedInduction, TLAPS

USE DEF pool, fields, locals, past

-----------------------------------------------------------------------------
(* The list that the links make.                                           *)

(* A nonempty set of numbers has a least one.                              *)
LEMMA Least ==
  ASSUME NEW T \in SUBSET Nat, T # {}
  PROVE  \E x \in T : \A y \in T : x <= y
<1> DEFINE R == OpToRel(<, Nat)
<1>1. IsWellFoundedOn(R, Nat)
  BY NatLessThanWellFounded
<1>2. \A x, y \in Nat : <<y, x>> \in R <=> y < x
  BY DEF OpToRel
<1> HIDE DEF R
<1>3. PICK x \in T : \A y \in T : <<y, x>> \notin R
  BY <1>1, WFMin
<1>4. ASSUME NEW y \in T
      PROVE  x <= y
  <2>1. x \in Nat /\ y \in Nat
    OBVIOUS
  <2>2. ~(y < x)
    BY <1>2, <1>3, <2>1
  <2> QED
    BY <2>1, <2>2
<1> QED
  BY <1>4

(* Links follows the prev of one node to the next: the function that its   *)
(* recursive definition speaks of exists.                                  *)
LEMMA LinksFollow ==
  ASSUME NEW first, NEW m
  PROVE  /\ Links(first, m)[0] = first
         /\ \A d \in 1..MaxEnqueues :
              Links(first, m)[d] = Follow(Links(first, m)[d - 1], m)
<1> DEFINE Up(k, g) ==
             g = [d \in 0..k |-> IF d = 0 THEN first ELSE Follow(g[d - 1], m)]
           Bad == {k \in 0..MaxEnqueues : \A g : ~Up(k, g)}
<1> USE QueueAssumption DEF QueueAssumption
<1>1. Up(0, [d \in 0..0 |-> first])
  OBVIOUS
<1>2. Bad = {}
  <2> SUFFICES ASSUME Bad # {}
               PROVE  FALSE
    OBVIOUS
  <2>1. \E x \in Bad : \A y \in Bad : x <= y
    <3>1. Bad \in SUBSET Nat
      OBVIOUS
    <3> HIDE DEF Bad
    <3> QED
      BY <3>1, Least
  <2>2. PICK x \in Bad : \A y \in Bad : x <= y
    BY <2>1
  <2>3. x \in 0..MaxEnqueues /\ x # 0
    BY <1>1
  <2>4. x - 1 \in 0..MaxEnqueues /\ x - 1 \notin Bad
    BY <2>2, <2>3
  <2>5. PICK g : Up(x - 1, g)
    BY <2>4
  <2>6. DOMAIN g = 0..(x - 1) /\ g[0] = first
        /\ \A d \in 1..(x - 1) : g[d] = Follow(g[d - 1], m)
    BY <2>3, <2>5
  <2> DEFINE h == [d \in 0..x |-> IF d = x THEN Follow(g[x - 1], m) ELSE g[d]]
  <2>7. \A d \in 0..x : h[d] = IF d = 0 THEN first ELSE Follow(h[d - 1], m)
    BY <2>3, <2>6
  <2>8. Up(x, h)
    BY <2>7
  <2> QED
    BY <2>2, <2>8
<1>3. \E g : Up(MaxEnqueues, g)
  BY <1>2
<1>4. Up(MaxEnqueues, Links(first, m))
  BY <1>3 DEF Links
<1> HIDE DEF Bad
<1> QED
  BY <1>4

(* A list is a nonempty sequence of as many nodes at most as there are.    *)
LEMMA ListFacts ==
  ASSUME NEW c, NEW first, NEW last, NEW m, DOMAIN m \subseteq Nodes,
         IsList(c, first, last, m)
  PROVE  /\ Len(c) \in 1..MaxEnqueues /\ DOMAIN c = 1..Len(c)
         /\ \A i \in 1..Len(c) : c[i] \in DOMAIN m
         /\ first \in DOMAIN m /\ last \in DOMAIN m /\ last # NULL
<1>1. c \in Seq(DOMAIN m) /\ c # <<>>
  BY DEF IsList
<1>2. Len(c) \in Nat \ {0} /\ DOMAIN c = 1..Len(c)
      /\ c \in [1..Len(c) -> DOMAIN m]
  BY <1>1, LenProperties, EmptySeq
<1>3. c \in Injection(1..Len(c), Nodes)
  BY <1>2 DEF IsList, Injection, IsInjective
<1>4. Len(c) <= MaxEnqueues
  <2>1. MaxEnqueues \in Nat
    BY QueueAssumption DEF QueueAssumption
  <2>2. /\ IsFiniteSet(Nodes) /\ Cardinality(Nodes) = MaxEnqueues
        /\ Cardinality(1..Len(c)) = Len(c)
    BY <1>2, <2>1, FS_Interval DEF Nodes
  <2>3. Cardinality(1..Len(c)) <= Cardinality(Nodes)
    BY <1>3, <2>2, FS_Injection
  <2> QED
    BY <2>2, <2>3
<1>5. first = c[1] /\ last = c[Len(c)]
  BY DEF IsList
<1>6. NULL \notin Nodes
  BY QueueAssumption DEF QueueAssumption, Nodes
<1> QED
  BY <1>2, <1>4, <1>5, <1>6

(* The chain of the links is the list.                                     *)
LEMMA ChainIs ==
  ASSUME NEW c, NEW first, NEW last, NEW m, DOMAIN m \subseteq Nodes,
         IsList(c, first, last, m)
  PROVE  ChainOf(first, last, m) = c
<1> DEFINE at == Links(first, m)
           ends == {d \in 0..MaxEnqueues : last # NULL /\ at[d] = last}
           Off == {d \in 0..(Len(c) - 1) : at[d] # c[d + 1]}
<1>1. /\ Len(c) \in 1..MaxEnqueues /\ DOMAIN c = 1..Len(c)
      /\ \A i \in 1..Len(c) : c[i] \in DOMAIN m
      /\ last # NULL
  BY ListFacts
<1>2. /\ first = c[1] /\ last = c[Len(c)]
      /\ \A i, j \in DOMAIN c : c[i] = c[j] => i = j
      /\ \A i \in 1..(Len(c) - 1) : m[c[i]].prev = c[i + 1]
  BY DEF IsList
<1>3. MaxEnqueues \in Nat
  BY QueueAssumption DEF QueueAssumption
<1>4. Off = {}
  <2> SUFFICES ASSUME Off # {}
               PROVE  FALSE
    OBVIOUS
  <2>1. \E x \in Off : \A y \in Off : x <= y
    <3>1. Off \in SUBSET Nat
      BY <1>1
    <3> HIDE DEF Off
    <3> QED
      BY <3>1, Least
  <2>2. PICK x \in Off : \A y \in Off : x <= y
    BY <2>1
  <2>3. x # 0
    BY <1>2, LinksFollow
  <2>4. x \in 1..(Len(c) - 1) /\ x - 1 \notin Off
    BY <1>1, <2>2, <2>3
  <2>5. at[x - 1] = c[x]
    BY <1>1, <2>4
  <2>6. at[x] = Follow(at[x - 1], m)
    BY <1>1, <1>3, <2>4, LinksFollow
  <2>7. at[x] = c[x + 1]
    BY <1>1, <1>2, <2>4, <2>5, <2>6 DEF Follow
  <2> QED
    BY <2>2, <2>7
<1>5. \A d \in 0..(Len(c) - 1) : at[d] = c[d + 1]
  BY <1>4
<1>6. Len(c) - 1 \in ends
  BY <1>1, <1>2, <1>3, <1>5
<1>7. \A e \in ends : Len(c) - 1 <= e
  BY <1>1, <1>2, <1>5
<1>8. (CHOOSE e \in ends : \A f \in ends : e <= f) = Len(c) - 1
  <2>1. \A e \in ends : e \in Int
    OBVIOUS
  <2>2. \A e \in ends : (\A f \in ends : e <= f) => e = Len(c) - 1
    BY <1>1, <1>6, <1>7, <2>1
  <2> HIDE DEF ends
  <2> QED
    BY <1>6, <1>7, <2>2
<1>9. ChainOf(first, last, m) = [d \in 1..Len(c) |-> at[d - 1]]
  <2>1. ends # {}
    BY <1>6
  <2>2. ChainOf(first, last, m) =
          [d \in 1..(1 + CHOOSE e \in ends : \A f \in ends : e <= f) |->
             at[d - 1]]
    BY <2>1 DEF ChainOf
  <2> HIDE DEF ends
  <2>3. 1 + (Len(c) - 1) = Len(c)
    BY <1>1
  <2> QED
    BY <1>8, <2>2, <2>3
<1>10. c = [d \in 1..Len(c) |-> c[d]]
  <2>1. c \in [1..Len(c) -> DOMAIN m]
    BY LenProperties DEF IsList
  <2> QED
    BY <2>1
<1>11. \A d \in 1..Len(c) : at[d - 1] = c[d]
  BY <1>1, <1>5
<1> HIDE DEF at
<1> QED
  BY <1>9, <1>10, <1>11

(* Without a back there is none.                                           *)
LEMMA ChainNone ==
  ASSUME NEW first, NEW m
  PROVE  ChainOf(first, NULL, m) = <<>>
BY DEF ChainOf


-----------------------------------------------------------------------------
(* What the steps do to a list.                                            *)

(* A write elsewhere leaves the list: to other nodes, or to the prev of    *)
(* the back.                                                               *)
LEMMA ListStays ==
  ASSUME NEW c, NEW first, NEW last, NEW m, IsList(c, first, last, m), NEW m2,
         \A i \in 1..Len(c) :
           /\ c[i] \in DOMAIN m2 /\ m2[c[i]].next = m[c[i]].next
           /\ i < Len(c) => m2[c[i]].prev = m[c[i]].prev
  PROVE  IsList(c, first, last, m2)
<1>1. /\ Len(c) \in Nat /\ DOMAIN c = 1..Len(c)
      /\ c \in [1..Len(c) -> DOMAIN m]
  BY LenProperties DEF IsList
<1>2. c \in [1..Len(c) -> DOMAIN m2]
  BY <1>1
<1>3. c \in Seq(DOMAIN m2)
  BY <1>1, <1>2, SeqDef
<1>4. \A i \in 1..(Len(c) - 1) :
        m2[c[i]].prev = c[i + 1] /\ m2[c[i + 1]].next = c[i]
  <2> SUFFICES ASSUME NEW i \in 1..(Len(c) - 1)
               PROVE  m2[c[i]].prev = c[i + 1] /\ m2[c[i + 1]].next = c[i]
    OBVIOUS
  <2>1. i \in 1..Len(c) /\ i + 1 \in 1..Len(c) /\ i < Len(c)
    BY <1>1
  <2>2. m[c[i]].prev = c[i + 1] /\ m[c[i + 1]].next = c[i]
    BY DEF IsList
  <2> QED
    BY <2>1, <2>2
<1> QED
  BY <1>3, <1>4 DEF IsList

(* dequeue takes the front.                                                *)
LEMMA ListTail ==
  ASSUME NEW c, NEW first, NEW last, NEW m, IsList(c, first, last, m),
         Len(c) > 1
  PROVE  /\ IsList(Tail(c), m[first].prev, last, m)
         /\ Len(Tail(c)) = Len(c) - 1
         /\ m[m[first].prev].next = first
         /\ \A i \in DOMAIN Tail(c) : Tail(c)[i] # first
<1> DEFINE t == Tail(c)
<1>1. /\ c \in Seq(DOMAIN m) /\ c # <<>>
      /\ Len(c) \in Nat /\ DOMAIN c = 1..Len(c)
  BY LenProperties DEF IsList
<1>2. /\ t \in Seq(DOMAIN m) /\ Len(t) = Len(c) - 1
      /\ \A i \in 1..Len(t) : t[i] = c[i + 1]
  BY <1>1, HeadTailProperties
<1>3. DOMAIN t = 1..Len(t)
  BY <1>2, LenProperties
<1>4. /\ first = c[1] /\ last = c[Len(c)]
      /\ \A i, j \in DOMAIN c : c[i] = c[j] => i = j
      /\ \A i \in 1..(Len(c) - 1) :
           m[c[i]].prev = c[i + 1] /\ m[c[i + 1]].next = c[i]
  BY DEF IsList
<1> HIDE DEF t
<1>5. m[first].prev = c[2] /\ m[c[2]].next = first
  BY <1>1, <1>4
<1>6. m[first].prev = t[1] /\ last = t[Len(t)] /\ t # <<>>
  BY <1>1, <1>2, <1>4, <1>5, EmptySeq
<1>7. \A i, j \in DOMAIN t : t[i] = t[j] => i = j
  <2> SUFFICES ASSUME NEW i \in DOMAIN t, NEW j \in DOMAIN t, t[i] = t[j]
               PROVE  i = j
    OBVIOUS
  <2>1. /\ i + 1 \in DOMAIN c /\ j + 1 \in DOMAIN c
        /\ c[i + 1] = c[j + 1] /\ i \in Nat /\ j \in Nat
    BY <1>1, <1>2, <1>3
  <2> QED
    BY <1>4, <2>1
<1>8. \A i \in 1..(Len(t) - 1) :
        m[t[i]].prev = t[i + 1] /\ m[t[i + 1]].next = t[i]
  <2> SUFFICES ASSUME NEW i \in 1..(Len(t) - 1)
               PROVE  m[t[i]].prev = t[i + 1] /\ m[t[i + 1]].next = t[i]
    OBVIOUS
  <2>1. /\ i \in 1..Len(t) /\ i + 1 \in 1..Len(t) /\ i + 1 \in 1..(Len(c) - 1)
    BY <1>1, <1>2
  <2> QED
    BY <1>2, <1>4, <2>1
<1>9. IsList(t, m[first].prev, last, m)
  BY <1>2, <1>6, <1>7, <1>8 DEF IsList
<1>10. \A i \in DOMAIN t : t[i] # first
  BY <1>1, <1>2, <1>3, <1>4
<1> QED
  BY <1>2, <1>5, <1>9, <1>10 DEF t

(* enqueue adds at the back.                                               *)
LEMMA ListAppend ==
  ASSUME NEW c, NEW first, NEW last, NEW m, IsList(c, first, last, m),
         NEW x \in DOMAIN m, \A i \in DOMAIN c : c[i] # x,
         m[last].prev = x, m[x].next = last
  PROVE  /\ IsList(Append(c, x), first, x, m)
         /\ Len(Append(c, x)) = Len(c) + 1
<1> DEFINE t == Append(c, x)
<1>1. /\ c \in Seq(DOMAIN m) /\ c # <<>>
      /\ Len(c) \in Nat /\ DOMAIN c = 1..Len(c) /\ Len(c) > 0
  BY LenProperties, EmptySeq DEF IsList
<1>2. /\ t \in Seq(DOMAIN m) /\ t # <<>> /\ Len(t) = Len(c) + 1
      /\ \A i \in 1..Len(c) : t[i] = c[i]
      /\ t[Len(c) + 1] = x
  BY <1>1, AppendProperties
<1>3. DOMAIN t = 1..Len(t)
  BY <1>2, LenProperties
<1>4. /\ first = c[1] /\ last = c[Len(c)]
      /\ \A i, j \in DOMAIN c : c[i] = c[j] => i = j
      /\ \A i \in 1..(Len(c) - 1) :
           m[c[i]].prev = c[i + 1] /\ m[c[i + 1]].next = c[i]
  BY DEF IsList
<1> HIDE DEF t
<1>5. first = t[1] /\ x = t[Len(t)]
  BY <1>1, <1>2, <1>4
<1>6. \A i, j \in DOMAIN t : t[i] = t[j] => i = j
  <2> SUFFICES ASSUME NEW i \in DOMAIN t, NEW j \in DOMAIN t, t[i] = t[j]
               PROVE  i = j
    OBVIOUS
  <2>1. \A k \in DOMAIN t : k \in DOMAIN c \/ k = Len(c) + 1
    BY <1>1, <1>2, <1>3
  <2> QED
    BY <1>1, <1>2, <1>4, <2>1
<1>7. \A i \in 1..(Len(t) - 1) :
        m[t[i]].prev = t[i + 1] /\ m[t[i + 1]].next = t[i]
  <2> SUFFICES ASSUME NEW i \in 1..(Len(t) - 1)
               PROVE  m[t[i]].prev = t[i + 1] /\ m[t[i + 1]].next = t[i]
    OBVIOUS
  <2>1. CASE i = Len(c)
    BY <1>1, <1>2, <1>4, <2>1
  <2>2. CASE i # Len(c)
    <3>1. i \in 1..Len(c) /\ i + 1 \in 1..Len(c) /\ i \in 1..(Len(c) - 1)
      BY <1>1, <1>2, <2>2
    <3> QED
      BY <1>2, <1>4, <3>1
  <2> QED
    BY <2>1, <2>2
<1>8. IsList(t, first, x, m)
  BY <1>2, <1>5, <1>6, <1>7 DEF IsList
<1> QED
  BY <1>2, <1>8 DEF t

(* The first node.                                                         *)
LEMMA ListOne ==
  ASSUME NEW m, NEW x \in DOMAIN m
  PROVE  IsList(<<x>>, x, x, m) /\ Len(<<x>>) = 1
<1>1. <<x>> \in Seq(DOMAIN m) /\ Len(<<x>>) = 1 /\ <<x>>[1] = x /\ <<x>> # <<>>
  OBVIOUS
<1> QED
  BY <1>1 DEF IsList

-----------------------------------------------------------------------------
(* The messages of a list.                                                 *)

Texts(c, m) == [d \in DOMAIN c |-> m[c[d]].data]

(* The messages of a list are as many as its nodes.                        *)
LEMMA TextsType ==
  ASSUME NEW m, \A a \in DOMAIN m : m[a] \in Node, NEW c \in Seq(DOMAIN m)
  PROVE  Texts(c, m) \in Seq(Messages) /\ Len(Texts(c, m)) = Len(c)
<1>1. /\ Len(c) \in Nat /\ DOMAIN c = 1..Len(c)
      /\ \A i \in 1..Len(c) : c[i] \in DOMAIN m
  BY LenProperties
<1>2. \A a \in DOMAIN m : m[a].data \in Messages
  BY DEF Node
<1>3. Texts(c, m) \in [1..Len(c) -> Messages]
  BY <1>1, <1>2 DEF Texts
<1>4. Texts(c, m) \in Seq(Messages)
  BY <1>1, <1>3, SeqDef
<1>5. DOMAIN Texts(c, m) = 1..Len(c)
  BY <1>1 DEF Texts
<1> QED
  BY <1>1, <1>4, <1>5, LenProperties

(* A message that main() takes moves from the list to those taken.         *)
LEMMA TakeFirst ==
  ASSUME NEW m, \A a \in DOMAIN m : m[a] \in Node,
         NEW c \in Seq(DOMAIN m), c # <<>>, NEW t \in Seq(Messages)
  PROVE  t \o Texts(c, m) = Append(t, m[c[1]].data) \o Texts(Tail(c), m)
<1> DEFINE e == m[c[1]].data
           s == Texts(c, m)
           u == Texts(Tail(c), m)
<1>1. /\ Len(c) \in Nat /\ Len(c) > 0 /\ DOMAIN c = 1..Len(c)
      /\ \A i \in 1..Len(c) : c[i] \in DOMAIN m
  BY LenProperties, EmptySeq
<1>2. /\ Tail(c) \in Seq(DOMAIN m) /\ Len(Tail(c)) = Len(c) - 1
      /\ \A i \in 1..(Len(c) - 1) : Tail(c)[i] = c[i + 1]
  BY HeadTailProperties
<1>3. DOMAIN Tail(c) = 1..(Len(c) - 1)
  BY <1>2, LenProperties
<1>4. e \in Messages
  BY <1>1 DEF Node
<1>5. s \in Seq(Messages) /\ Len(s) = Len(c) /\ s # <<>>
  BY <1>1, TextsType, EmptySeq
<1>6. u \in Seq(Messages) /\ Len(u) = Len(c) - 1
  BY <1>2, TextsType
<1>7. \A i \in 1..Len(c) : s[i] = m[c[i]].data
  BY <1>1 DEF Texts
<1>8. \A i \in 1..(Len(c) - 1) : u[i] = m[c[i + 1]].data
  BY <1>2, <1>3 DEF Texts
<1> HIDE DEF e, s, u
<1>9. s = <<e>> \o u
  <2> DEFINE one == <<e>>
  <2>1. one \in Seq(Messages) /\ Len(one) = 1 /\ one[1] = e
    BY <1>4
  <2> HIDE DEF one
  <2>2. /\ one \o u \in Seq(Messages) /\ Len(one \o u) = 1 + Len(u)
        /\ \A i \in 1..(1 + Len(u)) :
             (one \o u)[i] = IF i <= 1 THEN one[i] ELSE u[i - 1]
    <3>1. /\ one \o u \in Seq(Messages) /\ Len(one \o u) = Len(one) + Len(u)
          /\ \A i \in 1..(Len(one) + Len(u)) :
               (one \o u)[i] = IF i <= Len(one) THEN one[i]
                               ELSE u[i - Len(one)]
      BY <1>6, <2>1, ConcatProperties
    <3> QED
      BY <2>1, <3>1
  <2>3. Len(one \o u) = Len(c)
    BY <1>1, <1>6, <2>2
  <2>4. \A i \in 1..Len(c) : s[i] = (one \o u)[i]
    <3> SUFFICES ASSUME NEW i \in 1..Len(c)
                 PROVE  s[i] = (one \o u)[i]
      OBVIOUS
    <3>1. i \in 1..(1 + Len(u))
      BY <1>1, <1>6
    <3>2. CASE i = 1
      BY <1>7, <2>1, <2>2, <3>1, <3>2 DEF e
    <3>3. CASE i # 1
      <4>1. i - 1 \in 1..(Len(c) - 1) /\ ~(i <= 1) /\ (i - 1) + 1 = i
        BY <1>1, <3>3
      <4>2. (one \o u)[i] = u[i - 1]
        BY <2>2, <3>1, <4>1
      <4> QED
        BY <1>7, <1>8, <4>1, <4>2
    <3> QED
      BY <3>2, <3>3
  <2>5. s = one \o u
    BY <1>5, <2>2, <2>3, <2>4, SeqEqual
  <2> QED
    BY <2>5 DEF one
<1>10. Append(t, e) = t \o <<e>>
  BY <1>4, AppendIsConcat
<1>11. <<e>> \in Seq(Messages)
  BY <1>4
<1>12. (t \o <<e>>) \o u = t \o (<<e>> \o u)
  BY <1>6, <1>11, ConcatAssociative
<1> QED
  BY <1>9, <1>10, <1>12 DEF e, s, u

(* A message that is linked joins the list.                                *)
LEMMA JoinLast ==
  ASSUME NEW m, \A a \in DOMAIN m : m[a] \in Node,
         NEW c \in Seq(DOMAIN m), NEW x \in DOMAIN m, NEW t \in Seq(Messages)
  PROVE  Append(t \o Texts(c, m), m[x].data) = t \o Texts(Append(c, x), m)
<1> DEFINE e == m[x].data
           s == Texts(c, m)
           u == Texts(Append(c, x), m)
<1>1. /\ Len(c) \in Nat /\ DOMAIN c = 1..Len(c)
      /\ \A i \in 1..Len(c) : c[i] \in DOMAIN m
  BY LenProperties
<1>2. /\ Append(c, x) \in Seq(DOMAIN m) /\ Len(Append(c, x)) = Len(c) + 1
      /\ \A i \in 1..Len(c) : Append(c, x)[i] = c[i]
      /\ Append(c, x)[Len(c) + 1] = x
  BY AppendProperties
<1>3. DOMAIN Append(c, x) = 1..(Len(c) + 1)
  BY <1>2, LenProperties
<1>4. e \in Messages
  BY DEF Node
<1>5. s \in Seq(Messages) /\ Len(s) = Len(c)
  BY TextsType
<1>6. u \in Seq(Messages) /\ Len(u) = Len(c) + 1
  BY <1>2, TextsType
<1>7. \A i \in 1..Len(c) : s[i] = m[c[i]].data
  BY <1>1 DEF Texts
<1>8. (\A i \in 1..Len(c) : u[i] = m[c[i]].data) /\ u[Len(c) + 1] = e
  BY <1>1, <1>2, <1>3 DEF Texts
<1> HIDE DEF e, s, u
<1>9. u = Append(s, e)
  <2>1. /\ Append(s, e) \in Seq(Messages) /\ Len(Append(s, e)) = Len(c) + 1
        /\ \A i \in 1..Len(c) : Append(s, e)[i] = s[i]
        /\ Append(s, e)[Len(c) + 1] = e
    BY <1>4, <1>5, AppendProperties
  <2>2. \A i \in 1..(Len(c) + 1) : i \in 1..Len(c) \/ i = Len(c) + 1
    BY <1>1
  <2>3. \A i \in 1..Len(u) : u[i] = Append(s, e)[i]
    BY <1>6, <1>7, <1>8, <2>1, <2>2
  <2> QED
    BY <1>1, <1>6, <2>1, <2>3, SeqEqual
<1>10. <<e>> \in Seq(Messages) /\ Append(s, e) = s \o <<e>>
  BY <1>4, <1>5, AppendIsConcat
<1>11. t \o s \in Seq(Messages)
  BY <1>5, ConcatProperties
<1>12. Append(t \o s, e) = (t \o s) \o <<e>>
  BY <1>4, <1>11, AppendIsConcat
<1>13. (t \o s) \o <<e>> = t \o (s \o <<e>>)
  BY <1>5, <1>10, ConcatAssociative
<1> QED
  BY <1>9, <1>10, <1>12, <1>13 DEF e, s, u


-----------------------------------------------------------------------------
(* The steps that write to memory.                                         *)

Typed(m) == \A a \in DOMAIN m : m[a] \in Node

(* A write to the prev of a node changes nothing else.                     *)
LEMMA SetPrev ==
  ASSUME NEW m, Typed(m), NEW a \in DOMAIN m, NEW x \in Pointers,
         NEW m2, m2 = [m EXCEPT ![a].prev = x]
  PROVE  /\ Typed(m2) /\ DOMAIN m2 = DOMAIN m
         /\ \A b \in DOMAIN m : /\ m2[b].data = m[b].data
                                /\ m2[b].next = m[b].next
                                /\ b # a => m2[b].prev = m[b].prev
         /\ m2[a].prev = x
<1>1. DOMAIN m2 = DOMAIN m
  OBVIOUS
<1>2. \A b \in DOMAIN m : b # a => m2[b] = m[b]
  OBVIOUS
<1>3. m2[a] = [m[a] EXCEPT !.prev = x]
  OBVIOUS
<1>4. m[a] \in Node
  BY DEF Typed
<1>5. /\ m2[a] \in Node /\ m2[a].prev = x
      /\ m2[a].data = m[a].data /\ m2[a].next = m[a].next
  BY <1>3, <1>4 DEF Node
<1>6. Typed(m2)
  BY <1>1, <1>2, <1>5 DEF Typed
<1> QED
  BY <1>1, <1>2, <1>5, <1>6

(* So does a write to its next.                                            *)
LEMMA SetNext ==
  ASSUME NEW m, Typed(m), NEW a \in DOMAIN m, NEW x \in Pointers,
         NEW m2, m2 = [m EXCEPT ![a].next = x]
  PROVE  /\ Typed(m2) /\ DOMAIN m2 = DOMAIN m
         /\ \A b \in DOMAIN m : /\ m2[b].data = m[b].data
                                /\ m2[b].prev = m[b].prev
                                /\ b # a => m2[b].next = m[b].next
         /\ m2[a].next = x
<1>1. DOMAIN m2 = DOMAIN m
  OBVIOUS
<1>2. \A b \in DOMAIN m : b # a => m2[b] = m[b]
  OBVIOUS
<1>3. m2[a] = [m[a] EXCEPT !.next = x]
  OBVIOUS
<1>4. m[a] \in Node
  BY DEF Typed
<1>5. /\ m2[a] \in Node /\ m2[a].next = x
      /\ m2[a].data = m[a].data /\ m2[a].prev = m[a].prev
  BY <1>3, <1>4 DEF Node
<1>6. Typed(m2)
  BY <1>1, <1>2, <1>5 DEF Typed
<1> QED
  BY <1>1, <1>2, <1>5, <1>6

(* malloc, and the data of the node.                                       *)
LEMMA NewNode ==
  ASSUME NEW m, Typed(m), NEW a, a \notin DOMAIN m, NEW d \in Messages,
         NEW m2, m2 = Put(m, a, [data |-> d, prev |-> Wild, next |-> Wild])
  PROVE  /\ Typed(m2) /\ DOMAIN m2 = DOMAIN m \cup {a}
         /\ \A b \in DOMAIN m : m2[b] = m[b]
         /\ m2[a].data = d
<1> DEFINE r == [data |-> d, prev |-> Wild, next |-> Wild]
<1>1. r \in Node /\ r.data = d
  BY DEF Node, Pointers
<1> HIDE DEF r
<1>2. m2 = [z \in DOMAIN m \cup {a} |-> IF z = a THEN r ELSE m[z]]
  BY DEF Put, r
<1>3. /\ DOMAIN m2 = DOMAIN m \cup {a} /\ m2[a] = r
      /\ \A b \in DOMAIN m : m2[b] = m[b]
  BY <1>2
<1> QED
  BY <1>1, <1>3 DEF Typed

-----------------------------------------------------------------------------
(* Types, phases and calls.                                                *)

(* Every operation of the pool keeps the types of its variables.           *)
LEMMA PoolType ==
  ASSUME Pool!PoolTypeOK
  PROVE  /\ \A w \in Workers : Pool!Start(w) => Pool!PoolTypeOK'
         /\ \A w \in Workers : Pool!Finish(w) => Pool!PoolTypeOK'
         /\ \A w \in Workers, j \in Jobs :
              Pool!SubmitByJob(w, j) => Pool!PoolTypeOK'
         /\ \A j \in Jobs : Pool!SubmitByCaller(j) => Pool!PoolTypeOK'
         /\ Pool!Wait => Pool!PoolTypeOK'
         /\ Pool!WaitReturns => Pool!PoolTypeOK'
         /\ UNCHANGED pool => Pool!PoolTypeOK'
<1> USE DEF Pool!PoolTypeOK
<1>1. ASSUME NEW w \in Workers, Pool!Start(w)
      PROVE  Pool!PoolTypeOK'
  <2>1. Head(queue) \in Jobs /\ Tail(queue) \in Seq(Jobs)
    BY <1>1, HeadTailProperties DEF Pool!Start
  <2> QED
    BY <1>1, <2>1 DEF Pool!Start
<1>2. ASSUME NEW w \in Workers, Pool!Finish(w)
      PROVE  Pool!PoolTypeOK'
  BY <1>2 DEF Pool!Finish
<1>3. ASSUME NEW w \in Workers, NEW j \in Jobs, Pool!SubmitByJob(w, j)
      PROVE  Pool!PoolTypeOK'
  BY <1>3, AppendProperties DEF Pool!SubmitByJob
<1>4. ASSUME NEW j \in Jobs, Pool!SubmitByCaller(j)
      PROVE  Pool!PoolTypeOK'
  BY <1>4, AppendProperties DEF Pool!SubmitByCaller
<1>5. Pool!Wait => Pool!PoolTypeOK'
  BY DEF Pool!Wait
<1>6. Pool!WaitReturns => Pool!PoolTypeOK'
  BY DEF Pool!WaitReturns
<1>7. UNCHANGED pool => Pool!PoolTypeOK'
  OBVIOUS
<1> QED
  BY <1>1, <1>2, <1>3, <1>4, <1>5, <1>6, <1>7

(* The program counters keep their types.                                  *)
LEMMA GotoType ==
  ASSUME TypeOK
  PROVE  /\ \A w \in Workers, x \in JobSteps, y \in JobSteps :
              Goto(w, x, y) => pc' \in [Workers -> JobSteps] /\ pc'[w] = y
                               /\ \A u \in Workers \ {w} : pc'[u] = pc[u]
         /\ \A x \in MainSteps, y \in MainSteps :
              MainGoto(x, y) => main' \in MainSteps
BY DEF TypeOK, Goto, MainGoto

(* The calls of enqueue are finitely many.                                 *)
LEMMA CallsFinite ==
  /\ IsFiniteSet(InEnqueue) /\ Cardinality(InEnqueue) \in Nat
  /\ IsFiniteSet(Counting) /\ Cardinality(Counting) \in Nat
<1>1. InEnqueue \in SUBSET Workers /\ Counting \in SUBSET Workers
  BY DEF InEnqueue, Counting
<1> QED
  BY <1>1, FS_Subset, FS_CardinalityType, QueueAssumption DEF QueueAssumption

(* The types of the counters.                                              *)
LEMMA NumberTypes ==
  ASSUME TypeOK
  PROVE  /\ MaxEnqueues \in Nat
         /\ size \in 0..MaxEnqueues /\ calls \in 0..MaxEnqueues
         /\ count \in [Workers \cup {Main} -> 0..MaxEnqueues]
         /\ \A t \in Workers \cup {Main} : count[t] \in 0..MaxEnqueues
         /\ Main \in Workers \cup {Main} /\ Main \notin Workers
<1>1. MaxEnqueues \in Nat /\ Main \notin Workers
  BY QueueAssumption DEF QueueAssumption, Main
<1>2. /\ size \in 0..MaxEnqueues /\ calls \in 0..MaxEnqueues
      /\ count \in [Workers \cup {Main} -> 0..MaxEnqueues]
  BY DEF TypeOK
<1> QED
  BY <1>1, <1>2

(* A call of enqueue counts one more than was there.                       *)
LEMMA WriteBound ==
  ASSUME TypeOK, CallsInv, NEW w \in Workers, pc[w] = "sizeUp"
  PROVE  count[w] + 1 \in 0..MaxEnqueues
<1>1. w \in InEnqueue
  BY DEF InEnqueue, Inside
<1>2. Cardinality(InEnqueue) # 0
  BY <1>1, CallsFinite, FS_EmptySet
<1>3. count[w] + Cardinality(InEnqueue) <= calls
  BY DEF CallsInv
<1>4. /\ count[w] \in 0..MaxEnqueues /\ calls \in 0..MaxEnqueues
      /\ MaxEnqueues \in Nat
  BY NumberTypes
<1>5. PICK k \in Nat : k = Cardinality(InEnqueue)
  BY CallsFinite
<1>6. PICK c \in 0..MaxEnqueues : c = count[w]
  BY <1>4
<1>7. k > 0 /\ c + k <= calls
  BY <1>2, <1>3, <1>4, <1>5, <1>6
<1>8. c + 1 \in 0..MaxEnqueues
  BY <1>4, <1>6, <1>7
<1> QED
  BY <1>6, <1>8

(* Every variable keeps its type.                                          *)
LEMMA TypeStep ==
  ASSUME TypeOK, PhaseInv, CallsInv, [Next]_vars
  PROVE  TypeOK'
<1> USE DEF TypeOK
<1>1. MaxEnqueues \in Nat
  BY QueueAssumption DEF QueueAssumption
<1>2. CASE Scan \/ ScanEnds \/ DequeueTest
  BY <1>2, PoolType DEF Scan, ScanEnds, DequeueTest, MainGoto, MainSteps
<1>3. CASE ScanAdd
  <2>1. PICK m \in Messages \ arrived :
          /\ arrived' = arrived \cup {m}
          /\ Pool!SubmitByCaller([run |-> "new_message_handler", p |-> m])
    BY <1>3 DEF ScanAdd
  <2>2. Pool!PoolTypeOK'
    BY <2>1, PoolType DEF Jobs
  <2> QED
    BY <1>3, <2>1, <2>2 DEF ScanAdd
<1>4. CASE Drain \/ WaitReturns
  BY <1>4, PoolType DEF Drain, WaitReturns, MainGoto, MainSteps
<1>5. CASE Peek
  BY <1>5, PoolType DEF Peek, MainGoto, MainSteps
<1>6. CASE Unlink
  <2>1. memory[front].prev \in Pointers
    BY <1>6 DEF Unlink, Node
  <2>2. n.data \in Messages
    BY <1>6 DEF Unlink, MainGoto, PhaseInv, Node
  <2>3. taken' \in Seq(Messages)
    BY <1>6, <2>2, AppendProperties DEF Unlink
  <2> QED
    BY <1>6, <2>1, <2>3, PoolType DEF Unlink, MainGoto, MainSteps
<1>7. CASE FreeOld
  <2>1. /\ DOMAIN memory' \subseteq DOMAIN memory
        /\ \A a \in DOMAIN memory' : memory'[a] = memory[a]
    BY <1>7 DEF FreeOld
  <2> QED
    BY <1>7, <2>1, PoolType DEF FreeOld, MainGoto, MainSteps
<1>8. CASE DequeueRead \/ DequeueWrite
  <2> HIDE DEF TypeOK
  <2>1. count' \in [Workers \cup {Main} -> 0..MaxEnqueues]
    <3>1. \E x \in 0..MaxEnqueues : count' = [count EXCEPT ![Main] = x]
      <4>1. size \in 0..MaxEnqueues /\ 0 \in 0..MaxEnqueues
        BY NumberTypes
      <4>2. \/ count' = [count EXCEPT ![Main] = size]
            \/ count' = [count EXCEPT ![Main] = 0]
        BY <1>8 DEF DequeueRead, DequeueWrite
      <4> QED
        BY <4>1, <4>2
    <3> QED
      BY <3>1, NumberTypes
  <2>2. size' \in 0..MaxEnqueues
    <3>1. CASE DequeueWrite
      <4>1. size' = count[Main] - 1 /\ count[Main] > 0
        BY <3>1 DEF DequeueWrite, MainGoto, PhaseInv
      <4> QED
        BY <4>1, NumberTypes
    <3> QED
      BY <1>8, <3>1, NumberTypes DEF DequeueRead
  <2> USE DEF TypeOK
  <2>3. raced' \in BOOLEAN
    BY <1>8 DEF DequeueRead, DequeueWrite, Stale
  <2> QED
    BY <1>8, <2>1, <2>2, <2>3, PoolType
    DEF DequeueRead, DequeueWrite, MainGoto, MainSteps
<1>9. CASE AddWork
  <2>1. n.data \in Messages
    BY <1>9 DEF AddWork, MainGoto, PhaseInv, Node
  <2>2. Pool!PoolTypeOK'
    BY <1>9, <2>1, PoolType DEF AddWork, Jobs
  <2> QED
    BY <1>9, <2>2 DEF AddWork, MainGoto, MainSteps
<1>10. ASSUME NEW w \in Workers, StartJob(w) \/ EndJob(w)
       PROVE  TypeOK'
  <2>1. pc' \in [Workers -> JobSteps]
    BY <1>10, GotoType DEF StartJob, EndJob, JobSteps
  <2>2. Pool!PoolTypeOK'
    BY <1>10, PoolType DEF StartJob, EndJob
  <2> QED
    BY <1>10, <2>1, <2>2 DEF StartJob, EndJob
<1>11. ASSUME NEW w \in Workers, Receive(w) \/ HandOn(w) \/ Switch(w)
       PROVE  TypeOK'
  <2>1. pc' \in [Workers -> JobSteps]
    BY <1>11, GotoType DEF Receive, HandOn, Switch, JobSteps
  <2>2. running[w] \in Jobs
    BY <1>11 DEF Receive, HandOn, Switch, Goto, PhaseInv
  <2>3. /\ [running[w] EXCEPT !.run = "new_protocol_handler"] \in Jobs
        /\ [running[w] EXCEPT !.run = "switch_protocol_handler"] \in Jobs
    BY <2>2 DEF Jobs
  <2>4. Pool!PoolTypeOK'
    BY <1>11, <2>3, PoolType DEF Receive, HandOn, Switch
  <2> QED
    BY <1>11, <2>1, <2>4 DEF Receive, HandOn, Switch
<1>12. ASSUME NEW w \in Workers, Enqueue(w)
       PROVE  TypeOK'
  <2>1. pc' \in [Workers -> JobSteps]
    BY <1>12, GotoType DEF Enqueue, JobSteps
  <2>2. running[w].p \in Messages
    BY <1>12 DEF Enqueue, Goto, PhaseInv, Jobs
  <2>3. PICK a \in Free :
          /\ node' = [node EXCEPT ![w] = a]
          /\ memory' = Put(memory, a, [data |-> running[w].p,
                                       prev |-> Wild, next |-> Wild])
    BY <1>12 DEF Enqueue
  <2>4. a \in Nodes /\ a \notin DOMAIN memory
    BY DEF Free
  <2>5. Typed(memory') /\ DOMAIN memory' = DOMAIN memory \cup {a}
    <3>1. Typed(memory)
      BY DEF Typed
    <3>2. PICK d \in Messages : d = running[w].p
      BY <2>2
    <3>3. memory' = Put(memory, a, [data |-> d, prev |-> Wild, next |-> Wild])
      BY <2>3, <3>2
    <3> QED
      BY <2>4, <3>1, <3>3, NewNode
  <2>6. calls' \in 0..MaxEnqueues
    <3>1. calls < MaxEnqueues /\ calls' = calls + 1
      BY <1>12 DEF Enqueue
    <3> HIDE DEF TypeOK
    <3> QED
      BY <3>1, NumberTypes
  <2>7. raced' \in BOOLEAN
    BY <1>12 DEF Enqueue, Enqueuing
  <2> QED
    BY <1>12, <2>1, <2>3, <2>4, <2>5, <2>6, <2>7, PoolType
    DEF Enqueue, Typed
<1>13. ASSUME NEW w \in Workers,
              TestFront(w) \/ TestBack(w) \/ FirstFront(w) \/ FirstBack(w)
              \/ SetBack(w)
       PROVE  TypeOK'
  <2>1. pc' \in [Workers -> JobSteps]
    BY <1>13, GotoType
    DEF TestFront, TestBack, FirstFront, FirstBack, SetBack, JobSteps
  <2>2. running[w].p \in Messages
    BY <1>13 DEF TestFront, TestBack, FirstFront, FirstBack, SetBack, Goto,
       PhaseInv, Jobs
  <2>3. order' \in Seq(Messages)
    <3>1. Append(order, running[w].p) \in Seq(Messages)
      BY <2>2, AppendProperties
    <3>2. order' = order \/ order' = Append(order, running[w].p)
      BY <1>13 DEF TestFront, TestBack, FirstFront, FirstBack, SetBack
    <3> QED
      BY <3>1, <3>2
  <2>4. front' \in Pointers /\ back' \in Pointers
    BY <1>13 DEF TestFront, TestBack, FirstFront, FirstBack, SetBack, Pointers
  <2>5. node' \in [Workers -> Nodes \cup {NULL}]
    BY <1>13 DEF TestFront, TestBack, FirstFront, FirstBack, SetBack
  <2> QED
    BY <1>13, <2>1, <2>3, <2>4, <2>5, PoolType
    DEF TestFront, TestBack, FirstFront, FirstBack, SetBack
<1>14. ASSUME NEW w \in Workers, LinkPrev(w) \/ LinkNext(w)
       PROVE  TypeOK'
  <2>1. pc' \in [Workers -> JobSteps]
    BY <1>14, GotoType DEF LinkPrev, LinkNext, JobSteps
  <2>2. node[w] \in Pointers /\ back \in Pointers
    BY DEF Pointers
  <2>3. Typed(memory') /\ DOMAIN memory' = DOMAIN memory
    <3>1. Typed(memory)
      BY DEF Typed
    <3>2. CASE LinkPrev(w)
      BY <2>2, <3>1, <3>2, SetPrev DEF LinkPrev
    <3>3. CASE LinkNext(w)
      BY <2>2, <3>1, <3>3, SetNext DEF LinkNext
    <3> QED
      BY <1>14, <3>2, <3>3
  <2> QED
    BY <1>14, <2>1, <2>3, PoolType DEF LinkPrev, LinkNext, Typed
<1>15. ASSUME NEW w \in Workers, EnqueueRead(w) \/ EnqueueWrite(w)
       PROVE  TypeOK'
  <2>1. pc' \in [Workers -> JobSteps]
    BY <1>15, GotoType DEF EnqueueRead, EnqueueWrite, JobSteps
  <2> HIDE DEF TypeOK
  <2>2. count' \in [Workers \cup {Main} -> 0..MaxEnqueues]
    <3>1. \E x \in 0..MaxEnqueues : count' = [count EXCEPT ![w] = x]
      <4>1. size \in 0..MaxEnqueues /\ 0 \in 0..MaxEnqueues
        BY NumberTypes
      <4>2. \/ count' = [count EXCEPT ![w] = size]
            \/ count' = [count EXCEPT ![w] = 0]
        BY <1>15 DEF EnqueueRead, EnqueueWrite
      <4> QED
        BY <4>1, <4>2
    <3> QED
      BY <3>1, NumberTypes
  <2>3. size' \in 0..MaxEnqueues
    <3>1. CASE EnqueueWrite(w)
      BY <3>1, WriteBound DEF EnqueueWrite, Goto
    <3> QED
      BY <1>15, <3>1, NumberTypes DEF EnqueueRead
  <2> USE DEF TypeOK
  <2>4. raced' \in BOOLEAN
    BY <1>15 DEF EnqueueRead, EnqueueWrite, Stale
  <2> QED
    BY <1>15, <2>1, <2>2, <2>3, <2>4, PoolType DEF EnqueueRead, EnqueueWrite
<1>16. ASSUME NEW w \in Workers, Fault(w)
       PROVE  TypeOK'
  BY <1>16, PoolType DEF Fault, MainSteps
<1>17. CASE UNCHANGED vars
  BY <1>17, PoolType DEF vars
<1> QED
  BY <1>2, <1>3, <1>4, <1>5, <1>6, <1>7, <1>8, <1>9, <1>10, <1>11, <1>12,
     <1>13, <1>14, <1>15, <1>16, <1>17
  DEF Next, MainStep, WorkerStep, Rest


(* Jobs and main() keep to their phases.                                   *)
LEMMA PhaseStep ==
  ASSUME TypeOK, PhaseInv, [Next]_vars
  PROVE  PhaseInv'
<1>1. /\ pc \in [Workers -> JobSteps]
      /\ running \in [Workers -> Jobs \cup {NoJob}]
  BY DEF TypeOK, Pool!PoolTypeOK
<1>2. \A w \in Workers : pc'[w] # "idle" => running'[w] \in Jobs
  <2>1. CASE \E w \in Workers : StartJob(w)
    <3>1. PICK w \in Workers : StartJob(w)
      BY <2>1
    <3>2. Head(queue) \in Jobs
      BY <3>1, HeadTailProperties DEF StartJob, Pool!Start, TypeOK,
         Pool!PoolTypeOK
    <3> QED
      BY <1>1, <3>1, <3>2 DEF StartJob, Goto, Pool!Start, PhaseInv
  <2>2. CASE \E w \in Workers : EndJob(w)
    BY <1>1, <2>2 DEF EndJob, Goto, Pool!Finish, PhaseInv
  <2>3. CASE running' = running /\ pc' = pc
    BY <2>3 DEF PhaseInv
  <2>4. CASE running' = running /\ \E w \in Workers : /\ pc[w] # "idle"
                                  /\ \E x : pc' = [pc EXCEPT ![w] = x]
    BY <1>1, <2>4 DEF PhaseInv
  <2>5. ASSUME NEW w \in Workers, Receive(w) \/ HandOn(w) \/ Enqueue(w)
                                  \/ Switch(w)
        PROVE  running' = running /\ pc[w] # "idle"
               /\ \E x : pc' = [pc EXCEPT ![w] = x]
    BY <2>5 DEF Receive, HandOn, Enqueue, Switch, Goto, Pool!SubmitByJob
  <2>6. ASSUME NEW w \in Workers,
               TestFront(w) \/ TestBack(w) \/ FirstFront(w) \/ FirstBack(w)
               \/ LinkPrev(w) \/ LinkNext(w) \/ SetBack(w)
               \/ EnqueueRead(w) \/ EnqueueWrite(w)
        PROVE  running' = running /\ pc[w] # "idle"
               /\ \E x : pc' = [pc EXCEPT ![w] = x]
    BY <2>6 DEF TestFront, TestBack, FirstFront, FirstBack, LinkPrev,
       LinkNext, SetBack, EnqueueRead, EnqueueWrite, Goto
  <2>7. ASSUME MainStep \/ (\E w \in Workers : Fault(w)) \/ UNCHANGED vars
        PROVE  running' = running /\ pc' = pc
    BY <2>7 DEF MainStep, Scan, ScanAdd, ScanEnds, Drain, Peek, DequeueTest,
       Unlink, FreeOld, DequeueRead, DequeueWrite, AddWork, WaitReturns,
       Fault, vars, Pool!SubmitByCaller, Pool!Wait, Pool!WaitReturns
  <2> QED
    BY <2>1, <2>2, <2>3, <2>4, <2>5, <2>6, <2>7 DEF Next, WorkerStep, Rest
<1>3. main' \in {"dequeue", "unlink", "free", "size", "sizeDown", "add"} =>
        n' \in Node
  <2>1. CASE Peek
    BY <2>1 DEF Peek, TypeOK
  <2>2. CASE AddWork
    BY <2>2 DEF AddWork, MainGoto
  <2>3. CASE Scan \/ ScanAdd \/ ScanEnds \/ Drain \/ WaitReturns
             \/ DequeueTest \/ Unlink \/ FreeOld \/ DequeueRead
             \/ DequeueWrite
    BY <2>3 DEF PhaseInv, Scan, ScanAdd, ScanEnds, Drain, WaitReturns,
       DequeueTest, Unlink, FreeOld, DequeueRead, DequeueWrite, MainGoto
  <2>4. ASSUME NEW w \in Workers, WorkerStep(w)
        PROVE  n' = n /\ (main' = main \/ main' = "crashed")
    BY <2>4 DEF WorkerStep, StartJob, EndJob, Receive, HandOn, Enqueue,
       Switch, TestFront, TestBack, FirstFront, FirstBack, LinkPrev,
       LinkNext, SetBack, EnqueueRead, EnqueueWrite, Fault
  <2>5. CASE UNCHANGED vars
    BY <2>5 DEF vars, PhaseInv
  <2> QED
    BY <2>1, <2>2, <2>3, <2>4, <2>5 DEF Next, MainStep, Rest, PhaseInv
<1>4. /\ main' \in {"peek", "dequeue", "unlink", "free", "size"} => size' > 0
      /\ main' = "sizeDown" => count'[Main] > 0
  <2>1. CASE Scan \/ ScanAdd \/ ScanEnds \/ Drain \/ Peek \/ DequeueTest
             \/ Unlink \/ FreeOld \/ AddWork \/ WaitReturns
    BY <2>1 DEF Scan, ScanAdd, ScanEnds, Drain, Peek, DequeueTest,
       Unlink, FreeOld, AddWork, WaitReturns, MainGoto, PhaseInv
  <2>2. CASE DequeueRead
    BY <2>2, NumberTypes DEF DequeueRead, MainGoto, PhaseInv
  <2>3. CASE DequeueWrite
    BY <2>3 DEF DequeueWrite, MainGoto
  <2>4. ASSUME NEW w \in Workers, EnqueueRead(w)
        PROVE  main' = main /\ size' = size /\ count'[Main] = count[Main]
    BY <2>4, NumberTypes DEF EnqueueRead
  <2>5. ASSUME NEW w \in Workers, EnqueueWrite(w)
        PROVE  main' = main /\ size' > 0 /\ count'[Main] = count[Main]
    BY <2>5, NumberTypes DEF EnqueueWrite
  <2>6. ASSUME NEW w \in Workers, WorkerStep(w), ~EnqueueRead(w),
               ~EnqueueWrite(w)
        PROVE  /\ main' = main \/ main' = "crashed"
               /\ size' = size /\ count' = count
    BY <2>6 DEF WorkerStep, StartJob, EndJob, Receive, HandOn, Enqueue,
       Switch, TestFront, TestBack, FirstFront, FirstBack, LinkPrev,
       LinkNext, SetBack, Fault
  <2>7. CASE UNCHANGED vars
    BY <2>7 DEF vars, PhaseInv
  <2> QED
    BY <2>1, <2>2, <2>3, <2>4, <2>5, <2>6, <2>7
    DEF Next, MainStep, Rest, PhaseInv
<1> QED
  BY <1>2, <1>3, <1>4 DEF PhaseInv

(* What a step does to the calls of enqueue that are under way.            *)
LEMMA InsideStep ==
  ASSUME TypeOK, [Next]_vars
  PROVE  \/ \E w \in Workers : /\ Enqueue(w)
                               /\ InEnqueue' = InEnqueue \cup {w}
                               /\ w \notin InEnqueue
         \/ \E w \in Workers : /\ FirstBack(w) \/ EnqueueWrite(w)
                               /\ InEnqueue' = InEnqueue \ {w}
                               /\ w \in InEnqueue
         \/ /\ InEnqueue' = InEnqueue /\ calls' = calls
            /\ \A w \in Workers : ~EnqueueWrite(w)
<1> USE DEF InEnqueue, Inside
<1>1. pc \in [Workers -> JobSteps]
  BY DEF TypeOK
<1>2. ASSUME NEW w \in Workers, Enqueue(w)
      PROVE  InEnqueue' = InEnqueue \cup {w} /\ w \notin InEnqueue
  BY <1>1, <1>2 DEF Enqueue, Goto
<1>3. ASSUME NEW w \in Workers, FirstBack(w) \/ EnqueueWrite(w)
      PROVE  InEnqueue' = InEnqueue \ {w} /\ w \in InEnqueue
  BY <1>1, <1>3 DEF FirstBack, EnqueueWrite, Goto
<1>4. ASSUME NEW w \in Workers, StartJob(w) \/ EndJob(w) \/ Receive(w)
                                \/ HandOn(w) \/ Switch(w)
      PROVE  /\ InEnqueue' = InEnqueue /\ calls' = calls
             /\ \A u \in Workers : ~EnqueueWrite(u)
  <2>1. /\ pc[w] \in {"idle", "begin", "return"}
        /\ \E x \in {"idle", "begin", "return"} : pc' = [pc EXCEPT ![w] = x]
        /\ calls' = calls
    BY <1>4 DEF StartJob, EndJob, Receive, HandOn, Switch, Goto
  <2>2. InEnqueue' = InEnqueue
    BY <1>1, <2>1
  <2>3. ASSUME NEW u \in Workers, EnqueueWrite(u)
        PROVE  FALSE
    <3>1. pc[u] = "sizeUp" /\ pc'[u] = "return"
      BY <1>1, <2>3 DEF EnqueueWrite, Goto
    <3> QED
      BY <1>1, <2>1, <3>1
  <2> QED
    BY <2>1, <2>2, <2>3
<1>5. ASSUME NEW w \in Workers,
             TestFront(w) \/ TestBack(w) \/ FirstFront(w) \/ LinkPrev(w)
             \/ LinkNext(w) \/ SetBack(w) \/ EnqueueRead(w)
      PROVE  /\ InEnqueue' = InEnqueue /\ calls' = calls
             /\ \A u \in Workers : ~EnqueueWrite(u)
  <2>1. /\ pc[w] \notin {"idle", "begin", "return"}
        /\ \E x \in {"testBack", "first", "firstBack", "link", "next", "back",
                     "size", "sizeUp"} : pc' = [pc EXCEPT ![w] = x]
        /\ calls' = calls
    BY <1>5 DEF TestFront, TestBack, FirstFront, LinkPrev, LinkNext, SetBack,
       EnqueueRead, Goto
  <2>2. InEnqueue' = InEnqueue
    BY <1>1, <2>1
  <2>3. ASSUME NEW u \in Workers, EnqueueWrite(u)
        PROVE  FALSE
    <3>1. pc[u] = "sizeUp" /\ pc'[u] = "return"
      BY <1>1, <2>3 DEF EnqueueWrite, Goto
    <3> QED
      BY <1>1, <2>1, <3>1
  <2> QED
    BY <2>1, <2>2, <2>3
<1>6. ASSUME MainStep \/ (\E w \in Workers : Fault(w)) \/ UNCHANGED vars
      PROVE  /\ InEnqueue' = InEnqueue /\ calls' = calls
             /\ \A u \in Workers : ~EnqueueWrite(u)
  <2>1. pc' = pc /\ calls' = calls
    BY <1>6 DEF MainStep, Scan, ScanAdd, ScanEnds, Drain, Peek, DequeueTest,
       Unlink, FreeOld, DequeueRead, DequeueWrite, AddWork, WaitReturns,
       Fault, vars
  <2>2. ASSUME NEW u \in Workers, EnqueueWrite(u)
        PROVE  FALSE
    <3>1. pc[u] = "sizeUp" /\ pc'[u] = "return"
      BY <1>1, <2>2 DEF EnqueueWrite, Goto
    <3> QED
      BY <2>1, <3>1
  <2> QED
    BY <2>1, <2>2
<1> QED
  BY <1>2, <1>3, <1>4, <1>5, <1>6 DEF Next, WorkerStep, Rest

(* size never exceeds the calls that have begun.                           *)
LEMMA CallsStep ==
  ASSUME TypeOK, PhaseInv, CallsInv, [Next]_vars
  PROVE  CallsInv'
<1> DEFINE k == Cardinality(InEnqueue)
<1>1. /\ IsFiniteSet(InEnqueue) /\ k \in Nat
      /\ size + k <= calls
      /\ \A t \in Workers \cup {Main} : count[t] + k <= calls
  BY CallsFinite DEF CallsInv
<1>2. \/ /\ calls' = calls + 1 /\ Cardinality(InEnqueue)' = k + 1
         /\ size' = size /\ count' = count
      \/ /\ calls' = calls /\ Cardinality(InEnqueue)' = k - 1 /\ k > 0
         /\ \E t \in Workers \cup {Main} :
              size' \in {size, count[t] + 1}
         /\ \A t \in Workers \cup {Main} : count'[t] \in {count[t], 0}
      \/ /\ calls' = calls /\ Cardinality(InEnqueue)' = k
         /\ size' = size \/ (size' = count[Main] - 1 /\ count[Main] > 0)
         /\ \A t \in Workers \cup {Main} : count'[t] \in {count[t], size, 0}
  <2>1. CASE \E w \in Workers : /\ Enqueue(w)
                                /\ InEnqueue' = InEnqueue \cup {w}
                                /\ w \notin InEnqueue
    BY <1>1, <2>1, FS_AddElement DEF Enqueue
  <2>2. CASE \E w \in Workers : /\ FirstBack(w) \/ EnqueueWrite(w)
                                /\ InEnqueue' = InEnqueue \ {w}
                                /\ w \in InEnqueue
    <3>1. PICK w \in Workers : /\ FirstBack(w) \/ EnqueueWrite(w)
                               /\ InEnqueue' = InEnqueue \ {w}
                               /\ w \in InEnqueue
      BY <2>2
    <3>2. Cardinality(InEnqueue)' = k - 1
      BY <1>1, <3>1, FS_RemoveElement
    <3>3. k > 0
      BY <1>1, <3>1, FS_EmptySet
    <3>4. calls' = calls
      BY <3>1 DEF FirstBack, EnqueueWrite
    <3>5. /\ size' \in {size, count[w] + 1}
          /\ \A t \in Workers \cup {Main} : count'[t] \in {count[t], 0}
      BY <3>1, NumberTypes DEF FirstBack, EnqueueWrite
    <3> QED
      BY <3>2, <3>3, <3>4, <3>5
  <2>3. CASE /\ InEnqueue' = InEnqueue /\ calls' = calls
             /\ \A w \in Workers : ~EnqueueWrite(w)
    <3>1. size' = size \/ (size' = count[Main] - 1 /\ count[Main] > 0)
      <4>1. CASE DequeueWrite
        BY <4>1 DEF DequeueWrite, MainGoto, PhaseInv
      <4>2. CASE ~DequeueWrite
        BY <2>3, <4>2 DEF Next, MainStep, WorkerStep, Rest, vars, Scan,
           ScanAdd, ScanEnds, Drain, Peek, DequeueTest, Unlink, FreeOld,
           DequeueRead, AddWork, WaitReturns, StartJob, EndJob, Receive,
           HandOn, Enqueue, Switch, TestFront, TestBack, FirstFront,
           FirstBack, LinkPrev, LinkNext, SetBack, EnqueueRead, Fault
      <4> QED
        BY <4>1, <4>2
    <3>2. \A t \in Workers \cup {Main} : count'[t] \in {count[t], size, 0}
      <4>1. CASE DequeueRead \/ DequeueWrite
        BY <4>1, NumberTypes DEF DequeueRead, DequeueWrite
      <4>2. CASE \E w \in Workers : EnqueueRead(w)
        BY <4>2, NumberTypes DEF EnqueueRead
      <4>3. CASE /\ ~(DequeueRead \/ DequeueWrite)
                 /\ \A w \in Workers : ~EnqueueRead(w)
        BY <2>3, <4>3 DEF Next, MainStep, WorkerStep, Rest, vars, Scan,
           ScanAdd, ScanEnds, Drain, Peek, DequeueTest, Unlink, FreeOld,
           AddWork, WaitReturns, StartJob, EndJob, Receive,
           HandOn, Enqueue, Switch, TestFront, TestBack, FirstFront,
           FirstBack, LinkPrev, LinkNext, SetBack, Fault
      <4> QED
        BY <4>1, <4>2, <4>3
    <3> QED
      BY <2>3, <3>1, <3>2
  <2> HIDE DEF k
  <2> QED
    BY <2>1, <2>2, <2>3, InsideStep
<1>3. PICK j : j = Cardinality(InEnqueue)'
  OBVIOUS
<1> HIDE DEF k
<1>4. size' + j <= calls'
  BY <1>1, <1>2, <1>3, NumberTypes
<1>5. \A t \in Workers \cup {Main} : count'[t] + j <= calls'
  BY <1>1, <1>2, <1>3, NumberTypes
<1> QED
  BY <1>3, <1>4, <1>5 DEF CallsInv


-----------------------------------------------------------------------------
(* What the invariant says of a list in use.                               *)

(* A list in use has a front and a back, both of them allocated.           *)
LEMMA LinkedFacts ==
  ASSUME TypeOK, Linked
  PROVE  /\ Len(Chain) \in 1..MaxEnqueues /\ DOMAIN Chain = 1..Len(Chain)
         /\ Chain \in Seq(DOMAIN memory) /\ Chain # <<>>
         /\ \A i \in 1..Len(Chain) : Chain[i] \in DOMAIN memory
         /\ front = Chain[1] /\ back = Chain[Len(Chain)]
         /\ front \in DOMAIN memory /\ back \in DOMAIN memory
         /\ front # NULL /\ back # NULL
         /\ Waiting = Texts(Chain, memory)
<1>1. DOMAIN memory \subseteq Nodes
  BY DEF TypeOK
<1>2. IsList(Chain, front, back, memory)
  BY DEF Linked
<1>3. /\ Len(Chain) \in 1..MaxEnqueues /\ DOMAIN Chain = 1..Len(Chain)
      /\ \A i \in 1..Len(Chain) : Chain[i] \in DOMAIN memory
      /\ front \in DOMAIN memory /\ back \in DOMAIN memory /\ back # NULL
  BY <1>1, <1>2, ListFacts
<1>4. front # NULL
  BY <1>1, <1>3, QueueAssumption DEF QueueAssumption, Nodes
<1>5. /\ Chain \in Seq(DOMAIN memory) /\ Chain # <<>>
      /\ front = Chain[1] /\ back = Chain[Len(Chain)]
  BY <1>2 DEF IsList
<1>6. Waiting = Texts(Chain, memory)
  BY DEF Waiting, Texts
<1> QED
  BY <1>3, <1>4, <1>5, <1>6

(* Memory that is used is allocated.                                       *)
LEMMA NoFault ==
  ASSUME TypeOK, PhaseInv, ListInv, NEW w \in Workers
  PROVE  ~WildAccess(w)
<1>1. CASE Unused
  <2>1. size = 0 /\ main \notin {"free", "size", "sizeDown"} /\ back = NULL
    BY <1>1 DEF Unused
  <2>2. main \notin {"peek", "unlink", "free"}
    BY <2>1 DEF PhaseInv
  <2>3. pc[w] \in {"link", "next"} => w \in Linking
    BY DEF Linking, InEnqueue, Inside, Counting
  <2>4. pc[w] \notin {"link", "next"}
    BY <2>1, <2>3 DEF ListInv, LinkInv
  <2> QED
    BY <2>2, <2>4 DEF WildAccess
<1>2. CASE Linked
  <2>1. front \in DOMAIN memory /\ back \in DOMAIN memory
    BY <1>2, LinkedFacts
  <2>2. main = "free" => memory[front].next \in DOMAIN memory
    BY <1>2 DEF Linked
  <2>3. pc[w] = "next" => w \in Linking
    BY DEF Linking, InEnqueue, Inside, Counting
  <2>4. pc[w] = "next" => node[w] \in DOMAIN memory
    BY <2>3 DEF ListInv, LinkInv
  <2> QED
    BY <2>1, <2>2, <2>4 DEF WildAccess
<1> QED
  BY <1>1, <1>2 DEF ListInv

(* Only two steps change which calls have still to count.                  *)
LEMMA CountingStep ==
  ASSUME TypeOK, ListInv, [Next]_vars
  PROVE  \/ \E w \in Workers : /\ SetBack(w)
                               /\ Counting = {} /\ Counting' = {w}
         \/ \E w \in Workers : /\ EnqueueWrite(w)
                               /\ Counting = {w} /\ Counting' = {}
         \/ /\ Counting' = Counting
            /\ \A w \in Workers : ~SetBack(w) /\ ~EnqueueWrite(w)
<1> USE DEF Counting
<1>1. pc \in [Workers -> JobSteps]
  BY DEF TypeOK
<1>2. \A u, w \in Workers : Inside(u) /\ Inside(w) => u = w
  BY DEF ListInv, InEnqueue
<1>3. ASSUME NEW w \in Workers, SetBack(w)
      PROVE  Counting = {} /\ Counting' = {w}
  <2>1. pc[w] = "back" /\ pc' = [pc EXCEPT ![w] = "size"]
    BY <1>3 DEF SetBack, Goto
  <2>2. \A u \in Workers : pc[u] \in {"size", "sizeUp"} => u = w
    BY <1>2, <2>1 DEF Inside
  <2> QED
    BY <1>1, <2>1, <2>2
<1>4. ASSUME NEW w \in Workers, EnqueueWrite(w)
      PROVE  Counting = {w} /\ Counting' = {}
  <2>1. pc[w] = "sizeUp" /\ pc' = [pc EXCEPT ![w] = "return"]
    BY <1>4 DEF EnqueueWrite, Goto
  <2>2. \A u \in Workers : pc[u] \in {"size", "sizeUp"} => u = w
    BY <1>2, <2>1 DEF Inside
  <2> QED
    BY <1>1, <2>1, <2>2
<1>5. ASSUME \A w \in Workers : ~SetBack(w) /\ ~EnqueueWrite(w)
      PROVE  Counting' = Counting
  <2>1. CASE pc' = pc
    BY <2>1
  <2>2. CASE \E w \in Workers : /\ pc[w] \notin {"size", "sizeUp"}
                                /\ \E x : /\ x \notin {"size", "sizeUp"}
                                          /\ pc' = [pc EXCEPT ![w] = x]
    BY <1>1, <2>2
  <2>3. CASE \E w \in Workers : EnqueueRead(w)
    BY <1>1, <2>3 DEF EnqueueRead, Goto
  <2>4. ASSUME NEW w \in Workers, StartJob(w) \/ EndJob(w) \/ Receive(w)
                                  \/ HandOn(w) \/ Enqueue(w) \/ Switch(w)
        PROVE  /\ pc[w] \notin {"size", "sizeUp"}
               /\ \E x : /\ x \notin {"size", "sizeUp"}
                         /\ pc' = [pc EXCEPT ![w] = x]
    BY <2>4 DEF StartJob, EndJob, Receive, HandOn, Enqueue, Switch, Goto
  <2>5. ASSUME NEW w \in Workers,
               TestFront(w) \/ TestBack(w) \/ FirstFront(w) \/ FirstBack(w)
               \/ LinkPrev(w) \/ LinkNext(w)
        PROVE  /\ pc[w] \notin {"size", "sizeUp"}
               /\ \E x : /\ x \notin {"size", "sizeUp"}
                         /\ pc' = [pc EXCEPT ![w] = x]
    BY <2>5 DEF TestFront, TestBack, FirstFront, FirstBack, LinkPrev,
       LinkNext, Goto
  <2>6. ASSUME MainStep \/ (\E w \in Workers : Fault(w)) \/ UNCHANGED vars
        PROVE  pc' = pc
    BY <2>6 DEF MainStep, Scan, ScanAdd, ScanEnds, Drain, Peek, DequeueTest,
       Unlink, FreeOld, DequeueRead, DequeueWrite, AddWork, WaitReturns,
       Fault, vars
  <2> QED
    BY <1>5, <2>1, <2>2, <2>3, <2>4, <2>5, <2>6 DEF Next, WorkerStep, Rest
<1> QED
  BY <1>3, <1>4, <1>5

(* The conjuncts of Linked about the node that main() takes.               *)
Copied == main \in {"dequeue", "unlink"} => n.data = memory[front].data
Freeing(c) ==
  main = "free" =>
    LET old == memory[front].next
    IN  /\ old \in DOMAIN memory
        /\ \A i \in DOMAIN c : c[i] # old
        /\ \A w \in Linking : node[w] # old

(* What a step has to show for the list c that it leaves.                  *)
LEMMA LinkedNext ==
  ASSUME TypeOK', NEW c, IsList(c, front', back', memory'),
         order' = taken' \o Texts(c, memory'),
         size' + Cardinality(Counting)' + 1 = Len(c) + Taking',
         Copied', Freeing(c)'
  PROVE  Linked' /\ Chain' = c
<1>1. (DOMAIN memory \subseteq Nodes)'
  BY DEF TypeOK
<1>2. ChainOf(front', back', memory') = c
  BY <1>1, ChainIs
<1>3. Chain' = c
  BY <1>2 DEF Chain
<1>4. Waiting' = Texts(c, memory')
  BY <1>3 DEF Waiting, Texts
<1> QED
  BY <1>3, <1>4 DEF Linked, Copied, Freeing


(* A call of enqueue keeps its node until it has linked it.                *)
LEMMA LinkingStep ==
  ASSUME TypeOK, [Next]_vars
  PROVE  \A u \in Linking' :
           \/ Enqueue(u)
           \/ u \in Linking /\ node'[u] = node[u] /\ running'[u] = running[u]
<1> USE DEF Linking, InEnqueue, Inside, Counting
<1>1. /\ pc \in [Workers -> JobSteps]
      /\ node \in [Workers -> Nodes \cup {NULL}]
      /\ running \in [Workers -> Jobs \cup {NoJob}]
  BY DEF TypeOK, Pool!PoolTypeOK
<1> SUFFICES ASSUME NEW u \in Linking', ~Enqueue(u)
             PROVE  /\ u \in Linking
                    /\ node'[u] = node[u] /\ running'[u] = running[u]
  OBVIOUS
<1>2. u \in Workers
      /\ pc'[u] \notin {"idle", "begin", "return", "size", "sizeUp"}
  OBVIOUS
<1>3. CASE MainStep \/ (\E w \in Workers : Fault(w)) \/ UNCHANGED vars
  BY <1>2, <1>3 DEF MainStep, Scan, ScanAdd, ScanEnds, Drain, Peek,
     DequeueTest, Unlink, FreeOld, DequeueRead, DequeueWrite, AddWork,
     WaitReturns, Fault, vars, Pool!SubmitByCaller, Pool!Wait,
     Pool!WaitReturns
<1>4. ASSUME NEW w \in Workers, StartJob(w) \/ EndJob(w)
      PROVE  /\ u \in Linking
             /\ node'[u] = node[u] /\ running'[u] = running[u]
  BY <1>1, <1>2, <1>4 DEF StartJob, EndJob, Goto, Pool!Start, Pool!Finish
<1>5. ASSUME NEW w \in Workers, Receive(w) \/ HandOn(w) \/ Switch(w)
      PROVE  /\ u \in Linking
             /\ node'[u] = node[u] /\ running'[u] = running[u]
  BY <1>1, <1>2, <1>5 DEF Receive, HandOn, Switch, Goto, Pool!SubmitByJob
<1>6. ASSUME NEW w \in Workers, Enqueue(w)
      PROVE  /\ u \in Linking
             /\ node'[u] = node[u] /\ running'[u] = running[u]
  <2>1. u # w
    BY <1>6
  <2> QED
    BY <1>1, <1>2, <1>6, <2>1 DEF Enqueue, Goto
<1>7. ASSUME NEW w \in Workers,
             TestFront(w) \/ TestBack(w) \/ FirstFront(w) \/ FirstBack(w)
      PROVE  /\ u \in Linking
             /\ node'[u] = node[u] /\ running'[u] = running[u]
  BY <1>1, <1>2, <1>7 DEF TestFront, TestBack, FirstFront, FirstBack, Goto
<1>8. ASSUME NEW w \in Workers,
             LinkPrev(w) \/ LinkNext(w) \/ SetBack(w) \/ EnqueueRead(w)
             \/ EnqueueWrite(w)
      PROVE  /\ u \in Linking
             /\ node'[u] = node[u] /\ running'[u] = running[u]
  BY <1>1, <1>2, <1>8
  DEF LinkPrev, LinkNext, SetBack, EnqueueRead, EnqueueWrite, Goto
<1> QED
  BY <1>3, <1>4, <1>5, <1>6, <1>7, <1>8 DEF Next, WorkerStep, Rest

(* A list in use stays one.                                                *)
LEMMA LinkedStep ==
  ASSUME TypeOK, TypeOK', PhaseInv, ListInv, Linked, [Next]_vars, ~raced'
  PROVE  /\ Linked'
         /\ \/ Chain' = Chain
            \/ Unlink /\ Chain' = Tail(Chain)
            \/ \E w \in Workers :
                 SetBack(w) /\ Chain' = Append(Chain, node[w])
<1>1. PICK c : c = Chain
  OBVIOUS
<1>2. /\ Len(c) \in 1..MaxEnqueues /\ DOMAIN c = 1..Len(c)
      /\ c \in Seq(DOMAIN memory) /\ c # <<>>
      /\ \A i \in 1..Len(c) : c[i] \in DOMAIN memory
      /\ front = c[1] /\ back = c[Len(c)]
      /\ front \in DOMAIN memory /\ back \in DOMAIN memory
      /\ front # NULL /\ back # NULL
  BY <1>1, LinkedFacts
<1>3. /\ IsList(c, front, back, memory)
      /\ order = taken \o Texts(c, memory)
      /\ size + Cardinality(Counting) + 1 = Len(c) + Taking
      /\ Copied /\ Freeing(c)
  BY <1>1, LinkedFacts DEF Linked, Copied, Freeing
<1>4. /\ Typed(memory) /\ taken \in Seq(Messages)
      /\ MaxEnqueues \in Nat /\ size \in 0..MaxEnqueues
      /\ Cardinality(Counting) \in Nat /\ Taking \in {0, 1}
  BY NumberTypes, CallsFinite DEF TypeOK, Typed, Taking
<1>5. \A u, w \in Workers : Inside(u) /\ Inside(w) => u = w
  BY DEF ListInv, InEnqueue
<1>6. ASSUME Scan \/ ScanAdd \/ ScanEnds \/ Drain \/ Peek \/ DequeueTest
             \/ AddWork \/ WaitReturns
      PROVE  Linked' /\ Chain' = c
  <2>1. /\ main \notin {"free", "size", "sizeDown"}
        /\ main' \notin {"free", "size", "sizeDown"}
        /\ UNCHANGED <<pc, fields, order, taken>>
    BY <1>6 DEF Scan, ScanAdd, ScanEnds, Drain, Peek, DequeueTest, AddWork,
       WaitReturns, MainGoto
  <2>2. Taking = 0 /\ Taking' = 0 /\ Counting' = Counting
    BY <2>1 DEF Taking, Counting
  <2>3. Copied'
    BY <1>3, <1>6, <2>1 DEF Scan, ScanAdd, ScanEnds, Drain, Peek,
       DequeueTest, AddWork, WaitReturns, MainGoto, Copied
  <2>4. Freeing(c)'
    BY <2>1 DEF Freeing
  <2> QED
    BY <1>3, <2>1, <2>2, <2>3, <2>4, LinkedNext
<1>7. ASSUME DequeueRead \/ DequeueWrite
      PROVE  Linked' /\ Chain' = c
  <2>1. /\ main' \in {"sizeDown", "add"}
        /\ UNCHANGED <<pc, memory, front, back, order, taken>>
    BY <1>7 DEF DequeueRead, DequeueWrite, MainGoto
  <2>2. size' = size - Taking + Taking'
    <3>1. CASE DequeueRead
      BY <1>4, <3>1 DEF DequeueRead, MainGoto, Taking
    <3>2. CASE DequeueWrite
      <4>1. size' = size - 1 /\ Taking = 1 /\ Taking' = 0
        BY <3>2 DEF DequeueWrite, MainGoto, Stale, Taking
      <4> QED
        BY <1>4, <4>1
    <3> QED
      BY <1>7, <3>1, <3>2
  <2>3. Counting' = Counting /\ Copied' /\ Freeing(c)'
    BY <2>1 DEF Counting, Copied, Freeing
  <2>4. Taking' \in {0, 1}
    BY DEF Taking
  <2>5. size' + Cardinality(Counting)' + 1 = Len(c) + Taking'
    <3>1. PICK k \in Nat : k = Cardinality(Counting)
      BY <1>4
    <3>2. size + k + 1 = Len(c) + Taking
      BY <1>3, <3>1
    <3>3. size' + k + 1 = Len(c) + Taking'
      BY <1>2, <1>4, <2>2, <2>4, <3>2
    <3> QED
      BY <2>3, <3>1, <3>3
  <2> QED
    BY <1>3, <2>1, <2>3, <2>5, LinkedNext
<1>8. ASSUME Unlink
      PROVE  Linked' /\ Chain' = Tail(c)
  <2>1. /\ main = "unlink" /\ main' = "free"
        /\ front' = memory[front].prev /\ taken' = Append(taken, n.data)
        /\ UNCHANGED <<pc, node, memory, back, size, order>>
    BY <1>8 DEF Unlink, MainGoto
  <2>2. size > 0 /\ Taking = 0 /\ Taking' = 1 /\ Counting' = Counting
    BY <2>1 DEF PhaseInv, Taking, Counting
  <2>3. Len(c) > 1
    BY <1>2, <1>3, <1>4, <2>2
  <2>4. PICK t : t = Tail(c)
    OBVIOUS
  <2>5. /\ IsList(t, front', back', memory') /\ Len(t) = Len(c) - 1
        /\ memory[front'].next = front
        /\ \A i \in DOMAIN t : t[i] # front
    BY <1>3, <2>1, <2>3, <2>4, ListTail
  <2>6. order' = taken' \o Texts(t, memory')
    <3>1. n.data = memory[c[1]].data
      BY <1>2, <1>3, <2>1 DEF Copied
    <3>2. taken \o Texts(c, memory) =
            Append(taken, memory[c[1]].data) \o Texts(t, memory)
      BY <1>2, <1>4, <2>4, TakeFirst DEF Typed
    <3> QED
      BY <1>3, <2>1, <3>1, <3>2
  <2>7. size' + Cardinality(Counting)' + 1 = Len(t) + Taking'
    BY <1>2, <1>3, <1>4, <2>1, <2>2, <2>5
  <2>8. Copied'
    BY <2>1 DEF Copied
  <2>9. Freeing(t)'
    <3>1. \A w \in Linking : node[w] # front
      BY <1>1, <1>2 DEF ListInv, LinkInv
    <3>2. Linking' = Linking
      BY <2>1 DEF Linking, InEnqueue, Inside, Counting
    <3> QED
      BY <1>2, <2>1, <2>5, <3>1, <3>2 DEF Freeing
  <2> QED
    BY <2>4, <2>5, <2>6, <2>7, <2>8, <2>9, LinkedNext
<1>9. ASSUME FreeOld
      PROVE  Linked' /\ Chain' = c
  <2>1. /\ main = "free" /\ main' = "size"
        /\ memory' = [a \in DOMAIN memory \ {memory[front].next} |-> memory[a]]
        /\ UNCHANGED <<pc, node, front, back, size, order, taken>>
    BY <1>9 DEF FreeOld, MainGoto
  <2>2. Taking = 1 /\ Taking' = 1 /\ Counting' = Counting
    BY <2>1 DEF Taking, Counting
  <2>3. \A i \in DOMAIN c : c[i] # memory[front].next
    BY <1>3, <2>1 DEF Freeing
  <2>4. \A i \in 1..Len(c) : c[i] \in DOMAIN memory'
                             /\ memory'[c[i]] = memory[c[i]]
    BY <1>2, <2>1, <2>3
  <2>5. IsList(c, front', back', memory')
    BY <1>3, <2>1, <2>4, ListStays
  <2>6. Texts(c, memory') = Texts(c, memory)
    BY <1>2, <2>4 DEF Texts
  <2>7. Copied' /\ Freeing(c)'
    BY <2>1 DEF Copied, Freeing
  <2> QED
    BY <1>3, <2>1, <2>2, <2>5, <2>6, <2>7, LinkedNext
<1>10. ASSUME NEW w \in Workers,
              StartJob(w) \/ EndJob(w) \/ Receive(w) \/ HandOn(w) \/ Switch(w)
              \/ TestFront(w) \/ TestBack(w) \/ EnqueueRead(w)
       PROVE  Linked' /\ Chain' = c
  <2>1. /\ UNCHANGED <<main, n, node, memory, front, back, order, taken, size>>
        /\ ~SetBack(w) /\ ~EnqueueWrite(w)
    BY <1>10 DEF StartJob, EndJob, Receive, HandOn, Switch, TestFront,
       TestBack, EnqueueRead, SetBack, EnqueueWrite, Goto
  <2>2. Counting' = Counting
    <3>1. \A u \in Workers : ~SetBack(u) /\ ~EnqueueWrite(u)
      BY <1>10 DEF StartJob, EndJob, Receive, HandOn, Switch, TestFront,
         TestBack, EnqueueRead, SetBack, EnqueueWrite, Goto, TypeOK
    <3> QED
      BY <3>1, CountingStep
  <2>3. Taking' = Taking /\ Copied'
    BY <1>3, <2>1 DEF Taking, Copied
  <2>4. \A u \in Linking' : u \in Linking /\ node'[u] = node[u]
    <3>1. \A u \in Workers : ~Enqueue(u)
      BY <1>10 DEF StartJob, EndJob, Receive, HandOn, Switch, TestFront,
         TestBack, EnqueueRead, Enqueue, Goto, TypeOK
    <3>2. Linking' \subseteq Workers
      BY DEF Linking, InEnqueue
    <3> QED
      BY <3>1, <3>2, LinkingStep
  <2>5. Freeing(c)'
    BY <1>3, <2>1, <2>4 DEF Freeing
  <2> QED
    BY <1>3, <2>1, <2>2, <2>3, <2>5, LinkedNext
<1>11. ASSUME NEW w \in Workers, FirstFront(w) \/ FirstBack(w)
       PROVE  FALSE
  <2>1. w \in Linking /\ pc[w] \in {"first", "firstBack"}
    BY <1>11 DEF FirstFront, FirstBack, Goto, Linking, InEnqueue, Inside,
       Counting
  <2> QED
    BY <1>2, <2>1 DEF ListInv, LinkInv
<1>12. ASSUME NEW w \in Workers, Enqueue(w)
       PROVE  Linked' /\ Chain' = c
  <2>1. PICK a \in Free :
          /\ node' = [node EXCEPT ![w] = a]
          /\ memory' = Put(memory, a, [data |-> running[w].p,
                                       prev |-> Wild, next |-> Wild])
    BY <1>12 DEF Enqueue
  <2>2. /\ a \notin DOMAIN memory
        /\ UNCHANGED <<main, n, front, back, order, taken, size>>
        /\ pc[w] = "begin"
    BY <1>12 DEF Enqueue, Free, Goto
  <2>4. /\ DOMAIN memory' = DOMAIN memory \cup {a}
        /\ \A b \in DOMAIN memory : memory'[b] = memory[b]
    BY <2>1, <2>2 DEF Put
  <2>5. Counting' = Counting
    <3>1. \A u \in Workers : ~SetBack(u) /\ ~EnqueueWrite(u)
      BY <1>12 DEF Enqueue, SetBack, EnqueueWrite, Goto, TypeOK
    <3> QED
      BY <3>1, CountingStep
  <2>6. IsList(c, front', back', memory')
    BY <1>2, <1>3, <2>2, <2>4, ListStays
  <2>7. Texts(c, memory') = Texts(c, memory)
    BY <1>2, <2>4 DEF Texts
  <2>8. Taking' = Taking /\ Copied'
    BY <1>2, <1>3, <2>2, <2>4 DEF Taking, Copied
  <2>9. Freeing(c)'
    <3>1. \A u \in Linking' : u = w \/ (u \in Linking /\ node'[u] = node[u])
      <4>1. \A u \in Workers : Enqueue(u) => u = w
        BY <1>12 DEF Enqueue, Goto, TypeOK
      <4>2. Linking' \subseteq Workers
        BY DEF Linking, InEnqueue
      <4> QED
        BY <4>1, <4>2, LinkingStep
    <3>2. node'[w] = a
      BY <2>1 DEF TypeOK
    <3>3. memory'[front'].next = memory[front].next
      BY <1>2, <2>2, <2>4
    <3>4. SUFFICES ASSUME main = "free"
                   PROVE  LET old == memory[front].next
                          IN  /\ old \in DOMAIN memory'
                              /\ \A i \in DOMAIN c : c[i] # old
                              /\ \A u \in Linking' : node'[u] # old
      BY <2>2, <3>3 DEF Freeing
    <3> DEFINE old == memory[front].next
    <3>5. /\ old \in DOMAIN memory
          /\ \A i \in DOMAIN c : c[i] # old
          /\ \A u \in Linking : node[u] # old
      BY <1>3, <3>4 DEF Freeing
    <3> HIDE DEF old
    <3>6. old \in DOMAIN memory' /\ \A u \in Linking' : node'[u] # old
      BY <2>2, <2>4, <3>1, <3>2, <3>5
    <3> QED
      BY <3>5, <3>6 DEF old
  <2> QED
    BY <1>3, <2>2, <2>5, <2>6, <2>7, <2>8, <2>9, LinkedNext
<1>13. ASSUME NEW w \in Workers, LinkPrev(w) \/ LinkNext(w)
       PROVE  Linked' /\ Chain' = c
  <2>1. /\ pc[w] \in {"link", "next"}
        /\ UNCHANGED <<main, n, node, front, back, order, taken, size>>
    BY <1>13 DEF LinkPrev, LinkNext, Goto
  <2>2. w \in Linking
    BY <2>1 DEF Linking, InEnqueue, Inside, Counting
  <2>3. /\ node[w] \in DOMAIN memory
        /\ \A i \in 1..Len(c) : c[i] # node[w]
    BY <1>1, <1>2, <2>2 DEF ListInv, LinkInv
  <2>4. node[w] \in Pointers /\ back \in Pointers
    BY DEF TypeOK, Pointers
  <2>5. /\ DOMAIN memory' = DOMAIN memory
        /\ \A b \in DOMAIN memory : memory'[b].data = memory[b].data
        /\ \A i \in 1..Len(c) : memory'[c[i]].next = memory[c[i]].next
        /\ \A i \in 1..Len(c) :
             i < Len(c) => memory'[c[i]].prev = memory[c[i]].prev
    <3>1. CASE LinkPrev(w)
      <4>1. memory' = [memory EXCEPT ![back].prev = node[w]]
        BY <3>1 DEF LinkPrev
      <4>2. /\ DOMAIN memory' = DOMAIN memory
            /\ \A b \in DOMAIN memory :
                 /\ memory'[b].data = memory[b].data
                 /\ memory'[b].next = memory[b].next
                 /\ b # back => memory'[b].prev = memory[b].prev
        BY <1>2, <1>4, <2>4, <4>1, SetPrev
      <4>3. \A i \in 1..Len(c) : i < Len(c) => c[i] # back
        <5>1. \A i, j \in DOMAIN c : c[i] = c[j] => i = j
          BY <1>3 DEF IsList
        <5>2. /\ Len(c) \in Nat \ {0} /\ DOMAIN c = 1..Len(c)
              /\ back = c[Len(c)]
          BY <1>2, <1>4
        <5> QED
          BY <5>1, <5>2
      <4> QED
        BY <1>2, <4>2, <4>3
    <3>2. CASE LinkNext(w)
      <4>1. memory' = [memory EXCEPT ![node[w]].next = back]
        BY <3>2 DEF LinkNext
      <4>2. /\ DOMAIN memory' = DOMAIN memory
            /\ \A b \in DOMAIN memory :
                 /\ memory'[b].data = memory[b].data
                 /\ memory'[b].prev = memory[b].prev
                 /\ b # node[w] => memory'[b].next = memory[b].next
        BY <1>4, <2>3, <2>4, <4>1, SetNext
      <4> QED
        BY <1>2, <2>3, <4>2
    <3> QED
      BY <1>13, <3>1, <3>2
  <2>6. Counting' = Counting
    <3>1. \A u \in Workers : ~SetBack(u) /\ ~EnqueueWrite(u)
      BY <1>13 DEF LinkPrev, LinkNext, SetBack, EnqueueWrite, Goto, TypeOK
    <3> QED
      BY <3>1, CountingStep
  <2>7. IsList(c, front', back', memory')
    BY <1>2, <1>3, <2>1, <2>5, ListStays
  <2>8. Texts(c, memory') = Texts(c, memory)
    BY <1>2, <2>5 DEF Texts
  <2>9. Taking' = Taking /\ Copied'
    BY <1>2, <1>3, <2>1, <2>5 DEF Taking, Copied
  <2>10. Freeing(c)'
    <3>1. \A u \in Linking' : u \in Linking /\ node'[u] = node[u]
      <4>1. \A u \in Workers : ~Enqueue(u)
        BY <1>13 DEF LinkPrev, LinkNext, Enqueue, Goto, TypeOK
      <4>2. Linking' \subseteq Workers
        BY DEF Linking, InEnqueue
      <4> QED
        BY <4>1, <4>2, LinkingStep
    <3>2. memory'[front'].next = memory[front].next
      BY <1>2, <2>1, <2>5
    <3> QED
      BY <1>3, <2>1, <2>5, <3>1, <3>2 DEF Freeing
  <2> QED
    BY <1>3, <2>1, <2>6, <2>7, <2>8, <2>9, <2>10, LinkedNext
<1>14. ASSUME NEW w \in Workers, SetBack(w)
       PROVE  Linked' /\ Chain' = Append(c, node[w])
  <2>1. /\ pc[w] = "back" /\ pc' = [pc EXCEPT ![w] = "size"]
        /\ back' = node[w] /\ order' = Append(order, running[w].p)
        /\ UNCHANGED <<main, n, memory, front, taken, size>>
    BY <1>14 DEF SetBack, Goto
  <2>2. w \in Linking
    BY <2>1 DEF Linking, InEnqueue, Inside, Counting
  <2>3. PICK x : x = node[w]
    OBVIOUS
  <2>4. /\ x \in DOMAIN memory /\ \A i \in DOMAIN c : c[i] # x
        /\ memory[x].data = running[w].p
        /\ memory[back].prev = x /\ memory[x].next = back
    BY <1>1, <2>1, <2>2, <2>3 DEF ListInv, LinkInv
  <2>5. PICK t : t = Append(c, x)
    OBVIOUS
  <2>6. IsList(t, front', back', memory') /\ Len(t) = Len(c) + 1
    BY <1>3, <2>1, <2>3, <2>4, <2>5, ListAppend
  <2>7. order' = taken' \o Texts(t, memory')
    <3>1. Append(taken \o Texts(c, memory), memory[x].data)
            = taken \o Texts(t, memory)
      BY <1>2, <1>4, <2>4, <2>5, JoinLast DEF Typed
    <3> QED
      BY <1>3, <2>1, <2>4, <3>1
  <2>8. size' + Cardinality(Counting)' + 1 = Len(t) + Taking'
    <3>1. Counting = {} /\ Counting' = {w}
      <4>1. \A u \in Workers : SetBack(u) => u = w
        BY <1>14 DEF SetBack, Goto, TypeOK
      <4>2. \A u \in Workers : ~EnqueueWrite(u)
        BY <1>14 DEF SetBack, EnqueueWrite, Goto, TypeOK
      <4> QED
        BY <1>14, <4>1, <4>2, CountingStep
    <3>2. Cardinality(Counting) = 0 /\ Cardinality(Counting)' = 1
      BY <3>1, FS_EmptySet, FS_Singleton
    <3>3. Taking' = Taking /\ size' = size
      BY <2>1 DEF Taking
    <3> QED
      BY <1>2, <1>3, <1>4, <2>6, <3>2, <3>3
  <2>9. Copied'
    BY <1>3, <2>1 DEF Copied
  <2>10. Freeing(t)'
    <3>1. \A u \in Linking' : u \in Linking /\ node'[u] = node[u]
      <4>1. \A u \in Workers : ~Enqueue(u)
        BY <1>14 DEF SetBack, Enqueue, Goto, TypeOK
      <4>2. Linking' \subseteq Workers
        BY DEF Linking, InEnqueue
      <4> QED
        BY <4>1, <4>2, LinkingStep
    <3>2. SUFFICES ASSUME main = "free"
                   PROVE  LET old == memory[front].next
                          IN  /\ old \in DOMAIN memory
                              /\ \A i \in DOMAIN t : t[i] # old
                              /\ \A u \in Linking' : node'[u] # old
      BY <2>1 DEF Freeing
    <3> DEFINE old == memory[front].next
    <3>3. /\ old \in DOMAIN memory
          /\ \A i \in DOMAIN c : c[i] # old
          /\ \A u \in Linking : node[u] # old
      BY <1>3, <3>2 DEF Freeing
    <3> HIDE DEF old
    <3>4. x # old
      BY <2>2, <2>3, <3>3
    <3>5. \A i \in DOMAIN t : t[i] = x \/ \E j \in DOMAIN c : t[i] = c[j]
      <4>1. /\ t \in Seq(DOMAIN memory) /\ Len(t) = Len(c) + 1
            /\ \A i \in 1..Len(c) : t[i] = c[i]
            /\ t[Len(c) + 1] = x
        BY <1>2, <2>4, <2>5, AppendProperties
      <4>2. DOMAIN t = 1..(Len(c) + 1)
        BY <4>1, LenProperties
      <4>3. \A i \in 1..(Len(c) + 1) : i \in 1..Len(c) \/ i = Len(c) + 1
        BY <1>2
      <4> QED
        BY <1>2, <4>1, <4>2, <4>3
    <3>6. \A i \in DOMAIN t : t[i] # old
      BY <3>3, <3>4, <3>5
    <3>7. \A u \in Linking' : node'[u] # old
      BY <3>1, <3>3
    <3> QED
      BY <3>3, <3>6, <3>7 DEF old
  <2> QED
    BY <2>3, <2>5, <2>6, <2>7, <2>8, <2>9, <2>10, LinkedNext
<1>15. ASSUME NEW w \in Workers, EnqueueWrite(w)
       PROVE  Linked' /\ Chain' = c
  <2>1. /\ UNCHANGED <<main, n, node, memory, front, back, order, taken>>
        /\ size' = size + 1
    BY <1>15 DEF EnqueueWrite, Stale
  <2>2. Counting = {w} /\ Counting' = {}
    <3>1. \A u \in Workers : EnqueueWrite(u) => u = w
      BY <1>15 DEF EnqueueWrite, Goto, TypeOK
    <3>2. \A u \in Workers : ~SetBack(u)
      BY <1>15 DEF SetBack, EnqueueWrite, Goto, TypeOK
    <3> QED
      BY <1>15, <3>1, <3>2, CountingStep
  <2>3. Cardinality(Counting) = 1 /\ Cardinality(Counting)' = 0
    BY <2>2, FS_EmptySet, FS_Singleton
  <2>4. Taking' = Taking /\ Copied'
    BY <1>3, <2>1 DEF Taking, Copied
  <2>5. size' + Cardinality(Counting)' + 1 = Len(c) + Taking'
    BY <1>2, <1>3, <1>4, <2>1, <2>3, <2>4
  <2>6. \A u \in Linking' : u \in Linking /\ node'[u] = node[u]
    <3>1. \A u \in Workers : ~Enqueue(u)
      BY <1>15 DEF EnqueueWrite, Enqueue, Goto, TypeOK
    <3>2. Linking' \subseteq Workers
      BY DEF Linking, InEnqueue
    <3> QED
      BY <3>1, <3>2, LinkingStep
  <2>7. Freeing(c)'
    BY <1>3, <2>1, <2>6 DEF Freeing
  <2> QED
    BY <1>3, <2>1, <2>4, <2>5, <2>7, LinkedNext
<1>16. ASSUME NEW w \in Workers, Fault(w)
       PROVE  FALSE
  BY <1>16, NoFault DEF Fault
<1>17. ASSUME UNCHANGED vars
       PROVE  Linked' /\ Chain' = c
  <2>1. /\ UNCHANGED <<main, n, pc, node, memory, front, back, order, taken,
                       size>>
    BY <1>17 DEF vars
  <2>2. /\ Counting' = Counting /\ Linking' = Linking /\ Taking' = Taking
        /\ Copied' /\ Freeing(c)'
    BY <1>3, <2>1 DEF Counting, Linking, InEnqueue, Inside, Taking, Copied,
       Freeing
  <2> QED
    BY <1>3, <2>1, <2>2, LinkedNext
<1> QED
  BY <1>1, <1>6, <1>7, <1>8, <1>9, <1>10, <1>11, <1>12, <1>13, <1>14,
     <1>15, <1>16, <1>17
  DEF Next, MainStep, WorkerStep, Rest


(* An unused queue stays unused until a call of enqueue sets the back.     *)
LEMMA UnusedStep ==
  ASSUME TypeOK, TypeOK', PhaseInv, ListInv, Unused, [Next]_vars
  PROVE  \/ Unused'
         \/ Linked' /\ \E w \in Workers : FirstBack(w)
<1>1. /\ back = NULL /\ size = 0 /\ order = <<>> /\ taken = <<>>
      /\ Counting = {}
      /\ main \notin {"free", "size", "sizeDown"}
      /\ main \notin {"peek", "dequeue", "unlink"}
  <2>1. /\ back = NULL /\ size = 0 /\ order = <<>> /\ taken = <<>>
        /\ Counting = {} /\ main \notin {"free", "size", "sizeDown"}
    BY DEF Unused
  <2> QED
    BY <2>1 DEF PhaseInv
<1>2. /\ pc \in [Workers -> JobSteps]
      /\ node \in [Workers -> Nodes \cup {NULL}]
  BY DEF TypeOK
<1>3. \A w \in Workers :
        pc[w] \notin {"link", "next", "back", "size", "sizeUp"}
  <2> SUFFICES ASSUME NEW w \in Workers
               PROVE  pc[w] \notin {"link", "next", "back", "size", "sizeUp"}
    OBVIOUS
  <2>1. pc[w] \notin {"size", "sizeUp"}
    BY <1>1 DEF Counting
  <2>2. pc[w] \in {"link", "next", "back"} => w \in Linking
    BY DEF Linking, InEnqueue, Inside, Counting
  <2> QED
    BY <1>1, <2>1, <2>2 DEF ListInv, LinkInv
<1>4. ASSUME ~(\E w \in Workers : FirstBack(w))
      PROVE  Counting' = {}
  <2>1. \A w \in Workers : ~SetBack(w) /\ ~EnqueueWrite(w)
    BY <1>3 DEF SetBack, EnqueueWrite, Goto
  <2> QED
    BY <1>1, <2>1, CountingStep
<1>5. front # NULL =>
        \E w \in Workers : pc[w] = "firstBack" /\ front = node[w]
  BY DEF Unused
<1>6. CASE MainStep \/ (\E w \in Workers : Fault(w)) \/ UNCHANGED vars
  <2>1. \A w \in Workers : ~Fault(w)
    BY NoFault DEF Fault
  <2>2. /\ main' \notin {"free", "size", "sizeDown"}
        /\ UNCHANGED <<pc, node, front, back, size, order, taken>>
    BY <1>1, <1>6, <2>1 DEF MainStep, Scan, ScanAdd, ScanEnds, Drain, Peek,
       DequeueTest, Unlink, FreeOld, DequeueRead, DequeueWrite, AddWork,
       WaitReturns, MainGoto, vars
  <2>3. Counting' = {}
    BY <1>1, <2>2 DEF Counting
  <2> QED
    BY <1>1, <1>5, <2>2, <2>3 DEF Unused
<1>7. ASSUME NEW w \in Workers,
             StartJob(w) \/ EndJob(w) \/ Receive(w) \/ HandOn(w) \/ Switch(w)
             \/ Enqueue(w) \/ TestFront(w) \/ TestBack(w)
      PROVE  Unused'
  <2>1. /\ pc[w] # "firstBack" /\ \E x : pc' = [pc EXCEPT ![w] = x]
        /\ \E x : node' = [node EXCEPT ![w] = x]
        /\ UNCHANGED <<main, front, back, size, order, taken>>
        /\ ~FirstBack(w)
    <3>1. node = [node EXCEPT ![w] = node[w]]
      BY <1>2
    <3> QED
      BY <1>7, <3>1 DEF StartJob, EndJob, Receive, HandOn, Switch, Enqueue,
         TestFront, TestBack, FirstBack, Goto
  <2>2. \A u \in Workers : pc[u] = "firstBack" =>
          pc'[u] = "firstBack" /\ node'[u] = node[u]
    BY <1>2, <2>1
  <2>3. \A u \in Workers : ~FirstBack(u)
    <3>1. \A u \in Workers : FirstBack(u) => pc[u] = "firstBack"
                                            /\ pc'[u] = "return"
      BY <1>2 DEF FirstBack, Goto
    <3> QED
      BY <2>2, <3>1
  <2>4. Counting' = {}
    BY <1>4, <2>3
  <2> QED
    BY <1>1, <1>5, <2>1, <2>2, <2>4 DEF Unused
<1>8. ASSUME NEW w \in Workers, FirstFront(w)
      PROVE  Unused'
  <2>1. /\ pc'[w] = "firstBack" /\ front' = node[w] /\ node' = node
        /\ UNCHANGED <<main, back, size, order, taken>>
    BY <1>2, <1>8 DEF FirstFront, Goto
  <2>2. \A u \in Workers : ~FirstBack(u)
    BY <1>2, <1>8 DEF FirstFront, FirstBack, Goto
  <2>3. Counting' = {}
    BY <1>4, <2>2
  <2> QED
    BY <1>1, <2>1, <2>3 DEF Unused
<1>9. ASSUME NEW w \in Workers, FirstBack(w)
      PROVE  Linked'
  <2>1. /\ pc[w] = "firstBack" /\ pc' = [pc EXCEPT ![w] = "return"]
        /\ back' = node[w] /\ order' = Append(order, running[w].p)
        /\ UNCHANGED <<main, n, memory, front, taken, size>>
    BY <1>9 DEF FirstBack, Goto
  <2>2. w \in Linking
    BY <2>1 DEF Linking, InEnqueue, Inside, Counting
  <2>3. PICK x : x = node[w]
    OBVIOUS
  <2>4. x \in DOMAIN memory /\ memory[x].data = running[w].p /\ front = x
    BY <2>1, <2>2, <2>3 DEF ListInv, LinkInv
  <2>5. PICK t : t = <<x>>
    OBVIOUS
  <2>6. IsList(t, front', back', memory') /\ Len(t) = 1
    BY <2>1, <2>3, <2>4, <2>5, ListOne
  <2>7. order' = taken' \o Texts(t, memory')
    <3>1. DOMAIN t = {1} /\ t[1] = x
      BY <2>5
    <3>2. Texts(t, memory) = [d \in {1} |-> running[w].p]
      BY <2>4, <3>1 DEF Texts
    <3>3. <<running[w].p>> = [d \in {1} |-> running[w].p]
      BY DOMAIN <<running[w].p>> = 1..1, 1..1 = {1}
    <3>4. running[w].p \in Messages
      BY <2>4 DEF TypeOK, Node
    <3>5. /\ Append(<<>>, running[w].p) = <<running[w].p>>
          /\ <<>> \o <<running[w].p>> = <<running[w].p>>
      BY <3>4, ConcatEmptySeq
    <3> QED
      BY <1>1, <2>1, <3>2, <3>3, <3>5
  <2>8. size' + Cardinality(Counting)' + 1 = Len(t) + Taking'
    <3>1. Counting' = {}
      BY <1>1, <1>2, <2>1 DEF Counting
    <3>2. Cardinality(Counting)' = 0
      BY <3>1, FS_EmptySet
    <3>3. Taking' = 0
      BY <1>1, <2>1 DEF Taking
    <3> QED
      BY <1>1, <2>1, <2>6, <3>2, <3>3
  <2>9. Copied' /\ Freeing(t)'
    BY <1>1, <2>1 DEF Copied, Freeing
  <2> QED
    BY <2>6, <2>7, <2>8, <2>9, LinkedNext
<1>10. ASSUME NEW w \in Workers,
              LinkPrev(w) \/ LinkNext(w) \/ SetBack(w) \/ EnqueueRead(w)
              \/ EnqueueWrite(w)
       PROVE  FALSE
  BY <1>3, <1>10 DEF LinkPrev, LinkNext, SetBack, EnqueueRead, EnqueueWrite,
     Goto
<1> QED
  BY <1>6, <1>7, <1>8, <1>9, <1>10 DEF Next, WorkerStep, Rest

(* Calls of enqueue that do not overlap stay apart.                        *)
LEMMA SingleStep ==
  ASSUME TypeOK, ListInv, [Next]_vars, ~raced'
  PROVE  \A u, w \in InEnqueue' : u = w
<1>1. \A u, w \in InEnqueue : u = w
  BY DEF ListInv
<1>2. ASSUME NEW w \in Workers, Enqueue(w)
      PROVE  InEnqueue = {}
  <2>1. ~Enqueuing(w) /\ pc[w] = "begin"
    BY <1>2 DEF Enqueue, Goto
  <2> QED
    BY <2>1 DEF Enqueuing, InEnqueue, Inside
<1> QED
  BY <1>1, <1>2, InsideStep


(* The node of a call is not in the list before the call puts it there.    *)
LEMMA ApartStep ==
  ASSUME TypeOK, TypeOK', PhaseInv, ListInv, [Next]_vars, ~raced',
         NEW u \in Linking'
  PROVE  \A i \in DOMAIN Chain' : Chain'[i] # node'[u]
<1>1. u \in Workers
  BY DEF Linking, InEnqueue
<1>2. \A x, w \in Workers : Inside(x) /\ Inside(w) => x = w
  BY DEF ListInv, InEnqueue
<1>3. pc \in [Workers -> JobSteps] /\ node \in [Workers -> Nodes \cup {NULL}]
  BY DEF TypeOK
<1>4. CASE Unused
  <2>1. CASE Unused'
    <3>1. Chain' = <<>>
      BY <2>1, ChainNone DEF Unused, Chain
    <3> QED
      BY <3>1
  <2>2. CASE \E w \in Workers : FirstBack(w)
    <3>1. PICK w \in Workers : FirstBack(w)
      BY <2>2
    <3>2. pc[w] = "firstBack" /\ pc' = [pc EXCEPT ![w] = "return"]
      BY <3>1 DEF FirstBack, Goto
    <3>3. u # w /\ Inside(u)
      BY <1>1, <1>3, <3>2 DEF Linking, InEnqueue, Inside
    <3> QED
      BY <1>1, <1>2, <3>2, <3>3 DEF Inside
  <2> QED
    BY <1>4, <2>1, <2>2, UnusedStep
<1>5. CASE Linked
  <2>1. \A i \in DOMAIN Chain : Chain[i] # node'[u]
    <3>1. CASE Enqueue(u)
      <4>1. \A i \in DOMAIN Chain : Chain[i] \in DOMAIN memory
        BY <1>5, LinkedFacts
      <4>2. node'[u] \notin DOMAIN memory
        BY <1>1, <1>3, <3>1 DEF Enqueue, Free
      <4> QED
        BY <4>1, <4>2
    <3>2. CASE u \in Linking /\ node'[u] = node[u]
      BY <3>2 DEF ListInv, LinkInv
    <3> QED
      BY <3>1, <3>2, LinkingStep
  <2>2. CASE Chain' = Chain
    BY <2>1, <2>2
  <2>3. CASE Chain' = Tail(Chain)
    <3>1. \A i \in DOMAIN Tail(Chain) : i + 1 \in DOMAIN Chain
                                        /\ Tail(Chain)[i] = Chain[i + 1]
      <4>1. PICK c : c = Chain
        OBVIOUS
      <4>2. /\ c \in Seq(DOMAIN memory) /\ c # <<>>
            /\ DOMAIN c = 1..Len(c) /\ Len(c) \in Nat
        BY <1>5, <4>1, LinkedFacts, NumberTypes
      <4>3. /\ Tail(c) \in Seq(DOMAIN memory) /\ Len(Tail(c)) = Len(c) - 1
            /\ \A i \in 1..Len(Tail(c)) : Tail(c)[i] = c[i + 1]
        BY <4>2, HeadTailProperties
      <4>4. DOMAIN Tail(c) = 1..Len(Tail(c))
        BY <4>3, LenProperties
      <4> QED
        BY <4>1, <4>2, <4>3, <4>4
    <3> QED
      BY <2>1, <2>3, <3>1
  <2>4. ASSUME NEW w \in Workers, SetBack(w)
        PROVE  FALSE
    <3>1. pc[w] = "back" /\ pc' = [pc EXCEPT ![w] = "size"]
      BY <2>4 DEF SetBack, Goto
    <3>2. u # w /\ Inside(u)
      BY <1>1, <1>3, <3>1 DEF Linking, InEnqueue, Inside, Counting
    <3> QED
      BY <1>1, <1>2, <3>1, <3>2 DEF Inside
  <2> QED
    BY <1>5, <2>2, <2>3, <2>4, LinkedStep
<1> QED
  BY <1>4, <1>5 DEF ListInv

(* What a call of enqueue has seen stays true until it has linked its node.*)
LEMMA LinkStep ==
  ASSUME TypeOK, TypeOK', PhaseInv, ListInv, [Next]_vars, ~raced',
         NEW u \in Linking'
  PROVE  LinkInv(u)'
<1>1. \A i \in DOMAIN Chain' : Chain'[i] # node'[u]
  BY ApartStep
<1>2. u \in Workers
  BY DEF Linking, InEnqueue
<1>3. \A x, w \in Workers : Inside(x) /\ Inside(w) => x = w
  BY DEF ListInv, InEnqueue
<1>4. /\ pc \in [Workers -> JobSteps]
      /\ node \in [Workers -> Nodes \cup {NULL}]
      /\ Typed(memory)
  BY DEF TypeOK, Typed
<1>5. CASE Enqueue(u)
  <2>1. PICK a \in Free :
          /\ node' = [node EXCEPT ![u] = a]
          /\ memory' = Put(memory, a, [data |-> running[u].p,
                                       prev |-> Wild, next |-> Wild])
    BY <1>5 DEF Enqueue
  <2>2. a \in DOMAIN memory' /\ memory'[a].data = running[u].p
    BY <2>1 DEF Put
  <2>3. node'[u] = a /\ running' = running /\ pc'[u] = "testFront"
    BY <1>2, <1>4, <1>5, <2>1 DEF Enqueue, Goto
  <2> QED
    BY <1>1, <2>2, <2>3 DEF LinkInv
<1> SUFFICES ASSUME ~Enqueue(u)
             PROVE  LinkInv(u)'
  BY <1>5
<1>6. u \in Linking /\ node'[u] = node[u] /\ running'[u] = running[u]
  BY LinkingStep
<1>7. LinkInv(u) /\ Inside(u)
  BY <1>6 DEF ListInv, Linking, InEnqueue
<1>8. CASE UNCHANGED <<pc, front, back, memory>>
  BY <1>1, <1>6, <1>7, <1>8 DEF LinkInv
<1>9. CASE MainStep
  <2>1. CASE Unlink
    <3>1. Linked
      <4>1. size > 0
        BY <2>1 DEF Unlink, MainGoto, PhaseInv
      <4> QED
        BY <4>1 DEF ListInv, Unused
    <3>2. back # NULL /\ UNCHANGED <<pc, back, memory>>
      BY <2>1, <3>1, LinkedFacts DEF Unlink
    <3> QED
      BY <1>1, <1>6, <1>7, <3>2 DEF LinkInv
  <2>2. CASE FreeOld
    <3>1. /\ main = "free" /\ UNCHANGED <<pc, front, back>>
          /\ memory' = [a \in DOMAIN memory \ {memory[front].next} |->
                          memory[a]]
      BY <2>2 DEF FreeOld, MainGoto
    <3>2. Linked
      BY <3>1 DEF ListInv, Unused
    <3>3. node[u] # memory[front].next
      BY <1>6, <3>1, <3>2 DEF Linked
    <3>4. back \in DOMAIN memory /\ back # memory[front].next
      <4>1. \A i \in DOMAIN Chain : Chain[i] # memory[front].next
        BY <3>1, <3>2 DEF Linked
      <4>2. /\ back \in DOMAIN memory
            /\ DOMAIN Chain = 1..Len(Chain) /\ Len(Chain) \in Nat \ {0}
            /\ back = Chain[Len(Chain)]
        BY <3>2, LinkedFacts, NumberTypes
      <4> QED
        BY <4>1, <4>2
    <3>5. \A a \in {node[u], back} : a \in DOMAIN memory =>
            a \in DOMAIN memory' /\ memory'[a] = memory[a]
      BY <3>1, <3>3, <3>4
    <3> QED
      BY <1>1, <1>6, <1>7, <3>1, <3>4, <3>5 DEF LinkInv
  <2> QED
    BY <1>8, <1>9, <2>1, <2>2 DEF MainStep, Scan, ScanAdd, ScanEnds, Drain,
       Peek, DequeueTest, DequeueRead, DequeueWrite, AddWork, WaitReturns
<1>10. ASSUME NEW w \in Workers, w # u, WorkerStep(w)
       PROVE  LinkInv(u)'
  <2>1. ~Inside(w)
    BY <1>2, <1>3, <1>7, <1>10
  <2>2. ~Enqueue(w)
    BY <1>2, <1>7, <1>10 DEF Enqueue, Enqueuing
  <2>3. ~Fault(w)
    BY NoFault DEF Fault
  <2>4. StartJob(w) \/ EndJob(w) \/ Receive(w) \/ HandOn(w) \/ Switch(w)
    BY <1>10, <2>1, <2>2, <2>3 DEF WorkerStep, Inside, Goto, TestFront,
       TestBack, FirstFront, FirstBack, LinkPrev, LinkNext, SetBack,
       EnqueueRead, EnqueueWrite
  <2>5. pc'[u] = pc[u] /\ UNCHANGED <<front, back, memory>>
    BY <1>2, <1>4, <1>10, <2>4 DEF StartJob, EndJob, Receive, HandOn, Switch,
       Goto
  <2> QED
    BY <1>1, <1>6, <1>7, <2>5 DEF LinkInv
<1>11. CASE TestFront(u)
  <2>1. /\ pc[u] = "testFront"
        /\ pc'[u] = IF front = NULL THEN "testBack" ELSE "link"
        /\ UNCHANGED <<front, back, memory>>
    BY <1>2, <1>4, <1>11 DEF TestFront, Goto
  <2>2. front = NULL <=> back = NULL
    <3>1. CASE Unused
      <4>1. \A w \in Workers : pc[w] = "firstBack" => w = u
        BY <1>2, <1>3, <1>7 DEF Inside
      <4> QED
        BY <2>1, <3>1, <4>1 DEF Unused
    <3>2. CASE Linked
      BY <3>2, LinkedFacts
    <3> QED
      BY <3>1, <3>2 DEF ListInv
  <2> QED
    BY <1>1, <1>6, <1>7, <2>1, <2>2 DEF LinkInv
<1>12. CASE TestBack(u)
  <2>1. /\ pc[u] = "testBack"
        /\ pc'[u] = IF back = NULL THEN "first" ELSE "link"
        /\ UNCHANGED <<front, back, memory>>
    BY <1>2, <1>4, <1>12 DEF TestBack, Goto
  <2> QED
    BY <1>1, <1>6, <1>7, <2>1 DEF LinkInv
<1>13. CASE FirstFront(u)
  <2>1. /\ pc[u] = "first" /\ pc'[u] = "firstBack"
        /\ front' = node[u] /\ UNCHANGED <<back, memory>>
    BY <1>2, <1>4, <1>13 DEF FirstFront, Goto
  <2> QED
    BY <1>1, <1>6, <1>7, <2>1 DEF LinkInv
<1>14. CASE LinkPrev(u) \/ LinkNext(u)
  <2>1. /\ pc[u] \in {"link", "next"}
        /\ pc'[u] = IF pc[u] = "link" THEN "next" ELSE "back"
        /\ UNCHANGED <<front, back>>
    BY <1>2, <1>4, <1>14 DEF LinkPrev, LinkNext, Goto
  <2>2. node[u] \in DOMAIN memory /\ back # NULL
    BY <1>7, <2>1 DEF LinkInv
  <2>3. back \in DOMAIN memory
    BY <2>2, LinkedFacts DEF ListInv, Unused
  <2>4. node[u] \in Pointers /\ back \in Pointers
    BY <1>2 DEF TypeOK, Pointers
  <2>5. /\ DOMAIN memory' = DOMAIN memory
        /\ memory'[node[u]].data = memory[node[u]].data
        /\ memory'[back].prev = node[u]
        /\ pc[u] = "next" => memory'[node[u]].next = back
    <3>1. CASE LinkPrev(u)
      <4>1. memory' = [memory EXCEPT ![back].prev = node[u]]
            /\ pc[u] = "link"
        BY <3>1 DEF LinkPrev, Goto
      <4>2. /\ DOMAIN memory' = DOMAIN memory
            /\ \A b \in DOMAIN memory : memory'[b].data = memory[b].data
            /\ memory'[back].prev = node[u]
        BY <1>4, <2>3, <2>4, <4>1, SetPrev
      <4> QED
        BY <2>2, <4>1, <4>2
    <3>2. CASE LinkNext(u)
      <4>1. memory' = [memory EXCEPT ![node[u]].next = back]
            /\ pc[u] = "next"
        BY <3>2 DEF LinkNext, Goto
      <4>2. /\ DOMAIN memory' = DOMAIN memory
            /\ \A b \in DOMAIN memory : /\ memory'[b].data = memory[b].data
                                        /\ memory'[b].prev = memory[b].prev
            /\ memory'[node[u]].next = back
        BY <1>4, <2>2, <2>4, <4>1, SetNext
      <4>3. memory[back].prev = node[u]
        BY <1>7, <4>1 DEF LinkInv
      <4> QED
        BY <2>2, <2>3, <4>2, <4>3
    <3> QED
      BY <1>14, <3>1, <3>2
  <2> QED
    BY <1>1, <1>6, <1>7, <2>1, <2>2, <2>5 DEF LinkInv
<1>15. CASE FirstBack(u) \/ SetBack(u) \/ EnqueueRead(u) \/ EnqueueWrite(u)
            \/ StartJob(u) \/ EndJob(u) \/ Receive(u) \/ HandOn(u)
            \/ Switch(u)
  <2>1. pc'[u] \in {"idle", "begin", "return", "size", "sizeUp"}
    BY <1>2, <1>4, <1>15 DEF FirstBack, SetBack, EnqueueRead, EnqueueWrite,
       StartJob, EndJob, Receive, HandOn, Switch, Goto
  <2> QED
    BY <2>1 DEF Linking, InEnqueue, Inside, Counting
<1>16. CASE Fault(u)
  BY <1>2, <1>16, NoFault DEF Fault
<1> QED
  BY <1>2, <1>8, <1>9, <1>10, <1>11, <1>12, <1>13, <1>14, <1>15, <1>16
  DEF Next, WorkerStep, Rest, vars

(* The list, while calls of enqueue do not overlap.                        *)
LEMMA ListStep ==
  ASSUME TypeOK, TypeOK', PhaseInv, ListInv, [Next]_vars, ~raced'
  PROVE  ListInv'
<1>1. main' # "crashed"
  <2>1. \A w \in Workers : ~Fault(w)
    BY NoFault DEF Fault
  <2>2. main # "crashed"
    BY DEF ListInv
  <2>3. CASE MainStep
    BY <2>3 DEF MainStep, Scan, ScanAdd, ScanEnds, Drain, Peek, DequeueTest,
       Unlink, FreeOld, DequeueRead, DequeueWrite, AddWork, WaitReturns,
       MainGoto
  <2>4. ASSUME NEW w \in Workers, WorkerStep(w)
        PROVE  main' = main
    BY <2>1, <2>4 DEF WorkerStep, StartJob, EndJob, Receive, HandOn, Enqueue,
       Switch, TestFront, TestBack, FirstFront, FirstBack, LinkPrev,
       LinkNext, SetBack, EnqueueRead, EnqueueWrite
  <2> QED
    BY <2>2, <2>3, <2>4 DEF Next, Rest, vars
<1>2. Unused' \/ Linked'
  BY UnusedStep, LinkedStep DEF ListInv
<1>3. \A u \in Linking' : LinkInv(u)'
  BY LinkStep
<1> QED
  BY <1>1, <1>2, <1>3, SingleStep DEF ListInv

-----------------------------------------------------------------------------
(* The theorems.                                                           *)

(* The invariant holds at the start ...                                    *)
LEMMA InitInv == Init => IInv
<1> SUFFICES ASSUME Init
             PROVE  IInv
  OBVIOUS
<1> USE DEF Init
<1>1. MaxEnqueues \in Nat
  BY QueueAssumption DEF QueueAssumption
<1>2. /\ InEnqueue = {} /\ Counting = {} /\ Linking = {}
  BY DEF InEnqueue, Counting, Linking, Inside
<1>3. Cardinality(InEnqueue) = 0
  BY <1>2, FS_EmptySet
<1>4. TypeOK
  <2>1. Pool!PoolTypeOK
    BY DEF Pool!PoolInit, Pool!PoolTypeOK
  <2>2. order \in Seq(Messages) /\ taken \in Seq(Messages)
    OBVIOUS
  <2>3. DOMAIN memory = {}
    OBVIOUS
  <2>4. /\ count \in [Workers \cup {Main} -> 0..MaxEnqueues]
        /\ size \in 0..MaxEnqueues /\ calls \in 0..MaxEnqueues
    BY <1>1
  <2>5. /\ main \in MainSteps /\ pc \in [Workers -> JobSteps]
        /\ node \in [Workers -> Nodes \cup {NULL}]
        /\ front \in Pointers /\ back \in Pointers
    BY DEF MainSteps, JobSteps, Pointers
  <2> QED
    BY <2>1, <2>2, <2>3, <2>4, <2>5 DEF TypeOK
<1>5. PhaseInv
  BY DEF PhaseInv
<1>6. CallsInv
  BY <1>3 DEF CallsInv
<1>7. ListInv
  BY <1>2 DEF ListInv, Unused
<1> QED
  BY <1>4, <1>5, <1>6, <1>7 DEF IInv

(* ... and every step keeps it.                                            *)
LEMMA NextInv == IInv /\ [Next]_vars => IInv'
<1> SUFFICES ASSUME IInv, [Next]_vars
             PROVE  IInv'
  OBVIOUS
<1>1. TypeOK /\ PhaseInv /\ CallsInv /\ (~raced => ListInv)
  BY DEF IInv
<1>2. TypeOK'
  BY <1>1, TypeStep
<1>3. PhaseInv'
  BY <1>1, PhaseStep
<1>4. CallsInv'
  BY <1>1, CallsStep
<1>5. ~raced' => ~raced
  <2>1. ASSUME NEW w \in Workers, WorkerStep(w), ~raced'
        PROVE  ~raced
    BY <2>1 DEF WorkerStep, StartJob, EndJob, Receive, HandOn, Enqueue,
       Switch, TestFront, TestBack, FirstFront, FirstBack, LinkPrev,
       LinkNext, SetBack, EnqueueRead, EnqueueWrite, Fault
  <2>2. CASE MainStep
    BY <2>2 DEF MainStep, Scan, ScanAdd, ScanEnds, Drain, Peek, DequeueTest,
       Unlink, FreeOld, DequeueRead, DequeueWrite, AddWork, WaitReturns
  <2> QED
    BY <2>1, <2>2 DEF Next, Rest, vars
<1>6. ~raced' => ListInv'
  BY <1>1, <1>2, <1>5, ListStep
<1> QED
  BY <1>2, <1>3, <1>4, <1>6 DEF IInv

(* The inductive invariant holds in every reachable state.                 *)
THEOREM Invariance == Spec => []IInv
<1>1. Init => IInv
  BY InitInv
<1>2. IInv /\ [Next]_vars => IInv'
  BY NextInv
<1> QED
  BY <1>1, <1>2, PTL DEF Spec

(* Every variable of the queue and of the code around it keeps its type;   *)
(* size, in particular, never falls below zero.                            *)
THEOREM TypeCorrect == Spec => []TypeOK
<1>1. IInv => TypeOK
  BY DEF IInv
<1> QED
  BY <1>1, Invariance, PTL

(* Until calls of enqueue overlap or an update of size is lost, messages   *)
(* leave the queue once and in the order they came, and neither main() nor *)
(* a worker uses memory that is not allocated.                             *)
THEOREM InOrder == Spec => []Ordered
<1>1. IInv => Ordered
  <2> SUFFICES ASSUME IInv, ~raced
               PROVE  main # "crashed" /\ order = taken \o Waiting
    BY DEF Ordered
  <2>1. ListInv /\ TypeOK
    BY DEF IInv
  <2>2. CASE Unused
    <3>1. Chain = <<>>
      BY <2>2, ChainNone DEF Unused, Chain
    <3>2. Waiting = <<>>
      BY <3>1 DEF Waiting
    <3> QED
      BY <2>1, <2>2, <3>2 DEF Unused, ListInv
  <2>3. CASE Linked
    BY <2>1, <2>3 DEF Linked, ListInv
  <2> QED
    BY <2>1, <2>2, <2>3 DEF ListInv
<1> QED
  BY <1>1, Invariance, PTL

(* Until then, and while neither side is changing it, size is one less     *)
(* than the number of messages that wait.                                  *)
THEOREM CountedRight == Spec => []Counted
<1>1. IInv => Counted
  <2> SUFFICES ASSUME IInv, ~raced,
                      main \notin {"free", "size", "sizeDown"},
                      \A w \in Workers : ~Inside(w)
               PROVE  size = IF Chain = <<>> THEN 0 ELSE Len(Chain) - 1
    BY DEF Counted
  <2>1. ListInv /\ TypeOK
    BY DEF IInv
  <2>2. CASE Unused
    BY <2>2, ChainNone DEF Unused, Chain
  <2>3. CASE Linked
    <3>1. Counting = {} /\ Taking = 0
      BY DEF Counting, Inside, Taking
    <3>2. Cardinality(Counting) = 0
      BY <3>1, FS_EmptySet
    <3>3. size + Cardinality(Counting) + 1 = Len(Chain) + Taking
      BY <2>3 DEF Linked
    <3>4. Chain # <<>> /\ Len(Chain) \in Nat /\ size \in Nat
      BY <2>1, <2>3, LinkedFacts, NumberTypes
    <3> QED
      BY <3>1, <3>2, <3>3, <3>4
  <2> QED
    BY <2>1, <2>2, <2>3 DEF ListInv
<1> QED
  BY <1>1, Invariance, PTL

(* Until then main() waits for the pool with at most one message left,     *)
(* besides the one that is being linked.                                   *)
THEOREM LastOneWaits == Spec => LastWaits
<1>1. ASSUME IInv, [Next]_vars, main = "drain", main' = "wait", ~raced
      PROVE  Len(Chain) <= 1 + Cardinality(Counting)
  <2>1. ListInv /\ TypeOK
    BY <1>1 DEF IInv
  <2>2. size = 0
    <3>1. ASSUME NEW w \in Workers, WorkerStep(w)
          PROVE  main' # "wait"
      BY <1>1, <3>1 DEF WorkerStep, StartJob, EndJob, Receive, HandOn,
         Enqueue, Switch, TestFront, TestBack, FirstFront, FirstBack,
         LinkPrev, LinkNext, SetBack, EnqueueRead, EnqueueWrite, Fault
    <3>2. CASE MainStep
      BY <1>1, <3>2 DEF MainStep, Scan, ScanAdd, ScanEnds, Drain, Peek,
         DequeueTest, Unlink, FreeOld, DequeueRead, DequeueWrite, AddWork,
         WaitReturns, MainGoto
    <3> QED
      BY <1>1, <3>1, <3>2 DEF Next, Rest, vars
  <2>3. Cardinality(Counting) \in Nat
    BY CallsFinite
  <2>4. CASE Unused
    <3>1. Chain = <<>>
      BY <2>4, ChainNone DEF Unused, Chain
    <3> QED
      BY <2>3, <3>1, EmptySeq
  <2>5. CASE Linked
    <3>1. /\ size + Cardinality(Counting) + 1 = Len(Chain) + Taking
          /\ Taking = 0
      BY <1>1, <2>5 DEF Linked, Taking
    <3>2. Len(Chain) \in Nat
      BY <2>1, <2>5, LinkedFacts, NumberTypes
    <3> QED
      BY <2>2, <2>3, <3>1, <3>2
  <2> QED
    BY <2>1, <2>4, <2>5 DEF ListInv
<1>2. IInv /\ [Next]_vars =>
        [main = "drain" /\ main' = "wait" /\ ~raced =>
           Len(Chain) <= 1 + Cardinality(Counting)]_vars
  BY <1>1
<1> QED
  BY <1>2, Invariance, PTL DEF Spec, LastWaits

=============================================================================
