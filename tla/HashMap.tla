------------------------------- MODULE HashMap --------------------------------
(***************************************************************************)
(* The hash map of src/hashmap.c: open addressing with chains of at most   *)
(* MaxChain slots, and a table that doubles when it is half full or a      *)
(* chain is.  The server puts and removes names with hashmap_lock held,    *)
(* but new_protocol_handler looks names up without it: so what the holder  *)
(* of the lock writes is written field by field, and what a reader reads   *)
(* is read field by field, each time through m->data.                      *)
(*                                                                         *)
(* heap is the memory of the tables: heap[a] is one array of slots, and    *)
(* the empty function once it was freed.  A call of hashmap_put is a frame *)
(* on stack, since hashmap_rehash calls hashmap_put; a frame with old # 0  *)
(* is inside hashmap_rehash and moves the slots of heap[old].  Under the   *)
(* lock nothing else writes, so hashmap_hash is one step there.            *)
(*                                                                         *)
(* calloc does not fail.  Hash[k] is the hash of a name before "%          *)
(* table_size"; Hash has to tell names apart well enough for the table to  *)
(* stop growing.                                                           *)
(***************************************************************************)
EXTENDS Naturals, Sequences, FiniteSets

CONSTANTS
  Keys,          \* the names
  Elements,      \* Elements[k]: what may be stored for k
  Hash,          \* Hash[k], a natural number
  InitialSize,   \* INITIAL_SIZE
  MaxChain,      \* MAX_CHAIN_LENGTH
  Readers,       \* workers inside new_protocol_handler
  Sought,        \* the names they look for
  NULL           \* the null pointer

ASSUME HashMapAssumption ==
  /\ IsFiniteSet(Keys)   \* a name has at most 24 bytes
  /\ Hash \in [Keys -> Nat]
  /\ InitialSize \in Nat \ {0}
  /\ MaxChain \in Nat \ {0}
  /\ DOMAIN Elements = Keys
  /\ Sought \subseteq Keys
  /\ NULL \notin Keys \cup UNION {Elements[k] : k \in Keys}

Values == UNION {Elements[k] : k \in Keys}

VARIABLES
  heap,         \* the arrays allocated so far
  data,         \* m->data, an index of heap
  table_size,   \* m->table_size
  size,         \* m->size
  pc,           \* where the holder of hashmap_lock is; "idle": no one holds it
  stack,        \* its calls of hashmap_put, the outermost first
  index,        \* its local index, or curr in hashmap_remove
  reader        \* reader[r]: the locals of a hashmap_get without the lock

fields == <<heap, data, table_size, size>>
vars == <<fields, pc, stack, index, reader>>

Slot == [in_use : {0, 1}, key : Keys \cup {NULL}, data : Values \cup {NULL}]
EmptySlot == [in_use |-> 0, key |-> NULL, data |-> NULL]
Table(n) == [j \in 0..(n - 1) |-> EmptySlot]
Freed == Table(0)

slots == heap[data]

HolderSteps == {"idle", "hash", "data", "key", "in_use", "count",
                "double", "reset", "move",
                "blank", "blank data", "blank key", "uncount"}
ReaderSteps == {"idle", "hash", "load", "in_use", "key", "data", "next",
                "crashed"}
Asleep == [pc |-> "idle", key |-> NULL, todo |-> "in_use", array |-> 0,
           curr |-> 0, i |-> 0]

TypeOK ==
  /\ heap \in Seq({heap[a] : a \in DOMAIN heap})
  /\ \A a \in DOMAIN heap :
       \E n \in 0..(2 * table_size) : heap[a] \in [0..(n - 1) -> Slot]
  /\ data \in DOMAIN heap
  /\ table_size \in Nat \ {0}
  /\ size \in 0..Cardinality(Keys)
  /\ pc \in HolderSteps
  /\ stack \in Seq([key : Keys, data : Values, old : 0..Len(heap),
                    next : Nat])
  /\ index \in 0..table_size
  /\ reader \in [Readers -> [pc : ReaderSteps, key : Keys \cup {NULL},
                             todo : {"in_use", "key", "data"},
                             array : 0..Len(heap), curr : Nat,
                             i : 0..(MaxChain - 1)]]

Init ==
  /\ heap = <<Table(InitialSize)>>
  /\ data = 1
  /\ table_size = InitialSize
  /\ size = 0
  /\ pc = "idle"
  /\ stack = <<>>
  /\ index = 0
  /\ reader = [r \in Readers |-> Asleep]

-----------------------------------------------------------------------------
(* The slots that are probed for k, in order.                              *)
Chain(k) == [j \in 1..MaxChain |-> (Hash[k] + j - 1) % table_size]
InChain(c, k) == \E j \in 1..MaxChain : c = Chain(k)[j]

Holds(c, k) == slots[c].in_use = 1 /\ slots[c].key = k

NotFound == table_size

(* hashmap_get and the search of hashmap_remove: the first slot of the     *)
(* chain that holds k.                                                     *)
Lookup(k) ==
  LET hits == {j \in 1..MaxChain : Holds(Chain(k)[j], k)}
  IN  IF hits = {} THEN NotFound
      ELSE Chain(k)[CHOOSE j \in hits : \A l \in hits : j <= l]

HalfFull == size >= table_size \div 2

MapFull == table_size

(* Mutated: the slot after the chain is taken too.                         *)
HashOneMore(k) ==
  LET c(j) == (Hash[k] + j - 1) % table_size
      free == {j \in 1..(MaxChain + 1) : slots[c(j)].in_use = 0}
  IN  IF HalfFull \/ free = {} THEN MapFull
      ELSE c(CHOOSE j \in free : \A l \in free : j <= l)

(* hashmap_hash: the first slot of the chain that is free or holds k.      *)
HashmapHash(k) ==
  LET free == {j \in 1..MaxChain :
                 slots[Chain(k)[j]].in_use = 0 \/ Holds(Chain(k)[j], k)}
  IN  IF HalfFull \/ free = {} THEN MapFull
      ELSE Chain(k)[CHOOSE j \in free : \A l \in free : j <= l]

-----------------------------------------------------------------------------
(* hashmap_put, as 00 calls it.                                            *)

Top == stack[Len(stack)]
SetTop(frame) == [stack EXCEPT ![Len(stack)] = frame]
Frame(k, x) == [key |-> k, data |-> x, old |-> 0, next |-> 0]

(* The process ends when a reader crashes.                                 *)
Crashed == \E r \in Readers : reader[r].pc = "crashed"

Goto(from, to) == ~Crashed /\ pc = from /\ pc' = to

(* Mutated: only the first slot of the chain is compared.                  *)
AbsentFirst(k) == size = 0 \/ ~Holds(Hash[k] % table_size, k)

(* The condition under which 00 puts a name.                               *)
Absent(k) == size = 0 \/ Lookup(k) = NotFound

PutCall(k, x) ==
  /\ Goto("idle", "hash")
  /\ Absent(k)
  /\ stack' = <<Frame(k, x)>>
  /\ UNCHANGED <<fields, index, reader>>

(* index = hashmap_hash(in, key), which finds a slot.                      *)
PutHash ==
  /\ Goto("hash", "data")
  /\ HashmapHash(Top.key) # MapFull
  /\ index' = HashmapHash(Top.key)
  /\ UNCHANGED <<fields, stack, reader>>

SetSlot(c, field, x) ==
  heap' = [heap EXCEPT ![data][c][field] = x]

PutData ==
  /\ Goto("data", "key")
  /\ SetSlot(index, "data", Top.data)
  /\ UNCHANGED <<data, table_size, size, stack, index, reader>>

PutKey ==
  /\ Goto("key", "in_use")
  /\ SetSlot(index, "key", Top.key)
  /\ UNCHANGED <<data, table_size, size, stack, index, reader>>

PutInUse ==
  /\ Goto("in_use", "count")
  /\ SetSlot(index, "in_use", 1)
  /\ UNCHANGED <<data, table_size, size, stack, index, reader>>

(* m->size++; the call returns, to hashmap_rehash if it came from there.   *)
PutCount ==
  LET outer == SubSeq(stack, 1, Len(stack) - 1)
  IN  /\ Goto("count", IF outer = <<>> THEN "idle" ELSE "move")
      /\ size' = size + 1
      /\ stack' = IF outer = <<>> THEN outer
                  ELSE [outer EXCEPT ![Len(outer)].next = @ + 1]
      /\ index' = 0
      /\ UNCHANGED <<heap, data, table_size, reader>>

-----------------------------------------------------------------------------
(* hashmap_rehash                                                          *)

(* Mutated: table_size is doubled first.                                   *)
RehashDataLate ==
  /\ Goto("hash", "double")
  /\ HashmapHash(Top.key) = MapFull
  /\ table_size' = 2 * table_size
  /\ stack' = SetTop([Top EXCEPT !.old = data, !.next = 0])
  /\ UNCHANGED <<heap, data, size, index, reader>>

(* calloc, and the new array replaces the old one.                         *)
RehashData ==
  /\ Goto("hash", "double")
  /\ HashmapHash(Top.key) = MapFull
  /\ heap' = Append(heap, Table(2 * table_size))
  /\ data' = Len(heap) + 1
  /\ stack' = SetTop([Top EXCEPT !.old = data, !.next = 0])
  /\ UNCHANGED <<table_size, size, index, reader>>

RehashSize ==
  /\ Goto("double", "reset")
  /\ table_size' = 2 * table_size
  /\ UNCHANGED <<heap, data, size, stack, index, reader>>

(* Mutated: m->size keeps the old count.                                   *)
RehashResetNot ==
  /\ Goto("reset", "move")
  /\ UNCHANGED <<fields, stack, index, reader>>

RehashReset ==
  /\ Goto("reset", "move")
  /\ size' = 0
  /\ UNCHANGED <<heap, data, table_size, stack, index, reader>>

(* The slots of the old array that are in use from j on.                   *)
Left(frame) ==
  {j \in DOMAIN heap[frame.old] :
     frame.next <= j /\ heap[frame.old][j].in_use # 0}

(* The next of them is put into the new array.                             *)
RehashMove ==
  /\ Goto("move", "hash")
  /\ \E j \in Left(Top) :
       /\ \A l \in Left(Top) : j <= l
       /\ stack' = Append(SetTop([Top EXCEPT !.next = j]),
                          Frame(heap[Top.old][j].key, heap[Top.old][j].data))
  /\ UNCHANGED <<fields, index, reader>>

(* Mutated: the loop does not end.                                         *)
RehashFreeNever ==
  /\ Goto("move", "move")
  /\ Left(Top) = {}
  /\ UNCHANGED <<fields, stack, index, reader>>

(* free(curr); hashmap_put calls hashmap_hash again.                       *)
RehashFree ==
  /\ Goto("move", "hash")
  /\ Left(Top) = {}
  /\ heap' = [heap EXCEPT ![Top.old] = Freed]
  /\ stack' = SetTop([Top EXCEPT !.old = 0, !.next = 0])
  /\ UNCHANGED <<data, table_size, size, index, reader>>

-----------------------------------------------------------------------------
(* hashmap_remove, as 02 calls it after it has found the name.             *)

RemoveCall(k) ==
  /\ Goto("idle", "blank")
  /\ size > 0 /\ Lookup(k) # NotFound
  /\ index' = Lookup(k)
  /\ UNCHANGED <<fields, stack, reader>>

RemoveInUse ==
  /\ Goto("blank", "blank data")
  /\ SetSlot(index, "in_use", 0)
  /\ UNCHANGED <<data, table_size, size, stack, index, reader>>

RemoveData ==
  /\ Goto("blank data", "blank key")
  /\ SetSlot(index, "data", NULL)
  /\ UNCHANGED <<data, table_size, size, stack, index, reader>>

RemoveKey ==
  /\ Goto("blank key", "uncount")
  /\ SetSlot(index, "key", NULL)
  /\ UNCHANGED <<data, table_size, size, stack, index, reader>>

RemoveCount ==
  /\ Goto("uncount", "idle")
  /\ size' = size - 1
  /\ index' = 0
  /\ UNCHANGED <<heap, data, table_size, stack, reader>>

HolderStep ==
  \/ PutHash \/ PutData \/ PutKey \/ PutInUse \/ PutCount
  \/ RehashData \/ RehashSize \/ RehashReset \/ RehashMove \/ RehashFree
  \/ RemoveInUse \/ RemoveData \/ RemoveKey \/ RemoveCount

-----------------------------------------------------------------------------
(* new_protocol_handler: hashmap_length and hashmap_get without the lock.  *)

Advance(r, from, changed) ==
  /\ ~Crashed
  /\ reader[r].pc = from
  /\ reader' = [reader EXCEPT ![r] = changed]
  /\ UNCHANGED <<fields, pc, stack, index>>

(* hashmap_length(client_map) > 0                                          *)
GetCall(r, k) ==
  /\ size > 0
  /\ Advance(r, "idle", [Asleep EXCEPT !.pc = "hash", !.key = k])

(* curr = hashmap_hash_int(m, key)                                         *)
GetHash(r) ==
  Advance(r, "hash", [reader[r] EXCEPT !.pc = "load",
                        !.curr = Hash[reader[r].key] % table_size])

(* Each access to a slot reads m->data first.                              *)
GetLoad(r) ==
  Advance(r, "load", [reader[r] EXCEPT !.pc = reader[r].todo, !.array = data])

(* The slot the reader is about to access, if its memory is still there.   *)
Accessible(r) ==
  reader[r].array # 0 /\ reader[r].curr \in DOMAIN heap[reader[r].array]
Seen(r) == heap[reader[r].array][reader[r].curr]

GetInUse(r) ==
  /\ Accessible(r)
  /\ Advance(r, "in_use",
             IF Seen(r).in_use = 1
               THEN [reader[r] EXCEPT !.pc = "load", !.todo = "key"]
               ELSE [reader[r] EXCEPT !.pc = "next"])

(* strcmp(m->data[curr].key, key)                                          *)
GetKey(r) ==
  /\ Accessible(r) /\ Seen(r).key # NULL
  /\ Advance(r, "key",
             IF Seen(r).key = reader[r].key
               THEN [reader[r] EXCEPT !.pc = "load", !.todo = "data"]
               ELSE [reader[r] EXCEPT !.pc = "next"])

(* *arg = m->data[curr].data, which new_protocol_handler dereferences.     *)
GetData(r) ==
  /\ Accessible(r) /\ Seen(r).data # NULL
  /\ Advance(r, "data", Asleep)

GetNext(r) ==
  Advance(r, "next",
          IF reader[r].i + 1 = MaxChain THEN Asleep
          ELSE [reader[r] EXCEPT !.pc = "load", !.todo = "in_use",
                  !.curr = (@ + 1) % table_size, !.i = @ + 1])

(* A freed array or a null pointer: anything may follow.                   *)
GetCrash(r) ==
  /\ \/ reader[r].pc \in {"in_use", "key", "data"} /\ ~Accessible(r)
     \/ reader[r].pc = "key" /\ Accessible(r) /\ Seen(r).key = NULL
     \/ reader[r].pc = "data" /\ Accessible(r) /\ Seen(r).data = NULL
  /\ Advance(r, reader[r].pc, [Asleep EXCEPT !.pc = "crashed"])

ReaderStep(r) ==
  \/ GetHash(r) \/ GetLoad(r) \/ GetInUse(r) \/ GetKey(r) \/ GetData(r)
  \/ GetNext(r) \/ GetCrash(r)

(* The process ended, or no one has anything to do.                        *)
Rest == (Crashed \/ pc = "idle") /\ UNCHANGED vars

Next ==
  \/ \E k \in Keys : RemoveCall(k) \/ \E x \in Elements[k] : PutCall(k, x)
  \/ HolderStep
  \/ \E r \in Readers : ReaderStep(r) \/ \E k \in Sought : GetCall(r, k)
  \/ Rest

Spec == Init /\ [][Next]_vars

(* The worker that holds hashmap_lock is run; nobody has to call.          *)
FairSpec == Spec /\ WF_vars(HolderStep)

-----------------------------------------------------------------------------
Entries(array, from) ==
  {<<heap[array][c].key, heap[array][c].data>> :
     c \in {d \in DOMAIN heap[array] :
             from <= d /\ heap[array][d].in_use = 1}}

(* The names in the map and their elements: in the table, or in an old     *)
(* table from which they are still to be moved.                            *)
Contents ==
  Entries(data, 0)
  \cup UNION {Entries(stack[d].old, stack[d].next) :
               d \in {e \in DOMAIN stack : stack[e].old # 0}}

Dict ==
  LET c == Contents
  IN  [k \in Keys |-> IF \E e \in c : e[1] = k
                        THEN (CHOOSE e \in c : e[1] = k)[2]
                        ELSE NULL]

(* hashmap_iterate: the slots whose elements a 06 lists.                   *)
HashmapIterate ==
  IF size = 0 THEN {} ELSE {j \in 0..(table_size - 1) : slots[j].in_use # 0}

Names == INSTANCE NameMap WITH dict <- Dict

(* The map is a dictionary: a put adds one name and a remove takes one     *)
(* away, at the write of in_use, and a rehash, nested ones included,       *)
(* neither loses nor changes an element while it moves it.                 *)
MapImplemented == Names!MapSpec

(* Whatever was removed from the chain of a name before, hashmap_get finds *)
(* every name that is in the table, and finds its element.                 *)
Found ==
  LET dict == Dict
  IN  pc = "idle" =>
        \A k \in Keys :
          IF dict[k] = NULL THEN Lookup(k) = NotFound
          ELSE Lookup(k) # NotFound /\ slots[Lookup(k)].data = dict[k]

(* A 06 lists every name once, and hashmap_length counts them: by a length *)
(* of 0, a 00 puts its name without looking it up.                         *)
Listed ==
  LET dict == Dict
      list == HashmapIterate
  IN  pc = "idle" =>
        /\ size = Cardinality(list)
        /\ \A i, j \in list : slots[i].key = slots[j].key => i = j
        /\ {slots[i].key : i \in list} = {k \in Keys : dict[k] # NULL}

(* A hashmap_get without the lock computes its slot from table_size and    *)
(* accesses it through m->data while both change: the slot is one of the   *)
(* array, or the array was freed.                                          *)
InBounds ==
  \A r \in Readers :
    /\ reader[r].pc \in {"in_use", "key", "data"}
    /\ heap[reader[r].array] # Freed
    => Accessible(r)

-----------------------------------------------------------------------------
(* The inductive invariant.                                                *)

Depth == Len(stack)
Used == {c \in DOMAIN slots : slots[c].in_use = 1}

(* The current array is the last, and has as many slots as table_size      *)
(* says, but for the one step in which a rehash has replaced the array     *)
(* only.  Each pending rehash has an old array of its own.                 *)
ShapeInv ==
  /\ data = Len(heap)
  /\ DOMAIN slots =
       0..((IF pc = "double" THEN 2 * table_size ELSE table_size) - 1)
  /\ stack = <<>> <=> pc \in {"idle", "blank", "blank data", "blank key",
                             "uncount"}
  /\ stack # <<>> => (Top.old # 0 <=> pc \in {"double", "reset", "move"})
  /\ \A d \in DOMAIN stack : d < Depth => stack[d].old # 0
  /\ \A d \in DOMAIN stack : stack[d].old < data
  /\ \A d, e \in DOMAIN stack :
       stack[d].old # 0 /\ stack[d].old = stack[e].old => d = e

(* The slot that a put fills is free and in the chain of its name; the     *)
(* slot that a remove blanks was in use.                                   *)
SlotInv ==
  /\ pc \in {"data", "key", "in_use"} =>
       /\ index \in DOMAIN slots /\ slots[index].in_use = 0
       /\ InChain(index, Top.key)
  /\ pc \in {"key", "in_use"} => slots[index].data = Top.data
  /\ pc = "in_use" => slots[index].key = Top.key
  /\ pc = "count" =>
       /\ index \in DOMAIN slots
       /\ slots[index] = [in_use |-> 1, key |-> Top.key, data |-> Top.data]
  /\ pc = "blank" => index \in DOMAIN slots /\ slots[index].in_use = 1
  /\ pc \in {"blank data", "blank key"} =>
       index \in DOMAIN slots /\ slots[index].in_use = 0

(* A put that a rehash calls puts what the slot it moves holds.            *)
MoveInv ==
  \A d \in DOMAIN stack \ {1} :
    LET from == stack[d - 1]
    IN  /\ from.next \in DOMAIN heap[from.old]
        /\ heap[from.old][from.next] =
             [in_use |-> 1, key |-> stack[d].key, data |-> stack[d].data]

(* A slot that holds a name of the map: one in use in the table, or in an  *)
(* old table and still to be moved.                                        *)
MovedTo(d) ==
  IF pc = "count" /\ d = Depth - 1 THEN stack[d].next + 1 ELSE stack[d].next
Live(a, c) ==
  /\ a \in DOMAIN heap /\ c \in DOMAIN heap[a]
  /\ heap[a][c].in_use = 1
  /\ a = data \/ \E d \in DOMAIN stack : stack[d].old = a /\ MovedTo(d) <= c

(* Each name is held by one such slot, and the name that 00 is putting by  *)
(* none before its slot is in use.                                         *)
LiveInv ==
  /\ \A a \in DOMAIN heap : \A c \in DOMAIN heap[a] :
       Live(a, c) => heap[a][c].key \in Keys /\ heap[a][c].data \in Values
  /\ \A a \in DOMAIN heap : \A c \in DOMAIN heap[a] :
       Live(a, c) =>
         \A b \in DOMAIN heap : \A e \in DOMAIN heap[b] :
           Live(b, e) /\ heap[a][c].key = heap[b][e].key => a = b /\ c = e
  /\ stack # <<>> /\ ~(pc = "count" /\ Depth = 1) =>
       \A a \in DOMAIN heap : \A c \in DOMAIN heap[a] :
         Live(a, c) => heap[a][c].key # stack[1].key

(* A name in the table is in its chain; while table_size changes the table *)
(* is empty.                                                               *)
ChainInv ==
  /\ \A c \in Used : InChain(c, slots[c].key)
  /\ pc \in {"double", "reset"} => Used = {}

(* m->size counts the slots in use, up to the one that is being written.   *)
SizeInv ==
  CASE pc = "count" -> Cardinality(Used) = size + 1
    [] pc \in {"blank data", "blank key", "uncount"} ->
         Cardinality(Used) + 1 = size
    [] pc \in {"double", "reset"} -> TRUE
    [] OTHER -> Cardinality(Used) = size

(* A reader's slot is below table_size, which only grows; the array it has *)
(* loaded is as long, or was freed.                                        *)
ReaderInv ==
  \A r \in Readers :
    /\ reader[r].pc \notin {"idle", "crashed"} => reader[r].key \in Keys
    /\ reader[r].pc \in {"load", "in_use", "key", "data", "next"} =>
         reader[r].curr < table_size
    /\ reader[r].pc \in {"in_use", "key", "data"} =>
         /\ reader[r].array # 0
         /\ \/ heap[reader[r].array] = Freed
            \/ reader[r].curr \in DOMAIN heap[reader[r].array]

IInv ==
  /\ TypeOK
  /\ ShapeInv
  /\ SlotInv
  /\ MoveInv
  /\ LiveInv
  /\ ChainInv
  /\ SizeInv
  /\ ReaderInv

-----------------------------------------------------------------------------
(* hashmap_put returns: a rehash ends, also when it takes others to        *)
(* complete it.                                                            *)
PutEnds == (pc = "hash") ~> (pc = "idle" \/ Crashed)

(* hashmap.h:56, "Get an element from the hashmap. Return MAP_OK or        *)
(* MAP_MISSING.": hashmap_get returns, with an element if it is MAP_OK.    *)
GetReturns == \A r \in Readers : reader[r].pc # "crashed"

=============================================================================
