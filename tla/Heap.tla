-------------------------------- MODULE Heap --------------------------------
(***************************************************************************)
(* common/heap/heap.c: first fit on a list of free blocks in the order of  *)
(* their addresses; a freed block is merged with its free neighbours.      *)
(* malloc runs under the lock; free looks at the header of its block, and  *)
(* marks it free, before it takes the lock.                                *)
(*                                                                         *)
(* Addresses and sizes are in bytes.  A header is kept for every block,    *)
(* and for the two ends of the list; the payloads are left out.            *)
(***************************************************************************)
EXTENDS Integers, FiniteSetsExt

CONSTANTS
  Threads,
  Alignment,   \* CONFIG_HEAP_BYTE_ALIGNMENT
  StructSize,  \* heap_struct_size, a multiple of Alignment
  HeapAddress, \* where the array heap begins
  TotalSize,   \* CONFIG_HEAP_TOTAL_SIZE
  AllocateBit, \* block_allocate_bit, as a number
  Requests,    \* the sizes asked for
  DoubleFree   \* environment: a block may be freed by two threads at once

HeapAssumption ==
  /\ Alignment \in {1, 2, 4, 8, 16, 32}
  /\ StructSize \in Nat \ {0} /\ StructSize % Alignment = 0
  /\ HeapAddress \in Nat \ {0} /\ Requests \subseteq Nat
  /\ TotalSize > 2 * (StructSize + Alignment)
  /\ AllocateBit > TotalSize
  /\ DoubleFree \in BOOLEAN

VARIABLES
  mem,         \* the headers: [address -> block_link_t], the bit apart
  remaining,   \* free_bytes_remaining
  minimum,     \* minimum_free_bytes_remaining
  ready,       \* pend # NULL
  owned,       \* addresses of the blocks the application holds
  thread       \* what each thread is doing in heap_free

vars == <<mem, remaining, minimum, ready, owned, thread>>

Null == 0
Start == -1      \* the variable start, outside the heap

RoundUp(n) == IF n % Alignment = 0 THEN n ELSE n + Alignment - (n % Alignment)
RoundDown(n) == n - (n % Alignment)
Base == RoundUp(HeapAddress)
End == RoundDown(HeapAddress + TotalSize - StructSize)
MinimumBlockSize == 2 * StructSize

Free(size, next) == [size |-> size, next |-> next, allocated |-> FALSE]

\* heap_init
Whole == End - Base
NewHeap == [a \in {Start, Base, End} |->
              CASE a = Start -> Free(0, Base)
                [] a = Base  -> Free(Whole, End)
                [] a = End   -> Free(0, Null)]

Idle == [pc |-> "idle", block |-> Null]
Init == /\ mem = [a \in {} |-> Free(0, Null)]
        /\ remaining = 0 /\ minimum = 0 /\ ready = FALSE
        /\ owned = {}
        /\ thread = [t \in Threads |-> Idle]

-----------------------------------------------------------------------------
\* The header of a block that was merged into another is forgotten.
Without(m, b) == [a \in DOMAIN m \ {b} |-> m[a]]

\* The last free block before an address.
Before(m, address) ==
  LET walk[b \in DOMAIN m] == IF m[b].next < address THEN walk[m[b].next] ELSE b
  IN  walk[Start]

Grown(m, b, by) == Without([m EXCEPT ![b].size = @ + m[by].size], by)

JoinsRightBug(m, b, next) == next # End
\* Mutant: the block after it is left alone.
NeverJoinsRight(m, b, next) == FALSE
JoinsRight(m, b, next) == b + m[b].size = next /\ next # End

\* heap_insert_block_into_free_list
Insert(m, insert) ==
  LET before == Before(m, insert)
      next   == m[before].next
      joined == before + m[before].size = insert
      block  == IF joined THEN before ELSE insert
      left   == IF joined THEN Grown(m, before, insert) ELSE m
      right  == IF JoinsRight(left, block, next)
                THEN [Grown(left, block, next) EXCEPT ![block].next = m[next].next]
                ELSE [left EXCEPT ![block].next = next]
  IN  IF joined THEN right ELSE [right EXCEPT ![before].next = block]

\* The first free block of at least this size, or End.
FirstFitBug(m, size) ==
  LET walk[b \in DOMAIN m] ==
        IF m[b].size <= size /\ m[b].next # Null THEN walk[m[b].next] ELSE b
  IN  walk[m[Start].next]
FirstFit(m, size) ==
  LET walk[b \in DOMAIN m] ==
        IF m[b].size < size /\ m[b].next # Null THEN walk[m[b].next] ELSE b
  IN  walk[m[Start].next]

Previous(m, block) == CHOOSE b \in DOMAIN m : m[b].next = block /\ ~m[b].allocated

\* The size a request takes: with its header, aligned.
Wanted(request) == IF request > 0 THEN RoundUp(request + StructSize) ELSE 0

Allocate(m, block, size) ==
  LET unlinked == [m EXCEPT ![Previous(m, block)].next = m[block].next]
      rest     == block + size
      split    == [a \in DOMAIN m \cup {rest} |->
                     IF a = rest THEN Free(m[block].size - size, Null)
                     ELSE IF a = block THEN [unlinked[a] EXCEPT !.size = size]
                     ELSE unlinked[a]]
      taken    == IF m[block].size - size > MinimumBlockSize
                  THEN Insert(split, rest) ELSE unlinked
  IN  [taken EXCEPT ![block].allocated = TRUE, ![block].next = Null]

-----------------------------------------------------------------------------
\* heap_malloc initialises the heap first, once.
Opened == IF ready THEN mem ELSE NewHeap
OpenRemaining == IF ready THEN remaining ELSE Whole
OpenMinimum == IF ready THEN minimum ELSE Whole

\* The block a request gets, or End.
Found(request) ==
  LET size == Wanted(request)
  IN  IF request < AllocateBit /\ 0 < size /\ size <= OpenRemaining
      THEN FirstFit(Opened, size) ELSE End

Malloc(t, request) ==
  LET block == Found(request)
  IN  /\ thread[t].pc = "idle"
      /\ ready' = TRUE
      /\ IF block = End
         THEN /\ mem' = Opened /\ remaining' = OpenRemaining /\ minimum' = OpenMinimum
              /\ UNCHANGED owned
         ELSE /\ mem' = Allocate(Opened, block, Wanted(request))
              /\ remaining' = OpenRemaining - mem'[block].size
              /\ minimum' = IF OpenMinimum > remaining' THEN remaining' ELSE OpenMinimum
              /\ owned' = owned \cup {block}
      /\ UNCHANGED thread

\* heap_free finds the block allocated.
FreeTest(t, block) ==
  /\ thread[t].pc = "idle"
  /\ block \in owned
  /\ DoubleFree \/ \A u \in Threads : thread[u].block # block
  /\ mem[block].allocated /\ mem[block].next = Null
  /\ thread' = [thread EXCEPT ![t] = [pc |-> "tested", block |-> block]]
  /\ UNCHANGED <<mem, remaining, minimum, ready, owned>>

FreeMark(t) == /\ thread[t].pc = "tested"
               /\ mem' = [mem EXCEPT ![thread[t].block].allocated = FALSE]
               /\ thread' = [thread EXCEPT ![t].pc = "marked"]
               /\ UNCHANGED <<remaining, minimum, ready, owned>>

FreeInsert(t) == /\ thread[t].pc = "marked"
                 /\ remaining' = remaining + mem[thread[t].block].size
                 /\ mem' = Insert(mem, thread[t].block)
                 /\ owned' = owned \ {thread[t].block}
                 /\ thread' = [thread EXCEPT ![t] = Idle]
                 /\ UNCHANGED <<minimum, ready>>

Next == \E t \in Threads :
          \/ \E r \in Requests : Malloc(t, r)
          \/ \E b \in owned : FreeTest(t, b)
          \/ FreeMark(t) \/ FreeInsert(t)
Spec == Init /\ [][Next]_vars

-----------------------------------------------------------------------------
TypeOK ==
  /\ mem \in [DOMAIN mem -> [size : 0 .. Whole, next : {Null} \cup DOMAIN mem,
                             allocated : BOOLEAN]]
  /\ remaining \in 0 .. Whole /\ minimum \in 0 .. Whole
  /\ ready \in BOOLEAN /\ owned \subseteq DOMAIN mem
  /\ thread \in [Threads -> [pc : {"idle", "tested", "marked"}, block : owned \cup {Null}]]

Blocks == DOMAIN mem \ {Start, End}
FreeBlocks == Blocks \ owned

\* Every byte between Base and End belongs to exactly one block.
Tiled == \A b \in Blocks : /\ mem[b].size > 0 /\ b % Alignment = 0
                           /\ b + mem[b].size \in Blocks \cup {End}
                           /\ \A c \in Blocks : ~(b < c /\ c < b + mem[b].size)

\* The list holds the free blocks in the order of their addresses, and no two
\* of them touch.
ListSorted ==
  \A b \in FreeBlocks \cup {Start} :
    /\ mem[b].next \in FreeBlocks \cup {End}
    /\ b < mem[b].next
    /\ mem[b].next # End => b + mem[b].size < mem[b].next
    /\ \A c \in FreeBlocks : ~(b < c /\ c < mem[b].next)

(* Over any order of malloc and free, by any threads, the blocks partition *)
(* the heap, the free list is sorted and merged, and free_bytes_remaining  *)
(* is the sum of its blocks.                                               *)
HeapSound == ready => /\ Tiled /\ ListSorted
                      /\ remaining = MapThenSumSet(LAMBDA b : mem[b].size, FreeBlocks)

(* When everything has been freed, the heap is the one block it was: no    *)
(* byte is lost and no fragment stays (heap_insert_block_into_free_list).  *)
AllGivenBack == ready /\ owned = {} => mem = NewHeap /\ remaining = Whole

(* At any moment malloc would return NULL only if no free block is large   *)
(* enough, and would otherwise give a block that was free and is no        *)
(* smaller than asked for, whatever was allocated and freed before.        *)
NoFalseRefusal ==
  \A r \in Requests \ {0} :
    LET large == {b \in DOMAIN Opened \ owned : Opened[b].size >= r + StructSize}
    IN  IF Found(r) = End THEN large = {} ELSE Found(r) \in large
=============================================================================
