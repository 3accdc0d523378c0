--------------------------- MODULE MemoryManager ---------------------------
(***************************************************************************)
(* The kernel heap (src/memorymanagement.cpp): a doubly linked list of     *)
(* chunks, each a header followed by its payload, first fit, with splits   *)
(* in malloc and merges in free.                                           *)
(*                                                                         *)
(* A chunk is named by the address of its header.  chunk is defined on the *)
(* addresses that hold a header of the list; the bytes of a header merged  *)
(* away are payload again.  malloc's walk down the list takes one step per *)
(* chunk.  Callers free only what they hold.                               *)
(***************************************************************************)
EXTENDS Integers

CONSTANTS
  Start,       \* address of the heap (10 MiB in kernelMain)
  HeapSize,    \* its size in bytes
  Header,      \* sizeof(MemoryChunk)
  Requests     \* bound: the sizes callers ask for

ASSUME HeapAssumption ==
  /\ Start \in Nat \ {0}
  /\ HeapSize \in Nat
  /\ Header \in Nat \ {0}
  /\ Requests \subseteq Nat

null    == 0
nothing == -1                  \* request: no malloc is under way
End     == Start + HeapSize
Chunk   == [next : Nat, prev : Nat, allocated : BOOLEAN, size : Nat]

VARIABLES
  first, chunk,                \* MemoryManager::first and the headers
  request, cursor,             \* malloc: the size asked for and the chunk looked at
  held                         \* the callers' pointers, each with the size asked for
vars == <<first, chunk, request, cursor, held>>

MTypeOK ==
  /\ first \in {null, Start}
  /\ DOMAIN chunk \subseteq Start .. End - Header
  /\ \A a \in DOMAIN chunk : chunk[a] \in Chunk
  /\ request \in Nat \cup {nothing}
  /\ cursor \in DOMAIN chunk \cup {null}
  /\ DOMAIN held \subseteq Start .. End
  /\ \A p \in DOMAIN held : held[p] \in Nat

\* The constructor: one free chunk, or none when not even a header fits.
Init ==
  /\ first = IF HeapSize < Header THEN null ELSE Start
  /\ chunk = [a \in {first} \ {null} |->
                [next |-> null, prev |-> null, allocated |-> FALSE, size |-> HeapSize - Header]]
  /\ request = nothing
  /\ cursor = null
  /\ held = [p \in {} |-> 0]

-----------------------------------------------------------------------------
Malloc(n) ==
  /\ request = nothing
  /\ request' = n
  /\ cursor' = first
  /\ UNCHANGED <<first, chunk, held>>

\* Faulty variants: the flag not tested; the size not tested; the header counted twice.
FitsAllocated(a) == chunk[a].size > request
FitsAnySize(a)   == ~chunk[a].allocated
FitsWithHeader(a) == chunk[a].size > request + Header /\ ~chunk[a].allocated

\* The chunk malloc takes (a chunk of exactly the size asked for is passed by).
Fits(a) == chunk[a].size > request /\ ~chunk[a].allocated

\* Faulty variant: the walk does not advance.
WalkStuck == cursor' = cursor

Walk == cursor' = chunk[cursor].next

Pass ==
  /\ request # nothing /\ cursor # null /\ ~Fits(cursor)
  /\ Walk
  /\ UNCHANGED <<first, chunk, request, held>>

GiveUp ==
  /\ request # nothing /\ cursor = null
  /\ request' = nothing
  /\ UNCHANGED <<first, chunk, cursor, held>>

\* Faulty variant: no room kept for the new header.
RoomWithoutHeader(a, n) == chunk[a].size >= n + 1

RoomToSplit(a, n) == chunk[a].size >= n + Header + 1

\* Chunk a cut after n bytes of payload; the rest becomes a free chunk behind it.
Split(a, n) ==
  LET rest  == a + Header + n
      after == chunk[a].next
  IN  [x \in DOMAIN chunk \cup {rest} |->
         IF x = rest THEN [next |-> after, prev |-> a, allocated |-> FALSE,
                           size |-> chunk[a].size - n - Header]
         ELSE IF x = a THEN [chunk[a] EXCEPT !.next = rest, !.allocated = TRUE, !.size = n]
         ELSE IF x = after THEN [chunk[x] EXCEPT !.prev = rest]
         ELSE chunk[x]]

Take ==
  /\ request # nothing /\ cursor # null /\ Fits(cursor)
  /\ chunk' = IF RoomToSplit(cursor, request) THEN Split(cursor, request)
              ELSE [chunk EXCEPT ![cursor] = [@ EXCEPT !.allocated = TRUE]]
  /\ held' = [p \in DOMAIN held \cup {cursor + Header} |->
                IF p = cursor + Header THEN request ELSE held[p]]
  /\ request' = nothing
  /\ cursor' = null
  /\ UNCHANGED first

\* Faulty variants: the chunk behind keeps its back link; the merged header is lost.
AbsorbBackLink(c, a, b) ==
  [x \in DOMAIN c \ {b} |->
     IF x = a THEN [c[a] EXCEPT !.next = c[b].next, !.size = @ + c[b].size + Header]
     ELSE c[x]]
AbsorbPayload(c, a, b) ==
  [x \in DOMAIN c \ {b} |->
     IF x = a THEN [c[a] EXCEPT !.next = c[b].next, !.size = @ + c[b].size]
     ELSE IF x = c[b].next THEN [c[x] EXCEPT !.prev = a]
     ELSE c[x]]

\* The headers c after chunk a has absorbed the chunk b behind it.
Absorb(c, a, b) ==
  [x \in DOMAIN c \ {b} |->
     IF x = a THEN [c[a] EXCEPT !.next = c[b].next, !.size = @ + c[b].size + Header]
     ELSE IF x = c[b].next THEN [c[x] EXCEPT !.prev = a]
     ELSE c[x]]

IsFree(c, x) == x # null /\ ~c[x].allocated

\* Faulty variant: the merge with the successor forgotten.
NotMergedOn(c, a) == c

\* The headers after the chunk at a is marked free, merged into a free predecessor, and
\* the result merged with a free successor.
MarkedFree(a) == [chunk EXCEPT ![a] = [@ EXCEPT !.allocated = FALSE]]
MergedBack(c, a) == IF IsFree(c, c[a].prev) THEN Absorb(c, c[a].prev, a) ELSE c
MergedOn(c, a) == IF IsFree(c, c[a].next) THEN Absorb(c, a, c[a].next) ELSE c

Free(p) ==
  /\ request = nothing
  /\ p \in DOMAIN held
  /\ LET a     == p - Header
         front == IF IsFree(chunk, chunk[a].prev) THEN chunk[a].prev ELSE a
     IN  chunk' = MergedOn(MergedBack(MarkedFree(a), a), front)
  /\ held' = [q \in DOMAIN held \ {p} |-> held[q]]
  /\ UNCHANGED <<first, request, cursor>>

Next ==
  \/ \E n \in Requests : Malloc(n)
  \/ Pass
  \/ GiveUp
  \/ Take
  \/ \E p \in DOMAIN held : Free(p)

\* malloc runs to its end: interrupts are masked in the handlers that call it.
Spec == Init /\ [][Next]_vars /\ WF_vars(Pass \/ GiveUp \/ Take)

-----------------------------------------------------------------------------
Behind(a) == a + Header + chunk[a].size           \* where the next header must be

\* The chunks tile the heap in list order, and the two links of neighbours agree: the
\* splits of malloc and the merges of free relink the chunk on the far side as well.
Linked ==
  /\ first # null => first \in DOMAIN chunk
  /\ \A a \in DOMAIN chunk :
       /\ IF chunk[a].next = null THEN Behind(a) = End
          ELSE chunk[a].next = Behind(a) /\ Behind(a) \in DOMAIN chunk /\ chunk[Behind(a)].prev = a
       /\ IF chunk[a].prev = null THEN a = first
          ELSE chunk[a].prev \in DOMAIN chunk /\ chunk[chunk[a].prev].next = a
  /\ \A a, b \in DOMAIN chunk : a < b => Behind(a) <= b

\* Two free chunks never lie side by side: free has merged them.
Coalesced ==
  \A a \in DOMAIN chunk : IsFree(chunk, a) => ~IsFree(chunk, chunk[a].next)

\* What callers hold lies inside the heap, clear of every header of the list and of what
\* other callers hold: no caller's write reaches a header or another caller's bytes.
BlocksApart ==
  \A p \in DOMAIN held :
    /\ Start <= p /\ p + held[p] <= End
    /\ \A a \in DOMAIN chunk : a + Header <= p \/ p + held[p] <= a
    /\ \A q \in DOMAIN held : p < q => p + held[p] <= q

\* The allocated chunks are exactly those whose payload somebody holds.
HeldIsAllocated ==
  \A p \in Start .. End : p \in DOMAIN held <=>
    p - Header \in DOMAIN chunk /\ chunk[p - Header].allocated

\* When everything has been freed the heap is one chunk again, nothing lost to headers.
WholeAgain ==
  first # null /\ DOMAIN held = {} =>
    DOMAIN chunk = {first} /\ chunk[first].size = HeapSize - Header

\* malloc returns 0 only if no free chunk is larger than the request: the walk has seen
\* every chunk.
RefusesOnlyWhenFull ==
  [][GiveUp => \A a \in DOMAIN chunk : chunk[a].allocated \/ chunk[a].size <= request]_vars

\* Every malloc returns: the list has no cycle.
MallocReturns == request # nothing ~> request = nothing

-----------------------------------------------------------------------------
Abstract == INSTANCE Allocator WITH granted <- held, Lo <- Start, Hi <- End

\* The chunk list implements an allocator of disjoint blocks.
ImplementsAllocator == Abstract!ASpec

=============================================================================
