----------------------- MODULE MemoryManagerProofs -----------------------
(***************************************************************************)
(* What holds of the kernel heap for every heap size, header size and      *)
(* sequence of malloc and free, and that it implements Allocator.          *)
(***************************************************************************)
EXTENDS MemoryManager, TLAPS

\* A caller's block fits the payload of its chunk.
HeldFits == \A p \in DOMAIN held : held[p] <= chunk[p - Header].size

\* There is a chunk unless the heap has no room for a header.
Rooted == first = null => DOMAIN chunk = {}

\* malloc's walk has left behind only chunks that do not serve the request, and there is
\* a cursor only while it lasts.
WalkSoFar ==
  /\ request = nothing => cursor = null
  /\ request # nothing => \A a \in DOMAIN chunk : cursor = null \/ a < cursor => ~Fits(a)

\* The inductive invariant.  BlocksApart follows from the tiling of the heap by the
\* chunks, and WholeAgain from the absence of free neighbours.
MInv ==
  /\ MTypeOK /\ Linked /\ Coalesced /\ HeldIsAllocated
  /\ HeldFits /\ Rooted /\ WalkSoFar

-----------------------------------------------------------------------------
(* The same for any header map c, to reason about one merge at a time.     *)

Headers(c) ==
  /\ DOMAIN c \subseteq Start .. End - Header
  /\ \A a \in DOMAIN c : c[a] \in Chunk

Tiled(c) ==
  /\ first # null => first \in DOMAIN c
  /\ \A a \in DOMAIN c :
       /\ IF c[a].next = null THEN a + Header + c[a].size = End
          ELSE /\ c[a].next = a + Header + c[a].size
               /\ c[a].next \in DOMAIN c
               /\ c[c[a].next].prev = a
       /\ IF c[a].prev = null THEN a = first
          ELSE c[a].prev \in DOMAIN c /\ c[c[a].prev].next = a
  /\ \A a, b \in DOMAIN c : a < b => a + Header + c[a].size <= b

LEMMA LinkedIsTiled == Linked <=> Tiled(chunk)
  BY DEF Linked, Tiled, Behind

\* What one merge, in which chunk a absorbs the chunk behind it, makes of c.
Absorbed(c, d, a) ==
  /\ DOMAIN d = DOMAIN c \ {c[a].next}
  /\ \A x \in DOMAIN d : d[x].allocated = c[x].allocated /\ c[x].size <= d[x].size
  /\ a \in DOMAIN d => d[a].next = c[c[a].next].next
  /\ \A x \in DOMAIN d : x # a => d[x].next = c[x].next

LEMMA AbsorbKeeps ==
  ASSUME first \in {null, Start}, NEW c, Headers(c), Tiled(c), NEW a \in DOMAIN c, c[a].next # null,
         NEW d, d = Absorb(c, a, c[a].next)
  PROVE  Headers(d) /\ Tiled(d) /\ Absorbed(c, d, a)
  <1> DEFINE b == c[a].next
             after == c[b].next
  <1>0. Start \in Nat \ {0} /\ Header \in Nat \ {0} /\ HeapSize \in Nat /\ null = 0 /\ End \in Nat
    BY HeapAssumption DEF null, End
  <1>1. /\ \A x \in DOMAIN c : /\ x \in Nat /\ x >= Start /\ x + Header <= End
                               /\ c[x].next \in Nat /\ c[x].prev \in Nat
                               /\ c[x].size \in Nat /\ c[x].allocated \in BOOLEAN
        /\ null \notin DOMAIN c
    BY <1>0 DEF Headers, Chunk
  <1>2. /\ b \in DOMAIN c /\ b = a + Header + c[a].size /\ a < b
        /\ after # null => after \in DOMAIN c /\ after = b + Header + c[b].size /\ c[after].prev = b
        /\ after = null => b + Header + c[b].size = End
    BY <1>0, <1>1 DEF Tiled
  <1>3. a # after /\ b # after
    BY <1>0, <1>1, <1>2
  <1>4. DOMAIN d = DOMAIN c \ {b}
    BY DEF Absorb
  <1>5. \A x \in DOMAIN d :
          d[x] = IF x = a THEN [c[a] EXCEPT !.next = after, !.size = c[a].size + c[b].size + Header]
                 ELSE IF x = after THEN [c[x] EXCEPT !.prev = a] ELSE c[x]
    BY DEF Absorb
  <1>6. \A x \in DOMAIN d : /\ d[x] \in Chunk
                            /\ d[x].next = IF x = a THEN after ELSE c[x].next
                            /\ d[x].prev = IF x = after THEN a ELSE c[x].prev
                            /\ d[x].allocated = c[x].allocated
                            /\ d[x].size = IF x = a THEN c[a].size + c[b].size + Header
                                           ELSE c[x].size
    <2> HIDE DEF b, after
    <2>1. after \in Nat /\ c[a].size + c[b].size + Header \in Nat
      BY <1>0, <1>1, <1>2
    <2> TAKE x \in DOMAIN d
    <2>2. x \in DOMAIN c /\ c[x] \in Chunk /\ a \in Nat
      BY <1>1, <1>4 DEF Headers
    <2>3. CASE x = a
      <3>1. d[x] = [c[a] EXCEPT !.next = after, !.size = c[a].size + c[b].size + Header]
        BY <1>5, <2>3
      <3> QED BY <1>3, <2>1, <2>2, <2>3, <3>1 DEF Chunk
    <2>4. CASE x # a /\ x = after
      <3>1. d[x] = [c[x] EXCEPT !.prev = a]
        BY <1>5, <2>4
      <3> QED BY <2>2, <2>4, <3>1 DEF Chunk
    <2>5. CASE x # a /\ x # after
      BY <1>5, <2>2, <2>5
    <2> QED BY <2>3, <2>4, <2>5
  <1>7. Headers(d)
    BY <1>4, <1>6 DEF Headers
  <1>8. \A x \in DOMAIN c : c[x].next = b => x = a
    BY <1>0, <1>1, <1>2 DEF Tiled
  <1>9. \A x \in DOMAIN c : c[x].prev = b => x = after
    BY <1>0, <1>1, <1>2 DEF Tiled
  <1>10. b # first
    BY <1>0, <1>1, <1>2
  <1> HIDE DEF b, after
  <1>11. ASSUME NEW x \in DOMAIN d
         PROVE  /\ IF d[x].next = null THEN x + Header + d[x].size = End
                   ELSE /\ d[x].next = x + Header + d[x].size
                        /\ d[x].next \in DOMAIN d
                        /\ d[d[x].next].prev = x
                /\ IF d[x].prev = null THEN x = first
                   ELSE d[x].prev \in DOMAIN d /\ d[d[x].prev].next = x
    <2>1. x \in DOMAIN c /\ x # b
      BY <1>4, <1>11
    <2>2. CASE x = a
      <3>1. d[x].next = after /\ d[x].size = c[a].size + c[b].size + Header
        BY <1>6, <1>11, <2>2
      <3>2. d[x].prev = c[a].prev
        BY <1>3, <1>6, <1>11, <2>2
      <3>3. c[a].prev # null => c[a].prev \in DOMAIN d /\ c[a].prev # a
        BY <1>0, <1>1, <1>2, <1>4 DEF Tiled
      <3>4. c[a].prev # null => d[c[a].prev].next = a
        BY <1>6, <3>3 DEF Tiled
      <3>5. after # null => after \in DOMAIN d /\ d[after].prev = a
        BY <1>2, <1>3, <1>4, <1>6
      <3>6. c[a].prev = null => a = first
        BY DEF Tiled
      <3> QED BY <1>0, <1>1, <1>2, <2>2, <3>1, <3>2, <3>3, <3>4, <3>5, <3>6
    <2>3. CASE x # a /\ x = after
      <3>1. d[x].prev = a /\ a \in DOMAIN d /\ d[a].next = x /\ a # null
        BY <1>0, <1>1, <1>2, <1>4, <1>6, <2>3
      <3>2. d[x].next = c[x].next /\ d[x].size = c[x].size
        BY <1>6, <1>11, <2>3
      <3>3. c[x].next # null => c[x].next \in DOMAIN d /\ c[x].next # after
        BY <1>0, <1>1, <1>2, <1>4, <2>1, <2>3 DEF Tiled
      <3>4. c[x].next # null => d[c[x].next].prev = x
        BY <1>6, <2>1, <3>3 DEF Tiled
      <3> QED BY <1>0, <2>1, <3>1, <3>2, <3>3, <3>4 DEF Tiled
    <2>4. CASE x # a /\ x # after
      <3>1. d[x].prev = c[x].prev /\ d[x].next = c[x].next /\ d[x].size = c[x].size
        BY <1>6, <1>11, <2>4
      <3>2. c[x].next # null => c[x].next \in DOMAIN d /\ d[c[x].next].prev = x
        <4>1. c[x].next # null => c[x].next \in DOMAIN c /\ c[x].next # b /\ c[c[x].next].prev = x
          BY <1>8, <2>1, <2>4 DEF Tiled
        <4>2. c[x].next # null => c[x].next # after
          BY <1>2, <2>1, <4>1
        <4> QED BY <1>4, <1>6, <4>1, <4>2
      <3>3. c[x].prev # null => c[x].prev \in DOMAIN d /\ d[c[x].prev].next = x
        <4>1. c[x].prev # null => c[x].prev \in DOMAIN c /\ c[x].prev # b /\ c[c[x].prev].next = x
          BY <1>9, <2>1, <2>4 DEF Tiled
        <4>2. c[x].prev # null => c[x].prev # a
          BY <2>1, <4>1 DEF b
        <4> QED BY <1>4, <1>6, <4>1, <4>2
      <3> QED BY <2>1, <3>1, <3>2, <3>3 DEF Tiled
    <2> QED BY <2>2, <2>3, <2>4
  <1>12. ASSUME NEW x \in DOMAIN d, NEW y \in DOMAIN d, x < y
         PROVE  x + Header + d[x].size <= y
    <2>1. x \in DOMAIN c /\ y \in DOMAIN c /\ y # b /\ x + Header + c[x].size <= y
      BY <1>4, <1>12 DEF Tiled
    <2>2. CASE x = a
      <3>1. b < y /\ b + Header + c[b].size <= y
        BY <1>0, <1>1, <1>2, <2>1, <2>2 DEF Tiled
      <3> QED BY <1>0, <1>1, <1>2, <1>6, <1>12, <2>1, <2>2, <3>1
    <2>3. CASE x # a
      BY <1>6, <1>12, <2>1, <2>3
    <2> QED BY <2>2, <2>3
  <1>13. first # null => first \in DOMAIN d
    BY <1>4, <1>10 DEF Tiled
  <1>14. Tiled(d)
    BY <1>11, <1>12, <1>13 DEF Tiled
  <1>15. \A x \in DOMAIN d : c[x].size <= d[x].size
    BY <1>0, <1>1, <1>2, <1>4, <1>6
  <1> QED BY <1>4, <1>6, <1>7, <1>14, <1>15 DEF b, after, Absorbed

\* The chunks of d are those of c, some free ones merged into their neighbours.
Merged(c, d) ==
  /\ DOMAIN d \subseteq DOMAIN c
  /\ \A x \in DOMAIN c : x \in DOMAIN d \/ ~c[x].allocated
  /\ \A x \in DOMAIN d : d[x].allocated = c[x].allocated /\ c[x].size <= d[x].size

FreePair(c, x) == IsFree(c, x) /\ IsFree(c, c[x].next)

\* What Tiled and Headers say of one chunk and its neighbours.
LEMMA Neighbours ==
  ASSUME first \in {null, Start}, NEW c, Headers(c), Tiled(c), NEW x \in DOMAIN c
  PROVE  /\ x \in Nat /\ Start <= x /\ x + Header <= End /\ x # null
         /\ c[x].size \in Nat /\ c[x].allocated \in BOOLEAN
         /\ c[x].next # null => /\ c[x].next \in DOMAIN c /\ x < c[x].next
                                /\ c[c[x].next].prev = x
         /\ c[x].prev # null => /\ c[x].prev \in DOMAIN c /\ c[x].prev < x
                                /\ c[c[x].prev].next = x
  <1>0. Start \in Nat \ {0} /\ Header \in Nat \ {0} /\ HeapSize \in Nat /\ null = 0 /\ End \in Nat
    BY HeapAssumption DEF null, End
  <1>1. \A y \in DOMAIN c : /\ y \in Nat /\ Start <= y /\ y + Header <= End /\ y # null
                            /\ c[y].size \in Nat /\ c[y].allocated \in BOOLEAN
    BY <1>0 DEF Headers, Chunk
  <1>2. \A y \in DOMAIN c : c[y].next # null => /\ c[y].next \in DOMAIN c
                                                /\ c[y].next = y + Header + c[y].size
                                                /\ c[c[y].next].prev = y
    BY DEF Tiled
  <1>3. \A y \in DOMAIN c : c[y].next # null => y < c[y].next
    BY <1>0, <1>1, <1>2
  <1>4. c[x].prev # null => c[x].prev \in DOMAIN c /\ c[c[x].prev].next = x
    BY DEF Tiled
  <1> QED BY <1>1, <1>2, <1>3, <1>4

\* The merge with a free successor removes the last pair of free neighbours.
LEMMA MergedOnKeeps ==
  ASSUME first \in {null, Start}, NEW c, Headers(c), Tiled(c),
         NEW z \in DOMAIN c, ~c[z].allocated,
         \A x \in DOMAIN c : FreePair(c, x) => x = z,
         NEW d, d = MergedOn(c, z)
  PROVE  /\ Headers(d) /\ Tiled(d) /\ Merged(c, d) /\ z \in DOMAIN d
         /\ \A x \in DOMAIN d : ~FreePair(d, x)
  <1>1. CASE ~IsFree(c, c[z].next)
    <2>1. d = c
      BY <1>1 DEF MergedOn
    <2>2. \A x \in DOMAIN c : c[x].size <= c[x].size
      BY Neighbours
    <2> QED BY <1>1, <2>1, <2>2 DEF FreePair, Merged
  <1>2. CASE IsFree(c, c[z].next)
    <2> DEFINE b == c[z].next
    <2>1. b # null /\ b \in DOMAIN c /\ z < b /\ ~c[b].allocated /\ z # null /\ z # b
      BY <1>2, Neighbours DEF IsFree
    <2>2. d = Absorb(c, z, b)
      BY <1>2 DEF MergedOn
    <2>6. Headers(d) /\ Tiled(d) /\ Absorbed(c, d, z)
      BY <2>1, <2>2, AbsorbKeeps
    <2>3. /\ DOMAIN d = DOMAIN c \ {b}
          /\ \A x \in DOMAIN d : /\ d[x].allocated = c[x].allocated
                                 /\ c[x].size <= d[x].size
          /\ d[z].next = c[b].next
          /\ \A x \in DOMAIN d : x # z => d[x].next = c[x].next
      BY <2>1, <2>6 DEF Absorbed
    <2>4. Merged(c, d) /\ z \in DOMAIN d
      BY <2>1, <2>3 DEF Merged
    <2>5. ASSUME NEW x \in DOMAIN d, FreePair(d, x)
          PROVE  FALSE
      <3>1. x \in DOMAIN c /\ ~c[x].allocated /\ x # null
        BY <2>3, <2>5 DEF FreePair, IsFree
      <3>2. d[x].next # null /\ d[x].next \in DOMAIN d /\ ~d[d[x].next].allocated
        BY <2>5, <2>6, Neighbours DEF FreePair, IsFree
      <3>3. d[x].next \in DOMAIN c /\ ~c[d[x].next].allocated
        BY <2>3, <3>2
      <3>4. CASE x = z
        <4>1. c[b].next = d[x].next
          BY <2>3, <2>5, <3>4
        <4>2. FreePair(c, b)
          BY <2>1, <3>2, <3>3, <4>1 DEF FreePair, IsFree
        <4> QED BY <2>1, <4>2
      <3>5. CASE x # z
        <4>1. c[x].next = d[x].next
          BY <2>3, <2>5, <3>5
        <4>2. FreePair(c, x)
          BY <3>1, <3>2, <3>3, <4>1 DEF FreePair, IsFree
        <4> QED BY <3>1, <3>5, <4>2
      <3> QED BY <3>4, <3>5
    <2> QED BY <2>4, <2>5, <2>6
  <1> QED BY <1>1, <1>2

\* After the first merge of free, into chunk z: only z may have a free successor.
MergedInto(c, d, z) ==
  /\ Headers(d) /\ Tiled(d) /\ Merged(c, d) /\ z \in DOMAIN d /\ ~d[z].allocated
  /\ \A x \in DOMAIN d : FreePair(d, x) => x = z

\* The merge into a free predecessor leaves at most the pair at the merged chunk.
LEMMA MergedBackKeeps ==
  ASSUME first \in {null, Start}, NEW c, Headers(c), Tiled(c),
         NEW a \in DOMAIN c, ~c[a].allocated,
         \A x \in DOMAIN c : FreePair(c, x) => x = a \/ c[x].next = a,
         NEW d, d = MergedBack(c, a),
         NEW z, z = IF IsFree(c, c[a].prev) THEN c[a].prev ELSE a
  PROVE  MergedInto(c, d, z)
  <1>1. CASE ~IsFree(c, c[a].prev)
    <2>1. d = c /\ z = a
      BY <1>1 DEF MergedBack
    <2>2. \A x \in DOMAIN c : c[x].size <= c[x].size
      BY Neighbours
    <2>3. ASSUME NEW x \in DOMAIN c, FreePair(c, x), x # a
          PROVE  FALSE
      <3>1. c[x].next = a /\ c[x].next # null
        BY <2>3 DEF FreePair, IsFree
      <3>2. c[a].prev = x
        BY <3>1, Neighbours
      <3> QED BY <1>1, <2>3, <3>2 DEF FreePair
    <2> QED BY <2>1, <2>2, <2>3 DEF Merged, MergedInto
  <1>2. CASE IsFree(c, c[a].prev)
    <2>1. /\ z = c[a].prev /\ z \in DOMAIN c /\ z < a /\ ~c[z].allocated /\ c[z].next = a
          /\ a # null /\ z # null /\ z # a
      BY <1>2, Neighbours DEF IsFree
    <2>2. d = Absorb(c, z, c[z].next)
      BY <1>2, <2>1 DEF MergedBack
    <2>6. Headers(d) /\ Tiled(d) /\ Absorbed(c, d, z)
      BY <2>1, <2>2, AbsorbKeeps
    <2>3. /\ DOMAIN d = DOMAIN c \ {a}
          /\ \A x \in DOMAIN d : /\ d[x].allocated = c[x].allocated
                                 /\ c[x].size <= d[x].size
          /\ \A x \in DOMAIN d : x # z => d[x].next = c[x].next
      BY <2>1, <2>6 DEF Absorbed
    <2>4. Merged(c, d) /\ z \in DOMAIN d /\ ~d[z].allocated
      BY <2>1, <2>3 DEF Merged
    <2>5. ASSUME NEW x \in DOMAIN d, FreePair(d, x), x # z
          PROVE  FALSE
      <3>1. x \in DOMAIN c /\ ~c[x].allocated /\ x # null /\ x # a
        BY <2>3, <2>5 DEF FreePair, IsFree
      <3>2. d[x].next # null /\ d[x].next \in DOMAIN d /\ ~d[d[x].next].allocated
        BY <2>5, <2>6, Neighbours DEF FreePair, IsFree
      <3>3. /\ c[x].next = d[x].next /\ c[x].next \in DOMAIN c /\ c[x].next # a
            /\ ~c[c[x].next].allocated
        BY <2>3, <2>5, <3>2
      <3>4. FreePair(c, x)
        BY <3>1, <3>2, <3>3 DEF FreePair, IsFree
      <3> QED BY <3>1, <3>3, <3>4
    <2> QED BY <2>4, <2>5, <2>6 DEF MergedInto
  <1> QED BY <1>1, <1>2

-----------------------------------------------------------------------------
\* What a split makes of the chunks: a is cut to n bytes and allocated, the chunk rest
\* behind it is new and free.
SplitAt(c, d, a, n, rest) ==
  /\ DOMAIN d = DOMAIN c \cup {rest}
  /\ d[rest].next = c[a].next /\ ~d[rest].allocated
  /\ d[a].next = rest /\ d[a].allocated /\ d[a].size = n
  /\ \A x \in DOMAIN c : x # a => /\ d[x].next = c[x].next
                                  /\ d[x].allocated = c[x].allocated
                                  /\ d[x].size = c[x].size

LEMMA SplitKeeps ==
  ASSUME first \in {null, Start}, Headers(chunk), Tiled(chunk),
         NEW a \in DOMAIN chunk, NEW n \in Nat, RoomToSplit(a, n),
         NEW d, d = Split(a, n),
         NEW rest, rest = a + Header + n
  PROVE  /\ Headers(d) /\ Tiled(d) /\ SplitAt(chunk, d, a, n, rest)
         /\ rest \notin DOMAIN chunk /\ rest # null
  <1> DEFINE after == chunk[a].next
             left  == chunk[a].size - n - Header
  <1>0. Start \in Nat \ {0} /\ Header \in Nat \ {0} /\ HeapSize \in Nat /\ null = 0 /\ End \in Nat
    BY HeapAssumption DEF null, End
  <1>1. \A x \in DOMAIN chunk :
          /\ x \in Nat /\ x >= Start /\ x + Header <= End /\ x # null
          /\ chunk[x] \in Chunk /\ chunk[x].next \in Nat /\ chunk[x].prev \in Nat
          /\ chunk[x].size \in Nat
    BY <1>0 DEF Headers, Chunk
  <1>2. /\ after # null => after \in DOMAIN chunk /\ after = a + Header + chunk[a].size
        /\ after = null => a + Header + chunk[a].size = End
    BY DEF Tiled
  <1>3. /\ chunk[a].size >= n + Header + 1 /\ left \in Nat
        /\ rest \in Nat /\ a < rest /\ rest + Header + left = a + Header + chunk[a].size
        /\ rest + Header <= End /\ rest >= Start /\ rest # null
    BY <1>0, <1>1, <1>2 DEF RoomToSplit
  <1>4. \A x \in DOMAIN chunk : a < x => a + Header + chunk[a].size <= x
    BY DEF Tiled
  <1>5. rest \notin DOMAIN chunk /\ rest # a /\ after # a /\ after # rest
    BY <1>0, <1>1, <1>2, <1>3, <1>4
  <1>6. DOMAIN d = DOMAIN chunk \cup {rest}
    BY DEF Split
  <1>7. /\ d[rest] = [next |-> after, prev |-> a, allocated |-> FALSE, size |-> left]
        /\ d[a] = [chunk[a] EXCEPT !.next = rest, !.allocated = TRUE, !.size = n]
        /\ after # null => d[after] = [chunk[after] EXCEPT !.prev = rest]
        /\ \A x \in DOMAIN chunk : x # a /\ x # after => d[x] = chunk[x]
    BY <1>2, <1>5 DEF Split
  <1> HIDE DEF after, left
  <1>8. /\ d[rest] \in Chunk /\ d[rest].next = after /\ d[rest].prev = a
        /\ ~d[rest].allocated /\ d[rest].size = left
    BY <1>1, <1>3, <1>7 DEF Chunk, after
  <1>9. /\ d[a] \in Chunk /\ d[a].next = rest /\ d[a].prev = chunk[a].prev
        /\ d[a].allocated /\ d[a].size = n
    BY <1>1, <1>3, <1>7 DEF Chunk
  <1>10. after # null => /\ d[after] \in Chunk /\ d[after].next = chunk[after].next
                         /\ d[after].prev = rest /\ d[after].size = chunk[after].size
                         /\ d[after].allocated = chunk[after].allocated
    BY <1>1, <1>2, <1>3, <1>7 DEF Chunk
  <1>11. Headers(d)
    <2>1. \A x \in DOMAIN d : d[x] \in Chunk
      BY <1>1, <1>2, <1>6, <1>7, <1>8, <1>9, <1>10
    <2>2. rest \in Start .. End - Header
      BY <1>0, <1>3
    <2> QED BY <1>6, <2>1, <2>2 DEF Headers
  <1>12. \A x \in DOMAIN chunk : x # a => /\ d[x].next = chunk[x].next
                                          /\ d[x].allocated = chunk[x].allocated
                                          /\ d[x].size = chunk[x].size
    BY <1>1, <1>7, <1>10
  <1>13. SplitAt(chunk, d, a, n, rest)
    BY <1>6, <1>8, <1>9, <1>12 DEF SplitAt, after
  <1>14. ASSUME NEW x \in DOMAIN d
         PROVE  /\ IF d[x].next = null THEN x + Header + d[x].size = End
                   ELSE /\ d[x].next = x + Header + d[x].size
                        /\ d[x].next \in DOMAIN d
                        /\ d[d[x].next].prev = x
                /\ IF d[x].prev = null THEN x = first
                   ELSE d[x].prev \in DOMAIN d /\ d[d[x].prev].next = x
    <2>1. CASE x = rest
      <3>1. after = null => rest + Header + left = End
        BY <1>2, <1>3
      <3>2. after # null => after = rest + Header + left /\ after \in DOMAIN d /\ d[after].prev = rest
        BY <1>2, <1>3, <1>6, <1>10
      <3>3. a # null /\ a \in DOMAIN d /\ d[a].next = rest
        BY <1>1, <1>6, <1>9
      <3> QED BY <1>8, <2>1, <3>1, <3>2, <3>3
    <2>2. CASE x = a
      <3>1. rest # null /\ rest = a + Header + n /\ rest \in DOMAIN d /\ d[rest].prev = a
        BY <1>3, <1>6, <1>8
      <3>2. IF chunk[a].prev = null THEN a = first
            ELSE chunk[a].prev \in DOMAIN chunk /\ chunk[chunk[a].prev].next = a
        BY DEF Tiled
      <3>3. chunk[a].prev # null => chunk[a].prev # a
        BY <1>1, <3>2, Neighbours
      <3>4. chunk[a].prev # null => chunk[a].prev \in DOMAIN d /\ d[chunk[a].prev].next = a
        BY <1>6, <1>12, <3>2, <3>3
      <3> QED BY <1>9, <2>2, <3>1, <3>2, <3>4
    <2>3. CASE x \in DOMAIN chunk /\ x # a
      <3>1. /\ IF chunk[x].next = null THEN x + Header + chunk[x].size = End
               ELSE /\ chunk[x].next = x + Header + chunk[x].size
                    /\ chunk[x].next \in DOMAIN chunk
                    /\ chunk[chunk[x].next].prev = x
            /\ IF chunk[x].prev = null THEN x = first
               ELSE chunk[x].prev \in DOMAIN chunk /\ chunk[chunk[x].prev].next = x
        BY <2>3 DEF Tiled
      <3>2. d[x].next = chunk[x].next /\ d[x].size = chunk[x].size
        BY <1>12, <2>3
      <3>3. chunk[x].next # null => d[chunk[x].next].prev = x
        <4>1. CASE chunk[x].next = a
          BY <1>9, <3>1, <4>1
        <4>2. CASE chunk[x].next = after /\ after # null
          <5>1. chunk[after].prev = a /\ chunk[after].prev = x
            BY <3>1, <4>2 DEF Tiled, after
          <5> QED BY <2>3, <5>1
        <4>3. CASE chunk[x].next \notin {a, after}
          BY <1>7, <3>1, <4>3
        <4> QED BY <4>1, <4>2, <4>3
      <3>4. CASE x = after
        <4>1. d[x].prev = rest /\ rest # null /\ rest \in DOMAIN d /\ d[rest].next = x
          BY <1>1, <1>3, <1>6, <1>8, <1>10, <2>3, <3>4
        <4> QED BY <1>6, <3>1, <3>2, <3>3, <4>1
      <3>5. CASE x # after
        <4>1. d[x].prev = chunk[x].prev
          BY <1>7, <2>3, <3>5
        <4>2. chunk[x].prev # null => chunk[x].prev # a
          BY <3>1, <3>5 DEF after
        <4>3. chunk[x].prev # null => chunk[x].prev \in DOMAIN d /\ d[chunk[x].prev].next = x
          BY <1>6, <1>12, <3>1, <4>2
        <4> QED BY <1>6, <3>1, <3>2, <3>3, <4>1, <4>3
      <3> QED BY <3>4, <3>5
    <2> QED BY <1>6, <2>1, <2>2, <2>3
  <1>15. ASSUME NEW x \in DOMAIN d, NEW y \in DOMAIN d, x < y
         PROVE  x + Header + d[x].size <= y
    <2>1. CASE x = rest
      <3>1. y \in DOMAIN chunk /\ a < y
        BY <1>0, <1>1, <1>3, <1>6, <1>15, <2>1
      <3> QED BY <1>0, <1>1, <1>3, <1>4, <1>8, <2>1, <3>1
    <2>2. CASE x = a /\ y = rest
      BY <1>0, <1>1, <1>9, <2>2
    <2>3. CASE x = a /\ y # rest
      <3>1. y \in DOMAIN chunk /\ a < y
        BY <1>6, <1>15, <2>3
      <3> QED BY <1>0, <1>1, <1>3, <1>4, <1>9, <2>3, <3>1
    <2>4. CASE x \in DOMAIN chunk /\ x # a /\ y = rest
      <3>1. d[x].size = chunk[x].size
        BY <1>12, <2>4
      <3>2. ~(a < x)
        BY <1>0, <1>1, <1>3, <1>4, <1>15, <2>4
      <3>3. x < a
        BY <1>1, <2>4, <3>2
      <3>4. x + Header + chunk[x].size <= a
        BY <2>4, <3>3 DEF Tiled
      <3> QED BY <1>0, <1>1, <1>3, <2>4, <3>1, <3>4
    <2>5. CASE x \in DOMAIN chunk /\ x # a /\ y \in DOMAIN chunk
      BY <1>12, <1>15, <2>5 DEF Tiled
    <2> QED BY <1>6, <2>1, <2>2, <2>3, <2>4, <2>5
  <1>16. Tiled(d)
    <2>1. first # null => first \in DOMAIN d
      BY <1>6 DEF Tiled
    <2> QED BY <1>14, <1>15, <2>1 DEF Tiled
  <1> QED BY <1>3, <1>5, <1>11, <1>13, <1>16

-----------------------------------------------------------------------------
(* The invariant and the operations.                                       *)

LEMMA HeapFacts ==
  /\ Start \in Nat \ {0} /\ Header \in Nat \ {0} /\ HeapSize \in Nat /\ null = 0 /\ End \in Nat
  /\ nothing \notin Nat /\ Requests \subseteq Nat
  BY HeapAssumption DEF null, End, nothing

\* What the invariant gives about the chunks, in the terms of the lemmas above.
LEMMA ChunksOK ==
  ASSUME MInv
  PROVE  /\ first \in {null, Start} /\ Headers(chunk) /\ Tiled(chunk)
         /\ \A x \in DOMAIN chunk : ~FreePair(chunk, x)
         /\ \A p \in DOMAIN held : /\ p \in Nat /\ held[p] \in Nat /\ p - Header \in DOMAIN chunk
                                   /\ chunk[p - Header].allocated
                                   /\ held[p] <= chunk[p - Header].size
         /\ \A x \in DOMAIN chunk : chunk[x].allocated => x + Header \in DOMAIN held
  <1>1. first \in {null, Start} /\ Headers(chunk) /\ Tiled(chunk)
    BY LinkedIsTiled DEF MInv, MTypeOK, Headers
  <1>2. \A x \in DOMAIN chunk : ~FreePair(chunk, x)
    BY DEF MInv, Coalesced, FreePair
  <1>3. \A p \in DOMAIN held : p \in Start .. End /\ held[p] \in Nat
    BY DEF MInv, MTypeOK
  <1>4. \A p \in DOMAIN held : /\ p - Header \in DOMAIN chunk /\ chunk[p - Header].allocated
                               /\ held[p] <= chunk[p - Header].size
    BY <1>3 DEF MInv, HeldIsAllocated, HeldFits
  <1>5. ASSUME NEW x \in DOMAIN chunk, chunk[x].allocated
        PROVE  x + Header \in DOMAIN held
    <2>1. x + Header \in Start .. End /\ (x + Header) - Header = x
      BY <1>1, Neighbours, HeapFacts
    <2> QED BY <1>5, <2>1 DEF MInv, HeldIsAllocated
  <1>6. \A p \in DOMAIN held : p \in Nat
    BY <1>3, HeapFacts
  <1> QED BY <1>1, <1>2, <1>3, <1>4, <1>5, <1>6

\* What a step that relinks chunks has to show.
LEMMA ChunksOKAgain ==
  ASSUME MInv, first' = first, request' = nothing, cursor' = null,
         Headers(chunk'), Tiled(chunk'), \A x \in DOMAIN chunk' : ~FreePair(chunk', x),
         Rooted',
         \A p \in DOMAIN held' : /\ p \in Nat /\ held'[p] \in Nat /\ p - Header \in DOMAIN chunk'
                                 /\ chunk'[p - Header].allocated
                                 /\ held'[p] <= chunk'[p - Header].size,
         \A x \in DOMAIN chunk' : chunk'[x].allocated => x + Header \in DOMAIN held'
  PROVE  MInv'
  <1>1. \A p \in DOMAIN held' : p \in Start .. End
    <2> TAKE p \in DOMAIN held'
    <2>1. p \in Nat /\ p - Header \in Start .. End - Header
      BY DEF Headers
    <2> QED BY <2>1, HeapFacts
  <1>2. MTypeOK'
    BY <1>1 DEF MInv, MTypeOK, Headers, End
  <1>3. Linked'
    BY DEF Linked, Tiled, Behind, End
  <1>4. Coalesced'
    BY DEF Coalesced, FreePair, IsFree
  <1>5. HeldIsAllocated'
    <2> SUFFICES ASSUME NEW p \in Start .. End
                 PROVE  p \in DOMAIN held' <=> p - Header \in DOMAIN chunk' /\ chunk'[p - Header].allocated
      BY DEF HeldIsAllocated, End
    <2>1. (p - Header) + Header = p
      BY HeapFacts
    <2> QED BY <2>1
  <1>6. HeldFits'
    BY DEF HeldFits
  <1>7. WalkSoFar'
    BY DEF WalkSoFar
  <1> QED BY <1>2, <1>3, <1>4, <1>5, <1>6, <1>7 DEF MInv

LEMMA MInit ==
  ASSUME Init
  PROVE  MInv
  <1> USE HeapFacts
  <1>1. CASE HeapSize < Header
    <2>1. first = null /\ DOMAIN chunk = {} /\ DOMAIN held = {} /\ request = nothing /\ cursor = null
      BY <1>1 DEF Init
    <2>2. HeldIsAllocated
      BY <2>1 DEF HeldIsAllocated
    <2> QED BY <2>1, <2>2 DEF MInv, MTypeOK, Linked, Coalesced, HeldFits, Rooted, WalkSoFar
  <1>2. CASE ~(HeapSize < Header)
    <2>1. /\ first = Start /\ Start # null /\ DOMAIN chunk = {Start} /\ DOMAIN held = {}
          /\ request = nothing /\ cursor = null
          /\ chunk[Start] = [next |-> null, prev |-> null, allocated |-> FALSE,
                             size |-> HeapSize - Header]
      BY <1>2 DEF Init
    <2>2. /\ HeapSize - Header \in Nat /\ Start + Header + (HeapSize - Header) = End
          /\ Start \in Start .. End - Header
      BY <1>2 DEF End
    <2>3. /\ chunk[Start] \in Chunk /\ chunk[Start].next = null /\ chunk[Start].prev = null
          /\ ~chunk[Start].allocated /\ chunk[Start].size = HeapSize - Header
      BY <2>1, <2>2 DEF Chunk
    <2>4. MTypeOK
      BY <2>1, <2>2, <2>3 DEF MTypeOK
    <2>5. Linked
      BY <2>1, <2>2, <2>3 DEF Linked, Behind
    <2>6. Coalesced
      BY <2>1, <2>3 DEF Coalesced, IsFree
    <2>7. HeldIsAllocated
      BY <2>1, <2>3 DEF HeldIsAllocated
    <2> QED BY <2>1, <2>4, <2>5, <2>6, <2>7 DEF MInv, HeldFits, Rooted, WalkSoFar
  <1> QED BY <1>1, <1>2

LEMMA MallocKeeps ==
  ASSUME MInv, NEW n \in Requests, Malloc(n)
  PROVE  MInv'
  <1>1. first # null => first \in DOMAIN chunk
    BY DEF MInv, Linked
  <1>2. MTypeOK'
    BY <1>1, HeapFacts DEF MInv, MTypeOK, Malloc
  <1>3. WalkSoFar'
    <2>1. \A a \in DOMAIN chunk : ~(first = null \/ a < first)
      <3> TAKE a \in DOMAIN chunk
      <3>1. a \in Nat /\ Start <= a
        BY ChunksOK, Neighbours
      <3> QED BY <3>1, HeapFacts DEF MInv, MTypeOK, Rooted
    <2> QED BY <2>1, HeapFacts DEF Malloc, WalkSoFar
  <1> QED BY <1>2, <1>3 DEF MInv, Malloc, Linked, Behind, Coalesced, IsFree, HeldIsAllocated,
                             HeldFits, Rooted

LEMMA PassKeeps ==
  ASSUME MInv, Pass
  PROVE  MInv'
  <1>1. cursor \in DOMAIN chunk /\ cursor' = chunk[cursor].next
    BY DEF MInv, MTypeOK, Pass, Walk
  <1>2. MTypeOK'
    BY <1>1, ChunksOK, Neighbours DEF MInv, MTypeOK, Pass
  <1>3. ASSUME NEW a \in DOMAIN chunk, cursor' = null \/ a < cursor'
        PROVE  ~Fits(a)
    <2>1. CASE a = cursor
      BY <2>1 DEF Pass
    <2>2. CASE a < cursor
      BY <2>2 DEF MInv, WalkSoFar, Pass
    <2>3. CASE cursor < a
      <3>1. /\ IF chunk[cursor].next = null THEN cursor + Header + chunk[cursor].size = End
               ELSE chunk[cursor].next = cursor + Header + chunk[cursor].size
            /\ cursor + Header + chunk[cursor].size <= a
        BY <1>1, <2>3, ChunksOK DEF Tiled
      <3>2. a \in Nat /\ a + Header <= End
        BY ChunksOK, Neighbours
      <3>3. cursor' \in Nat
        BY <1>1, ChunksOK DEF Headers, Chunk
      <3> QED BY <1>1, <1>3, <3>1, <3>2, <3>3, HeapFacts
    <2>4. a \in Nat /\ cursor \in Nat
      BY <1>1, ChunksOK, Neighbours
    <2> QED BY <2>1, <2>2, <2>3, <2>4
  <1>4. WalkSoFar'
    BY <1>3 DEF WalkSoFar, Pass, Fits
  <1> QED BY <1>2, <1>4 DEF MInv, Pass, Linked, Behind, Coalesced, IsFree, HeldIsAllocated,
                             HeldFits, Rooted

LEMMA GiveUpKeeps ==
  ASSUME MInv, GiveUp
  PROVE  MInv'
  BY DEF MInv, GiveUp, MTypeOK, Linked, Behind, Coalesced, IsFree, HeldIsAllocated,
         HeldFits, Rooted, WalkSoFar

LEMMA StutterKeeps ==
  ASSUME MInv, UNCHANGED vars
  PROVE  MInv'
  BY DEF MInv, vars, MTypeOK, Linked, Behind, Coalesced, IsFree, HeldIsAllocated,
         HeldFits, Rooted, WalkSoFar, Fits

\* The chunk malloc takes has room for the request and is held by nobody yet.
LEMMA TakenChunk ==
  ASSUME MInv, Take
  PROVE  /\ cursor \in DOMAIN chunk /\ cursor \in Nat /\ request \in Nat
         /\ chunk[cursor].size > request /\ ~chunk[cursor].allocated
         /\ cursor + Header \notin DOMAIN held /\ (cursor + Header) - Header = cursor
         /\ DOMAIN held' = DOMAIN held \cup {cursor + Header}
         /\ held'[cursor + Header] = request
         /\ \A p \in DOMAIN held : held'[p] = held[p]
  <1>1. /\ cursor \in DOMAIN chunk /\ request \in Nat
        /\ chunk[cursor].size > request /\ ~chunk[cursor].allocated
    BY DEF MInv, MTypeOK, Take, Fits
  <1>2. cursor \in Nat /\ (cursor + Header) - Header = cursor
    BY <1>1, ChunksOK, Neighbours, HeapFacts
  <1>3. cursor + Header \notin DOMAIN held
    BY <1>1, <1>2, ChunksOK
  <1>4. held' = [p \in DOMAIN held \cup {cursor + Header} |->
                   IF p = cursor + Header THEN request ELSE held[p]]
    BY DEF Take
  <1> QED BY <1>1, <1>2, <1>3, <1>4

\* What the callers hold after malloc, whatever it did to the chunks.
LEMMA TakeHeld ==
  ASSUME MInv, Take,
         \A x \in DOMAIN chunk :
           x \in DOMAIN chunk' /\ (x # cursor => /\ chunk'[x].allocated = chunk[x].allocated
                                                 /\ chunk'[x].size = chunk[x].size),
         \A x \in DOMAIN chunk' : x \in DOMAIN chunk \/ ~chunk'[x].allocated,
         chunk'[cursor].allocated, request <= chunk'[cursor].size
  PROVE  /\ \A p \in DOMAIN held' : /\ p \in Nat /\ held'[p] \in Nat /\ p - Header \in DOMAIN chunk'
                                    /\ chunk'[p - Header].allocated
                                    /\ held'[p] <= chunk'[p - Header].size
         /\ \A x \in DOMAIN chunk' : chunk'[x].allocated => x + Header \in DOMAIN held'
  <1>1. ASSUME NEW p \in DOMAIN held'
        PROVE  /\ p \in Nat /\ held'[p] \in Nat /\ p - Header \in DOMAIN chunk'
               /\ chunk'[p - Header].allocated
               /\ held'[p] <= chunk'[p - Header].size
    <2>1. CASE p = cursor + Header
      <3>1. p \in Nat /\ held'[p] = request /\ p - Header = cursor
        BY <2>1, TakenChunk, HeapFacts
      <3> QED BY <3>1, TakenChunk
    <2>2. CASE p # cursor + Header
      <3>1. p \in DOMAIN held /\ held'[p] = held[p]
        BY <2>2, TakenChunk
      <3>2. /\ p \in Nat /\ held[p] \in Nat /\ p - Header \in DOMAIN chunk
            /\ chunk[p - Header].allocated /\ held[p] <= chunk[p - Header].size
        BY <3>1, ChunksOK
      <3>3. p - Header # cursor
        BY <3>2, TakenChunk
      <3> QED BY <3>1, <3>2, <3>3
    <2> QED BY <2>1, <2>2
  <1>2. ASSUME NEW x \in DOMAIN chunk', chunk'[x].allocated
        PROVE  x + Header \in DOMAIN held'
    <2>1. x \in DOMAIN chunk
      BY <1>2
    <2>2. CASE x = cursor
      BY <2>2, TakenChunk
    <2>3. CASE x # cursor
      BY <1>2, <2>1, <2>3, ChunksOK, TakenChunk
    <2> QED BY <2>2, <2>3
  <1> QED BY <1>1, <1>2

LEMMA TakeKeeps ==
  ASSUME MInv, Take
  PROVE  MInv'
  <1>0. /\ first' = first /\ request' = nothing /\ cursor' = null
        /\ first \in {null, Start} /\ Headers(chunk) /\ Tiled(chunk)
        /\ \A x \in DOMAIN chunk : ~FreePair(chunk, x)
    BY ChunksOK DEF Take
  <1>1. CASE RoomToSplit(cursor, request)
    <2> DEFINE rest == cursor + Header + request
    <2>1. chunk' = Split(cursor, request)
      BY <1>1 DEF Take
    <2>2. /\ Headers(chunk') /\ Tiled(chunk') /\ SplitAt(chunk, chunk', cursor, request, rest)
          /\ rest \notin DOMAIN chunk /\ rest # null
      BY <1>0, <1>1, <2>1, TakenChunk, SplitKeeps
    <2> HIDE DEF rest
    <2>3. ASSUME NEW x \in DOMAIN chunk', FreePair(chunk', x)
          PROVE  FALSE
      <3>1. x # cursor /\ x # null /\ ~chunk'[x].allocated
        BY <2>2, <2>3 DEF SplitAt, FreePair, IsFree
      <3>2. /\ chunk'[x].next # null /\ ~chunk'[chunk'[x].next].allocated
            /\ chunk'[x].next # cursor
        BY <2>2, <2>3 DEF SplitAt, FreePair, IsFree
      <3>3. CASE x = rest
        <4>1. chunk'[x].next = chunk[cursor].next
          BY <2>2, <3>3 DEF SplitAt
        <4>2. chunk[cursor].next \in DOMAIN chunk /\ cursor < chunk[cursor].next
          BY <1>0, <3>2, <4>1, TakenChunk, Neighbours
        <4>3. ~chunk[chunk[cursor].next].allocated
          BY <2>2, <3>2, <4>1, <4>2 DEF SplitAt
        <4>4. cursor # null
          BY DEF Take
        <4>5. FreePair(chunk, cursor)
          BY <3>2, <4>1, <4>3, <4>4, TakenChunk DEF FreePair, IsFree
        <4> QED BY <1>0, <4>5, TakenChunk
      <3>4. CASE x # rest
        <4>1. x \in DOMAIN chunk /\ chunk[x].next = chunk'[x].next /\ ~chunk[x].allocated
          BY <2>2, <3>1, <3>4 DEF SplitAt
        <4>2. chunk[x].next \in DOMAIN chunk
          BY <1>0, <3>2, <4>1, Neighbours
        <4>3. ~chunk[chunk[x].next].allocated
          BY <2>2, <3>2, <4>1, <4>2 DEF SplitAt
        <4>4. FreePair(chunk, x)
          BY <3>1, <3>2, <4>1, <4>3 DEF FreePair, IsFree
        <4> QED BY <1>0, <4>1, <4>4
      <3> QED BY <3>3, <3>4
    <2>4. Rooted'
      BY <1>0, <2>2, TakenChunk DEF Rooted, MInv
    <2>5. /\ \A x \in DOMAIN chunk :
               x \in DOMAIN chunk' /\ (x # cursor => /\ chunk'[x].allocated = chunk[x].allocated
                                                     /\ chunk'[x].size = chunk[x].size)
          /\ \A x \in DOMAIN chunk' : x \in DOMAIN chunk \/ ~chunk'[x].allocated
          /\ chunk'[cursor].allocated /\ request <= chunk'[cursor].size
      BY <2>2, TakenChunk DEF SplitAt
    <2>6. /\ \A p \in DOMAIN held' : /\ p \in Nat /\ held'[p] \in Nat /\ p - Header \in DOMAIN chunk'
                                     /\ chunk'[p - Header].allocated
                                     /\ held'[p] <= chunk'[p - Header].size
          /\ \A x \in DOMAIN chunk' : chunk'[x].allocated => x + Header \in DOMAIN held'
      BY <2>5, TakeHeld
    <2> QED BY <1>0, <2>2, <2>3, <2>4, <2>6, ChunksOKAgain
  <1>2. CASE ~RoomToSplit(cursor, request)
    <2>1. chunk' = [chunk EXCEPT ![cursor] = [chunk[cursor] EXCEPT !.allocated = TRUE]]
      BY <1>2 DEF Take
    <2>2. /\ DOMAIN chunk' = DOMAIN chunk
          /\ chunk'[cursor] = [chunk[cursor] EXCEPT !.allocated = TRUE]
          /\ \A x \in DOMAIN chunk : x # cursor => chunk'[x] = chunk[x]
      BY <2>1, TakenChunk
    <2>3. chunk[cursor] \in Chunk
      BY <1>0, TakenChunk DEF Headers
    <2>4. /\ chunk'[cursor] \in Chunk /\ chunk'[cursor].allocated
          /\ chunk'[cursor].next = chunk[cursor].next /\ chunk'[cursor].prev = chunk[cursor].prev
          /\ chunk'[cursor].size = chunk[cursor].size
      BY <2>2, <2>3 DEF Chunk
    <2>5. \A x \in DOMAIN chunk : /\ chunk'[x].next = chunk[x].next
                                  /\ chunk'[x].prev = chunk[x].prev
                                  /\ chunk'[x].size = chunk[x].size
                                  /\ chunk'[x].allocated => chunk[x].allocated \/ x = cursor
                                  /\ ~chunk'[x].allocated => ~chunk[x].allocated
      BY <2>2, <2>4
    <2>6. Headers(chunk')
      BY <1>0, <2>2, <2>4 DEF Headers
    <2>7. Tiled(chunk')
      BY <1>0, <2>2, <2>5 DEF Tiled
    <2>8. ASSUME NEW x \in DOMAIN chunk', FreePair(chunk', x)
          PROVE  FALSE
      <3>1. /\ x \in DOMAIN chunk /\ x # null /\ ~chunk[x].allocated /\ chunk[x].next # null
            /\ ~chunk'[chunk[x].next].allocated
        BY <2>2, <2>5, <2>8 DEF FreePair, IsFree
      <3>2. chunk[x].next \in DOMAIN chunk
        BY <1>0, <3>1, Neighbours
      <3>3. FreePair(chunk, x)
        BY <2>5, <3>1, <3>2 DEF FreePair, IsFree
      <3> QED BY <1>0, <3>1, <3>3
    <2>9. Rooted'
      BY <1>0, <2>2 DEF Rooted, MInv
    <2>10. request <= chunk'[cursor].size
      <3>1. chunk[cursor].size \in Nat
        BY <1>0, TakenChunk, Neighbours
      <3> QED BY <2>4, <3>1, TakenChunk
    <2>11. /\ \A p \in DOMAIN held' : /\ p \in Nat /\ held'[p] \in Nat /\ p - Header \in DOMAIN chunk'
                                      /\ chunk'[p - Header].allocated
                                      /\ held'[p] <= chunk'[p - Header].size
           /\ \A x \in DOMAIN chunk' : chunk'[x].allocated => x + Header \in DOMAIN held'
      BY <2>2, <2>4, <2>10, TakeHeld
    <2> QED BY <1>0, <2>6, <2>7, <2>8, <2>9, <2>11, ChunksOKAgain
  <1> QED BY <1>1, <1>2

LEMMA FreeKeeps ==
  ASSUME MInv, NEW p \in DOMAIN held, Free(p)
  PROVE  MInv'
  <1> DEFINE a     == p - Header
             front == IF IsFree(chunk, chunk[a].prev) THEN chunk[a].prev ELSE a
             c0    == MarkedFree(a)
             c1    == MergedBack(c0, a)
  <1>0. /\ first \in {null, Start} /\ Headers(chunk) /\ Tiled(chunk)
        /\ \A x \in DOMAIN chunk : ~FreePair(chunk, x)
        /\ a \in DOMAIN chunk /\ chunk[a].allocated
    BY ChunksOK
  <1>1. /\ first' = first /\ request' = nothing /\ cursor' = null
        /\ chunk' = MergedOn(c1, front) /\ held' = [q \in DOMAIN held \ {p} |-> held[q]]
    BY DEF Free, MInv, WalkSoFar
  <1> HIDE DEF a
  <1>2. /\ DOMAIN c0 = DOMAIN chunk
        /\ c0[a] = [chunk[a] EXCEPT !.allocated = FALSE]
        /\ \A x \in DOMAIN chunk : x # a => c0[x] = chunk[x]
    BY <1>0 DEF MarkedFree
  <1> HIDE DEF c0
  <1>3. /\ c0[a] \in Chunk /\ ~c0[a].allocated /\ c0[a].next = chunk[a].next
        /\ c0[a].prev = chunk[a].prev /\ c0[a].size = chunk[a].size
    <2>1. chunk[a] \in Chunk
      BY <1>0 DEF Headers
    <2> QED BY <1>2, <2>1 DEF Chunk
  <1>4. \A x \in DOMAIN chunk : /\ c0[x].next = chunk[x].next /\ c0[x].prev = chunk[x].prev
                                /\ c0[x].size = chunk[x].size
                                /\ x # a => c0[x].allocated = chunk[x].allocated
    BY <1>2, <1>3
  <1>5. Headers(c0)
    BY <1>0, <1>2, <1>3 DEF Headers
  <1>6. Tiled(c0)
    BY <1>0, <1>2, <1>4 DEF Tiled
  <1>7. \A x \in DOMAIN c0 : FreePair(c0, x) => x = a \/ c0[x].next = a
    <2> SUFFICES ASSUME NEW x \in DOMAIN c0, FreePair(c0, x), x # a, c0[x].next # a
                 PROVE  FALSE
      OBVIOUS
    <2>1. /\ x \in DOMAIN chunk /\ x # null /\ ~chunk[x].allocated
          /\ c0[x].next = chunk[x].next /\ chunk[x].next # null /\ ~c0[chunk[x].next].allocated
      BY <1>2, <1>4 DEF FreePair, IsFree
    <2>2. chunk[x].next \in DOMAIN chunk /\ ~chunk[chunk[x].next].allocated
      BY <1>0, <1>4, <2>1, Neighbours
    <2>3. FreePair(chunk, x)
      BY <2>1, <2>2 DEF FreePair, IsFree
    <2> QED BY <1>0, <2>1, <2>3
  <1>8. front = IF IsFree(c0, c0[a].prev) THEN c0[a].prev ELSE a
    <2>1. c0[a].prev # null => c0[a].prev \in DOMAIN chunk /\ c0[a].prev # a
      BY <1>0, <1>3, Neighbours
    <2>2. IsFree(c0, c0[a].prev) <=> IsFree(chunk, chunk[a].prev)
      BY <1>3, <1>4, <2>1 DEF IsFree
    <2> QED BY <1>3, <2>2
  <1> HIDE DEF front
  <1>9. /\ Headers(c1) /\ Tiled(c1) /\ Merged(c0, c1) /\ front \in DOMAIN c1 /\ ~c1[front].allocated
        /\ \A x \in DOMAIN c1 : FreePair(c1, x) => x = front
    <2>1. MergedInto(c0, c1, front)
      <3> DEFINE d == c1
      <3>1. d = MergedBack(c0, a) /\ a \in DOMAIN c0
        BY <1>0, <1>2
      <3> HIDE DEF d
      <3>2. MergedInto(c0, d, front)
        BY <1>0, <1>3, <1>5, <1>6, <1>7, <1>8, <3>1, MergedBackKeeps
      <3> QED BY <3>2 DEF d
    <2> QED BY <2>1 DEF MergedInto
  <1> HIDE DEF c1
  <1>10. /\ Headers(chunk') /\ Tiled(chunk') /\ Merged(c1, chunk') /\ front \in DOMAIN chunk'
         /\ \A x \in DOMAIN chunk' : ~FreePair(chunk', x)
    BY <1>0, <1>1, <1>9, MergedOnKeeps
  <1>11. Merged(c0, chunk')
    <2>1. \A x \in DOMAIN chunk' : c0[x].size <= chunk'[x].size
      <3> TAKE x \in DOMAIN chunk'
      <3>1. x \in DOMAIN c1 /\ x \in DOMAIN c0
        BY <1>9, <1>10 DEF Merged
      <3>2. c0[x].size <= c1[x].size /\ c1[x].size <= chunk'[x].size
        BY <1>9, <1>10, <3>1 DEF Merged
      <3>3. c0[x].size \in Nat /\ c1[x].size \in Nat /\ chunk'[x].size \in Nat
        BY <1>5, <1>9, <1>10, <3>1 DEF Headers, Chunk
      <3> QED BY <3>2, <3>3
    <2> QED BY <1>9, <1>10, <2>1 DEF Merged
  <1>12. Rooted'
    BY <1>0, <1>1 DEF MInv, Rooted
  <1>13. ASSUME NEW q \in DOMAIN held'
         PROVE  /\ q \in Nat /\ held'[q] \in Nat /\ q - Header \in DOMAIN chunk'
                /\ chunk'[q - Header].allocated
                /\ held'[q] <= chunk'[q - Header].size
    <2>1. q \in DOMAIN held /\ q # p /\ held'[q] = held[q]
      BY <1>1, <1>13
    <2>2. /\ q \in Nat /\ held[q] \in Nat /\ q - Header \in DOMAIN chunk
          /\ chunk[q - Header].allocated /\ held[q] <= chunk[q - Header].size
          /\ p \in Nat
      BY <2>1, ChunksOK
    <2>3. q - Header # a
      BY <2>1, <2>2, HeapFacts DEF a
    <2>4. q - Header \in DOMAIN c0 /\ c0[q - Header].allocated /\ held[q] <= c0[q - Header].size
      BY <1>2, <1>4, <2>2, <2>3
    <2>5. /\ q - Header \in DOMAIN chunk' /\ chunk'[q - Header].allocated
          /\ c0[q - Header].size <= chunk'[q - Header].size
      BY <1>11, <2>4 DEF Merged
    <2>6. c0[q - Header].size \in Nat /\ chunk'[q - Header].size \in Nat
      BY <1>5, <1>10, <2>4, <2>5 DEF Headers, Chunk
    <2> QED BY <2>1, <2>2, <2>4, <2>5, <2>6
  <1>14. ASSUME NEW x \in DOMAIN chunk', chunk'[x].allocated
         PROVE  x + Header \in DOMAIN held'
    <2>1. x \in DOMAIN c0 /\ c0[x].allocated
      BY <1>11, <1>14 DEF Merged
    <2>2. x \in DOMAIN chunk /\ x # a /\ chunk[x].allocated
      BY <1>2, <1>3, <1>4, <2>1
    <2>3. x + Header \in DOMAIN held
      BY <2>2, ChunksOK
    <2>4. x \in Nat /\ p \in Nat
      BY <1>0, <2>2, ChunksOK, Neighbours
    <2>5. x + Header # p
      BY <2>2, <2>4, HeapFacts DEF a
    <2> QED BY <1>1, <2>3, <2>5
  <1> QED BY <1>1, <1>10, <1>12, <1>13, <1>14, ChunksOKAgain

-----------------------------------------------------------------------------
\* The invariant holds of every heap, whatever is asked for and freed.
THEOREM HeapInvariance == Spec => []MInv
  <1>1. Init => MInv
    BY MInit
  <1>2. MInv /\ [Next]_vars => MInv'
    <2> SUFFICES ASSUME MInv, [Next]_vars
                 PROVE  MInv'
      OBVIOUS
    <2>1. ASSUME NEW n \in Requests, Malloc(n)
          PROVE  MInv'
      BY <2>1, MallocKeeps
    <2>2. CASE Pass
      BY <2>2, PassKeeps
    <2>3. CASE GiveUp
      BY <2>3, GiveUpKeeps
    <2>4. CASE Take
      BY <2>4, TakeKeeps
    <2>5. ASSUME NEW p \in DOMAIN held, Free(p)
          PROVE  MInv'
      BY <2>5, FreeKeeps
    <2>6. CASE UNCHANGED vars
      BY <2>6, StutterKeeps
    <2> QED BY <2>1, <2>2, <2>3, <2>4, <2>5, <2>6 DEF Next
  <1> QED BY <1>1, <1>2, PTL DEF Spec

\* The headers stay well formed: every field of a chunk keeps its type, every header
\* lies in the heap (the typed part of malloc and free).
THEOREM HeapTypeCorrect == Spec => []MTypeOK
  <1>1. MInv => MTypeOK
    BY DEF MInv
  <1> QED BY <1>1, HeapInvariance, PTL

\* The chunks tile the heap and both links of neighbours agree: malloc's split and
\* free's merges relink the chunk on the far side.
THEOREM ChunksStayLinked == Spec => []Linked
  <1>1. MInv => Linked
    BY DEF MInv
  <1> QED BY <1>1, HeapInvariance, PTL

\* free leaves no two free chunks side by side.
THEOREM ChunksStayCoalesced == Spec => []Coalesced
  <1>1. MInv => Coalesced
    BY DEF MInv
  <1> QED BY <1>1, HeapInvariance, PTL

\* The allocated chunks are those whose payload a caller of malloc holds.
THEOREM AllocatedIsHeld == Spec => []HeldIsAllocated
  <1>1. MInv => HeldIsAllocated
    BY DEF MInv
  <1> QED BY <1>1, HeapInvariance, PTL

\* A held block against the chunks: it ends before the next header.
LEMMA BlockInChunk ==
  ASSUME MInv, NEW p \in DOMAIN held
  PROVE  /\ p \in Nat /\ held[p] \in Nat /\ Start <= p /\ p + held[p] <= End
         /\ \A a \in DOMAIN chunk : a + Header <= p \/ p + held[p] <= a
  <1> DEFINE h == p - Header
  <1>1. /\ first \in {null, Start} /\ Headers(chunk) /\ Tiled(chunk)
        /\ p \in Nat /\ held[p] \in Nat /\ h \in DOMAIN chunk /\ held[p] <= chunk[h].size
    BY ChunksOK
  <1>2. h \in Nat /\ Start <= h /\ chunk[h].size \in Nat /\ p = h + Header
    BY <1>1, Neighbours, HeapFacts
  <1> HIDE DEF h
  <1>3. h + Header + chunk[h].size <= End
    <2>1. CASE chunk[h].next = null
      BY <1>1, <1>2, <2>1, HeapFacts DEF Tiled
    <2>2. CASE chunk[h].next # null
      <3>1. chunk[h].next = h + Header + chunk[h].size /\ chunk[h].next \in DOMAIN chunk
        BY <1>1, <2>2 DEF Tiled
      <3>2. chunk[h].next \in Nat /\ chunk[h].next + Header <= End
        BY <1>1, <3>1, Neighbours
      <3> QED BY <3>1, <3>2, HeapFacts
    <2> QED BY <2>1, <2>2
  <1>4. ASSUME NEW a \in DOMAIN chunk
        PROVE  a + Header <= p \/ p + held[p] <= a
    <2>1. a \in Nat
      BY <1>1, Neighbours
    <2>2. CASE a <= h
      BY <1>2, <2>1, <2>2, HeapFacts
    <2>3. CASE h < a
      <3>1. h + Header + chunk[h].size <= a
        BY <1>1, <2>3 DEF Tiled
      <3> QED BY <1>1, <1>2, <2>1, <3>1, HeapFacts
    <2> QED BY <1>2, <2>1, <2>2, <2>3
  <1> QED BY <1>1, <1>2, <1>3, <1>4, HeapFacts

LEMMA ApartFromInvariant ==
  ASSUME MInv
  PROVE  BlocksApart
  <1>1. ASSUME NEW p \in DOMAIN held, NEW q \in DOMAIN held, p < q
        PROVE  p + held[p] <= q
    <2>1. q - Header \in DOMAIN chunk
      BY ChunksOK
    <2>2. (q - Header) + Header <= p \/ p + held[p] <= q - Header
      BY <2>1, BlockInChunk
    <2>3. p \in Nat /\ q \in Nat /\ held[p] \in Nat
      BY BlockInChunk
    <2> QED BY <1>1, <2>2, <2>3, HeapFacts
  <1> QED BY <1>1, BlockInChunk DEF BlocksApart

\* No block handed out by malloc reaches a header of the list or another block.
THEOREM BlocksStayApart == Spec => []BlocksApart
  BY HeapInvariance, ApartFromInvariant, PTL

\* When everything has been freed, the merges have given back every header.
THEOREM HeapBecomesWhole == Spec => []WholeAgain
  <1>1. ASSUME MInv, first # null, DOMAIN held = {}
        PROVE  DOMAIN chunk = {first} /\ chunk[first].size = HeapSize - Header
    <2>1. /\ first = Start /\ Headers(chunk) /\ Tiled(chunk) /\ first \in DOMAIN chunk
          /\ \A x \in DOMAIN chunk : ~FreePair(chunk, x)
          /\ \A x \in DOMAIN chunk : ~chunk[x].allocated
      BY <1>1, ChunksOK DEF Tiled
    <2>2. chunk[first].next = null
      <3> SUFFICES ASSUME chunk[first].next # null
                   PROVE  FALSE
        OBVIOUS
      <3>1. chunk[first].next \in DOMAIN chunk
        BY <2>1, Neighbours
      <3>2. FreePair(chunk, first)
        BY <1>1, <2>1, <3>1 DEF FreePair, IsFree
      <3> QED BY <2>1, <3>2
    <2>3. first + Header + chunk[first].size = End
      BY <2>1, <2>2 DEF Tiled
    <2>4. chunk[first].size \in Nat
      BY <2>1, Neighbours
    <2>5. chunk[first].size = HeapSize - Header
      BY <2>1, <2>3, <2>4, HeapFacts DEF End
    <2>6. ASSUME NEW x \in DOMAIN chunk
          PROVE  x = first
      <3>1. x \in Nat /\ Start <= x /\ x + Header <= End
        BY <2>1, Neighbours
      <3>2. first < x => End <= x
        BY <2>1, <2>3 DEF Tiled
      <3> QED BY <2>1, <3>1, <3>2, HeapFacts
    <2> QED BY <2>1, <2>5, <2>6
  <1>2. MInv => WholeAgain
    BY <1>1 DEF WholeAgain
  <1> QED BY <1>2, HeapInvariance, PTL

\* malloc returns 0 only when no free chunk is larger than the request.
THEOREM RefusalIsJust == Spec => RefusesOnlyWhenFull
  <1>1. MInv /\ [Next]_vars =>
          [GiveUp => \A a \in DOMAIN chunk : chunk[a].allocated \/ chunk[a].size <= request]_vars
    <2> SUFFICES ASSUME MInv, GiveUp, NEW a \in DOMAIN chunk
                 PROVE  chunk[a].allocated \/ chunk[a].size <= request
      OBVIOUS
    <2>1. ~Fits(a)
      BY DEF GiveUp, MInv, WalkSoFar
    <2>2. chunk[a].size \in Nat /\ request \in Nat
      BY ChunksOK DEF Headers, Chunk, GiveUp, MInv, MTypeOK
    <2> QED BY <2>1, <2>2 DEF Fits
  <1> QED BY <1>1, HeapInvariance, PTL DEF Spec, RefusesOnlyWhenFull

-----------------------------------------------------------------------------
\* Every step of the chunk list is a grant, a release or nothing for the allocator.
LEMMA HeapStepSimulates ==
  ASSUME MInv, [Next]_vars
  PROVE  [Abstract!ANext]_held
  <1>1. ASSUME NEW n \in Requests, Malloc(n)
        PROVE  held' = held
    BY <1>1 DEF Malloc
  <1>2. CASE Pass \/ GiveUp
    BY <1>2 DEF Pass, GiveUp
  <1>3. CASE Take
    <2> DEFINE p == cursor + Header
    <2>1. /\ cursor \in DOMAIN chunk /\ cursor \in Nat /\ request \in Nat
          /\ chunk[cursor].size > request /\ ~chunk[cursor].allocated
          /\ p \notin DOMAIN held /\ p - Header = cursor
          /\ held' = [q \in DOMAIN held \cup {p} |-> IF q = p THEN request ELSE held[q]]
      BY <1>3, TakenChunk DEF Take
    <2>2. first \in {null, Start} /\ Headers(chunk) /\ Tiled(chunk)
      BY ChunksOK
    <2>3. Start <= cursor /\ chunk[cursor].size \in Nat
      BY <2>1, <2>2, Neighbours
    <2>4. cursor + Header + chunk[cursor].size <= End
      <3>1. CASE chunk[cursor].next = null
        BY <2>1, <2>2, <2>3, <3>1, HeapFacts DEF Tiled
      <3>2. CASE chunk[cursor].next # null
        <4>1. /\ chunk[cursor].next = cursor + Header + chunk[cursor].size
              /\ chunk[cursor].next \in DOMAIN chunk
          BY <2>1, <2>2, <3>2 DEF Tiled
        <4>2. chunk[cursor].next \in Nat /\ chunk[cursor].next + Header <= End
          BY <2>2, <4>1, Neighbours
        <4> QED BY <4>1, <4>2, HeapFacts
      <3> QED BY <3>1, <3>2
    <2>5. p \in Start .. End /\ request \in 0 .. End - Start /\ Start <= p /\ p + request <= End
      BY <2>1, <2>3, <2>4, HeapFacts
    <2>6. ASSUME NEW q \in DOMAIN held
          PROVE  q + held[q] <= p \/ p + request <= q
      <3>1. /\ q \in Nat /\ held[q] \in Nat /\ q - Header \in DOMAIN chunk
            /\ cursor + Header <= q \/ q + held[q] <= cursor
        BY <2>1, ChunksOK, BlockInChunk
      <3>2. q - Header # cursor
        BY <2>1, ChunksOK
      <3>3. CASE q - Header < cursor
        BY <2>1, <3>1, <3>3, HeapFacts
      <3>4. CASE cursor < q - Header
        <4>1. cursor + Header + chunk[cursor].size <= q - Header
          BY <2>1, <2>2, <3>1, <3>4 DEF Tiled
        <4> QED BY <2>1, <2>3, <3>1, <4>1, HeapFacts
      <3> QED BY <2>1, <3>1, <3>2, <3>3, <3>4, HeapFacts
    <2>7. Abstract!AGrant(p, request)
      BY <2>1, <2>5, <2>6 DEF Abstract!AGrant
    <2> QED BY <2>5, <2>7 DEF Abstract!ANext
  <1>4. ASSUME NEW p \in DOMAIN held, Free(p)
        PROVE  Abstract!ANext
    <2>1. Abstract!AFree(p)
      BY <1>4 DEF Free, Abstract!AFree
    <2> QED BY <2>1 DEF Abstract!ANext
  <1>5. CASE UNCHANGED vars
    BY <1>5 DEF vars
  <1> QED BY <1>1, <1>2, <1>3, <1>4, <1>5 DEF Next

\* The chunk list implements an allocator of disjoint blocks.
THEOREM HeapImplementsAllocator == Spec => ImplementsAllocator
  <1>1. Init => Abstract!AInit
    BY DEF Init, Abstract!AInit
  <1>2. MInv /\ [Next]_vars => [Abstract!ANext]_held
    BY HeapStepSimulates
  <1> QED BY <1>1, <1>2, HeapInvariance, PTL DEF Spec, ImplementsAllocator, Abstract!ASpec

=============================================================================
