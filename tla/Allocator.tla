----------------------------- MODULE Allocator -----------------------------
(***************************************************************************)
(* What malloc and free promise, without headers, lists or placement: a    *)
(* block is granted where nobody holds a byte of it, and given back once.  *)
(***************************************************************************)
EXTENDS Integers

CONSTANTS Lo, Hi               \* the heap is the addresses Lo .. Hi - 1

VARIABLE granted               \* the size of each block granted, by its address

AInit == granted = [p \in {} |-> 0]

AGrant(p, n) ==
  /\ p \notin DOMAIN granted
  /\ Lo <= p /\ p + n <= Hi
  /\ \A q \in DOMAIN granted : q + granted[q] <= p \/ p + n <= q
  /\ granted' = [q \in DOMAIN granted \cup {p} |-> IF q = p THEN n ELSE granted[q]]

AFree(p) == p \in DOMAIN granted /\ granted' = [q \in DOMAIN granted \ {p} |-> granted[q]]

ANext ==
  \/ \E p \in Lo .. Hi, n \in 0 .. Hi - Lo : AGrant(p, n)
  \/ \E p \in DOMAIN granted : AFree(p)

ASpec == AInit /\ [][ANext]_granted

=============================================================================
