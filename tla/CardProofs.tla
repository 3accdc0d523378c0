------------------------------ MODULE CardProofs ------------------------------
(***************************************************************************)
(* What holds of the rings the driver shares with the card for every size  *)
(* of the rings, number of tasks that send and set of frames.              *)
(***************************************************************************)
EXTENDS Card, TLAPS

Frames == Good \cup Bad
Causes == {"RINT", "TINT", "MISS"}
Places == {"out", "took", "advanced"}

CTypeOK ==
  /\ rx \in [Slots -> Frames \cup {Free}] /\ tx \in [Slots -> Good \cup {Free}]
  /\ currentRecvBuffer \in Slots /\ currentSendBuffer \in Slots
  /\ cardRx \in Slots /\ cardTx \in Slots
  /\ cause \subseteq Causes /\ temp \subseteq Causes
  /\ pc \in {"user", "receive", "acknowledge"}
  /\ sending \in [Tasks -> [at : Places, slot : Slots \cup {NoSlot}]]
  /\ \A t \in Tasks : sending[t].at # "out" => sending[t].slot \in Slots
  /\ waiting \in Seq(Frames) /\ order \in Seq(Slots)
  /\ slipped \in BOOLEAN /\ disturbed \in BOOLEAN

\* The slot i places behind s.
Place(s, i) == (s + i) % RingSize

\* The card is as far ahead of the driver as frames wait to be looked at.
Received ==
  /\ Len(waiting) <= RingSize
  /\ cardRx = Place(currentRecvBuffer, Len(waiting))
  /\ ReceivedInOrder

\* The Sends under way have descriptors of their own, still to be filled, and Send is as
\* far ahead of the card as descriptors are taken, but for one that has not advanced.
Sends ==
  ~disturbed =>
    /\ Len(order) <= RingSize
    /\ \A t \in Tasks : sending[t].at # "out" =>
         /\ tx[sending[t].slot] = Free
         /\ \E i \in 1 .. Len(order) : order[i] = sending[t].slot
    /\ \A t, u \in Tasks : t # u /\ sending[t].at # "out" /\ sending[u].at # "out" =>
         sending[t].slot # sending[u].slot
    /\ InTurn = {} => currentSendBuffer = Place(cardTx, Len(order))
    /\ \A t \in InTurn : /\ currentSendBuffer = sending[t].slot
                         /\ order # <<>> /\ order[Len(order)] = sending[t].slot

\* What the handler has read is still set, and at the acknowledgement of a RINT no frame
\* waits but one that slipped in.
Handling ==
  /\ temp \subseteq cause
  /\ pc = "user" => temp = {}
  /\ pc = "receive" => "RINT" \in temp
  /\ pc = "acknowledge" /\ "RINT" \in temp /\ ~slipped => waiting = <<>>

\* The inductive invariant.
CInv == CTypeOK /\ Received /\ SentInOrder /\ Sends /\ Handling /\ NoFrameForgotten

-----------------------------------------------------------------------------
(* Places in a ring.                                                       *)

\* Going at most once around, the remainder is one subtraction.
LEMMA PlaceIs ==
  ASSUME NEW s \in Slots, NEW i \in 0 .. RingSize
  PROVE  Place(s, i) = (IF s + i < RingSize THEN s + i ELSE s + i - RingSize)
  BY CardAssumption, SMT DEF Place, Slots

LEMMA PlaceInRing ==
  ASSUME NEW s \in Slots, NEW i \in 0 .. RingSize
  PROVE  Place(s, i) \in Slots
  BY CardAssumption, PlaceIs DEF Slots

LEMMA PlaceNext ==
  ASSUME NEW s \in Slots, NEW i \in 0 .. RingSize - 1
  PROVE  /\ After(Place(s, i)) = Place(s, i + 1)
         /\ Place(After(s), i) = Place(s, i + 1)
  <1>1. After(s) = Place(s, 1) /\ After(Place(s, i)) = Place(Place(s, i), 1)
    BY DEF After, Place
  <1>2. Place(s, 1) \in Slots /\ Place(s, i) \in Slots /\ i + 1 \in 0 .. RingSize
    BY CardAssumption, PlaceInRing
  <1>3. /\ Place(s, 1) = (IF s + 1 < RingSize THEN s + 1 ELSE s + 1 - RingSize)
        /\ Place(s, i) = (IF s + i < RingSize THEN s + i ELSE s + i - RingSize)
        /\ Place(s, i + 1) =
             (IF s + (i + 1) < RingSize THEN s + (i + 1) ELSE s + (i + 1) - RingSize)
    BY <1>2, CardAssumption, PlaceIs
  <1> DEFINE c == Place(s, i)
             d == Place(s, 1)
  <1>4. /\ Place(c, 1) = (IF c + 1 < RingSize THEN c + 1 ELSE c + 1 - RingSize)
        /\ Place(d, i) = (IF d + i < RingSize THEN d + i ELSE d + i - RingSize)
    <2> HIDE DEF c, d
    <2>1. c \in Slots /\ d \in Slots /\ 1 \in 0 .. RingSize /\ i \in 0 .. RingSize
      BY <1>2, CardAssumption DEF c, d
    <2> QED BY <2>1, PlaceIs
  <1> QED BY <1>1, <1>2, <1>3, <1>4, CardAssumption DEF Slots

LEMMA PlaceAround ==
  ASSUME NEW s \in Slots
  PROVE  Place(s, 0) = s /\ Place(s, RingSize) = s
  BY CardAssumption, PlaceIs DEF Slots

\* Less than a turn apart, two places are different slots.
LEMMA PlaceApart ==
  ASSUME NEW s \in Slots, NEW i \in 0 .. RingSize - 1, NEW j \in 0 .. RingSize - 1,
         Place(s, i) = Place(s, j)
  PROVE  i = j
  BY CardAssumption, PlaceIs DEF Slots

\* The row w lies in ring r from slot p on.
Lies(r, p, w) ==
  /\ \A i \in 1 .. Len(w) : r[Place(p, i - 1)] = w[i]
  /\ \A s \in Slots : r[s] # Free => \E i \in 1 .. Len(w) : s = Place(p, i - 1)

LEMMA LiesIs ==
  ASSUME NEW r, NEW p \in Slots, NEW w \in Seq(Frames)
  PROVE  Lies(r, p, w) <=>
    /\ \A i \in 1 .. Len(w) : r[(p + i - 1) % RingSize] = w[i]
    /\ \A s \in Slots : r[s] # Free => \E i \in 1 .. Len(w) : s = (p + i - 1) % RingSize
  <1>1. \A i \in 1 .. Len(w) : (p + i - 1) % RingSize = Place(p, i - 1)
    <2> TAKE i \in 1 .. Len(w)
    <2>1. p + i - 1 = p + (i - 1)
      BY CardAssumption DEF Slots
    <2> QED BY <2>1 DEF Place
  <1> QED BY <1>1 DEF Lies

\* The row w counts the slots of the ring from p on.
Counts(p, w) == \A i \in 1 .. Len(w) : w[i] = Place(p, i - 1)

LEMMA CountsIs ==
  ASSUME NEW p \in Slots, NEW w \in Seq(Slots)
  PROVE  Counts(p, w) <=> \A i \in 1 .. Len(w) : w[i] = (p + i - 1) % RingSize
  <1>1. \A i \in 1 .. Len(w) : (p + i - 1) % RingSize = Place(p, i - 1)
    <2> TAKE i \in 1 .. Len(w)
    <2>1. p + i - 1 = p + (i - 1)
      BY CardAssumption DEF Slots
    <2> QED BY <2>1 DEF Place
  <1> QED BY <1>1 DEF Counts

-----------------------------------------------------------------------------
(* What a step that leaves one side alone keeps.                           *)

LEMMA ReceivedKept ==
  ASSUME Received, UNCHANGED <<rx, cardRx, currentRecvBuffer, waiting>>
  PROVE  Received'
  BY DEF Received, ReceivedInOrder, Place

LEMMA SendsKept ==
  ASSUME SentInOrder, Sends, UNCHANGED <<tx, cardTx, currentSendBuffer, sending, order, disturbed>>
  PROVE  SentInOrder' /\ Sends'
  BY DEF SentInOrder, Sends, InTurn, Place

-----------------------------------------------------------------------------
(* The steps of the card.                                                  *)

LEMMA ArriveKeeps ==
  ASSUME CInv, NEW f \in Frames, Arrive(f)
  PROVE  CInv'
  <1> USE DEF Frames
  <1>0. CTypeOK /\ Received /\ SentInOrder /\ Sends /\ Handling /\ NoFrameForgotten
    BY DEF CInv
  <1>1. CTypeOK'
    BY <1>0, CardAssumption DEF CTypeOK, Arrive, driver, Causes, After, Slots
  <1> DEFINE n == Len(waiting)
  <1>2. /\ currentRecvBuffer \in Slots /\ waiting \in Seq(Frames) /\ n \in Nat
        /\ currentRecvBuffer' \in Slots /\ waiting' \in Seq(Frames)
    BY <1>0, <1>1 DEF CTypeOK
  <1>3. /\ \A i \in 1 .. n : rx[Place(currentRecvBuffer, i - 1)] = waiting[i]
        /\ \A s \in Slots : rx[s] # Free =>
             \E i \in 1 .. n : s = Place(currentRecvBuffer, i - 1)
        /\ n <= RingSize /\ cardRx = Place(currentRecvBuffer, n)
    <2>1. Lies(rx, currentRecvBuffer, waiting)
      BY <1>0, <1>2, LiesIs DEF Received, ReceivedInOrder
    <2> QED BY <1>0, <2>1 DEF Received, Lies
  <1>4. n < RingSize
    <2> SUFFICES ASSUME n = RingSize PROVE FALSE
      BY <1>2, <1>3, CardAssumption
    <2>1. rx[Place(currentRecvBuffer, 0)] = waiting[1]
      BY <1>3, CardAssumption
    <2>2. waiting[1] \in Frames
      BY <1>2, CardAssumption
    <2> QED BY <1>2, <1>3, <2>1, <2>2, PlaceAround, CardAssumption DEF Arrive
  <1>5. /\ currentRecvBuffer' = currentRecvBuffer /\ cardRx' = After(cardRx)
        /\ waiting' = Append(waiting, f) /\ rx' = [rx EXCEPT ![cardRx] = f]
    BY DEF Arrive, driver
  <1>6. /\ Len(waiting') = n + 1 /\ waiting'[n + 1] = f
        /\ \A i \in 1 .. n : waiting'[i] = waiting[i]
    BY <1>2, <1>5
  <1>7. /\ cardRx \in Slots /\ rx \in [Slots -> Frames \cup {Free}]
        /\ \A s \in Slots : rx'[s] = IF s = cardRx THEN f ELSE rx[s]
    BY <1>0, <1>5 DEF CTypeOK
  <1> HIDE DEF n
  <1>8. cardRx' = Place(currentRecvBuffer', n + 1)
    BY <1>2, <1>3, <1>4, <1>5, PlaceNext, CardAssumption
  <1>9. \A i \in 1 .. n : Place(currentRecvBuffer, i - 1) \in Slots
                          /\ Place(currentRecvBuffer, i - 1) # cardRx
    <2> TAKE i \in 1 .. n
    <2>1. i - 1 \in 0 .. RingSize - 1 /\ n \in 0 .. RingSize - 1 /\ i - 1 # n /\ i - 1 \in 0 .. RingSize
      BY <1>2, <1>4, CardAssumption
    <2> QED BY <1>2, <1>3, <2>1, PlaceApart, PlaceInRing
  <1>10. \A i \in 1 .. n + 1 : rx'[Place(currentRecvBuffer', i - 1)] = waiting'[i]
    <2> TAKE i \in 1 .. n + 1
    <2>1. CASE i = n + 1
      <3>1. i - 1 = n
        BY <1>2, <2>1
      <3> QED BY <1>3, <1>5, <1>6, <1>7, <2>1, <3>1
    <2>2. CASE i \in 1 .. n
      BY <1>3, <1>5, <1>6, <1>7, <1>9, <2>2
    <2> QED BY <1>2, <2>1, <2>2
  <1>11. \A s \in Slots : rx'[s] # Free =>
           \E i \in 1 .. n + 1 : s = Place(currentRecvBuffer', i - 1)
    <2> TAKE s \in Slots
    <2> HAVE rx'[s] # Free
    <2>1. CASE s = cardRx
      <3>1. n + 1 \in 1 .. n + 1 /\ (n + 1) - 1 = n
        BY <1>2
      <3> QED BY <1>3, <1>5, <2>1, <3>1
    <2>2. CASE s # cardRx
      <3>1. PICK i \in 1 .. n : s = Place(currentRecvBuffer, i - 1)
        BY <1>3, <1>7, <2>2
      <3> QED BY <1>2, <1>5, <3>1
    <2> QED BY <2>1, <2>2
  <1>12. Received'
    <2>1. Lies(rx', currentRecvBuffer', waiting')
      BY <1>6, <1>10, <1>11 DEF Lies
    <2>2. ReceivedInOrder'
      BY <1>2, <2>1, LiesIs DEF ReceivedInOrder
    <2> QED BY <1>2, <1>4, <1>6, <1>8, <2>2, CardAssumption DEF Received
  <1>13. SentInOrder' /\ Sends'
    BY <1>0, SendsKept DEF Arrive, driver
  <1>14. Handling' /\ NoFrameForgotten'
    BY <1>0, <1>2 DEF Handling, NoFrameForgotten, Arrive, driver
  <1> QED BY <1>1, <1>12, <1>13, <1>14 DEF CInv

LEMMA MissKeeps ==
  ASSUME CInv, Miss
  PROVE  CInv'
  <1>0. CTypeOK /\ Received /\ SentInOrder /\ Sends /\ Handling /\ NoFrameForgotten
    BY DEF CInv
  <1>1. CTypeOK'
    BY <1>0 DEF CTypeOK, Miss, driver, ghosts, Causes
  <1>2. Received' /\ SentInOrder' /\ Sends'
    BY <1>0, ReceivedKept, SendsKept DEF Miss, driver, ghosts
  <1>3. Handling' /\ NoFrameForgotten'
    BY <1>0 DEF Handling, NoFrameForgotten, Miss, driver, ghosts
  <1> QED BY <1>1, <1>2, <1>3 DEF CInv

\* While nothing has disturbed them, the taken descriptors lie from the card's place on.
LEMMA SentFacts ==
  ASSUME CTypeOK, SentInOrder, Sends, ~disturbed
  PROVE  /\ order \in Seq(Slots) /\ Len(order) \in 0 .. RingSize /\ cardTx \in Slots
         /\ Counts(cardTx, order)
         /\ \A s \in Slots : tx[s] # Free => \E i \in 1 .. Len(order) : s = order[i]
         /\ \A i \in 1 .. Len(order) : tx[order[i]] # Free
              \/ \E t \in Tasks : sending[t].at # "out" /\ sending[t].slot = order[i]
  <1>1. order \in Seq(Slots) /\ Len(order) \in Nat /\ cardTx \in Slots
    BY DEF CTypeOK
  <1>2. Len(order) \in 0 .. RingSize
    BY <1>1, CardAssumption DEF Sends
  <1>3. Counts(cardTx, order)
    BY <1>1, CountsIs DEF SentInOrder
  <1> QED BY <1>1, <1>2, <1>3 DEF SentInOrder

LEMMA TransmitKeeps ==
  ASSUME CInv, Transmit
  PROVE  CInv'
  <1>0. CTypeOK /\ Received /\ SentInOrder /\ Sends /\ Handling /\ NoFrameForgotten
    BY DEF CInv
  <1>1. /\ tx' = [tx EXCEPT ![cardTx] = Free] /\ cardTx' = After(cardTx) /\ tx[cardTx] # Free
        /\ sending' = sending /\ disturbed' = disturbed /\ currentSendBuffer' = currentSendBuffer
        /\ order' = IF disturbed THEN order ELSE Tail(order)
        /\ tx \in [Slots -> Good \cup {Free}] /\ cardTx \in Slots
    BY <1>0 DEF Transmit, driver, CTypeOK
  <1>2. ~disturbed => order # <<>>
    <2> HAVE ~disturbed
    <2> QED BY <1>0, <1>1, SentFacts
  <1>3. CTypeOK'
    <2>1. order' \in Seq(Slots)
      BY <1>0, <1>1, <1>2 DEF CTypeOK
    <2>2. cardTx' \in Slots
      BY <1>1, CardAssumption DEF After, Slots
    <2>3. tx' \in [Slots -> Good \cup {Free}]
      BY <1>1
    <2> QED BY <1>0, <1>1, <2>1, <2>2, <2>3 DEF CTypeOK, Transmit, driver, Causes
  <1>4. Received' /\ Handling' /\ NoFrameForgotten'
    BY <1>0, ReceivedKept DEF Transmit, driver, Handling, NoFrameForgotten
  <1>5. ASSUME ~disturbed'
        PROVE  SentInOrder' /\ Sends'
    <2> DEFINE n == Len(order)
    <2>1. ~disturbed
      BY <1>1, <1>5
    <2>2. /\ order \in Seq(Slots) /\ n \in 1 .. RingSize
          /\ \A i \in 1 .. n : order[i] = Place(cardTx, i - 1)
          /\ \A s \in Slots : tx[s] # Free => \E i \in 1 .. n : s = order[i]
          /\ \A i \in 1 .. n : tx[order[i]] # Free
               \/ \E t \in Tasks : sending[t].at # "out" /\ sending[t].slot = order[i]
      BY <1>0, <1>2, <2>1, SentFacts DEF Counts
    <2>3. order' = Tail(order) /\ order' \in Seq(Slots) /\ cardTx' \in Slots
      BY <1>1, <1>3, <2>1 DEF CTypeOK
    <2>4. Len(order') = n - 1 /\ \A i \in 1 .. n - 1 : order'[i] = order[i + 1]
      BY <2>2, <2>3
    <2>5. order[1] = cardTx
      BY <1>1, <2>2, PlaceAround, CardAssumption
    <2> HIDE DEF n
    <2>6. \A i \in 1 .. n - 1 : order[i + 1] = Place(cardTx', i - 1) /\ order[i + 1] # cardTx
      <3> TAKE i \in 1 .. n - 1
      <3>1. /\ i + 1 \in 1 .. n /\ i - 1 \in 0 .. RingSize - 1 /\ (i - 1) + 1 = i /\ (i + 1) - 1 = i
            /\ i \in 0 .. RingSize - 1 /\ i # 0 /\ 0 \in 0 .. RingSize - 1
        BY <2>2, CardAssumption
      <3>2. order[i + 1] = Place(cardTx, i)
        BY <2>2, <3>1
      <3>3. Place(After(cardTx), i - 1) = Place(cardTx, i)
        BY <1>1, <3>1, PlaceNext
      <3>4. Place(cardTx, i) # Place(cardTx, 0)
        BY <1>1, <3>1, PlaceApart
      <3> QED BY <1>1, <3>2, <3>3, <3>4, PlaceAround
    <2>7. Counts(cardTx', order')
      BY <2>4, <2>6 DEF Counts
    <2>8. \A s \in Slots : tx'[s] # Free => \E i \in 1 .. n - 1 : s = order'[i]
      <3> TAKE s \in Slots
      <3> HAVE tx'[s] # Free
      <3>1. s # cardTx /\ tx[s] # Free
        BY <1>1
      <3>2. PICK i \in 1 .. n : s = order[i]
        BY <2>2, <3>1
      <3>3. i - 1 \in 1 .. n - 1 /\ (i - 1) + 1 = i
        BY <2>2, <2>5, <3>1, <3>2
      <3> QED BY <2>4, <3>2, <3>3
    <2>9. \A i \in 1 .. n - 1 : tx'[order'[i]] # Free
            \/ \E t \in Tasks : sending'[t].at # "out" /\ sending'[t].slot = order'[i]
      <3> TAKE i \in 1 .. n - 1
      <3>1. i + 1 \in 1 .. n /\ order'[i] = order[i + 1] /\ order[i + 1] # cardTx
        BY <2>2, <2>4, <2>6, CardAssumption, SMTT(30)
      <3>2. order[i + 1] \in Slots
        BY <2>2, <3>1 DEF n
      <3>3. tx'[order[i + 1]] = tx[order[i + 1]]
        BY <1>1, <3>1, <3>2
      <3> QED BY <1>1, <2>2, <3>1, <3>3
    <2>10. SentInOrder'
      <3>1. \A i \in 1 .. Len(order') : order'[i] = (cardTx' + i - 1) % RingSize
        BY <2>3, <2>7, CountsIs
      <3> QED BY <2>4, <2>8, <2>9, <3>1 DEF SentInOrder
    <2>11. \A t \in Tasks : sending'[t].at # "out" =>
             /\ tx'[sending'[t].slot] = Free
             /\ \E i \in 1 .. Len(order') : order'[i] = sending'[t].slot
      <3> TAKE t \in Tasks
      <3> HAVE sending'[t].at # "out"
      <3>1. tx[sending[t].slot] = Free /\ sending[t].slot \in Slots
        BY <1>0, <1>1, <2>1 DEF Sends, CTypeOK
      <3>2. PICK i \in 1 .. n : order[i] = sending[t].slot
        BY <1>0, <1>1, <2>1 DEF Sends, n
      <3>3. sending[t].slot # cardTx
        BY <1>1, <3>1
      <3>4. i - 1 \in 1 .. n - 1 /\ (i - 1) + 1 = i
        BY <2>2, <2>5, <3>2, <3>3
      <3> QED BY <1>1, <2>4, <3>1, <3>2, <3>4
    <2>12. InTurn' = InTurn
      BY <1>1 DEF InTurn
    <2>13. InTurn' = {} => currentSendBuffer' = Place(cardTx', Len(order'))
      <3> HAVE InTurn' = {}
      <3>1. currentSendBuffer = Place(cardTx, n)
        BY <1>0, <2>1, <2>12 DEF Sends, n
      <3>2. n - 1 \in 0 .. RingSize - 1 /\ (n - 1) + 1 = n
        BY <2>2, CardAssumption
      <3>3. Place(After(cardTx), n - 1) = Place(cardTx, n)
        BY <1>1, <3>2, PlaceNext
      <3> QED BY <1>1, <2>4, <3>1, <3>3
    <2>14. \A t \in InTurn' : /\ currentSendBuffer' = sending'[t].slot
                              /\ order' # <<>> /\ order'[Len(order')] = sending'[t].slot
      <3> TAKE t \in InTurn'
      <3>1. /\ t \in Tasks /\ sending[t].at = "took" /\ currentSendBuffer = sending[t].slot
            /\ order[n] = sending[t].slot
        BY <1>0, <2>1, <2>12 DEF Sends, InTurn, n
      <3>2. tx[order[n]] = Free
        BY <1>0, <2>1, <3>1 DEF Sends
      <3>3. n # 1 /\ n - 1 \in 1 .. n - 1 /\ (n - 1) + 1 = n
        BY <1>1, <2>2, <2>5, <3>2
      <3> QED BY <1>1, <2>3, <2>4, <3>1, <3>3
    <2>15. Len(order') <= RingSize
      BY <2>2, <2>4, CardAssumption
    <2>16. \A t, u \in Tasks : t # u /\ sending'[t].at # "out" /\ sending'[u].at # "out" =>
             sending'[t].slot # sending'[u].slot
      BY <1>0, <1>1, <2>1 DEF Sends
    <2> QED BY <2>10, <2>11, <2>13, <2>14, <2>15, <2>16 DEF Sends
  <1>6. SentInOrder' /\ Sends'
    BY <1>5 DEF SentInOrder, Sends
  <1> QED BY <1>3, <1>4, <1>6 DEF CInv

-----------------------------------------------------------------------------
(* Send.                                                                   *)

\* What a Send takes in turn is the first free descriptor, which is nobody else's.
LEMMA TakesFirstFree ==
  ASSUME CTypeOK, SentInOrder, Sends, NEW r \in Slots, r = currentSendBuffer,
         Takes(r, InTurn), ~disturbed'
  PROVE  /\ ~disturbed /\ InTurn = {} /\ Len(order) \in 0 .. RingSize - 1
         /\ order' = Append(order, r) /\ order' \in Seq(Slots)
         /\ Len(order') = Len(order) + 1 /\ order'[Len(order) + 1] = r
         /\ \A i \in 1 .. Len(order) : order'[i] = order[i] /\ order[i] # r
         /\ Counts(cardTx, order')
         /\ tx[r] = Free
         /\ \A t \in Tasks : sending[t].at # "out" => sending[t].slot # r
  <1>1. ~disturbed /\ InTurn = {} /\ Len(order) # RingSize /\ order' = Append(order, r)
    BY DEF Takes
  <1> DEFINE n == Len(order)
  <1>2. /\ order \in Seq(Slots) /\ n \in 0 .. RingSize /\ cardTx \in Slots
        /\ \A i \in 1 .. n : order[i] = Place(cardTx, i - 1)
        /\ \A s \in Slots : tx[s] # Free => \E i \in 1 .. n : s = order[i]
    BY <1>1, SentFacts DEF Counts
  <1>3. n \in 0 .. RingSize - 1
    BY <1>1, <1>2, CardAssumption
  <1>4. /\ order' \in Seq(Slots) /\ Len(order') = n + 1 /\ order'[n + 1] = r
        /\ \A i \in 1 .. n : order'[i] = order[i]
    BY <1>1, <1>2
  <1>5. r = Place(cardTx, n)
    BY <1>1 DEF Sends
  <1> HIDE DEF n
  <1>6. \A i \in 1 .. n : order[i] # r
    <2> TAKE i \in 1 .. n
    <2>1. i - 1 \in 0 .. RingSize - 1 /\ i - 1 # n
      BY <1>3, CardAssumption
    <2> QED BY <1>2, <1>3, <1>5, <2>1, PlaceApart
  <1>7. Counts(cardTx, order')
    <2> SUFFICES ASSUME NEW i \in 1 .. n + 1 PROVE order'[i] = Place(cardTx, i - 1)
      BY <1>4 DEF Counts
    <2>1. CASE i = n + 1
      <3>1. i - 1 = n
        BY <1>3, <2>1, CardAssumption
      <3> QED BY <1>4, <1>5, <2>1, <3>1
    <2>2. CASE i \in 1 .. n
      BY <1>2, <1>4, <2>2
    <2> QED BY <1>3, <2>1, <2>2, CardAssumption
  <1>8. tx[r] = Free
    BY <1>2, <1>6
  <1>9. ASSUME NEW t \in Tasks, sending[t].at # "out" PROVE sending[t].slot # r
    <2>1. PICK i \in 1 .. n : order[i] = sending[t].slot
      BY <1>1, <1>9 DEF Sends, n
    <2> QED BY <1>6, <2>1
  <1> QED BY <1>1, <1>3, <1>4, <1>6, <1>7, <1>8, <1>9 DEF n

LEMMA TakesTyped ==
  ASSUME order \in Seq(Slots), disturbed \in BOOLEAN, NEW r \in Slots, NEW inside, Takes(r, inside)
  PROVE  order' \in Seq(Slots) /\ disturbed' \in BOOLEAN
  BY DEF Takes

LEMMA SendTakesKeeps ==
  ASSUME CInv, NEW t \in Tasks, SendTakes(t)
  PROVE  CInv'
  <1>0. CTypeOK /\ Received /\ SentInOrder /\ Sends /\ Handling /\ NoFrameForgotten
    BY DEF CInv
  <1> DEFINE r == currentSendBuffer
             taker == [at |-> "took", slot |-> r]
  <1>1. /\ sending[t] = NotSending /\ sending' = [sending EXCEPT ![t] = taker]
        /\ Takes(r, InTurn) /\ r \in Slots /\ order \in Seq(Slots) /\ disturbed \in BOOLEAN
        /\ tx' = tx /\ cardTx' = cardTx /\ currentSendBuffer' = r
        /\ sending \in [Tasks -> [at : Places, slot : Slots \cup {NoSlot}]]
    BY <1>0 DEF SendTakes, card, CTypeOK
  <1>2. /\ \A u \in Tasks : sending'[u] = IF u = t THEN taker ELSE sending[u]
        /\ taker \in [at : Places, slot : Slots \cup {NoSlot}] /\ taker.at = "took" /\ taker.slot = r
    BY <1>1 DEF Places
  <1>3. CTypeOK'
    <2>1. order' \in Seq(Slots) /\ disturbed' \in BOOLEAN
      BY <1>1, TakesTyped
    <2>2. /\ sending' \in [Tasks -> [at : Places, slot : Slots \cup {NoSlot}]]
          /\ \A u \in Tasks : sending'[u].at # "out" => sending'[u].slot \in Slots
      BY <1>0, <1>1, <1>2 DEF CTypeOK
    <2> QED BY <1>0, <2>1, <2>2 DEF CTypeOK, SendTakes, card
  <1>4. Received' /\ Handling' /\ NoFrameForgotten'
    BY <1>0, ReceivedKept DEF SendTakes, card, Handling, NoFrameForgotten
  <1>5. ASSUME ~disturbed'
        PROVE  SentInOrder' /\ Sends'
    <2> DEFINE n == Len(order)
    <2> HIDE DEF r, taker
    <2>1. /\ ~disturbed /\ InTurn = {} /\ n \in 0 .. RingSize - 1
          /\ order' = Append(order, r) /\ order' \in Seq(Slots)
          /\ Len(order') = n + 1 /\ order'[n + 1] = r
          /\ \A i \in 1 .. n : order'[i] = order[i] /\ order[i] # r
          /\ Counts(cardTx, order')
          /\ tx[r] = Free
          /\ \A u \in Tasks : sending[u].at # "out" => sending[u].slot # r
      BY <1>0, <1>1, <1>5, TakesFirstFree DEF r
    <2>2. /\ \A s \in Slots : tx[s] # Free => \E i \in 1 .. n : s = order[i]
          /\ \A i \in 1 .. n : tx[order[i]] # Free
               \/ \E u \in Tasks : sending[u].at # "out" /\ sending[u].slot = order[i]
          /\ cardTx \in Slots
      BY <1>0, <2>1, SentFacts
    <2> HIDE DEF n
    <2>3. SentInOrder'
      <3>1. \A i \in 1 .. Len(order') : order'[i] = (cardTx' + i - 1) % RingSize
        BY <1>1, <2>1, <2>2, CountsIs
      <3>2. \A s \in Slots : tx'[s] # Free => s \in {order'[i] : i \in 1 .. Len(order')}
        BY <1>1, <2>1, <2>2, CardAssumption
      <3>3. ASSUME NEW i \in 1 .. n
            PROVE  tx'[order'[i]] # Free
                     \/ \E u \in Tasks : sending'[u].at # "out" /\ sending'[u].slot = order'[i]
        <4>1. order'[i] = order[i]
          BY <2>1
        <4>2. CASE tx[order[i]] # Free
          BY <1>1, <4>1, <4>2
        <4>3. CASE tx[order[i]] = Free
          <5>1. PICK u \in Tasks : sending[u].at # "out" /\ sending[u].slot = order[i]
            BY <2>2, <4>3
          <5>2. u # t
            BY <1>1, <5>1 DEF NotSending
          <5> QED BY <1>2, <4>1, <5>1, <5>2
        <4> QED BY <4>2, <4>3
      <3>4. sending'[t].at # "out" /\ sending'[t].slot = order'[n + 1]
        BY <1>2, <2>1
      <3>5. \A i \in 1 .. Len(order') : tx'[order'[i]] # Free
              \/ \E u \in Tasks : sending'[u].at # "out" /\ sending'[u].slot = order'[i]
        BY <2>1, <3>3, <3>4, CardAssumption
      <3> QED BY <3>1, <3>2, <3>5 DEF SentInOrder
    <2>4. \A u \in Tasks : sending'[u].at # "out" =>
            /\ tx'[sending'[u].slot] = Free
            /\ \E i \in 1 .. Len(order') : order'[i] = sending'[u].slot
      <3> TAKE u \in Tasks
      <3> HAVE sending'[u].at # "out"
      <3>1. CASE u = t
        <4>1. n + 1 \in 1 .. n + 1
          BY <2>1, CardAssumption
        <4> QED BY <1>1, <1>2, <2>1, <3>1, <4>1
      <3>2. CASE u # t
        <4>1. tx[sending[u].slot] = Free
          BY <1>0, <1>2, <2>1, <3>2 DEF Sends
        <4>2. PICK i \in 1 .. n : order[i] = sending[u].slot
          BY <1>0, <1>2, <2>1, <3>2 DEF Sends, n
        <4>3. i \in 1 .. n + 1
          BY <2>1, CardAssumption
        <4> QED BY <1>1, <1>2, <2>1, <3>2, <4>1, <4>2, <4>3
      <3> QED BY <3>1, <3>2
    <2>5. \A u, v \in Tasks : u # v /\ sending'[u].at # "out" /\ sending'[v].at # "out" =>
            sending'[u].slot # sending'[v].slot
      BY <1>0, <1>2, <2>1 DEF Sends
    <2>6. InTurn' = {t}
      <3>1. \A u \in Tasks : sending'[u].at = "took" <=> u = t
        BY <1>2, <2>1 DEF InTurn
      <3> QED BY <3>1 DEF InTurn
    <2>7. order' # <<>> /\ Len(order') <= RingSize
      BY <2>1, CardAssumption
    <2>8. \A u \in InTurn' : /\ currentSendBuffer' = sending'[u].slot
                             /\ order' # <<>> /\ order'[Len(order')] = sending'[u].slot
      BY <1>1, <1>2, <2>1, <2>6, <2>7 DEF r
    <2> QED BY <2>3, <2>4, <2>5, <2>6, <2>7, <2>8 DEF Sends
  <1>6. SentInOrder' /\ Sends'
    BY <1>5 DEF SentInOrder, Sends
  <1> QED BY <1>3, <1>4, <1>6 DEF CInv

LEMMA SendAdvancesKeeps ==
  ASSUME CInv, NEW t \in Tasks, SendAdvances(t)
  PROVE  CInv'
  <1>0. CTypeOK /\ Received /\ SentInOrder /\ Sends /\ Handling /\ NoFrameForgotten
    BY DEF CInv
  <1>1. /\ sending[t].at = "took" /\ sending' = [sending EXCEPT ![t].at = "advanced"]
        /\ currentSendBuffer' = After(currentSendBuffer)
        /\ tx' = tx /\ cardTx' = cardTx /\ order' = order /\ disturbed' = disturbed
        /\ sending \in [Tasks -> [at : Places, slot : Slots \cup {NoSlot}]]
        /\ currentSendBuffer \in Slots
    BY <1>0 DEF SendAdvances, card, ghosts, CTypeOK, NextSend
  <1>2. \A u \in Tasks : /\ sending'[u].slot = sending[u].slot
                         /\ sending'[u].at = IF u = t THEN "advanced" ELSE sending[u].at
    BY <1>1
  <1>3. CTypeOK'
    <2>1. currentSendBuffer' \in Slots
      BY <1>1, CardAssumption DEF After, Slots
    <2>2. sending' \in [Tasks -> [at : Places, slot : Slots \cup {NoSlot}]]
      BY <1>1 DEF Places
    <2>3. \A u \in Tasks : sending'[u].at # "out" => sending'[u].slot \in Slots
      BY <1>0, <1>1, <1>2 DEF CTypeOK
    <2> QED BY <1>0, <2>1, <2>2, <2>3 DEF CTypeOK, SendAdvances, card, ghosts
  <1>4. Received' /\ Handling' /\ NoFrameForgotten'
    BY <1>0, ReceivedKept DEF SendAdvances, card, ghosts, Handling, NoFrameForgotten
  <1>5. SentInOrder'
    <2>1. \A s : (\E u \in Tasks : sending[u].at # "out" /\ sending[u].slot = s)
                   => \E u \in Tasks : sending'[u].at # "out" /\ sending'[u].slot = s
      BY <1>2
    <2> QED BY <1>0, <1>1, <2>1 DEF SentInOrder
  <1>6. ASSUME ~disturbed'
        PROVE  Sends'
    <2> DEFINE n == Len(order)
    <2>1. ~disturbed /\ order \in Seq(Slots) /\ cardTx \in Slots /\ n \in 0 .. RingSize
          /\ Counts(cardTx, order)
      BY <1>0, <1>1, <1>6, SentFacts
    <2>2. /\ t \in InTurn /\ currentSendBuffer = sending[t].slot
          /\ order # <<>> /\ order[n] = sending[t].slot
      BY <1>0, <1>1, <2>1 DEF Sends, InTurn
    <2>3. n \in 1 .. RingSize /\ n - 1 \in 0 .. RingSize - 1 /\ (n - 1) + 1 = n
      BY <2>1, <2>2, CardAssumption
    <2> HIDE DEF n
    <2>4. currentSendBuffer = Place(cardTx, n - 1)
      BY <2>1, <2>2, <2>3 DEF Counts, n
    <2>5. currentSendBuffer' = Place(cardTx', Len(order'))
      BY <1>1, <2>1, <2>3, <2>4, PlaceNext DEF n
    <2>6. \A u \in InTurn : u = t
      BY <1>0, <2>1, <2>2 DEF Sends, InTurn
    <2>7. InTurn' = {}
      BY <1>2, <2>6 DEF InTurn
    <2>8. \A u \in Tasks : sending'[u].at # "out" =>
            /\ tx'[sending'[u].slot] = Free
            /\ \E i \in 1 .. Len(order') : order'[i] = sending'[u].slot
      BY <1>0, <1>1, <1>2, <2>1 DEF Sends
    <2>9. \A u, v \in Tasks : u # v /\ sending'[u].at # "out" /\ sending'[v].at # "out" =>
            sending'[u].slot # sending'[v].slot
      BY <1>0, <1>1, <1>2, <2>1 DEF Sends
    <2>10. Len(order') <= RingSize
      BY <1>0, <1>1, <2>1 DEF Sends
    <2> QED BY <2>5, <2>7, <2>8, <2>9, <2>10 DEF Sends
  <1>7. Sends'
    BY <1>6 DEF Sends
  <1> QED BY <1>3, <1>4, <1>5, <1>7 DEF CInv

LEMMA SendFillsKeeps ==
  ASSUME CInv, NEW t \in Tasks, NEW f \in Good, SendFills(t, f)
  PROVE  CInv'
  <1>0. CTypeOK /\ Received /\ SentInOrder /\ Sends /\ Handling /\ NoFrameForgotten
    BY DEF CInv
  <1> DEFINE s == sending[t].slot
  <1>1. /\ sending[t].at = "advanced" /\ sending' = [sending EXCEPT ![t] = NotSending]
        /\ tx' = [tx EXCEPT ![s] = f] /\ f # Free /\ s \in Slots
        /\ currentSendBuffer' = currentSendBuffer /\ cardTx' = cardTx
        /\ order' = order /\ disturbed' = disturbed
        /\ sending \in [Tasks -> [at : Places, slot : Slots \cup {NoSlot}]]
        /\ tx \in [Slots -> Good \cup {Free}]
    BY <1>0, CardAssumption DEF SendFills, ghosts, CTypeOK
  <1>2. /\ \A u \in Tasks : sending'[u] = IF u = t THEN NotSending ELSE sending[u]
        /\ \A q \in Slots : tx'[q] = IF q = s THEN f ELSE tx[q]
        /\ NotSending.at = "out"
    BY <1>1 DEF NotSending
  <1>3. CTypeOK'
    <2>1. NotSending \in [at : Places, slot : Slots \cup {NoSlot}]
      BY DEF NotSending, Places
    <2>2. /\ sending' \in [Tasks -> [at : Places, slot : Slots \cup {NoSlot}]]
          /\ \A u \in Tasks : sending'[u].at # "out" => sending'[u].slot \in Slots
      BY <1>0, <1>1, <1>2, <2>1 DEF CTypeOK
    <2>3. tx' \in [Slots -> Good \cup {Free}]
      BY <1>1
    <2> QED BY <1>0, <2>2, <2>3 DEF CTypeOK, SendFills, ghosts
  <1>4. Received' /\ Handling' /\ NoFrameForgotten'
    BY <1>0, ReceivedKept DEF SendFills, ghosts, Handling, NoFrameForgotten
  <1> HIDE DEF s
  <1>5. ASSUME ~disturbed'
        PROVE  SentInOrder' /\ Sends'
    <2>1. /\ ~disturbed /\ order \in Seq(Slots) /\ cardTx \in Slots /\ Len(order) \in 0 .. RingSize
          /\ \A q \in Slots : tx[q] # Free => \E i \in 1 .. Len(order) : q = order[i]
          /\ \A i \in 1 .. Len(order) : tx[order[i]] # Free
               \/ \E u \in Tasks : sending[u].at # "out" /\ sending[u].slot = order[i]
      BY <1>0, <1>1, <1>5, SentFacts
    <2>2. \E i \in 1 .. Len(order) : s = order[i]
      BY <1>0, <1>1, <2>1 DEF Sends, s
    <2>3. SentInOrder'
      <3>1. \A q \in Slots : tx'[q] # Free => q \in {order[i] : i \in 1 .. Len(order)}
        BY <1>2, <2>1, <2>2
      <3>2. \A i \in 1 .. Len(order) : tx'[order[i]] # Free
              \/ \E u \in Tasks : sending'[u].at # "out" /\ sending'[u].slot = order[i]
        <4> TAKE i \in 1 .. Len(order)
        <4>1. order[i] \in Slots
          BY <2>1
        <4>2. CASE order[i] = s
          BY <1>1, <1>2, <4>1, <4>2
        <4>3. CASE order[i] # s
          BY <1>2, <2>1, <4>1, <4>3 DEF s
        <4> QED BY <4>2, <4>3
      <3> QED BY <1>0, <1>1, <2>1, <3>1, <3>2 DEF SentInOrder
    <2>4. \A u \in Tasks : sending'[u].at # "out" =>
            /\ u # t /\ sending'[u] = sending[u] /\ sending[u].slot # s /\ sending[u].slot \in Slots
      BY <1>0, <1>1, <1>2, <2>1 DEF Sends, CTypeOK, s
    <2>5. InTurn' = InTurn
      <3>1. \A u \in Tasks : sending'[u].at = "took" <=> sending[u].at = "took"
        BY <1>1, <1>2
      <3> QED BY <3>1 DEF InTurn
    <2>6. \A u \in Tasks : sending'[u].at # "out" =>
            /\ tx'[sending'[u].slot] = Free
            /\ \E i \in 1 .. Len(order') : order'[i] = sending'[u].slot
      BY <1>0, <1>1, <1>2, <2>1, <2>4 DEF Sends
    <2>7. \A u, v \in Tasks : u # v /\ sending'[u].at # "out" /\ sending'[v].at # "out" =>
            sending'[u].slot # sending'[v].slot
      BY <1>0, <2>1, <2>4 DEF Sends
    <2>8. \A u \in InTurn' : /\ currentSendBuffer' = sending'[u].slot
                             /\ order' # <<>> /\ order'[Len(order')] = sending'[u].slot
      <3> TAKE u \in InTurn'
      <3>1. u \in InTurn /\ u \in Tasks /\ u # t /\ sending'[u] = sending[u]
        BY <1>1, <1>2, <2>5 DEF InTurn
      <3> QED BY <1>0, <1>1, <2>1, <3>1 DEF Sends
    <2>9. /\ Len(order') <= RingSize
          /\ InTurn' = {} => currentSendBuffer' = Place(cardTx', Len(order'))
      BY <1>0, <1>1, <2>1, <2>5 DEF Sends
    <2> QED BY <2>3, <2>6, <2>7, <2>8, <2>9 DEF Sends
  <1>6. SentInOrder' /\ Sends'
    BY <1>5 DEF SentInOrder, Sends
  <1> QED BY <1>3, <1>4, <1>6 DEF CInv

-----------------------------------------------------------------------------
(* The interrupt handler.                                                  *)

LEMMA ReceiveSendsKeeps ==
  ASSUME CInv, NEW f \in Good, ReceiveSends(f)
  PROVE  CInv'
  <1>0. CTypeOK /\ Received /\ SentInOrder /\ Sends /\ Handling /\ NoFrameForgotten
    BY DEF CInv
  <1> DEFINE r == currentSendBuffer
  <1>1. /\ tx' = [tx EXCEPT ![r] = f] /\ f # Free /\ r \in Slots
        /\ currentSendBuffer' = After(r) /\ cardTx' = cardTx /\ sending' = sending
        /\ Takes(r, InTurn) /\ order \in Seq(Slots) /\ disturbed \in BOOLEAN
        /\ tx \in [Slots -> Good \cup {Free}]
    BY <1>0, CardAssumption DEF ReceiveSends, CTypeOK, NextSend
  <1>2. \A q \in Slots : tx'[q] = IF q = r THEN f ELSE tx[q]
    BY <1>1
  <1>3. CTypeOK'
    <2>1. order' \in Seq(Slots) /\ disturbed' \in BOOLEAN
      BY <1>1, TakesTyped
    <2>2. currentSendBuffer' \in Slots
      BY <1>1, CardAssumption DEF After, Slots
    <2>3. tx' \in [Slots -> Good \cup {Free}]
      BY <1>1
    <2> QED BY <1>0, <2>1, <2>2, <2>3 DEF CTypeOK, ReceiveSends
  <1>4. Received' /\ Handling' /\ NoFrameForgotten'
    BY <1>0, ReceivedKept DEF ReceiveSends, Handling, NoFrameForgotten
  <1>5. ASSUME ~disturbed'
        PROVE  SentInOrder' /\ Sends'
    <2> DEFINE n == Len(order)
    <2> HIDE DEF r
    <2>1. /\ ~disturbed /\ InTurn = {} /\ n \in 0 .. RingSize - 1
          /\ order' = Append(order, r) /\ order' \in Seq(Slots)
          /\ Len(order') = n + 1 /\ order'[n + 1] = r
          /\ \A i \in 1 .. n : order'[i] = order[i] /\ order[i] # r
          /\ Counts(cardTx, order')
          /\ tx[r] = Free
          /\ \A u \in Tasks : sending[u].at # "out" => sending[u].slot # r
      BY <1>0, <1>1, <1>5, TakesFirstFree DEF r
    <2>2. /\ \A s \in Slots : tx[s] # Free => \E i \in 1 .. n : s = order[i]
          /\ \A i \in 1 .. n : tx[order[i]] # Free
               \/ \E u \in Tasks : sending[u].at # "out" /\ sending[u].slot = order[i]
          /\ cardTx \in Slots /\ \A i \in 1 .. n : order[i] \in Slots
      BY <1>0, <2>1, SentFacts
    <2> HIDE DEF n
    <2>3. SentInOrder'
      <3>1. \A i \in 1 .. Len(order') : order'[i] = (cardTx' + i - 1) % RingSize
        BY <1>1, <2>1, <2>2, CountsIs
      <3>2. \A s \in Slots : tx'[s] # Free => s \in {order'[i] : i \in 1 .. Len(order')}
        <4> TAKE s \in Slots
        <4> HAVE tx'[s] # Free
        <4>1. n + 1 \in 1 .. n + 1 /\ \A i \in 1 .. n : i \in 1 .. n + 1
          BY <2>1, CardAssumption
        <4>2. \E i \in 1 .. n + 1 : s = order'[i]
          BY <1>2, <2>1, <2>2, <4>1
        <4> QED BY <2>1, <4>2
      <3>3. ASSUME NEW i \in 1 .. n
            PROVE  tx'[order'[i]] # Free
                     \/ \E u \in Tasks : sending'[u].at # "out" /\ sending'[u].slot = order'[i]
        BY <1>1, <1>2, <2>1, <2>2
      <3>4. tx'[order'[n + 1]] # Free
        BY <1>1, <1>2, <2>1
      <3>5. \A i \in 1 .. Len(order') : tx'[order'[i]] # Free
              \/ \E u \in Tasks : sending'[u].at # "out" /\ sending'[u].slot = order'[i]
        BY <2>1, <3>3, <3>4, CardAssumption
      <3> QED BY <3>1, <3>2, <3>5 DEF SentInOrder
    <2>4. \A u \in Tasks : sending'[u].at # "out" =>
            /\ tx'[sending'[u].slot] = Free
            /\ \E i \in 1 .. Len(order') : order'[i] = sending'[u].slot
      <3> TAKE u \in Tasks
      <3> HAVE sending'[u].at # "out"
      <3>1. tx[sending[u].slot] = Free /\ sending[u].slot # r /\ sending[u].slot \in Slots
        BY <1>0, <1>1, <2>1 DEF Sends, CTypeOK
      <3>2. PICK i \in 1 .. n : order[i] = sending[u].slot
        BY <1>0, <1>1, <2>1 DEF Sends, n
      <3>3. i \in 1 .. n + 1
        BY <2>1, CardAssumption
      <3> QED BY <1>1, <1>2, <2>1, <3>1, <3>2, <3>3
    <2>5. \A u, v \in Tasks : u # v /\ sending'[u].at # "out" /\ sending'[v].at # "out" =>
            sending'[u].slot # sending'[v].slot
      BY <1>0, <1>1, <2>1 DEF Sends
    <2>6. InTurn' = {}
      BY <1>1, <2>1 DEF InTurn
    <2>7. Len(order') <= RingSize
      BY <2>1, CardAssumption
    <2>8. currentSendBuffer' = Place(cardTx', Len(order'))
      <3>1. r = Place(cardTx, n)
        BY <1>0, <2>1 DEF Sends, n, r
      <3> QED BY <1>1, <2>1, <2>2, <3>1, PlaceNext DEF r
    <2> QED BY <2>3, <2>4, <2>5, <2>6, <2>7, <2>8 DEF Sends
  <1>6. SentInOrder' /\ Sends'
    BY <1>5 DEF SentInOrder, Sends
  <1> QED BY <1>3, <1>4, <1>6 DEF CInv

LEMMA HandleInterruptKeeps ==
  ASSUME CInv, HandleInterrupt
  PROVE  CInv'
  <1>0. CTypeOK /\ Received /\ SentInOrder /\ Sends /\ Handling /\ NoFrameForgotten
    BY DEF CInv
  <1>1. CTypeOK'
    BY <1>0 DEF CTypeOK, HandleInterrupt, card, ghosts
  <1>2. Received' /\ SentInOrder' /\ Sends'
    BY <1>0, ReceivedKept, SendsKept DEF HandleInterrupt, card, ghosts
  <1>3. Handling' /\ NoFrameForgotten'
    BY <1>0 DEF Handling, NoFrameForgotten, HandleInterrupt, card, ghosts
  <1> QED BY <1>1, <1>2, <1>3 DEF CInv

LEMMA ReceiveTurnKeeps ==
  ASSUME CInv, ReceiveTurn
  PROVE  CInv'
  <1>0. CTypeOK /\ Received /\ SentInOrder /\ Sends /\ Handling /\ NoFrameForgotten
    BY DEF CInv
  <1> DEFINE n == Len(waiting)
             r == currentRecvBuffer
  <1>1. /\ r \in Slots /\ waiting \in Seq(Frames) /\ n \in Nat /\ rx \in [Slots -> Frames \cup {Free}]
        /\ rx[r] # Free /\ rx' = [rx EXCEPT ![r] = Free] /\ currentRecvBuffer' = After(r)
        /\ waiting' = Tail(waiting) /\ cardRx' = cardRx
    BY <1>0 DEF ReceiveTurn, CTypeOK, NextRecv
  <1>2. /\ \A i \in 1 .. n : rx[Place(r, i - 1)] = waiting[i]
        /\ \A s \in Slots : rx[s] # Free => \E i \in 1 .. n : s = Place(r, i - 1)
        /\ n <= RingSize /\ cardRx = Place(r, n)
    <2>1. Lies(rx, r, waiting)
      BY <1>0, <1>1, LiesIs DEF Received, ReceivedInOrder
    <2> QED BY <1>0, <2>1 DEF Received, Lies
  <1>3. n \in 1 .. RingSize /\ waiting # <<>>
    BY <1>1, <1>2, CardAssumption
  <1>4. /\ waiting' \in Seq(Frames) /\ Len(waiting') = n - 1
        /\ \A i \in 1 .. n - 1 : waiting'[i] = waiting[i + 1]
    BY <1>1, <1>3
  <1>5. currentRecvBuffer' \in Slots
    BY <1>1, CardAssumption DEF After, Slots
  <1>6. CTypeOK'
    <2>1. rx' \in [Slots -> Frames \cup {Free}]
      BY <1>1
    <2> QED BY <1>0, <1>4, <1>5, <2>1 DEF CTypeOK, ReceiveTurn
  <1> HIDE DEF n, r
  <1>7. \A i \in 1 .. n - 1 : /\ Place(currentRecvBuffer', i - 1) = Place(r, i)
                              /\ Place(r, i) \in Slots /\ Place(r, i) # r
    <2> TAKE i \in 1 .. n - 1
    <2>1. /\ i - 1 \in 0 .. RingSize - 1 /\ (i - 1) + 1 = i /\ i \in 0 .. RingSize - 1 /\ i # 0
          /\ 0 \in 0 .. RingSize - 1 /\ i \in 0 .. RingSize
      BY <1>3, CardAssumption
    <2>2. Place(r, i) # Place(r, 0)
      BY <1>1, <2>1, PlaceApart
    <2> QED BY <1>1, <2>1, <2>2, PlaceNext, PlaceInRing, PlaceAround
  <1>8. Lies(rx', currentRecvBuffer', waiting')
    <2>1. ASSUME NEW i \in 1 .. n - 1
          PROVE  rx'[Place(currentRecvBuffer', i - 1)] = waiting'[i]
      <3>1. i + 1 \in 1 .. n /\ (i + 1) - 1 = i
        BY <1>3, CardAssumption
      <3>2. rx[Place(r, i)] = waiting[i + 1]
        BY <1>2, <3>1
      <3> QED BY <1>1, <1>4, <1>7, <3>2
    <2>2. ASSUME NEW s \in Slots, rx'[s] # Free
          PROVE  \E i \in 1 .. n - 1 : s = Place(currentRecvBuffer', i - 1)
      <3>1. s # r /\ rx[s] # Free
        BY <1>1, <2>2
      <3>2. PICK i \in 1 .. n : s = Place(r, i - 1)
        BY <1>2, <3>1
      <3>3. i # 1
        <4>1. 1 - 1 = 0 /\ Place(r, 0) = r
          BY <1>1, PlaceAround
        <4> QED BY <3>1, <3>2, <4>1
      <3>4. i - 1 \in 1 .. n - 1
        BY <1>3, <3>3, CardAssumption
      <3> QED BY <1>7, <3>2, <3>4
    <2> QED BY <1>4, <2>1, <2>2 DEF Lies
  <1>9. Received'
    <2>1. ReceivedInOrder'
      BY <1>4, <1>5, <1>8, LiesIs DEF ReceivedInOrder
    <2>2. cardRx' = Place(currentRecvBuffer', Len(waiting'))
      <3>1. n - 1 \in 0 .. RingSize - 1 /\ (n - 1) + 1 = n
        BY <1>3, CardAssumption
      <3> QED BY <1>1, <1>2, <1>4, <3>1, PlaceNext
    <2>3. Len(waiting') <= RingSize
      BY <1>3, <1>4, CardAssumption
    <2> QED BY <2>1, <2>2, <2>3 DEF Received
  <1>10. SentInOrder' /\ Sends'
    BY <1>0, SendsKept DEF ReceiveTurn
  <1>11. Handling' /\ NoFrameForgotten'
    BY <1>0, <1>3 DEF Handling, NoFrameForgotten, ReceiveTurn
  <1> QED BY <1>6, <1>9, <1>10, <1>11 DEF CInv

\* The driver's place is free only when no frame is left to be looked at.
LEMMA ReceiveEndsKeeps ==
  ASSUME CInv, ReceiveEnds
  PROVE  CInv'
  <1>0. CTypeOK /\ Received /\ SentInOrder /\ Sends /\ Handling /\ NoFrameForgotten
    BY DEF CInv
  <1>1. waiting = <<>>
    <2> SUFFICES ASSUME waiting # <<>> PROVE FALSE
      OBVIOUS
    <2>1. /\ currentRecvBuffer \in Slots /\ waiting \in Seq(Frames) /\ Len(waiting) >= 1
          /\ waiting[1] \in Frames
      BY <1>0 DEF CTypeOK
    <2>2. Lies(rx, currentRecvBuffer, waiting)
      BY <1>0, <2>1, LiesIs DEF Received, ReceivedInOrder
    <2>3. rx[Place(currentRecvBuffer, 0)] = waiting[1]
      BY <2>1, <2>2 DEF Lies
    <2> QED BY <2>1, <2>3, PlaceAround, CardAssumption DEF ReceiveEnds, Frames
  <1>2. CTypeOK'
    BY <1>0 DEF CTypeOK, ReceiveEnds, card
  <1>3. Received' /\ SentInOrder' /\ Sends'
    BY <1>0, ReceivedKept, SendsKept DEF ReceiveEnds, card
  <1>4. Handling' /\ NoFrameForgotten'
    BY <1>0, <1>1 DEF Handling, NoFrameForgotten, ReceiveEnds, card
  <1> QED BY <1>2, <1>3, <1>4 DEF CInv

LEMMA HandlerReturnsKeeps ==
  ASSUME CInv, HandlerReturns
  PROVE  CInv'
  <1>0. CTypeOK /\ Received /\ SentInOrder /\ Sends /\ Handling /\ NoFrameForgotten
    BY DEF CInv
  <1>1. CTypeOK'
    BY <1>0 DEF CTypeOK, HandlerReturns, Acknowledge, ghosts
  <1>2. Received' /\ SentInOrder' /\ Sends'
    BY <1>0, ReceivedKept, SendsKept DEF HandlerReturns, ghosts
  <1>3. Handling' /\ NoFrameForgotten'
    BY <1>0 DEF Handling, NoFrameForgotten, HandlerReturns, Acknowledge, ghosts
  <1> QED BY <1>1, <1>2, <1>3 DEF CInv

-----------------------------------------------------------------------------
LEMMA CardStarts == Init => CInv
  <1> SUFFICES ASSUME Init PROVE CInv
    OBVIOUS
  <1>1. 0 \in Slots
    BY CardAssumption DEF Slots
  <1>2. CTypeOK
    BY <1>1 DEF Init, CTypeOK, NotSending, Places
  <1>3. Received
    BY <1>1, PlaceAround, CardAssumption DEF Init, Received, ReceivedInOrder
  <1>4. SentInOrder /\ Sends
    BY <1>1, PlaceAround, CardAssumption DEF Init, SentInOrder, Sends, InTurn, NotSending
  <1>5. Handling /\ NoFrameForgotten
    BY DEF Init, Handling, NoFrameForgotten
  <1> QED BY <1>2, <1>3, <1>4, <1>5 DEF CInv

LEMMA CardSteps == CInv /\ [Next]_vars => CInv'
  <1> SUFFICES ASSUME CInv, [Next]_vars PROVE CInv'
    OBVIOUS
  <1>1. CASE \E f \in Good \cup Bad : Arrive(f)
    BY <1>1, ArriveKeeps DEF Frames
  <1>2. CASE Miss
    BY <1>2, MissKeeps
  <1>3. CASE Transmit
    BY <1>3, TransmitKeeps
  <1>4. CASE \E t \in Tasks : SendTakes(t) \/ SendSteps(t)
    BY <1>4, SendTakesKeeps, SendAdvancesKeeps, SendFillsKeeps DEF SendSteps
  <1>5. CASE Handler
    BY <1>5, HandleInterruptKeeps, ReceiveTurnKeeps, ReceiveEndsKeeps, HandlerReturnsKeeps
       DEF Handler
  <1>6. CASE \E f \in Good : ReceiveSends(f)
    BY <1>6, ReceiveSendsKeeps
  <1>7. CASE UNCHANGED vars
    <2>1. Received' /\ SentInOrder' /\ Sends'
      BY <1>7, ReceivedKept, SendsKept DEF CInv, vars, card, driver, ghosts
    <2>2. CTypeOK' /\ Handling' /\ NoFrameForgotten'
      BY <1>7 DEF CInv, CTypeOK, Handling, NoFrameForgotten, vars, card, driver, ghosts
    <2> QED BY <2>1, <2>2 DEF CInv
  <1> QED BY <1>1, <1>2, <1>3, <1>4, <1>5, <1>6, <1>7 DEF Next

\* The inductive invariant holds in every reachable state, whatever the size of the rings,
\* the tasks that send and the frames that come.
THEOREM CardInvariance == Spec => []CInv
  BY CardStarts, CardSteps, PTL DEF Spec

\* The driver looks at the frames in the order in which the card received them, at each
\* once, and finds every descriptor the card has filled.
THEOREM FramesComeInOrder == Spec => []ReceivedInOrder
  <1>1. CInv => ReceivedInOrder
    BY DEF CInv, Received
  <1> QED BY <1>1, CardInvariance, PTL

\* Sends that do not start inside another and find a descriptor that is not the card's are
\* sent in their order, each from a descriptor of its own.
THEOREM FramesLeaveInOrder == Spec => []SentInOrder
  <1>1. CInv => SentInOrder
    BY DEF CInv
  <1> QED BY <1>1, CardInvariance, PTL

\* A frame in the ring has its interrupt pending, but for one that came between the last
\* look of Receive and the acknowledgement.
THEOREM InterruptStaysPending == Spec => []NoFrameForgotten
  <1>1. CInv => NoFrameForgotten
    BY DEF CInv
  <1> QED BY <1>1, CardInvariance, PTL
=============================================================================
