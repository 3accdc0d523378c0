-------------------------------- MODULE Card --------------------------------
(***************************************************************************)
(* The driver of the network card (src/drivers/amd_am79c973.cpp): the two  *)
(* rings of buffer descriptors it shares with the card, its interrupt      *)
(* handler, and Send, which tasks call with interrupts enabled and the     *)
(* protocols call out of the handler to answer a frame.                    *)
(*                                                                         *)
(* The card is a process of its own: it fills descriptors and sets bits of *)
(* its status register while the handler runs.  It is modelled from what   *)
(* the driver relies on: it works through each ring in order, stops at a   *)
(* descriptor it does not own, and interrupts while a cause is set.        *)
(*                                                                         *)
(* A descriptor owned by the card is Free in the receive ring and a frame  *)
(* to send in the send ring; otherwise it is the driver's.                 *)
(* What a descriptor says of its frame (its flags and length) is modelled; *)
(* the bytes are not: the eight buffers of a ring lie 8 or 16 bytes apart, *)
(* so while two frames are in a ring the later has overwritten the earlier.*)
(***************************************************************************)
EXTENDS Integers, Sequences

CONSTANTS
  RingSize,   \* descriptors of a ring (8 in the source)
  Good,       \* frames that arrive whole
  Bad,        \* frames with an error, or longer than a buffer
  Free,       \* no frame
  Tasks       \* the tasks that send

ASSUME CardAssumption ==
  /\ RingSize \in Nat \ {0, 1}
  /\ Free \notin Good \cup Bad
  /\ Good \cap Bad = {}

Slots == 0 .. RingSize - 1
After(s) == (s + 1) % RingSize

\* Faulty variant: the ring is taken for one shorter.
AfterShort(s) == (s + 1) % (RingSize - 1)

\* The driver's own steps through the two rings.
NextRecv(s) == After(s)
NextSend(s) == After(s)

NoSlot == -1

VARIABLES
  rx, currentRecvBuffer,     \* the receive ring and the driver's place in it
  tx, currentSendBuffer,     \* the send ring and the next descriptor of Send
  cardRx, cardTx,            \* the card's places in the rings
  cause,                     \* the interrupt causes set in the status register
  pc, temp,                  \* the handler: where it is, and the causes it has read
  sending,                   \* per task inside Send: where, and its sendDescriptor
  waiting,                   \* history: the frames received and not yet looked at
  slipped,                   \* history: one came after the last look of Receive and
                             \* before the acknowledgement
  order,                     \* history: the descriptors taken by Sends and not yet sent
  disturbed                  \* history: a Send took a descriptor out of turn

card   == <<rx, cardRx, tx, cardTx, cause>>
driver == <<currentRecvBuffer, currentSendBuffer, pc, temp, sending>>
ghosts == <<waiting, slipped, order, disturbed>>
vars   == <<card, driver, ghosts>>

NotSending == [at |-> "out", slot |-> NoSlot]

Init ==
  /\ rx = [s \in Slots |-> Free] /\ tx = [s \in Slots |-> Free]
  /\ currentRecvBuffer = 0 /\ currentSendBuffer = 0
  /\ cardRx = 0 /\ cardTx = 0
  /\ cause = {} /\ temp = {} /\ pc = "user"
  /\ sending = [t \in Tasks |-> NotSending]
  /\ waiting = <<>> /\ slipped = FALSE
  /\ order = <<>> /\ disturbed = FALSE

-----------------------------------------------------------------------------
(* The card.                                                               *)

Arrive(f) ==
  /\ rx[cardRx] = Free
  /\ rx' = [rx EXCEPT ![cardRx] = f]
  /\ cardRx' = After(cardRx)
  /\ cause' = cause \cup {"RINT"}
  /\ waiting' = Append(waiting, f)
  /\ slipped' = (slipped \/ (pc = "acknowledge" /\ "RINT" \in temp))
  /\ UNCHANGED <<tx, cardTx, driver, order, disturbed>>

\* No descriptor is free: the frame is gone, and no RINT is set for it.
Miss ==
  /\ rx[cardRx] # Free
  /\ cause' = cause \cup {"MISS"}
  /\ UNCHANGED <<rx, cardRx, tx, cardTx, driver, ghosts>>

Transmit ==
  /\ tx[cardTx] # Free
  /\ tx' = [tx EXCEPT ![cardTx] = Free]
  /\ cardTx' = After(cardTx)
  /\ cause' = cause \cup {"TINT"}
  /\ order' = IF disturbed THEN order ELSE Tail(order)
  /\ UNCHANGED <<rx, cardRx, driver, waiting, slipped, disturbed>>

-----------------------------------------------------------------------------
(* Send.  No step of it looks at whether the descriptor is the card's.     *)

\* A Send takes descriptor s while the tasks of `inside` have read it and not advanced.
Takes(s, inside) ==
  LET odd == disturbed \/ inside # {} \/ Len(order) = RingSize
  IN  /\ disturbed' = odd
      /\ order' = IF odd THEN <<>> ELSE Append(order, s)

InTurn == {t \in Tasks : sending[t].at = "took"}

SendTakes(t) ==
  /\ pc = "user"
  /\ sending[t] = NotSending
  /\ sending' = [sending EXCEPT ![t] = [at |-> "took", slot |-> currentSendBuffer]]
  /\ Takes(currentSendBuffer, InTurn)
  /\ UNCHANGED <<card, currentRecvBuffer, currentSendBuffer, pc, temp, waiting, slipped>>

\* Its load and store are one step: a Send in between starts inside this one (disturbed).
SendAdvances(t) ==
  /\ pc = "user"
  /\ sending[t].at = "took"
  /\ currentSendBuffer' = NextSend(currentSendBuffer)
  /\ sending' = [sending EXCEPT ![t].at = "advanced"]
  /\ UNCHANGED <<card, currentRecvBuffer, pc, temp, ghosts>>

SendFills(t, f) ==
  /\ pc = "user"
  /\ sending[t].at = "advanced"
  /\ tx' = [tx EXCEPT ![sending[t].slot] = f]
  /\ sending' = [sending EXCEPT ![t] = NotSending]
  /\ UNCHANGED <<rx, cardRx, cardTx, cause, currentRecvBuffer, currentSendBuffer, pc, temp,
                 ghosts>>

-----------------------------------------------------------------------------
(* The interrupt handler, with interrupts masked: no task runs meanwhile.  *)

HandleInterrupt ==
  /\ pc = "user"
  /\ cause # {}
  /\ temp' = cause
  /\ pc' = IF "RINT" \in cause THEN "receive" ELSE "acknowledge"
  /\ UNCHANGED <<card, currentRecvBuffer, currentSendBuffer, sending, ghosts>>

\* A whole frame goes to the protocols, which send in answer as often as they like; the
\* last time it may be the frame itself, sent back.
ReceiveSends(f) ==
  /\ pc = "receive"
  /\ rx[currentRecvBuffer] \in Good
  /\ tx' = [tx EXCEPT ![currentSendBuffer] = f]
  /\ currentSendBuffer' = NextSend(currentSendBuffer)
  /\ Takes(currentSendBuffer, InTurn)
  /\ UNCHANGED <<rx, cardRx, cardTx, cause, currentRecvBuffer, pc, temp, sending, waiting,
                 slipped>>

\* The end of one turn of the loop of Receive: the descriptor goes back to the card.
ReceiveTurn ==
  /\ pc = "receive"
  /\ rx[currentRecvBuffer] # Free
  /\ rx' = [rx EXCEPT ![currentRecvBuffer] = Free]
  /\ currentRecvBuffer' = NextRecv(currentRecvBuffer)
  /\ waiting' = Tail(waiting)
  /\ UNCHANGED <<cardRx, tx, cardTx, cause, currentSendBuffer, pc, temp, sending, slipped,
                 order, disturbed>>

ReceiveEnds ==
  /\ pc = "receive"
  /\ rx[currentRecvBuffer] = Free
  /\ pc' = "acknowledge"
  /\ slipped' = FALSE
  /\ UNCHANGED <<card, currentRecvBuffer, currentSendBuffer, temp, sending, waiting, order,
                 disturbed>>

\* Faulty variant: every cause is acknowledged, not only those that were read.
AcknowledgeAll == cause' = {}

\* The causes read at the start are written back, which clears them.
Acknowledge == cause' = cause \ temp

HandlerReturns ==
  /\ pc = "acknowledge"
  /\ Acknowledge
  /\ pc' = "user"
  /\ temp' = {}
  /\ UNCHANGED <<rx, cardRx, tx, cardTx, currentRecvBuffer, currentSendBuffer, sending, ghosts>>

-----------------------------------------------------------------------------
Handler == HandleInterrupt \/ ReceiveTurn \/ ReceiveEnds \/ HandlerReturns

SendSteps(t) == SendAdvances(t) \/ \E f \in Good : SendFills(t, f)

Next ==
  \/ \E f \in Good \cup Bad : Arrive(f)
  \/ Miss
  \/ Transmit
  \/ \E t \in Tasks : SendTakes(t) \/ SendSteps(t)
  \/ Handler \/ \E f \in Good : ReceiveSends(f)

\* The CPU goes on in the handler, the protocols come back from a frame, and the card goes on
\* with the frames it is given.
Fairness == WF_vars(Handler) /\ WF_vars(Transmit)

Spec == Init /\ [][Next]_vars /\ Fairness

-----------------------------------------------------------------------------
\* The driver finds in the receive ring, from its own place on, exactly the descriptors the
\* card has filled, in the order the frames arrived; each is looked at once.
ReceivedInOrder ==
  /\ \A i \in 1 .. Len(waiting) : rx[(currentRecvBuffer + i - 1) % RingSize] = waiting[i]
  /\ \A s \in Slots : rx[s] # Free =>
       \E i \in 1 .. Len(waiting) : s = (currentRecvBuffer + i - 1) % RingSize

\* While no Send starts inside another (a task's, interrupted) or with the ring full, the
\* descriptors taken are those the card comes to next, in the order of the Sends: no descriptor
\* is filled twice before it is sent, and no gap stops the card.
SentInOrder ==
  ~disturbed =>
    /\ \A i \in 1 .. Len(order) : order[i] = (cardTx + i - 1) % RingSize
    /\ \A s \in Slots : tx[s] # Free => s \in {order[i] : i \in 1 .. Len(order)}
    /\ \A i \in 1 .. Len(order) : tx[order[i]] # Free
         \/ \E t \in Tasks : sending[t].at # "out" /\ sending[t].slot = order[i]

\* Outside the handler a frame in the ring has its interrupt pending, unless it slipped in
\* between the last look of Receive and the acknowledgement, which clears its RINT too.
NoFrameForgotten ==
  ~slipped /\ waiting # <<>> => "RINT" \in cause

\* If none slips in so, received frames go on being looked at until none is left: with
\* the order above, each is.
FramesHandled ==
  []~slipped => []<>(waiting = <<>>) \/ []<><<ReceiveTurn>>_vars

=============================================================================
