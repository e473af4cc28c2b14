---------------------------- MODULE TxQueueProofs ----------------------------
(* Proofs about the frame queue for every ring size and every set of frames. *)
EXTENDS TxQueue, SequenceTheorems, TLAPS

\* The step of an index around the ring, without the modulo.
LEMMA AdvanceStep ==
    ASSUME NEW i \in Slots \cup {-1}
    PROVE  /\ Advance(i) = Turn(i + 1)
           /\ Advance(i) \in Slots
           /\ Advance(i) = IF i = MAX_QUEUE - 1 THEN 0 ELSE i + 1
<1>1. CASE i = MAX_QUEUE - 1
  <2>1. (i + 1) % MAX_QUEUE = 0
    BY <1>1, QueueAssumption
  <2> QED  BY <1>1, <2>1, QueueAssumption DEF Advance, Turn, Slots
<1>2. CASE i \in -1 .. MAX_QUEUE - 2
  <2>1. (i + 1) \in 0 .. MAX_QUEUE - 1
    BY <1>2, QueueAssumption
  <2>2. (i + 1) % MAX_QUEUE = i + 1
    BY <2>1, QueueAssumption
  <2> QED  BY <1>2, <2>1, <2>2, QueueAssumption DEF Advance, Turn, Slots
<1> QED  BY <1>1, <1>2, QueueAssumption DEF Slots

-----------------------------------------------------------------------------
IInv == TypeOK /\ RearAfterFront /\ WaitingSlotsFilled

\* The slots counted as waiting: never more than the ring has, and one fewer
\* once a first frame has left.
LEMMA WaitingBounds ==
    ASSUME TypeOK, RearAfterFront
    PROVE  /\ Waiting \in 0 .. MAX_QUEUE
           /\ front # -1 => Waiting \in 0 .. MAX_QUEUE - 1
           /\ Waiting = 0 <=> IsEmpty
           /\ \A k \in 1 .. Waiting : Turn(front + k) \in Slots
<1> QED  BY QueueAssumption
         DEF TypeOK, RearAfterFront, Waiting, IsEmpty, Turn, Slots

WindowShape ==
    /\ Window \in Seq(Frame)
    /\ Len(Window) = Waiting
    /\ DOMAIN Window = 1 .. Waiting
    /\ \A k \in 1 .. Waiting : Window[k] = slot[Turn(front + k)]

\* Under the invariant the waiting slots are a sequence of frames.
LEMMA WindowIsSeq == IInv => WindowShape
<1> SUFFICES ASSUME IInv PROVE WindowShape
  OBVIOUS
<1>1. Waiting \in Nat
  BY WaitingBounds, QueueAssumption DEF IInv
<1>2. \A k \in 1 .. Waiting : slot[Turn(front + k)] \in Frame
  BY DEF IInv, WaitingSlotsFilled
<1>3. Window \in [1 .. Waiting -> Frame]
  BY <1>2 DEF Window
<1>4. Window \in Seq(Frame)
  BY <1>1, <1>3
<1> QED  BY <1>1, <1>3, <1>4 DEF Window, WindowShape

\* Accepting a frame lengthens the waiting slots by one, except in the ring
\* that is full and that no frame has left yet.
LEMMA AddWaiting ==
    ASSUME IInv, NEW f \in Frame, addq(f), ~IsFull
    PROVE  /\ front = -1 /\ rear = MAX_QUEUE - 1 =>
                 Waiting = MAX_QUEUE /\ Waiting' = 1
           /\ ~(front = -1 /\ rear = MAX_QUEUE - 1) =>
                 /\ Waiting' = Waiting + 1
                 /\ Waiting < MAX_QUEUE - 1 \/ (front = -1 /\ Waiting < MAX_QUEUE)
                 /\ \A k \in 1 .. Waiting : Turn(front + k) # Advance(rear)
           /\ Turn(front + Waiting') = Advance(rear)
           /\ slot'[Advance(rear)] = f
           /\ \A i \in Slots : i # Advance(rear) => slot'[i] = slot[i]
<1>0. /\ front' = front
      /\ rear' = Advance(rear)
      /\ slot' = [slot EXCEPT ![Advance(rear)] = f]
      /\ Advance(rear) # front
  BY DEF addq, IsFull
<1>1. /\ front \in Slots \cup {-1} /\ rear \in Slots \cup {-1}
      /\ rear = -1 => front = -1
      /\ slot \in [Slots -> Frame \cup {NoFrame}]
  BY DEF IInv, TypeOK, RearAfterFront
<1>2. /\ Advance(rear) \in Slots
      /\ Advance(rear) = IF rear = MAX_QUEUE - 1 THEN 0 ELSE rear + 1
  BY <1>1, AdvanceStep
<1>3. slot'[Advance(rear)] = f /\ \A i \in Slots : i # Advance(rear) => slot'[i] = slot[i]
  BY <1>0, <1>1, <1>2
<1>4. front = -1 /\ rear = MAX_QUEUE - 1 => Waiting = MAX_QUEUE /\ Waiting' = 1
  BY <1>0, <1>2, QueueAssumption DEF Waiting
<1>5. ASSUME ~(front = -1 /\ rear = MAX_QUEUE - 1)
      PROVE  /\ Waiting' = Waiting + 1
             /\ Waiting < MAX_QUEUE - 1 \/ (front = -1 /\ Waiting < MAX_QUEUE)
             /\ \A k \in 1 .. Waiting : Turn(front + k) # Advance(rear)
  BY <1>0, <1>1, <1>2, <1>5, QueueAssumption DEF Waiting, Turn, Slots
<1>6. Turn(front + Waiting') = Advance(rear)
  BY <1>0, <1>1, <1>2, QueueAssumption DEF Waiting, Turn, Slots
<1> QED  BY <1>3, <1>4, <1>5, <1>6

\* Taking a frame shortens the waiting slots by their oldest.
LEMMA TakeWaiting ==
    ASSUME IInv, WSM_TxTimerThread
    PROVE  /\ Waiting > 0
           /\ Waiting' = Waiting - 1
           /\ front' \in Slots
           /\ sent' = slot[Turn(front + 1)]
           /\ \A k \in 1 .. Waiting - 1 : Turn(front' + k) = Turn(front + (k + 1))
<1>0. /\ front # rear /\ front' = Advance(front) /\ rear' = rear
      /\ sent' = slot[Advance(front)]
  BY DEF WSM_TxTimerThread, IsEmpty
<1>1. /\ front \in Slots \cup {-1} /\ rear \in Slots \cup {-1}
      /\ rear = -1 => front = -1
  BY DEF IInv, TypeOK, RearAfterFront
<1>2. /\ Advance(front) \in Slots
      /\ Advance(front) = Turn(front + 1)
      /\ Advance(front) = IF front = MAX_QUEUE - 1 THEN 0 ELSE front + 1
  BY <1>1, AdvanceStep
<1> QED  BY <1>0, <1>1, <1>2, QueueAssumption DEF Waiting, Turn, Slots

-----------------------------------------------------------------------------
\* Every operation keeps the indices in range and the waiting slots filled.
LEMMA StepInvariant == IInv /\ [Next]_queueVars => IInv'
<1> SUFFICES ASSUME IInv, [Next]_queueVars PROVE IInv'
  OBVIOUS
<1> USE QueueAssumption
<1>1. /\ TypeOK /\ RearAfterFront /\ WaitingSlotsFilled
      /\ front \in Slots \cup {-1} /\ rear \in Slots \cup {-1}
      /\ \A k \in 1 .. Waiting : Turn(front + k) \in Slots
  BY WaitingBounds DEF IInv, TypeOK
<1>2. ASSUME NEW f \in Frame, addq(f) PROVE IInv'
  <2>1. CASE IsFull
    BY <1>1, <1>2, <2>1
       DEF addq, queueVars, IInv, TypeOK, RearAfterFront, WaitingSlotsFilled, Waiting
  <2>2. CASE ~IsFull
    <3>1. Advance(rear) \in Slots
      BY <1>1, AdvanceStep
    <3>2. /\ front' = front /\ rear' = Advance(rear) /\ sent' = sent
          /\ slot' = [slot EXCEPT ![Advance(rear)] = f]
      BY <1>2, <2>2 DEF addq
    <3>3. TypeOK' /\ RearAfterFront'
      BY <1>1, <3>1, <3>2 DEF TypeOK, RearAfterFront, Slots
    <3>4. ASSUME NEW k \in 1 .. Waiting' PROVE slot'[Turn(front + k)] \in Frame
      <4>1. k = Waiting' \/ k \in 1 .. Waiting
        BY <1>2, <2>2, AddWaiting, WaitingBounds, <1>1
      <4>2. CASE k = Waiting'
        BY <1>2, <2>2, <4>2, AddWaiting
      <4>3. CASE k \in 1 .. Waiting /\ k # Waiting'
        <5>1. ~(front = -1 /\ rear = MAX_QUEUE - 1)
          BY <1>2, <2>2, <4>3, <3>4, AddWaiting
        <5>2. Turn(front + k) # Advance(rear)
          BY <1>2, <2>2, <4>3, <5>1, AddWaiting
        <5> QED  BY <1>1, <1>2, <2>2, <4>3, <5>2, AddWaiting DEF WaitingSlotsFilled
      <4> QED  BY <4>1, <4>2, <4>3
    <3>5. WaitingSlotsFilled'
      BY <3>2, <3>4 DEF WaitingSlotsFilled, Turn
    <3> QED  BY <3>3, <3>5 DEF IInv
  <2> QED  BY <2>1, <2>2
<1>3. ASSUME WSM_TxTimerThread PROVE IInv'
  <2>1. /\ Waiting > 0 /\ Waiting' = Waiting - 1 /\ front' \in Slots
        /\ sent' = slot[Turn(front + 1)]
        /\ \A k \in 1 .. Waiting - 1 : Turn(front' + k) = Turn(front + (k + 1))
    BY <1>3, TakeWaiting
  <2>2. rear' = rear /\ slot' = slot
    BY <1>3 DEF WSM_TxTimerThread
  <2>3. rear # -1 /\ Waiting \in Nat
    BY <1>1, <2>1, WaitingBounds DEF RearAfterFront, Waiting
  <2>4. TypeOK' /\ RearAfterFront'
    BY <1>1, <2>1, <2>2, <2>3 DEF TypeOK, RearAfterFront
  <2>5. ASSUME NEW k \in 1 .. Waiting' PROVE slot'[Turn(front' + k)] \in Frame
    <3>1. k + 1 \in 1 .. Waiting /\ k \in 1 .. Waiting - 1
      BY <2>1, <2>3
    <3> QED  BY <1>1, <2>1, <2>2, <3>1 DEF WaitingSlotsFilled
  <2> QED  BY <2>4, <2>5 DEF IInv, WaitingSlotsFilled, Turn
<1>4. ASSUME Init_Q PROVE IInv'
  BY <1>1, <1>4
     DEF Init_Q, IInv, TypeOK, RearAfterFront, WaitingSlotsFilled, Waiting, Slots
<1>5. CASE UNCHANGED queueVars
  BY <1>1, <1>5
     DEF queueVars, IInv, TypeOK, RearAfterFront, WaitingSlotsFilled, Waiting
<1> QED  BY <1>2, <1>3, <1>4, <1>5 DEF Next

LEMMA InitInvariant == Init => IInv
  BY QueueAssumption
     DEF Init, IInv, TypeOK, RearAfterFront, WaitingSlotsFilled, Waiting, Slots

LEMMA Invariance == Spec => []IInv
<1> QED  BY InitInvariant, StepInvariant, PTL DEF Spec

\* The indices never leave the ring and every slot holds a frame or zeroes,
\* whatever the order of addq, Init_Q and timer expiries.
THEOREM TypeCorrect == Spec => []TypeOK
<1>1. IInv => TypeOK
  BY DEF IInv
<1> QED  BY <1>1, Invariance, PTL

\* The transmit timer never hands an unused slot to the radio.
THEOREM OnlyFilledSlotsSent == Spec => []WaitingSlotsFilled
<1>1. IInv => WaitingSlotsFilled
  BY DEF IInv
<1> QED  BY <1>1, Invariance, PTL

-----------------------------------------------------------------------------
\* A step of the ring is a step of the frame queue, or changes nothing of it.
LEMMA StepRefinement ==
    IInv /\ IInv' /\ [Next]_queueVars => [Fifo!FifoNext]_Fifo!fifoVars
<1> SUFFICES ASSUME IInv, IInv', [Next]_queueVars
             PROVE  [Fifo!FifoNext]_Fifo!fifoVars
  OBVIOUS
<1> USE QueueAssumption
<1>0. WindowShape'
  BY WindowIsSeq, PTL
<1>1. /\ Window \in Seq(Frame) /\ Len(Window) = Waiting
      /\ DOMAIN Window = 1 .. Waiting
      /\ \A k \in 1 .. Waiting : Window[k] = slot[Turn(front + k)]
  BY WindowIsSeq DEF WindowShape
<1>2. /\ Window' \in Seq(Frame) /\ Len(Window') = Waiting'
      /\ \A k \in 1 .. Waiting' : Window'[k] = slot'[Turn(front' + k)]
  BY <1>0 DEF WindowShape, Turn
<1>3. Waiting \in 0 .. MAX_QUEUE /\ \A k \in 1 .. Waiting : Turn(front + k) \in Slots
  BY WaitingBounds DEF IInv
<1>4. ASSUME NEW f \in Frame, addq(f)
      PROVE  [Fifo!FifoNext]_Fifo!fifoVars
  <2>1. CASE IsFull
    BY <1>4, <2>1 DEF addq, queueVars, Fifo!fifoVars, Window, Waiting
  <2>2. CASE ~IsFull
    <3>0. front' = front /\ sent' = sent
      BY <1>4, <2>2 DEF addq
    <3>1. CASE front = -1 /\ rear = MAX_QUEUE - 1
      <4>1. Waiting = MAX_QUEUE /\ Waiting' = 1 /\ Window'[1] = f
        BY <1>2, <1>4, <2>2, <3>0, <3>1, AddWaiting
      <4>2. Window' = <<f>>
        BY <1>2, <4>1
      <4>3. Fifo!Wrap(f)
        BY <1>1, <3>0, <3>1, <4>1, <4>2 DEF Fifo!Wrap
      <4> QED  BY <4>3 DEF Fifo!FifoNext
    <3>2. CASE ~(front = -1 /\ rear = MAX_QUEUE - 1)
      <4>1. /\ Waiting' = Waiting + 1
            /\ Waiting < MAX_QUEUE - 1 \/ (front = -1 /\ Waiting < MAX_QUEUE)
            /\ \A k \in 1 .. Waiting : Turn(front + k) # Advance(rear)
        BY <1>4, <2>2, <3>2, AddWaiting
      <4>2. Window'[Waiting + 1] = f
        BY <1>2, <1>3, <1>4, <2>2, <3>0, <4>1, AddWaiting
      <4>3. \A k \in 1 .. Waiting : Window'[k] = Window[k]
        BY <1>1, <1>2, <1>3, <1>4, <2>2, <3>0, <4>1, AddWaiting
      <4>4. Window' = Append(Window, f)
        BY <1>1, <1>2, <1>3, <4>1, <4>2, <4>3
      <4>5. Fifo!Put(f)
        BY <1>1, <3>0, <4>1, <4>4 DEF Fifo!Put
      <4> QED  BY <4>5 DEF Fifo!FifoNext
    <3> QED  BY <3>1, <3>2
  <2> QED  BY <2>1, <2>2
<1>5. ASSUME WSM_TxTimerThread
      PROVE  [Fifo!FifoNext]_Fifo!fifoVars
  <2>1. /\ Waiting > 0 /\ Waiting' = Waiting - 1 /\ front' \in Slots
        /\ sent' = slot[Turn(front + 1)]
        /\ \A k \in 1 .. Waiting - 1 : Turn(front' + k) = Turn(front + (k + 1))
    BY <1>5, TakeWaiting
  <2>2. slot' = slot
    BY <1>5 DEF WSM_TxTimerThread
  <2>3. Window # << >> /\ sent' = Head(Window)
    BY <1>1, <1>3, <2>1
  <2>4. \A k \in 1 .. Waiting' : Window'[k] = Window[k + 1]
    BY <1>1, <1>2, <1>3, <2>1, <2>2
  <2>5. Window' = Tail(Window)
    BY <1>1, <1>2, <1>3, <2>1, <2>3, <2>4
  <2>6. (front # -1)' = TRUE
    BY <2>1 DEF Slots
  <2>7. Fifo!Take
    BY <2>3, <2>5, <2>6 DEF Fifo!Take
  <2> QED  BY <2>7 DEF Fifo!FifoNext
<1>6. ASSUME Init_Q
      PROVE  [Fifo!FifoNext]_Fifo!fifoVars
  <2>1. front' = -1 /\ rear' = -1 /\ sent' = sent
    BY <1>6 DEF Init_Q
  <2>2. Waiting' = 0
    BY <2>1 DEF Waiting
  <2>3. Window' = << >>
    BY <1>2, <2>2
  <2>4. Fifo!Clear
    BY <2>1, <2>3 DEF Fifo!Clear
  <2> QED  BY <2>4 DEF Fifo!FifoNext
<1>7. CASE UNCHANGED queueVars
  BY <1>7 DEF queueVars, Fifo!fifoVars, Window, Waiting
<1> QED  BY <1>4, <1>5, <1>6, <1>7 DEF Next

LEMMA InitRefinement == Init => Fifo!FifoInit
<1> SUFFICES ASSUME Init PROVE Fifo!FifoInit
  OBVIOUS
<1>1. Waiting = 0 /\ IInv
  BY InitInvariant DEF Init, Waiting
<1>2. Window = << >>
  BY <1>1, WindowIsSeq DEF WindowShape
<1> QED  BY <1>2 DEF Init, Fifo!FifoInit

\* The ring of mesh_extern.c implements the frame queue its callers take it
\* for, whatever the number of slots.
THEOREM RingImplementsFifo == Spec => ImplementsFifo
<1> QED
  BY InitRefinement, StepRefinement, Invariance, PTL
     DEF Spec, ImplementsFifo, Fifo!FifoSpec
=============================================================================
