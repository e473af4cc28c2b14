------------------------------- MODULE TxQueue -------------------------------
(* The ring of frames between the protocol handlers and the transmit timer   *)
(* (tx_queue in mesh_extern.h, the operations of mesh_extern.c), with each   *)
(* operation executed as a whole.  TxPath takes the same operations apart    *)
(* and interleaves them.  A frame is one value: its bytes, its length, its   *)
(* unicast flag and its interface are copied together.                       *)
EXTENDS Integers, Sequences

CONSTANTS MAX_QUEUE,   \* slots of the ring, 20 in the code
          Frame,       \* the frames the handlers may enqueue
          NoFrame      \* the content of a slot that holds only zeroes

ASSUME QueueAssumption == MAX_QUEUE \in Nat /\ MAX_QUEUE >= 2
ASSUME FrameAssumption == NoFrame \notin Frame

VARIABLES front,       \* tq.front: the slot last taken, -1 before the first
          rear,        \* tq.rear: the slot last filled
          slot,        \* tq.buff, tq.len, tq.unicast and tq.if_num
          sent         \* the frame last handed to WAL_TransmitMPDU

queueVars == <<front, rear, slot, sent>>

Slots == 0 .. MAX_QUEUE - 1

\* tq is a global: all zeroes until rt_table_init calls Init_Q.
Init ==
    /\ \/ front = 0 /\ rear = 0
       \/ front = -1 /\ rear = -1
    /\ slot = [i \in Slots |-> NoFrame]
    /\ sent = NoFrame

Advance(i) == (i + 1) % MAX_QUEUE

IsEmpty == front = rear

\* A mutation: the first slot kept free is no longer kept free.
IsFullNever == FALSE

IsFull == Advance(rear) = front

Init_Q ==
    /\ front' = -1
    /\ rear' = -1
    /\ slot' = [i \in Slots |-> NoFrame]
    /\ UNCHANGED sent

\* A mutation: the index runs on instead of wrapping.
addqNoWrap(f) ==
    /\ ~IsFull
    /\ rear' = rear + 1
    /\ slot' = [slot EXCEPT ![rear + 1] = f]
    /\ UNCHANGED <<front, sent>>

addq(f) ==
    IF IsFull
    THEN UNCHANGED queueVars
    ELSE /\ rear' = Advance(rear)
         /\ slot' = [slot EXCEPT ![Advance(rear)] = f]
         /\ UNCHANGED <<front, sent>>

\* A mutation: the timer thread takes a slot without looking for one.
TxTimerThreadUnchecked ==
    /\ front' = Advance(front)
    /\ sent' = slot[Advance(front)]
    /\ UNCHANGED <<rear, slot>>

\* The transmit timer expires: deleteq, then the slot front now names is sent.
WSM_TxTimerThread ==
    /\ ~IsEmpty
    /\ front' = Advance(front)
    /\ sent' = slot[Advance(front)]
    /\ UNCHANGED <<rear, slot>>

Next ==
    \/ \E f \in Frame : addq(f)
    \/ WSM_TxTimerThread
    \/ Init_Q

Spec == Init /\ [][Next]_queueVars
-----------------------------------------------------------------------------
\* The slots that hold waiting frames, oldest first.

Turn(i) == IF i >= MAX_QUEUE THEN i - MAX_QUEUE ELSE i

Waiting == IF rear < front THEN rear - front + MAX_QUEUE ELSE rear - front

Window == [k \in 1 .. Waiting |-> slot[Turn(front + k)]]

-----------------------------------------------------------------------------
\* front and rear name slots of the ring, or none before the first frame.
TypeOK ==
    /\ front \in Slots \cup {-1}
    /\ rear \in Slots \cup {-1}
    /\ slot \in [Slots -> Frame \cup {NoFrame}]
    /\ sent \in Frame \cup {NoFrame}

\* A ring that has been used never steps back behind its first slot.
RearAfterFront == rear = -1 => front = -1

\* Every waiting slot holds a frame some handler put there, and so the timer
\* thread never hands the zeroes of an unused slot to the radio
\* (wsm-tx.c:47-56 reads the slot that deleteq has just moved front to).
WaitingSlotsFilled == \A k \in 1 .. Waiting : slot[Turn(front + k)] \in Frame

\* The ring is the frame queue its callers take it for: first in first out,
\* a frame refused when MAX_QUEUE - 1 wait, and - only until the first frame
\* has left - the 21st frame replacing the 20 that wait (mesh_extern.c:57-79:
\* with front = -1 IsFull never holds).
Fifo == INSTANCE FrameFifo
            WITH Capacity <- MAX_QUEUE,
                 pending <- Window,
                 primed <- front # -1,
                 out <- sent

ImplementsFifo == Fifo!FifoSpec
=============================================================================
