-------------------------------- MODULE TxPath --------------------------------
(* The transmit path of one node, step by step.  The receive callback and    *)
(* the Hello_Rann thread build frames and call addq; two POSIX timers start  *)
(* a thread each, every 50 ms, that calls deleteq and transmits; the command *)
(* thread clears the queue (menu 7) and re-creates the timers (menu 8).      *)
(* Nothing is locked, and the program is built without optimisation: every   *)
(* access to tq, dest_mac_addr and g_payload is a load or store of its own.  *)
(*                                                                           *)
(* The ring is meant for one writer and one reader, and every initialisation *)
(* creates two timers of one period.  The model follows all interleavings;   *)
(* "harm" records when two accesses first conflict, see Harm, and with Stop  *)
(* set the model ends there: a thread that goes on may transmit the slot of  *)
(* another one, or fill one that is in use, and there is no queue any more.  *)
(*                                                                           *)
(* dest_mac_addr is one variable for all frames.  It is written before a     *)
(* unicast frame is queued and read when the frame is sent.  The reply to a  *)
(* PREQ writes it twice (aodv.c:772, then 795 or 803); the report of a death *)
(* writes it although it is queued as a broadcast (874, 879), and once more, *)
(* with a byte of a pointer, after it has been queued (1143).  The copy of   *)
(* its six bytes is one step here.                                           *)
EXTENDS Integers, Sequences, FiniteSets

CONSTANTS MAX_QUEUE, Frame, NoFrame,
          Handler,     \* the threads that build frames
          Menu,        \* the command thread
          First,       \* the address a frame writes before its next hop, if any
          Hop,         \* the next hop a frame writes, if any
          Report,      \* the reports of a death (PERR_UNI)
          Bcast,       \* g_mib.tx_dst_mac_addr; in First and Hop: writes none
          Garbage,     \* what line 1143 leaves in dest_mac_addr
          Lost,        \* the frame was not handed over: no MPDU was built
          MaxTimer,    \* bound: timers ever created
          MaxClear,    \* bound: uses of menu 7
          Stop         \* bound: nothing happens after the first harm

ASSUME QueueAssumption == MAX_QUEUE \in Nat /\ MAX_QUEUE >= 2
ASSUME FrameAssumption == NoFrame \notin Frame
ASSUME TimerAssumption == MaxTimer \in Nat /\ MaxTimer >= 2 /\ MaxClear \in Nat
                           /\ Stop \in BOOLEAN
ASSUME ThreadAssumption == Handler \cap (1 .. MaxTimer) = {}
                           /\ Menu \notin Handler \cup (1 .. MaxTimer)

VARIABLES
    front, rear, slot,   \* tq
    dest_mac,            \* dest_mac_addr
    payload,             \* g_payload, shared by the timer threads
    out,                 \* the frame that last left a timer thread and its address
    live,                \* the timers that exist
    g_tx_timer,          \* the handle: the timer created last
    open,                \* the V2X libraries are initialised
    pc, idx, arg,        \* per thread: its next step, its index, its frame or address
    clears,
    built,               \* history: the frames built
    wrote,               \* history: the writes of dest_mac_addr, oldest first
    harm                 \* history: two accesses have conflicted, see Harm

vars == <<front, rear, slot, dest_mac, payload, out, live, g_tx_timer, open, pc,
          idx, arg, clears, built, wrote, harm>>

Slots == 0 .. MAX_QUEUE - 1
Timer == 1 .. MaxTimer
Thread == Handler \cup Timer \cup {Menu}
Unicast(f) == Hop[f] # Bcast /\ f \notin Report
EmptySlot == [buf |-> NoFrame, uni |-> FALSE]

Init ==
    /\ front = -1 /\ rear = -1
    /\ slot = [i \in Slots |-> EmptySlot]
    /\ dest_mac = Bcast
    /\ payload = NoFrame
    /\ out = [frame |-> NoFrame, dst |-> Bcast]
    /\ live = {1, 2} /\ g_tx_timer = 2 /\ open = TRUE
    /\ pc = [t \in Thread |-> "idle"]
    /\ idx = [t \in Thread |-> 0]
    /\ arg = [t \in Thread |-> NoFrame]
    /\ clears = 0
    /\ built = {}
    /\ wrote = << >>
    /\ harm = FALSE

Go(t, now, next) ==
    /\ pc[t] = now
    /\ pc' = [pc EXCEPT ![t] = next]

ring == <<front, rear, slot>>
timers == <<live, g_tx_timer, open>>
dests == <<dest_mac, wrote>>
-----------------------------------------------------------------------------
\* A handler builds a frame and calls addq.

Advance(i) == (i + 1) % MAX_QUEUE

WriteDest(f, a) ==
    /\ dest_mac' = a
    /\ wrote' = Append(wrote, [frame |-> f, addr |-> a])

\* A frame that writes no address, and one that writes its next hop only.
BuildPlain(h, f) ==
    /\ First[f] = Bcast
    /\ Go(h, "idle", "full?")
    /\ IF Hop[f] = Bcast THEN UNCHANGED dests ELSE WriteDest(f, Hop[f])

\* The reply to a PREQ writes the address of the sender of the PREQ first.
BuildReply(h, f) ==
    /\ First[f] # Bcast
    /\ Go(h, "idle", "hop")
    /\ WriteDest(f, First[f])

Build(h, f) ==
    /\ f \notin built
    /\ BuildPlain(h, f) \/ BuildReply(h, f)
    /\ arg' = [arg EXCEPT ![h] = f]
    /\ built' = built \cup {f}
    /\ UNCHANGED <<ring, payload, out, timers, idx, clears>>

WriteHop(h) ==
    /\ Go(h, "hop", "full?")
    /\ WriteDest(arg[h], Hop[arg[h]])
    /\ UNCHANGED <<ring, payload, out, timers, idx, arg, clears, built>>

\* Where the handler goes when addq returns.
Done(h) == IF arg[h] \in Report THEN "garble" ELSE "idle"

IsFull(h) ==
    /\ Go(h, "full?", IF Advance(rear) = front THEN Done(h) ELSE "load")
    /\ arg' = IF Advance(rear) = front THEN [arg EXCEPT ![h] = NoFrame] ELSE arg
    /\ UNCHANGED <<ring, dests, payload, out, timers, idx, clears, built>>

LoadRear(h) ==
    /\ Go(h, "load", "store")
    /\ idx' = [idx EXCEPT ![h] = rear]
    /\ UNCHANGED <<ring, dests, payload, out, timers, arg, clears, built>>

StoreRear(h) ==
    /\ Go(h, "store", "buff")
    /\ rear' = Advance(idx[h])
    /\ idx' = [idx EXCEPT ![h] = 0]
    /\ UNCHANGED <<front, slot, dests, payload, out, timers, arg, clears, built>>

\* Mutant: the frame goes to the slot after the one rear names.
FillBuffLate(h) ==
    /\ Go(h, "buff", "unicast")
    /\ slot' = [slot EXCEPT ![Advance(rear)].buf = arg[h]]
    /\ UNCHANGED <<front, rear, dests, payload, out, timers, idx, arg, clears, built>>

\* len and buff, then unicast and if_num, each at the slot rear names now.
FillBuff(h) ==
    /\ Go(h, "buff", "unicast")
    /\ slot' = IF rear \in Slots THEN [slot EXCEPT ![rear].buf = arg[h]] ELSE slot
    /\ UNCHANGED <<front, rear, dests, payload, out, timers, idx, arg, clears, built>>

FillUnicast(h) ==
    /\ Go(h, "unicast", Done(h))
    /\ slot' = IF rear \in Slots THEN [slot EXCEPT ![rear].uni = Unicast(arg[h])] ELSE slot
    /\ arg' = [arg EXCEPT ![h] = NoFrame]
    /\ UNCHANGED <<front, rear, dests, payload, out, timers, idx, clears, built>>
\* Perr_unicast, after addq has queued the report or found the ring full.
Garble(h) ==
    /\ Go(h, "garble", "idle")
    /\ WriteDest(NoFrame, Garbage)
    /\ UNCHANGED <<ring, payload, out, timers, idx, arg, clears, built>>
-----------------------------------------------------------------------------
\* A timer expires.

\* Mutant: the last frame is left in the queue.
ExpireTwo(t) ==
    /\ t \in live /\ front # rear /\ Advance(front) # rear
    /\ Go(t, "idle", "empty?")
    /\ UNCHANGED <<ring, dests, payload, out, timers, idx, arg, clears, built>>

\* WSM_TxTimerThread starts; an empty queue ends it at once.
Expire(t) ==
    /\ t \in live /\ front # rear
    /\ Go(t, "idle", "empty?")
    /\ UNCHANGED <<ring, dests, payload, out, timers, idx, arg, clears, built>>

\* deleteq looks again; if the queue is empty by now, the slot front names is
\* transmitted all the same.
IsEmpty(t) ==
    /\ Go(t, "empty?", IF front = rear THEN "copy" ELSE "load")
    /\ UNCHANGED <<ring, dests, payload, out, timers, idx, arg, clears, built>>

LoadFront(t) ==
    /\ Go(t, "load", "store")
    /\ idx' = [idx EXCEPT ![t] = front]
    /\ UNCHANGED <<ring, dests, payload, out, timers, arg, clears, built>>

StoreFront(t) ==
    /\ Go(t, "store", "copy")
    /\ front' = Advance(idx[t])
    /\ idx' = [idx EXCEPT ![t] = 0]
    /\ UNCHANGED <<rear, slot, dests, payload, out, timers, arg, clears, built>>

\* A cleared ring has front -1: what precedes tq.buff is copied, no frame.
At(i) == IF i \in Slots THEN slot[i] ELSE EmptySlot

Copy(t) ==
    /\ Go(t, "copy", "address")
    /\ payload' = At(front).buf
    /\ UNCHANGED <<ring, dests, out, timers, idx, arg, clears, built>>

\* Mutant: every frame is addressed like a broadcast.
AddressBcast(t) ==
    /\ Go(t, "address", "send")
    /\ arg' = [arg EXCEPT ![t] = Bcast]
    /\ UNCHANGED <<ring, dests, payload, out, timers, idx, clears, built>>

Address(t) ==
    /\ Go(t, "address", "send")
    /\ arg' = [arg EXCEPT ![t] = IF At(front).uni THEN dest_mac ELSE Bcast]
    /\ UNCHANGED <<ring, dests, payload, out, timers, idx, clears, built>>

\* The MPDU is built from g_payload and transmitted; when it cannot be built,
\* the frame, which has left the queue, is lost.
Send(t) ==
    /\ Go(t, "send", "idle")
    /\ \E dst \in {arg[t], Lost} : out' = [frame |-> payload, dst |-> dst]
    /\ arg' = [arg EXCEPT ![t] = NoFrame]
    /\ UNCHANGED <<ring, dests, payload, timers, idx, clears, built>>
-----------------------------------------------------------------------------
\* The command thread.

\* Menu 7: Init_Q.
Clear ==
    /\ clears < MaxClear
    /\ Go(Menu, "idle", "front")
    /\ clears' = clears + 1
    /\ UNCHANGED <<ring, dests, payload, out, timers, idx, arg, built>>

ClearFront ==
    /\ Go(Menu, "front", "rear")
    /\ front' = -1
    /\ UNCHANGED <<rear, slot, dests, payload, out, timers, idx, arg, clears, built>>

ClearRear ==
    /\ Go(Menu, "rear", "slots")
    /\ rear' = -1
    /\ UNCHANGED <<front, slot, dests, payload, out, timers, idx, arg, clears, built>>

ClearSlots ==
    /\ Go(Menu, "slots", "idle")
    /\ slot' = [i \in Slots |-> EmptySlot]
    /\ UNCHANGED <<front, rear, dests, payload, out, timers, idx, arg, clears, built>>

\* Menu 8, Reset: the timer of the handle is deleted, a running thread of it
\* goes on; then two timers are created.
WSM_ReleaseTxOperation ==
    /\ open
    /\ g_tx_timer + 2 <= MaxTimer
    /\ live' = live \ {g_tx_timer}
    /\ open' = FALSE
    /\ UNCHANGED <<ring, dests, payload, out, g_tx_timer, pc, idx, arg, clears, built>>

WSM_InitTxOperation ==
    /\ ~open
    /\ live' = live \cup {g_tx_timer + 1, g_tx_timer + 2}
    /\ g_tx_timer' = g_tx_timer + 2
    /\ open' = TRUE
    /\ UNCHANGED <<ring, dests, payload, out, pc, idx, arg, clears, built>>
-----------------------------------------------------------------------------
AddqStep(h) ==
    \/ WriteHop(h) \/ IsFull(h) \/ LoadRear(h) \/ StoreRear(h)
    \/ FillBuff(h) \/ FillUnicast(h) \/ Garble(h)

TimerStep(t) ==
    IsEmpty(t) \/ LoadFront(t) \/ StoreFront(t) \/ Copy(t) \/ Address(t) \/ Send(t)

MenuStep == ClearFront \/ ClearRear \/ ClearSlots \/ WSM_InitTxOperation

\* The slot a handler has reserved and not yet filled.
Filling(h) == pc[h] \in {"buff", "unicast"}

\* What each slot holds or is about to hold.
Seen ==
    [i \in Slots |-> IF i = rear /\ \E h \in Handler : Filling(h)
                     THEN arg[CHOOSE h \in Handler : Filling(h)]
                     ELSE slot[i].buf]

\* From the load of an index to the last use of it.
Adding(h) == pc[h] \in {"store", "buff", "unicast"}
Taking(t) == pc[t] \in {"store", "copy", "address", "send"}

\* Two accesses conflict: two handlers hold a copy of rear or fill a slot, two
\* timer threads hold a copy of front or what it named; the ring is cleared
\* under either; the ring a handler found not full is full, or the one a timer
\* thread found not empty is empty; a slot is read that is still being filled.
\* Threads that are under way together and do none of this are not in conflict.
Harm ==
    \/ \E g, h \in Handler : g # h /\ Adding(g) /\ Adding(h)
    \/ \E s, t \in Timer : s # t /\ Taking(s) /\ Taking(t)
    \/ pc[Menu] # "idle" /\ \E t \in Handler : pc[t] = "load" \/ Adding(t)
    \/ pc[Menu] # "idle" /\ \E t \in Timer : pc[t] = "load" \/ Taking(t)
    \/ \E h \in Handler : pc[h] \in {"load", "store"} /\ Advance(rear) = front
    \/ \E t \in Timer : pc[t] \in {"empty?", "load", "store"} /\ front = rear
    \/ \E h \in Handler, t \in Timer :
          Filling(h) /\ pc[t] \in {"address", "send"} /\ front = rear

Next ==
    /\ ~(Stop /\ harm)
    /\ \/ \E h \in Handler : (\E f \in Frame : Build(h, f)) \/ AddqStep(h)
       \/ \E t \in Timer : Expire(t) \/ TimerStep(t)
       \/ Clear \/ MenuStep \/ WSM_ReleaseTxOperation
    /\ harm' = (harm \/ Harm')

\* Timers expire again and again, and of their threads some one goes on.  Nothing
\* makes a handler build a frame, or go on, or the operator type.
Fairness == WF_vars((\E t \in Timer : Expire(t) \/ TimerStep(t)) /\ Next)

Spec == Init /\ [][Next]_vars

FairSpec == Spec /\ Fairness
-----------------------------------------------------------------------------
\* The frames in the ring, oldest first.
Turn(i) == IF i >= MAX_QUEUE THEN i - MAX_QUEUE ELSE i

Waiting == IF rear < front THEN rear - front + MAX_QUEUE ELSE rear - front

Pending == IF pc[Menu] \in {"rear", "slots"} THEN << >>
           ELSE [k \in 1 .. Waiting |-> Seen[Turn(front + k)]]

\* A frame between StoreFront and Send is the one that left last.
Leaving == IF \E t \in Timer : pc[t] \in {"copy", "address", "send"}
           THEN Seen[front] ELSE out.frame

\* Until two accesses conflict the unlocked ring is the queue its callers take
\* it for, although several threads are under way in it, a handler moves rear
\* before it fills the slot (mesh_extern.c:71-75) and a timer thread moves front
\* before it reads one (wsm-tx.c:47-56): the frame that leaves is the one that
\* waited longest, with the content it was queued with.
Fifo == INSTANCE FrameFifo
            WITH Capacity <- MAX_QUEUE, pending <- Pending,
                 primed <- front # -1, out <- Leaving

PathIsFifo == Fifo!FifoSpec

SinceOwn(f, dst) ==
    \E j, k \in DOMAIN wrote :
        j <= k /\ wrote[j] = [frame |-> f, addr |-> Hop[f]] /\ dst = wrote[k].addr

\* A unicast frame leaves for the address dest_mac_addr was given for it or for
\* one written after that, for whatever frame and by whatever thread: never for
\* an earlier one, and never for everyone (wsm-tx.c:76-78).  That it leaves for its
\* own ("DA -NextHop", aodv.c:795) does not hold: what is written after it may be
\* the address of the next frame, the originator's of a reply or garbage.
UnicastToOwnOrLater ==
    ~harm /\ out.frame # NoFrame /\ Unicast(out.frame) /\ out.dst # Lost =>
        SinceOwn(out.frame, out.dst)

\* A frame in the ring does not stay there: while a timer exists that the
\* program still knows or has forgotten, every frame leaves or is cleared.
Drains ==
    \A f \in Frame : (f \in {Pending[k] : k \in DOMAIN Pending})
                         ~> (f \notin {Pending[k] : k \in DOMAIN Pending} \/ harm)
=============================================================================
