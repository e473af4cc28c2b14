----------------------------- MODULE TxPathProofs -----------------------------
(* Proofs about the transmit path, for every ring size, every number of      *)
(* handlers and timers and every set of frames.                              *)
EXTENDS TxPath, SequenceTheorems, TLAPS

\* A handler that has written the addresses of its frame, before addq returns.
Queueing == {"full?", "load", "store", "buff", "unicast"}

HandlerPc == {"idle", "hop", "garble"} \cup Queueing
TimerPc == {"idle", "empty?", "load", "store", "copy", "address", "send"}
MenuPc == {"idle", "front", "rear", "slots"}

Contents == Frame \cup {NoFrame}

Dst == {Bcast, Garbage} \cup {Hop[f] : f \in Frame} \cup {First[f] : f \in Frame}

TypeInv ==
    /\ front \in Slots \cup {-1} /\ rear \in Slots \cup {-1}
    /\ slot \in [Slots -> [buf : Contents, uni : BOOLEAN]]
    /\ payload \in Contents
    /\ pc \in [Thread -> HandlerPc \cup TimerPc \cup MenuPc]
    /\ \A h \in Handler : pc[h] \in HandlerPc
    /\ \A t \in Timer : pc[t] \in TimerPc
    /\ pc[Menu] \in MenuPc
    /\ idx \in [Thread -> Slots \cup {-1}]
    /\ arg \in [Thread -> Contents \cup Dst] /\ dest_mac \in Dst
    /\ wrote \in Seq([frame : Contents, addr : Dst])

HandlerInv ==
    \A h \in Handler :
        /\ pc[h] \in Queueing \cup {"hop"} => arg[h] \in Frame
        /\ pc[h] = "store" => idx[h] = rear
        /\ Filling(h) => rear # -1
        /\ pc[h] = "unicast" => slot[rear].buf = arg[h]

TimerInv ==
    \A t \in Timer :
        /\ pc[t] = "store" => idx[t] = front
        /\ pc[t] \in {"copy", "address", "send"} => front # -1
        /\ pc[t] \in {"address", "send"} => payload = slot[front].buf

MenuInv ==
    /\ rear = -1 => front = -1
    /\ pc[Menu] \in {"rear", "slots"} => front = -1
    /\ pc[Menu] = "slots" => rear = -1

RingInv == HandlerInv /\ TimerInv /\ MenuInv

Written(w, f) == \E j \in DOMAIN w : w[j] = [frame |-> f, addr |-> Hop[f]]

SentOn(w, f, dst) ==
    \E j, k \in DOMAIN w :
        j <= k /\ w[j] = [frame |-> f, addr |-> Hop[f]] /\ dst = w[k].addr

\* What waits has its address written, and says whether it is a unicast frame.
SlotsBuilt ==
    \A i \in Slots : slot[i].buf # NoFrame =>
        /\ Unicast(slot[i].buf) => Written(wrote, slot[i].buf)
        /\ \/ slot[i].uni = Unicast(slot[i].buf)
           \/ i = rear /\ \E h \in Handler : pc[h] = "unicast"

DestLatest == wrote # << >> => dest_mac = wrote[Len(wrote)].addr

DataInv ==
    /\ SlotsBuilt
    /\ DestLatest
    /\ \A h \in Handler : pc[h] \in Queueing /\ Unicast(arg[h]) => Written(wrote, arg[h])
    /\ \A t \in Timer : pc[t] = "send" /\ payload # NoFrame /\ Unicast(payload) =>
                            SentOn(wrote, payload, arg[t])
    /\ out.frame # NoFrame /\ Unicast(out.frame) /\ out.dst # Lost =>
           SentOn(wrote, out.frame, out.dst)

\* What ~Harm says of one thread beside another.
Quiet ==
    /\ \A g, h \in Handler : Adding(g) /\ Adding(h) => g = h
    /\ \A s, t \in Timer : Taking(s) /\ Taking(t) => s = t
    /\ \A h \in Handler : pc[h] = "load" \/ Adding(h) => pc[Menu] = "idle"
    /\ \A t \in Timer : pc[t] = "load" \/ Taking(t) => pc[Menu] = "idle"
    /\ \A h \in Handler : pc[h] \in {"load", "store"} => Advance(rear) # front
    /\ \A t \in Timer : pc[t] \in {"empty?", "load", "store"} => front # rear
    /\ \A h \in Handler, t \in Timer :
          Filling(h) /\ pc[t] \in {"address", "send"} => front # rear

Good == TypeInv /\ RingInv /\ DataInv

PathInv == ~harm => Quiet /\ Good

LEMMA Threads ==
    /\ \A h \in Handler : h \in Thread /\ h \notin Timer /\ h # Menu
    /\ \A t \in Timer : t \in Thread /\ t \notin Handler /\ t # Menu
    /\ Menu \in Thread
BY ThreadAssumption DEF Thread, Timer

LEMMA Apart == ~Harm => Quiet
BY DEF Harm, Quiet

\* The step of an index around the ring, without the modulo.
LEMMA AdvanceStep ==
    ASSUME NEW i \in Slots \cup {-1}
    PROVE  /\ Advance(i) = Turn(i + 1)
           /\ Advance(i) \in Slots
           /\ Advance(i) = IF i = MAX_QUEUE - 1 THEN 0 ELSE i + 1
           /\ -1 \notin Slots
<1>1. CASE i = MAX_QUEUE - 1
  <2>1. (i + 1) % MAX_QUEUE = 0
    BY <1>1, QueueAssumption
  <2> QED  BY <1>1, <2>1, QueueAssumption DEF Advance, Turn, Slots
<1>2. CASE i \in -1 .. MAX_QUEUE - 2
  <2>1. (i + 1) \in 0 .. MAX_QUEUE - 1
    BY <1>2, QueueAssumption
  <2>2. (i + 1) % MAX_QUEUE = i + 1
    BY <2>1, QueueAssumption
  <2> QED  BY <1>2, <2>1, <2>2, QueueAssumption DEF Advance, Turn, Slots
<1> QED  BY <1>1, <1>2, QueueAssumption DEF Slots

\* A thread goes on, the others stay where they are.
LEMMA Goes ==
    ASSUME TypeInv, NEW t \in Thread, NEW now, NEW next, Go(t, now, next),
           next \in HandlerPc \cup TimerPc \cup MenuPc
    PROVE  /\ pc[t] = now /\ pc'[t] = next
           /\ \A s \in Thread : s # t => pc'[s] = pc[s]
           /\ pc' \in [Thread -> HandlerPc \cup TimerPc \cup MenuPc]
BY DEF Go, TypeInv

\* What a step leaves that touches neither the slots nor the addresses.
LEMMA DataSame ==
    ASSUME DataInv, UNCHANGED <<slot, rear, payload, out, dests>>,
           \A h \in Handler : /\ pc'[h] = "unicast" <=> pc[h] = "unicast"
                              /\ pc'[h] \in Queueing =>
                                    \/ pc[h] \in Queueing /\ arg'[h] = arg[h]
                                    \/ ~Unicast(arg'[h]),
           \A t \in Timer : pc'[t] = "send" => pc[t] = "send" /\ arg'[t] = arg[t]
    PROVE  DataInv'
<1>1. UNCHANGED <<wrote, dest_mac>>
  BY DEF dests
<1>2. SlotsBuilt'
  BY <1>1 DEF DataInv, SlotsBuilt
<1>3. DestLatest'
  BY <1>1 DEF DataInv, DestLatest
<1>4. \A h \in Handler : pc'[h] \in Queueing /\ Unicast(arg'[h]) => Written(wrote, arg'[h])
  BY DEF DataInv
<1>5. \A t \in Timer : pc'[t] = "send" /\ payload # NoFrame /\ Unicast(payload) =>
                            SentOn(wrote, payload, arg'[t])
  BY DEF DataInv
<1> QED BY <1>1, <1>2, <1>3, <1>4, <1>5 DEF DataInv

\* A write of dest_mac_addr is the latest, and hides none before it.
LEMMA WriteLatest ==
    ASSUME TypeInv, NEW f \in Contents, NEW a \in Dst, WriteDest(f, a)
    PROVE  /\ dest_mac' \in Dst /\ wrote' \in Seq([frame : Contents, addr : Dst])
           /\ DestLatest'
           /\ a = Hop[f] => Written(wrote', f)
           /\ \A g : Written(wrote, g) => Written(wrote', g)
           /\ \A g, dst : SentOn(wrote, g, dst) => SentOn(wrote', g, dst)
<1> DEFINE e == [frame |-> f, addr |-> a]
<1>1. /\ wrote \in Seq([frame : Contents, addr : Dst]) /\ Len(wrote) \in Nat
      /\ e \in [frame : Contents, addr : Dst] /\ wrote' = Append(wrote, e) /\ dest_mac' = a
  BY DEF TypeInv, WriteDest
<1> HIDE DEF e
<1>2. /\ wrote' \in Seq([frame : Contents, addr : Dst])
      /\ Len(wrote') = Len(wrote) + 1 /\ wrote'[Len(wrote) + 1] = e
      /\ DOMAIN wrote = 1 .. Len(wrote) /\ DOMAIN wrote' = 1 .. Len(wrote) + 1
      /\ \A k \in DOMAIN wrote : k \in DOMAIN wrote' /\ wrote'[k] = wrote[k]
  BY <1>1
<1>3. DestLatest'
  BY <1>1, <1>2 DEF DestLatest, e
<1>4. a = Hop[f] => Written(wrote', f)
  BY <1>1, <1>2 DEF Written, e
<1>5. /\ \A g : Written(wrote, g) => Written(wrote', g)
      /\ \A g, dst : SentOn(wrote, g, dst) => SentOn(wrote', g, dst)
  BY <1>2 DEF Written, SentOn
<1> QED BY <1>1, <1>2, <1>3, <1>4, <1>5

\* What a write of dest_mac_addr leaves.
LEMMA DataWritten ==
    ASSUME TypeInv, DataInv, NEW f \in Contents, NEW a \in Dst, WriteDest(f, a),
           UNCHANGED <<slot, rear, payload, out>>,
           \A h \in Handler : /\ pc'[h] = "unicast" <=> pc[h] = "unicast"
                              /\ pc'[h] \in Queueing =>
                                    \/ pc[h] \in Queueing /\ arg'[h] = arg[h]
                                    \/ arg'[h] = f /\ a = Hop[f],
           \A t \in Timer : pc'[t] = "send" => pc[t] = "send" /\ arg'[t] = arg[t]
    PROVE  DataInv'
<1>1. /\ DestLatest'
      /\ a = Hop[f] => Written(wrote', f)
      /\ \A g : Written(wrote, g) => Written(wrote', g)
      /\ \A g, dst : SentOn(wrote, g, dst) => SentOn(wrote', g, dst)
  BY WriteLatest
<1>2. SlotsBuilt'
  BY <1>1 DEF DataInv, SlotsBuilt
<1>3. \A h \in Handler : pc'[h] \in Queueing /\ Unicast(arg'[h]) => Written(wrote', arg'[h])
  BY <1>1 DEF DataInv
<1>4. \A t \in Timer : pc'[t] = "send" /\ payload # NoFrame /\ Unicast(payload) =>
                            SentOn(wrote', payload, arg'[t])
  BY <1>1 DEF DataInv
<1>5. out.frame # NoFrame /\ Unicast(out.frame) /\ out.dst # Lost =>
           SentOn(wrote', out.frame, out.dst)
  BY <1>1 DEF DataInv
<1> QED BY <1>1, <1>2, <1>3, <1>4, <1>5 DEF DataInv
-----------------------------------------------------------------------------
\* A handler.  Building a frame and what Perr_unicast does after addq touch
\* dest_mac_addr only.
LEMMA StepBuild ==
    ASSUME Good, Quiet, Quiet', NEW h \in Handler, NEW f \in Frame, Build(h, f)
    PROVE  Good'
<1>1. TypeInv /\ RingInv /\ DataInv /\ h \in Thread /\ h \notin Timer /\ h # Menu
  BY Threads DEF Good
<1>2. /\ pc[h] = "idle" /\ pc'[h] \in {"hop", "full?"}
      /\ \A s \in Thread : s # h => pc'[s] = pc[s]
      /\ pc' \in [Thread -> HandlerPc \cup TimerPc \cup MenuPc]
  BY <1>1, Goes DEF HandlerPc, Queueing, Build, BuildPlain, BuildReply
<1>3. /\ UNCHANGED <<front, rear, slot, payload, out, idx>>
      /\ arg' = [arg EXCEPT ![h] = f] /\ f \in Contents
  BY DEF Build, ring, timers, Contents
<1>4. /\ arg'[h] = f /\ arg' \in [Thread -> Contents \cup Dst]
      /\ \A s \in Thread : s # h => arg'[s] = arg[s]
  BY <1>1, <1>3 DEF TypeInv
<1>5. \/ UNCHANGED <<dests, dest_mac, wrote>> /\ ~Unicast(f)
      \/ WriteDest(f, Hop[f])
      \/ WriteDest(f, First[f]) /\ pc'[h] = "hop"
  BY <1>1 DEF Build, BuildPlain, BuildReply, dests, Unicast, Go, TypeInv
<1>6. Hop[f] \in Dst /\ First[f] \in Dst
  BY DEF Dst
<1>7. dest_mac' \in Dst /\ wrote' \in Seq([frame : Contents, addr : Dst])
  BY <1>1, <1>3, <1>5, <1>6, WriteLatest DEF TypeInv
<1>8. TypeInv'
  BY <1>1, <1>2, <1>3, <1>4, <1>7, Threads DEF TypeInv, HandlerPc, Queueing
<1>9. RingInv'
  BY <1>1, <1>2, <1>3, <1>4, Threads
     DEF RingInv, HandlerInv, TimerInv, MenuInv, Filling
<1>10. DataInv'
  <2>1. /\ \A g \in Handler : g # h => pc'[g] = pc[g] /\ arg'[g] = arg[g]
        /\ \A t \in Timer : pc'[t] = pc[t] /\ arg'[t] = arg[t]
        /\ pc[h] # "unicast" /\ pc'[h] # "unicast"
    BY <1>2, <1>4, Threads
  <2>2. CASE UNCHANGED dests /\ ~Unicast(f)
    BY <1>1, <1>3, <1>4, <2>1, <2>2, DataSame
  <2>3. CASE WriteDest(f, Hop[f])
    BY <1>1, <1>3, <1>4, <1>6, <2>1, <2>3, DataWritten
  <2>4. CASE WriteDest(f, First[f]) /\ pc'[h] = "hop"
    BY <1>1, <1>3, <1>4, <1>6, <2>1, <2>4, DataWritten DEF Queueing
  <2> QED BY <1>5, <2>2, <2>3, <2>4
<1> QED BY <1>8, <1>9, <1>10 DEF Good

LEMMA StepWriteHop ==
    ASSUME Good, Quiet, Quiet', NEW h \in Handler, WriteHop(h) \/ Garble(h)
    PROVE  Good'
<1>1. TypeInv /\ RingInv /\ DataInv /\ h \in Thread /\ h \notin Timer /\ h # Menu
  BY Threads DEF Good
<1>2. /\ \/ pc[h] = "hop" /\ pc'[h] = "full?"
         \/ pc[h] = "garble" /\ pc'[h] = "idle"
      /\ \A s \in Thread : s # h => pc'[s] = pc[s]
      /\ pc' \in [Thread -> HandlerPc \cup TimerPc \cup MenuPc]
  <2>1. CASE WriteHop(h)
    <3>1. Go(h, "hop", "full?")
      BY <2>1 DEF WriteHop
    <3> QED BY <1>1, <3>1, Goes DEF HandlerPc, Queueing
  <2>2. CASE Garble(h)
    <3>1. Go(h, "garble", "idle")
      BY <2>2 DEF Garble
    <3> QED BY <1>1, <3>1, Goes DEF HandlerPc
  <2> QED BY <2>1, <2>2
<1>3. UNCHANGED <<front, rear, slot, payload, out, idx, arg>>
  BY DEF WriteHop, Garble, ring, timers
<1>4. PICK f \in Contents, a \in Dst :
         /\ WriteDest(f, a)
         /\ pc'[h] = "full?" => arg[h] = f /\ a = Hop[f] /\ f \in Frame
  <2>1. CASE WriteHop(h)
    <3>1. arg[h] \in Frame
      BY <1>1, <2>1 DEF WriteHop, Go, RingInv, HandlerInv
    <3> QED BY <2>1, <3>1 DEF WriteHop, Contents, Dst
  <2>2. CASE Garble(h)
    <3>1. pc'[h] # "full?" /\ NoFrame \in Contents /\ Garbage \in Dst
      BY <1>1, <2>2 DEF Garble, Go, TypeInv, Contents, Dst
    <3> QED BY <2>2, <3>1 DEF Garble
  <2> QED BY <2>1, <2>2
<1>5. dest_mac' \in Dst /\ wrote' \in Seq([frame : Contents, addr : Dst])
  BY <1>1, <1>4, WriteLatest
<1>6. TypeInv'
  BY <1>1, <1>2, <1>3, <1>5, Threads DEF TypeInv, HandlerPc, Queueing
<1>7. RingInv'
  BY <1>1, <1>2, <1>3, <1>4, Threads
     DEF RingInv, HandlerInv, TimerInv, MenuInv, Filling, Queueing
<1>8. DataInv'
  <2>1. /\ \A g \in Handler : pc'[g] = "unicast" <=> pc[g] = "unicast"
        /\ \A g \in Handler : pc'[g] \in Queueing =>
              \/ pc[g] \in Queueing /\ arg'[g] = arg[g]
              \/ arg'[g] = f /\ a = Hop[f]
        /\ \A t \in Timer : pc'[t] = pc[t] /\ arg'[t] = arg[t]
    BY <1>2, <1>3, <1>4, Threads DEF Queueing
  <2> QED BY <1>1, <1>3, <1>4, <2>1, DataWritten
<1> QED BY <1>6, <1>7, <1>8 DEF Good

LEMMA StepIsFull ==
    ASSUME Good, Quiet, Quiet', NEW h \in Handler, IsFull(h)
    PROVE  Good'
<1>1. TypeInv /\ RingInv /\ DataInv /\ h \in Thread /\ h \notin Timer /\ h # Menu
  BY Threads DEF Good
<1> DEFINE next == IF Advance(rear) = front THEN Done(h) ELSE "load"
<1>2. Go(h, "full?", next) /\ next \in {"idle", "garble", "load"}
  BY DEF IsFull, Done
<1>3. /\ pc[h] = "full?" /\ pc'[h] \in {"idle", "garble", "load"}
      /\ \A s \in Thread : s # h => pc'[s] = pc[s]
      /\ pc' \in [Thread -> HandlerPc \cup TimerPc \cup MenuPc]
  BY <1>1, <1>2, Goes DEF HandlerPc, Queueing
<1>0. /\ UNCHANGED <<front, rear, slot, dests, dest_mac, wrote, payload, out, idx>>
      /\ arg' = arg \/ (pc'[h] # "load" /\ arg' = [arg EXCEPT ![h] = NoFrame])
  <2>1. pc'[h] = next
    BY <1>1, <1>2 DEF Go, TypeInv
  <2> QED BY <2>1 DEF IsFull, ring, timers, dests, Done
<1>4. /\ arg' \in [Thread -> Contents \cup Dst]
      /\ \A s \in Thread : s # h => arg'[s] = arg[s]
      /\ pc'[h] = "load" => arg'[h] = arg[h]
  BY <1>1, <1>0 DEF TypeInv, Contents
<1>5. TypeInv'
  BY <1>1, <1>3, <1>0, <1>4, Threads DEF TypeInv, HandlerPc, Queueing
<1>6. RingInv'
  BY <1>1, <1>3, <1>0, <1>4, Threads
     DEF RingInv, HandlerInv, TimerInv, MenuInv, Filling, Queueing
<1>7. DataInv'
  <2>1. /\ \A g \in Handler : pc'[g] = "unicast" <=> pc[g] = "unicast"
        /\ \A g \in Handler : pc'[g] \in Queueing =>
              pc[g] \in Queueing /\ arg'[g] = arg[g]
        /\ \A t \in Timer : pc'[t] = pc[t] /\ arg'[t] = arg[t]
    BY <1>3, <1>4, Threads DEF Queueing
  <2> QED BY <1>1, <1>0, <2>1, DataSame
<1> QED BY <1>5, <1>6, <1>7 DEF Good

LEMMA StepLoadRear ==
    ASSUME Good, Quiet, Quiet', NEW h \in Handler, LoadRear(h)
    PROVE  Good'
<1>1. TypeInv /\ RingInv /\ DataInv /\ h \in Thread /\ h \notin Timer /\ h # Menu
  BY Threads DEF Good
<1>2. /\ pc[h] = "load" /\ pc'[h] = "store"
      /\ \A s \in Thread : s # h => pc'[s] = pc[s]
      /\ pc' \in [Thread -> HandlerPc \cup TimerPc \cup MenuPc]
  BY <1>1, Goes DEF HandlerPc, Queueing, LoadRear
<1>3. /\ UNCHANGED <<front, rear, slot, dests, dest_mac, wrote, payload, out, arg>>
      /\ idx' = [idx EXCEPT ![h] = rear]
  BY DEF LoadRear, ring, timers, dests
<1>4. TypeInv'
  BY <1>1, <1>2, <1>3, Threads DEF TypeInv, HandlerPc, Queueing
<1>5. RingInv'
  BY <1>1, <1>2, <1>3, Threads
     DEF RingInv, HandlerInv, TimerInv, MenuInv, Filling, TypeInv, Queueing
<1>6. DataInv'
  <2>1. /\ \A g \in Handler : pc'[g] = "unicast" <=> pc[g] = "unicast"
        /\ \A g \in Handler : pc'[g] \in Queueing =>
              pc[g] \in Queueing /\ arg'[g] = arg[g]
        /\ \A t \in Timer : pc'[t] = pc[t] /\ arg'[t] = arg[t]
    BY <1>2, <1>3, Threads DEF Queueing
  <2> QED BY <1>1, <1>3, <2>1, DataSame
<1> QED BY <1>4, <1>5, <1>6 DEF Good

LEMMA StepStoreRear ==
    ASSUME Good, Quiet, Quiet', NEW h \in Handler, StoreRear(h)
    PROVE  Good'
<1>1. TypeInv /\ RingInv /\ DataInv /\ h \in Thread /\ h \notin Timer /\ h # Menu
  BY Threads DEF Good
<1>2. /\ pc[h] = "store" /\ pc'[h] = "buff"
      /\ \A s \in Thread : s # h => pc'[s] = pc[s]
      /\ pc' \in [Thread -> HandlerPc \cup TimerPc \cup MenuPc]
  BY <1>1, Goes DEF HandlerPc, Queueing, StoreRear
<1>3. /\ UNCHANGED <<front, slot, dest_mac, wrote, payload, out, arg>>
      /\ rear' = Advance(rear) /\ idx' = [idx EXCEPT ![h] = 0]
  BY <1>1, <1>2 DEF StoreRear, timers, dests, RingInv, HandlerInv
<1>4. Advance(rear) \in Slots /\ -1 \notin Slots /\ 0 \in Slots /\ Advance(rear) # front
  BY <1>1, <1>2, AdvanceStep, QueueAssumption DEF TypeInv, Quiet, Slots
<1>5. /\ \A g \in Handler : g # h => ~Adding(g)
      /\ pc[Menu] = "idle"
  BY <1>2 DEF Quiet, Adding
<1>6. TypeInv'
  BY <1>1, <1>2, <1>3, <1>4, Threads DEF TypeInv, HandlerPc, Queueing
<1>7. RingInv'
  <2>1. HandlerInv'
    BY <1>1, <1>2, <1>3, <1>4, <1>5, Threads
       DEF RingInv, HandlerInv, Filling, TypeInv, Queueing, Adding
  <2>2. TimerInv' /\ MenuInv'
    BY <1>1, <1>2, <1>3, <1>4, <1>5, Threads
       DEF RingInv, TimerInv, MenuInv, TypeInv
  <2> QED BY <2>1, <2>2 DEF RingInv
<1>8. DataInv'
  <2>1. UNCHANGED wrote
    BY <1>3
  <2>2. \A g \in Handler : pc[g] # "unicast"
    BY <1>2, <1>5 DEF Adding
  <2>3. SlotsBuilt'
    BY <1>1, <1>3, <2>1, <2>2 DEF DataInv, SlotsBuilt
  <2>4. DestLatest'
    BY <1>1, <1>3 DEF DataInv, DestLatest
  <2>5. \A g \in Handler : pc'[g] \in Queueing /\ Unicast(arg'[g]) =>
            Written(wrote, arg'[g])
    BY <1>1, <1>2, <1>3, Threads DEF DataInv, Queueing
  <2>6. \A t \in Timer : pc'[t] = "send" /\ payload # NoFrame /\ Unicast(payload) =>
                            SentOn(wrote, payload, arg'[t])
    BY <1>1, <1>2, <1>3, Threads DEF DataInv
  <2> QED BY <1>1, <1>3, <2>1, <2>3, <2>4, <2>5, <2>6 DEF DataInv
<1> QED BY <1>6, <1>7, <1>8 DEF Good

LEMMA StepFillBuff ==
    ASSUME Good, Quiet, Quiet', NEW h \in Handler, FillBuff(h)
    PROVE  Good'
<1>1. TypeInv /\ RingInv /\ DataInv /\ h \in Thread /\ h \notin Timer /\ h # Menu
  BY Threads DEF Good
<1>2. /\ pc[h] = "buff" /\ pc'[h] = "unicast"
      /\ \A s \in Thread : s # h => pc'[s] = pc[s]
      /\ pc' \in [Thread -> HandlerPc \cup TimerPc \cup MenuPc]
  BY <1>1, Goes DEF HandlerPc, Queueing, FillBuff
<1>3. rear \in Slots /\ arg[h] \in Frame
  BY <1>1, <1>2 DEF RingInv, HandlerInv, Filling, TypeInv, Queueing
<1>4. /\ UNCHANGED <<front, rear, dest_mac, wrote, payload, out, idx, arg>>
      /\ slot' = [slot EXCEPT ![rear] = [slot[rear] EXCEPT !.buf = arg[h]]]
  BY <1>3 DEF FillBuff, timers, dests
<1>5. /\ \A g \in Handler : g # h => ~Adding(g)
      /\ \A t \in Timer : pc[t] \in {"address", "send"} => front # rear
  BY <1>2 DEF Quiet, Filling, Adding
<1>6. /\ slot' \in [Slots -> [buf : Contents, uni : BOOLEAN]]
      /\ slot'[rear].buf = arg[h]
      /\ \A i \in Slots : i # rear => slot'[i] = slot[i]
  BY <1>1, <1>3, <1>4 DEF TypeInv, Contents
<1>7. TypeInv'
  BY <1>1, <1>2, <1>4, <1>6, Threads DEF TypeInv, HandlerPc, Queueing
<1>8. RingInv'
  <2>1. HandlerInv'
    BY <1>1, <1>2, <1>3, <1>4, <1>5, <1>6, Threads
       DEF RingInv, HandlerInv, Filling, Queueing, Adding
  <2>2. TimerInv'
    BY <1>1, <1>2, <1>4, <1>5, <1>6, Threads DEF RingInv, TimerInv, TypeInv
  <2>3. MenuInv'
    BY <1>1, <1>2, <1>4, Threads DEF RingInv, MenuInv
  <2> QED BY <2>1, <2>2, <2>3 DEF RingInv
<1>9. DataInv'
  <2>1. UNCHANGED wrote
    BY <1>4
  <2>2. \A g \in Handler : pc[g] # "unicast"
    BY <1>2, <1>5 DEF Adding
  <2>3. \A i \in Slots : slot'[i].buf # NoFrame =>
           /\ Unicast(slot'[i].buf) => Written(wrote, slot'[i].buf)
           /\ slot'[i].uni = Unicast(slot'[i].buf) \/ i = rear
    BY <1>1, <1>2, <1>6, <2>2 DEF DataInv, SlotsBuilt, Queueing
  <2>4. SlotsBuilt'
    BY <1>2, <1>4, <2>1, <2>3 DEF SlotsBuilt
  <2>5. DestLatest'
    BY <1>1, <1>4 DEF DataInv, DestLatest
  <2>6. \A g \in Handler : pc'[g] \in Queueing /\ Unicast(arg'[g]) =>
            Written(wrote, arg'[g])
    BY <1>1, <1>2, <1>4, Threads DEF DataInv, Queueing
  <2>7. \A t \in Timer : pc'[t] = "send" /\ payload # NoFrame /\ Unicast(payload) =>
                            SentOn(wrote, payload, arg'[t])
    BY <1>1, <1>2, <1>4, Threads DEF DataInv
  <2> QED BY <1>1, <1>4, <2>1, <2>4, <2>5, <2>6, <2>7 DEF DataInv
<1> QED BY <1>7, <1>8, <1>9 DEF Good

LEMMA StepFillUnicast ==
    ASSUME Good, Quiet, Quiet', NEW h \in Handler, FillUnicast(h)
    PROVE  Good'
<1>1. TypeInv /\ RingInv /\ DataInv /\ h \in Thread /\ h \notin Timer /\ h # Menu
  BY Threads DEF Good
<1>2. /\ pc[h] = "unicast" /\ pc'[h] \in {"idle", "garble"}
      /\ \A s \in Thread : s # h => pc'[s] = pc[s]
      /\ pc' \in [Thread -> HandlerPc \cup TimerPc \cup MenuPc]
  <2>1. Done(h) \in {"idle", "garble"}
    BY DEF Done
  <2> QED BY <1>1, <2>1, Goes DEF HandlerPc, Queueing, FillUnicast
<1>3. rear \in Slots /\ arg[h] \in Frame /\ slot[rear].buf = arg[h]
  BY <1>1, <1>2 DEF RingInv, HandlerInv, Filling, TypeInv, Queueing
<1> DEFINE uni == Unicast(arg[h])
<1>4. /\ UNCHANGED <<front, rear, dest_mac, wrote, payload, out, idx>>
      /\ slot' = [slot EXCEPT ![rear] = [slot[rear] EXCEPT !.uni = uni]]
      /\ arg' = [arg EXCEPT ![h] = NoFrame]
  BY <1>3 DEF FillUnicast, timers, dests
<1>5. uni \in BOOLEAN
  BY DEF Unicast
<1> HIDE DEF uni
<1>6. /\ slot' \in [Slots -> [buf : Contents, uni : BOOLEAN]]
      /\ slot'[rear].buf = slot[rear].buf /\ slot'[rear].uni = uni
      /\ \A i \in Slots : i # rear => slot'[i] = slot[i]
  BY <1>1, <1>3, <1>4, <1>5 DEF TypeInv
<1>7. /\ \A g \in Handler : g # h => ~Adding(g)
      /\ \A i \in Slots : slot'[i].buf = slot[i].buf
  BY <1>2, <1>6 DEF Quiet, Adding
<1>8. TypeInv'
  BY <1>1, <1>2, <1>4, <1>6, Threads DEF TypeInv, HandlerPc, Contents, Queueing
<1>9. RingInv'
  <2>1. HandlerInv'
    BY <1>1, <1>2, <1>3, <1>4, <1>7, Threads
       DEF RingInv, HandlerInv, Filling, TypeInv, Queueing, Adding
  <2>2. TimerInv'
    BY <1>1, <1>2, <1>4, <1>7, Threads DEF RingInv, TimerInv, TypeInv
  <2>3. MenuInv'
    BY <1>1, <1>2, <1>4, Threads DEF RingInv, MenuInv
  <2> QED BY <2>1, <2>2, <2>3 DEF RingInv
<1>10. DataInv'
  <2>1. UNCHANGED wrote
    BY <1>4
  <2>2. \A i \in Slots : slot'[i].buf # NoFrame =>
           /\ Unicast(slot'[i].buf) => Written(wrote, slot'[i].buf)
           /\ slot'[i].uni = Unicast(slot'[i].buf)
    BY <1>1, <1>3, <1>6 DEF DataInv, SlotsBuilt, uni
  <2>3. SlotsBuilt'
    BY <2>1, <2>2 DEF SlotsBuilt
  <2>4. DestLatest'
    BY <1>1, <1>4 DEF DataInv, DestLatest
  <2>5. \A g \in Handler : pc'[g] \in Queueing /\ Unicast(arg'[g]) =>
            Written(wrote, arg'[g])
    BY <1>1, <1>2, <1>4, Threads DEF DataInv, TypeInv, Queueing
  <2>6. \A t \in Timer : pc'[t] = "send" /\ payload # NoFrame /\ Unicast(payload) =>
                            SentOn(wrote, payload, arg'[t])
    BY <1>1, <1>2, <1>4, Threads DEF DataInv, TypeInv
  <2> QED BY <1>1, <1>4, <2>1, <2>3, <2>4, <2>5, <2>6 DEF DataInv
<1> QED BY <1>8, <1>9, <1>10 DEF Good
-----------------------------------------------------------------------------
\* A timer thread.  What Expire, IsEmpty and LoadFront leave is the same.
LEMMA StepBeforeStore ==
    ASSUME Good, Quiet, Quiet', NEW t \in Timer,
           Expire(t) \/ IsEmpty(t) \/ LoadFront(t)
    PROVE  Good'
<1>1. TypeInv /\ RingInv /\ DataInv /\ t \in Thread /\ t \notin Handler /\ t # Menu
  BY Threads DEF Good
<1>2. /\ UNCHANGED <<front, rear, slot, dests, dest_mac, wrote, payload, out, arg>>
      /\ idx' = idx \/ idx' = [idx EXCEPT ![t] = front]
  BY DEF Expire, IsEmpty, LoadFront, ring, timers, dests
<1>3. \/ Go(t, "idle", "empty?") /\ front # rear
      \/ Go(t, "empty?", "load")
      \/ Go(t, "load", "store") /\ idx' = [idx EXCEPT ![t] = front]
  <2>1. pc[t] = "empty?" => front # rear
    BY DEF Quiet
  <2> QED BY <2>1 DEF Expire, IsEmpty, LoadFront, Go
<1>4. /\ pc'[t] \in {"empty?", "load", "store"} /\ front # rear
      /\ pc'[t] = "store" => idx'[t] = front
      /\ \A s \in Thread : s # t => pc'[s] = pc[s] /\ idx'[s] = idx[s]
      /\ pc' \in [Thread -> HandlerPc \cup TimerPc \cup MenuPc]
      /\ idx' \in [Thread -> Slots \cup {-1}]
  BY <1>1, <1>2, <1>3 DEF TypeInv, Quiet, Go, TimerPc
<1>5. TypeInv'
  BY <1>1, <1>2, <1>4, Threads DEF TypeInv, TimerPc
<1>6. RingInv'
  BY <1>1, <1>2, <1>4, Threads DEF RingInv, HandlerInv, TimerInv, MenuInv, Filling, Queueing
<1>7. DataInv'
  BY <1>1, <1>2, <1>4, Threads, DataSame DEF Queueing
<1> QED BY <1>5, <1>6, <1>7 DEF Good

LEMMA StepStoreFront ==
    ASSUME Good, Quiet, Quiet', NEW t \in Timer, StoreFront(t)
    PROVE  Good'
<1>1. TypeInv /\ RingInv /\ DataInv /\ t \in Thread /\ t \notin Handler /\ t # Menu
  BY Threads DEF Good
<1>2. /\ pc[t] = "store" /\ pc'[t] = "copy"
      /\ \A s \in Thread : s # t => pc'[s] = pc[s]
      /\ pc' \in [Thread -> HandlerPc \cup TimerPc \cup MenuPc]
  BY <1>1, Goes DEF TimerPc, StoreFront
<1>3. /\ UNCHANGED <<rear, slot, dests, dest_mac, wrote, payload, out, arg>>
      /\ front' = Advance(front) /\ idx' = [idx EXCEPT ![t] = 0] /\ front # rear
  BY <1>1, <1>2 DEF StoreFront, timers, dests, RingInv, TimerInv, Quiet
<1>4. Advance(front) \in Slots /\ -1 \notin Slots /\ 0 \in Slots
  BY <1>1, AdvanceStep, QueueAssumption DEF TypeInv, Slots
<1>5. /\ \A s \in Timer : s # t => ~Taking(s)
      /\ pc[Menu] = "idle"
  BY <1>2 DEF Quiet, Taking
<1>6. rear # -1
  BY <1>1, <1>3 DEF RingInv, MenuInv
<1>7. TypeInv'
  BY <1>1, <1>2, <1>3, <1>4, Threads DEF TypeInv, TimerPc
<1>8. RingInv'
  BY <1>1, <1>2, <1>3, <1>4, <1>5, <1>6, Threads
     DEF RingInv, HandlerInv, TimerInv, MenuInv, Filling, TypeInv, Queueing, Taking
<1>9. DataInv'
  BY <1>1, <1>2, <1>3, Threads, DataSame DEF Queueing
<1> QED BY <1>7, <1>8, <1>9 DEF Good

LEMMA StepCopy ==
    ASSUME Good, Quiet, Quiet', NEW t \in Timer, Copy(t)
    PROVE  Good'
<1>1. TypeInv /\ RingInv /\ DataInv /\ t \in Thread /\ t \notin Handler /\ t # Menu
  BY Threads DEF Good
<1>2. /\ pc[t] = "copy" /\ pc'[t] = "address"
      /\ \A s \in Thread : s # t => pc'[s] = pc[s]
      /\ pc' \in [Thread -> HandlerPc \cup TimerPc \cup MenuPc]
  BY <1>1, Goes DEF TimerPc, Copy
<1>3. /\ UNCHANGED <<front, rear, slot, dests, dest_mac, wrote, out, idx, arg>>
      /\ payload' = At(front).buf
  BY DEF Copy, ring, timers, dests
<1>4. front \in Slots /\ payload' = slot[front].buf /\ payload' \in Contents
  BY <1>1, <1>2, <1>3 DEF RingInv, TimerInv, TypeInv, At
<1>5. \A s \in Timer : s # t => ~Taking(s)
  BY <1>2 DEF Quiet, Taking
<1>6. TypeInv'
  BY <1>1, <1>2, <1>3, <1>4, Threads DEF TypeInv, TimerPc
<1>7. RingInv'
  BY <1>1, <1>2, <1>3, <1>4, <1>5, Threads
     DEF RingInv, HandlerInv, TimerInv, MenuInv, Filling, TypeInv, Queueing, Taking
<1>8. DataInv'
  <2>1. SlotsBuilt'
    BY <1>1, <1>2, <1>3, Threads DEF DataInv, SlotsBuilt
  <2>2. DestLatest'
    BY <1>1, <1>3 DEF DataInv, DestLatest
  <2>3. \A g \in Handler : pc'[g] \in Queueing /\ Unicast(arg'[g]) =>
            Written(wrote, arg'[g])
    BY <1>1, <1>2, <1>3, Threads DEF DataInv, Queueing
  <2>4. \A s \in Timer : pc'[s] # "send"
    BY <1>2, <1>5, Threads DEF Taking
  <2> QED BY <1>1, <1>3, <2>1, <2>2, <2>3, <2>4 DEF DataInv
<1> QED BY <1>6, <1>7, <1>8 DEF Good

\* The slot is filled by now, and dest_mac_addr is the address written last,
\* which is that of this frame or a later one.
LEMMA StepAddress ==
    ASSUME Good, Quiet, Quiet', NEW t \in Timer, Address(t)
    PROVE  Good'
<1>1. TypeInv /\ RingInv /\ DataInv /\ t \in Thread /\ t \notin Handler /\ t # Menu
  BY Threads DEF Good
<1>2. /\ pc[t] = "address" /\ pc'[t] = "send"
      /\ \A s \in Thread : s # t => pc'[s] = pc[s]
      /\ pc' \in [Thread -> HandlerPc \cup TimerPc \cup MenuPc]
  BY <1>1, Goes DEF TimerPc, Address
<1> DEFINE dst == IF At(front).uni THEN dest_mac ELSE Bcast
<1>3. /\ UNCHANGED <<front, rear, slot, dests, dest_mac, wrote, payload, out, idx>>
      /\ arg' = [arg EXCEPT ![t] = dst]
  BY DEF Address, ring, timers, dests
<1>4. front \in Slots /\ payload = slot[front].buf /\ dst \in Dst
  BY <1>1, <1>2 DEF RingInv, TimerInv, TypeInv, Dst
<1>5. /\ \A s \in Timer : s # t => ~Taking(s)
      /\ \A h \in Handler : Filling(h) => front # rear
  BY <1>2 DEF Quiet, Taking
<1>6. payload # NoFrame /\ Unicast(payload) => SentOn(wrote, payload, dst)
  <2> SUFFICES ASSUME payload # NoFrame, Unicast(payload)
               PROVE  SentOn(wrote, payload, dst)
    OBVIOUS
  <2>1. slot[front].uni = Unicast(payload) /\ Written(wrote, payload)
    BY <1>1, <1>4, <1>5 DEF DataInv, SlotsBuilt, Filling
  <2>2. dst = dest_mac
    BY <1>4, <2>1 DEF At
  <2>3. PICK j \in DOMAIN wrote : wrote[j] = [frame |-> payload, addr |-> Hop[payload]]
    BY <2>1 DEF Written
  <2>4. DOMAIN wrote = 1 .. Len(wrote) /\ Len(wrote) \in Nat
    BY <1>1 DEF TypeInv
  <2>5. wrote # << >> /\ Len(wrote) \in DOMAIN wrote /\ j <= Len(wrote)
    BY <2>3, <2>4
  <2>6. dst = wrote[Len(wrote)].addr
    BY <1>1, <2>2, <2>5 DEF DataInv, DestLatest
  <2> QED BY <2>3, <2>5, <2>6 DEF SentOn
<1> HIDE DEF dst
<1>7. TypeInv'
  BY <1>1, <1>2, <1>3, <1>4, Threads DEF TypeInv, TimerPc
<1>8. RingInv'
  BY <1>1, <1>2, <1>3, <1>4, <1>5, Threads
     DEF RingInv, HandlerInv, TimerInv, MenuInv, Filling, TypeInv, Queueing, Taking
<1>9. DataInv'
  <2>1. SlotsBuilt'
    BY <1>1, <1>2, <1>3, Threads DEF DataInv, SlotsBuilt
  <2>2. DestLatest'
    BY <1>1, <1>3 DEF DataInv, DestLatest
  <2>3. \A g \in Handler : pc'[g] \in Queueing /\ Unicast(arg'[g]) =>
            Written(wrote, arg'[g])
    BY <1>1, <1>2, <1>3, Threads DEF DataInv, TypeInv, Queueing
  <2>4. \A s \in Timer : pc'[s] = "send" /\ payload # NoFrame /\ Unicast(payload) =>
                            SentOn(wrote, payload, arg'[s])
    BY <1>1, <1>2, <1>3, <1>5, <1>6, Threads DEF TypeInv, Taking
  <2> QED BY <1>1, <1>3, <2>1, <2>2, <2>3, <2>4 DEF DataInv
<1> QED BY <1>7, <1>8, <1>9 DEF Good

LEMMA StepSend ==
    ASSUME Good, Quiet, Quiet', NEW t \in Timer, Send(t)
    PROVE  Good'
<1>1. TypeInv /\ RingInv /\ DataInv /\ t \in Thread /\ t \notin Handler /\ t # Menu
  BY Threads DEF Good
<1>2. /\ pc[t] = "send" /\ pc'[t] = "idle"
      /\ \A s \in Thread : s # t => pc'[s] = pc[s]
      /\ pc' \in [Thread -> HandlerPc \cup TimerPc \cup MenuPc]
  BY <1>1, Goes DEF TimerPc, Send
<1>3. /\ UNCHANGED <<front, rear, slot, dests, dest_mac, wrote, payload, idx>>
      /\ out'.frame = payload /\ out'.dst \in {arg[t], Lost}
      /\ arg' = [arg EXCEPT ![t] = NoFrame]
  BY DEF Send, ring, timers, dests
<1>4. TypeInv'
  BY <1>1, <1>2, <1>3, Threads DEF TypeInv, TimerPc, Contents
<1>5. RingInv'
  BY <1>1, <1>2, <1>3, Threads
     DEF RingInv, HandlerInv, TimerInv, MenuInv, Filling, TypeInv, Queueing, Taking
<1>6. DataInv'
  <2>1. SlotsBuilt'
    BY <1>1, <1>2, <1>3, Threads DEF DataInv, SlotsBuilt
  <2>2. DestLatest'
    BY <1>1, <1>3 DEF DataInv, DestLatest
  <2>3. \A g \in Handler : pc'[g] \in Queueing /\ Unicast(arg'[g]) =>
            Written(wrote, arg'[g])
    BY <1>1, <1>2, <1>3, Threads DEF DataInv, TypeInv, Queueing
  <2>4. \A s \in Timer : pc'[s] = "send" /\ payload # NoFrame /\ Unicast(payload) =>
                            SentOn(wrote, payload, arg'[s])
    BY <1>1, <1>2, <1>3, Threads DEF DataInv, TypeInv, Queueing
  <2>5. out'.frame # NoFrame /\ Unicast(out'.frame) /\ out'.dst # Lost =>
            SentOn(wrote, out'.frame, out'.dst)
    BY <1>1, <1>2, <1>3 DEF DataInv
  <2> QED BY <1>1, <1>3, <2>1, <2>2, <2>3, <2>4, <2>5 DEF DataInv
<1> QED BY <1>4, <1>5, <1>6 DEF Good
-----------------------------------------------------------------------------
\* The command thread.  While it clears the ring nobody else uses it.
LEMMA StepMenu ==
    ASSUME Good, Quiet, Quiet', Clear \/ ClearFront \/ ClearRear \/ ClearSlots
    PROVE  Good'
<1>1. TypeInv /\ RingInv /\ DataInv /\ Menu \in Thread
      /\ \A s \in Handler \cup Timer : s \in Thread /\ s # Menu
  BY Threads DEF Good
<1>2. /\ UNCHANGED <<dest_mac, wrote, payload, out, idx, arg>>
      /\ \/ Go(Menu, "idle", "front") /\ UNCHANGED <<front, rear, slot>>
         \/ Go(Menu, "front", "rear") /\ front' = -1 /\ UNCHANGED <<rear, slot>>
         \/ Go(Menu, "rear", "slots") /\ rear' = -1 /\ UNCHANGED <<front, slot>>
         \/ /\ Go(Menu, "slots", "idle") /\ UNCHANGED <<front, rear>>
            /\ slot' = [i \in Slots |-> EmptySlot]
  BY DEF Clear, ClearFront, ClearRear, ClearSlots, ring, timers, dests
<1>3. /\ \A s \in Handler \cup Timer : pc'[s] = pc[s]
      /\ \A h \in Handler : ~Adding(h)
      /\ \A t \in Timer : ~Taking(t)
      /\ pc' \in [Thread -> HandlerPc \cup TimerPc \cup MenuPc] /\ pc'[Menu] \in MenuPc
  <2>1. \A s \in Handler \cup Timer : pc'[s] = pc[s]
    BY <1>1, <1>2 DEF Go, TypeInv
  <2>2. pc[Menu] # "idle" \/ pc'[Menu] # "idle"
    BY <1>1, <1>2 DEF Go, TypeInv
  <2>3. (\A h \in Handler : ~Adding(h)) /\ (\A t \in Timer : ~Taking(t))
    BY <2>1, <2>2 DEF Quiet, Adding, Taking
  <2>4. pc' \in [Thread -> HandlerPc \cup TimerPc \cup MenuPc] /\ pc'[Menu] \in MenuPc
    BY <1>1, <1>2 DEF Go, TypeInv, MenuPc
  <2> QED BY <2>1, <2>3, <2>4
<1>4. slot' \in [Slots -> [buf : Contents, uni : BOOLEAN]]
  <2>1. EmptySlot \in [buf : Contents, uni : BOOLEAN]
    BY DEF EmptySlot, Contents
  <2>2. slot' = slot \/ slot' = [i \in Slots |-> EmptySlot]
    BY <1>2
  <2> QED BY <1>1, <2>1, <2>2 DEF TypeInv
<1>5. TypeInv'
  BY <1>1, <1>2, <1>3, <1>4 DEF TypeInv
<1>6. RingInv'
  <2>1. MenuInv'
    BY <1>1, <1>2 DEF RingInv, MenuInv, Go, TypeInv
  <2>2. HandlerInv' /\ TimerInv'
    BY <1>1, <1>2, <1>3 DEF RingInv, HandlerInv, TimerInv, Filling, Adding, Taking
  <2> QED BY <2>1, <2>2 DEF RingInv
<1>7. DataInv'
  <2>1. \A i \in Slots : slot'[i].buf # NoFrame => slot'[i] = slot[i]
    BY <1>2 DEF EmptySlot
  <2>2. SlotsBuilt'
    BY <1>1, <1>2, <1>3, <2>1 DEF DataInv, SlotsBuilt, Adding
  <2>3. DestLatest'
    BY <1>1, <1>2 DEF DataInv, DestLatest
  <2>4. UNCHANGED wrote /\ \A s \in Handler \cup Timer : pc'[s] = pc[s] /\ arg'[s] = arg[s]
    BY <1>2, <1>3
  <2> QED BY <1>1, <1>2, <2>2, <2>3, <2>4 DEF DataInv
<1> QED BY <1>5, <1>6, <1>7 DEF Good

\* Nothing the invariant speaks of changes.
LEMMA StepIdle ==
    ASSUME Good,
           UNCHANGED <<front, rear, slot, dests, dest_mac, wrote, payload, out, pc, idx, arg>>
    PROVE  Good'
<1>1. TypeInv /\ RingInv /\ DataInv
  BY DEF Good
<1>2. TypeInv'
  BY <1>1 DEF TypeInv
<1>3. RingInv'
  BY <1>1 DEF RingInv, HandlerInv, TimerInv, MenuInv, Filling
<1>4. DataInv'
  BY <1>1, DataSame
<1> QED BY <1>2, <1>3, <1>4 DEF Good

LEMMA InitPath == Init => PathInv
<1> SUFFICES ASSUME Init PROVE Quiet /\ Good
  BY DEF PathInv
<1>1. \A s \in Thread : pc[s] = "idle"
  BY DEF Init
<1>2. \A s \in Handler \cup Timer : pc[s] = "idle"
  BY <1>1, Threads
<1>3. Quiet
  BY <1>2 DEF Quiet, Filling, Adding, Taking
<1>4. TypeInv
  BY <1>1, Threads, QueueAssumption
     DEF Init, TypeInv, EmptySlot, Contents, Dst, HandlerPc, TimerPc, MenuPc, Slots, Queueing
<1>5. RingInv
  BY <1>1, <1>2, Threads DEF Init, RingInv, HandlerInv, TimerInv, MenuInv, Filling, Queueing
<1>6. DataInv
  BY <1>2 DEF Init, DataInv, SlotsBuilt, DestLatest, EmptySlot, Queueing
<1> QED BY <1>3, <1>4, <1>5, <1>6 DEF Good

LEMMA StepPath == PathInv /\ [Next]_vars => PathInv'
<1> SUFFICES ASSUME PathInv, [Next]_vars PROVE PathInv'
  OBVIOUS
<1>1. CASE UNCHANGED vars
  <2>2. UNCHANGED <<front, rear, slot, dests, dest_mac, wrote, payload, out, pc, idx, arg, harm>>
    BY <1>1 DEF vars, dests
  <2>3. ~harm' => Quiet'
    BY <2>2 DEF PathInv, Quiet, Filling, Adding, Taking
  <2>4. ~harm' => Good'
    BY <2>2, StepIdle DEF PathInv
  <2> QED BY <2>2, <2>3, <2>4 DEF PathInv
<1>2. CASE Next
  <2>1. harm' = (harm \/ Harm')
    BY <1>2 DEF Next
  <2>2. ~Harm' => Quiet'
    BY Apart, PTL
  <2>3. ASSUME ~harm'
        PROVE  Good'
    <3>1. Good /\ Quiet /\ Quiet'
      BY <2>1, <2>2, <2>3 DEF PathInv
    <3>2. ASSUME NEW h \in Handler, (\E f \in Frame : Build(h, f)) \/ AddqStep(h)
          PROVE  Good'
      BY <3>1, <3>2, StepBuild, StepWriteHop, StepIsFull, StepLoadRear, StepStoreRear, StepFillBuff,
         StepFillUnicast DEF AddqStep
    <3>3. ASSUME NEW t \in Timer, Expire(t) \/ TimerStep(t)
          PROVE  Good'
      BY <3>1, <3>3, StepBeforeStore, StepStoreFront, StepCopy, StepAddress, StepSend
         DEF TimerStep
    <3>4. CASE Clear \/ MenuStep \/ WSM_ReleaseTxOperation
      <4>1. CASE Clear \/ ClearFront \/ ClearRear \/ ClearSlots
        BY <3>1, <4>1, StepMenu
      <4>2. CASE WSM_InitTxOperation \/ WSM_ReleaseTxOperation
        <5>1. UNCHANGED <<front, rear, slot, dests, dest_mac, wrote, payload, out, pc, idx, arg>>
          BY <4>2 DEF WSM_InitTxOperation, WSM_ReleaseTxOperation, ring, dests
        <5> QED BY <3>1, <5>1, StepIdle
      <4> QED BY <3>4, <4>1, <4>2 DEF MenuStep
    <3> QED BY <1>2, <3>2, <3>3, <3>4 DEF Next
  <2> QED BY <2>1, <2>2, <2>3 DEF PathInv
<1> QED BY <1>1, <1>2

LEMMA PathInvariance == Spec => []PathInv
<1> QED BY InitPath, StepPath, PTL DEF Spec

\* A unicast frame leaves for the address dest_mac_addr was given for it or one
\* written after that, as long as no accesses conflict, however many handlers,
\* timers and slots there are.
THEOREM UnicastAddressed == Spec => []UnicastToOwnOrLater
<1>1. PathInv => UnicastToOwnOrLater
  BY DEF PathInv, Good, DataInv, SentOn, UnicastToOwnOrLater, SinceOwn
<1> QED BY <1>1, PathInvariance, PTL
-----------------------------------------------------------------------------
\* The ring as the frame queue its callers take it for.

OneFilling == \A g, h \in Handler : Filling(g) /\ Filling(h) => g = h

\* The slot under way counts as filled already.
SeenShape ==
    /\ Seen = [i \in Slots |-> Seen[i]]
    /\ (\A h \in Handler : ~Filling(h)) => \A i \in Slots : Seen[i] = slot[i].buf
    /\ \A h \in Handler : Filling(h) =>
          \A i \in Slots : Seen[i] = IF i = rear THEN arg[h] ELSE slot[i].buf

Departing == \E t \in Timer : pc[t] \in {"copy", "address", "send"}

Clearing == pc[Menu] \in {"rear", "slots"}

LEMMA SeenIs == OneFilling => SeenShape
<1> SUFFICES ASSUME OneFilling PROVE SeenShape
  OBVIOUS
<1>1. Seen = [i \in Slots |-> Seen[i]]
  BY DEF Seen
<1>2. ASSUME \A h \in Handler : ~Filling(h), NEW i \in Slots
      PROVE  Seen[i] = slot[i].buf
  BY <1>2 DEF Seen
<1>3. ASSUME NEW h \in Handler, Filling(h)
      PROVE  \A i \in Slots : Seen[i] = IF i = rear THEN arg[h] ELSE slot[i].buf
  <2>1. (CHOOSE g \in Handler : Filling(g)) = h
    BY <1>3 DEF OneFilling
  <2> QED BY <1>3, <2>1 DEF Seen
<1> QED BY <1>1, <1>2, <1>3 DEF SeenShape

\* A step beside the filling of a slot changes nothing of what the slots show.
LEMMA SeenSame ==
    ASSUME OneFilling, UNCHANGED <<rear, slot>>,
           \A h \in Handler : (Filling(h)' <=> Filling(h)) /\ (Filling(h) => arg'[h] = arg[h])
    PROVE  Seen' = Seen
<1>1. OneFilling'
  BY DEF OneFilling
<1>2. SeenShape /\ SeenShape'
  BY <1>1, SeenIs, PTL
<1>3. \A i \in Slots : Seen'[i] = Seen[i]
  <2>1. CASE \A h \in Handler : ~Filling(h)
    BY <1>2, <2>1 DEF SeenShape
  <2>2. ASSUME NEW h \in Handler, Filling(h)
        PROVE  \A i \in Slots : Seen'[i] = Seen[i]
    BY <1>2, <2>2 DEF SeenShape
  <2> QED BY <2>1, <2>2
<1> QED BY <1>2, <1>3 DEF SeenShape

\* What the queue shows is a function of these.
LEMMA Stutters ==
    ASSUME UNCHANGED <<front, rear>>, Seen' = Seen, Clearing' = Clearing,
           Leaving' = Leaving
    PROVE  UNCHANGED Fifo!fifoVars
BY DEF Fifo!fifoVars, Pending, Waiting, Clearing

LEMMA LeavingSame ==
    ASSUME UNCHANGED <<front, out>>, Seen' = Seen, Departing' = Departing
    PROVE  Leaving' = Leaving
BY DEF Leaving, Departing

\* The slots counted as waiting, as in TxQueue.
LEMMA WaitingBounds ==
    ASSUME TypeInv, MenuInv
    PROVE  /\ Waiting \in 0 .. MAX_QUEUE
           /\ front # -1 => Waiting \in 0 .. MAX_QUEUE - 1
           /\ Waiting = 0 <=> front = rear
           /\ \A k \in 1 .. Waiting : Turn(front + k) \in Slots
BY QueueAssumption DEF TypeInv, MenuInv, Waiting, Turn, Slots

PendingShape ==
    /\ Pending = [k \in 1 .. Waiting |-> Pending[k]]
    /\ \A k \in 1 .. Waiting : Pending[k] = Seen[Turn(front + k)]

LEMMA PendingIs == ~Clearing => PendingShape
BY DEF PendingShape, Pending, Clearing

\* Accepting a frame lengthens the waiting slots by one, except in the ring
\* that is full and that no frame has left yet.
LEMMA AddWaiting ==
    ASSUME TypeInv, MenuInv, front' = front, rear' = Advance(rear), Advance(rear) # front
    PROVE  /\ front = -1 /\ rear = MAX_QUEUE - 1 =>
                 Waiting = MAX_QUEUE /\ Waiting' = 1
           /\ ~(front = -1 /\ rear = MAX_QUEUE - 1) =>
                 /\ Waiting' = Waiting + 1
                 /\ Waiting < MAX_QUEUE - 1 \/ (front = -1 /\ Waiting < MAX_QUEUE)
                 /\ \A k \in 1 .. Waiting : Turn(front + k) # Advance(rear)
           /\ Turn(front + Waiting') = Advance(rear)
<1>1. /\ front \in Slots \cup {-1} /\ rear \in Slots \cup {-1}
      /\ rear = -1 => front = -1
  BY DEF TypeInv, MenuInv
<1>2. /\ Advance(rear) \in Slots
      /\ Advance(rear) = IF rear = MAX_QUEUE - 1 THEN 0 ELSE rear + 1
  BY <1>1, AdvanceStep
<1>3. front = -1 /\ rear = MAX_QUEUE - 1 => Waiting = MAX_QUEUE /\ Waiting' = 1
  BY <1>2, QueueAssumption DEF Waiting
<1>4. ASSUME ~(front = -1 /\ rear = MAX_QUEUE - 1)
      PROVE  /\ Waiting' = Waiting + 1
             /\ Waiting < MAX_QUEUE - 1 \/ (front = -1 /\ Waiting < MAX_QUEUE)
             /\ \A k \in 1 .. Waiting : Turn(front + k) # Advance(rear)
  BY <1>1, <1>2, <1>4, QueueAssumption DEF Waiting, Turn, Slots
<1>5. Turn(front + Waiting') = Advance(rear)
  BY <1>1, <1>2, QueueAssumption DEF Waiting, Turn, Slots
<1> QED  BY <1>3, <1>4, <1>5

\* Taking a frame shortens the waiting slots by their oldest.
LEMMA TakeWaiting ==
    ASSUME TypeInv, MenuInv, front # rear, front' = Advance(front), rear' = rear
    PROVE  /\ Waiting > 0
           /\ Waiting' = Waiting - 1
           /\ front' \in Slots /\ front' = Turn(front + 1)
           /\ \A k \in 1 .. Waiting - 1 : Turn(front' + k) = Turn(front + (k + 1))
<1>1. /\ front \in Slots \cup {-1} /\ rear \in Slots \cup {-1}
      /\ rear = -1 => front = -1
  BY DEF TypeInv, MenuInv
<1>2. /\ Advance(front) \in Slots
      /\ Advance(front) = Turn(front + 1)
      /\ Advance(front) = IF front = MAX_QUEUE - 1 THEN 0 ELSE front + 1
  BY <1>1, AdvanceStep
<1> QED  BY <1>1, <1>2, QueueAssumption DEF Waiting, Turn, Slots

\* A handler moves rear: the frame it holds is accepted.
LEMMA StoreRearFifo ==
    ASSUME Good, Quiet, NEW h \in Handler, StoreRear(h)
    PROVE  [Fifo!FifoNext]_Fifo!fifoVars
<1> DEFINE f == arg[h]
<1>1. TypeInv /\ RingInv /\ MenuInv /\ h \in Thread /\ h \notin Timer /\ h # Menu
  BY Threads DEF Good, RingInv
<1>2. /\ pc[h] = "store" /\ pc'[h] = "buff"
      /\ \A s \in Thread : s # h => pc'[s] = pc[s]
  BY <1>1, Goes DEF HandlerPc, Queueing, StoreRear
<1>3. /\ UNCHANGED <<front, slot, out, arg>>
      /\ rear' = Advance(rear) /\ f \in Frame /\ Advance(rear) # front
  BY <1>1, <1>2 DEF StoreRear, timers, RingInv, HandlerInv, Quiet, Queueing
<1>4. /\ \A g \in Handler : ~Filling(g) /\ (Filling(g)' <=> g = h)
      /\ ~Clearing /\ ~Clearing' /\ Departing' = Departing
  <2>1. (\A g \in Handler : g # h => ~Adding(g)) /\ pc[Menu] = "idle"
    BY <1>2 DEF Quiet, Adding
  <2>2. \A t \in Timer : pc'[t] = pc[t]
    BY <1>2, Threads
  <2> QED BY <1>1, <1>2, <2>1, <2>2, Threads DEF Filling, Clearing, Departing, Adding
<1>5. SeenShape /\ SeenShape'
  <2>1. OneFilling /\ OneFilling'
    BY <1>4 DEF OneFilling
  <2> QED BY <2>1, SeenIs, PTL
<1>6. /\ \A i \in Slots : Seen[i] = slot[i].buf /\ Seen[i] \in Contents
      /\ \A i \in Slots : Seen'[i] = IF i = Advance(rear) THEN f ELSE Seen[i]
  BY <1>1, <1>3, <1>4, <1>5 DEF SeenShape, TypeInv
<1>7. PendingShape /\ PendingShape'
  BY <1>4, PendingIs, PTL
<1>8. /\ Waiting \in 0 .. MAX_QUEUE /\ \A k \in 1 .. Waiting : Turn(front + k) \in Slots
      /\ Advance(rear) \in Slots
  BY <1>1, WaitingBounds, AdvanceStep DEF TypeInv
<1>9. /\ Pending \in Seq(Contents) /\ Len(Pending) = Waiting
      /\ \A k \in 1 .. Waiting : Pending[k] = Seen[Turn(front + k)]
  <2>1. Pending \in [1 .. Waiting -> Contents]
    BY <1>6, <1>7, <1>8 DEF PendingShape
  <2> QED BY <1>7, <1>8, <2>1 DEF PendingShape
<1>10. Leaving' = Leaving
  <2>1. Departing => front \in Slots /\ front # Advance(rear)
    BY <1>1, <1>3 DEF Departing, RingInv, TimerInv, TypeInv
  <2> QED BY <1>3, <1>4, <1>6, <2>1 DEF Leaving, Departing
<1>11. CASE front = -1 /\ rear = MAX_QUEUE - 1
  <2>1. Waiting = MAX_QUEUE /\ Waiting' = 1 /\ Turn(front + 1) = Advance(rear)
    BY <1>1, <1>3, <1>11, AddWaiting
  <2>2. Pending'[1] = f
    BY <1>3, <1>6, <1>7, <1>8, <2>1 DEF PendingShape, Turn
  <2>3. Pending' = <<f>>
    BY <1>7, <2>1, <2>2 DEF PendingShape
  <2>4. Fifo!Wrap(f)
    BY <1>3, <1>9, <1>10, <1>11, <2>1, <2>3 DEF Fifo!Wrap
  <2> QED BY <1>3, <2>4 DEF Fifo!FifoNext
<1>12. CASE ~(front = -1 /\ rear = MAX_QUEUE - 1)
  <2>1. /\ Waiting' = Waiting + 1
        /\ Waiting < MAX_QUEUE - 1 \/ (front = -1 /\ Waiting < MAX_QUEUE)
        /\ \A k \in 1 .. Waiting : Turn(front + k) # Advance(rear)
        /\ Turn(front + (Waiting + 1)) = Advance(rear)
    BY <1>1, <1>3, <1>12, AddWaiting
  <2>2. Pending' = [k \in 1 .. Waiting + 1 |-> Pending'[k]]
    BY <1>7, <2>1 DEF PendingShape
  <2>3. /\ \A k \in 1 .. Waiting : Pending'[k] = Pending[k]
        /\ Pending'[Waiting + 1] = f
    BY <1>3, <1>6, <1>7, <1>8, <1>9, <2>1 DEF PendingShape, Turn
  <2>4. Pending' = Append(Pending, f)
    BY <1>8, <1>9, <2>2, <2>3
  <2>5. Fifo!Put(f)
    BY <1>3, <1>9, <1>10, <2>1, <2>4 DEF Fifo!Put
  <2> QED BY <1>3, <2>5 DEF Fifo!FifoNext
<1> QED BY <1>11, <1>12

\* A timer thread moves front: the oldest frame leaves.
LEMMA StoreFrontFifo ==
    ASSUME Good, Quiet, NEW t \in Timer, StoreFront(t)
    PROVE  [Fifo!FifoNext]_Fifo!fifoVars
<1>1. /\ TypeInv /\ RingInv /\ HandlerInv /\ MenuInv
      /\ t \in Thread /\ t \notin Handler /\ t # Menu
  BY Threads DEF Good, RingInv
<1>2. /\ pc[t] = "store" /\ pc'[t] = "copy"
      /\ \A s \in Thread : s # t => pc'[s] = pc[s]
  BY <1>1, Goes DEF TimerPc, StoreFront
<1>3. /\ UNCHANGED <<rear, slot, out, arg>>
      /\ front' = Advance(front) /\ front # rear
  BY <1>1, <1>2 DEF StoreFront, timers, RingInv, TimerInv, Quiet
<1>4. /\ ~Clearing /\ ~Clearing' /\ Departing' /\ OneFilling
      /\ \A h \in Handler : Filling(h)' <=> Filling(h)
  BY <1>1, <1>2, Threads DEF Clearing, Departing, Quiet, Filling, OneFilling, Adding, Taking
<1>5. Seen' = Seen
  BY <1>3, <1>4, SeenSame
<1>6. \A i \in Slots : Seen[i] \in Contents
  <2>1. SeenShape
    BY <1>4, SeenIs
  <2>2. \A h \in Handler : Filling(h) => arg[h] \in Contents
    BY <1>1 DEF HandlerInv, Filling, Contents, Queueing
  <2> QED BY <1>1, <2>1, <2>2 DEF SeenShape, TypeInv
<1>7. PendingShape /\ PendingShape'
  BY <1>4, PendingIs, PTL
<1>8. Waiting \in 0 .. MAX_QUEUE /\ \A k \in 1 .. Waiting : Turn(front + k) \in Slots
  BY <1>1, WaitingBounds
<1>9. /\ Pending \in Seq(Contents) /\ Len(Pending) = Waiting
      /\ \A k \in 1 .. Waiting : Pending[k] = Seen[Turn(front + k)]
  <2>1. Pending \in [1 .. Waiting -> Contents]
    BY <1>6, <1>7, <1>8 DEF PendingShape
  <2> QED BY <1>7, <1>8, <2>1 DEF PendingShape
<1>10. /\ Waiting > 0 /\ Waiting' = Waiting - 1 /\ front' \in Slots
       /\ front' = Turn(front + 1)
       /\ \A k \in 1 .. Waiting - 1 : Turn(front' + k) = Turn(front + (k + 1))
  BY <1>1, <1>3, TakeWaiting
<1>11. Pending # << >> /\ Leaving' = Head(Pending)
  <2>1. Leaving' = Seen[front']
    BY <1>4, <1>5 DEF Leaving, Departing
  <2>2. Pending # << >> /\ Head(Pending) = Pending[1]
    BY <1>8, <1>9, <1>10
  <2> QED BY <1>8, <1>9, <1>10, <2>1, <2>2
<1>12. Pending' = Tail(Pending)
  <2>1. Pending' = [k \in 1 .. Waiting - 1 |-> Pending'[k]]
    BY <1>7, <1>10 DEF PendingShape
  <2>2. \A k \in 1 .. Waiting - 1 : Pending'[k] = Seen[Turn(front' + k)]
    BY <1>5, <1>7, <1>10 DEF PendingShape, Turn
  <2>3. \A k \in 1 .. Waiting - 1 : Pending'[k] = Pending[k + 1]
    BY <1>8, <1>9, <1>10, <2>2
  <2> QED BY <1>8, <1>9, <1>10, <2>1, <2>3
<1>13. (front # -1)' = TRUE
  BY <1>10 DEF Slots
<1>14. Fifo!Take
  BY <1>11, <1>12, <1>13 DEF Fifo!Take
<1> QED BY <1>14 DEF Fifo!FifoNext

\* The queue stays as it is while a handler builds a frame, looks at the ring
\* or fills the slot it has reserved.
LEMMA HandlerStutters ==
    ASSUME Good, Quiet, NEW h \in Handler,
           \/ \E f \in Frame : Build(h, f)
           \/ WriteHop(h) \/ IsFull(h) \/ LoadRear(h)
           \/ FillBuff(h) \/ FillUnicast(h) \/ Garble(h)
    PROVE  UNCHANGED Fifo!fifoVars
<1>1. /\ TypeInv /\ RingInv /\ h \in Thread /\ h \notin Timer /\ h # Menu
  BY Threads DEF Good
<1>2. /\ \A s \in Thread : s # h => pc'[s] = pc[s] /\ arg'[s] = arg[s]
      /\ UNCHANGED <<front, rear, out>>
  BY <1>1 DEF Build, BuildPlain, BuildReply, WriteHop, IsFull, LoadRear, FillBuff,
     FillUnicast, Garble, Go, TypeInv, ring
<1>3. Clearing' = Clearing /\ Departing' = Departing /\ OneFilling
  BY <1>1, <1>2, Threads DEF Clearing, Departing, Quiet, Filling, OneFilling, Adding
<1>4. CASE (\E f \in Frame : Build(h, f)) \/ WriteHop(h) \/ IsFull(h) \/ LoadRear(h)
           \/ Garble(h)
  <2>1. slot' = slot /\ ~Filling(h) /\ ~Filling(h)'
    <3>1. CASE (\E f \in Frame : Build(h, f)) \/ WriteHop(h) \/ LoadRear(h) \/ Garble(h)
      BY <1>1, <3>1 DEF Build, BuildPlain, BuildReply, WriteHop, LoadRear, Garble,
         Go, TypeInv, Filling, ring
    <3>2. CASE IsFull(h)
      <4>1. /\ slot' = slot /\ pc[h] = "full?"
            /\ pc'[h] = IF Advance(rear) = front THEN Done(h) ELSE "load"
        BY <1>1, <3>2 DEF IsFull, Go, TypeInv, ring
      <4> QED BY <4>1 DEF Done, Filling
    <3> QED BY <1>4, <3>1, <3>2
  <2>2. \A g \in Handler : (Filling(g)' <=> Filling(g)) /\ (Filling(g) => arg'[g] = arg[g])
    BY <1>2, <2>1, Threads DEF Filling
  <2>3. Seen' = Seen
    BY <1>2, <1>3, <2>1, <2>2, SeenSame
  <2> QED BY <1>2, <1>3, <2>3, LeavingSame, Stutters
<1>5. CASE FillBuff(h) \/ FillUnicast(h)
  <2>1. /\ Filling(h) /\ rear \in Slots /\ \A g \in Handler : g # h => ~Filling(g) /\ ~Filling(g)'
        /\ Filling(h)' <=> FillBuff(h)
    <3>1. /\ Filling(h) /\ rear \in Slots
          /\ \A g \in Handler : g # h => ~Filling(g) /\ ~Filling(g)'
      BY <1>1, <1>2, <1>5, Threads
         DEF FillBuff, FillUnicast, Go, TypeInv, RingInv, HandlerInv, Filling, Quiet, Adding
    <3>2. CASE FillBuff(h)
      BY <1>1, <3>1, <3>2 DEF FillBuff, Go, TypeInv, Filling
    <3>3. CASE FillUnicast(h)
      <4>1. pc[h] = "unicast" /\ pc'[h] = Done(h)
        BY <1>1, <3>3 DEF FillUnicast, Go, TypeInv
      <4>2. ~FillBuff(h)
        BY <4>1 DEF FillBuff, Go
      <4> QED BY <3>1, <4>1, <4>2 DEF Done, Filling
    <3> QED BY <1>5, <3>1, <3>2, <3>3
  <2>2. OneFilling'
    BY <2>1 DEF OneFilling
  <2>3. SeenShape /\ SeenShape'
    BY <1>3, <2>2, SeenIs, PTL
  <2>4. /\ \A i \in Slots : i # rear => slot'[i].buf = slot[i].buf
        /\ slot'[rear].buf = arg[h]
        /\ FillBuff(h) => arg'[h] = arg[h]
    <3>1. CASE FillBuff(h)
      BY <1>1, <2>1, <3>1 DEF FillBuff, TypeInv
    <3>2. CASE FillUnicast(h)
      <4>1. slot[rear].buf = arg[h]
        BY <1>1, <3>2 DEF RingInv, HandlerInv, FillUnicast, Go
      <4> DEFINE uni == Unicast(arg[h])
      <4>2. slot' = [slot EXCEPT ![rear] = [slot[rear] EXCEPT !.uni = uni]]
        BY <2>1, <3>2 DEF FillUnicast
      <4> HIDE DEF uni
      <4>3. ~FillBuff(h)
        BY <3>2 DEF FillBuff, FillUnicast, Go
      <4> QED BY <1>1, <2>1, <4>1, <4>2, <4>3 DEF TypeInv
    <3> QED BY <1>5, <3>1, <3>2
  <2>5. \A i \in Slots : Seen'[i] = Seen[i]
    <3>1. \A i \in Slots : Seen[i] = IF i = rear THEN arg[h] ELSE slot[i].buf
      BY <2>1, <2>3 DEF SeenShape
    <3>2. CASE Filling(h)'
      BY <1>2, <2>1, <2>3, <2>4, <3>1, <3>2 DEF SeenShape
    <3>3. CASE ~Filling(h)'
      <4>1. \A g \in Handler : ~Filling(g)'
        BY <2>1, <3>3
      <4> QED BY <2>3, <2>4, <3>1, <4>1 DEF SeenShape
    <3> QED BY <3>2, <3>3
  <2>6. Seen' = Seen
    BY <2>3, <2>5 DEF SeenShape
  <2> QED BY <1>2, <1>3, <2>6, LeavingSame, Stutters
<1> QED BY <1>4, <1>5

\* The frame that is copied to g_payload and transmitted is the one that left
\* last: its slot is filled, and nobody moves front meanwhile.
LEMMA TimerStutters ==
    ASSUME Good, Quiet, NEW t \in Timer,
           \/ Expire(t) \/ IsEmpty(t) \/ LoadFront(t)
           \/ Copy(t) \/ Address(t) \/ Send(t)
    PROVE  UNCHANGED Fifo!fifoVars
<1>1. /\ TypeInv /\ RingInv /\ TimerInv /\ t \in Thread /\ t \notin Handler /\ t # Menu
  BY Threads DEF Good, RingInv
<1>2. /\ \A s \in Thread : s # t => pc'[s] = pc[s] /\ arg'[s] = arg[s]
      /\ UNCHANGED <<front, rear, slot>>
  BY <1>1 DEF Expire, IsEmpty, LoadFront, Copy, Address, Send, Go, TypeInv, ring
<1>3. /\ Clearing' = Clearing /\ OneFilling
      /\ \A h \in Handler : (Filling(h)' <=> Filling(h)) /\ arg'[h] = arg[h]
  BY <1>1, <1>2, Threads DEF Clearing, Quiet, Filling, OneFilling, Adding
<1>4. Seen' = Seen
  BY <1>2, <1>3, SeenSame
<1>5. CASE Expire(t) \/ IsEmpty(t) \/ LoadFront(t) \/ Copy(t) \/ Address(t)
  <2>1. out' = out
    BY <1>5 DEF Expire, IsEmpty, LoadFront, Copy, Address
  <2>2. pc[t] \in {"copy", "address", "send"} <=> pc'[t] \in {"copy", "address", "send"}
    BY <1>1, <1>5 DEF Expire, IsEmpty, LoadFront, Copy, Address, Go, TypeInv, Quiet
  <2>3. Departing' = Departing
    BY <1>2, <2>2, Threads DEF Departing
  <2> QED BY <1>2, <1>3, <1>4, <2>1, <2>3, LeavingSame, Stutters
<1>6. CASE Send(t)
  <2>1. pc[t] = "send" /\ pc'[t] = "idle" /\ out'.frame = payload
    BY <1>1, <1>6 DEF Send, Go, TypeInv
  <2>2. Departing /\ ~Departing'
    BY <1>2, <2>1, Threads DEF Departing, Quiet, Taking
  <2>3. front \in Slots /\ payload = slot[front].buf
    BY <1>1, <2>1 DEF TimerInv, TypeInv
  <2>4. Seen[front] = slot[front].buf
    <3>1. SeenShape /\ \A h \in Handler : Filling(h) => front # rear
      BY <1>3, <2>1, SeenIs DEF Quiet
    <3> QED BY <2>3, <3>1 DEF SeenShape
  <2>5. Leaving' = Leaving
    BY <2>1, <2>2, <2>3, <2>4 DEF Leaving, Departing
  <2> QED BY <1>2, <1>3, <1>4, <2>5, Stutters
<1> QED BY <1>5, <1>6

\* Menu 7 clears the queue when it sets front to -1.
LEMMA MenuFifo ==
    ASSUME Good, Quiet, Clear \/ MenuStep \/ WSM_ReleaseTxOperation
    PROVE  [Fifo!FifoNext]_Fifo!fifoVars
<1>1. /\ TypeInv /\ MenuInv /\ Menu \in Thread
      /\ \A s \in Handler \cup Timer : s \in Thread /\ s # Menu
  BY Threads DEF Good, RingInv
<1>2. /\ UNCHANGED <<out, arg>>
      /\ \A s \in Handler \cup Timer : pc'[s] = pc[s]
  BY <1>1 DEF Clear, MenuStep, ClearFront, ClearRear, ClearSlots, WSM_InitTxOperation,
     WSM_ReleaseTxOperation, Go, TypeInv
<1>3. /\ Departing' = Departing /\ OneFilling
      /\ \A h \in Handler : (Filling(h)' <=> Filling(h)) /\ arg'[h] = arg[h]
  BY <1>2 DEF Departing, Filling, Quiet, OneFilling, Adding
<1>4. CASE Clear \/ WSM_InitTxOperation \/ WSM_ReleaseTxOperation
  <2>1. UNCHANGED <<front, rear, slot>>
    BY <1>4 DEF Clear, WSM_InitTxOperation, WSM_ReleaseTxOperation, ring
  <2>2. Clearing' = Clearing
    BY <1>1, <1>4 DEF Clear, WSM_InitTxOperation, WSM_ReleaseTxOperation, Clearing, Go, TypeInv
  <2>3. Seen' = Seen
    BY <1>3, <2>1, SeenSame
  <2> QED BY <1>2, <1>3, <2>1, <2>2, <2>3, LeavingSame, Stutters
<1>5. CASE ClearFront
  <2>1. /\ pc[Menu] = "front" /\ pc'[Menu] = "rear" /\ front' = -1
    BY <1>1, <1>5 DEF ClearFront, Go, TypeInv
  <2>2. ~Departing
    BY <2>1 DEF Departing, Quiet, Taking
  <2>3. Pending' = << >> /\ Leaving' = Leaving
    BY <1>2, <1>3, <2>1, <2>2 DEF Pending, Leaving, Departing
  <2>4. Fifo!Clear
    BY <2>1, <2>3 DEF Fifo!Clear
  <2> QED BY <2>4 DEF Fifo!FifoNext
<1>6. CASE ClearRear \/ ClearSlots
  <2>1. /\ pc[Menu] \in {"rear", "slots"} /\ front = -1 /\ front' = -1
        /\ pc'[Menu] = "slots" \/ rear' = -1
    BY <1>1, <1>6 DEF ClearRear, ClearSlots, Go, TypeInv, MenuInv
  <2>2. ~Departing
    BY <2>1 DEF Departing, Quiet, Taking
  <2>3. Leaving' = Leaving
    BY <1>2, <1>3, <2>2 DEF Leaving, Departing
  <2>4. Pending = << >>
    BY <2>1 DEF Pending
  <2>5. Pending' = << >>
    <3>1. CASE pc'[Menu] \in {"rear", "slots"}
      BY <3>1 DEF Pending
    <3>2. CASE pc'[Menu] \notin {"rear", "slots"}
      <4>1. Waiting' = 0
        BY <2>1, <3>2 DEF Waiting
      <4> QED BY <3>2, <4>1 DEF Pending
    <3> QED BY <3>1, <3>2
  <2>6. UNCHANGED Fifo!fifoVars
    BY <2>1, <2>3, <2>4, <2>5 DEF Fifo!fifoVars
  <2> QED BY <2>6
<1> QED BY <1>4, <1>5, <1>6 DEF MenuStep

LEMMA StepPathFifo == Stop /\ PathInv /\ [Next]_vars => [Fifo!FifoNext]_Fifo!fifoVars
<1> SUFFICES ASSUME Stop, PathInv, [Next]_vars PROVE [Fifo!FifoNext]_Fifo!fifoVars
  OBVIOUS
<1>1. CASE UNCHANGED vars
  <2>1. /\ UNCHANGED <<front, out>> /\ Seen' = Seen /\ Waiting' = Waiting
        /\ Clearing' = Clearing /\ Departing' = Departing /\ UNCHANGED <<rear, pc>>
    BY <1>1 DEF vars, Seen, Filling, Clearing, Departing, Waiting
  <2> QED BY <2>1, LeavingSame, Stutters
<1>2. CASE Next
  <2>1. Good /\ Quiet
    BY <1>2 DEF Next, PathInv
  <2>2. ASSUME NEW h \in Handler, (\E f \in Frame : Build(h, f)) \/ AddqStep(h)
        PROVE  [Fifo!FifoNext]_Fifo!fifoVars
    <3>1. CASE StoreRear(h)
      BY <2>1, <3>1, StoreRearFifo
    <3>2. CASE ~StoreRear(h)
      BY <2>1, <2>2, <3>2, HandlerStutters DEF AddqStep
    <3> QED BY <3>1, <3>2
  <2>3. ASSUME NEW t \in Timer, Expire(t) \/ TimerStep(t)
        PROVE  [Fifo!FifoNext]_Fifo!fifoVars
    <3>1. CASE StoreFront(t)
      BY <2>1, <3>1, StoreFrontFifo
    <3>2. CASE ~StoreFront(t)
      BY <2>1, <2>3, <3>2, TimerStutters DEF TimerStep
    <3> QED BY <3>1, <3>2
  <2>4. CASE Clear \/ MenuStep \/ WSM_ReleaseTxOperation
    BY <2>1, <2>4, MenuFifo
  <2> QED BY <1>2, <2>2, <2>3, <2>4 DEF Next
<1> QED BY <1>1, <1>2

LEMMA InitPathFifo == Init => Fifo!FifoInit
<1> SUFFICES ASSUME Init PROVE Fifo!FifoInit
  OBVIOUS
<1>1. (\A s \in Thread : pc[s] = "idle") /\ front = -1 /\ rear = -1 /\ out.frame = NoFrame
  BY DEF Init
<1>2. Waiting = 0 /\ pc[Menu] = "idle" /\ \A t \in Timer : pc[t] = "idle"
  BY <1>1, Threads DEF Waiting
<1>3. Pending = << >> /\ Leaving = NoFrame
  BY <1>1, <1>2 DEF Pending, Leaving
<1> QED BY <1>3 DEF Fifo!FifoInit

\* The unlocked ring is the frame queue its callers take it for, with any number
\* of handlers and timer threads under way in it at once, up to and including
\* the step after which two accesses conflict (Harm): Stop ends the model there.
\* It is not that queue afterwards: of two threads that both found the last frame,
\* the second transmits its slot again.
THEOREM PathImplementsFifo == ASSUME Stop PROVE Spec => PathIsFifo
<1>1. PathInv /\ [Next]_vars => [Fifo!FifoNext]_Fifo!fifoVars
  BY StepPathFifo
<1> QED
  BY <1>1, InitPathFifo, PathInvariance, PTL DEF Spec, PathIsFifo, Fifo!FifoSpec
=============================================================================
