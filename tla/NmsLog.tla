-------------------------------- MODULE NmsLog --------------------------------
(* The log of one node (NMS_logging of aodv.c).  A handler that has taken or   *)
(* built a frame appends a copy of it, a record, to nms_log_buff; the root     *)
(* hands the buffer to the NMS, every other node queues it for the next hop    *)
(* towards the root, and either empties it.  Without a route the records stay  *)
(* until a later call finds one.                                               *)
(*                                                                             *)
(* The receive callback logs what it takes, the Hello_Rann thread the PERRs it *)
(* makes, and nothing is locked: each access to nms_log_buff and to the size   *)
(* is a step of its own.  Records have one size here, so that the buffer is a  *)
(* sequence of places; a record that is overwritten is lost as a whole.        *)
EXTENDS Integers, Sequences, FiniteSets

CONSTANTS Logger,      \* the threads that log
          MaxLog,      \* bound: calls of NMS_logging, numbered as they start
          Cap          \* records nms_log_buff has room for

ASSUME LogAssumption ==
    IsFiniteSet(Logger) /\ MaxLog \in Nat /\ Cap \in Nat \ {0}

Record == 1 .. MaxLog
Blank == 0             \* what memset leaves
Place == 0 .. Cap - 1

VARIABLES
    RootNode,
    route,             \* the node has a route to the root
    nms_log_buff,
    size,              \* p_nms_log_str->size
    pc, rec, reg,      \* per logger: its next step, its record, a size it has read
    sent,              \* the frames queued, or handed to NMS_log_send_nms
    logged,            \* calls so far
    overrun,           \* a record was written behind the buffer, nothing is known then
    met,               \* history: two calls have overlapped
    alone,             \* history, per logger: its call has met no other
    since              \* history: calls since one that met no other emptied the buffer

vars == <<RootNode, route, nms_log_buff, size, pc, rec, reg, sent, logged, overrun,
          met, alone, since>>

Init ==
    /\ RootNode \in BOOLEAN /\ route \in BOOLEAN
    /\ nms_log_buff = [i \in Place |-> Blank] /\ size = 0
    /\ pc = [t \in Logger |-> "idle"]
    /\ rec = [t \in Logger |-> Blank] /\ reg = [t \in Logger |-> 0]
    /\ sent = << >> /\ logged = 0 /\ overrun = FALSE
    /\ met = FALSE /\ alone = [t \in Logger |-> FALSE] /\ since = 0

Go(t, now, next) ==
    /\ pc[t] = now /\ ~overrun
    /\ pc' = [pc EXCEPT ![t] = next]

Others(t) == {u \in Logger \ {t} : pc[u] # "idle"}

call == <<rec, logged, overrun, met, alone>>
-----------------------------------------------------------------------------
\* NMS_log_add: the record is copied to where the size says.
Copied(t) ==
    /\ Go(t, "idle", "load")
    /\ logged < MaxLog
    /\ logged' = logged + 1
    /\ rec' = [rec EXCEPT ![t] = logged + 1]
    /\ IF size \in Place
       THEN nms_log_buff' = [nms_log_buff EXCEPT ![size] = logged + 1] /\ UNCHANGED overrun
       ELSE overrun' = TRUE /\ UNCHANGED nms_log_buff
    /\ alone' = [u \in Logger |-> IF u = t THEN Others(t) = {} ELSE FALSE]
    /\ met' = (met \/ Others(t) # {})
    /\ UNCHANGED <<RootNode, route, size, reg, sent>>
    /\ since' = since + 1

\* The size grows: a load and a store.
LoadSize(t) ==
    /\ Go(t, "load", "store")
    /\ reg' = [reg EXCEPT ![t] = size]
    /\ UNCHANGED <<RootNode, route, nms_log_buff, size, sent, since, call>>

\* Mutant: what was read is added to the size once more.
StoreSizeTwice(t) ==
    /\ Go(t, "store", IF RootNode THEN "size" ELSE "find")
    /\ size' = size + reg[t] + 1
    /\ UNCHANGED <<RootNode, route, nms_log_buff, reg, sent, since, call>>

StoreSize(t) ==
    /\ Go(t, "store", IF RootNode THEN "size" ELSE "find")
    /\ size' = reg[t] + 1
    /\ UNCHANGED <<RootNode, route, nms_log_buff, reg, sent, since, call>>

\* Mutant: without a route the size is set back, and the records with it.
FindRouteDropping(t) ==
    /\ Go(t, "find", IF route THEN "size" ELSE "idle")
    /\ size' = IF route THEN size ELSE 0
    /\ UNCHANGED <<RootNode, route, nms_log_buff, reg, sent, since, call>>

\* NMS_log_send looks for the route to the root; without one the call ends.
FindRoute(t) ==
    /\ Go(t, "find", IF route THEN "size" ELSE "idle")
    /\ UNCHANGED <<RootNode, route, nms_log_buff, size, reg, sent, since, call>>

\* The size is read: for the frame in NMS_log_send, as the argument of
\* NMS_log_send_nms at the root.
ReadSize(t) ==
    /\ Go(t, "size", "send")
    /\ reg' = [reg EXCEPT ![t] = size]
    /\ UNCHANGED <<RootNode, route, nms_log_buff, size, sent, since, call>>

\* So many bytes of the buffer are copied and the frame leaves.  The root copies
\* its header, with the size in it, only now.
Send(t) ==
    /\ Go(t, "send", "clear")
    /\ sent' = Append(sent,
         [by |-> t, says |-> IF RootNode THEN size ELSE reg[t],
          body |-> [k \in 1 .. reg[t] |->
                      IF k - 1 \in Place THEN nms_log_buff[k - 1] ELSE Blank]])
    /\ UNCHANGED <<RootNode, route, nms_log_buff, size, reg, since, call>>

\* Mutant: NMS_log_reset leaves the records where they are.
LeaveBuffer(t) ==
    /\ Go(t, "clear", "zero")
    /\ UNCHANGED <<RootNode, route, nms_log_buff, size, reg, sent, since, call>>

\* NMS_log_reset: memset, then the size.
ClearBuffer(t) ==
    /\ Go(t, "clear", "zero")
    /\ nms_log_buff' = [i \in Place |-> Blank]
    /\ UNCHANGED <<RootNode, route, size, reg, sent, since, call>>

\* Mutant: the size stays.
LeaveSize(t) ==
    /\ Go(t, "zero", "idle")
    /\ since' = IF alone[t] THEN 0 ELSE since
    /\ UNCHANGED <<RootNode, route, nms_log_buff, size, reg, sent, call>>

ClearSize(t) ==
    /\ Go(t, "zero", "idle")
    /\ size' = 0
    /\ since' = IF alone[t] THEN 0 ELSE since
    /\ UNCHANGED <<RootNode, route, nms_log_buff, reg, sent, call>>

\* The route is lost, or found again.
RouteChange ==
    /\ ~RootNode /\ ~overrun
    /\ route' = ~route
    /\ UNCHANGED <<RootNode, nms_log_buff, size, pc, reg, sent, since, call>>

\* The end of what is modelled.
Ended ==
    /\ overrun \/ (logged = MaxLog /\ \A t \in Logger : pc[t] = "idle")
    /\ UNCHANGED vars

Next ==
    \/ \E t \in Logger :
          \/ Copied(t) \/ LoadSize(t) \/ StoreSize(t) \/ FindRoute(t)
          \/ ReadSize(t) \/ Send(t) \/ ClearBuffer(t) \/ ClearSize(t)
    \/ RouteChange
    \/ Ended

Spec == Init /\ [][Next]_vars
-----------------------------------------------------------------------------
Sent == [by : Logger, says : 0 .. MaxLog, body : Seq(Record \cup {Blank})]

\* The buffer, the size, the frames and the steps of the threads are what they can be.
TypeOK ==
    /\ RootNode \in BOOLEAN /\ route \in BOOLEAN /\ overrun \in BOOLEAN
    /\ nms_log_buff \in [Place -> Record \cup {Blank}]
    /\ size \in 0 .. MaxLog /\ logged \in 0 .. MaxLog /\ since \in 0 .. MaxLog
    /\ pc \in [Logger -> {"idle", "load", "store", "find", "size", "send", "clear", "zero"}]
    /\ rec \in [Logger -> Record \cup {Blank}] /\ reg \in [Logger -> 0 .. MaxLog]
    /\ sent \in Seq(Sent)
    /\ met \in BOOLEAN /\ alone \in [Logger -> BOOLEAN]

\* The record that ends the jth frame of s.
EndOf(s, j) == IF j = 0 THEN 0 ELSE s[j].body[Len(s[j].body)]

\* The frames of s hold the records from the first on, each once and in the
\* order of the calls: every frame begins where the one before it ended.
Consecutive(s) ==
    \A j \in 1 .. Len(s) :
        /\ s[j].body # << >>
        /\ \A k \in 1 .. Len(s[j].body) : s[j].body[k] = EndOf(s, j - 1) + k

\* Until two calls overlap, and between the calls, the frames and behind them the
\* buffer hold every record once and in the order of the calls, however often
\* the route was lost in between.
OnceInOrder ==
    ~met /\ ~overrun /\ (\A t \in Logger : pc[t] = "idle") =>
        /\ Consecutive(sent)
        /\ logged = EndOf(sent, Len(sent)) + size
        /\ \A k \in 1 .. size : nms_log_buff[k - 1] = EndOf(sent, Len(sent)) + k

\* Whatever the threads do to each other, a thread sends a record at most once,
\* since it has cleared the buffer before it sends again: the NMS gets a record
\* twice only from two threads.
ThreadSendsOnce ==
    \A j, k \in 1 .. Len(sent) :
        j # k /\ sent[j].by = sent[k].by =>
            \A x \in 1 .. Len(sent[j].body), y \in 1 .. Len(sent[k].body) :
                sent[j].body[x] = sent[k].body[y] => sent[j].body[x] = Blank

\* Nothing checks the size against the buffer.  It is overrun only by more than
\* Cap calls in a row that all found no route or met another call: stale sizes
\* stored back by overlapping calls do not add up beyond the calls made.
GrowsByCalls == size <= since
===============================================================================
