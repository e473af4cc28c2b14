---------------------------- MODULE NmsLogFeedProofs --------------------------
(* What the NMS gets.  NmsLog, for every number of threads that log, every    *)
(* size of the buffer and every number of calls: its types, that the size     *)
(* grows only with the calls, that no thread sends a record twice, and that   *)
(* the records arrive in order.  NmsFeed, for every number of rows, clients   *)
(* and logging threads: its types, and that the loss of a client ends the     *)
(* program only in the ways SurvivesReset names.                              *)
EXTENDS NmsLog, NmsFeed, FiniteSetTheorems, SequenceTheorems, TLAPS

-----------------------------------------------------------------------------
\* The log.

\* The calls that have not yet stored their size.
Growing == {t \in Logger : pc[t] \in {"load", "store"}}

Alone(t) == alone[t] /\ pc[t] # "idle" => \A u \in Logger \ {t} : pc[u] = "idle"

\* A size in the buffer's header or in a thread's hand, counted with the calls
\* that will still add to it, is not above the calls made since the last time a
\* call that met no other emptied the buffer.
SizeInv ==
    /\ since <= logged
    /\ size + Cardinality(Growing) <= since
    /\ \A t \in Logger : pc[t] = "store" => reg[t] + Cardinality(Growing) <= since
    /\ \A t \in Logger : Alone(t)

LEMMA GrowingFinite == IsFiniteSet(Growing) /\ Cardinality(Growing) \in Nat
<1>1. Growing \subseteq Logger /\ IsFiniteSet(Logger)
  BY LogAssumption DEF Growing
<1> QED
  BY <1>1, FS_Subset, FS_CardinalityType

\* A step of thread t moves t only.
LEMMA GrowingMoves ==
    ASSUME TypeOK, NEW t \in Logger, NEW now, NEW next, Go(t, now, next)
    PROVE  /\ now \notin {"load", "store"} /\ next \in {"load", "store"}
                => Cardinality(Growing') = Cardinality(Growing) + 1
           /\ now \in {"load", "store"} /\ next \notin {"load", "store"}
                => Cardinality(Growing') = Cardinality(Growing) - 1
           /\ (now \in {"load", "store"} <=> next \in {"load", "store"})
                => Growing' = Growing
<1>1. /\ pc[t] = now /\ pc'[t] = next
      /\ \A u \in Logger \ {t} : pc'[u] = pc[u]
  BY DEF Go, TypeOK
<1>2. CASE now \notin {"load", "store"} /\ next \in {"load", "store"}
  <2>1. Growing' = Growing \cup {t} /\ t \notin Growing
    BY <1>1, <1>2 DEF Growing
  <2> QED
    BY <1>2, <2>1, GrowingFinite, FS_AddElement
<1>3. CASE now \in {"load", "store"} /\ next \notin {"load", "store"}
  <2>1. Growing' = Growing \ {t} /\ t \in Growing
    BY <1>1, <1>3 DEF Growing
  <2> QED
    BY <1>3, <2>1, GrowingFinite, FS_RemoveElement
<1>4. CASE now \in {"load", "store"} <=> next \in {"load", "store"}
  <2>1. Growing' = Growing
    BY <1>1, <1>4 DEF Growing
  <2> QED
    BY <1>4, <2>1
<1> QED
  BY <1>2, <1>3, <1>4

\* The steps of a call after its first keep Alone: nobody else moves, and t
\* itself may only end its call.
LEMMA StaysAlone ==
    ASSUME TypeOK, \A u \in Logger : Alone(u), UNCHANGED alone,
           NEW t \in Logger, NEW now, NEW next, Go(t, now, next), now # "idle"
    PROVE  \A u \in Logger : Alone(u)'
  BY DEF Alone, Go, TypeOK

\* What Send copies out of the buffer, and the frame it makes of it.
Body(t) == [k \in 1 .. reg[t] |-> IF k - 1 \in Place THEN nms_log_buff[k - 1] ELSE Blank]

Frame(t) == [by |-> t, says |-> IF RootNode THEN size ELSE reg[t], body |-> Body(t)]

LEMMA FrameBody ==
    ASSUME TypeOK, NEW t \in Logger
    PROVE  /\ Body(t) \in Seq(Record \cup {Blank})
           /\ Len(Body(t)) = reg[t]
           /\ \A k \in 1 .. Len(Body(t)) :
                 \/ Body(t)[k] = Blank
                 \/ \E i \in Place : Body(t)[k] = nms_log_buff[i]
<1>1. reg[t] \in Nat
  BY LogAssumption DEF TypeOK
<1>2. \A k \in 1 .. reg[t] : Body(t)[k] \in Record \cup {Blank}
  BY DEF TypeOK, Body
<1>3. Body(t) \in Seq(Record \cup {Blank}) /\ Len(Body(t)) = reg[t]
  <2>1. Body(t) \in [1 .. reg[t] -> Record \cup {Blank}]
    BY <1>2 DEF Body
  <2>2. Body(t) \in Seq(Record \cup {Blank})
    BY <1>1, <2>1, SeqDef
  <2> QED
    BY <1>1, <2>1, <2>2, LenProperties
<1> QED
  BY <1>3 DEF Body

\* TypeOK and SizeInv hold together: what keeps the size in its type is that it
\* counts no more than the calls.
LEMMA SizeInvariant == Spec => [](TypeOK /\ SizeInv)
<1>1. Init => TypeOK /\ SizeInv
  <2> SUFFICES ASSUME Init PROVE TypeOK /\ SizeInv
    OBVIOUS
  <2>1. TypeOK
    <3>1. sent \in Seq(Sent)
      BY DEF Init
    <3>2. MaxLog \in Nat
      BY LogAssumption
    <3>3. 0 \in 0 .. MaxLog
      BY <3>2
    <3>4. nms_log_buff \in [Place -> Record \cup {Blank}]
      BY DEF Init
    <3>5. pc \in [Logger -> {"idle", "load", "store", "find", "size", "send", "clear",
                           "zero"}]
      BY DEF Init
    <3>6. rec \in [Logger -> Record \cup {Blank}] /\ reg \in [Logger -> 0 .. MaxLog]
          /\ alone \in [Logger -> BOOLEAN]
      BY <3>3 DEF Init
    <3>7. RootNode \in BOOLEAN /\ route \in BOOLEAN /\ overrun \in BOOLEAN /\ met \in BOOLEAN
          /\ size = 0 /\ logged = 0 /\ since = 0
      BY DEF Init
    <3> QED
      BY <3>1, <3>3, <3>4, <3>5, <3>6, <3>7 DEF TypeOK
  <2>2. Growing = {}
    BY DEF Init, Growing
  <2> QED
    BY <2>1, <2>2, FS_EmptySet DEF Init, SizeInv, Alone
<1>2. TypeOK /\ SizeInv /\ [Next]_vars => (TypeOK /\ SizeInv)'
  <2> SUFFICES ASSUME TypeOK, SizeInv, [Next]_vars PROVE TypeOK' /\ SizeInv'
    OBVIOUS
  <2> USE DEF call
  <2>c. Cardinality(Growing) \in Nat
    BY GrowingFinite
  <2>t. MaxLog \in Nat /\ size \in Nat /\ since \in Nat /\ logged \in 0 .. MaxLog
        /\ \A u \in Logger : reg[u] \in Nat
    BY LogAssumption DEF TypeOK
  <2>1. ASSUME NEW t \in Logger, Copied(t) PROVE TypeOK' /\ SizeInv'
    <3>1. Cardinality(Growing') = Cardinality(Growing) + 1
      BY <2>1, GrowingMoves DEF Copied
    <3>2. /\ logged' = logged + 1 /\ since' = since + 1 /\ logged < MaxLog
          /\ size' = size /\ reg' = reg
          /\ \A u \in Logger : pc'[u] = "store" => pc[u] = "store"
      BY <2>1 DEF Copied, Go, TypeOK
    <3>3. \A u \in Logger : Alone(u)'
      BY <2>1 DEF Copied, Go, Alone, Others, TypeOK
    <3>4. SizeInv'
      BY <2>c, <2>t, <3>1, <3>2, <3>3 DEF SizeInv
    <3>5. logged + 1 \in Record /\ logged' \in 0 .. MaxLog /\ since' \in 0 .. MaxLog
      BY <2>t, <3>2 DEF SizeInv, Record
    <3>6. nms_log_buff' \in [Place -> Record \cup {Blank}] /\ overrun' \in BOOLEAN
      BY <2>1, <3>5 DEF Copied, TypeOK
    <3>7. rec' \in [Logger -> Record \cup {Blank}] /\ met' \in BOOLEAN
          /\ alone' \in [Logger -> BOOLEAN] /\ logged' \in 0 .. MaxLog
      BY <2>1, <3>5 DEF Copied, TypeOK
    <3>8. /\ pc' \in [Logger -> {"idle", "load", "store", "find", "size", "send", "clear",
                                 "zero"}]
          /\ UNCHANGED <<RootNode, route, size, reg, sent>>
      BY <2>1 DEF Copied, Go, TypeOK
    <3> QED
      BY <3>4, <3>5, <3>6, <3>7, <3>8 DEF TypeOK
  <2>2. ASSUME NEW t \in Logger, LoadSize(t) PROVE TypeOK' /\ SizeInv'
    <3>1. Growing' = Growing
      BY <2>2, GrowingMoves DEF LoadSize
    <3>2. \A u \in Logger : Alone(u)'
      BY <2>2, StaysAlone DEF LoadSize, SizeInv
    <3>3. TypeOK'
      BY <2>2 DEF LoadSize, Go, TypeOK
    <3>4. \A u \in Logger : 
                  pc'[u] = "store" => reg'[u] = size \/ (pc[u] = "store" /\ reg'[u] = reg[u])
      BY <2>2 DEF LoadSize, Go, TypeOK
    <3>5. size' = size /\ since' = since /\ logged' = logged
      BY <2>2 DEF LoadSize
    <3>6. \A u \in Logger : pc'[u] = "store" => reg'[u] + Cardinality(Growing) <= since
      BY <3>4 DEF SizeInv
    <3> QED
      BY <3>1, <3>2, <3>3, <3>5, <3>6 DEF SizeInv
  <2>3. ASSUME NEW t \in Logger, StoreSize(t) PROVE TypeOK' /\ SizeInv'
    <3>1. Cardinality(Growing') = Cardinality(Growing) - 1
      <4>1. CASE RootNode
        BY <2>3, <4>1, GrowingMoves DEF StoreSize
      <4>2. CASE ~RootNode
        BY <2>3, <4>2, GrowingMoves DEF StoreSize
      <4> QED
        BY <4>1, <4>2
    <3>2. \A u \in Logger : Alone(u)'
      <4>1. CASE RootNode
        BY <2>3, <4>1, StaysAlone DEF StoreSize, SizeInv
      <4>2. CASE ~RootNode
        BY <2>3, <4>2, StaysAlone DEF StoreSize, SizeInv
      <4> QED
        BY <4>1, <4>2
    <3>3. /\ pc[t] = "store" /\ size' = reg[t] + 1
          /\ UNCHANGED <<RootNode, route, nms_log_buff, reg, sent, since, call>>
          /\ \A u \in Logger : pc'[u] = "store" => pc[u] = "store"
          /\ pc' \in [Logger -> {"idle", "load", "store", "find", "size", "send", "clear",
                                 "zero"}]
      BY <2>3 DEF StoreSize, Go, TypeOK
    <3>4. Cardinality(Growing') \in Nat
      <4>1. t \in Growing
        BY <3>3 DEF Growing
      <4> QED
        BY <3>1, <4>1, <2>c, GrowingFinite, FS_EmptySet
    <3>5. SizeInv'
      BY <2>c, <2>t, <3>1, <3>2, <3>3 DEF SizeInv
    <3>6. size' \in 0 .. MaxLog
      BY <2>t, <2>c, <3>1, <3>3, <3>4 DEF SizeInv
    <3> QED
      BY <3>3, <3>5, <3>6 DEF TypeOK
  <2>4. ASSUME NEW t \in Logger, FindRoute(t) PROVE TypeOK' /\ SizeInv'
    <3>1. Growing' = Growing
      <4>1. CASE route
        BY <2>4, <4>1, GrowingMoves DEF FindRoute
      <4>2. CASE ~route
        BY <2>4, <4>2, GrowingMoves DEF FindRoute
      <4> QED
        BY <4>1, <4>2
    <3>2. \A u \in Logger : Alone(u)'
      BY <2>4 DEF FindRoute, SizeInv, Go, TypeOK, Alone
    <3>3. TypeOK'
      BY <2>4 DEF FindRoute, Go, TypeOK
    <3>4. \A u \in Logger : pc'[u] = "store" => pc[u] = "store"
      BY <2>4 DEF FindRoute, Go, TypeOK
    <3> QED
      BY <2>4, <3>1, <3>2, <3>3, <3>4 DEF FindRoute, SizeInv
  <2>5. ASSUME NEW t \in Logger, ReadSize(t) PROVE TypeOK' /\ SizeInv'
    <3>1. Growing' = Growing
      BY <2>5, GrowingMoves DEF ReadSize
    <3>2. \A u \in Logger : Alone(u)'
      BY <2>5, StaysAlone DEF ReadSize, SizeInv
    <3>3. TypeOK'
      BY <2>5 DEF ReadSize, Go, TypeOK
    <3>4. \A u \in Logger : pc'[u] = "store" => pc[u] = "store" /\ reg'[u] = reg[u]
      BY <2>5 DEF ReadSize, Go, TypeOK
    <3> QED
      BY <2>5, <3>1, <3>2, <3>3, <3>4 DEF ReadSize, SizeInv
  <2>6. ASSUME NEW t \in Logger, Send(t) PROVE TypeOK' /\ SizeInv'
    <3>1. Growing' = Growing
      BY <2>6, GrowingMoves DEF Send
    <3>2. \A u \in Logger : Alone(u)'
      BY <2>6, StaysAlone DEF Send, SizeInv
    <3>3. TypeOK'
      <4>1. /\ pc' \in [Logger -> {"idle", "load", "store", "find", "size", "send", "clear",
                                  "zero"}]
            /\ UNCHANGED <<RootNode, route, nms_log_buff, size, reg, since, call>>
        BY <2>6 DEF Send, Go, TypeOK
      <4>2. Frame(t) \in Sent
        BY <2>t, FrameBody DEF TypeOK, Sent, Frame
      <4>3. sent' = Append(sent, Frame(t))
        BY <2>6 DEF Send, Frame, Body
      <4>4. sent' \in Seq(Sent)
        BY <4>2, <4>3 DEF TypeOK
      <4> QED
        BY <4>1, <4>4 DEF TypeOK
    <3>4. \A u \in Logger : pc'[u] = "store" => pc[u] = "store"
      BY <2>6 DEF Send, Go, TypeOK
    <3> QED
      BY <2>6, <3>1, <3>2, <3>3, <3>4 DEF Send, SizeInv
  <2>7. ASSUME NEW t \in Logger, ClearBuffer(t) PROVE TypeOK' /\ SizeInv'
    <3>1. Growing' = Growing
      BY <2>7, GrowingMoves DEF ClearBuffer
    <3>2. \A u \in Logger : Alone(u)'
      BY <2>7, StaysAlone DEF ClearBuffer, SizeInv
    <3>3. TypeOK'
      BY <2>7 DEF ClearBuffer, Go, TypeOK
    <3>4. \A u \in Logger : pc'[u] = "store" => pc[u] = "store"
      BY <2>7 DEF ClearBuffer, Go, TypeOK
    <3> QED
      BY <2>7, <3>1, <3>2, <3>3, <3>4 DEF ClearBuffer, SizeInv
  <2>8. ASSUME NEW t \in Logger, ClearSize(t) PROVE TypeOK' /\ SizeInv'
    <3>1. Growing' = Growing
      BY <2>8, GrowingMoves DEF ClearSize
    <3>2. \A u \in Logger : Alone(u)'
      BY <2>8, StaysAlone DEF ClearSize, SizeInv
    <3>3. TypeOK'
      BY <2>8, <2>t DEF ClearSize, Go, TypeOK
    <3>4. \A u \in Logger : pc'[u] = "store" => pc[u] = "store" /\ u # t
      BY <2>8 DEF ClearSize, Go, TypeOK
    <3>5. CASE alone[t]
      <4>1. Growing = {}
        BY <2>8, <3>5 DEF ClearSize, Go, SizeInv, Alone, Growing
      <4>2. Cardinality(Growing') = 0
        BY <3>1, <4>1, FS_EmptySet
      <4>3. \A u \in Logger : pc'[u] # "store"
        BY <3>1, <4>1 DEF Growing
      <4> QED
        BY <2>8, <2>t, <3>2, <3>3, <3>5, <4>2, <4>3 DEF ClearSize, SizeInv
    <3>6. CASE ~alone[t]
      BY <2>8, <2>t, <2>c, <3>1, <3>2, <3>3, <3>4, <3>6 DEF ClearSize, SizeInv
    <3> QED
      BY <3>5, <3>6
  <2>9. CASE RouteChange
    <3>1. TypeOK'
      BY <2>9 DEF RouteChange, TypeOK
    <3> QED
      BY <2>9, <3>1 DEF RouteChange, SizeInv, Growing, Alone
  <2>10. CASE UNCHANGED vars
    BY <2>10 DEF vars, TypeOK, SizeInv, Growing, Alone
  <2> QED
    BY <2>1, <2>2, <2>3, <2>4, <2>5, <2>6, <2>7, <2>8, <2>9, <2>10 DEF Next, Ended
<1> QED
  BY <1>1, <1>2, PTL DEF Spec

\* Every behaviour keeps TypeOK: sizes and records stay within the calls made.
THEOREM TypeCorrect == Spec => []TypeOK
  BY SizeInvariant, PTL

\* However many threads log, and however their unlocked accesses to the size
\* meet, it is not above the calls made since the last that met no other and
\* emptied the buffer: only so many calls can overrun it.
THEOREM SizeGrowsByCalls == Spec => []GrowsByCalls
<1>1. TypeOK /\ SizeInv => GrowsByCalls
  <2> SUFFICES ASSUME TypeOK, SizeInv PROVE GrowsByCalls
    OBVIOUS
  <2>1. size \in Nat /\ since \in Nat /\ Cardinality(Growing) \in Nat
    BY GrowingFinite, LogAssumption DEF TypeOK
  <2> QED
    BY <2>1 DEF SizeInv, GrowsByCalls
<1> QED
  BY <1>1, SizeInvariant, PTL

\* What a frame and the buffer have in common.
Shared(body, held) ==
    \E x \in 1 .. Len(body), i \in Place :
        body[x] = held[i] /\ body[x] # Blank

\* A thread between Send and ClearBuffer has its last frame still in the buffer;
\* otherwise nothing a thread has sent is there any more, and what is copied
\* there later is new.
SentInv ==
    /\ \A i \in Place : nms_log_buff[i] \in 0 .. logged
    /\ \A j \in 1 .. Len(sent) :
          /\ \A x \in 1 .. Len(sent[j].body) : sent[j].body[x] \in 0 .. logged
          /\ pc[sent[j].by] # "clear" => ~Shared(sent[j].body, nms_log_buff)
    /\ ThreadSendsOnce

LEMMA OnceKept ==
    ASSUME ThreadSendsOnce, UNCHANGED sent
    PROVE  ThreadSendsOnce'
  BY DEF ThreadSendsOnce

\* Steps that touch neither the frames nor the buffer and do not end the time
\* between Send and ClearBuffer.
LEMMA SentKept ==
    ASSUME TypeOK, SentInv, NEW t \in Logger, NEW now, NEW next, Go(t, now, next),
           now # "clear", UNCHANGED <<nms_log_buff, sent, logged>>
    PROVE  SentInv'
<1>1. \A j \in 1 .. Len(sent) : pc'[sent[j].by] # "clear" => pc[sent[j].by] # "clear"
  BY DEF Go, TypeOK
<1>2. ThreadSendsOnce'
  BY OnceKept DEF SentInv
<1> QED
  BY <1>1, <1>2 DEF SentInv, Shared

\* Whatever the threads do to each other's records, none sends a record of the
\* buffer twice: it has cleared the whole buffer before it sends again.
THEOREM NoThreadRepeats == Spec => []ThreadSendsOnce
<1>1. Init => SentInv
  <2> SUFFICES ASSUME Init PROVE SentInv
    OBVIOUS
  <2>1. \A j \in 1 .. Len(sent) : FALSE
    BY DEF Init
  <2>2. \A i \in Place : nms_log_buff[i] \in 0 .. logged
    BY DEF Init, Blank
  <2> QED
    BY <2>1, <2>2 DEF SentInv, ThreadSendsOnce
<1>2. TypeOK /\ TypeOK' /\ SentInv /\ [Next]_vars => SentInv'
  <2> SUFFICES ASSUME TypeOK, TypeOK', SentInv, [Next]_vars PROVE SentInv'
    OBVIOUS
  <2> USE DEF call
  <2>t. MaxLog \in Nat /\ logged \in Nat
    BY LogAssumption DEF TypeOK
  <2>1. ASSUME NEW t \in Logger, Copied(t) PROVE SentInv'
    <3>1. logged' = logged + 1 /\ sent' = sent
      BY <2>1 DEF Copied
    <3>2. \A i \in Place : \/ nms_log_buff'[i] = nms_log_buff[i]
                           \/ nms_log_buff'[i] = logged + 1
      BY <2>1 DEF Copied, TypeOK
    <3>3. \A i \in Place : nms_log_buff'[i] \in 0 .. logged'
      BY <2>t, <3>1, <3>2 DEF SentInv
    <3>4. ASSUME NEW j \in 1 .. Len(sent), pc'[sent[j].by] # "clear"
          PROVE  ~Shared(sent[j].body, nms_log_buff')
      <4>1. pc[sent[j].by] # "clear"
        BY <2>1, <3>4 DEF Copied, Go, TypeOK
      <4>2. \A x \in 1 .. Len(sent[j].body) : sent[j].body[x] # logged + 1
        BY <2>t DEF SentInv
      <4> QED
        BY <3>1, <3>2, <4>1, <4>2 DEF SentInv, Shared
    <3>5. \A j \in 1 .. Len(sent) :
              \A x \in 1 .. Len(sent[j].body) : sent[j].body[x] \in 0 .. logged'
      BY <2>t, <3>1 DEF SentInv
    <3>6. ThreadSendsOnce'
      BY <3>1, OnceKept DEF SentInv
    <3> QED
      BY <3>1, <3>3, <3>4, <3>5, <3>6 DEF SentInv
  <2>2. ASSUME NEW t \in Logger, Send(t) PROVE SentInv'
    <3> DEFINE n == Len(sent)
    <3>1. /\ sent' = Append(sent, Frame(t)) /\ pc[t] = "send" /\ pc'[t] = "clear"
          /\ \A u \in Logger \ {t} : pc'[u] = pc[u]
          /\ UNCHANGED <<nms_log_buff, logged>>
      BY <2>2 DEF Send, Go, TypeOK, Frame, Body
    <3>2. /\ Len(sent') = n + 1 /\ n \in Nat
          /\ sent'[n + 1] = Frame(t)
          /\ \A j \in 1 .. n : sent'[j] = sent[j]
      BY <3>1 DEF TypeOK
    <3>3. Frame(t).by = t /\ Frame(t).body = Body(t)
      BY DEF Frame
    <3>4. \A k \in 1 .. Len(Body(t)) :
              \/ Body(t)[k] = Blank
              \/ \E i \in Place : Body(t)[k] = nms_log_buff[i]
      BY FrameBody
    <3>5. \A x \in 1 .. Len(Body(t)) : Body(t)[x] \in 0 .. logged
      BY <2>t, <3>4 DEF SentInv, Blank
    <3>6. \A j \in 1 .. n : sent[j].by = t => ~Shared(sent[j].body, nms_log_buff)
      BY <3>1 DEF SentInv
    <3>7. \A j \in 1 .. n : sent[j].by = t =>
              \A x \in 1 .. Len(sent[j].body), y \in 1 .. Len(Body(t)) :
                  sent[j].body[x] = Body(t)[y] => sent[j].body[x] = Blank
      BY <3>4, <3>6 DEF Shared
    <3>8. ThreadSendsOnce'
      <4> SUFFICES ASSUME NEW j \in 1 .. n + 1, NEW k \in 1 .. n + 1,
                          j # k, sent'[j].by = sent'[k].by,
                          NEW x \in 1 .. Len(sent'[j].body),
                          NEW y \in 1 .. Len(sent'[k].body),
                          sent'[j].body[x] = sent'[k].body[y]
                   PROVE  sent'[j].body[x] = Blank
        BY <3>2 DEF ThreadSendsOnce
      <4>1. CASE j \in 1 .. n /\ k \in 1 .. n
        <5>1. sent'[j] = sent[j] /\ sent'[k] = sent[k]
          BY <3>2, <4>1
        <5>2. ThreadSendsOnce
          BY DEF SentInv
        <5>3. /\ sent[j].by = sent[k].by
              /\ x \in 1 .. Len(sent[j].body) /\ y \in 1 .. Len(sent[k].body)
              /\ sent[j].body[x] = sent[k].body[y]
          BY <5>1
        <5>4. sent[j].body[x] = Blank
          BY <4>1, <5>2, <5>3 DEF ThreadSendsOnce
        <5> QED
          BY <5>1, <5>4
      <4>2. CASE j \in 1 .. n /\ k = n + 1
        <5>1. /\ sent'[j] = sent[j] /\ sent'[k].by = t /\ sent'[k].body = Body(t)
          BY <3>2, <3>3, <4>2
        <5>2. /\ x \in 1 .. Len(sent[j].body) /\ y \in 1 .. Len(Body(t))
              /\ sent[j].body[x] = Body(t)[y] /\ sent[j].by = t
          BY <5>1
        <5>3. sent[j].body[x] = Blank
          BY <3>7, <4>2, <5>2
        <5> QED
          BY <5>1, <5>3
      <4>3. CASE j = n + 1 /\ k \in 1 .. n
        <5>1. /\ sent'[k] = sent[k] /\ sent'[j].by = t /\ sent'[j].body = Body(t)
          BY <3>2, <3>3, <4>3
        <5>2. /\ y \in 1 .. Len(sent[k].body) /\ x \in 1 .. Len(Body(t))
              /\ sent[k].body[y] = Body(t)[x] /\ sent[k].by = t
          BY <5>1
        <5>3. sent[k].body[y] = Blank
          BY <3>7, <4>3, <5>2
        <5> QED
          BY <5>1, <5>2, <5>3
      <4> QED
        BY <3>2, <4>1, <4>2, <4>3
    <3>9. \A j \in 1 .. n + 1 :
              /\ \A x \in 1 .. Len(sent'[j].body) : sent'[j].body[x] \in 0 .. logged'
              /\ pc'[sent'[j].by] # "clear" => ~Shared(sent'[j].body, nms_log_buff')
      <4> SUFFICES ASSUME NEW j \in 1 .. n + 1
                   PROVE  /\ \A x \in 1 .. Len(sent'[j].body) :
                                sent'[j].body[x] \in 0 .. logged'
                          /\ pc'[sent'[j].by] # "clear" => ~Shared(sent'[j].body, nms_log_buff')
        OBVIOUS
      <4>1. CASE j = n + 1
        BY <3>1, <3>2, <3>3, <3>5, <4>1
      <4>2. CASE j \in 1 .. n
        <5>1. sent[j] \in Sent
          BY <4>2 DEF TypeOK
        <5>2. sent[j].by \in Logger
          BY <5>1 DEF Sent
        <5>3. pc'[sent[j].by] # "clear" => pc[sent[j].by] # "clear"
          BY <3>1, <5>2
        <5>4. /\ \A x \in 1 .. Len(sent[j].body) : sent[j].body[x] \in 0 .. logged
              /\ pc[sent[j].by] # "clear" => ~Shared(sent[j].body, nms_log_buff)
          BY <4>2 DEF SentInv
        <5> QED
          BY <3>1, <3>2, <4>2, <5>3, <5>4
      <4> QED
        BY <3>2, <4>1, <4>2
    <3> QED
      BY <3>1, <3>2, <3>8, <3>9 DEF SentInv
  <2>3. ASSUME NEW t \in Logger, ClearBuffer(t) PROVE SentInv'
    <3>1. sent' = sent /\ logged' = logged /\ \A i \in Place : nms_log_buff'[i] = Blank
      BY <2>3 DEF ClearBuffer
    <3>2. ThreadSendsOnce'
      BY <3>1, OnceKept DEF SentInv
    <3> QED
      BY <2>t, <3>1, <3>2 DEF SentInv, Shared, Blank
  <2>4. ASSUME NEW t \in Logger,
               LoadSize(t) \/ StoreSize(t) \/ FindRoute(t) \/ ReadSize(t) \/ ClearSize(t)
        PROVE  SentInv'
    <3>1. UNCHANGED <<nms_log_buff, sent, logged>>
      BY <2>4 DEF LoadSize, StoreSize, FindRoute, ReadSize, ClearSize
    <3>2. CASE Go(t, "load", "store")
      BY <3>1, <3>2, SentKept
    <3>3. CASE Go(t, "store", "size") \/ Go(t, "store", "find")
      BY <3>1, <3>3, SentKept
    <3>4. CASE Go(t, "find", "size") \/ Go(t, "find", "idle")
      BY <3>1, <3>4, SentKept
    <3>5. CASE Go(t, "size", "send")
      BY <3>1, <3>5, SentKept
    <3>6. CASE Go(t, "zero", "idle")
      BY <3>1, <3>6, SentKept
    <3>7. \/ Go(t, "load", "store") \/ Go(t, "store", "size") \/ Go(t, "store", "find")
          \/ Go(t, "find", "size") \/ Go(t, "find", "idle")
          \/ Go(t, "size", "send") \/ Go(t, "zero", "idle")
      BY <2>4 DEF LoadSize, StoreSize, FindRoute, ReadSize, ClearSize
    <3> QED
      BY <3>2, <3>3, <3>4, <3>5, <3>6, <3>7
  <2>5. CASE RouteChange
    <3>1. ThreadSendsOnce'
      BY <2>5, OnceKept DEF RouteChange, SentInv
    <3> QED
      BY <2>5, <3>1 DEF RouteChange, SentInv, Shared
  <2>6. CASE UNCHANGED vars
    <3>1. ThreadSendsOnce'
      BY <2>6, OnceKept DEF vars, SentInv
    <3> QED
      BY <2>6, <3>1 DEF vars, SentInv, Shared
  <2> QED
    BY <2>1, <2>2, <2>3, <2>4, <2>5, <2>6 DEF Next, Ended
<1>3. SentInv => ThreadSendsOnce
  BY DEF SentInv
<1> QED
  BY <1>1, <1>2, <1>3, TypeCorrect, PTL DEF Spec

-----------------------------------------------------------------------------
\* What a call that meets no other makes of the log.

\* The first n places hold the records behind the last that was sent.
Held(n) ==
    /\ n \in 0 .. Cap
    /\ \A k \in 1 .. n : nms_log_buff[k - 1] = EndOf(sent, Len(sent)) + k

\* The records sent and those the size counts, with one more that it does not
\* count yet, are all there are.
Counted(n) == logged = EndOf(sent, Len(sent)) + n

OrderInv ==
    ~met /\ ~overrun =>
        /\ \A t, u \in Logger : pc[t] # "idle" /\ pc[u] # "idle" => t = u
        /\ Consecutive(sent)
        /\ EndOf(sent, Len(sent)) \in Nat
        /\ (\A t \in Logger : pc[t] = "idle") => Held(size) /\ Counted(size)
        /\ \A t \in Logger :
              /\ pc[t] \in {"load", "store"} => Held(size + 1) /\ Counted(size + 1)
              /\ pc[t] \in {"store", "send"} => reg[t] = size
              /\ pc[t] \in {"find", "size", "send"} => Held(size) /\ Counted(size) /\ size > 0
              /\ pc[t] \in {"clear", "zero"} => Counted(0)

\* Appending a frame changes where none of the others ends.
LEMMA EndAppended ==
    ASSUME NEW s \in Seq(Sent), NEW f \in Sent, Consecutive(s),
           f.body # << >>, \A k \in 1 .. Len(f.body) : f.body[k] = EndOf(s, Len(s)) + k
    PROVE  /\ Consecutive(Append(s, f))
           /\ EndOf(Append(s, f), Len(Append(s, f))) = f.body[Len(f.body)]
<1> DEFINE n == Len(s)
           r == Append(s, f)
<1>1. /\ n \in Nat /\ Len(r) = n + 1 /\ r[n + 1] = f
      /\ \A j \in 1 .. n : r[j] = s[j]
  OBVIOUS
<1> HIDE DEF r
<1>2. \A j \in 0 .. n : EndOf(r, j) = EndOf(s, j)
  BY <1>1 DEF EndOf
<1>3. Consecutive(r)
  <2> SUFFICES ASSUME NEW j \in 1 .. n + 1
               PROVE  /\ r[j].body # << >>
                      /\ \A k \in 1 .. Len(r[j].body) : r[j].body[k] = EndOf(r, j - 1) + k
    BY <1>1 DEF Consecutive
  <2>1. j - 1 \in 0 .. n /\ EndOf(r, j - 1) = EndOf(s, j - 1)
    BY <1>1, <1>2
  <2>2. CASE j = n + 1
    BY <1>1, <2>1, <2>2
  <2>3. CASE j \in 1 .. n
    BY <1>1, <2>1, <2>3 DEF Consecutive
  <2> QED BY <1>1, <2>2, <2>3
<1>4. EndOf(r, n + 1) = f.body[Len(f.body)]
  BY <1>1 DEF EndOf
<1> QED BY <1>1, <1>3, <1>4 DEF r

\* As long as no two calls overlap, the frames and the buffer hold every record
\* once and in the order of the calls, for any number of calls and places.
THEOREM RecordsInOrder == Spec => []OnceInOrder
<1>1. Init => OrderInv
  BY LogAssumption DEF Init, OrderInv, Consecutive, Held, Counted, EndOf
<1>2. TypeOK /\ OrderInv /\ [Next]_vars => OrderInv'
  <2> SUFFICES ASSUME TypeOK, OrderInv, [Next]_vars, ~met', ~overrun' PROVE OrderInv'
    BY DEF OrderInv
  <2> DEFINE end == EndOf(sent, Len(sent))
  <2>0. /\ size \in Nat /\ logged \in Nat /\ Cap \in Nat
        /\ \A u \in Logger : reg[u] \in Nat
    BY LogAssumption DEF TypeOK
  <2>1. CASE UNCHANGED vars
    BY <2>1 DEF vars, OrderInv, Held, Counted
  <2>2. CASE RouteChange
    BY <2>2 DEF RouteChange, call, OrderInv, Held, Counted
  <2>3. ASSUME NEW t \in Logger, Copied(t) PROVE OrderInv'
    <3>1. /\ Others(t) = {} /\ size \in Place /\ ~met /\ ~overrun
          /\ nms_log_buff' = [nms_log_buff EXCEPT ![size] = logged + 1]
          /\ logged' = logged + 1 /\ UNCHANGED <<size, reg, sent>>
          /\ Go(t, "idle", "load")
      BY <2>3 DEF Copied, Go
    <3>2. /\ \A u \in Logger : pc[u] = "idle"
          /\ pc'[t] = "load" /\ \A u \in Logger \ {t} : pc'[u] = "idle"
      BY <3>1 DEF Others, Go, TypeOK
    <3>3. Held(size) /\ Counted(size) /\ end \in Nat /\ Consecutive(sent)
      BY <3>1, <3>2 DEF OrderInv
    <3>4. Held(size + 1)' /\ Counted(size + 1)'
      <4>1. end' = end /\ logged = end + size
        BY <3>1, <3>3 DEF Counted
      <4>2. \A k \in 1 .. size : nms_log_buff[k - 1] = end + k
        BY <3>3 DEF Held
      <4> HIDE DEF end
      <4>3. \A k \in 1 .. size + 1 : nms_log_buff'[k - 1] = end + k
        <5> SUFFICES ASSUME NEW k \in 1 .. size + 1 PROVE nms_log_buff'[k - 1] = end + k
          OBVIOUS
        <5>1. CASE k = size + 1
          BY <2>0, <3>1, <3>3, <4>1, <5>1 DEF TypeOK
        <5>2. CASE k \in 1 .. size
          <6>1. k - 1 \in Place /\ k - 1 # size
            BY <2>0, <3>1, <5>2 DEF Place
          <6> QED BY <3>1, <4>2, <5>2, <6>1 DEF TypeOK
        <5> QED BY <2>0, <5>1, <5>2
      <4>4. logged' = end + (size + 1) /\ size + 1 \in 0 .. Cap /\ UNCHANGED size
        BY <2>0, <3>1, <3>3, <4>1 DEF Place
      <4> QED BY <4>1, <4>3, <4>4 DEF Held, Counted, end
    <3> QED BY <3>1, <3>2, <3>3, <3>4 DEF OrderInv
  <2>4. ASSUME NEW t \in Logger, pc[t] # "idle", UNCHANGED <<met, overrun>>,
               \/ LoadSize(t) \/ StoreSize(t) \/ FindRoute(t)
               \/ ReadSize(t) \/ Send(t) \/ ClearBuffer(t) \/ ClearSize(t)
        PROVE  OrderInv'
    <3>1. /\ \A u \in Logger \ {t} : pc[u] = "idle" /\ pc'[u] = "idle"
          /\ Consecutive(sent) /\ end \in Nat /\ UNCHANGED logged
      BY <2>4 DEF OrderInv, LoadSize, StoreSize, FindRoute, ReadSize, Send, ClearBuffer,
         ClearSize, Go, TypeOK, call
    <3>2. CASE LoadSize(t) \/ StoreSize(t) \/ FindRoute(t) \/ ReadSize(t)
      <4>1. UNCHANGED <<sent, nms_log_buff>> /\ \A n : (Held(n)' <=> Held(n))
        BY <3>2 DEF LoadSize, StoreSize, FindRoute, ReadSize, Held
      <4>2. \A n : Counted(n)' <=> Counted(n)
        BY <3>1, <4>1 DEF Counted
      <4> QED BY <2>0, <2>4, <3>1, <3>2, <4>1, <4>2
              DEF LoadSize, StoreSize, FindRoute, ReadSize, Go, TypeOK, OrderInv
    <3>3. CASE Send(t)
      <4>1. /\ pc[t] = "send" /\ pc'[t] = "clear" /\ UNCHANGED reg
            /\ sent' = Append(sent, Frame(t))
        BY <3>3 DEF Send, Go, TypeOK, Frame, Body
      <4>2. Held(size) /\ Counted(size) /\ size > 0 /\ reg[t] = size
        BY <2>4, <4>1 DEF OrderInv
      <4>3. /\ Body(t) \in Seq(Record \cup {Blank}) /\ Len(Body(t)) = size
            /\ \A k \in 1 .. size : Body(t)[k] = end + k
            /\ Body(t) # << >>
        <5>1. Body(t) \in Seq(Record \cup {Blank}) /\ Len(Body(t)) = size
          BY <4>2, FrameBody
        <5>2. \A k \in 1 .. size : Body(t)[k] = end + k
          BY <2>0, <4>2 DEF Body, Held, Place
        <5> QED BY <4>2, <5>1, <5>2
      <4>4. Frame(t) \in Sent /\ Frame(t).body = Body(t)
        BY <4>3 DEF Frame, Sent, TypeOK
      <4> HIDE DEF end
      <4>5. /\ Consecutive(sent')
            /\ EndOf(sent', Len(sent')) = Body(t)[size]
        <5> DEFINE f == Frame(t)
        <5>1. f.body # << >> /\ \A k \in 1 .. Len(f.body) : f.body[k] = EndOf(sent, Len(sent)) + k
          BY <4>3, <4>4 DEF end
        <5>2. f \in Sent /\ sent \in Seq(Sent) /\ Consecutive(sent)
          BY <3>1, <4>4 DEF TypeOK
        <5> HIDE DEF f
        <5>3. /\ Consecutive(Append(sent, f))
              /\ EndOf(Append(sent, f), Len(Append(sent, f))) = f.body[Len(f.body)]
          BY <5>1, <5>2, EndAppended
        <5> QED BY <4>1, <4>3, <4>4, <5>3 DEF f
      <4>6. EndOf(sent', Len(sent')) = logged' /\ logged' \in Nat
        BY <2>0, <3>1, <4>2, <4>3, <4>5 DEF Counted, end
      <4>7. logged' = EndOf(sent', Len(sent')) + 0
        <5>1. \A e \in Nat : e + 0 = e
          OBVIOUS
        <5> QED BY <4>6, <5>1, Zenon
      <4>8. EndOf(sent', Len(sent')) \in Nat /\ Consecutive(sent')
        BY <4>5, <4>6
      <4>9. \A u, v \in Logger : pc'[u] # "idle" /\ pc'[v] # "idle" => u = v
        BY <3>1, <4>1
      <4>10. /\ ~ \A u \in Logger : pc'[u] = "idle"
             /\ \A u \in Logger : pc'[u] \in {"idle", "clear"}
        BY <3>1, <4>1
      <4> QED BY <4>7, <4>8, <4>9, <4>10 DEF OrderInv, Counted
    <3>4. CASE ClearBuffer(t)
      <4>1. /\ pc[t] = "clear" /\ pc'[t] = "zero" /\ UNCHANGED <<sent, logged>>
        BY <3>4 DEF ClearBuffer, Go, TypeOK, call
      <4>2. Counted(0)'
        BY <2>4, <4>1 DEF OrderInv, Counted
      <4> QED BY <3>1, <4>1, <4>2 DEF OrderInv
    <3>5. CASE ClearSize(t)
      <4>1. /\ pc[t] = "zero" /\ pc'[t] = "idle" /\ UNCHANGED <<sent, logged>> /\ size' = 0
        BY <3>5 DEF ClearSize, Go, TypeOK, call
      <4>2. Counted(size)' /\ Held(size)'
        BY <2>0, <2>4, <4>1 DEF OrderInv, Counted, Held
      <4> QED BY <3>1, <4>1, <4>2 DEF OrderInv
    <3> QED BY <2>4, <3>2, <3>3, <3>4, <3>5
  <2>5. ASSUME NEW t \in Logger,
               \/ LoadSize(t) \/ StoreSize(t) \/ FindRoute(t)
               \/ ReadSize(t) \/ Send(t) \/ ClearBuffer(t) \/ ClearSize(t)
        PROVE  pc[t] # "idle" /\ UNCHANGED <<met, overrun>>
    BY <2>5 DEF LoadSize, StoreSize, FindRoute, ReadSize, Send, ClearBuffer, ClearSize, Go, call
  <2> QED BY <2>1, <2>2, <2>3, <2>4, <2>5 DEF Next, Ended
<1>3. OrderInv => OnceInOrder
  BY DEF OrderInv, OnceInOrder, Held, Counted
<1> QED
  BY <1>1, <1>2, <1>3, TypeCorrect, PTL DEF Spec
-----------------------------------------------------------------------------
\* The feed.

\* What send leaves of the connections: a socket stays, or one that the client
\* has left becomes one on which the next send raises SIGPIPE.
LEMMA SocketTyped ==
    ASSUME FeedTypeOK, NEW c \in Client \cup {None}, NEW b, SocketSend(c, b)
    PROVE  /\ sock' \in [Client -> {"away", "waiting", "open", "ended", "reset", "failed"}]
           /\ alive' \in BOOLEAN
  BY DEF SocketSend, FeedTypeOK

\* In the loop the feed has a client, and is at a row.
InLoop ==
    /\ fpc # "accept" => client \in Client
    /\ fpc \in {"copy", "send", "next"} => cursor \in Row
    /\ fpc = "accept" /\ client # None => cursor \in Row

FeedTypeInv == FeedTypeOK /\ InLoop

LEMMA FeedTypeInvariant == FeedSpec => []FeedTypeInv
<1> USE FeedAssumption DEF FeedTypeInv, InLoop, FeedTypeOK, Row, Client, None
<1>1. FeedInit => FeedTypeInv
  <2> SUFFICES ASSUME FeedInit PROVE FeedTypeInv
    OBVIOUS
  <2>1. /\ row \in [Row -> 1 .. MaxVersion]
        /\ got \in [Client -> [Row -> 0 .. MaxVersion]]
    BY DEF FeedInit
  <2>2. /\ lpc \in [Thread -> {"idle", "send"}]
        /\ sock \in [Client -> {"away", "waiting", "open", "ended", "reset", "failed"}]
    BY DEF FeedInit
  <2>3. /\ buff \in 0 .. MaxVersion /\ cursor \in 0 .. Rows
        /\ client \in Client \cup {None} /\ ext \in Client \cup {None}
    BY DEF FeedInit
  <2> QED
    BY <2>1, <2>2, <2>3 DEF FeedInit
<1>2. FeedTypeInv /\ [FeedNext]_feedVars => FeedTypeInv'
  <2> SUFFICES ASSUME FeedTypeInv, [FeedNext]_feedVars PROVE FeedTypeInv'
    OBVIOUS
  <2>1. CASE Accept
    BY <2>1 DEF Accept
  <2>2. CASE Cycle
    BY <2>2 DEF Cycle
  <2>3. CASE CopyClient
    BY <2>3 DEF CopyClient
  <2>4. CASE CopyRow
    BY <2>4 DEF CopyRow
  <2>5. CASE SendRow
    <3>1. /\ sock' \in [Client -> {"away", "waiting", "open", "ended", "reset", "failed"}]
          /\ alive' \in BOOLEAN
      BY <2>5, SocketTyped DEF SendRow
    <3>2. got' \in [Client -> [Row -> 0 .. MaxVersion]]
      <4>1. CASE sock[client] = "open"
        <5>1. got' = [got EXCEPT ![client][cursor] = buff]
          BY <2>5, <4>1 DEF SendRow
        <5> QED
          BY <5>1
      <4>2. CASE sock[client] # "open"
        BY <2>5, <4>2 DEF SendRow
      <4> QED
        BY <4>1, <4>2
    <3>3. /\ fpc' \in {"accept", "next"} /\ NMS_Connection' \in {0, 1}
          /\ UNCHANGED <<row, client, ext, cursor, buff, lpc, orderly, touched>>
          /\ fpc = "send"
      BY <2>5 DEF SendRow
    <3>4. FeedTypeOK'
      BY <3>1, <3>2, <3>3
    <3>5. InLoop'
      BY <3>3
    <3> QED
      BY <3>4, <3>5
  <2>6. CASE NextRow
    <3>1. cursor \in Row /\ client \in Client
      BY <2>6 DEF NextRow
    <3>2. cursor' \in Row /\ fpc' \in {"copy", "cycle"}
      <4>1. CASE cursor < Rows
        BY <2>6, <3>1, <4>1 DEF NextRow
      <4>2. CASE ~(cursor < Rows)
        BY <2>6, <3>1, <4>2 DEF NextRow
      <4> QED
        BY <4>1, <4>2
    <3>3. UNCHANGED <<row, client, ext, NMS_Connection, buff, lpc, sock, alive, got,
                      orderly, touched>>
      BY <2>6 DEF NextRow
    <3>4. InLoop'
      BY <3>1, <3>2, <3>3
    <3>5. FeedTypeOK'
      BY <3>2, <3>3
    <3> QED
      BY <3>4, <3>5
  <2>7. ASSUME NEW t \in Thread, LogTest(t) PROVE FeedTypeInv'
    BY <2>7 DEF LogTest, feed
  <2>8. ASSUME NEW t \in Thread, LogSend(t) PROVE FeedTypeInv'
    <3>1. /\ sock' \in [Client -> {"away", "waiting", "open", "ended", "reset", "failed"}]
          /\ alive' \in BOOLEAN
      BY <2>8, SocketTyped DEF LogSend
    <3>2. /\ lpc' \in [Thread -> {"idle", "send"}] /\ touched' \in BOOLEAN
          /\ UNCHANGED <<row, feed, got, orderly>>
      BY <2>8 DEF LogSend
    <3> QED
      BY <3>1, <3>2 DEF feed
  <2>9. ASSUME NEW r \in Row, TableChange(r) PROVE FeedTypeInv'
    <3>1. /\ row' \in [Row -> 1 .. MaxVersion]
          /\ UNCHANGED <<feed, lpc, sock, alive, got, orderly, touched>>
      BY <2>9 DEF TableChange
    <3> QED
      BY <3>1 DEF feed
  <2>10. ASSUME NEW c \in Client, Connect(c) PROVE FeedTypeInv'
    BY <2>10 DEF Connect, feed
  <2>11. ASSUME NEW c \in Client, Leave(c) PROVE FeedTypeInv'
    BY <2>11 DEF Leave, feed
  <2>12. CASE UNCHANGED feedVars
    BY <2>12 DEF feedVars
  <2> QED
    BY <2>1, <2>2, <2>3, <2>4, <2>5, <2>6, <2>7, <2>8, <2>9, <2>10, <2>11, <2>12
    DEF FeedNext, FeedStep, FeedEnded
<1> QED
  BY <1>1, <1>2, PTL DEF FeedSpec

\* Every behaviour keeps FeedTypeOK: descriptors name clients, and the feed's loop
\* variable stays within the rows.
THEOREM FeedTypeCorrect == FeedSpec => []FeedTypeOK
  BY FeedTypeInvariant, PTL DEF FeedTypeInv
-----------------------------------------------------------------------------
\* SurvivesReset is not inductive.  The feed has seen the error of a connection
\* before the next send on it would raise SIGPIPE: it has turned to another
\* client, or waits for one.
Turned ==
    /\ \A c \in Client : sock[c] = "ended" => orderly
    /\ \A c \in Client :
          sock[c] = "failed" => orderly \/ touched \/ client # c \/ fpc = "accept"

\* Every behaviour keeps SurvivesReset: a client that is lost to a reset ends the
\* program only when a log was sent into its connection.
THEOREM ResetIsSurvived == FeedSpec => []SurvivesReset
<1> USE DEF SurvivesReset, Turned
<1>1. FeedInit => SurvivesReset /\ Turned
  BY DEF FeedInit
<1>2. FeedTypeInv /\ SurvivesReset /\ Turned /\ [FeedNext]_feedVars => SurvivesReset' /\ Turned'
  <2> SUFFICES ASSUME FeedTypeInv, SurvivesReset, Turned, [FeedNext]_feedVars
               PROVE  SurvivesReset' /\ Turned'
    OBVIOUS
  <2> USE DEF FeedTypeInv, InLoop, FeedTypeOK
  <2>1. CASE Accept
    BY <2>1 DEF Accept
  <2>2. CASE SendRow
    <3>1. PICK fails \in BOOLEAN :
              /\ SocketSend(client, fails)
              /\ fpc' = IF fails THEN "accept" ELSE "next"
      BY <2>2 DEF SendRow
    <3>2. alive /\ fpc = "send" /\ client \in Client /\ UNCHANGED <<client, orderly, touched>>
      BY <2>2 DEF SendRow
    <3>3. CASE UNCHANGED sock
      BY <3>1, <3>2, <3>3 DEF SocketSend
    <3>4. CASE client # None /\ sock[client] \in {"ended", "reset"}
               /\ sock' = [sock EXCEPT ![client] = "failed"]
      BY <3>1, <3>2, <3>4 DEF SocketSend
    <3> QED
      BY <3>1, <3>3, <3>4 DEF SocketSend
  <2>3. ASSUME NEW t \in Thread, LogSend(t) PROVE SurvivesReset' /\ Turned'
    <3>1. PICK fails \in BOOLEAN : SocketSend(ext, fails)
      BY <2>3 DEF LogSend
    <3>2. /\ alive /\ UNCHANGED <<client, fpc, orderly>>
          /\ touched' = (touched \/ (ext # None /\ sock[ext] \in {"reset", "failed"}))
      BY <2>3 DEF LogSend, feed
    <3>3. CASE UNCHANGED sock
      BY <3>1, <3>2, <3>3 DEF SocketSend
    <3>4. CASE ext # None /\ sock[ext] \in {"ended", "reset"}
               /\ sock' = [sock EXCEPT ![ext] = "failed"]
      BY <3>1, <3>2, <3>4 DEF SocketSend
    <3> QED
      BY <3>1, <3>3, <3>4 DEF SocketSend
  <2>4. CASE Cycle \/ CopyClient \/ CopyRow \/ NextRow
    BY <2>4 DEF Cycle, CopyClient, CopyRow, NextRow
  <2>5. ASSUME NEW t \in Thread, LogTest(t) PROVE SurvivesReset' /\ Turned'
    BY <2>5 DEF LogTest, feed
  <2>6. ASSUME NEW r \in Row, TableChange(r) PROVE SurvivesReset' /\ Turned'
    BY <2>6 DEF TableChange, feed
  <2>7. ASSUME NEW c \in Client, Connect(c) \/ Leave(c) PROVE SurvivesReset' /\ Turned'
    BY <2>7 DEF Connect, Leave, feed
  <2>8. CASE UNCHANGED feedVars
    BY <2>8 DEF feedVars
  <2> QED
    BY <2>1, <2>2, <2>3, <2>4, <2>5, <2>6, <2>7, <2>8 DEF FeedNext, FeedStep, FeedEnded
<1> QED
  BY <1>1, <1>2, FeedTypeInvariant, PTL DEF FeedSpec
===============================================================================
