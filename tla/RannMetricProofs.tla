--------------------------- MODULE RannMetricProofs ---------------------------
(* The two components that the RANNs and the RANN_ACKs serve: RannControl, the *)
(* configuration that goes down from the root, and LinkMetric, the value of a  *)
(* link that comes back.  What each keeps in every instance: its types; that a *)
(* change of the radio is never forgotten between Rann_process and the timer   *)
(* thread; and that a measured value is exactly what was heard.                *)
EXTENDS RannControl, LinkMetric, FiniteSetTheorems, TLAPS

\* What a RANN of the root is.
Rann == [conf : Config, reset : BOOLEAN, reset_addr : Node \cup {Nobody}]

\* Make_msg_format_RANN makes a RANN of a configuration.
LEMMA RannMade ==
    ASSUME NEW c \in Config, NEW b \in BOOLEAN, NEW a \in Node \cup {Nobody}
    PROVE  Make_msg_format_RANN(c, b, a) \in Rann
  BY DEF Make_msg_format_RANN, Rann

\* Every behaviour keeps TypeOK: configurations stay configurations and the
\* flags, sets and points of execution stay what they are declared to be.
THEOREM TypeCorrect == Spec => []TypeOK
<1> USE DEF TypeOK
<1>1. Init => TypeOK
  <2> SUFFICES ASSUME Init PROVE TypeOK
    OBVIOUS
  <2>1. PICK m \in Metric, r \in Radio :
            root = [metric |-> m, radio |-> r, log |-> FALSE, period |-> 0]
    BY DEF Init
  <2>2. root \in Config /\ root.radio \in Radio
    BY <2>1, ValueAssumption DEF Config
  <2>3. rann \in Rann
    BY <2>2, RannMade DEF Init
  <2> QED
    BY <2>2, <2>3, BoundAssumption DEF Init, Rann
<1>2. TypeOK /\ [Next]_vars => TypeOK'
  <2> SUFFICES ASSUME TypeOK, [Next]_vars PROVE TypeOK'
    OBVIOUS
  <2>0. Missed \in SUBSET Node
    BY DEF Missed
  <2>1. CASE Rann_send
    <3>1. rann' \in Rann
      BY <2>1, RannMade DEF Rann_send, Announce
    <3>2. deaf' \in SUBSET Node /\ spent' \in SUBSET Node
      BY <2>1, <2>0 DEF Rann_send, Announce
    <3> QED
      BY <2>1, <3>1, <3>2 DEF Rann_send, Announce, nodeVars, Rann
  <2>2. CASE ChangeConfig
    <3>1. PICK m \in Metric, r \in Radio :
              root' = [root EXCEPT !.metric = m, !.radio = r]
      BY <2>2 DEF ChangeConfig
    <3>2. root' \in Config
      BY <3>1 DEF Config
    <3> QED
      BY <2>2, <3>2 DEF ChangeConfig, Receives, nodeVars, ids
  <2>3. CASE ChangeLog
    <3>1. root' \in Config
      BY <2>3 DEF ChangeLog, Config
    <3> QED
      BY <2>3, <3>1 DEF ChangeLog, Receives, nodeVars, ids
  <2>4. CASE ResetRoutes
    BY <2>4 DEF ResetRoutes, Receives, nodeVars, ids
  <2>5. CASE ChangePeriod
    <3>1. root' \in Config
      BY <2>5 DEF ChangePeriod, Config
    <3>2. rann' \in Rann
      BY <2>5, <3>1, RannMade DEF ChangePeriod
    <3>3. spent' \in SUBSET Node /\ commands' \in Nat
      BY <2>5, <2>0 DEF ChangePeriod, Receives
    <3>4. route_reset' = FALSE /\ UNCHANGED <<got, stale, ids, nodeVars>>
      BY <2>5 DEF ChangePeriod, Receives
    <3> QED
      BY <3>1, <3>2, <3>3, <3>4 DEF nodeVars, ids, Rann
  <2>6. CASE RebootNode
    <3>1. rann' \in Rann
      BY <2>6, RannMade DEF RebootNode, Announce
    <3>2. /\ got' = {} /\ route_reset' = FALSE /\ commands' \in Nat
          /\ UNCHANGED <<root, stale, fresh, nodeVars>>
      BY <2>6 DEF RebootNode, Announce, Receives
    <3>3. deaf' \in SUBSET Node /\ spent' \in SUBSET Node
      BY <2>6, <2>0 DEF RebootNode, Announce
    <3> QED
      BY <3>1, <3>2, <3>3 DEF nodeVars, Rann
  <2>7. ASSUME NEW n \in Node, Rann_process(n) PROVE TypeOK'
    <3>1. TakesConfig(conf[n], rann) \in Config
      BY DEF TakesConfig, Config
    <3> QED
      BY <2>7, <3>1 DEF Rann_process
  <2>8. ASSUME NEW n \in Node, API_reset_process(n) PROVE TypeOK'
    BY <2>8 DEF API_reset_process, rootVars, ids
  <2>9. ASSUME NEW n \in Node, Reset(n) PROVE TypeOK'
    BY <2>9 DEF Reset, rootVars, ids, Config
  <2>10. ASSUME NEW n \in Node, ClearFlag(n) PROVE TypeOK'
    BY <2>10 DEF ClearFlag, rootVars, ids
  <2>11. ASSUME NEW n \in Node, Program_reboot(n) PROVE TypeOK'
    <3>1. PICK m \in Metric, r \in Radio :
              /\ conf' = [conf EXCEPT ![n] = [metric |-> m, radio |-> r, log |-> FALSE,
                                              period |-> 0]]
              /\ radio' = [radio EXCEPT ![n] = r]
      BY <2>11 DEF Program_reboot
    <3>2. [metric |-> m, radio |-> r, log |-> FALSE, period |-> 0] \in Config
      BY ValueAssumption DEF Config
    <3>3. conf' \in [Node -> Config] /\ radio' \in [Node -> Radio]
      BY <3>1, <3>2
    <3> QED
      BY <2>11, <3>3 DEF Program_reboot, rootVars
  <2>12. CASE Rann_start
    <3>1. PICK m \in Metric, r \in Radio :
              root' = [metric |-> m, radio |-> r, log |-> FALSE, period |-> 0]
      BY <2>12 DEF Rann_start
    <3>2. root' \in Config
      BY <3>1, ValueAssumption DEF Config
    <3>3. rann' \in Rann
      BY <2>12, <3>2, RannMade DEF Rann_start
    <3>4. /\ fresh' \in SUBSET Node /\ deaf' \in SUBSET Node
          /\ spent' \in SUBSET Node
      BY <2>12 DEF Rann_start
    <3>5. /\ got' = {} /\ route_reset' = FALSE /\ commands' \in Nat
          /\ UNCHANGED <<stale, nodeVars>>
      BY <2>12 DEF Rann_start
    <3> QED
      BY <3>2, <3>3, <3>4, <3>5 DEF nodeVars, Rann
  <2>13. CASE UNCHANGED vars
    BY <2>13 DEF vars
  <2> QED
    BY <2>1, <2>2, <2>3, <2>4, <2>5, <2>6, <2>7, <2>8, <2>9, <2>10, <2>11, <2>12, <2>13
    DEF Next, NmsCommand, NodeStep
<1> QED
  BY <1>1, <1>2, PTL DEF Spec
-----------------------------------------------------------------------------
\* RadioPending is not inductive: a reset that has read the configuration and
\* not yet cleared the flag must have what is in force, or have been overtaken.
ClearSettled ==
    \A n \in Node : pc[n] = "clear" => radio[n] = conf[n].radio \/ n \in overtaken

RadioInv == TypeOK /\ RadioPending /\ ClearSettled

\* Every behaviour keeps RadioPending: when the radio of a node differs from its
\* configuration, a reset is ahead of it that will read the configuration as it
\* is, or its last reset was overtaken by the change.
THEOREM RadioNotForgotten == Spec => []RadioPending
<1> DEFINE Good(n) ==
        /\ radio[n] # conf[n].radio => Pending(n) \/ n \in overtaken
        /\ pc[n] = "clear" => radio[n] = conf[n].radio \/ n \in overtaken
<1>1. Init => RadioPending /\ ClearSettled
  BY DEF Init, RadioPending, ClearSettled
<1>2. RadioInv /\ TypeOK' /\ [Next]_vars => RadioPending' /\ ClearSettled'
  <2> SUFFICES ASSUME RadioInv, TypeOK', [Next]_vars, NEW k \in Node PROVE Good(k)'
    BY DEF RadioPending, ClearSettled
  <2> USE DEF RadioInv, TypeOK, RadioPending, ClearSettled, Pending
  <2>1. CASE Rann_send \/ Rann_start \/ NmsCommand
    <3>1. UNCHANGED nodeVars
      BY <2>1 DEF Rann_send, Rann_start, NmsCommand, ChangeConfig, ChangeLog, ResetRoutes,
                  ChangePeriod, RebootNode, Announce, Receives, nodeVars
    <3> QED
      BY <3>1 DEF nodeVars
  <2>2. ASSUME NEW n \in Node, Rann_process(n) PROVE Good(k)'
    <3>1. UNCHANGED <<pc, radio>>
      BY <2>2 DEF Rann_process
    <3>2. CASE k # n
      <4>1. /\ conf'[k] = conf[k] /\ api_reset'[k] = api_reset[k]
            /\ k \in armed => k \in armed'
            /\ k \in overtaken => k \in overtaken'
        BY <2>2, <3>2 DEF Rann_process
      <4> QED
        BY <3>1, <4>1
    <3>3. CASE k = n
      <4>1. conf'[n].radio = rann.conf.radio
        BY <2>2 DEF Rann_process, TakesConfig, Config
      <4>2. CASE conf[n].radio = rann.conf.radio
        <5>1. /\ api_reset'[n] = api_reset[n] /\ overtaken' = overtaken
              /\ n \in armed => n \in armed'
          BY <2>2, <4>2 DEF Rann_process, Raises
        <5> QED
          BY <3>1, <3>3, <4>1, <4>2, <5>1
      <4>3. CASE conf[n].radio # rann.conf.radio
        <5>1. Raises(n, rann)
          BY <4>3 DEF Raises
        <5>2. api_reset'[n]
          <6>1. api_reset' = [api_reset EXCEPT ![n] = api_reset[n] \/ Raises(n, rann)]
            BY <2>2 DEF Rann_process
          <6> QED
            BY <5>1, <6>1
        <5>3. n \in armed'
          BY <2>2, <5>1 DEF Rann_process
        <5>4. pc[n] = "clear" => n \in overtaken'
          BY <2>2, <5>1 DEF Rann_process
        <5> QED
          BY <3>1, <3>3, <5>2, <5>3, <5>4
      <4> QED
        BY <4>2, <4>3
    <3> QED
      BY <3>2, <3>3
  <2>3. ASSUME NEW n \in Node, API_reset_process(n) PROVE Good(k)'
    BY <2>3 DEF API_reset_process, rootVars
  <2>4. ASSUME NEW n \in Node, Reset(n) PROVE Good(k)'
    BY <2>4 DEF Reset, rootVars, Config
  <2>5. ASSUME NEW n \in Node, ClearFlag(n) PROVE Good(k)'
    BY <2>5 DEF ClearFlag, rootVars
  <2>6. ASSUME NEW n \in Node, Program_reboot(n) PROVE Good(k)'
    BY <2>6 DEF Program_reboot, rootVars, Config
  <2>7. CASE UNCHANGED vars
    BY <2>7 DEF vars
  <2> QED
    BY <2>1, <2>2, <2>3, <2>4, <2>5, <2>6, <2>7 DEF Next, NodeStep
<1> QED
  BY <1>1, <1>2, TypeCorrect, PTL DEF Spec, RadioInv
-----------------------------------------------------------------------------
\* LinkMetric.  Arithmetic of the ring and of shares.

\* The pointer goes round the places.
LEMMA Following ==
    ASSUME NEW p \in Place
    PROVE  NextPlace(p) = (IF p = N - 1 THEN 0 ELSE p + 1)
<1>1. CASE p = N - 1
  <2>1. N % N = 0
    BY MetricAssumption
  <2> QED
    BY <1>1, <2>1, MetricAssumption DEF NextPlace
<1>2. CASE p # N - 1
  <2>1. p + 1 \in 0 .. N - 1
    BY <1>2, MetricAssumption DEF Place
  <2>2. (p + 1) % N = p + 1
    BY <2>1, MetricAssumption
  <2> QED
    BY <1>2, <2>2 DEF NextPlace
<1> QED
  BY <1>1, <1>2

\* k of k seconds is the full value.
LEMMA WholeShare ==
    ASSUME NEW k \in Nat \ {0}, NEW f \in Nat
    PROVE  (k * f) \div k = f
  OBVIOUS

\* No share of k seconds is above the full value.
LEMMA ShareBound ==
    ASSUME NEW k \in Nat \ {0}, NEW f \in Nat, NEW n \in 0 .. k
    PROVE  (n * f) \div k \in 0 .. f
<1>1. n * f \in Nat /\ n * f <= k * f
  OBVIOUS
<1> QED
  BY <1>1

\* A value that fades stays below the full value.
LEMMA HalfBound ==
    ASSUME NEW f \in Nat, NEW v \in 0 .. f
    PROVE  v \div 2 \in 0 .. f
  OBVIOUS
-----------------------------------------------------------------------------
\* The types: a value is never above that of a perfect link, whatever the
\* clock does to the number of places counted and of seconds divided by.
MetricTypeOK ==
    /\ state \in {0, 1} /\ hcnt \in 0 .. 2
    /\ sch_hello_cnt \in BOOLEAN /\ sch_hello_detector \in BOOLEAN
    /\ alm_buffer \in [Place -> {0, 1}] /\ alm_buffer_pointer \in Place
    /\ alm_next_hop \in 0 .. Full /\ shown \in 0 .. Full /\ alm \in Nat
    /\ diff \in -1 .. N /\ ack_diff \in -1 .. AckLimit + 1
    /\ half \in {0, 1} /\ phase \in {0, 1} /\ due \in {"none", "check", "alm", "nms"}
    /\ nms_in \in 1 .. NmsInterval /\ steps \in 0 .. MaxStep /\ stepped \in BOOLEAN
    /\ arrived \in BOOLEAN /\ missed \in BOOLEAN
    /\ heard \in Seq(BOOLEAN) /\ Len(heard) <= N + 1

\* No more than k of the first k places are one.
LEMMA OnesType ==
    ASSUME MetricTypeOK, NEW k \in 0 .. N
    PROVE  Ones(k) \in 0 .. k
<1> DEFINE S == {j \in 0 .. k - 1 : alm_buffer[j] = 1}
<1>1. k - 1 \in Int /\ 0 \in Int
  BY MetricAssumption
<1>2. IsFiniteSet(0 .. k - 1) /\ Cardinality(0 .. k - 1) = k
  BY <1>1, FS_Interval
<1>3. S \in SUBSET (0 .. k - 1)
  OBVIOUS
<1>4. IsFiniteSet(S) /\ Cardinality(S) <= k
  <2> HIDE DEF S
  <2>1. IsFiniteSet(S) /\ Cardinality(S) <= Cardinality(0 .. k - 1)
    BY <1>2, <1>3, FS_Subset, Zenon
  <2> QED
    BY <1>2, <2>1
<1>5. Cardinality(S) \in Nat
  BY <1>4, FS_CardinalityType
<1>6. Ones(k) = Cardinality(S)
  BY DEF Ones
<1> QED
  BY <1>4, <1>5, <1>6

\* A measurement is never above the full value.
LEMMA MeasureType ==
    ASSUME MetricTypeOK
    PROVE  Measure \in 0 .. Full
<1>1. N \in 0 .. N /\ N \in Nat \ {0} /\ Full \in Nat
  BY MetricAssumption
<1>2. (Ones(N) * Full) \div N \in 0 .. Full
  BY <1>1, OnesType, ShareBound
<1>3. CASE diff < N /\ diff # 0
  <2>1. CASE diff < 0
    BY <1>1, <1>3, <2>1 DEF Measure
  <2>2. CASE ~(diff < 0)
    <3>1. diff \in 0 .. N /\ diff \in Nat \ {0}
      BY <1>3, <2>2, MetricAssumption DEF MetricTypeOK
    <3>2. (Ones(diff) * Full) \div diff \in 0 .. Full
      BY <1>1, <3>1, OnesType, ShareBound
    <3> QED
      BY <1>3, <2>2, <3>2 DEF Measure
  <2> QED
    BY <2>1, <2>2
<1>4. CASE ~(diff < N /\ diff # 0)
  BY <1>2, <1>4 DEF Measure
<1> QED
  BY <1>3, <1>4

\* heard keeps the last N + 1 notes, the newest at its end.
LEMMA NoteType ==
    ASSUME NEW s \in Seq(BOOLEAN), NEW b \in BOOLEAN, Len(s) <= N + 1
    PROVE  LET t == Append(IF Len(s) > N THEN Tail(s) ELSE s, b) IN
           /\ t \in Seq(BOOLEAN)
           /\ Len(t) = IF Len(s) > N THEN N + 1 ELSE Len(s) + 1
           /\ t[Len(t)] = b
           /\ \A i \in 1 .. Len(t) - 1 : t[i] = IF Len(s) > N THEN s[i + 1] ELSE s[i]
<1> DEFINE u == IF Len(s) > N THEN Tail(s) ELSE s
<1>1. N \in Nat \ {0} /\ Len(s) \in Nat
  BY MetricAssumption
<1>2. CASE Len(s) > N
  <2>1. s # << >> /\ Len(s) = N + 1
    BY <1>1, <1>2
  <2>2. /\ u = Tail(s) /\ u \in Seq(BOOLEAN) /\ Len(u) = N
        /\ \A i \in 1 .. N : u[i] = s[i + 1]
    BY <1>1, <1>2, <2>1
  <2> HIDE DEF u
  <2>3. /\ Append(u, b) \in Seq(BOOLEAN) /\ Len(Append(u, b)) = N + 1
        /\ Append(u, b)[N + 1] = b
        /\ \A i \in 1 .. N : Append(u, b)[i] = u[i]
    BY <1>1, <2>2
  <2> QED
    BY <1>1, <1>2, <2>2, <2>3 DEF u
<1>3. CASE ~(Len(s) > N)
  BY <1>1, <1>3
<1> QED
  BY <1>2, <1>3

\* The types hold at the start.
LEMMA MetricTypeInit == MetricInit => MetricTypeOK
<1> SUFFICES ASSUME MetricInit PROVE MetricTypeOK
  OBVIOUS
<1>1. 0 \in Place /\ 0 \in 0 .. Full /\ 0 \in -1 .. N /\ 0 \in 0 .. MaxStep
  BY MetricAssumption DEF Place
<1>2. AckLimit + 1 \in -1 .. AckLimit + 1 /\ NmsInterval \in 1 .. NmsInterval
  BY MetricAssumption
<1>3. heard \in Seq(BOOLEAN) /\ Len(heard) <= N + 1
  BY MetricAssumption DEF MetricInit
<1>4. /\ alm_buffer \in [Place -> {0, 1}] /\ alm_buffer_pointer \in Place
      /\ hcnt \in 0 .. 2 /\ alm_next_hop \in 0 .. Full /\ shown \in 0 .. Full
      /\ diff \in -1 .. N /\ ack_diff \in -1 .. AckLimit + 1
      /\ nms_in \in 1 .. NmsInterval /\ steps \in 0 .. MaxStep
  BY <1>1, <1>2 DEF MetricInit
<1> QED
  BY <1>3, <1>4 DEF MetricInit, MetricTypeOK

\* Every behaviour keeps MetricTypeOK: in particular neither alm_calculator nor a
\* RANN_ACK nor the fading makes a value above that of a perfect link.
THEOREM MetricTypeCorrect == MetricSpec => []MetricTypeOK
<1>1. MetricInit => MetricTypeOK
  BY MetricTypeInit
<1>2. MetricTypeOK /\ [MetricNext]_metricVars => MetricTypeOK'
  <2> SUFFICES ASSUME MetricTypeOK, [MetricNext]_metricVars PROVE MetricTypeOK'
    OBVIOUS
  <2> USE DEF MetricTypeOK
  <2>1. ASSUME NEW h \in {1, 2}, NEW a \in Sum \cup {0}, rt_table_insert(h, a)
        PROVE  MetricTypeOK'
    <3>1. hcnt' \in 0 .. 2
      BY <2>1 DEF rt_table_insert
    <3>2. diff' \in -1 .. N
      BY <2>1, MetricAssumption DEF rt_table_insert
    <3>3. alm' \in Nat
      BY <2>1, MetricAssumption DEF rt_table_insert
    <3> QED
      BY <2>1, <3>1, <3>2, <3>3 DEF rt_table_insert
  <2>2. ASSUME NEW h \in {1, 2}, NEW a \in Sum \cup {0}, rt_table_update(h, a)
        PROVE  MetricTypeOK'
    <3>1. alm' \in Nat
      BY <2>2, MetricAssumption DEF rt_table_update
    <3> QED
      BY <2>2, <3>1 DEF rt_table_update, time
  <2>3. CASE rt_table_empty
    <3>1. 0 \in Place /\ 0 \in 0 .. Full
      BY MetricAssumption DEF Place
    <3>2. heard' \in Seq(BOOLEAN) /\ Len(heard') <= N + 1
      BY <2>3, MetricAssumption DEF rt_table_empty
    <3>3. alm_buffer' \in [Place -> {0, 1}] /\ alm_buffer_pointer' \in Place
      BY <2>3, <3>1 DEF rt_table_empty
    <3>4. alm_next_hop' \in 0 .. Full /\ alm' \in Nat /\ hcnt' \in 0 .. 2 /\ state' \in {0, 1}
      BY <2>3, <3>1 DEF rt_table_empty
    <3>5. /\ UNCHANGED <<time, shown>>
          /\ sch_hello_cnt' = FALSE /\ sch_hello_detector' = FALSE /\ arrived' = FALSE
          /\ missed' = FALSE
      BY <2>3 DEF rt_table_empty
    <3> QED
      BY <3>2, <3>3, <3>4, <3>5 DEF time
  <2>4. CASE SCH_Hello_process
    <3>1. /\ sch_hello_cnt' \in BOOLEAN /\ sch_hello_detector' \in BOOLEAN
          /\ arrived' \in BOOLEAN
      BY <2>4 DEF SCH_Hello_process
    <3>2. UNCHANGED <<state, hcnt, alm_buffer, alm_buffer_pointer, alm_next_hop, alm, time,
                      shown, heard, missed>>
      BY <2>4 DEF SCH_Hello_process
    <3> QED
      BY <3>1, <3>2 DEF time
  <2>5. CASE Tick
    <3>1. half' \in {0, 1} /\ due' \in {"none", "check", "alm", "nms"}
      BY <2>5 DEF Tick
    <3>2. diff' \in -1 .. N
      BY <2>5, MetricAssumption DEF Tick, AtMost
    <3>3. ack_diff' \in -1 .. AckLimit + 1
      BY <2>5, MetricAssumption DEF Tick, AtMost
    <3> QED
      BY <2>5, <3>1, <3>2, <3>3 DEF Tick, entry
  <2>6. CASE sch_hello_check
    <3>1. NextPlace(alm_buffer_pointer) \in Place
      BY Following, MetricAssumption DEF Place
    <3>2. heard' \in Seq(BOOLEAN) /\ Len(heard') <= N + 1
      <4>1. CASE sch_hello_cnt
        <5>1. heard' = Append(IF Len(heard) > N THEN Tail(heard) ELSE heard, arrived)
          BY <2>6, <4>1 DEF sch_hello_check
        <5> QED
          BY <5>1, NoteType, MetricAssumption
      <4>2. CASE ~sch_hello_cnt
        BY <2>6, <4>2 DEF sch_hello_check
      <4> QED
        BY <4>1, <4>2
    <3> QED
      BY <2>6, <3>1, <3>2 DEF sch_hello_check
  <2>7. CASE alm_calculator
    <3>1. Full \in Nat
      BY MetricAssumption
    <3>2. Measure \in 0 .. Full
      BY MeasureType
    <3>3. alm_next_hop' \in 0 .. Full /\ alm' \in Nat
      BY <2>7, <3>1, <3>2 DEF alm_calculator
    <3> QED
      BY <2>7, <3>3, MetricAssumption DEF alm_calculator
  <2>8. CASE nms_alm_calculator
    BY <2>8, HalfBound, MetricAssumption DEF nms_alm_calculator
  <2>9. ASSUME NEW v \in Value, Rann_ack_process(v) PROVE MetricTypeOK'
    BY <2>9, MetricAssumption DEF Rann_ack_process
  <2>10. CASE SetClock
    BY <2>10, MetricAssumption DEF SetClock, entry
  <2>11. CASE UNCHANGED metricVars
    BY <2>11 DEF metricVars
  <2> QED
    BY <2>1, <2>2, <2>3, <2>4, <2>5, <2>6, <2>7, <2>8, <2>9, <2>10, <2>11
    DEF MetricNext, TimerStep
<1> QED
  BY <1>1, <1>2, PTL DEF MetricSpec
-----------------------------------------------------------------------------
\* What ties the entry to what was heard.  The second of the clock begins at one
\* half, the timers are due at phase: between the two, and while the check is due,
\* the age of the entry is one ahead of the periods noted.
Behind == IF due = "check" \/ (phase = 1 /\ half = 0) THEN 1 ELSE 0

\* The note in heard that place j of the ring stands for: the place at the pointer
\* holds the oldest, the one before it the newest.
Note(j) == Len(heard) - N + 1 + (IF j >= alm_buffer_pointer THEN j - alm_buffer_pointer
                                 ELSE j - alm_buffer_pointer + N)

\* The detector is what it should be.
Detects == sch_hello_detector = arrived /\ (arrived => sch_hello_cnt)

\* Only an entry in use has heard anything, and notes begin with the first Hello.
Begun == (sch_hello_cnt => state = 1) /\ (heard # << >> => sch_hello_cnt)

\* The timers run at their half of the second.
OnTime == due # "none" => half = phase

\* A ring that is being filled is filled from its first place.
Filled ==
    /\ Len(heard) < N => alm_buffer_pointer = Len(heard)
    /\ Len(heard) = N => alm_buffer_pointer = 0

\* Every place that was filled stands for its note.
Ring ==
    \A j \in Place : j < Len(heard) => alm_buffer[j] = IF heard[Note(j)] THEN 1 ELSE 0

\* No check since the insertion found nothing: every note is of a Hello.
AllHeard == ~missed => \A k \in 1 .. Len(heard) : heard[k]

\* The age of an entry whose clock was not set is that of the notes, but for the
\* second in which they differ; without a miss there is a note for every second.
Aged ==
    state = 1 /\ ~stepped =>
        /\ 0 <= diff
        /\ Len(heard) - 1 + Behind <= diff \/ diff = N
        /\ ~missed => diff <= Len(heard) + Behind

\* Neither action property follows from the types: this is the inductive invariant.
MetricInv ==
    /\ MetricTypeOK /\ Detects /\ Begun /\ OnTime
    /\ Filled /\ Ring /\ AllHeard /\ Aged

\* The invariant holds at the start.
LEMMA InvInit == MetricInit => MetricInv
<1> SUFFICES ASSUME MetricInit, MetricTypeOK PROVE MetricInv
  BY MetricTypeInit
<1>1. heard = << >> /\ Len(heard) = 0
  BY DEF MetricInit
<1>2. Filled /\ Ring /\ AllHeard
  BY <1>1, MetricAssumption DEF MetricInit, Filled, Ring, AllHeard, Place
<1>3. Detects /\ Begun /\ OnTime
  BY DEF MetricInit, Detects, Begun, OnTime
<1>4. Aged
  BY DEF MetricInit, Aged
<1> QED
  BY <1>2, <1>3, <1>4 DEF MetricInv

\* Every step keeps what the detector, the flags and the timers say.
LEMMA DetectsStep == MetricInv /\ [MetricNext]_metricVars => Detects' /\ Begun' /\ OnTime'
<1> SUFFICES ASSUME MetricInv, [MetricNext]_metricVars PROVE Detects' /\ Begun' /\ OnTime'
  OBVIOUS
<1> USE DEF MetricInv, Detects, Begun, OnTime
<1>1. CASE \E h \in {1, 2}, a \in Sum \cup {0} : rt_table_insert(h, a) \/ rt_table_update(h, a)
  BY <1>1 DEF rt_table_insert, rt_table_update, time
<1>2. CASE rt_table_empty
  BY <1>2 DEF rt_table_empty, time
<1>3. CASE SCH_Hello_process
  BY <1>3 DEF SCH_Hello_process, time
<1>4. CASE Tick
  BY <1>4 DEF Tick, entry
<1>5. CASE sch_hello_check
  <2>1. arrived' = FALSE /\ half' = phase'
    BY <1>5 DEF sch_hello_check
  <2>2. sch_hello_detector' = FALSE
    <3>1. CASE sch_hello_cnt
      BY <1>5, <3>1 DEF sch_hello_check
    <3>2. CASE ~sch_hello_cnt
      <4>1. sch_hello_detector' = sch_hello_detector
        BY <1>5, <3>2 DEF sch_hello_check
      <4>2. sch_hello_detector \in BOOLEAN /\ ~sch_hello_detector
        BY <3>2 DEF MetricTypeOK
      <4> QED
        BY <4>1, <4>2
    <3> QED
      BY <3>1, <3>2
  <2>3. sch_hello_cnt' = sch_hello_cnt /\ state' = state
    BY <1>5 DEF sch_hello_check
  <2>4. heard' # << >> => sch_hello_cnt
    BY <1>5 DEF sch_hello_check
  <2> QED
    BY <2>1, <2>2, <2>3, <2>4
<1>6. CASE alm_calculator \/ nms_alm_calculator
  <2>1. UNCHANGED <<sch_hello_detector, arrived, sch_hello_cnt, state, heard, half, phase>>
    BY <1>6 DEF alm_calculator, nms_alm_calculator
  <2>2. due # "none"
    BY <1>6 DEF alm_calculator, nms_alm_calculator
  <2> QED
    BY <2>1, <2>2
<1>7. CASE \E v \in Value : Rann_ack_process(v)
  BY <1>7 DEF Rann_ack_process
<1>8. CASE SetClock
  BY <1>8 DEF SetClock, entry
<1>9. CASE UNCHANGED metricVars
  BY <1>9 DEF metricVars
<1> QED
  BY <1>1, <1>2, <1>3, <1>4, <1>5, <1>6, <1>7, <1>8, <1>9 DEF MetricNext, TimerStep

\* A check: the ring takes the newest note and forgets the oldest.
LEMMA RingCheck ==
    ASSUME MetricInv, MetricTypeOK', sch_hello_check
    PROVE  Filled' /\ Ring'
<1>1. CASE ~sch_hello_cnt
  <2>1. UNCHANGED <<heard, alm_buffer, alm_buffer_pointer>>
    BY <1>1 DEF sch_hello_check
  <2> QED
    BY <2>1 DEF MetricInv, Filled, Ring, Note
<1>2. CASE sch_hello_cnt
  <2> DEFINE K == Len(heard)
             p == alm_buffer_pointer
  <2>1. /\ heard' = Append(IF Len(heard) > N THEN Tail(heard) ELSE heard, arrived)
        /\ alm_buffer' = [alm_buffer EXCEPT ![p] = IF sch_hello_detector THEN 1 ELSE 0]
        /\ alm_buffer_pointer' = NextPlace(p)
    BY <1>2 DEF sch_hello_check
  <2>2. /\ N \in Nat \ {0} /\ p \in 0 .. N - 1 /\ K \in 0 .. N + 1
    BY MetricAssumption DEF MetricInv, MetricTypeOK, Place
  <2>10. /\ heard \in Seq(BOOLEAN) /\ arrived \in BOOLEAN
         /\ alm_buffer \in [Place -> {0, 1}]
    BY DEF MetricInv, MetricTypeOK
  <2>11. /\ heard'[Len(heard')] = arrived
         /\ \A i \in 1 .. Len(heard') - 1 :
               heard'[i] = IF K > N THEN heard[i + 1] ELSE heard[i]
    BY <2>1, <2>2, <2>10, NoteType
  <2>13. Len(heard') = IF K > N THEN N + 1 ELSE K + 1
    BY <2>1, <2>2, <2>10, NoteType
  <2>3. /\ K > N => K = N + 1 /\ Len(heard') = N + 1
        /\ ~(K > N) => Len(heard') = K + 1
        /\ Len(heard') \in 1 .. N + 1
    BY <2>2, <2>13
  <2>4. alm_buffer_pointer' = IF p = N - 1 THEN 0 ELSE p + 1
    BY <2>1, <2>2, Following DEF Place
  <2>5. (K < N => p = K) /\ (K = N => p = 0)
    BY DEF MetricInv, Filled
  <2>6. Filled'
    BY <2>2, <2>3, <2>4, <2>5 DEF Filled
  <2>7. ASSUME NEW j \in Place, j < Len(heard')
        PROVE  alm_buffer'[j] = IF heard'[Note(j)'] THEN 1 ELSE 0
    <3>1. j \in 0 .. N - 1
      BY DEF Place
    <3>2. CASE j = p
      <4>1. Note(j)' = Len(heard')
        <5>1. CASE p = N - 1
          BY <2>2, <2>3, <2>4, <3>1, <3>2, <5>1 DEF Note
        <5>2. CASE p # N - 1
          <6>1. alm_buffer_pointer' = p + 1 /\ ~(j >= p + 1)
            BY <2>2, <2>4, <3>2, <5>2
          <6>2. Note(j)' = Len(heard') - N + 1 + (j - (p + 1) + N)
            BY <6>1 DEF Note
          <6> QED
            BY <2>2, <2>3, <3>2, <6>2
        <5> QED
          BY <5>1, <5>2
      <4>2. alm_buffer'[j] = IF sch_hello_detector THEN 1 ELSE 0
        BY <2>1, <2>2, <2>10, <3>2 DEF Place
      <4> QED
        BY <2>11, <4>1, <4>2 DEF MetricInv, Detects
    <3>3. CASE j # p
      <4>1. j < K
        BY <2>2, <2>3, <2>5, <2>7, <3>1, <3>3
      <4>2. Note(j)' = Note(j) + Len(heard') - K - 1
        <5>1. CASE p = N - 1
          <6>1. alm_buffer_pointer' = 0 /\ j >= 0 /\ ~(j >= p)
            BY <2>2, <2>4, <3>1, <3>3, <5>1
          <6>2. /\ Note(j)' = Len(heard') - N + 1 + (j - 0)
                /\ Note(j) = K - N + 1 + (j - p + N)
            BY <6>1 DEF Note
          <6> QED
            BY <2>2, <2>3, <3>1, <5>1, <6>2
        <5>2. CASE p # N - 1
          <6>1. alm_buffer_pointer' = p + 1 /\ (j >= p + 1 <=> j >= p)
            BY <2>2, <2>4, <3>1, <3>3, <5>2
          <6>2. CASE j >= p
            <7>1. /\ Note(j)' = Len(heard') - N + 1 + (j - (p + 1))
                  /\ Note(j) = K - N + 1 + (j - p)
              BY <6>1, <6>2 DEF Note
            <7> QED
              BY <2>2, <2>3, <3>1, <7>1
          <6>3. CASE ~(j >= p)
            <7>1. /\ Note(j)' = Len(heard') - N + 1 + (j - (p + 1) + N)
                  /\ Note(j) = K - N + 1 + (j - p + N)
              BY <6>1, <6>3 DEF Note
            <7> QED
              BY <2>2, <2>3, <3>1, <7>1
          <6> QED
            BY <6>2, <6>3
        <5> QED
          BY <5>1, <5>2
      <4>3. Note(j)' \in 1 .. Len(heard') - 1
        <5>1. CASE j > p
          BY <2>2, <2>3, <2>5, <3>1, <4>1, <4>2, <5>1 DEF Note
        <5>2. CASE j < p
          BY <2>2, <2>3, <2>5, <3>1, <4>1, <4>2, <5>2 DEF Note
        <5> QED
          BY <2>2, <3>1, <3>3, <5>1, <5>2
      <4>4. heard'[Note(j)'] = heard[Note(j)]
        <5>1. Note(j) \in Int
          BY <2>2, <3>1 DEF Note
        <5> QED
          <6>1. CASE K > N
            BY <2>2, <2>3, <2>11, <4>2, <4>3, <5>1, <6>1
          <6>2. CASE ~(K > N)
            <7>1. Note(j)' = Note(j)
              BY <2>2, <2>3, <4>2, <5>1, <6>2
            <7> QED
              BY <2>11, <4>3, <6>2, <7>1
          <6> QED
            BY <6>1, <6>2
      <4>5. alm_buffer'[j] = alm_buffer[j]
        BY <2>1, <2>2, <2>10, <3>3
      <4> QED
        BY <4>1, <4>4, <4>5 DEF MetricInv, Ring
    <3> QED
      BY <3>2, <3>3
  <2> QED
    BY <2>6, <2>7 DEF Ring
<1> QED
  BY <1>1, <1>2

\* Nothing but a check and the removal of the entry changes the ring.
LEMMA RingStep ==
    MetricInv /\ MetricTypeOK' /\ [MetricNext]_metricVars => Filled' /\ Ring' /\ AllHeard'
<1> SUFFICES ASSUME MetricInv, MetricTypeOK', [MetricNext]_metricVars
             PROVE  Filled' /\ Ring' /\ AllHeard'
  OBVIOUS
<1>1. CASE UNCHANGED <<heard, missed, alm_buffer, alm_buffer_pointer>>
  BY <1>1 DEF MetricInv, Filled, Ring, Note, AllHeard
<1>2. CASE rt_table_empty
  <2>1. heard' = << >> /\ Len(heard') = 0 /\ alm_buffer_pointer' = 0
    BY <1>2 DEF rt_table_empty
  <2> QED
    BY <2>1, MetricAssumption DEF Filled, Ring, AllHeard, Place
<1>3. CASE sch_hello_check
  <2>1. AllHeard'
    <3> SUFFICES ASSUME ~missed', NEW k \in 1 .. Len(heard') PROVE heard'[k]
      BY DEF AllHeard
    <3>1. ~missed /\ (state = 1 => arrived)
      BY <1>3 DEF sch_hello_check, MetricInv, MetricTypeOK
    <3>2. CASE ~sch_hello_cnt
      BY <1>3, <3>1, <3>2 DEF sch_hello_check, MetricInv, AllHeard
    <3>3. CASE sch_hello_cnt
      <4>1. heard' = Append(IF Len(heard) > N THEN Tail(heard) ELSE heard, arrived)
        BY <1>3, <3>3 DEF sch_hello_check
      <4>2. /\ Len(heard') = (IF Len(heard) > N THEN N + 1 ELSE Len(heard) + 1)
            /\ heard'[Len(heard')] = arrived
            /\ \A i \in 1 .. Len(heard') - 1 :
                  heard'[i] = IF Len(heard) > N THEN heard[i + 1] ELSE heard[i]
        <5>1. heard \in Seq(BOOLEAN) /\ Len(heard) <= N + 1 /\ arrived \in BOOLEAN
          BY DEF MetricInv, MetricTypeOK
        <5> QED
          BY <4>1, <5>1, NoteType
      <4>3. arrived
        BY <3>1, <3>3 DEF MetricInv, Begun
      <4>4. Len(heard) \in 0 .. N + 1 /\ N \in Nat
        BY MetricAssumption DEF MetricInv, MetricTypeOK
      <4>5. \A i \in 1 .. Len(heard) : heard[i]
        BY <3>1 DEF MetricInv, AllHeard
      <4>6. CASE k = Len(heard')
        BY <4>2, <4>3, <4>6
      <4>7. CASE k # Len(heard')
        <5>1. k \in 1 .. Len(heard') - 1
          BY <4>2, <4>4, <4>7
        <5>2. CASE Len(heard) > N
          <6>1. k + 1 \in 1 .. Len(heard)
            BY <4>2, <4>4, <5>1, <5>2
          <6> QED
            BY <4>2, <4>5, <5>1, <5>2, <6>1
        <5>3. CASE ~(Len(heard) > N)
          <6>1. k \in 1 .. Len(heard)
            BY <4>2, <4>4, <5>1, <5>3
          <6> QED
            BY <4>2, <4>5, <5>1, <5>3, <6>1
        <5> QED
          BY <5>2, <5>3
      <4> QED
        BY <4>6, <4>7
    <3> QED
      BY <3>2, <3>3
  <2> QED
    BY <1>3, <2>1, RingCheck
<1> QED
  BY <1>1, <1>2, <1>3
  DEF MetricNext, TimerStep, rt_table_insert, rt_table_update, SCH_Hello_process, Tick,
      alm_calculator, nms_alm_calculator, Rann_ack_process, SetClock, entry, time,
      metricVars

\* Every step keeps the age with the notes: a tick of the clock is followed by a
\* check, and a check was preceded by a tick.
LEMMA AgedStep == MetricInv /\ MetricTypeOK' /\ [MetricNext]_metricVars => Aged'
<1> SUFFICES ASSUME MetricInv, MetricTypeOK', [MetricNext]_metricVars,
                    state' = 1, ~stepped'
             PROVE  /\ 0 <= diff'
                    /\ Len(heard') - 1 + Behind' <= diff' \/ diff' = N
                    /\ ~missed' => diff' <= Len(heard') + Behind'
  BY DEF Aged
<1>1. /\ N \in Nat \ {0} /\ diff \in -1 .. N /\ Len(heard) \in 0 .. N + 1
      /\ state \in {0, 1} /\ half \in {0, 1} /\ phase \in {0, 1}
      /\ due \in {"none", "check", "alm", "nms"}
  BY MetricAssumption DEF MetricInv, MetricTypeOK
<1>2. Behind \in {0, 1}
  BY DEF Behind
<1>3. CASE UNCHANGED <<heard, missed, diff, state, stepped, due, half, phase>>
  BY <1>3 DEF MetricInv, Aged, Behind
<1>4. ASSUME NEW h \in {1, 2}, NEW a \in Sum \cup {0}, rt_table_insert(h, a)
      PROVE  /\ 0 <= diff' /\ Len(heard') - 1 + Behind' <= diff'
             /\ diff' <= Len(heard') + Behind'
  <2>1. diff' = 0 /\ heard' = heard /\ UNCHANGED <<due, half, phase>>
    BY <1>4 DEF rt_table_insert
  <2>2. heard = << >>
    BY <1>4 DEF rt_table_insert, MetricInv, Begun
  <2>3. Len(heard') = 0 /\ Behind' = Behind
    BY <2>1, <2>2 DEF Behind
  <2> QED
    BY <1>2, <2>1, <2>3
<1>5. CASE rt_table_empty
  BY <1>5 DEF rt_table_empty
<1>6. CASE SetClock
  BY <1>6 DEF SetClock
<1>7. CASE Tick
  <2>1. /\ due = "none" /\ half' = 1 - half /\ phase' = phase
        /\ due' = IF half' = phase THEN "check" ELSE "none"
        /\ UNCHANGED <<heard, missed, state, stepped>>
    BY <1>7 DEF Tick, entry
  <2>2. /\ 0 <= diff
        /\ Len(heard) - 1 + Behind <= diff \/ diff = N
        /\ ~missed => diff <= Len(heard) + Behind
    BY <2>1 DEF MetricInv, Aged
  <2>3. CASE half = 1
    <3>1. diff' = IF diff + 1 > N THEN N ELSE diff + 1
      BY <1>7, <2>1, <2>3 DEF Tick, AtMost
    <3>2. Behind = 0 /\ Behind' = 1
      BY <1>1, <2>1, <2>3 DEF Behind
    <3> QED
      BY <1>1, <2>1, <2>2, <3>1, <3>2
  <2>4. CASE half = 0
    <3>1. diff' = diff
      BY <1>7, <2>4 DEF Tick
    <3>2. Behind' = Behind
      BY <1>1, <2>1, <2>4 DEF Behind
    <3> QED
      BY <2>1, <2>2, <3>1, <3>2
  <2> QED
    BY <1>1, <2>3, <2>4
<1>8. CASE sch_hello_check
  <2>1. /\ due = "check" /\ due' = "alm" /\ half = phase
        /\ UNCHANGED <<diff, state, stepped, half, phase>>
    BY <1>8 DEF sch_hello_check, MetricInv, OnTime
  <2>2. Behind = 1 /\ Behind' = 0
    BY <1>1, <2>1 DEF Behind
  <2>3. /\ 0 <= diff
        /\ Len(heard) - 1 + Behind <= diff \/ diff = N
        /\ ~missed => diff <= Len(heard) + Behind
    BY <2>1 DEF MetricInv, Aged
  <2>4. CASE sch_hello_cnt
    <3>1. heard' = Append(IF Len(heard) > N THEN Tail(heard) ELSE heard, arrived)
      BY <1>8, <2>4 DEF sch_hello_check
    <3>2. Len(heard') = IF Len(heard) > N THEN N + 1 ELSE Len(heard) + 1
      BY <3>1, NoteType DEF MetricInv, MetricTypeOK
    <3>3. ~missed' => ~missed
      BY <1>8 DEF sch_hello_check
    <3> QED
      BY <1>1, <2>1, <2>2, <2>3, <3>2, <3>3
  <2>5. CASE ~sch_hello_cnt
    <3>1. heard' = heard
      BY <1>8, <2>5 DEF sch_hello_check
    <3>2. missed'
      BY <1>8, <2>1, <2>5 DEF sch_hello_check, MetricInv, Detects
    <3> QED
      BY <1>1, <2>1, <2>2, <2>3, <3>1, <3>2
  <2> QED
    BY <2>4, <2>5
<1>9. CASE alm_calculator \/ nms_alm_calculator
  <2>1. /\ due # "none" /\ due # "check" /\ due' # "check"
        /\ UNCHANGED <<heard, missed, diff, state, stepped, half, phase>>
    BY <1>9 DEF alm_calculator, nms_alm_calculator
  <2>2. Behind' = Behind
    BY <2>1 DEF Behind
  <2> QED
    BY <2>1, <2>2 DEF MetricInv, Aged
<1> QED
  BY <1>3, <1>4, <1>5, <1>6, <1>7, <1>8, <1>9
  DEF MetricNext, TimerStep, rt_table_update, SCH_Hello_process, Rann_ack_process, entry,
      time, metricVars

\* Every behaviour keeps the invariant.
THEOREM MetricInvariant == MetricSpec => []MetricInv
<1>1. MetricInv /\ [MetricNext]_metricVars /\ MetricTypeOK' => MetricInv'
  BY DetectsStep, RingStep, AgedStep DEF MetricInv
<1> QED
  BY <1>1, InvInit, MetricTypeCorrect, PTL DEF MetricSpec
-----------------------------------------------------------------------------
\* A step that measures is alm_calculator, and it runs when the clock and the notes
\* agree.
LEMMA MeasuredStep ==
    ASSUME MetricInv, [MetricNext]_metricVars, Measured
    PROVE  /\ Behind = 0
           /\ sch_hello_cnt => alm_next_hop' = Measure /\ alm' = alm_next_hop'
<1>1. due = "alm" /\ due' # "alm" /\ hcnt = 1
  BY DEF Measured
<1>2. half = phase
  BY <1>1 DEF MetricInv, OnTime
<1>3. alm_calculator
  BY <1>1 DEF MetricNext, TimerStep, rt_table_insert, rt_table_update, rt_table_empty,
              SCH_Hello_process, Tick, sch_hello_check, nms_alm_calculator,
              Rann_ack_process, SetClock, entry, time, metricVars
<1> QED
  BY <1>1, <1>2, <1>3 DEF alm_calculator, Behind

\* The count of places that are all one.
LEMMA AllOnes ==
    ASSUME MetricInv, NEW k \in 0 .. N, \A j \in 0 .. k - 1 : alm_buffer[j] = 1
    PROVE  Ones(k) = k
<1>1. {j \in 0 .. k - 1 : alm_buffer[j] = 1} = 0 .. k - 1
  OBVIOUS
<1>2. k \in Nat /\ k - 1 \in Int /\ 0 \in Int
  BY MetricAssumption
<1>3. Cardinality(0 .. k - 1) = k
  BY <1>2, FS_Interval
<1> QED
  BY <1>1, <1>3 DEF Ones

\* In every behaviour alm_calculator gives a neighbour, and the PREQs that come from
\* it, the full value if its entry is at least a second old and a SCH Hello was heard in every period since: for every
\* length of the ring, every phase of the timers and every moment of insertion.
THEOREM PerfectLink == MetricSpec => PerfectIsFull
<1>1. MetricInv /\ [MetricNext]_metricVars
        => (Measured /\ diff > 0 /\ ~missed => alm_next_hop' = Full /\ alm' = Full)
  <2> SUFFICES ASSUME MetricInv, [MetricNext]_metricVars, Measured, diff > 0, ~missed
               PROVE  alm_next_hop' = Full /\ alm' = Full
    OBVIOUS
  <2>1. /\ N \in Nat \ {0} /\ Full \in Nat /\ diff \in 1 .. N
        /\ Len(heard) \in 0 .. N + 1 /\ alm_buffer_pointer \in 0 .. N - 1
    BY MetricAssumption DEF MetricInv, MetricTypeOK, Place
  <2>2. diff <= Len(heard)
    BY <2>1, MeasuredStep DEF Measured, MetricInv, Aged
  <2>3. sch_hello_cnt
    BY <2>1, <2>2 DEF MetricInv, Begun
  <2>4. ASSUME NEW j \in 0 .. diff - 1 PROVE alm_buffer[j] = 1
    <3>1. j \in Place /\ j < Len(heard)
      BY <2>1, <2>2 DEF Place
    <3>2. Note(j) \in 1 .. Len(heard)
      BY <2>1, <2>2, <3>1 DEF Note, MetricInv, Filled
    <3>3. heard[Note(j)]
      BY <3>2 DEF MetricInv, AllHeard
    <3> QED
      BY <3>1, <3>3 DEF MetricInv, Ring
  <2>5. Ones(diff) = diff
    BY <2>1, <2>4, AllOnes
  <2>6. Measure = Full
    <3>1. (diff * Full) \div diff = Full
      BY <2>1, WholeShare
    <3>2. CASE diff < N
      BY <2>1, <2>5, <3>1, <3>2 DEF Measure
    <3>3. CASE ~(diff < N)
      <4>1. diff = N
        BY <2>1, <3>3
      <4> QED
        BY <2>5, <3>1, <3>3, <4>1 DEF Measure
    <3> QED
      BY <3>2, <3>3
  <2> QED
    BY <2>3, <2>6, MeasuredStep
<1> QED
  BY <1>1, MetricInvariant, PTL DEF MetricSpec, PerfectIsFull

\* The ring holds the last N notes, turned round by the pointer: Note maps the places
\* that are one to the notes of a Hello, one to one.
LEMMA RingIsHeard ==
    ASSUME MetricInv, Len(heard) = N + 1
    PROVE  Ones(N) = LastHeard
<1> DEFINE S == {j \in 0 .. N - 1 : alm_buffer[j] = 1}
           T == {k \in Len(heard) - N + 1 .. Len(heard) : heard[k]}
           f == [j \in S |-> Note(j)]
           p == alm_buffer_pointer
<1>1. /\ N \in Nat \ {0} /\ p \in 0 .. N - 1
      /\ \A k \in 1 .. N + 1 : heard[k] \in BOOLEAN
  BY MetricAssumption DEF MetricInv, MetricTypeOK, Place
<1>2. \A j \in 0 .. N - 1 : Note(j) = IF j >= p THEN j - p + 2 ELSE j - p + N + 2
  BY <1>1 DEF Note
<1>3. \A j \in 0 .. N - 1 :
          Note(j) \in 2 .. N + 1 /\ (alm_buffer[j] = 1 <=> heard[Note(j)])
  <2> SUFFICES ASSUME NEW j \in 0 .. N - 1
               PROVE  Note(j) \in 2 .. N + 1 /\ (alm_buffer[j] = 1 <=> heard[Note(j)])
    OBVIOUS
  <2>1. Note(j) \in 2 .. N + 1
    BY <1>1, <1>2
  <2>2. alm_buffer[j] = IF heard[Note(j)] THEN 1 ELSE 0
    BY <1>1 DEF MetricInv, Ring, Place
  <2>3. heard[Note(j)] \in BOOLEAN
    BY <1>1, <2>1
  <2> QED
    BY <2>1, <2>2, <2>3
<1>4. T = {k \in 2 .. N + 1 : heard[k]}
  BY <1>1
<1>5. f \in Injection(S, T)
  <2>1. f \in [S -> T]
    BY <1>3, <1>4
  <2>2. ASSUME NEW a \in S, NEW b \in S, f[a] = f[b] PROVE a = b
    BY <1>1, <1>2, <2>2
  <2> QED
    BY <2>1, <2>2 DEF Injection, IsInjective
<1>6. f \in Surjection(S, T)
  <2>1. ASSUME NEW k \in T PROVE \E j \in S : f[j] = k
    <3> DEFINE i == IF k - 2 + p < N THEN k - 2 + p ELSE k - 2 + p - N
    <3>1. k \in 2 .. N + 1 /\ heard[k]
      BY <1>4
    <3>2. i \in 0 .. N - 1 /\ Note(i) = k
      BY <1>1, <1>2, <3>1
    <3> QED
      BY <1>3, <3>1, <3>2
  <2> QED
    BY <1>5, <2>1 DEF Injection, Surjection
<1>7. IsFiniteSet(S)
  <2>1. IsFiniteSet(0 .. N - 1)
    BY <1>1, FS_Interval
  <2>2. S \in SUBSET (0 .. N - 1)
    OBVIOUS
  <2> HIDE DEF S
  <2> QED
    BY <2>1, <2>2, FS_Subset
<1>8. ExistsBijection(S, T)
  BY <1>5, <1>6 DEF ExistsBijection, Bijection
<1> HIDE DEF S, T
<1>9. Cardinality(T) = Cardinality(S)
  BY <1>7, <1>8, FS_Bijection
<1> QED
  BY <1>9 DEF Ones, LastHeard, S, T

\* In every behaviour alm_calculator gives a neighbour, and the PREQs that come from
\* it, the share of the last N periods in which a SCH Hello was heard, once more than N periods were noted: the young
\* entry's rule is over by then, because every note has aged the entry.
THEOREM SettledLink == MetricSpec => SettledExact
<1>1. MetricInv /\ [MetricNext]_metricVars
        => (Measured /\ Len(heard) = N + 1
              => alm_next_hop' = (LastHeard * Full) \div N /\ alm' = alm_next_hop')
  <2> SUFFICES ASSUME MetricInv, [MetricNext]_metricVars, Measured, Len(heard) = N + 1
               PROVE  alm_next_hop' = (LastHeard * Full) \div N /\ alm' = alm_next_hop'
    OBVIOUS
  <2>1. N \in Nat \ {0} /\ diff \in -1 .. N
    BY MetricAssumption DEF MetricInv, MetricTypeOK
  <2>2. diff = N
    BY <2>1, MeasuredStep DEF Measured, MetricInv, Aged
  <2>3. Measure = (LastHeard * Full) \div N
    BY <2>1, <2>2, RingIsHeard DEF Measure
  <2>4. sch_hello_cnt
    BY <2>1 DEF MetricInv, Begun
  <2> QED
    BY <2>3, <2>4, MeasuredStep
<1> QED
  BY <1>1, MetricInvariant, PTL DEF MetricSpec, SettledExact
===============================================================================
