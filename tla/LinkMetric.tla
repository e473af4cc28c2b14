------------------------------ MODULE LinkMetric ------------------------------
(* The airtime link metric: how one entry of the route table measures the     *)
(* link to its device by the SCH Hello frames heard in the last periods of a  *)
(* second, and how the root shows the value a device reports in RANN_ACKs.    *)
(*                                                                            *)
(* The check and the calculation run one after the other in the Hello_Rann    *)
(* thread, every second; frames arrive in between.  The age of the entry is   *)
(* a difference of whole seconds of the wall clock, so that time has a phase: *)
(* it moves by half a second, and the timers are due at one of the halves.    *)
EXTENDS Integers, Sequences, FiniteSets

CONSTANTS N,               \* alm_buffer's ten places, and the ten seconds to fill it
          Full,            \* the value of a perfect link, 100 per cent
          AckLimit,        \* seconds without a report after which a value fades
          NmsInterval,     \* NMS_ALM_INTERVAL in seconds
          Value,           \* values a RANN_ACK may report
          Sum,             \* metrics a PREQ may have summed up
          MaxStep          \* bound: times the wall clock is set

ASSUME MetricAssumption ==
    /\ N \in Nat \ {0} /\ Full \in Nat /\ AckLimit \in Nat /\ NmsInterval \in Nat \ {0}
    /\ Value \subseteq 0 .. Full /\ Sum \subseteq Nat /\ MaxStep \in Nat

VARIABLES
    state, hcnt,           \* the entry: in use, and how far its device is
    sch_hello_cnt,         \* whether an SCH Hello was heard since the insertion
    sch_hello_detector,    \* whether one was heard since the last check
    alm_buffer, alm_buffer_pointer, alm_next_hop,
    alm,                   \* what the device's PREQs are given for the link
    diff,                  \* seconds since first_hello_time; N stands for more
    half, phase,           \* the half of the current second, and the timers' half
    due, nms_in,           \* the timers still to run now; seconds to the NMS timer
    shown,                 \* nms_t: the device's alm_next_hop
    ack_diff,              \* seconds since last_rann_ack_time; AckLimit + 1 is more
    steps,                 \* times the clock was set
    stepped,               \* history: it was set since the insertion
    arrived,               \* history: an SCH Hello came since the last check
    heard,                 \* history: per check since the first SCH Hello, whether
                           \* one was heard before it; the last N + 1
    missed                 \* history: a check since the insertion found none

metricVars == <<state, hcnt, sch_hello_cnt, sch_hello_detector, alm_buffer,
                alm_buffer_pointer, alm_next_hop, alm, diff, half, phase, due, nms_in,
                shown, ack_diff, steps, stepped, arrived, heard, missed>>
entry == <<state, hcnt, sch_hello_cnt, sch_hello_detector, alm_buffer, alm_buffer_pointer,
           alm_next_hop, alm, arrived, heard, missed>>
time == <<diff, half, phase, due, nms_in, ack_diff, steps, stepped>>

Place == 0 .. N - 1
AtMost(x, limit) == IF x > limit THEN limit ELSE x

MetricInit ==
    /\ state = 0 /\ hcnt = 0
    /\ sch_hello_cnt = FALSE /\ sch_hello_detector = FALSE
    /\ alm_buffer = [j \in Place |-> 0] /\ alm_buffer_pointer = 0
    /\ alm_next_hop = 0 /\ alm = 0
    /\ arrived = FALSE /\ heard = << >> /\ missed = FALSE
    /\ diff = 0 /\ half = 0 /\ phase \in {0, 1} /\ due = "none" /\ nms_in = NmsInterval
    /\ shown = 0 /\ ack_diff = AckLimit + 1
    /\ steps = 0 /\ stepped = FALSE
-----------------------------------------------------------------------------
\* rt_table_insert, for a Hello (with a metric of 0) or for a PREQ from h hops away
\* that has summed up the metric a.
rt_table_insert(h, a) ==
    /\ state = 0
    /\ state' = 1 /\ hcnt' = h /\ alm' = a
    /\ diff' = 0 /\ stepped' = FALSE
    /\ UNCHANGED <<sch_hello_cnt, sch_hello_detector, alm_buffer, alm_buffer_pointer,
                   alm_next_hop, half, phase, due, nms_in, shown, ack_diff, steps,
                   arrived, heard, missed>>

\* rt_table_update: a PREQ of a device farther away came another way, or a PREP
\* from the root, whose metric is 0.
rt_table_update(h, a) ==
    /\ state = 1
    /\ hcnt # 1 \/ a = 0
    /\ hcnt' = h /\ alm' = a
    /\ UNCHANGED <<state, sch_hello_cnt, sch_hello_detector, alm_buffer,
                   alm_buffer_pointer, alm_next_hop, time, shown, arrived, heard, missed>>

\* The entry is all zero.
rt_table_empty ==
    /\ state = 1
    /\ state' = 0 /\ hcnt' = 0
    /\ sch_hello_cnt' = FALSE /\ sch_hello_detector' = FALSE
    /\ alm_buffer' = [j \in Place |-> 0] /\ alm_buffer_pointer' = 0
    /\ alm_next_hop' = 0 /\ alm' = 0
    /\ arrived' = FALSE /\ heard' = << >> /\ missed' = FALSE
    /\ UNCHANGED <<time, shown>>

SCH_Hello_process ==
    /\ state = 1
    /\ sch_hello_cnt' = TRUE /\ sch_hello_detector' = TRUE /\ arrived' = TRUE
    /\ UNCHANGED <<state, hcnt, alm_buffer, alm_buffer_pointer, alm_next_hop, alm, time,
                   shown, heard, missed>>

\* Half a second goes by; timers that are due have run.
Tick ==
    /\ due = "none"
    /\ half' = 1 - half
    /\ due' = IF half' = phase THEN "check" ELSE "none"
    /\ diff' = IF half = 1 /\ state = 1 THEN AtMost(diff + 1, N) ELSE diff
    /\ ack_diff' = IF half = 1 THEN AtMost(ack_diff + 1, AckLimit + 1) ELSE ack_diff
    /\ UNCHANGED <<entry, phase, nms_in, shown, steps, stepped>>

NextPlace(p) == (p + 1) % N

\* Mutant: the detector is not reset.
CheckOnce ==
    /\ due = "check" /\ due' = "alm"
    /\ IF sch_hello_cnt
       THEN /\ alm_buffer' = [alm_buffer EXCEPT
                  ![alm_buffer_pointer] = IF sch_hello_detector THEN 1 ELSE 0]
            /\ alm_buffer_pointer' = NextPlace(alm_buffer_pointer)
            /\ heard' = Append(IF Len(heard) > N THEN Tail(heard) ELSE heard,
                               arrived)
       ELSE UNCHANGED <<alm_buffer, alm_buffer_pointer, heard>>
    /\ missed' = (missed \/ (state = 1 /\ ~arrived)) /\ arrived' = FALSE
    /\ UNCHANGED <<state, hcnt, sch_hello_cnt, sch_hello_detector, alm_next_hop, alm, diff,
                   half, phase, nms_in, shown, ack_diff, steps, stepped>>

\* One period is noted, once the first SCH Hello has been heard.
sch_hello_check ==
    /\ due = "check" /\ due' = "alm"
    /\ IF sch_hello_cnt
       THEN /\ alm_buffer' = [alm_buffer EXCEPT
                  ![alm_buffer_pointer] = IF sch_hello_detector THEN 1 ELSE 0]
            /\ alm_buffer_pointer' = NextPlace(alm_buffer_pointer)
            /\ sch_hello_detector' = FALSE
            /\ heard' = Append(IF Len(heard) > N THEN Tail(heard) ELSE heard,
                               arrived)
       ELSE UNCHANGED <<alm_buffer, alm_buffer_pointer, sch_hello_detector, heard>>
    /\ missed' = (missed \/ (state = 1 /\ ~arrived)) /\ arrived' = FALSE
    /\ UNCHANGED <<state, hcnt, sch_hello_cnt, alm_next_hop, alm, diff, half, phase, nms_in,
                   shown, ack_diff, steps, stepped>>

Ones(k) == Cardinality({j \in 0 .. k - 1 : alm_buffer[j] = 1})

\* Mutant: a young entry is divided by the seconds begun.
MeasureBegun ==
    IF diff < N /\ diff # 0 THEN IF diff < 0 THEN 0 ELSE (Ones(diff) * Full) \div (diff + 1)
    ELSE (Ones(N) * Full) \div N

\* The first places by the age of the entry, or all places; a negative age has
\* no places.
Measure ==
    IF diff < N /\ diff # 0 THEN IF diff < 0 THEN 0 ELSE (Ones(diff) * Full) \div diff
    ELSE (Ones(N) * Full) \div N

\* Only the entries of neighbours are measured.  Every fifth time the NMS timer
\* runs as well.
alm_calculator ==
    /\ due = "alm"
    /\ IF sch_hello_cnt /\ hcnt = 1 THEN alm_next_hop' = Measure /\ alm' = alm_next_hop'
       ELSE UNCHANGED <<alm_next_hop, alm>>
    /\ due' = IF nms_in = 1 THEN "nms" ELSE "none"
    /\ nms_in' = IF nms_in = 1 THEN NmsInterval ELSE nms_in - 1
    /\ UNCHANGED <<state, hcnt, sch_hello_cnt, sch_hello_detector, alm_buffer,
                   alm_buffer_pointer, diff, half, phase, shown, ack_diff, steps,
                   stepped, arrived, heard, missed>>

\* Mutant: a value fades only while the device has an entry.
FadeEntries ==
    /\ due = "nms" /\ due' = "none"
    /\ IF ack_diff > AckLimit /\ state = 1
       THEN shown' = shown \div 2 /\ alm_next_hop' = alm_next_hop \div 2
       ELSE UNCHANGED <<shown, alm_next_hop>>
    /\ UNCHANGED <<state, hcnt, sch_hello_cnt, sch_hello_detector, alm_buffer,
                   alm_buffer_pointer, alm, diff, half, phase, nms_in, ack_diff, steps,
                   stepped, arrived, heard, missed>>

\* The row's value fades, and with it that of the device's entry.
nms_alm_calculator ==
    /\ due = "nms" /\ due' = "none"
    /\ IF ack_diff > AckLimit /\ shown # 0
       THEN /\ shown' = shown \div 2
            /\ alm_next_hop' = IF state = 1 THEN alm_next_hop \div 2 ELSE alm_next_hop
       ELSE UNCHANGED <<shown, alm_next_hop>>
    /\ UNCHANGED <<state, hcnt, sch_hello_cnt, sch_hello_detector, alm_buffer,
                   alm_buffer_pointer, alm, diff, half, phase, nms_in, ack_diff, steps,
                   stepped, arrived, heard, missed>>

\* A RANN_ACK reaches the root.  For a neighbour the root's own measurement takes
\* the place of the value; a value of 0 is passed over.
Rann_ack_process(v) ==
    LET r == IF hcnt = 1 THEN alm_next_hop ELSE v IN
    /\ state = 1 /\ r # 0
    /\ shown' = r /\ ack_diff' = 0
    /\ alm_next_hop' = IF hcnt # 1 THEN r ELSE alm_next_hop
    /\ UNCHANGED <<state, hcnt, sch_hello_cnt, sch_hello_detector, alm_buffer,
                   alm_buffer_pointer, alm, diff, half, phase, due, nms_in, steps, stepped,
                   arrived, heard, missed>>

\* The wall clock is set, backwards or forwards.
SetClock ==
    /\ steps < MaxStep
    /\ steps' = steps + 1 /\ stepped' = TRUE
    /\ diff' \in {-1, N} /\ ack_diff' \in {-1, AckLimit + 1}
    /\ UNCHANGED <<entry, half, phase, due, nms_in, shown>>

TimerStep == Tick \/ sch_hello_check \/ alm_calculator \/ nms_alm_calculator

MetricNext ==
    \/ \E h \in {1, 2}, a \in Sum \cup {0} : rt_table_insert(h, a) \/ rt_table_update(h, a)
    \/ rt_table_empty
    \/ SCH_Hello_process
    \/ TimerStep
    \/ \E v \in Value : Rann_ack_process(v)
    \/ SetClock

\* Time goes on, and the Hello_Rann thread runs the timers that are due.
MetricSpec == MetricInit /\ [][MetricNext]_metricVars /\ WF_metricVars(TimerStep)
-----------------------------------------------------------------------------
Measured == due = "alm" /\ due' # "alm" /\ state = 1 /\ hcnt = 1 /\ ~stepped

LastHeard == Cardinality({k \in Len(heard) - N + 1 .. Len(heard) : heard[k]})

\* From the eleventh check on the measurement of a neighbour, which its PREQs are
\* given too, is the share of the last ten periods in which an SCH Hello was heard,
\* wherever the pointer of the ring is, if the clock was not set.
SettledExact ==
    [][Measured /\ Len(heard) = N + 1 =>
           alm_next_hop' = (LastHeard * Full) \div N /\ alm' = alm_next_hop']_metricVars

\* A neighbour heard in every period has the full value, for its PREQs too, as soon
\* as its entry is a second old: the seconds of the clock never run ahead of the
\* periods noted.
PerfectIsFull ==
    [][Measured /\ diff > 0 /\ ~missed =>
           alm_next_hop' = Full /\ alm' = Full]_metricVars

\* The value the NMS is shown for a device fades to 0 when no report of another
\* value comes, whether or not the device still has an entry.
ShownFades == ([]<>(ack_diff <= 0)) \/ <>[](shown = 0)
===============================================================================
