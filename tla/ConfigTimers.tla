---------------------------- MODULE ConfigTimers ----------------------------
(* The software timers of one node (aodv.c) and what drives them: the        *)
(* Hello_Rann thread, which starts them and runs the handler of each that    *)
(* expires, the command menu, which removes and restarts them, the receive   *)
(* callback, which arms a reply or a reset, and at the root the NMS thread,  *)
(* which arms the next RANN.  One counter, timer_cnt, decides when the scan  *)
(* for dead neighbours stops and when the node stops announcing itself.      *)
(*                                                                           *)
(* Time passes in seconds and stands still while a handler runs.  The threads *)
(* interleave between the calls on the timer list and between the test of    *)
(* timer_cnt and what follows it; a call on the list is one step.            *)
EXTENDS Integers, SequencesExt

CONSTANTS Slot,             \* the reply slots in use: indices of tmp_preq
          ConfigTimeInit,   \* what config_time is initialised to, 5000
          HelloFactor,      \* Hello_send ends at config_time * 100
          SchFactor,        \* SCH_Hello_send ends at config_time * 2000
          ScanLimit,        \* the scan ends at 1000
          Interval,         \* per timer, the seconds it is armed for
          MaxStimulus       \* bound: menus, messages and commands

ASSUME LimitAssumption == 
    {ConfigTimeInit, HelloFactor, SchFactor, ScanLimit, MaxStimulus} \subseteq Nat

Periodic == {"check", "alm", "nms", "rann", "data"}
Named == Periodic \cup {"hello", "sch", "scan", "api"}
Timer == Named \cup Slot

\* Calls that are not handlers of a timer.
Call == {"Hello_start", "Hello_timeout_start", "SCH_Hello_start", "alm_start",
         "API_reset_timer_start", "Rann_start", "Hello_end", "Timer_Reset",
         "rt_table_empty"}

ASSUME SlotAssumption == Slot \cap (Named \cup Call) = {}
ASSUME IntervalAssumption == Interval \in [Timer -> Nat \ {0}]

config_time == ConfigTimeInit % 256

\* Handlers that are due at once never make the count reach the limit of Hello_send.
ASSUME CountAssumption == config_time * HelloFactor >= 4

VARIABLES
    timers,       \* TQ, expTQ, and per timer whether it is used and the time left
    handlers,     \* timers that Timer_init gave a handler
    todo,         \* per thread, the calls it still has to make
    timer_cnt, config_end, main_state, RootNode,
    tmp_preq,     \* slots whose used is set: a PREQ waits for its reply
    exited,       \* the program ended itself: "NULL handler!!!"
    cut,          \* history: slots whose timer a Timer_Reset removed
    late_end,     \* history: a CONFIG END came after its count had been restarted
    chosen,       \* history: the last menu that touched the timers
    stimuli       \* history: menus, messages and commands so far

vars == <<timers, handlers, todo, timer_cnt, config_end, main_state, RootNode,
          tmp_preq, exited, cut, late_end, chosen, stimuli>>

counts == <<timer_cnt, config_end, late_end>>
replies == <<tmp_preq, cut>>
control == <<main_state, RootNode, exited, chosen, stimuli>>
-----------------------------------------------------------------------------
\* The timer list.

\* The kth smallest number of K.
UpTo(K, i) == {j \in K : j <= i}
Nth(K, k) == CHOOSE i \in K : Cardinality(UpTo(K, i)) = k

\* The timers of seq that are not in T, in their order.
Without(seq, T) ==
    LET kept == {i \in 1 .. Len(seq) : seq[i] \notin T}
    IN  [k \in 1 .. Cardinality(kept) |-> seq[Nth(kept, k)]]

\* Mutant: the timer stays in the list of the expired ones.
Timer_removeQueued(L, T) ==
    [tq   |-> Without(L.tq, T),
     exp  |-> L.exp,
     used |-> [t \in Timer |-> L.used[t] /\ t \notin T],
     left |-> [t \in Timer |-> IF t \in T THEN 0 ELSE L.left[t]]]

\* Timer_remove of every timer of T, from whichever list it is in.
Timer_remove(L, T) ==
    [tq   |-> Without(L.tq, T),
     exp  |-> Without(L.exp, T),
     used |-> [t \in Timer |-> L.used[t] /\ t \notin T],
     left |-> [t \in Timer |-> IF t \in T THEN 0 ELSE L.left[t]]]

\* Mutant: a new timer goes to the end of the list.
PlaceLast(L, d) == Len(L.tq) + 1

\* Where Timer_add puts a timer with d seconds left: before the first later one.
Place(L, d) ==
    CHOOSE i \in 1 .. Len(L.tq) + 1 :
        /\ i <= Len(L.tq) => d < L.left[L.tq[i]]
        /\ \A j \in 1 .. i - 1 : ~ (d < L.left[L.tq[j]])

Timer_add(L, t, d) ==
    [tq   |-> InsertAt(L.tq, Place(L, d), t),
     exp  |-> L.exp,
     used |-> [L.used EXCEPT ![t] = TRUE],
     left |-> [L.left EXCEPT ![t] = d]]

Timer_set_timeout(L, t) == Timer_add(Timer_remove(L, {t}), t, Interval[t])

\* How many timers at the head of TQ have expired.
Expired(L) ==
    CHOOSE n \in 0 .. Len(L.tq) :
        /\ \A i \in 1 .. n : L.left[L.tq[i]] <= 0
        /\ n < Len(L.tq) => L.left[L.tq[n + 1]] > 0

Moved(L) ==
    [tq   |-> SubSeq(L.tq, Expired(L) + 1, Len(L.tq)),
     exp  |-> SubSeq(L.tq, 1, Expired(L)),
     used |-> L.used,
     left |-> L.left]

Older(L) ==
    [tq   |-> L.tq,
     exp  |-> L.exp,
     used |-> L.used,
     left |-> [t \in Timer |-> IF L.used[t] THEN L.left[t] - 1 ELSE L.left[t]]]
-----------------------------------------------------------------------------
Init ==
    /\ timers = [tq |-> <<>>, exp |-> <<>>, used |-> [t \in Timer |-> FALSE],
                 left |-> [t \in Timer |-> 0]]
    /\ handlers = {}
    /\ RootNode \in BOOLEAN
    /\ todo = [loop |-> <<"Hello_start", "Hello_timeout_start", "SCH_Hello_start",
                          "alm_start", "API_reset_timer_start">>
                         \o IF RootNode THEN <<"Rann_start">> ELSE <<>>,
               menu |-> <<>>]
    /\ timer_cnt = 0
    /\ config_end = FALSE
    /\ main_state = TRUE
    /\ tmp_preq = {}
    /\ exited = FALSE
    /\ cut = {}
    /\ late_end = FALSE
    /\ chosen = 1
    /\ stimuli = 0

\* The user, a neighbour or the NMS acts.
Stimulus == ~ exited /\ stimuli < MaxStimulus /\ stimuli' = stimuli + 1

\* Thread th makes its next call and goes on with the calls of rest.
Calls(th, name, rest) ==
    /\ ~ exited
    /\ todo[th] # <<>> /\ Head(todo[th]) = name
    /\ todo' = [todo EXCEPT ![th] = rest \o Tail(@)]
-----------------------------------------------------------------------------
\* The starts: nothing where the timer is used, else its handler at once.

\* Mutant: a timer is taken for used once it has had a handler.
StartsOnce(t) == IF t \in handlers THEN <<>> ELSE <<t>>

Starts(t) == IF timers.used[t] THEN <<>> ELSE <<t>>

\* Hello_start and SCH_Hello_start.
RestartCount(th, name, t) ==
    /\ Calls(th, name, Starts(t))
    /\ timer_cnt' = 0
    /\ config_end' = FALSE
    /\ timers' = Timer_remove(timers, {"data"})
    /\ handlers' = handlers \cup {t}
    /\ UNCHANGED <<late_end, replies, control>>

Hello_start(th) == RestartCount(th, "Hello_start", "hello")
SCH_Hello_start(th) == RestartCount(th, "SCH_Hello_start", "sch")

Start(th, name, T, calls) ==
    /\ Calls(th, name, calls)
    /\ handlers' = handlers \cup T
    /\ UNCHANGED <<timers, counts, replies, control>>

Hello_timeout_start(th) ==
    Start(th, "Hello_timeout_start", {"scan"}, Starts("scan"))
alm_start(th) ==
    LET nms == IF RootNode THEN {"nms"} ELSE {}
    IN  Start(th, "alm_start", {"check", "alm"} \cup nms,
              Starts("check") \o Starts("alm")
                  \o IF RootNode THEN Starts("nms") ELSE <<>>)
Rann_start(th) == Start(th, "Rann_start", {"rann"}, Starts("rann"))

\* Mutant: Timer_init is left to the one who arms it.
ApiStartEmpty(th) ==
    /\ Calls(th, "API_reset_timer_start", <<>>)
    /\ UNCHANGED <<handlers, timers, counts, replies, control>>

\* Only the handler is set.
API_reset_timer_start(th) ==
    /\ Calls(th, "API_reset_timer_start", <<>>)
    /\ handlers' = handlers \cup {"api"}
    /\ UNCHANGED <<timers, counts, replies, control>>
-----------------------------------------------------------------------------
\* The handlers.

HelloGoesOnAt(n) == n <= config_time * HelloFactor

Hello_send(th) ==
    /\ Calls(th, "hello", IF HelloGoesOnAt(timer_cnt + 1) THEN <<>> ELSE <<"Hello_end">>)
    /\ timer_cnt' = timer_cnt + 1
    /\ timers' = IF HelloGoesOnAt(timer_cnt + 1) THEN Timer_set_timeout(timers, "hello")
                 ELSE timers
    /\ UNCHANGED <<handlers, config_end, late_end, replies, control>>

\* Mutant: the timer of the frames on the second channel is forgotten.
EndTimersButSch == {"hello", "check", "rann", "alm", "scan", "data"}

EndTimers == {"hello", "sch", "check", "rann", "alm", "scan", "data"}

\* CONFIG END, in the else branch of Hello_send.
Hello_end(th) ==
    /\ Calls(th, "Hello_end", <<"data">>)
    /\ timers' = Timer_remove(timers, EndTimers)
    /\ handlers' = handlers \cup {"data"}
    /\ config_end' = TRUE
    /\ late_end' = (late_end \/ HelloGoesOnAt(timer_cnt))
    /\ UNCHANGED <<timer_cnt, replies, control>>

SCH_Hello_send(th) ==
    /\ Calls(th, "sch", <<>>)
    /\ timer_cnt' = timer_cnt + 1
    /\ timers' = IF timer_cnt + 1 <= config_time * SchFactor
                 THEN Timer_set_timeout(timers, "sch") ELSE timers
    /\ UNCHANGED <<handlers, config_end, late_end, replies, control>>

ScanGoesOnAt(n) == n < ScanLimit

\* rt_table_empty of some entries, whichever died or were reset.
Empties(S) ==
    /\ tmp_preq' = tmp_preq \ S
    /\ cut' = cut \ S

\* Mutant: where the scan resets the count it goes on as well.
ScanRestarts(th) ==
    /\ Calls(th, "scan", <<>>)
    /\ \E S \in SUBSET tmp_preq : Empties(S)
    /\ timer_cnt' = IF ScanGoesOnAt(timer_cnt + 1) THEN timer_cnt + 1 ELSE 0
    /\ timers' = Timer_set_timeout(timers, "scan")
    /\ UNCHANGED <<handlers, config_end, late_end, control>>

\* The scan empties the entries of dead neighbours.
Hello_timeout_process(th) ==
    /\ Calls(th, "scan", <<>>)
    /\ \E S \in SUBSET tmp_preq : Empties(S)
    /\ IF ScanGoesOnAt(timer_cnt + 1)
       THEN /\ timer_cnt' = timer_cnt + 1
            /\ timers' = Timer_set_timeout(timers, "scan")
       ELSE /\ timer_cnt' = 0
            /\ UNCHANGED timers
    /\ UNCHANGED <<handlers, config_end, late_end, control>>

\* sch_hello_check, alm_calculator, nms_alm_calculator, Rann_send, Data_Count:
\* whatever they compute, they arm their timer again.
Rearms(th, t) ==
    /\ Calls(th, t, <<>>)
    /\ timers' = Timer_set_timeout(timers, t)
    /\ UNCHANGED <<handlers, counts, replies, control>>

\* API_reset_process touches no timer.
API_reset_process(th) ==
    /\ Calls(th, "api", <<>>)
    /\ UNCHANGED <<timers, handlers, counts, replies, control>>

\* The slot's own entry is the originator's; RouteDiscovery has the lookup.
Prep_send(th, s) ==
    /\ Calls(th, s, <<>>)
    /\ Empties({s})
    /\ UNCHANGED <<timers, handlers, counts, control>>
-----------------------------------------------------------------------------
\* The loop of the Hello_Rann thread.

Idle == todo.loop = <<>> /\ timers.exp = <<>>

\* Timer_timeout, first part: the expired timers leave TQ.
Timer_timeout ==
    /\ ~ exited /\ main_state /\ Idle
    /\ Expired(timers) > 0
    /\ timers' = Moved(timers)
    /\ UNCHANGED <<handlers, todo, counts, replies, control>>

\* Timer_timeout, second part: the handler of the first of them is called.
CallHandler ==
    /\ ~ exited /\ todo.loop = <<>> /\ timers.exp # <<>>
    /\ todo' = [todo EXCEPT !.loop = <<Head(timers.exp)>>]
    /\ timers' = Timer_remove(timers, {Head(timers.exp)})
    /\ UNCHANGED <<handlers, counts, replies, control>>

\* A second passes while no thread has anything to do.
Tick ==
    /\ ~ exited /\ Idle /\ todo.menu = <<>>
    /\ timers.tq # <<>> /\ timers.left[Head(timers.tq)] > 0
    /\ timers' = Older(timers)
    /\ UNCHANGED <<handlers, todo, counts, replies, control>>
-----------------------------------------------------------------------------
\* The command menu.

ResetTimers == Timer \ {"nms"}

Timer_Reset(th) ==
    /\ Calls(th, "Timer_Reset", <<>>)
    /\ timers' = Timer_remove(timers, ResetTimers)
    /\ cut' = cut \cup {s \in tmp_preq : timers.used[s]}
    /\ UNCHANGED <<handlers, counts, tmp_preq, control>>

rt_table_empty(th) ==
    /\ Calls(th, "rt_table_empty", <<>>)
    /\ Empties(Slot)
    /\ UNCHANGED <<timers, handlers, counts, control>>

\* Menu 1, "Start config again"; 3, the scan alone; 0, exit.
MenuCalls(choice) ==
    CASE choice = 1 -> <<"Timer_Reset", "rt_table_empty", "Hello_start">>
      [] choice = 3 -> <<"Timer_Reset", "Hello_timeout_start">>
      [] choice = 0 -> <<"Timer_Reset">>

\* The thread sleeps five seconds before it offers the menu.
Started == {"api"} \cup (IF RootNode THEN {"rann"} ELSE {}) \subseteq handlers

Menu(choice) ==
    /\ Stimulus /\ main_state /\ todo.menu = <<>> /\ Started
    /\ todo' = [todo EXCEPT !.menu = MenuCalls(choice)]
    /\ main_state' = (choice # 0)
    /\ chosen' = choice
    /\ UNCHANGED <<timers, handlers, counts, replies, RootNode, exited>>

\* Menu 4, and a node that resets its table by command of the NMS.
DeleteEntry(s) ==
    /\ Stimulus /\ s \in tmp_preq
    /\ Empties({s})
    /\ UNCHANGED <<timers, handlers, todo, counts, main_state, RootNode, exited, chosen>>
-----------------------------------------------------------------------------
\* The receive callback and the NMS thread.

\* Mutant: Prep_start looks at the handler where it should look at used.
PreqArmsOnce(s) ==
    /\ Stimulus /\ RootNode /\ s \notin tmp_preq
    /\ tmp_preq' = tmp_preq \cup {s}
    /\ handlers' = handlers \cup {s}
    /\ timers' = IF s \in handlers THEN timers ELSE Timer_set_timeout(timers, s)
    /\ UNCHANGED <<todo, counts, cut, main_state, RootNode, exited, chosen>>

\* Preq_process at the root takes a PREQ into a free slot and calls Prep_start.
Preq_process(s) ==
    /\ Stimulus /\ RootNode /\ s \notin tmp_preq
    /\ tmp_preq' = tmp_preq \cup {s}
    /\ handlers' = handlers \cup {s}
    /\ timers' = IF timers.used[s] THEN timers ELSE Timer_set_timeout(timers, s)
    /\ UNCHANGED <<todo, counts, cut, main_state, RootNode, exited, chosen>>

\* A thread arms a timer without a look at used; before Timer_init it has no
\* handler, and Timer_add ends the program.
Arms(t) ==
    /\ Stimulus
    /\ exited' = (t \notin handlers)
    /\ timers' = IF t \in handlers THEN Timer_set_timeout(timers, t) ELSE timers
    /\ UNCHANGED <<handlers, todo, counts, replies, main_state, RootNode, chosen>>

\* A RANN that changes the channel or the data rate, or orders a reboot.
Rann_process == ~ RootNode /\ Arms("api")

\* A command of type 3 or 99.
nms_control_msg_process == RootNode /\ Arms("rann")
-----------------------------------------------------------------------------
ThreadStep(th) ==
    \/ Hello_start(th) \/ SCH_Hello_start(th) \/ Hello_timeout_start(th)
    \/ alm_start(th) \/ Rann_start(th) \/ API_reset_timer_start(th)
    \/ Hello_send(th) \/ Hello_end(th) \/ SCH_Hello_send(th)
    \/ Hello_timeout_process(th) \/ API_reset_process(th)
    \/ \E t \in Periodic : Rearms(th, t)
    \/ \E s \in Slot : Prep_send(th, s)
    \/ Timer_Reset(th) \/ rt_table_empty(th)

Next ==
    \/ \E th \in {"loop", "menu"} : ThreadStep(th)
    \/ Timer_timeout \/ CallHandler \/ Tick
    \/ \E choice \in {0, 1, 3} : Menu(choice)
    \/ \E s \in Slot : DeleteEntry(s) \/ Preq_process(s)
    \/ Rann_process \/ nms_control_msg_process

Spec == Init /\ [][Next]_vars

\* The Hello_Rann thread never blocks, a menu that was entered runs to its end,
\* and time passes.
FairSpec ==
    /\ Spec
    /\ WF_vars(ThreadStep("loop")) /\ WF_vars(Timer_timeout) /\ WF_vars(CallHandler)
    /\ WF_vars(ThreadStep("menu"))
    /\ WF_vars(Tick)
-----------------------------------------------------------------------------
\* Every timer that is used is in one of the two lists, once, TQ is sorted by
\* the time left, and no timer has more time than its interval.
TypeOK ==
    /\ timers.used \in [Timer -> BOOLEAN]
    /\ ToSet(timers.tq) \cup ToSet(timers.exp) = {t \in Timer : timers.used[t]}
    /\ IsInjective(timers.tq \o timers.exp)
    /\ \A i, j \in 1 .. Len(timers.tq) :
          i < j => timers.left[timers.tq[i]] <= timers.left[timers.tq[j]]
    /\ \A t \in Timer : timers.left[t] <= Interval[t]
    /\ handlers \subseteq Timer
    /\ timer_cnt \in Nat
    /\ <<config_end, main_state, RootNode, exited, late_end>> \in
          BOOLEAN \X BOOLEAN \X BOOLEAN \X BOOLEAN \X BOOLEAN
    /\ tmp_preq \subseteq Slot /\ cut \subseteq Slot
    /\ chosen \in {0, 1, 3} /\ stimuli \in 0 .. MaxStimulus

\* No timer is left behind: the loop looks at the head of TQ only
\* (Timer_timeout stops at the first timer that has time left), and yet no
\* timer is ever overdue while the loop waits for one.
OnTime == \A t \in Timer : timers.left[t] >= 0

\* The root's reply slot is taken until Prep_send frees it, so a slot that is
\* taken and has no timer answers its originator never again.  That happens
\* only where Timer_Reset of a menu removed the timer (menu 3 keeps the slot).
ReplyHasTimer ==
    \A s \in tmp_preq : timers.used[s] \/ todo.loop = <<s>> \/ s \in cut

\* After CONFIG END the node sends no Hello and measures no link, unless the end it
\* had counted came into a restart from the menu.  Of the announcements of a root it
\* says nothing: CONFIG END removes their timer too (aodv.c:916), but a command of
\* type 3 or 99 arms it again (aodv.c:2680, 2688), and then for good.
QuietAfterEnd ==
    config_end /\ ~ late_end =>
        \A t \in {"hello", "sch", "check", "alm"} :
            ~ timers.used[t] /\ \A th \in {"loop", "menu"} : t \notin ToSet(todo[th])

\* Timer_add takes a timer without a handler for an error of the program ("NULL
\* handler!!!", aodv.c:233): whoever arms one, Timer_init was there before, except
\* while the Hello_Rann thread has not yet made the starts it begins with.
NullOnlyAtStart ==
    exited => \E k \in DOMAIN todo.loop :
                 todo.loop[k] \in {"API_reset_timer_start", "Rann_start"}

LeftAlone == todo.menu = <<>> /\ main_state /\ ~ exited

\* While the configuration phase lasts Hello frames are sent for ever: no order
\* of timers, menus and handlers leaves the node without the one that sends
\* them, but menu 3, exit and a missing handler.
HelloGoesOn ==
    <>[] (main_state /\ ~ exited /\ chosen = 1 /\ ~ config_end)
        => []<> (\E th \in {"loop", "menu"} : "hello" \in ToSet(todo[th]))

\* Left alone, the configuration phase ends: the scan resets timer_cnt once
\* and is gone, so that the count reaches the limit of Hello_send.
ConfigEnds == <>[] (LeftAlone /\ chosen = 1) => <>[] config_end
=============================================================================
