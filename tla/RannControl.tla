----------------------------- MODULE RannControl -----------------------------
(* The control plane of the mesh.  The operator's NMS client sends commands  *)
(* to the root (wsm-mesh.c), the root puts its configuration into every RANN *)
(* it announces, and a node that accepts a RANN takes the configuration over *)
(* (aodv.c).  A change of the receiving channel or of the data rate needs a  *)
(* reset of the V2X libraries: Rann_process sets a flag and arms a timer,    *)
(* and the Hello_Rann thread does the reset while further RANNs arrive.      *)
(*                                                                           *)
(* Only the latest RANN is kept.  A RANN that arrives after a later one was  *)
(* accepted is dropped, and one that arrives before it has the effect it had *)
(* when it arrived before the later one was sent.                            *)
(*                                                                           *)
(* The root may restart.  It then counts its RANNs from one again, and draws *)
(* a new rann_id; a node that sees another rann_id empties its table and     *)
(* takes the RANN, one that sees the rann_id it knows drops what is not      *)
(* above the order it has.                                                   *)
EXTENDS Naturals

CONSTANTS Node,            \* the nodes other than the root
          Metric,          \* values of the metric, 1 to 3
          Radio,           \* receiving channel and data rate together
          Period,          \* values of the update period, 0 to 2
          Command,         \* the NMS commands in use: 0, 1, 2, 3, 99
          MaxCommand       \* bound: commands the NMS sends, and restarts of the root

ASSUME ValueAssumption == Metric \subseteq 1 .. 3 /\ 0 \in Period /\ Period \subseteq 0 .. 2
ASSUME CommandAssumption == Command \subseteq {0, 1, 2, 3, 99}
ASSUME BoundAssumption == MaxCommand \in Nat

Nobody == "nobody"         \* the zero address

VARIABLES
    root,          \* the root's metric, radio, log and update period
    route_reset,   \* the root's flag: the next RANN carries a reset
    rann,          \* the latest RANN
    got,           \* nodes that accepted a RANN of the latest order
    fresh,         \* nodes that know another rann_id than the root's
    deaf,          \* nodes that know the root's rann_id, and an order of a former
                   \* start above the latest
    conf,          \* per node, its configuration
    api_reset, reboot_flag,   \* per node
    armed,         \* nodes whose API_reset_timer runs
    pc,            \* per node, where API_reset_process is
    radio,         \* per node, what the V2X libraries are set to (g_mib)
    stale,         \* history: nodes whose table is older than the last reset command
    overtaken,     \* history: nodes whose running reset missed a change
    spent,         \* history: nodes that the RANN with the last reset passed by
    commands       \* history: how many commands the NMS sent, and restarts

vars == <<root, route_reset, rann, got, fresh, deaf, conf, api_reset, reboot_flag, armed,
          pc, radio, stale, overtaken, spent, commands>>

ids == <<fresh, deaf>>
rootVars == <<root, route_reset, rann, got, spent, commands>>
nodeVars == <<conf, api_reset, reboot_flag, armed, pc, radio, overtaken>>

Config == [metric : Metric, radio : Radio, log : BOOLEAN, period : Period]

\* Mutant: a RANN that carries the reset flag has its address left unset.
RannUnaddressed(c, reset, reset_addr) ==
    [conf |-> c, reset |-> reset,
     reset_addr |-> IF reset THEN "unset" ELSE reset_addr]

Make_msg_format_RANN(c, reset, reset_addr) ==
    [conf |-> c, reset |-> reset, reset_addr |-> reset_addr]

Init ==
    /\ \E m \in Metric, r \in Radio :
          root = [metric |-> m, radio |-> r, log |-> FALSE, period |-> 0]
    /\ route_reset = FALSE
    /\ rann = Make_msg_format_RANN(root, FALSE, Nobody)
    /\ got = {}
    /\ fresh \in {{}, Node}
    /\ deaf = {}
    /\ conf = [n \in Node |-> root]
    /\ api_reset = [n \in Node |-> FALSE]
    /\ reboot_flag = [n \in Node |-> FALSE]
    /\ armed = {}
    /\ pc = [n \in Node |-> "idle"]
    /\ radio = [n \in Node |-> root.radio]
    /\ stale = {}
    /\ overtaken = {}
    /\ spent = {}
    /\ commands = 0
-----------------------------------------------------------------------------
\* The root.

\* The nodes that have missed a RANN with the reset flag when a later RANN is sent;
\* to one that knows another rann_id any RANN will do.
Missed == IF rann.reset THEN Node \ (got \cup fresh) ELSE {}

\* A RANN of the next order, with which some deaf nodes are passed; route_reset
\* goes into it and is cleared.  A broadcast, which any node may miss.
Announce(c, reset, reset_addr) ==
    /\ rann' = Make_msg_format_RANN(c, reset, reset_addr)
    /\ got' = {}
    /\ \E D \in SUBSET deaf :
          /\ deaf' = D
          /\ spent' = IF reset THEN D ELSE spent \cup Missed
    /\ route_reset' = FALSE
    /\ UNCHANGED fresh

\* Rann_send, every five seconds times the update period.
Rann_send ==
    /\ Announce(root, route_reset, Nobody)
    /\ UNCHANGED <<root, commands, nodeVars, stale>>

\* Rann_start of a root that restarts, with the configuration it is started with.
\* It draws a rann_id, which the nodes outside F know, and of these some have an
\* order above 1; the reset flag is lost, unless the new rann_id does its work.
Rann_start ==
    /\ commands < MaxCommand /\ commands' = commands + 1
    /\ \E m \in Metric, r \in Radio :
          root' = [metric |-> m, radio |-> r, log |-> FALSE, period |-> 0]
    /\ rann' = Make_msg_format_RANN(root', FALSE, Nobody)
    /\ got' = {}
    /\ \E F \in SUBSET Node, D \in SUBSET Node :
          /\ fresh' = F
          /\ deaf' = D \ F
          /\ spent' = spent \cup (stale \ F)
    /\ route_reset' = FALSE
    /\ UNCHANGED <<stale, nodeVars>>

Receives(type) ==
    /\ type \in Command /\ commands < MaxCommand
    /\ commands' = commands + 1
    /\ UNCHANGED nodeVars

\* Type 0: metric, channel and data rate; the root resets its own libraries and
\* tables where something changed.
ChangeConfig ==
    /\ Receives(0)
    /\ \E m \in Metric, r \in Radio : root' = [root EXCEPT !.metric = m, !.radio = r]
    /\ UNCHANGED <<route_reset, rann, got, stale, spent, ids>>

\* Type 1: the log.
ChangeLog ==
    /\ Receives(1)
    /\ \E b \in BOOLEAN : root' = [root EXCEPT !.log = b]
    /\ UNCHANGED <<route_reset, rann, got, stale, spent, ids>>

\* Type 2: all tables are to be emptied.
ResetRoutes ==
    /\ Receives(2)
    /\ route_reset' = TRUE
    /\ stale' = Node
    /\ spent' = {}
    /\ UNCHANGED <<root, rann, got, ids>>

\* Type 3: the update period.  A RANN is sent at once, with the order of the
\* last one: a node that accepted that one drops it.
ChangePeriod ==
    /\ Receives(3)
    /\ \E p \in Period : root' = [root EXCEPT !.period = p]
    /\ rann' = Make_msg_format_RANN(root', route_reset, Nobody)
    /\ route_reset' = FALSE
    /\ spent' = IF route_reset THEN got \cup deaf ELSE spent \cup Missed
    /\ UNCHANGED <<got, stale, ids>>

\* Type 99: one node is to reboot.
RebootNode ==
    /\ Receives(99)
    /\ \E n \in Node : Announce(root, route_reset, n)
    /\ UNCHANGED <<root, stale>>

NmsCommand ==
    ChangeConfig \/ ChangeLog \/ ResetRoutes \/ ChangePeriod \/ RebootNode
-----------------------------------------------------------------------------
\* A node.

\* Mutant: the log is switched on and never off.
TakesConfigLogSticks(c, r) == [r.conf EXCEPT !.period = c.period, !.log = c.log \/ @]

\* The configuration after a RANN.  update_cycle is compared with the new period
\* instead of being assigned (aodv.c:1812-1829), so the node keeps its own.
TakesConfig(c, r) == [r.conf EXCEPT !.period = c.period]

\* Mutant: the reset flag of the RANN is not looked at.
EmptiesOnChange(n, r) == conf[n].metric # r.conf.metric \/ conf[n].radio # r.conf.radio

\* rt_NMS_reset is called for every change, and for the reset flag.
Empties(n, r) ==
    \/ conf[n].metric # r.conf.metric
    \/ conf[n].radio # r.conf.radio
    \/ r.reset

\* Mutant: the flag is raised for a new metric.
RaisesForMetric(n, r) == conf[n].metric # r.conf.metric

\* A new channel or data rate raises api_reset and arms the timer.
Raises(n, r) == conf[n].radio # r.conf.radio

\* Rann_process with another rann_id, or with an order above the node's own.  (The
\* answer to the RANN, a PREQ or an acknowledgement, is in RouteDiscovery.)
Rann_process(n) ==
    LET change == Raises(n, rann)
        reboot == rann.reset_addr = n
    IN
    /\ n \notin got \cup deaf
    /\ got' = got \cup {n}
    /\ fresh' = fresh \ {n}
    /\ conf' = [conf EXCEPT ![n] = TakesConfig(@, rann)]
    /\ api_reset' = [api_reset EXCEPT ![n] = @ \/ change]
    /\ reboot_flag' = [reboot_flag EXCEPT ![n] = @ \/ reboot]
    /\ armed' = IF change \/ reboot THEN armed \cup {n} ELSE armed
    /\ stale' = IF Empties(n, rann) \/ n \in fresh THEN stale \ {n} ELSE stale
    /\ overtaken' = IF change /\ pc[n] = "clear" THEN overtaken \cup {n} ELSE overtaken
    /\ UNCHANGED <<root, route_reset, rann, deaf, commands, spent, pc, radio>>

\* Mutant: the flag for a reboot is looked at only after a reset.
ApiResetFirst(n) ==
    /\ n \in armed /\ pc[n] = "idle"
    /\ armed' = armed \ {n}
    /\ pc' = [pc EXCEPT ![n] = IF api_reset[n] THEN "reset" ELSE "idle"]
    /\ UNCHANGED <<rootVars, ids, conf, api_reset, reboot_flag, radio, stale, overtaken>>

\* API_reset_process, started by the timer: a pending reset comes first, a
\* reboot only if there is none.
API_reset_process(n) ==
    /\ n \in armed /\ pc[n] = "idle"
    /\ armed' = armed \ {n}
    /\ pc' = [pc EXCEPT ![n] = IF api_reset[n] THEN "reset"
                               ELSE IF reboot_flag[n] THEN "reboot" ELSE "idle"]
    /\ UNCHANGED <<rootVars, ids, conf, api_reset, reboot_flag, radio, stale, overtaken>>

\* Reset copies the channel and the data rate and opens the radio with them;
\* frames arrive again before it returns.
Reset(n) ==
    /\ pc[n] = "reset"
    /\ radio' = [radio EXCEPT ![n] = conf[n].radio]
    /\ pc' = [pc EXCEPT ![n] = "clear"]
    /\ overtaken' = overtaken \ {n}
    /\ UNCHANGED <<rootVars, ids, conf, api_reset, reboot_flag, armed, stale>>

\* api_reset = 0 when Reset has returned.
ClearFlag(n) ==
    /\ pc[n] = "clear"
    /\ api_reset' = [api_reset EXCEPT ![n] = FALSE]
    /\ pc' = [pc EXCEPT ![n] = "idle"]
    /\ UNCHANGED <<rootVars, ids, conf, reboot_flag, armed, radio, stale, overtaken>>

\* Program_reboot: the device starts again with empty tables and its defaults, a
\* rann_id of 0 among them, which may be the root's; the RANN that told it to is
\* over by then.
Program_reboot(n) ==
    /\ pc[n] = "reboot"
    /\ \E m \in Metric, r \in Radio :
          /\ conf' = [conf EXCEPT ![n] = [metric |-> m, radio |-> r, log |-> FALSE,
                                          period |-> 0]]
          /\ radio' = [radio EXCEPT ![n] = r]
    /\ reboot_flag' = [reboot_flag EXCEPT ![n] = FALSE]
    /\ api_reset' = [api_reset EXCEPT ![n] = FALSE]
    /\ armed' = armed \ {n}
    /\ pc' = [pc EXCEPT ![n] = "idle"]
    /\ stale' = stale \ {n}
    /\ overtaken' = overtaken \ {n}
    /\ fresh' \in {fresh \ {n}, fresh \cup {n}}
    /\ deaf' = deaf \ {n}
    /\ UNCHANGED rootVars

NodeStep(n) == API_reset_process(n) \/ Reset(n) \/ ClearFlag(n) \/ Program_reboot(n)

Next == Rann_send \/ Rann_start \/ NmsCommand \/ \E n \in Node : Rann_process(n) \/ NodeStep(n)

Spec == Init /\ [][Next]_vars

\* The root announces for ever, and its orders pass those of its former starts; a
\* node receives a RANN again and again, even if it misses some; its timer thread
\* goes on.
FairSpec ==
    /\ Spec
    /\ WF_vars(Rann_send /\ deaf' = {})
    /\ \A n \in Node : SF_vars(Rann_process(n)) /\ WF_vars(NodeStep(n))
-----------------------------------------------------------------------------
\* Configurations, flags and points of execution are what they can be.
TypeOK ==
    /\ root \in Config /\ route_reset \in BOOLEAN
    /\ rann \in [conf : Config, reset : BOOLEAN, reset_addr : Node \cup {Nobody}]
    /\ got \in SUBSET Node /\ fresh \in SUBSET Node /\ deaf \in SUBSET Node
    /\ conf \in [Node -> Config]
    /\ api_reset \in [Node -> BOOLEAN] /\ reboot_flag \in [Node -> BOOLEAN]
    /\ armed \in SUBSET Node
    /\ pc \in [Node -> {"idle", "reset", "clear", "reboot"}]
    /\ radio \in [Node -> Radio]
    /\ stale \in SUBSET Node /\ overtaken \in SUBSET Node /\ spent \in SUBSET Node
    /\ commands \in Nat

Pending(n) == api_reset[n] /\ (n \in armed \/ pc[n] = "reset")

\* A node whose libraries are not on the channel and data rate of its
\* configuration has a reset ahead of it that will read the configuration as it
\* is now: Rann_process and the timer thread hand the change over without
\* losing it, except to a reset that has read the configuration and not yet
\* cleared the flag.
RadioPending ==
    \A n \in Node : radio[n] # conf[n].radio => Pending(n) \/ n \in overtaken

InForce(n) ==
    /\ conf[n].metric = root.metric /\ conf[n].log = root.log
    /\ conf[n].radio = root.radio /\ radio[n] = root.radio

\* When the NMS stops sending commands, every node ends with the root's metric,
\* log, channel and data rate, the last two in force in its radio, however many
\* RANNs it missed, wherever they met its resets and reboots, and whether or not a
\* root that restarted drew a rann_id it knows; except a node whose last reset was
\* overtaken.
ConfigReaches == \A n \in Node : <>[](InForce(n) \/ n \in overtaken)

\* Command 2 ("reset route table", aodv.c:2662): each node empties the routing table
\* it had when the NMS asked for it, unless the one RANN that carried the flag passed
\* it by: the node missed it, or had accepted its order before (the RANN of a period
\* command), or the root restarted with a rann_id the node knows.  No other command,
\* no other RANN that is missed, no reboot and no restart with another rann_id in
\* between takes the reset away.  The flag goes into one RANN (aodv.c:710), a broadcast
\* that is not repeated, so that "All route reset" (aodv.c:2667) is more than the code does.
ResetReachesUnlessSpent == \A n \in Node : n \in stale ~> n \notin stale \/ n \in spent

\* A node that was told to reboot ("reboot by NMS-control", aodv.c:1833) does so
\* when its timer expires, whatever else it is sent in the meantime, unless the
\* timer finds a reset to serve: the reboot then waits for another command.
RebootServedUnlessReset ==
    \A n \in Node :
        reboot_flag[n] /\ n \in armed ~> ~reboot_flag[n] \/ pc[n] = "reset"
=============================================================================
