# A verification project for the V2X mesh

This directory holds TLA+ models of the mesh routing program in `src/wsm/`
(`aodv.c`, `mesh_extern.c`, `wsm-mesh.c`, `wsm-tx.c`, `wsm-rx.c`), the TLC
configurations that check them, and TLAPS proofs of what holds in every
instance. `PROJECT.json` maps every definition to the lines it models and lists
the components, runs, mutants, findings, hazards and theorems.

To check a run: `tlc -config MCTxPath.cfg MCTxPath`. To check the proofs:
`tlapm TxQueueProofs.tla` (and the other `*Proofs.tla`).

## 1. The system

Every device, road-side unit or on-board unit, runs the same program; one is
the *root* (it has the NMS, the network management client). The nodes keep a
tree of routes to the root over WSM frames of a V2X radio.

| Component | State | Operations |
|---|---|---|
| Transmit queue (`mesh_extern.c`) | ring `tq`: `front`, `rear`, 20 slots | `addq`, `deleteq`, `IsFull`, `IsEmpty`, `Init_Q` |
| Transmit timers (`wsm-tx.c`) | two POSIX timers of 50 ms, one handle `g_tx_timer`, `g_payload` | `WSM_TxTimerThread`, `WSM_InitTxOperation`, `WSM_ReleaseTxOperation` |
| Receive path (`wsm-rx.c`, `Receive_process`) | global `src_mac_addr` | dispatch on the type byte |
| Route table (`aodv.c`) | `rt_t`, ten slots | `rt_table_find`, `_get_index`, `_insert`, `_update`, `_empty` |
| Route discovery (`aodv.c`) | `rann_order`, `tmp_preq[]`, `route_select_timer[]`, `dest_mac_addr` | RANN, PREQ, PREP, RANN_ACK: make, send, process, forward |
| Link failure (`aodv.c`) | `hello_cnt`, `last_hello_time` of an entry | `Hello_process`, `Hello_timeout_process`, PERR, PERR_UNI |
| Software timers (`aodv.c`) | sorted list `TQ`, `timer_cnt`, `config_end` | `Timer_set_timeout`, `Timer_remove`, `Timer_timeout` |
| Link metric (`aodv.c`) | per entry a ring of ten periods, `sch_hello_detector`, `alm_next_hop`, `alm` | `SCH_Hello_process`, `sch_hello_check`, `alm_calculator`, `nms_alm_calculator` |
| Control plane (`wsm-mesh.c`, `aodv.c`) | metric, channel, data rate, log, period; `route_reset`, `api_reset`, `reboot_flag` | NMS commands 0, 1, 2, 3, 99; the second half of `Rann_process`; `API_reset_process`, `Reset` |
| NMS topology table (`aodv.c`) | rows of neighbours and uplinks at the root | `nms_table_*` and the handlers that call them |
| NMS log (`aodv.c`) | `nms_log_buff`, the size in `p_nms_log_str` | `NMS_logging`, `NMS_log_add`, `_send`, `_send_nms`, `_reset` |
| NMS connection (`wsm-mesh.c`, `aodv.c`) | `nms_tcp_send_client` and its copy `_ext`, `NMS_Connection` | `NMS_TCP_send_func`, `NMS_log_send_nms` |
| Start-up, menu, shutdown (`wsm-mesh.c`) | thread handles, `main_state` | `main`, the menu thread |
| Data path and Netlink | test traffic | `Data_*`, `Netlink_*` |
| Tools (`udpfwd`, `chan`, `addr`, `kernel_module`) | none | command-line wrappers and test programs |

**Interaction.** Five threads share these globals without one lock: the receive
callback of the V2X library (runs every handler), the Hello_Rann thread (runs
every software timer), the threads of the two transmit timers, the menu thread,
and at the root two NMS threads. Between nodes there are only frames: lost at
will, broadcast or unicast, sent by the transmit timer some time after a
handler has queued them. Two globals carry data past the queue: `dest_mac_addr`
(the address of a unicast frame, written when it is built and read when some
frame is sent) and `src_mac_addr` (the sender of the frame being handled).

**What is hard.** The unlocked ring with two timers on one handle; the global
destination address; rounds of discovery that overlap and lose frames; lookups
that differ in what they ignore; the order of Hello timeouts and PERRs after a
death; a reset in one thread while announcements arrive in another; a root that
restarts and counts from zero; a log buffer two threads append to and clear; a
connection one thread renews while others send on it; a table that puts rows at
fixed places whatever is there; a metric that divides by wall-clock seconds. The list
with source lines is "hazards" in `PROJECT.json`.

**What makes the parts correct.** The ring hands over each frame once, in order
and whole. A unicast frame goes to its next hop. Collected paths are loop-free
and real; routes lead to nodes that have routes; tables hold one entry per
route and never overflow; a pending reply has its timer and answers the route
the root chose. After a death nobody routes to the dead node and what is left
is connected. What the NMS orders comes into force everywhere. What the NMS sees
is the mesh that was reported: the rows are a map of it, the paths lie on the
map, log records arrive once, and values nobody reports fade.

## 2. Modules

```
FrameFifo        a bounded FIFO: what addq and deleteq promise
 |- TxQueue      the ring, an operation at a time       TxQueueProofs
 '- TxPath       the ring, an access at a time, threads and timers
                                                        TxPathProofs
RouteTable       the rt_table_* functions as operators
 |- RouteDiscovery   RANN, PREQ, PREP, RANN_ACK         RouteDiscoveryProofs
 '- LinkFailure      Hello timeout, PERR, PERR_UNI      LinkFailureProofs
LinkMetric       one entry's metric, second by second   \ RannMetricProofs
RannControl      NMS commands, RANN configuration       /
ConfigTimers     software timers, CONFIG END, menus     ConfigTimersProofs
Topology         a map of devices: what the NMS table promises
 '- NmsTable     the rows and the handlers that write   NmsTableProofs
NmsLog           the log buffer, an access at a time   \ NmsLogFeedProofs
NmsFeed          the connection to the NMS client      /
MC*              instances for TLC; MCNms has NmsLog and NmsFeed, which share no
                 variable: each of its behaviours is of one of the two
```

**FrameFifo, TxQueue.** `TxQueue` has `front`, `rear` and `slot` as in
`mesh_extern.c`, one action per outcome of `addq` and `deleteq`. `front` is -1
until the first frame leaves, so a ring that nothing has left is never full and
an overrun forgets it; FrameFifo's refusal and forgetting steps name these two
cases. TxQueue implements FrameFifo (`ImplementsFifo`).

**TxPath.** The same ring, where each load and store of `tq`, `dest_mac_addr`
and `g_payload` is an action of the thread that makes it (the Makefile builds
without optimisation, and the threads share memory without a lock). Handlers
build frames and call `addq`; timers expire, one thread per timer at a time,
and go through `IsEmpty`, `deleteq`, the copy, the address, `WAL_TransmitMPDU`
(or lose the frame, when no MPDU is built); menu 7 clears the ring; menu 8
releases and re-creates the timers. `dest_mac_addr` is written wherever the code
does: by a unicast frame before it is queued, twice by the reply to a PREQ (the
originator in aodv.c:772, the next hop in 795 or 803, two steps), by a report of
a death although that is queued as a broadcast (874, 879), and with a byte of a
pointer after it (1143). `wrote` is history, all these writes in their order.

The ring is correct for one writer and one reader only, and two timers of equal period
are created by every initialisation. Several handlers and several timer threads are
under way at once in the model; `harm` records the first time two of their accesses
conflict (`Harm`): two copies of `rear` or of `front` at once, a slot read while it is
filled, a test of the ring that is no longer true when it is acted on, a clearing under
an operation. Whatever the threads interleave short of that is no harm, for instance two
timer threads that pass the test of wsm-tx.c:41 and take two frames one after the other.
With `Stop` the model ends after the step of the first conflict, and the properties say
what holds until then. What a conflict does is plain from the code: of two timer threads
that both found the last frame, the second one's `deleteq` finds the queue empty,
prints, and the thread transmits the slot again (wsm-tx.c:47, mesh_extern.c:97).

**RouteTable, RouteDiscovery.** A frame on the air reaches any subset of the nodes in
range. Actions: `HelloHeard`, `Rann_send`, `Transmit`, `Receive` (one disjunct per
handler), `Prep_send` (a reply timer expires), `alm_calculator` (every one-hop entry
that counts SCH Hellos gets a new metric, at any time). Each handler is one action with
everything it calls. `Triangle` is the loop check as it is written: its pointer moves by
a growing offset, so it reads addresses 1, 2, 4, 7 of the list. `DownlinkNext` is the
address read past the list in `Prep_process`; `Garbage` is what is there, which may be
left over from an earlier frame's list and then is a node's address. `astray` is
history: the nodes that took a PREP meant for another one, because `dest_mac_addr` had
changed while it waited. Building a unicast frame is one step here, with its last write
of the global; the writes one by one, and that of aodv.c:1143, are TxPath's.
`rt_table_insert` at a full table is NULL, as in the code.

**LinkFailure.** First the mesh converges: `Setup` is a set of sequences of events, the
Hello of one node at another or a PREQ that came along a path of `Path`, and
`Converge` takes the next event. Then `Die`, `HelloMissed`, `HelloHeard`,
`Hello_timeout_process` (the body of the scan, slot by slot, since the receive
callback runs in between), `Transmit`, `Perr_process`, `Perr_unicast_process`.
Two history variables name where the repair fails. `silent` has the nodes that a
neighbour's PERR made delete an uplink, and with it the entry their own scan would
have found, before they told anyone. `unheard` has the pairs of a node and a dead
one whose Hello frames it does not count: it did not when the other died, or the
entry with the count went together with another dead node's.

**RannControl.** The root's configuration and `route_reset`, the latest RANN,
and per node the configuration, `api_reset`, `reboot_flag`, the API timer, and
the place where `API_reset_process` is. `Rann_process` runs in the receive
callback, `API_reset_process`, `Reset`, `ClearFlag` are steps of the Hello_Rann
thread between which RANNs arrive. `Rann_start` is a restart of the root: its
configuration and its count of announcements begin again, and the new
`rann_id` is one the nodes know or not, which divides them into `fresh` nodes
(another `rann_id`: they empty their table and accept) and `deaf` ones (they drop
its RANNs until its count passes theirs). `stale`, `overtaken` and `spent` are
history: nodes that still have the table of before the last reset command,
whose running reset missed a change, and that the RANN with the reset passed by, since
they missed it (`Missed`) or dropped it. Any node may miss any RANN.

**ConfigTimers.** One node, root or not. `timers` holds the sorted list `TQ`, the
expired timers and per timer `used` and the seconds left; `Timer_remove`,
`Place` and `Timer_set_timeout` are the list functions. `todo` has, per thread,
the calls it still makes: the Hello_Rann thread begins with the starts of
wsm-mesh.c:846 and then takes expired timers (`Timer_timeout`, `CallHandler`),
the menu thread enters menu 0, 1 or 3. A handler is one step, but CONFIG END
(`Hello_end`) is a step of its own after the test of `timer_cnt` that leads to
it. In between, a RANN arms the reset timer, a PREQ a reply, an NMS command the
next RANN. `cut` and `late_end` are history: slots that lost their timer to
`Timer_Reset`, and a CONFIG END that met a restart.

**LinkMetric.** One entry of the route table, and the root's row for its device. Time
moves by half a second; `phase` is the half at which the timers are due, so that the
whole seconds `alm_calculator` counts and the periods `sch_hello_check` notes are not
the same. `alm_next_hop` is what the NMS is told, `alm` what a PREQ that comes over the
link is given (aodv.c:382). `sch_hello_check`, `alm_calculator` and every fifth time
`nms_alm_calculator` run one after the other; SCH Hello frames, RANN_ACKs, insertions,
updates, deletions and a clock that is set come in between. `heard`, `missed`, `arrived`
and `stepped` are history.

**Topology, NmsTable.** `Topology` is a map of devices and links: a frame adds all
the links it reports, a death removes a device, a reset clears the map. `NmsTable`
has the rows of `nms_t`, with neighbour and path lists as they are shifted and
overwritten, one action per handler that writes them. `nms_table_insert` puts a
device at its place in `mac_list`, and row 0, which a reset gives to the root, is
the first device's place as well: `taken` records that a device has overwritten
the root's row, and the map is `broken` then. `reply` holds the PREQs that will be
answered when their three seconds are over, and whether a death on the path or a
reset came since.

**NmsLog.** One node's `NMS_logging`: the copy of a record to where the size says,
the load and the store of the size, the search for a route, the read of the size,
the copy into a frame, the clearing of the buffer and of the size are steps of
the thread that logs. The root sends at once; another node keeps what it has
while it has no route. `alone` and `since` are history: whether a call has met
another, and the calls since one that met none emptied the buffer.

**NmsFeed.** `NMS_TCP_send_func` with its loop over the rows, the test and the send
of `NMS_log_send_nms` in the threads that log, the handlers that change rows, and
the clients. Sockets are external: a send into a connection the client has reset
fails once and then raises SIGPIPE, which the program does not handle; after an
orderly end the first send is taken.

## 3. Runs

| Run | Instance | Question and answer |
|---|---|---|
| tx_queue | 4 slots, 3 frames | The ring is a bounded FIFO, slots between front and rear are filled. Holds. |
| tx_path | 2 slots, 2 handlers, 4 timers created, 1 clearing; a reply and a report | Every interleaving of the accesses, until two conflict: the ring is a FIFO, a unicast frame leaves for the address written for it or a later one, frames leave or are cleared. Holds. |
| discovery | triangle with a node behind one relay (4 nodes), one announcement | Paths real and loop-free, routes to the root lead to routes, for every loss and order; the way back beside the originator leads to it over a link, but where a node took a PREP meant for another. Holds. |
| rounds | triangle, two announcements, airtime metric, two nodes measured | Tables fit, pending replies have their timer and answer the root's route, however often links are measured anew. Holds. |
| downlink | line of 4, one announcement | "Route to PREQ Sender" (aodv.c:2202): the next hop of every way back is in range. Violated: with two addresses in the list it is read behind the list. |
| link_failure | kite of 4, 256 set-ups, one death | No dead next hop stays; the rest of each route is connected, except behind a `silent` node and where a dead next hop is `unheard`. Holds. |
| two_deaths | line of 3, two deaths | "Delete the tables whose next hop is dead" (aodv.c:1507). Violated: the count of Hello frames was in another's entry. |
| control | 2 nodes, any 2 commands or restarts of the root | Radio changes stay pending until done, the configuration comes into force, resets arrive and reboots happen, but for the named windows: a reset that is overtaken, a flag spent on a RANN a node misses or drops, a reboot that meets a reset. Holds. |
| config_timers | root or node, 1 reply slot, any 3 menus, messages or commands | The list stays sorted and no timer is overdue; a reply has its timer unless a menu took it; after CONFIG END no Hello is sent and no link measured unless a restart met it; a timer without a handler is armed only before the Hello_Rann thread has made its starts; Hello goes on until CONFIG END, and CONFIG END comes. Holds. |
| nms_table | 4 known devices, one unknown, 2 channels | The table is the map of what was reported until the root's row is taken; the paths on display lie on the map but for replies older than a death or a reset; a channel command empties the table, unless the root's row was taken or shows a neighbour's other channel. Holds. |
| nms_client | log: 2 threads, 3 calls, room for 2; feed: 2 rows, 2 threads, 3 clients | Records arrive once and in order until calls overlap; no thread sends a record twice; the size never exceeds the calls since the buffer was last emptied undisturbed. A lost client ends the program only in the named cases; logs follow the rows to the new client; a client that stays has the table in the end. Holds. |
| link_metric | ring of 3, clock set once | The settled value is exact, for the NMS and for PREQs, a perfect link has the full value from its first second, an unreported value fades. Holds. |

Every property of a passing run has a mutant in `PROJECT.json`: a plausible
slip in one mapped definition that TLC finds with that property.

**Disagreements between code and comments.** Two are runs of their own, whose property is
what the comment says: `two_deaths` and `downlink`. Others are named in a property that
holds, so that it says where the code keeps its word as well as where it does not: a
unicast frame does not leave for its own next hop ("DA -NextHop", aodv.c:795), only never
for an older address (`UnicastToOwnOrLater`); a reset command does not reach everyone
("All route reset", aodv.c:2667), only who gets the RANN with the flag
(`ResetReachesUnlessSpent`); then the PREP that leaves for the wrong node
(`DownlinkToNeighbor`), the reboot that finds a reset (`RebootServedUnlessReset`), the
timer without a handler at start (`NullOnlyAtStart`), the channel of a neighbour in the
root's row (`ChannelChangeEmpties`), the row the first device takes from the root
(`ImplementsTopology`), SIGPIPE (`SurvivesReset`).

**Bounds and why they are enough.** `MAX_QUEUE` 4 and 2 instead of 20: the ring wraps,
fills and is overrun; no code depends on the number. `MaxTimer` 4: the first pair and
one re-creation, the state from which every later one only adds. Two frames for tx_path:
one that writes the address twice and one that writes it though it is a broadcast; a
ring that is full or overrun needs a third and is tx_queue's, and the theorems about
TxPath hold for any number of frames, handlers and timers. `MaxClear` 1: one clearing
meets everything there is to meet. `MaxRann` 1 or 2: overlapping needs two rounds; a
third round adds nothing the second does not already do to a table that holds routes,
except sequence numbers. Four nodes, a triangle and a node behind one of its relays: the
smallest mesh with alternative paths, a PREP of two addresses, and a node that can be
sent a PREP it is not meant to have. `RT_SIZE` above what a run fills; its relation to
the mesh size is stated by `TableFits` and the assumption `RoomAssumption`. `MaxDead` 1,
with 2 in `two_deaths`: `DeadHopForgotten` already fails there, and `ChainAfterRepair`
is proved for any number. The set-ups of the kite vary what tells them apart in a table:
the path of each PREQ, and whether the Hellos between the root and its relays come
before the routes or after. `MaxStimulus` 3: what disturbs the timers comes from one
thread at a time, and two disturbances within one handler already need all three
threads. `ConfigTimeInit`, `ScanLimit` and the intervals are scaled down and keep their
order (a scan interval's counts fit between the two limits, as 9 fit between 1000 and
13600). `MaxCommand` 2: two commands in one announcement interval, or one before and one
after a RANN or a restart; the history variables compare only the last command with what
runs. Two nodes: no property relates nodes, the second one makes announcements that only
some accept. NmsTable: `mac_list` has its four entries, the paths are the shapes the
handler tells apart (one known hop, two, one with an unknown relay), and the table is
not bounded by any count. `MaxLog` 3 and `Cap` 2: one call more than the buffer holds,
and a thread that calls twice. NmsFeed: two rows make a cycle with an inside and an end,
three clients make two changes, two versions make a row stale once. LinkMetric: the ring
of `N` places and the ten seconds that fill it shrink together, one setting of the clock
makes every age. `Value` is what a RANN_ACK may report, `Sum` one metric above every
measured one, as a PREQ of several hops has it. RouteDiscovery: `Alm` has two values in
`rounds`, where PREQs are compared by it, and one elsewhere: with metric 1 the value is
only stored.

**Fairness.** TxPath: weak fairness of the transmit timers taken together, which are
periodic POSIX timers: one of them expires again and again, and some thread of theirs
goes on; none for the handlers, even inside `addq`, or for what the operator types.
LinkFailure: weak fairness of the scan, the transmit timer and the receive callback of
nodes that live (periodic timers of 100 ms to seconds, and a callback the library calls
for each frame). The scan is re-armed only while `timer_cnt < 1000` (aodv.c:1607), about
ten minutes; LinkFailure is about that time. ConfigTimers: weak fairness of the
Hello_Rann thread, which polls without blocking, of a menu that was entered, and of
time. RannControl: the root announces for ever (weak); a node receives an announcement
again and again even if it misses some (strong, of `Rann_process`); its reset thread
goes on (weak). A restarted root counts past the orders of its former start if it runs
on, which is the weak fairness of `Rann_send` with no deaf node left. NmsFeed: weak
fairness of the feed, a thread of its own whose sends return while the client reads;
none of clients or loggers. LinkMetric: weak fairness of time and of the timers that are
due. RouteDiscovery, NmsTable and NmsLog claim safety only.

**Deadlock** is checked where the system cannot stop (tx_queue, control, nms_table,
link_metric) and in nms_client, where the steps `Ended` and `FeedEnded` mark the states
in which the model may stop (all calls made, the buffer overrun, the program ended, or
no client left to wait for). The other configurations switch it off: bounded
announcements, deaths and timers end, and the system is then at rest; a node of
ConfigTimers stops by menu 0.

## 4. Proofs

| Module | Theorem | For every |
|---|---|---|
| TxQueueProofs | `TypeCorrect`, `OnlyFilledSlotsSent`, `RingImplementsFifo` | ring size of at least 2, any frames |
| TxPathProofs | `UnicastAddressed`, `PathImplementsFifo` | ring size of at least 2, any handlers, frames, numbers of timers and clearings |
| RouteDiscoveryProofs | `FindSpec`, `FindFromSpec`, `GetIndexSpec` | table size, any table |
| RouteDiscoveryProofs | `TypeCorrect`, `PathsReal`, `TablesFit`, `RepliesMatch`, `UplinksChained`, `DownlinksToNeighbors` | mesh, topology, both metrics, PREQ ttl of at most 4, tables of at least 2·nodes − 2 slots |
| RannMetricProofs | `TypeCorrect`, `RadioNotForgotten` | number of nodes and of commands, any metrics and settings |
| RannMetricProofs | `MetricTypeCorrect`, `SettledLink`, `PerfectLink` | length of the ring, full value, limits, reported values and number of times the clock is set |
| ConfigTimersProofs | `ListsInOrder`, `NeverOverdue`, `EveryReplyHasTimer`, `HandlersAreSet`, `EndIsQuiet` | number of slots, intervals, limits (a count of at least four Hellos), menus, messages and commands |
| NmsTableProofs | `ChangeEmpties`, `TypeCorrect`, `PathsHold`, `TableIsMap` | list of at most seven known devices, set of paths and neighbours, channels |
| NmsLogFeedProofs | `TypeCorrect`, `RecordsInOrder`, `SizeGrowsByCalls`, `NoThreadRepeats` | number of threads, calls and places |
| NmsLogFeedProofs | `FeedTypeCorrect`, `ResetIsSurvived` | number of rows, versions, clients and threads |
| LinkFailureProofs | `TypeCorrect`, `NextHopsHeard`, `ChainHolds` | mesh, topology, paths, sequences of set-up, number of deaths, tables of at least 2·nodes − 2 slots |

*The ring.* `TypeOK` is inductive. The window between front and rear is filled:
the invariant adds where front and rear are before the first frame leaves. For
the refinement each action maps to a step of FrameFifo on the sequence of
waiting frames; the lemmas compute that sequence after `addq` and `deleteq`,
with and without wrap-around.

*The unlocked ring.* Until two accesses conflict `Quiet` holds: at most one handler is
between the load of `rear` and its last store, at most one timer thread between the load
of `front` and the end of its transmission, nobody clears beside them, and a ring that
is being filled is neither full nor the slot that is being read. The other threads may
be anywhere else: before the load, between the writes of an address, or behind the addq.
`Good` is what each thread may then assume of the shared variables at each of its
places: which slots are filled, and that a unicast frame in a slot, in `g_payload` or on
its way out has the write of its own next hop in `wrote`, before the one that
`dest_mac_addr` stands for (`Written`, `SentOn`, `DestLatest`). `PathInv`, that `~harm`
implies both, is inductive without a word on what follows the harm. For the refinement
the slot a handler is filling counts as filled already (`Seen`), so that `addq` takes
effect when `rear` is advanced and `deleteq` when `front` is; a clearing takes effect
with its first store. That theorem assumes `Stop`: it is about every behaviour up to and
with the step after which two accesses conflict. A conflict is possible in the code's
normal operation; beyond it there is no queue to refine, and nothing is proved.
`UnicastAddressed` needs no `Stop`.

*Paths.* `PreqPathsReal` is not inductive. The strengthening bounds what a PREQ
has spent: the length of its path and its ttl add up to at most one more than
`PREQ_TTL`. A PREQ that is forwarded has a path of at most three addresses
then, and of these the loop check reads 1 and 2 and compares the third, the
sender, by the fact that a node does not receive its own frame. So the skipped
addresses never matter with the ttl of 4 in aodv.c:745, and `TtlAssumption`
says that a larger ttl would need another argument: it would be false.

*Tables.* `TableFits` follows from `TableOK`: no two routes of a table serve the same
purpose, and no route to the root has the root as its source. The second half is what
makes it inductive; it holds because no PREQ starts at the root and no PREP on the
way answers the root (`IInv`). The entries that lead elsewhere than to the root
have different destinations, those that lead to it different sources, and both are
nodes other than the root: `CountedTable` maps each kind one to one into that set and
adds the two.

*Replies of the root.* `PendingReply` needs `TablesOK` beside it: the PREQ handler
updates the route `rt_table_find` returns, the timer's handler looks it up again with
`rt_table_get_index`, which takes the last match and not the first. Only because there
is one entry per destination do they agree (`OneEntry`). `alm_calculator` rewrites the
metric of entries of one hop only, and the PREQ handler compares PREQs with entries of
more hops only; that the two are disjoint is why the metric agrees where it is used
(`e.hcnt # 1`), and it does not agree for neighbours. The lemmas named `Pending...` show
for each kind of step that it changes a kept slot not at all or with its PREQ, or clears
it.

*Uplinks.* `UplinkChain` looks at tables only; `ChainInv` says what the frames under way
carry: a PREP in a queue or on the air was sent by a node that is the root or has
stored the route the PREP gives (`PrepRouted`). `Prep_process` stores before it forwards,
and what it stores finds a slot (`RoomForUplink`, from the counting above and
`RoomAssumption`). No step of this model removes a route, so that a chain once
there stays (`RoutedGrows`); LinkFailure has the removals.

*Ways back.* `DownlinkToNeighbor` follows from what a PREP carries: the list of its
relays and the next one form, read from the originator on, a walk over links
(`WayBack` in `SentBy`). Every relay shortens the walk by its last step, and a node the
frame was meant for is the end of it. A frame goes to `dest_mac_addr`, which the next
unicast frame changes, so that a node may take a PREP that was meant for another;
its list then does not reach that node. Without the history `astray` the property is
false, as TLC finds in the four nodes of the run; on a diamond, where each such node
happens to be a neighbour, it would pass. It speaks of the way back of one hop; of the
others, which are read behind the list, nothing is claimed but that `downlink` violates
what the comment says.

*The radio.* `RadioPending` is strengthened by `ClearSettled`: a reset that has
copied the configuration and not yet cleared the flag has the radio as it is
configured, or has been overtaken. One case per action then.

*The link's value.* `SettledExact` and `PerfectIsFull` speak of one step,
`alm_calculator`, and need to know how the ring and the clock got where they are;
`MetricInv` says it. `Ring`: a place that was filled stands for its note in `heard`
(`Note`: the place at the pointer for the oldest), so that `RingIsHeard` maps the places
that are one to the notes of a Hello, one to one, wherever the pointer is. `Aged`: the
seconds of an entry whose clock was not set are at least the notes but one, and
without a miss at most the notes; both are one more between the clock's second and the
timers' half, and while the check is due (`Behind`). The calculation runs
when they agree. So with more than `N` notes the entry is `N` seconds old and all places
count, and an entry heard in every period has a note for each second it is
divided by (`AllHeard`). That no value is above the full one is part of the types: the
places counted are never more than the seconds divided by.

*The order of the timers.* `ListOK` is the type and the order of `TQ` and `expTQ`: each
used timer in one of them, once; sorted by the time left; nobody over its interval.
`Without` keeps the positions of those that stay (`Nth` of a set of indices, whose
lemmas use that a set of natural numbers has a first), `Place` puts a timer behind those
that are not later, `Moved` cuts where the expired end, and a second takes the same
from all. `OnTime` adds that while the loop has nothing left to expire the head is
not due, and the head is the least.

*Quiet after the end.* `Hello_end` stops the four timers, but the menu may restart the
phase between the test of `timer_cnt` and the end, or before. `EndInv` says which calls
each thread may still have to make (`LoopShape`, `Booting`, `MenuRests`), that a handler
which counts is never both under way and due (`DueOnce`), and `Budget`: while the menu
is about to send the first Hello of a restarted phase, the count and the handlers
that can still run before time passes are at most three together. So that Hello does not
find the limit reached and end the configuration from the menu thread. This needs
a limit of at least four Hellos (`CountAssumption`; the code has 136 times 100).

*Replies.* `ReplyHasTimer` needs only the type of the flags `used` beside it: the
lemmas say what each list function does to that flag, `OtherCall` that only its
own handler takes a slot out of the loop's next call, and `KeepsReplies` what a
step that takes no slot has to preserve. `SlotAssumption` keeps the slots' names
apart from the other timers and calls.

*Handlers.* `NullOnlyAtStart` is strengthened by `StartInv`: the two timers that are armed
from outside (by a message and by a command) have their handler, or the call that sets
it still waits in the first round of the Hello_Rann thread. The other timers are
armed by their own starts, which set the handler first.

*The root's row.* `ChangeEmpties` needs that a root's row shows the root's channel
unless `taken` or `foreign` says otherwise, which is `RootRow`. The handlers call the
table's functions up to eight times in a row, so the lemmas are about the functions:
`Follows(u, t)` says that table `u` came from `t` without giving a row to the root or
another channel to the root's row, and each function's result follows its argument.

*The NMS table is a map.* `ImplementsTopology` and `PathsOnMap` rest on one invariant.
`TableInv` has each row at the home of its device (row 0 may be the root's), one row
per device and the others blank, and no path over the root. `Grown(u, t, links)` says
that `u` came from `t` by noting `links`: while the root has a row exactly these links
are new; once it was overwritten, the other devices have lost none, and no path came on
display. A note grows the table by one link (`NoteGrows`), and growth adds up
(`GrownFrom`), over the up to seven notes of a frame. A deletion takes a device out
only of a list that holds it once (`WithoutSpec`), so `OnceEach` is in the invariant as
long as `taken` is false: a row put over the root's own keeps the root's list, with its
first place overwritten, and may then show a neighbour twice. For the paths, the replies
that wait are in the invariant too (`RepliesOK`): one that is fresh leads over links
on the map, because `Preq_process` notes them when it keeps the reply, and every event
that removes a link from the map makes the replies over it stale.

*The repair.* `ChainAfterRepair` speaks of a quiet mesh only; `IInv` says what holds on
the way there. `Chained`: where a live node leads a live source's route over a
live node, that one has an uplink for the source, or is silent, or a PERR of its
own is under way that will make the first delete its entry (`Coming`, `Kills`).
`Noticed`: a node whose next hop is dead counts its Hellos, so that the scan will
find it, or is `unheard`. Both need what a PERR says to be true (`PerrsNameTheDead`,
`OldIsDead`), and they need `Back`: the next hop's entry names the node as the one
before it. A node deletes by the next hop, the source and the predecessor of an
entry, and of these three, for a live source and a live node behind it, only the
next hop can be the dead node's; then the entry is one of those for which the code
builds a PERR, or the node is silent. For the set-up, `Keyed` and `Fresh`
say that a PREQ is sent only by a source of which no node has a route, and that a
free slot remains (`RoomForUplink`, by counting as for `TableFits`), so that every node
of the path stores its entry or none would. One lemma per action, `Deletion` and
`FramesMove` for what the scan and the PERR have in common.
Working on the proof showed that an earlier wording was false beyond the kite. It had a
node silent only after a PERR that names the dead node alone; in a mesh of six the
same happens with a PERR that also names a neighbour over which the node has no
uplink. And with a second death the count of Hello frames may be lost, as in `two_deaths`.

*The log.* `SizeInv` counts the calls that have not yet stored a size with the size in
the buffer, and with every size a thread holds: their sum is at most the calls
since the last undisturbed emptying. `SentInv` says that the
buffer has nothing in common with a frame a thread has sent, unless the thread is
between `Send` and `ClearBuffer`, and that no record in either is newer than the last
call; a record that is copied is newer than all of them. `OrderInv` follows one
call through its accesses: the frames sent, and the records the size counts, with one
more while it is not counted yet, are consecutive and end with the last call.

*The feed.* `InLoop` ties the loop variable and the client to the feed's next step.
`Turned` adds that a connection on which a send would raise SIGPIPE was ended in
order, or had a log sent into it, or is one the feed has left.

*Route types.* `TypeCorrect` of RouteDiscovery needs `RoomAssumption` nowhere;
it follows from what the lookups return (`FindSpec` and its companions), since
a slot that was found holds an entry and NULL is never used as an index, but
for the root, whose NULL in `PrepAtRoot` is the crash the model keeps.

Assumptions are the named ASSUMEs of the modules; TLC evaluates them in runs.
`ThreadAssumption` only keeps the names of handlers and timers apart.

Only model-checked: all liveness (fairness and ENABLED are out of the prover's
reach), which includes `Drains`, `DeadHopForgotten`, `ShownFades` and what RannControl,
ConfigTimers and NmsFeed say must happen. Every invariant and every action property of a
run that does not rest on fairness is proved.

## 5. What the models leave out

* Four places of `aodv.c` (lines 1113, 1301, 1594, 2352) hold stray text that
  does not compile; the models read the functions without it.
* Time, but in ConfigTimers and LinkMetric. A timeout may expire at any moment after it
  was armed; a Hello is "recent" or "old"; the announcement interval is any time. A
  frame is handled by all its receivers before the next one is sent (`air = {}`):
  propagation is microseconds, the transmit timer 50 ms.
* Widths. Orders and sequence numbers do not wrap within the bounds of a run;
  the 8-bit `seqno` of a PREP holds every value of the runs.
* RouteDiscovery does not model a handler step by step: an address is written when its
  frame is queued; `Prep_send` and
  `Preq_process`, which use `tmp_preq` in two threads, are one action each. A node
  other than the root does not restart there; a node that restarts is one that
  has lost every frame so far.
* LinkFailure loses no PERR (with losses no repair is possible at all, the code
  has no second message) and stops after the repair: nobody asks for a new route.
* TxPath: the copy of the six bytes of `dest_mac_addr` is one step; an address torn by
  a copy in another thread is nobody's.
* RannControl: the menus that write the same globals are left out, as is the parsing of the
  TCP commands. The 8-bit `rann_id` is drawn anew or repeated; its values are not.
* NmsTable: `metric`, `data_rate` and `alm_next_hop` of a row, which no function of
  the table reads but for one comparison that also empties it. At a node other
  than the root PERR_UNI is forwarded, see LinkFailure.
* NmsLog: bytes. Records have one size; the relay of other nodes' logs keeps no
  state. `p_nms_log_str` points to a local of `main`, which does not return.
* NmsFeed: a send that blocks because the client does not read, and the second
  half of a row that is changed while it is copied.
* LinkMetric: one entry; no value of one entry depends on another's.
* ConfigTimers: a call on the timer list is one step. The list has no lock, so
  two calls at once could break its links; that is listed as a hazard. The
  update cycle is 1, and `perr_rann_timer`, which nothing starts, is left out.
* Printing, logging, the WSM encapsulation, sockets and the vendor libraries.

## 6. Not modelled, and what is left

* *Data path and Netlink, tools, kernel module example*: test traffic and wrappers
  of single library calls; no state outlives a call.
* *The other menus*: 6 prints; 2 and 5 write `rann_order` and `root_addr` by hand; 9, 10
  and 11 give command 0 at the root itself, which RannControl has from the NMS
  client; 13 to 15 send test frames; 19 reboots.
* *Option parsing and the sequence of `main`*: plain input handling, and globals that
  are set once before the threads run.
* *LinkFailure with losses and with rediscovery*: a node that misses a PERR keeps a
  route into the void and asks for no other, so that no property of the repair
  survives; the time of an updated entry (aodv.c:2916) belongs there.
* *The links of the timer list* under two threads (aodv.c:141-191): any two calls at
  once can break them, and nothing can be said of what follows.
* *Start-up before the route table exists* (wsm-mesh.c:149).

A theorem that would be next: that the timer list's calls, taken an access at a time,
do what ConfigTimers takes them to do as long as no two overlap.
