-------------------------------- MODULE NmsFeed -------------------------------
(* The root's connection to the NMS client: NMS_TCP_send_func, a thread that   *)
(* sends the rows of the NMS table in a cycle for ever, and NMS_log_send_nms,  *)
(* by which the threads that log send on the same connection.  The handlers    *)
(* change the table meanwhile, the client goes and another comes.              *)
(*                                                                             *)
(* The socket is external: send on a connection that the client has reset is   *)
(* -1 the first time; any later send, and any after an orderly end, raises     *)
(* SIGPIPE, which this program neither handles nor ignores.                    *)
EXTENDS Integers

CONSTANTS Rows,        \* rows the feed sends, NMS_TCP_send_func's 8
          Thread,      \* the threads that log
          MaxClient,   \* bound: clients that ever connect
          MaxVersion   \* bound: versions of a row

ASSUME FeedAssumption == Rows \in Nat \ {0} /\ MaxClient \in Nat \ {0} /\ MaxVersion \in Nat \ {0}

Client == 1 .. MaxClient
Row == 1 .. Rows
None == 0              \* no client, and no row received

VARIABLES
    row,               \* the NMS table: the version of each row
    client,            \* nms_tcp_send_client
    ext,               \* nms_tcp_send_client_ext, the copy the loggers use
    NMS_Connection,
    fpc, cursor, buff, \* the feed: its next step, loop variable i, nms_send_buff
    lpc,               \* per logger: its next step
    sock,              \* per client: the state of the connection
    alive,             \* the program runs
    got,               \* per client: the rows it has
    orderly,           \* history: a client has ended its connection
    touched            \* history: a log was sent into a connection that was reset

feedVars == <<row, client, ext, NMS_Connection, fpc, cursor, buff, lpc, sock, alive, got,
          orderly, touched>>
feed == <<client, ext, NMS_Connection, fpc, cursor, buff>>

\* A client is "away", "waiting" in the backlog, "open", "ended" or "reset" by
\* itself, and "failed" when the next send raises SIGPIPE.
FeedInit ==
    /\ row = [r \in Row |-> 1]
    /\ client = None /\ ext = None /\ NMS_Connection = 0
    /\ fpc = "accept" /\ cursor = 0 /\ buff = 0
    /\ lpc = [t \in Thread |-> "idle"]
    /\ sock = [c \in Client |-> "away"]
    /\ alive = TRUE
    /\ got = [c \in Client |-> [r \in Row |-> None]]
    /\ orderly = FALSE /\ touched = FALSE
-----------------------------------------------------------------------------
\* What send does to connection c, and whether it returns -1; 0 is no socket.  A
\* row or a log sent after an orderly end is taken, and answered by a reset in
\* its own time.
SocketSend(c, fails) ==
    /\ fails = (c = None \/ sock[c] = "reset")
    /\ alive' = (c = None \/ sock[c] # "failed")
    /\ \/ (c # None => sock[c] # "reset") /\ UNCHANGED sock
       \/ c # None /\ sock[c] \in {"ended", "reset"} /\ sock' = [sock EXCEPT ![c] = "failed"]

\* Mutant: the new client is not taken over.
AcceptForgotten ==
    \E c \in Client :
        /\ alive /\ fpc = "accept"
        /\ sock[c] = "waiting" /\ \A b \in Client : sock[b] = "waiting" => c <= b
        /\ sock' = [sock EXCEPT ![c] = "open"]
        /\ client' = IF client = None THEN c ELSE client
        /\ IF client = None THEN fpc' = "cycle" /\ UNCHANGED NMS_Connection
           ELSE NMS_Connection' = 1 /\ fpc' = "next"
        /\ UNCHANGED <<row, ext, cursor, buff, lpc, alive, got, orderly, touched>>

\* accept: before the loop, or after a failed row, which is not sent again.
Accept ==
    \E c \in Client :
        /\ alive /\ fpc = "accept"
        /\ sock[c] = "waiting" /\ \A b \in Client : sock[b] = "waiting" => c <= b
        /\ sock' = [sock EXCEPT ![c] = "open"]
        /\ client' = c
        /\ IF client = None THEN fpc' = "cycle" /\ UNCHANGED NMS_Connection
           ELSE NMS_Connection' = 1 /\ fpc' = "next"
        /\ UNCHANGED <<row, ext, cursor, buff, lpc, alive, got, orderly, touched>>

\* The head of the loop: first the flag, then the descriptor.
Cycle ==
    /\ alive /\ fpc = "cycle"
    /\ NMS_Connection' = 1 /\ fpc' = "ext"
    /\ UNCHANGED <<row, client, ext, cursor, buff, lpc, sock, alive, got, orderly, touched>>

\* Mutant: the copy of the descriptor is made once.
CopyClientOnce ==
    /\ alive /\ fpc = "ext"
    /\ ext' = (IF ext = None THEN client ELSE ext) /\ cursor' = 1 /\ fpc' = "copy"
    /\ UNCHANGED <<row, client, NMS_Connection, buff, lpc, sock, alive, got, orderly,
                   touched>>

CopyClient ==
    /\ alive /\ fpc = "ext"
    /\ ext' = client /\ cursor' = 1 /\ fpc' = "copy"
    /\ UNCHANGED <<row, client, NMS_Connection, buff, lpc, sock, alive, got, orderly,
                   touched>>

CopyRow ==
    /\ alive /\ fpc = "copy"
    /\ buff' = row[cursor] /\ fpc' = "send"
    /\ UNCHANGED <<row, client, ext, NMS_Connection, cursor, lpc, sock, alive, got,
                   orderly, touched>>

SendRow ==
    /\ alive /\ fpc = "send"
    /\ \E fails \in BOOLEAN :
          /\ SocketSend(client, fails)
          /\ fpc' = IF fails THEN "accept" ELSE "next"
          /\ NMS_Connection' = IF fails THEN 0 ELSE NMS_Connection
    /\ got' = IF sock[client] = "open" THEN [got EXCEPT ![client][cursor] = buff] ELSE got
    /\ UNCHANGED <<row, client, ext, cursor, buff, lpc, orderly, touched>>

\* Mutant: the last row is left out.
NextRowShort ==
    /\ alive /\ fpc = "next"
    /\ IF cursor + 1 < Rows THEN cursor' = cursor + 1 /\ fpc' = "copy"
       ELSE fpc' = "cycle" /\ UNCHANGED cursor
    /\ UNCHANGED <<row, client, ext, NMS_Connection, buff, lpc, sock, alive, got, orderly,
                   touched>>

\* usleep, then the next row or the next cycle.
NextRow ==
    /\ alive /\ fpc = "next"
    /\ IF cursor < Rows THEN cursor' = cursor + 1 /\ fpc' = "copy"
       ELSE fpc' = "cycle" /\ UNCHANGED cursor
    /\ UNCHANGED <<row, client, ext, NMS_Connection, buff, lpc, sock, alive, got, orderly,
                   touched>>

FeedStep == Accept \/ Cycle \/ CopyClient \/ CopyRow \/ SendRow \/ NextRow
-----------------------------------------------------------------------------
\* NMS_log_send_nms, for a log of the root's own or one that another node has
\* sent (NMS_log_process): without a connection it is dropped.
LogTest(t) ==
    /\ alive /\ lpc[t] = "idle" /\ NMS_Connection = 1
    /\ lpc' = [lpc EXCEPT ![t] = "send"]
    /\ UNCHANGED <<row, feed, sock, alive, got, orderly, touched>>

LogSend(t) ==
    /\ alive /\ lpc[t] = "send"
    /\ \E fails \in BOOLEAN : SocketSend(ext, fails)
    /\ lpc' = [lpc EXCEPT ![t] = "idle"]
    /\ touched' = (touched \/ (ext # None /\ sock[ext] \in {"reset", "failed"}))
    /\ UNCHANGED <<row, feed, got, orderly>>

\* A handler changes a row.
TableChange(r) ==
    /\ alive /\ row[r] < MaxVersion
    /\ row' = [row EXCEPT ![r] = @ + 1]
    /\ UNCHANGED <<feed, lpc, sock, alive, got, orderly, touched>>

\* Clients come in the order of their numbers.
Connect(c) ==
    /\ alive /\ sock[c] = "away" /\ \A b \in Client : b < c => sock[b] # "away"
    /\ sock' = [sock EXCEPT ![c] = "waiting"]
    /\ UNCHANGED <<row, feed, lpc, alive, got, orderly, touched>>

\* The client closes its socket, or it is lost with unread data or to a crash.
Leave(c) ==
    /\ alive /\ sock[c] = "open"
    /\ \/ sock' = [sock EXCEPT ![c] = "ended"] /\ orderly' = TRUE
       \/ sock' = [sock EXCEPT ![c] = "reset"] /\ UNCHANGED orderly
    /\ UNCHANGED <<row, feed, lpc, alive, got, touched>>

\* The end of what is modelled: SIGPIPE, or no client is left to wait for.
FeedEnded ==
    /\ alive => fpc = "accept" /\ \A c \in Client : sock[c] \notin {"away", "waiting"}
    /\ UNCHANGED feedVars

FeedNext ==
    \/ FeedStep
    \/ \E t \in Thread : LogTest(t) \/ LogSend(t)
    \/ \E r \in Row : TableChange(r)
    \/ \E c \in Client : Connect(c) \/ Leave(c)
    \/ FeedEnded

\* The feed is a thread of its own; a send returns unless the client stops reading.
FeedSpec == FeedInit /\ [][FeedNext]_feedVars /\ WF_feedVars(FeedStep)
-----------------------------------------------------------------------------
\* Rows, descriptors, connections and the steps of the threads are what they can be.
FeedTypeOK ==
    /\ row \in [Row -> 1 .. MaxVersion] /\ buff \in 0 .. MaxVersion
    /\ client \in Client \cup {None} /\ ext \in Client \cup {None} /\ NMS_Connection \in {0, 1}
    /\ fpc \in {"accept", "cycle", "ext", "copy", "send", "next"} /\ cursor \in 0 .. Rows
    /\ lpc \in [Thread -> {"idle", "send"}]
    /\ sock \in [Client -> {"away", "waiting", "open", "ended", "reset", "failed"}]
    /\ got \in [Client -> [Row -> 0 .. MaxVersion]]
    /\ alive \in BOOLEAN /\ orderly \in BOOLEAN /\ touched \in BOOLEAN

\* "send error! Try to connect again": the loss of a client ends the program only
\* when the client has closed the connection in order, or when a log was sent into
\* the reset connection, before the feed met the error or in the rest of the cycle
\* in which it did.
SurvivesReset == ~alive => orderly \/ touched

\* Logs go to the client the rows go to, but for the rest of the cycle in which
\* the feed has changed clients.
LogsFollowFeed ==
    \A c \in Client :
        client = c ~> ext = c \/ client # c \/ NMS_Connection = 0 \/ ~alive

\* A client that stays gets every row, and once the table has come to rest it
\* has the table as it is.
FeedCatchesUp ==
    \A c \in Client :
        <>[](client = c /\ sock[c] = "open" /\ alive) => <>[](got[c] = row)
===============================================================================
