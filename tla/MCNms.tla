--------------------------------- MODULE MCNms --------------------------------
(* NmsLog and NmsFeed with the two threads that log, the receive callback and *)
(* Hello_Rann.  The modules share no variable, so that nothing is lost if a   *)
(* behaviour is of one of them and the other stays as it starts.              *)
EXTENDS NmsLog, NmsFeed

CONSTANTS rx, hr

VARIABLE part

nmsVars == <<vars, feedVars, part>>

NmsInit == Init /\ FeedInit /\ part \in {"log", "feed"}

LogPart == part = "log" /\ Next /\ UNCHANGED <<feedVars, part>>
FeedPart(step) == part = "feed" /\ step /\ UNCHANGED <<vars, part>>

NmsSpec ==
    /\ NmsInit /\ [][LogPart \/ FeedPart(FeedNext)]_nmsVars
    /\ WF_nmsVars(FeedPart(FeedStep))
===============================================================================
