------------------------------ MODULE FrameFifo ------------------------------
(* What the transmit queue of a mesh node promises to the threads around it: *)
(* frames leave in the order they were accepted.  Once a first frame has     *)
(* left ("primed") at most Capacity - 1 frames wait and a newer one is       *)
(* refused; before that Capacity frames fit, and one more makes the queue    *)
(* forget all of them and keep only the newest.                              *)
EXTENDS Integers, Sequences

CONSTANTS Frame,      \* the frames the handlers build
          NoFrame,    \* nothing has been handed to the radio yet
          Capacity    \* slots of the ring that implements the queue

VARIABLES pending,    \* the frames waiting, oldest first
          primed,     \* a frame has left since the queue was last cleared
          out         \* the frame last handed to the radio

fifoVars == <<pending, primed, out>>

FifoInit ==
    /\ pending = << >>
    /\ primed \in BOOLEAN
    /\ out = NoFrame

Put(f) ==
    /\ \/ Len(pending) < Capacity - 1
       \/ ~primed /\ Len(pending) < Capacity
    /\ pending' = Append(pending, f)
    /\ UNCHANGED <<primed, out>>

Wrap(f) ==
    /\ ~primed
    /\ Len(pending) = Capacity
    /\ pending' = <<f>>
    /\ UNCHANGED <<primed, out>>

Take ==
    /\ pending # << >>
    /\ out' = Head(pending)
    /\ pending' = Tail(pending)
    /\ primed' = TRUE

Clear ==
    /\ pending' = << >>
    /\ primed' = FALSE
    /\ UNCHANGED out

FifoNext ==
    \/ \E f \in Frame : Put(f) \/ Wrap(f)
    \/ Take
    \/ Clear

FifoSpec == FifoInit /\ [][FifoNext]_fifoVars
=============================================================================
