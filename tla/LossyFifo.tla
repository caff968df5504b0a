----------------------------- MODULE LossyFifo -----------------------------
(***************************************************************************)
(* What a CAN adapter promises its host about reception: a bounded FIFO     *)
(* between the bus and the host that may lose frames but never reorders,    *)
(* duplicates, alters or invents one.  The device reads one frame at a time *)
(* and the host takes one frame at a time.                                  *)
(***************************************************************************)
EXTENDS Naturals, Sequences, SequencesExt

CONSTANTS Frames, Capacity

VARIABLES
    queue,   \* read from the bus and not yet with the host, oldest first
    last     \* <<f>>, f the last frame the host got, or <<>>

fifoVars == <<queue, last>>

Init == queue = <<>> /\ last = <<>>

Put(f) ==
    /\ Len(queue) < Capacity
    /\ queue' = Append(queue, f)
    /\ last' = last

Get ==
    /\ queue # <<>>
    /\ last' = <<Head(queue)>>
    /\ queue' = Tail(queue)

Lose(i) ==
    /\ queue' = RemoveAt(queue, i)
    /\ last' = last

Next == (\E f \in Frames : Put(f)) \/ Get \/ (\E i \in DOMAIN queue : Lose(i))

Spec == Init /\ [][Next]_fifoVars
=============================================================================
