------------------------------ MODULE Channel ------------------------------
(***************************************************************************)
(* embassy_sync::channel::Channel, the bounded FIFO between two tasks, as   *)
(* the firmware uses it.  A channel is a sequence; its capacity is the      *)
(* const-generic argument of the static that declares it.  The library is   *)
(* not under src/: these operators state what its callers rely on.          *)
(*                                                                          *)
(* receive().await has no operator: it is the guard q # <<>>, the value     *)
(* Head(q) and the update q' = Tail(q) of the action that resumes.          *)
(***************************************************************************)
EXTENDS Naturals, Sequences

\* try_send would return Err.
IsFull(q, capacity) == Len(q) >= capacity

\* try_send: the message is refused, and the queue unchanged, when it is full.
TrySend(q, capacity, m) == IF IsFull(q, capacity) THEN q ELSE Append(q, m)

\* try_receive, its value ignored: the OLDEST message goes, if there is one.
TryReceive(q) == IF q = <<>> THEN q ELSE Tail(q)
=============================================================================
