----------------------------- MODULE EchoSlots -----------------------------
(***************************************************************************)
(* What a CAN adapter promises its host about requests: each one is         *)
(* answered by one echo at most, the echoes come in the order of the        *)
(* requests, and only an echo gives its slot back.  A request that is lost  *)
(* on the way stays lost.                                                   *)
(***************************************************************************)
CONSTANT Ids   \* the echo_ids of the host, one for each of its slots

VARIABLES
    free,      \* echo_ids the host may use
    pending,   \* echo_ids on their way through the adapter
    ahead      \* <<i, j>>, i and j pending and i sent before j

slotVars == <<free, pending, ahead>>

Init == free = Ids /\ pending = {} /\ ahead = {}

Send(i) ==
    /\ free' = free \ {i}
    /\ pending' = pending \cup {i}
    /\ ahead' = ahead \cup {<<j, i>> : j \in pending}

Refuse(i) ==
    /\ free' = free \ {i}
    /\ UNCHANGED <<pending, ahead>>

Leave(i) ==
    /\ pending' = pending \ {i}
    /\ ahead' = {p \in ahead : i # p[1] /\ i # p[2]}

Lose(i) ==
    /\ UNCHANGED free
    /\ Leave(i)

Answer(i) ==
    /\ free' = free \cup {i}
    /\ \A j \in pending : <<j, i>> \notin ahead
    /\ Leave(i)

Next ==
    \/ \E i \in free : Send(i) \/ Refuse(i)
    \/ \E i \in pending : Lose(i) \/ Answer(i)

Spec == Init /\ [][Next]_slotVars
=============================================================================
