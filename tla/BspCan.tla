------------------------------ MODULE BspCan ------------------------------
(***************************************************************************)
(* The bxCAN peripheral and the board-support layer over it                 *)
(* (crates/bsp-f446/src/can.rs).  The peripheral is a record:               *)
(*   power     "sleep"   after modify_config(), whose drop leaves init mode *)
(*                       into sleep mode, and before the first enable();    *)
(*             "awake"   synchronised with the bus;                         *)
(*             "bus_off" stopped by the fault confinement, which the driver *)
(*                       recognises, like "sleep", by is_sleeping().        *)
(*   filter    the accept-all bank of FIFO 0 is configured                  *)
(*   silent, loopback, one_shot, timing   the mode and bit-timing registers *)
(* enable().await suspends its caller until the bus is idle, so start and   *)
(* stop are split there: what they do before, and Enabled.                  *)
(***************************************************************************)
EXTENDS GsUsbTypes

CanPower == {"sleep", "awake", "bus_off"}

\* The timing registers before the first SetBitTiming; no request gives this value.
NoTiming == [sync_jump_width |-> 0, seg1 |-> 0, seg2 |-> 0, prescaler |-> 0]

\* bsp lib.rs creates the peripheral; nothing is configured yet.
CanReset == [power |-> "sleep", filter |-> FALSE, silent |-> FALSE,
             loopback |-> FALSE, one_shot |-> FALSE, timing |-> NoTiming]

\* Mutant: the restart keeps the silence of stop().
BeginStartStillSilent(can, mode) ==
    [can EXCEPT !.power = "sleep", !.filter = TRUE, !.silent = @ \/ mode.listen_only,
                !.loopback = mode.loopback, !.one_shot = mode.one_shot]

\* start(), up to enable().await
BeginStart(can, mode) ==
    [can EXCEPT !.power = "sleep", !.filter = TRUE, !.silent = mode.listen_only,
                !.loopback = mode.loopback, !.one_shot = mode.one_shot]

\* Mutant: the peripheral goes on acknowledging.
BeginStopAudible(can) == [can EXCEPT !.power = "sleep"]

\* stop(), up to enable().await
BeginStop(can) == [can EXCEPT !.power = "sleep", !.silent = TRUE]

NonZero(n) == IF n = 0 THEN 1 ELSE n

\* Mutant: bxCAN has no propagation segment, so it is left out.
NominalBitTimingNoPropSeg(t) ==
    [sync_jump_width |-> NonZero(t.sjw % 256),
     seg1            |-> NonZero(t.phase_seg1 % 256),
     seg2            |-> NonZero(t.phase_seg2 % 256),
     prescaler       |-> NonZero(t.brp % 65536)]

\* The u32 fields of the request are narrowed before they are forced above 0.
NominalBitTiming(t) ==
    [sync_jump_width |-> NonZero(t.sjw % 256),
     seg1            |-> NonZero((t.prop_seg + t.phase_seg1) % 256),
     seg2            |-> NonZero(t.phase_seg2 % 256),
     prescaler       |-> NonZero(t.brp % 65536)]

SetBitTiming(can, t) == [can EXCEPT !.power = "sleep", !.timing = NominalBitTiming(t)]

\* Mutant: modify_config() is not followed by enable().
NotEnabled(can) == can

\* enable() has seen the bus idle.
Enabled(can) == [can EXCEPT !.power = "awake"]

IsSleeping(can) == can.power # "awake"

\* The peripheral drives the bus: it acknowledges, signals errors and transmits.
Drives(can) == can.power = "awake" /\ ~can.silent

\* transmit() builds a frame: the id must fit its format (a standard id is first
\* narrowed to u16) and the payload must fit a frame.
FrameError(req) ==
    \/ req.is_extended /\ ~(req.id \subseteq 0..28)
    \/ ~req.is_extended /\ ~((req.id \cap 0..15) \subseteq 0..10)
    \/ req.dlc > 8
=============================================================================
