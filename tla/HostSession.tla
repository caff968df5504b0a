---------------------------- MODULE HostSession ----------------------------
(***************************************************************************)
(* The adapter (NginLink) as its host sees it: the host asks for BT_CONST,  *)
(* computes a bit timing from the answer and picks modes among the features *)
(* it names.  This module remembers what the host was told and what it      *)
(* asked for, word for word, and compares it with the registers.            *)
(***************************************************************************)
EXTENDS NginLink, Board

VARIABLES
    told,          \* <<b>>, b the answer to BT_CONST, or <<>>
    timing_asked,  \* <<t>>, t the last bit timing that found room in the queue, or <<>>
    flags_asked    \* the flags of the last MODE request that found room

askedVars   == <<told, timing_asked, flags_asked>>
sessionVars == <<linkVars, askedVars>>

SessionInit ==
    /\ LinkInit
    /\ told = <<>>
    /\ timing_asked = <<>>
    /\ flags_asked = {}

-----------------------------------------------------------------------------

\* An answer that was cut is of no use to the host, and it asks again.
Probe(length) ==
    /\ told = <<>>
    /\ told' = IF WholeAnswer(Answer.BT_CONST, length) THEN <<Answer.BT_CONST.value>> ELSE <<>>
    /\ UNCHANGED <<linkVars, timing_asked, flags_asked>>

Mode(req) ==
    /\ told # <<>>
    /\ OnMode(req)
    /\ flags_asked' = IF Meant(req) /\ ~IsFull(can_cmd, CmdCap)
                        THEN req.payload.flags ELSE flags_asked
    /\ UNCHANGED <<told, timing_asked>>

BitTiming(req) ==
    /\ told # <<>>
    /\ OnBitTiming(req)
    /\ timing_asked' = IF Meant(req) /\ ~IsFull(can_cmd, CmdCap)
                         THEN <<req.payload>> ELSE timing_asked
    /\ UNCHANGED <<told, flags_asked>>

Elsewhere ==
    /\ Driver \/ Bus \/ UsbTxStep \/ \E m \in TxMsgs : UsbRx(m)
    /\ UNCHANGED askedVars

SessionNext ==
    \/ \E length \in {4, 40} : Probe(length)
    \/ \E req \in ControlRequests : Mode(req) \/ BitTiming(req)
    \/ Elsewhere

SessionSpec == SessionInit /\ [][SessionNext]_sessionVars

-----------------------------------------------------------------------------
(* Properties.                                                              *)

\* A bit as the peripheral times it: the registers hold 4, 3, 2 and 10 bits of the
\* values less one.
Held(n, size) == ((n - 1) % size) + 1

BusBit(timing) ==
    [clock |-> CanClock, prescaler |-> Held(timing.prescaler, 1024),
     tseg1 |-> Held(timing.seg1, 16), tseg2 |-> Held(timing.seg2, 8),
     sjw |-> Held(timing.sync_jump_width, 4)]

\* A bit as the host computes it from what it was told.
HostBit(t) ==
    [clock |-> told[1].fclk_can, prescaler |-> t.brp, tseg1 |-> t.prop_seg + t.phase_seg1,
     tseg2 |-> t.phase_seg2, sjw |-> t.sjw]

\* The host keeps to the limits it was told.
Advertised(t) ==
    LET b == told[1] IN
    /\ t.prop_seg + t.phase_seg1 \in b.tseg1_min..b.tseg1_max
    /\ t.phase_seg2 \in b.tseg2_min..b.tseg2_max
    /\ t.sjw \in 1..b.sjw_max
    /\ t.brp \in b.brp_min..b.brp_max

TimingQueued == \E i \in DOMAIN can_cmd : can_cmd[i].op = "SetBitTiming"
ModeQueued   == \E i \in DOMAIN can_cmd : can_cmd[i].op \in {"Start", "Stop"}

\* Once the queue holds no bit timing, the bus runs exactly at the rate, sample point
\* and jump width the host computed for its last accepted request, across starts,
\* stops, recoveries and timings out of range in between.
BusRunsAtHostRate ==
    \A t \in Timings :
        timing_asked = <<t>> /\ Advertised(t) /\ ~TimingQueued => BusBit(can.timing) = HostBit(t)

AppliedFlags ==
    (IF can.silent THEN {GS_CAN_FLAG_LISTEN_ONLY} ELSE {})
      \cup (IF can.loopback THEN {GS_CAN_FLAG_LOOP_BACK} ELSE {})
      \cup (IF can.one_shot THEN {GS_CAN_FLAG_ONE_SHOT} ELSE {})

\* The first four features are modes.
AdvertisedModes ==
    told[1].feature \cap (GS_CAN_FEATURE_LISTEN_ONLY..GS_CAN_FEATURE_ONE_SHOT)

\* A host that asks only for modes it was told of gets exactly those, bit for bit.
AdvertisedModesApply ==
    is_started /\ ~ModeQueued /\ flags_asked \subseteq AdvertisedModes => AppliedFlags = flags_asked
=============================================================================
