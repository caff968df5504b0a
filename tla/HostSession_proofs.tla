------------------------ MODULE HostSession_proofs ------------------------
(***************************************************************************)
(* What a host that keeps to what it was told gets: the modes and the bus   *)
(* rate it asked for, for every capacity of the command queue and every set *)
(* of messages, modes and timings.                                          *)
(***************************************************************************)
EXTENDS HostSession, NginLink_proofs

TimingKinds == {"SetBitTiming"}

\* The registers hold the timing the host asked for last.
TimingApplied == can.timing = NominalBitTiming(timing_asked[1])

SessionInv ==
    /\ told \in {<<>>, <<BtConst>>}
    /\ timing_asked \in {<<>>} \cup {<<t>> : t \in Timings}
    /\ asked = StopCmd \/ asked = StartCmd(flags_asked)
    /\ told = <<>> => asked = StopCmd /\ timing_asked = <<>>

\* The last accepted bit timing decides the rate.
TimingInv ==
    timing_asked # <<>> =>
        Follows(can_cmd, TimingKinds, SetBitTimingCmd(timing_asked[1]), TimingApplied)

-----------------------------------------------------------------------------
(* The session is one of the adapter's behaviours.                          *)

\* Every step of a session is a step of the adapter.
LEMMA SessionStep == ASSUME [SessionNext]_sessionVars PROVE [LinkNext]_linkVars
<1>1. CASE \E length \in {4, 40} : Probe(length)
  BY <1>1 DEF Probe
<1>2. CASE \E req \in ControlRequests : Mode(req) \/ BitTiming(req)
  BY <1>2 DEF Mode, BitTiming, LinkNext, Host
<1>3. CASE Elsewhere
  BY <1>3 DEF Elsewhere, LinkNext, Host
<1>4. CASE UNCHANGED sessionVars
  BY <1>4 DEF sessionVars
<1> QED
  BY <1>1, <1>2, <1>3, <1>4 DEF SessionNext

\* A host that asks before it sets is one of the hosts the adapter was proved for.
THEOREM SessionImplementsLink == SessionSpec => LinkSpec
<1>1. SessionInit => LinkInit
  BY DEF SessionInit
<1>2. [SessionNext]_sessionVars => [LinkNext]_linkVars
  BY SessionStep
<1> QED
  BY <1>1, <1>2, PTL DEF SessionSpec, LinkSpec

-----------------------------------------------------------------------------
(* What the host was told and asked for.                                    *)

\* Every step keeps what the host was told and asked for in line with the adapter.
LEMMA SessionInductive ==
    ASSUME SessionInv, [SessionNext]_sessionVars PROVE SessionInv'
<1> USE DEF SessionInv
<1>1. ASSUME NEW length \in {4, 40}, Probe(length) PROVE SessionInv'
  <2>1. told' \in {<<>>, <<BtConst>>}
    BY <1>1 DEF Probe, Answer
  <2> QED
    BY <1>1, <2>1 DEF Probe, linkVars, hostVars
<1>2. ASSUME NEW req \in ControlRequests, Mode(req) PROVE SessionInv'
  <2>1. told # <<>> /\ told' = told /\ timing_asked' = timing_asked
    BY <1>2 DEF Mode
  <2>2. \/ asked' = asked /\ flags_asked' = flags_asked
        \/ asked' = ModeCmd(req.payload) /\ flags_asked' = req.payload.flags
    BY <1>2 DEF Mode, OnMode
  <2> QED
    BY <2>1, <2>2 DEF ModeCmd
<1>3. ASSUME NEW req \in ControlRequests, BitTiming(req) PROVE SessionInv'
  <2>1. told # <<>> /\ told' = told /\ flags_asked' = flags_asked /\ asked' = asked
    BY <1>3 DEF BitTiming, OnBitTiming, hostVars
  <2>2. req.payload \in Timings
    BY <1>3 DEF BitTiming, OnBitTiming, ControlRequests
  <2>3. timing_asked' = timing_asked \/ timing_asked' = <<req.payload>>
    BY <1>3 DEF BitTiming
  <2> QED
    BY <2>1, <2>2, <2>3
<1>4. CASE Elsewhere
  <2>1. asked' = asked
    BY <1>4 DEF Elsewhere, Driver, Bus, UsbTxStep, UsbTxTakeRx, UsbTxTakeEcho, UsbTxWritten,
                UsbTxError, UsbRx, hostVars
  <2> QED
    BY <1>4, <2>1 DEF Elsewhere, askedVars
<1>5. CASE UNCHANGED sessionVars
  BY <1>5 DEF sessionVars, askedVars, linkVars, hostVars
<1> QED
  BY <1>1, <1>2, <1>3, <1>4, <1>5 DEF SessionNext

-----------------------------------------------------------------------------
(* The bit timing follows the host.                                         *)

\* A step that leaves the host's timing alone.
LEMMA TimingDeviceStep ==
    ASSUME TypeOK, TypeOK', TimingInv, timing_asked' = timing_asked, Driver \/ Bus \/ UsbTxStep
    PROVE  TimingInv'
<1> SUFFICES ASSUME timing_asked # <<>> PROVE TimingInv'
  BY DEF TimingInv
<1> DEFINE last == SetBitTimingCmd(timing_asked[1])
<1>1. Follows(can_cmd, TimingKinds, last, TimingApplied)
  BY DEF TimingInv
<1>2. can \in Peripheral /\ can_cmd \in Seq(CanDriverCmd)
  BY DEF TypeOK
<1> SUFFICES Follows(can_cmd', TimingKinds, last, TimingApplied')
  BY DEF TimingInv
<1> HIDE DEF last
<1>3. CASE ApplyBitTiming
  <2>1. can_cmd # <<>> /\ can_cmd' = Tail(can_cmd) /\ Head(can_cmd).op \in TimingKinds
    BY <1>3 DEF ApplyBitTiming, Receives, TimingKinds
  <2>2. can'.timing = NominalBitTiming(Head(can_cmd).timing)
    BY <1>2, <1>3 DEF ApplyBitTiming, SetBitTiming, Peripheral
  <2>3. Head(can_cmd) = last => TimingApplied'
    BY <2>2 DEF TimingApplied, SetBitTimingCmd, last
  <2> QED
    BY <1>1, <1>2, <2>1, <2>3, FollowsApply
<1>4. ASSUME can_cmd # <<>>, can_cmd' = Tail(can_cmd), Head(can_cmd).op \notin TimingKinds,
             can'.timing = can.timing
      PROVE  Follows(can_cmd', TimingKinds, last, TimingApplied')
  <2>1. TimingApplied' = TimingApplied
    BY <1>4 DEF TimingApplied
  <2> QED
    BY <1>1, <1>2, <1>4, <2>1, FollowsSkip
<1>5. CASE Start \/ Stop
  <2>1. can'.timing = can.timing
    BY <1>2, <1>5 DEF Start, Stop, BeginStart, BeginStop, Peripheral
  <2> QED
    BY <1>4, <1>5, <2>1 DEF Start, Stop, Receives, TimingKinds
<1>6. CASE IgnoreWhenStopped \/ TransmitAtOnce \/ TransmitWaits
  BY <1>4, <1>6 DEF IgnoreWhenStopped, TransmitAtOnce, TransmitWaits, Receives, TimingKinds
<1>7. CASE Quiet
  <2>1. can'.timing = can.timing
    BY <1>2, <1>7 DEF Quiet, Peripheral
  <2>2. TimingApplied' = TimingApplied
    BY <2>1 DEF TimingApplied
  <2> QED
    BY <1>1, <1>7, <2>2 DEF Quiet
<1> QED
  BY <1>3, <1>5, <1>6, <1>7, DriverCommands

\* Requests of the host: a bit timing that finds room is the last, any other request
\* changes nothing.
LEMMA TimingRequested ==
    ASSUME TypeOK, TimingInv, NEW c \in CanDriverCmd, SendCmd(c),
           \/ /\ timing_asked' = timing_asked
              /\ IsFull(can_cmd, CmdCap) \/ c.op \notin TimingKinds
           \/ /\ ~IsFull(can_cmd, CmdCap)
              /\ c.op \in TimingKinds
              /\ c = SetBitTimingCmd(timing_asked'[1])
    PROVE  TimingInv'
<1>1. /\ can_cmd \in Seq(CanDriverCmd)
      /\ can_cmd' = TrySend(can_cmd, CmdCap, c)
      /\ can' = can
  BY DEF TypeOK, SendCmd
<1>2. CASE /\ timing_asked' = timing_asked
           /\ IsFull(can_cmd, CmdCap) \/ c.op \notin TimingKinds
  <2>1. TimingApplied' = TimingApplied
    BY <1>1, <1>2 DEF TimingApplied
  <2>2. ASSUME timing_asked # <<>>
        PROVE  Follows(TrySend(can_cmd, CmdCap, c), TimingKinds,
                       SetBitTimingCmd(timing_asked[1]), TimingApplied)
    BY <1>1, <1>2, <2>2, FollowsOther DEF TimingInv
  <2> QED
    BY <1>1, <1>2, <2>1, <2>2 DEF TimingInv
<1>3. CASE /\ ~IsFull(can_cmd, CmdCap)
           /\ c.op \in TimingKinds
           /\ c = SetBitTimingCmd(timing_asked'[1])
  <2>1. Follows(TrySend(can_cmd, CmdCap, c), TimingKinds, c, TimingApplied')
    BY <1>1, <1>3, FollowsSend
  <2> QED
    BY <1>1, <1>3, <2>1 DEF TimingInv
<1> QED
  BY <1>2, <1>3

\* Every step keeps the bit timing on the host's track.
LEMMA TimingInductive ==
    ASSUME TypeOK, TypeOK', TimingInv, [SessionNext]_sessionVars PROVE TimingInv'
<1>1. ASSUME UNCHANGED <<can_cmd, can, timing_asked>> PROVE TimingInv'
  BY <1>1 DEF TimingInv, TimingApplied
<1>2. ASSUME NEW length \in {4, 40}, Probe(length) PROVE TimingInv'
  BY <1>1, <1>2 DEF Probe, linkVars, vars
<1>3. ASSUME NEW req \in ControlRequests, Mode(req) PROVE TimingInv'
  <2>1. /\ ModeCmd(req.payload) \in CanDriverCmd
        /\ ModeCmd(req.payload).op \notin TimingKinds
    BY <1>3, ModeRequest DEF Mode, OnMode, ModeCmd, StartCmd, StopCmd, TimingKinds
  <2>2. SendCmd(ModeCmd(req.payload)) /\ timing_asked' = timing_asked
    BY <1>3 DEF Mode, OnMode
  <2> QED
    BY <2>1, <2>2, TimingRequested
<1>4. ASSUME NEW req \in ControlRequests, BitTiming(req) PROVE TimingInv'
  <2>1. /\ SetBitTimingCmd(req.payload) \in CanDriverCmd
        /\ SetBitTimingCmd(req.payload).op \in TimingKinds
    BY <1>4, BitTimingRequest DEF BitTiming, OnBitTiming, SetBitTimingCmd, TimingKinds
  <2>2. SendCmd(SetBitTimingCmd(req.payload))
    BY <1>4 DEF BitTiming, OnBitTiming
  <2>3. timing_asked' = IF IsFull(can_cmd, CmdCap) THEN timing_asked ELSE <<req.payload>>
    BY <1>4, EffectIsMeant DEF BitTiming, OnBitTiming
  <2>4. ~IsFull(can_cmd, CmdCap) => timing_asked'[1] = req.payload
    BY <2>3
  <2> QED
    BY <2>1, <2>2, <2>3, <2>4, TimingRequested
<1>5. ASSUME NEW m \in TxMsgs, UsbRx(m), timing_asked' = timing_asked PROVE TimingInv'
  <2>1. TransmitCmd(m) \in CanDriverCmd /\ TransmitCmd(m).op \notin TimingKinds
    BY DEF CanDriverCmd, TransmitCmd, TimingKinds
  <2>2. SendCmd(TransmitCmd(m))
    BY <1>5 DEF UsbRx
  <2> QED
    BY <1>5, <2>1, <2>2, TimingRequested
<1>6. CASE Elsewhere
  BY <1>5, <1>6, TimingDeviceStep DEF Elsewhere, askedVars
<1>7. CASE UNCHANGED sessionVars
  BY <1>1, <1>7 DEF sessionVars, askedVars, linkVars, vars
<1> QED
  BY <1>2, <1>3, <1>4, <1>6, <1>7 DEF SessionNext

\* So both always hold.
LEMMA SessionAlways == SessionSpec => [](SessionInv /\ TimingInv)
<1>1. SessionInit => SessionInv /\ TimingInv
  BY DEF SessionInit, LinkInit, SessionInv, TimingInv
<1>2. SessionInv /\ [SessionNext]_sessionVars => SessionInv'
  BY SessionInductive
<1>3. TypeOK /\ TypeOK' /\ TimingInv /\ [SessionNext]_sessionVars => TimingInv'
  BY TimingInductive
<1>4. SessionSpec => []TypeOK
  BY SessionImplementsLink, LinkImplementsDriver, TypeCorrect, PTL
<1> QED
  BY <1>1, <1>2, <1>3, <1>4, PTL DEF SessionSpec

-----------------------------------------------------------------------------
(* The registers.                                                           *)

\* The narrowing of the fields and the widths of the registers do not reach the
\* advertised limits, and the advertised clock is the peripheral's.
LEMMA AdvertisedFits ==
    ASSUME NEW t, told = <<BtConst>>, Advertised(t)
    PROVE  BusBit(NominalBitTiming(t)) = HostBit(t)
<1>1. /\ t.prop_seg + t.phase_seg1 \in 1..16
      /\ t.phase_seg2 \in 1..8
      /\ t.sjw \in 1..4
      /\ t.brp \in 1..1024
  BY DEF Advertised, BtConst
<1>2. told[1].fclk_can = 42000000
  BY DEF BtConst
<1>3. CanClock = 42000000
  BY DEF CanClock, SysClock, PllOut, HSE
<1>4. ASSUME NEW n \in 1..16 PROVE NonZero(n % 256) = n /\ Held(n, 16) = n
  BY DEF NonZero, Held
<1>5. ASSUME NEW n \in 1..8 PROVE NonZero(n % 256) = n /\ Held(n, 8) = n
  BY DEF NonZero, Held
<1>6. ASSUME NEW n \in 1..4 PROVE NonZero(n % 256) = n /\ Held(n, 4) = n
  BY DEF NonZero, Held
<1>7. ASSUME NEW n \in 1..1024 PROVE NonZero(n % 65536) = n /\ Held(n, 1024) = n
  BY DEF NonZero, Held
<1> QED
  BY <1>1, <1>2, <1>3, <1>4, <1>5, <1>6, <1>7 DEF BusBit, HostBit, NominalBitTiming

\* Once the queue holds no bit timing, the bus runs at the rate, the sample point and
\* the jump width the host computed from BT_CONST, for every timing in the limits it
\* was told, whatever was queued, refused or applied in between.
THEOREM RateObeyed == SessionSpec => []BusRunsAtHostRate
<1>1. SessionInv /\ TimingInv => BusRunsAtHostRate
  <2> SUFFICES ASSUME SessionInv, TimingInv, NEW t \in Timings, timing_asked = <<t>>,
                      Advertised(t), ~TimingQueued
               PROVE  BusBit(can.timing) = HostBit(t)
    BY DEF BusRunsAtHostRate
  <2>1. told = <<BtConst>>
    BY DEF SessionInv
  <2>2. can.timing = NominalBitTiming(t)
    BY DEF TimingInv, Follows, Decides, TimingQueued, TimingKinds, TimingApplied
  <2> QED
    BY <2>1, <2>2, AdvertisedFits
<1> QED
  BY <1>1, SessionAlways, PTL

\* A host that asks only for modes among the features it was told of gets exactly
\* these modes: what BT_CONST advertises is what on_start_cb decodes.
THEOREM ModesObeyed == SessionSpec => []AdvertisedModesApply
<1>1. SessionInv /\ ModeInv => AdvertisedModesApply
  <2> SUFFICES ASSUME SessionInv, ModeInv, is_started, ~ModeQueued,
                      flags_asked \subseteq AdvertisedModes
               PROVE  AppliedFlags = flags_asked
    BY DEF AdvertisedModesApply
  <2>1. AppliedMode = asked
    BY DEF ModeInv, Follows, Decides, ModeQueued, ModeKinds
  <2>2. asked = StartCmd(flags_asked)
    BY <2>1 DEF SessionInv, AppliedMode, StopCmd
  <2>3. [loopback |-> can.loopback, listen_only |-> can.silent, one_shot |-> can.one_shot]
          = ModeOf(flags_asked)
    BY <2>1, <2>2 DEF AppliedMode, StartCmd
  <2>4. /\ can.loopback = (1 \in flags_asked)
        /\ can.silent = (0 \in flags_asked)
        /\ can.one_shot = (3 \in flags_asked)
    BY <2>3 DEF ModeOf, GS_CAN_FLAG_LOOP_BACK, GS_CAN_FLAG_LISTEN_ONLY, GS_CAN_FLAG_ONE_SHOT
  <2>5. told = <<BtConst>>
    BY <2>2 DEF SessionInv, StartCmd, StopCmd
  <2>6. flags_asked \subseteq {0, 1}
    BY <2>5 DEF AdvertisedModes, BtConst, Capabilities, GS_CAN_FEATURE_LISTEN_ONLY,
                GS_CAN_FEATURE_LOOP_BACK, GS_CAN_FEATURE_IDENTIFY, GS_CAN_FEATURE_USER_ID,
                GS_CAN_FEATURE_ONE_SHOT
  <2> QED
    BY <2>4, <2>6 DEF AppliedFlags, GS_CAN_FLAG_LOOP_BACK, GS_CAN_FLAG_LISTEN_ONLY,
                      GS_CAN_FLAG_ONE_SHOT
<1> QED
  BY <1>1, SessionAlways, SessionImplementsLink, ModeAlways, PTL
=============================================================================
