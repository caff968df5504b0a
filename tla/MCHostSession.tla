--------------------------- MODULE MCHostSession ---------------------------
EXTENDS HostSession, MCCanDriver

\* The ends of the advertised ranges, and segments that do not fit a u8.
Slowest == [prop_seg |-> 8, phase_seg1 |-> 8, phase_seg2 |-> 8, sjw |-> 4, brp |-> 1024]
Fastest == [prop_seg |-> 0, phase_seg1 |-> 1, phase_seg2 |-> 1, sjw |-> 1, brp |-> 1]
TooLong == [prop_seg |-> 200, phase_seg1 |-> 56, phase_seg2 |-> 8, sjw |-> 4, brp |-> 1]
MCTimingRange == {Slowest, Fastest, TooLong}

\* All that is advertised, and what is not: one-shot, honoured, and triple sampling.
SilentLoopback == {GS_CAN_FLAG_LISTEN_ONLY, GS_CAN_FLAG_LOOP_BACK}
TripleSample   == {GS_CAN_FEATURE_TRIPLE_SAMPLE}
MCSessionModes == {Normal, SilentLoopback, LoopbackOneShot, TripleSample}
=============================================================================
