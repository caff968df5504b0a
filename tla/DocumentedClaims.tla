-------------------------- MODULE DocumentedClaims --------------------------
(***************************************************************************)
(* What the repository's README and docs say of the running adapter and the *)
(* code does not keep.  Each claim is refuted by a run of its own; the      *)
(* README beside this module tells the counterexamples.                     *)
(***************************************************************************)
EXTENDS NginLink

\* docs/usb-data-flow.md:157: with the echo the host confirms that the frame was
\* sent.  An echoed frame has been on the bus, or at least is still on its way.
EchoedIsSentOrPending ==
    \A m \in TxMsgs : m.echo_id \in echoed => ParseTxMsg(m) \in bus \cup mailbox

\* README.md:126: an exhausted bus-off sends BusOff to the host.
ExhaustedBusOffIsReported ==
    [][(service'.bus_off_count > service.bus_off_count
          /\ service.bus_off_count >= MAX_BUS_OFF_RETRIES)
            => usb_echo' = Append(usb_echo, BusOffFrame)]_vars

\* docs/channel-design.md:132: select() is fair, both sources are polled equally.
\* An echo does not wait for ever behind received frames.
EchoNotStarved ==
    \A m \in TxMsgs :
        LET echo == FromTxMsgEcho(ParseTxMsg(m))
            Queued == \E i \in DOMAIN usb_echo : usb_echo[i] = echo
        IN Queued ~> ~Queued
=============================================================================
