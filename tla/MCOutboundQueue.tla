-------------------------- MODULE MCOutboundQueue --------------------------
(***************************************************************************)
(* Small instances of OutboundQueue for TLC.                               *)
(***************************************************************************)
EXTENDS OutboundQueue, TLC

CONSTANTS m1, m2, d1, d2

=============================================================================
