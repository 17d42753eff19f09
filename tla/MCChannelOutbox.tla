---------------------------- MODULE MCChannelOutbox ----------------------------
(* Small instances of ChannelOutbox. *)
EXTENDS ChannelOutbox

(* What may go wrong when an error answer means that nothing was done. *)
HonestFaults == FaultKinds \ {"unclear"}
=============================================================================
