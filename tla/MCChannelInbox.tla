---------------------------- MODULE MCChannelInbox ----------------------------
(* Small instances of ChannelInbox. *)
EXTENDS ChannelInbox

(* One kind for every branch of ingest: a stranger's message is handled    *)
(* like what is no message, and a command that only answers like what      *)
(* cannot be done without a binding.                                       *)
AllKinds == Kinds \ {"stranger", "status"}
=============================================================================
