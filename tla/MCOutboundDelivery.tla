-------------------------- MODULE MCOutboundDelivery --------------------------
(***************************************************************************)
(* OutboundDelivery for TLC: a chat that gets everything, and another one  *)
(* whose stream comes between.                                             *)
(***************************************************************************)
EXTENDS OutboundDelivery

CONSTANTS c1, c2

MCInputs ==
    ({c1} \X Kinds) \cup {<<c2, "delta">>}
=============================================================================
