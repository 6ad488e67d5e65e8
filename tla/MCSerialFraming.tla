-------------------------- MODULE MCSerialFraming --------------------------
(* Messages for SerialFraming, some of start bytes. *)
EXTENDS SerialFraming

MCPayloads == {<<7>>, <<148, 195>>, <<195, 0>>}
=============================================================================
