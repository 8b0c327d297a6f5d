-------------------------- MODULE MCChannelSelect --------------------------
(* Small instances of ChannelSelect.                                       *)
EXTENDS ChannelSelect
=============================================================================
