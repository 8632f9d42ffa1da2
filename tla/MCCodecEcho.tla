----------------------------- MODULE MCCodecEcho -----------------------------
(* The echo with the json options of the runs. *)
EXTENDS CodecEcho

AllFlags      == BOOLEAN \X BOOLEAN
WithCodecs    == {<<TRUE, TRUE>>}
=============================================================================
