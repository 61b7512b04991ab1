---------------------------- MODULE MCConversions ----------------------------
(***************************************************************************)
(* Sessions of a few records in every format, handed over once and          *)
(* continued.                                                               *)
(***************************************************************************)
EXTENDS Conversions

SomeWords == <<"w1", "w2", "w3", "w4">>
=============================================================================
