----------------------------- MODULE MCCpmHarness -----------------------------
(***************************************************************************)
(* Programs in a memory of 20 bytes: with one text, with an empty one and  *)
(* one that is full of text, and with none.                                *)
(***************************************************************************)
EXTENDS CpmHarness

MCRoms == {<<65, 66, 36, 67>>, <<36, 65, 36>>, <<65, 66, 67, 68, 69, 70, 71, 72, 73, 74, 36>>,
           <<65, 66>>}
=============================================================================
