----------------------------- MODULE MCFraming -----------------------------
(***************************************************************************)
(* Framing with short bytes: a wake command is one byte, and lengths above *)
(* a few bytes already wrap around.                                        *)
(***************************************************************************)
EXTENDS Framing

WakeText == <<1>>
=============================================================================
