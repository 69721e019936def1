------------------------------- MODULE MCKbd -------------------------------
(* Small instances of Kbd.                                                 *)
EXTENDS Kbd

MCNone == "none"
=============================================================================
