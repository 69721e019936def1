----------------------------- MODULE MCKiSimple -----------------------------
(* Four addresses and two byte values, one of them "negative": enough for  *)
(* ranges that overlap on either side by one and by two bytes.             *)
EXTENDS KiSimple

MCInts == {-1, 2}
=============================================================================
