------------------------------- MODULE MCBoot -------------------------------
(* A small instance of Boot: two shift keys, an arrow key and Print Screen *)
(* with its fake shift.                                                    *)
EXTENDS Boot

Key(make, break) == [make |-> make, break |-> break]

LShift   == Key(<<42>>, <<170>>)
RShift   == Key(<<54>>, <<182>>)
Up       == Key(<<224, 72>>, <<224, 200>>)
PrtSc    == Key(<<224, 42, 224, 55>>, <<224, 183, 224, 170>>)

MCKeys     == {LShift, RShift, Up, PrtSc}
MCShifts   == {LShift, RShift}
MCNone     == "none"
=============================================================================
