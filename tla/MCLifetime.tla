----------------------------- MODULE MCLifetime -----------------------------
(* Constants for model checking Lifetime: a second of four ticks, integers *)
(* of eight bits, so ?ttl=32 is the first whose duration does not fit.     *)
EXTENDS Lifetime

InRange  == 0 .. 31 \cup {Absent}
Wrapping == 0 .. 70 \cup {Absent}

Capping  == [max : {0, 8, 20}]
OneCap   == [max : {8}]
=============================================================================
