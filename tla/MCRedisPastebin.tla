-------------------------- MODULE MCRedisPastebin --------------------------
(* Constants for model checking RedisPastebin. *)
EXTENDS RedisPastebin, MCSqlPastebin

RedisForms == {F("fits", "true", FALSE, 1), F("fits", "false", TRUE, 0)}
=============================================================================
