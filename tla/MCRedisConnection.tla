------------------------- MODULE MCRedisConnection -------------------------
(* Two calls of the handlers share one client. *)
EXTENDS RedisConnection

TwoCalls == {"first", "second"}
=============================================================================
