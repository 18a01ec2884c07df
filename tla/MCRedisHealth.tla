--------------------------- MODULE MCRedisHealth ----------------------------
(* RedisHealth on one deployment and two concurrent attempts.              *)
EXTENDS RedisHealth
=============================================================================
