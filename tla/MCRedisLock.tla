----------------------------- MODULE MCRedisLock -----------------------------
(* Two clients and two acquisitions, a lease of two ticks: each client can   *)
(* have one acquisition, or one client both while the requests of the first  *)
(* are still on their way.                                                   *)
EXTENDS RedisLock
==============================================================================
