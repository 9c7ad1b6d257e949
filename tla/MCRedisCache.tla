---------------------------- MODULE MCRedisCache ----------------------------
(* TLC instances of RedisCache.                                            *)
EXTENDS RedisCache

KeySymmetry == Permutations(Keys)
=============================================================================
