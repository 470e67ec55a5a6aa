---------------------------- MODULE MCRateLimiter ----------------------------
(* A small instance of RateLimiter: one requester with a limit of its own, *)
(* one on the default limit, one that is not limited.                      *)
EXTENDS RateLimiter

MCUsers == {"keith", "alice", "batch"}
MCPerMinute == [keith |-> 2, batch |-> 0]
==============================================================================
