---------------------------- MODULE MCRateLimiter ----------------------------
EXTENDS RateLimiter

(* At two ticks a second, forty requests a minute are one in three ticks:  *)
(* a token comes due in the middle of a second, and a bucket of two is     *)
(* full after three seconds.                                               *)
MCInstant == 0 .. 4
=============================================================================
