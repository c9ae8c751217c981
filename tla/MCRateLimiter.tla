---------------------------- MODULE MCRateLimiter ----------------------------
(* RateLimiter on a small instance for TLC.                                *)
EXTENDS RateLimiter

\* What the settings form may be given, values it refuses included.
FormInputs == 0..2

\* A Retry-After of zero, and a pause that outlasts a window of one tick.
Pauses == {0, 2}

=============================================================================
