----------------------------- MODULE MCGetTimeout ----------------------------
(* From two seconds back to three seconds ahead.                            *)
EXTENDS GetTimeout

AllMilliseconds == -2 * MsPerSec .. 3 * MsPerSec
=============================================================================
