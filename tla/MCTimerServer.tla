--------------------------- MODULE MCTimerServer ---------------------------
(* Two clients; one nanosecond and a half to a tick, so that a short        *)
(* interval is no tick at all; a counter that wraps in the compare register.*)
EXTENDS TimerServer

MC_Client == {"c", "d"}
MC_TimerId == {0}
MC_Ns == {1, 3, 6}
=============================================================================
