------------------------------ MODULE MCMutex ------------------------------
(* Four threads of one component, distinguishable.  Four is the smallest   *)
(* number with a holder, a signaller, a queued and an unqueued waiter.     *)
EXTENDS Mutex

CONSTANTS t1, t2, t3, t4

MCThread == {t1, t2, t3, t4}
=============================================================================
