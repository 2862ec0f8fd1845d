---------------------------- MODULE AbstractLock ----------------------------
(***************************************************************************)
(* What a mutex promises its callers: every thread is outside, asking for  *)
(* the lock or inside, at most one is inside, and a thread gets in only    *)
(* after it asked (or at once, when nobody is inside).                     *)
(***************************************************************************)

CONSTANT Thread

VARIABLE phase      \* phase[t] \in {"out", "want", "in"}

Init == phase = [t \in Thread |-> "out"]

NobodyInside == \A t \in Thread : phase[t] # "in"

Ask(t) ==
    /\ phase[t] = "out"
    /\ phase' = [phase EXCEPT ![t] = "want"]

Enter(t) ==
    /\ phase[t] \in {"out", "want"}
    /\ NobodyInside
    /\ phase' = [phase EXCEPT ![t] = "in"]

Exit(t) ==
    /\ phase[t] = "in"
    /\ phase' = [phase EXCEPT ![t] = "out"]

Next == \E t \in Thread : Ask(t) \/ Enter(t) \/ Exit(t)

Spec == Init /\ [][Next]_phase
=============================================================================
