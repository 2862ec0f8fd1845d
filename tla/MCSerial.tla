------------------------------ MODULE MCSerial ------------------------------
(* The serial server at its rings and at its device, one or the other.     *)
(*                                                                         *)
(* Link: the client sends up to two bytes while up to three characters are *)
(* typed; the ring towards the client holds one, so the queue is used.     *)
(*                                                                         *)
(* Console: two clients with buffers of two, up to two characters of each, *)
(* and up to three typed keys.                                             *)
EXTENDS SerialLink, SerialConsole

MCSize == [a |-> 3, b |-> 2]
MCMaxBytes == [a |-> 2, b |-> 3]

VARIABLE part       \* "link" or "console"

allVars == <<part, linkVars, consoleVars>>

SumInit == part \in {"link", "console"} /\ LinkInit /\ ConsoleInit

InLink(A) == part = "link" /\ A /\ UNCHANGED <<part, consoleVars>>

SumNext == InLink(LinkNext) \/ (part = "console" /\ ConsoleNext /\ UNCHANGED <<part, linkVars>>)

SumSpec ==
    /\ SumInit /\ [][SumNext]_allVars
    /\ WF_allVars(InLink(Server)) /\ WF_allVars(InLink(ConThread))
    /\ WF_allVars(InLink(Continue("a") /\ UNCHANGED server))
=============================================================================
