----------------------------- MODULE SerialLink -----------------------------
(***************************************************************************)
(* One client of the serial server and the server's event loop, over the   *)
(* ring buffer.  Side "b" is the server: the loop of run() with its        *)
(* handlers of Con and Interrupt, and the thread that turns the client's   *)
(* kick into a Con call.  Its ring is a BufferedRingBuffer: bytes that do  *)
(* not fit wait in q.  Side "a" is the client (a driver in a guest, not in *)
(* this repository): it polls, reads, writes and notifies in any order.    *)
(*                                                                         *)
(* The question is the kick protocol: the server sleeps until a kick, and  *)
(* the client kicks only if it finds the server's request bit set.         *)
(***************************************************************************)
EXTENDS RingBuffer

CONSTANT MaxTyped   \* bound: characters typed on the console

ASSUME MaxTypedAssumption == MaxTyped \in Nat /\ 0 .. MaxTyped \cup 0 .. MaxBytes["a"] \subseteq Byte

VARIABLES
    at,             \* where the server's loop is
    mode,           \* the event being handled: "boot", "con" or "irq"
    left,           \* handle_rx(): iterations left
    q,              \* BufferedRingBuffer.q
    notify,         \* tx(), tx_callback(): 1 = bytes went into the ring
    char,           \* the character that handle_char() forwards
    con,            \* the client's thread: "wait", "call" or "served"
    typed           \* history: characters forwarded to this client

server == <<at, mode, left, q, notify, char, con, typed>>
linkVars == <<vars, server>>

LinkInit ==
    /\ Init
    /\ at = "enable_r"
    /\ mode = "boot"
    /\ left = 0
    /\ q = <<>>
    /\ notify = 0
    /\ char = <<>>
    /\ con = "wait"
    /\ typed = <<>>

----------------------------------------------------------------------------
(* The thread of the client: wait for the kick, call the server.           *)
ConThread ==
    /\ con = "wait"
    /\ WaitKick("b")
    /\ con' = "call"
    /\ UNCHANGED <<at, mode, left, q, notify, char, typed>>

(* run(): before the loop, ask for both kinds of kicks.                    *)
EnableReadAtBoot ==
    /\ at = "enable_r" /\ mode = "boot"
    /\ ModifyLoad("b", "NOTIFY_READ", 1)
    /\ at' = "enable_w"
    /\ UNCHANGED <<mode, left, q, notify, char, con, typed>>

EnableWriteAtBoot ==
    /\ at = "enable_w" /\ mode = "boot"
    /\ ModifyLoad("b", "NOTIFY_WRITE", 1)
    /\ at' = "poll"
    /\ mode' = "con"
    /\ UNCHANGED <<left, q, notify, char, con, typed>>

(* run(): receive an event.  Nothing here looks at characters, so those    *)
(* typed and those the client sends are told apart by their place alone.   *)
RecvCon ==
    /\ at = "recv"
    /\ con = "call"
    /\ at' = "poll"
    /\ mode' = "con"
    /\ con' = "served"
    /\ UNCHANGED <<vars, left, q, notify, char, typed>>

RecvInterrupt ==
    /\ at = "recv"
    /\ Len(typed) < MaxTyped
    /\ at' = "flush"
    /\ mode' = "irq"
    /\ char' = <<Len(typed)>>
    /\ typed' = Append(typed, Len(typed))
    /\ UNCHANGED <<vars, left, q, notify, con>>

(* Mutant: one byte is read for each kick.                                 *)
Mut_Poll ==
    /\ at = "poll"
    /\ pc["b"] = "idle"
    /\ left' = IF poll_read("b") > 0 THEN 1 ELSE 0
    /\ at' = "rx"
    /\ UNCHANGED <<vars, mode, q, notify, char, con, typed>>

(* handle_rx(): the number of bytes to take is polled once.                *)
Poll ==
    /\ at = "poll"
    /\ pc["b"] = "idle"
    /\ left' = poll_read("b")
    /\ at' = "rx"
    /\ UNCHANGED <<vars, mode, q, notify, char, con, typed>>

RxInto ==
    /\ at = "rx"
    /\ left > 0
    /\ ReadBegin("b", 1)
    /\ left' = left - 1
    /\ at' = "rx_notify"
    /\ UNCHANGED <<mode, q, notify, char, con, typed>>

RxNotify ==
    /\ at = "rx_notify"
    /\ NotifyRead("b")
    /\ at' = "rx"
    /\ UNCHANGED <<mode, left, q, notify, char, con, typed>>

(* Mutant: handle_rx() does not ask for the next kick.                     *)
Mut_RxEnable ==
    /\ at = "rx"
    /\ left = 0
    /\ pc["b"] = "idle"
    /\ at' = "flush"
    /\ UNCHANGED <<vars, mode, left, q, notify, char, con, typed>>

RxEnable ==
    /\ at = "rx"
    /\ left = 0
    /\ ModifyLoad("b", "NOTIFY_READ", 1)
    /\ at' = "flush"
    /\ UNCHANGED <<mode, left, q, notify, char, con, typed>>

(* flush_tx(): move queued buffers into the ring while they fit.           *)
HeadFits == q # <<>> /\ poll_write("b") >= Len(Head(q))

FlushOne ==
    /\ at = "flush"
    /\ HeadFits
    /\ WriteBegin("b", Head(q))
    /\ q' = Tail(q)
    /\ notify' = 1
    /\ UNCHANGED <<at, mode, left, char, con, typed>>

FlushEnd ==
    /\ at = "flush"
    /\ pc["b"] = "idle"
    /\ ~HeadFits
    /\ at' = IF mode = "irq" THEN "tx" ELSE "notify"
    /\ UNCHANGED <<vars, mode, left, q, notify, char, con, typed>>

(* tx(): behind the queue if there is one, otherwise into the ring.        *)
TxQueue ==
    /\ at = "tx"
    /\ q # <<>> \/ poll_write("b") < Len(char)
    /\ q' = Append(q, char)
    /\ at' = "notify"
    /\ UNCHANGED <<vars, mode, left, notify, char, con, typed>>

(* Mutant: the new byte overtakes the queued ones.                         *)
Mut_TxWrite ==
    /\ at = "tx"
    /\ WriteBegin("b", char)
    /\ notify' = 1
    /\ at' = "notify"
    /\ UNCHANGED <<mode, left, q, char, con, typed>>

TxWrite ==
    /\ at = "tx"
    /\ q = <<>>
    /\ WriteBegin("b", char)
    /\ notify' = 1
    /\ at' = "notify"
    /\ UNCHANGED <<mode, left, q, char, con, typed>>

AfterNotify == IF mode = "irq" THEN "reply" ELSE "enable_w"

TxNotify ==
    /\ at = "notify"
    /\ notify = 1
    /\ NotifyWrite("b")
    /\ notify' = 0
    /\ at' = AfterNotify
    /\ UNCHANGED <<mode, left, q, char, con, typed>>

TxNoNotify ==
    /\ at = "notify"
    /\ notify = 0
    /\ pc["b"] = "idle"
    /\ at' = AfterNotify
    /\ UNCHANGED <<vars, mode, left, q, notify, char, con, typed>>

(* handle_tx(): ask for the next kick.                                     *)
TxEnable ==
    /\ at = "enable_w" /\ mode = "con"
    /\ ModifyLoad("b", "NOTIFY_WRITE", 1)
    /\ at' = "reply"
    /\ UNCHANGED <<mode, left, q, notify, char, con, typed>>

(* run(): answer the caller, whose thread waits for the next kick.         *)
Reply ==
    /\ at = "reply"
    /\ pc["b"] = "idle"
    /\ at' = "recv"
    /\ char' = <<>>
    /\ con' = IF mode = "con" /\ con = "served" THEN "wait" ELSE con
    /\ UNCHANGED <<vars, mode, left, q, notify, typed>>
----------------------------------------------------------------------------
(* The client: bytes to the server, reads of any length, notifications.    *)
Client ==
    /\ \/ WriteBegin("a", <<Len(sent["a"])>>)
       \/ \E len \in 1..poll_read("a") : ReadBegin("a", len)
       \/ private_w["a"] # offset_w["a"] /\ NotifyWrite("a")
       \/ private_r["a"] # offset_r["a"] /\ NotifyRead("a")
       \/ Continue("a")
    /\ UNCHANGED server

(* The server's next step, or the next step of the operation it is in.     *)
Server ==
    \/ EnableReadAtBoot \/ EnableWriteAtBoot
    \/ RecvCon
    \/ Poll \/ RxInto \/ RxNotify \/ RxEnable
    \/ FlushOne \/ FlushEnd \/ TxQueue \/ TxWrite \/ TxNotify \/ TxNoNotify
    \/ TxEnable \/ Reply
    \/ Continue("b") /\ UNCHANGED server

LinkNext ==
    \/ Client
    \/ ConThread
    \/ RecvInterrupt
    \/ Server

(* The server's thread and the client's thread run whenever they can; the  *)
(* client finishes the library calls it began, and nothing obliges it to   *)
(* begin one.                                                              *)
LinkSpec ==
    /\ LinkInit /\ [][LinkNext]_linkVars
    /\ WF_linkVars(Server) /\ WF_linkVars(ConThread)
    /\ WF_linkVars(Continue("a") /\ UNCHANGED server)

----------------------------------------------------------------------------
LinkTypeOK ==
    /\ TypeOK
    /\ at \in {"enable_r", "enable_w", "recv", "poll", "rx", "rx_notify",
               "flush", "tx", "notify", "reply"}
    /\ mode \in {"boot", "con", "irq"}
    /\ left \in 0..(Size["a"] - 1)
    /\ q \in Seq(Seq(Byte))
    /\ notify \in {0, 1}
    /\ char \in Seq(Byte)
    /\ con \in {"wait", "call", "served"}
    /\ typed \in Seq(Byte)

(* The client is between finding a request bit and delivering its kick.    *)
ClientKicking == pc["a"] \in {"load", "store", "kick"}

(* When the server sleeps and no kick is on its way, both request bits are *)
(* set, so the client's next notify_read() or notify_write() does kick:    *)
(* the server may sleep on bytes that arrived between its poll and its     *)
(* enable_notify_read(), but never for ever on a bit that nobody will set. *)
(* The unlocked modify() of one status word by two components does lose    *)
(* bits; the kick that follows every clearing makes the server set both    *)
(* again (run() handles rx and tx on every Con).                           *)
Rearmed ==
    at = "recv" /\ con = "wait" /\ "b" \notin kicked /\ ~ClientKicking
        => status["b"] = Bit

(* Where a typed character may be before it is in the ring: in the copy    *)
(* of write(), in a buffer of q, or on its way to tx().                    *)
copying == IF pc["b"] = "write" THEN data["b"] ELSE <<>>
waiting == [k \in DOMAIN q |-> q[k][1]]
inFlight == IF at \in {"flush", "tx"} THEN char ELSE <<>>

(* Characters typed for a client enter its ring in the order typed, none   *)
(* lost and none repeated, whether they went straight in or waited in q,   *)
(* where each is a buffer of its own.                                      *)
InputInOrder ==
    /\ typed = sent["b"] \o copying \o waiting \o inFlight
    /\ \A k \in DOMAIN q : Len(q[k]) = 1

(* Bytes the client had published when it kicked are read by the server,   *)
(* also when that kick coalesced with an earlier one.                      *)
KickedBytesAreRead ==
    \A k \in 1..MaxBytes["a"] :
        (pc["a"] = "kick" /\ word["a"].bit = "NOTIFY_READ" /\ offset_w["a"] >= k)
            ~> (private_r["b"] >= k)
=============================================================================
