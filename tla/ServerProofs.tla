---------------------------- MODULE ServerProofs ----------------------------
(***************************************************************************)
(* Proofs about parts of two servers that have nothing in common:          *)
(* SerialLink, for rings of any size and any traffic, and the extern       *)
(* objects of Realizer, for every set of realms and models.                *)
(*                                                                         *)
(* The serial server never sleeps on a request bit that nobody will set.   *)
(* This does not depend on what the rings hold, only on the order of the   *)
(* steps: a bit is lost only to a client that is about to kick, and a kick *)
(* ends in another pass over both enable_notify_read() and                 *)
(* enable_notify_write().                                                  *)
(*                                                                         *)
(* Typed characters enter the ring in order.  They are in four places: the *)
(* ring, the copy of write(), the queue q and the argument of tx();        *)
(* Placed says which character is where, and every step of the server      *)
(* moves one over a border or moves a border.                              *)
(***************************************************************************)
EXTENDS SerialLink, Realizer, TLAPS

(* A kick is on its way from the client to the server's loop.              *)
Kicking == con = "call" \/ "b" \in kicked \/ ClientKicking

Types ==
    /\ status \in [Side -> SUBSET Bit]
    /\ pc \in [Side -> PC]
    /\ word \in [Side -> Word]
    /\ mode \in {"boot", "con", "irq"}

(* Where the loop is tells which event it handles, and which modify() of   *)
(* its status word it may be in.                                           *)
LoopPlaces ==
    /\ at = "enable_r" => mode = "boot"
    /\ mode = "boot" => at \in {"enable_r", "enable_w"}
    /\ mode = "irq" => at \in {"recv", "flush", "tx", "notify", "reply"}
    /\ at = "tx" => mode = "irq"
    /\ at = "recv" => pc["b"] = "idle"
    /\ pc["b"] = "modify" =>
          /\ word["b"].val = 1
          /\ \/ mode = "boot" /\ at = "enable_w"
             \/ mode = "con" /\ at = "poll"
             \/ mode = "con" /\ at = "flush" /\ word["b"].bit = "NOTIFY_READ"
             \/ mode = "con" /\ at = "reply" /\ word["b"].bit = "NOTIFY_WRITE"

(* As long as no kick is on its way: the bits that this pass has already   *)
(* asked for are still set.  Between two passes that is both of them.      *)
BitsKept ==
    /\ at = "recv" \/ mode = "irq" => status["b"] = Bit
    /\ mode = "con" /\ at \in {"flush", "notify", "enable_w"} /\ pc["b"] # "modify"
          => "NOTIFY_READ" \in status["b"]
    /\ mode = "con" /\ at = "reply" =>
          IF pc["b"] = "modify" THEN "NOTIFY_READ" \in word["b"].old ELSE status["b"] = Bit

IInv == Types /\ LoopPlaces /\ (~Kicking => BitsKept)

----------------------------------------------------------------------------
(* The two sides of the ring.                                              *)
LEMMA RingFacts == /\ "a" \in Side /\ "b" \in Side /\ Peer("a") = "b" /\ Peer("b") = "a"
                   /\ NoWord \in Word
BY DEF Side, Peer, NoWord, Word, Bit

(* No step of the ring spoils the types of the control state.              *)
LEMMA BeginTypes ==
    ASSUME Types, NEW s \in Side,
           \/ \E bytes : WriteBegin(s, bytes) \/ \E len : ReadBegin(s, len)
           \/ NotifyRead(s) \/ NotifyWrite(s)
           \/ \E bit \in Bit : ModifyLoad(s, bit, 1)
    PROVE  /\ status' \in [Side -> SUBSET Bit] /\ pc' \in [Side -> PC]
           /\ word' \in [Side -> Word]
<1> USE RingFacts DEF Types, ctrl
<1>1. ASSUME NEW bytes, WriteBegin(s, bytes)
      PROVE  UNCHANGED <<status, word>> /\ pc' = [pc EXCEPT ![s] = "write"]
  BY <1>1 DEF WriteBegin
<1>2. ASSUME NEW len, ReadBegin(s, len)
      PROVE  UNCHANGED <<status, word>> /\ pc' = [pc EXCEPT ![s] = "read"]
  BY <1>2 DEF ReadBegin
<1>3. CASE NotifyRead(s) \/ NotifyWrite(s)
  <2>1. \A bit \in Bit : [NoWord EXCEPT !.bit = bit] \in Word
    BY DEF NoWord, Word
  <2> QED
    BY <1>3, <2>1 DEF NotifyRead, NotifyWrite, Bit, PC
<1>4. ASSUME NEW bit \in Bit, ModifyLoad(s, bit, 1)
      PROVE  UNCHANGED status /\ pc' \in [Side -> PC] /\ word' \in [Side -> Word]
  <2>1. [bit |-> bit, val |-> 1, old |-> status[s]] \in Word
    BY DEF Word
  <2> QED
    BY <1>4, <2>1 DEF ModifyLoad, PC
<1> QED
  BY <1>1, <1>2, <1>3, <1>4 DEF PC

(* The same for the steps that follow the first of a call.                 *)
LEMMA ContinueTypes ==
    ASSUME Types, NEW s \in Side, Continue(s)
    PROVE  /\ status' \in [Side -> SUBSET Bit] /\ pc' \in [Side -> PC]
           /\ word' \in [Side -> Word]
<1> USE RingFacts DEF Types, ctrl
<1>0. Peer(s) \in Side
  BY DEF Side
<1>1. CASE WriteByte(s) \/ WriteEnd(s) \/ ReadByte(s) \/ ReadEnd(s)
  BY <1>1 DEF WriteByte, WriteEnd, ReadByte, ReadEnd, PC
<1>2. CASE Check(s)
  BY <1>2 DEF Check, PC
<1>3. CASE ClearLoad(s)
  <2>1. [word[s] EXCEPT !.old = status[Peer(s)]] \in Word
    BY <1>0 DEF Word
  <2> QED
    BY <1>3, <2>1 DEF ClearLoad, PC
<1>4. CASE ClearStore(s)
  BY <1>0, <1>4 DEF ClearStore, PC, Word
<1>5. CASE Kick(s)
  BY <1>5 DEF Kick, PC
<1>6. CASE ModifyStore(s)
  BY <1>6 DEF ModifyStore, PC, Word
<1> QED
  BY <1>1, <1>2, <1>3, <1>4, <1>5, <1>6 DEF Continue

----------------------------------------------------------------------------
(* The client takes a bit only when it is going to kick.                   *)
LEMMA ClientIInv ==
    ASSUME IInv, Client
    PROVE  IInv'
<1> USE RingFacts DEF ctrl
<1>1. UNCHANGED server
  BY DEF Client
<1>2. Types'
  BY <1>1, BeginTypes, ContinueTypes DEF IInv, Types, Client, server
<1>3. pc'["b"] = pc["b"] /\ word'["b"] = word["b"]
  <2>1. CASE Continue("a")
    BY <2>1, Zenon DEF IInv, Types, Continue, WriteByte, WriteEnd, ReadByte, ReadEnd,
                Check, ClearLoad, ClearStore, Kick, ModifyStore
  <2>2. CASE ~Continue("a")
    BY <2>2 DEF IInv, Types, Client, WriteBegin, ReadBegin, NotifyRead, NotifyWrite
  <2> QED
    BY <2>1, <2>2
<1>4. Kicking' \/ (~Kicking /\ status'["b"] = status["b"])
  <2>1. CASE Continue("a")
    <3>1. CASE WriteByte("a") \/ WriteEnd("a") \/ ReadByte("a") \/ ReadEnd("a")
      BY <1>1, <3>1 DEF WriteByte, WriteEnd, ReadByte, ReadEnd, Kicking, ClientKicking,
                        IInv, Types, server
    <3>2. CASE Check("a")
      BY <1>1, <3>2 DEF Check, Kicking, ClientKicking, IInv, Types, server
    <3>3. CASE ClearLoad("a") \/ ClearStore("a") \/ Kick("a")
      BY <3>3 DEF ClearLoad, ClearStore, Kick, Kicking, ClientKicking, IInv, Types
    <3>4. CASE ModifyStore("a")
      BY <1>1, <3>4 DEF ModifyStore, Kicking, ClientKicking, IInv, Types, server
    <3> QED
      BY <2>1, <3>1, <3>2, <3>3, <3>4 DEF Continue
  <2>2. CASE ~Continue("a")
    BY <1>1, <2>2 DEF IInv, Types, Client, WriteBegin, ReadBegin, NotifyRead, NotifyWrite,
                      Kicking, ClientKicking, server
  <2> QED
    BY <2>1, <2>2
<1>5. LoopPlaces'
  BY <1>1, <1>3 DEF IInv, LoopPlaces, server
<1>6. ~Kicking' => BitsKept'
  BY <1>1, <1>3, <1>4 DEF IInv, BitsKept, server
<1> QED
  BY <1>2, <1>5, <1>6 DEF IInv

(* The operations of the server go on.  Only ModifyStore() writes its      *)
(* status word, and adds the bit to the word that it has loaded.           *)
LEMMA ContinueIInv ==
    ASSUME IInv, Continue("b"), UNCHANGED server
    PROVE  IInv'
<1> USE RingFacts DEF ctrl
<1>1. Types'
  BY ContinueTypes DEF IInv, Types, server
<1>2. pc["b"] # "idle" /\ at # "recv" /\ pc'["b"] # "modify"
  BY Zenon DEF Continue, WriteByte, WriteEnd, ReadByte, ReadEnd, Check, ClearLoad, ClearStore,
         Kick, ModifyStore, IInv, Types, LoopPlaces
<1>3. pc'["a"] = pc["a"] /\ ("b" \in kicked' <=> "b" \in kicked)
  BY DEF Continue, WriteByte, WriteEnd, ReadByte, ReadEnd, Check, ClearLoad, ClearStore,
         Kick, ModifyStore, IInv, Types
<1>4. Kicking' <=> Kicking
  BY <1>3 DEF Kicking, ClientKicking, server
<1>5. LoopPlaces'
  BY <1>2 DEF IInv, LoopPlaces, server
<1>6. CASE ModifyStore("b")
  <2>1. pc["b"] = "modify" /\ status'["b"] = word["b"].old \cup {word["b"].bit}
    BY <1>6 DEF ModifyStore, IInv, Types, LoopPlaces
  <2>2. word["b"].old \subseteq Bit
    BY DEF IInv, Types, Word
  <2>3. ~Kicking => BitsKept'
    BY <1>2, <2>1, <2>2 DEF IInv, BitsKept, LoopPlaces, server, Bit
  <2> QED
    BY <1>1, <1>4, <1>5, <2>3 DEF IInv
<1>7. CASE ~ModifyStore("b")
  <2>1. pc["b"] # "modify" /\ status'["b"] = status["b"]
    BY <1>7 DEF Continue, WriteByte, WriteEnd, ReadByte, ReadEnd, Check, ClearLoad,
                ClearStore, Kick, IInv, Types
  <2>2. ~Kicking => BitsKept'
    BY <1>2, <2>1 DEF IInv, BitsKept, server
  <2> QED
    BY <1>1, <1>4, <1>5, <2>2 DEF IInv
<1> QED
  BY <1>6, <1>7

(* The server's loop begins a copy or a publication: its status word is    *)
(* left alone.                                                             *)
LEMMA LoopIInv ==
    ASSUME IInv,
           \/ Poll \/ RxInto \/ RxNotify \/ FlushOne \/ FlushEnd
           \/ TxQueue \/ TxWrite \/ TxNotify \/ TxNoNotify
    PROVE  IInv'
<1> USE RingFacts DEF ctrl
<1>1. Types'
  <2>1. UNCHANGED mode
    BY DEF Poll, RxInto, RxNotify, FlushOne, FlushEnd, TxQueue, TxWrite, TxNotify, TxNoNotify
  <2>2. CASE Poll \/ FlushEnd \/ TxQueue \/ TxNoNotify
    BY <2>1, <2>2 DEF Poll, FlushEnd, TxQueue, TxNoNotify, vars, IInv, Types
  <2>3. CASE RxInto \/ RxNotify \/ FlushOne \/ TxWrite \/ TxNotify
    BY <2>1, <2>3, BeginTypes DEF RxInto, RxNotify, FlushOne, TxWrite, TxNotify, IInv, Types
  <2> QED
    BY <2>2, <2>3
<1>2. /\ status' = status /\ kicked' = kicked /\ con' = con /\ mode' = mode
      /\ pc'["a"] = pc["a"]
  BY Zenon DEF Poll, RxInto, RxNotify, FlushOne, FlushEnd, TxQueue, TxWrite, TxNotify, TxNoNotify,
         ReadBegin, WriteBegin, NotifyRead, NotifyWrite, vars, IInv, Types
<1>3. Kicking' <=> Kicking
  BY <1>2 DEF Kicking, ClientKicking
<1>4. CASE TxQueue
  <2>1. at = "tx" /\ at' = "notify" /\ UNCHANGED <<pc, word>>
    BY <1>4 DEF TxQueue, vars
  <2> QED
    BY <1>1, <1>2, <1>3, <2>1 DEF IInv, LoopPlaces, BitsKept
<1>5. CASE ~TxQueue
  <2>1. pc["b"] = "idle" /\ pc'["b"] # "modify"
    BY <1>5, Zenon DEF Poll, RxInto, RxNotify, FlushOne, FlushEnd, TxWrite, TxNotify, TxNoNotify,
                ReadBegin, WriteBegin, NotifyRead, NotifyWrite, vars, IInv, Types
  <2>2. \/ at = "poll" /\ at' = "rx"
        \/ at = "rx" /\ at' = "rx_notify"
        \/ at = "rx_notify" /\ at' = "rx"
        \/ at = "flush" /\ at' = "flush"
        \/ at = "flush" /\ at' = (IF mode = "irq" THEN "tx" ELSE "notify")
        \/ at = "tx" /\ at' = "notify"
        \/ at = "notify" /\ at' = AfterNotify
    BY <1>5 DEF Poll, RxInto, RxNotify, FlushOne, FlushEnd, TxWrite, TxNotify, TxNoNotify
  <2>3. LoopPlaces'
    BY <1>2, <2>1, <2>2 DEF IInv, LoopPlaces, AfterNotify
  <2>4. ~Kicking => BitsKept'
    BY <1>2, <2>1, <2>2 DEF IInv, Types, LoopPlaces, BitsKept, AfterNotify
  <2> QED
    BY <1>1, <1>3, <2>3, <2>4 DEF IInv
<1> QED
  BY <1>4, <1>5

(* The server's loop begins to ask for a kick.                             *)
LEMMA EnableIInv ==
    ASSUME IInv, EnableReadAtBoot \/ EnableWriteAtBoot \/ RxEnable \/ TxEnable
    PROVE  IInv'
<1> USE RingFacts DEF ctrl
<1>1. PICK bit \in Bit : ModifyLoad("b", bit, 1)
  BY DEF EnableReadAtBoot, EnableWriteAtBoot, RxEnable, TxEnable, Bit
<1>2. Types'
  BY <1>1, BeginTypes
     DEF EnableReadAtBoot, EnableWriteAtBoot, RxEnable, TxEnable, IInv, Types
<1>3. /\ status' = status /\ kicked' = kicked /\ con' = con
      /\ pc'["a"] = pc["a"] /\ pc["b"] = "idle" /\ pc'["b"] = "modify"
  BY <1>1 DEF EnableReadAtBoot, EnableWriteAtBoot, RxEnable, TxEnable, ModifyLoad, IInv, Types
<1>4. Kicking' <=> Kicking
  BY <1>3 DEF Kicking, ClientKicking
<1>5. CASE EnableReadAtBoot \/ EnableWriteAtBoot
  <2>1. word'["b"].val = 1
    BY <1>1 DEF ModifyLoad, IInv, Types
  <2>2. \/ at' = "enable_w" /\ mode' = "boot"
        \/ at' = "poll" /\ mode' = "con"
    BY <1>5 DEF EnableReadAtBoot, EnableWriteAtBoot
  <2> QED
    BY <1>2, <1>3, <2>1, <2>2 DEF IInv, LoopPlaces, BitsKept
<1>6. CASE RxEnable
  <2>1. word'["b"].val = 1 /\ word'["b"].bit = "NOTIFY_READ"
    BY <1>6 DEF RxEnable, ModifyLoad, IInv, Types
  <2>2. at = "rx" /\ at' = "flush" /\ mode = "con" /\ mode' = "con"
    BY <1>6 DEF RxEnable, IInv, Types, LoopPlaces
  <2> QED
    BY <1>2, <1>3, <2>1, <2>2 DEF IInv, LoopPlaces, BitsKept
<1>7. CASE TxEnable
  <2>1. /\ word'["b"].val = 1 /\ word'["b"].bit = "NOTIFY_WRITE"
        /\ word'["b"].old = status["b"]
    BY <1>7 DEF TxEnable, ModifyLoad, IInv, Types
  <2>2. at = "enable_w" /\ at' = "reply" /\ mode = "con" /\ mode' = "con"
    BY <1>7 DEF TxEnable
  <2>3. ~Kicking => BitsKept'
    BY <1>3, <2>1, <2>2 DEF IInv, BitsKept
  <2> QED
    BY <1>2, <1>3, <1>4, <2>1, <2>2, <2>3 DEF IInv, LoopPlaces
<1> QED
  BY <1>5, <1>6, <1>7

(* The server receives, answers and sleeps; its client's thread waits.     *)
LEMMA ReceiveIInv ==
    ASSUME IInv, RecvCon \/ RecvInterrupt \/ Reply \/ ConThread
    PROVE  IInv'
<1> USE RingFacts DEF ctrl
<1>1. UNCHANGED <<status, pc, word>>
  BY DEF RecvCon, RecvInterrupt, Reply, ConThread, WaitKick, vars
<1>2. Types'
  BY <1>1 DEF RecvCon, RecvInterrupt, Reply, ConThread, IInv, Types
<1>3. CASE RecvCon
  BY <1>1, <1>2, <1>3 DEF RecvCon, IInv, LoopPlaces, BitsKept
<1>4. CASE RecvInterrupt
  <2>1. Kicking' <=> Kicking
    BY <1>4 DEF RecvInterrupt, Kicking, ClientKicking, vars
  <2> QED
    BY <1>1, <1>2, <1>4, <2>1 DEF RecvInterrupt, IInv, LoopPlaces, BitsKept
<1>5. CASE Reply
  <2>1. Kicking' <=> Kicking
    BY <1>5 DEF Reply, Kicking, ClientKicking, vars
  <2> QED
    BY <1>1, <1>2, <1>5, <2>1 DEF Reply, IInv, Types, LoopPlaces, BitsKept
<1>6. CASE ConThread
  <2>1. Kicking'
    BY <1>6 DEF ConThread, Kicking
  <2> QED
    BY <1>1, <1>2, <1>6, <2>1 DEF ConThread, IInv, LoopPlaces
<1> QED
  BY <1>3, <1>4, <1>5, <1>6

(* At the start of run() both bits are still to be set.                    *)
LEMMA InitIInv == LinkInit => IInv
BY RingFacts DEF LinkInit, Init, IInv, Types, LoopPlaces, BitsKept, PC

(* Every step of the client, the kernel and the server preserves it.       *)
LEMMA NextIInv == IInv /\ [LinkNext]_linkVars => IInv'
<1> SUFFICES ASSUME IInv, [LinkNext]_linkVars PROVE IInv'
  OBVIOUS
<1>1. CASE UNCHANGED linkVars
  BY <1>1 DEF linkVars, vars, ctrl, server, IInv, Types, LoopPlaces, BitsKept, Kicking,
              ClientKicking
<1> QED
  BY <1>1, ClientIInv, ContinueIInv, LoopIInv, EnableIInv, ReceiveIInv DEF LinkNext, Server

(* Whenever the server sleeps and no kick is on its way, both of its       *)
(* request bits are set, for rings of any size and any number of bytes and *)
(* characters: the client's next notify_read() or notify_write() kicks.    *)
THEOREM SpecRearmed == LinkSpec => []Rearmed
<1>1. IInv => Rearmed
  BY DEF IInv, Rearmed, Kicking, BitsKept
<1> QED
  BY <1>1, InitIInv, NextIInv, PTL DEF LinkSpec

----------------------------------------------------------------------------
(* InputInOrder, place by place: where each typed character is.  What the  *)
(* server writes to its ring is a typed character or a buffer of q; a      *)
(* character is at hand only while an interrupt is handled.                *)
Stream ==
    /\ typed \in Seq(Nat) /\ char \in Seq(Nat)
    /\ q \in Seq(Seq(Nat)) /\ \A k \in DOMAIN q : Len(q[k]) = 1
    /\ DOMAIN sent = Side /\ sent["b"] \in Seq(Nat)
    /\ DOMAIN data = Side /\ copying \in Seq(Nat)
    /\ at = "recv" \/ mode # "irq" => char = <<>>
    /\ mode = "irq" /\ at \in {"flush", "tx"} => Len(char) = 1

Placed(t, s, c, w, f) ==
    /\ Len(t) = Len(s) + Len(c) + Len(w) + Len(f)
    /\ \A k \in 1 .. Len(s) : t[k] = s[k]
    /\ \A k \in 1 .. Len(c) : t[Len(s) + k] = c[k]
    /\ \A k \in 1 .. Len(w) : t[Len(s) + Len(c) + k] = w[k][1]
    /\ \A k \in 1 .. Len(f) : t[Len(s) + Len(c) + Len(w) + k] = f[k]

InOrder == Stream /\ Placed(typed, sent["b"], copying, q, inFlight)

(* l is s and then x; x and then s is l.                                    *)
Last(l, s, x) ==
    /\ Len(s) \in Nat /\ Len(l) \in Nat /\ Len(l) = Len(s) + 1 /\ l[Len(s) + 1] = x
    /\ \A k \in 1 .. Len(s) : l[k] = s[k]

First(l, x, s) ==
    /\ Len(s) \in Nat /\ Len(l) \in Nat /\ Len(l) = Len(s) + 1 /\ l[1] = x
    /\ \A k \in 1 .. Len(s) : l[k + 1] = s[k]

(* Append(), Tail() and concatenation, place by place.                     *)
LEMMA AppendLast ==
    ASSUME NEW X, NEW s \in Seq(X), NEW x \in X
    PROVE  Last(Append(s, x), s, x)
BY DEF Last

(* Tail(), place by place.                                                 *)
LEMMA TailFirst ==
    ASSUME NEW X, NEW s \in Seq(X), s # <<>>
    PROVE  First(s, Head(s), Tail(s))
<1>1. Len(s) \in Nat /\ Len(s) >= 1
  OBVIOUS
<1> QED
  BY <1>1 DEF First

(* write() copies a byte: it moves from the copy to the end of the stream. *)
LEMMA PlacedByte ==
    ASSUME NEW t, NEW s, NEW c, NEW w, NEW f, NEW S, NEW T, NEW x,
           Len(w) \in Nat, Len(f) \in Nat, Last(S, s, x), First(c, x, T),
           Placed(t, s, c, w, f)
    PROVE  Placed(t, S, T, w, f)
<1>1. Len(s) \in Nat /\ Len(c) \in Nat /\ Len(S) \in Nat /\ Len(T) \in Nat
      /\ Len(S) = Len(s) + 1 /\ Len(c) = Len(T) + 1
  BY Zenon DEF Last, First
<1>2. Len(S) + Len(T) = Len(s) + Len(c)
  BY <1>1
<1>3. ASSUME NEW k \in 1 .. Len(S) PROVE t[k] = S[k]
  <2>1. t[Len(s) + 1] = c[1]
    <3>1. 1 \in 1 .. Len(c)
      BY <1>1
    <3> QED
      BY <3>1, Zenon DEF Placed
  <2>2. k \in 1 .. Len(s) \/ k = Len(s) + 1
    BY <1>1, <1>3
  <2> QED
    BY <2>1, <2>2, Zenon DEF Placed, Last, First
<1>4. ASSUME NEW k \in 1 .. Len(T) PROVE t[Len(S) + k] = T[k]
  <2>1. k + 1 \in 1 .. Len(c) /\ Len(S) + k = Len(s) + (k + 1)
    BY <1>1, <1>4
  <2>2. c[k + 1] = T[k]
    BY <1>4 DEF First
  <2> QED
    BY <2>1, <2>2 DEF Placed
<1> QED
  BY <1>2, <1>3, <1>4, Zenon DEF Placed

(* flush_tx() takes the first buffer of the queue.                         *)
LEMMA PlacedHead ==
    ASSUME NEW t, NEW s, NEW w, NEW f, NEW h, NEW T,
           Len(s) \in Nat, Len(f) \in Nat, First(w, h, T), Len(h) = 1,
           Placed(t, s, <<>>, w, f)
    PROVE  Placed(t, s, h, T, f)
<1>1. Len(w) \in Nat /\ Len(T) \in Nat /\ Len(w) = Len(T) + 1 /\ Len(<<>>) = 0
  BY DEF First
<1>2. Len(s) + Len(h) + Len(T) = Len(s) + Len(<<>>) + Len(w)
  BY <1>1
<1>3. ASSUME NEW k \in 1 .. Len(h) PROVE t[Len(s) + k] = h[k]
  <2>1. Len(s) + Len(<<>>) + 1 = Len(s) + 1 /\ 1 \in 1 .. Len(w) /\ k = 1
    BY <1>1, <1>3
  <2> QED
    BY <2>1 DEF Placed, First
<1>4. ASSUME NEW k \in 1 .. Len(T) PROVE t[Len(s) + Len(h) + k] = T[k][1]
  <2>1. k + 1 \in 1 .. Len(w) /\ Len(s) + Len(h) + k = Len(s) + Len(<<>>) + (k + 1)
    BY <1>1, <1>4
  <2>2. w[k + 1] = T[k]
    BY <1>4 DEF First
  <2> QED
    BY <2>1, <2>2 DEF Placed
<1> QED
  BY <1>2, <1>3, <1>4, Zenon DEF Placed

(* tx() puts the character behind the queue.                               *)
LEMMA PlacedLast ==
    ASSUME NEW t, NEW s, NEW c, NEW w, NEW f, NEW W,
           Len(s) \in Nat, Len(c) \in Nat, Last(W, w, f), Len(f) = 1,
           Placed(t, s, c, w, f)
    PROVE  Placed(t, s, c, W, <<>>)
<1>1. Len(w) \in Nat /\ Len(W) \in Nat /\ Len(W) = Len(w) + 1 /\ Len(<<>>) = 0
  BY DEF Last
<1>2. Len(s) + Len(c) + Len(W) + Len(<<>>) = Len(s) + Len(c) + Len(w) + Len(f)
  BY <1>1
<1>3. ASSUME NEW k \in 1 .. Len(W) PROVE t[Len(s) + Len(c) + k] = W[k][1]
  <2>1. k \in 1 .. Len(w) \/ k = Len(w) + 1
    BY <1>1, <1>3
  <2>2. Len(s) + Len(c) + Len(w) + 1 = Len(s) + Len(c) + (Len(w) + 1) /\ 1 \in 1 .. Len(f)
    BY <1>1
  <2>3. CASE k \in 1 .. Len(w)
    BY <2>3 DEF Placed, Last
  <2>4. CASE k = Len(w) + 1
    <3>1. t[Len(s) + Len(c) + Len(w) + 1] = f[1]
      BY <2>2 DEF Placed
    <3> QED
      BY <2>2, <2>4, <3>1 DEF Last
  <2> QED
    BY <2>1, <2>3, <2>4
<1>4. \A k \in 1 .. Len(<<>>) : FALSE
  BY <1>1
<1> QED
  BY <1>2, <1>3, <1>4 DEF Placed

(* A character is typed.                                                   *)
LEMMA PlacedTyped ==
    ASSUME NEW t, NEW s, NEW c, NEW w, NEW x, NEW T,
           Len(s) \in Nat, Len(c) \in Nat, Len(w) \in Nat, Last(T, t, x),
           Placed(t, s, c, w, <<>>)
    PROVE  Placed(T, s, c, w, <<x>>)
<1>1. Len(t) \in Nat /\ Len(T) \in Nat /\ Len(T) = Len(t) + 1 /\ Len(<<>>) = 0 /\ Len(<<x>>) = 1
      /\ <<x>>[1] = x
  BY DEF Last
<1>2. Len(t) = Len(s) + Len(c) + Len(w)
  BY <1>1 DEF Placed
<1>3. ASSUME NEW k \in 1 .. Len(s) PROVE T[k] = s[k]
  <2>1. k \in 1 .. Len(t)
    BY <1>2, <1>3
  <2> QED
    BY <1>3, <2>1 DEF Placed, Last
<1>4. ASSUME NEW k \in 1 .. Len(c) PROVE T[Len(s) + k] = c[k]
  <2>1. Len(s) + k \in 1 .. Len(t)
    BY <1>2, <1>4
  <2> QED
    BY <1>4, <2>1 DEF Placed, Last
<1>5. ASSUME NEW k \in 1 .. Len(w) PROVE T[Len(s) + Len(c) + k] = w[k][1]
  <2>1. Len(s) + Len(c) + k \in 1 .. Len(t)
    BY <1>2, <1>5
  <2> QED
    BY <1>5, <2>1 DEF Placed, Last
<1>6. ASSUME NEW k \in 1 .. Len(<<x>>) PROVE T[Len(s) + Len(c) + Len(w) + k] = <<x>>[k]
  <2>1. k = 1
    BY <1>1, <1>6
  <2> QED
    BY <1>1, <1>2, <2>1 DEF Last
<1>7. Len(T) = Len(s) + Len(c) + Len(w) + Len(<<x>>)
  BY <1>1, <1>2
<1> QED
  BY <1>3, <1>4, <1>5, <1>6, <1>7 DEF Placed

Both(l, s, r) ==
    /\ Len(s) \in Nat /\ Len(r) \in Nat /\ Len(l) \in Nat /\ Len(l) = Len(s) + Len(r)
    /\ \A k \in 1 .. Len(s) : l[k] = s[k]
    /\ \A k \in 1 .. Len(r) : l[Len(s) + k] = r[k]

Alike(s, r) == Len(s) = Len(r) /\ \A k \in 1 .. Len(r) : s[k] = r[k]
FirstBytes(v, w) == Len(v) = Len(w) /\ \A k \in 1 .. Len(v) : v[k] = w[k][1]

(* Concatenation, place by place.                                          *)
LEMMA ConcatBoth ==
    ASSUME NEW X, NEW s \in Seq(X), NEW r \in Seq(X)
    PROVE  s \o r \in Seq(X) /\ Both(s \o r, s, r)
<1>1. Len(s) \in Nat /\ Len(r) \in Nat
  OBVIOUS
<1> QED
  BY <1>1 DEF Both

(* What is placed so is the concatenation, v being the bytes of the queue. *)
LEMMA PlacedAll ==
    ASSUME NEW t, NEW s, NEW c, NEW w, NEW f, NEW v, NEW a, NEW b, NEW d,
           Both(a, s, c), Both(b, a, v), Both(d, b, f), Placed(t, s, c, w, f),
           FirstBytes(v, w)
    PROVE  Alike(t, d)
<1>1. /\ Len(s) \in Nat /\ Len(c) \in Nat /\ Len(v) \in Nat /\ Len(f) \in Nat
      /\ Len(a) \in Nat /\ Len(b) \in Nat /\ Len(d) \in Nat
      /\ Len(a) = Len(s) + Len(c) /\ Len(b) = Len(a) + Len(v) /\ Len(d) = Len(b) + Len(f)
  BY DEF Both
<1>2. Len(t) = Len(d)
  BY <1>1 DEF Placed, FirstBytes
<1>3. ASSUME NEW k \in 1 .. Len(s) PROVE t[k] = d[k]
  <2>1. k \in 1 .. Len(a) /\ k \in 1 .. Len(b)
    BY <1>1, <1>3
  <2> QED
    BY <1>3, <2>1 DEF Both, Placed
<1>4. ASSUME NEW k \in 1 .. Len(c) PROVE t[Len(s) + k] = d[Len(s) + k]
  <2>1. Len(s) + k \in 1 .. Len(a) /\ Len(s) + k \in 1 .. Len(b)
    BY <1>1, <1>4
  <2> QED
    BY <1>4, <2>1 DEF Both, Placed
<1>5. ASSUME NEW k \in 1 .. Len(v) PROVE t[Len(a) + k] = d[Len(a) + k]
  <2>1. Len(a) + k \in 1 .. Len(b) /\ Len(a) + k = Len(s) + Len(c) + k
    BY <1>1, <1>5
  <2> QED
    BY <1>5, <2>1 DEF Both, Placed, FirstBytes
<1>6. ASSUME NEW k \in 1 .. Len(f) PROVE t[Len(b) + k] = d[Len(b) + k]
  <2>1. Len(b) + k = Len(s) + Len(c) + Len(w) + k
    BY <1>1, <1>6 DEF FirstBytes
  <2> QED
    BY <1>6, <2>1 DEF Both, Placed
<1>7. ASSUME NEW k \in 1 .. Len(d) PROVE t[k] = d[k]
  <2>1. \/ k \in 1 .. Len(s)
        \/ k - Len(s) \in 1 .. Len(c) /\ k = Len(s) + (k - Len(s))
        \/ k - Len(a) \in 1 .. Len(v) /\ k = Len(a) + (k - Len(a))
        \/ k - Len(b) \in 1 .. Len(f) /\ k = Len(b) + (k - Len(b))
    BY <1>1, <1>7
  <2> QED
    BY <1>3, <1>4, <1>5, <1>6, <2>1, Zenon
<1> QED
  BY <1>2, <1>7 DEF Alike

(* Sequences that agree place by place are equal.                          *)
LEMMA SameSeq ==
    ASSUME NEW X, NEW s \in Seq(X), NEW r \in Seq(X), Alike(s, r)
    PROVE  s = r
BY DEF Alike

(* With an empty queue, tx() gives the character to write().               *)
LEMMA PlacedWrite ==
    ASSUME NEW t, NEW s, NEW f, Len(s) \in Nat, Len(f) \in Nat, Placed(t, s, <<>>, <<>>, f)
    PROVE  Placed(t, s, f, <<>>, <<>>)
BY DEF Placed

----------------------------------------------------------------------------
(* At the start nothing is typed, waiting or sent.                         *)
LEMMA InitInOrder == LinkInit => InOrder
BY RingFacts DEF LinkInit, Init, InOrder, Stream, Placed, copying, inFlight

(* A step that leaves the characters where they are.                       *)
LEMMA StillInOrder ==
    ASSUME InOrder, UNCHANGED <<typed, char, q>>, copying' = copying, inFlight' = inFlight,
           sent'["b"] = sent["b"], DOMAIN sent' = Side, DOMAIN data' = Side,
           at' = "recv" \/ mode' # "irq" => char = <<>>,
           mode' = "irq" /\ at' \in {"flush", "tx"} => Len(char) = 1
    PROVE  InOrder'
BY Zenon DEF InOrder, Stream, Placed

(* The client's steps, and those of the server's operations but the copy.  *)
LEMMA ClientInOrder ==
    ASSUME IInv, InOrder, Client
    PROVE  InOrder'
<1> USE RingFacts DEF ctrl
<1>1. /\ UNCHANGED server /\ pc'["b"] = pc["b"] /\ sent'["b"] = sent["b"]
      /\ data'["b"] = data["b"] /\ DOMAIN sent' = Side /\ DOMAIN data' = Side
  <2>1. CASE Continue("a")
    BY <2>1, Zenon DEF IInv, Types, InOrder, Stream, Client, Continue, WriteByte, WriteEnd, ReadByte,
                ReadEnd, Check, ClearLoad, ClearStore, Kick, ModifyStore
  <2>2. CASE ~Continue("a")
    BY <2>2 DEF IInv, Types, InOrder, Stream, Client, WriteBegin, ReadBegin, NotifyRead, NotifyWrite
  <2> QED
    BY <2>1, <2>2
<1>2. copying' = copying /\ inFlight' = inFlight /\ UNCHANGED <<typed, char, q, at, mode>>
  BY <1>1 DEF copying, inFlight, server
<1> QED
  BY <1>1, <1>2, StillInOrder, Zenon DEF InOrder, Stream

(* The steps of a write() of the server, which copies byte by byte.        *)
LEMMA ContinueInOrder ==
    ASSUME IInv, InOrder, Continue("b"), UNCHANGED server
    PROVE  InOrder'
<1> USE RingFacts DEF ctrl
<1>1. UNCHANGED <<typed, char, q, at, mode>> /\ inFlight' = inFlight
  BY DEF inFlight, server
<1>2. CASE WriteByte("b")
  <2>1. /\ copying = data["b"] /\ copying # <<>> /\ copying \in Seq(Nat)
        /\ copying' = Tail(copying)
        /\ sent'["b"] = Append(sent["b"], Head(copying))
        /\ DOMAIN sent' = Side /\ DOMAIN data' = Side
    BY <1>2 DEF WriteByte, copying, InOrder, Stream
  <2>2. Head(copying) \in Nat /\ Tail(copying) \in Seq(Nat)
    BY <2>1
  <2>3. Stream'
    <3>1. sent["b"] \in Seq(Nat)
      BY Zenon DEF InOrder, Stream
    <3>2. Append(sent["b"], Head(copying)) \in Seq(Nat)
      BY <2>2, <3>1
    <3> QED
      BY <1>1, <2>1, <2>2, <3>2, Zenon DEF InOrder, Stream
  <2>4. inFlight \in Seq(Nat)
    BY DEF inFlight, InOrder, Stream
  <2>5. Placed(typed, Append(sent["b"], Head(copying)), Tail(copying), q, inFlight)
    <3>1. Last(Append(sent["b"], Head(copying)), sent["b"], Head(copying))
      BY <2>2, AppendLast DEF InOrder, Stream
    <3>2. First(copying, Head(copying), Tail(copying))
      BY <2>1, TailFirst
    <3>3. Len(q) \in Nat /\ Len(inFlight) \in Nat
      BY <2>4 DEF InOrder, Stream
    <3> QED
      BY <3>1, <3>2, <3>3, PlacedByte DEF InOrder
  <2> QED
    BY <1>1, <2>1, <2>3, <2>5 DEF InOrder
<1>3. CASE ~WriteByte("b")
  <2>1. copying' = copying
    BY <1>3, Zenon DEF Continue, WriteEnd, ReadByte, ReadEnd, Check, ClearLoad, ClearStore, Kick,
                ModifyStore, copying, IInv, Types, InOrder, Stream
  <2>2. UNCHANGED sent /\ DOMAIN data' = Side
    BY <1>3, Zenon DEF Continue, WriteEnd, ReadByte, ReadEnd, Check, ClearLoad, ClearStore, Kick,
                ModifyStore, InOrder, Stream
  <2> QED
    BY <1>1, <2>1, <2>2, StillInOrder DEF InOrder, Stream
<1> QED
  BY <1>2, <1>3

----------------------------------------------------------------------------
(* The steps of the loop that move a character.                            *)
LEMMA MoveInOrder ==
    ASSUME IInv, InOrder, FlushOne \/ TxQueue \/ TxWrite
    PROVE  InOrder'
<1> USE RingFacts DEF ctrl
<1>0. inFlight \in Seq(Nat) /\ UNCHANGED <<typed, char, mode, sent>>
  BY DEF inFlight, InOrder, Stream, FlushOne, TxQueue, TxWrite, WriteBegin, vars
<1>1. CASE FlushOne
  <2>1. /\ q # <<>> /\ q' = Tail(q) /\ at' = at /\ copying = <<>> /\ copying' = Head(q)
        /\ DOMAIN data' = Side
    BY <1>1 DEF FlushOne, HeadFits, WriteBegin, copying, InOrder, Stream, IInv, Types
  <2>a. First(q, Head(q), Tail(q)) /\ q \in Seq(Seq(Nat)) /\ Len(q) \in Nat
    BY <2>1, TailFirst DEF InOrder, Stream
  <2>b. Head(q) \in Seq(Nat) /\ Tail(q) \in Seq(Seq(Nat))
    BY <2>1, <2>a
  <2>c. ASSUME NEW k \in DOMAIN Tail(q) PROVE Len(Tail(q)[k]) = 1
    <3>1. k \in 1 .. Len(Tail(q)) /\ DOMAIN q = 1 .. Len(q)
      BY <2>a, <2>b
    <3>2. k + 1 \in 1 .. Len(q) /\ Tail(q)[k] = q[k + 1]
      BY <2>a, <3>1 DEF First
    <3> QED
      BY <3>1, <3>2 DEF InOrder, Stream
  <2>d. Len(Head(q)) = 1
    <3>1. 1 \in DOMAIN q /\ Head(q) = q[1]
      BY <2>1, <2>a
    <3> QED
      BY <3>1 DEF InOrder, Stream
  <2>3. inFlight' = inFlight
    BY <1>0, <2>1 DEF inFlight
  <2>4. Placed(typed, sent["b"], Head(q), Tail(q), inFlight)
    <3>1. Len(sent["b"]) \in Nat /\ Len(inFlight) \in Nat
      BY <1>0 DEF InOrder, Stream
    <3> QED
      BY <2>1, <2>a, <2>d, <3>1, PlacedHead DEF InOrder
  <2>5. Stream'
    BY <1>0, <2>1, <2>b, <2>c DEF InOrder, Stream
  <2> QED
    BY <1>0, <2>1, <2>3, <2>4, <2>5 DEF InOrder
<1>2. CASE TxQueue
  <2>1. /\ at = "tx" /\ mode = "irq" /\ q' = Append(q, char) /\ at' = "notify"
        /\ UNCHANGED <<data, pc>>
    BY <1>2, Zenon DEF TxQueue, vars, IInv, LoopPlaces
  <2>2. inFlight = char /\ inFlight' = <<>> /\ Len(char) = 1 /\ copying' = copying
    BY <2>1 DEF inFlight, copying, InOrder, Stream
  <2>3. /\ Append(q, char) \in Seq(Seq(Nat))
        /\ \A k \in DOMAIN Append(q, char) : Len(Append(q, char)[k]) = 1
    <3>1. q \in Seq(Seq(Nat)) /\ char \in Seq(Nat) /\ Len(q) \in Nat
      BY DEF InOrder, Stream
    <3>2. Append(q, char) \in Seq(Seq(Nat)) /\ Last(Append(q, char), q, char)
      BY <3>1, AppendLast
    <3>3. DOMAIN Append(q, char) = 1 .. Len(q) + 1 /\ DOMAIN q = 1 .. Len(q)
      BY <3>1, <3>2 DEF Last
    <3>4. \A k \in 1 .. Len(q) + 1 : k \in 1 .. Len(q) \/ k = Len(q) + 1
      BY <3>1
    <3> QED
      BY <2>2, <3>2, <3>3, <3>4 DEF Last, InOrder, Stream
  <2>4. Placed(typed, sent["b"], copying, Append(q, char), <<>>)
    <3>1. Len(sent["b"]) \in Nat /\ Len(copying) \in Nat /\ Last(Append(q, char), q, char)
      BY AppendLast DEF InOrder, Stream
    <3> QED
      BY <2>2, <3>1, PlacedLast DEF InOrder
  <2>5. Stream'
    BY <1>0, <2>1, <2>2, <2>3 DEF InOrder, Stream
  <2> QED
    BY <1>0, <2>1, <2>2, <2>4, <2>5 DEF InOrder
<1>3. CASE TxWrite
  <2>1. /\ at = "tx" /\ mode = "irq" /\ q = <<>> /\ q' = q /\ at' = "notify"
        /\ copying = <<>> /\ copying' = char /\ DOMAIN data' = Side
    BY <1>3, Zenon DEF TxWrite, WriteBegin, copying, InOrder, Stream, IInv, Types, LoopPlaces
  <2>2. inFlight = char /\ inFlight' = <<>> /\ char \in Seq(Nat)
    BY <2>1 DEF inFlight, InOrder, Stream
  <2>3. Placed(typed, sent["b"], char, <<>>, <<>>)
    <3>1. Len(sent["b"]) \in Nat /\ Len(char) \in Nat
      BY DEF InOrder, Stream
    <3> QED
      BY <2>1, <2>2, <3>1, PlacedWrite DEF InOrder
  <2>4. Stream'
    BY <1>0, <2>1, <2>2 DEF InOrder, Stream
  <2> QED
    BY <1>0, <2>1, <2>2, <2>3, <2>4 DEF InOrder
<1> QED
  BY <1>1, <1>2, <1>3

(* The steps of the loop and of the client's thread that move none.        *)
LEMMA LoopInOrder ==
    ASSUME IInv, InOrder,
           \/ EnableReadAtBoot \/ EnableWriteAtBoot \/ Poll \/ RxInto \/ RxNotify \/ RxEnable
           \/ FlushEnd \/ TxNotify \/ TxNoNotify \/ TxEnable \/ RecvCon \/ ConThread
    PROVE  InOrder'
<1> USE RingFacts DEF ctrl
<1>1. UNCHANGED <<typed, char, q, sent, data>>
  BY Zenon DEF EnableReadAtBoot, EnableWriteAtBoot, Poll, RxInto, RxNotify, RxEnable, FlushEnd,
         TxNotify, TxNoNotify, TxEnable, RecvCon, ConThread, ModifyLoad, ReadBegin, NotifyRead,
         NotifyWrite, WaitKick, vars
<1>2. copying' = copying
  <2>1. CASE RecvCon \/ ConThread \/ Poll \/ FlushEnd \/ TxNoNotify
    BY <1>1, <2>1, Zenon DEF copying, RecvCon, ConThread, WaitKick, Poll, FlushEnd, TxNoNotify, vars
  <2>2. CASE RxInto \/ RxNotify \/ TxNotify
    BY <1>1, <2>2 DEF copying, RxInto, RxNotify, TxNotify, ReadBegin, NotifyRead, NotifyWrite,
                      IInv, Types
  <2>3. CASE EnableReadAtBoot \/ EnableWriteAtBoot \/ RxEnable \/ TxEnable
    BY <1>1, <2>3, Zenon DEF copying, EnableReadAtBoot, EnableWriteAtBoot, RxEnable, TxEnable,
                      ModifyLoad, IInv, Types
  <2> QED
    BY <2>1, <2>2, <2>3
<1>3. \/ char = <<>> /\ (mode' = mode \/ mode' # "irq") /\ mode' # "irq"
      \/ mode' = "irq" /\ mode = "irq" /\ at = "flush" /\ at' = "tx"
      \/ mode' = "irq" /\ mode = "irq" /\ at \notin {"flush", "tx"} /\ at' = "reply"
      \/ mode' = mode /\ at' = at
  BY Zenon DEF EnableReadAtBoot, EnableWriteAtBoot, Poll, RxInto, RxNotify, RxEnable, FlushEnd,
         TxNotify, TxNoNotify, TxEnable, RecvCon, ConThread, AfterNotify, IInv, Types,
         LoopPlaces, InOrder, Stream
<1>4. inFlight' = inFlight
  BY <1>1, <1>3 DEF inFlight
<1> QED
  BY <1>1, <1>2, <1>3, <1>4, StillInOrder, Zenon DEF InOrder, Stream

(* A character comes; the handling of one ends.                            *)
LEMMA ReceiveInOrder ==
    ASSUME IInv, InOrder, RecvInterrupt \/ Reply
    PROVE  InOrder'
<1> USE RingFacts
<1>1. UNCHANGED <<q, sent, data>> /\ copying' = copying
  BY DEF RecvInterrupt, Reply, vars, copying
<1>2. CASE RecvInterrupt
  <2>1. /\ inFlight = <<>> /\ inFlight' = <<Len(typed)>> /\ typed' = Append(typed, Len(typed))
        /\ char' = <<Len(typed)>> /\ at' = "flush" /\ mode' = "irq"
    BY <1>2 DEF RecvInterrupt, inFlight
  <2>2. Len(typed) \in Nat
    BY DEF InOrder, Stream
  <2>3. Append(typed, Len(typed)) \in Seq(Nat) /\ <<Len(typed)>> \in Seq(Nat)
        /\ Len(<<Len(typed)>>) = 1
    BY <2>2 DEF InOrder, Stream
  <2>4. Placed(Append(typed, Len(typed)), sent["b"], copying, q, <<Len(typed)>>)
    <3>1. Len(sent["b"]) \in Nat /\ Len(copying) \in Nat /\ Len(q) \in Nat
      BY DEF InOrder, Stream
    <3>2. Last(Append(typed, Len(typed)), typed, Len(typed))
      BY <2>2, AppendLast DEF InOrder, Stream
    <3> QED
      BY <2>1, <3>1, <3>2, PlacedTyped DEF InOrder
  <2>5. Stream'
    BY <1>1, <2>1, <2>3 DEF InOrder, Stream
  <2> QED
    BY <1>1, <2>1, <2>4, <2>5 DEF InOrder
<1>3. CASE Reply
  <2>1. /\ at = "reply" /\ at' = "recv" /\ char' = <<>> /\ inFlight = <<>> /\ inFlight' = <<>>
        /\ typed' = typed
    BY <1>3 DEF Reply, inFlight
  <2> QED
    BY <1>1, <2>1 DEF InOrder, Stream
<1> QED
  BY <1>2, <1>3

(* Every step keeps the typed characters in their places.                  *)
LEMMA NextInOrder == IInv /\ InOrder /\ [LinkNext]_linkVars => InOrder'
<1> SUFFICES ASSUME IInv, InOrder, [LinkNext]_linkVars PROVE InOrder'
  OBVIOUS
<1>1. CASE UNCHANGED linkVars
  BY <1>1, Zenon DEF linkVars, vars, server, InOrder, Stream, copying, inFlight
<1> QED
  BY <1>1, ClientInOrder, ContinueInOrder, MoveInOrder, LoopInOrder, ReceiveInOrder
     DEF LinkNext, Server

(* What was typed is what went into the ring, then what is being copied,   *)
(* then the queue of the BufferedRingBuffer, then the character at hand,   *)
(* for rings of any size, any traffic and any interleaving with the        *)
(* client: tx() and flush_tx() neither lose, repeat nor reorder.           *)
THEOREM SpecInputInOrder == LinkSpec => []InputInOrder
<1>1. InOrder => InputInOrder
  <2> SUFFICES ASSUME InOrder PROVE InputInOrder
    OBVIOUS
  <2> DEFINE s == sent["b"]
             a == s \o copying
             b == a \o waiting
             d == b \o inFlight
  <2>1. /\ s \in Seq(Nat) /\ copying \in Seq(Nat) /\ inFlight \in Seq(Nat) /\ typed \in Seq(Nat)
        /\ q \in Seq(Seq(Nat)) /\ Placed(typed, s, copying, q, inFlight)
    BY DEF InOrder, Stream, inFlight
  <2>2. waiting \in Seq(Nat) /\ FirstBytes(waiting, q)
    <3>1. Len(q) \in Nat /\ DOMAIN q = 1 .. Len(q)
      BY <2>1
    <3>2. ASSUME NEW k \in 1 .. Len(q) PROVE q[k][1] \in Nat
      <4>1. q[k] \in Seq(Nat) /\ Len(q[k]) = 1
        <5>1. Len(q[k]) = 1
          BY <3>1, <3>2, Zenon DEF InOrder, Stream
        <5> QED
          BY <2>1, <3>2, <5>1
      <4> QED
        BY <4>1
    <3>3. waiting \in [1 .. Len(q) -> Nat] /\ \A k \in 1 .. Len(q) : waiting[k] = q[k][1]
      BY <3>1, <3>2 DEF waiting
    <3> QED
      BY <3>1, <3>3 DEF FirstBytes
  <2> HIDE DEF s
  <2>3. a \in Seq(Nat) /\ Both(a, s, copying)
    BY <2>1, ConcatBoth
  <2> HIDE DEF a
  <2>4. b \in Seq(Nat) /\ Both(b, a, waiting)
    BY <2>2, <2>3, ConcatBoth
  <2> HIDE DEF b
  <2>5. d \in Seq(Nat) /\ Both(d, b, inFlight)
    BY <2>1, <2>4, ConcatBoth
  <2> HIDE DEF d
  <2>6. Alike(typed, d)
    BY <2>1, <2>2, <2>3, <2>4, <2>5, PlacedAll, Zenon
  <2>7. typed = d
    BY <2>1, <2>5, <2>6, SameSeq
  <2> QED
    BY <2>7 DEF InputInOrder, s, a, b, d, InOrder, Stream
<1> QED
  BY <1>1, InitIInv, NextIInv, InitInOrder, NextInOrder, PTL DEF LinkSpec

----------------------------------------------------------------------------
(* The realizer of the resource server, for every set of realms and        *)
(* models.  No extern object is given out twice, and none is lost but by a *)
(* realize_finish() that fails: what the realizer, the subsystems and the  *)
(* subsystems dropped there hold is a partition of the extern objects.     *)
(* The allocator has no part in it.                                        *)

(* What the subsystems u, the realizer (x) and the lost ones (l) hold is   *)
(* apart.  By realm and not by record, since the records of two realms     *)
(* without extern objects may be the same.                                 *)
Apart(u, x, l) ==
    /\ \A r \in Realm : u[r].externs \cap x = {}
    /\ \A s \in l : s.externs \cap x = {}
    /\ \A r, g \in Realm : r # g => u[r].externs \cap u[g].externs = {}
    /\ \A s, t \in l : s # t => s.externs \cap t.externs = {}
    /\ \A r \in Realm, s \in l : u[r].externs \cap s.externs = {}

Holds(u, x, l, e) ==
    \/ e \in x
    \/ \E r \in Realm : e \in u[r].externs
    \/ \E s \in l : e \in s.externs

Parted(u, x, l) == Apart(u, x, l) /\ \A e \in Extern : Holds(u, x, l, e)

ExternInv ==
    /\ DOMAIN subsystem = Realm
    /\ \A r \in Realm : DOMAIN subsystem[r] = DOMAIN Absent
    /\ \A r \in Realm : subsystem[r].state # "live" => subsystem[r].externs = {}
    /\ Parted(subsystem, externs, lost)

(* What is apart is nowhere twice.                                         *)
LEMMA ApartAt ==
    ASSUME NEW u, NEW x, NEW l, NEW e, Apart(u, x, l)
    PROVE  /\ \A r \in Realm : ~(e \in u[r].externs /\ e \in x)
           /\ \A s \in l : ~(e \in s.externs /\ e \in x)
           /\ \A r, g \in Realm : e \in u[r].externs /\ e \in u[g].externs => r = g
           /\ \A s, t \in l : e \in s.externs /\ e \in t.externs => s = t
           /\ \A r \in Realm, s \in l : ~(e \in u[r].externs /\ e \in s.externs)
<1>1. \A y, z : y \cap z = {} => ~(e \in y /\ e \in z)
  BY Zenon
<1> QED
  BY <1>1, Zenon DEF Apart

(* A subsystem changes, and not what it holds.                             *)
LEMMA KeepExterns ==
    ASSUME NEW u, NEW v, NEW x, NEW l, Parted(u, x, l), \A r \in Realm : v[r].externs = u[r].externs
    PROVE  Parted(v, x, l)
<1>1. Apart(v, x, l)
  BY Zenon DEF Parted, Apart
<1>2. ASSUME NEW e \in Extern PROVE Holds(v, x, l, e)
  BY Zenon DEF Parted, Holds
<1> QED
  BY <1>1, <1>2, Zenon DEF Parted

(* A subsystem gets some of what the realizer holds.                       *)
LEMMA GiveExterns ==
    ASSUME NEW u, NEW v, NEW x, NEW l, Parted(u, x, l), NEW r \in Realm, u[r].externs = {},
           v[r].externs \subseteq x, \A g \in Realm : g # r => v[g] = u[g]
    PROVE  Parted(v, x \ v[r].externs, l)
<1> DEFINE y == x \ v[r].externs
<1>1. \A g \in Realm : v[g].externs \cap y = {}
  BY Zenon DEF Parted, Apart
<1>2. \A s \in l : s.externs \cap y = {}
  BY Zenon DEF Parted, Apart
<1>3. \A p, g \in Realm : p # g => v[p].externs \cap v[g].externs = {}
  BY Zenon DEF Parted, Apart
<1>4. \A g \in Realm, s \in l : v[g].externs \cap s.externs = {}
  BY Zenon DEF Parted, Apart
<1>5. Apart(v, y, l)
  BY <1>1, <1>2, <1>3, <1>4, Zenon DEF Parted, Apart
<1>6. ASSUME NEW e \in Extern PROVE Holds(v, y, l, e)
  <2>1. Holds(u, x, l, e)
    BY Zenon DEF Parted
  <2> QED
    BY <2>1, Zenon DEF Holds
<1> QED
  BY <1>5, <1>6, Zenon DEF Parted

(* Some of what the realizer holds is lost.                                *)
LEMMA LoseExterns ==
    ASSUME NEW u, NEW x, NEW l, Parted(u, x, l), NEW s, s.externs \subseteq x
    PROVE  Parted(u, x \ s.externs, l \cup {s})
<1> DEFINE y == x \ s.externs
           m == l \cup {s}
<1>1. \A g \in Realm : u[g].externs \cap y = {}
  BY DEF Parted, Apart
<1>2. \A t \in m : t.externs \cap y = {}
  BY DEF Parted, Apart
<1>3. \A p, g \in m : p # g => p.externs \cap g.externs = {}
  BY DEF Parted, Apart
<1>4. \A g \in Realm, t \in m : u[g].externs \cap t.externs = {}
  BY DEF Parted, Apart
<1>5. Apart(u, y, m)
  BY <1>1, <1>2, <1>3, <1>4, Zenon DEF Parted, Apart
<1>6. ASSUME NEW e \in Extern PROVE Holds(u, y, m, e)
  <2>1. Holds(u, x, l, e)
    BY Zenon DEF Parted
  <2> QED
    BY <2>1 DEF Holds
<1> QED
  BY <1>5, <1>6, Zenon DEF Parted

(* What a subsystem holds goes back.                                       *)
LEMMA ReturnExterns ==
    ASSUME NEW u, NEW v, NEW x, NEW l, Parted(u, x, l), NEW r \in Realm, v[r].externs = {},
           \A g \in Realm : g # r => v[g] = u[g]
    PROVE  Parted(v, x \cup u[r].externs, l)
<1> DEFINE y == x \cup u[r].externs
<1>1. \A g \in Realm : v[g].externs \cap y = {}
  BY Zenon DEF Parted, Apart
<1>2. \A s \in l : s.externs \cap y = {}
  BY Zenon DEF Parted, Apart
<1>3. \A p, g \in Realm : p # g => v[p].externs \cap v[g].externs = {}
  BY Zenon DEF Parted, Apart
<1>4. \A g \in Realm, s \in l : v[g].externs \cap s.externs = {}
  BY Zenon DEF Parted, Apart
<1>5. Apart(v, y, l)
  BY <1>1, <1>2, <1>3, <1>4, Zenon DEF Parted, Apart
<1>6. ASSUME NEW e \in Extern PROVE Holds(v, y, l, e)
  <2>1. Holds(u, x, l, e)
    BY Zenon DEF Parted
  <2> QED
    BY <2>1 DEF Holds
<1> QED
  BY <1>5, <1>6, Zenon DEF Parted

(* One subsystem changes.                                                  *)
LEMMA OneSubsystem ==
    ASSUME ExternInv, NEW r \in Realm, NEW s, subsystem' = [subsystem EXCEPT ![r] = s],
           DOMAIN s = DOMAIN Absent, s.state # "live" => s.externs = {},
           Parted(subsystem', externs', lost')
    PROVE  ExternInv'
<1>1. /\ DOMAIN subsystem' = Realm /\ subsystem'[r] = s
      /\ \A g \in Realm : g # r => subsystem'[g] = subsystem[g]
  BY DEF ExternInv
<1>2. \A g \in Realm : DOMAIN subsystem'[g] = DOMAIN Absent
  BY <1>1, Zenon DEF ExternInv
<1>3. \A g \in Realm : subsystem'[g].state # "live" => subsystem'[g].externs = {}
  BY <1>1, Zenon DEF ExternInv
<1> QED
  BY <1>1, <1>2, <1>3, Zenon DEF ExternInv

(* Before the specification is loaded nothing is allocated.                *)
LEMMA InitExternInv == RealizerInit => ExternInv
<1> SUFFICES ASSUME RealizerInit PROVE ExternInv
  OBVIOUS
<1>1. subsystem = [r \in Realm |-> Absent] /\ externs = Extern /\ lost = {}
  BY Zenon DEF RealizerInit
<1>2. Absent.externs = {}
  BY Zenon DEF Absent
<1>3. DOMAIN subsystem = Realm /\ \A r \in Realm : subsystem[r] = Absent
  BY <1>1, Zenon
<1>4. Parted(subsystem, externs, lost)
  BY <1>1, <1>2, <1>3, Zenon DEF Parted, Apart, Holds
<1> QED
  BY <1>2, <1>3, <1>4, Zenon DEF ExternInv

(* realize_start() moves no extern object.                                 *)
LEMMA StartExternInv ==
    ASSUME ExternInv, NEW m \in Node, NEW r \in Realm, realize_start(m, r)
    PROVE  ExternInv'
<1>1. externs' = externs /\ lost' = lost
  BY Zenon DEF realize_start
<1>2. CASE subsystem' = subsystem
  BY <1>1, <1>2, Zenon DEF ExternInv
<1>3. ASSUME NEW c, NEW k, NEW o,
             subsystem' = [subsystem EXCEPT ![r] =
                 [state |-> "partial", cnode |-> c, slot |-> k, objects |-> o, externs |-> {}]]
      PROVE  ExternInv'
  <2> DEFINE s == [state |-> "partial", cnode |-> c, slot |-> k, objects |-> o, externs |-> {}]
  <2>1. s.externs = {} /\ DOMAIN s = DOMAIN Absent
    BY Zenon DEF Absent
  <2>2. subsystem[r] = Absent
    BY Zenon DEF realize_start
  <2>3. subsystem[r].externs = {}
    <3>1. Absent.externs = {}
      BY Zenon DEF Absent
    <3> QED
      BY <2>2, <3>1, Zenon
  <2>4. subsystem' = [subsystem EXCEPT ![r] = s]
    BY <1>3, Zenon
  <2> HIDE DEF s
  <2>5. subsystem'[r] = s /\ \A g \in Realm : g # r => subsystem'[g] = subsystem[g]
    BY <2>4, Zenon DEF ExternInv
  <2>6. \A g \in Realm : subsystem'[g].externs = subsystem[g].externs
    BY <2>1, <2>3, <2>5, Zenon
  <2>7. Parted(subsystem', externs', lost')
    BY <1>1, <2>6, KeepExterns, Zenon DEF ExternInv
  <2> QED
    BY <2>1, <2>4, <2>7, OneSubsystem, Zenon
<1>4. \/ subsystem' = subsystem
      \/ \E c, k, o : subsystem' = [subsystem EXCEPT ![r] =
             [state |-> "partial", cnode |-> c, slot |-> k, objects |-> o, externs |-> {}]]
  BY Zenon DEF realize_start, Realized
<1> QED
  BY <1>2, <1>3, <1>4, Zenon

(* realize_finish(): the externs move to the subsystem, live or lost.      *)
LEMMA FinishExternInv ==
    ASSUME ExternInv, NEW m \in Node, NEW r \in Realm, realize_finish(m, r)
    PROVE  ExternInv'
<1>1. CASE FinishPanic(r) # "no"
  <2>1. UNCHANGED <<subsystem, externs, lost>>
    BY <1>1, Zenon DEF realize_finish
  <2> QED
    BY <2>1, Zenon DEF ExternInv
<1>2. CASE FinishPanic(r) = "no"
  <2> DEFINE s == [subsystem[r] EXCEPT !.state = "live", !.externs = ExternsOf[r]]
  <2>1. ExternsOf[r] \subseteq externs
    BY <1>2, Zenon DEF FinishPanic
  <2>2. externs' = externs \ ExternsOf[r] /\ subsystem[r].state = "partial"
    BY <1>2, Zenon DEF realize_finish
  <2>3. subsystem[r].externs = {}
    BY <2>2, Zenon DEF ExternInv
  <2>4. DOMAIN subsystem[r] = DOMAIN Absent
    BY Zenon DEF ExternInv
  <2>5. s.state = "live" /\ s.externs = ExternsOf[r] /\ DOMAIN s = DOMAIN Absent
    BY <2>4 DEF Absent
  <2>6. /\ r \in refused => subsystem' = [subsystem EXCEPT ![r] = Absent] /\ lost' = lost \cup {s}
        /\ r \notin refused => subsystem' = [subsystem EXCEPT ![r] = s] /\ lost' = lost
    BY <1>2, Zenon DEF realize_finish
  <2> HIDE DEF s
  <2>7. CASE r \in refused
    <3>1. Absent.externs = {}
      BY Zenon DEF Absent
    <3>2. subsystem'[r] = Absent /\ \A g \in Realm : g # r => subsystem'[g] = subsystem[g]
      BY <2>6, <2>7, Zenon DEF ExternInv
    <3>3. \A g \in Realm : subsystem'[g].externs = subsystem[g].externs
      BY <2>3, <3>1, <3>2, Zenon
    <3>4. Parted(subsystem, externs', lost')
      <4>1. s.externs \subseteq externs /\ externs' = externs \ s.externs /\ lost' = lost \cup {s}
        BY <2>1, <2>2, <2>5, <2>6, <2>7, Zenon
      <4>2. Parted(subsystem, externs, lost)
        BY Zenon DEF ExternInv
      <4>3. Parted(subsystem, externs \ s.externs, lost \cup {s})
        BY <4>1, <4>2, LoseExterns, Zenon
      <4> QED
        BY <4>1, <4>3, Zenon
    <3>5. Parted(subsystem', externs', lost')
      BY <3>3, <3>4, KeepExterns, Zenon
    <3> QED
      BY <2>6, <2>7, <3>1, <3>5, OneSubsystem, Zenon
  <2>8. CASE r \notin refused
    <3>1. subsystem'[r] = s /\ \A g \in Realm : g # r => subsystem'[g] = subsystem[g]
      BY <2>6, <2>8, Zenon DEF ExternInv
    <3>2. Parted(subsystem', externs', lost')
      <4>1. /\ subsystem'[r].externs \subseteq externs /\ lost' = lost
            /\ externs' = externs \ subsystem'[r].externs
        BY <2>1, <2>2, <2>5, <2>6, <2>8, <3>1, Zenon
      <4>2. Parted(subsystem, externs, lost)
        BY Zenon DEF ExternInv
      <4>3. Parted(subsystem', externs \ subsystem'[r].externs, lost)
        BY <2>3, <3>1, <4>1, <4>2, GiveExterns, Zenon
      <4> QED
        BY <4>1, <4>3, Zenon
    <3> QED
      BY <2>5, <2>6, <2>8, <3>2, OneSubsystem, Zenon
  <2> QED
    BY <2>7, <2>8, Zenon
<1> QED
  BY <1>1, <1>2, Zenon

(* destroy(): they go back to the realizer.                                *)
LEMMA DestroyExternInv ==
    ASSUME ExternInv, NEW m \in Node, NEW r \in Realm, destroy(m, r)
    PROVE  ExternInv'
<1>1. /\ externs' = externs \cup subsystem[r].externs
      /\ subsystem' = [subsystem EXCEPT ![r] = Absent]
      /\ lost' = lost
  BY Zenon DEF destroy
<1>2. Absent.externs = {}
  BY Zenon DEF Absent
<1>3. subsystem'[r] = Absent /\ \A g \in Realm : g # r => subsystem'[g] = subsystem[g]
  BY <1>1, Zenon DEF ExternInv
<1>4. Parted(subsystem', externs', lost')
  BY <1>1, <1>2, <1>3, ReturnExterns, Zenon DEF ExternInv
<1> QED
  BY <1>1, <1>2, <1>4, OneSubsystem, Zenon

(* Every step of the realization and of destroy() preserves it.            *)
LEMMA NextExternInv == ExternInv /\ [RealizerNext]_realizerVars => ExternInv'
<1> SUFFICES ASSUME ExternInv, [RealizerNext]_realizerVars PROVE ExternInv'
  OBVIOUS
<1>1. ASSUME NEW m \in Node, NEW r \in Realm, realize_continue(m, r) PROVE ExternInv'
  <2>1. UNCHANGED <<subsystem, externs, lost>>
    BY <1>1, Zenon DEF realize_continue
  <2> QED
    BY <2>1, Zenon DEF ExternInv
<1>2. CASE UNCHANGED realizerVars
  <2>1. UNCHANGED <<subsystem, externs, lost>>
    BY <1>2, Zenon DEF realizerVars
  <2> QED
    BY <2>1, Zenon DEF ExternInv
<1> QED
  BY <1>1, <1>2, StartExternInv, FinishExternInv, DestroyExternInv, Zenon DEF RealizerNext

(* What was dropped, and that it took a thread with it.                    *)
LostInv ==
    /\ serving \subseteq Node /\ (lost # {} => serving # Node)
    /\ \A s \in lost : \E r \in refused : s.externs = ExternsOf[r]

(* Only a realize_finish() that initialize() refused drops something.      *)
LEMMA NextLostInv == ExternInv /\ LostInv /\ [RealizerNext]_realizerVars => LostInv'
<1> SUFFICES ASSUME ExternInv, LostInv, [RealizerNext]_realizerVars PROVE LostInv'
  OBVIOUS
<1>0. refused' = refused
  BY Zenon DEF RealizerNext, realizerVars
<1>1. CASE lost' = lost /\ serving' \subseteq serving
  <2>1. serving' \subseteq Node /\ (serving' = Node => serving = Node)
    BY <1>1, Zenon DEF LostInv
  <2> QED
    BY <1>0, <1>1, <2>1, Zenon DEF LostInv
<1>2. ASSUME NEW m \in Node, NEW r \in Realm, r \in refused,
             lost' = lost \cup {[subsystem[r] EXCEPT !.state = "live", !.externs = ExternsOf[r]]},
             serving' = serving \ {m}
      PROVE  LostInv'
  <2> DEFINE s == [subsystem[r] EXCEPT !.state = "live", !.externs = ExternsOf[r]]
  <2>1. DOMAIN subsystem[r] = DOMAIN Absent
    BY Zenon DEF ExternInv
  <2>2. s.externs = ExternsOf[r]
    BY <2>1 DEF Absent
  <2>3. lost' = lost \cup {s}
    BY <1>2, Zenon
  <2> HIDE DEF s
  <2>4. \A t \in lost' : \E g \in refused : t.externs = ExternsOf[g]
    BY <1>2, <2>2, <2>3, Zenon DEF LostInv
  <2>5. serving' \subseteq Node /\ serving' # Node
    BY <1>2, Zenon DEF LostInv
  <2> QED
    BY <1>0, <2>4, <2>5, Zenon DEF LostInv
<1>3. ASSUME NEW m \in Node, NEW r \in Realm, realize_finish(m, r) PROVE LostInv'
  <2>1. CASE lost' = lost /\ serving' = serving
    BY <1>1, <2>1, Zenon
  <2>2. CASE ~(lost' = lost /\ serving' = serving)
    BY <1>2, <1>3, <2>2, Zenon DEF realize_finish
  <2> QED
    BY <2>1, <2>2, Zenon
<1>4. ASSUME NEW m \in Node, NEW r \in Realm,
             realize_start(m, r) \/ realize_continue(m, r) \/ destroy(m, r)
      PROVE  lost' = lost /\ serving' \subseteq serving
  BY <1>4, Zenon DEF realize_start, realize_continue, destroy
<1>5. CASE UNCHANGED realizerVars
  <2>1. lost' = lost /\ serving' \subseteq serving
    BY <1>5, Zenon DEF realizerVars
  <2> QED
    BY <1>1, <2>1, Zenon
<1> QED
  BY <1>1, <1>3, <1>4, <1>5, Zenon DEF RealizerNext

(* No extern object is with two of the realizer and the realms, and one    *)
(* that is with none of them was dropped by a realize_finish() that        *)
(* initialize() refused, for any realms and models.                        *)
THEOREM SpecExternHasOneHolder == RealizerSpec => []ExternHasOneHolder
<1>1. RealizerInit => LostInv
  BY Zenon DEF RealizerInit, LostInv
<1>2. ExternInv /\ LostInv => ExternHasOneHolder
  <2> SUFFICES ASSUME ExternInv, LostInv, NEW e \in Extern
               PROVE  /\ \A g, r \in Holders(e) : g = r
                      /\ e \in externs => Holders(e) = {}
                      /\ e \notin externs /\ Holders(e) = {} =>
                            serving # Node /\ \E r \in refused : e \in ExternsOf[r]
    BY Zenon DEF ExternHasOneHolder
  <2>1. Apart(subsystem, externs, lost) /\ Holds(subsystem, externs, lost, e)
    BY Zenon DEF ExternInv, Parted
  <2>2. \A r : r \in Holders(e) <=> r \in Realm /\ e \in subsystem[r].externs
    BY Zenon DEF Holders
  <2>3. /\ \A g, r \in Holders(e) : g = r
        /\ e \in externs => \A r : r \notin Holders(e)
    <3>1. /\ \A r \in Realm : ~(e \in subsystem[r].externs /\ e \in externs)
          /\ \A r, g \in Realm : e \in subsystem[r].externs /\ e \in subsystem[g].externs => r = g
      BY <2>1, ApartAt, Zenon
    <3> QED
      BY <2>2, <3>1, Zenon
  <2>4. ASSUME e \notin externs, Holders(e) = {}
        PROVE  serving # Node /\ \E r \in refused : e \in ExternsOf[r]
    <3>1. PICK s \in lost : e \in s.externs
      BY <2>1, <2>2, <2>4, Zenon DEF Holds
    <3> QED
      BY <3>1, Zenon DEF LostInv
  <2> QED
    BY <2>3, <2>4, Zenon
<1> QED
  BY <1>1, <1>2, InitExternInv, NextExternInv, NextLostInv, PTL DEF RealizerSpec
=============================================================================
