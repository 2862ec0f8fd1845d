----------------------------- MODULE RingBuffer -----------------------------
(***************************************************************************)
(* icecap-ring-buffer: two rings in shared memory between two components,  *)
(* one per direction.  Each side owns a control block that it writes and   *)
(* the peer reads: how far it has read, how far it has written, and a      *)
(* status word with two request bits ("kick me when you have written /     *)
(* read").  The peer clears a bit of that word when it kicks, so both      *)
(* sides write it, and a register modify() is a load and a later store.    *)
(*                                                                         *)
(* Every access to shared memory is a step of its own: a byte of a copy,   *)
(* an offset, a load or a store of a status word.  Offsets count bytes     *)
(* since boot (u64; the code never wraps them).  A side may be destroyed   *)
(* at any step and come back with resume(), as a realm does.  The callers  *)
(* are the most general ones that poll before they read or write.          *)
(***************************************************************************)
EXTENDS Naturals, Sequences

CONSTANTS
    Size,           \* Size[s]: bytes of the ring that s writes
    Byte,           \* byte values
    MaxBytes,       \* bound: MaxBytes[s] bytes of s's stream
    UsedBits        \* the request bits that the callers set and reset

Side == {"a", "b"}

Bit == {"NOTIFY_READ", "NOTIFY_WRITE"}

ASSUME SizeAssumption == Size \in [Side -> Nat \ {0}]
ASSUME MaxBytesAssumption == MaxBytes \in [Side -> Nat]
ASSUME ByteAssumption == Byte # {}
ASSUME UsedBitsAssumption == UsedBits \subseteq Bit

Peer(s) == IF s = "a" THEN "b" ELSE "a"

VARIABLES
    offset_r,       \* control block of s: bytes s says it has consumed
    offset_w,       \* control block of s: bytes s has published
    status,         \* control block of s: the bits of its status word that are 1
    buf,            \* buf[s]: the ring s writes
    private_r,      \* RingBuffer.private_offset_r of s
    private_w,      \* RingBuffer.private_offset_w of s
    kicked,         \* the sides whose notification holds a kick
    pc,             \* the operation each side is in
    data,           \* write(): bytes still to copy; peek(): bytes copied
    n,              \* write(), peek(): length of the caller's slice
    word,           \* modify(): the bit, its new value, and the word loaded
    sent            \* history: the stream s has put into its ring

ctrl == <<offset_r, offset_w, status>>
private == <<private_r, private_w>>
vars == <<ctrl, buf, private, kicked, pc, data, n, word, sent>>

PC == {"idle", "write", "read", "check", "load", "store", "kick", "modify"}

Word == [bit : Bit, val : {0, 1}, old : SUBSET Bit]

NoWord == [bit |-> "NOTIFY_READ", val |-> 0, old |-> {}]

Init ==
    /\ offset_r = [s \in Side |-> 0]
    /\ offset_w = [s \in Side |-> 0]
    /\ status = [s \in Side |-> {}]
    /\ buf = [s \in Side |-> [i \in 0..(Size[s] - 1) |-> CHOOSE b \in Byte : TRUE]]
    /\ private_r = [s \in Side |-> 0]
    /\ private_w = [s \in Side |-> 0]
    /\ kicked = {}
    /\ pc = [s \in Side |-> "idle"]
    /\ data = [s \in Side |-> <<>>]
    /\ n = [s \in Side |-> 0]
    /\ word = [s \in Side |-> NoWord]
    /\ sent = [s \in Side |-> <<>>]

----------------------------------------------------------------------------
(* The polls; OffsetsOrdered says that their assertions hold.              *)
poll_read(s) == offset_w[Peer(s)] - private_r[s]

(* Mutant: the byte that has to stay free is counted.                      *)
Mut_poll_write(s) == Size[s] - (private_w[s] - offset_r[Peer(s)])

poll_write(s) == Size[s] - (private_w[s] - offset_r[Peer(s)]) - 1

----------------------------------------------------------------------------
(* write(): the copy goes byte by byte, then private_offset_w moves.       *)
WriteBegin(s, bytes) ==
    /\ pc[s] = "idle"
    /\ bytes # <<>>
    /\ Len(bytes) <= poll_write(s)
    /\ Len(sent[s]) + Len(bytes) <= MaxBytes[s]
    /\ data' = [data EXCEPT ![s] = bytes]
    /\ n' = [n EXCEPT ![s] = Len(bytes)]
    /\ pc' = [pc EXCEPT ![s] = "write"]
    /\ UNCHANGED <<ctrl, buf, private, kicked, word, sent>>

(* Mutant: the copy begins at the published offset, not the private one.   *)
Mut_WriteByte(s) ==
    /\ pc[s] = "write"
    /\ data[s] # <<>>
    /\ LET offset == offset_w[s] + (n[s] - Len(data[s]))
       IN  buf' = [buf EXCEPT ![s][offset % Size[s]] = Head(data[s])]
    /\ data' = [data EXCEPT ![s] = Tail(@)]
    /\ sent' = [sent EXCEPT ![s] = Append(@, Head(data[s]))]
    /\ UNCHANGED <<ctrl, private, kicked, pc, n, word>>

WriteByte(s) ==
    /\ pc[s] = "write"
    /\ data[s] # <<>>
    /\ LET offset == private_w[s] + (n[s] - Len(data[s]))
       IN  buf' = [buf EXCEPT ![s][offset % Size[s]] = Head(data[s])]
    /\ data' = [data EXCEPT ![s] = Tail(@)]
    /\ sent' = [sent EXCEPT ![s] = Append(@, Head(data[s]))]
    /\ UNCHANGED <<ctrl, private, kicked, pc, n, word>>

WriteEnd(s) ==
    /\ pc[s] = "write"
    /\ data[s] = <<>>
    /\ private_w' = [private_w EXCEPT ![s] = @ + n[s]]
    /\ n' = [n EXCEPT ![s] = 0]
    /\ pc' = [pc EXCEPT ![s] = "idle"]
    /\ UNCHANGED <<ctrl, buf, private_r, kicked, data, word, sent>>

(* read(): peek() copies byte by byte, then skip() moves private_offset_r. *)
ReadBegin(s, len) ==
    /\ pc[s] = "idle"
    /\ len # 0
    /\ len <= poll_read(s)
    /\ n' = [n EXCEPT ![s] = len]
    /\ pc' = [pc EXCEPT ![s] = "read"]
    /\ UNCHANGED <<ctrl, buf, private, kicked, data, word, sent>>

ReadByte(s) ==
    /\ pc[s] = "read"
    /\ Len(data[s]) < n[s]
    /\ LET offset == private_r[s] + Len(data[s])
       IN  data' = [data EXCEPT ![s] = Append(@, buf[Peer(s)][offset % Size[Peer(s)]])]
    /\ UNCHANGED <<ctrl, buf, private, kicked, pc, n, word, sent>>

ReadEnd(s) ==
    /\ pc[s] = "read"
    /\ Len(data[s]) = n[s]
    /\ private_r' = [private_r EXCEPT ![s] = @ + n[s]]
    /\ data' = [data EXCEPT ![s] = <<>>]
    /\ n' = [n EXCEPT ![s] = 0]
    /\ pc' = [pc EXCEPT ![s] = "idle"]
    /\ UNCHANGED <<ctrl, buf, private_w, kicked, word, sent>>

----------------------------------------------------------------------------
(* notify_read() and notify_write(): publish, then kick if asked to.       *)
NotifyRead(s) ==
    /\ pc[s] = "idle"
    /\ offset_r' = [offset_r EXCEPT ![s] = private_r[s]]
    /\ word' = [word EXCEPT ![s] = [NoWord EXCEPT !.bit = "NOTIFY_WRITE"]]
    /\ pc' = [pc EXCEPT ![s] = "check"]
    /\ UNCHANGED <<offset_w, status, buf, private, kicked, data, n, sent>>

NotifyWrite(s) ==
    /\ pc[s] = "idle"
    /\ offset_w' = [offset_w EXCEPT ![s] = private_w[s]]
    /\ word' = [word EXCEPT ![s] = [NoWord EXCEPT !.bit = "NOTIFY_READ"]]
    /\ pc' = [pc EXCEPT ![s] = "check"]
    /\ UNCHANGED <<offset_r, status, buf, private, kicked, data, n, sent>>

Check(s) ==
    /\ pc[s] = "check"
    /\ \/ /\ word[s].bit \in status[Peer(s)]
          /\ pc' = [pc EXCEPT ![s] = "load"]
          /\ UNCHANGED word
       \/ /\ word[s].bit \notin status[Peer(s)]
          /\ pc' = [pc EXCEPT ![s] = "idle"]
          /\ word' = [word EXCEPT ![s] = NoWord]
    /\ UNCHANGED <<ctrl, buf, private, kicked, data, n, sent>>

ClearLoad(s) ==
    /\ pc[s] = "load"
    /\ word' = [word EXCEPT ![s].old = status[Peer(s)]]
    /\ pc' = [pc EXCEPT ![s] = "store"]
    /\ UNCHANGED <<ctrl, buf, private, kicked, data, n, sent>>

ClearStore(s) ==
    /\ pc[s] = "store"
    /\ status' = [status EXCEPT ![Peer(s)] = word[s].old \ {word[s].bit}]
    /\ pc' = [pc EXCEPT ![s] = "kick"]
    /\ UNCHANGED <<offset_r, offset_w, buf, private, kicked, data, n, word, sent>>

Kick(s) ==
    /\ pc[s] = "kick"
    /\ kicked' = kicked \cup {Peer(s)}
    /\ pc' = [pc EXCEPT ![s] = "idle"]
    /\ word' = [word EXCEPT ![s] = NoWord]
    /\ UNCHANGED <<ctrl, buf, private, data, n, sent>>

(* enable_notify_read/write() and disable_notify_read/write().             *)
ModifyLoad(s, bit, val) ==
    /\ pc[s] = "idle"
    /\ word' = [word EXCEPT ![s] = [bit |-> bit, val |-> val, old |-> status[s]]]
    /\ pc' = [pc EXCEPT ![s] = "modify"]
    /\ UNCHANGED <<ctrl, buf, private, kicked, data, n, sent>>

ModifyStore(s) ==
    /\ pc[s] = "modify"
    /\ status' = [status EXCEPT ![s] = IF word[s].val = 1
                                       THEN word[s].old \cup {word[s].bit}
                                       ELSE word[s].old \ {word[s].bit}]
    /\ pc' = [pc EXCEPT ![s] = "idle"]
    /\ word' = [word EXCEPT ![s] = NoWord]
    /\ UNCHANGED <<offset_r, offset_w, buf, private, kicked, data, n, sent>>

----------------------------------------------------------------------------
(* Mutant: the side is set up anew, and its control block with it.         *)
Mut_Resume(s) ==
    /\ offset_r' = [offset_r EXCEPT ![s] = 0] /\ offset_w' = [offset_w EXCEPT ![s] = 0]
    /\ private_r' = [private_r EXCEPT ![s] = 0] /\ private_w' = [private_w EXCEPT ![s] = 0]
    /\ pc' = [pc EXCEPT ![s] = "idle"]
    /\ data' = [data EXCEPT ![s] = <<>>]
    /\ n' = [n EXCEPT ![s] = 0]
    /\ word' = [word EXCEPT ![s] = NoWord]
    /\ sent' = [sent EXCEPT ![s] = <<>>]
    /\ UNCHANGED <<status, buf, kicked>>

(* Destruction at any step, then resume(): the private offsets restart     *)
(* from the control block.  What was not published is gone.                *)
Resume(s) ==
    /\ private_r' = [private_r EXCEPT ![s] = offset_r[s]]
    /\ private_w' = [private_w EXCEPT ![s] = offset_w[s]]
    /\ pc' = [pc EXCEPT ![s] = "idle"]
    /\ data' = [data EXCEPT ![s] = <<>>]
    /\ n' = [n EXCEPT ![s] = 0]
    /\ word' = [word EXCEPT ![s] = NoWord]
    /\ sent' = [sent EXCEPT ![s] = SubSeq(@, 1, offset_w[s])]
    /\ UNCHANGED <<ctrl, buf, kicked>>

(* The owner of s's notification consumes the kick.                        *)
WaitKick(s) ==
    /\ s \in kicked
    /\ kicked' = kicked \ {s}
    /\ UNCHANGED <<ctrl, buf, private, pc, data, n, word, sent>>

----------------------------------------------------------------------------
(* The steps of operations already begun.                                  *)
Continue(s) ==
    \/ WriteByte(s) \/ WriteEnd(s) \/ ReadByte(s) \/ ReadEnd(s)
    \/ Check(s) \/ ClearLoad(s) \/ ClearStore(s) \/ Kick(s) \/ ModifyStore(s)

Next == \E s \in Side :
    \/ \E len \in 1..(Size[s] - 1) : \E bytes \in [1..len -> Byte] : WriteBegin(s, bytes)
    \/ \E len \in 1..Size[Peer(s)] : ReadBegin(s, len)
    \/ NotifyRead(s) \/ NotifyWrite(s)
    \/ \E bit \in UsedBits, val \in {0, 1} : ModifyLoad(s, bit, val)
    \/ Continue(s)
    \/ Resume(s)
    \/ WaitKick(s)

Spec == Init /\ [][Next]_vars

----------------------------------------------------------------------------
TypeOK ==
    /\ offset_r \in [Side -> Nat] /\ offset_w \in [Side -> Nat]
    /\ private_r \in [Side -> Nat] /\ private_w \in [Side -> Nat]
    /\ status \in [Side -> SUBSET Bit]
    /\ kicked \subseteq Side
    /\ pc \in [Side -> PC]
    /\ n \in [Side -> Nat]
    /\ word \in [Side -> Word]
    /\ data \in [Side -> Seq(Byte)]
    /\ sent \in [Side -> Seq(Byte)]
    /\ DOMAIN buf = Side
    /\ \A s \in Side : buf[s] \in [0..(Size[s] - 1) -> Byte]

(* For each direction, the four offsets that the two sides hold are in     *)
(* order, and the ring is never full.  So the assertions of poll_read()    *)
(* and poll_write() hold at any step of either side, the unsigned          *)
(* subtraction in poll_write() cannot wrap, and no unread byte is          *)
(* overwritten, also when a side is destroyed between the copy and its     *)
(* publication and resumes.                                                *)
OffsetsOrdered ==
    \A s \in Side : LET p == Peer(s) IN
        /\ offset_r[p] <= private_r[p]
        /\ private_r[p] <= offset_w[s]
        /\ offset_w[s] <= private_w[s]
        /\ private_w[s] <= offset_r[p] + (Size[s] - 1)

(* The bytes a read() returns are the bytes of the peer's stream at that   *)
(* position: nothing lost, repeated, reordered or torn, whatever the       *)
(* writer is copying meanwhile.                                            *)
ReadsWhatWasSent ==
    \A s \in Side : pc[s] = "read" =>
        \A i \in 1..Len(data[s]) :
            /\ private_r[s] + i <= Len(sent[Peer(s)])
            /\ data[s][i] = sent[Peer(s)][private_r[s] + i]

Publication(s) ==
    /\ offset_r[s] <= offset_r'[s]
    /\ offset_w[s] <= offset_w'[s]
    /\ \A i \in 1..offset_w[s] : i <= Len(sent'[s]) /\ sent'[s][i] = sent[s][i]

(* Published offsets only grow, across destruction and resume() too, and   *)
(* the published part of a stream is never taken back or changed.          *)
PublishedIsFinal == [][\A s \in Side : Publication(s)]_vars
=============================================================================
