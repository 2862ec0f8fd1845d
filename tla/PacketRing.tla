----------------------------- MODULE PacketRing -----------------------------
(***************************************************************************)
(* BufferedPacketRingBuffer on PacketRingBuffer, as the mirage component   *)
(* uses it: packets with a length header in one ring, and a queue of those *)
(* that found no room.  A writer and a reader run concurrently.            *)
(*                                                                         *)
(* Nothing reads cells before notify_write() publishes them, or writes     *)
(* them before notify_read() returns them (RingBuffer proves so), so a     *)
(* copy is one step here; each load of the peer's offset is in a step of   *)
(* its own.  The kicks are SerialLink's subject: mirage polls.             *)
(***************************************************************************)
EXTENDS Naturals, SequencesExt, FiniteSetsExt

CONSTANTS
    Size,           \* cells of the ring
    HEADER_SIZE,    \* cells of a header: 4 in the code
    Base,           \* values of a cell: 256 in the code
    Packet,         \* packets that are sent: sequences of cell values
    MaxSent         \* bound: packets

(* What module MCRings assumes of them.                                    *)
PacketAssumption ==
    /\ Size \in Nat \ {0} /\ HEADER_SIZE \in Nat /\ Base \in Nat \ {0, 1}
    /\ \A p \in Packet : Len(p) < Base ^ HEADER_SIZE

VARIABLES
    ring,
    private_w, offset_w,    \* the writer's offset, and as published
    private_r, offset_r,    \* the reader's offset, and as published
    q,                      \* BufferedPacketRingBuffer.q of the writer
    wpc, arg, notify,       \* tx(), tx_callback(): where it is, its packet if any, notify
    rpc, header,            \* poll(), rx(): where it is, the length it has read
    polled,                 \* impl_net_iface_poll() has said there is a packet
    sent, received          \* history: packets given to tx(), got from rx()

writer == <<private_w, offset_w, q, wpc, arg, notify, sent>>
reader == <<private_r, offset_r, rpc, header, polled, received>>
vars == <<ring, writer, reader>>

Init ==
    /\ ring = [i \in 0 .. Size - 1 |-> 0]
    /\ private_w = 0 /\ offset_w = 0 /\ private_r = 0 /\ offset_r = 0
    /\ q = <<>> /\ wpc = "idle" /\ arg = <<>> /\ notify = FALSE
    /\ rpc = "idle" /\ header = 0 /\ polled = FALSE
    /\ sent = <<>> /\ received = <<>>

----------------------------------------------------------------------------
(* A length as little-endian digits, and back.                             *)
serialize_header(n) == [k \in 1 .. HEADER_SIZE |-> (n \div Base ^ (k - 1)) % Base]

(* Mutant: the header is read as big-endian.                               *)
Mut_ParseHeader(cells) ==
    FoldLeft(LAMBDA acc, k : acc + cells[HEADER_SIZE + 1 - k] * Base ^ (k - 1), 0, [k \in 1 .. HEADER_SIZE |-> k])

ParseHeader(cells) ==
    FoldLeft(LAMBDA acc, k : acc + cells[k] * Base ^ (k - 1), 0, [k \in 1 .. HEADER_SIZE |-> k])

packet_size(p) == HEADER_SIZE + Len(p)

Fits(p) == Size - (private_w - offset_r) - 1 >= packet_size(p)

(* write(): header and contents, not yet published.                        *)
write(p) ==
    LET cells == serialize_header(Len(p)) \o p
        At(k) == (private_w + k - 1) % Size
    IN  /\ ring' = [i \in DOMAIN ring |->
               IF \E k \in DOMAIN cells : At(k) = i
               THEN cells[Max({k \in DOMAIN cells : At(k) = i})] ELSE ring[i]]
        /\ private_w' = private_w + Len(cells)

poll_read == offset_w - private_r
peek(from, n) == [k \in 1 .. n |-> ring[(private_r + from + k - 1) % Size]]

----------------------------------------------------------------------------
(* The writer.  A packet of tx() is written after flush_tx(), or queued.   *)
tx(p) ==
    /\ wpc = "idle" /\ Len(sent) < MaxSent
    /\ wpc' = "flush" /\ arg' = <<p>> /\ sent' = Append(sent, p)
    /\ UNCHANGED <<ring, private_w, offset_w, q, notify, reader>>

tx_callback ==
    /\ wpc = "idle" /\ q # <<>>
    /\ wpc' = "flush" /\ arg' = <<>>
    /\ UNCHANGED <<ring, private_w, offset_w, q, notify, sent, reader>>

flush_tx ==
    /\ wpc = "flush"
    /\ q # <<>> /\ Fits(Head(q))
    /\ write(Head(q))
    /\ q' = Tail(q)
    /\ notify' = TRUE
    /\ UNCHANGED <<offset_w, wpc, arg, sent, reader>>

FlushEnd ==
    /\ wpc = "flush"
    /\ q # <<>> => ~Fits(Head(q))
    /\ wpc' = IF arg = <<>> THEN "notify" ELSE "write"
    /\ UNCHANGED <<ring, private_w, offset_w, q, arg, notify, sent, reader>>

TxWrite ==
    /\ wpc = "write" /\ wpc' = "notify"
    /\ IF q = <<>> /\ Fits(arg[1])
       THEN write(arg[1]) /\ notify' = TRUE /\ UNCHANGED q
       ELSE q' = q \o arg /\ UNCHANGED <<ring, private_w, notify>>
    /\ UNCHANGED <<offset_w, arg, sent, reader>>

(* Mutant: packets that come out of the queue are not published.           *)
Mut_TxNotify ==
    /\ wpc = "notify" /\ wpc' = "idle"
    /\ offset_w' = IF notify /\ arg # <<>> THEN private_w ELSE offset_w
    /\ notify' = FALSE /\ arg' = <<>>
    /\ UNCHANGED <<ring, private_w, q, sent, reader>>

TxNotify ==
    /\ wpc = "notify" /\ wpc' = "idle"
    /\ offset_w' = IF notify THEN private_w ELSE offset_w
    /\ notify' = FALSE /\ arg' = <<>>
    /\ UNCHANGED <<ring, private_w, q, sent, reader>>

----------------------------------------------------------------------------
(* The reader.  mirage polls, and calls rx() when there is a packet; both  *)
(* run poll(), which loads the writer's offset twice.  rx() that finds     *)
(* none panics: its caller has an unwrap().                                *)
PollHeader ==
    /\ rpc = "idle"
    /\ polled \/ poll_read >= HEADER_SIZE
    /\ IF poll_read >= HEADER_SIZE
       THEN rpc' = "polling" /\ header' = ParseHeader(peek(0, HEADER_SIZE))
       ELSE rpc' = "panic" /\ UNCHANGED header
    /\ UNCHANGED <<ring, writer, private_r, offset_r, polled, received>>

PollSize ==
    /\ rpc = "polling"
    /\ LET some == header <= poll_read - HEADER_SIZE
       IN  /\ rpc' = IF ~polled THEN "idle" ELSE IF some THEN "read" ELSE "panic"
           /\ polled' = (polled \/ some)
    /\ UNCHANGED <<ring, writer, private_r, offset_r, header, received>>

read_into ==
    /\ rpc = "read" /\ rpc' = "ack"
    /\ received' = Append(received, peek(HEADER_SIZE, header))
    /\ private_r' = private_r + HEADER_SIZE + header
    /\ UNCHANGED <<ring, writer, offset_r, header, polled>>

RxNotify ==
    /\ rpc = "ack" /\ rpc' = "idle"
    /\ offset_r' = private_r
    /\ polled' = FALSE
    /\ UNCHANGED <<ring, writer, private_r, header, received>>

Write == flush_tx \/ FlushEnd \/ TxWrite \/ TxNotify
Read == PollHeader \/ PollSize \/ read_into \/ RxNotify
Next == (\E p \in Packet : tx(p)) \/ tx_callback \/ Write \/ Read

(* Every call of mirage ends with tx_callback(), and its main loop makes   *)
(* calls and polls for ever.                                               *)
Fairness == WF_vars(tx_callback \/ Write) /\ WF_vars(Read)
Spec == Init /\ [][Next]_vars /\ Fairness

----------------------------------------------------------------------------
(* Shapes of the state.                                                    *)
TypeOK ==
    /\ ring \in [0 .. Size - 1 -> 0 .. Base - 1]
    /\ {private_w, offset_w, private_r, offset_r, header} \subseteq Nat
    /\ q \in Seq(Packet) /\ Len(arg) <= 1 /\ notify \in BOOLEAN /\ polled \in BOOLEAN
    /\ wpc \in {"idle", "flush", "write", "notify"}
    /\ rpc \in {"idle", "polling", "read", "ack", "panic"}

(* Packets arrive whole, in the order of tx(), through ring and queue.  A  *)
(* packet is published with its contents: what poll() has announced, rx()  *)
(* finds, and its unwrap() does not panic.                                 *)
PacketsArriveInOrder == IsPrefix(received, sent) /\ rpc # "panic"

(* Every packet that is sent is received, if packets fit into the ring.    *)
PacketsAreDelivered == <>[](received = sent)
=============================================================================
