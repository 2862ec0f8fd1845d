------------------------------ MODULE MCRings ------------------------------
(* The ring of bytes and the ring of packets on it, one or the other.      *)
(*                                                                         *)
(* Bytes: side "a" writes up to four bytes through a ring of three, so     *)
(* that the ring fills and wraps; side "b" only reads.  The two directions *)
(* share nothing but the status words.  The callers set and reset one      *)
(* request bit: the other is the same code, and SerialLink uses both.      *)
(*                                                                         *)
(* Packets: up to four, of different lengths, through a ring of seven      *)
(* cells, so that they wrap and wait in the queue.                         *)
EXTENDS RingBuffer

MCSize == [a |-> 3, b |-> 1]
MCMaxBytes == [a |-> 4, b |-> 0]

VARIABLES
    part,           \* "bytes" or "packets"
    p_ring, p_private_w, p_offset_w, p_private_r, p_offset_r, p_q, wpc, arg, notify,
    rpc, header, polled, p_sent, received

P == INSTANCE PacketRing WITH
        Size <- 7, HEADER_SIZE <- 2, Base <- 3, MaxSent <- 4,
        Packet <- {<<>>, <<1>>, <<2, 0, 1>>},
        ring <- p_ring, private_w <- p_private_w, offset_w <- p_offset_w,
        private_r <- p_private_r, offset_r <- p_offset_r, q <- p_q, sent <- p_sent

ASSUME P!PacketAssumption

packets ==
    <<p_ring, p_private_w, p_offset_w, p_private_r, p_offset_r, p_q, wpc, arg, notify, rpc, header,
      polled, p_sent, received>>
allVars == <<part, vars, packets>>

SumInit == part \in {"bytes", "packets"} /\ Init /\ P!Init

SumNext ==
    \/ part = "bytes" /\ Next /\ UNCHANGED <<part, packets>>
    \/ part = "packets" /\ P!Next /\ UNCHANGED <<part, vars>>

SumSpec ==
    /\ SumInit /\ [][SumNext]_allVars
    /\ WF_allVars(part = "packets" /\ (P!tx_callback \/ P!Write) /\ UNCHANGED <<part, vars>>)
    /\ WF_allVars(part = "packets" /\ P!Read /\ UNCHANGED <<part, vars>>)

(* The properties of PacketRing: packets arrive whole and in order, rx()   *)
(* finds what poll() has announced, and every packet arrives.              *)
PacketsArriveInOrder == P!PacketsArriveInOrder
PacketsAreDelivered == P!PacketsAreDelivered
=============================================================================
