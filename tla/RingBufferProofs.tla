-------------------------- MODULE RingBufferProofs --------------------------
(***************************************************************************)
(* Proofs about RingBuffer, for every ring size, byte set and stream       *)
(* length, with destruction and resume() at any step.                      *)
(*                                                                         *)
(* The invariant says of each direction: the offsets are in order; a copy  *)
(* in progress stays inside the space that was polled; and the ring holds, *)
(* at every position not yet acknowledged, the byte of the stream.         *)
(***************************************************************************)
EXTENDS RingBuffer, SequenceTheorems, TLAPS

(* Both copies leave the caller's slice consistent with the offsets.       *)
CopyBounds ==
    \A s \in Side :
        /\ pc[s] = "write" =>
              /\ Len(data[s]) <= n[s]
              /\ private_w[s] + n[s] <= offset_r[Peer(s)] + (Size[s] - 1)
              /\ Len(sent[s]) = private_w[s] + (n[s] - Len(data[s]))
        /\ pc[s] # "write" => Len(sent[s]) = private_w[s]
        /\ pc[s] = "read" =>
              /\ Len(data[s]) <= n[s]
              /\ private_r[s] + n[s] <= offset_w[Peer(s)]
        /\ pc[s] \notin {"read", "write"} => data[s] = <<>>

(* Every unacknowledged byte of the stream is in its place in the ring.    *)
RingHoldsStream ==
    \A s \in Side : \A i \in Nat :
        offset_r[Peer(s)] <= i /\ i < Len(sent[s])
            => buf[s][i % Size[s]] = sent[s][i + 1]

IInv ==
    /\ TypeOK
    /\ OffsetsOrdered
    /\ CopyBounds
    /\ RingHoldsStream
    /\ ReadsWhatWasSent

----------------------------------------------------------------------------
(* A ring has two sides, and each is the other's peer.                     *)
LEMMA PeerFacts ==
    \A s \in Side : Peer(s) \in Side /\ Peer(s) # s /\ Peer(Peer(s)) = s
BY DEF Side, Peer

(* What holds for a side and its peer holds for both sides.                *)
LEMMA SideIs ==
    \A s, t \in Side : t = s \/ t = Peer(s)
BY DEF Side, Peer

(* Positions less than a ring apart are in different slots.                *)
LEMMA ModDistinct ==
    ASSUME NEW N \in Nat \ {0}, NEW i \in Nat, NEW j \in Nat,
           j < i, i - j < N
    PROVE  i % N # j % N
<1>1. i = N * (i \div N) + (i % N) /\ i \div N \in Nat /\ i % N \in 0..(N - 1)
  OBVIOUS
<1>2. j = N * (j \div N) + (j % N) /\ j \div N \in Nat /\ j % N \in 0..(N - 1)
  OBVIOUS
<1> DEFINE d == (i \div N) - (j \div N)
<1> SUFFICES ASSUME i % N = j % N PROVE FALSE
  OBVIOUS
<1>3. d \in Int /\ N * d = i - j
  BY <1>1, <1>2
<1> HIDE DEF d
<1>4. N * d > 0 /\ N * d < N
  BY <1>3
<1>5. CASE d <= 0
  BY <1>3, <1>4, <1>5
<1>6. CASE d >= 1
  BY <1>3, <1>4, <1>6
<1> QED
  BY <1>3, <1>5, <1>6

(* The index into a ring that write() and peek() compute is in the ring.   *)
LEMMA ModRange ==
    ASSUME NEW N \in Nat \ {0}, NEW i \in Nat
    PROVE  i % N \in 0..(N - 1)
OBVIOUS

----------------------------------------------------------------------------
(* The rest of the invariant is about the data path only.                  *)
DataInv == OffsetsOrdered /\ CopyBounds /\ RingHoldsStream /\ ReadsWhatWasSent

dataVars == <<offset_r, offset_w, buf, private, data, n, sent>>

(* Moving one byte from the caller's slice to the stream keeps their sum:  *)
(* w is where the write began, k its length, l what is left of the slice.  *)
LEMMA OneByteWritten ==
    ASSUME NEW w \in Nat, NEW k \in Nat, NEW l \in Nat, l <= k
    PROVE  /\ l - 1 <= k
           /\ (w + (k - l)) + 1 = w + (k - (l - 1))
OBVIOUS

(* The position a read is at lies between what was acknowledged and the    *)
(* end of the stream: r is where the read began, k its length, l how far   *)
(* it is, a the acknowledged offset, o the published one, e the end.       *)
LEMMA ReadPosition ==
    ASSUME NEW r \in Nat, NEW k \in Nat, NEW l \in Nat,
           NEW a \in Nat, NEW o \in Nat, NEW e \in Nat,
           l < k, a <= r, r + k <= o, o <= e
    PROVE  r + l \in Nat /\ a <= r + l /\ r + l < e
OBVIOUS

(* A position of a write: o is what the reader has released, w where the   *)
(* write began, k its length, x how far it is, N the size of the ring.     *)
LEMMA WritePosition ==
    ASSUME NEW o \in Nat, NEW w \in Nat, NEW k \in Nat, NEW x \in Nat, NEW N \in Nat,
           o <= w, w <= x, x <= w + k, w + k <= o + (N - 1)
    PROVE  o <= x /\ x - o < N
OBVIOUS

(* A position beyond r and not beyond e.                                   *)
LEMMA Position ==
    ASSUME NEW r \in Nat, NEW i \in Nat, NEW e \in Nat, i > 0, r + i <= e
    PROVE  r + i \in 1..e
OBVIOUS

(* The lengths that a caller may ask for.                                  *)
LEMMA Counted ==
    ASSUME NEW k \in Int, NEW l \in 1..k
    PROVE  l \in Nat
OBVIOUS

(* A position of a read: r is where it began, k its length.                *)
LEMMA PositionRead ==
    ASSUME NEW r \in Nat, NEW i \in Nat, NEW k \in Nat, NEW e \in Nat,
           1 <= i, i <= k, r + k <= e
    PROVE  r + i \in 1..e
OBVIOUS

(* A slice of l bytes.                                                     *)
LEMMA SliceIsSeq ==
    ASSUME NEW l \in Nat, NEW f \in [1..l -> Byte]
    PROVE  f \in Seq(Byte) /\ Len(f) = l
OBVIOUS

(* A step outside the copies and the publications: polling a status word,  *)
(* a load or store of one, a kick.                                         *)
LEMMA QuietStep ==
    ASSUME IInv, UNCHANGED dataVars, pc' \in [Side -> PC],
           \A s \in Side : \/ pc'[s] = pc[s]
                           \/ /\ pc[s] \notin {"read", "write"}
                              /\ pc'[s] \notin {"read", "write"}
    PROVE  DataInv'
<1>1. OffsetsOrdered'
  BY DEF IInv, OffsetsOrdered, dataVars, private
<1>2. CopyBounds'
  BY PeerFacts DEF IInv, CopyBounds, dataVars, private
<1>3. RingHoldsStream'
  BY DEF IInv, RingHoldsStream, dataVars
<1>4. ReadsWhatWasSent'
  BY PeerFacts DEF IInv, ReadsWhatWasSent, dataVars, private
<1> QED
  BY <1>1, <1>2, <1>3, <1>4 DEF DataInv

(* The control steps keep the types.                                       *)
LEMMA ControlStep ==
    ASSUME IInv, NEW s \in Side,
           \/ Check(s) \/ ClearLoad(s) \/ ClearStore(s) \/ Kick(s)
           \/ \E bit \in UsedBits, val \in {0, 1} : ModifyLoad(s, bit, val)
           \/ ModifyStore(s) \/ WaitKick(s)
    PROVE  IInv'
<1> USE SizeAssumption, UsedBitsAssumption, PeerFacts
<1> NoWord \in Word
  BY DEF NoWord, Word, Bit
<1>w. word \in [Side -> Word]
  BY DEF IInv, TypeOK
<1>0. IInv
  OBVIOUS
<1>1. CASE Check(s)
  <2>b. word' = word \/ word' = [word EXCEPT ![s] = NoWord]
    BY <1>1 DEF Check
  <2>0. word' \in [Side -> Word]
    BY <1>w, <2>b
  <2>a. pc' \in [Side -> PC]
    BY <1>1, Zenon DEF IInv, TypeOK, Check, PC
  <2>1. TypeOK'
    BY <1>1, <2>0, <2>a, Zenon DEF IInv, TypeOK, Check, ctrl, private
  <2>2. DataInv'
    BY <1>1, QuietStep, Zenon DEF IInv, TypeOK, Check, ctrl, private, dataVars, PC
  <2> QED
    BY <2>1, <2>2 DEF IInv, DataInv
<1>2. CASE ClearLoad(s)
  <2>0. word' \in [Side -> Word]
    BY <1>2, Zenon DEF IInv, TypeOK, ClearLoad, Word
  <2>1. TypeOK'
    BY <1>2, <2>0 DEF IInv, TypeOK, ClearLoad, ctrl, private, PC
  <2>2. DataInv'
    BY <1>2, QuietStep, Zenon DEF IInv, TypeOK, ClearLoad, ctrl, private, dataVars, PC
  <2> QED
    BY <2>1, <2>2 DEF IInv, DataInv
<1>3. CASE ClearStore(s)
  <2>0. status' \in [Side -> SUBSET Bit]
    BY <1>3, Zenon DEF IInv, TypeOK, ClearStore, Word
  <2>1. TypeOK'
    BY <1>3, <2>0, Zenon DEF IInv, TypeOK, ClearStore, private, PC
  <2>2. DataInv'
    BY <1>3, QuietStep, Zenon DEF IInv, TypeOK, ClearStore, private, dataVars, PC
  <2> QED
    BY <2>1, <2>2 DEF IInv, DataInv
<1>4. CASE Kick(s)
  <2>0. word' \in [Side -> Word] /\ kicked' \subseteq Side
    BY <1>w, <1>4 DEF IInv, TypeOK, Kick
  <2>a. pc' \in [Side -> PC]
    BY <1>4 DEF IInv, TypeOK, Kick, PC
  <2>1. TypeOK'
    BY <1>4, <2>0, <2>a, Zenon DEF IInv, TypeOK, Kick, ctrl, private
  <2>2. DataInv'
    BY <1>4, QuietStep, Zenon DEF IInv, TypeOK, Kick, ctrl, private, dataVars, PC
  <2> QED
    BY <2>1, <2>2 DEF IInv, DataInv
<1>5. CASE \E bit \in UsedBits, val \in {0, 1} : ModifyLoad(s, bit, val)
  <2> PICK bit \in UsedBits, val \in {0, 1} : ModifyLoad(s, bit, val)
    BY <1>5
  <2>0. word' \in [Side -> Word]
    BY DEF IInv, TypeOK, ModifyLoad, Word
  <2>1. TypeOK'
    BY <2>0 DEF IInv, TypeOK, ModifyLoad, ctrl, private, PC
  <2>2. DataInv'
    BY QuietStep, Zenon DEF IInv, TypeOK, ModifyLoad, ctrl, private, dataVars, PC
  <2> QED
    BY <2>1, <2>2 DEF IInv, DataInv
<1>6. CASE ModifyStore(s)
  <2>0. status' \in [Side -> SUBSET Bit]
    BY <1>6 DEF IInv, TypeOK, ModifyStore, Word
  <2>1. TypeOK'
    BY <1>6, <2>0, Zenon DEF IInv, TypeOK, ModifyStore, private, PC
  <2>2. DataInv'
    BY <1>6, QuietStep, Zenon DEF IInv, TypeOK, ModifyStore, private, dataVars, PC
  <2> QED
    BY <2>1, <2>2 DEF IInv, DataInv
<1>7. CASE WaitKick(s)
  <2>1. TypeOK'
    BY <1>7 DEF IInv, TypeOK, WaitKick, ctrl, private
  <2>2. DataInv'
    BY <1>7, QuietStep DEF IInv, TypeOK, WaitKick, ctrl, private, dataVars
  <2> QED
    BY <2>1, <2>2 DEF IInv, DataInv
<1> QED
  BY <1>1, <1>2, <1>3, <1>4, <1>5, <1>6, <1>7

----------------------------------------------------------------------------
(* The steps of the data path, one lemma each.                             *)
LEMMA WriteBeginStep ==
    ASSUME IInv, NEW s \in Side, NEW len \in 1..(Size[s] - 1),
           NEW bytes \in [1..len -> Byte], WriteBegin(s, bytes)
    PROVE  IInv'
<1>1. bytes \in Seq(Byte) /\ Len(bytes) = len
  <2>1. len \in Nat
    <3>1. Size[s] - 1 \in Int
      BY SizeAssumption
    <3> QED
      BY <3>1, Counted, Zenon
  <2> QED
    BY <2>1, SliceIsSeq, Zenon
<1> USE SizeAssumption, PeerFacts
<1>2. TypeOK'
  <2>1. data' \in [Side -> Seq(Byte)]
    BY <1>1, Zenon DEF IInv, TypeOK, WriteBegin
  <2>2. Len(bytes) \in Nat
    BY <1>1
  <2>3. n' \in [Side -> Nat] /\ pc' \in [Side -> PC]
    BY <2>2, Zenon DEF IInv, TypeOK, WriteBegin, PC
  <2> QED
    BY <2>1, <2>3, Zenon DEF IInv, TypeOK, WriteBegin, ctrl, private
<1>3. OffsetsOrdered'
  BY DEF IInv, OffsetsOrdered, WriteBegin, ctrl, private
<1>4. CopyBounds'
  <2>1. /\ data'[s] = bytes /\ n'[s] = len /\ pc'[s] = "write"
        /\ Len(sent[s]) = private_w[s]
        /\ private_w[s] + len <= offset_r[Peer(s)] + (Size[s] - 1)
    <3>1. data'[s] = bytes /\ n'[s] = len /\ pc'[s] = "write"
      BY <1>1 DEF IInv, TypeOK, WriteBegin
    <3>2. Len(sent[s]) = private_w[s]
      BY DEF IInv, CopyBounds, WriteBegin
    <3>3. /\ private_w[s] \in Nat /\ offset_r[Peer(s)] \in Nat /\ Size[s] \in Nat
          /\ len <= Size[s] - (private_w[s] - offset_r[Peer(s)]) - 1
      BY <1>1, Zenon DEF IInv, TypeOK, WriteBegin, poll_write
    <3> QED
      BY <3>1, <3>2, <3>3
  <2>2. \A t \in Side : t # s => data'[t] = data[t] /\ n'[t] = n[t] /\ pc'[t] = pc[t]
    BY DEF IInv, TypeOK, WriteBegin
  <2>3. UNCHANGED <<offset_r, offset_w, private_r, private_w, sent>>
    BY DEF WriteBegin, ctrl, private
  <2> SUFFICES ASSUME NEW t \in Side PROVE CopyBounds!(t)'
    BY DEF CopyBounds
  <2>4. CASE t = s
    <3>1. len \in Nat /\ private_w[s] \in Nat /\ Len(bytes) = len
      BY <1>1 DEF IInv, TypeOK
    <3> QED
      BY <2>1, <2>3, <2>4, <3>1
  <2>5. CASE t # s
    BY <2>2, <2>3, <2>5 DEF IInv, CopyBounds
  <2> QED
    BY <2>4, <2>5
<1>5. RingHoldsStream'
  BY DEF IInv, RingHoldsStream, WriteBegin, ctrl
<1>6. ReadsWhatWasSent'
  BY Zenon DEF IInv, TypeOK, ReadsWhatWasSent, WriteBegin, ctrl, private
<1> QED
  BY <1>2, <1>3, <1>4, <1>5, <1>6 DEF IInv

(* The copy of one byte in write(): it lands in a slot that the peer has   *)
(* released, so no byte that is published and unread changes.              *)
LEMMA WriteByteStep ==
    ASSUME IInv, NEW s \in Side, WriteByte(s)
    PROVE  IInv'
<1> USE SizeAssumption, PeerFacts
<1> DEFINE off == private_w[s] + (n[s] - Len(data[s]))
           N == Size[s]
           b == Head(data[s])
<1>1. /\ data[s] \in Seq(Byte) /\ data[s] # <<>> /\ sent[s] \in Seq(Byte)
      /\ Len(data[s]) \in Nat /\ Len(sent[s]) \in Nat /\ N \in Nat \ {0}
      /\ b \in Byte /\ Tail(data[s]) \in Seq(Byte)
      /\ Len(Tail(data[s])) = Len(data[s]) - 1 /\ Len(data[s]) > 0
  <2>1. /\ data[s] \in Seq(Byte) /\ data[s] # <<>> /\ sent[s] \in Seq(Byte)
        /\ N \in Nat \ {0}
    BY Zenon DEF IInv, TypeOK, WriteByte
  <2>2. /\ Len(data[s]) \in Nat /\ Len(sent[s]) \in Nat /\ Len(data[s]) > 0
    BY <2>1
  <2>3. /\ b \in Byte /\ Tail(data[s]) \in Seq(Byte)
        /\ Len(Tail(data[s])) = Len(data[s]) - 1
    BY <2>1, HeadTailProperties
  <2> QED
    BY <2>1, <2>2, <2>3
<1>2. /\ pc[s] = "write" /\ Len(data[s]) <= n[s]
      /\ n[s] \in Nat /\ private_w[s] \in Nat
      /\ offset_r[Peer(s)] \in Nat
      /\ private_w[s] + n[s] <= offset_r[Peer(s)] + (N - 1)
      /\ Len(sent[s]) = off
      /\ offset_r[Peer(s)] <= private_w[s]
  <2>1. /\ pc[s] = "write" /\ n[s] \in Nat /\ private_w[s] \in Nat
        /\ offset_r[Peer(s)] \in Nat /\ private_r[Peer(s)] \in Nat /\ offset_w[s] \in Nat
    BY DEF IInv, TypeOK, WriteByte
  <2>2. /\ Len(data[s]) <= n[s]
        /\ private_w[s] + n[s] <= offset_r[Peer(s)] + (N - 1)
        /\ Len(sent[s]) = off
    BY <2>1 DEF IInv, CopyBounds
  <2>3. offset_r[Peer(s)] <= private_w[s]
    BY <2>1 DEF IInv, OffsetsOrdered
  <2> QED
    BY <2>1, <2>2, <2>3
<1>3. off \in Nat
  BY <1>1, <1>2
<1>s. offset_r[Peer(s)] <= off /\ off - offset_r[Peer(s)] < N
  <2>1. Len(data[s]) \in Nat /\ N \in Nat
    BY <1>1
  <2>2. off = private_w[s] + n[s] - Len(data[s])
    OBVIOUS
  <2> HIDE SizeAssumption, PeerFacts DEF off, N
  <2>3. private_w[s] <= off /\ off <= private_w[s] + n[s]
    BY <2>1, <2>2, <1>2
  <2> QED
    BY <2>1, <2>3, <1>2, <1>3, WritePosition, Zenon
<1>m. off % N \in 0..(N - 1)
  BY <1>1, <1>3, ModRange, Zenon
<1>4. /\ buf' = [buf EXCEPT ![s] = [buf[s] EXCEPT ![off % N] = b]]
      /\ data' = [data EXCEPT ![s] = Tail(data[s])]
      /\ sent' = [sent EXCEPT ![s] = Append(sent[s], b)]
      /\ UNCHANGED <<ctrl, private, kicked, pc, n, word>>
  BY DEF WriteByte
<1> HIDE DEF off, b
<1>5. /\ Append(sent[s], b) \in Seq(Byte)
      /\ Len(Append(sent[s], b)) = off + 1
      /\ Append(sent[s], b)[off + 1] = b
      /\ \A i \in 1..off : Append(sent[s], b)[i] = sent[s][i]
  BY <1>1, <1>2, <1>3
<1>6. TypeOK'
  BY <1>1, <1>m, <1>4, <1>5, Zenon DEF IInv, TypeOK, ctrl, private
<1>7. OffsetsOrdered'
  BY <1>4 DEF IInv, OffsetsOrdered, ctrl, private
<1>8. CopyBounds'
  <2>1. /\ data'[s] = Tail(data[s]) /\ Len(sent'[s]) = off + 1
    BY <1>4, <1>5 DEF IInv, TypeOK
  <2>2. \A t \in Side : t # s => data'[t] = data[t] /\ sent'[t] = sent[t]
    BY <1>4 DEF IInv, TypeOK
  <2>3. UNCHANGED <<offset_r, offset_w, private_r, private_w, n, pc>>
    BY <1>4 DEF ctrl, private
  <2> SUFFICES ASSUME NEW t \in Side PROVE CopyBounds!(t)'
    BY DEF CopyBounds
  <2>4. CASE t = s
    <3>0. Len(data'[s]) = Len(data[s]) - 1 /\ Len(data[s]) \in Nat
      BY <2>1, <1>1
    <3>1. /\ Len(data'[s]) <= n[s]
          /\ Len(sent'[s]) = private_w[s] + (n[s] - Len(data'[s]))
      <4>1. /\ Len(data[s]) - 1 <= n[s]
            /\ off + 1 = private_w[s] + (n[s] - (Len(data[s]) - 1))
        BY <3>0, <1>2, OneByteWritten, Zenon DEF off
      <4> HIDE DEF off
      <4> QED
        BY <2>1, <3>0, <4>1
    <3> QED
      BY <2>3, <2>4, <3>1, <1>2
  <2>5. CASE t # s
    BY <2>2, <2>3, <2>5, Zenon DEF IInv, CopyBounds
  <2> QED
    BY <2>4, <2>5
<1>9. RingHoldsStream'
  <2> SUFFICES ASSUME NEW t \in Side, NEW i \in Nat,
                      offset_r[Peer(t)] <= i, i < Len(sent'[t])
               PROVE  buf'[t][i % Size[t]] = sent'[t][i + 1]
    BY <1>4 DEF RingHoldsStream, ctrl
  <2>1. CASE t # s
    BY <2>1, <1>4, Zenon DEF IInv, TypeOK, RingHoldsStream
  <2>2. CASE t = s /\ i = off
    BY <2>2, <1>1, <1>m, <1>4, <1>5, Zenon DEF IInv, TypeOK
  <2>3. CASE t = s /\ i # off
    <3>0. Len(sent'[s]) = off + 1
      BY <1>4, <1>5 DEF IInv, TypeOK
    <3>1. i < off /\ off - i < N
      <4>1. offset_r[Peer(s)] <= i /\ i < off + 1 /\ i # off
        BY <2>3, <3>0
      <4>2. offset_r[Peer(s)] \in Nat /\ N \in Nat
        BY <1>1, <1>2
      <4> QED
        BY <4>1, <4>2, <1>3, <1>s
    <3>2. off % N # i % N
      BY <3>1, <1>1, <1>3, ModDistinct
    <3>3. i % N \in 0..(N - 1)
      BY <1>1, ModRange
    <3>4. buf[s][i % N] = sent[s][i + 1]
      BY <2>3, <3>1, <1>2 DEF IInv, RingHoldsStream
    <3>5. sent'[s][i + 1] = sent[s][i + 1]
      <4>1. i + 1 \in 1..off
        BY <3>1, <1>3
      <4> QED
        BY <4>1, <1>4, <1>5, Zenon DEF IInv, TypeOK
    <3>6. buf'[s][i % N] = buf[s][i % N]
      BY <3>2, <3>3, <1>4 DEF IInv, TypeOK
    <3> QED
      BY <2>3, <3>4, <3>5, <3>6
  <2> QED
    BY <2>1, <2>2, <2>3
<1>10. ReadsWhatWasSent'
  <2> SUFFICES ASSUME NEW t \in Side, pc[t] = "read", NEW i \in 1..Len(data'[t])
               PROVE  /\ private_r[t] + i <= Len(sent'[Peer(t)])
                      /\ data'[t][i] = sent'[Peer(t)][private_r[t] + i]
    <3>1. UNCHANGED <<pc, private_r>>
      BY <1>4 DEF private
    <3> QED
      BY <3>1 DEF ReadsWhatWasSent
  <2>1. t # s /\ Peer(t) = s
    BY <1>2, SideIs
  <2>2. /\ data'[t] = data[t] /\ sent'[s] = Append(sent[s], b)
        /\ private_r[t] \in Nat
    BY <2>1, <1>4 DEF IInv, TypeOK
  <2>3. /\ private_r[t] + i <= Len(sent[s])
        /\ data[t][i] = sent[s][private_r[t] + i]
    BY <2>1, <2>2 DEF IInv, ReadsWhatWasSent
  <2>4. i \in Nat /\ i > 0
    OBVIOUS
  <2>5. private_r[t] + i \in 1..off
    <3>1. Len(sent[s]) = off
      BY <1>2
    <3>2. private_r[t] + i <= off
      BY <2>3, <3>1, Zenon
    <3> QED
      BY <1>3, <2>2, <2>4, <3>2, Position, Zenon
  <2> QED
    BY <1>2, <1>3, <1>5, <2>1, <2>2, <2>3, <2>5
<1> QED
  BY <1>6, <1>7, <1>8, <1>9, <1>10 DEF IInv

(* The end of write(): private_offset_w moves over the bytes copied.       *)
LEMMA WriteEndStep ==
    ASSUME IInv, NEW s \in Side, WriteEnd(s)
    PROVE  IInv'
<1> USE SizeAssumption, PeerFacts
<1>1. /\ pc[s] = "write" /\ data[s] = <<>> /\ Len(data[s]) = 0
      /\ n[s] \in Nat /\ private_w[s] \in Nat /\ offset_w[s] \in Nat
      /\ offset_r[Peer(s)] \in Nat /\ Size[s] \in Nat
  BY Zenon DEF IInv, TypeOK, WriteEnd
<1>2. /\ private_w[s] + n[s] <= offset_r[Peer(s)] + (Size[s] - 1)
      /\ Len(sent[s]) = private_w[s] + n[s]
  BY <1>1 DEF IInv, CopyBounds
<1>3. /\ private_w'[s] = private_w[s] + n[s] /\ pc'[s] = "idle"
      /\ \A t \in Side : t # s => private_w'[t] = private_w[t] /\ pc'[t] = pc[t] /\ n'[t] = n[t]
  BY <1>1 DEF IInv, TypeOK, WriteEnd
<1>4. UNCHANGED <<offset_r, offset_w, status, buf, private_r, kicked, data, word, sent>>
  BY DEF WriteEnd, ctrl
<1>5. TypeOK'
  <2>0. private_w' = [private_w EXCEPT ![s] = private_w[s] + n[s]]
    BY DEF WriteEnd
  <2>a. private_w \in [Side -> Nat] /\ n \in [Side -> Nat]
    BY DEF IInv, TypeOK
  <2>1. private_w' \in [Side -> Nat]
    BY <2>0, <2>a
  <2>2. n' \in [Side -> Nat] /\ pc' \in [Side -> PC]
    BY DEF IInv, TypeOK, WriteEnd, PC
  <2> QED
    BY <2>1, <2>2, <1>4, Zenon DEF IInv, TypeOK
<1>6. OffsetsOrdered'
  <2> SUFFICES ASSUME NEW t \in Side PROVE OffsetsOrdered!(t)'
    BY DEF OffsetsOrdered
  <2>1. CASE t = s
    BY <2>1, <1>1, <1>2, <1>3, <1>4 DEF IInv, OffsetsOrdered
  <2>2. CASE t # s
    BY <2>2, <1>3, <1>4 DEF IInv, OffsetsOrdered
  <2> QED
    BY <2>1, <2>2
<1>7. CopyBounds'
  <2> SUFFICES ASSUME NEW t \in Side PROVE CopyBounds!(t)'
    BY Zenon DEF CopyBounds
  <2>1. CASE t = s
    BY <2>1, <1>1, <1>2, <1>3, <1>4
  <2>2. CASE t # s
    BY <2>2, <1>3, <1>4 DEF IInv, CopyBounds
  <2> QED
    BY <2>1, <2>2
<1>8. RingHoldsStream'
  BY <1>4 DEF IInv, RingHoldsStream
<1>9. ReadsWhatWasSent'
  <2> SUFFICES ASSUME NEW t \in Side, pc'[t] = "read", NEW i \in 1..Len(data[t])
               PROVE  /\ private_r[t] + i <= Len(sent[Peer(t)])
                      /\ data[t][i] = sent[Peer(t)][private_r[t] + i]
    BY <1>4 DEF ReadsWhatWasSent
  <2>1. pc[t] = "read"
    BY <1>3
  <2> QED
    BY <2>1 DEF IInv, ReadsWhatWasSent
<1> QED
  BY <1>5, <1>6, <1>7, <1>8, <1>9 DEF IInv

(* read() begins with at most poll_read() bytes: all of them published.    *)
LEMMA ReadBeginStep ==
    ASSUME IInv, NEW s \in Side, NEW len \in 1..Size[Peer(s)], ReadBegin(s, len)
    PROVE  IInv'
<1> USE SizeAssumption, PeerFacts
<1>1. /\ pc[s] = "idle" /\ len \in Nat /\ len <= offset_w[Peer(s)] - private_r[s]
      /\ offset_w[Peer(s)] \in Nat /\ private_r[s] \in Nat
  BY DEF IInv, TypeOK, ReadBegin, poll_read
<1>2. /\ n'[s] = len /\ pc'[s] = "read"
      /\ \A t \in Side : t # s => pc'[t] = pc[t] /\ n'[t] = n[t]
  BY DEF IInv, TypeOK, ReadBegin
<1>3. UNCHANGED <<offset_r, offset_w, status, buf, private_r, private_w, kicked, data, word, sent>>
  BY DEF ReadBegin, ctrl, private
<1>4. data[s] = <<>> /\ Len(data[s]) = 0 /\ Len(sent[s]) = private_w[s]
  BY <1>1 DEF IInv, CopyBounds
<1>5. TypeOK'
  BY <1>1, <1>3, Zenon DEF IInv, TypeOK, ReadBegin, PC
<1>6. OffsetsOrdered'
  BY <1>3 DEF IInv, OffsetsOrdered
<1>7. CopyBounds'
  <2> SUFFICES ASSUME NEW t \in Side PROVE CopyBounds!(t)'
    BY DEF CopyBounds
  <2>1. CASE t = s
    BY <2>1, <1>1, <1>2, <1>3, <1>4
  <2>2. CASE t # s
    BY <2>2, <1>2, <1>3 DEF IInv, CopyBounds
  <2> QED
    BY <2>1, <2>2
<1>8. RingHoldsStream'
  BY <1>3 DEF IInv, RingHoldsStream
<1>9. ReadsWhatWasSent'
  <2> SUFFICES ASSUME NEW t \in Side, pc'[t] = "read", NEW i \in 1..Len(data[t])
               PROVE  /\ private_r[t] + i <= Len(sent[Peer(t)])
                      /\ data[t][i] = sent[Peer(t)][private_r[t] + i]
    BY <1>3 DEF ReadsWhatWasSent
  <2>1. t # s
    BY <1>4
  <2> QED
    BY <2>1, <1>2 DEF IInv, ReadsWhatWasSent
<1> QED
  BY <1>5, <1>6, <1>7, <1>8, <1>9 DEF IInv

(* The end of read(): private_offset_r moves over the bytes copied.        *)
LEMMA ReadEndStep ==
    ASSUME IInv, NEW s \in Side, ReadEnd(s)
    PROVE  IInv'
<1> USE SizeAssumption, PeerFacts
<1>1. /\ pc[s] = "read" /\ n[s] \in Nat /\ private_r[s] \in Nat
      /\ offset_r[s] \in Nat /\ offset_w[Peer(s)] \in Nat
  BY DEF IInv, TypeOK, ReadEnd
<1>2. /\ private_r[s] + n[s] <= offset_w[Peer(s)]
      /\ Len(sent[s]) = private_w[s]
  BY <1>1 DEF IInv, CopyBounds
<1>3. /\ private_r'[s] = private_r[s] + n[s] /\ pc'[s] = "idle" /\ data'[s] = <<>>
      /\ \A t \in Side : t # s => /\ private_r'[t] = private_r[t] /\ pc'[t] = pc[t]
                                 /\ n'[t] = n[t] /\ data'[t] = data[t]
  BY DEF IInv, TypeOK, ReadEnd
<1>4. UNCHANGED <<offset_r, offset_w, status, buf, private_w, kicked, word, sent>>
  BY DEF ReadEnd, ctrl
<1>5. TypeOK'
  <2>1. private_r' \in [Side -> Nat]
    <3>1. private_r \in [Side -> Nat]
      BY DEF IInv, TypeOK
    <3>2. private_r[s] + n[s] \in Nat
      BY <1>1
    <3>3. private_r' = [private_r EXCEPT ![s] = private_r[s] + n[s]]
      BY DEF ReadEnd
    <3> QED
      BY <3>1, <3>2, <3>3
  <2>2. n' \in [Side -> Nat] /\ pc' \in [Side -> PC]
    BY DEF IInv, TypeOK, ReadEnd, PC
  <2>3. data' \in [Side -> Seq(Byte)]
    BY DEF IInv, TypeOK, ReadEnd
  <2> QED
    BY <2>1, <2>2, <2>3, <1>4 DEF IInv, TypeOK
<1>6. OffsetsOrdered'
  <2> SUFFICES ASSUME NEW t \in Side PROVE OffsetsOrdered!(t)'
    BY DEF OffsetsOrdered
  <2>1. CASE Peer(t) = s
    BY <2>1, <1>1, <1>2, <1>3, <1>4 DEF IInv, OffsetsOrdered
  <2>2. CASE Peer(t) # s
    BY <2>2, <1>3, <1>4 DEF IInv, OffsetsOrdered
  <2> QED
    BY <2>1, <2>2
<1>7. CopyBounds'
  <2> SUFFICES ASSUME NEW t \in Side PROVE CopyBounds!(t)'
    BY Zenon DEF CopyBounds
  <2>1. CASE t = s
    BY <2>1, <1>2, <1>3, <1>4
  <2>2. CASE t # s
    BY <2>2, <1>3, <1>4 DEF IInv, CopyBounds
  <2> QED
    BY <2>1, <2>2, Zenon
<1>8. RingHoldsStream'
  BY <1>4 DEF IInv, RingHoldsStream
<1>9. ReadsWhatWasSent'
  <2> SUFFICES ASSUME NEW t \in Side, pc'[t] = "read", NEW i \in 1..Len(data'[t])
               PROVE  /\ private_r'[t] + i <= Len(sent[Peer(t)])
                      /\ data'[t][i] = sent[Peer(t)][private_r'[t] + i]
    BY <1>4 DEF ReadsWhatWasSent
  <2>1. t # s /\ pc[t] = "read" /\ data'[t] = data[t] /\ private_r'[t] = private_r[t]
    BY <1>3
  <2> QED
    BY <2>1 DEF IInv, ReadsWhatWasSent
<1> QED
  BY <1>5, <1>6, <1>7, <1>8, <1>9 DEF IInv

(* What is published has been sent.                                        *)
LEMMA SentCovers ==
    ASSUME IInv, NEW s \in Side
    PROVE  /\ offset_w[s] \in Nat /\ private_w[s] \in Nat /\ Len(sent[s]) \in Nat
           /\ offset_w[s] <= private_w[s] /\ private_w[s] <= Len(sent[s])
           /\ offset_w[s] <= Len(sent[s])
<1>1. /\ offset_w[s] \in Nat /\ private_w[s] \in Nat /\ n[s] \in Nat
      /\ sent[s] \in Seq(Byte) /\ data[s] \in Seq(Byte)
  BY DEF IInv, TypeOK
<1>2. Len(sent[s]) \in Nat /\ Len(data[s]) \in Nat
  BY <1>1
<1>3. offset_w[s] <= private_w[s]
  BY DEF IInv, OffsetsOrdered
<1>4. private_w[s] <= Len(sent[s])
  <2>1. CASE pc[s] = "write"
    <3>1. Len(data[s]) <= n[s] /\ Len(sent[s]) = private_w[s] + (n[s] - Len(data[s]))
      BY <2>1, Zenon DEF IInv, CopyBounds
    <3> QED
      BY <1>1, <1>2, <3>1
  <2>2. CASE pc[s] # "write"
    <3>1. Len(sent[s]) = private_w[s]
      BY <2>2, Zenon DEF IInv, CopyBounds
    <3> QED
      BY <1>1, <3>1
  <2> QED
    BY <2>1, <2>2, Zenon
<1> QED
  BY <1>1, <1>2, <1>3, <1>4

(* The copy of one byte in peek(): it is the byte that was sent at that    *)
(* position.                                                               *)
LEMMA ReadByteStep ==
    ASSUME IInv, NEW s \in Side, ReadByte(s)
    PROVE  IInv'
<1> USE SizeAssumption, PeerFacts
<1> DEFINE p == Peer(s)
           off == private_r[s] + Len(data[s])
           c == buf[p][off % Size[p]]
<1>1. /\ pc[s] = "read" /\ data[s] \in Seq(Byte) /\ Len(data[s]) \in Nat
      /\ n[s] \in Nat /\ Len(data[s]) < n[s] /\ private_r[s] \in Nat
      /\ offset_r[s] \in Nat /\ offset_w[p] \in Nat /\ Size[p] \in Nat \ {0}
      /\ p \in Side /\ Peer(p) = s
  <2>1. /\ pc[s] = "read" /\ data[s] \in Seq(Byte) /\ Len(data[s]) < n[s]
    BY DEF IInv, TypeOK, ReadByte
  <2>2. /\ n[s] \in Nat /\ private_r[s] \in Nat /\ p \in Side /\ Peer(p) = s
        /\ offset_r[s] \in Nat /\ offset_w[p] \in Nat /\ Size[p] \in Nat \ {0}
    BY DEF IInv, TypeOK
  <2> QED
    BY <2>1, <2>2
<1>2. data' = [data EXCEPT ![s] = Append(data[s], c)]
  BY DEF ReadByte
<1>3. UNCHANGED <<offset_r, offset_w, status, buf, private_r, private_w, kicked, pc, n, word, sent>>
  BY DEF ReadByte, ctrl, private
<1> HIDE DEF p
<1>4. /\ offset_r[s] <= private_r[s] /\ private_r[s] + n[s] <= offset_w[p]
      /\ Len(sent[s]) = private_w[s]
  <2>1. offset_r[s] <= private_r[s]
    BY <1>1 DEF IInv, OffsetsOrdered
  <2>2. private_r[s] + n[s] <= offset_w[p] /\ Len(sent[s]) = private_w[s]
    BY <1>1 DEF IInv, CopyBounds, p
  <2> QED
    BY <2>1, <2>2
<1> HIDE DEF c
<1>5. off \in Nat /\ offset_r[s] <= off /\ off < Len(sent[p]) /\ Len(sent[p]) \in Nat
  <2>1. offset_w[p] <= Len(sent[p]) /\ Len(sent[p]) \in Nat
    BY <1>1, SentCovers, Zenon
  <2> QED
    BY <1>1, <1>4, <2>1, ReadPosition, Zenon
<1>6. c = sent[p][off + 1]
  BY <1>1, <1>5, Zenon DEF IInv, RingHoldsStream, c
<1>7. c \in Byte
  <2>1. sent[p] \in Seq(Byte)
    BY <1>1, Zenon DEF IInv, TypeOK
  <2>2. off + 1 \in 1..Len(sent[p])
    BY <1>5
  <2> QED
    BY <1>6, <2>1, <2>2
<1>8. /\ Append(data[s], c) \in Seq(Byte)
      /\ Len(Append(data[s], c)) = Len(data[s]) + 1
      /\ Append(data[s], c)[Len(data[s]) + 1] = c
      /\ \A i \in 1..Len(data[s]) : Append(data[s], c)[i] = data[s][i]
  BY <1>1, <1>7
<1>9. /\ data'[s] = Append(data[s], c)
      /\ \A t \in Side : t # s => data'[t] = data[t]
  BY <1>2 DEF IInv, TypeOK
<1>10. TypeOK'
  BY <1>2, <1>3, <1>8, Zenon DEF IInv, TypeOK
<1>11. OffsetsOrdered'
  BY <1>3, Zenon DEF IInv, OffsetsOrdered
<1>12. CopyBounds'
  <2> SUFFICES ASSUME NEW t \in Side PROVE CopyBounds!(t)'
    BY Zenon DEF CopyBounds
  <2>1. CASE t = s
    <3>1. Len(data'[s]) <= n[s]
      BY <1>1, <1>8, <1>9
    <3> QED
      BY <2>1, <3>1, <1>1, <1>3, <1>4 DEF p
  <2>2. CASE t # s
    BY <2>2, <1>3, <1>9 DEF IInv, CopyBounds
  <2> QED
    BY <2>1, <2>2, Zenon
<1>13. RingHoldsStream'
  BY <1>3 DEF IInv, RingHoldsStream
<1>14. ReadsWhatWasSent'
  <2> SUFFICES ASSUME NEW t \in Side, pc[t] = "read", NEW i \in 1..Len(data'[t])
               PROVE  /\ private_r[t] + i <= Len(sent[Peer(t)])
                      /\ data'[t][i] = sent[Peer(t)][private_r[t] + i]
    BY <1>3, Zenon DEF ReadsWhatWasSent
  <2>1. CASE t # s
    <3>1. data'[t] = data[t]
      BY <1>9, <2>1, Zenon
    <3> QED
      BY <3>1, Zenon DEF IInv, ReadsWhatWasSent
  <2>2. CASE t = s /\ i = Len(data[s]) + 1
    <3>1. private_r[s] + i = off + 1
      BY <2>2, <1>1
    <3>2. off + 1 <= Len(sent[p])
      BY <1>1, <1>5
    <3>3. data'[s][i] = c
      BY <2>2, <1>8, <1>9
    <3> QED
      BY <2>2, <3>1, <3>2, <3>3, <1>6, Zenon DEF p
  <2>3. CASE t = s /\ i # Len(data[s]) + 1
    <3>1. i \in 1..Len(data[s])
      BY <2>3, <1>1, <1>8, <1>9
    <3>2. data'[s][i] = data[s][i]
      BY <3>1, <1>8, <1>9
    <3> QED
      BY <2>3, <3>1, <3>2 DEF IInv, ReadsWhatWasSent
  <2> QED
    BY <2>1, <2>2, <2>3
<1> QED
  BY <1>10, <1>11, <1>12, <1>13, <1>14 DEF IInv

(* notify_read() publishes private_offset_r: the slots it releases were    *)
(* read.                                                                   *)
LEMMA NotifyReadStep ==
    ASSUME IInv, NEW s \in Side, NotifyRead(s)
    PROVE  IInv'
<1> USE SizeAssumption, PeerFacts
<1>1. /\ pc[s] = "idle" /\ private_r[s] \in Nat /\ offset_r[s] \in Nat
      /\ offset_r[s] <= private_r[s]
  <2>1. pc[s] = "idle" /\ private_r[s] \in Nat /\ offset_r[s] \in Nat
    BY DEF IInv, TypeOK, NotifyRead
  <2>2. offset_r[Peer(Peer(s))] <= private_r[Peer(Peer(s))]
    BY DEF IInv, OffsetsOrdered
  <2> QED
    BY <2>1, <2>2
<1>2. /\ offset_r'[s] = private_r[s] /\ pc'[s] = "check"
      /\ \A t \in Side : t # s => offset_r'[t] = offset_r[t] /\ pc'[t] = pc[t]
  BY DEF IInv, TypeOK, NotifyRead
<1>3. UNCHANGED <<offset_w, status, buf, private_r, private_w, kicked, data, n, sent>>
  BY DEF NotifyRead, private
<1>4. \A t \in Side : offset_r[t] <= offset_r'[t] /\ offset_r'[t] \in Nat /\ offset_r[t] \in Nat
  <2>1. \A t \in Side : offset_r[t] \in Nat
    BY DEF IInv, TypeOK
  <2> QED
    BY <2>1, <1>1, <1>2
<1>5. TypeOK'
  <2>1. offset_r' \in [Side -> Nat] /\ pc' \in [Side -> PC]
    BY DEF IInv, TypeOK, NotifyRead, PC
  <2>2. [NoWord EXCEPT !.bit = "NOTIFY_WRITE"] \in Word
    BY DEF NoWord, Word, Bit
  <2>3. word' \in [Side -> Word]
    BY <2>2 DEF IInv, TypeOK, NotifyRead
  <2> QED
    BY <2>1, <2>3, <1>3, Zenon DEF IInv, TypeOK
<1>6. OffsetsOrdered'
  <2> SUFFICES ASSUME NEW t \in Side PROVE OffsetsOrdered!(t)'
    BY DEF OffsetsOrdered
  <2>0. Size[t] \in Nat /\ private_w[t] \in Nat
    BY DEF IInv, TypeOK
  <2>1. offset_r'[Peer(t)] <= private_r[Peer(t)]
    <3>1. CASE Peer(t) = s
      BY <1>1, <1>2, <3>1
    <3>2. CASE Peer(t) # s
      BY <1>2, <3>2 DEF IInv, OffsetsOrdered
    <3> QED
      BY <3>1, <3>2
  <2>2. private_w[t] <= offset_r'[Peer(t)] + (Size[t] - 1)
    <3>1. private_w[t] <= offset_r[Peer(t)] + (Size[t] - 1)
      BY DEF IInv, OffsetsOrdered
    <3>2. Peer(t) \in Side
      OBVIOUS
    <3> QED
      BY <1>4, <2>0, <3>1, <3>2
  <2> QED
    BY <2>1, <2>2, <1>3 DEF IInv, OffsetsOrdered
<1>7. CopyBounds'
  <2> SUFFICES ASSUME NEW t \in Side PROVE CopyBounds!(t)'
    BY Zenon DEF CopyBounds
  <2>0. /\ Size[t] \in Nat /\ private_w[t] \in Nat /\ n[t] \in Nat
        /\ offset_r[Peer(t)] \in Nat /\ offset_r'[Peer(t)] \in Nat
        /\ offset_r[Peer(t)] <= offset_r'[Peer(t)]
    BY <1>4, Zenon DEF IInv, TypeOK
  <2>1. /\ pc'[t] = "write" => pc[t] = "write"
        /\ pc'[t] = "read" => pc[t] = "read"
        /\ pc'[t] \notin {"read", "write"} => pc[t] \notin {"read", "write"}
    BY <1>1, <1>2, Zenon
  <2>2. pc'[t] = "write" => private_w[t] + n[t] <= offset_r'[Peer(t)] + (Size[t] - 1)
    <3>1. pc'[t] = "write" => private_w[t] + n[t] <= offset_r[Peer(t)] + (Size[t] - 1)
      BY <2>1 DEF IInv, CopyBounds
    <3> QED
      BY <2>0, <3>1
  <2>3. CASE pc'[t] = "write"
    BY <2>1, <2>2, <2>3, <1>3 DEF IInv, CopyBounds
  <2>4. CASE pc'[t] # "write"
    <3>1. pc[t] # "write"
      BY <2>4, <1>1, <1>2
    <3> QED
      BY <2>1, <2>4, <3>1, <1>3 DEF IInv, CopyBounds
  <2> QED
    BY <2>3, <2>4
<1>8. RingHoldsStream'
  <2> SUFFICES ASSUME NEW t \in Side, NEW i \in Nat, offset_r'[Peer(t)] <= i, i < Len(sent[t])
               PROVE  buf[t][i % Size[t]] = sent[t][i + 1]
    BY <1>3 DEF RingHoldsStream
  <2>1. offset_r[Peer(t)] <= i
    BY <1>4
  <2> QED
    BY <2>1 DEF IInv, RingHoldsStream
<1>9. ReadsWhatWasSent'
  BY <1>1, <1>2, <1>3 DEF IInv, ReadsWhatWasSent
<1> QED
  BY <1>5, <1>6, <1>7, <1>8, <1>9 DEF IInv

(* notify_write() publishes private_offset_w: the bytes it publishes are   *)
(* in the ring.                                                            *)
LEMMA NotifyWriteStep ==
    ASSUME IInv, NEW s \in Side, NotifyWrite(s)
    PROVE  IInv'
<1> USE SizeAssumption, PeerFacts
<1>1. /\ pc[s] = "idle" /\ private_w[s] \in Nat /\ offset_w[s] \in Nat
      /\ offset_w[s] <= private_w[s]
  BY SentCovers DEF NotifyWrite
<1>2. /\ offset_w'[s] = private_w[s] /\ pc'[s] = "check"
      /\ \A t \in Side : t # s => offset_w'[t] = offset_w[t] /\ pc'[t] = pc[t]
  BY DEF IInv, TypeOK, NotifyWrite
<1>3. UNCHANGED <<offset_r, status, buf, private_r, private_w, kicked, data, n, sent>>
  BY DEF NotifyWrite, private
<1>4. \A t \in Side : offset_w[t] <= offset_w'[t] /\ offset_w'[t] \in Nat /\ offset_w[t] \in Nat
  <2>1. \A t \in Side : offset_w[t] \in Nat
    BY DEF IInv, TypeOK
  <2> QED
    BY <2>1, <1>1, <1>2
<1>5. TypeOK'
  <2>1. offset_w' \in [Side -> Nat] /\ pc' \in [Side -> PC]
    BY DEF IInv, TypeOK, NotifyWrite, PC
  <2>2. [NoWord EXCEPT !.bit = "NOTIFY_READ"] \in Word
    BY DEF NoWord, Word, Bit
  <2>3. word' \in [Side -> Word]
    BY <2>2 DEF IInv, TypeOK, NotifyWrite
  <2> QED
    BY <2>1, <2>3, <1>3, Zenon DEF IInv, TypeOK
<1>6. OffsetsOrdered'
  <2> SUFFICES ASSUME NEW t \in Side PROVE OffsetsOrdered!(t)'
    BY DEF OffsetsOrdered
  <2>0. private_r[Peer(t)] \in Nat /\ private_w[t] \in Nat
    BY DEF IInv, TypeOK
  <2>1. offset_w'[t] <= private_w[t]
    <3>1. CASE t = s
      BY <1>2, <2>0, <3>1
    <3>2. CASE t # s
      BY <1>2, <3>2 DEF IInv, OffsetsOrdered
    <3> QED
      BY <3>1, <3>2
  <2>2. private_r[Peer(t)] <= offset_w'[t]
    BY <1>4, <2>0 DEF IInv, OffsetsOrdered
  <2> QED
    BY <2>1, <2>2, <1>3 DEF IInv, OffsetsOrdered
<1>7. CopyBounds'
  <2> SUFFICES ASSUME NEW t \in Side PROVE CopyBounds!(t)'
    BY DEF CopyBounds
  <2>0. /\ private_r[t] \in Nat /\ n[t] \in Nat
        /\ offset_w[Peer(t)] \in Nat /\ offset_w'[Peer(t)] \in Nat
        /\ offset_w[Peer(t)] <= offset_w'[Peer(t)]
    BY <1>4, Zenon DEF IInv, TypeOK
  <2>1. /\ pc'[t] = "write" => pc[t] = "write"
        /\ pc'[t] = "read" => pc[t] = "read"
        /\ pc'[t] \notin {"read", "write"} => pc[t] \notin {"read", "write"}
        /\ pc'[t] # "write" => pc[t] # "write"
    BY <1>1, <1>2, Zenon
  <2>2. pc'[t] = "read" => private_r[t] + n[t] <= offset_w'[Peer(t)]
    <3>1. pc'[t] = "read" => private_r[t] + n[t] <= offset_w[Peer(t)]
      BY <2>1 DEF IInv, CopyBounds
    <3> QED
      BY <2>0, <3>1
  <2> QED
    BY <2>1, <2>2, <1>3, Zenon DEF IInv, CopyBounds
<1>8. RingHoldsStream'
  BY <1>3 DEF IInv, RingHoldsStream
<1>9. ReadsWhatWasSent'
  BY <1>1, <1>2, <1>3, Zenon DEF IInv, ReadsWhatWasSent
<1> QED
  BY <1>5, <1>6, <1>7, <1>8, <1>9 DEF IInv

(* resume() after a destruction at any step: the private offsets restart   *)
(* from the published ones, and what was not published is forgotten.       *)
LEMMA ResumeStep ==
    ASSUME IInv, NEW s \in Side, Resume(s)
    PROVE  IInv'
<1> USE SizeAssumption, PeerFacts
<1> DEFINE kept == SubSeq(sent[s], 1, offset_w[s])
<1>1. /\ offset_w[s] \in Nat /\ Len(sent[s]) \in Nat /\ offset_w[s] <= Len(sent[s])
      /\ sent[s] \in Seq(Byte)
  <2>1. sent[s] \in Seq(Byte)
    BY DEF IInv, TypeOK
  <2>2. /\ offset_w[s] \in Nat /\ private_w[s] \in Nat /\ Len(sent[s]) \in Nat
        /\ offset_w[s] <= private_w[s] /\ private_w[s] <= Len(sent[s])
    BY SentCovers
  <2> QED
    BY <2>1, <2>2
<1>2. /\ kept \in Seq(Byte) /\ Len(kept) = offset_w[s]
      /\ \A i \in 1..offset_w[s] : kept[i] = sent[s][i]
  BY <1>1, SubSeqProperties
<1>3. /\ private_r'[s] = offset_r[s] /\ private_w'[s] = offset_w[s] /\ pc'[s] = "idle"
      /\ data'[s] = <<>> /\ sent'[s] = kept
  BY DEF IInv, TypeOK, Resume
<1>4. \A t \in Side : t # s =>
         /\ private_r'[t] = private_r[t] /\ private_w'[t] = private_w[t] /\ pc'[t] = pc[t]
         /\ data'[t] = data[t] /\ n'[t] = n[t] /\ sent'[t] = sent[t]
  BY DEF IInv, TypeOK, Resume
<1>5. UNCHANGED <<offset_r, offset_w, status, buf, kicked>>
  BY Zenon DEF Resume, ctrl
<1> HIDE DEF kept
<1>6. TypeOK'
  <2>1. /\ private_r' \in [Side -> Nat] /\ private_w' \in [Side -> Nat]
        /\ pc' \in [Side -> PC] /\ n' \in [Side -> Nat]
    BY Zenon DEF IInv, TypeOK, Resume, PC
  <2>2. NoWord \in Word
    BY DEF NoWord, Word, Bit
  <2>3. /\ word' \in [Side -> Word]
        /\ data' \in [Side -> Seq(Byte)]
    <3>1. word' \in [Side -> Word]
      BY <2>2 DEF IInv, TypeOK, Resume
    <3>2. data' \in [Side -> Seq(Byte)]
      BY DEF IInv, TypeOK, Resume
    <3> QED
      BY <3>1, <3>2
  <2>4. sent' \in [Side -> Seq(Byte)]
    <3>1. sent' = [sent EXCEPT ![s] = kept]
      BY DEF Resume, kept
    <3> QED
      BY <3>1, <1>2 DEF IInv, TypeOK
  <2> QED
    BY <2>1, <2>3, <2>4, <1>5, Zenon DEF IInv, TypeOK
<1>7. OffsetsOrdered'
  <2> SUFFICES ASSUME NEW t \in Side PROVE OffsetsOrdered!(t)'
    BY DEF OffsetsOrdered
  <2>0. /\ offset_r[Peer(t)] \in Nat /\ private_r[Peer(t)] \in Nat
        /\ offset_w[t] \in Nat /\ private_w[t] \in Nat /\ Size[t] \in Nat
    BY DEF IInv, TypeOK
  <2>1. CASE t = s
    <3>1. private_r'[Peer(t)] = private_r[Peer(t)]
      BY <2>1, <1>4
    <3>2. offset_w[t] <= offset_r[Peer(t)] + (Size[t] - 1)
      BY <2>0 DEF IInv, OffsetsOrdered
    <3>3. offset_r[Peer(t)] <= private_r[Peer(t)] /\ private_r[Peer(t)] <= offset_w[t]
      BY DEF IInv, OffsetsOrdered
    <3>4. /\ private_w'[t] = offset_w[t] /\ offset_r'[Peer(t)] = offset_r[Peer(t)]
          /\ offset_w'[t] = offset_w[t]
      BY <2>1, <1>3, <1>5, Zenon
    <3>5. offset_w[t] <= offset_w[t]
      BY <2>0
    <3> QED
      BY <3>1, <3>2, <3>3, <3>4, <3>5, Zenon
  <2>2. CASE t # s
    <3>1. Peer(t) = s /\ private_w'[t] = private_w[t]
      BY <2>2, <1>4, SideIs
    <3>2. offset_r[s] <= offset_w[t]
      BY <2>0, <3>1 DEF IInv, OffsetsOrdered
    <3>3. /\ offset_w[t] <= private_w[t]
          /\ private_w[t] <= offset_r[s] + (Size[t] - 1)
      BY <3>1 DEF IInv, OffsetsOrdered
    <3>4. /\ private_r'[Peer(t)] = offset_r[s] /\ offset_r'[Peer(t)] = offset_r[s]
          /\ offset_w'[t] = offset_w[t]
      BY <3>1, <1>3, <1>5, Zenon
    <3>5. offset_r[s] <= offset_r[s]
      BY <2>0, <3>1
    <3> QED
      BY <3>1, <3>2, <3>3, <3>4, <3>5, Zenon
  <2> QED
    BY <2>1, <2>2
<1>8. CopyBounds'
  <2> SUFFICES ASSUME NEW t \in Side PROVE CopyBounds!(t)'
    BY DEF CopyBounds
  <2>1. CASE t = s
    BY <2>1, <1>2, <1>3, <1>5
  <2>2. CASE t # s
    BY <2>2, <1>4, <1>5, Zenon DEF IInv, CopyBounds
  <2> QED
    BY <2>1, <2>2, Zenon
<1>9. RingHoldsStream'
  <2> SUFFICES ASSUME NEW t \in Side, NEW i \in Nat, offset_r[Peer(t)] <= i, i < Len(sent'[t])
               PROVE  buf[t][i % Size[t]] = sent'[t][i + 1]
    BY <1>5 DEF RingHoldsStream
  <2>1. CASE t = s
    <3>1. i < Len(sent[t]) /\ i + 1 \in 1..offset_w[s]
      BY <2>1, <1>1, <1>2, <1>3
    <3>2. sent'[t][i + 1] = sent[t][i + 1]
      BY <2>1, <3>1, <1>2, <1>3
    <3> QED
      BY <3>1, <3>2 DEF IInv, RingHoldsStream
  <2>2. CASE t # s
    BY <2>2, <1>4 DEF IInv, RingHoldsStream
  <2> QED
    BY <2>1, <2>2
<1>10. ReadsWhatWasSent'
  <2> SUFFICES ASSUME NEW t \in Side, pc'[t] = "read", NEW i \in 1..Len(data'[t])
               PROVE  /\ private_r'[t] + i <= Len(sent'[Peer(t)])
                      /\ data'[t][i] = sent'[Peer(t)][private_r'[t] + i]
    BY DEF ReadsWhatWasSent
  <2>1. /\ t # s /\ Peer(t) = s /\ pc[t] = "read"
        /\ data'[t] = data[t] /\ private_r'[t] = private_r[t]
    BY <1>3, <1>4, SideIs
  <2>2. /\ private_r[t] \in Nat /\ n[t] \in Nat /\ data[t] \in Seq(Byte)
    BY DEF IInv, TypeOK
  <2>3. Len(data[t]) <= n[t] /\ private_r[t] + n[t] <= offset_w[s]
    BY <2>1, Zenon DEF IInv, CopyBounds
  <2>4. i \in 1..Len(data[t]) /\ Len(data[t]) \in Nat
    <3>1. i \in 1..Len(data[t])
      BY <2>1, Zenon
    <3>2. Len(data[t]) \in Nat
      BY <2>2
    <3> QED
      BY <3>1, <3>2
  <2>5. private_r[t] + i \in 1..offset_w[s]
    <3>1. i \in Nat /\ 1 <= i /\ i <= n[t]
      BY <2>2, <2>3, <2>4
    <3> QED
      BY <2>2, <2>3, <3>1, <1>1, PositionRead, Zenon
  <2>6. data[t][i] = sent[s][private_r[t] + i]
    BY <2>1, <2>4 DEF IInv, ReadsWhatWasSent
  <2> QED
    <3>1. sent'[s][private_r[t] + i] = sent[s][private_r[t] + i]
      BY <2>5, <1>2, <1>3, Zenon
    <3>2. private_r[t] + i <= Len(sent'[s])
      <4>1. Len(sent'[s]) = offset_w[s]
        BY <1>2, <1>3, Zenon
      <4>2. private_r[t] + i <= offset_w[s]
        BY <2>5, <1>1
      <4> QED
        BY <4>1, <4>2, Zenon
    <3> QED
      BY <2>1, <2>6, <3>1, <3>2, Zenon
<1> QED
  BY <1>6, <1>7, <1>8, <1>9, <1>10 DEF IInv

----------------------------------------------------------------------------
(* Empty rings, as new() finds them.                                       *)
LEMMA InitIInv == Init => IInv
<1> SUFFICES ASSUME Init PROVE IInv
  OBVIOUS
<1> USE SizeAssumption, ByteAssumption, PeerFacts
<1>1. TypeOK
  <2>1. (CHOOSE b \in Byte : TRUE) \in Byte
    BY Zenon
  <2>2. NoWord \in Word
    BY DEF NoWord, Word, Bit
  <2>3. buf = [s \in Side |-> [i \in 0..(Size[s] - 1) |-> CHOOSE b \in Byte : TRUE]]
    BY DEF Init
  <2>4. DOMAIN buf = Side /\ \A s \in Side : buf[s] \in [0..(Size[s] - 1) -> Byte]
    BY <2>1, <2>3, Zenon
  <2> QED
    BY <2>2, <2>4 DEF Init, TypeOK, PC, Side
<1>2. OffsetsOrdered
  BY DEF Init, OffsetsOrdered
<1>3. CopyBounds
  BY DEF Init, CopyBounds
<1>4. RingHoldsStream
  BY DEF Init, RingHoldsStream
<1>5. ReadsWhatWasSent
  BY DEF Init, ReadsWhatWasSent
<1> QED
  BY <1>1, <1>2, <1>3, <1>4, <1>5 DEF IInv

(* Every step keeps the invariant.                                         *)
LEMMA NextIInv == IInv /\ [Next]_vars => IInv'
<1> SUFFICES ASSUME IInv, [Next]_vars PROVE IInv'
  OBVIOUS
<1>1. CASE UNCHANGED vars
  <2>1. UNCHANGED <<offset_r, offset_w, status, buf, private_r, private_w, kicked,
                    pc, data, n, word, sent>>
    BY <1>1 DEF vars, ctrl, private
  <2>2. TypeOK'
    BY <2>1 DEF IInv, TypeOK
  <2>3. DataInv'
    BY <2>1, QuietStep, Zenon DEF IInv, TypeOK, dataVars, private
  <2> QED
    BY <2>2, <2>3 DEF IInv, DataInv
<1>2. CASE Next
  <2> PICK s \in Side :
        \/ \E len \in 1..(Size[s] - 1) : \E bytes \in [1..len -> Byte] : WriteBegin(s, bytes)
        \/ \E len \in 1..Size[Peer(s)] : ReadBegin(s, len)
        \/ NotifyRead(s) \/ NotifyWrite(s)
        \/ \E bit \in UsedBits, val \in {0, 1} : ModifyLoad(s, bit, val)
        \/ Continue(s)
        \/ Resume(s)
        \/ WaitKick(s)
    BY <1>2 DEF Next
  <2>1. CASE \E len \in 1..(Size[s] - 1) : \E bytes \in [1..len -> Byte] : WriteBegin(s, bytes)
    BY <2>1, WriteBeginStep
  <2>2. CASE \E len \in 1..Size[Peer(s)] : ReadBegin(s, len)
    BY <2>2, ReadBeginStep
  <2>3. CASE NotifyRead(s)
    BY <2>3, NotifyReadStep
  <2>4. CASE NotifyWrite(s)
    BY <2>4, NotifyWriteStep
  <2>5. CASE \E bit \in UsedBits, val \in {0, 1} : ModifyLoad(s, bit, val)
    BY <2>5, ControlStep
  <2>6. CASE Continue(s)
    BY <2>6, WriteByteStep, WriteEndStep, ReadByteStep, ReadEndStep, ControlStep DEF Continue
  <2>7. CASE Resume(s)
    BY <2>7, ResumeStep
  <2>8. CASE WaitKick(s)
    BY <2>8, ControlStep
  <2> QED
    BY <2>1, <2>2, <2>3, <2>4, <2>5, <2>6, <2>7, <2>8
<1> QED
  BY <1>1, <1>2

(* The inductive invariant holds in every reachable state.                 *)
THEOREM SpecIInv == Spec => []IInv
BY InitIInv, NextIInv, PTL DEF Spec

(* In every direction and at every step, the offsets that the two sides    *)
(* hold are in order and the ring is never full: the assertions of         *)
(* poll_read() and poll_write() never fail.                                *)
THEOREM SpecOffsetsOrdered == Spec => []OffsetsOrdered
<1>1. IInv => OffsetsOrdered
  BY DEF IInv
<1> QED
  BY <1>1, SpecIInv, PTL

(* A read() returns the bytes of the peer's stream at its position,        *)
(* whatever the ring size and however often either side is restarted.      *)
THEOREM SpecReadsWhatWasSent == Spec => []ReadsWhatWasSent
<1>1. IInv => ReadsWhatWasSent
  BY DEF IInv
<1> QED
  BY <1>1, SpecIInv, PTL

(* A step that leaves the offsets and the stream of s alone, or extends    *)
(* them, publishes correctly.                                              *)
LEMMA PublicationKept ==
    ASSUME IInv, NEW s \in Side,
           offset_r'[s] = offset_r[s] \/ offset_r'[s] = private_r[s],
           offset_w'[s] = offset_w[s] \/ offset_w'[s] = private_w[s],
           \/ sent'[s] = sent[s]
           \/ \E b \in Byte : sent'[s] = Append(sent[s], b)
           \/ sent'[s] = SubSeq(sent[s], 1, offset_w[s])
    PROVE  Publication(s)
<1>1. /\ offset_w[s] \in Nat /\ private_w[s] \in Nat /\ Len(sent[s]) \in Nat
      /\ offset_w[s] <= private_w[s] /\ private_w[s] <= Len(sent[s])
  BY SentCovers
<1>2. /\ offset_r[s] \in Nat /\ private_r[s] \in Nat /\ sent[s] \in Seq(Byte)
  BY DEF IInv, TypeOK
<1>3. offset_r[s] <= private_r[s]
  <2>1. offset_r[Peer(Peer(s))] <= private_r[Peer(Peer(s))]
    BY PeerFacts DEF IInv, OffsetsOrdered
  <2> QED
    BY <2>1, PeerFacts, Zenon
<1>4. offset_r[s] <= offset_r'[s] /\ offset_w[s] <= offset_w'[s]
  BY <1>1, <1>2, <1>3
<1>5. ASSUME NEW i \in 1..offset_w[s]
      PROVE  i <= Len(sent'[s]) /\ sent'[s][i] = sent[s][i]
  <2>0. i \in 1..Len(sent[s])
    BY <1>1
  <2>1. CASE sent'[s] = sent[s]
    BY <2>0, <2>1
  <2>2. CASE \E b \in Byte : sent'[s] = Append(sent[s], b)
    BY <2>0, <2>2, <1>1, <1>2
  <2>3. CASE sent'[s] = SubSeq(sent[s], 1, offset_w[s])
    <3>1. \A j \in 1..offset_w[s] : sent[s][j] \in Byte
      BY <1>1, <1>2
    <3>2. /\ Len(SubSeq(sent[s], 1, offset_w[s])) = offset_w[s]
          /\ \A j \in 1..offset_w[s] : SubSeq(sent[s], 1, offset_w[s])[j] = sent[s][j]
      BY <3>1, <1>1, <1>2, SubSeqProperties
    <3> QED
      BY <2>3, <3>2, <1>1
  <2> QED
    BY <2>1, <2>2, <2>3
<1> QED
  BY <1>4, <1>5 DEF Publication

(* No step, and no restart, takes back what a side has published.          *)
THEOREM SpecPublishedIsFinal == Spec => PublishedIsFinal
<1>1. ASSUME IInv, Next
      PROVE  \A s \in Side : Publication(s)
  <2> SUFFICES ASSUME NEW t \in Side PROVE Publication(t)
    OBVIOUS
  <2> USE PublicationKept
  <2>0. /\ offset_r \in [Side -> Nat] /\ offset_w \in [Side -> Nat]
        /\ sent \in [Side -> Seq(Byte)]
    BY <1>1, Zenon DEF IInv, TypeOK
  <2>1. CASE UNCHANGED <<offset_r, offset_w, sent>>
    BY <1>1, <2>1
  <2>2. ASSUME NEW s \in Side, WriteByte(s) PROVE Publication(t)
    <3>1. UNCHANGED <<offset_r, offset_w>> /\ sent' = [sent EXCEPT ![s] = Append(sent[s], Head(data[s]))]
      BY <2>2 DEF WriteByte, ctrl
    <3>2. Head(data[s]) \in Byte
      <4>1. data[s] \in Seq(Byte) /\ data[s] # <<>>
        BY <1>1, <2>2 DEF IInv, TypeOK, WriteByte
      <4> QED
        BY <4>1, HeadTailProperties
    <3>3. sent'[t] = sent[t] \/ sent'[t] = Append(sent[t], Head(data[s]))
      BY <2>0, <3>1, Zenon
    <3> QED
      BY <1>1, <3>1, <3>2, <3>3
  <2>3. ASSUME NEW s \in Side, Resume(s) PROVE Publication(t)
    <3>1. /\ UNCHANGED <<offset_r, offset_w>>
          /\ sent' = [sent EXCEPT ![s] = SubSeq(sent[s], 1, offset_w[s])]
      BY <2>3, Zenon DEF Resume, ctrl
    <3>2. sent'[t] = sent[t] \/ sent'[t] = SubSeq(sent[t], 1, offset_w[t])
      BY <2>0, <3>1, Zenon
    <3> QED
      BY <1>1, <3>1, <3>2, Zenon
  <2>4. ASSUME NEW s \in Side, NotifyRead(s) PROVE Publication(t)
    <3>1. /\ UNCHANGED <<offset_w, sent>>
          /\ offset_r'[t] = offset_r[t] \/ offset_r'[t] = private_r[t]
      BY <2>0, <2>4 DEF NotifyRead
    <3> QED
      BY <1>1, <3>1
  <2>5. ASSUME NEW s \in Side, NotifyWrite(s) PROVE Publication(t)
    <3>1. /\ UNCHANGED <<offset_r, sent>>
          /\ offset_w'[t] = offset_w[t] \/ offset_w'[t] = private_w[t]
      BY <2>0, <2>5 DEF NotifyWrite
    <3> QED
      BY <1>1, <3>1
  <2>6. \/ UNCHANGED <<offset_r, offset_w, sent>>
        \/ \E s \in Side : WriteByte(s) \/ Resume(s) \/ NotifyRead(s) \/ NotifyWrite(s)
    <3>1. ASSUME NEW s \in Side, Continue(s), ~WriteByte(s)
          PROVE  UNCHANGED <<offset_r, offset_w, sent>>
      BY <3>1, Zenon DEF Continue, WriteEnd, ReadByte, ReadEnd, Check, ClearLoad, ClearStore,
                         Kick, ModifyStore, ctrl
    <3>2. ASSUME NEW s \in Side, NEW bytes, WriteBegin(s, bytes)
          PROVE  UNCHANGED <<offset_r, offset_w, sent>>
      BY <3>2, Zenon DEF WriteBegin, ctrl
    <3>3. ASSUME NEW s \in Side, NEW len, ReadBegin(s, len)
          PROVE  UNCHANGED <<offset_r, offset_w, sent>>
      BY <3>3, Zenon DEF ReadBegin, ctrl
    <3>4. ASSUME NEW s \in Side, NEW bit, NEW val, ModifyLoad(s, bit, val)
          PROVE  UNCHANGED <<offset_r, offset_w, sent>>
      BY <3>4, Zenon DEF ModifyLoad, ctrl
    <3>5. ASSUME NEW s \in Side, WaitKick(s)
          PROVE  UNCHANGED <<offset_r, offset_w, sent>>
      BY <3>5, Zenon DEF WaitKick, ctrl
    <3> QED
      BY <1>1, <3>1, <3>2, <3>3, <3>4, <3>5, Zenon DEF Next
  <2> QED
    BY <2>1, <2>2, <2>3, <2>4, <2>5, <2>6
<1>2. IInv /\ [Next]_vars => [\A s \in Side : Publication(s)]_vars
  BY <1>1
<1> QED
  BY <1>2, SpecIInv, PTL DEF Spec, PublishedIsFinal
=============================================================================
