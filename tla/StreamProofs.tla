---------------------------- MODULE StreamProofs ----------------------------
(***************************************************************************)
(* Proofs about two streams: the contents of a file in Data9P, for every   *)
(* message size, length of a file and offer of the client, and what the    *)
(* clients of SerialConsole print and are typed, for any number of clients *)
(* and any limit of the buffers.                                           *)
(*                                                                         *)
(* A file: while a transfer is under way, the file and the rest of the     *)
(* transfer together are what the client believes (TransferInv).           *)
(*                                                                         *)
(* The console: what a client sent is what was printed of it and what is   *)
(* buffered (Split), whatever flush() and flush_line() do within an event; *)
(* and between events no buffer holds a line (Settled), since the          *)
(* character that ends one flushes it, so that the loops over lines find   *)
(* none.                                                                   *)
(***************************************************************************)
EXTENDS SerialConsole, Data9P, WellFoundedInduction, TLAPS

(* The smaller of two numbers.                                             *)
LEMMA Least ==
    ASSUME NEW x \in Int, NEW y \in Int
    PROVE  Min({x, y}) = IF x <= y THEN x ELSE y
BY DEF Min

(* The greater of two numbers.                                             *)
LEMMA Greatest ==
    ASSUME NEW x \in Int, NEW y \in Int
    PROVE  Max({x, y}) = IF x >= y THEN x ELSE y
BY DEF Max

(* SetLen() and WriteAt(), byte by byte.                                   *)
LEMMA SetLenIs ==
    ASSUME NEW s \in Seq(Byte), NEW n \in Nat, 0 \in Byte
    PROVE  /\ SetLen(s, n) \in Seq(Byte) /\ Len(SetLen(s, n)) = n
           /\ \A i \in 1 .. n : SetLen(s, n)[i] = IF i <= Len(s) THEN s[i] ELSE 0
<1>1. SetLen(s, n) \in [1 .. n -> Byte]
  BY DEF SetLen
<1> QED
  BY <1>1 DEF SetLen

(* t is s with d written at offset o; a gap is filled with zeros.         *)
Written(t, s, d, o) ==
    /\ t \in Seq(Byte) /\ Len(t) = (IF Len(s) >= o + Len(d) THEN Len(s) ELSE o + Len(d))
    /\ \A i \in 1 .. Len(t) : t[i] = IF i > o /\ i <= o + Len(d) THEN d[i - o]
                                     ELSE IF i <= Len(s) THEN s[i] ELSE 0

(* WriteAt() is such a write.                                              *)
LEMMA WriteAtIs ==
    ASSUME NEW s \in Seq(Byte), NEW d \in Seq(Byte), NEW o \in Nat, 0 \in Byte
    PROVE  Written(WriteAt(s, d, o), s, d, o)
<1> DEFINE n == Max({Len(s), o + Len(d)})
           t == [i \in 1 .. n |-> IF i > o /\ i <= o + Len(d) THEN d[i - o] ELSE SetLen(s, n)[i]]
<1>0. Len(s) \in Nat /\ Len(d) \in Nat
  OBVIOUS
<1>1. n = (IF Len(s) >= o + Len(d) THEN Len(s) ELSE o + Len(d)) /\ n \in Nat
  BY <1>0, Greatest
<1> HIDE DEF n
<1>2. /\ SetLen(s, n) \in Seq(Byte) /\ Len(SetLen(s, n)) = n
      /\ \A i \in 1 .. n : SetLen(s, n)[i] = IF i <= Len(s) THEN s[i] ELSE 0
  BY <1>1, SetLenIs, Zenon
<1>3. \A i \in 1 .. n : t[i] \in Byte
  BY <1>0, <1>1, <1>2
<1>4. t \in Seq(Byte) /\ Len(t) = n
  <2>1. t \in [1 .. n -> Byte]
    BY <1>3
  <2> HIDE DEF t
  <2> QED
    BY <2>1, <1>1
<1>5. \A i \in 1 .. n : t[i] = IF i > o /\ i <= o + Len(d) THEN d[i - o]
                               ELSE IF i <= Len(s) THEN s[i] ELSE 0
  BY <1>2
<1>6. WriteAt(s, d, o) = t
  BY DEF WriteAt, n
<1> HIDE DEF t
<1> QED
  BY <1>1, <1>4, <1>5, <1>6 DEF Written

(* Two ways to write the same.                                             *)
LEMMA WrittenSame ==
    ASSUME NEW t, NEW u, NEW s, NEW d, NEW o, Written(t, s, d, o), Written(u, s, d, o)
    PROVE  t = u
<1>1. t \in Seq(Byte) /\ u \in Seq(Byte) /\ Len(t) = Len(u) /\ \A i \in 1 .. Len(t) : t[i] = u[i]
  BY DEF Written
<1> QED
  BY <1>1

(* A write of k bytes and one of the rest behind them make one.            *)
LEMMA WriteRest ==
    ASSUME NEW s \in Seq(Byte), NEW d \in Seq(Byte), NEW o \in Nat, NEW k \in 1 .. Len(d),
           NEW t, Written(t, s, SubSeq(d, 1, k), o),
           NEW u, Written(u, t, SubSeq(d, k + 1, Len(d)), o + k)
    PROVE  Written(u, s, d, o)
<1> DEFINE a == SubSeq(d, 1, k)
           b == SubSeq(d, k + 1, Len(d))
<1>1. Len(s) \in Nat /\ Len(d) \in Nat /\ k \in Nat /\ k <= Len(d)
  OBVIOUS
<1>2. /\ Len(a) = k /\ \A i \in 1 .. k : a[i] = d[i]
      /\ Len(b) = Len(d) - k /\ \A i \in 1 .. Len(d) - k : b[i] = d[k + i]
  BY <1>1
<1>3. Written(t, s, a, o) /\ Written(u, t, b, o + k)
  OBVIOUS
<1> HIDE DEF a, b
<1>4. /\ Len(t) = (IF Len(s) >= o + k THEN Len(s) ELSE o + k) /\ Len(t) \in Nat
      /\ u \in Seq(Byte) /\ Len(u) = (IF Len(s) >= o + Len(d) THEN Len(s) ELSE o + Len(d))
  <2>1. Len(t) = (IF Len(s) >= o + k THEN Len(s) ELSE o + k)
    BY <1>2, <1>3 DEF Written
  <2>2. Len(t) \in Nat
    BY <1>1, <2>1
  <2>3. (o + k) + Len(b) = o + Len(d)
    BY <1>1, <1>2
  <2>4. u \in Seq(Byte) /\ Len(u) = (IF Len(t) >= o + Len(d) THEN Len(t) ELSE o + Len(d))
    BY <1>3, <2>3, Zenon DEF Written
  <2>5. Len(u) = (IF Len(s) >= o + Len(d) THEN Len(s) ELSE o + Len(d))
    <3>1. CASE Len(s) >= o + k
      <4>1. Len(t) = Len(s)
        BY <3>1, <2>1
      <4> QED
        BY <4>1, <2>4
    <3>2. CASE ~(Len(s) >= o + k)
      <4>1. Len(t) = o + k
        BY <3>2, <2>1
      <4>2. ~(Len(s) >= o + Len(d)) /\ (o + k >= o + Len(d) => o + k = o + Len(d))
        BY <3>2, <1>1
      <4> QED
        BY <4>1, <4>2, <2>4
    <3> QED
      BY <3>1, <3>2
  <2> QED
    BY <2>1, <2>2, <2>4, <2>5
<1>6. \A i \in 1 .. Len(u) : u[i] = IF i > o + k /\ i <= o + Len(d) THEN b[i - (o + k)]
                                    ELSE IF i <= Len(t) THEN t[i] ELSE 0
  <2>1. (o + k) + Len(b) = o + Len(d)
    BY <1>1, <1>2
  <2> QED
    BY <1>3, <2>1, Zenon DEF Written
<1>7. \A i \in 1 .. Len(t) : t[i] = IF i > o /\ i <= o + k THEN a[i - o]
                                    ELSE IF i <= Len(s) THEN s[i] ELSE 0
  BY <1>2, <1>3 DEF Written
<1>8. ASSUME NEW i \in 1 .. Len(u)
      PROVE  u[i] = IF i > o /\ i <= o + Len(d) THEN d[i - o] ELSE IF i <= Len(s) THEN s[i] ELSE 0
  <2>0. i \in Nat /\ i >= 1 /\ i <= Len(u)
    BY <1>1, <1>4
  <2>1. CASE i > o + k /\ i <= o + Len(d)
    <3>1. i - (o + k) \in 1 .. Len(d) - k /\ k + (i - (o + k)) = i - o
      BY <2>0, <2>1, <1>1
    <3>2. u[i] = b[i - (o + k)]
      BY <2>1, <1>6
    <3>3. b[i - (o + k)] = d[i - o]
      BY <3>1, <1>2, Zenon
    <3> QED
      BY <2>0, <2>1, <3>2, <3>3, <1>1
  <2>2. CASE i > o /\ i <= o + k
    <3>0. i \in 1 .. Len(t) /\ ~(i > o + k) /\ i - o \in 1 .. k
      BY <2>0, <2>2, <1>1, <1>4
    <3>1. u[i] = t[i]
      BY <3>0, <1>6
    <3>2. t[i] = a[i - o]
      BY <3>0, <2>2, <1>7
    <3> QED
      BY <2>0, <2>2, <3>0, <3>1, <3>2, <1>1, <1>2
  <2>3. CASE i <= o \/ i > o + Len(d)
    <3>0. /\ ~(i > o + k /\ i <= o + Len(d)) /\ ~(i > o /\ i <= o + k)
          /\ i <= Len(t) => i \in 1 .. Len(t)
      BY <2>0, <2>3, <1>1, <1>4
    <3>1. u[i] = IF i <= Len(t) THEN t[i] ELSE 0
      BY <3>0, <1>6
    <3>2. i <= Len(t) => t[i] = IF i <= Len(s) THEN s[i] ELSE 0
      BY <3>0, <1>7
    <3>3. i <= Len(s) => i <= Len(t)
      BY <2>0, <1>1, <1>4
    <3>4. u[i] = IF i <= Len(s) THEN s[i] ELSE 0
      BY <3>1, <3>2, <3>3
    <3> QED
      BY <2>0, <2>3, <3>4, <1>1
  <2> QED
    BY <2>0, <2>1, <2>2, <2>3, <1>1
<1> QED
  BY <1>4, <1>8, Zenon DEF Written

----------------------------------------------------------------------------
(* While a write is under way, the file with the rest written to it is     *)
(* what the client believes; a read has returned the file up to off.       *)
TransferInv ==
    /\ msize \in Nat /\ msize >= MinSize
    /\ file \in Seq(Byte) /\ belief \in Seq(Byte) /\ buf \in Seq(Byte)
    /\ off \in Nat /\ reply \in Nat /\ reply + ReadHeader <= msize
    /\ job # "write" => file = belief
    /\ job = "write" => Written(belief, file, buf, off)
    /\ job = "read" => off <= Len(belief) /\ buf = SubSeq(belief, 1, off)
    /\ job = "got" => buf = belief

(* No transfer is under way at first.                                      *)
LEMMA InitTransferInv ==
    ASSUME DataInit PROVE TransferInv
BY SizeAssumption, DataAssumption DEF DataInit, TransferInv

(* version() closes the file and sets the size of messages; the transfer   *)
(* goes on after the next lopen().                                         *)
LEMMA VersionInv ==
    ASSUME TransferInv, NEW size \in Offer, version_size(size) PROVE TransferInv'
<1>1. size \in Nat /\ MaxSize \in Nat /\ MinSize <= MaxSize /\ MinSize \in Nat /\ ReadHeader \in Nat /\ ReadHeader < MinSize
  BY SizeAssumption, DataAssumption
<1>2. msize' \in Nat /\ msize' >= MinSize
  BY <1>1, Least DEF version_size, agree
<1>3. reply' = 0 /\ UNCHANGED <<file, job, off, buf, belief>>
  BY DEF version_size, transfer
<1> QED
  BY <1>1, <1>2, <1>3 DEF TransferInv

(* Concatenation, place by place.                                          *)
LEMMA Concat ==
    ASSUME NEW S, NEW s \in Seq(S), NEW t \in Seq(S)
    PROVE  /\ s \o t \in Seq(S) /\ Len(s \o t) = Len(s) + Len(t)
           /\ \A k \in 1 .. Len(s) : (s \o t)[k] = s[k]
           /\ \A k \in 1 .. Len(t) : (s \o t)[Len(s) + k] = t[k]
<1>1. Len(s) \in Nat /\ Len(t) \in Nat
  OBVIOUS
<1> QED
  BY <1>1

(* What a read returns, and how the next one goes on.                      *)
LEMMA ReadOn ==
    ASSUME NEW s \in Seq(Byte), NEW o \in 0 .. Len(s), NEW n \in 0 .. Len(s) - o
    PROVE  SubSeq(s, 1, o) \o SubSeq(s, o + 1, o + n) = SubSeq(s, 1, o + n)
<1> DEFINE a == SubSeq(s, 1, o)
           b == SubSeq(s, o + 1, o + n)
           c == SubSeq(s, 1, o + n)
<1>1. Len(s) \in Nat /\ o \in Nat /\ n \in Nat /\ o + n <= Len(s)
  OBVIOUS
<1>2. /\ a \in Seq(Byte) /\ Len(a) = o /\ \A i \in 1 .. o : a[i] = s[i]
      /\ b \in Seq(Byte) /\ Len(b) = n /\ \A i \in 1 .. n : b[i] = s[o + i]
      /\ c \in Seq(Byte) /\ Len(c) = o + n /\ \A i \in 1 .. o + n : c[i] = s[i]
  BY <1>1
<1> HIDE DEF a, b, c
<1>3. /\ a \o b \in Seq(Byte) /\ Len(a \o b) = Len(a) + Len(b)
      /\ \A i \in 1 .. Len(a) : (a \o b)[i] = a[i]
      /\ \A i \in 1 .. Len(b) : (a \o b)[Len(a) + i] = b[i]
  <2>1. a \in Seq(Byte) /\ b \in Seq(Byte)
    BY <1>2
  <2> QED
    BY <2>1, Concat
<1>4. ASSUME NEW i \in 1 .. o + n PROVE (a \o b)[i] = c[i]
  <2>1. CASE i <= o
    <3>1. i \in 1 .. Len(a)
      BY <2>1, <1>1, <1>2
    <3> QED
      BY <3>1, <1>2, <1>3, Zenon
  <2>2. CASE i > o
    <3>1. i - o \in 1 .. n /\ o + (i - o) = i
      BY <2>2, <1>1
    <3>2. (a \o b)[i] = b[i - o]
      BY <3>1, <1>2, <1>3
    <3> QED
      BY <3>1, <3>2, <1>2, Zenon
  <2>3. i <= o \/ i > o
    BY <1>1
  <2> QED
    BY <2>1, <2>2, <2>3, Zenon
<1>5. a \o b = c
  <2> DEFINE e == a \o b
  <2>1. e \in Seq(Byte) /\ Len(e) = Len(c) /\ \A i \in 1 .. Len(c) : e[i] = c[i]
    BY <1>2, <1>3, <1>4
  <2> HIDE DEF e
  <2>2. e = c
    BY <2>1, <1>2
  <2> QED
    BY <2>2 DEF e
<1> QED
  BY <1>5 DEF a, b, c

(* read(): the bytes of the reply follow the ones that the client has.     *)
LEMMA ReadInv ==
    ASSUME TransferInv, NEW count \in ReadCount, read(count) PROVE TransferInv'
<1> DEFINE cap == capacity(count)
           left == Min({cap, Max({Len(file) - off, 0})})
<1>1. /\ job = "read" /\ file = belief /\ off <= Len(file) /\ buf = SubSeq(file, 1, off)
      /\ file \in Seq(Byte) /\ off \in Nat /\ Len(file) \in Nat
  BY DEF read, TransferInv
<1>2. cap \in Nat \ {0} /\ cap + ReadHeader <= msize
  <2>1. count \in Nat /\ count > 0 /\ ReadHeader \in Nat /\ MinSize \in Nat /\ ReadHeader < MinSize
        /\ msize \in Nat /\ msize >= MinSize
    BY SizeAssumption, DataAssumption DEF TransferInv
  <2>2. cap = IF msize - ReadHeader <= count THEN msize - ReadHeader ELSE count
    BY <2>1, Least DEF capacity
  <2> QED
    BY <2>1, <2>2
<1> HIDE DEF cap
<1>3. left = IF cap <= Len(file) - off THEN cap ELSE Len(file) - off
  <2>1. Max({Len(file) - off, 0}) = Len(file) - off
    BY <1>1, Greatest
  <2>2. left = Min({cap, Len(file) - off})
    BY <2>1, Zenon
  <2> HIDE DEF left
  <2>3. Len(file) - off \in Int /\ cap \in Int
    BY <1>1, <1>2
  <2> QED
    BY <2>2, <2>3, Least
<1>4. left \in Nat /\ left <= cap /\ left <= Len(file) - off /\ (left = 0 => off = Len(file))
  BY <1>1, <1>2, <1>3
<1>5. PICK n \in Min({1, left}) .. left :
          /\ buf' = buf \o SubSeq(file, off + 1, off + n) /\ off' = off + n /\ reply' = n
          /\ job' = IF n = 0 THEN "got" ELSE "read"
  BY Zenon DEF read, cap
<1>6. UNCHANGED <<msize, file, belief>>
  BY DEF read
<1> HIDE DEF left
<1>7. n \in 0 .. Len(file) - off /\ n \in Nat /\ n <= cap /\ (n = 0 => off = Len(file))
  <2>1. Min({1, left}) = IF 1 <= left THEN 1 ELSE left
    BY <1>4, Least
  <2>2. n \in (IF 1 <= left THEN 1 ELSE left) .. left
    BY <2>1
  <2>3. cap \in Nat /\ Len(file) - off \in Int
    BY <1>1, <1>2
  <2> QED
    BY <2>2, <2>3, <1>4
<1>8. buf' = SubSeq(file, 1, off + n)
  BY <1>1, <1>5, <1>7, ReadOn
<1>9. buf' \in Seq(Byte) /\ off + n \in Nat /\ off + n <= Len(file)
  BY <1>1, <1>7, <1>8
<1>10. n = 0 => buf' = file
  BY <1>1, <1>7, <1>8
<1>11. n + ReadHeader <= msize
  <2>1. ReadHeader \in Nat /\ msize \in Nat
    BY SizeAssumption, DataAssumption DEF TransferInv
  <2> QED
    BY <2>1, <1>2, <1>7
<1> QED
  BY <1>1, <1>5, <1>6, <1>7, <1>8, <1>9, <1>10, <1>11 DEF TransferInv

(* write(): a part of the rest is written, and what remains is the rest.   *)
LEMMA WriteInv ==
    ASSUME TransferInv, NEW n, write(n) PROVE TransferInv'
<1>1. /\ job = "write" /\ n \in 1 .. Len(buf) /\ UNCHANGED <<msize, reply, belief>>
      /\ job' = IF buf' = <<>> THEN "idle" ELSE "write"
  BY DEF write
<1>2. PICK k \in 1 .. n : /\ file' = WriteAt(file, SubSeq(buf, 1, k), off)
                          /\ buf' = SubSeq(buf, k + 1, Len(buf)) /\ off' = off + k
  BY DEF write
<1>3. /\ file \in Seq(Byte) /\ buf \in Seq(Byte) /\ off \in Nat /\ 0 \in Byte /\ Len(buf) \in Nat
      /\ Written(belief, file, buf, off)
  BY <1>1, SizeAssumption, DataAssumption DEF TransferInv
<1>4. k \in 1 .. Len(buf) /\ k \in Nat
  BY <1>1, <1>3
<1>5. /\ SubSeq(buf, 1, k) \in Seq(Byte) /\ SubSeq(buf, k + 1, Len(buf)) \in Seq(Byte)
      /\ Len(SubSeq(buf, k + 1, Len(buf))) = Len(buf) - k
  BY <1>3, <1>4
<1>6. Written(file', file, SubSeq(buf, 1, k), off)
  BY <1>2, <1>3, <1>5, WriteAtIs, Zenon
<1>7. file' \in Seq(Byte)
  BY <1>6 DEF Written
<1>8. off' \in Nat /\ buf' \in Seq(Byte)
  BY <1>2, <1>3, <1>4, <1>5
<1>9. CASE buf' = <<>>
  <2>0. Len(buf') = 0
    BY <1>9
  <2>1. k = Len(buf)
    BY <2>0, <1>2, <1>3, <1>4, <1>5
  <2>2. SubSeq(buf, 1, k) = buf
    BY <2>1, <1>3
  <2>3. file' = belief
    BY <2>2, <1>3, <1>6, WrittenSame, Zenon
  <2> QED
    BY <2>3, <1>1, <1>7, <1>8, <1>9 DEF TransferInv
<1>10. CASE buf' # <<>>
  <2> DEFINE u == WriteAt(file', buf', off')
  <2>1. Written(u, file', buf', off')
    BY <1>3, <1>7, <1>8, WriteAtIs
  <2>2. Written(u, file, buf, off)
    BY <1>2, <1>3, <1>4, <1>6, <2>1, WriteRest
  <2>3. belief = u
    BY <1>3, <2>2, WrittenSame
  <2> HIDE DEF u
  <2>4. Written(belief', file', buf', off')
    BY <1>1, <2>1, <2>3
  <2> QED
    BY <2>4, <1>1, <1>7, <1>8, <1>10 DEF TransferInv
<1> QED
  BY <1>9, <1>10

(* set_attr() truncates or extends the file, when no transfer is under     *)
(* way.                                                                    *)
LEMMA SetAttrInv ==
    ASSUME TransferInv, NEW valid, NEW size \in Nat, set_attr(valid, size) PROVE TransferInv'
<1>1. /\ file = belief /\ job' = "idle" /\ UNCHANGED <<msize, reply, off, buf>>
      /\ file' = IF "SIZE" \in valid THEN SetLen(file, size) ELSE file
      /\ belief' = IF "SIZE" \in valid THEN SetLen(belief, size) ELSE belief
  BY DEF set_attr, AtRest, TransferInv
<1>2. SetLen(file, size) \in Seq(Byte)
  BY SetLenIs, SizeAssumption, DataAssumption, Zenon DEF TransferInv
<1>3. file' = belief' /\ file' \in Seq(Byte)
  BY <1>1, <1>2 DEF TransferInv
<1> QED
  BY <1>1, <1>3 DEF TransferInv

(* A client that starts to read has nothing yet.                           *)
LEMMA StartReadInv ==
    ASSUME TransferInv, StartRead PROVE TransferInv'
<1>1. belief \in Seq(Byte) /\ file = belief
  BY DEF TransferInv, StartRead, AtRest
<1>2. 0 <= Len(belief) /\ SubSeq(belief, 1, 0) = <<>> /\ <<>> \in Seq(Byte)
  BY <1>1
<1> QED
  BY <1>1, <1>2 DEF TransferInv, StartRead

(* A client that starts to write has everything still to write.            *)
LEMMA StartWriteInv ==
    ASSUME TransferInv, NEW data \in Seq(Byte), NEW o \in Nat, StartWrite(data, o) PROVE TransferInv'
<1>1. belief \in Seq(Byte) /\ file = belief /\ 0 \in Byte
  BY SizeAssumption, DataAssumption, Zenon DEF TransferInv, StartWrite, AtRest
<1>2. Written(belief', file, data, o)
  BY <1>1, WriteAtIs DEF StartWrite
<1>3. belief' \in Seq(Byte)
  BY <1>2 DEF Written
<1> QED
  BY <1>1, <1>2, <1>3 DEF TransferInv, StartWrite

(* Every request preserves the invariant, and so does the client.          *)
LEMMA NextTransferInv ==
    ASSUME TransferInv, [DataNext]_dataVars PROVE TransferInv'
<1>1. ASSUME NEW size \in Offer, version_size(size) PROVE TransferInv'
  BY <1>1, VersionInv
<1>2. CASE lopen_again
  BY <1>2 DEF lopen_again, transfer, TransferInv
<1>3. ASSUME NEW count \in ReadCount, read(count) PROVE TransferInv'
  BY <1>3, ReadInv
<1>4. ASSUME NEW n \in 1 .. MaxLen, write(n) PROVE TransferInv'
  BY <1>4, WriteInv
<1>5. ASSUME NEW valid \in SUBSET Attr, NEW size \in 0 .. MaxLen, set_attr(valid, size) PROVE TransferInv'
  BY <1>5, SetAttrInv, SizeAssumption, DataAssumption
<1>6. CASE StartRead
  BY <1>6, StartReadInv
<1>7. ASSUME NEW data \in Contents, NEW o \in 0 .. MaxLen, StartWrite(data, o) PROVE TransferInv'
  <2>1. data \in Seq(Byte)
    BY SizeAssumption, DataAssumption DEF Contents
  <2> QED
    BY <2>1, <1>7, StartWriteInv, SizeAssumption, DataAssumption
<1>8. CASE UNCHANGED dataVars
  BY <1>8 DEF dataVars, TransferInv
<1> QED
  BY <1>1, <1>2, <1>3, <1>4, <1>5, <1>6, <1>7, <1>8 DEF DataNext

(* A transfer in pieces has the effect of one.                             *)
THEOREM SpecTransferIsWhole == DataSpec => []TransferIsWhole
<1>1. DataInit => TransferInv
  BY InitTransferInv
<1>2. TransferInv /\ [DataNext]_dataVars => TransferInv'
  BY NextTransferInv
<1>3. TransferInv => TransferIsWhole
  BY DEF TransferInv, TransferIsWhole
<1> QED
  BY <1>1, <1>2, <1>3, PTL DEF DataSpec

----------------------------------------------------------------------------
Both(l, s, r) ==
    /\ Len(s) \in Nat /\ Len(r) \in Nat /\ Len(l) \in Nat /\ Len(l) = Len(s) + Len(r)
    /\ \A k \in 1 .. Len(s) : l[k] = s[k]
    /\ \A k \in 1 .. Len(r) : l[Len(s) + k] = r[k]

Alike(s, r) == Len(s) = Len(r) /\ \A k \in 1 .. Len(r) : s[k] = r[k]

(* Concatenation, place by place.                                          *)
LEMMA ConcatBoth ==
    ASSUME NEW X, NEW s \in Seq(X), NEW r \in Seq(X)
    PROVE  s \o r \in Seq(X) /\ Both(s \o r, s, r)
<1>1. Len(s) \in Nat /\ Len(r) \in Nat
  OBVIOUS
<1> QED
  BY <1>1 DEF Both

(* Sequences that agree place by place are the same.                       *)
LEMMA SameSeq ==
    ASSUME NEW X, NEW s \in Seq(X), NEW r \in Seq(X), Alike(s, r)
    PROVE  s = r
BY DEF Alike

(* Induction over the natural numbers, for sets.                           *)
LEMMA NatSet ==
    ASSUME NEW S, 0 \in S, \A m \in Nat : m \in S => m + 1 \in S
    PROVE  Nat \subseteq S
<1> DEFINE Less == OpToRel(<, Nat)
           T == Nat \ S
<1>1. \A x, y \in Nat : y < x => <<y, x>> \in Less
  BY DEF OpToRel
<1>2. IsWellFoundedOn(Less, Nat)
  BY NatLessThanWellFounded, Zenon
<1> HIDE DEF Less
<1> SUFFICES ASSUME T # {} PROVE FALSE
  OBVIOUS
<1>3. PICK x \in T : \A y \in T : ~(<<y, x>> \in Less)
  BY <1>2, WFMin, Zenon
<1>4. x # 0 /\ x - 1 \in Nat /\ x - 1 < x
  BY <1>3
<1>5. x - 1 \notin T
  BY <1>1, <1>3, <1>4, Zenon
<1> QED
  BY <1>3, <1>4, <1>5

----------------------------------------------------------------------------
(* The loops of the server and the sum of the forwarded keys, as one       *)
(* recursion: what follows from f[k - 1].                                  *)
LoopStep(op, s, x, k) ==
    CASE op = "flush" -> flush(x, k)
      [] op = "line"  -> flush_line(x, k)
      [] op = "round" -> FlushEachLine(x)
      [] op = "sum"   -> x + Len(s[k])

LoopBody(f, k, op, s, b) == IF k = 0 THEN b ELSE LoopStep(op, s, f[k - 1], k - 1)

Loops(f, m, op, s, b) == f = [k \in 0 .. m |-> LoopBody(f, k, op, s, b)]

(* There is such a function, by induction on the number of rounds.         *)
LEMMA LoopExists ==
    ASSUME NEW op, NEW s, NEW b, NEW l \in Nat
    PROVE  \E f : Loops(f, l, op, s, b)
<1> DEFINE S == {m \in Nat : \E f : Loops(f, m, op, s, b)}
<1>0. \A f, g, k : f[k - 1] = g[k - 1] => LoopBody(f, k, op, s, b) = LoopBody(g, k, op, s, b)
  BY Zenon DEF LoopBody
<1>1. 0 \in S
  <2> DEFINE g == [k \in 0 .. 0 |-> b]
  <2>1. Loops(g, 0, op, s, b)
    BY DEF Loops, LoopBody
  <2> QED
    BY <2>1
<1>2. ASSUME NEW m \in Nat, m \in S PROVE m + 1 \in S
  <2>1. PICK f : Loops(f, m, op, s, b)
    BY <1>2
  <2> DEFINE g == [k \in 0 .. m + 1 |-> LoopBody(f, k, op, s, b)]
  <2>2. \A k \in 0 .. m : g[k] = f[k]
    BY <2>1 DEF Loops
  <2>3. \A k \in 0 .. m + 1 : LoopBody(f, k, op, s, b) = LoopBody(g, k, op, s, b)
    <3> TAKE k \in 0 .. m + 1
    <3>1. CASE k = 0
      BY <3>1 DEF LoopBody
    <3>2. CASE k # 0
      <4>1. k - 1 \in 0 .. m
        BY <3>2
      <4> QED
        BY <4>1, <2>2, <1>0, Zenon
    <3> QED
      BY <3>1, <3>2
  <2>4. Loops(g, m + 1, op, s, b)
    BY <2>3 DEF Loops
  <2> HIDE DEF g
  <2> QED
    BY <2>4
<1>3. l \in S
  <2> HIDE DEF S
  <2> QED
    BY <1>1, <1>2, NatSet
<1> QED
  BY <1>3

(* What a loop of the server computes, round by round.                     *)
Rounds(f, l, op, s, b) == f[0] = b /\ \A k \in 1 .. l : f[k] = LoopStep(op, s, f[k - 1], k - 1)

(* Such a function is what the loop computes, from round to round.         *)
LEMMA LoopRounds ==
    ASSUME NEW op, NEW s, NEW b, NEW l \in Nat, NEW f, Loops(f, l, op, s, b)
    PROVE  Rounds(f, l, op, s, b)
<1>1. \A k \in 0 .. l : f[k] = LoopBody(f, k, op, s, b)
  BY DEF Loops
<1> QED
  BY <1>1 DEF LoopBody, Rounds

(* FlushAll() as rounds of flush().                                        *)
LEMMA FlushAllRounds ==
    ASSUME NEW s
    PROVE  \E f : Rounds(f, NumClients, "flush", s, s) /\ FlushAll(s) = f[NumClients]
<1> USE ConsoleAssumption
<1> DEFINE P(f) == f = [k \in 0 .. NumClients |-> IF k = 0 THEN s ELSE flush(f[k - 1], k - 1)]
           K == CHOOSE f : P(f)
<1>1. FlushAll(s) = K[NumClients]
  BY DEF FlushAll
<1>2. \A f : P(f) <=> Loops(f, NumClients, "flush", s, s)
  BY DEF Loops, LoopBody, LoopStep
<1>3. P(K)
  <2>1. \E f : P(f)
    BY <1>2, LoopExists, Zenon
  <2> HIDE DEF P
  <2> QED
    BY <2>1
<1>4. Rounds(K, NumClients, "flush", s, s)
  <2> HIDE DEF P, K
  <2> QED
    BY <1>2, <1>3, LoopRounds
<1> QED
  BY <1>1, <1>4, Zenon

(* FlushEachLine() as rounds of flush_line().                              *)
LEMMA FlushEachLineRounds ==
    ASSUME NEW s
    PROVE  \E f : Rounds(f, NumClients, "line", s, s) /\ FlushEachLine(s) = f[NumClients]
<1> USE ConsoleAssumption
<1> DEFINE P(f) == f = [k \in 0 .. NumClients |-> IF k = 0 THEN s ELSE flush_line(f[k - 1], k - 1)]
           K == CHOOSE f : P(f)
<1>1. FlushEachLine(s) = K[NumClients]
  BY DEF FlushEachLine
<1>2. \A f : P(f) <=> Loops(f, NumClients, "line", s, s)
  BY DEF Loops, LoopBody, LoopStep
<1>3. P(K)
  <2>1. \E f : P(f)
    BY <1>2, LoopExists, Zenon
  <2> HIDE DEF P
  <2> QED
    BY <2>1
<1>4. Rounds(K, NumClients, "line", s, s)
  <2> HIDE DEF P, K
  <2> QED
    BY <1>2, <1>3, LoopRounds
<1> QED
  BY <1>1, <1>4, Zenon

(* FlushLines() as rounds of FlushEachLine().                              *)
LEMMA FlushLinesRounds ==
    ASSUME NEW s
    PROVE  \E f : Rounds(f, BUFFER_LIMIT, "round", s, s) /\ FlushLines(s) = f[BUFFER_LIMIT]
<1> USE ConsoleAssumption
<1> DEFINE P(f) == f = [k \in 0 .. BUFFER_LIMIT |-> IF k = 0 THEN s ELSE FlushEachLine(f[k - 1])]
           K == CHOOSE f : P(f)
<1>1. FlushLines(s) = K[BUFFER_LIMIT]
  BY DEF FlushLines
<1>2. \A f : P(f) <=> Loops(f, BUFFER_LIMIT, "round", s, s)
  BY DEF Loops, LoopBody, LoopStep
<1>3. P(K)
  <2>1. \E f : P(f)
    BY <1>2, LoopExists, Zenon
  <2> HIDE DEF P
  <2> QED
    BY <2>1
<1>4. Rounds(K, BUFFER_LIMIT, "round", s, s)
  <2> HIDE DEF P, K
  <2> QED
    BY <1>2, <1>3, LoopRounds
<1> QED
  BY <1>1, <1>4, Zenon

(* KeysForwarded() as a sum, client by client.                             *)
LEMMA KeysForwardedRounds ==
    ASSUME NEW s
    PROVE  \E f : Rounds(f, NumClients, "sum", s, 0) /\ KeysForwarded(s) = f[NumClients]
<1> USE ConsoleAssumption
<1> DEFINE P(f) == f = [k \in 0 .. NumClients |-> IF k = 0 THEN 0 ELSE f[k - 1] + Len(s[k - 1])]
           K == CHOOSE f : P(f)
<1>1. KeysForwarded(s) = K[NumClients]
  BY DEF KeysForwarded
<1>2. \A f : P(f) <=> Loops(f, NumClients, "sum", s, 0)
  BY DEF Loops, LoopBody, LoopStep
<1>3. P(K)
  <2>1. \E f : P(f)
    BY <1>2, LoopExists, Zenon
  <2> HIDE DEF P
  <2> QED
    BY <2>1
<1>4. Rounds(K, NumClients, "sum", s, 0)
  <2> HIDE DEF P, K
  <2> QED
    BY <1>2, <1>3, LoopRounds
<1> QED
  BY <1>1, <1>4, Zenon

(* A loop whose steps change nothing.                                      *)
LEMMA IdleRounds ==
    ASSUME NEW f, NEW l \in Nat, NEW op, NEW s, NEW b, Rounds(f, l, op, s, b),
           \A k \in 0 .. l - 1 : LoopStep(op, s, b, k) = b
    PROVE  f[l] = b
<1> DEFINE S == {k \in Nat : k <= l => f[k] = b}
<1>1. 0 \in S
  BY DEF Rounds
<1>2. ASSUME NEW m \in Nat, m \in S PROVE m + 1 \in S
  <2> SUFFICES ASSUME m + 1 <= l PROVE f[m + 1] = b
    OBVIOUS
  <2>1. f[m] = b /\ m \in 0 .. l - 1 /\ m + 1 \in 1 .. l /\ (m + 1) - 1 = m
    BY <1>2
  <2>2. f[m + 1] = LoopStep(op, s, f[m], m)
    BY <2>1 DEF Rounds
  <2> QED
    BY <2>1, <2>2
<1>3. l \in S
  <2> HIDE DEF S
  <2> QED
    BY <1>1, <1>2, NatSet
<1> QED
  BY <1>3

(* Without a line, flush_line() of every client changes nothing.           *)
LEMMA NoLines ==
    ASSUME NEW s, \A c \in ClientId : Lines(s, c) = {}
    PROVE  FlushLines(s) = s
<1> USE ConsoleAssumption
<1>1. \A c \in ClientId : flush_line(s, c) = s
  BY DEF flush_line
<1>2. FlushEachLine(s) = s
  <2>1. PICK f : Rounds(f, NumClients, "line", s, s) /\ FlushEachLine(s) = f[NumClients]
    BY FlushEachLineRounds
  <2>2. \A k \in 0 .. NumClients - 1 : LoopStep("line", s, s, k) = s
    BY <1>1 DEF LoopStep, ClientId
  <2> QED
    BY <2>1, <2>2, IdleRounds
<1>3. PICK f : Rounds(f, BUFFER_LIMIT, "round", s, s) /\ FlushLines(s) = f[BUFFER_LIMIT]
  BY FlushLinesRounds
<1>4. \A k \in 0 .. BUFFER_LIMIT - 1 : LoopStep("round", s, s, k) = s
  BY <1>2 DEF LoopStep
<1> QED
  BY <1>3, <1>4, IdleRounds

----------------------------------------------------------------------------
Terminal == ClientId \cup {NoClient}
Glyph == [char : Char, colour : Terminal]
Outs == [buffer : [ClientId -> Seq(Char)], last : Terminal, since : BOOLEAN,
         printed : [ClientId -> Seq(Glyph)], term : Terminal]

(* w is received, p of it printed in colour c and b still buffered.        *)
Split(p, b, w, c) ==
    /\ Len(w) = Len(p) + Len(b)
    /\ \A k \in 1 .. Len(p) : p[k].char = w[k] /\ p[k].colour = c
    /\ \A k \in 1 .. Len(b) : b[k] = w[Len(p) + k]

(* The output side, when r was received: in whatever state of an event.    *)
Good(s, r) ==
    /\ s \in Outs /\ s.last = s.term
    /\ \A c \in ClientId : Split(s.printed[c], s.buffer[c], r[c], c)

(* All that is buffered is printed: p becomes t.                           *)
LEMMA SplitFlush ==
    ASSUME NEW p, NEW b, NEW w, NEW c, NEW t, Split(p, b, w, c), Len(p) \in Nat, Len(b) \in Nat,
           Len(t) = Len(p) + Len(b),
           \A k \in 1 .. Len(p) : t[k] = p[k],
           \A k \in 1 .. Len(b) : t[Len(p) + k] = [char |-> b[k], colour |-> c]
    PROVE  Split(t, <<>>, w, c)
<1>1. Len(w) = Len(t) + Len(<<>>)
  BY DEF Split
<1>2. ASSUME NEW k \in 1 .. Len(t) PROVE t[k].char = w[k] /\ t[k].colour = c
  <2>1. CASE k <= Len(p)
    BY <2>1 DEF Split
  <2>2. CASE k > Len(p)
    <3>1. k - Len(p) \in 1 .. Len(b) /\ Len(p) + (k - Len(p)) = k
      BY <2>2
    <3>2. t[k] = [char |-> b[k - Len(p)], colour |-> c]
      BY <3>1, Zenon
    <3>3. b[k - Len(p)] = w[k]
      BY <3>1 DEF Split
    <3> QED
      BY <3>2, <3>3
  <2> QED
    BY <2>1, <2>2
<1> QED
  BY <1>1, <1>2 DEF Split

(* A character that comes in is buffered.                                  *)
LEMMA SplitPush ==
    ASSUME NEW p, NEW b, NEW w, NEW c, NEW x, NEW v, NEW d, Split(p, b, w, c), Len(p) \in Nat, Len(b) \in Nat,
           Len(v) = Len(w) + 1, v[Len(w) + 1] = x, \A k \in 1 .. Len(w) : v[k] = w[k],
           Len(d) = Len(b) + 1, d[Len(b) + 1] = x, \A k \in 1 .. Len(b) : d[k] = b[k]
    PROVE  Split(p, d, v, c)
<1>1. Len(v) = Len(p) + Len(d)
  BY DEF Split
<1>2. \A k \in 1 .. Len(p) : p[k].char = v[k] /\ p[k].colour = c
  BY DEF Split
<1>3. ASSUME NEW k \in 1 .. Len(d) PROVE d[k] = v[Len(p) + k]
  <2>1. CASE k = Len(b) + 1
    BY <2>1 DEF Split
  <2>2. CASE k # Len(b) + 1
    <3>1. k \in 1 .. Len(b) /\ Len(p) + k \in 1 .. Len(w)
      BY <2>2 DEF Split
    <3> QED
      BY <3>1 DEF Split
  <2> QED
    BY <2>1, <2>2
<1> QED
  BY <1>1, <1>2, <1>3 DEF Split

(* A function on 1 .. m is a sequence of length m.                         *)
LEMMA AsSeq ==
    ASSUME NEW S, NEW m \in Nat, NEW f \in [1 .. m -> S]
    PROVE  f \in Seq(S) /\ Len(f) = m
OBVIOUS

(* A whole buffer that is put out leaves none.                             *)
LEMMA SplitFlushed ==
    ASSUME NEW p \in Seq(Glyph), NEW e \in Seq(Glyph), NEW b, NEW w, NEW c, Split(p, b, w, c),
           Len(b) \in Nat, Len(e) = Len(b),
           \A k \in 1 .. Len(b) : e[k] = [char |-> b[k], colour |-> c]
    PROVE  Split(p \o e, <<>>, w, c)
<1> DEFINE t == p \o e
<1>1. /\ Len(t) = Len(p) + Len(b) /\ Len(p) \in Nat
      /\ \A k \in 1 .. Len(p) : t[k] = p[k]
      /\ \A k \in 1 .. Len(b) : t[Len(p) + k] = e[k]
  OBVIOUS
<1> HIDE DEF t
<1>2. Split(t, <<>>, w, c)
  BY <1>1, SplitFlush, Zenon
<1> QED
  BY <1>2 DEF t

(* The type of the output side, with one client's buffer drained.          *)
LEMMA DrainedOut ==
    ASSUME NEW u \in Outs, NEW c \in ClientId, NEW b \in Seq(Char), NEW p \in Seq(Glyph)
    PROVE  [u EXCEPT !.buffer[c] = b, !.printed[c] = p, !.since = TRUE] \in Outs
BY Zenon DEF Outs

(* What flush() does.                                                      *)
LEMMA FlushGood ==
    ASSUME NEW s, NEW r, Good(s, r), NEW c \in ClientId
    PROVE  /\ Good(flush(s, c), r)
           /\ flush(s, c).buffer[c] = <<>>
           /\ \A d \in ClientId \ {c} : flush(s, c).buffer[d] = s.buffer[d]
           /\ s.buffer[c] # <<>> => flush(s, c).last = c
<1>1. CASE s.buffer[c] = <<>>
  BY <1>1 DEF flush
<1>2. CASE s.buffer[c] # <<>>
  <2> DEFINE u == set_output_client(s, c)
             m == Len(s.buffer[c])
             more == [k \in 1 .. m |-> [char |-> u.buffer[c][k], colour |-> u.term]]
             t == [u EXCEPT !.buffer[c] = SubSeq(@, m + 1, Len(@)),
                            !.printed[c] = @ \o more,
                            !.since = TRUE]
  <2>1. flush(s, c) = t
    BY <1>2 DEF flush, Drain
  <2>2. s \in Outs /\ s.last = s.term /\ Split(s.printed[c], s.buffer[c], r[c], c)
    BY DEF Good
  <2>3. /\ u \in Outs /\ u.last = c /\ u.term = c
        /\ u.buffer = s.buffer /\ u.printed = s.printed
    <3>1. c \in Terminal
      BY DEF Terminal
    <3> QED
      BY <2>2, <3>1, Zenon DEF set_output_client, Outs
  <2>4. s.buffer[c] \in Seq(Char) /\ m \in Nat /\ s.printed[c] \in Seq(Glyph) /\ Len(s.printed[c]) \in Nat
    BY <2>2 DEF Outs
  <2>5. more \in Seq(Glyph) /\ Len(more) = m
        /\ \A k \in 1 .. m : more[k] = [char |-> s.buffer[c][k], colour |-> c]
    <3>1. \A k \in 1 .. m : more[k] = [char |-> s.buffer[c][k], colour |-> c]
      BY <2>3
    <3>2. \A k \in 1 .. m : s.buffer[c][k] \in Char
      BY <2>4
    <3>3. c \in Terminal
      BY DEF Terminal
    <3>4. \A k \in 1 .. m : [char |-> s.buffer[c][k], colour |-> c] \in Glyph
      BY <3>2, <3>3 DEF Glyph
    <3>5. more = [k \in 1 .. m |-> [char |-> s.buffer[c][k], colour |-> c]]
      BY <2>3
    <3>6. more \in [1 .. m -> Glyph]
      BY <3>4, <3>5, Zenon
    <3> HIDE DEF more, m, u
    <3> QED
      BY <3>1, <3>6, <2>4, AsSeq
  <2> HIDE DEF u, more
  <2>6. SubSeq(s.buffer[c], m + 1, Len(s.buffer[c])) = <<>>
    BY <2>4
  <2>7. /\ t.buffer = [s.buffer EXCEPT ![c] = <<>>]
        /\ t.printed = [s.printed EXCEPT ![c] = @ \o more]
        /\ t.last = c /\ t.term = c /\ t.since = TRUE
    <3>1. t.buffer = [u.buffer EXCEPT ![c] = SubSeq(@, m + 1, Len(@))]
      BY <2>3 DEF Outs
    <3>2. t.printed = [u.printed EXCEPT ![c] = @ \o more]
      BY <2>3, Zenon DEF Outs
    <3>3. t.last = c /\ t.term = c /\ t.since = TRUE
      BY <2>3 DEF Outs
    <3> HIDE DEF t, m
    <3> QED
      BY <3>1, <3>2, <3>3, <2>3, <2>6, Zenon
  <2> HIDE DEF t, m
  <2>8. s.printed[c] \o more \in Seq(Glyph)
    BY <2>4, <2>5
  <2>9. /\ t.buffer \in [ClientId -> Seq(Char)] /\ t.printed \in [ClientId -> Seq(Glyph)]
        /\ t.buffer[c] = <<>> /\ t.printed[c] = s.printed[c] \o more
        /\ \A d \in ClientId \ {c} : t.buffer[d] = s.buffer[d] /\ t.printed[d] = s.printed[d]
    <3>1. s.buffer \in [ClientId -> Seq(Char)] /\ s.printed \in [ClientId -> Seq(Glyph)]
      BY <2>2 DEF Outs
    <3> QED
      BY <3>1, <2>7, <2>8
  <2>10. t \in Outs
    <3>1. t = [u EXCEPT !.buffer[c] = SubSeq(u.buffer[c], m + 1, Len(u.buffer[c])),
                        !.printed[c] = u.printed[c] \o more, !.since = TRUE]
      BY Zenon DEF t
    <3>2. u.printed[c] \o more \in Seq(Glyph) /\ SubSeq(u.buffer[c], m + 1, Len(u.buffer[c])) \in Seq(Char)
      <4>1. u.printed[c] \o more = s.printed[c] \o more
        BY <2>3, Zenon
      <4>2. SubSeq(u.buffer[c], m + 1, Len(u.buffer[c])) = <<>>
        BY <2>3, <2>6, Zenon
      <4>3. <<>> \in Seq(Char)
        OBVIOUS
      <4> QED
        BY <4>1, <4>2, <4>3, <2>8, Zenon
    <3> QED
      BY <3>1, <3>2, <2>3, DrainedOut, Zenon
  <2>11. Split(t.printed[c], <<>>, r[c], c)
    <3>1. Len(s.buffer[c]) = m
      BY DEF m
    <3>2. Split(s.printed[c] \o more, <<>>, r[c], c)
      BY <3>1, <2>2, <2>4, <2>5, SplitFlushed, Zenon
    <3> QED
      BY <2>9, <3>2, Zenon
  <2>12. \A d \in ClientId \ {c} : Split(t.printed[d], t.buffer[d], r[d], d)
    BY <2>9 DEF Good
  <2> QED
    BY <2>1, <2>7, <2>9, <2>10, <2>11, <2>12, Zenon DEF Good
<1> QED
  BY <1>1, <1>2

(* FlushAll() empties every buffer.                                        *)
LEMMA FlushAllGood ==
    ASSUME NEW s, NEW r, Good(s, r)
    PROVE  Good(FlushAll(s), r) /\ \A c \in ClientId : FlushAll(s).buffer[c] = <<>>
<1> USE ConsoleAssumption
<1>1. PICK f : Rounds(f, NumClients, "flush", s, s) /\ FlushAll(s) = f[NumClients]
  BY FlushAllRounds
<1> DEFINE S == {k \in Nat : k <= NumClients => Good(f[k], r) /\ \A c \in 0 .. k - 1 : f[k].buffer[c] = <<>>}
<1>2. 0 \in S
  BY <1>1 DEF Rounds
<1>3. ASSUME NEW m \in Nat, m \in S PROVE m + 1 \in S
  <2> SUFFICES ASSUME m + 1 <= NumClients
               PROVE  Good(f[m + 1], r) /\ \A c \in 0 .. m : f[m + 1].buffer[c] = <<>>
    OBVIOUS
  <2>1. /\ Good(f[m], r) /\ \A c \in 0 .. m - 1 : f[m].buffer[c] = <<>>
        /\ m \in ClientId /\ m + 1 \in 1 .. NumClients /\ (m + 1) - 1 = m
    BY <1>3 DEF ClientId
  <2>2. f[m + 1] = flush(f[m], m)
    BY <1>1, <2>1 DEF Rounds, LoopStep
  <2>3. /\ Good(f[m + 1], r) /\ f[m + 1].buffer[m] = <<>>
        /\ \A d \in ClientId \ {m} : f[m + 1].buffer[d] = f[m].buffer[d]
    BY <2>1, <2>2, FlushGood
  <2>4. ASSUME NEW c \in 0 .. m PROVE f[m + 1].buffer[c] = <<>>
    <3>1. c = m \/ (c \in 0 .. m - 1 /\ c \in ClientId \ {m})
      BY DEF ClientId
    <3> QED
      BY <3>1, <2>1, <2>3
  <2> QED
    BY <2>3, <2>4
<1>4. NumClients \in S
  <2> HIDE DEF S
  <2> QED
    BY <1>2, <1>3, NatSet
<1> QED
  BY <1>1, <1>4 DEF ClientId

----------------------------------------------------------------------------
(* The output side between events.                                         *)
Settled(s, r) ==
    /\ Good(s, r)
    /\ \A c \in ClientId : Lines(s, c) = {} /\ Len(s.buffer[c]) < BUFFER_LIMIT

(* An empty buffer holds no line and is below the limit.                   *)
LEMMA EmptySettled ==
    ASSUME NEW s, NEW c, s.buffer[c] = <<>>
    PROVE  Lines(s, c) = {} /\ Len(s.buffer[c]) < BUFFER_LIMIT
BY ConsoleAssumption DEF Lines

(* A client's flush() settles the others too, when they were.              *)
LEMMA FlushSettled ==
    ASSUME NEW s, NEW r, Good(s, r), NEW c \in ClientId,
           \A d \in ClientId \ {c} : Lines(s, d) = {} /\ Len(s.buffer[d]) < BUFFER_LIMIT
    PROVE  Settled(flush(s, c), r)
<1>1. /\ Good(flush(s, c), r) /\ flush(s, c).buffer[c] = <<>>
      /\ \A d \in ClientId \ {c} : flush(s, c).buffer[d] = s.buffer[d]
  BY FlushGood
<1>2. \A d \in ClientId \ {c} : Lines(flush(s, c), d) = {} /\ Len(flush(s, c).buffer[d]) < BUFFER_LIMIT
  BY <1>1 DEF Lines
<1>3. Lines(flush(s, c), c) = {} /\ Len(flush(s, c).buffer[c]) < BUFFER_LIMIT
  BY <1>1, EmptySettled
<1> QED
  BY <1>1, <1>2, <1>3 DEF Settled

(* The limit is reached: the client is flushed and that is all.            *)
LEMMA FullSettled ==
    ASSUME NEW s, NEW r, Good(s, r), NEW c \in ClientId, s.buffer[c] # <<>>,
           \A d \in ClientId \ {c} : Lines(s, d) = {} /\ Len(s.buffer[d]) < BUFFER_LIMIT
    PROVE  Settled(Full(s, c), r)
<1> DEFINE a == flush(s, c)
<1>1. Settled(a, r) /\ a.last = c /\ a.buffer[c] = <<>>
  BY FlushSettled, FlushGood
<1>2. Full(s, c) = a
  <2> DEFINE b == FlushLines(flush_line(a, a.last))
             e == IF Len(b.buffer[c]) = BUFFER_LIMIT THEN FlushAll(b) ELSE b
  <2>1. Full(s, c) = set_output_client(e, c)
    BY Zenon DEF Full
  <2> HIDE DEF a
  <2>2. \A d \in ClientId : Lines(a, d) = {}
    BY <1>1 DEF Settled
  <2>3. flush_line(a, a.last) = a
    BY <1>1, <2>2 DEF flush_line
  <2>4. b = a
    BY <2>2, <2>3, NoLines
  <2>5. e = a
    BY <2>4, <1>1, ConsoleAssumption
  <2> QED
    BY <2>1, <2>5, <1>1 DEF set_output_client
<1> QED
  BY <1>1, <1>2

(* A character of a client.                                                *)
LEMMA PushedSettled ==
    ASSUME NEW s, NEW r \in [ClientId -> Seq(Char)], Settled(s, r), NEW c \in ClientId, NEW x \in Char
    PROVE  Settled(PushedChar(s, c, x), [r EXCEPT ![c] = Append(@, x)])
<1> DEFINE v == [r EXCEPT ![c] = Append(@, x)]
           t == [s EXCEPT !.buffer[c] = Append(@, x)]
<1>1. s \in Outs /\ s.last = s.term /\ s.buffer[c] \in Seq(Char) /\ s.printed[c] \in Seq(Glyph)
  BY DEF Settled, Good, Outs
<1>2. /\ t \in Outs /\ t.printed = s.printed /\ t.last = t.term
      /\ t.buffer[c] = Append(s.buffer[c], x)
      /\ \A d \in ClientId \ {c} : t.buffer[d] = s.buffer[d]
  <2>1. Append(s.buffer[c], x) \in Seq(Char)
    BY <1>1
  <2> QED
    BY <1>1, <2>1, Zenon DEF Outs
<1>3. v[c] = Append(r[c], x) /\ \A d \in ClientId \ {c} : v[d] = r[d]
  OBVIOUS
<1> HIDE DEF v, t
<1>4. Good(t, v)
  <2>1. Split(s.printed[c], s.buffer[c], r[c], c)
    BY DEF Settled, Good
  <2>2. Split(t.printed[c], t.buffer[c], v[c], c)
    <3>1. r[c] \in Seq(Char) /\ Len(s.printed[c]) \in Nat /\ Len(s.buffer[c]) \in Nat
      BY <1>1
    <3>2. /\ Len(v[c]) = Len(r[c]) + 1 /\ v[c][Len(r[c]) + 1] = x
          /\ \A k \in 1 .. Len(r[c]) : v[c][k] = r[c][k]
      BY <1>3, <3>1
    <3>3. /\ Len(t.buffer[c]) = Len(s.buffer[c]) + 1 /\ t.buffer[c][Len(s.buffer[c]) + 1] = x
          /\ \A k \in 1 .. Len(s.buffer[c]) : t.buffer[c][k] = s.buffer[c][k]
      BY <1>1, <1>2
    <3>4. t.printed[c] = s.printed[c]
      BY <1>2
    <3> QED
      <4> DEFINE p == s.printed[c]
                 b == s.buffer[c]
                 w == r[c]
                 e == t.buffer[c]
                 y == v[c]
      <4> HIDE DEF p, b, w, e, y
      <4>1. Split(p, b, w, c) /\ Len(p) \in Nat /\ Len(b) \in Nat
        BY <2>1, <3>1, Zenon DEF p, b, w
      <4>2. /\ Len(y) = Len(w) + 1 /\ y[Len(w) + 1] = x
            /\ \A k \in 1 .. Len(w) : y[k] = w[k]
        BY <3>2, Zenon DEF w, y
      <4>3. /\ Len(e) = Len(b) + 1 /\ e[Len(b) + 1] = x
            /\ \A k \in 1 .. Len(b) : e[k] = b[k]
        BY <3>3, Zenon DEF b, e
      <4>4. Split(p, e, y, c)
        BY <4>1, <4>2, <4>3, SplitPush
      <4> QED
        BY <4>4, <3>4, Zenon DEF p, e, y
  <2>3. \A d \in ClientId \ {c} : Split(t.printed[d], t.buffer[d], v[d], d)
    BY <1>2, <1>3 DEF Settled, Good
  <2> QED
    BY <1>2, <2>2, <2>3, Zenon DEF Good
<1>5. \A d \in ClientId \ {c} : Lines(t, d) = {} /\ Len(t.buffer[d]) < BUFFER_LIMIT
  BY <1>2 DEF Settled, Lines
<1>6. t.buffer[c] # <<>> /\ Len(t.buffer[c]) = Len(s.buffer[c]) + 1 /\ Len(s.buffer[c]) \in Nat
  <2>1. Len(t.buffer[c]) = Len(s.buffer[c]) + 1 /\ Len(s.buffer[c]) \in Nat
    BY <1>1, <1>2
  <2>2. Len(t.buffer[c]) # Len(<<>>)
    BY <2>1
  <2> QED
    BY <2>1, <2>2, Zenon
<1>7. \/ PushedChar(s, c, x) = Full(t, c)
      \/ PushedChar(s, c, x) = flush(t, c)
      \/ PushedChar(s, c, x) = t /\ x # NewLine /\ Len(t.buffer[c]) # BUFFER_LIMIT
  BY DEF PushedChar, t
<1>8. ASSUME x # NewLine, Len(t.buffer[c]) # BUFFER_LIMIT PROVE Settled(t, v)
  <2>1. Len(t.buffer[c]) < BUFFER_LIMIT
    <3>1. Len(s.buffer[c]) < BUFFER_LIMIT
      BY DEF Settled
    <3> QED
      BY <3>1, <1>6, <1>8, ConsoleAssumption
  <2>2. Lines(t, c) = {}
    <3>1. \A k \in 1 .. Len(s.buffer[c]) : s.buffer[c][k] # NewLine
      BY <1>1 DEF Settled, Lines
    <3>2. /\ DOMAIN t.buffer[c] = 1 .. Len(s.buffer[c]) + 1
          /\ \A k \in 1 .. Len(s.buffer[c]) : t.buffer[c][k] = s.buffer[c][k]
          /\ t.buffer[c][Len(s.buffer[c]) + 1] = x
      BY <1>1, <1>2
    <3>3. \A k \in DOMAIN t.buffer[c] : t.buffer[c][k] # NewLine
      <4> SUFFICES ASSUME NEW k \in 1 .. Len(s.buffer[c]) + 1 PROVE t.buffer[c][k] # NewLine
        BY <3>2, Zenon
      <4>1. k = Len(s.buffer[c]) + 1 \/ k \in 1 .. Len(s.buffer[c])
        BY <1>6
      <4> QED
        BY <4>1, <3>1, <3>2, <1>8, Zenon
    <3> QED
      BY <3>3 DEF Lines
  <2> QED
    BY <1>4, <1>5, <2>1, <2>2 DEF Settled
<1>9. Settled(Full(t, c), v) /\ Settled(flush(t, c), v)
  BY <1>4, <1>5, <1>6, FullSettled, FlushSettled
<1> QED
  BY <1>7, <1>8, <1>9, Zenon DEF v

Quiet(s) == \A c \in ClientId : s.buffer[c] = <<>>

(* A timeout only clears the flag, or empties every buffer.                *)
LEMMA TimedOutSettled ==
    ASSUME NEW s, NEW r, Settled(s, r)
    PROVE  /\ Settled(TimedOut(s), r)
           /\ ~TimedOut(s).since \/ Quiet(TimedOut(s))
           /\ ~s.since \/ Quiet(s) => Quiet(TimedOut(s))
<1>1. CASE s.since
  <2> DEFINE t == [s EXCEPT !.since = FALSE]
  <2>1. TimedOut(s) = t
    BY <1>1 DEF TimedOut
  <2>2. s \in Outs
    BY DEF Settled, Good
  <2>3. /\ t \in Outs /\ t.buffer = s.buffer /\ t.printed = s.printed
        /\ t.last = s.last /\ t.term = s.term /\ t.since = FALSE
    BY <2>2, Zenon DEF Outs
  <2> HIDE DEF t
  <2>4. Settled(t, r)
    BY <2>3 DEF Settled, Good, Lines
  <2> QED
    BY <1>1, <2>1, <2>3, <2>4 DEF Quiet
<1>2. CASE ~s.since
  <2>1. TimedOut(s) = FlushAll(s)
    BY <1>2 DEF TimedOut, Settled
  <2>2. Good(FlushAll(s), r) /\ Quiet(FlushAll(s))
    BY FlushAllGood, Zenon DEF Settled, Quiet
  <2>3. Settled(FlushAll(s), r)
    BY <2>2, EmptySettled DEF Settled, Quiet
  <2> QED
    BY <2>1, <2>2, <2>3
<1> QED
  BY <1>1, <1>2

(* clear_output_client() forgets the colour and leaves the characters.     *)
LEMMA ClearSettled ==
    ASSUME NEW s, NEW r, Settled(s, r)
    PROVE  /\ Settled(clear_output_client(s), r)
           /\ clear_output_client(s).since = s.since
           /\ clear_output_client(s).buffer = s.buffer
<1> DEFINE t == clear_output_client(s)
<1>1. s \in Outs /\ s.last = s.term
  BY DEF Settled, Good
<1>2. /\ t \in Outs /\ t.buffer = s.buffer /\ t.printed = s.printed
      /\ t.last = t.term /\ t.since = s.since
  <2>1. NoClient \in Terminal
    BY DEF Terminal
  <2> QED
    BY <1>1, <2>1, Zenon DEF Outs, clear_output_client
<1> HIDE DEF t
<1>3. Settled(t, r)
  BY <1>2 DEF Settled, Good, Lines
<1> QED
  BY <1>2, <1>3 DEF t

----------------------------------------------------------------------------
Texts == [ClientId -> Seq(Key \cup {ESCAPE})]

(* What is forwarded to one client counts once.                            *)
LEMMA MoreForwarded ==
    ASSUME NEW g \in Texts, NEW a \in ClientId, NEW keys \in Seq(Key \cup {ESCAPE})
    PROVE  /\ [g EXCEPT ![a] = @ \o keys] \in Texts
           /\ KeysForwarded(g) \in Nat
           /\ KeysForwarded([g EXCEPT ![a] = @ \o keys]) = KeysForwarded(g) + Len(keys)
<1> USE ConsoleAssumption
<1> DEFINE h == [g EXCEPT ![a] = @ \o keys]
<1>1. g[a] \in Seq(Key \cup {ESCAPE}) /\ g[a] \o keys \in Seq(Key \cup {ESCAPE})
  BY DEF Texts
<1>2. /\ h \in Texts /\ h[a] = g[a] \o keys /\ \A d \in ClientId \ {a} : h[d] = g[d]
  BY <1>1 DEF Texts
<1>3. Len(h[a]) = Len(g[a]) + Len(keys) /\ Len(keys) \in Nat
  BY <1>1, <1>2
<1> HIDE DEF h
<1>4. PICK f : Rounds(f, NumClients, "sum", g, 0) /\ KeysForwarded(g) = f[NumClients]
  BY KeysForwardedRounds
<1>5. PICK e : Rounds(e, NumClients, "sum", h, 0) /\ KeysForwarded(h) = e[NumClients]
  BY KeysForwardedRounds
<1> DEFINE S == {k \in Nat : k <= NumClients =>
                    f[k] \in Nat /\ e[k] = f[k] + (IF a < k THEN Len(keys) ELSE 0)}
<1>6. 0 \in S
  BY <1>4, <1>5 DEF Rounds, ClientId
<1>7. ASSUME NEW m \in Nat, m \in S PROVE m + 1 \in S
  <2> SUFFICES ASSUME m + 1 <= NumClients
               PROVE  f[m + 1] \in Nat /\ e[m + 1] = f[m + 1] + (IF a < m + 1 THEN Len(keys) ELSE 0)
    OBVIOUS
  <2>1. /\ f[m] \in Nat /\ e[m] = f[m] + (IF a < m THEN Len(keys) ELSE 0)
        /\ m \in ClientId /\ m + 1 \in 1 .. NumClients /\ (m + 1) - 1 = m
    BY <1>7 DEF ClientId
  <2>2. f[m + 1] = f[m] + Len(g[m]) /\ e[m + 1] = e[m] + Len(h[m])
    BY <1>4, <1>5, <2>1 DEF Rounds, LoopStep
  <2>3. Len(g[m]) \in Nat
    BY <2>1 DEF Texts
  <2>4. a \in Nat
    BY DEF ClientId
  <2>5. CASE a = m
    <3>1. Len(h[m]) = Len(g[m]) + Len(keys)
      BY <1>3, <2>5
    <3>2. ~(a < m) /\ a < m + 1
      BY <2>4, <2>5
    <3>3. e[m] = f[m] /\ f[m] \in Nat
      BY <2>1, <3>2
    <3>4. f[m + 1] \in Nat /\ e[m + 1] = f[m + 1] + Len(keys)
      BY <1>3, <2>2, <2>3, <3>1, <3>3
    <3> QED
      BY <3>2, <3>4
  <2>6. CASE a # m
    <3>1. Len(h[m]) = Len(g[m])
      BY <1>2, <2>1, <2>6
    <3>2. a < m <=> a < m + 1
      BY <2>4, <2>6
    <3> DEFINE more == IF a < m THEN Len(keys) ELSE 0
    <3>3. f[m] \in Nat /\ e[m] = f[m] + more
      BY <2>1
    <3>4. more \in Nat /\ (IF a < m + 1 THEN Len(keys) ELSE 0) = more
      BY <1>3, <3>2
    <3> HIDE DEF more
    <3>5. f[m + 1] \in Nat /\ e[m + 1] = f[m + 1] + more
      BY <2>2, <2>3, <3>1, <3>3, <3>4
    <3> QED
      BY <3>4, <3>5
  <2> QED
    BY <2>5, <2>6
<1>8. NumClients \in S
  <2> HIDE DEF S
  <2> QED
    BY <1>6, <1>7, NatSet
<1>9. a < NumClients
  BY DEF ClientId
<1> QED
  BY <1>2, <1>4, <1>5, <1>8, <1>9 DEF h

(* The inductive invariant: what the events leave settled, the characters  *)
(* that a quiet time may still find buffered, and the count of the keys.   *)
ConsoleOutput ==
    /\ received \in [ClientId -> Seq(Char)]
    /\ Settled(out, received)
    /\ quiet \in 0 .. 2
    /\ quiet >= 1 => ~out.since \/ Quiet(out)
    /\ quiet = 2 => Quiet(out)

ConsoleInput ==
    /\ active \in ClientId /\ inputState \in {"Start", "NewLine", "Escape"}
    /\ forwarded \in Texts /\ commands \in Nat
    /\ KeysAreAccountedFor

(* Nothing is received, buffered, printed or typed at first.               *)
LEMMA InitConsole == ConsoleInit => ConsoleOutput /\ ConsoleInput
<1> SUFFICES ASSUME ConsoleInit PROVE ConsoleOutput /\ ConsoleInput
  OBVIOUS
<1> USE ConsoleAssumption
<1>1. received \in [ClientId -> Seq(Char)] /\ forwarded \in Texts
  BY DEF ConsoleInit, Texts
<1>2. out \in Outs /\ out.last = out.term /\ Quiet(out) /\ \A c \in ClientId : out.printed[c] = <<>>
  BY DEF ConsoleInit, Outs, Terminal, Quiet
<1>3. Good(out, received)
  <2>1. \A c \in ClientId : received[c] = <<>>
    BY DEF ConsoleInit
  <2>2. \A c : Split(<<>>, <<>>, <<>>, c)
    BY DEF Split
  <2> QED
    BY <1>2, <2>1, <2>2 DEF Good, Quiet
<1>4. Settled(out, received)
  BY <1>2, <1>3, EmptySettled DEF Settled, Quiet
<1>5. KeysForwarded(forwarded) = 0
  <2>1. PICK f : Rounds(f, NumClients, "sum", forwarded, 0) /\ KeysForwarded(forwarded) = f[NumClients]
    BY KeysForwardedRounds
  <2>2. \A k \in 0 .. NumClients - 1 : LoopStep("sum", forwarded, 0, k) = 0
    BY DEF LoopStep, ConsoleInit, ClientId
  <2> QED
    BY <2>1, <2>2, IdleRounds
<1>6. KeysAreAccountedFor
  BY <1>5 DEF ConsoleInit, KeysAreAccountedFor
<1> QED
  BY <1>1, <1>2, <1>4, <1>6 DEF ConsoleInit, ConsoleOutput, ConsoleInput, ClientId

(* The escape whose next key is awaited.                                   *)
Awaited(t) == IF t = "Escape" THEN 1 ELSE 0

(* A key: nothing, or keys, are forwarded, and the sum is as it was.       *)
LEMMA KeysAdd ==
    ASSUME ConsoleInput, NEW keys \in Seq(Key \cup {ESCAPE}), forward(keys),
           inputState' \in {"Start", "NewLine"}, commands' \in Nat, pressed' = pressed + 1,
           Len(keys) + commands' = commands + 1 + Awaited(inputState)
    PROVE  forwarded' \in Texts /\ KeysAreAccountedFor'
<1>1. /\ forwarded' \in Texts /\ KeysForwarded(forwarded) \in Nat
      /\ KeysForwarded(forwarded') = KeysForwarded(forwarded) + Len(keys)
  BY MoreForwarded, Zenon DEF ConsoleInput, forward
<1>2. Len(keys) \in Nat /\ commands \in Nat /\ Awaited(inputState) \in Nat /\ Awaited(inputState') = 0
  BY DEF ConsoleInput, Awaited
<1>3. pressed = KeysForwarded(forwarded) + commands + Awaited(inputState)
  BY Zenon DEF ConsoleInput, KeysAreAccountedFor, Awaited
<1>4. pressed' = KeysForwarded(forwarded') + commands' + 0
  <2>1. pressed' = pressed + 1
    OBVIOUS
  <2>2. commands' \in Nat
    OBVIOUS
  <2>3. Len(keys) + commands' = commands + 1 + Awaited(inputState)
    OBVIOUS
  <2>4. KeysForwarded(forwarded) \in Nat
    BY <1>1
  <2>5. KeysForwarded(forwarded') = KeysForwarded(forwarded) + Len(keys)
    BY <1>1
  <2> DEFINE a == KeysForwarded(forwarded)
             b == KeysForwarded(forwarded')
             p2 == pressed'
             k2 == commands'
             m == Len(keys)
             e == Awaited(inputState)
  <2> HIDE DEF a, b, p2, k2, m, e
  <2>6. a \in Nat /\ m \in Nat /\ k2 \in Nat /\ e \in Nat /\ b = a + m
    BY <1>2, <2>2, <2>4, <2>5, Zenon DEF a, b, k2, m, e
  <2>7. pressed = a + commands + e /\ m + k2 = commands + 1 + e /\ p2 = pressed + 1
    BY <1>3, <2>1, <2>3, Zenon DEF a, p2, k2, m, e
  <2>8. p2 = b + k2 + 0
    BY <1>2, <2>6, <2>7
  <2> QED
    BY <2>8, Zenon DEF b, p2, k2
<1>5. KeysAreAccountedFor' <=> pressed' = KeysForwarded(forwarded') + commands' + Awaited(inputState')
  BY Zenon DEF KeysAreAccountedFor, KeysForwarded, Awaited
<1> QED
  BY <1>1, <1>2, <1>4, <1>5, Zenon

(* handle_client_char() settles what is put out.                           *)
LEMMA ClientCharConsole ==
    ASSUME ConsoleOutput, ConsoleInput, NEW c \in ClientId, NEW x \in Char, handle_client_char(c, x)
    PROVE  ConsoleOutput' /\ ConsoleInput'
<1>1. received' \in [ClientId -> Seq(Char)]
  BY DEF handle_client_char, ConsoleOutput
<1>2. Settled(out', received')
  BY PushedSettled, Zenon DEF handle_client_char, ConsoleOutput
<1>3. Settled(out, received)'
  BY <1>2 DEF Settled, Good, Lines
<1>4. quiet' = 0
  BY DEF handle_client_char
<1>5. ConsoleInput'
  BY Zenon DEF handle_client_char, ConsoleInput, KeysAreAccountedFor, KeysForwarded
<1> QED
  BY <1>1, <1>3, <1>4, <1>5 DEF ConsoleOutput

(* Two timeouts without a character empty the buffers.                     *)
LEMMA TimeoutConsole ==
    ASSUME ConsoleOutput, ConsoleInput, handle_timeout
    PROVE  ConsoleOutput' /\ ConsoleInput'
<1>1. out' = TimedOut(out) /\ received' = received
  BY DEF handle_timeout
<1>2. /\ Settled(out', received) /\ (~out'.since \/ Quiet(out'))
      /\ (~out.since \/ Quiet(out) => Quiet(out'))
  BY <1>1, TimedOutSettled DEF ConsoleOutput
<1>3. Settled(out, received)' /\ (Quiet(out)' <=> Quiet(out'))
  BY <1>1, <1>2 DEF Settled, Good, Lines, Quiet
<1>4. quiet' \in 0 .. 2 /\ (quiet' = 2 => quiet >= 1)
  BY DEF handle_timeout, ConsoleOutput
<1>5. ConsoleInput'
  BY Zenon DEF handle_timeout, ConsoleInput, KeysAreAccountedFor, KeysForwarded
<1> QED
  BY <1>1, <1>2, <1>3, <1>4, <1>5 DEF ConsoleOutput

(* A key leaves the output as it is, or without a colour.                  *)
LEMMA KeyOutput ==
    ASSUME ConsoleOutput, UNCHANGED <<received, quiet>>, out' = out \/ out' = clear_output_client(out)
    PROVE  ConsoleOutput'
<1>1. /\ Settled(out', received) /\ out'.since = out.since
      /\ out'.buffer = out.buffer
  BY ClearSettled DEF ConsoleOutput
<1>2. Settled(out, received)' /\ (Quiet(out)' <=> Quiet(out))
  BY <1>1 DEF Settled, Good, Lines, Quiet
<1> QED
  BY <1>1, <1>2 DEF ConsoleOutput

(* A key that is typed: handle_char(), state by state of the input.        *)
LEMMA KeyConsole ==
    ASSUME ConsoleOutput, ConsoleInput, NEW key \in Key, handle_char(key)
    PROVE  ConsoleOutput' /\ ConsoleInput'
<1>1. pressed' = pressed + 1 /\ UNCHANGED <<received, quiet>>
  BY DEF handle_char
<1>2. <<key>> \in Seq(Key \cup {ESCAPE}) /\ Len(<<key>>) = 1
      /\ <<ESCAPE, key>> \in Seq(Key \cup {ESCAPE}) /\ Len(<<ESCAPE, key>>) = 2
  OBVIOUS
<1>3. commands \in Nat /\ active \in ClientId
  BY DEF ConsoleInput
<1>4. CASE Plain(key)
  <2>1. /\ forward(<<key>>) /\ inputState # "Escape" /\ inputState' \in {"Start", "NewLine"}
        /\ commands' = commands /\ active' = active /\ out' = out
    BY <1>4 DEF Plain, Raw
  <2>2. forwarded' \in Texts /\ KeysAreAccountedFor'
    <3>1. commands' \in Nat /\ Len(<<key>>) + commands' = commands + 1 + Awaited(inputState)
      BY <1>2, <1>3, <2>1 DEF Awaited
    <3> QED
      BY <1>1, <1>2, <2>1, <3>1, KeysAdd, Zenon
  <2> QED
    BY <1>1, <1>3, <2>1, <2>2, KeyOutput DEF ConsoleInput
<1>5. CASE Escape(key)
  <2>1. /\ inputState = "NewLine" /\ inputState' = "Escape" /\ forwarded' = forwarded
        /\ commands' = commands /\ active' = active /\ out' = out
    BY <1>5 DEF Escape
  <2>2. KeysForwarded(forwarded)' = KeysForwarded(forwarded) /\ KeysForwarded(forwarded) \in Nat
    <3>1. KeysForwarded(forwarded) \in Nat
      BY <1>2, <1>3, MoreForwarded, Zenon DEF ConsoleInput
    <3> QED
      BY <2>1, <3>1 DEF KeysForwarded
  <2>3. KeysAreAccountedFor'
    BY <1>1, <1>3, <2>1, <2>2 DEF ConsoleInput, KeysAreAccountedFor
  <2> QED
    BY <1>1, <1>3, <2>1, <2>3, KeyOutput DEF ConsoleInput
<1>6. CASE EscapedEscape(key)
  <2>1. /\ forward(<<key>>) /\ inputState = "Escape" /\ inputState' = "Start"
        /\ commands' = commands + 1 /\ active' = active /\ out' = out
    BY <1>6 DEF EscapedEscape
  <2>2. forwarded' \in Texts /\ KeysAreAccountedFor'
    <3>1. commands' \in Nat /\ Len(<<key>>) + commands' = commands + 1 + Awaited(inputState)
      BY <1>2, <1>3, <2>1 DEF Awaited
    <3> QED
      BY <1>1, <1>2, <2>1, <3>1, KeysAdd, Zenon
  <2> QED
    BY <1>1, <1>3, <2>1, <2>2, KeyOutput DEF ConsoleInput
<1>7. CASE Help(key) \/ set_input_client(key)
  <2>1. /\ inputState = "Escape" /\ inputState' = "NewLine" /\ forwarded' = forwarded
        /\ commands' = commands + 2 /\ active' \in ClientId /\ out' = clear_output_client(out)
    BY <1>3, <1>7 DEF Help, set_input_client
  <2>2. KeysForwarded(forwarded)' = KeysForwarded(forwarded) /\ KeysForwarded(forwarded) \in Nat
    <3>1. KeysForwarded(forwarded) \in Nat
      BY <1>2, <1>3, MoreForwarded, Zenon DEF ConsoleInput
    <3> QED
      BY <2>1, <3>1 DEF KeysForwarded
  <2>3. KeysAreAccountedFor'
    BY <1>1, <1>3, <2>1, <2>2 DEF ConsoleInput, KeysAreAccountedFor
  <2> QED
    BY <1>1, <1>3, <2>1, <2>3, KeyOutput DEF ConsoleInput
<1>8. CASE NoCommand(key)
  <2>1. /\ forward(<<ESCAPE, key>>) /\ inputState = "Escape" /\ inputState' = "Start"
        /\ commands' = commands /\ active' = active /\ out' = out
    BY <1>8 DEF NoCommand
  <2>2. forwarded' \in Texts /\ KeysAreAccountedFor'
    <3>1. commands' \in Nat /\ Len(<<ESCAPE, key>>) + commands' = commands + 1 + Awaited(inputState)
      BY <1>2, <1>3, <2>1 DEF Awaited
    <3> QED
      BY <1>1, <1>2, <2>1, <3>1, KeysAdd, Zenon
  <2> QED
    BY <1>1, <1>3, <2>1, <2>2, KeyOutput DEF ConsoleInput
<1> QED
  BY <1>4, <1>5, <1>6, <1>7, <1>8 DEF handle_char

(* Every event preserves both invariants.                                  *)
LEMMA NextConsole ==
    ConsoleOutput /\ ConsoleInput /\ [ConsoleNext]_consoleVars => ConsoleOutput' /\ ConsoleInput'
<1> SUFFICES ASSUME ConsoleOutput, ConsoleInput, [ConsoleNext]_consoleVars
             PROVE  ConsoleOutput' /\ ConsoleInput'
  OBVIOUS
<1>1. CASE UNCHANGED consoleVars
  <2>1. /\ UNCHANGED <<out, active, inputState, forwarded>>
        /\ UNCHANGED <<received, pressed, commands, quiet>>
    BY <1>1, Zenon DEF consoleVars
  <2>2. ConsoleOutput'
    BY <2>1, KeyOutput, Zenon
  <2>3. ConsoleInput'
    BY <2>1, Zenon DEF ConsoleInput, KeysAreAccountedFor, KeysForwarded
  <2> QED
    BY <2>2, <2>3
<1> QED
  BY <1>1, ClientCharConsole, TimeoutConsole, KeyConsole DEF ConsoleNext

(* The invariant of the output side is what OutputIsComplete says, place   *)
(* by place.                                                               *)
LEMMA OutputImplies == ConsoleOutput => OutputIsComplete
<1> SUFFICES ASSUME ConsoleOutput, NEW c \in ClientId
             PROVE  /\ [k \in DOMAIN out.printed[c] |-> out.printed[c][k].char] \o out.buffer[c] = received[c]
                    /\ \A k \in DOMAIN out.printed[c] : out.printed[c][k].colour = c
                    /\ Lines(out, c) = {}
                    /\ quiet = 2 => out.buffer[c] = <<>>
  BY Zenon DEF OutputIsComplete
<1> DEFINE p == out.printed[c]
           b == out.buffer[c]
           w == received[c]
           y == [k \in DOMAIN p |-> p[k].char]
<1>1. p \in Seq(Glyph) /\ b \in Seq(Char) /\ w \in Seq(Char)
  BY DEF ConsoleOutput, Settled, Good, Outs
<1>2. Split(p, b, w, c)
  BY DEF ConsoleOutput, Settled, Good
<1>3. Lines(out, c) = {} /\ (quiet = 2 => b = <<>>)
  BY DEF ConsoleOutput, Settled, Quiet
<1> HIDE DEF p, b, w
<1>4. DOMAIN p = 1 .. Len(p) /\ Len(p) \in Nat /\ \A k \in 1 .. Len(p) : p[k] \in Glyph
  BY <1>1
<1>5. y \in Seq(Char) /\ Len(y) = Len(p) /\ \A k \in 1 .. Len(p) : y[k] = w[k]
  <2>1. y \in [1 .. Len(p) -> Char]
    BY <1>4 DEF Glyph
  <2>2. \A k \in 1 .. Len(p) : y[k] = w[k]
    BY <1>2, <1>4 DEF Split
  <2> HIDE DEF y
  <2> QED
    BY <2>1, <2>2, <1>4, AsSeq
<1> HIDE DEF y
<1>6. Len(w) = Len(y) + Len(b) /\ Len(y) \in Nat /\ Len(b) \in Nat
      /\ \A k \in 1 .. Len(b) : w[Len(y) + k] = b[k]
  BY <1>1, <1>2, <1>4, <1>5 DEF Split
<1>7. y \o b = w
  <2> DEFINE z == y \o b
  <2>1. z \in Seq(Char) /\ Both(z, y, b)
    BY <1>1, <1>5, ConcatBoth
  <2> HIDE DEF z
  <2>2. Len(z) = Len(w)
    BY <2>1, <1>6 DEF Both
  <2>3. ASSUME NEW k \in 1 .. Len(w) PROVE z[k] = w[k]
    <3>1. \/ k \in 1 .. Len(y)
          \/ k - Len(y) \in 1 .. Len(b) /\ k = Len(y) + (k - Len(y))
      BY <1>6
    <3>2. CASE k \in 1 .. Len(y)
      BY <1>5, <2>1, <3>2 DEF Both
    <3>3. CASE k - Len(y) \in 1 .. Len(b) /\ k = Len(y) + (k - Len(y))
      <4>1. z[Len(y) + (k - Len(y))] = b[k - Len(y)]
        BY <2>1, <3>3 DEF Both
      <4>2. w[Len(y) + (k - Len(y))] = b[k - Len(y)]
        BY <1>6, <3>3
      <4> QED
        BY <3>3, <4>1, <4>2
    <3> QED
      BY <3>1, <3>2, <3>3, Zenon
  <2>4. Alike(z, w)
    BY <2>2, <2>3 DEF Alike
  <2>5. z = w
    BY <1>1, <2>1, <2>4, SameSeq
  <2> QED
    BY <2>5 DEF z
<1>8. \A k \in DOMAIN p : p[k].colour = c
  BY <1>2, <1>4 DEF Split
<1> QED
  BY <1>3, <1>7, <1>8, Zenon DEF p, b, w, y

(* Spec => []OutputIsComplete.                                             *)
THEOREM SpecOutputIsComplete == ConsoleSpec => []OutputIsComplete
<1>1. ConsoleSpec => [](ConsoleOutput /\ ConsoleInput)
  BY InitConsole, NextConsole, PTL DEF ConsoleSpec
<1> QED
  BY <1>1, OutputImplies, PTL

(* No key is lost, whatever is typed and whoever is active: for any number *)
(* of clients.                                                             *)
THEOREM SpecKeysAreAccountedFor == ConsoleSpec => []KeysAreAccountedFor
<1>1. ConsoleSpec => [](ConsoleOutput /\ ConsoleInput)
  BY InitConsole, NextConsole, PTL DEF ConsoleSpec
<1>2. ConsoleInput => KeysAreAccountedFor
  BY DEF ConsoleInput
<1> QED
  BY <1>1, <1>2, PTL

(* Between events every buffer is below its limit, so that the push in     *)
(* handle_client_char() never exceeds it.                                  *)
THEOREM SpecConsoleTypeOK == ConsoleSpec => []ConsoleTypeOK
<1>1. ConsoleSpec => [](ConsoleOutput /\ ConsoleInput)
  BY InitConsole, NextConsole, PTL DEF ConsoleSpec
<1>2. ConsoleOutput /\ ConsoleInput => ConsoleTypeOK
  BY DEF ConsoleOutput, ConsoleInput, ConsoleTypeOK, Settled, Good, Outs, Terminal
<1> QED
  BY <1>1, <1>2, PTL
=============================================================================
