------------------------------- MODULE Data9P -------------------------------
(***************************************************************************)
(* File contents in the 9P server: one file and one fid of a client that   *)
(* moves more data than a message holds, in as many requests as it takes,  *)
(* and goes on after the session is set up again with another message      *)
(* size.  Fids and names are in Server9P, the scale of the sizes is in     *)
(* Session9P; WriteHeader stands for the 23 bytes of Twrite beside its     *)
(* data.                                                                   *)
(***************************************************************************)
EXTENDS Integers, Sequences, Session9P

CONSTANTS
    Byte,           \* contents of a cell, with 0
    MaxLen,         \* bound: length of the file
    Offer,          \* values of Tversion.msize
    ReadCount,      \* values of Tread.count
    WriteHeader

(* Any message has room for data, and the client asks for some.            *)
ASSUME DataAssumption ==
    /\ 0 \in Byte /\ {MaxLen, WriteHeader} \subseteq Nat
    /\ Offer \subseteq Nat /\ ReadCount \subseteq Nat \ {0}
    /\ WriteHeader < MinSize

Contents == UNION {[1 .. l -> Byte] : l \in 0 .. MaxLen}

Attr == {"SIZE", "TIMES", "MODE", "UID", "GID"}

VARIABLES
    open,           \* the fid is in Server.fids and its file is open
    file,           \* contents of the file on the host
    reply,          \* bytes of data in the last Rread
    job,            \* the client's transfer: "idle", "read", "got" or "write"
    off,            \* where the transfer goes on
    buf,            \* what the client has read, or has still to write
    belief          \* what the file holds once the transfer is over

dataVars == <<msize, open, file, reply, job, off, buf, belief>>
transfer == <<job, off, buf, belief>>
AtRest == job \in {"idle", "got"}

----------------------------------------------------------------------------
(* The host: pwrite(2) and ftruncate(2) fill a gap with zeros.             *)
SetLen(s, n) == [i \in 1 .. n |-> IF i <= Len(s) THEN s[i] ELSE 0]
WriteAt(s, data, o) ==
    LET n == Max({Len(s), o + Len(data)})
    IN  [i \in 1 .. n |-> IF i > o /\ i <= o + Len(data) THEN data[i - o] ELSE SetLen(s, n)[i]]

version_size(size) ==
    /\ agree(size)
    /\ open' = FALSE
    /\ reply' = 0
    /\ UNCHANGED <<file, transfer>>

(* The client attaches, walks to the file again and opens it for reading   *)
(* and writing.                                                            *)
lopen_again ==
    /\ ~open
    /\ open' = TRUE
    /\ UNCHANGED <<msize, file, reply, transfer>>

(* Mutant: as much is kept free as the smallest message takes.             *)
Mut_capacity_min(count) == Min({msize - MinSize, count})

(* Bytes that fit into a reply.                                            *)
capacity(count) == Min({msize - ReadHeader, count})

(* read(): the host reads less than it is asked for at the end of the      *)
(* file, and may do so elsewhere.  The client is done on an empty reply.   *)
read(count) ==
    /\ open /\ job = "read"
    /\ LET left == Min({capacity(count), Max({Len(file) - off, 0})})
       IN  \E n \in Min({1, left}) .. left :
              /\ buf' = buf \o SubSeq(file, off + 1, off + n)
              /\ off' = off + n
              /\ reply' = n
              /\ job' = IF n = 0 THEN "got" ELSE "read"
    /\ UNCHANGED <<msize, open, file, belief>>

(* write(): a request holds at most msize bytes, or it is not decoded.     *)
(* The host may write a part, and the client goes on behind it.            *)
write(n) ==
    /\ open /\ job = "write"
    /\ n \in 1 .. Len(buf) /\ n + WriteHeader <= msize
    /\ \E k \in 1 .. n :
          /\ file' = WriteAt(file, SubSeq(buf, 1, k), off)
          /\ buf' = SubSeq(buf, k + 1, Len(buf))
          /\ off' = off + k
    /\ job' = IF buf' = <<>> THEN "idle" ELSE "write"
    /\ UNCHANGED <<msize, open, reply, belief>>

(* set_attr().  The file is opened by its path once more; mode and owner   *)
(* cannot be changed; times of the host's file are left out.               *)
set_attr(valid, size) ==
    /\ open /\ AtRest
    /\ valid \cap {"MODE", "UID", "GID"} = {}
    /\ file' = IF "SIZE" \in valid THEN SetLen(file, size) ELSE file
    /\ belief' = IF "SIZE" \in valid THEN SetLen(belief, size) ELSE belief
    /\ job' = "idle"
    /\ UNCHANGED <<msize, open, reply, off, buf>>

----------------------------------------------------------------------------
(* The client begins a transfer.                                           *)
StartRead ==
    /\ AtRest
    /\ job' = "read" /\ off' = 0 /\ buf' = <<>>
    /\ UNCHANGED <<msize, open, file, reply, belief>>

StartWrite(data, o) ==
    /\ AtRest
    /\ o + Len(data) <= MaxLen
    /\ job' = "write" /\ off' = o /\ buf' = data
    /\ belief' = WriteAt(belief, data, o)
    /\ UNCHANGED <<msize, open, file, reply>>

DataInit ==
    /\ msize = MaxSize
    /\ open = FALSE
    /\ file = <<>> /\ belief = <<>>
    /\ reply = 0
    /\ job = "idle" /\ off = 0 /\ buf = <<>>

DataNext ==
    \/ \E size \in Offer : version_size(size)
    \/ lopen_again
    \/ \E count \in ReadCount : read(count)
    \/ \E n \in 1 .. MaxLen : write(n)
    \/ \E valid \in SUBSET Attr, size \in 0 .. MaxLen : set_attr(valid, size)
    \/ StartRead
    \/ \E data \in Contents \ {<<>>}, o \in 0 .. MaxLen : StartWrite(data, o)

DataSpec == DataInit /\ [][DataNext]_dataVars

----------------------------------------------------------------------------
DataTypeOK ==
    /\ msize \in MinSize .. MaxSize
    /\ {file, belief, buf} \subseteq Contents
    /\ off \in 0 .. MaxLen /\ reply \in 0 .. MaxLen
    /\ job \in {"idle", "read", "got", "write"}

(* A transfer made in pieces, short reads and writes and a new session     *)
(* included, has the effect of one: when no write is under way the file    *)
(* holds all that was written, what was read is the file up to there, and  *)
(* a read that has come to its empty reply has returned the whole file.    *)
(* read(): "Use an empty Rread struct to figure out the overhead of the    *)
(* header": whatever size was agreed on, a reply is no longer than that.   *)
TransferIsWhole ==
    /\ job # "write" => file = belief
    /\ job = "read" => buf = SubSeq(belief, 1, off)
    /\ job = "got" => buf = belief
    /\ reply + ReadHeader <= msize
=============================================================================
