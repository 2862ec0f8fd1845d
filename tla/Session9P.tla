----------------------------- MODULE Session9P -----------------------------
(***************************************************************************)
(* The message size of a 9P session, for Server9P (fids and names) and     *)
(* Data9P (contents).                                                      *)
(*                                                                         *)
(* Sizes are scaled down: MinSize stands for 256 and MaxSize for 65535     *)
(* bytes, ReadHeader for the 11 bytes of Rread and Rreaddir beside their   *)
(* data.                                                                   *)
(***************************************************************************)
EXTENDS Naturals, FiniteSetsExt

CONSTANTS
    MinSize,        \* MIN_MESSAGE_SIZE
    MaxSize,        \* MAX_MESSAGE_SIZE
    ReadHeader

(* Any message has room for data.                                          *)
ASSUME SizeAssumption ==
    {MinSize, MaxSize, ReadHeader} \subseteq Nat /\ ReadHeader < MinSize /\ MinSize <= MaxSize

VARIABLE
    msize           \* Server.msize

(* version(): an offer that is too small is refused, and nothing changes.  *)
agree(size) ==
    /\ size >= MinSize
    /\ msize' = Min({MaxSize, size})
=============================================================================
