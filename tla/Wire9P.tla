------------------------------- MODULE Wire9P -------------------------------
(***************************************************************************)
(* The wire format of 9P: what byte_size(), encode() and decode() do for   *)
(* integers, strings, vectors, data, the derived structures and the frames *)
(* of both directions, and a connection that carries frames and may break  *)
(* at any byte.                                                            *)
(*                                                                         *)
(* A value of a structure is the sequence of its fields.  A String is the  *)
(* sequence of its bytes, all of them ASCII, so read_to_string() accepts   *)
(* them.  Frames are shorter than msize, to which the client must keep.    *)
(***************************************************************************)
EXTENDS Naturals, SequencesExt, FiniteSetsExt

CONSTANTS
    Message,        \* messages that are sent: [name, vals], of both directions
    Follower,       \* bound: those of them that are sent after another
    Tag,
    MaxFrames       \* bound: frames sent over a connection

VARIABLES
    dir,            \* "T": client to server, "R": server to client
    sent,           \* frames encoded by the sender
    stream,         \* bytes that the reader has not consumed
    arrived,        \* number of bytes that reach the reader in all
    state,          \* "open", "cut": no more bytes come, "closed": by the reader
    handled         \* frames decoded by the reader

vars == <<dir, sent, stream, arrived, state, handled>>

----------------------------------------------------------------------------
(* The messages: type constant and types of the fields.                    *)
TMessage == [
    Tstatfs |-> <<8, <<"u32">>>>,
    Tlopen |-> <<12, <<"u32", "u32">>>>,
    Tlcreate |-> <<14, <<"u32", "str", "u32", "u32", "u32">>>>,
    Tsymlink |-> <<16, <<"u32", "str", "str", "u32">>>>,
    Tmknod |-> <<18, <<"u32", "str", "u32", "u32", "u32", "u32">>>>,
    Trename |-> <<20, <<"u32", "u32", "str">>>>,
    Treadlink |-> <<22, <<"u32">>>>,
    Tgetattr |-> <<24, <<"u32", "u64">>>>,
    Tsetattr |-> <<26, <<"u32", "u32", "u32", "u32", "u32", "u64", "u64", "u64", "u64", "u64">>>>,
    Txattrwalk |-> <<30, <<"u32", "u32", "str">>>>,
    Txattrcreate |-> <<32, <<"u32", "str", "u64", "u32">>>>,
    Treaddir |-> <<40, <<"u32", "u64", "u32">>>>,
    Tfsync |-> <<50, <<"u32", "u32">>>>,
    Tlock |-> <<52, <<"u32", "u8", "u32", "u64", "u64", "u32", "str">>>>,
    Tgetlock |-> <<54, <<"u32", "u8", "u64", "u64", "u32", "str">>>>,
    Tlink |-> <<70, <<"u32", "u32", "str">>>>,
    Tmkdir |-> <<72, <<"u32", "str", "u32", "u32">>>>,
    Trenameat |-> <<74, <<"u32", "str", "u32", "str">>>>,
    Tunlinkat |-> <<76, <<"u32", "str", "u32">>>>,
    Tversion |-> <<100, <<"u32", "str">>>>,
    Tauth |-> <<102, <<"u32", "str", "str", "u32">>>>,
    Tattach |-> <<104, <<"u32", "u32", "str", "str", "u32">>>>,
    Tflush |-> <<108, <<"u16">>>>,
    Twalk |-> <<110, <<"u32", "u32", "strs">>>>,
    Tread |-> <<116, <<"u32", "u64", "u32">>>>,
    Twrite |-> <<118, <<"u32", "u64", "data">>>>,
    Tclunk |-> <<120, <<"u32">>>>,
    Tremove |-> <<122, <<"u32">>>>]

RMessage == [
    Rlerror |-> <<7, <<"u32">>>>,
    Rstatfs |-> <<9, <<"u32", "u32", "u64", "u64", "u64", "u64", "u64", "u64", "u32">>>>,
    Rlopen |-> <<13, <<"qid", "u32">>>>,
    Rlcreate |-> <<15, <<"qid", "u32">>>>,
    Rsymlink |-> <<17, <<"qid">>>>,
    Rmknod |-> <<19, <<"qid">>>>,
    Rrename |-> <<21, <<>>>>,
    Rreadlink |-> <<23, <<"str">>>>,
    Rgetattr |-> <<25, <<"u64", "qid", "u32", "u32", "u32">> \o [i \in 1 .. 15 |-> "u64"]>>,
    Rsetattr |-> <<27, <<>>>>,
    Rxattrwalk |-> <<31, <<"u64">>>>,
    Rxattrcreate |-> <<33, <<>>>>,
    Rreaddir |-> <<41, <<"data">>>>,
    Rfsync |-> <<51, <<>>>>,
    Rlock |-> <<53, <<"u8">>>>,
    Rgetlock |-> <<55, <<"u8", "u64", "u64", "u32", "str">>>>,
    Rlink |-> <<71, <<>>>>,
    Rmkdir |-> <<73, <<"qid">>>>,
    Rrenameat |-> <<75, <<>>>>,
    Runlinkat |-> <<77, <<>>>>,
    Rversion |-> <<101, <<"u32", "str">>>>,
    Rauth |-> <<103, <<"qid">>>>,
    Rattach |-> <<105, <<"qid">>>>,
    Rflush |-> <<109, <<>>>>,
    Rwalk |-> <<111, <<"qids">>>>,
    Rread |-> <<117, <<"data">>>>,
    Rwrite |-> <<119, <<"u32">>>>,
    Rclunk |-> <<121, <<>>>>,
    Rremove |-> <<123, <<>>>>]

Table(d) == IF d = "T" THEN TMessage ELSE RMessage
Qid == <<"u8", "u32", "u64">>
Width == [u8 |-> 1, u16 |-> 2, u32 |-> 4, u64 |-> 8]
MAX_DATA_LENGTH == 32 * 1024 * 1024

----------------------------------------------------------------------------
(* Integers, little endian.                                                *)
Shr(v, n) == FoldLeft(LAMBDA x, i : x \div 256, v, [i \in 1 .. n |-> i])

encode_uint(w, v) == [i \in 1 .. w |-> Shr(v, i - 1) % 256]

(* What decoding from bytes r yields: a value and the bytes left, or an    *)
(* error.                                                                  *)
Ok(val, rest) == [ok |-> TRUE, val |-> val, rest |-> rest]
Err == [ok |-> FALSE, val |-> 0, rest |-> <<>>]

take(n, r) == SubSeq(r, 1, Min({n, Len(r)}))
skip(n, r) == SubSeq(r, n + 1, Len(r))

decode_uint(w, r) ==
    IF Len(r) < w THEN Err
    ELSE Ok(FoldRight(LAMBDA b, acc : acc * 256 + b, take(w, r), 0), skip(w, r))

(* String: the end of the input ends the string.                           *)
decode_String(r) ==
    LET len == decode_uint(2, r)
    IN  IF ~len.ok THEN Err ELSE Ok(take(len.val, len.rest), skip(len.val, len.rest))

(* Data: the end of the input is an error.                                 *)
decode_Data(r) ==
    LET len == decode_uint(4, r)
    IN  IF ~len.ok \/ len.val > MAX_DATA_LENGTH \/ Len(len.rest) < len.val THEN Err
        ELSE Ok(take(len.val, len.rest), skip(len.val, len.rest))

(* D applied to one type after the other, up to the first error.           *)
decode_each(D(_, _), types, r) ==
    LET next(acc, type) ==
            LET d == D(type, acc.rest)
            IN  IF acc.ok /\ d.ok THEN Ok(Append(acc.val, d.val), d.rest) ELSE Err
    IN  FoldLeft(next, Ok(<<>>, r), types)

(* The derived structures are their fields in order.  An element of a      *)
(* vector is a Qid or a String, and a field may be a vector.               *)
decode_scalar(type, r) ==
    CASE type = "str" -> decode_String(r)
      [] type = "data" -> decode_Data(r)
      [] OTHER -> decode_uint(Width[type], r)
decode_elem(type, r) ==
    IF type = "qid" THEN decode_each(decode_scalar, Qid, r) ELSE decode_scalar(type, r)

(* Vec<T>: a u16 count and the elements.                                   *)
decode_Vec(type, r) ==
    LET len == decode_uint(2, r)
    IN  IF ~len.ok THEN Err
        ELSE decode_each(decode_elem, [i \in 1 .. len.val |-> type], len.rest)

decode_field(type, r) ==
    CASE type = "qids" -> decode_Vec("qid", r)
      [] type = "strs" -> decode_Vec("str", r)
      [] OTHER -> decode_elem(type, r)
decode_all(types, r) == decode_each(decode_field, types, r)

encode_each(E(_, _), types, vals) ==
    FlattenSeq([i \in DOMAIN vals |-> E(types[i], vals[i])])
encode_String(v) == encode_uint(2, Len(v)) \o v
encode_Data(v) == encode_uint(4, Len(v)) \o v
encode_scalar(type, v) ==
    CASE type = "str" -> encode_String(v)
      [] type = "data" -> encode_Data(v)
      [] OTHER -> encode_uint(Width[type], v)
encode_elem(type, v) ==
    IF type = "qid" THEN encode_each(encode_scalar, Qid, v) ELSE encode_scalar(type, v)
encode_Vec(type, v) ==
    encode_uint(2, Len(v)) \o encode_each(encode_elem, [i \in DOMAIN v |-> type], v)
encode_field(type, v) ==
    CASE type = "qids" -> encode_Vec("qid", v)
      [] type = "strs" -> encode_Vec("str", v)
      [] OTHER -> encode_elem(type, v)
encode_all(types, vals) == encode_each(encode_field, types, vals)

(* byte_size() is computed from the value, not from its encoding.          *)
SumOf(f) == FoldLeft(+, 0, f)

(* Mutant: the count before the bytes of a string is not counted.          *)
Mut_byte_size_scalar(type, v) ==
    CASE type = "str" -> Len(v)
      [] type = "data" -> 4 + Len(v)
      [] OTHER -> Width[type]

byte_size_scalar(type, v) ==
    CASE type = "str" -> 2 + Len(v)
      [] type = "data" -> 4 + Len(v)
      [] OTHER -> Width[type]
byte_size_elem(type, v) ==
    IF type = "qid" THEN SumOf([i \in DOMAIN v |-> byte_size_scalar(Qid[i], v[i])])
    ELSE byte_size_scalar(type, v)
byte_size_Vec(type, v) == 2 + SumOf([i \in DOMAIN v |-> byte_size_elem(type, v[i])])
byte_size_field(type, v) ==
    CASE type = "qids" -> byte_size_Vec("qid", v)
      [] type = "strs" -> byte_size_Vec("str", v)
      [] OTHER -> byte_size_elem(type, v)

----------------------------------------------------------------------------
(* Frames: size, type, tag, message.                                       *)
TypeOf(table, frame) == table[frame.name][1]
FieldsOf(table, frame) == table[frame.name][2]

frame_size(table, frame) ==
    4 + 1 + 2 + SumOf([i \in DOMAIN frame.vals |->
                          byte_size_field(FieldsOf(table, frame)[i], frame.vals[i])])
frame_bytes(table, frame) ==
    encode_uint(4, frame_size(table, frame)) \o encode_uint(1, TypeOf(table, frame))
        \o encode_uint(2, frame.tag) \o encode_all(FieldsOf(table, frame), frame.vals)

(* The message is decoded from inner, the bytes that the size allows.      *)
(* Bytes that the message does not need stay in the stream.                *)
frame_decode(table, inner, outer) ==
    LET ty == decode_uint(1, inner)
        tag == decode_uint(2, ty.rest)
        named == {n \in DOMAIN table : table[n][1] = ty.val}
        name == CHOOSE n \in named : TRUE
        body == decode_all(table[name][2], tag.rest)
    IN  IF ~ty.ok \/ ~tag.ok \/ named = {} \/ ~body.ok THEN Err
        ELSE Ok([name |-> name, tag |-> tag.val, vals |-> body.val],
                skip(Len(inner) - Len(body.rest), outer))

Tframe_byte_size(frame) == frame_size(TMessage, frame)
Rframe_byte_size(frame) == frame_size(RMessage, frame)
Tframe_encode(frame) == frame_bytes(TMessage, frame)
Rframe_encode(frame) == frame_bytes(RMessage, frame)

Tframe_decode(r) ==
    LET size == decode_uint(4, r)
    IN  IF ~size.ok \/ size.val < 4 THEN Err
        ELSE frame_decode(TMessage, take(size.val - 4, size.rest), size.rest)

(* A size below 4 is not looked for: the difference wraps around, and the  *)
(* message may use all there is.                                           *)
Rframe_decode(r) ==
    LET size == decode_uint(4, r)
        inner == IF size.val < 4 THEN size.rest ELSE take(size.val - 4, size.rest)
    IN  IF ~size.ok THEN Err ELSE frame_decode(RMessage, inner, size.rest)

byte_size(d, frame) == IF d = "T" THEN Tframe_byte_size(frame) ELSE Rframe_byte_size(frame)
encode(d, frame) == IF d = "T" THEN Tframe_encode(frame) ELSE Rframe_encode(frame)
decode(d, r) == IF d = "T" THEN Tframe_decode(r) ELSE Rframe_decode(r)

----------------------------------------------------------------------------
Init ==
    /\ dir \in {"T", "R"}
    /\ sent = <<>> /\ stream = <<>> /\ handled = <<>>
    /\ arrived = 0
    /\ state = "open"

Send(m, tag) ==
    /\ state = "open" /\ Len(sent) < MaxFrames
    /\ m.name \in DOMAIN Table(dir) /\ (sent # <<>> => m \in Follower)
    /\ LET frame == [name |-> m.name, tag |-> tag, vals |-> m.vals]
           bytes == encode(dir, frame)
       IN  /\ sent' = Append(sent, frame)
           /\ stream' = stream \o bytes
           /\ arrived' = arrived + Len(bytes)
    /\ UNCHANGED <<dir, state, handled>>

(* The connection ends: the last n bytes sent never arrive.                *)
Cut(n) ==
    /\ state = "open"
    /\ state' = "cut"
    /\ stream' = SubSeq(stream, 1, Len(stream) - n)
    /\ arrived' = arrived - n
    /\ UNCHANGED <<dir, sent, handled>>

(* handle_client(): one message after the other, until one is an error.    *)
(* While the connection is open a read waits for what is missing.          *)
Handle ==
    /\ state = "cut" \/ (state = "open" /\ stream # <<>>)
    /\ \E d \in {decode(dir, stream)} :
          \/ /\ d.ok
             /\ handled' = Append(handled, d.val)
             /\ stream' = d.rest
             /\ UNCHANGED state
          \/ /\ ~d.ok
             /\ state' = "closed"
             /\ UNCHANGED <<stream, handled>>
    /\ UNCHANGED <<dir, sent, arrived>>

Next ==
    \/ \E m \in Message, tag \in Tag : Send(m, tag)
    \/ \E n \in 0 .. Len(stream) : Cut(n)
    \/ Handle

Spec == Init /\ [][Next]_vars

----------------------------------------------------------------------------
TypeOK ==
    /\ stream \in Seq(0 .. 255) /\ arrived \in Nat
    /\ state \in {"open", "cut", "closed"}
    /\ Len(sent) <= MaxFrames
    /\ \A i \in DOMAIN handled : handled[i].name \in DOMAIN Table(dir)

(* Frames of sent that arrive whole.                                       *)
EndOf(n) == SumOf([i \in 1 .. n |-> byte_size(dir, sent[i])])
Whole == Cardinality({n \in DOMAIN sent : EndOf(n) <= arrived})

(* Encoding and decoding agree, frame by frame: what the reader handles is *)
(* what was sent, in order, for every frame that arrived whole, and none   *)
(* of these is missing when it gives up.  byte_size() "Returns the number  *)
(* of bytes necessary to fully encode `self`", from which readdir()        *)
(* computes offsets and room: it is the length of the encoding, and the    *)
(* frames handled have used up their bytes and no more.                    *)
WholeFramesAreHandled ==
    /\ \A i \in DOMAIN handled : i <= Whole =>
          handled[i].name = sent[i].name /\ handled[i] = sent[i]
    /\ state = "closed" => Len(handled) >= Whole
    /\ \A i \in DOMAIN sent : byte_size(dir, sent[i]) = Len(encode(dir, sent[i]))
    /\ Len(handled) <= Whole => Len(stream) = arrived - EndOf(Len(handled))
=============================================================================
