---------------------------- MODULE BulkTransfer ----------------------------
(***************************************************************************)
(* How a realm's specification gets from the host tool to the resource     *)
(* server: in chunks, through a region of memory that both share and that  *)
(* is used from its start for each chunk.                                  *)
(*                                                                         *)
(* The tool is a sequence of steps, of which some write the region and     *)
(* some are calls that the server answers.  Tools run one at a time.  The  *)
(* realm's life after realize_finish() is in ResourceServer, the memory    *)
(* behind it in Realizer.                                                  *)
(*                                                                         *)
(* A cell of a sequence stands for a byte, except that a FillChunkHeader   *)
(* is one cell.                                                            *)
(***************************************************************************)
EXTENDS Integers, FiniteSetsExt, SequencesExt

CONSTANTS
    ChunkSize,      \* bulk_transport_chunk_size, and the size of the region
    SpecSize,       \* lengths of an encoded model
    FillSize,       \* lengths of a fill entry
    MaxObject,      \* bound: objects of a model
    MaxFill,        \* bound: fill entries of an object
    None

(* The tool's chunk is a large page and 4096 bytes: a fill entry, which is *)
(* within a page, fits into it with its header.  (MCRealm assumes this.)   *)
ChunkAssumption == ChunkSize \in Nat \ {0} /\ \A n \in FillSize : n + 1 \in 1 .. ChunkSize

Zero == <<"zero">>
Bytes(kind, n) == [p \in 1 .. n |-> <<kind, p>>]
Header(i, j, n) == <<"header", i, j, n>>

VARIABLES
    spec,           \* [size, objects]: model size, and sizes of the fills of its objects
    steps,          \* what the tool has still to do
    region,         \* the shared region
    partial_spec,   \* ResourceServer.partial_specs of the realm, or None
    partial_realm,  \* [filled]: its entry in partial_realms, or None
    realm,          \* [filled]: its entry in realms, or None
    down,           \* a thread of the server has failed an assertion
    killed          \* auxiliary: a tool was killed before it was done

server == <<partial_spec, partial_realm, realm>>
vars == <<spec, steps, region, server, down, killed>>

----------------------------------------------------------------------------
(* The encoded model and the fill contents behind it in the file.          *)
Model == Bytes("model", spec.size)
Entries ==
    LET of(i) == [j \in 1 .. Len(spec.objects[i]) |-> <<i, j, spec.objects[i][j]>>]
    IN  FlattenSeq([i \in 1 .. Len(spec.objects) |-> of(i)])
FillBefore(k) == FoldLeft(LAMBDA n, e : n + e[3], 0, SubSeq(Entries, 1, k - 1))
FillContent(k) == [p \in 1 .. Entries[k][3] |-> <<"fill", FillBefore(k) + p>>]

Call(name, n, offset) == [do |-> name, size |-> n, offset |-> offset, bytes |-> <<>>]
Send(bytes) == [do |-> "Send", size |-> Len(bytes), offset |-> 0, bytes |-> bytes]

(* BulkTransport::send_spec(): chunks of equal length, the last one may be *)
(* shorter.                                                                *)
send_spec ==
    LET chunks == (spec.size + ChunkSize - 1) \div ChunkSize
        chunk(i) == SubSeq(Model, i * ChunkSize + 1, Min({(i + 1) * ChunkSize, spec.size}))
        both(i) == <<Send(chunk(i - 1)), Call("SpecChunk", Len(chunk(i - 1)), (i - 1) * ChunkSize)>>
    IN  FlattenSeq([i \in 1 .. chunks |-> both(i)])

send_fill(bytes) == <<Send(bytes), Call("FillChunks", Len(bytes), 0)>>

(* Header and content do not fit behind what is accumulated.               *)
Exceeds(acc, content) == Len(acc) + 1 + Len(content) > ChunkSize

(* Mutant: what was accumulated last is not sent.                          *)
Mut_SendFills ==
    LET add(s, k) ==
            LET content == FillContent(k)
                more == <<Header(Entries[k][1], Entries[k][2], Len(content))>> \o content
            IN  IF Exceeds(s.acc, content)
                THEN [steps |-> s.steps \o send_fill(s.acc), acc |-> more]
                ELSE [s EXCEPT !.acc = @ \o more]
    IN  FoldLeft(add, [steps |-> <<>>, acc |-> <<>>], [k \in 1 .. Len(Entries) |-> k]).steps

(* The loop of Host::create_realm() over the fill entries.                 *)
SendFills ==
    LET add(s, k) ==
            LET content == FillContent(k)
                more == <<Header(Entries[k][1], Entries[k][2], Len(content))>> \o content
            IN  IF Exceeds(s.acc, content)
                THEN [steps |-> s.steps \o send_fill(s.acc), acc |-> more]
                ELSE [s EXCEPT !.acc = @ \o more]
        all == FoldLeft(add, [steps |-> <<>>, acc |-> <<>>], [k \in 1 .. Len(Entries) |-> k])
    IN  all.steps \o send_fill(all.acc)

(* Host::create_realm(), for a realm that is not there.                    *)
create_realm ==
    /\ steps = <<>> /\ realm = None
    /\ steps' = <<Call("Declare", spec.size, 0)>> \o send_spec \o <<Call("RealizeStart", 0, 0)>>
                   \o SendFills \o <<Call("RealizeFinish", 0, 0)>>
    /\ UNCHANGED <<spec, region, server, down, killed>>

destroy_realm ==
    /\ steps = <<>>
    /\ steps' = <<Call("Destroy", 0, 0)>>
    /\ UNCHANGED <<spec, region, server, down, killed>>

(* BulkTransport::send(): the region beyond the bytes keeps what it held.  *)
send ==
    /\ steps # <<>> /\ Head(steps).do = "Send"
    /\ region' = Head(steps).bytes \o SubSeq(region, Len(Head(steps).bytes) + 1, Len(region))
    /\ steps' = Tail(steps)
    /\ UNCHANGED <<spec, server, down, killed>>

KillTool ==
    /\ steps # <<>>
    /\ steps' = <<>> /\ killed' = TRUE
    /\ UNCHANGED <<spec, region, server, down>>

----------------------------------------------------------------------------
(* The server's thread.  A call that fails takes the server down.          *)
Received(name) ==
    /\ steps # <<>> /\ Head(steps).do = name
    /\ steps' = Tail(steps)
    /\ UNCHANGED <<spec, region, killed>>
Unless(cond) == down' = ~cond

declare ==
    /\ Received("Declare")
    /\ Unless(partial_spec = None /\ realm = None)
    /\ partial_spec' = [p \in 1 .. Head(steps).size |-> Zero]
    /\ UNCHANGED <<partial_realm, realm>>

InRegion == Head(steps).size <= ChunkSize

incorporate_spec_chunk ==
    /\ Received("SpecChunk")
    /\ LET n == Head(steps).size
           o == Head(steps).offset
           fits == InRegion /\ partial_spec # None /\ o + n <= Len(partial_spec)
       IN  /\ Unless(fits)
           /\ partial_spec' = IF fits THEN [p \in DOMAIN partial_spec |->
                                              IF p \in o + 1 .. o + n THEN region[p - o]
                                                                      ELSE partial_spec[p]]
                                      ELSE partial_spec
    /\ UNCHANGED <<partial_realm, realm>>

(* Only the bytes of the model are sure to be decoded as one.              *)
realize_start ==
    /\ Received("RealizeStart")
    /\ Unless(partial_spec = Model)
    /\ partial_spec' = None
    /\ partial_realm' = [filled |-> {}]
    /\ UNCHANGED realm

(* Splits the bytes at the headers; None if they do not begin with one, or *)
(* end within an entry.                                                    *)
RECURSIVE Split(_)
Split(bytes) ==
    IF bytes = <<>> THEN {}
    ELSE LET h == Head(bytes)
             rest == Tail(bytes)
         IN  IF h[1] # "header" \/ h[4] > Len(rest) THEN {None}
             ELSE {<<h[2], h[3], SubSeq(rest, 1, h[4])>>} \cup Split(SubSeq(rest, h[4] + 1, Len(rest)))

(* fill_frame() compares the digest of the content with the model's.       *)
Expected == {<<Entries[k][1], Entries[k][2], FillContent(k)>> : k \in 1 .. Len(Entries)}

realize_continue ==
    /\ Received("FillChunks")
    /\ LET parts == Split(SubSeq(region, 1, Head(steps).size))
           good == InRegion /\ partial_realm # None /\ parts \subseteq Expected
       IN  /\ Unless(good)
           /\ partial_realm' = IF good THEN [filled |-> partial_realm.filled \cup parts]
                                       ELSE partial_realm
    /\ UNCHANGED <<partial_spec, realm>>

realize_finish ==
    /\ Received("RealizeFinish")
    /\ Unless(partial_realm # None)
    /\ realm' = partial_realm
    /\ partial_realm' = None
    /\ UNCHANGED partial_spec

(* A realm that is not there may be destroyed.                             *)
destroy ==
    /\ Received("Destroy")
    /\ realm' = None
    /\ UNCHANGED <<partial_spec, partial_realm, down>>

----------------------------------------------------------------------------
Init ==
    /\ spec \in [size : SpecSize, objects : BoundedSeq(BoundedSeq(FillSize, MaxFill), MaxObject)]
    /\ steps = <<>>
    /\ region = [p \in 1 .. ChunkSize |-> Zero]
    /\ partial_spec = None /\ partial_realm = None /\ realm = None
    /\ down = FALSE /\ killed = FALSE

Next ==
    /\ ~down
    /\ \/ create_realm \/ destroy_realm \/ send \/ KillTool
       \/ declare \/ incorporate_spec_chunk \/ realize_start
       \/ realize_continue \/ realize_finish \/ destroy

Spec == Init /\ [][Next]_vars

----------------------------------------------------------------------------
TypeOK ==
    /\ Len(region) = ChunkSize
    /\ partial_spec # None => Len(partial_spec) = spec.size
    /\ down \in BOOLEAN

(* A tool that is left to finish meets no assertion, failed decoding or    *)
(* wrong digest: each call finds in the region the bytes it is about, cut  *)
(* where the server cuts them.  realize_finish() does not ask whether all  *)
(* fills came: they have, each with its own content, when a realm is there *)
(* to be run, though an earlier tool was killed half way.                  *)
RealmIsFilled ==
    /\ down => killed
    /\ realm # None => realm.filled = Expected
=============================================================================
