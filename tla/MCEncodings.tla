---------------------------- MODULE MCEncodings ----------------------------
(* What is encoded on one side and decoded on another: 9P messages (module *)
(* Wire9P), events (EventIndex), calls in registers (HostCall), loads and  *)
(* stores (GuestAccess).  One of them at a time.                           *)
EXTENDS Wire9P, TLC

CONSTANT None

(* Each message twice, its fields filled with values at the edges of a     *)
(* byte.  TLC's integers end at 2^31 - 1.                                  *)
Small == <<7, 0, 255>>
Medium == <<0, 255, 256, 65535>>
Large == <<65536, 255, 2147483647, 0, 16777216>>
Strings == <<<<97, 98>>, <<>>, <<47>>>>
Bytes == <<<<0, 255, 1>>, <<>>>>
Pick(s, i) == s[(i % Len(s)) + 1]
QidOf(i) == <<Pick(Small, i), Pick(Large, i), Pick(Large, i + 1)>>

ValueOf(type, i) ==
    CASE type = "u8" -> Pick(Small, i)
      [] type = "u16" -> Pick(Medium, i)
      [] type \in {"u32", "u64"} -> Pick(Large, i)
      [] type = "str" -> Pick(Strings, i)
      [] type = "data" -> Pick(Bytes, i)
      [] type = "qid" -> QidOf(i)
      [] type = "qids" -> [k \in 1 .. i % 3 |-> QidOf(i + k)]
      [] type = "strs" -> [k \in 1 .. i % 3 |-> Pick(Strings, i + k)]

Sample(d, name, i) ==
    [name |-> name, vals |-> [k \in DOMAIN Table(d)[name][2] |-> ValueOf(Table(d)[name][2][k], i + k)]]
MCMessage == UNION {{Sample(d, name, i) : name \in DOMAIN Table(d), i \in 0 .. 1} : d \in {"T", "R"}}
MCFollower ==
    {Sample("T", name, 0) : name \in {"Tclunk", "Trename"}} \cup {Sample("R", name, 0) : name \in {"Rclunk", "Rread"}}

VARIABLES
    part,           \* "wire", "index", "call" or "access"
    ty, i, j,
    icecap_benchmark, nodes, nodes_lock, at, call, guest, mr, fault, msg, done, started,
    family, dist, stage, access, ctx, mem, want

(* All types of events but HostIn, for which see MCEventIndexSPI.cfg.      *)
Types ==
    {"A", "B", "C", "RealmRingBufferId", "HostRingBufferIn", "HostRingBufferOut", "HostOut",
     "RealmRingBufferIn", "RealmRingBufferOut", "RealmIn", "RealmOut",
     "SerialServerRingBuffer", "SerialServerOut", "ResourceServerOut"}

I == INSTANCE EventIndex WITH Checked <- Types

(* The calls of node 0 are all there are, with values at the edges of a    *)
(* byte; two nodes that are started later contend for each other.          *)
Passthru(name, vals) == [sys |-> "RESOURCE_SERVER_PASSTHRU", arg |-> <<name, vals>>]
Psci(name, args) == [sys |-> "PSCI", arg |-> <<name, args>>]
YieldTo(p, r, v, t) ==
    [sys |-> "yield",
     arg |-> <<"yield", [physical_node |-> p, realm_id |-> r, virtual_node |-> v, timeout |-> t]>>]
Direct(name) == [sys |-> "DIRECT", arg |-> <<name, <<>>>>]
Putchar(c) == [sys |-> "PUTCHAR", arg |-> <<"putchar", c>>]
Start(target) == Psci("CPU_ON", <<target, 80, 81>>)

CallOf == <<
    {Passthru("Destroy", <<255>>), Passthru("HackRun", <<1>>), Start(2), Start(3)},
    {Putchar(65), Start(1)} >> @@
    (0 :> {
        Passthru("Declare", <<1, 65536>>), Passthru("SpecChunk", <<0, 256, 255, 65535>>),
        Passthru("FillChunks", <<255, 0, 2147483647>>), Passthru("RealizeStart", <<256>>),
        Passthru("RealizeFinish", <<0>>), Passthru("Destroy", <<1>>), Passthru("HackRun", <<257>>),
        Direct("BenchmarkUtilisationStart"), Direct("BenchmarkUtilisationFinish"),
        Putchar(266), Start(1), Start(2),
        Psci("PSCI_VERSION", <<>>), Psci("MIGRATE_INFO_TYPE", <<>>),
        Psci("PSCI_FEATURES", <<"CPU_ON">>), Psci("PSCI_FEATURES", <<"PSCI_VERSION">>),
        YieldTo(1, 65535, 256, None), YieldTo(0, 256, 2, 0), YieldTo(2, 1, 255, 16777216)})

H == INSTANCE HostCall WITH Node <- 0 .. 2, handled <- done

(* Loads and stores around the border between banked and shared registers, *)
(* and at the ends of the arrays.  32 bits of the GPRs are beyond them.    *)
GPR == {<<1, 2, 3, 4, 5, 6, 7, 8>>, <<240, 0, 255, 16, 0, 0, 0, 0>>}
Load(width, offset, srt) ==
    [write |-> FALSE, width |-> width, offset |-> offset, srt |-> srt, value |-> <<1, 2, 3, 4, 5, 6, 7, 8>>]
Store(width, offset, srt, v) == [write |-> TRUE, width |-> width, offset |-> offset, srt |-> srt, value |-> v]
Words(offsets) ==
    {Load("Word", o, 0) : o \in offsets} \cup {Store("Word", o, 30, v) : o \in offsets, v \in GPR}
Families == [
    groups |-> Words({128, 132}),
    priorities |-> Words({1052, 1056, 2040}) \cup {Load("Byte", 1056, 1)},
    targets |-> Words({2080}) \cup {Store("Byte", o, 2, v) : o \in {2081, 2083}, v \in GPR}
                \cup {Store("Word", 2080, 31, <<>>), Load("Word", 2076, 0), Load("Word", 3064, 0)},
    configuration |-> Words({3072, 3076, 3080}),
    others |-> {Load("Word", o, 3) : o \in {0, 4, 8, 256, 260, 380, 512, 768, 2044, 3840, 3856, 4064, 4080}}
               \cup {Store("Word", 4, 3, v) : v \in GPR} \cup {Load("HalfWord", 0, 3), Load("Word", 6, 3)}]

A == INSTANCE GuestAccess WITH
        Node <- {0, 1}, Gpr <- {0, 1, 2, 3, 30}, Access <- Families, at <- stage

index == <<ty, i, j>>
calls == <<icecap_benchmark, nodes, nodes_lock, at, call, guest, mr, fault, msg, done, started>>
accesses == <<family, dist, stage, access, ctx, mem, want>>
allVars == <<part, vars, index, calls, accesses>>

SumInit ==
    /\ part \in {"wire", "index", "call", "access"}
    /\ part = "wire" \/ dir = "T"
    /\ part = "index" \/ ty = "A"
    /\ part = "call" \/ icecap_benchmark = FALSE
    /\ part = "access" \/ family = "others"
    /\ Init /\ I!Init /\ H!Init /\ A!Init
SumNext ==
    \/ part = "wire" /\ Next /\ UNCHANGED <<part, index, calls, accesses>>
    \/ part = "index" /\ I!Next /\ UNCHANGED <<part, vars, calls, accesses>>
    \/ part = "call" /\ H!Next /\ UNCHANGED <<part, vars, index, accesses>>
    \/ part = "access" /\ A!Next /\ UNCHANGED <<part, vars, index, calls>>
SumSpec == SumInit /\ [][SumNext]_allVars

(* The property of EventIndex: values of an event type and their numbers   *)
(* correspond, by to_nat() and from_nat().                                 *)
EachValueHasItsNumber == part = "index" => I!EachValueHasItsNumber
(* The property of HostCall: a call does what it was made for.             *)
CallsAreCarriedOut == part = "call" => H!CallsAreCarriedOut
(* The property of GuestAccess: the guest finds what it stored.            *)
RegistersAreMemory == part = "access" => A!RegistersAreMemory
=============================================================================
