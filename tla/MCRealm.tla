------------------------------ MODULE MCRealm ------------------------------
(* How a realm comes about, in three parts, one at a time: its memory      *)
(* (module Realizer), the set-up of its objects (SubsystemObjects), and    *)
(* the way of its specification to the resource server (BulkTransfer).     *)
EXTENDS Realizer

(* Memory: one block, three small models, of which the first may be one    *)
(* that initialize() refuses.                                              *)
CONSTANTS r1, r2, r3, e1, e2

MCBuiltIn == <<[paddr |-> 16, size_bits |-> 4]>>
MCRefusals == {{}, {r1}}
MCObjects == (r1 :> <<2>>) @@ (r2 :> <<2, 1>>) @@ (r3 :> <<3>>)
MCFrames == (r1 :> 0) @@ (r2 :> 1) @@ (r3 :> 0)
MCExterns == (r1 :> {e1}) @@ (r2 :> {e2}) @@ (r3 :> {})

(* Objects: two address spaces with a frame in common, a CNode and two     *)
(* threads; and models with one fault each.                                *)
Entry(at, type, obj) ==
    [at |-> at, type |-> type, obj |-> obj, rights |-> "rw", cached |-> TRUE, badge |-> 0]
Obj(kind, entries) == [kind |-> kind, extern |-> FALSE, own |-> 0, entries |-> entries]
ExternObj(kind, own) == [kind |-> kind, extern |-> TRUE, own |-> own, entries |-> <<>>]
Thread_(vspace, vcpu, bound, affinity, gprs) ==
    [kind |-> "TCB", extern |-> FALSE, own |-> 0, entries |-> <<>>, cspace |-> 11, vspace |-> vspace,
     ipc_buffer |-> 9, vcpu |-> vcpu, bound |-> bound, affinity |-> affinity, gprs |-> gprs]

(* a, b, c, d: places at the four levels; page: rights and attributes of   *)
(* the second mapping of frame 9; badge and rights of an endpoint.         *)
Model(a, b, c, d, cached, badge, rights, affinity) ==
    << Obj("PGD", <<Entry(a, "PUD", 3)>>), Obj("PGD", <<Entry(1, "PUD", 4)>>),
       Obj("PUD", <<Entry(b, "PD", 5)>>), Obj("PUD", <<Entry(0, "PD", 6)>>),
       Obj("PD", <<Entry(c, "PT", 7)>>), Obj("PD", <<Entry(0, "LargePage", 10), Entry(1, "PT", 8)>>),
       Obj("PT", <<Entry(d, "SmallPage", 9)>>),
       Obj("PT", <<Entry(0, "SmallPage", 9), [Entry(1, "SmallPage", 9) EXCEPT !.cached = cached, !.rights = "r"]>>),
       Obj("SmallPage", <<>>), ExternObj("LargePage", 0),
       Obj("CNode", << [Entry(0, "Endpoint", 13) EXCEPT !.badge = badge, !.rights = rights],
                       Entry(1, "Notification", 14), [Entry(2, "CNode", 11) EXCEPT !.badge = badge],
                       Entry(3, "PGD", 1) >>),
       Thread_(1, <<15>>, <<14>>, affinity, 2),
       Obj("Endpoint", <<>>), ExternObj("Notification", 3), Obj("VCPU", <<>>),
       Thread_(2, <<>>, <<>>, 0, 0) >>

Base == Model(0, 1, 1, 0, FALSE, 5, "r", 1)

Faulty ==
    { [Base EXCEPT ![6].entries[2].obj = 7],            \* a table in two places
      [Base EXCEPT ![3].extern = TRUE],                 \* a table that is an extern
      [Base EXCEPT ![3].entries[1].obj = 7],            \* a table of another kind
      [Base EXCEPT ![11].entries[1].type = "SmallPage"],    \* an unsupported capability
      [Base EXCEPT ![11].entries[2].badge = 1],         \* a second badge
      [Base EXCEPT ![12].affinity = 2],                 \* no such node
      [Base EXCEPT ![12].gprs = 3],                     \* too many registers
      [Base EXCEPT ![16].bound = <<14>>] }              \* a notification bound twice

MCModels ==
    {Model(a, b, c, d, cached, badge, rights, affinity) :
        a, b, c, d \in 0 .. 1, cached \in BOOLEAN, badge \in {0, 5}, rights \in {"r", "all"}, affinity \in 0 .. 1}
    \cup Faulty

VARIABLES
    part,           \* "memory", "objects" or "transfer"
    model, todo, kernel, copies, cores, result,
    spec, steps, region, partial_spec, partial_realm, realm, down, killed

S == INSTANCE SubsystemObjects WITH Models <- MCModels, Radix <- 2, NumNodes <- 2

(* Transfer: up to two objects with up to two fill entries each, and a     *)
(* specification of up to three chunks.                                    *)
B == INSTANCE BulkTransfer WITH
        ChunkSize <- 4, SpecSize <- {1, 4, 9}, FillSize <- {0, 1, 3}, MaxObject <- 2, MaxFill <- 2

ASSUME S!RadixAssumption /\ B!ChunkAssumption

objects == <<model, todo, kernel, copies, cores, result>>
transfer == <<spec, steps, region, partial_spec, partial_realm, realm, down, killed>>
allVars == <<part, realizerVars, objects, transfer>>

SumInit ==
    /\ part \in {"memory", "objects", "transfer"}
    /\ part = "memory" \/ refused = {}
    /\ part = "objects" \/ model = Base
    /\ part = "transfer" \/ spec = [size |-> 1, objects |-> <<>>]
    /\ RealizerInit /\ S!Init /\ B!Init
SumNext ==
    \/ part = "memory" /\ RealizerNext /\ UNCHANGED <<part, objects, transfer>>
    \/ part = "objects" /\ S!Next /\ UNCHANGED <<part, realizerVars, transfer>>
    \/ part = "transfer" /\ B!Next /\ UNCHANGED <<part, realizerVars, objects>>
SumSpec == SumInit /\ [][SumNext]_allVars

(* The properties of SubsystemObjects and BulkTransfer: objects are set up *)
(* as modelled, and a realm that can be run was filled as specified.       *)
RealizedAsModelled == S!RealizedAsModelled
RealmIsFilled == B!RealmIsFilled
=============================================================================
