------------------------------ MODULE Realizer ------------------------------
(***************************************************************************)
(* The realizer of the resource server and its allocator: how the kernel   *)
(* objects of a realm are cut out of untyped memory, and given back.       *)
(*                                                                         *)
(* The allocator keeps a binary tree of untyped blocks (the capability     *)
(* derivation tree), an index of the blocks that are free (leaf_nodes) and *)
(* the slots of its own CNode (the CRegion).  The kernel has its own idea  *)
(* of all three: which slots hold which capabilities and how much room an  *)
(* untyped has.  The model keeps both, because every call of the allocator *)
(* on the kernel is unwrapped: they must agree.                            *)
(*                                                                         *)
(* An operation runs under the resource server's mutex, so it is one step. *)
(* What it does to the allocator is a function on records "a"; a failed    *)
(* assertion or unwrap sets a.panic, and a panic leaves the mutex locked.  *)
(* An error (Err) ends only the thread that serves the calling node.       *)
(* Sizes are exponents, as in the code, and scaled: the code's root has    *)
(* 64 size bits, its slots 5.                                              *)
(***************************************************************************)
EXTENDS Integers, Sequences, FiniteSetsExt, TLC

CONSTANTS
    Top,            \* size_bits of the root of the tree
    BuiltIn,        \* sequence of the untyped blocks given to add_untyped()
    NumSlots,       \* slots of the allocator's CNode
    SlotBits,       \* size_bits of one slot of a CNode
    Node,           \* host nodes; a thread of the resource server serves each
    Realm,
    Objects,        \* Objects[r]: sequence of the size_bits of the model's objects
    Frames,         \* Frames[r]: number of frame mappings in the page tables
    Refusals,       \* sets of realms whose model initialize() may refuse
    ExternsOf,      \* ExternsOf[r]: the extern objects that the model names
    None

Nothing == [kind |-> "nothing"]
Id == [paddr : 0 .. 2^Top - 1, size_bits : 0 .. Top]
Slot == 0 .. NumSlots - 1
Extern == UNION {ExternsOf[r] : r \in Realm}

Left(id) == [paddr |-> id.paddr, size_bits |-> id.size_bits - 1]
Right(id) == [paddr |-> id.paddr + 2^(id.size_bits - 1), size_bits |-> id.size_bits - 1]
Within(id, outer) ==
    /\ outer.paddr <= id.paddr
    /\ id.paddr + 2^id.size_bits <= outer.paddr + 2^outer.size_bits
Disjoint(i, j) == ~Within(i, j) /\ ~Within(j, i)

(* build() overwrites whatever its path meets: disjointness is left to the *)
(* caller, and so is the alignment of a block to its size.                 *)
ASSUME BuiltInAssumption ==
    /\ BuiltIn \in Seq(Id)
    /\ \A i \in DOMAIN BuiltIn : BuiltIn[i].paddr % 2^BuiltIn[i].size_bits = 0
    /\ \A i, j \in DOMAIN BuiltIn : i # j => Disjoint(BuiltIn[i], BuiltIn[j])
    /\ \A i \in DOMAIN BuiltIn : BuiltIn[i].size_bits < Top

VARIABLES
    refused,        \* realms whose model initialize() refuses
    alloc,          \* the allocator, and the kernel objects behind it
    subsystem,      \* subsystem[r]: what the resource server holds of realm r
    externs,        \* Realizer.externs
    window,         \* realm whose frame is mapped at the realizer's fill address
    serving,        \* nodes whose thread has not ended with an error
    lost            \* auxiliary: subsystems dropped by a failed realize_finish()

realizerVars == <<refused, alloc, subsystem, externs, window, serving, lost>>

(* Loops over a list: op(op(op(a, s[1]), s[2]), ...).                      *)
Fold(op(_, _), a, s) ==
    MapThenFoldSet(LAMBDA x, b : op(b, x), a, LAMBDA k : s[k], Max, DOMAIN s)

Absent == [state |-> "absent", cnode |-> None, slot |-> None, objects |-> <<>>, externs |-> {}]

----------------------------------------------------------------------------
(* CRegion and Set: withdraw(1) takes the lowest unused slot.              *)
HasSlot(a) == Slot \ a.used # {}
NextSlot(a) == Min(Slot \ a.used)
Panic(a, why) == [a EXCEPT !.panic = why]
Running(a) == a.panic = "no"

free(a, slot) ==
    IF slot \in a.used THEN [a EXCEPT !.used = @ \ {slot}] ELSE Panic(a, "free")

(* LeafNodes: blocks by size, last in first out.  A key of the map is      *)
(* absent when its list is empty.                                          *)
add_leaf(a, id) == [a EXCEPT !.leaf_nodes[id.size_bits] = Append(@, id.paddr)]

(* A block that is not in a list that is there is silently not removed.    *)
remove_leaf(a, id) ==
    LET leaves == a.leaf_nodes[id.size_bits]
        found == {k \in DOMAIN leaves : leaves[k] = id.paddr}
        before == SubSeq(leaves, 1, Min(found) - 1)
        after == SubSeq(leaves, Min(found) + 1, Len(leaves))
    IN  IF leaves = <<>> THEN Panic(a, "remove_leaf")
        ELSE IF found = {} THEN a
        ELSE [a EXCEPT !.leaf_nodes[id.size_bits] = before \o after]

LeafSizes(a, size_bits) == {k \in size_bits .. Top : a.leaf_nodes[k] # <<>>}
LeafOf(a, size_bits) ==
    LET k == Min(LeafSizes(a, size_bits))
        leaves == a.leaf_nodes[k]
    IN  [paddr |-> leaves[Len(leaves)], size_bits |-> k]

consumable_space(a) ==
    SumFunction([k \in 0 .. Top |-> 2^k * Len(a.leaf_nodes[k])])

(* Node: accessible nodes are the ones in a.tree, built in or managed; the *)
(* inaccessible ones are on the way to them.                               *)
is_accessible(a, id) == id \in DOMAIN a.tree
is_managed(a, id) == is_accessible(a, id) /\ a.tree[id].slot # None
get_slot(a, id) == IF is_managed(a, id) THEN a.tree[id].slot ELSE None
is_consumed(a, id) == is_accessible(a, id) /\ a.tree[id].consumed = 1
set_consumed(a, id, consumed) ==
    IF is_accessible(a, id) THEN [a EXCEPT !.tree[id].consumed = consumed] ELSE Panic(a, "inaccessible")
HasChild(a, id) == id.size_bits > 0 /\ (Left(id) \in DOMAIN a.tree \/ Right(id) \in DOMAIN a.tree)
Deletable(a, id) == is_accessible(a, id) /\ ~is_consumed(a, id) /\ ~HasChild(a, id)

(* Node::get_node_mut(): down from the root by halves of the address       *)
(* range.  None when the path ends before the block.                       *)
get_node(a, id) ==
    LET exists(n) == \E t \in DOMAIN a.tree : Within(t, n)
        down(n, k) ==
            LET low_addr == n.paddr
                high_addr == low_addr + 2^n.size_bits - 1
                half_addr == low_addr + (high_addr - low_addr) \div 2 + 1
                child == [paddr |-> IF id.paddr < half_addr THEN low_addr ELSE half_addr,
                          size_bits |-> n.size_bits - 1]
            IN  IF n = None \/ ~exists(child) THEN None ELSE child
    IN  Fold(down, [paddr |-> 0, size_bits |-> Top], [i \in 1 .. Top - id.size_bits |-> i])

----------------------------------------------------------------------------
(* The kernel.  Retype needs an empty destination and room in the untyped, *)
(* which is handed out once and comes back when the untyped is revoked.    *)
(* Revoke deletes every capability derived from the untyped.               *)
CanRetype(a, id, size_bits) == id \in DOMAIN a.room /\ a.room[id] >= 2^size_bits
TakeRoom(a, id, size_bits) == [a EXCEPT !.room[id] = @ - 2^size_bits]

PutUntyped(a, id, slot) ==
    [a EXCEPT !.cap[slot] = [kind |-> "untyped", id |-> id],
              !.room = (id :> 2^id.size_bits) @@ @]

Revoked(a, id) ==
    LET dead(c) == /\ c.kind # "nothing"
                   /\ Within(c.id, id) /\ (c.kind = "cnode" \/ c.id # id)
        kept == {i \in DOMAIN a.room : ~Within(i, id)}
    IN  [a EXCEPT !.cap = [s \in Slot |-> IF dead(a.cap[s]) THEN Nothing ELSE a.cap[s]],
                  !.room = (id :> 2^id.size_bits) @@ Restrict(a.room, kept)]

----------------------------------------------------------------------------
(* split_untyped(): two retypes of half the size into two new slots.       *)
split_untyped(a, id) ==
    LET s1 == NextSlot(a)
        a1 == [a EXCEPT !.used = @ \cup {s1}]
        s2 == NextSlot(a1)
        a2 == [a1 EXCEPT !.used = @ \cup {s2}]
        half == id.size_bits - 1
        taken == TakeRoom(TakeRoom(a2, id, half), id, half)
        put == PutUntyped(PutUntyped(taken, Left(id), s1), Right(id), s2)
        child(slot) == [consumed |-> 0, slot |-> slot]
        grown == [put EXCEPT !.tree = @ @@ (Left(id) :> child(s1)) @@ (Right(id) :> child(s2))]
    IN  IF ~HasSlot(a) \/ ~HasSlot(a1) THEN Panic(a, "slots")
        ELSE IF get_node(a, id) # id THEN Panic(a, "node")
        ELSE IF is_consumed(a, id) THEN Panic(a, "consumed")
        ELSE IF a.cap[s1] # Nothing \/ a.cap[s2] # Nothing \/ ~CanRetype(a, id, half + 1)
             THEN Panic(a, "retype")
        ELSE add_leaf(add_leaf(grown, Left(id)), Right(id))

(* The block that create_object() retypes: the smallest free block that is *)
(* large enough, halved until it fits; the right half is the one split on. *)
Descend(a, id, size_bits) ==
    LET step(b, k) ==
            IF ~Running(b) THEN b
            ELSE LET c == split_untyped(b, b.at)
                 IN  IF Running(c) THEN [remove_leaf(c, Right(b.at)) EXCEPT !.at = Right(b.at)]
                     ELSE c
    IN  Fold(step, [a EXCEPT !.at = id], [i \in 1 .. id.size_bits - size_bits |-> i])

(* create_object(): a.at is the UntypedId it returns.  The object goes     *)
(* into "slot" of the allocator's CNode; slot is None for an object that   *)
(* goes into the realm's own CNode.                                        *)
Retype(b, size_bits, slot) ==
    LET used == set_consumed(TakeRoom(b, b.at, size_bits), b.at, 1)
    IN  IF ~Running(b) THEN b
        ELSE IF get_node(b, b.at) # b.at THEN Panic(b, "node")
        ELSE IF ~CanRetype(b, b.at, size_bits) THEN Panic(b, "retype")
        ELSE IF slot = None THEN used
        ELSE IF b.cap[slot] # Nothing THEN Panic(b, "retype")
        ELSE [used EXCEPT !.cap[slot] = [kind |-> "cnode", id |-> b.at]]

create_object(a, size_bits, slot) ==
    IF ~Running(a) THEN a
    ELSE IF LeafSizes(a, size_bits) = {} THEN Panic(a, "space")
    ELSE LET id == LeafOf(a, size_bits)
             popped == [a EXCEPT !.leaf_nodes[id.size_bits] = SubSeq(@, 1, Len(@) - 1)]
         IN  Retype(Descend(popped, id, size_bits), size_bits, slot)

(* create_cnode(): the CNode is made in a temporary slot and moved to the  *)
(* realm's slot with its guard.  The temporary slot is freed.              *)
MoveCNode(b, realm_slot, temp_slot) ==
    LET moved == [b EXCEPT !.cap[realm_slot] = b.cap[temp_slot], !.cap[temp_slot] = Nothing]
    IN  IF ~Running(b) THEN b
        ELSE IF b.cap[realm_slot] # Nothing THEN Panic(b, "retype")
        ELSE free(moved, temp_slot)

create_cnode(a, size_bits) ==
    LET realm_slot == NextSlot(a)
        a1 == [a EXCEPT !.used = @ \cup {realm_slot}]
        temp_slot == NextSlot(a1)
        a2 == [a1 EXCEPT !.used = @ \cup {temp_slot}]
    IN  IF ~HasSlot(a) \/ ~HasSlot(a1) THEN Panic(a, "slots")
        ELSE MoveCNode(create_object(a2, size_bits, temp_slot), realm_slot, temp_slot)

----------------------------------------------------------------------------
(* Mutant: the halves are not revoked when their parent replaces them.     *)
Mut_Coalesce(a, id) ==
    LET bare == [a EXCEPT !.tree = Restrict(@, DOMAIN @ \ {Left(id), Right(id)})]
        freed == free(free(bare, get_slot(a, Left(id))), get_slot(a, Right(id)))
        unlisted == remove_leaf(remove_leaf(freed, Left(id)), Right(id))
    IN  IF Running(unlisted) THEN add_leaf(unlisted, id) ELSE unlisted
(* Mutant: the halves stay listed.                                         *)
Mut_Coalesce_listed(a, id) ==
    LET bare == [a EXCEPT !.tree = Restrict(@, DOMAIN @ \ {Left(id), Right(id)})]
        freed == free(free(bare, get_slot(a, Left(id))), get_slot(a, Right(id)))
    IN  IF Running(freed) THEN add_leaf(Revoked(freed, id), id) ELSE freed
(* revoke_and_free(): the block is free again; on the way up, an           *)
(* accessible block whose two halves are free takes their place.           *)
Coalesce(a, id) ==
    LET bare == [a EXCEPT !.tree = Restrict(@, DOMAIN @ \ {Left(id), Right(id)})]
        freed == free(free(bare, get_slot(a, Left(id))), get_slot(a, Right(id)))
        unlisted == remove_leaf(remove_leaf(freed, Left(id)), Right(id))
    IN  IF Running(unlisted) THEN add_leaf(Revoked(unlisted, id), id) ELSE unlisted

Ancestor(id, k) == [paddr |-> id.paddr - (id.paddr % 2^k), size_bits |-> k]

revoke_and_free(a, id) ==
    LET asserted == is_accessible(a, id) /\ is_consumed(a, id) /\ ~HasChild(a, id)
        freed == add_leaf(set_consumed(Revoked(a, id), id, 0), id)
        up(b, k) ==
            LET p == Ancestor(id, k)
            IN  IF /\ Running(b) /\ is_accessible(b, p)
                   /\ Deletable(b, Left(p)) /\ Deletable(b, Right(p))
                THEN Coalesce(b, p) ELSE b
    IN  IF ~Running(a) THEN a
        ELSE IF ~asserted THEN Panic(a, "revoke")
        ELSE Fold(up, freed, [i \in 1 .. Top - id.size_bits |-> id.size_bits + i])

----------------------------------------------------------------------------
(* The slots the realm's CNode must hold, and what its CNode can hold.     *)
SlotsNeeded(r) == Len(Objects[r]) + Frames[r]
size_bits_to_contain(x) == Min({b \in 0 .. Top : x < 2^b})
CNodeRadix(r) == size_bits_to_contain(SlotsNeeded(r))
CNodeBits(r) == CNodeRadix(r) + SlotBits

(* ModelView sorts the local objects by size.                              *)
local_objects(r) == SortSeq(Objects[r], <)

peek_space(a, r) ==
    consumable_space(a) >= 2^CNodeBits(r) + Fold(LAMBDA n, k : n + 2^k, 0, Objects[r])

(* a.made: the blocks made so far, the CNode's first.                      *)
Made(a) == IF Running(a) THEN [a EXCEPT !.made = Append(@, a.at)] ELSE a

create_objects(a, r) ==
    LET one(b, k) == Made(create_object(b, k, None))
    IN  IF Running(a) /\ Len(Objects[r]) > 2^CNodeRadix(r) THEN Panic(a, "realm_slots")
        ELSE Fold(one, a, local_objects(r))

(* A thread that has not ended, and the mutex that no panic has locked.    *)
Serves(n) == n \in serving /\ Running(alloc)

(* What realize_start() leaves: the allocator, and the partial subsystem.  *)
Realized(r, a) ==
    /\ alloc' = [a EXCEPT !.at = None, !.made = <<>>]
    /\ \/ ~Running(a) /\ UNCHANGED subsystem
       \/ /\ Running(a)
          /\ subsystem' = [subsystem EXCEPT ![r] =
                 [state |-> "partial", cnode |-> Head(a.made), slot |-> NextSlot(alloc),
                  objects |-> Tail(a.made), externs |-> {}]]

(* realize_start(): Err when there is not enough space in total.           *)
realize_start(n, r) ==
    /\ Serves(n)
    /\ subsystem[r] = Absent
    /\ UNCHANGED <<externs, window, lost>>
    /\ \/ /\ ~peek_space(alloc, r)
          /\ serving' = serving \ {n}
          /\ UNCHANGED <<alloc, subsystem>>
       \/ /\ peek_space(alloc, r)
          /\ UNCHANGED serving
          /\ Realized(r, create_objects(Made(create_cnode(alloc, CNodeBits(r))), r))

(* realize_continue(): fill_frame() maps the frame at a fixed address,     *)
(* copies the content, compares its digest and unmaps the frame.  A frame  *)
(* whose content has another digest stays mapped; whether the kernel lets  *)
(* another frame be mapped over it is the kernel's affair.                 *)
realize_continue(n, r) ==
    /\ Serves(n)
    /\ subsystem[r].state = "partial"
    /\ UNCHANGED <<alloc, subsystem, externs, lost>>
    /\ \/ window' = None /\ UNCHANGED serving
       \/ window' = r /\ serving' = serving \ {n}
       \/ window # None /\ UNCHANGED window /\ serving' = serving \ {n}

(* An extern that is not there, or a realm's CNode that is too small for   *)
(* the copies of the frame capabilities that mapping them takes.           *)
FinishPanic(r) ==
    CASE ~(ExternsOf[r] \subseteq externs) -> "extern"
      [] SlotsNeeded(r) > 2^CNodeRadix(r) -> "realm_slots"
      [] OTHER -> "no"

(* realize_finish(): the externs leave the realizer before initialize(),   *)
(* whose error drops the partial subsystem and the externs.                *)
realize_finish(n, r) ==
    /\ Serves(n)
    /\ subsystem[r].state = "partial"
    /\ UNCHANGED window
    /\ \/ /\ FinishPanic(r) # "no"
          /\ alloc' = Panic(alloc, FinishPanic(r))
          /\ UNCHANGED <<subsystem, externs, serving, lost>>
       \/ /\ FinishPanic(r) = "no"
          /\ externs' = externs \ ExternsOf[r]
          /\ UNCHANGED alloc
          /\ LET s == [subsystem[r] EXCEPT !.state = "live", !.externs = ExternsOf[r]]
             IN  IF r \in refused
                 THEN /\ subsystem' = [subsystem EXCEPT ![r] = Absent]
                      /\ serving' = serving \ {n}
                      /\ lost' = lost \cup {s}
                 ELSE /\ subsystem' = [subsystem EXCEPT ![r] = s]
                      /\ UNCHANGED <<serving, lost>>

(* Mutant: the externs are not given back.                                 *)
Mut_destroy(n, r) ==
    /\ Serves(n)
    /\ subsystem[r].state = "live"
    /\ alloc' = Fold(revoke_and_free, revoke_and_free(alloc, subsystem[r].cnode),
                     subsystem[r].objects)
    /\ subsystem' = [subsystem EXCEPT ![r] = Absent]
    /\ UNCHANGED <<externs, window, serving, lost>>

(* destroy(): first the CNode, which the kernel empties, then each object. *)
(* A frame that was left mapped is unmapped when its capability goes.      *)
destroy(n, r) ==
    /\ Serves(n)
    /\ subsystem[r].state = "live"
    /\ alloc' = Fold(revoke_and_free, revoke_and_free(alloc, subsystem[r].cnode),
                     subsystem[r].objects)
    /\ externs' = externs \cup subsystem[r].externs
    /\ subsystem' = [subsystem EXCEPT ![r] = Absent]
    /\ window' = IF window = r THEN None ELSE window
    /\ UNCHANGED <<serving, lost>>

RealizerInit ==
    /\ refused \in Refusals
    /\ alloc = [tree |-> [id \in Range(BuiltIn) |-> [consumed |-> 0, slot |-> None]],
                leaf_nodes |-> [k \in 0 .. Top |->
                    LET ofSize == SelectSeq(BuiltIn, LAMBDA id : id.size_bits = k)
                    IN  [i \in DOMAIN ofSize |-> ofSize[i].paddr]],
                used |-> {}, cap |-> [s \in Slot |-> Nothing],
                room |-> [id \in Range(BuiltIn) |-> 2^id.size_bits],
                at |-> None, made |-> <<>>, panic |-> "no"]
    /\ subsystem = [r \in Realm |-> Absent]
    /\ externs = Extern /\ window = None /\ serving = Node /\ lost = {}

RealizerNext ==
    /\ UNCHANGED refused
    /\ \E n \in Node, r \in Realm :
          \/ realize_start(n, r) \/ realize_continue(n, r)
          \/ realize_finish(n, r) \/ destroy(n, r)

RealizerSpec == RealizerInit /\ [][RealizerNext]_realizerVars

----------------------------------------------------------------------------
Owners == {subsystem[r] : r \in {q \in Realm : subsystem[q] # Absent}} \cup lost
Blocks(s) == {s.cnode} \cup Range(s.objects)
Consumed == {id \in DOMAIN alloc.tree : is_consumed(alloc, id)}
Managed == DOMAIN alloc.tree \ Range(BuiltIn)

RealizerTypeOK ==
    /\ DOMAIN alloc.tree \subseteq Id
    /\ \A id \in DOMAIN alloc.tree :
           alloc.tree[id] \in [consumed : {0, 1}, slot : Slot \cup {None}]
    /\ \A k \in 0 .. Top : \A i \in DOMAIN alloc.leaf_nodes[k] :
           alloc.leaf_nodes[k][i] \in 0 .. 2^Top - 1
    /\ alloc.used \subseteq Slot
    /\ externs \subseteq Extern /\ window \in Realm \cup {None} /\ serving \subseteq Node

(* Memory is accounted for.  The blocks marked consumed are the blocks of  *)
(* the subsystems that exist (or were lost in realize_finish()), disjoint  *)
(* and each held once.  A block is listed in leaf_nodes exactly once if it *)
(* is a free leaf of the tree and never otherwise: get_leaf() and          *)
(* remove_leaf() trust the list, and the latter says nothing when it       *)
(* misses.  And no block is left with two free halves, so that a realm     *)
(* that goes leaves no fragments behind.                                   *)
MemoryIsAccountedFor ==
    Running(alloc) =>
        /\ Consumed = UNION {Blocks(s) : s \in Owners}
        /\ \A s \in Owners : Cardinality(Blocks(s)) = 1 + Len(s.objects)
        /\ \A i, j \in Consumed : i # j => Disjoint(i, j)
        /\ \A s, t \in Owners : s # t => Blocks(s) \cap Blocks(t) = {}
        /\ \A id \in DOMAIN alloc.tree :
               LET listed == {i \in DOMAIN alloc.leaf_nodes[id.size_bits] :
                                alloc.leaf_nodes[id.size_bits][i] = id.paddr}
               IN  /\ Cardinality(listed) = IF Deletable(alloc, id) THEN 1 ELSE 0
                   /\ HasChild(alloc, id) =>
                         ~(Deletable(alloc, Left(id)) /\ Deletable(alloc, Right(id)))
        /\ \A k \in 0 .. Top : \A i \in DOMAIN alloc.leaf_nodes[k] :
               [paddr |-> alloc.leaf_nodes[k][i], size_bits |-> k] \in DOMAIN alloc.tree

(* The allocator and the kernel agree: every block that was split off has  *)
(* a slot of its own, marked as used, in which the kernel has the          *)
(* capability to that block, and a free block has all its room; the slot   *)
(* of a realm's CNode has the capability to that CNode.  So no unwrapped   *)
(* kernel call and no assertion of the allocator fails: the only panics    *)
(* are of get_leaf(), when the free space is in pieces, of alloc(), when   *)
(* the slots run out, and of realize_finish(), when an earlier one failed  *)
(* with the externs.                                                       *)
SlotsHoldTheirCaps ==
    /\ alloc.panic \in {"no", "space", "slots"} \/ (alloc.panic = "extern" /\ lost # {})
    /\ Running(alloc) =>
        /\ \A id \in Managed :
               /\ alloc.tree[id].slot \in alloc.used
               /\ alloc.cap[alloc.tree[id].slot] = [kind |-> "untyped", id |-> id]
        /\ \A id \in DOMAIN alloc.tree : Deletable(alloc, id) => alloc.room[id] = 2^id.size_bits
        /\ \A s \in Owners : alloc.cap[s.slot] = [kind |-> "cnode", id |-> s.cnode]
        /\ \A slot \in Slot \ alloc.used : alloc.cap[slot] = Nothing

(* No extern object is given out twice: it is with the realizer or with    *)
(* one realm, and destroy() makes it available to the next.  The one       *)
(* exception is the early return of realize_finish() when initialize()     *)
(* fails: the externs of that realm are dropped with the subsystem.  So an *)
(* extern that nobody holds is one that a refused model names, and the     *)
(* thread that served that call has ended.                                 *)
Holders(e) == {r \in Realm : e \in subsystem[r].externs}

ExternHasOneHolder ==
    \A e \in Extern :
        /\ \A q, r \in Holders(e) : q = r
        /\ e \in externs => Holders(e) = {}
        /\ e \notin externs /\ Holders(e) = {} =>
              serving # Node /\ \E r \in refused : e \in ExternsOf[r]
=============================================================================
