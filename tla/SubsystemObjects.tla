-------------------------- MODULE SubsystemObjects --------------------------
(***************************************************************************)
(* Initialize::initialize(): the objects of a new subsystem are set up as  *)
(* its model says, first the address spaces, then the CNodes, then the     *)
(* threads.  The walk is a sequence of kernel calls, which the kernel may  *)
(* refuse; the first refusal ends it.  Realizer models what comes before   *)
(* and after.                                                              *)
(*                                                                         *)
(* A model is a sequence of objects.  Each has a kind, is an extern or     *)
(* local, and has entries in the order of their places, a TCB its fields.  *)
(* Tables have Radix entries (512 in the code).                            *)
(***************************************************************************)
EXTENDS Naturals, SequencesExt, FiniteSetsExt

CONSTANTS
    Models,
    Radix,
    NumNodes

(* What module MCRealm assumes of them.                                    *)
RadixAssumption == Radix \in Nat \ {0} /\ NumNodes \in Nat

VARIABLES
    model,
    todo,           \* calls that are still to be made
    kernel,         \* what they did: see Init
    copies,         \* slots of the CRegion that copy() has taken
    cores,          \* VirtualCores: the TCBs of each node
    result          \* "running", "ok", "err" or "panic"

vars == <<model, todo, kernel, copies, cores, result>>

----------------------------------------------------------------------------
IsLocal(o, kind) == ~model[o].extern /\ model[o].kind = kind

(* it_i(): the local objects of a kind, in order.                          *)
it_i(kind) == SelectSeq([k \in DOMAIN model |-> k], LAMBDA o : IsLocal(o, kind))

Concat(f(_), s) == FlattenSeq([k \in DOMAIN s |-> f(s[k])])

Call(op, obj) == [op |-> op, obj |-> obj]

(* obj(): an extern is an error, another kind a panic.                     *)
Visit(o, kind, calls) ==
    IF model[o].extern THEN <<Call("bail", o)>>
    ELSE IF model[o].kind # kind THEN <<Call("panic", o)>>
    ELSE calls

MapTable(o, pgd, level, vaddr) ==
    [op |-> "map_table", obj |-> o, pgd |-> pgd, level |-> level, vaddr |-> vaddr]

(* Mutant: the capability of the object itself is mapped.                  *)
Mut_MapFrame(e, pgd, kind, vaddr) ==
    <<[op |-> "map_frame", obj |-> e.obj, copy |-> FALSE, pgd |-> pgd, kind |-> kind, vaddr |-> vaddr,
       rights |-> e.rights, cached |-> e.cached]>>
(* A copy of the frame's capability is mapped.                             *)
MapFrame(e, pgd, kind, vaddr) ==
    <<Call("copy", e.obj),
      [op |-> "map_frame", obj |-> e.obj, copy |-> TRUE, pgd |-> pgd, kind |-> kind, vaddr |-> vaddr,
       rights |-> e.rights, cached |-> e.cached]>>

PTEntries(e, pgd, base) ==
    Visit(e.obj, "PT", <<MapTable(e.obj, pgd, 3, base)>>
        \o Concat(LAMBDA f : MapFrame(f, pgd, "SmallPage", base + f.at), model[e.obj].entries))

PDEntries(e, pgd, base) ==
    LET entry(f) == IF f.type = "LargePage" THEN MapFrame(f, pgd, "LargePage", base + f.at * Radix)
                                            ELSE PTEntries(f, pgd, base + f.at * Radix)
    IN  Visit(e.obj, "PD", <<MapTable(e.obj, pgd, 2, base)>> \o Concat(entry, model[e.obj].entries))

PUDEntries(e, pgd, base) ==
    Visit(e.obj, "PUD", <<MapTable(e.obj, pgd, 1, base)>>
        \o Concat(LAMBDA f : PDEntries(f, pgd, base + f.at * Radix^2), model[e.obj].entries))

init_vspaces ==
    Concat(LAMBDA pgd : <<Call("assign", pgd)>>
               \o Concat(LAMBDA e : PUDEntries(e, pgd, e.at * Radix^3), model[pgd].entries),
           it_i("PGD"))

(* Capabilities of the kinds that have rights or a badge in the model; the *)
(* guard of a CNode is its badge.                                          *)
HasRights == {"Endpoint", "Notification", "LargePage"}
HasBadge == {"Endpoint", "Notification", "CNode"}
Supported == {"Untyped", "Endpoint", "Notification", "CNode", "TCB", "VCPU", "PGD", "LargePage"}

PutCap(cnode, e) ==
    IF e.type \notin Supported THEN Call("bail", e.obj)
    ELSE [op |-> IF e.type \in HasBadge /\ e.badge # 0 THEN "mint" ELSE "copy_cap",
          obj |-> e.obj, cnode |-> cnode, at |-> e.at,
          rights |-> IF e.type \in HasRights THEN e.rights ELSE "all", badge |-> e.badge]

init_cspaces ==
    Concat(LAMBDA cnode : [k \in DOMAIN model[cnode].entries |-> PutCap(cnode, model[cnode].entries[k])],
           it_i("CNode"))

(* Optional fields are sequences of at most one object.  Registers come    *)
(* last, and at most two of them.                                          *)
init_tcb(tcb) ==
    LET t == model[tcb]
    IN  [k \in DOMAIN t.vcpu |-> [op |-> "set_tcb", obj |-> t.vcpu[k], tcb |-> tcb]]
        \o [k \in DOMAIN t.bound |-> [op |-> "bind", obj |-> t.bound[k], tcb |-> tcb]]
        \o <<[op |-> "configure", obj |-> tcb, cspace |-> t.cspace, vspace |-> t.vspace,
              ipc_buffer |-> t.ipc_buffer]>>
        \o <<Call("set_sched_params", tcb)>>
        \o <<IF t.gprs > 2 THEN Call("bail", tcb) ELSE Call("registers", tcb)>>

(* A TCB whose node there is not is an index out of bounds.                *)
Thread(tcb) ==
    init_tcb(tcb) \o <<IF model[tcb].affinity < NumNodes THEN Call("push", tcb) ELSE Call("panic", tcb)>>

initialize == init_vspaces \o init_cspaces \o Concat(Thread, it_i("TCB"))

(* The slots that realize_start() made room for.                           *)
NumFrameMappings ==
    LET frames(o) ==
            CASE IsLocal(o, "PT") -> Len(model[o].entries)
              [] IsLocal(o, "PD") -> Len(SelectSeq(model[o].entries, LAMBDA e : e.type = "LargePage"))
              [] OTHER -> 0
    IN  MapThenSumSet(frames, DOMAIN model)

----------------------------------------------------------------------------
(* The kernel: which calls it accepts, and what they do.  An address space *)
(* needs an ASID before it is used, a table its parent, and a place is     *)
(* mapped once; so is each capability.  A badge is given once.             *)
Covers(pgd, level, vaddr) ==
    \E t \in kernel.tables :
        t.pgd = pgd /\ t.level = level /\ t.vaddr = vaddr - (vaddr % Radix^(4 - level))

Accepts(c) ==
    CASE c.op = "assign" -> c.obj \notin kernel.asid
      [] c.op = "map_table" ->
            /\ c.pgd \in kernel.asid
            /\ c.level = 1 \/ Covers(c.pgd, c.level - 1, c.vaddr)
            /\ ~Covers(c.pgd, c.level, c.vaddr)
            /\ \A t \in kernel.tables : t.obj # c.obj
            /\ \A f \in kernel.frames : f.pgd = c.pgd /\ f.kind = "LargePage" => f.vaddr # c.vaddr
      [] c.op = "map_frame" ->
            /\ c.pgd \in kernel.asid /\ model[c.obj].kind = c.kind
            /\ Covers(c.pgd, IF c.kind = "SmallPage" THEN 3 ELSE 2, c.vaddr)
            /\ c.kind = "LargePage" => ~Covers(c.pgd, 3, c.vaddr)
            /\ \A f \in kernel.frames : /\ f.pgd = c.pgd => f.vaddr # c.vaddr
                                        /\ ~f.copy /\ ~c.copy => f.obj # c.obj
      [] c.op \in {"copy_cap", "mint"} ->
            /\ \A s \in kernel.slots : s.cnode = c.cnode => s.at # c.at
            /\ c.op = "mint" => model[c.obj].own = 0
      [] c.op = "set_tcb" -> model[c.obj].kind = "VCPU"
      [] c.op = "bind" -> \A b \in kernel.bound : b.ntfn # c.obj /\ b.tcb # c.tcb
      [] c.op = "configure" -> model[c.cspace].kind = "CNode" /\ c.vspace \in kernel.asid
      [] OTHER -> TRUE

Effect(c) ==
    CASE c.op = "assign" -> [kernel EXCEPT !.asid = @ \cup {c.obj}]
      [] c.op = "map_table" -> [kernel EXCEPT !.tables = @ \cup {c}]
      [] c.op = "map_frame" -> [kernel EXCEPT !.frames = @ \cup {c}]
      [] c.op \in {"copy_cap", "mint"} ->
            [kernel EXCEPT !.slots = @ \cup
                {[cnode |-> c.cnode, at |-> c.at, obj |-> c.obj, rights |-> c.rights,
                  badge |-> IF c.op = "mint" THEN c.badge ELSE model[c.obj].own]}]
      [] c.op = "set_tcb" -> [kernel EXCEPT !.vcpus = @ \cup {[vcpu |-> c.obj, tcb |-> c.tcb]}]
      [] c.op = "bind" -> [kernel EXCEPT !.bound = @ \cup {[ntfn |-> c.obj, tcb |-> c.tcb]}]
      [] c.op = "configure" -> [kernel EXCEPT !.threads = @ \cup {c}]
      [] OTHER -> kernel

----------------------------------------------------------------------------
Init ==
    /\ model \in Models
    /\ todo = initialize /\ copies = 0 /\ result = "running"
    /\ kernel = [asid |-> {}, tables |-> {}, frames |-> {}, slots |-> {},
                 vcpus |-> {}, bound |-> {}, threads |-> {}]
    /\ cores = [n \in 0 .. NumNodes - 1 |-> <<>>]

Running == result = "running" /\ todo # <<>>
Current == Head(todo)

(* A call that the kernel accepts; copy() takes a slot, too.               *)
Accepted ==
    /\ Running /\ Current.op \notin {"bail", "panic", "push"} /\ Accepts(Current)
    /\ kernel' = Effect(Current)
    /\ copies' = copies + (IF Current.op = "copy" THEN 1 ELSE 0)
    /\ todo' = Tail(todo)
    /\ UNCHANGED <<model, cores, result>>

Push ==
    /\ Running /\ Current.op = "push"
    /\ cores' = [cores EXCEPT ![model[Current.obj].affinity] = Append(@, Current.obj)]
    /\ todo' = Tail(todo)
    /\ UNCHANGED <<model, kernel, copies, result>>

Failed ==
    /\ Running
    /\ \/ Current.op = "bail" /\ result' = "err"
       \/ Current.op = "panic" /\ result' = "panic"
       \/ Current.op \notin {"bail", "panic", "push"} /\ ~Accepts(Current) /\ result' = "err"
    /\ UNCHANGED <<model, todo, kernel, copies, cores>>

Succeeded ==
    /\ result = "running" /\ todo = <<>>
    /\ result' = "ok"
    /\ UNCHANGED <<model, todo, kernel, copies, cores>>

Next == Accepted \/ Push \/ Failed \/ Succeeded

Spec == Init /\ [][Next]_vars

----------------------------------------------------------------------------
(* Addresses stay within an address space, and what is mapped is known.    *)
TypeOK ==
    /\ \A f \in kernel.frames \cup kernel.tables : f.vaddr < Radix^4 /\ f.obj \in DOMAIN model
    /\ copies \in Nat /\ result \in {"running", "ok", "err", "panic"}

(* What a model must have for a subsystem to come out of it.               *)
Entries(kind) == UNION {{[in |-> o, e |-> model[o].entries[k]] : k \in DOMAIN model[o].entries} :
                          o \in {o \in DOMAIN model : IsLocal(o, kind)}}
TCBs == {o \in DOMAIN model : IsLocal(o, "TCB")}

WellFormed ==
    /\ \A x \in Entries("PGD") : IsLocal(x.e.obj, "PUD")
    /\ \A x \in Entries("PUD") : IsLocal(x.e.obj, "PD")
    /\ \A x \in Entries("PD") : x.e.type = "LargePage" \/ IsLocal(x.e.obj, "PT")
    /\ LET tables == UNION {Entries(kind) : kind \in {"PGD", "PUD", "PD"}}
       IN  \A x, y \in tables : x.e.obj = y.e.obj /\ x # y => x.e.type = "LargePage"
    /\ \A x \in Entries("CNode") : /\ x.e.type \in Supported
                                   /\ model[x.e.obj].own # 0 => x.e.badge = 0
    /\ \A o \in TCBs : model[o].gprs <= 2 /\ model[o].affinity < NumNodes
    /\ \A o, p \in TCBs : model[o].bound = model[p].bound => o = p \/ model[o].bound = <<>>

(* The frames mapped are those of the model, each at the address of its    *)
(* path through the tables, with its rights and attributes.                *)
MappedAsModelled ==
    LET at(f, v, kind) == [pgd |-> v.pgd, vaddr |-> v.vaddr + f.e.at * (IF kind = "SmallPage" THEN 1 ELSE Radix),
                           kind |-> kind, obj |-> f.e.obj, rights |-> f.e.rights, cached |-> f.e.cached]
        pds == {[pgd |-> x.in, table |-> y.e.obj, vaddr |-> x.e.at * Radix^3 + y.e.at * Radix^2] :
                    <<x, y>> \in {p \in Entries("PGD") \X Entries("PUD") : p[1].e.obj = p[2].in}}
        under(v, kind) == {z \in Entries("PD") : z.in = v.table /\ z.e.type = kind}
        large == UNION {{at(z, v, "LargePage") : z \in under(v, "LargePage")} : v \in pds}
        pts == UNION {{[pgd |-> v.pgd, table |-> z.e.obj, vaddr |-> v.vaddr + z.e.at * Radix] :
                          z \in under(v, "PT")} : v \in pds}
        small == UNION {{at(z, v, "SmallPage") : z \in {z \in Entries("PT") : z.in = v.table}} : v \in pts}
    IN  {[pgd |-> f.pgd, vaddr |-> f.vaddr, kind |-> f.kind, obj |-> f.obj, rights |-> f.rights,
          cached |-> f.cached] : f \in kernel.frames} = large \cup small

(* Every place of a CNode holds the modelled object, with no more rights   *)
(* than modelled; a badge of 0 leaves the extern's.                        *)
CapsAsModelled ==
    /\ Cardinality(kernel.slots) = Cardinality(Entries("CNode"))
    /\ \A x \in Entries("CNode") : \E s \in kernel.slots :
           /\ s.cnode = x.in /\ s.at = x.e.at /\ s.obj = x.e.obj
           /\ s.rights = (IF x.e.type \in HasRights THEN x.e.rights ELSE "all")
           /\ x.e.type \in HasBadge => s.badge = (IF x.e.badge = 0 THEN model[x.e.obj].own ELSE x.e.badge)

(* Every thread has its spaces and is on its node, once.                   *)
ThreadsAsModelled ==
    /\ \A o \in TCBs : \E t \in kernel.threads :
           t.obj = o /\ t.cspace = model[o].cspace /\ t.vspace = model[o].vspace
    /\ \A n \in DOMAIN cores : /\ ToSet(cores[n]) = {o \in TCBs : model[o].affinity = n}
                               /\ IsInjective(cores[n])

(* The kernel accepts every call for a well-formed model: calls come in an *)
(* order that gives each what it needs, and a frame that is mapped several *)
(* times is mapped through copies of its capability.  When initialize()    *)
(* succeeds, mappings, capabilities and threads are as modelled.  copy()   *)
(* takes no more slots than realize_start() counted, so its unwrap() does  *)
(* not panic; whatever becomes of the walk.                                *)
RealizedAsModelled ==
    /\ WellFormed => result \in {"running", "ok"}
    /\ result = "ok" => MappedAsModelled /\ CapsAsModelled /\ ThreadsAsModelled
    /\ copies <= NumFrameMappings
=============================================================================
