-------------------------------- MODULE GIC --------------------------------
(***************************************************************************)
(* The virtual interrupt controller of a virtual machine monitor (VMM):    *)
(* the GIC distributor that the guest programs, the list registers (LRs)   *)
(* through which interrupts reach a virtual CPU, and the loop of a VMM     *)
(* node that feeds them.                                                   *)
(*                                                                         *)
(* The GIC keeps a mirror of the LRs of each virtual CPU and a queue of    *)
(* interrupts that found no LR free.  An interrupt ends when the guest     *)
(* ends it in its LR; the kernel then sends a maintenance fault, and only  *)
(* that fault tells the VMM.  Faults of a virtual CPU and events for its   *)
(* node reach the node's thread in either order.  The handlers run under   *)
(* the GIC's mutex (module Mutex); a register write that has interrupts to *)
(* acknowledge and to inject does so in steps, between which the guests go *)
(* on.                                                                     *)
(*                                                                         *)
(* A cell is an interrupt as a node sees it: SGIs and PPIs are banked, an  *)
(* SPI is one for all nodes.  A 32-bit register is the set of the cells    *)
(* whose bit is 1.  Priorities, groups and trigger configurations are      *)
(* stored and handed on but decide nothing, and are left out.              *)
(***************************************************************************)
EXTENDS Naturals, Sequences, FiniteSetsExt

CONSTANT
    VM              \* virtual machines to consider

VARIABLES
    vm,             \* the virtual machine: see VMAssumption
    on,             \* nodes whose thread runs
    control,        \* GICD_CTLR
    enable,         \* cells whose enable bit is 1
    pending,        \* cells whose pending bit is 1
    active,         \* cells whose active bit is 1
    targets,        \* targets[i]: the nodes that SPI i is sent to
    sgi_pending,    \* <<SGI, source, target>> whose bit in sgi_pending is 1
    mirror,         \* mirror[n][k]: what the GIC believes LR k of n holds
    overflow,       \* overflow[n]: the interrupts that wait for an LR of n
    lr,             \* lr[n][k]: what LR k of n holds
    ended,          \* ended[n]: the LR of the maintenance fault n waits in, or None
    masked,         \* cells masked at their source until they are acknowledged
    caller,         \* the node that is inside handle_write(), or None
    toAck,          \* what it has to acknowledge: pairs of interrupt and node
    toInject        \* what it has to inject afterwards

Node == 0 .. vm.nodes - 1
LR == 0 .. vm.lrs - 1
SGI == {i \in vm.irqs : i < 16}
PPI == {i \in vm.irqs : 16 <= i /\ i < 32}
SPI == {i \in vm.irqs : 32 <= i}
IRQ == vm.irqs
None == 1023        \* the number that stands for no interrupt

(* A virtual machine has nodes, list registers (NUM_LRS), interrupts in    *)
(* use, PPIs of the virtual CPU itself (not in irq_map.ppi), SPIs that the *)
(* event server masks until End (must_ack), a node that receives the       *)
(* events of SPIs, and a guest that writes to some of the registers.       *)
ASSUME VMAssumption ==
    \A v \in VM :
        /\ v.nodes \in 1 .. 8 /\ v.lrs \in 1 .. 64 /\ v.spi_node \in 0 .. v.nodes - 1
        /\ v.irqs \subseteq 0 .. 1019
        /\ v.vppi \subseteq v.irqs \cap 16 .. 31 /\ v.must_ack \subseteq v.irqs \cap 32 .. 1019
AnyNode == UNION {0 .. v.nodes - 1 : v \in VM}
AnyLR == UNION {0 .. v.lrs - 1 : v \in VM}

dist == <<control, enable, targets>>
state == <<pending, active, sgi_pending>>
lrs == <<mirror, overflow, lr>>
work == <<caller, toAck, toInject>>
vars == <<vm, on, dist, state, lrs, ended, masked, work>>

Cell(i, n) == <<i, IF i \in SPI THEN 0 ELSE n>>
Cells == {Cell(i, n) : i \in IRQ, n \in Node}

TypeOK ==
    /\ vm \in VM
    /\ on \subseteq Node /\ control \in {0, 1}
    /\ enable \subseteq Cells /\ pending \subseteq Cells /\ active \subseteq Cells
    /\ targets \in [SPI -> SUBSET Node]
    /\ sgi_pending \subseteq SGI \X Node \X Node
    /\ mirror \in [Node -> [LR -> IRQ \cup {None}]]
    /\ lr \in [Node -> [LR -> IRQ \cup {None}]]
    /\ overflow \in [Node -> Seq(IRQ)]
    /\ ended \in [Node -> LR \cup {None}]
    /\ masked \subseteq Cells
    /\ caller \in Node \cup {None}
    /\ toAck \subseteq IRQ \X Node /\ toInject \subseteq IRQ \X Node
    /\ caller = None => toAck = {} /\ toInject = {}

(* reset(): the SGIs are enabled, the SPIs go to the first node.           *)
Init ==
    /\ vm \in VM
    /\ on = {0} /\ control = 0
    /\ enable = {Cell(i, n) : i \in SGI, n \in Node}
    /\ pending = {} /\ active = {} /\ sgi_pending = {}
    /\ targets = [i \in SPI |-> {0}]
    /\ mirror = [n \in Node |-> [k \in LR |-> None]]
    /\ lr = [n \in Node |-> [k \in LR |-> None]]
    /\ overflow = [n \in Node |-> <<>>]
    /\ ended = [n \in Node |-> None]
    /\ masked = {}
    /\ caller = None /\ toAck = {} /\ toInject = {}

----------------------------------------------------------------------------
is_enabled(i, n) == Cell(i, n) \in enable
is_pending(i, n) == Cell(i, n) \in pending
is_active(i, n) == Cell(i, n) \in active
is_target(i, n) == i \in SPI => n \in targets[i]

set_pending(bits, i, n) == bits \cup {Cell(i, n)}
set_active(bits, i, n) == bits \cup {Cell(i, n)}

should_inject(i, n) ==
    /\ control = 1 /\ is_enabled(i, n) /\ is_target(i, n)
    /\ is_pending(i, n) /\ ~is_active(i, n)

(* For an SPI, the sweeps take the first node only.                        *)
FirstOf(pairs) ==
    {p \in pairs : p[1] \in SPI => \A q \in pairs : q[1] = p[1] => p[2] <= q[2]}

sweep_irqs_to_inject(irqs) ==
    FirstOf({p \in irqs \X Node : should_inject(p[1], p[2])})

sweep_irqs_to_ack(irqs) ==
    FirstOf({p \in irqs \X Node : ~should_inject(p[1], p[2]) /\ is_enabled(p[1], p[2])})

(* Distributor::ack() of a set of pairs.  The pending bit of an SGI stays  *)
(* while another source than node 0 has it pending.                        *)
AckedSGIs(pairs) == {<<p[1], 0, p[2]>> : p \in pairs}
AckedPending(pairs) ==
    {Cell(p[1], p[2]) : p \in {q \in pairs :
        q[1] \in SGI => ~\E s \in Node \ {0} : <<q[1], s, q[2]>> \in sgi_pending}}
AckedCells(pairs) == {Cell(p[1], p[2]) : p \in pairs}

(* The callbacks of the VMM: the source of an acknowledged interrupt is    *)
(* unmasked, by the kernel for one of the virtual CPU and by end() of the  *)
(* event server for an SPI; and the kernel fills an LR.                    *)
Unmasked(pairs) == masked \ AckedCells(pairs)
vcpu_inject_irq(n, k, i) == lr' = [lr EXCEPT ![n][k] = i]

----------------------------------------------------------------------------
(* Mutant: the mirror is not told.                                         *)
Mut_inject_mirror(n, k, i, pend, act, mir) ==
    /\ pending' = set_pending(pend, i, n)
    /\ mirror' = mir
    /\ \/ /\ control = 1 /\ is_enabled(i, n) /\ is_target(i, n) /\ Cell(i, n) \notin act
          /\ active' = set_active(act, i, n)
          /\ vcpu_inject_irq(n, k, i)
       \/ /\ ~(control = 1 /\ is_enabled(i, n) /\ is_target(i, n) /\ Cell(i, n) \notin act)
          /\ active' = act
          /\ UNCHANGED lr

(* Mutant: the interrupt is set active whether or not it is injected.      *)
Mut_inject_active(n, k, i, pend, act, mir) ==
    /\ pending' = set_pending(pend, i, n)
    /\ active' = set_active(act, i, n)
    /\ \/ /\ control = 1 /\ is_enabled(i, n) /\ is_target(i, n) /\ Cell(i, n) \notin act
          /\ mirror' = [mir EXCEPT ![n][k] = i]
          /\ vcpu_inject_irq(n, k, i)
       \/ /\ ~(control = 1 /\ is_enabled(i, n) /\ is_target(i, n) /\ Cell(i, n) \notin act)
          /\ mirror' = mir
          /\ UNCHANGED lr

(* inject_irq() into LR k of n, from the given bits and mirror.            *)
inject_irq(n, k, i, pend, act, mir) ==
    /\ pending' = set_pending(pend, i, n)
    /\ \/ /\ control = 1 /\ is_enabled(i, n) /\ is_target(i, n) /\ Cell(i, n) \notin act
          /\ active' = set_active(act, i, n)
          /\ mirror' = [mir EXCEPT ![n][k] = i]
          /\ vcpu_inject_irq(n, k, i)
       \/ /\ ~(control = 1 /\ is_enabled(i, n) /\ is_target(i, n) /\ Cell(i, n) \notin act)
          /\ active' = act /\ mirror' = mir
          /\ UNCHANGED lr

FreeLRs(n) == {k \in LR : mirror[n][k] = None}

forward_irq(n, i) ==
    \/ /\ FreeLRs(n) # {}
       /\ inject_irq(n, Min(FreeLRs(n)), i, pending, active, mirror)
       /\ UNCHANGED overflow
    \/ /\ FreeLRs(n) = {}
       /\ overflow' = IF \E j \in DOMAIN overflow[n] : overflow[n][j] = i THEN overflow
                      ELSE [overflow EXCEPT ![n] = Append(@, i)]
       /\ UNCHANGED <<pending, active, mirror, lr>>

----------------------------------------------------------------------------
(* The loop of a VMM node: events of the event server and faults of the    *)
(* virtual CPU, each under the GIC's mutex.                                *)
Handles(n) == n \in on /\ caller = None

(* A virtual CPU that waits for the reply to a fault raises no other.      *)
Guest(n) == n \in on /\ caller # n /\ ended[n] = None

handle_irq_ppi(n, i) ==
    /\ Handles(n)
    /\ i \in vm.vppi => Guest(n) /\ Cell(i, n) \notin masked
    /\ masked' = masked \cup {Cell(i, n) : j \in vm.vppi \cap {i}}
    /\ forward_irq(n, i)
    /\ UNCHANGED <<on, dist, sgi_pending, ended, work>>

handle_irq_spi(i) ==
    LET n == vm.spi_node
    IN  /\ Handles(n)
        /\ i \in vm.must_ack => Cell(i, n) \notin masked
        /\ masked' = masked \cup {Cell(i, n) : j \in vm.must_ack \cap {i}}
        /\ \/ is_target(i, n) /\ forward_irq(n, i)
           \/ /\ ~is_target(i, n) /\ targets[i] # {}
              /\ forward_irq(Min(targets[i]), i)
           \/ targets[i] = {} /\ UNCHANGED <<pending, active, lrs>>
        /\ UNCHANGED <<on, dist, sgi_pending, ended, work>>

(* The guest ends the interrupt of an LR; the virtual CPU faults.          *)
EndOfInterrupt(n, k) ==
    /\ Guest(n) /\ lr[n][k] # None
    /\ lr' = [lr EXCEPT ![n][k] = None]
    /\ ended' = [ended EXCEPT ![n] = k]
    /\ UNCHANGED <<on, dist, state, mirror, overflow, masked, work>>

(* Mutant: the overflow is left for the next interrupt.                    *)
Mut_handle_maintenance(n) ==
    /\ Handles(n) /\ ended[n] # None
    /\ ended' = [ended EXCEPT ![n] = None]
    /\ LET k == ended[n]
           acked == {<<mirror[n][k], n>>}
       IN  /\ sgi_pending' = sgi_pending \ AckedSGIs(acked)
           /\ masked' = Unmasked(acked)
           /\ pending' = pending \ AckedPending(acked)
           /\ active' = active \ AckedCells(acked)
           /\ mirror' = [mirror EXCEPT ![n][k] = None]
    /\ UNCHANGED <<on, dist, work, lr, overflow>>

(* handle_maintenance(): free the LR, acknowledge, and take one interrupt  *)
(* from the overflow, which may turn out not to be injected.               *)
handle_maintenance(n) ==
    /\ Handles(n) /\ ended[n] # None
    /\ ended' = [ended EXCEPT ![n] = None]
    /\ LET k == ended[n]
           acked == {<<mirror[n][k], n>>}
           pend == pending \ AckedPending(acked)
           act == active \ AckedCells(acked)
           mir == [mirror EXCEPT ![n][k] = None]
       IN  /\ sgi_pending' = sgi_pending \ AckedSGIs(acked)
           /\ masked' = Unmasked(acked)
           /\ \/ /\ overflow[n] # <<>>
                 /\ inject_irq(n, k, Head(overflow[n]), pend, act, mir)
                 /\ overflow' = [overflow EXCEPT ![n] = Tail(@)]
              \/ /\ overflow[n] = <<>>
                 /\ pending' = pend /\ active' = act /\ mirror' = mir
                 /\ UNCHANGED <<lr, overflow>>
    /\ UNCHANGED <<on, dist, work>>

(* sys_psci(), CpuOn: the node's thread is taken and started.              *)
CpuOn(n, target) ==
    /\ Handles(n) /\ Guest(n) /\ target \notin on
    /\ on' = on \cup {target}
    /\ UNCHANGED <<dist, state, lrs, ended, masked, work>>

----------------------------------------------------------------------------
(* Distributor::handle_write(), one action per register.  "val" is the set *)
(* of the interrupts of register r whose bit is written as 1; a value of   *)
(* 0 has no effect.                                                        *)
InReg(r) == {i \in IRQ : i \div 32 = r}
Reg == {i \div 32 : i \in IRQ}
Written(val, n) == {Cell(i, n) : i \in val}

(* The interrupts to acknowledge and to inject, from the registers after   *)
(* the write.                                                              *)
InjectAndAckIRQs(n, irqs, ack) ==
    /\ toInject' = sweep_irqs_to_inject(irqs)'
    /\ toAck' = IF ack THEN sweep_irqs_to_ack(irqs)' ELSE {}
    /\ caller' = n

NoAction == UNCHANGED work

Write(n, reg) ==
    /\ reg \in vm.writes
    /\ Handles(n) /\ Guest(n)
    /\ UNCHANGED <<on, lrs, ended, masked>>

GICD_CTLR(n, val) ==
    /\ Write(n, IF val = 1 THEN "CTLR=1" ELSE "CTLR=0")
    /\ control' = val
    /\ UNCHANGED <<enable, targets, state>>
    /\ \/ val = 1 /\ control = 0 /\ InjectAndAckIRQs(n, IRQ, TRUE)
       \/ ~(val = 1 /\ control = 0) /\ NoAction

(* Mutant: the interrupts that are now enabled are not looked at.          *)
Mut_ISENABLER(n, r, val) ==
    /\ Write(n, "ISENABLER")
    /\ enable' = enable \cup Written(val, n)
    /\ UNCHANGED <<control, targets, state>>
    /\ NoAction

GICD_ISENABLERn(n, r, val) ==
    /\ Write(n, "ISENABLER")
    /\ enable' = enable \cup Written(val, n)
    /\ UNCHANGED <<control, targets, state>>
    /\ InjectAndAckIRQs(n, InReg(r), TRUE)

(* For the SPIs, the code takes the register after the one it wrote to:    *)
(* self.enable[reg_num], where is_enabled() reads self.enable[reg_num - 1].*)
(* (After the last register there is none, and a write to it panics.)      *)
GICD_ICENABLERn(n, r, val) ==
    /\ Write(n, "ICENABLER")
    /\ enable' = enable \ (IF r = 0 THEN Written(val, n)
                           ELSE Written({i + 32 : i \in val} \cap IRQ, n))
    /\ UNCHANGED <<control, targets, state>>
    /\ NoAction

(* A value with the bit of an SGI is ignored as a whole.                   *)
GICD_ISPENDRn(n, r, val) ==
    /\ Write(n, "ISPENDR")
    /\ val \cap SGI = {}
    /\ pending' = pending \cup Written(val, n)
    /\ UNCHANGED <<dist, active, sgi_pending>>
    /\ InjectAndAckIRQs(n, InReg(r), FALSE)

(* A value with the bit of an SGI is an error.                             *)
GICD_ICPENDRn(n, r, val) ==
    /\ Write(n, "ICPENDR")
    /\ val \cap SGI = {}
    /\ pending' = pending \ Written(val, n)
    /\ UNCHANGED <<dist, active, sgi_pending>>
    /\ NoAction

GICD_ISACTIVERn(n, r, val) ==
    /\ Write(n, "ISACTIVER")
    /\ active' = active \cup Written(val, n)
    /\ UNCHANGED <<dist, pending, sgi_pending>>
    /\ NoAction

GICD_ICACTIVERn(n, r, val) ==
    /\ Write(n, "ICACTIVER")
    /\ active' = active \ Written(val, n)
    /\ UNCHANGED <<dist, pending, sgi_pending>>
    /\ NoAction

(* val[i]: the new targets of the SPIs of one register, among the nodes    *)
(* that the machine has.                                                   *)
GICD_ITARGETSRn(n, val) ==
    /\ Write(n, "ITARGETSR")
    /\ targets' = [i \in SPI |-> IF i \in DOMAIN val THEN val[i] ELSE targets[i]]
    /\ UNCHANGED <<control, enable, state>>
    /\ \/ /\ \E i \in DOMAIN val : val[i] \ targets[i] # {}
          /\ InjectAndAckIRQs(n, DOMAIN val, TRUE)
       \/ /\ \A i \in DOMAIN val : val[i] \subseteq targets[i]
          /\ NoAction

(* GICD_SGIR: "cpus" is the target list or the writer itself.  (A node     *)
(* that the machine does not have panics, and so does the filter "all but  *)
(* the writer" on fewer than eight nodes.  The code takes eight bits for   *)
(* the number of the SGI; the guest leaves the reserved ones 0.)           *)
GICD_SGIR(n, i, cpus) ==
    /\ Write(n, "SGIR")
    /\ pending' = pending \cup {Cell(i, c) : c \in cpus}
    /\ UNCHANGED <<dist, active, sgi_pending>>
    /\ toInject' = {p \in {i} \X cpus : should_inject(i, p[2])'}
    /\ toAck' = {}
    /\ caller' = n

(* The bytes of GICD_CPENDSGIR and GICD_SPENDSGIR belong to four SGIs.     *)
(* The mask is shifted by 0, 8, 16 and 24 places in turn, each time from   *)
(* where the last shift left it: it covers the bytes 0, 1 and 3, and then  *)
(* none.                                                                   *)
InSGIReg(r) == {i \in SGI : i \div 4 = r}
MaskedByte(i) == CASE i % 4 = 0 -> {i} [] i % 4 = 1 -> {i}
                   [] i % 4 = 2 -> {i + 1} [] i % 4 = 3 -> {}

(* "val": pairs of SGI and source whose bit is written as 1.               *)
GICD_CPENDSGIRn(n, r, val) ==
    /\ Write(n, "CPENDSGIR")
    /\ sgi_pending' = sgi_pending \ {<<p[1], p[2], n>> : p \in val}
    /\ pending' = pending \
          {Cell(i, n) : i \in {j \in InSGIReg(r) :
              ~\E b \in MaskedByte(j), s \in Node : <<b, s, n>> \in sgi_pending'}}
    /\ UNCHANGED <<dist, active>>
    /\ NoAction

GICD_SPENDSGIRn(n, r, val) ==
    /\ Write(n, "SPENDSGIR")
    /\ sgi_pending' = sgi_pending \cup {<<p[1], p[2], n>> : p \in val}
    /\ pending' = pending \cup
          {Cell(i, n) : i \in {j \in InSGIReg(r) :
              \E b \in MaskedByte(j), s \in Node :
                  <<b, s>> \in val /\ <<b, s, n>> \notin sgi_pending}}
    /\ UNCHANGED <<dist, active>>
    /\ InjectAndAckIRQs(n, InSGIReg(r), FALSE)

(* GIC::handle_write(): all acknowledgements, then the injections.         *)
Acknowledge ==
    /\ toAck # {}
    /\ sgi_pending' = sgi_pending \ AckedSGIs(toAck)
    /\ pending' = pending \ AckedPending(toAck)
    /\ active' = active \ AckedCells(toAck)
    /\ masked' = Unmasked(toAck)
    /\ toAck' = {}
    /\ UNCHANGED <<on, dist, lrs, ended, caller, toInject>>

Inject ==
    /\ toAck = {}
    /\ \E p \in toInject :
          /\ \A q \in toInject : p[1] < q[1] \/ (p[1] = q[1] /\ p[2] <= q[2])
          /\ forward_irq(p[2], p[1])
          /\ toInject' = toInject \ {p}
    /\ UNCHANGED <<on, dist, sgi_pending, ended, masked, caller, toAck>>

WriteDone ==
    /\ caller # None /\ toAck = {} /\ toInject = {}
    /\ caller' = None
    /\ UNCHANGED <<on, dist, state, lrs, ended, masked, toAck, toInject>>

----------------------------------------------------------------------------
GuestWrite(n) ==
    \/ \E val \in {0, 1} : GICD_CTLR(n, val)
    \/ \E r \in Reg : \E val \in SUBSET InReg(r) \ {{}} :
          \/ GICD_ISENABLERn(n, r, val) \/ GICD_ICENABLERn(n, r, val)
          \/ GICD_ISPENDRn(n, r, val) \/ GICD_ICPENDRn(n, r, val)
          \/ GICD_ISACTIVERn(n, r, val) \/ GICD_ICACTIVERn(n, r, val)
    \/ \E t \in {i \div 4 : i \in SPI} :
          \E val \in [{i \in SPI : i \div 4 = t} -> SUBSET Node] : GICD_ITARGETSRn(n, val)
    \/ \E i \in SGI, cpus \in SUBSET Node \ {{}} : GICD_SGIR(n, i, cpus)
    \/ \E r \in {i \div 4 : i \in SGI} : \E val \in SUBSET (InSGIReg(r) \X Node) \ {{}} :
          GICD_CPENDSGIRn(n, r, val) \/ GICD_SPENDSGIRn(n, r, val)

WriteStep == Acknowledge \/ Inject \/ WriteDone

Next ==
    /\ UNCHANGED vm
    /\ \/ \E n \in Node : GuestWrite(n) \/ handle_maintenance(n)
       \/ \E n \in Node, target \in Node : CpuOn(n, target)
       \/ \E n \in Node, k \in LR : EndOfInterrupt(n, k)
       \/ \E n \in Node, i \in PPI : handle_irq_ppi(n, i)
       \/ \E i \in SPI : handle_irq_spi(i)
       \/ WriteStep

(* The threads of the VMM run, and a guest ends the interrupts it takes.   *)
Fairness ==
    /\ WF_vars(UNCHANGED vm /\ WriteStep)
    /\ \A n \in AnyNode : SF_vars(UNCHANGED vm /\ n \in Node /\ handle_maintenance(n))
    /\ \A n \in AnyNode, k \in AnyLR :
          SF_vars(UNCHANGED vm /\ n \in Node /\ k \in LR /\ EndOfInterrupt(n, k))

Spec == Init /\ [][Next]_vars /\ Fairness

----------------------------------------------------------------------------
(* The mirror tells what the LRs hold: inject_irq() never writes to an LR   *)
(* in use, and handle_maintenance() finds the interrupt of every LR that    *)
(* the guest has ended (its unwrap() cannot fail).                          *)
MirrorInSync ==
    \A n \in Node, k \in LR :
        IF ended[n] = k THEN lr[n][k] = None /\ mirror[n][k] # None
        ELSE lr[n][k] = mirror[n][k]

Held(i, n) == \E k \in LR : mirror[n][k] = i
Queued(i, n) == \E j \in DOMAIN overflow[n] : overflow[n][j] = i

(* should_inject() passes over an interrupt that is active, so one that is  *)
(* active and in no LR would never be injected again.  (A guest that writes *)
(* to GICD_ISACTIVER makes such interrupts itself.)                         *)
ActiveIsHeld ==
    "ISACTIVER" \notin vm.writes =>
        \A c \in active : \E n \in Node : Cell(c[1], n) = c /\ Held(c[1], n)

Waits(c) == \E n \in Node : Cell(c[1], n) = c /\ Queued(c[1], n)
InLR(c) == \E n \in Node : Cell(c[1], n) = c /\ Held(c[1], n)

(* An interrupt that was taken from its source, which stays masked until    *)
(* the interrupt is acknowledged, is not forgotten: if the guest has it     *)
(* enabled, it is in an LR or waits for one.  One that came while the guest *)
(* had it disabled is injected, or acknowledged, by the write that enables  *)
(* it.  A guest that moves SPIs, or sets interrupts active, may keep one    *)
(* from its LR; it stays pending, so that the next sweep of its register    *)
(* injects it, unless the guest clears its pending bit as well.             *)
TakenIsTracked ==
    caller = None /\ control = 1 =>
        \A c \in masked \cap enable :
            /\ {"ITARGETSR", "ISACTIVER"} \cap vm.writes = {} => Waits(c) \/ InLR(c)
            /\ "ICPENDR" \notin vm.writes /\ (c[1] \in SPI => targets[c[1]] # {}) =>
                  Waits(c) \/ c \in pending

(* The interrupts are SGIs, which are enabled from the start, and the guest *)
(* neither disables them nor sets them active; it may write to any other    *)
(* register.                                                                *)
Steady == IRQ = SGI /\ {"CTLR=0", "ICENABLER", "ISACTIVER"} \cap vm.writes = {}

(* Interrupts wait only while every LR is in use, so that the maintenance   *)
(* fault of one of them is still to come and takes the next one from the    *)
(* overflow.  For other interrupts and guests this does not hold:           *)
(* handle_maintenance() takes one interrupt from the overflow whether or    *)
(* not it can be injected, and one that is disabled, or active already,     *)
(* leaves those behind it waiting beside an idle LR.  Such interrupts get   *)
(* into the overflow because handle_irq() forwards a PPI or an SPI as it    *)
(* comes.                                                                   *)
BacklogIsServed ==
    Steady => \A n \in Node : overflow[n] # <<>> => FreeLRs(n) = {}

----------------------------------------------------------------------------
(* "Writing 1 to an IRQ bit disables the IRQ.": a write to GICD_ICENABLER   *)
(* leaves the interrupts whose bits it sets disabled.                       *)
DisableDisables ==
    [][\A n \in Node, r \in Reg : \A val \in SUBSET InReg(r) \ {{}} :
          GICD_ICENABLERn(n, r, val) => Written(val, n) \cap enable' = {}]_vars
=============================================================================
