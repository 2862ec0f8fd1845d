----------------------------- MODULE GICProofs ------------------------------
(***************************************************************************)
(* Proofs about GIC, for every virtual machine that VMAssumption admits:   *)
(* every step preserves the invariant of GICInvariant, and three           *)
(* invariants of GIC follow from it.  A fourth, TakenIsTracked, takes an   *)
(* invariant of its own on top of that.                                    *)
(***************************************************************************)
EXTENDS GICInvariant

----------------------------------------------------------------------------
(* The steps of GIC::handle_write(): nothing becomes active but what is    *)
(* injected, and that was not active when the register was written.        *)
LEMMA AcknowledgeIInv ==
    ASSUME IInv, UNCHANGED vm, Acknowledge \/ WriteDone
    PROVE  IInv'
<1> USE VMFrame DEF Acknowledge, WriteDone, Unmasked, dist, state
<1>1. TypeOK'
  BY DEF IInv, TypeOK, lrs
<1>2. active' \subseteq active /\ UNCHANGED <<lrs, ended, control, enable, toInject>>
  OBVIOUS
<1>3. MirrorInSync' /\ ActiveIsHeld'
  BY <1>2, QuietStep
<1>4. Backlog'
  BY <1>2, QuietBacklog DEF IInv, Backlog, lrs
<1> QED
  BY <1>1, <1>3, <1>4 DEF IInv

(* The injections that a register write has left to do, one forward_irq()  *)
(* each.                                                                   *)
LEMMA InjectIInv ==
    ASSUME IInv, UNCHANGED vm, Inject
    PROVE  IInv'
<1> USE VMFrame
<1>1. PICK p \in toInject : forward_irq(p[2], p[1]) /\ toInject' = toInject \ {p}
  BY DEF Inject
<1>2. UNCHANGED <<on, control, enable, targets, sgi_pending, ended, masked, caller, toAck>>
  BY DEF Inject, dist
<1>3. p[1] \in IRQ /\ p[2] \in Node /\ p = <<p[1], p[2]>> /\ vm \in VM
  BY DEF IInv, TypeOK
<1>4. TypeOK'
  BY <1>1, <1>2, <1>3, ForwardTypes, Zenon DEF IInv, TypeOK
<1>5. MirrorInSync' /\ ActiveIsHeld'
  BY <1>1, <1>2, <1>3, ForwardMirror
<1>6. Backlog'
  <2> SUFFICES ASSUME Steady PROVE Backlog'
    BY Zenon DEF Backlog
  <2>1. control = 1 /\ Cell(p[1], p[2]) \notin active
    BY DEF IInv, Backlog
  <2>2. Waiting'
    BY <1>1, <1>2, <1>3, <2>1, ForwardBacklog
  <2>3. active' \subseteq active \cup {Cell(p[1], p[2])}
    BY <1>1, <1>3, ForwardTypes
  <2>4. \A q \in toInject' : Cell(q[1], q[2]) # Cell(p[1], p[2]) /\ Cell(q[1], q[2]) \notin active
    <3> TAKE q \in toInject'
    <3>1. q \in toInject /\ q # p
      BY <1>1
    <3>2. q[1] \in IRQ /\ q = <<q[1], q[2]>>
      BY <3>1 DEF IInv, TypeOK
    <3>3. Cell(q[1], q[2]) = q /\ Cell(p[1], p[2]) = p
      BY <1>3, <3>2, SteadyCell
    <3> QED
      BY <3>1, <3>3 DEF IInv, Backlog
  <2>5. \A q \in toInject' : control' = 1 /\ Cell(q[1], q[2]) \notin active'
    BY <1>2, <2>1, <2>3, <2>4
  <2>6. \A i \in IRQ, n \in Node : Cell(i, n) \in enable'
    BY <1>2 DEF IInv, Backlog
  <2> QED
    BY <2>2, <2>5, <2>6 DEF Backlog, Cell
<1> QED
  BY <1>4, <1>5, <1>6 DEF IInv

(* Every step of the guests, the kernel and the VMM's threads.             *)
LEMMA NextIInv == IInv /\ [Next]_vars => IInv'
<1> SUFFICES ASSUME IInv, [Next]_vars PROVE IInv'
  OBVIOUS
<1>1. vm \in VM /\ SPI \subseteq IRQ
  BY MachineFacts DEF IInv, TypeOK
<1>2. ASSUME UNCHANGED vm, NEW n \in Node, GuestWrite(n)
      PROVE  IInv'
  <2>1. CASE \E val \in {0, 1} : GICD_CTLR(n, val)
    BY <1>2, <2>1, CTLRIInv
  <2>2. ASSUME NEW r \in Reg, NEW val \in SUBSET InReg(r) \ {{}},
               \/ GICD_ISENABLERn(n, r, val) \/ GICD_ICENABLERn(n, r, val)
               \/ GICD_ISPENDRn(n, r, val) \/ GICD_ICPENDRn(n, r, val)
               \/ GICD_ISACTIVERn(n, r, val) \/ GICD_ICACTIVERn(n, r, val)
        PROVE  IInv'
    <3>1. val \subseteq IRQ
      BY DEF InReg
    <3> QED
      BY <1>2, <2>2, <3>1, PlainWriteIInv, SetWriteIInv
  <2>3. ASSUME NEW t \in {i \div 4 : i \in SPI},
               NEW val \in [{i \in SPI : i \div 4 = t} -> SUBSET Node],
               GICD_ITARGETSRn(n, val)
        PROVE  IInv'
    BY <1>2, <2>3, TargetsIInv
  <2>4. ASSUME NEW i \in SGI, NEW cpus \in SUBSET Node \ {{}}, GICD_SGIR(n, i, cpus)
        PROVE  IInv'
    BY <1>2, <2>4, SGIRIInv
  <2>5. ASSUME NEW r, NEW val \in SUBSET (InSGIReg(r) \X Node) \ {{}},
               GICD_CPENDSGIRn(n, r, val) \/ GICD_SPENDSGIRn(n, r, val)
        PROVE  IInv'
    BY <1>2, <2>5, PendSGIIInv
  <2> QED
    BY <1>2, <2>1, <2>2, <2>3, <2>4, <2>5, Zenon DEF GuestWrite
<1>3. CASE Next
  <2>1. UNCHANGED vm
    BY <1>3 DEF Next
  <2>2. ASSUME NEW n \in Node, handle_maintenance(n) PROVE IInv'
    BY <2>1, <2>2, MaintenanceIInv
  <2>3. ASSUME NEW n \in Node, NEW target \in Node, CpuOn(n, target) PROVE IInv'
    BY <2>1, <2>3, CpuOnIInv
  <2>4. ASSUME NEW n \in Node, NEW k \in LR, EndOfInterrupt(n, k) PROVE IInv'
    BY <2>1, <2>4, EndOfInterruptIInv
  <2>5. CASE \/ \E n \in Node, i \in PPI : handle_irq_ppi(n, i)
             \/ \E i \in SPI : handle_irq_spi(i)
    BY <2>1, <2>5, PPIAndSPIIInv
  <2>6. CASE WriteStep
    BY <2>1, <2>6, AcknowledgeIInv, InjectIInv DEF WriteStep
  <2> QED
    BY <1>2, <1>3, <2>1, <2>2, <2>3, <2>4, <2>5, <2>6 DEF Next
<1>4. CASE UNCHANGED vars
  <2>1. UNCHANGED <<vm, on, control, enable, targets, pending, active, sgi_pending, mirror,
                    overflow, lr, ended, masked, caller, toAck, toInject>>
    BY <1>4 DEF vars, dist, state, lrs, work
  <2>2. TypeOK'
    BY <2>1, VMFrame DEF IInv, TypeOK
  <2>3. MirrorInSync' /\ ActiveIsHeld'
    BY <2>1, QuietStep DEF lrs
  <2>4. Backlog'
    BY <2>1, QuietBacklog DEF IInv, Backlog
  <2> QED
    BY <2>2, <2>3, <2>4 DEF IInv
<1> QED
  BY <1>3, <1>4

(* The invariant, in every reachable state.                                *)
LEMMA SpecIInv == Spec => []IInv
BY InitIInv, NextIInv, PTL DEF Spec

----------------------------------------------------------------------------
(* The mirror tells what the LRs hold, in every machine: inject_irq()      *)
(* never overwrites an LR in use, and the unwrap() of handle_maintenance() *)
(* cannot fail.                                                            *)
THEOREM SpecMirrorInSync == Spec => []MirrorInSync
<1>1. IInv => MirrorInSync
  BY DEF IInv
<1> QED
  BY <1>1, SpecIInv, PTL

(* An interrupt is active only while it is in an LR of a node that it is   *)
(* for, unless the guest writes to GICD_ISACTIVER.                         *)
THEOREM SpecActiveIsHeld == Spec => []ActiveIsHeld
<1>1. IInv => ActiveIsHeld
  BY DEF IInv
<1> QED
  BY <1>1, SpecIInv, PTL

(* SGIs that the guest leaves enabled wait only while all LRs are in use,  *)
(* for any number of nodes, LRs and SGIs, and whatever else the guest      *)
(* writes to the distributor.                                              *)
THEOREM SpecBacklogIsServed == Spec => []BacklogIsServed
<1>1. IInv => BacklogIsServed
  BY DEF IInv, Backlog, Waiting, BacklogIsServed
<1> QED
  BY <1>1, SpecIInv, PTL

----------------------------------------------------------------------------
(* TakenIsTracked.  It says nothing while handle_write() runs; there, what *)
(* is not tracked yet is among what the sweep found to acknowledge or to   *)
(* inject.  And where the guest does not move SPIs, what waits and what is *)
(* to be injected is with a node that it is for (Aimed).                   *)
Aimed ==
    "ITARGETSR" \notin vm.writes =>
        /\ \A i \in SPI : 0 \in targets[i]
        /\ \A n \in Node : \A j \in DOMAIN overflow[n] : is_target(overflow[n][j], n)
        /\ \A p \in toInject : is_target(p[1], p[2])

Tracked(c) ==
    /\ {"ITARGETSR", "ISACTIVER"} \cap vm.writes = {} =>
          Waits(c) \/ InLR(c) \/ c \in AckedCells(toAck) \/ c \in AckedCells(toInject)
    /\ "ICPENDR" \notin vm.writes /\ (c[1] \in SPI => targets[c[1]] # {}) =>
          Waits(c) \/ c \in pending \/ c \in AckedCells(toAck)

Tracking ==
    /\ Aimed
    /\ \A c \in masked : c[1] \notin SGI
    /\ control = 1 => \A c \in masked \cap enable : Tracked(c)

(* What the handlers do to a queue: append to it, or take its head.        *)
LEMMA QueueAppend ==
    ASSUME NEW X, NEW s \in Seq(X), NEW x \in X, NEW t, t = Append(s, x), NEW j \in DOMAIN t
    PROVE  t[j] = x \/ (j \in DOMAIN s /\ t[j] = s[j])
OBVIOUS

(* The overflow without its head.                                          *)
LEMMA QueueTail ==
    ASSUME NEW X, NEW s \in Seq(X), s # <<>>, NEW t, t = Tail(s)
    PROVE  /\ \A j \in DOMAIN t : j + 1 \in DOMAIN s /\ t[j] = s[j + 1]
           /\ \A j \in DOMAIN s : s[j] = Head(s) \/ (j - 1 \in DOMAIN t /\ t[j - 1] = s[j])
           /\ Head(s) \in X /\ Head(s) = s[1] /\ 1 \in DOMAIN s
OBVIOUS

(* After reset() nothing is taken.                                         *)
LEMMA InitTracking == Init => Tracking
<1> SUFFICES ASSUME Init PROVE Tracking
  OBVIOUS
<1>1. \A n \in Node : DOMAIN overflow[n] = {}
  BY DEF Init
<1> QED
  BY <1>1 DEF Init, Tracking, Aimed

(* A step that leaves the LRs and the overflow alone, enables nothing, and *)
(* clears no pending bit that matters.                                     *)
LEMMA QuietTracking ==
    ASSUME IInv, Tracking, UNCHANGED <<vm, masked, mirror, overflow>>,
           control' = 1 => control = 1, enable' \subseteq enable,
           "ITARGETSR" \in vm.writes \/ targets' = targets,
           \A i \in SPI : targets'[i] # {} => targets[i] # {},
           "ICPENDR" \in vm.writes \/ \A c \in pending : c \in pending' \/ c[1] \in SGI,
           toAck \subseteq toAck', toInject \subseteq toInject',
           \A p \in toInject' : p \in toInject \/ is_target(p[1], p[2])'
    PROVE  Tracking'
<1> USE VMFrame
<1>1. Aimed'
  BY DEF Tracking, Aimed, is_target
<1>2. ASSUME NEW c \in masked \cap enable, Tracked(c), c[1] \notin SGI
      PROVE  Tracked(c)'
  <2>1. Waits(c)' = Waits(c) /\ InLR(c)' = InLR(c)
    BY DEF Waits, InLR, Queued, Held
  <2>2. AckedCells(toAck) \subseteq AckedCells(toAck)'
    BY DEF AckedCells
  <2>3. AckedCells(toInject) \subseteq AckedCells(toInject)'
    BY DEF AckedCells
  <2> QED
    BY <1>2, <2>1, <2>2, <2>3 DEF Tracked
<1> QED
  BY <1>1, <1>2 DEF Tracking

----------------------------------------------------------------------------
(* The sweeps: an enabled cell of the interrupts that are looked at is     *)
(* acknowledged or injected, and acknowledged if it is not pending.        *)
LEMMA FirstOfCovers ==
    ASSUME vm \in VM, NEW pairs, pairs \subseteq IRQ \X Node, NEW i, NEW n, <<i, n>> \in pairs
    PROVE  Cell(i, n) \in AckedCells(FirstOf(pairs))
<1>1. CASE i \notin SPI
  <2>1. <<i, n>> \in FirstOf(pairs)
    BY <1>1 DEF FirstOf
  <2> QED
    BY <2>1 DEF AckedCells
<1>2. CASE i \in SPI
  <2> DEFINE S == {m \in Node : <<i, m>> \in pairs}
  <2>1. S \subseteq Nat /\ n \in S
    BY MachineFacts
  <2>2. Min(S) \in S /\ \A m \in S : Min(S) <= m
    BY <2>1, MinIsElement, Zenon
  <2>3. <<i, Min(S)>> \in FirstOf(pairs)
    BY <2>2 DEF FirstOf
  <2>4. Cell(i, n) = Cell(i, Min(S))
    BY <1>2 DEF Cell
  <2> HIDE DEF S
  <2> QED
    BY <2>3, <2>4 DEF AckedCells
<1> QED
  BY <1>1, <1>2

SweepsCover ==
    vm \in VM => \A irqs \in SUBSET IRQ : \A c \in enable \cap Cells : c[1] \in irqs =>
        /\ \/ c \in AckedCells(sweep_irqs_to_ack(irqs))
           \/ c \in AckedCells(sweep_irqs_to_inject(irqs))
        /\ c \in pending \/ c \in AckedCells(sweep_irqs_to_ack(irqs))

(* The two sweeps between them reach every enabled interrupt of their      *)
(* range.                                                                  *)
LEMMA SweepCovers == SweepsCover
<1> SUFFICES ASSUME vm \in VM, NEW irqs \in SUBSET IRQ, NEW c \in enable \cap Cells, c[1] \in irqs
             PROVE  /\ \/ c \in AckedCells(sweep_irqs_to_ack(irqs))
                       \/ c \in AckedCells(sweep_irqs_to_inject(irqs))
                    /\ c \in pending \/ c \in AckedCells(sweep_irqs_to_ack(irqs))
  BY DEF SweepsCover
<1> DEFINE I == {p \in irqs \X Node : should_inject(p[1], p[2])}
           A == {p \in irqs \X Node : ~should_inject(p[1], p[2]) /\ is_enabled(p[1], p[2])}
<1>1. PICK i \in irqs, n \in Node : c = Cell(i, n)
  BY DEF Cells, Cell
<1>2. <<i, n>> \in A \/ (<<i, n>> \in I /\ c \in pending)
  BY <1>1 DEF is_enabled, should_inject, is_pending
<1>3. A \subseteq IRQ \X Node /\ I \subseteq IRQ \X Node
  OBVIOUS
<1>4. sweep_irqs_to_ack(irqs) = FirstOf(A) /\ sweep_irqs_to_inject(irqs) = FirstOf(I)
  BY DEF sweep_irqs_to_ack, sweep_irqs_to_inject
<1> HIDE DEF A, I
<1> QED
  BY <1>1, <1>2, <1>3, <1>4, FirstOfCovers

(* The same of the registers after a write.                                *)
LEMMA SweepCoversNext == SweepsCover'
BY SweepCovers, PTL

(* GICD_ISENABLER, GICD_CTLR and GICD_ITARGETSR, where they sweep: a cell  *)
(* that the write could have changed is among those looked at.             *)
LEMMA SweepTracking ==
    ASSUME IInv, IInv', Tracking, UNCHANGED <<vm, masked, mirror, overflow, pending>>,
           NEW irqs, irqs \subseteq IRQ,
           toAck' = sweep_irqs_to_ack(irqs)', toInject' = sweep_irqs_to_inject(irqs)',
           toAck = {}, toInject = {},
           "ITARGETSR" \in vm.writes \/ targets' = targets,
           \A c \in enable' : c[1] \notin irqs =>
               /\ c \in enable /\ (control' = 1 => control = 1)
               /\ c[1] \in SPI => targets'[c[1]] = targets[c[1]]
    PROVE  Tracking'
<1> USE VMFrame
<1>1. Aimed'
  <2>1. \A p \in toInject' : is_target(p[1], p[2])'
    BY DEF sweep_irqs_to_inject, FirstOf, should_inject
  <2> QED
    BY <2>1 DEF Tracking, Aimed, is_target
<1>2. ASSUME NEW c \in masked' \cap enable', control' = 1
      PROVE  Tracked(c)'
  <2>1. CASE c[1] \in irqs
    <3>1. vm' \in VM /\ c \in Cells' /\ irqs \subseteq IRQ'
      BY DEF IInv, TypeOK
    <3>2. /\ \/ c \in AckedCells(sweep_irqs_to_ack(irqs))'
             \/ c \in AckedCells(sweep_irqs_to_inject(irqs))'
          /\ c \in pending' \/ c \in AckedCells(sweep_irqs_to_ack(irqs))'
      BY <2>1, <3>1, SweepCoversNext, Zenon DEF SweepsCover
    <3> QED
      BY <3>2 DEF Tracked, AckedCells
  <2>2. CASE c[1] \notin irqs
    <3>1. c \in masked \cap enable /\ control = 1
      BY <1>2, <2>2, Zenon
    <3>2. Tracked(c) /\ AckedCells(toAck) = {} /\ AckedCells(toInject) = {}
      BY <3>1 DEF Tracking, AckedCells
    <3>3. Waits(c)' = Waits(c) /\ InLR(c)' = InLR(c)
      BY DEF Waits, InLR, Queued, Held
    <3> QED
      BY <2>2, <3>2, <3>3, Zenon DEF Tracked
  <2> QED
    BY <2>1, <2>2, Zenon
<1> QED
  BY <1>1, <1>2 DEF Tracking

(* Acknowledge: what is acknowledged is no longer masked.                  *)
LEMMA AcknowledgeTracking ==
    ASSUME IInv, Tracking, UNCHANGED vm, Acknowledge
    PROVE  Tracking'
<1> USE VMFrame
<1>1. /\ pending \ AckedCells(toAck) \subseteq pending' /\ masked' = masked \ AckedCells(toAck)
      /\ toAck' = {}
      /\ UNCHANGED <<control, enable, targets, mirror, overflow, toInject>>
  BY DEF Acknowledge, AckedPending, AckedCells, Unmasked, dist, lrs
<1>2. Aimed'
  BY <1>1 DEF Tracking, Aimed, is_target
<1>3. ASSUME NEW c \in masked \cap enable, c \notin AckedCells(toAck), Tracked(c)
      PROVE  Tracked(c)'
  <2>1. Waits(c)' = Waits(c) /\ InLR(c)' = InLR(c)
    BY <1>1 DEF Waits, InLR, Queued, Held
  <2>2. AckedCells(toInject)' = AckedCells(toInject)
    BY <1>1 DEF AckedCells
  <2> QED
    BY <1>1, <1>3, <2>1, <2>2 DEF Tracked
<1> QED
  BY <1>1, <1>2, <1>3 DEF Tracking

(* forward_irq(): what waited waits, what was in an LR is, and the         *)
(* interrupt itself is pending or waits; if it could go to an LR, it is in *)
(* one or waits.                                                           *)
LEMMA ForwardKeeps ==
    ASSUME IInv, UNCHANGED <<vm, control, enable, targets>>,
           NEW n \in Node, NEW i \in IRQ, forward_irq(n, i)
    PROVE  /\ pending \subseteq pending'
           /\ \A c \in Cells : Waits(c) => Waits(c)'
           /\ \A c \in Cells : InLR(c) => InLR(c)'
           /\ Waits(Cell(i, n))' \/ Cell(i, n) \in pending'
           /\ \/ Waits(Cell(i, n))' \/ InLR(Cell(i, n))' \/ Cell(i, n) \in active
              \/ ~(control = 1 /\ is_enabled(i, n) /\ is_target(i, n))
<1> USE VMFrame
<1>1. vm \in VM /\ None \notin IRQ /\ Cell(i, n)[1] = i /\ Cell(i, n) \in Cells
  BY MachineFacts, CellType DEF IInv, TypeOK
<1>2. /\ overflow \in [Node -> Seq(IRQ)] /\ mirror \in [Node -> [LR -> IRQ \cup {None}]]
  BY DEF IInv, TypeOK
<1>3. ASSUME NEW k \in FreeLRs(n),
             pending' = pending \cup {Cell(i, n)}, mirror' = [mirror EXCEPT ![n][k] = i],
             overflow' = overflow
      PROVE  /\ \A c \in Cells : Waits(c) => Waits(c)'
             /\ \A c \in Cells : InLR(c) => InLR(c)'
             /\ InLR(Cell(i, n))'
  <2>1. k \in LR /\ mirror[n][k] = None
    BY DEF FreeLRs
  <2>2. /\ mirror'[n][k] = i
        /\ \A m \in Node, l \in LR : m # n \/ l # k => mirror'[m][l] = mirror[m][l]
    BY <1>2, <1>3, <2>1
  <2>3. \A c \in Cells : Waits(c) => Waits(c)'
    BY <1>3 DEF Waits, Queued
  <2>4. ASSUME NEW c \in Cells, InLR(c) PROVE InLR(c)'
    <3>1. PICK m \in Node, l \in LR : Cell(c[1], m) = c /\ mirror[m][l] = c[1]
      BY <2>4 DEF InLR, Held
    <3>2. c[1] # None
      BY <1>1, CellIRQ
    <3> QED
      BY <2>1, <2>2, <3>1, <3>2 DEF InLR, Held
  <2>5. InLR(Cell(i, n))'
    BY <1>1, <2>1, <2>2 DEF InLR, Held
  <2> QED
    BY <2>3, <2>4, <2>5
<1>4. ASSUME overflow' = [overflow EXCEPT ![n] = Append(@, i)], UNCHANGED mirror
      PROVE  /\ \A c \in Cells : Waits(c) => Waits(c)'
             /\ \A c \in Cells : InLR(c) => InLR(c)'
             /\ Waits(Cell(i, n))'
  <2>1. /\ \A m \in Node : m # n => overflow'[m] = overflow[m]
        /\ \A j \in DOMAIN overflow[n] :
              j \in DOMAIN overflow'[n] /\ overflow'[n][j] = overflow[n][j]
        /\ Len(overflow[n]) + 1 \in DOMAIN overflow'[n]
        /\ overflow'[n][Len(overflow[n]) + 1] = i
    BY <1>2, <1>4
  <2>2. ASSUME NEW c \in Cells, Waits(c) PROVE Waits(c)'
    BY <2>1, <2>2 DEF Waits, Queued
  <2>3. Waits(Cell(i, n))'
    BY <1>1, <2>1 DEF Waits, Queued
  <2> QED
    BY <1>4, <2>2, <2>3 DEF InLR, Held
<1>5. ASSUME UNCHANGED <<mirror, overflow>>
      PROVE  \A c \in Cells : Waits(c)' = Waits(c) /\ InLR(c)' = InLR(c)
  BY <1>5 DEF Waits, InLR, Queued, Held
<1>6. ASSUME FreeLRs(n) = {}, UNCHANGED <<pending, active, mirror, lr, overflow>>
      PROVE  Waits(Cell(i, n))
  <2>1. Queued(i, n)
    <3>1. SUFFICES ASSUME ~Queued(i, n) PROVE FALSE
      OBVIOUS
    <3>2. overflow' = [overflow EXCEPT ![n] = Append(@, i)]
      BY <1>6, <3>1 DEF forward_irq, Queued
    <3>3. Len(overflow'[n]) = Len(overflow[n]) + 1 /\ Len(overflow[n]) \in Nat
      BY <1>2, <3>2
    <3> QED
      BY <1>6, <3>3
  <2> QED
    BY <1>1, <2>1 DEF Waits
<1>7. CASE FreeLRs(n) # {}
  <2>1. Cell(i, n) \in pending' /\ pending \subseteq pending'
    BY <1>7 DEF forward_irq, inject_irq, set_pending
  <2>2. \/ \E k \in FreeLRs(n) :
              /\ pending' = pending \cup {Cell(i, n)} /\ mirror' = [mirror EXCEPT ![n][k] = i]
              /\ overflow' = overflow
        \/ /\ UNCHANGED <<mirror, overflow>>
           /\ ~(control = 1 /\ is_enabled(i, n) /\ is_target(i, n) /\ Cell(i, n) \notin active)
    <3>1. FreeLRs(n) \subseteq Nat
      BY <1>1, MachineFacts DEF FreeLRs
    <3>2. Min(FreeLRs(n)) \in FreeLRs(n)
      BY <1>7, <3>1, MinIsElement
    <3> QED
      BY <1>7, <3>2 DEF forward_irq, inject_irq, set_pending
  <2> QED
    BY <1>3, <1>5, <2>1, <2>2
<1>8. CASE FreeLRs(n) = {}
  <2>1. pending' = pending
    BY <1>8 DEF forward_irq
  <2>2. \/ overflow' = [overflow EXCEPT ![n] = Append(@, i)] /\ UNCHANGED mirror
        \/ UNCHANGED <<pending, active, mirror, lr, overflow>>
    BY <1>8 DEF forward_irq
  <2> QED
    BY <1>1, <1>4, <1>5, <1>6, <1>8, <2>1, <2>2
<1> QED
  BY <1>7, <1>8

(* forward_irq() of an interrupt that has been taken leaves it in an LR,   *)
(* in the overflow or pending.                                             *)
LEMMA ForwardTracking ==
    ASSUME IInv, Tracking, UNCHANGED <<vm, control, enable, targets, toAck>>,
           NEW n \in Node, NEW i \in IRQ, forward_irq(n, i),
           "ITARGETSR" \notin vm.writes => is_target(i, n),
           masked' \subseteq masked \cup {Cell(i, n)}, \A c \in masked' : c[1] \notin SGI,
           masked' \subseteq Cells,
           toInject' \subseteq toInject, toInject \subseteq toInject' \cup {<<i, n>>}
    PROVE  Tracking'
<1> USE VMFrame
<1>1. Aimed'
  <2> SUFFICES ASSUME "ITARGETSR" \notin vm.writes, NEW m \in Node, NEW j \in DOMAIN overflow'[m]
               PROVE  is_target(overflow'[m][j], m)
    BY Zenon DEF Tracking, Aimed, is_target
  <2>1. CASE overflow' = overflow
    BY <2>1, Zenon DEF Tracking, Aimed
  <2>2. CASE overflow' = [overflow EXCEPT ![n] = Append(@, i)]
    <3>1. m # n => overflow'[m] = overflow[m]
      BY <2>2 DEF IInv, TypeOK
    <3>2. m = n => overflow'[m][j] = i \/ (j \in DOMAIN overflow[m] /\ overflow'[m][j] = overflow[m][j])
      <4>1. overflow \in [Node -> Seq(IRQ)]
        BY Zenon DEF IInv, TypeOK
      <4>2. overflow'[n] = Append(overflow[n], i) /\ overflow[n] \in Seq(IRQ)
        BY <2>2, <4>1, Zenon
      <4> QED
        BY <4>2, QueueAppend
    <3> QED
      BY <3>1, <3>2 DEF Tracking, Aimed
  <2> QED
    BY <2>1, <2>2, ForwardCases
<1>2. ASSUME NEW c \in masked' \cap enable', control' = 1
      PROVE  Tracked(c)'
  <2>1. c \in Cells /\ vm \in VM
    BY DEF IInv, TypeOK
  <2>2. CASE c = Cell(i, n)
    <3>1. "ICPENDR" \notin vm.writes => Waits(c)' \/ c \in pending'
      BY <2>2, ForwardKeeps, Zenon
    <3>2. ASSUME {"ITARGETSR", "ISACTIVER"} \cap vm.writes = {}
          PROVE  Waits(c)' \/ InLR(c)'
      <4>1. control = 1 /\ is_enabled(i, n) /\ is_target(i, n)
        BY <1>2, <2>2, <3>2, Zenon DEF is_enabled
      <4>2. c \in active => InLR(c)
        BY <3>2 DEF IInv, ActiveIsHeld, InLR
      <4> QED
        BY <2>1, <2>2, <4>1, <4>2, ForwardKeeps, Zenon
    <3> QED
      BY <3>1, <3>2 DEF Tracked
  <2>3. CASE c # Cell(i, n)
    <3>1. c \in masked \cap enable /\ Tracked(c)
      BY <1>2, <2>3 DEF Tracking
    <3>2. (Waits(c) => Waits(c)') /\ (InLR(c) => InLR(c)') /\ (c \in pending => c \in pending')
      BY <2>1, ForwardKeeps, Zenon
    <3>3. AckedCells(toAck)' = AckedCells(toAck)
      BY Zenon DEF AckedCells
    <3>4. c \in AckedCells(toInject) => c \in AckedCells(toInject)'
      BY <2>3 DEF AckedCells
    <3> QED
      BY <3>1, <3>2, <3>3, <3>4, Zenon DEF Tracked
  <2> QED
    BY <2>2, <2>3, Zenon
<1> QED
  BY <1>1, <1>2, Zenon DEF Tracking

(* handle_maintenance(): the interrupt that was ended is unmasked, and the *)
(* head of the overflow goes to the LR, or becomes pending where it is     *)
(* disabled, or is in another LR already.                                  *)
LEMMA MaintenanceTracking ==
    ASSUME IInv, IInv', Tracking, UNCHANGED vm, NEW n \in Node, handle_maintenance(n)
    PROVE  Tracking'
<1> USE VMFrame
<1>1. vm \in VM /\ None \notin IRQ /\ overflow \in [Node -> Seq(IRQ)]
  BY MachineFacts DEF IInv, TypeOK
<1>2. PICK k \in LR :
         /\ ended[n] = k /\ mirror[n][k] \in IRQ
         /\ NothingWaited(n, k) \/ HeadTakesLR(n, k) \/ HeadIsDropped(n, k)
  BY MaintenanceCases, Zenon
<1> DEFINE d == Cell(mirror[n][k], n)
           h == Head(overflow[n])
<1>3. UNCHANGED <<control, enable, targets, toAck, toInject>> /\ masked' = masked \ {d}
  BY <1>2 DEF handle_maintenance, Unmasked, AckedCells, dist, work
<1>4. pending \ {d} \subseteq pending' /\ (overflow[n] # <<>> => Cell(h, n) \in pending')
  <2> DEFINE acked == AckedPending({<<mirror[n][k], n>>})
  <2>1. acked \subseteq {d}
    BY DEF AckedPending
  <2>2. \/ overflow[n] # <<>> /\ pending' = (pending \ acked) \cup {Cell(h, n)}
        \/ overflow[n] = <<>> /\ pending' = pending \ acked
    BY <1>2, Zenon DEF handle_maintenance, inject_irq, set_pending
  <2> HIDE DEF acked, d
  <2> QED
    BY <2>1, <2>2
<1>5. \A m \in Node : m # n => overflow'[m] = overflow[m]
  BY <1>1, <1>2 DEF NothingWaited, HeadTakesLR, HeadIsDropped
<1>6. \A m \in Node, l \in LR : m # n \/ l # k => mirror'[m][l] = mirror[m][l]
  <2>1. mirror \in [Node -> [LR -> IRQ \cup {None}]]
    BY Zenon DEF IInv, TypeOK
  <2> QED
    BY <1>2, <2>1 DEF NothingWaited, HeadTakesLR, HeadIsDropped, Cleared
<1>7. /\ overflow'[n] = IF overflow[n] = <<>> THEN overflow[n] ELSE Tail(overflow[n])
      /\ overflow[n] \in Seq(IRQ)
  BY <1>1, <1>2, Zenon DEF NothingWaited, HeadTakesLR, HeadIsDropped
<1>8. \A j \in DOMAIN overflow'[n] :
         \/ j + 1 \in DOMAIN overflow[n] /\ overflow'[n][j] = overflow[n][j + 1]
         \/ overflow'[n] = overflow[n]
  <2>1. CASE overflow[n] = <<>>
    BY <1>7, <2>1
  <2>2. CASE overflow[n] # <<>>
    <3>1. overflow'[n] = Tail(overflow[n])
      BY <1>7, <2>2
    <3> QED
      BY <1>7, <2>2, <3>1, QueueTail
  <2> QED
    BY <2>1, <2>2
<1>9. \A j \in DOMAIN overflow[n] :
         \/ overflow[n] # <<>> /\ overflow[n][j] = h
         \/ j - 1 \in DOMAIN overflow'[n] /\ overflow'[n][j - 1] = overflow[n][j]
  <2>1. CASE overflow[n] = <<>>
    BY <2>1
  <2>2. CASE overflow[n] # <<>>
    <3>1. overflow'[n] = Tail(overflow[n])
      BY <1>7, <2>2
    <3> QED
      BY <1>7, <2>2, <3>1, QueueTail
  <2> QED
    BY <2>1, <2>2
<1> HIDE DEF d
<1>10. Aimed'
  <2> SUFFICES ASSUME "ITARGETSR" \notin vm.writes, NEW m \in Node, NEW j \in DOMAIN overflow'[m]
               PROVE  is_target(overflow'[m][j], m)
    BY <1>3, Zenon DEF Tracking, Aimed, is_target
  <2> QED
    BY <1>5, <1>8 DEF Tracking, Aimed
<1>11. ASSUME NEW c \in masked' \cap enable', control' = 1
       PROVE  Tracked(c)'
  <2>1. c \in masked \cap enable /\ c # d /\ Tracked(c) /\ c \in Cells /\ control = 1
    BY <1>3, <1>11 DEF Tracking, IInv, TypeOK
  <2>2. InLR(c) => InLR(c)'
    <3> SUFFICES ASSUME InLR(c) PROVE InLR(c)'
      OBVIOUS
    <3>1. PICK m \in Node, l \in LR : Cell(c[1], m) = c /\ mirror[m][l] = c[1]
      BY DEF InLR, Held
    <3>2. m # n \/ l # k
      BY <2>1, <3>1 DEF d
    <3>3. mirror'[m][l] = c[1]
      BY <1>6, <3>1, <3>2, Zenon
    <3> QED
      BY <3>1, <3>3, Zenon DEF InLR, Held
  <2>3. Waits(c) => Waits(c)' \/ (overflow[n] # <<>> /\ c = Cell(h, n))
    <3> SUFFICES ASSUME Waits(c) PROVE Waits(c)' \/ (overflow[n] # <<>> /\ c = Cell(h, n))
      OBVIOUS
    <3>1. PICK m \in Node : Cell(c[1], m) = c /\ \E j \in DOMAIN overflow[m] : overflow[m][j] = c[1]
      BY DEF Waits, Queued
    <3>2. CASE m # n
      BY <1>5, <3>1, <3>2 DEF Waits, Queued
    <3>3. CASE m = n
      BY <1>9, <3>1, <3>3 DEF Waits, Queued
    <3> QED
      BY <3>2, <3>3
  <2>4. ASSUME {"ITARGETSR", "ISACTIVER"} \cap vm.writes = {}, overflow[n] # <<>>, c = Cell(h, n)
        PROVE  InLR(c)'
    <3>1. h \in IRQ /\ c[1] = h /\ h # None /\ h = overflow[n][1] /\ 1 \in DOMAIN overflow[n]
      <4>1. h \in IRQ /\ h = overflow[n][1] /\ 1 \in DOMAIN overflow[n]
        BY <1>7, <2>4, QueueTail, Zenon
      <4> QED
        BY <1>1, <2>4, <4>1, CellType
    <3>2. CASE HeadTakesLR(n, k)
      <4>1. mirror'[n][k] = h
        BY <3>2 DEF HeadTakesLR, IInv, TypeOK
      <4> QED
        BY <2>4, <3>1, <4>1 DEF InLR, Held
    <3>3. CASE HeadIsDropped(n, k)
      <4>1. is_target(h, n) /\ is_enabled(h, n)
        BY <2>1, <2>4, <3>1, Zenon DEF Tracking, Aimed, is_enabled
      <4>2. c \in active
        BY <2>1, <2>4, <3>3, <4>1, Zenon DEF HeadIsDropped
      <4>3. InLR(c)
        BY <2>4, <4>2 DEF IInv, ActiveIsHeld, InLR
      <4> QED
        BY <2>2, <4>3
    <3> QED
      BY <1>2, <2>4, <3>2, <3>3, Zenon DEF NothingWaited
  <2>5. AckedCells(toAck)' = AckedCells(toAck) /\ AckedCells(toInject)' = AckedCells(toInject)
    BY <1>3, Zenon DEF AckedCells
  <2> QED
    BY <1>3, <1>4, <2>1, <2>2, <2>3, <2>4, <2>5, Zenon DEF Tracked
<1> QED
  BY <1>3, <1>10, <1>11 DEF Tracking

(* The register writes: those that may make something due sweep for it.    *)
LEMMA WriteTracking ==
    ASSUME IInv, IInv', Tracking, UNCHANGED vm, NEW n \in Node, GuestWrite(n)
    PROVE  Tracking'
<1> USE VMFrame DEF Write, Handles, InjectAndAckIRQs, NoAction, dist, state, lrs, work
<1>1. /\ UNCHANGED <<masked, mirror, overflow>> /\ toAck = {} /\ toInject = {}
  <2>1. \E reg : Write(n, reg)
    BY Zenon DEF GuestWrite, GICD_CTLR, GICD_ISENABLERn, GICD_ICENABLERn, GICD_ISPENDRn, GICD_ICPENDRn,
           GICD_ISACTIVERn, GICD_ICACTIVERn, GICD_ITARGETSRn, GICD_SGIR, GICD_CPENDSGIRn,
           GICD_SPENDSGIRn
  <2> QED
    BY <2>1, Zenon DEF IInv, TypeOK
<1>2. ASSUME NEW val \in {0, 1}, GICD_CTLR(n, val) PROVE Tracking'
  <2>1. UNCHANGED <<enable, targets, pending>> /\ control' = val
    BY <1>2, Zenon DEF GICD_CTLR
  <2>2. CASE val = 1 /\ control = 0
    <3>1. /\ toAck' = sweep_irqs_to_ack(IRQ)' /\ toInject' = sweep_irqs_to_inject(IRQ)'
      BY <1>2, <2>2 DEF GICD_CTLR
    <3>2. \A c \in enable' : c[1] \in IRQ
      BY <2>1, CellIRQ DEF IInv, TypeOK
    <3>3. PICK irqs : irqs = IRQ
      OBVIOUS
    <3>4. /\ sweep_irqs_to_ack(IRQ)' = sweep_irqs_to_ack(irqs)'
          /\ sweep_irqs_to_inject(IRQ)' = sweep_irqs_to_inject(irqs)'
      BY <3>3 DEF sweep_irqs_to_ack, sweep_irqs_to_inject
    <3> QED
      BY <1>1, <2>1, <3>1, <3>2, <3>3, <3>4, SweepTracking
  <2>3. CASE ~(val = 1 /\ control = 0)
    <3>1. control' = 1 => control = 1
      BY <2>1, <2>3, Zenon DEF IInv, TypeOK
    <3>2. UNCHANGED <<toAck, toInject>>
      BY <1>2, <2>3, Zenon DEF GICD_CTLR
    <3> QED
      BY <1>1, <2>1, <3>1, <3>2, QuietTracking
  <2> QED
    BY <2>2, <2>3
<1>3. ASSUME NEW r \in Reg, NEW val \in SUBSET InReg(r), GICD_ISENABLERn(n, r, val)
      PROVE  Tracking'
  <2>1. UNCHANGED <<control, targets, pending>> /\ enable' = enable \cup Written(val, n)
    BY <1>3, Zenon DEF GICD_ISENABLERn
  <2>2. PICK irqs : irqs = InReg(r)
    OBVIOUS
  <2>3. irqs \subseteq IRQ /\ irqs = InReg(r)'
    BY <2>2 DEF InReg
  <2>4. /\ sweep_irqs_to_ack(InReg(r))' = sweep_irqs_to_ack(irqs)'
        /\ sweep_irqs_to_inject(InReg(r))' = sweep_irqs_to_inject(irqs)'
    BY <2>3 DEF sweep_irqs_to_ack, sweep_irqs_to_inject
  <2>5. \A c \in enable' : c[1] \notin irqs => c \in enable
    <3>1. \A i : Cell(i, n)[1] = i
      BY DEF Cell
    <3> QED
      BY <2>1, <2>2, <3>1 DEF Written
  <2>6. toAck' = sweep_irqs_to_ack(irqs)' /\ toInject' = sweep_irqs_to_inject(irqs)'
    BY <1>3, <2>4, Zenon DEF GICD_ISENABLERn
  <2> QED
    BY <1>1, <2>1, <2>3, <2>5, <2>6, SweepTracking, Zenon
<1>4. ASSUME NEW r \in Reg, NEW val \in SUBSET InReg(r),
             \/ GICD_ICENABLERn(n, r, val) \/ GICD_ICPENDRn(n, r, val)
             \/ GICD_ISACTIVERn(n, r, val) \/ GICD_ICACTIVERn(n, r, val)
      PROVE  Tracking'
  <2>1. /\ UNCHANGED <<control, targets, toAck, toInject>> /\ enable' \subseteq enable
        /\ "ICPENDR" \in vm.writes \/ pending' = pending
    BY <1>4, Zenon DEF GICD_ICENABLERn, GICD_ICPENDRn, GICD_ISACTIVERn, GICD_ICACTIVERn
  <2> QED
    BY <1>1, <2>1, QuietTracking, Zenon
<1>5. ASSUME NEW r \in Reg, NEW val \in SUBSET InReg(r), GICD_ISPENDRn(n, r, val)
      PROVE  Tracking'
  <2>1. UNCHANGED <<control, enable, targets>> /\ pending \subseteq pending'
    BY <1>5, Zenon DEF GICD_ISPENDRn
  <2>2. \A p \in toInject' : is_target(p[1], p[2])'
    BY <1>5, Zenon DEF GICD_ISPENDRn, sweep_irqs_to_inject, FirstOf, should_inject
  <2> QED
    BY <1>1, <2>1, <2>2, QuietTracking
<1>6. ASSUME NEW of \in SUBSET SPI, NEW val \in [of -> SUBSET Node], GICD_ITARGETSRn(n, val)
      PROVE  Tracking'
  <2>1. /\ UNCHANGED <<control, enable, pending>> /\ "ITARGETSR" \in vm.writes
        /\ \A i \in SPI : targets'[i] = IF i \in of THEN val[i] ELSE targets[i]
    BY <1>6, Zenon DEF GICD_ITARGETSRn
  <2>2. CASE InjectAndAckIRQs(n, DOMAIN val, TRUE)
    <3>1. of \subseteq IRQ /\ DOMAIN val = of
      BY MachineFacts, Zenon DEF IInv, TypeOK
    <3>2. toAck' = sweep_irqs_to_ack(of)' /\ toInject' = sweep_irqs_to_inject(of)'
      BY <2>2, <3>1
    <3> QED
      BY <1>1, <2>1, <3>1, <3>2, SweepTracking, Zenon
  <2>3. CASE (\A i \in DOMAIN val : val[i] \subseteq targets[i]) /\ NoAction
    BY <1>1, <2>1, <2>3, QuietTracking
  <2> QED
    BY <1>6, <2>2, <2>3, Zenon DEF GICD_ITARGETSRn
<1>7. ASSUME NEW i \in SGI, NEW cpus \in SUBSET Node, GICD_SGIR(n, i, cpus)
      PROVE  Tracking'
  <2>1. UNCHANGED <<control, enable, targets>> /\ pending \subseteq pending'
    BY <1>7 DEF GICD_SGIR
  <2>2. \A p \in toInject' : is_target(p[1], p[2])'
    BY <1>7, Zenon DEF GICD_SGIR, should_inject
  <2> QED
    BY <1>1, <2>1, <2>2, QuietTracking
<1>8. ASSUME NEW r, NEW val, GICD_CPENDSGIRn(n, r, val) \/ GICD_SPENDSGIRn(n, r, val)
      PROVE  Tracking'
  <2>1. UNCHANGED <<control, enable, targets>>
    BY <1>8, Zenon DEF GICD_CPENDSGIRn, GICD_SPENDSGIRn
  <2>2. \A c \in pending : c \in pending' \/ c[1] \in SGI
    <3>1. \A i : Cell(i, n)[1] = i
      BY DEF Cell
    <3>2. CASE GICD_CPENDSGIRn(n, r, val)
      <4>1. PICK S \in SUBSET SGI : pending' = pending \ {Cell(i, n) : i \in S}
        BY <3>2, Zenon DEF GICD_CPENDSGIRn, InSGIReg
      <4> QED
        BY <3>1, <4>1
    <3>3. CASE GICD_SPENDSGIRn(n, r, val)
      BY <3>3, Zenon DEF GICD_SPENDSGIRn
    <3> QED
      BY <1>8, <3>2, <3>3
  <2>3. \A p \in toInject' : is_target(p[1], p[2])'
    BY <1>1, <1>8, Zenon DEF GICD_CPENDSGIRn, GICD_SPENDSGIRn, sweep_irqs_to_inject, FirstOf, should_inject
  <2> QED
    BY <1>1, <2>1, <2>2, <2>3, QuietTracking
<1> QED
  BY <1>2, <1>3, <1>4, <1>5, <1>6, <1>7, <1>8, Zenon DEF GuestWrite

(* Every step of the guests, the kernel and the VMM's threads.             *)
LEMMA NextTracking == IInv /\ IInv' /\ Tracking /\ [Next]_vars => Tracking'
<1> SUFFICES ASSUME IInv, IInv', Tracking, [Next]_vars PROVE Tracking'
  OBVIOUS
<1> USE VMFrame DEF dist, state, lrs, work
<1>1. vm \in VM /\ PPI \subseteq IRQ /\ SPI \subseteq IRQ /\ vm.spi_node \in Node
  BY MachineFacts, Zenon DEF IInv, TypeOK
<1>2. ASSUME UNCHANGED vm, NEW n \in Node, NEW i \in PPI, handle_irq_ppi(n, i)
      PROVE  Tracking'
  <2>1. i \notin SGI /\ i \notin SPI /\ Cell(i, n)[1] = i
    BY MachineFacts, <1>1 DEF SGI, PPI, SPI, Cell
  <2>2. masked' \subseteq masked \cup {Cell(i, n)}
    BY <1>2 DEF handle_irq_ppi
  <2>3. is_target(i, n) /\ \A c \in masked' : c[1] \notin SGI
    BY <2>1, <2>2 DEF is_target, Tracking
  <2>4. forward_irq(n, i) /\ UNCHANGED <<control, enable, targets, toAck, toInject>>
    BY <1>2 DEF handle_irq_ppi
  <2>5. masked' \subseteq Cells
    BY <1>2 DEF IInv, TypeOK
  <2> QED
    BY <1>1, <1>2, <2>2, <2>3, <2>4, <2>5, ForwardTracking, Zenon
<1>3. ASSUME UNCHANGED vm, NEW i \in SPI, handle_irq_spi(i)
      PROVE  Tracking'
  <2>1. i \notin SGI /\ \A n : Cell(i, n) = <<i, 0>>
    BY MachineFacts, <1>1 DEF SGI, SPI, Cell
  <2>2. masked' \subseteq masked \cup {<<i, 0>>}
    BY <1>3, <2>1 DEF handle_irq_spi
  <2>3. (\A c \in masked' : c[1] \notin SGI) /\ masked' \subseteq Cells
    BY <1>3, <2>1, <2>2 DEF Tracking, IInv, TypeOK
  <2>4. UNCHANGED <<control, enable, targets, toAck, toInject>>
    BY <1>3 DEF handle_irq_spi
  <2>5. ASSUME NEW n \in Node, n \in targets[i], forward_irq(n, i)
        PROVE  Tracking'
    <3>1. is_target(i, n)
      BY <2>5 DEF is_target
    <3> QED
      BY <1>1, <1>3, <2>1, <2>2, <2>3, <2>4, <2>5, <3>1, ForwardTracking, Zenon
  <2>6. CASE targets[i] = {} /\ UNCHANGED <<pending, active, lrs>>
    <3>1. "ITARGETSR" \in vm.writes
      BY <2>6 DEF Tracking, Aimed
    <3>2. ASSUME NEW c \in masked' \cap enable, control = 1
          PROVE  Tracked(c)'
      <4>1. CASE c = <<i, 0>>
        BY <1>3, <2>4, <2>6, <3>1, <4>1 DEF Tracked
      <4>2. CASE c # <<i, 0>>
        <5>1. Tracked(c)
          BY <2>2, <3>2, <4>2 DEF Tracking
        <5>2. Waits(c)' = Waits(c) /\ AckedCells(toAck)' = AckedCells(toAck)
          BY <1>3, <2>4, <2>6 DEF Waits, Queued, AckedCells
        <5> QED
          BY <1>3, <2>4, <2>6, <3>1, <5>1, <5>2, Zenon DEF Tracked
      <4> QED
        BY <4>1, <4>2
    <3> QED
      BY <1>3, <2>3, <2>4, <3>1, <3>2 DEF Tracking, Aimed
  <2>7. targets[i] # {} => Min(targets[i]) \in targets[i] /\ Min(targets[i]) \in Node
    <3>1. targets[i] \subseteq Node /\ Node \subseteq Nat
      BY MachineFacts, Zenon DEF IInv, TypeOK
    <3> QED
      BY <3>1, MinIsElement, Zenon
  <2> QED
    BY <1>1, <1>3, <2>5, <2>6, <2>7 DEF handle_irq_spi, is_target
<1>4. ASSUME UNCHANGED vm, Inject PROVE Tracking'
  <2>1. PICK p \in toInject : forward_irq(p[2], p[1]) /\ toInject' = toInject \ {p}
    BY <1>4 DEF Inject
  <2>2. p[1] \in IRQ /\ p[2] \in Node /\ p = <<p[1], p[2]>>
    <3>1. toInject \subseteq IRQ \X Node
      BY Zenon DEF IInv, TypeOK
    <3> QED
      BY <3>1
  <2>3. UNCHANGED <<control, enable, targets, toAck, masked>>
    BY <1>4 DEF Inject
  <2>4. "ITARGETSR" \notin vm.writes => is_target(p[1], p[2])
    BY DEF Tracking, Aimed
  <2>5. (\A c \in masked' : c[1] \notin SGI) /\ masked' \subseteq Cells
    BY <1>4, <2>3 DEF Tracking, IInv, TypeOK
  <2> QED
    BY <1>4, <2>1, <2>2, <2>3, <2>4, <2>5, ForwardTracking
<1>5. ASSUME UNCHANGED <<vm, control, enable, targets, pending, masked, mirror, overflow,
                         toAck, toInject>>
      PROVE  Tracking'
  BY <1>5, QuietTracking, Zenon
<1>6. CASE Next
  <2>1. UNCHANGED vm
    BY <1>6 DEF Next
  <2>2. ASSUME NEW n \in Node, GuestWrite(n) \/ handle_maintenance(n) PROVE Tracking'
    BY <2>1, <2>2, WriteTracking, MaintenanceTracking
  <2>3. CASE \/ \E n \in Node, target \in Node : CpuOn(n, target)
             \/ \E n \in Node, k \in LR : EndOfInterrupt(n, k)
             \/ WriteDone
    BY <1>5, <2>1, <2>3 DEF CpuOn, EndOfInterrupt, WriteDone
  <2> QED
    BY <1>2, <1>3, <1>4, <1>6, <2>1, <2>2, <2>3, AcknowledgeTracking DEF Next, WriteStep
<1>7. CASE UNCHANGED vars
  BY <1>5, <1>7 DEF vars
<1> QED
  BY <1>6, <1>7

(* An interrupt that the guest has enabled and whose source is masked is   *)
(* in an LR or waits for one, and is pending or waits, in every machine    *)
(* whose guest does not undo that itself: the sweeps of handle_write() and *)
(* the overflow forget nothing.                                            *)
THEOREM SpecTakenIsTracked == Spec => []TakenIsTracked
<1>1. IInv /\ Tracking => TakenIsTracked
  <2> SUFFICES ASSUME IInv, Tracking, caller = None, control = 1, NEW c \in masked \cap enable
               PROVE  /\ {"ITARGETSR", "ISACTIVER"} \cap vm.writes = {} => Waits(c) \/ InLR(c)
                      /\ "ICPENDR" \notin vm.writes /\ (c[1] \in SPI => targets[c[1]] # {}) =>
                            Waits(c) \/ c \in pending
    BY Zenon DEF TakenIsTracked
  <2>1. AckedCells(toAck) = {} /\ AckedCells(toInject) = {}
    BY DEF IInv, TypeOK, AckedCells
  <2> QED
    BY <2>1, Zenon DEF Tracking, Tracked
<1>2. Spec => []Tracking
  BY InitTracking, NextTracking, SpecIInv, PTL DEF Spec
<1> QED
  BY <1>1, <1>2, SpecIInv, PTL
=============================================================================
