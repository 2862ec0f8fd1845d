---------------------------- MODULE GICInvariant ----------------------------
(***************************************************************************)
(* An inductive invariant of GIC, for every virtual machine that           *)
(* VMAssumption admits: any number of nodes and list registers, any        *)
(* interrupts, and a guest that writes any of the registers; and its proof *)
(* for the initial states and for every handler.  The steps between them,  *)
(* and the theorems, are in GICProofs.                                     *)
(*                                                                         *)
(* MirrorInSync and ActiveIsHeld are inductive together with the types.    *)
(* BacklogIsServed needs more: an LR that is freed is refilled at once     *)
(* from the overflow, so that nothing waits beside a free LR (Backlog).    *)
(***************************************************************************)
EXTENDS GIC, WellFoundedInduction, TLAPS

(* While anything waits for an LR of n, all of them are in use; what waits *)
(* is not active, and waits once, so that it is injected at its turn.      *)
Waiting ==
    \A n \in Node :
        /\ overflow[n] # <<>> => control = 1 /\ FreeLRs(n) = {}
        /\ \A j \in 1 .. Len(overflow[n]) :
              /\ Cell(overflow[n][j], n) \notin active
              /\ \A l \in 1 .. Len(overflow[n]) : overflow[n][l] = overflow[n][j] => l = j

Backlog ==
    Steady =>
        /\ Waiting
        /\ \A i \in IRQ, n \in Node : Cell(i, n) \in enable
        /\ \A p \in toInject : control = 1 /\ Cell(p[1], p[2]) \notin active

IInv == TypeOK /\ MirrorInSync /\ ActiveIsHeld /\ Backlog

----------------------------------------------------------------------------
(* The least element of a set of natural numbers.                          *)
LEMMA MinIsElement ==
    ASSUME NEW S, S \subseteq Nat, S # {}
    PROVE  Min(S) \in S /\ \A y \in S : Min(S) <= y
<1> DEFINE Less == OpToRel(<, Nat)
<1>1. \A x, y \in S : y < x => <<y, x>> \in Less
  BY DEF OpToRel
<1>2. IsWellFoundedOn(Less, Nat)
  BY NatLessThanWellFounded, Zenon
<1> HIDE DEF Less
<1>3. PICK x \in S : \A y \in S : ~(<<y, x>> \in Less)
  BY <1>2, WFMin, Zenon
<1>4. \A y \in S : x =< y
  <2> TAKE y \in S
  <2>1. ~(y < x)
    BY <1>1, <1>3, Zenon
  <2> QED
    BY <2>1
<1> QED
  BY <1>4, Zenon DEF Min

(* What the assumption says of the machine: the number that stands for no  *)
(* interrupt is not one, and no LR or node has it.                         *)
LEMMA MachineFacts ==
    ASSUME vm \in VM
    PROVE  /\ Node \subseteq Nat /\ 0 \in Node /\ None \notin Node /\ vm.spi_node \in Node
           /\ LR \subseteq Nat /\ LR # {} /\ None \notin LR
           /\ IRQ \subseteq Nat /\ None \notin IRQ
           /\ SGI \subseteq IRQ /\ PPI \subseteq IRQ /\ SPI \subseteq IRQ
<1>1. /\ vm.nodes \in 1 .. 8 /\ vm.lrs \in 1 .. 64 /\ vm.spi_node \in 0 .. vm.nodes - 1
      /\ vm.irqs \subseteq 0 .. 1019
  BY VMAssumption
<1>2. Node \subseteq Nat /\ 0 \in Node /\ None \notin Node /\ vm.spi_node \in Node
  BY <1>1 DEF Node, None
<1>3. LR \subseteq Nat /\ 0 \in LR /\ None \notin LR
  BY <1>1 DEF LR, None
<1>4. IRQ \subseteq Nat /\ None \notin IRQ
  <2>1. \A i \in IRQ : i \in 0 .. 1019
    BY <1>1 DEF IRQ
  <2>2. ASSUME NEW i \in 0 .. 1019 PROVE i \in Nat /\ i # None
    BY <2>2 DEF None
  <2>3. ASSUME NEW i \in IRQ PROVE i \in Nat /\ i # None
    BY <2>1, <2>2
  <2> QED
    BY <2>3
<1>5. SGI \subseteq IRQ /\ PPI \subseteq IRQ /\ SPI \subseteq IRQ
  BY DEF IRQ, SGI, PPI, SPI
<1> QED
  BY <1>2, <1>3, <1>4, <1>5

(* The cell of an interrupt at a node is one of the machine's.             *)
LEMMA CellType ==
    ASSUME vm \in VM, NEW i \in IRQ, NEW n \in Node
    PROVE  Cell(i, n) \in Cells /\ Cell(i, n)[1] = i
BY DEF Cells, Cell

(* A cell belongs to an interrupt.                                         *)
LEMMA CellIRQ ==
    ASSUME NEW c \in Cells
    PROVE  c[1] \in IRQ
BY DEF Cells, Cell

(* reset() *)
LEMMA InitIInv == Init => IInv
<1> SUFFICES ASSUME Init PROVE IInv
  OBVIOUS
<1>1. vm \in VM
  BY DEF Init
<1>2. TypeOK
  <2>1. /\ vm \in VM /\ on \subseteq Node /\ control \in {0, 1}
        /\ pending \subseteq Cells /\ active \subseteq Cells /\ masked \subseteq Cells
    BY <1>1, MachineFacts DEF Init
  <2>2. enable \subseteq Cells
    BY <1>1, MachineFacts DEF Init, Cells
  <2>3. targets \in [SPI -> SUBSET Node] /\ sgi_pending \subseteq SGI \X Node \X Node
    BY <1>1, MachineFacts DEF Init
  <2>4. /\ mirror \in [Node -> [LR -> IRQ \cup {None}]]
        /\ lr \in [Node -> [LR -> IRQ \cup {None}]]
        /\ overflow \in [Node -> Seq(IRQ)]
        /\ ended \in [Node -> LR \cup {None}]
    BY DEF Init
  <2> QED
    BY <2>1, <2>2, <2>3, <2>4 DEF Init, TypeOK
<1>3. MirrorInSync
  BY <1>1, MachineFacts DEF Init, MirrorInSync
<1>4. ActiveIsHeld
  BY DEF Init, ActiveIsHeld
<1>5. Backlog
  BY DEF Init, Backlog, Waiting, Steady
<1> QED
  BY <1>2, <1>3, <1>4, <1>5 DEF IInv

----------------------------------------------------------------------------
(* The machine stays the same.                                             *)
LEMMA VMFrame ==
    ASSUME UNCHANGED vm
    PROVE  /\ Node' = Node /\ LR' = LR /\ IRQ' = IRQ /\ SGI' = SGI /\ PPI' = PPI /\ SPI' = SPI
           /\ Cells' = Cells /\ Steady' = Steady
           /\ \A i, n : Cell(i, n)' = Cell(i, n)
<1>1. Node' = Node /\ LR' = LR /\ IRQ' = IRQ /\ SGI' = SGI /\ PPI' = PPI /\ SPI' = SPI
  BY DEF Node, LR, IRQ, SGI, PPI, SPI
<1>2. \A i, n : Cell(i, n)' = Cell(i, n)
  BY <1>1 DEF Cell
<1>3. Cells' = Cells
  BY <1>1 DEF Cells, Cell
<1> QED
  BY <1>1, <1>2, <1>3 DEF Steady

(* In a machine with nothing but SGIs, a cell is a pair of interrupt and   *)
(* node.                                                                   *)
LEMMA SteadyCell ==
    ASSUME vm \in VM, Steady, NEW i \in IRQ, NEW n
    PROVE  Cell(i, n) = <<i, n>> /\ i \notin PPI /\ i \notin SPI
<1>1. i \in Nat /\ i \in SGI
  BY MachineFacts DEF Steady
<1>2. i < 16
  BY <1>1 DEF SGI
<1>3. i \notin PPI /\ i \notin SPI
  BY <1>1, <1>2 DEF PPI, SPI
<1> QED
  BY <1>3 DEF Cell

(* A step that leaves the LRs and the overflow alone, and makes nothing    *)
(* active.                                                                 *)
LEMMA QuietStep ==
    ASSUME IInv, UNCHANGED <<vm, lrs, ended>>, active' \subseteq active
    PROVE  MirrorInSync' /\ ActiveIsHeld'
<1> USE VMFrame DEF lrs
<1>1. MirrorInSync'
  BY DEF IInv, MirrorInSync
<1>2. ActiveIsHeld'
  BY DEF IInv, ActiveIsHeld, Held
<1> QED
  BY <1>1, <1>2

(* The same for what waits: it does not when the enable bits and the       *)
(* control register keep what waits injectable.                            *)
LEMMA QuietBacklog ==
    ASSUME IInv, UNCHANGED <<vm, mirror, overflow>>, active' \subseteq active,
           Steady => /\ control = 1 => control' = 1
                     /\ enable \subseteq enable'
                     /\ \A p \in toInject' : control' = 1 /\ Cell(p[1], p[2]) \notin active'
    PROVE  Backlog'
<1> USE VMFrame
<1> SUFFICES ASSUME Steady
             PROVE  /\ Waiting'
                    /\ \A i \in IRQ, n \in Node : Cell(i, n) \in enable'
                    /\ \A p \in toInject' : control' = 1 /\ Cell(p[1], p[2]) \notin active'
  BY Zenon DEF Backlog, Cell
<1>1. Waiting'
  <2>1. Waiting
    BY DEF IInv, Backlog
  <2>2. \A n \in Node : FreeLRs(n)' = FreeLRs(n)
    BY DEF FreeLRs
  <2> QED
    BY <2>1, <2>2, Zenon DEF Waiting, Cell
<1> QED
  BY <1>1 DEF IInv, Backlog

(* forward_irq(): the interrupt goes to an LR that is free, to the end of  *)
(* the overflow, or nowhere.                                               *)
LEMMA ForwardCases ==
    ASSUME IInv, NEW n \in Node, NEW i \in IRQ, forward_irq(n, i)
    PROVE  \/ \E k \in FreeLRs(n) :
                 /\ pending' = pending \cup {Cell(i, n)} /\ active' = active \cup {Cell(i, n)}
                 /\ mirror' = [mirror EXCEPT ![n][k] = i] /\ lr' = [lr EXCEPT ![n][k] = i]
                 /\ overflow' = overflow
           \/ /\ pending' = pending \cup {Cell(i, n)} /\ FreeLRs(n) # {}
              /\ ~(control = 1 /\ is_enabled(i, n) /\ is_target(i, n) /\ Cell(i, n) \notin active)
              /\ UNCHANGED <<active, mirror, lr, overflow>>
           \/ /\ FreeLRs(n) = {} /\ ~Queued(i, n)
              /\ overflow' = [overflow EXCEPT ![n] = Append(@, i)]
              /\ UNCHANGED <<pending, active, mirror, lr>>
           \/ UNCHANGED <<pending, active, mirror, lr, overflow>>
<1>1. CASE FreeLRs(n) # {}
  <2>1. FreeLRs(n) \subseteq Nat
    BY MachineFacts DEF FreeLRs, IInv, TypeOK
  <2>2. Min(FreeLRs(n)) \in FreeLRs(n)
    BY <1>1, <2>1, MinIsElement
  <2>3. inject_irq(n, Min(FreeLRs(n)), i, pending, active, mirror) /\ UNCHANGED overflow
    BY <1>1 DEF forward_irq
  <2> QED
    BY <1>1, <2>2, <2>3 DEF inject_irq, set_pending, set_active, vcpu_inject_irq
<1>2. CASE FreeLRs(n) = {}
  BY <1>2 DEF forward_irq, Queued
<1> QED
  BY <1>1, <1>2

(* What the LRs, the mirror and the overflow are after that.               *)
LEMMA ForwardTypes ==
    ASSUME IInv, NEW n \in Node, NEW i \in IRQ, forward_irq(n, i)
    PROVE  /\ pending' \subseteq Cells /\ active' \subseteq Cells
           /\ active' \subseteq active \cup {Cell(i, n)}
           /\ mirror' \in [Node -> [LR -> IRQ \cup {None}]]
           /\ lr' \in [Node -> [LR -> IRQ \cup {None}]]
           /\ overflow' \in [Node -> Seq(IRQ)]
<1>1. Cell(i, n) \in Cells
  BY CellType DEF IInv, TypeOK
<1>2. \A k \in FreeLRs(n) : k \in LR
  BY DEF FreeLRs
<1>3. ASSUME NEW k \in FreeLRs(n)
      PROVE  /\ [mirror EXCEPT ![n][k] = i] \in [Node -> [LR -> IRQ \cup {None}]]
             /\ [lr EXCEPT ![n][k] = i] \in [Node -> [LR -> IRQ \cup {None}]]
  BY <1>2, <1>3 DEF IInv, TypeOK
<1>4. [overflow EXCEPT ![n] = Append(@, i)] \in [Node -> Seq(IRQ)]
  BY DEF IInv, TypeOK
<1>5. /\ pending \subseteq Cells /\ active \subseteq Cells
      /\ mirror \in [Node -> [LR -> IRQ \cup {None}]]
      /\ lr \in [Node -> [LR -> IRQ \cup {None}]]
      /\ overflow \in [Node -> Seq(IRQ)]
  BY DEF IInv, TypeOK
<1>6. /\ mirror' \in [Node -> [LR -> IRQ \cup {None}]]
      /\ lr' \in [Node -> [LR -> IRQ \cup {None}]]
  <2>1. CASE UNCHANGED <<mirror, lr>>
    BY <1>5, <2>1
  <2>2. CASE \E k \in FreeLRs(n) : /\ mirror' = [mirror EXCEPT ![n][k] = i]
                                  /\ lr' = [lr EXCEPT ![n][k] = i]
    BY <1>3, <2>2
  <2> QED
    BY <2>1, <2>2, ForwardCases
<1>7. overflow' \in [Node -> Seq(IRQ)]
  BY <1>4, <1>5, ForwardCases, Zenon
<1>8. /\ pending' \subseteq Cells /\ active' \subseteq Cells
      /\ active' \subseteq active \cup {Cell(i, n)}
  BY <1>1, <1>5, ForwardCases
<1> QED
  BY <1>6, <1>7, <1>8

(* forward_irq() enters an interrupt in the LR and in the mirror, or in    *)
(* neither.                                                                *)
LEMMA ForwardMirror ==
    ASSUME IInv, NEW n \in Node, NEW i \in IRQ, forward_irq(n, i), UNCHANGED <<vm, ended>>
    PROVE  MirrorInSync' /\ ActiveIsHeld'
<1> USE VMFrame
<1>1. None \notin IRQ /\ vm \in VM
  BY MachineFacts DEF IInv, TypeOK
<1>2. ASSUME NEW k \in FreeLRs(n),
             active' = active \cup {Cell(i, n)}, mirror' = [mirror EXCEPT ![n][k] = i],
             lr' = [lr EXCEPT ![n][k] = i]
      PROVE  MirrorInSync' /\ ActiveIsHeld'
  <2>1. k \in LR /\ mirror[n][k] = None
    BY DEF FreeLRs
  <2>2. ended[n] # k
    BY <2>1 DEF IInv, MirrorInSync
  <2>3. /\ mirror'[n][k] = i /\ lr'[n][k] = i
        /\ \A m \in Node, l \in LR : m # n \/ l # k =>
              mirror'[m][l] = mirror[m][l] /\ lr'[m][l] = lr[m][l]
    BY <1>2, <2>1 DEF IInv, TypeOK
  <2>4. MirrorInSync'
    BY <2>1, <2>2, <2>3 DEF IInv, MirrorInSync
  <2>5. ActiveIsHeld'
    <3> SUFFICES ASSUME "ISACTIVER" \notin vm.writes, NEW c \in active'
                 PROVE  \E m \in Node : Cell(c[1], m) = c /\ \E l \in LR : mirror'[m][l] = c[1]
      BY DEF ActiveIsHeld, Held
    <3>1. CASE c = Cell(i, n)
      BY <2>1, <2>3, <3>1, <1>1, CellType
    <3>2. CASE c \in active
      <4>1. PICK m \in Node, l \in LR : Cell(c[1], m) = c /\ mirror[m][l] = c[1]
        BY <3>2 DEF IInv, ActiveIsHeld, Held
      <4>2. c[1] # None
        BY <3>2, <1>1, CellIRQ DEF IInv, TypeOK
      <4>3. mirror'[m][l] = c[1]
        BY <4>1, <4>2, <2>1, <2>3
      <4> QED
        BY <4>1, <4>3
    <3> QED
      BY <3>1, <3>2, <1>2
  <2> QED
    BY <2>4, <2>5
<1>3. CASE UNCHANGED <<active, mirror, lr>>
  <2>1. MirrorInSync'
    BY <1>3 DEF IInv, MirrorInSync
  <2>2. ActiveIsHeld'
    BY <1>3 DEF IInv, ActiveIsHeld, Held
  <2> QED
    BY <2>1, <2>2
<1> QED
  BY <1>2, <1>3, ForwardCases

(* forward_irq() puts an interrupt off only when no LR is free, so what    *)
(* waits is waiting for an LR in use.                                      *)
LEMMA ForwardBacklog ==
    ASSUME IInv, NEW n \in Node, NEW i \in IRQ, forward_irq(n, i),
           UNCHANGED <<vm, control, enable>>,
           Steady, control = 1, Cell(i, n) \notin active
    PROVE  Waiting'
<1> USE VMFrame
<1>1. vm \in VM /\ Waiting /\ None \notin IRQ
  BY MachineFacts DEF IInv, TypeOK, Backlog, Waiting
<1>2. ASSUME NEW k \in FreeLRs(n),
             active' = active \cup {Cell(i, n)}, mirror' = [mirror EXCEPT ![n][k] = i],
             overflow' = overflow
      PROVE  Waiting'
  <2>1. overflow[n] = <<>> /\ k \in LR /\ mirror[n][k] = None
    BY <1>1 DEF Waiting, FreeLRs
  <2>2. \A m \in Node, l \in LR : m # n => mirror'[m][l] = mirror[m][l]
    BY <1>2 DEF IInv, TypeOK
  <2>3. \A m \in Node : m # n => FreeLRs(m)' = FreeLRs(m)
    BY <2>2 DEF FreeLRs
  <2>4. \A m \in Node : \A j \in 1 .. Len(overflow[m]) :
           m # n => Cell(overflow[m][j], m) # Cell(i, n)
    BY <1>1, SteadyCell DEF IInv, TypeOK
  <2> QED
    BY <1>1, <1>2, <2>1, <2>3, <2>4 DEF Waiting
<1>3. ASSUME FreeLRs(n) = {}, ~Queued(i, n),
             overflow' = [overflow EXCEPT ![n] = Append(@, i)],
             UNCHANGED <<active, mirror>>
      PROVE  Waiting'
  <2>1. \A m \in Node : FreeLRs(m)' = FreeLRs(m)
    BY <1>3 DEF FreeLRs
  <2>2. /\ Len(overflow'[n]) = Len(overflow[n]) + 1
        /\ overflow'[n][Len(overflow[n]) + 1] = i
        /\ \A j \in 1 .. Len(overflow[n]) : overflow'[n][j] = overflow[n][j]
        /\ \A m \in Node : m # n => overflow'[m] = overflow[m]
        /\ Len(overflow[n]) \in Nat
    BY <1>3 DEF IInv, TypeOK
  <2>3. \A j \in 1 .. Len(overflow[n]) : overflow[n][j] # i
    BY <1>3 DEF Queued, IInv, TypeOK
  <2>4. \A m \in Node : m # n =>
           /\ overflow'[m] # <<>> => control' = 1 /\ FreeLRs(m)' = {}
           /\ \A j \in 1 .. Len(overflow'[m]) :
                 /\ Cell(overflow'[m][j], m) \notin active'
                 /\ \A l \in 1 .. Len(overflow'[m]) : overflow'[m][l] = overflow'[m][j] => l = j
    BY <1>1, <1>3, <2>1, <2>2 DEF Waiting
  <2>5. \A j \in 1 .. Len(overflow'[n]) :
           /\ Cell(overflow'[n][j], n) \notin active'
           /\ \A l \in 1 .. Len(overflow'[n]) : overflow'[n][l] = overflow'[n][j] => l = j
    BY <1>1, <1>3, <2>2, <2>3 DEF Waiting
  <2> QED
    BY <1>3, <2>1, <2>4, <2>5 DEF Waiting
<1>4. CASE UNCHANGED <<active, mirror, overflow>>
  BY <1>1, <1>4 DEF Waiting, FreeLRs
<1> QED
  BY <1>2, <1>3, <1>4, ForwardCases

----------------------------------------------------------------------------
(* The interrupts that reach a node, and the guest's own.                  *)
LEMMA TypesAfterForward ==
    ASSUME IInv, NEW n \in Node, NEW i \in IRQ, forward_irq(n, i),
           UNCHANGED <<vm, on, dist, sgi_pending, ended, work>>, masked' \subseteq Cells
    PROVE  TypeOK'
<1>1. UNCHANGED <<vm, on, control, enable, targets, sgi_pending, ended, caller, toAck, toInject>>
  BY DEF dist, work
<1> QED
  BY <1>1, VMFrame, ForwardTypes, Zenon DEF IInv, TypeOK

(* handle_irq() of a private and of a shared interrupt.                    *)
LEMMA PPIAndSPIIInv ==
    ASSUME IInv, UNCHANGED vm,
           \/ \E n \in Node, i \in PPI : handle_irq_ppi(n, i)
           \/ \E i \in SPI : handle_irq_spi(i)
    PROVE  IInv'
<1> USE VMFrame
<1>1. vm \in VM /\ PPI \subseteq IRQ /\ SPI \subseteq IRQ /\ vm.spi_node \in Node
  BY MachineFacts DEF IInv, TypeOK
<1>2. ~Steady
  <2> SUFFICES ASSUME Steady PROVE FALSE
    OBVIOUS
  <2> QED
    BY <1>1, SteadyCell
<1>3. Backlog'
  BY <1>2, Zenon DEF Backlog
<1>4. ASSUME NEW n \in Node, NEW i \in PPI, handle_irq_ppi(n, i)
      PROVE  IInv'
  <2>1. masked' \subseteq Cells
    BY <1>1, <1>4, CellType DEF handle_irq_ppi, IInv, TypeOK
  <2>2. TypeOK'
    BY <1>1, <1>4, <2>1, TypesAfterForward DEF handle_irq_ppi
  <2> QED
    BY <1>1, <1>3, <1>4, <2>2, ForwardMirror DEF handle_irq_ppi, IInv
<1>5. ASSUME NEW i \in SPI, handle_irq_spi(i)
      PROVE  IInv'
  <2>1. masked' \subseteq Cells
    BY <1>1, <1>5, CellType DEF handle_irq_spi, IInv, TypeOK
  <2>2. UNCHANGED <<on, dist, sgi_pending, ended, work>>
    BY <1>5 DEF handle_irq_spi
  <2>3. CASE \E n \in Node : forward_irq(n, i)
    BY <1>1, <1>3, <2>1, <2>2, <2>3, TypesAfterForward, ForwardMirror DEF IInv
  <2>4. CASE UNCHANGED <<pending, active, lrs>>
    <3>1. TypeOK'
      BY <2>1, <2>2, <2>4 DEF IInv, TypeOK, dist, work, lrs
    <3> QED
      BY <1>3, <2>2, <2>4, <3>1, QuietStep DEF IInv
  <2>5. targets[i] \subseteq Node /\ Node \subseteq Nat
    BY MachineFacts DEF IInv, TypeOK
  <2>6. targets[i] # {} => Min(targets[i]) \in Node
    BY <2>5, MinIsElement, Zenon
  <2> QED
    BY <1>1, <1>5, <2>3, <2>4, <2>6 DEF handle_irq_spi
<1> QED
  BY <1>4, <1>5

(* EndOfInterrupt(): the LR is empty and the mirror still has it.          *)
LEMMA EndOfInterruptIInv ==
    ASSUME IInv, UNCHANGED vm, NEW n \in Node, NEW k \in LR, EndOfInterrupt(n, k)
    PROVE  IInv'
<1> USE VMFrame DEF EndOfInterrupt, dist, state, work
<1>1. vm \in VM /\ None \notin LR
  BY MachineFacts DEF IInv, TypeOK
<1>2. TypeOK'
  BY Zenon DEF IInv, TypeOK
<1>3. MirrorInSync'
  <2>1. ended[n] = None /\ mirror[n][k] # None
    BY <1>1 DEF IInv, MirrorInSync, Guest
  <2>2. /\ ended'[n] = k /\ lr'[n][k] = None
        /\ \A m \in Node : m # n => ended'[m] = ended[m]
        /\ \A m \in Node, l \in LR : m # n \/ l # k => lr'[m][l] = lr[m][l]
    BY DEF IInv, TypeOK
  <2> QED
    BY <1>1, <2>1, <2>2 DEF IInv, MirrorInSync
<1>4. ActiveIsHeld'
  BY DEF IInv, ActiveIsHeld, Held
<1>5. Backlog'
  BY QuietBacklog DEF IInv, Backlog
<1> QED
  BY <1>2, <1>3, <1>4, <1>5 DEF IInv

(* sys_psci(), CpuOn: a node is started, and its interrupts are as they    *)
(* were.                                                                   *)
LEMMA CpuOnIInv ==
    ASSUME IInv, UNCHANGED vm, NEW n \in Node, NEW target \in Node, CpuOn(n, target)
    PROVE  IInv'
<1> USE VMFrame DEF CpuOn, dist, state, lrs, work
<1>1. TypeOK'
  BY DEF IInv, TypeOK
<1>2. MirrorInSync' /\ ActiveIsHeld'
  BY QuietStep
<1>3. Backlog'
  BY QuietBacklog DEF IInv, Backlog
<1> QED
  BY <1>1, <1>2, <1>3 DEF IInv

----------------------------------------------------------------------------
(* handle_maintenance(): the LR that was ended is cleared in the mirror,   *)
(* its interrupt is no longer active, and the head of the overflow may     *)
(* take its place.                                                         *)
Cleared(n, k) == [mirror EXCEPT ![n][k] = None]
StillActive(n, k) == active \ {Cell(mirror[n][k], n)}

NothingWaited(n, k) ==
    /\ overflow[n] = <<>>
    /\ active' = StillActive(n, k) /\ mirror' = Cleared(n, k)
    /\ UNCHANGED <<lr, overflow>>

HeadTakesLR(n, k) ==
    /\ overflow[n] # <<>>
    /\ overflow' = [overflow EXCEPT ![n] = Tail(@)]
    /\ active' = StillActive(n, k) \cup {Cell(Head(overflow[n]), n)}
    /\ mirror' = [mirror EXCEPT ![n][k] = Head(overflow[n])]
    /\ lr' = [lr EXCEPT ![n][k] = Head(overflow[n])]

HeadIsDropped(n, k) ==
    /\ overflow[n] # <<>>
    /\ overflow' = [overflow EXCEPT ![n] = Tail(@)]
    /\ LET h == Head(overflow[n])
       IN  ~(control = 1 /\ is_enabled(h, n) /\ is_target(h, n) /\ Cell(h, n) \notin active)
    /\ active' = StillActive(n, k) /\ mirror' = Cleared(n, k)
    /\ lr' = lr

(* What handle_maintenance() may do with the LR that has ended and the     *)
(* head of the overflow.                                                   *)
LEMMA MaintenanceCases ==
    ASSUME IInv, NEW n \in Node, handle_maintenance(n), UNCHANGED vm
    PROVE  \E k \in LR :
              /\ ended[n] = k /\ mirror[n][k] \in IRQ /\ lr[n][k] = None
              /\ ended' = [ended EXCEPT ![n] = None]
              /\ pending' \subseteq Cells
              /\ NothingWaited(n, k) \/ HeadTakesLR(n, k) \/ HeadIsDropped(n, k)
<1> DEFINE k == ended[n]
           acked == {<<mirror[n][k], n>>}
           pend == pending \ AckedPending(acked)
           act == active \ AckedCells(acked)
           h == Head(overflow[n])
<1>1. k \in LR /\ mirror[n][k] \in IRQ /\ lr[n][k] = None
  BY DEF handle_maintenance, IInv, TypeOK, MirrorInSync
<1>2. AckedCells(acked) = {Cell(mirror[n][k], n)}
  BY DEF AckedCells
<1>3. act = StillActive(n, k)
  BY <1>2 DEF StillActive
<1>4. pend \subseteq Cells /\ ended' = [ended EXCEPT ![n] = None]
  BY DEF handle_maintenance, IInv, TypeOK
<1>5. CASE overflow[n] = <<>>
  <2>1. /\ pending' = pend /\ active' = act /\ mirror' = Cleared(n, k)
        /\ UNCHANGED <<lr, overflow>>
    BY <1>5, Zenon DEF handle_maintenance, Cleared
  <2> QED
    BY <1>1, <1>3, <1>4, <1>5, <2>1, Zenon DEF NothingWaited
<1>6. CASE overflow[n] # <<>>
  <2>1. /\ inject_irq(n, k, h, pend, act, Cleared(n, k))
        /\ overflow' = [overflow EXCEPT ![n] = Tail(@)]
    BY <1>6 DEF handle_maintenance, Cleared
  <2>2. h \in IRQ /\ vm \in VM
    BY <1>6 DEF IInv, TypeOK
  <2>3. pending' \subseteq Cells
    BY <1>4, <2>1, <2>2, CellType, Zenon DEF inject_irq, set_pending
  <2>4. CASE /\ control = 1 /\ is_enabled(h, n) /\ is_target(h, n) /\ Cell(h, n) \notin act
    <3>1. /\ active' = act \cup {Cell(h, n)}
          /\ mirror' = [Cleared(n, k) EXCEPT ![n][k] = h]
          /\ lr' = [lr EXCEPT ![n][k] = h]
      BY <2>1, <2>4, Zenon DEF inject_irq, set_active, vcpu_inject_irq
    <3>2. [Cleared(n, k) EXCEPT ![n][k] = h] = [mirror EXCEPT ![n][k] = h]
      BY <1>1, Zenon DEF IInv, TypeOK, Cleared
    <3> QED
      BY <1>1, <1>3, <1>4, <1>6, <2>1, <2>3, <3>1, <3>2, Zenon DEF HeadTakesLR
  <2>5. CASE ~(/\ control = 1 /\ is_enabled(h, n) /\ is_target(h, n) /\ Cell(h, n) \notin act)
    <3>1. active' = act /\ mirror' = Cleared(n, k) /\ lr' = lr
      BY <2>1, <2>5, Zenon DEF inject_irq
    <3>2. ~(/\ control = 1 /\ is_enabled(h, n) /\ is_target(h, n) /\ Cell(h, n) \notin active)
      BY <2>5
    <3> QED
      BY <1>1, <1>3, <1>4, <1>6, <2>1, <2>3, <3>1, <3>2, Zenon DEF HeadIsDropped
  <2> QED
    BY <2>4, <2>5, Zenon
<1> QED
  BY <1>5, <1>6

(* handle_maintenance(): the LR that has ended is free or taken by the     *)
(* head of the overflow.                                                   *)
LEMMA MaintenanceIInv ==
    ASSUME IInv, NEW n \in Node, handle_maintenance(n), UNCHANGED vm
    PROVE  IInv'
<1> USE VMFrame
<1>1. vm \in VM /\ None \notin IRQ /\ None \notin LR
  BY MachineFacts DEF IInv, TypeOK
<1>2. PICK k \in LR :
         /\ ended[n] = k /\ mirror[n][k] \in IRQ /\ lr[n][k] = None
         /\ ended' = [ended EXCEPT ![n] = None]
         /\ pending' \subseteq Cells
         /\ NothingWaited(n, k) \/ HeadTakesLR(n, k) \/ HeadIsDropped(n, k)
  BY MaintenanceCases, Zenon
<1>3. /\ overflow \in [Node -> Seq(IRQ)] /\ active \subseteq Cells
      /\ mirror \in [Node -> [LR -> IRQ \cup {None}]]
      /\ lr \in [Node -> [LR -> IRQ \cup {None}]]
  BY DEF IInv, TypeOK
<1> DEFINE h == Head(overflow[n])
           injected == mirror'[n][k] # None
<1>4. /\ \A m \in Node, l \in LR : m # n \/ l # k =>
            mirror'[m][l] = mirror[m][l] /\ lr'[m][l] = lr[m][l]
      /\ lr'[n][k] = mirror'[n][k] /\ mirror'[n][k] \in IRQ \cup {None}
      /\ mirror' \in [Node -> [LR -> IRQ \cup {None}]]
      /\ lr' \in [Node -> [LR -> IRQ \cup {None}]]
  <2>1. ASSUME NEW i \in IRQ \cup {None},
               mirror' = [mirror EXCEPT ![n][k] = i],
               lr' = [lr EXCEPT ![n][k] = i]
        PROVE  /\ \A m \in Node, l \in LR : m # n \/ l # k =>
                     mirror'[m][l] = mirror[m][l] /\ lr'[m][l] = lr[m][l]
               /\ lr'[n][k] = mirror'[n][k] /\ mirror'[n][k] \in IRQ \cup {None}
               /\ mirror' \in [Node -> [LR -> IRQ \cup {None}]]
               /\ lr' \in [Node -> [LR -> IRQ \cup {None}]]
    BY <1>3, <2>1
  <2>2. lr = [lr EXCEPT ![n][k] = None]
    BY <1>2, <1>3
  <2>3. CASE HeadTakesLR(n, k)
    BY <1>3, <2>1, <2>3 DEF HeadTakesLR
  <2>4. CASE NothingWaited(n, k) \/ HeadIsDropped(n, k)
    BY <2>1, <2>2, <2>4, Zenon DEF NothingWaited, HeadIsDropped, Cleared
  <2> QED
    BY <1>2, <2>3, <2>4, Zenon
<1>5. MirrorInSync'
  <2>1. ended'[n] = None /\ \A m \in Node : m # n => ended'[m] = ended[m]
    BY <1>2 DEF IInv, TypeOK
  <2> SUFFICES ASSUME NEW m \in Node, NEW l \in LR
               PROVE  IF ended'[m] = l THEN lr'[m][l] = None /\ mirror'[m][l] # None
                      ELSE lr'[m][l] = mirror'[m][l]
    BY Zenon DEF MirrorInSync
  <2>a. IF ended[m] = l THEN lr[m][l] = None /\ mirror[m][l] # None
        ELSE lr[m][l] = mirror[m][l]
    BY Zenon DEF IInv, MirrorInSync
  <2>2. CASE m # n
    BY <1>4, <2>a, <2>1, <2>2, Zenon
  <2>3. CASE m = n /\ l = k
    BY <1>1, <1>4, <2>1, <2>3, Zenon
  <2>4. CASE m = n /\ l # k
    <3>1. lr[n][l] = mirror[n][l]
      BY <1>2, <2>a, <2>4
    <3> QED
      BY <1>1, <1>4, <2>1, <2>4, <3>1
  <2> QED
    BY <2>2, <2>3, <2>4
<1>6. active' \subseteq Cells /\ \A c \in active' : c \in StillActive(n, k) \/ c = Cell(mirror'[n][k], n)
  BY <1>1, <1>2, <1>3, CellType DEF StillActive, NothingWaited, HeadTakesLR, HeadIsDropped
<1>7. overflow' \in [Node -> Seq(IRQ)]
  <2>1. overflow[n] # <<>> => Tail(overflow[n]) \in Seq(IRQ)
    BY <1>3
  <2> QED
    BY <1>2, <1>3, <2>1, Zenon DEF NothingWaited, HeadTakesLR, HeadIsDropped
<1>8. TypeOK'
  <2>1. UNCHANGED <<on, control, enable, targets, caller, toAck, toInject>>
    BY DEF handle_maintenance, dist, work
  <2>2. sgi_pending' \subseteq sgi_pending /\ masked' \subseteq masked
    BY DEF handle_maintenance, Unmasked
  <2>3. ended' \in [Node -> LR \cup {None}]
    BY <1>2 DEF IInv, TypeOK
  <2> QED
    BY <1>2, <1>4, <1>6, <1>7, <2>1, <2>2, <2>3 DEF IInv, TypeOK
<1>9. ActiveIsHeld'
  <2> SUFFICES ASSUME "ISACTIVER" \notin vm.writes, NEW c \in active'
               PROVE  \E m \in Node : Cell(c[1], m) = c /\ \E l \in LR : mirror'[m][l] = c[1]
    BY Zenon DEF ActiveIsHeld, Held
  <2>1. CASE c \in StillActive(n, k)
    <3>1. PICK m \in Node, l \in LR : Cell(c[1], m) = c /\ mirror[m][l] = c[1]
      BY <2>1, Zenon DEF IInv, ActiveIsHeld, Held, StillActive
    <3>2. m # n \/ l # k
      BY <2>1, <3>1 DEF StillActive
    <3>3. mirror'[m][l] = c[1]
      BY <1>4, <3>1, <3>2, Zenon
    <3> QED
      BY <3>1, <3>3, Zenon
  <2>2. CASE c \notin StillActive(n, k)
    <3>1. c = Cell(mirror'[n][k], n) /\ c \in Cells
      BY <1>6, <2>2
    <3>2. c[1] = mirror'[n][k]
      BY <3>1 DEF Cell
    <3> QED
      BY <3>1, <3>2
  <2> QED
    BY <2>1, <2>2, Zenon
<1>10. Backlog'
  <2> SUFFICES ASSUME Steady PROVE Backlog'
    BY Zenon DEF Backlog
  <2>1. Waiting /\ UNCHANGED <<control, enable, toInject>> /\ toInject = {}
    BY Zenon DEF IInv, TypeOK, Backlog, handle_maintenance, Handles, dist, work
  <2>2. \A m \in Node : m # n => FreeLRs(m)' = FreeLRs(m)
    BY <1>4, Zenon DEF FreeLRs
  <2>3. ASSUME NEW m \in Node, m # n
        PROVE  /\ overflow'[m] = overflow[m]
               /\ \A j \in 1 .. Len(overflow[m]) : Cell(overflow[m][j], m) \notin active'
    <3>1. overflow'[m] = overflow[m]
      BY <1>2, <1>3, <2>3 DEF NothingWaited, HeadTakesLR, HeadIsDropped
    <3>2. \A j \in 1 .. Len(overflow[m]) :
             /\ Cell(overflow[m][j], m) = <<overflow[m][j], m>>
             /\ Cell(overflow[m][j], m) \notin active
      BY <1>1, <1>3, <2>1, SteadyCell DEF Waiting
    <3>3. \A i \in IRQ : Cell(i, n) = <<i, n>>
      BY <1>1, SteadyCell
    <3>4. \A c \in active' : c \in active \/ \E i \in IRQ : c = <<i, n>>
      <4>1. overflow[n] # <<>> => h \in IRQ
        BY <1>3
      <4>2. active' \subseteq active \/ (h \in IRQ /\ active' \subseteq active \cup {Cell(h, n)})
        BY <1>2, <4>1 DEF NothingWaited, HeadTakesLR, HeadIsDropped, StillActive
      <4> QED
        BY <3>3, <4>2
    <3>5. ASSUME NEW j \in 1 .. Len(overflow[m]) PROVE Cell(overflow[m][j], m) \notin active'
      <4>1. \A i \in IRQ : <<overflow[m][j], m>> # <<i, n>>
        BY <2>3
      <4> QED
        BY <3>2, <3>4, <3>5, <4>1, Zenon
    <3> QED
      BY <3>1, <3>5, Zenon
  <2>4. CASE NothingWaited(n, k)
    <3>1. overflow'[n] = <<>> /\ Len(overflow'[n]) = 0
      BY <2>4, Zenon DEF NothingWaited
    <3>2. Waiting'
      BY <2>1, <2>2, <2>3, <3>1 DEF Waiting, Cell
    <3> QED
      BY <2>1, <3>2 DEF Backlog, Cell, IInv
  <2>5. CASE overflow[n] # <<>>
    <3>1. h \in IRQ /\ h = overflow[n][1] /\ 1 \in 1 .. Len(overflow[n]) /\ Len(overflow[n]) \in Nat
      BY <1>3, <2>5
    <3>2. control = 1 /\ is_enabled(h, n) /\ Cell(h, n) \notin active /\ FreeLRs(n) = {}
      BY <2>1, <2>5, <3>1 DEF Waiting, IInv, Backlog, is_enabled
    <3>3. is_target(h, n)
      BY <1>1, <3>1, SteadyCell, Zenon DEF is_target
    <3>4. HeadTakesLR(n, k)
      BY <1>2, <2>5, <3>2, <3>3, Zenon DEF NothingWaited, HeadIsDropped
    <3>5. FreeLRs(n)' = {}
      <4>1. mirror'[n][k] = h /\ h # None
        BY <1>1, <1>3, <3>1, <3>4 DEF HeadTakesLR
      <4> QED
        BY <1>4, <3>2, <4>1, Zenon DEF FreeLRs
    <3>6. /\ Len(overflow'[n]) = Len(overflow[n]) - 1
          /\ \A j \in 1 .. Len(overflow'[n]) :
                overflow'[n][j] = overflow[n][j + 1] /\ j + 1 \in 1 .. Len(overflow[n])
      BY <1>3, <2>5, <3>1, <3>4 DEF HeadTakesLR
    <3>7. \A j \in 1 .. Len(overflow[n]) :
             /\ j # 1 => overflow[n][j] # h
             /\ Cell(overflow[n][j], n) = <<overflow[n][j], n>>
             /\ Cell(overflow[n][j], n) \notin active
             /\ \A l \in 1 .. Len(overflow[n]) : overflow[n][l] = overflow[n][j] => l = j
      BY <1>1, <1>3, <2>1, <3>1, SteadyCell DEF Waiting
    <3>8. \A c \in active' : c \in active \/ c = <<h, n>>
      BY <1>1, <3>1, <3>4, SteadyCell DEF HeadTakesLR, StillActive
    <3>9. \A j \in 1 .. Len(overflow'[n]) :
             /\ Cell(overflow'[n][j], n) \notin active'
             /\ \A l \in 1 .. Len(overflow'[n]) : overflow'[n][l] = overflow'[n][j] => l = j
      BY <3>1, <3>6, <3>7, <3>8
    <3>10. Waiting'
      BY <2>1, <2>2, <2>3, <3>2, <3>5, <3>9, Zenon DEF Waiting, Cell
    <3> QED
      BY <2>1, <3>10 DEF Backlog, Cell, IInv
  <2> QED
    BY <1>2, <2>4, <2>5 DEF HeadTakesLR, HeadIsDropped
<1> QED
  BY <1>5, <1>8, <1>9, <1>10 DEF IInv

----------------------------------------------------------------------------
(* A register write: the LRs stay, and the work that it leaves is typed.   *)
(* Only a write to GICD_ISACTIVER makes anything active, and what a write  *)
(* finds to inject is not active.                                          *)
Typed ==
    /\ control \in {0, 1} /\ enable \subseteq Cells
    /\ pending \subseteq Cells /\ active \subseteq Cells
    /\ targets \in [SPI -> SUBSET Node] /\ sgi_pending \subseteq SGI \X Node \X Node

WorkTyped ==
    /\ caller \in Node \cup {None}
    /\ toAck \subseteq IRQ \X Node /\ toInject \subseteq IRQ \X Node
    /\ caller = None => toAck = {} /\ toInject = {}

Injectable == \A p \in toInject : control = 1 /\ Cell(p[1], p[2]) \notin active

(* A write to a register, if it activates nothing but through ISACTIVER    *)
(* and has only interrupts to inject that may be injected.                 *)
LEMMA WriteIInv ==
    ASSUME IInv, UNCHANGED vm, NEW n \in Node, NEW reg, Write(n, reg),
           Typed', WorkTyped', active' \subseteq active \/ reg = "ISACTIVER",
           reg \notin {"CTLR=0", "ICENABLER", "ISACTIVER"} =>
               (control = 1 => control' = 1) /\ enable \subseteq enable' /\ Injectable'
    PROVE  IInv'
<1> USE VMFrame
<1>0. UNCHANGED <<on, mirror, overflow, lr, ended, masked>> /\ reg \in vm.writes
  BY DEF Write, lrs
<1>1. TypeOK'
  BY <1>0, Zenon DEF IInv, TypeOK, Typed, WorkTyped
<1>2. MirrorInSync'
  <2>1. MirrorInSync
    BY Zenon DEF IInv
  <2> QED
    BY <1>0, <2>1 DEF MirrorInSync
<1>3. ActiveIsHeld'
  BY QuietStep, Zenon DEF ActiveIsHeld, Write
<1>4. Backlog'
  <2>1. CASE ~Steady
    BY <2>1, Zenon DEF Backlog
  <2>2. CASE Steady
    <3>1. reg \notin {"CTLR=0", "ICENABLER", "ISACTIVER"}
      BY <1>0, <2>2 DEF Steady
    <3>2. active' \subseteq active /\ UNCHANGED <<mirror, overflow>>
      BY <1>0, <3>1
    <3>3. \A p \in toInject' : control' = 1 /\ Cell(p[1], p[2]) \notin active'
      BY <3>1 DEF Injectable, Cell
    <3> QED
      BY <3>1, <3>2, <3>3, QuietBacklog
  <2> QED
    BY <2>1, <2>2, Zenon
<1> QED
  BY <1>1, <1>2, <1>3, <1>4 DEF IInv

(* What a sweep finds to inject.                                           *)
LEMMA SweepInjectable ==
    ASSUME UNCHANGED vm, NEW n, NEW irqs, NEW ack, InjectAndAckIRQs(n, irqs, ack)
    PROVE  Injectable'
<1>1. \A p \in toInject' : should_inject(p[1], p[2])'
  BY DEF InjectAndAckIRQs, sweep_irqs_to_inject, FirstOf
<1> QED
  BY <1>1, VMFrame, Zenon DEF Injectable, should_inject, is_active

(* The cells of the bits written.                                          *)
LEMMA WrittenType ==
    ASSUME vm \in VM, NEW n \in Node, NEW val, val \subseteq IRQ
    PROVE  Written(val, n) \subseteq Cells
BY CellType DEF Written

(* GICD_CTLR *)
LEMMA CTLRIInv ==
    ASSUME IInv, UNCHANGED vm, NEW n \in Node, NEW val \in {0, 1}, GICD_CTLR(n, val)
    PROVE  IInv'
<1> USE VMFrame
<1>1. Write(n, IF val = 1 THEN "CTLR=1" ELSE "CTLR=0")
  BY DEF GICD_CTLR
<1>2. control' = val /\ UNCHANGED <<enable, targets, pending, active, sgi_pending>>
  BY DEF GICD_CTLR, state
<1>3. Typed'
  BY <1>2 DEF IInv, TypeOK, Typed
<1>4. WorkTyped' /\ (val = 1 => Injectable')
  <2>1. CASE val = 1 /\ control = 0
    <3>1. InjectAndAckIRQs(n, IRQ, TRUE)
      BY <2>1, Zenon DEF GICD_CTLR
    <3>2. /\ sweep_irqs_to_inject(IRQ)' \subseteq IRQ \X Node
          /\ sweep_irqs_to_ack(IRQ)' \subseteq IRQ \X Node
          /\ \A p \in sweep_irqs_to_inject(IRQ)' : should_inject(p[1], p[2])'
      BY DEF sweep_irqs_to_inject, sweep_irqs_to_ack, FirstOf
    <3>3. vm \in VM /\ None \notin Node
      BY MachineFacts, Zenon DEF IInv, TypeOK
    <3> QED
      BY <3>1, <3>2, <3>3
         DEF InjectAndAckIRQs, WorkTyped, Injectable, should_inject, is_active
  <2>2. CASE ~(val = 1 /\ control = 0)
    <3>1. UNCHANGED <<caller, toAck, toInject>>
      BY <2>2, Zenon DEF GICD_CTLR, NoAction, work
    <3>2. toInject = {}
      BY <1>1, Zenon DEF Write, Handles, IInv, TypeOK
    <3> QED
      BY <3>1, <3>2 DEF WorkTyped, Injectable, IInv, TypeOK
  <2> QED
    BY <2>1, <2>2
<1> DEFINE reg == IF val = 1 THEN "CTLR=1" ELSE "CTLR=0"
<1>5. reg \notin {"CTLR=0", "ICENABLER", "ISACTIVER"} => val = 1
  OBVIOUS
<1>6. reg \notin {"CTLR=0", "ICENABLER", "ISACTIVER"} =>
         (control = 1 => control' = 1) /\ enable \subseteq enable' /\ Injectable'
  BY <1>2, <1>4, <1>5
<1> QED
  BY <1>1, <1>2, <1>3, <1>4, <1>6, WriteIInv

(* The registers whose write leaves nothing to do.                         *)
LEMMA PlainWriteIInv ==
    ASSUME IInv, UNCHANGED vm, NEW n \in Node, NEW r, NEW val, val \subseteq IRQ,
           \/ GICD_ICENABLERn(n, r, val) \/ GICD_ICPENDRn(n, r, val)
           \/ GICD_ISACTIVERn(n, r, val) \/ GICD_ICACTIVERn(n, r, val)
    PROVE  IInv'
<1> USE VMFrame DEF dist
<1>1. PICK reg \in {"ICENABLER", "ICPENDR", "ISACTIVER", "ICACTIVER"} :
         /\ Write(n, reg)
         /\ active' \subseteq active \/ reg = "ISACTIVER"
         /\ (control' = control /\ enable' = enable) \/ reg = "ICENABLER"
  BY Zenon DEF GICD_ICENABLERn, GICD_ICPENDRn, GICD_ISACTIVERn, GICD_ICACTIVERn, state
<1>2. vm \in VM /\ Written(val, n) \subseteq Cells
  BY WrittenType, Zenon DEF IInv, TypeOK
<1>3. Typed'
  BY <1>2, Zenon DEF GICD_ICENABLERn, GICD_ICPENDRn, GICD_ISACTIVERn, GICD_ICACTIVERn, state,
              IInv, TypeOK, Typed
<1>4. UNCHANGED <<caller, toAck, toInject>>
  BY DEF GICD_ICENABLERn, GICD_ICPENDRn, GICD_ISACTIVERn, GICD_ICACTIVERn, NoAction, work
<1>5. WorkTyped'
  BY <1>4 DEF WorkTyped, IInv, TypeOK
<1>6. Injectable'
  <2>1. toInject = {}
    BY <1>1, Zenon DEF Write, Handles, IInv, TypeOK
  <2> QED
    BY <1>4, <2>1 DEF Injectable
<1> QED
  BY <1>1, <1>3, <1>5, <1>6, WriteIInv

(* GICD_CPENDSGIR and GICD_SPENDSGIR *)
LEMMA PendSGIIInv ==
    ASSUME IInv, UNCHANGED vm, NEW n \in Node, NEW r, NEW val \in SUBSET (InSGIReg(r) \X Node),
           GICD_CPENDSGIRn(n, r, val) \/ GICD_SPENDSGIRn(n, r, val)
    PROVE  IInv'
<1> USE VMFrame DEF dist
<1>1. PICK reg \in {"CPENDSGIR", "SPENDSGIR"} : Write(n, reg)
  BY Zenon DEF GICD_CPENDSGIRn, GICD_SPENDSGIRn
<1>2. vm \in VM /\ SGI \subseteq IRQ /\ None \notin Node /\ InSGIReg(r) \subseteq SGI
  BY MachineFacts, Zenon DEF IInv, TypeOK, InSGIReg
<1>3. UNCHANGED <<control, enable, targets, active>>
  BY Zenon DEF GICD_CPENDSGIRn, GICD_SPENDSGIRn
<1>4. sgi_pending' \subseteq SGI \X Node \X Node
  <2>1. \A p \in val : <<p[1], p[2], n>> \in SGI \X Node \X Node
    BY <1>2
  <2>2. sgi_pending \subseteq SGI \X Node \X Node
    BY DEF IInv, TypeOK
  <2>3. \A t \in sgi_pending' : t \in sgi_pending \/ \E p \in val : t = <<p[1], p[2], n>>
    BY Zenon DEF GICD_CPENDSGIRn, GICD_SPENDSGIRn
  <2> QED
    BY <2>1, <2>2, <2>3
<1>5. pending' \subseteq Cells
  <2>1. \A i \in InSGIReg(r) : Cell(i, n) \in Cells
    BY <1>2, CellType
  <2>2. pending \subseteq Cells
    BY DEF IInv, TypeOK
  <2>3. \A c \in pending' : c \in pending \/ \E i \in InSGIReg(r) : c = Cell(i, n)
    <3>1. CASE GICD_CPENDSGIRn(n, r, val)
      BY <3>1 DEF GICD_CPENDSGIRn
    <3>2. CASE GICD_SPENDSGIRn(n, r, val)
      BY <3>2 DEF GICD_SPENDSGIRn
    <3> QED
      BY <3>1, <3>2
  <2> QED
    BY <2>1, <2>2, <2>3
<1>6. Typed'
  BY <1>3, <1>4, <1>5 DEF Typed, IInv, TypeOK
<1>7. WorkTyped' /\ Injectable'
  <2>1. CASE GICD_CPENDSGIRn(n, r, val)
    <3>1. UNCHANGED <<caller, toAck, toInject>>
      BY <2>1, Zenon DEF GICD_CPENDSGIRn, NoAction, work
    <3>2. toInject = {}
      BY <1>1, Zenon DEF Write, Handles, IInv, TypeOK
    <3> QED
      BY <3>1, <3>2 DEF WorkTyped, Injectable, IInv, TypeOK
  <2>2. CASE GICD_SPENDSGIRn(n, r, val)
    <3>1. InSGIReg(r)' = InSGIReg(r)
      BY DEF InSGIReg
    <3>2. sweep_irqs_to_inject(InSGIReg(r))' \subseteq IRQ \X Node
      BY <1>2, <3>1 DEF sweep_irqs_to_inject, FirstOf
    <3> QED
      BY <1>2, <2>2, <3>2, SweepInjectable, Zenon DEF GICD_SPENDSGIRn, InjectAndAckIRQs, WorkTyped
  <2> QED
    BY <2>1, <2>2
<1> QED
  BY <1>1, <1>3, <1>6, <1>7, WriteIInv

(* GICD_ISENABLER and GICD_ISPENDR *)
LEMMA SetWriteIInv ==
    ASSUME IInv, UNCHANGED vm, NEW n \in Node, NEW r, NEW val, val \subseteq IRQ,
           GICD_ISENABLERn(n, r, val) \/ GICD_ISPENDRn(n, r, val)
    PROVE  IInv'
<1> USE VMFrame DEF dist, state
<1>1. PICK reg \in {"ISENABLER", "ISPENDR"} : Write(n, reg)
  BY Zenon DEF GICD_ISENABLERn, GICD_ISPENDRn
<1>2. vm \in VM /\ None \notin Node /\ Written(val, n) \subseteq Cells
  BY MachineFacts, WrittenType, Zenon DEF IInv, TypeOK
<1>3. Typed' /\ active' = active
  BY <1>2, Zenon DEF GICD_ISENABLERn, GICD_ISPENDRn, Typed, IInv, TypeOK
<1>4. WorkTyped' /\ Injectable'
  <2>1. InReg(r)' \subseteq IRQ
    BY DEF InReg
  <2>2. /\ sweep_irqs_to_inject(InReg(r))' \subseteq IRQ \X Node
        /\ sweep_irqs_to_ack(InReg(r))' \subseteq IRQ \X Node
    BY <2>1 DEF sweep_irqs_to_inject, sweep_irqs_to_ack, FirstOf
  <2>3. WorkTyped'
    BY <1>2, <2>2 DEF GICD_ISENABLERn, GICD_ISPENDRn, InjectAndAckIRQs, WorkTyped
  <2> QED
    BY <2>3, SweepInjectable, Zenon DEF GICD_ISENABLERn, GICD_ISPENDRn
<1>5. control' = control /\ enable \subseteq enable'
  BY Zenon DEF GICD_ISENABLERn, GICD_ISPENDRn
<1> QED
  BY <1>1, <1>3, <1>4, <1>5, WriteIInv

(* GICD_ITARGETSR *)
LEMMA TargetsIInv ==
    ASSUME IInv, UNCHANGED vm, NEW n \in Node, NEW of \in SUBSET SPI,
           NEW val \in [of -> SUBSET Node], GICD_ITARGETSRn(n, val)
    PROVE  IInv'
<1> USE VMFrame DEF GICD_ITARGETSRn, state
<1>1. vm \in VM /\ None \notin Node /\ SPI \subseteq IRQ
  BY MachineFacts, Zenon DEF IInv, TypeOK
<1>2. Typed' /\ active' = active
  <2>1. targets' \in [SPI -> SUBSET Node]
    BY DEF IInv, TypeOK
  <2> QED
    BY <2>1 DEF Typed, IInv, TypeOK
<1>3. WorkTyped' /\ Injectable'
  <2>1. CASE InjectAndAckIRQs(n, DOMAIN val, TRUE)
    <3>1. /\ sweep_irqs_to_inject(DOMAIN val)' \subseteq IRQ \X Node
          /\ sweep_irqs_to_ack(DOMAIN val)' \subseteq IRQ \X Node
      BY <1>1, Zenon DEF sweep_irqs_to_inject, sweep_irqs_to_ack, FirstOf
    <3> QED
      BY <1>1, <2>1, <3>1, SweepInjectable, Zenon DEF InjectAndAckIRQs, WorkTyped
  <2>2. CASE NoAction
    <3>1. toInject = {}
      BY Zenon DEF Write, Handles, IInv, TypeOK
    <3> QED
      BY <2>2, <3>1 DEF NoAction, work, WorkTyped, Injectable, IInv, TypeOK
  <2> QED
    BY <2>1, <2>2, Zenon
<1>4. Write(n, "ITARGETSR") /\ UNCHANGED <<control, enable>>
  BY Zenon
<1> HIDE DEF GICD_ITARGETSRn
<1> QED
  BY <1>2, <1>3, <1>4, WriteIInv, Zenon

(* GICD_SGIR: what is to be injected is not active.                        *)
LEMMA SGIRIInv ==
    ASSUME IInv, UNCHANGED vm, NEW n \in Node, NEW i \in SGI, NEW cpus \in SUBSET Node,
           GICD_SGIR(n, i, cpus)
    PROVE  IInv'
<1> USE VMFrame DEF GICD_SGIR
<1>1. vm \in VM /\ None \notin Node /\ i \in IRQ /\ pending \subseteq Cells
  BY MachineFacts, Zenon DEF IInv, TypeOK
<1>2. Typed' /\ active' = active
  <2>1. pending' \subseteq Cells
    <3>1. \A c \in cpus : Cell(i, c) \in Cells
      BY <1>1, CellType, Zenon
    <3> QED
      BY <1>1, <3>1
  <2>2. UNCHANGED <<control, enable, targets, active, sgi_pending>>
    BY DEF dist
  <2> QED
    BY <2>1, <2>2, Zenon DEF Typed, IInv, TypeOK
<1>3. WorkTyped'
  BY <1>1 DEF WorkTyped
<1>4. Injectable'
  <2>1. toInject' = {p \in {i} \X cpus : should_inject(i, p[2])'}
    OBVIOUS
  <2> HIDE DEF GICD_SGIR
  <2>2. \A p \in toInject' : p[1] = i /\ should_inject(i, p[2])'
    BY <2>1
  <2>3. \A m : should_inject(i, m)' => control' = 1 /\ Cell(i, m)' \notin active'
    BY Zenon DEF should_inject, is_active
  <2> QED
    BY <2>2, <2>3, Zenon DEF Injectable
<1>5. Write(n, "SGIR") /\ UNCHANGED <<control, enable>>
  BY DEF dist
<1> HIDE DEF GICD_SGIR
<1> QED
  BY <1>2, <1>3, <1>4, <1>5, WriteIInv
=============================================================================
