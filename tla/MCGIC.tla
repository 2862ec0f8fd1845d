------------------------------- MODULE MCGIC -------------------------------
(* Small virtual machines.                                                 *)
EXTENDS GIC

Machine(nodes, num_lrs, irqs, vppi, must_ack, writes) ==
    [nodes |-> nodes, lrs |-> num_lrs, irqs |-> irqs, vppi |-> vppi, must_ack |-> must_ack,
     spi_node |-> 0, writes |-> writes]

(* Two nodes, an SGI and an SPI that the guest enables, disables and moves. *)
Smp == Machine(2, 1, {0, 33}, {}, {33}, {"CTLR=1", "ISENABLER", "ICENABLER", "ITARGETSR", "SGIR"})

(* One node with an SGI, its timer and an SPI, and everything a guest does  *)
(* to them short of saving and restoring state.                             *)
One == Machine(1, 1, {0, 27, 33}, {27}, {33},
               {"CTLR=1", "CTLR=0", "ISENABLER", "ICENABLER", "ISPENDR", "ICPENDR", "ICACTIVER",
                "SGIR"})

(* Three SGIs between two nodes with one list register each.                *)
Crowd == Machine(2, 1, {0, 1, 2}, {}, {}, {"CTLR=1", "SGIR"})

(* Four SGIs for one node with two list registers, and a guest that enables *)
(* them again while they are in use.                                        *)
Again == Machine(1, 2, {0, 1, 2, 3}, {}, {}, {"CTLR=1", "ISENABLER", "ICACTIVER", "SGIR"})

(* The registers meant for saving and restoring state.                      *)
Restore == Machine(1, 2, {2, 3, 20}, {}, {},
                   {"CTLR=1", "ISACTIVER", "ICACTIVER", "CPENDSGIR", "SPENDSGIR"})

(* Two SPIs in different registers.                                         *)
Disable == Machine(1, 1, {33, 65}, {}, {}, {"ISENABLER", "ICENABLER"})

Machines == {Smp, One, Crowd, Again, Restore}
DisableOnly == {Disable}
=============================================================================
