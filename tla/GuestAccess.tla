---------------------------- MODULE GuestAccess ----------------------------
(***************************************************************************)
(* Loads and stores of the guest to the registers of the GIC distributor.  *)
(* Each faults; the VMM decodes the fault, carries the access out on the   *)
(* arrays of the Distributor and moves the virtual CPU on.                 *)
(*                                                                         *)
(* This is the set-up of a guest's driver: the distributor is off and no   *)
(* SPI enabled, so that a write to ITARGETSR finds nothing to inject and   *)
(* nothing to acknowledge.  The registers that enable interrupts, make     *)
(* them pending or active are only read; module GIC has their writes.      *)
(*                                                                         *)
(* A register is the sequence of its four bytes, a GPR that of its eight,  *)
(* least significant first.                                                *)
(***************************************************************************)
EXTENDS Bytes, TLC

CONSTANTS
    Node,           \* nodes of the virtual machine: 0, 1, ...
    Gpr,            \* the general purpose registers in use, of 0 .. 30
    Access,         \* Access[f]: the accesses that a guest of family f makes
    None

VARIABLES
    family,         \* which accesses this guest makes
    dist,           \* the registers of the Distributor that were written to
    at,             \* at[n]: "guest", "fault", "done", "stopped", "panic"
    access,         \* access[n]: the instruction that node n executes
    ctx,            \* ctx[n]: GPRs and program counter
    mem,            \* auxiliary: the bytes that the guest wrote last
    want            \* auxiliary: want[n]: the bytes that a load of n is to find

vars == <<family, dist, at, access, ctx, mem, want>>

gic_dist_paddr == 4096
DISTRIBUTOR_SIZE == 4096
All == None         \* node of a register that all nodes share
PC == 400

Word0 == <<0, 0, 0, 0>>

----------------------------------------------------------------------------
(* GICDistRegWord::from_offset(): first and last offset of each kind.      *)
Offsets == [
    CTLR |-> <<0, 0>>, TYPER |-> <<4, 4>>, IIDR |-> <<8, 8>>,
    IGROUPR |-> <<128, 252>>, ISENABLER |-> <<256, 380>>, ICENABLER |-> <<384, 508>>,
    ISPENDR |-> <<512, 636>>, ICPENDR |-> <<640, 764>>, ISACTIVER |-> <<768, 892>>,
    ICACTIVER |-> <<896, 1020>>, IPRIORITYR |-> <<1024, 2040>>, ITARGETSR |-> <<2048, 3064>>,
    ICFGR |-> <<3072, 3324>>, NSACR |-> <<3584, 3836>>, SGIR |-> <<3840, 3840>>,
    CPENDSGIR |-> <<3856, 3868>>, SPENDSGIR |-> <<3872, 3884>>, ICPIDR |-> <<4048, 4076>>,
    ICCIDR |-> <<4080, 4092>>]
ByteKinds == {"IPRIORITYR", "ITARGETSR", "CPENDSGIR", "SPENDSGIR"}

from_offset(kinds, offset) ==
    {k \in kinds : Offsets[k][1] <= offset /\ offset <= Offsets[k][2]}
calc_reg_num(k, offset) == (offset - Offsets[k][1]) \div 4
calc_reg_byte_offset(k, offset) == (offset - Offsets[k][1]) % 4

(* The arrays of the Distributor: how many registers each has.             *)
Length == [
    control |-> 1, ic_type |-> 1, dist_ident |-> 1, irq_group |-> 31, enable |-> 31, pending |-> 31,
    active |-> 31, priority |-> 247, targets |-> 247, config0 |-> 1, config |-> 62,
    periph_id |-> 12, component_id |-> 4,
    irq_group0 |-> 1, enable0 |-> 1, pending0 |-> 1, active0 |-> 1, priority0 |-> 8,
    targets0 |-> 8, config1 |-> 1, sgi_pending |-> 4]

(* Distributor::reset().                                                   *)
reset(c) ==
    LET array == c[1]
        i == c[3]
        periph_id == 4 :> 4 @@ 8 :> 144 @@ 9 :> 180 @@ 10 :> 43
    IN  CASE array = "ic_type" -> <<231, 252, 0, 0>>
          [] array = "dist_ident" -> <<59, 4, 0, 2>>
          [] array = "enable0" -> <<255, 255, 0, 0>>
          [] array = "config0" -> <<170, 170, 170, 170>>
          [] array = "config1" -> <<0, 0, 84, 85>>
          [] array = "config" /\ i < 14 -> <<85, 85, 85, 85>>
          [] array = "targets0" -> [b \in 1 .. 4 |-> 2 ^ c[2]]
          [] array = "targets" -> <<1, 1, 1, 1>>
          [] array = "periph_id" /\ i \in DOMAIN periph_id -> <<periph_id[i], 0, 0, 0>>
          [] array = "component_id" -> << <<13, 240, 5, 177>>[i + 1], 0, 0, 0>>
          [] OTHER -> Word0

(* Register32: load(), store(), set_byte().                                *)
load(d, c) == IF c \in DOMAIN d THEN d[c] ELSE reset(c)
store(d, c, val) == c :> val @@ d
set_byte(d, c, byte_index, v) == store(d, c, [load(d, c) EXCEPT ![byte_index + 1] = v])

(* The register of number r as node n sees it: the first ones are banked.  *)
banked(n, r, array0, count, array) ==
    IF r < count THEN <<array0, n, r>> ELSE <<array, All, r - count>>

(* Mutant: one register of priorities too many is banked.                  *)
Mut_register(k, n, r) ==
    CASE k = "IGROUPR" -> banked(n, r, "irq_group0", 1, "irq_group")
      [] k = "IPRIORITYR" -> banked(n, r, "priority0", 9, "priority")
      [] k = "ITARGETSR" -> banked(n, r, "targets0", 8, "targets")
      [] k = "ICFGR" /\ r = 0 -> <<"config0", All, 0>>
      [] k = "ICFGR" /\ r > 0 -> banked(n, r - 1, "config1", 1, "config")
register(k, n, r) ==
    CASE k = "IGROUPR" -> banked(n, r, "irq_group0", 1, "irq_group")
      [] k = "IPRIORITYR" -> banked(n, r, "priority0", 8, "priority")
      [] k = "ITARGETSR" -> banked(n, r, "targets0", 8, "targets")
      [] k = "ICFGR" /\ r = 0 -> <<"config0", All, 0>>
      [] k = "ICFGR" /\ r > 0 -> banked(n, r - 1, "config1", 1, "config")

(* handle_read(): what it reads.  For the enable registers of SPIs it is   *)
(* one register further on than what is written.                           *)
read_register(k, n, r) ==
    CASE k = "CTLR" -> <<"control", All, 0>>
      [] k = "TYPER" -> <<"ic_type", All, 0>>
      [] k = "IIDR" -> <<"dist_ident", All, 0>>
      [] k \in {"ISENABLER", "ICENABLER"} ->
            IF r = 0 THEN <<"enable0", n, 0>> ELSE <<"enable", All, r>>
      [] k \in {"ISPENDR", "ICPENDR"} -> banked(n, r, "pending0", 1, "pending")
      [] k \in {"ISACTIVER", "ICACTIVER"} -> banked(n, r, "active0", 1, "active")
      [] k \in {"CPENDSGIR", "SPENDSGIR"} -> <<"sgi_pending", n, r>>
      [] k = "ICPIDR" -> <<"periph_id", All, r>>
      [] k = "ICCIDR" -> <<"component_id", All, r>>
      [] OTHER -> register(k, n, r)

(* An index past the end of an array, an undefined offset or a width that  *)
(* is not supported panics.                                                *)
InBounds(c) == c[3] < Length[c[1]]

(* InvalidRegisterRead and InvalidRegisterWrite: errors, no panics.        *)
InvalidRegister(offset, width, write) ==
    LET banked_targets == from_offset({"ITARGETSR"}, offset) # {} /\ calc_reg_num("ITARGETSR", offset) < 8
    IN  \/ /\ width = "Word"
           /\ from_offset(IF write THEN {"TYPER", "IIDR", "NSACR", "ICPIDR", "ICCIDR"}
                          ELSE {"NSACR", "SGIR"}, offset) # {}
        \/ width \in {"Word", "Byte"} /\ write /\ banked_targets

handle_read(n, offset, width) ==
    LET kinds == from_offset(DOMAIN Offsets, offset) \ {"NSACR", "SGIR"}
        found == {read_register(k, n, calc_reg_num(k, offset)) : k \in kinds}
    IN  IF width # "Word" THEN {} ELSE {load(dist, c) : c \in {f \in found : InBounds(f)}}

handle_write(n, offset, width, data) ==
    LET kinds == CASE width = "Word" -> {"IGROUPR", "IPRIORITYR", "ITARGETSR", "ICFGR"}
                   [] width = "Byte" -> {"ITARGETSR"}
                   [] OTHER -> {}
        written(k) ==
            LET r == calc_reg_num(k, offset)
            IN  IF k = "ITARGETSR" /\ r < 8 THEN {}
                ELSE IF k = "ICFGR" /\ r = 0 THEN {dist}
                ELSE IF width = "Byte"
                THEN {set_byte(dist, register(k, n, r), calc_reg_byte_offset(k, offset), data[1])}
                ELSE {store(dist, register(k, n, r), data)}
    IN  UNION {written(k) : k \in from_offset(kinds, offset)}

(* The priority that inject_irq() takes for an interrupt.                  *)
get_priority(irq, cpu) ==
    load(dist, register("IPRIORITYR", cpu, irq \div 4))[(irq % 4) + 1]

----------------------------------------------------------------------------
(* The fault status word: bit 24 valid, 23 and 22 the width, 20 to 16 the  *)
(* GPR, 6 a write.                                                         *)
Width == <<"Byte", "HalfWord", "Word", "DoubleWord">>
Size == [Byte |-> 1, HalfWord |-> 2, Word |-> 4, DoubleWord |-> 8]
fsr(a) ==
    2 ^ 24 + (CHOOSE i \in 0 .. 3 : Width[i + 1] = a.width) * 2 ^ 22 + a.srt * 2 ^ 16
    + (IF a.write THEN 2 ^ 6 ELSE 0)

is_valid(f) == (f \div 2 ^ 24) % 2 = 1
width_of(f) == Width[((f \div 2 ^ 22) % 4) + 1]
gpr_index(f) == (f \div 2 ^ 16) % 32
is_write(f) == (f \div 2 ^ 6) % 2 = 1
is_aligned(f, addr) == addr % Size[width_of(f)] = 0

truncate(width, gpr) == SubSeq(gpr, 1, Size[width])
set(data, gpr) == data \o SubSeq(gpr, Len(data) + 1, 8)
read_gpr(c, ix) == IF ix = 31 THEN [i \in 1 .. 8 |-> 0] ELSE c.x[ix]

offset_in_region(addr, start, size) ==
    IF start <= addr /\ addr < start + size THEN {addr - start} ELSE {}

----------------------------------------------------------------------------
(* The reference: bytes at offsets, some of them one for each node.        *)
Private(o) == o \in 128 .. 131 \/ o \in 1024 .. 1055 \/ o \in 3076 .. 3079
Writable(o) ==
    o \in 128 .. 255 \/ o \in 1024 .. 2043 \/ o \in 2080 .. 3067 \/ o \in 3076 .. 3327
Place(n, o) == IF Private(o) THEN <<n, o>> ELSE <<All, o>>
ResetByte(n, o) ==
    CASE o \in 2080 .. 3067 -> 1
      [] o \in 3076 .. 3079 -> <<0, 0, 84, 85>>[(o % 4) + 1]
      [] o \in 3080 .. 3135 -> 85
      [] OTHER -> 0
Remembered(n, o) == IF Place(n, o) \in DOMAIN mem THEN mem[Place(n, o)] ELSE ResetByte(n, o)

----------------------------------------------------------------------------
Init ==
    /\ family \in DOMAIN Access
    /\ dist = <<>> /\ mem = <<>>
    /\ at = [n \in Node |-> "guest"]
    /\ access = [n \in Node |-> None]
    /\ ctx = [n \in Node |-> None]
    /\ want = [n \in Node |-> None]

Scratch == <<9, 9, 9, 9, 9, 9, 9, 9>>

(* A node executes a load or a store; its GPRs hold the value to store.    *)
Execute(n, a) ==
    /\ at[n] = "guest"
    /\ access' = [access EXCEPT ![n] = a]
    /\ ctx' = [ctx EXCEPT ![n] = [x |-> [i \in Gpr |-> IF i = a.srt THEN a.value ELSE Scratch], pc |-> PC]]
    /\ at' = [at EXCEPT ![n] = "fault"]
    /\ UNCHANGED <<family, dist, mem, want>>

Finish(n, x) ==
    /\ ctx' = [ctx EXCEPT ![n] = [x |-> x, pc |-> @.pc + 4]]
    /\ at' = [at EXCEPT ![n] = "done"]

(* An error gives the lock of the GIC back and ends the node's loop; a     *)
(* panic keeps it.  Either way the virtual CPU stays where it is.          *)
handle_gic_distributor_fault(n, f, offset) ==
    LET asserted == is_valid(f) /\ is_aligned(f, gic_dist_paddr + offset)
        data == truncate(width_of(f), read_gpr(ctx[n], gpr_index(f)))
        writes == IF asserted THEN handle_write(n, offset, width_of(f), data) ELSE {}
        reads == IF asserted /\ gpr_index(f) # 31 THEN handle_read(n, offset, width_of(f)) ELSE {}
    IN  \/ /\ is_write(f) /\ writes # {}
           /\ dist' \in writes
           /\ Finish(n, ctx[n].x)
           /\ mem' = IF Writable(offset)
                     THEN [p \in {Place(n, offset + i - 1) : i \in DOMAIN data} |->
                             data[p[2] - offset + 1]] @@ mem
                     ELSE mem
           /\ UNCHANGED want
        \/ /\ ~is_write(f) /\ reads # {}
           /\ \E val \in reads :
                 Finish(n, [ctx[n].x EXCEPT ![gpr_index(f)] = set(val, @)])
           /\ want' = [want EXCEPT ![n] = [i \in 1 .. 4 |-> Remembered(n, offset + i - 1)]]
           /\ UNCHANGED <<dist, mem>>
        \/ /\ (IF is_write(f) THEN writes ELSE reads) = {}
           /\ at' = [at EXCEPT ![n] = IF asserted /\ InvalidRegister(offset, width_of(f), is_write(f))
                                     THEN "stopped" ELSE "panic"]
           /\ UNCHANGED <<ctx, dist, mem, want>>

handle_page_fault(n) ==
    /\ at[n] = "fault"
    /\ \A m \in Node : at[m] # "panic"
    /\ \E offset \in offset_in_region(gic_dist_paddr + access[n].offset, gic_dist_paddr, DISTRIBUTOR_SIZE) :
          handle_gic_distributor_fault(n, fsr(access[n]), offset)
    /\ UNCHANGED <<family, access>>

Continue(n) ==
    /\ at[n] = "done"
    /\ at' = [at EXCEPT ![n] = "guest"]
    /\ access' = [access EXCEPT ![n] = None]
    /\ ctx' = [ctx EXCEPT ![n] = None]
    /\ want' = [want EXCEPT ![n] = None]
    /\ UNCHANGED <<family, dist, mem>>

Next ==
    \E n \in Node :
        \/ \E a \in Access[family] : Execute(n, a)
        \/ handle_page_fault(n)
        \/ Continue(n)

Spec == Init /\ [][Next]_vars

----------------------------------------------------------------------------
(* To the guest the registers for groups, priorities, targets and          *)
(* configuration are memory: a load finds the bytes stored last, by this   *)
(* node or, if the register is not banked, by any node, whatever widths    *)
(* they were stored with; the rest of the GPR and the other GPRs keep      *)
(* their values; and the virtual CPU goes on at the next instruction: no   *)
(* load or store of such a word stops it.  The priorities that interrupts  *)
(* are injected with are those bytes too.                                  *)
RegistersAreMemory ==
    /\ \A n \in Node : at[n] = "done" =>
        LET a == access[n]
            loaded == ctx[n].x[a.srt]
        IN  /\ ctx[n].pc = PC + 4
            /\ \A i \in Gpr : i # a.srt => ctx[n].x[i] = Scratch
            /\ a.write /\ a.srt # 31 => loaded = a.value
            /\ ~a.write => SubSeq(loaded, 5, 8) = SubSeq(a.value, 5, 8)
            /\ ~a.write /\ Writable(a.offset) => SubSeq(loaded, 1, 4) = want[n]
    /\ \A n \in Node, irq \in {0, 28, 31, 32, 33, 1019} : get_priority(irq, n) = Remembered(n, 1024 + irq)
    /\ \A n \in Node : at[n] \in {"stopped", "panic"} =>
        ~(access[n].width = "Word" /\ Writable(access[n].offset))
=============================================================================
