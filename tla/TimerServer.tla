---------------------------- MODULE TimerServer ----------------------------
(***************************************************************************)
(* The timer server: a queue of outstanding timers over one timer device   *)
(* that can be armed for one moment.  The handlers run one at a time under *)
(* the server's mutex, but the counter of the device goes on while they    *)
(* run: update() compares the queue with a value "now" that is already     *)
(* past, and the head of the queue may fall due before the device is armed *)
(* for it.  Every read of the counter is a step of its own.                *)
(*                                                                         *)
(* Two devices: that of Qemu's "virt" machine raises its line while it is  *)
(* enabled and the counter has reached the compare register; the BCM       *)
(* system timer of the Raspberry Pi ("rpi4") latches the moment at which   *)
(* the low bits of the counter equal the compare register, and cannot be   *)
(* disabled.                                                               *)
(*                                                                         *)
(* Left out: Server.completed, which is written and never read (the        *)
(* request Completed panics).                                              *)
(***************************************************************************)
EXTENDS Integers, Sequences, Functions

CONSTANTS
    Client,             \* clients, each with its notification
    TimersPerClient,    \* TIMERS_PER_CLIENT
    Plat,               \* the machines to consider: "virt", "rpi4"
    Freq, NsPerS,       \* ticks and nanoseconds in a second
    Width,              \* the rpi4's compare register counts modulo Width
    Ns, TimerId,        \* arguments that clients pass
    MaxCount            \* bound on the counter

ASSUME TimerAssumption ==
    /\ TimersPerClient \in Nat /\ Plat \subseteq {"virt", "rpi4"}
    /\ Freq \in Nat \ {0} /\ NsPerS \in Nat \ {0}
    /\ Width \in Nat \ {0} /\ MaxCount \in Nat
    /\ Ns \subseteq Nat /\ TimerId \subseteq Int

VARIABLES
    plat,           \* the machine that the server is built for
    count,          \* the counter of the device
    outstanding,    \* Server.outstanding, the next to fall due first
    compare,        \* the compare register
    enable,         \* the enable register (virt)
    latch,          \* the match bit of the status register (rpi4)
    masked,         \* the kernel has taken the interrupt; ack() is still to come
    irq,            \* the interrupt is in the notification of the server
    notified,       \* clients whose notification is signalled
    pc,             \* where the holder of the mutex is; "idle": nobody holds it
    now,            \* the count that update() was called with
    handling        \* the holder is in handle_interrupt()

device == <<compare, enable, latch>>
kernel == <<masked, irq>>
vars == <<plat, count, outstanding, device, kernel, notified, pc, now, handling>>

Timer == [client : Client, timer : TimerId, compare : Nat, period : Nat]

TypeOK ==
    /\ count \in 0..MaxCount /\ now \in 0..count
    /\ outstanding \in Seq(Timer)
    /\ compare \in Nat /\ {enable, latch, masked, irq, handling} \subseteq BOOLEAN
    /\ notified \subseteq Client
    /\ pc \in {"idle", "update_timers", "update_device", "set_compare"}
    /\ irq => masked

Init ==
    /\ plat \in Plat
    /\ count = 0 /\ now = 0
    /\ outstanding = <<>>
    /\ compare = 0 /\ enable = FALSE /\ latch = FALSE
    /\ masked = FALSE /\ irq = FALSE
    /\ notified = {} /\ pc = "idle" /\ handling = FALSE

----------------------------------------------------------------------------
(* The device and the kernel.                                              *)
Line == IF plat = "virt" THEN enable /\ count >= compare ELSE latch

Matches(n, c) == plat = "rpi4" /\ n % Width = c

Tick ==
    /\ count < MaxCount
    /\ count' = count + 1
    /\ latch' = (latch \/ Matches(count + 1, compare))
    /\ UNCHANGED <<outstanding, compare, enable, kernel, notified, pc, now, handling>>

TakeInterrupt ==
    /\ Line /\ ~masked
    /\ masked' = TRUE /\ irq' = TRUE
    /\ UNCHANGED <<count, outstanding, device, notified, pc, now, handling>>

ClientRecv(c) ==
    /\ c \in notified
    /\ notified' = notified \ {c}
    /\ UNCHANGED <<count, outstanding, device, kernel, pc, now, handling>>

----------------------------------------------------------------------------
InsertedAt(q, k, t) == SubSeq(q, 1, k - 1) \o <<t>> \o SubSeq(q, k, Len(q))

(* Timers::insert(): binary_search() finds some equal timer, or the place. *)
insert(q, t) ==
    LET equal == {k \in DOMAIN q : q[k].compare = t.compare}
        place == {k \in 1..Len(q) + 1 :
                     /\ \A j \in 1..k - 1 : q[j].compare < t.compare
                     /\ \A j \in k..Len(q) : q[j].compare > t.compare}
    IN  {InsertedAt(q, k, t) : k \in IF equal # {} THEN equal ELSE place}

(* drain_filter(): what is kept of the first k timers, for each k.          *)
remove_timer(q, c, tid) ==
    LET kept[k \in 0..Len(q)] ==
            IF k = 0 THEN <<>>
            ELSE IF q[k].client = c /\ q[k].timer = tid THEN kept[k - 1]
            ELSE Append(kept[k - 1], q[k])
    IN  kept[Len(q)]

ns_to_tick(ns) == (ns * Freq) \div NsPerS

guard_tid(tid) == tid <= TimersPerClient

(* What the requests have in common: set_timer(), then update(now).        *)
SetTimer(c, tid, at, period) ==
    /\ pc = "idle"
    /\ guard_tid(tid)
    /\ outstanding' \in insert(remove_timer(outstanding, c, tid),
                               [client |-> c, timer |-> tid, compare |-> at, period |-> period])
    /\ now' = count /\ pc' = "update_timers"
    /\ UNCHANGED <<count, device, kernel, notified, handling>>

oneshot_relative(c, tid, ns) == SetTimer(c, tid, count + ns_to_tick(ns), 0)

oneshot_absolute(c, tid, ns) == SetTimer(c, tid, ns_to_tick(ns), 0)

(* A period below one tick would make update_timers() loop for ever.       *)
periodic(c, tid, ns) ==
    /\ ns_to_tick(ns) > 0
    /\ SetTimer(c, tid, count + ns_to_tick(ns), ns_to_tick(ns))

(* stop() leaves the device armed for a timer that is no more.             *)
stop(c, tid) ==
    /\ pc = "idle"
    /\ guard_tid(tid)
    /\ outstanding' = remove_timer(outstanding, c, tid)
    /\ UNCHANGED <<count, device, kernel, notified, pc, now, handling>>

handle_interrupt ==
    /\ pc = "idle" /\ irq
    /\ irq' = FALSE /\ handling' = TRUE
    /\ latch' = FALSE
    /\ now' = count /\ pc' = "update_timers"
    /\ UNCHANGED <<count, outstanding, compare, enable, masked, notified>>

----------------------------------------------------------------------------
(* update_timers(): one iteration of the loop, and its end.                *)
Due == outstanding # <<>> /\ Head(outstanding).compare <= now

(* Mutant: a periodic timer is not set again.                              *)
Mut_Expire ==
    /\ pc = "update_timers" /\ Due
    /\ outstanding' = Tail(outstanding)
    /\ notified' = notified \cup {Head(outstanding).client}
    /\ UNCHANGED <<count, device, kernel, pc, now, handling>>

Expire ==
    /\ pc = "update_timers" /\ Due
    /\ LET t == Head(outstanding)
       IN  /\ \/ t.period = 0 /\ outstanding' = Tail(outstanding)
              \/ /\ t.period > 0
                 /\ outstanding' \in insert(Tail(outstanding), [t EXCEPT !.compare = @ + t.period])
           /\ notified' = notified \cup {t.client}
    /\ UNCHANGED <<count, device, kernel, pc, now, handling>>

NoneDue ==
    /\ pc = "update_timers" /\ ~Due
    /\ pc' = "update_device"
    /\ UNCHANGED <<count, outstanding, device, kernel, notified, now, handling>>

(* Mutant: the interrupt is not acknowledged.                              *)
Mut_ReturnNoAck ==
    /\ pc' = "idle" /\ handling' = FALSE
    /\ UNCHANGED <<count, outstanding, notified, now, kernel>>

(* The end of a handler; that of the interrupt acknowledges it.            *)
Return ==
    /\ pc' = "idle" /\ handling' = FALSE
    /\ masked' = (masked /\ ~handling)
    /\ UNCHANGED <<count, outstanding, notified, now, irq>>

(* Mutant: set_compare() of the rpi4 does not look at the counter again.   *)
Mut_ArmBcm ==
    /\ pc = "update_device" /\ outstanding # <<>> /\ plat = "rpi4"
    /\ compare' = Head(outstanding).compare % Width
    /\ latch' = (latch \/ Matches(count, compare'))
    /\ Return
    /\ UNCHANGED enable

(* update_device() and set_compare().                                      *)
ArmVirt ==
    /\ pc = "update_device" /\ outstanding # <<>> /\ plat = "virt"
    /\ compare' = Head(outstanding).compare
    /\ enable' = TRUE
    /\ Return
    /\ UNCHANGED latch

ArmBcm ==
    /\ pc = "update_device" /\ outstanding # <<>> /\ plat = "rpi4"
    /\ compare' = Head(outstanding).compare % Width
    /\ latch' = (latch \/ Matches(count, compare'))
    /\ pc' = "set_compare"
    /\ UNCHANGED <<count, outstanding, enable, kernel, notified, now, handling>>

InTime == pc = "set_compare" /\ Head(outstanding).compare >= count /\ Return /\ UNCHANGED device

TooLate ==
    /\ pc = "set_compare" /\ Head(outstanding).compare < count
    /\ now' = count /\ pc' = "update_timers"
    /\ UNCHANGED <<count, outstanding, device, kernel, notified, handling>>

Disarm ==
    /\ pc = "update_device" /\ outstanding = <<>>
    /\ enable' = FALSE
    /\ Return
    /\ UNCHANGED <<compare, latch>>

----------------------------------------------------------------------------
Request(c, tid) ==
    \/ \E ns \in Ns : oneshot_relative(c, tid, ns) \/ oneshot_absolute(c, tid, ns) \/ periodic(c, tid, ns)
    \/ stop(c, tid)

Update == Expire \/ NoneDue \/ ArmVirt \/ ArmBcm \/ InTime \/ TooLate \/ Disarm

Next ==
    /\ UNCHANGED plat
    /\ \/ Tick \/ TakeInterrupt
       \/ \E c \in Client : ClientRecv(c) \/ \E tid \in TimerId : Request(c, tid)
       \/ handle_interrupt
       \/ Update

(* The server's threads are scheduled and the kernel delivers interrupts;  *)
(* clients may do nothing.  A thread that waits for the mutex gets it.     *)
Fairness ==
    /\ WF_vars(Update /\ UNCHANGED plat)
    /\ SF_vars(handle_interrupt /\ UNCHANGED plat)
    /\ WF_vars(TakeInterrupt /\ UNCHANGED plat)

Spec == Init /\ [][Next]_vars /\ Fairness

----------------------------------------------------------------------------
(* The next moment at which the armed device raises its line, when it is    *)
(* not raised already.                                                      *)
WillMatch(n) == IF plat = "virt" THEN enable /\ n >= compare ELSE n % Width = compare

(* Timers::insert() keeps the queue in order of expiry, and set_timer()     *)
(* leaves at most one timer per client and identifier.  Between two         *)
(* handlers the first timer of the queue is not forgotten: its interrupt    *)
(* has been taken; or it is not masked, and has been raised or the device   *)
(* is armed for a moment that is no later, whatever the counter did while   *)
(* the device was set.                                                      *)
HeadIsArmed ==
    /\ \A j, k \in DOMAIN outstanding : j < k =>
          /\ outstanding[j].compare <= outstanding[k].compare
          /\ <<outstanding[j].client, outstanding[j].timer>>
               # <<outstanding[k].client, outstanding[k].timer>>
    /\ pc = "idle" /\ outstanding # <<>> =>
          \/ irq
          \/ ~masked /\ (Line \/ \E n \in count + 1..Head(outstanding).compare : WillMatch(n))

(* A client is notified only for a timer of its own that is outstanding and *)
(* due: never early, and never for a timer it has stopped or set anew.  The *)
(* timer is then gone, or moved by one whole period if it is periodic.      *)
NotifiedForDueTimer ==
    [][\A c \in notified' \ notified :
          \E t \in Range(outstanding) :
             /\ t.client = c /\ t.compare <= count
             /\ t \notin Range(outstanding')
             /\ t.period > 0 =>
                  [t EXCEPT !.compare = @ + t.period] \in Range(outstanding')]_vars

(* A timer that has fallen due is removed, moved or stopped: the server     *)
(* does not sleep on it.                                                    *)
Overdue(c, tid) ==
    \E t \in Range(outstanding) : t.client = c /\ t.timer = tid /\ t.compare <= count
DueTimersExpire == \A c \in Client, tid \in TimerId : Overdue(c, tid) ~> ~Overdue(c, tid)
=============================================================================
