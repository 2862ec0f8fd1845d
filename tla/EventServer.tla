---------------------------- MODULE EventServer ----------------------------
(***************************************************************************)
(* The event server: it routes events between the host, the realms and the *)
(* servers, and turns hardware interrupts into events of the host.         *)
(*                                                                         *)
(* A receiver (one per host node and realm) owns an in-space: a bitfield   *)
(* in memory it shares with the server, and a notification whose badge     *)
(* tells which 64-bit groups of the bitfield to look at.  signal() sets a  *)
(* bit and signals the notification only if the bit was clear; the         *)
(* receiver waits, then swaps the groups of its badge with zero.  The two  *)
(* sides share no lock, so set, signal, wait and swap are separate steps.  *)
(*                                                                         *)
(* The server's threads run one request at a time under its mutex (module  *)
(* Mutex), and the caller is blocked until the reply.  A request that      *)
(* touches only the server's own state is therefore one step; in signal()  *)
(* "step" is what the thread that holds the mutex does next.  An index of  *)
(* an in-space is named by the event connected there.                      *)
(*                                                                         *)
(* Module ResourceServer puts the steps together: when the realms and the  *)
(* nodes of the host run, and who asks for what, is decided there.         *)
(***************************************************************************)
EXTENDS Naturals

CONSTANTS
    HostNode,       \* nodes of the host, each with its in-space
    Primary,        \* PRIMARY_HOST_NODE
    Realm,          \* realm identifiers; one node each (num_nodes: 1)
    Clears,         \* realms whose program begins with clear_ignore_all()
    IRQ,            \* interrupts owned by the server; each is an event
    Ring,           \* events of ring buffers
    From,           \* From[e]: the realm that signals e, or "other"
    To,             \* To[e]: the realm that receives e, or Primary
    GroupOf,        \* GroupOf[i]: number of the 64-bit group of bit i
    MaxLives        \* bound: times a realm is started

Space == HostNode \cup Realm
RealmEvent == "RealmEvent"              \* HostIn::RealmEvent
Index == {RealmEvent} \cup IRQ \cup Ring
Group == {GroupOf[i] : i \in Index}
None == "none"

ASSUME HostNodeAssumption ==
    /\ Primary \in HostNode
    /\ Clears \subseteq Realm
    /\ HostNode \cap Realm = {}
    /\ None \notin HostNode \cup Realm
ASSUME EventAssumption ==
    /\ RealmEvent \notin IRQ \cup Ring /\ IRQ \cap Ring = {}
    /\ From \in [Ring -> Realm \cup {"other"}]
    /\ To \in [Ring -> Realm \cup {Primary}]
    /\ GroupOf \in [Index -> Nat]
ASSUME LivesAssumption == MaxLives \in Nat

VARIABLES
    phase,          \* phase[r]: how far the realm r has come
    lives,          \* lives[r]: times the program of r was started
    bits,           \* bits[s]: the bits of the bitfield that are 1
    nfn,            \* nfn[s]: groups in the badge of the notification
    badge,          \* badge[s]: groups the receiver has still to swap
    slot,           \* slot[s]: InSpace.subscription_slot, a node or None
    hostSub,        \* nodes whose host_subscriptions[..].slot is Some
    rsSub,          \* nodes whose resource_server_subscriptions[..].slot is Some
    rsNfn,          \* nodes whose resource server notification is signalled
    masked,         \* interrupts taken by the kernel and not acknowledged
    irqNfn,         \* interrupts in the notification of the IRQ thread
    irqBadge,       \* interrupts in the badge the IRQ thread has received
    held,           \* interrupts the host's VMM has taken and not ended
    holder,         \* who holds the mutex in signal(): "irq", "client" or None
    step            \* the next step of the holder, Idle at the end

subs == <<slot, hostSub, rsSub>>
lock == <<holder, step>>
irqs == <<masked, irqNfn, irqBadge>>
vars == <<phase, lives, subs, bits, nfn, badge, rsNfn, irqs, held, lock>>

(* The realms of EventServer.realms, and those whose program runs.         *)
realms == {r \in Realm : phase[r] # "absent"}
alive == {r \in Realm : phase[r] = "running"}

Idle == [op |-> "idle", space |-> Primary, bit |-> RealmEvent]
Do(op, s, i) == [op |-> op, space |-> s, bit |-> i]

TypeOK ==
    /\ phase \in [Realm -> {"absent", "created", "running", "killed"}]
    /\ lives \in [Realm -> 0..MaxLives]
    /\ bits \in [Space -> SUBSET Index]
    /\ nfn \in [Space -> SUBSET Group]
    /\ badge \in [Space -> SUBSET Group]
    /\ slot \in [Space -> HostNode \cup {None}]
    /\ hostSub \subseteq HostNode /\ rsSub \subseteq HostNode
    /\ rsNfn \subseteq HostNode
    /\ masked \subseteq IRQ /\ irqNfn \subseteq IRQ
    /\ irqBadge \subseteq IRQ /\ held \subseteq IRQ
    /\ holder \in {"irq", "client", None}
    /\ step \in [op : {"set", "signal_nfn", "notify", "idle"}, space : Space, bit : Index]
    /\ holder = None => step = Idle

Init ==
    /\ phase = [r \in Realm |-> "absent"]
    /\ lives = [r \in Realm |-> 0]
    /\ bits = [s \in Space |-> {}]
    /\ nfn = [s \in Space |-> {}]
    /\ badge = [s \in Space |-> {}]
    /\ slot = [s \in Space |-> None]
    /\ hostSub = {} /\ rsSub = {} /\ rsNfn = {}
    /\ masked = {} /\ irqNfn = {} /\ irqBadge = {} /\ held = {}
    /\ holder = None /\ step = Idle

----------------------------------------------------------------------------
(* Requests that touch only the tables of the server.                      *)
Locked == holder = None /\ UNCHANGED <<lock, bits, nfn, badge, rsNfn, irqNfn, irqBadge, lives>>

(* A new realm has a new in-space on the notification and bitfield its     *)
(* identifier always had.                                                  *)
create_realm(r) ==
    /\ Locked
    /\ phase[r] = "absent"
    /\ phase' = [phase EXCEPT ![r] = "created"]
    /\ slot' = [slot EXCEPT ![r] = None]
    /\ UNCHANGED <<hostSub, rsSub, masked, held>>

(* The resource server deletes the realm's objects before it asks for this.*)
destroy_realm(r) ==
    /\ Locked
    /\ phase[r] = "killed"
    /\ phase' = [phase EXCEPT ![r] = "absent"]
    /\ slot' = [slot EXCEPT ![r] = None]
    /\ UNCHANGED <<hostSub, rsSub, masked, held>>

(* Asked for only when its two assertions hold; nothing undoes it.         *)
host_subscribe(n, r) ==
    /\ Locked
    /\ r \in realms /\ slot[r] = None /\ n \notin hostSub
    /\ slot' = [slot EXCEPT ![r] = n]
    /\ hostSub' = hostSub \cup {n}
    /\ UNCHANGED <<phase, rsSub, masked, held>>

resource_server_subscribe(n) ==
    /\ Locked
    /\ n \notin rsSub
    /\ slot' = [slot EXCEPT ![n] = n]
    /\ rsSub' = rsSub \cup {n}
    /\ UNCHANGED <<phase, hostSub, masked, held>>

resource_server_unsubscribe(n) ==
    /\ Locked
    /\ slot' = [slot EXCEPT ![n] = None]
    /\ rsSub' = rsSub \ {n}
    /\ UNCHANGED <<phase, hostSub, masked, held>>

(* end(): acknowledge the interrupt to the kernel, which unmasks it.  The  *)
(* host's VMM calls it when its guest has ended the interrupt, and for     *)
(* interrupts that it has never seen: a guest's write to GICD_ISENABLER or *)
(* GICD_CTLR acknowledges all that are enabled and not to be injected.     *)
end(i) ==
    /\ Locked
    /\ held' = held \ {i}
    /\ masked' = masked \ {i}
    /\ UNCHANGED <<phase, subs>>

----------------------------------------------------------------------------
(* Client::signal() and Event::signal(): the events to a realm are         *)
(* connected while the realm exists.                                       *)
Connected(e) == To[e] \in HostNode \cup realms

signal(e) ==
    /\ holder = None
    /\ From[e] \in alive \cup {"other"}
    /\ holder' = "client"
    /\ step' = IF Connected(e) THEN Do("set", To[e], e) ELSE Idle
    /\ UNCHANGED <<phase, lives, subs, bits, nfn, badge, rsNfn, irqs, held>>

(* Mutant: the subscriber is not told of the bit.                          *)
Mut_NfnSignal ==
    /\ step.op = "signal_nfn"
    /\ nfn' = [nfn EXCEPT ![step.space] = @ \cup {GroupOf[step.bit]}]
    /\ step' = Idle
    /\ UNCHANGED <<phase, lives, subs, bits, badge, rsNfn, irqs, held, holder>>

(* InSpace::signal(): set the bit, and go on if it was clear.              *)
InSpaceSignal ==
    /\ step.op = "set"
    /\ bits' = [bits EXCEPT ![step.space] = @ \cup {step.bit}]
    /\ step' = IF step.bit \in bits[step.space] THEN Idle
               ELSE Do("signal_nfn", step.space, step.bit)
    /\ UNCHANGED <<phase, lives, subs, nfn, badge, rsNfn, irqs, held, holder>>

NfnSignal ==
    /\ step.op = "signal_nfn"
    /\ nfn' = [nfn EXCEPT ![step.space] = @ \cup {GroupOf[step.bit]}]
    /\ step' = Do("notify", step.space, step.bit)
    /\ UNCHANGED <<phase, lives, subs, bits, badge, rsNfn, irqs, held, holder>>

(* notify_subscriber(): a subscription is good for one notification.  The  *)
(* subscriber of a realm is the event RealmEvent of a host node, signalled *)
(* like any other: it may in turn notify the resource server.              *)
notify_subscriber ==
    /\ step.op = "notify"
    /\ LET s == step.space
           to == slot[s]
       IN  /\ slot' = [slot EXCEPT ![s] = None]
           /\ rsNfn' = IF s \in HostNode /\ to # None THEN rsNfn \cup {to} ELSE rsNfn
           /\ step' = IF s \in Realm /\ to # None THEN Do("set", to, RealmEvent) ELSE Idle
    /\ UNCHANGED <<phase, lives, hostSub, rsSub, bits, nfn, badge, irqs, held, holder>>

(* The end of the critical section: reply, and wait again.                 *)
Unlock ==
    /\ holder # None /\ step = Idle
    /\ holder = "irq" => irqBadge = {}
    /\ holder' = None
    /\ UNCHANGED <<phase, lives, subs, bits, nfn, badge, rsNfn, irqs, held, step>>

----------------------------------------------------------------------------
(* Interrupts.  The kernel masks an interrupt when it takes it.            *)
Interrupt(i) ==
    /\ i \notin masked
    /\ masked' = masked \cup {i}
    /\ irqNfn' = irqNfn \cup {i}
    /\ UNCHANGED <<phase, lives, subs, bits, nfn, badge, rsNfn, irqBadge, held, lock>>

(* IRQThread::run(): wait, lock, and signal each interrupt of the badge.   *)
IRQThreadWait ==
    /\ irqBadge = {} /\ holder # "irq" /\ irqNfn # {}
    /\ irqBadge' = irqNfn
    /\ irqNfn' = {}
    /\ UNCHANGED <<phase, lives, subs, bits, nfn, badge, rsNfn, masked, held, lock>>

IRQThreadLock ==
    /\ irqBadge # {} /\ holder = None
    /\ holder' = "irq"
    /\ UNCHANGED <<phase, lives, subs, bits, nfn, badge, rsNfn, irqs, held, step>>

IRQThreadSignal(i) ==
    /\ holder = "irq" /\ step = Idle
    /\ i \in irqBadge
    /\ irqBadge' = irqBadge \ {i}
    /\ step' = Do("set", Primary, i)
    /\ UNCHANGED <<phase, lives, subs, bits, nfn, badge, rsNfn, masked, irqNfn, held, holder>>

----------------------------------------------------------------------------
(* The receivers: a node of the host's VMM, the VMM or Mirage of a realm.  *)
Runs(s) == s \in HostNode \cup alive

Wait(s) ==
    /\ Runs(s) /\ badge[s] = {} /\ nfn[s] # {}
    /\ badge' = [badge EXCEPT ![s] = nfn[s]]
    /\ nfn' = [nfn EXCEPT ![s] = {}]
    /\ UNCHANGED <<phase, lives, subs, bits, rsNfn, irqs, held, lock>>

InGroup(g) == {i \in Index : GroupOf[i] = g}

(* Mutant: all groups are swapped, and those of the badge looked at.       *)
Mut_clear(s) ==
    /\ Runs(s)
    /\ \E g \in badge[s] :
          /\ \A h \in badge[s] : g <= h
          /\ badge' = [badge EXCEPT ![s] = @ \ {g}]
          /\ bits' = [bits EXCEPT ![s] = {}]
          /\ held' = held \cup (bits[s] \cap InGroup(g) \cap IRQ)
    /\ UNCHANGED <<phase, lives, subs, nfn, rsNfn, irqs, lock>>

(* Bitfield::clear(): one swap for each group of the badge, in order.      *)
clear(s) ==
    /\ Runs(s)
    /\ \E g \in badge[s] :
          /\ \A h \in badge[s] : g <= h
          /\ badge' = [badge EXCEPT ![s] = @ \ {g}]
          /\ bits' = [bits EXCEPT ![s] = @ \ InGroup(g)]
          /\ held' = held \cup (bits[s] \cap InGroup(g) \cap IRQ)
    /\ UNCHANGED <<phase, lives, subs, nfn, rsNfn, irqs, lock>>

(* Mutant: the program does not clear what an earlier life left behind.    *)
Mut_Start(r) ==
    /\ phase[r] = "created" /\ lives[r] < MaxLives
    /\ phase' = [phase EXCEPT ![r] = "running"]
    /\ lives' = [lives EXCEPT ![r] = @ + 1]
    /\ UNCHANGED <<subs, bits, nfn, badge, rsNfn, irqs, held, lock>>

(* A realm's first run: Mirage begins with clear_ignore_all().             *)
Start(r) ==
    /\ phase[r] = "created" /\ lives[r] < MaxLives
    /\ phase' = [phase EXCEPT ![r] = "running"]
    /\ lives' = [lives EXCEPT ![r] = @ + 1]
    /\ badge' = [badge EXCEPT ![r] = IF r \in Clears THEN Group ELSE {}]
    /\ UNCHANGED <<subs, bits, nfn, rsNfn, irqs, held, lock>>

(* The realm's threads are deleted, whatever step they are at.             *)
Kill(r) ==
    /\ phase[r] \in {"created", "running"}
    /\ phase' = [phase EXCEPT ![r] = "killed"]
    /\ badge' = [badge EXCEPT ![r] = {}]
    /\ UNCHANGED <<lives, subs, bits, nfn, rsNfn, irqs, held, lock>>

----------------------------------------------------------------------------
(* The steps of a thread inside signal().                                  *)
Serve == InSpaceSignal \/ NfnSignal \/ notify_subscriber \/ Unlock

IRQThread == IRQThreadWait \/ IRQThreadLock \/ \E i \in IRQ : IRQThreadSignal(i)

Receive(s) == Wait(s) \/ clear(s)

----------------------------------------------------------------------------
(* Receivers that have lost no badge: a host node, a realm that cleared its *)
(* bitfield when it started, or one that was never deleted before.  The VMM *)
(* of a realm does not clear it: a realm deleted between its wait and its   *)
(* swap leaves bits that no later signal() announces to its successor.      *)
Unbroken(s) ==
    \/ s \in HostNode
    \/ s \in Realm /\ lives[s] = 0 /\ phase[s] # "killed"
    \/ s \in alive /\ (s \in Clears \/ lives[s] = 1)

(* signal() does not announce a bit that is already set, so a set bit whose *)
(* announcement is over and done with would be lost, and every later signal *)
(* of the same event with it.  For every set bit, its group is in the       *)
(* notification, or in the badge the receiver is working on, or the server  *)
(* is about to signal the notification.                                     *)
SetBitIsAnnounced ==
    \A s \in Space : Unbroken(s) =>
        \A i \in bits[s] :
            \/ GroupOf[i] \in nfn[s] \cup badge[s]
            \/ step.op = "signal_nfn" /\ step.space = s /\ step.bit = i

(* The places an interrupt passes through on its way to the host's guest.   *)
Places(i) ==
    {p \in {"nfn", "badge", "step", "bit", "held"} :
        CASE p = "nfn"   -> i \in irqNfn
          [] p = "badge" -> i \in irqBadge
          [] p = "step"  -> step.op = "set" /\ step.bit = i
          [] p = "bit"   -> i \in bits[Primary]
          [] p = "held"  -> i \in held}

(* A masked interrupt comes no more until somebody calls end(), so it must  *)
(* be on its way to a guest that will: in the notification or the badge of  *)
(* the IRQ thread, about to be signalled, in the host's bitfield, or taken  *)
(* by the host's VMM.  None is dropped where two meet, in a badge or as a   *)
(* bit that is already set, and it holds although end() may come too early, *)
(* so that the interrupt is then in two of these places at once.            *)
MaskedIsOnItsWay ==
    \A i \in IRQ : i \in masked => Places(i) # {}
=============================================================================
