------------------------ MODULE ResourceServerProofs ------------------------
(***************************************************************************)
(* Proofs about ResourceServer and the EventServer under it, for every set *)
(* of host nodes, realms, interrupts and ring events, any assignment of    *)
(* bits to groups and any number of lives of a realm.                      *)
(*                                                                         *)
(* None of the five invariants is inductive.  Their proofs rest on what    *)
(* the operation that holds the mutex has done so far and still has to do  *)
(* (TodoAccounts), and on where the event server may put a bit (BitsInv).  *)
(* One lemma for each step of the resource server comes first, then those  *)
(* of the event server, the programs and the kernel, then the theorems.    *)
(***************************************************************************)
EXTENDS ResourceServer, TLAPS

(* A realm is in at most one of the three maps.                            *)
MapsDisjoint ==
    /\ partial_specs \cap partial_realms = {}
    /\ partial_specs \cap realized = {}
    /\ partial_realms \cap realized = {}

Replying == {"unsubscribe", "cancel_timeout", "resume_host"}

(* What the holder of the mutex has done, and what it owes.                *)
TodoAccounts ==
    /\ todo.op = "free" => todo = Free
    /\ todo.op \in {"subscribe", "set_timeout"} \cup Replying => todo.node \in HostNode
    /\ todo.op \in {"create_realm", "destroy_realm"} => todo.realm \in Realm
    /\ todo.op \in {"subscribe", "set_timeout"} => physical_nodes[todo.node] # None
    /\ todo.op \in Replying => physical_nodes[todo.node] = None
    /\ blocked = reply_slot
    /\ \A n \in HostNode :
          n \in blocked <=> \/ physical_nodes[n] # None
                            \/ todo.op \in Replying /\ todo.node = n

(* The subscriptions at the event server are those of the blocked nodes.   *)
SubsAccount ==
    /\ \A n \in HostNode :
          /\ n \in rsSub <=>
                /\ n \in blocked
                /\ ~(todo.node = n /\ todo.op \in {"subscribe", "cancel_timeout", "resume_host"})
          /\ slot[n] \in {n, None}
          /\ n \notin rsSub => slot[n] = None

(* The two servers know the same realms, but for the one that is being     *)
(* created or destroyed.                                                   *)
PhaseAccounts ==
    \A r \in Realm :
        /\ todo.op = "create_realm" /\ todo.realm = r => r \in realized /\ phase[r] = "absent"
        /\ todo.op = "destroy_realm" /\ todo.realm = r => r \notin realized /\ phase[r] = "killed"
        /\ ~(todo.op \in {"create_realm", "destroy_realm"} /\ todo.realm = r) =>
              \/ r \in realized /\ phase[r] \in {"created", "running"}
              \/ r \notin realized /\ phase[r] = "absent"

(* A set bit is announced in every in-space of which no badge was lost;    *)
(* those of Unbroken, and of realms deleted before they ran.               *)
Announced(s) ==
    \A i \in bits[s] :
        \/ GroupOf[i] \in nfn[s] \cup badge[s]
        \/ step.op = "signal_nfn" /\ step.space = s /\ step.bit = i

BitsAnnounced ==
    /\ \A r \in Realm : /\ lives[r] = 0 => badge[r] = {}
                        /\ phase[r] = "running" => lives[r] # 0
    /\ \A s \in Space : s \in HostNode \/ lives[s] = 0 \/ Unbroken(s) => Announced(s)

(* Interrupts go to the primary node of the host only, and a masked one is *)
(* somewhere on its way there.                                             *)
AtStep(i) == step.op = "set" /\ step.bit = i

OnItsWay(i) ==
    i \in masked => \/ i \in irqNfn \/ i \in irqBadge \/ AtStep(i)
                    \/ i \in bits[Primary] \/ i \in held

BitsInv ==
    /\ step.bit \in IRQ => step.space = Primary
    /\ \A s \in Space \ {Primary} : bits[s] \cap IRQ = {}
    /\ \A i \in IRQ : OnItsWay(i)

IInv ==
    /\ RSTypeOK /\ MapsDisjoint /\ NodesAgree /\ TodoAccounts
    /\ SubsAccount /\ PhaseAccounts /\ BitsAnnounced /\ BitsInv

----------------------------------------------------------------------------
(* A step that leaves the bitfields, the notifications, the interrupts and *)
(* the life of the realms alone.                                           *)
LEMMA BitsFrame ==
    ASSUME IInv, UNCHANGED <<bits, nfn, badge, step, lives, phase, irqs, held>>
    PROVE  BitsAnnounced' /\ BitsInv'
<1>1. BitsAnnounced'
  BY DEF IInv, BitsAnnounced, Announced, Unbroken, alive
<1>2. BitsInv'
  BY DEF IInv, BitsInv, OnItsWay, AtStep, irqs
<1> QED
  BY <1>1, <1>2

(* A step that leaves the maps, the records of the nodes, the operation    *)
(* that is under way and the subscriptions alone.                          *)
LEMMA AccountsFrame ==
    ASSUME IInv, UNCHANGED <<lifecycle, nodes, hostCall, todo, slot, rsSub, phase>>
    PROVE  MapsDisjoint' /\ NodesAgree' /\ TodoAccounts' /\ SubsAccount' /\ PhaseAccounts'
<1> USE DEF lifecycle, nodes, hostCall
<1>1. MapsDisjoint' /\ NodesAgree'
  BY DEF IInv, MapsDisjoint, NodesAgree
<1>2. TodoAccounts'
  BY DEF IInv, TodoAccounts
<1>3. SubsAccount' /\ PhaseAccounts'
  BY DEF IInv, SubsAccount, PhaseAccounts
<1> QED
  BY <1>1, <1>2, <1>3

(* A step of the event server: the records of the resource server stay.    *)
LEMMA RecordsFrame ==
    ASSUME IInv, UNCHANGED rsVars
    PROVE  /\ MapsDisjoint' /\ NodesAgree' /\ TodoAccounts'
           /\ TypeOK /\ (TypeOK' => RSTypeOK')
           /\ UNCHANGED <<todo, blocked, realized>>
<1> USE DEF rsVars, lifecycle, nodes, hostCall, timers
<1>1. MapsDisjoint'
  BY DEF IInv, MapsDisjoint
<1>2. NodesAgree'
  BY DEF IInv, NodesAgree
<1>3. TodoAccounts'
  BY DEF IInv, TodoAccounts
<1>4. TypeOK /\ (TypeOK' => RSTypeOK')
  BY DEF IInv, RSTypeOK
<1>5. UNCHANGED <<todo, blocked, realized>>
  OBVIOUS
<1> QED
  BY <1>1, <1>2, <1>3, <1>4, <1>5

(* Initially nothing exists and nobody waits.                              *)
LEMMA InitIInv == RSInit => IInv
<1> SUFFICES ASSUME RSInit PROVE IInv
  OBVIOUS
<1> USE HostNodeAssumption, EventAssumption, LivesAssumption DEF RSInit, Init
<1>1. RSTypeOK
  BY DEF RSTypeOK, TypeOK, Free, Idle, Space, Index, Group
<1>2. MapsDisjoint /\ NodesAgree
  BY DEF MapsDisjoint, NodesAgree
<1>3. TodoAccounts /\ SubsAccount
  BY DEF TodoAccounts, SubsAccount, Replying, Free, Space
<1>4. PhaseAccounts
  BY DEF PhaseAccounts, Free
<1>5. BitsAnnounced
  BY DEF BitsAnnounced, Announced, Space
<1>6. BitsInv
  BY DEF BitsInv, OnItsWay, AtStep, Idle, Space
<1> QED
  BY <1>1, <1>2, <1>3, <1>4, <1>5, <1>6 DEF IInv

----------------------------------------------------------------------------
(* declare() and realize_start() move a realm between the maps.            *)
LEMMA DeclareIInv ==
    ASSUME IInv, NEW n \in HostNode, NEW r \in Realm, declare(n, r) \/ realize_start(n, r)
    PROVE  IInv'
<1> USE DEF declare, realize_start, vars, subs, irqs, lock, nodes, hostCall, timers
<1>1. RSTypeOK'
  BY DEF IInv, RSTypeOK, TypeOK
<1>2. MapsDisjoint'
  BY DEF IInv, MapsDisjoint
<1>3. NodesAgree' /\ TodoAccounts'
  BY DEF IInv, NodesAgree, TodoAccounts
<1>4. SubsAccount'
  BY DEF IInv, SubsAccount
<1>5. PhaseAccounts'
  BY DEF IInv, PhaseAccounts
<1>6. BitsAnnounced' /\ BitsInv'
  BY BitsFrame
<1> QED
  BY <1>1, <1>2, <1>3, <1>4, <1>5, <1>6 DEF IInv

(* realize_finish(): the realm is recorded and not yet at the event server.*)
LEMMA RealizeFinishIInv ==
    ASSUME IInv, NEW n \in HostNode, NEW r \in Realm, realize_finish(n, r)
    PROVE  IInv'
<1> USE HostNodeAssumption
        DEF realize_finish, HostCall, Todo, Free, vars, subs, irqs, lock, hostCall, timers
<1>1. RSTypeOK'
  BY DEF IInv, RSTypeOK, TypeOK
<1>2. MapsDisjoint'
  BY Zenon DEF IInv, MapsDisjoint
<1>3. r \notin realized /\ physical_node[r] = None /\ physical_node' = physical_node
  BY DEF IInv, RSTypeOK, MapsDisjoint, NodesAgree
<1>4. NodesAgree'
  BY <1>3 DEF IInv, RSTypeOK, NodesAgree
<1>5. TodoAccounts' /\ SubsAccount'
  BY DEF IInv, TodoAccounts, SubsAccount, Replying
<1>6. PhaseAccounts'
  BY <1>3 DEF IInv, PhaseAccounts
<1>7. BitsAnnounced' /\ BitsInv'
  BY BitsFrame
<1> QED
  BY <1>1, <1>2, <1>4, <1>5, <1>6, <1>7, Zenon DEF IInv

(* destroy(): the threads of the realm are gone, and its badge with them.  *)
LEMMA DestroyIInv ==
    ASSUME IInv, NEW n \in HostNode, NEW r \in Realm, destroy(n, r)
    PROVE  IInv'
<1> USE HostNodeAssumption
        DEF destroy, Kill, HostCall, Todo, Free, vars, subs, irqs, lock, hostCall, timers
<1>1. RSTypeOK'
  BY DEF IInv, RSTypeOK, TypeOK, Space
<1>2. MapsDisjoint'
  BY Zenon DEF IInv, MapsDisjoint
<1>3. NodesAgree'
  BY DEF IInv, RSTypeOK, NodesAgree
<1>4. TodoAccounts' /\ SubsAccount'
  BY DEF IInv, TodoAccounts, SubsAccount, Replying
<1>5. PhaseAccounts'
  BY DEF IInv, PhaseAccounts, RSTypeOK, TypeOK
<1>6. BitsAnnounced'
  <2>1. /\ DOMAIN phase = Realm /\ DOMAIN badge = Space /\ r \in Space
        /\ UNCHANGED <<lives, bits, nfn, step>>
        /\ phase' = [phase EXCEPT ![r] = "killed"] /\ badge' = [badge EXCEPT ![r] = {}]
    BY Zenon DEF IInv, RSTypeOK, TypeOK, Space
  <2> HIDE DEF destroy, Kill, HostCall, Todo, Free, vars, subs, irqs, lock, hostCall, timers
  <2>2. /\ phase'[r] = "killed" /\ badge'[r] = {} /\ r \notin HostNode
        /\ \A t \in Space : t # r => badge'[t] = badge[t]
        /\ \A t \in Realm : t # r => phase'[t] = phase[t]
    BY <2>1
  <2>3. BitsAnnounced
    BY Zenon DEF IInv
  <2>4. ASSUME NEW t \in Space, t \in HostNode \/ lives[t] = 0 \/ Unbroken(t)'
        PROVE  Announced(t)'
    <3>1. CASE t = r
      <4>1. lives[r] = 0
        BY <2>2, <2>4, <3>1 DEF Unbroken, alive
      <4> QED
        <5>1. Announced(r) /\ badge[r] = {}
          BY <2>1, <2>3, <4>1, Zenon DEF BitsAnnounced
        <5> QED
          BY <2>1, <2>2, <3>1, <5>1, Zenon DEF Announced
    <3>2. CASE t # r
      <4>1. t \in HostNode \/ lives[t] = 0 \/ Unbroken(t)
        BY <2>1, <2>2, <2>4, <3>2 DEF Unbroken, alive, Space
      <4> QED
        <5>1. Announced(t)
          BY <2>3, <4>1, Zenon DEF BitsAnnounced
        <5> QED
          BY <2>1, <2>2, <3>2, <5>1, Zenon DEF Announced
    <3> QED
      BY <3>1, <3>2
  <2>5. \A t \in Realm : /\ lives[t] = 0 => badge'[t] = {}
                         /\ phase'[t] = "running" => lives[t] # 0
    BY <2>2, <2>3, Zenon DEF BitsAnnounced, Space
  <2> QED
    BY <2>1, <2>4, <2>5, Zenon DEF BitsAnnounced
<1>7. BitsInv'
  BY Zenon DEF IInv, BitsInv, OnItsWay, AtStep
<1> QED
  BY <1>1, <1>2, <1>3, <1>4, <1>5, <1>6, <1>7 DEF IInv

(* hack_run(): the realm goes to the primary core, unrecorded.             *)
LEMMA HackRunIInv ==
    ASSUME IInv, NEW n \in HostNode, NEW r \in Realm, hack_run(n, r)
    PROVE  IInv'
<1> USE HostNodeAssumption
        DEF hack_run, vars, subs, irqs, lock, lifecycle, hostCall, timers
<1>1. RSTypeOK'
  BY DEF IInv, RSTypeOK, TypeOK
<1>2. MapsDisjoint' /\ TodoAccounts' /\ SubsAccount' /\ PhaseAccounts'
  BY DEF IInv, MapsDisjoint, TodoAccounts, SubsAccount, PhaseAccounts
<1>3. NodesAgree'
  BY DEF IInv, RSTypeOK, NodesAgree
<1>4. BitsAnnounced' /\ BitsInv'
  BY BitsFrame
<1> QED
  BY <1>1, <1>2, <1>3, <1>4 DEF IInv

(* yield_to(): the node is free, because it is not blocked.                *)
LEMMA YieldIInv ==
    ASSUME IInv, NEW n \in HostNode, NEW r \in Realm, NEW timed \in YieldTimed,
           yield_to(n, r, timed)
    PROVE  IInv'
<1> USE HostNodeAssumption, HostAssumption
        DEF yield_to, HostCall, Todo, Free, vars, subs, irqs, lock, lifecycle, timers
<1>1. RSTypeOK'
  BY DEF IInv, RSTypeOK, TypeOK
<1>2. MapsDisjoint' /\ PhaseAccounts'
  BY Zenon DEF IInv, MapsDisjoint, PhaseAccounts
<1>3. physical_nodes[n] = None
  BY DEF IInv, RSTypeOK, TodoAccounts
<1>4. NodesAgree'
  BY <1>3 DEF IInv, RSTypeOK, NodesAgree
<1>5. TodoAccounts'
  BY DEF IInv, RSTypeOK, TodoAccounts, Replying
<1>6. SubsAccount'
  BY DEF IInv, RSTypeOK, SubsAccount
<1>7. BitsAnnounced' /\ BitsInv'
  BY BitsFrame, Zenon
<1> QED
  BY <1>1, <1>2, <1>4, <1>5, <1>6, <1>7, Zenon DEF IInv

----------------------------------------------------------------------------
(* A notification is received, or the timer server sends one.              *)
LEMMA RecvIInv ==
    ASSUME IInv, NEW n \in HostNode, Recv(n) \/ TimerExpires(n)
    PROVE  IInv'
<1> USE DEF Recv, TimerExpires, vars, subs, irqs, lock, lifecycle, nodes, hostCall
<1>1. RSTypeOK'
  BY DEF IInv, RSTypeOK, TypeOK
<1>2. MapsDisjoint' /\ NodesAgree' /\ TodoAccounts' /\ SubsAccount' /\ PhaseAccounts'
  <2>1. UNCHANGED <<lifecycle, nodes, hostCall, todo, slot, rsSub, phase>>
    BY Zenon
  <2> QED
    BY <2>1, AccountsFrame, Zenon
<1>3. BitsAnnounced' /\ BitsInv'
  BY BitsFrame, Zenon
<1> QED
  BY <1>1, <1>2, <1>3, Zenon DEF IInv

(* TakeBack(): the node's record goes, and from here on the reply is owed. *)
LEMMA TakeBackIInv ==
    ASSUME IInv, NEW n \in HostNode, TakeBack(n)
    PROVE  IInv'
<1> USE HostNodeAssumption
        DEF TakeBack, Todo, Free, vars, subs, irqs, lock, lifecycle, hostCall, timers
<1>1. CASE physical_nodes[n] = None
  <2>1. UNCHANGED <<nodes, todo>> /\ message' = [message EXCEPT ![n] = None]
    BY <1>1
  <2>2. RSTypeOK'
    BY <2>1, Zenon DEF IInv, RSTypeOK, TypeOK, nodes
  <2>3. MapsDisjoint' /\ NodesAgree' /\ TodoAccounts' /\ SubsAccount' /\ PhaseAccounts'
    <3>1. UNCHANGED <<lifecycle, hostCall, slot, rsSub, phase>>
      BY Zenon
    <3> QED
      BY <2>1, <3>1, AccountsFrame, Zenon
  <2> QED
    BY <2>2, <2>3, BitsFrame DEF IInv
<1>2. CASE physical_nodes[n] # None
  <2> DEFINE r == physical_nodes[n]
  <2>1. r \in Realm /\ physical_node[r] = n
    BY <1>2 DEF IInv, RSTypeOK, NodesAgree
  <2>2. /\ physical_nodes' = [physical_nodes EXCEPT ![n] = None]
        /\ physical_node' = [physical_node EXCEPT ![r] = None]
        /\ affinity' = [affinity EXCEPT ![r] = None]
        /\ todo' = Todo("unsubscribe", n, None, 0)
        /\ message' = message
    BY <1>2, Zenon
  <2> HIDE DEF r
  <2>3. RSTypeOK'
    BY <2>1, <2>2, Zenon DEF IInv, RSTypeOK, TypeOK
  <2>4. MapsDisjoint' /\ PhaseAccounts'
    BY <2>2, Zenon DEF IInv, MapsDisjoint, PhaseAccounts
  <2>5. NodesAgree'
    BY <2>1, <2>2 DEF IInv, RSTypeOK, NodesAgree, r
  <2>6. TodoAccounts'
    BY <1>2, <2>2 DEF IInv, RSTypeOK, TodoAccounts, Replying
  <2>7. SubsAccount'
    BY <2>2 DEF IInv, SubsAccount
  <2> QED
    BY <2>3, <2>4, <2>5, <2>6, <2>7, BitsFrame, Zenon DEF IInv
<1> QED
  BY <1>1, <1>2, Zenon

----------------------------------------------------------------------------
(* The end of realize_finish() and of destroy(): the event server agrees.  *)
LEMMA FinishIInv ==
    ASSUME IInv, FinishCreate \/ FinishDestroy
    PROVE  IInv'
<1> USE HostNodeAssumption
<1> DEFINE r == todo.realm
<1>1. /\ \/ todo.op = "create_realm" /\ phase' = [phase EXCEPT ![r] = "created"]
         \/ todo.op = "destroy_realm" /\ phase' = [phase EXCEPT ![r] = "absent"]
      /\ slot' = [slot EXCEPT ![r] = None] /\ todo' = Free
  BY DEF FinishCreate, FinishDestroy, create_realm, destroy_realm
<1>2. /\ UNCHANGED <<lives, bits, nfn, badge, rsNfn, hostSub, rsSub, held, holder, step>>
      /\ UNCHANGED <<masked, irqNfn, irqBadge>>
  BY DEF FinishCreate, FinishDestroy, create_realm, destroy_realm, Locked, irqs, lock
<1>3. UNCHANGED <<lifecycle, nodes, hostCall, timers, message>>
  BY DEF FinishCreate, FinishDestroy
<1>4. r \in Realm
  BY <1>1 DEF IInv, TodoAccounts
<1>5. RSTypeOK'
  <2>1. TypeOK'
    <3>1. TypeOK
      BY DEF IInv, RSTypeOK
    <3>2. /\ phase' \in [Realm -> {"absent", "created", "running", "killed"}]
          /\ slot' \in [Space -> HostNode \cup {None}]
      BY <1>1, <1>4, <3>1, Zenon DEF TypeOK, Space
    <3> QED
      BY <1>2, <3>1, <3>2 DEF TypeOK
  <2> QED
    BY <1>1, <1>3, <2>1
       DEF IInv, RSTypeOK, Free, lifecycle, nodes, hostCall, timers
<1>6. MapsDisjoint' /\ NodesAgree'
  BY <1>3, Zenon DEF IInv, MapsDisjoint, NodesAgree, lifecycle, nodes
<1>7. TodoAccounts'
  BY <1>1, <1>3, Zenon DEF IInv, TodoAccounts, Replying, Free, nodes, hostCall
<1>8. SubsAccount'
  BY <1>1, <1>2, <1>3, <1>4, Zenon DEF IInv, SubsAccount, RSTypeOK, TypeOK, Space, Free, hostCall
<1>9. PhaseAccounts'
  BY <1>1, <1>3, <1>4 DEF IInv, PhaseAccounts, RSTypeOK, TypeOK, Free, lifecycle
<1>10. BitsAnnounced'
  <2>1. /\ phase \in [Realm -> {"absent", "created", "running", "killed"}]
        /\ todo.op = "destroy_realm" => phase[r] = "killed"
    BY <1>4 DEF IInv, RSTypeOK, TypeOK, PhaseAccounts
  <2>2. \A t \in Realm : phase'[t] = "running" <=> phase[t] = "running" /\ t # r
    BY <1>1, <1>4, <2>1, Zenon
  <2>3. \A t \in Space : Announced(t) => Announced(t)'
    BY <1>2 DEF Announced
  <2>4. \A t \in Space : t \in HostNode \/ lives[t] = 0 \/ Unbroken(t)' =>
                             t \in HostNode \/ lives[t] = 0 \/ Unbroken(t)
    BY <1>2, <2>2 DEF Unbroken, alive
  <2> QED
    BY <1>2, <2>2, <2>3, <2>4, Zenon DEF IInv, BitsAnnounced
<1>11. BitsInv'
  BY <1>2 DEF IInv, BitsInv, OnItsWay, AtStep
<1> QED
  BY <1>5, <1>6, <1>7, <1>8, <1>9, <1>10, <1>11 DEF IInv

(* The subscription of a yield is made when the node's is free, and given  *)
(* up before the reply.                                                    *)
LEMMA SubscribeIInv ==
    ASSUME IInv, set_notify_host_event \/ cancel_notify_host_event
    PROVE  IInv'
<1> USE HostNodeAssumption
        DEF set_notify_host_event, cancel_notify_host_event, resource_server_subscribe,
            resource_server_unsubscribe, Locked, Free, irqs, lock, lifecycle, nodes,
            hostCall, timers
<1>1. todo.node \in HostNode
  BY DEF IInv, TodoAccounts, Replying
<1>2. RSTypeOK'
  BY <1>1 DEF IInv, RSTypeOK, TypeOK, Space
<1>3. MapsDisjoint' /\ NodesAgree' /\ PhaseAccounts'
  BY DEF IInv, MapsDisjoint, NodesAgree, PhaseAccounts, RSTypeOK
<1>4. TodoAccounts'
  BY DEF IInv, TodoAccounts, Replying, RSTypeOK
<1>5. SubsAccount'
  BY <1>1 DEF IInv, SubsAccount, TodoAccounts, Replying, RSTypeOK, TypeOK, Space
<1> QED
  BY <1>2, <1>3, <1>4, <1>5, BitsFrame DEF IInv

(* The timer of a yield, and the reply to the host.                        *)
LEMMA TimerAndReplyIInv ==
    ASSUME IInv, set_timeout \/ cancel_timeout \/ resume_host
    PROVE  IInv'
<1> USE HostNodeAssumption
        DEF set_timeout, cancel_timeout, resume_host, Free, vars, subs, irqs, lock,
            lifecycle, nodes, hostCall, timers
<1>1. todo.node \in HostNode
  BY DEF IInv, TodoAccounts, Replying
<1>2. RSTypeOK'
  BY <1>1 DEF IInv, RSTypeOK, TypeOK
<1>3. MapsDisjoint' /\ NodesAgree' /\ PhaseAccounts'
  BY DEF IInv, MapsDisjoint, NodesAgree, PhaseAccounts, RSTypeOK
<1>4. TodoAccounts'
  <2>1. CASE set_timeout
    BY <1>1, <2>1 DEF IInv, TodoAccounts, Replying, RSTypeOK
  <2>2. CASE cancel_timeout
    BY <1>1, <2>2 DEF IInv, TodoAccounts, Replying, RSTypeOK
  <2>3. CASE resume_host
    BY <1>1, <2>3 DEF IInv, TodoAccounts, Replying, RSTypeOK
  <2> QED
    BY <2>1, <2>2, <2>3
<1>5. SubsAccount'
  BY <1>1 DEF IInv, SubsAccount, TodoAccounts, Replying, RSTypeOK
<1> QED
  BY <1>2, <1>3, <1>4, <1>5, BitsFrame DEF IInv

----------------------------------------------------------------------------
(* The step of a signal() that is over.                                    *)
LEMMA IdleIsOver ==
    /\ Idle.op = "idle" /\ Idle.bit = RealmEvent
    /\ \A i \in IRQ : i \notin Ring
BY EventAssumption DEF Idle

(* The life of the realms stays, and so does what is broken.               *)
LEMMA UnbrokenFrame ==
    ASSUME UNCHANGED <<phase, lives>>
    PROVE  \A s : Unbroken(s)' = Unbroken(s)
BY Zenon DEF Unbroken, alive

(* The set of signal(): a new bit is announced next, an old one already is.*)
LEMMA InSpaceSignalIInv ==
    ASSUME IInv, InSpaceSignal, UNCHANGED rsVars
    PROVE  IInv'
<1> USE HostNodeAssumption, EventAssumption
<1>0. TypeOK /\ UNCHANGED <<todo, blocked, realized>>
  BY RecordsFrame, Zenon
<1>1. /\ step.space \in Space /\ step.bit \in Index /\ holder # None
      /\ bits \in [Space -> SUBSET Index]
  <2>1. step.op # "idle" /\ step.space \in Space /\ step.bit \in Index
    BY <1>0 DEF TypeOK, InSpaceSignal
  <2>2. holder # None /\ bits \in [Space -> SUBSET Index]
    BY <1>0, <2>1 DEF TypeOK, Idle
  <2> QED
    BY <2>1, <2>2
<1>2. /\ UNCHANGED <<phase, lives, slot, hostSub, rsSub, nfn, badge, rsNfn, held, holder>>
      /\ UNCHANGED <<masked, irqNfn, irqBadge>>
  BY Zenon DEF InSpaceSignal, subs, irqs
<1>3. /\ bits'[step.space] = bits[step.space] \cup {step.bit}
      /\ \A s \in Space : s # step.space => bits'[s] = bits[s]
      /\ bits' \in [Space -> SUBSET Index]
  BY <1>1, Zenon DEF InSpaceSignal
<1>4. \/ step.bit \in bits[step.space] /\ step' = Idle
      \/ /\ step.bit \notin bits[step.space]
         /\ step'.op = "signal_nfn" /\ step'.space = step.space /\ step'.bit = step.bit
         /\ step' = Do("signal_nfn", step.space, step.bit)
  BY Zenon DEF InSpaceSignal, Do
<1>5. TypeOK'
  <2>1. step' \in [op : {"set", "signal_nfn", "notify", "idle"}, space : Space, bit : Index]
    BY <1>1, <1>4 DEF Do, Idle, Space, Index
  <2> QED
    BY <1>0, <1>1, <1>2, <1>3, <2>1, Zenon DEF TypeOK
<1>6. SubsAccount' /\ PhaseAccounts'
  BY <1>0, <1>2, Zenon DEF IInv, SubsAccount, PhaseAccounts
<1>7. BitsAnnounced'
  <2>1. \A s \in Space : Announced(s) => Announced(s)'
    <3> SUFFICES ASSUME NEW s \in Space, Announced(s), NEW i, i \in bits'[s]
                 PROVE  \/ GroupOf[i] \in nfn[s] \cup badge[s]
                        \/ step'.op = "signal_nfn" /\ step'.space = s /\ step'.bit = i
      BY <1>2, Zenon DEF Announced
    <3>1. i \in bits[s] \/ (s = step.space /\ i = step.bit)
      <4>1. CASE s = step.space
        BY <1>3, <4>1
      <4>2. CASE s # step.space
        BY <1>3, <4>2
      <4> QED
        BY <4>1, <4>2, Zenon
    <3>2. i \in bits[s] => GroupOf[i] \in nfn[s] \cup badge[s]
      <4>1. step.op # "signal_nfn"
        BY DEF InSpaceSignal
      <4> QED
        BY <4>1, Zenon DEF Announced
    <3> QED
      BY <1>4, <3>1, <3>2
  <2> QED
    BY <1>2, <2>1, UnbrokenFrame, Zenon DEF IInv, BitsAnnounced
<1>8. BitsInv'
  <2>0. /\ step.bit \in IRQ => step.space = Primary
        /\ \A s \in Space \ {Primary} : bits[s] \cap IRQ = {}
    BY Zenon DEF IInv, BitsInv
  <2>1. step'.bit \in IRQ => step'.space = Primary
    BY <1>4, <2>0 DEF Idle
  <2>2. \A s \in Space \ {Primary} : bits'[s] \cap IRQ = {}
    BY <1>3, <2>0
  <2>3. ASSUME NEW i \in IRQ
        PROVE  OnItsWay(i)'
    <3>1. OnItsWay(i) /\ (step.bit \in IRQ => step.space = Primary)
      BY Zenon DEF IInv, BitsInv
    <3>2. ~AtStep(i)' /\ (AtStep(i) <=> step.bit = i)
      BY <1>4 DEF AtStep, InSpaceSignal, Idle
    <3>3. i \in bits'[Primary] <=> i \in bits[Primary] \/ AtStep(i)
      <4>1. Primary \in Space
        BY DEF Space
      <4> QED
        BY <1>3, <3>1, <3>2, <4>1, Zenon
    <3> QED
      BY <1>2, <3>1, <3>2, <3>3, Zenon DEF OnItsWay
  <2> QED
    BY <2>1, <2>2, <2>3, Zenon DEF BitsInv
<1> QED
  BY <1>5, <1>6, <1>7, <1>8, RecordsFrame, Zenon DEF IInv

(* The signal of the notification.                                         *)
LEMMA NfnSignalIInv ==
    ASSUME IInv, NfnSignal, UNCHANGED rsVars
    PROVE  IInv'
<1> USE HostNodeAssumption, EventAssumption
<1>0. TypeOK /\ UNCHANGED <<todo, blocked, realized>>
  BY RecordsFrame, Zenon
<1>1. /\ step.space \in Space /\ step.bit \in Index /\ holder # None
      /\ nfn \in [Space -> SUBSET Group]
  <2>1. step.op # "idle" /\ step.space \in Space /\ step.bit \in Index
    BY <1>0, Zenon DEF TypeOK, NfnSignal
  <2>2. holder # None /\ nfn \in [Space -> SUBSET Group]
    BY <1>0, <2>1, IdleIsOver, Zenon DEF TypeOK
  <2> QED
    BY <2>1, <2>2
<1>2. /\ UNCHANGED <<phase, lives, slot, hostSub, rsSub, bits, badge, rsNfn, held, holder>>
      /\ UNCHANGED <<masked, irqNfn, irqBadge>>
  BY Zenon DEF NfnSignal, subs, irqs
<1>3. /\ nfn'[step.space] = nfn[step.space] \cup {GroupOf[step.bit]}
      /\ \A s \in Space : nfn[s] \subseteq nfn'[s]
      /\ nfn' \in [Space -> SUBSET Group]
  BY <1>1, Zenon DEF NfnSignal, Group
<1>4. /\ step.op = "signal_nfn" /\ step'.op = "notify"
      /\ step'.space = step.space /\ step'.bit = step.bit
      /\ step' = Do("notify", step.space, step.bit)
  BY Zenon DEF NfnSignal, Do
<1>5. TypeOK'
  <2>1. step' \in [op : {"set", "signal_nfn", "notify", "idle"}, space : Space, bit : Index]
    BY <1>1, <1>4, Zenon DEF Do
  <2> QED
    BY <1>0, <1>1, <1>2, <1>3, <2>1, Zenon DEF TypeOK
<1>6. SubsAccount' /\ PhaseAccounts'
  BY <1>0, <1>2, Zenon DEF IInv, SubsAccount, PhaseAccounts
<1>7. BitsAnnounced'
  <2>1. \A s \in Space : Announced(s) => Announced(s)'
    <3> SUFFICES ASSUME NEW s \in Space, Announced(s), NEW i \in bits[s]
                 PROVE  GroupOf[i] \in nfn'[s] \cup badge[s]
      BY <1>2, Zenon DEF Announced
    <3> QED
      BY <1>3 DEF Announced
  <2> QED
    BY <1>2, <2>1, UnbrokenFrame, Zenon DEF IInv, BitsAnnounced
<1>8. BitsInv'
  <2>1. \A i : AtStep(i)' <=> AtStep(i)
    BY <1>4 DEF AtStep
  <2> QED
    BY <1>2, <1>4, <2>1, Zenon DEF IInv, BitsInv, OnItsWay
<1> QED
  BY <1>5, <1>6, <1>7, <1>8, RecordsFrame, Zenon DEF IInv

(* notify_subscriber(): a subscription is used up.                         *)
LEMMA NotifyIInv ==
    ASSUME IInv, notify_subscriber, UNCHANGED rsVars
    PROVE  IInv'
<1> USE HostNodeAssumption, EventAssumption
        DEF notify_subscriber, Do, Idle, irqs
<1>0. TypeOK /\ UNCHANGED <<todo, blocked, realized>>
  BY RecordsFrame, Zenon
<1>1. step.space \in Space /\ step.bit \in Index /\ holder # None
  <2>1. /\ step \in [op : {"set", "signal_nfn", "notify", "idle"}, space : Space, bit : Index]
        /\ holder = None => step = Idle
        /\ step.op = "notify"
    BY <1>0, Zenon DEF TypeOK
  <2> HIDE DEF notify_subscriber, Do, irqs
  <2> QED
    BY <2>1
<1>2. TypeOK'
  <2>1. slot \in [Space -> HostNode \cup {None}] /\ rsNfn \subseteq HostNode
    BY <1>0, Zenon DEF TypeOK
  <2>2. slot' \in [Space -> HostNode \cup {None}] /\ rsNfn' \subseteq HostNode
    BY <1>1, <2>1, Zenon
  <2>3. HostNode \subseteq Space /\ RealmEvent \in Index
    BY Zenon DEF Space, Index
  <2>4. step' \in [op : {"set", "signal_nfn", "notify", "idle"}, space : Space, bit : Index]
    BY <1>1, <2>1, <2>3, Zenon
  <2> QED
    BY <1>0, <1>1, <2>2, <2>4, Zenon DEF TypeOK
<1>3. SubsAccount' /\ PhaseAccounts'
  <2>1. slot \in [Space -> HostNode \cup {None}]
    BY <1>0, Zenon DEF TypeOK
  <2>2. UNCHANGED <<rsSub, phase>> /\ slot' = [slot EXCEPT ![step.space] = None]
    BY Zenon
  <2> HIDE DEF notify_subscriber, Do, Idle, irqs
  <2>3. \A s \in Space : slot'[s] \in {slot[s], None}
    BY <2>1, <2>2, Zenon
  <2>4. HostNode \subseteq Space
    BY Zenon DEF Space
  <2>5. SubsAccount'
    BY <1>0, <2>2, <2>3, <2>4, Zenon DEF IInv, SubsAccount
  <2> QED
    BY <1>0, <2>2, <2>5, Zenon DEF IInv, PhaseAccounts
<1>4. BitsAnnounced'
  BY <1>1, Zenon DEF IInv, BitsAnnounced, Announced, Unbroken, alive
<1>5. BitsInv'
  BY <1>1, Zenon DEF IInv, BitsInv, OnItsWay, AtStep
<1> QED
  BY <1>2, <1>3, <1>4, <1>5, RecordsFrame, Zenon DEF IInv

(* A client's signal() begins, and the mutex is taken and given back.      *)
LEMMA LockIInv ==
    ASSUME IInv, Unlock \/ IRQThreadLock \/ (\E e \in Ring : signal(e)), UNCHANGED rsVars
    PROVE  IInv'
<1> USE HostNodeAssumption, EventAssumption
        DEF Unlock, IRQThreadLock, signal, Do, Idle, Connected, realms, subs, irqs
<1>0. TypeOK /\ UNCHANGED <<todo, blocked, realized>>
  BY RecordsFrame, Zenon
<1>1. TypeOK'
  <2>1. CASE Unlock \/ IRQThreadLock
    BY <1>0, <2>1, Zenon DEF TypeOK
  <2>2. ASSUME NEW e \in Ring, signal(e)
        PROVE  TypeOK'
    <3>1. step' \in [op : {"set", "signal_nfn", "notify", "idle"}, space : Space, bit : Index]
      BY <2>2, Zenon DEF Space, Index
    <3> QED
      BY <1>0, <2>2, <3>1, Zenon DEF TypeOK, None
  <2> QED
    BY <2>1, <2>2, Zenon
<1>2. SubsAccount' /\ PhaseAccounts'
  <2>1. UNCHANGED <<slot, rsSub, phase>>
    BY Zenon
  <2> HIDE DEF Unlock, IRQThreadLock, signal, Do, Connected, realms, subs, irqs
  <2> QED
    BY <1>0, <2>1, Zenon DEF IInv, SubsAccount, PhaseAccounts
<1>a. /\ UNCHANGED <<phase, lives, bits, nfn, badge, masked, irqNfn, irqBadge, held>>
      /\ step' = step \/ (step = Idle /\ (step' = Idle \/ step'.bit \in Ring))
  <2>1. ASSUME Unlock \/ IRQThreadLock
        PROVE  UNCHANGED <<phase, lives, bits, nfn, badge, masked, irqNfn, irqBadge, held, step>>
    <3>1. CASE Unlock
      BY <3>1, Zenon
    <3>2. CASE IRQThreadLock
      BY <3>2, Zenon
    <3> QED
      BY <2>1, <3>1, <3>2, Zenon
  <2>2. ASSUME NEW e \in Ring, signal(e)
        PROVE  /\ UNCHANGED <<phase, lives, bits, nfn, badge, masked, irqNfn, irqBadge, held>>
               /\ step = Idle /\ (step' = Idle \/ step'.bit \in Ring)
    <3>1. UNCHANGED <<phase, lives, bits, nfn, badge, masked, irqNfn, irqBadge, held>>
      BY <2>2, Zenon
    <3>2. step = Idle
      BY <1>0, <2>2, Zenon DEF TypeOK
    <3>3. step' = Idle \/ step' = Do("set", To[e], e)
      BY <2>2, Zenon
    <3>4. Do("set", To[e], e).bit = e
      BY Zenon
    <3> QED
      BY <3>1, <3>2, <3>3, <3>4, Zenon
  <2> QED
    BY <2>1, <2>2, Zenon
<1> HIDE DEF Unlock, IRQThreadLock, signal, Do, Connected, realms, subs, irqs
<1>3. BitsAnnounced'
  <2>1. step.op = "signal_nfn" => step' = step
    BY <1>a, IdleIsOver, Zenon
  <2> QED
    BY <1>a, <2>1, UnbrokenFrame, Zenon DEF IInv, BitsAnnounced, Announced
<1>4. BitsInv'
  <2>1. \A i \in IRQ : AtStep(i)' <=> AtStep(i)
    BY <1>a, IdleIsOver, Zenon DEF AtStep
  <2>2. step'.bit \in IRQ => step' = step
    BY <1>a
  <2> QED
    BY <1>a, <2>1, <2>2, Zenon DEF IInv, BitsInv, OnItsWay
<1> QED
  BY <1>1, <1>2, <1>3, <1>4, RecordsFrame, Zenon DEF IInv

(* The way of an interrupt up to the bit, and end().                       *)
LEMMA InterruptIInv ==
    ASSUME IInv, UNCHANGED rsVars,
           \/ IRQThreadWait
           \/ \E i \in IRQ : Interrupt(i) \/ IRQThreadSignal(i) \/ end(i)
    PROVE  IInv'
<1> USE HostNodeAssumption, EventAssumption
        DEF IRQThreadWait, Interrupt, IRQThreadSignal, end, Locked, Do, Idle, subs, lock
<1>0. TypeOK /\ UNCHANGED <<todo, blocked, realized>>
  BY RecordsFrame, Zenon
<1>1. TypeOK'
  <2>1. CASE IRQThreadWait
    BY <1>0, <2>1, Zenon DEF TypeOK
  <2>2. ASSUME NEW i \in IRQ, Interrupt(i) \/ end(i)
        PROVE  TypeOK'
    BY <1>0, <2>2, Zenon DEF TypeOK
  <2>3. ASSUME NEW i \in IRQ, IRQThreadSignal(i)
        PROVE  TypeOK'
    <3>1. step' \in [op : {"set", "signal_nfn", "notify", "idle"}, space : Space, bit : Index]
      BY <2>3, Zenon DEF Space, Index
    <3> QED
      BY <1>0, <2>3, <3>1, Zenon DEF TypeOK, None
  <2> QED
    BY <2>1, <2>2, <2>3, Zenon
<1>2. SubsAccount' /\ PhaseAccounts'
  BY <1>0, Zenon DEF IInv, SubsAccount, PhaseAccounts
<1>3. BitsAnnounced'
  <2>1. UNCHANGED <<phase, lives, bits, nfn, badge>> /\ (step' = step \/ step = Idle)
    BY Zenon
  <2>2. step.op = "signal_nfn" => step' = step
    BY <2>1, IdleIsOver, Zenon
  <2> QED
    BY <2>1, <2>2, UnbrokenFrame, Zenon DEF IInv, BitsAnnounced, Announced
<1>4. BitsInv'
  <2>1. CASE IRQThreadWait
    BY <2>1, Zenon DEF IInv, BitsInv, OnItsWay, AtStep
  <2>2. ASSUME NEW i \in IRQ, Interrupt(i)
        PROVE  BitsInv'
    BY <2>2, Zenon DEF IInv, BitsInv, OnItsWay, AtStep
  <2>3. ASSUME NEW i \in IRQ, IRQThreadSignal(i)
        PROVE  BitsInv'
    BY <2>3, Zenon DEF IInv, BitsInv, OnItsWay, AtStep
  <2>4. ASSUME NEW i \in IRQ, end(i)
        PROVE  BitsInv'
    BY <2>4, Zenon DEF IInv, BitsInv, OnItsWay, AtStep
  <2> QED
    BY <2>1, <2>2, <2>3, <2>4, Zenon
<1> QED
  BY <1>1, <1>2, <1>3, <1>4, RecordsFrame, Zenon DEF IInv

(* host_subscribe(): the slot is that of a realm.                          *)
LEMMA HostSubscribeIInv ==
    ASSUME IInv, NEW n \in HostNode, NEW r \in Realm, host_subscribe(n, r), UNCHANGED rsVars
    PROVE  IInv'
<1> USE HostNodeAssumption
        DEF host_subscribe, Locked, lock, irqs
<1>0. TypeOK /\ UNCHANGED <<todo, blocked, realized>>
  BY RecordsFrame, Zenon
<1>1. TypeOK'
  BY <1>0, Zenon DEF TypeOK, Space
<1>2. SubsAccount' /\ PhaseAccounts'
  <2>1. UNCHANGED <<rsSub, phase>> /\ DOMAIN slot = Space /\ slot' = [slot EXCEPT ![r] = n]
    BY <1>0, Zenon DEF TypeOK
  <2> HIDE DEF host_subscribe, Locked, lock, irqs
  <2>2. \A m \in HostNode : slot'[m] = slot[m]
    BY <2>1 DEF Space
  <2>3. SubsAccount'
    BY <1>0, <2>1, <2>2, Zenon DEF IInv, SubsAccount
  <2> QED
    BY <1>0, <2>1, <2>3, Zenon DEF IInv, PhaseAccounts
<1> QED
  BY <1>1, <1>2, RecordsFrame, BitsFrame, Zenon DEF IInv

(* A receiver waits, or swaps the bits of a group of its badge with zero:  *)
(* the primary node then holds the interrupts among them.                  *)
LEMMA ReceiveIInv ==
    ASSUME IInv, NEW s \in Space, Receive(s), UNCHANGED rsVars
    PROVE  IInv'
<1> USE HostNodeAssumption, EventAssumption
        DEF subs, lock, irqs
<1>0. TypeOK /\ UNCHANGED <<todo, blocked, realized>>
  BY RecordsFrame, Zenon
<1>1. TypeOK'
  <2>1. CASE Wait(s)
    BY <1>0, <2>1, Zenon DEF TypeOK, Wait
  <2>2. CASE clear(s)
    <3>1. bits \in [Space -> SUBSET Index] /\ badge \in [Space -> SUBSET Group] /\ held \subseteq IRQ
      BY <1>0, Zenon DEF TypeOK
    <3>2. PICK g \in badge[s] : /\ badge' = [badge EXCEPT ![s] = @ \ {g}]
                                /\ bits' = [bits EXCEPT ![s] = @ \ InGroup(g)]
                                /\ held' = held \cup (bits[s] \cap InGroup(g) \cap IRQ)
      BY <2>2, Zenon DEF clear
    <3>3. bits' \in [Space -> SUBSET Index] /\ badge' \in [Space -> SUBSET Group] /\ held' \subseteq IRQ
      BY <3>1, <3>2, Zenon
    <3> QED
      BY <1>0, <2>2, <3>3, Zenon DEF TypeOK, clear
  <2> QED
    BY <2>1, <2>2, Zenon DEF Receive
<1>2. SubsAccount' /\ PhaseAccounts'
  BY <1>0, Zenon DEF IInv, SubsAccount, PhaseAccounts, Receive, Wait, clear
<1>3. BitsAnnounced'
  <2>1. CASE Wait(s)
    <3>1. \A t \in Space : Announced(t) => Announced(t)'
      BY <1>0, <2>1, Zenon DEF Announced, Wait, TypeOK
    <3>2. \A t \in Space : Unbroken(t)' = Unbroken(t)
      BY <2>1, Zenon DEF Unbroken, alive, Wait
    <3>3. \A r \in Realm : lives[r] = 0 => badge'[r] = {}
      <4>1. badge \in [Space -> SUBSET Group] /\ (s \in Realm \ HostNode => lives[s] # 0)
        BY <1>0, <2>1, Zenon DEF IInv, BitsAnnounced, Wait, Runs, alive, TypeOK
      <4> QED
        BY <2>1, <4>1 DEF IInv, BitsAnnounced, Wait, Space
    <3> QED
      BY <2>1, <3>1, <3>2, <3>3, Zenon DEF IInv, BitsAnnounced, Wait
  <2>2. CASE clear(s)
    <3>1. PICK g \in badge[s] : /\ badge' = [badge EXCEPT ![s] = @ \ {g}]
                                /\ bits' = [bits EXCEPT ![s] = @ \ InGroup(g)]
      BY <2>2, Zenon DEF clear
    <3>2. \A t \in Space : Announced(t) => Announced(t)'
      BY <1>0, <2>2, <3>1, Zenon DEF Announced, TypeOK, clear, InGroup
    <3>3. \A t \in Space : Unbroken(t)' = Unbroken(t)
      BY <2>2, Zenon DEF Unbroken, alive, clear
    <3>4. \A r \in Realm : badge[r] = {} => badge'[r] = {}
      BY <1>0, <3>1, Zenon DEF TypeOK, Space
    <3> QED
      BY <2>2, <3>2, <3>3, <3>4 DEF IInv, BitsAnnounced, clear
  <2> QED
    BY <2>1, <2>2, Zenon DEF Receive
<1>4. BitsInv'
  <2>1. CASE Wait(s)
    BY <2>1, Zenon DEF IInv, BitsInv, OnItsWay, AtStep, Wait
  <2>2. CASE clear(s)
    <3>1. PICK g \in badge[s] :
             /\ bits' = [bits EXCEPT ![s] = @ \ InGroup(g)]
             /\ held' = held \cup (bits[s] \cap InGroup(g) \cap IRQ)
      BY <2>2, Zenon DEF clear
    <3>2. \A t \in Space : t # s => bits'[t] = bits[t]
      BY <1>0, <3>1, Zenon DEF TypeOK
    <3>3. bits'[s] = bits[s] \ InGroup(g)
      BY <1>0, <3>1, Zenon DEF TypeOK
    <3>4. Primary \in Space /\ UNCHANGED <<masked, irqNfn, irqBadge, step>>
      BY <2>2, Zenon DEF clear, Space
    <3>5. \A i \in IRQ : OnItsWay(i)'
      BY <3>1, <3>2, <3>3, <3>4, Zenon DEF IInv, BitsInv, OnItsWay, AtStep
    <3> QED
      BY <3>2, <3>3, <3>4, <3>5, Zenon DEF IInv, BitsInv
  <2> QED
    BY <2>1, <2>2, Zenon DEF Receive
<1> QED
  BY <1>1, <1>2, <1>3, <1>4, RecordsFrame, Zenon DEF IInv

(* The program of a realm starts, with or without clear_ignore_all().      *)
LEMMA StartIInv ==
    ASSUME IInv, NEW r \in Realm, Start(r), UNCHANGED rsVars
    PROVE  IInv'
<1> USE HostNodeAssumption, EventAssumption, LivesAssumption
        DEF Start, subs, lock, irqs
<1>0. TypeOK /\ UNCHANGED <<todo, blocked, realized>>
  BY RecordsFrame
<1>1. TypeOK'
  <2>1. /\ phase' \in [Realm -> {"absent", "created", "running", "killed"}]
        /\ badge' \in [Space -> SUBSET Group]
    BY <1>0, Zenon DEF TypeOK
  <2>2. lives' \in [Realm -> 0..MaxLives]
    <3>1. /\ lives \in [Realm -> 0..MaxLives] /\ lives[r] < MaxLives
          /\ lives' = [lives EXCEPT ![r] = @ + 1]
      BY <1>0, Zenon DEF TypeOK
    <3> HIDE DEF Start, subs, lock, irqs
    <3> QED
      BY <3>1
  <2> QED
    BY <1>0, <2>1, <2>2, Zenon DEF TypeOK
<1>2. SubsAccount' /\ PhaseAccounts'
  <2>1. UNCHANGED <<slot, rsSub>> /\ DOMAIN phase = Realm
    BY <1>0, Zenon DEF TypeOK
  <2>2. phase[r] = "created" /\ phase' = [phase EXCEPT ![r] = "running"]
    BY Zenon
  <2> HIDE DEF Start, subs, lock, irqs
  <2>3. phase'[r] = "running" /\ \A t \in Realm : t # r => phase'[t] = phase[t]
    BY <2>1, <2>2, Zenon
  <2>4. SubsAccount'
    BY <1>0, <2>1, Zenon DEF IInv, SubsAccount
  <2> QED
    <3>1. PhaseAccounts
      BY Zenon DEF IInv
    <3> QED
      BY <1>0, <2>2, <2>3, <2>4, <3>1 DEF PhaseAccounts
<1>3. BitsAnnounced'
  <2>0. /\ lives \in [Realm -> 0..MaxLives] /\ badge \in [Space -> SUBSET Group]
        /\ DOMAIN phase = Realm /\ r \in Space
    BY <1>0, Zenon DEF TypeOK, Space
  <2>1. lives'[r] = lives[r] + 1 /\ badge'[r] = IF r \in Clears THEN Group ELSE {}
    BY <2>0
  <2>2. \A t \in Space : t # r => badge'[t] = badge[t]
    BY <2>0
  <2>3. \A t \in Realm : t # r => lives'[t] = lives[t] /\ phase'[t] = phase[t]
    BY <2>0
  <2>4. ASSUME NEW t \in Space, t \in HostNode \/ lives'[t] = 0 \/ Unbroken(t)'
        PROVE  Announced(t)'
    <3>1. CASE t # r
      <4>1. t \in HostNode \/ lives[t] = 0 \/ Unbroken(t)
        BY <2>3, <2>4, <3>1 DEF Unbroken, alive, Space
      <4> QED
        BY <2>2, <3>1, <4>1, Zenon DEF IInv, BitsAnnounced, Announced
    <3>2. CASE t = r /\ r \in Clears
      <4>1. bits'[t] \subseteq Index /\ badge'[t] = Group
        BY <1>0, <1>1, <2>1, <3>2, Zenon DEF TypeOK
      <4> QED
        BY <4>1, Zenon DEF Announced, Group
    <3>3. CASE t = r /\ r \notin Clears
      <4>1. lives[r] = 0 /\ badge[r] = {}
        <5>1. lives'[r] \in {0, 1} /\ lives[r] \in Nat
          BY <2>0, <2>4, <3>3 DEF Unbroken, alive
        <5> QED
          BY <2>1, <5>1 DEF IInv, BitsAnnounced
      <4> QED
        BY <2>1, <3>3, <4>1, Zenon DEF IInv, BitsAnnounced, Announced, Space
    <3> QED
      BY <3>1, <3>2, <3>3
  <2> QED
    <3>1. lives'[r] # 0
      BY <2>0, <2>1
    <3> QED
      BY <2>2, <2>3, <2>4, <3>1 DEF IInv, BitsAnnounced, Space
<1>4. BitsInv'
  BY Zenon DEF IInv, BitsInv, OnItsWay, AtStep
<1> QED
  BY <1>1, <1>2, <1>3, <1>4, RecordsFrame DEF IInv

----------------------------------------------------------------------------
(* Every step of the two servers, the host, the realms and the kernel      *)
(* preserves the inductive invariant.                                      *)
LEMMA NextIInv == IInv /\ [RSNext]_allVars => IInv'
<1> SUFFICES ASSUME IInv, [RSNext]_allVars PROVE IInv'
  OBVIOUS
<1>1. ASSUME NEW n \in HostNode, NEW r \in Realm,
             Control(n, r) \/ \E timed \in YieldTimed : yield_to(n, r, timed)
      PROVE  IInv'
  BY <1>1, DeclareIInv, RealizeFinishIInv, DestroyIInv, HackRunIInv, YieldIInv DEF Control
<1>2. ASSUME NEW n \in HostNode, Recv(n) \/ TakeBack(n) \/ TimerExpires(n)
      PROVE  IInv'
  BY <1>2, RecvIInv, TakeBackIInv
<1>3. CASE Continue
  BY <1>3, FinishIInv, SubscribeIInv, TimerAndReplyIInv DEF Continue
<1>4. CASE EventServerStep
  <2>1. CASE Serve
    BY <1>4, <2>1, InSpaceSignalIInv, NfnSignalIInv, NotifyIInv, LockIInv
       DEF EventServerStep, Serve
  <2>2. CASE IRQThread
    BY <1>4, <2>2, InterruptIInv, LockIInv DEF EventServerStep, IRQThread
  <2>3. CASE \E i \in IRQ : Interrupt(i) \/ (Executes(Primary) /\ end(i))
    BY <1>4, <2>3, InterruptIInv DEF EventServerStep
  <2>4. CASE \E n \in HostSubscribes, r \in Realm : Executes(n) /\ host_subscribe(n, r)
    BY <1>4, <2>4, HostSubscribeIInv, HostAssumption DEF EventServerStep
  <2>5. CASE \E e \in Ring : (From[e] \in Realm => Executes(From[e])) /\ signal(e)
    BY <1>4, <2>5, LockIInv DEF EventServerStep
  <2> QED
    BY <1>4, <2>1, <2>2, <2>3, <2>4, <2>5 DEF EventServerStep
<1>5. ASSUME NEW s \in Space, ReceiverStep(s)
      PROVE  IInv'
  BY <1>5, ReceiveIInv DEF ReceiverStep
<1>6. ASSUME NEW r \in Realm, RealmStarts(r)
      PROVE  IInv'
  BY <1>6, StartIInv DEF RealmStarts
<1>7. CASE UNCHANGED allVars
  <2>1. UNCHANGED vars /\ UNCHANGED rsVars
    BY <1>7 DEF allVars
  <2>2. TypeOK'
    BY <2>1, RecordsFrame, Zenon DEF TypeOK, vars, subs, irqs, lock
  <2>3. SubsAccount' /\ PhaseAccounts'
    BY <2>1, RecordsFrame, Zenon DEF IInv, SubsAccount, PhaseAccounts, vars, subs
  <2>4. BitsAnnounced' /\ BitsInv'
    BY <2>1, BitsFrame DEF vars, lock
  <2> QED
    BY <2>1, <2>2, <2>3, <2>4, RecordsFrame DEF IInv
<1> QED
  BY <1>1, <1>2, <1>3, <1>4, <1>5, <1>6, <1>7 DEF RSNext

(* The invariant, in every reachable state.                                *)
LEMMA SpecIInv == RSSpec => []IInv
BY InitIInv, NextIInv, PTL DEF RSSpec

----------------------------------------------------------------------------
(* What the invariant says once no operation is under way, or one of them  *)
(* has come to its call of the event server.                               *)
LEMMA IInvReply == IInv => BlockedHasReply
<1>1. Free.op \notin Replying /\ "resume_host" \in Replying
  BY DEF Free, Todo, Replying
<1> QED
  BY <1>1, Zenon DEF IInv, TodoAccounts, BlockedHasReply

(* The asserts of the event server at its callers.                         *)
LEMMA IInvCalls == IInv => CallsAreAccepted
<1> SUFFICES ASSUME IInv PROVE CallsAreAccepted
  OBVIOUS
<1>1. todo.op = "subscribe" => todo.node \notin rsSub /\ slot[todo.node] = None
  BY DEF IInv, TodoAccounts, SubsAccount
<1>2. /\ todo.op = "create_realm" => phase[todo.realm] = "absent"
      /\ todo.op = "destroy_realm" => phase[todo.realm] = "killed"
  BY DEF IInv, TodoAccounts, PhaseAccounts
<1>3. ASSUME todo = Free
      PROVE  /\ realized = realms /\ rsSub = blocked
             /\ \A r \in realized : phase[r] \in {"created", "running"}
             /\ \A n \in HostNode : n \notin blocked => physical_nodes[n] = None
  <2>1. todo.op = "free"
    BY <1>3 DEF Free
  <2>2. \A r \in Realm :
           \/ r \in realized /\ phase[r] \in {"created", "running"}
           \/ r \notin realized /\ phase[r] = "absent"
    BY <2>1 DEF IInv, PhaseAccounts
  <2>3. \A n \in HostNode : n \in rsSub <=> n \in blocked
    BY <2>1, Zenon DEF IInv, SubsAccount
  <2>4. realized \subseteq Realm /\ rsSub \subseteq HostNode /\ blocked \subseteq HostNode
    BY Zenon DEF IInv, RSTypeOK, TypeOK
  <2>5. realized = realms /\ \A r \in realized : phase[r] \in {"created", "running"}
    BY <2>2, <2>4 DEF realms
  <2>6. rsSub = blocked
    BY <2>3, <2>4, Zenon
  <2>7. \A n \in HostNode : n \notin blocked => physical_nodes[n] = None
    BY <2>1 DEF IInv, TodoAccounts, Replying
  <2> QED
    BY <2>5, <2>6, <2>7, Zenon
<1> QED
  BY <1>1, <1>2, <1>3 DEF CallsAreAccepted, HostCall

(* What BitsAnnounced says of the receivers that have lost no badge.       *)
LEMMA IInvAnnounced == IInv => SetBitIsAnnounced
BY Zenon DEF IInv, BitsAnnounced, Announced, SetBitIsAnnounced

(* What OnItsWay says of an interrupt.                                     *)
LEMMA IInvOnItsWay == IInv => MaskedIsOnItsWay
<1> SUFFICES ASSUME IInv, NEW i \in IRQ, i \in masked
             PROVE  Places(i) # {}
  BY DEF MaskedIsOnItsWay
<1>1. OnItsWay(i)
  BY DEF IInv, BitsInv
<1>2. /\ i \in irqNfn => "nfn" \in Places(i)
      /\ i \in irqBadge => "badge" \in Places(i)
      /\ AtStep(i) => "step" \in Places(i)
      /\ i \in bits[Primary] => "bit" \in Places(i)
      /\ i \in held => "held" \in Places(i)
  BY DEF Places, AtStep
<1> QED
  BY <1>1, <1>2, Zenon DEF OnItsWay

----------------------------------------------------------------------------
(* The two records of who runs where agree, with each other and with the   *)
(* realms that exist, whatever events, timeouts and calls interleave: the  *)
(* unwrap()s of host_event() and timeout() never fail.                     *)
THEOREM SpecNodesAgree == RSSpec => []NodesAgree
<1>1. IInv => NodesAgree
  BY DEF IInv
<1> QED
  BY <1>1, SpecIInv, PTL

(* A node of the host is blocked exactly while its reply capability is     *)
(* kept, and resume_host() never replies through an empty slot.            *)
THEOREM SpecBlockedHasReply == RSSpec => []BlockedHasReply
BY IInvReply, SpecIInv, PTL

(* The assertions of the event server hold at each call the resource       *)
(* server makes, and yield_to() finds its node free.                       *)
THEOREM SpecCallsAreAccepted == RSSpec => []CallsAreAccepted
BY IInvCalls, SpecIInv, PTL

(* No set bit of a receiver that has lost no badge goes unannounced,       *)
(* though server and receiver share the bitfield without a lock.           *)
THEOREM SpecSetBitIsAnnounced == RSSpec => []SetBitIsAnnounced
BY IInvAnnounced, SpecIInv, PTL

(* A masked interrupt is on its way to the guest of the host or with its   *)
(* VMM, whenever end() is called and wherever interrupts and events meet.  *)
THEOREM SpecMaskedIsOnItsWay == RSSpec => []MaskedIsOnItsWay
BY IInvOnItsWay, SpecIInv, PTL
=============================================================================
