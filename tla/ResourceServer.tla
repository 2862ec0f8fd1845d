--------------------------- MODULE ResourceServer ---------------------------
(***************************************************************************)
(* The resource server composed with the event server: the life of a realm *)
(* and the way the host lends its cores to realms.                         *)
(*                                                                         *)
(* A node of the host calls Yield and stays blocked; the realm's threads   *)
(* are moved to its core.  The resource server saves the reply capability, *)
(* subscribes to the node's events at the event server and sets a timer.   *)
(* The first event or the timeout takes the core back, and the server      *)
(* replies to the host.  Both arrive on one notification of the node's     *)
(* thread, where their badges are or-ed together, while the calls to the   *)
(* event server and to the timer server are under way.                     *)
(*                                                                         *)
(* One thread per node serves the node's endpoint and notification; an     *)
(* operation runs under the server's mutex.  Its calls to other servers    *)
(* are separate steps ("todo"), because events and timeouts come between.  *)
(* A realm has one virtual node, as CreateRealm says (num_nodes: 1).       *)
(***************************************************************************)
EXTENDS EventServer

CONSTANTS
    HostSubscribes,     \* nodes of the host that subscribe to realms
    YieldTimed          \* {1}: the host yields with a timeout; {0, 1}: or without

ASSUME HostAssumption ==
    HostSubscribes \subseteq HostNode /\ YieldTimed \subseteq {0, 1}

VARIABLES
    partial_specs,      \* realms declared, and not yet begun
    partial_realms,     \* realms whose realization is begun
    realized,           \* ResourceServer.realms
    physical_nodes,     \* physical_nodes[n]: the realm that n runs, or None
    physical_node,      \* physical_node[r]: VirtualNode.physical_node
    affinity,           \* affinity[r]: the core of the realm's threads; None: the idle core
    reply_slot,         \* nodes whose reply slot holds the host's reply capability
    blocked,            \* nodes of the host that wait for the reply to Yield
    timer,              \* nodes whose timer is set at the timer server
    timeoutNfn,         \* nodes whose notification holds the timeout badge
    message,            \* message[n]: notification received by the thread of n
    todo                \* what the holder of the mutex does next; Free: no holder

nodes == <<physical_nodes, physical_node, affinity>>
lifecycle == <<partial_specs, partial_realms, realized>>
hostCall == <<reply_slot, blocked>>
timers == <<timer, timeoutNfn>>
rsVars == <<lifecycle, nodes, hostCall, timers, message, todo>>
allVars == <<vars, rsVars>>

Free == [op |-> "free", node |-> None, realm |-> None, timed |-> 0]
Todo(op, n, r, timed) == [op |-> op, node |-> n, realm |-> r, timed |-> timed]

RSTypeOK ==
    /\ TypeOK
    /\ partial_specs \subseteq Realm /\ partial_realms \subseteq Realm /\ realized \subseteq Realm
    /\ physical_nodes \in [HostNode -> Realm \cup {None}]
    /\ physical_node \in [Realm -> HostNode \cup {None}]
    /\ affinity \in [Realm -> HostNode \cup {None}]
    /\ reply_slot \subseteq HostNode /\ blocked \subseteq HostNode
    /\ timer \subseteq HostNode /\ timeoutNfn \subseteq HostNode
    /\ message \in [HostNode -> {"host_event", "timeout", None}]
    /\ todo \in [op : {"free", "subscribe", "set_timeout", "unsubscribe", "cancel_timeout",
                       "resume_host", "create_realm", "destroy_realm"},
                 node : HostNode \cup {None}, realm : Realm \cup {None}, timed : {0, 1}]

RSInit ==
    /\ Init
    /\ partial_specs = {} /\ partial_realms = {} /\ realized = {}
    /\ physical_nodes = [n \in HostNode |-> None]
    /\ physical_node = [r \in Realm |-> None]
    /\ affinity = [r \in Realm |-> None]
    /\ reply_slot = {} /\ blocked = {} /\ timer = {} /\ timeoutNfn = {}
    /\ message = [n \in HostNode |-> None]
    /\ todo = Free

----------------------------------------------------------------------------
(* The thread of node n takes a call of the host and the mutex.            *)
HostCall(n) == todo = Free /\ message[n] = None /\ n \notin blocked

(* The assertions look at two of the three maps a realm passes through;    *)
(* that the realm is not in the third (partial_realms) is the host's duty. *)
declare(n, r) ==
    /\ HostCall(n)
    /\ r \notin partial_specs \cup partial_realms \cup realized
    /\ partial_specs' = partial_specs \cup {r}
    /\ UNCHANGED <<vars, partial_realms, realized, nodes, hostCall, timers, message, todo>>

realize_start(n, r) ==
    /\ HostCall(n)
    /\ r \in partial_specs
    /\ partial_specs' = partial_specs \ {r}
    /\ partial_realms' = partial_realms \cup {r}
    /\ UNCHANGED <<vars, realized, nodes, hostCall, timers, message, todo>>

realize_finish(n, r) ==
    /\ HostCall(n)
    /\ r \in partial_realms
    /\ partial_realms' = partial_realms \ {r}
    /\ realized' = realized \cup {r}
    /\ physical_node' = [physical_node EXCEPT ![r] = None]
    /\ affinity' = [affinity EXCEPT ![r] = None]
    /\ todo' = Todo("create_realm", n, r, 0)
    /\ UNCHANGED <<vars, partial_specs, physical_nodes, hostCall, timers, message>>

FinishCreate ==
    /\ todo.op = "create_realm"
    /\ create_realm(todo.realm)
    /\ todo' = Free
    /\ UNCHANGED <<lifecycle, nodes, hostCall, timers, message>>

(* Asked for when no node runs the realm, which the code asserts.          *)
destroy(n, r) ==
    /\ HostCall(n)
    /\ r \in realized /\ physical_node[r] = None
    /\ realized' = realized \ {r}
    /\ affinity' = [affinity EXCEPT ![r] = None]
    /\ Kill(r)
    /\ todo' = Todo("destroy_realm", n, r, 0)
    /\ UNCHANGED <<partial_specs, partial_realms, physical_nodes, physical_node,
                   hostCall, timers, message>>

FinishDestroy ==
    /\ todo.op = "destroy_realm"
    /\ destroy_realm(todo.realm)
    /\ todo' = Free
    /\ UNCHANGED <<lifecycle, nodes, hostCall, timers, message>>

(* hack_run(): virtual node 0 goes to core 0, and nothing is recorded.     *)
hack_run(n, r) ==
    /\ HostCall(n)
    /\ r \in realized
    /\ affinity' = [affinity EXCEPT ![r] = Primary]
    /\ UNCHANGED <<vars, lifecycle, physical_nodes, physical_node, hostCall, timers,
                   message, todo>>

----------------------------------------------------------------------------
(* yield_to(): save the caller, record and schedule, subscribe, set the    *)
(* timer.  The host yields to a realm that no node runs (an assertion).    *)
yield_to(n, r, timed) ==
    /\ HostCall(n)
    /\ r \in realized /\ physical_node[r] = None
    /\ blocked' = blocked \cup {n}
    /\ reply_slot' = reply_slot \cup {n}
    /\ physical_nodes' = [physical_nodes EXCEPT ![n] = r]
    /\ physical_node' = [physical_node EXCEPT ![r] = n]
    /\ affinity' = [affinity EXCEPT ![r] = n]
    /\ todo' = Todo("subscribe", n, r, timed)
    /\ UNCHANGED <<vars, lifecycle, timers, message>>

set_notify_host_event ==
    /\ todo.op = "subscribe"
    /\ resource_server_subscribe(todo.node)
    /\ todo' = IF todo.timed = 1 THEN [todo EXCEPT !.op = "set_timeout"] ELSE Free
    /\ UNCHANGED <<lifecycle, nodes, hostCall, timers, message>>

set_timeout ==
    /\ todo.op = "set_timeout"
    /\ timer' = timer \cup {todo.node}
    /\ todo' = Free
    /\ UNCHANGED <<vars, lifecycle, nodes, hostCall, timeoutNfn, message>>

----------------------------------------------------------------------------
(* The notification of a node.  BADGE_HOST_EVENT includes the bits of      *)
(* BADGE_TIMEOUT: when both have come, the thread sees a host event.       *)
Recv(n) ==
    /\ n \in rsNfn \cup timeoutNfn
    /\ message[n] = None /\ todo.node # n
    /\ message' = [message EXCEPT ![n] = IF n \in rsNfn THEN "host_event" ELSE "timeout"]
    /\ rsNfn' = rsNfn \ {n}
    /\ timeoutNfn' = timeoutNfn \ {n}
    /\ UNCHANGED <<phase, lives, subs, bits, nfn, badge, irqs, held, lock,
                   lifecycle, nodes, hostCall, timer, todo>>

(* Mutant: the virtual node keeps the physical node.                       *)
Mut_TakeBack(n) ==
    /\ todo = Free /\ message[n] # None
    /\ LET r == physical_nodes[n]
       IN  \/ /\ r = None
              /\ message' = [message EXCEPT ![n] = None]
              /\ UNCHANGED <<nodes, todo>>
           \/ /\ r # None
              /\ physical_nodes' = [physical_nodes EXCEPT ![n] = None]
              /\ affinity' = [affinity EXCEPT ![r] = None]
              /\ todo' = Todo("unsubscribe", n, None, 0)
              /\ UNCHANGED <<physical_node, message>>
    /\ UNCHANGED <<vars, lifecycle, hostCall, timers>>

(* Mutant: the reply is sent whether or not a realm is recorded.           *)
Mut_TakeBackAlways(n) ==
    /\ todo = Free /\ message[n] # None
    /\ physical_nodes' = [physical_nodes EXCEPT ![n] = None]
    /\ physical_node' = [r \in Realm |-> IF physical_nodes[n] = r THEN None ELSE physical_node[r]]
    /\ affinity' = [r \in Realm |-> IF physical_nodes[n] = r THEN None ELSE affinity[r]]
    /\ todo' = Todo("unsubscribe", n, None, 0)
    /\ UNCHANGED <<vars, lifecycle, hostCall, timers, message>>

(* Mutant: a timeout that finds a realm recorded is dropped.               *)
Mut_TakeBackTimeout(n) ==
    /\ todo = Free /\ message[n] # None
    /\ LET r == physical_nodes[n]
       IN  \/ /\ r = None \/ message[n] = "timeout"
              /\ message' = [message EXCEPT ![n] = None]
              /\ UNCHANGED <<nodes, todo>>
           \/ /\ r # None /\ message[n] = "host_event"
              /\ physical_nodes' = [physical_nodes EXCEPT ![n] = None]
              /\ physical_node' = [physical_node EXCEPT ![r] = None]
              /\ affinity' = [affinity EXCEPT ![r] = None]
              /\ todo' = Todo("unsubscribe", n, None, 0)
              /\ UNCHANGED message
    /\ UNCHANGED <<vars, lifecycle, hostCall, timers>>

(* host_event() and timeout(): nothing to do unless a realm is recorded.   *)
TakeBack(n) ==
    /\ todo = Free /\ message[n] # None
    /\ LET r == physical_nodes[n]
       IN  \/ /\ r = None
              /\ message' = [message EXCEPT ![n] = None]
              /\ UNCHANGED <<nodes, todo>>
           \/ /\ r # None
              /\ physical_nodes' = [physical_nodes EXCEPT ![n] = None]
              /\ physical_node' = [physical_node EXCEPT ![r] = None]
              /\ affinity' = [affinity EXCEPT ![r] = None]
              /\ todo' = Todo("unsubscribe", n, None, 0)
              /\ UNCHANGED message
    /\ UNCHANGED <<vars, lifecycle, hostCall, timers>>

(* Mutant: a timeout does not give up the subscription.                    *)
Mut_cancel_notify_host_event ==
    /\ todo.op = "unsubscribe"
    /\ \/ message[todo.node] = "host_event" /\ resource_server_unsubscribe(todo.node)
       \/ message[todo.node] = "timeout" /\ UNCHANGED vars
    /\ todo' = [todo EXCEPT !.op = IF message[todo.node] = "host_event"
                                   THEN "cancel_timeout" ELSE "resume_host"]
    /\ UNCHANGED <<lifecycle, nodes, hostCall, timers, message>>

cancel_notify_host_event ==
    /\ todo.op = "unsubscribe"
    /\ resource_server_unsubscribe(todo.node)
    /\ todo' = [todo EXCEPT !.op = IF message[todo.node] = "host_event"
                                   THEN "cancel_timeout" ELSE "resume_host"]
    /\ UNCHANGED <<lifecycle, nodes, hostCall, timers, message>>

(* Only host_event() stops the timer; a timeout already sent stays.        *)
cancel_timeout ==
    /\ todo.op = "cancel_timeout"
    /\ timer' = timer \ {todo.node}
    /\ todo' = [todo EXCEPT !.op = "resume_host"]
    /\ UNCHANGED <<vars, lifecycle, nodes, hostCall, timeoutNfn, message>>

resume_host ==
    /\ todo.op = "resume_host"
    /\ reply_slot' = reply_slot \ {todo.node}
    /\ blocked' = blocked \ (reply_slot \cap {todo.node})
    /\ message' = [message EXCEPT ![todo.node] = None]
    /\ todo' = Free
    /\ UNCHANGED <<vars, lifecycle, nodes, timers>>

----------------------------------------------------------------------------
(* The timer server sends the timeout (module TimerServer).                *)
TimerExpires(n) ==
    /\ n \in timer
    /\ timer' = timer \ {n}
    /\ timeoutNfn' = timeoutNfn \cup {n}
    /\ UNCHANGED <<vars, lifecycle, nodes, hostCall, message, todo>>

(* The steps of the event server that the resource server does not make.   *)
(* A blocked node of the host and a realm without a core do not run.       *)
Executes(s) ==
    \/ s \in HostNode \ blocked
    \/ s \in Realm /\ affinity[s] # None

EventServerStep ==
    /\ \/ Serve \/ IRQThread
       \/ \E i \in IRQ : Interrupt(i) \/ (Executes(Primary) /\ end(i))
       \/ \E n \in HostSubscribes, r \in Realm : Executes(n) /\ host_subscribe(n, r)
       \/ \E e \in Ring : (From[e] \in Realm => Executes(From[e])) /\ signal(e)
    /\ UNCHANGED rsVars

ReceiverStep(s) == Executes(s) /\ Receive(s) /\ UNCHANGED rsVars

RealmStarts(r) == Executes(r) /\ Start(r) /\ UNCHANGED rsVars

Control(n, r) ==
    \/ declare(n, r) \/ realize_start(n, r) \/ realize_finish(n, r)
    \/ destroy(n, r) \/ hack_run(n, r)

(* The steps of the thread that holds the resource server's mutex.         *)
Continue ==
    \/ FinishCreate \/ FinishDestroy
    \/ set_notify_host_event \/ set_timeout
    \/ cancel_notify_host_event \/ cancel_timeout \/ resume_host

RSNext ==
    \/ \E n \in HostNode, r \in Realm :
          Control(n, r) \/ \E timed \in YieldTimed : yield_to(n, r, timed)
    \/ \E n \in HostNode : Recv(n) \/ TakeBack(n) \/ TimerExpires(n)
    \/ Continue
    \/ EventServerStep
    \/ \E s \in Space : ReceiverStep(s)
    \/ \E r \in Realm : RealmStarts(r)

(* Every server thread is scheduled and gets the mutex it waits for; a     *)
(* timer that is set expires (DueTimersExpire of TimerServer); a host node *)
(* that is not blocked receives its events.                                *)
RSFairness ==
    /\ WF_allVars(Serve /\ UNCHANGED rsVars)
    /\ SF_allVars(IRQThread /\ UNCHANGED rsVars)
    /\ SF_allVars(Continue)
    /\ \A n \in HostNode :
          /\ SF_allVars(Recv(n)) /\ SF_allVars(TakeBack(n)) /\ WF_allVars(TimerExpires(n))
          /\ SF_allVars(ReceiverStep(n))

RSSpec == RSInit /\ [][RSNext]_allVars /\ RSFairness

----------------------------------------------------------------------------
(* The two records of who runs where agree, and name realms that exist: no  *)
(* unwrap() in host_event() or timeout() can fail, and no core is lent to   *)
(* two realms or a realm to two cores.  A realm is on a core only while the *)
(* host has lent it that core, or hack_run() put it on the primary core.    *)
NodesAgree ==
    \A n \in HostNode, r \in Realm :
        /\ physical_nodes[n] = r <=> physical_node[r] = n
        /\ physical_nodes[n] = r => r \in realized
        /\ affinity[r] = n /\ n # Primary => physical_node[r] = n

(* A node of the host is blocked exactly while its reply is kept, and then  *)
(* a realm is recorded or the reply is about to be sent: the host is never  *)
(* left blocked, and resume_host() never sends on an empty slot, although   *)
(* a timeout or an event may be left over from an earlier yield.            *)
BlockedHasReply ==
    /\ blocked = reply_slot
    /\ \A n \in HostNode :
          /\ todo = Free => (n \in blocked <=> physical_nodes[n] # None)
          /\ todo.op = "resume_host" /\ todo.node = n => n \in reply_slot

(* The asserts of resource_server_subscribe(), create_realm() and           *)
(* destroy_realm() in the event server hold whenever the resource server    *)
(* calls them, and yield_to() finds its node free.                          *)
CallsAreAccepted ==
    /\ todo.op = "subscribe" => todo.node \notin rsSub /\ slot[todo.node] = None
    /\ todo.op = "create_realm" => phase[todo.realm] = "absent"
    /\ todo.op = "destroy_realm" => phase[todo.realm] = "killed"
    /\ todo = Free => /\ realized = realms
                      /\ rsSub = blocked
                      /\ \A r \in realized : phase[r] \in {"created", "running"}
    /\ \A n \in HostNode : HostCall(n) => physical_nodes[n] = None

(* A yield with a timeout returns to the host.                              *)
TimedYieldReturns == \A n \in HostNode : n \in blocked /\ n \in timer ~> n \notin blocked

(* An interrupt for the host that is not yet with the IRQ thread when the   *)
(* yield has subscribed takes the core back, with or without a timeout.     *)
(* (One whose bit is already set does not: subscribe does not look at the   *)
(* bitfield, and an untimed yield then sleeps until another event comes.)   *)
InterruptEndsYield ==
    \A i \in IRQ :
        (Primary \in blocked /\ slot[Primary] # None /\ i \in irqNfn /\ i \notin bits[Primary])
            ~> Primary \notin blocked
=============================================================================
