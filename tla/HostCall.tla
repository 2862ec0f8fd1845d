------------------------------ MODULE HostCall ------------------------------
(***************************************************************************)
(* Calls of the host: their way from a tool of the host, or from its       *)
(* kernel, through the registers of a virtual CPU to the VMM, from there   *)
(* as a message to a server, and back.                                     *)
(*                                                                         *)
(* A virtual CPU that makes a call faults.  The microkernel puts its       *)
(* registers into the message registers of the node's VMM thread, and      *)
(* takes them from there when the thread replies.  The same message        *)
(* registers carry the calls that the thread makes in between: to the      *)
(* resource server, to the benchmark server, to a thread it starts.  What  *)
(* the guest finds in its registers is what the last user of each left.    *)
(*                                                                         *)
(* A word is the sequence of its eight bytes, least significant first.     *)
(* What the resource server does with a request is modelled elsewhere      *)
(* (ResourceServer, BulkTransfer).                                         *)
(***************************************************************************)
EXTENDS Bytes, TLC

CONSTANTS
    Node,           \* nodes of the host: 0, 1, ... ; 0 runs from the start
    CallOf,         \* CallOf[n]: the calls that node n makes
    None

VARIABLES
    icecap_benchmark,   \* whether the system is built for benchmarks
    nodes,          \* nodes whose VMMNode is still in the table of CpuOn
    nodes_lock,     \* whether the lock of that table is held for ever
    at,             \* at[n]: how far the call of node n has come
    call,           \* call[n]: the call that n makes, or None
    guest,          \* guest[n]: x0 to x7 and the program counter
    mr,             \* mr[n]: the message registers of the VMM thread
    fault,          \* fault[n]: the UnknownSyscall that Fault::get() copied
    msg,            \* msg[n]: the message on its way to or from a server
    handled,        \* handled[n]: what was done for n's call
    started         \* started[n]: entry point and argument that n was started with

vars == <<icecap_benchmark, nodes, nodes_lock, at, call, guest, mr, fault, msg, handled, started>>

Word(v) == to_le_bytes(8, v)
Zero == Word(0)
MinusOne == [i \in 1 .. 8 |-> 255]      \* -1i32 as u64: the sign is extended

X == 0 .. 7
FaultIP == 8
Syscall == 12
MR == 0 .. 12       \* x0 to x7, FaultIP, SP, LR, SPSR, Syscall

(* Numbers of the calls.                                                   *)
SysId == [PSCI |-> 0, PUTCHAR |-> 1337, RESOURCE_SERVER_PASSTHRU |-> 1338, DIRECT |-> 1538]

----------------------------------------------------------------------------
(* icecap-rpc.  A value is serialized by postcard: the number of the       *)
(* variant in one byte, and each usize in eight.                           *)
Request == <<
    <<"Declare", 2>>, <<"SpecChunk", 4>>, <<"FillChunks", 3>>, <<"RealizeStart", 1>>,
    <<"RealizeFinish", 1>>, <<"Destroy", 1>>, <<"HackRun", 1>> >>
DirectRequest == << <<"BenchmarkUtilisationStart", 0>>, <<"BenchmarkUtilisationFinish", 0>> >>
BenchmarkRequest == << <<"Start", 0>>, <<"Finish", 0>> >>
BenchmarkResponse == << <<"Ok", 0>>, <<"Err", 0>> >>
Unit == <<>>        \* () and DirectResponse: no bytes at all

Value(name, vals) == <<name, vals>>

to_allocvec(enum, v) ==
    IF enum = Unit THEN <<>>
    ELSE LET variant == CHOOSE i \in DOMAIN enum : enum[i][1] = v[1]
         IN  <<variant - 1>> \o FlattenSeq([i \in DOMAIN v[2] |-> Word(v[2][i])])
from_bytes(enum, b) ==
    IF enum = Unit THEN Value("Unit", <<>>)
    ELSE LET variant == enum[b[1] + 1]
         IN  Value(variant[1], [i \in 1 .. variant[2] |-> from_le_bytes(SubSeq(b, 8 * i - 6, 8 * i + 1))])

(* RPC::send() and RPC::recv(): whole words, the last one filled up.       *)
send_to_vec(enum, v) ==
    LET bytes == to_allocvec(enum, v)
        num_parameters == (Len(bytes) + 7) \div 8
        whole == resize_with(bytes, 8 * num_parameters, 0)
    IN  [i \in 1 .. num_parameters |-> SubSeq(whole, 8 * i - 7, 8 * i)]
recv_from_slice(enum, parameters) == from_bytes(enum, FlattenSeq(parameters))

(* SendingImpl and proxy::up() fill the message registers from the first,  *)
(* ReceivingImpl and proxy::down() read as many as the message has.        *)
up(m, parameters) == [i \in MR |-> IF i < Len(parameters) THEN parameters[i + 1] ELSE m[i]]
down(m, length) == [i \in 1 .. length |-> m[i - 1]]

(* The answer to a seL4 call of the thread.  The first four registers are  *)
(* stored whatever its length; past its end they hold leftovers.           *)
Leftover(i) == Word(2000 + i)
Answered(m, answer) == [up(m, answer) EXCEPT
    ![0] = IF Len(answer) > 0 THEN @ ELSE Leftover(0), ![1] = IF Len(answer) > 1 THEN @ ELSE Leftover(1),
    ![2] = IF Len(answer) > 2 THEN @ ELSE Leftover(2), ![3] = IF Len(answer) > 3 THEN @ ELSE Leftover(3)]

(* Yield::recv(): three fields of 16 bits, and a timeout whose highest bit *)
(* says that there is one; ResumeHostCondition::send(): a tag.             *)
get_field(reg, i) == from_le_bytes(SubSeq(reg, 2 * i + 1, 2 * i + 2))
decode_option(reg) ==
    IF reg = Zero THEN None ELSE from_le_bytes([reg EXCEPT ![8] = @ % 128])
Yield_recv(m) == [physical_node |-> get_field(m[1], 0), realm_id |-> get_field(m[1], 1),
                  virtual_node |-> get_field(m[1], 2), timeout |-> decode_option(m[2])]
ResumeHostCondition_send(condition) == <<Word(IF condition = "Timeout" THEN 1 ELSE 2)>>

----------------------------------------------------------------------------
(* The guest.  Registers that a call does not use hold anything: here a    *)
(* value of their own.                                                     *)
Scratch(i) == Word(1000 + i)
PC == 400

(* The tools' call_passthru(): the length, and six words.                  *)
call_passthru(enum, input) ==
    LET v_in == send_to_vec(enum, input)
    IN  <<Word(Len(v_in))>> \o resize_with(v_in, 6, Zero)
Output(enum, x) == recv_from_slice(enum, [i \in 1 .. from_le_bytes(x[0]) |-> x[i]])

FID == [PSCI_VERSION |-> <<0, 0, 0, 132>>, CPU_ON |-> <<3, 0, 0, 196>>,
        MIGRATE_INFO_TYPE |-> <<6, 0, 0, 132>>, PSCI_FEATURES |-> <<10, 0, 0, 132>>]
Fid(name) == FID[name] \o <<0, 0, 0, 0>>

(* What the caller puts into x0, x1, ...                                   *)
PsciArguments(name, args) ==
    [k \in DOMAIN args |-> IF name = "PSCI_FEATURES" THEN Fid(args[k]) ELSE Word(args[k])]
Arguments(c) ==
    CASE c.sys = "RESOURCE_SERVER_PASSTHRU" -> call_passthru(Request, c.arg)
      [] c.sys = "DIRECT" -> call_passthru(DirectRequest, c.arg)
      [] c.sys = "PUTCHAR" -> <<Word(c.arg[2])>>
      [] c.sys = "PSCI" -> <<Fid(c.arg[1])>> \o PsciArguments(c.arg[1], c.arg[2])

(* The registers at the call; x7 holds its number.                         *)
Loaded(c) ==
    [x |-> [i \in X |-> IF i < Len(Arguments(c)) THEN Arguments(c)[i + 1]
                        ELSE IF i = 7 THEN Word(SysId[c.sys]) ELSE Scratch(i)],
     pc |-> Word(PC)]

(* A virtual CPU makes a call and faults.                                  *)
Call(n, c) ==
    /\ at[n] = "guest" /\ c \in CallOf[n] /\ c.sys # "yield"
    /\ call' = [call EXCEPT ![n] = c]
    /\ guest' = [guest EXCEPT ![n] = Loaded(c)]
    /\ at' = [at EXCEPT ![n] = "fault"]
    /\ UNCHANGED <<icecap_benchmark, nodes, nodes_lock, mr, fault, msg, handled, started>>

(* The host's kernel yields: a message straight to the resource server.    *)
Yield(n, c) ==
    /\ at[n] = "guest" /\ c \in CallOf[n] /\ c.sys = "yield"
    /\ call' = [call EXCEPT ![n] = c]
    /\ LET y == c.arg[2]
           swap == to_le_bytes(2, y.physical_node) \o to_le_bytes(2, y.realm_id)
                   \o to_le_bytes(2, y.virtual_node) \o <<0, 0>>
           timeout == IF y.timeout = None THEN Zero ELSE [Word(y.timeout) EXCEPT ![8] = @ + 128]
       IN  msg' = [msg EXCEPT ![n] = <<swap, timeout>>]
    /\ at' = [at EXCEPT ![n] = "resource_server"]
    /\ UNCHANGED <<icecap_benchmark, nodes, nodes_lock, guest, mr, fault, handled, started>>

(* The guest goes on with what it was given, and uses its registers for    *)
(* other things.                                                           *)
Fresh == [x |-> [i \in X |-> Scratch(i)], pc |-> Word(PC)]

Continue(n) ==
    /\ at[n] = "resumed"
    /\ at' = [at EXCEPT ![n] = "guest"]
    /\ call' = [call EXCEPT ![n] = None]
    /\ handled' = [handled EXCEPT ![n] = None]
    /\ msg' = [msg EXCEPT ![n] = <<>>]
    /\ fault' = [fault EXCEPT ![n] = [i \in MR |-> Zero]]
    /\ mr' = [mr EXCEPT ![n] = [i \in MR |-> Zero]]
    /\ guest' = [guest EXCEPT ![n] = Fresh]
    /\ UNCHANGED <<icecap_benchmark, nodes, nodes_lock, started>>

----------------------------------------------------------------------------
(* The VMM.  VMMNode::run() receives the fault, Fault::get() copies it.    *)
Fault_get(n) ==
    /\ at[n] = "fault"
    /\ mr' = [mr EXCEPT ![n] =
            [i \in MR |-> IF i \in X THEN guest[n].x[i] ELSE IF i = FaultIP THEN guest[n].pc
                          ELSE IF i = Syscall THEN guest[n].x[7] ELSE Scratch(i)]]
    /\ fault' = [fault EXCEPT ![n] = mr'[n]]
    /\ at' = [at EXCEPT ![n] = "handle_syscall"]
    /\ UNCHANGED <<icecap_benchmark, nodes, nodes_lock, call, guest, msg, handled, started>>

gpr(f, ix) == f[ix]
mr_gpr(ix) == ix
mr_pc == FaultIP
(* Mutant: an index taken for a number: the reply leaves out the last one. *)
Mut_num_regs == FaultIP
num_regs_for_gprs_and_pc == FaultIP + 1

advance(m, f) == [m EXCEPT ![mr_pc] = Word(from_le_bytes(f[FaultIP]) + 4)]

(* The microkernel takes the registers from a reply of that length.        *)
Resumed(g, m, length) ==
    [x |-> [i \in X |-> IF i < length THEN m[i] ELSE g.x[i]],
     pc |-> IF FaultIP < length THEN m[FaultIP] ELSE g.pc]

advance_and_reply(n, m) ==
    /\ mr' = [mr EXCEPT ![n] = advance(m, fault[n])]
    /\ guest' = [guest EXCEPT ![n] = Resumed(@, mr'[n], num_regs_for_gprs_and_pc)]
    /\ at' = [at EXCEPT ![n] = "resumed"]

Panic(n) == at' = [at EXCEPT ![n] = "panic"] /\ UNCHANGED <<mr, guest>>

handle_syscall(n, sys) ==
    at[n] = "handle_syscall" /\ from_le_bytes(fault[n][Syscall]) = SysId[sys]

sys_putchar(n) ==
    /\ handle_syscall(n, "PUTCHAR")
    /\ handled' = [handled EXCEPT ![n] = gpr(fault[n], 0)[1]]
    /\ advance_and_reply(n, mr[n])
    /\ UNCHANGED <<icecap_benchmark, nodes, nodes_lock, call, fault, msg, started>>

(* CpuOn takes the node out of the table and starts its thread by a        *)
(* message of three words.  An empty or missing place panics, and the lock *)
(* stays held.                                                             *)
ThreadEntry == Word(3000)
Closure == Word(3001)
start(m) == up(m, <<ThreadEntry, Closure, Zero>>)

CpuOn(n, target, entry, ctx_id) ==
    /\ ~nodes_lock
    /\ \/ /\ target \in nodes
          /\ nodes' = nodes \ {target}
          /\ started' = [started EXCEPT ![target] = <<entry, ctx_id>>]
          /\ advance_and_reply(n, [start(mr[n]) EXCEPT ![mr_gpr(0)] = Zero])
          /\ UNCHANGED nodes_lock
       \/ target \notin nodes /\ nodes_lock' = TRUE /\ Panic(n) /\ UNCHANGED <<nodes, started>>

ReturnValue(f) ==
    LET fid == SubSeq(gpr(f, 0), 1, 4)
        qfid == SubSeq(gpr(f, 1), 1, 4)
    IN  CASE fid = FID["PSCI_VERSION"] -> <<1, 0, 1, 0, 0, 0, 0, 0>>
          [] fid = FID["PSCI_FEATURES"] -> IF qfid = FID["CPU_ON"] THEN Zero ELSE MinusOne
          [] fid = FID["MIGRATE_INFO_TYPE"] -> MinusOne

sys_psci(n) ==
    /\ handle_syscall(n, "PSCI")
    /\ LET f == fault[n]
           cpu_on == SubSeq(gpr(f, 0), 1, 4) = FID["CPU_ON"]
       IN  \/ cpu_on /\ CpuOn(n, from_le_bytes(gpr(f, 1)), gpr(f, 2), gpr(f, 3))
           \/ /\ ~cpu_on
              /\ advance_and_reply(n, [mr[n] EXCEPT ![mr_gpr(0)] = ReturnValue(f)])
              /\ UNCHANGED <<nodes, nodes_lock, started>>
    /\ UNCHANGED <<icecap_benchmark, call, fault, msg, handled>>

(* The started thread sets its virtual CPU going.                          *)
run(n) ==
    /\ at[n] = "off" /\ started[n] # None
    /\ guest' = [guest EXCEPT ![n] = [x |-> [@.x EXCEPT ![0] = started[n][2]], pc |-> started[n][1]]]
    /\ at' = [at EXCEPT ![n] = "guest"]
    /\ UNCHANGED <<icecap_benchmark, nodes, nodes_lock, call, mr, fault, msg, handled, started>>

----------------------------------------------------------------------------
(* userspace_syscall() of the host's VMM: parameters out of the fault, the *)
(* result into the message registers.                                      *)
parameters(n) == [i \in 1 .. from_le_bytes(gpr(fault[n], 0)) |-> gpr(fault[n], i)]

userspace_reply(n, m, r) ==
    LET values == <<Word(Len(r))>> \o resize_with(r, 6, Zero)
    IN  /\ Len(r) <= 6      \* asserted
        /\ advance_and_reply(n, [i \in MR |-> IF i <= 6 THEN values[i + 1] ELSE m[i]])

sys_resource_server_passthru(n) ==
    /\ handle_syscall(n, "RESOURCE_SERVER_PASSTHRU")
    /\ mr' = [mr EXCEPT ![n] = up(@, parameters(n))]
    /\ msg' = [msg EXCEPT ![n] = down(mr'[n], Len(parameters(n)))]
    /\ at' = [at EXCEPT ![n] = "resource_server"]
    /\ UNCHANGED <<icecap_benchmark, nodes, nodes_lock, call, guest, fault, handled, started>>

(* The resource server's loop: a request is answered by (); a yield when   *)
(* the host is resumed.                                                    *)
resource_server_control(n) ==
    /\ at[n] = "resource_server" /\ call[n].sys = "RESOURCE_SERVER_PASSTHRU"
    /\ handled' = [handled EXCEPT ![n] = recv_from_slice(Request, msg[n])]
    /\ msg' = [msg EXCEPT ![n] = send_to_vec(Unit, None)]
    /\ at' = [at EXCEPT ![n] = "proxy_down"]
    /\ UNCHANGED <<icecap_benchmark, nodes, nodes_lock, call, guest, mr, fault, started>>

resource_server_yield(n) ==
    /\ at[n] = "resource_server" /\ call[n].sys = "yield"
    /\ handled' = [handled EXCEPT ![n] = Yield_recv(msg[n])]
    /\ at' = [at EXCEPT ![n] = "realm"]
    /\ UNCHANGED <<icecap_benchmark, nodes, nodes_lock, call, guest, mr, fault, msg, started>>

resume_host(n, condition) ==
    /\ at[n] = "realm"
    /\ condition = "Timeout" => handled[n].timeout # None
    /\ msg' = [msg EXCEPT ![n] = ResumeHostCondition_send(condition)]
    /\ at' = [at EXCEPT ![n] = "resumed"]
    /\ UNCHANGED <<icecap_benchmark, nodes, nodes_lock, call, guest, mr, fault, handled, started>>

proxy_down(n) ==
    /\ at[n] = "proxy_down"
    /\ LET m == Answered(mr[n], msg[n])
       IN  userspace_reply(n, m, down(m, Len(msg[n])))
    /\ UNCHANGED <<icecap_benchmark, nodes, nodes_lock, call, fault, msg, handled, started>>

(* direct(): only the build for benchmarks has it.                         *)
sys_direct(n) ==
    /\ handle_syscall(n, "DIRECT")
    /\ LET request == recv_from_slice(DirectRequest, parameters(n))
           name == IF request[1] = "BenchmarkUtilisationStart" THEN "Start" ELSE "Finish"
           words == send_to_vec(BenchmarkRequest, Value(name, <<>>))
       IN  \/ /\ icecap_benchmark
              /\ mr' = [mr EXCEPT ![n] = up(@, words)]
              /\ msg' = [msg EXCEPT ![n] = down(mr'[n], Len(words))]
              /\ at' = [at EXCEPT ![n] = "benchmark_server"]
              /\ UNCHANGED guest
           \/ ~icecap_benchmark /\ Panic(n) /\ UNCHANGED msg
    /\ UNCHANGED <<icecap_benchmark, nodes, nodes_lock, call, fault, handled, started>>

benchmark_server(n) ==
    /\ at[n] = "benchmark_server"
    /\ handled' = [handled EXCEPT ![n] = recv_from_slice(BenchmarkRequest, msg[n])]
    /\ msg' = [msg EXCEPT ![n] =
            send_to_vec(BenchmarkResponse, Value(IF icecap_benchmark THEN "Ok" ELSE "Err", <<>>))]
    /\ at' = [at EXCEPT ![n] = "direct"]
    /\ UNCHANGED <<icecap_benchmark, nodes, nodes_lock, call, guest, mr, fault, started>>

direct(n) ==
    /\ at[n] = "direct"
    /\ LET m == Answered(mr[n], msg[n])
           response == recv_from_slice(BenchmarkResponse, down(m, Len(msg[n])))
       IN  response[1] = "Ok" /\ userspace_reply(n, m, send_to_vec(Unit, None))
    /\ UNCHANGED <<icecap_benchmark, nodes, nodes_lock, call, fault, msg, handled, started>>

----------------------------------------------------------------------------
Init ==
    /\ icecap_benchmark \in BOOLEAN
    /\ nodes = Node \ {0}
    /\ nodes_lock = FALSE
    /\ at = [n \in Node |-> IF n = 0 THEN "guest" ELSE "off"]
    /\ call = [n \in Node |-> None]
    /\ guest = [n \in Node |-> Fresh]
    /\ mr = [n \in Node |-> [i \in MR |-> Zero]]
    /\ fault = mr
    /\ msg = [n \in Node |-> <<>>]
    /\ handled = [n \in Node |-> None]
    /\ started = [n \in Node |-> None]

Next ==
    \E n \in Node :
        \/ \E c \in CallOf[n] : Call(n, c)
        \/ \E c \in CallOf[n] : Yield(n, c)
        \/ Continue(n)
        \/ Fault_get(n)
        \/ sys_putchar(n)
        \/ sys_psci(n)
        \/ run(n)
        \/ sys_resource_server_passthru(n)
        \/ resource_server_control(n)
        \/ resource_server_yield(n)
        \/ \E condition \in {"Timeout", "HostEvent"} : resume_host(n, condition)
        \/ proxy_down(n)
        \/ sys_direct(n)
        \/ benchmark_server(n)
        \/ direct(n)

Spec == Init /\ [][Next]_vars

----------------------------------------------------------------------------
(* The registers in keep and the program counter after the call.           *)
Kept(n, keep) ==
    /\ \A i \in keep : guest[n].x[i] = Loaded(call[n]).x[i]
    /\ guest[n].pc = Word(PC + 4)

(* A call has the effect that the caller asked for, and gives it nothing   *)
(* else: the server decodes the request that the tool encoded, the tool    *)
(* decodes the answer to it; the guest goes on after the call; registers   *)
(* that hold no result are as before, whatever messages the VMM's thread   *)
(* has sent in between (but for CpuOn, which leaves x1 and x2 changed).  A *)
(* node starts where CpuOn said, once.  Only a request for benchmarks to a *)
(* build without them, or CpuOn for a node that is not there, ends the     *)
(* node's thread.                                                          *)
CallsAreCarriedOut ==
    \A n \in Node :
        LET c == call[n]
            x == guest[n].x
            psci == IF c # None /\ c.sys = "PSCI" THEN c.arg[1] ELSE "none"
        IN  /\ at[n] = "resumed" =>
                CASE c.sys = "RESOURCE_SERVER_PASSTHRU" ->
                        handled[n] = c.arg /\ Output(Unit, x) = Value("Unit", <<>>) /\ Kept(n, {7})
                  [] c.sys = "DIRECT" ->
                        /\ handled[n][1] =
                            IF c.arg[1] = "BenchmarkUtilisationStart" THEN "Start" ELSE "Finish"
                        /\ Output(Unit, x) = Value("Unit", <<>>) /\ Kept(n, {7})
                  [] c.sys = "PUTCHAR" -> handled[n] = c.arg[2] % 256 /\ Kept(n, X)
                  [] psci = "CPU_ON" -> x[0] = Zero /\ Kept(n, X \ {0, 1, 2})
                  [] psci = "PSCI_FEATURES" ->
                        x[0] = (IF c.arg[2][1] = "CPU_ON" THEN Zero ELSE MinusOne) /\ Kept(n, X \ {0})
                  [] psci = "PSCI_VERSION" -> x[0] = Word(65537) /\ Kept(n, X \ {0})
                  [] psci = "MIGRATE_INFO_TYPE" -> x[0] = MinusOne /\ Kept(n, X \ {0})
                  [] c.sys = "yield" -> handled[n] = c.arg[2] /\ msg[n] \in {<<Word(1)>>, <<Word(2)>>}
            /\ at[n] = "panic" => \/ c.sys = "DIRECT" /\ ~icecap_benchmark
                                  \/ psci = "CPU_ON" /\ c.arg[2][1] \notin nodes
            /\ n \in nodes => at[n] = "off" /\ started[n] = None
            /\ at[n] = "guest" /\ call[n] = None /\ guest[n].pc \notin {Word(PC), Word(PC + 4)} =>
                <<guest[n].pc, x[0]>> = started[n]
=============================================================================
