------------------------------- MODULE Mutex -------------------------------
(***************************************************************************)
(* icecap-sync: the mutex every multi-threaded IceCap component guards its *)
(* server state with.  It is an atomic counter in front of one seL4        *)
(* notification.  lock() subtracts 1 and waits on the notification when    *)
(* the counter was not positive; unlock() adds 1 and signals when it was   *)
(* negative.  Each atomic access and each system call is a step of its     *)
(* own, so threads interleave between them.                                *)
(*                                                                         *)
(* The notification is the kernel's: one pending word (the mutex uses a    *)
(* single badge) and a FIFO queue of blocked threads.  A signal hands      *)
(* itself to the head of the queue if there is one, otherwise it is        *)
(* remembered in the pending word, where two signals are one.              *)
(***************************************************************************)
EXTENDS Integers, Sequences, FiniteSets

CONSTANT Thread     \* the threads of the component

ASSUME ThreadAssumption == IsFiniteSet(Thread) /\ Thread # {}

VARIABLES
    value,          \* RawGenericMutex.value: AtomicIsize
    pending,        \* the notification's pending word: 1 = an unconsumed signal
    queue,          \* threads blocked in the notification, FIFO
    stage           \* where each thread is

mutexVars == <<value, pending, queue, stage>>

Stage == {"idle",   \* outside
          "wait",   \* lock(): old value <= 0, about to call wait()
          "blocked", \* lock(): inside wait()
          "cs",     \* holds the guard
          "signal"} \* unlock(): old value < 0, about to call signal()

MutexInit ==
    /\ value = 1
    /\ pending = 0
    /\ queue = <<>>
    /\ stage = [t \in Thread |-> "idle"]

----------------------------------------------------------------------------
(* Mutant: the comparison is off by one, a second thread goes straight in. *)
Mut_LockFetchSubTest(t) ==
    /\ stage[t] = "idle"
    /\ value' = value - 1
    /\ stage' = [stage EXCEPT ![t] = IF value < 0 THEN "wait" ELSE "cs"]
    /\ UNCHANGED <<pending, queue>>

LockFetchSub(t) ==
    /\ stage[t] = "idle"
    /\ value' = value - 1
    /\ stage' = [stage EXCEPT ![t] = IF value <= 0 THEN "wait" ELSE "cs"]
    /\ UNCHANGED <<pending, queue>>

(* Mutant: a thread that would have to wait gives up instead.              *)
Mut_LockWaitGivesUp(t) ==
    /\ stage[t] = "wait"
    /\ \/ /\ pending = 1
          /\ pending' = 0
          /\ stage' = [stage EXCEPT ![t] = "cs"]
          /\ UNCHANGED value
       \/ /\ pending = 0
          /\ value' = value + 1
          /\ stage' = [stage EXCEPT ![t] = "idle"]
          /\ UNCHANGED pending
    /\ UNCHANGED queue

(* Mutant: the last to come is the first to be woken.                      *)
Mut_LockWaitLIFO(t) ==
    /\ stage[t] = "wait"
    /\ \/ /\ pending = 1
          /\ pending' = 0
          /\ stage' = [stage EXCEPT ![t] = "cs"]
          /\ UNCHANGED queue
       \/ /\ pending = 0
          /\ queue' = <<t>> \o queue
          /\ stage' = [stage EXCEPT ![t] = "blocked"]
          /\ UNCHANGED pending
    /\ UNCHANGED value

LockWait(t) ==
    /\ stage[t] = "wait"
    /\ \/ /\ pending = 1
          /\ pending' = 0
          /\ stage' = [stage EXCEPT ![t] = "cs"]
          /\ UNCHANGED queue
       \/ /\ pending = 0
          /\ queue' = Append(queue, t)
          /\ stage' = [stage EXCEPT ![t] = "blocked"]
          /\ UNCHANGED pending
    /\ UNCHANGED value

(* Mutant: unlock() signals even when nobody waits.                        *)
Mut_UnlockFetchAddAlways(t) ==
    /\ stage[t] = "cs"
    /\ value' = value + 1
    /\ stage' = [stage EXCEPT ![t] = IF value <= 0 THEN "signal" ELSE "idle"]
    /\ UNCHANGED <<pending, queue>>

UnlockFetchAdd(t) ==
    /\ stage[t] = "cs"
    /\ value' = value + 1
    /\ stage' = [stage EXCEPT ![t] = IF value < 0 THEN "signal" ELSE "idle"]
    /\ UNCHANGED <<pending, queue>>

UnlockSignal(t) ==
    /\ stage[t] = "signal"
    /\ \/ /\ queue # <<>>
          /\ stage' = [stage EXCEPT ![t] = "idle", ![Head(queue)] = "cs"]
          /\ queue' = Tail(queue)
          /\ UNCHANGED pending
       \/ /\ queue = <<>>
          /\ pending' = 1
          /\ stage' = [stage EXCEPT ![t] = "idle"]
          /\ UNCHANGED queue
    /\ UNCHANGED value

----------------------------------------------------------------------------
(* A thread that entered lock() or unlock(), or holds the guard, goes on:  *)
(* handlers return, so the guard is dropped.                               *)
Progress(t) == LockWait(t) \/ UnlockFetchAdd(t) \/ UnlockSignal(t)

MutexNext == \E t \in Thread : LockFetchSub(t) \/ Progress(t)

MutexSpec == MutexInit /\ [][MutexNext]_mutexVars

MutexFairSpec == MutexSpec /\ \A t \in Thread : WF_mutexVars(Progress(t))

----------------------------------------------------------------------------
Contending == {t \in Thread : stage[t] \in {"wait", "blocked", "cs"}}

Baton == {t \in Thread : stage[t] \in {"cs", "signal"}}

MutexTypeOK ==
    /\ value \in (1 - Cardinality(Thread))..1
    /\ pending \in {0, 1}
    /\ queue \in Seq(Thread)
    /\ stage \in [Thread -> Stage]

(* Two threads never hold the guard of one GenericMutex at the same time,  *)
(* so the data behind it is never accessed by two threads at once.         *)
MutualExclusion ==
    \A s, t \in Thread : stage[s] = "cs" /\ stage[t] = "cs" => s = t

(* The counter tells the truth: it is 1 minus the threads between their    *)
(* fetch_sub in lock() and their fetch_add in unlock(), and the wake-up is *)
(* never lost.  While some thread contends, exactly one of these exists: a *)
(* holder, an unlocker on its way to signal(), a remembered signal.  When  *)
(* none contends none exists, so no stale signal can admit a second thread.*)
WakeupInFlight ==
    /\ value = 1 - Cardinality(Contending)
    /\ \A s, t \in Baton : s = t
    /\ pending = 1 => Baton = {}
    /\ (Contending # {}) <=> (pending = 1 \/ Baton # {})

(* The notification's queue holds exactly the threads blocked in wait(),   *)
(* each once, and a signal is remembered only when nobody is queued.       *)
QueueExact ==
    /\ \A t \in Thread : stage[t] = "blocked" <=> \E i \in 1..Len(queue) : queue[i] = t
    /\ \A i, j \in 1..Len(queue) : queue[i] = queue[j] => i = j
    /\ pending = 1 => queue = <<>>

(* The mutex implements the abstract lock.                                 *)
Phase == [t \in Thread |->
            CASE stage[t] \in {"idle", "signal"}  -> "out"
              [] stage[t] \in {"wait", "blocked"} -> "want"
              [] stage[t] = "cs"                  -> "in"]

Lock == INSTANCE AbstractLock WITH phase <- Phase

ImplementsLock == Lock!Spec

(* Starvation freedom: every thread that called lock() gets the guard,     *)
(* however often the others take it, given that holders release it.        *)
LockEventually ==
    \A t \in Thread : stage[t] \in {"wait", "blocked"} ~> stage[t] = "cs"
=============================================================================
