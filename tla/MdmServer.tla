------------------------------ MODULE MdmServer ------------------------------
(***************************************************************************)
(* MdmServer::RunSyncML: the agent's threads - the request processor of    *)
(* each plugin and the built-in handlers - give MDM commands.  A command   *)
(* is queued as a task for one worker thread, SyncMLServer's, and its      *)
(* caller blocks on the task's future with the server's lock held.  The    *)
(* worker sleeps on the queue's condition variable.                        *)
(***************************************************************************)
EXTENDS Integers, Sequences

CONSTANTS
    MdmCallers,     \* the threads
    NoCaller,
    MaxCommands     \* bound: commands each thread gives

ASSUME MdmParametersOK == NoCaller \notin MdmCallers /\ MaxCommands \in Nat

VARIABLES
    caller,       \* where each thread is in RunSyncML
    given,        \* commands each thread gave so far
    lock,         \* who holds MdmServer::_lock
    tasks,        \* TaskQueue::_queue: the callers of the queued tasks
    worker,       \* where the worker is
    current,      \* whose task it runs
    answer        \* the future of each caller's task

mdm == <<caller, given, lock, tasks, worker, current, answer>>

MdmInit ==
    /\ caller = [c \in MdmCallers |-> "idle"]
    /\ given = [c \in MdmCallers |-> 0]
    /\ lock = NoCaller
    /\ tasks = << >>
    /\ worker = "check"
    /\ current = NoCaller
    /\ answer = [c \in MdmCallers |-> "none"]

MdmOK ==
    /\ caller \in [MdmCallers -> {"idle", "lock", "enqueue", "notify", "get"}]
    /\ given \in [MdmCallers -> 0 .. MaxCommands]
    /\ lock \in MdmCallers \cup {NoCaller}
    /\ tasks \in Seq(MdmCallers)
    /\ worker \in {"check", "asleep", "run"}
    /\ current \in MdmCallers \cup {NoCaller}
    /\ answer \in [MdmCallers -> {"none", "result", "exception"}]

RunSyncML(c) ==
    /\ caller[c] = "idle"
    /\ given[c] < MaxCommands
    /\ given' = [given EXCEPT ![c] = @ + 1]
    /\ caller' = [caller EXCEPT ![c] = "lock"]
    /\ UNCHANGED <<lock, tasks, worker, current, answer>>

\* Mutant: the lock is not taken.
LockServerNot(c) ==
    /\ caller[c] = "lock"
    /\ caller' = [caller EXCEPT ![c] = "enqueue"]
    /\ UNCHANGED <<given, lock, tasks, worker, current, answer>>

\* The lock is recursive, but no command gives another one.
LockServer(c) ==
    /\ caller[c] = "lock"
    /\ lock = NoCaller
    /\ lock' = c
    /\ caller' = [caller EXCEPT ![c] = "enqueue"]
    /\ UNCHANGED <<given, tasks, worker, current, answer>>

\* Enqueue pushes the task under the queue's mutex and notifies after it.
Enqueue(c) ==
    /\ caller[c] = "enqueue"
    /\ tasks' = Append(tasks, c)
    /\ caller' = [caller EXCEPT ![c] = "notify"]
    /\ UNCHANGED <<given, lock, worker, current, answer>>

\* Mutant: nobody is notified.
NotifyNever(c) ==
    /\ caller[c] = "notify"
    /\ caller' = [caller EXCEPT ![c] = "get"]
    /\ UNCHANGED <<given, lock, tasks, worker, current, answer>>

\* A notification wakes the worker if it sleeps and is lost otherwise.
Notify(c) ==
    /\ caller[c] = "notify"
    /\ worker' = IF worker = "asleep" THEN "check" ELSE worker
    /\ caller' = [caller EXCEPT ![c] = "get"]
    /\ UNCHANGED <<given, lock, tasks, current, answer>>

\* The future is ready; a bad status in the result throws like an exception.
GetResult(c) ==
    /\ caller[c] = "get"
    /\ answer[c] # "none"
    /\ answer' = [answer EXCEPT ![c] = "none"]
    /\ lock' = IF lock = c THEN NoCaller ELSE lock
    /\ caller' = [caller EXCEPT ![c] = "idle"]
    /\ UNCHANGED <<given, tasks, worker, current>>

\* The wait's predicate is looked at before sleeping and after waking up.
Dequeue ==
    /\ worker = "check"
    /\ IF tasks = << >>
       THEN worker' = "asleep" /\ UNCHANGED <<tasks, current>>
       ELSE /\ current' = Head(tasks)
            /\ tasks' = Tail(tasks)
            /\ worker' = "run"
    /\ UNCHANGED <<caller, given, lock, answer>>

WakesSpuriously ==
    /\ worker = "asleep"
    /\ worker' = "check"
    /\ UNCHANGED <<caller, given, lock, tasks, current, answer>>

\* ProcessInternal: the packaged task keeps its result or its exception.
Process ==
    /\ worker = "run"
    /\ \E a \in {"result", "exception"} : answer' = [answer EXCEPT ![current] = a]
    /\ current' = NoCaller
    /\ worker' = "check"
    /\ UNCHANGED <<caller, given, lock, tasks>>

CallerStep(c) == LockServer(c) \/ Enqueue(c) \/ Notify(c) \/ GetResult(c)
WorkerStep == Dequeue \/ Process

MdmStep ==
    \/ \E c \in MdmCallers : RunSyncML(c) \/ CallerStep(c)
    \/ WorkerStep
    \/ WakesSpuriously

MdmSpec == MdmInit /\ [][MdmStep]_mdm

(***************************************************************************)
(* Each RunSyncML is a procedure call on the worker: one at a time, run    *)
(* once, answered before the next.  A thread asks when it is about to      *)
(* queue its task; until then it only waits for the lock.                  *)
(***************************************************************************)
Phase(c) ==
    IF caller[c] \notin {"notify", "get"} THEN "idle"
    ELSE IF answer[c] # "none"            THEN "answered"
    ELSE IF current = c                   THEN "running"
                                          ELSE "asked"

CallPhase ==
    [c \in MdmCallers \cup {NoCaller} |-> IF c = NoCaller THEN "idle" ELSE Phase(c)]

Calls == INSTANCE SynchronousCall WITH
            AgentCallers <- MdmCallers, HostCallers <- {}, HostRP <- NoCaller,
            phase <- CallPhase

CommandIsSynchronousCall == Calls!Spec

(***************************************************************************)
(* The thread that has the lock gets its answer and gives the lock back,   *)
(* whether the worker sleeps or not when the task is queued: the           *)
(* notification outside of the queue's mutex leaves no task lying.         *)
(* (TaskQueue::Enqueue and Dequeue; a thread that waits for the lock may   *)
(* be overtaken, which is why it is not part of this.)                     *)
(***************************************************************************)
CommandsAnswered ==
    \A c \in MdmCallers : caller[c] = "enqueue" ~> lock # c

=============================================================================
