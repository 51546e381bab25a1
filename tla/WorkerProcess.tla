--------------------------- MODULE WorkerProcess ---------------------------
(***************************************************************************)
(* One worker process: the scheduler on the main thread                    *)
(* (alasio/base/scheduler/scheduler.py), the bridge with its send thread   *)
(* and its recv thread (alasio/backend/worker/bridge.py), the logger they  *)
(* share, and the pipe to the worker manager.                              *)
(* A thread is switched between any two steps; locks are held across them. *)
(* Commands arrive as the manager wrote them (their order is the business  *)
(* of WorkerManager).                                                      *)
(***************************************************************************)
EXTENDS Naturals, Sequences

CONSTANTS
    Scenarios,  \* sets of what may happen in a behaviour
    MaxPipe,    \* messages the pipe holds, each way
    MaxEdits    \* bound: modifications of the config file

ASSUME ConstantsAssumption == MaxPipe \in Nat /\ MaxEdits \in Nat

VARIABLES
    happens,   \* what may happen in this behaviour
    sched,     \* the main thread: its place in the scheduler and what it still sends
    send,      \* the thread's place in BackendBridge.send()
    bridge,    \* BackendBridge: running, its locks and its slot; the send thread
    logger,    \* the thread that holds the lock of the logger
    recv,      \* the recv thread: its place and the command in hand
    stopping,  \* scheduler_stopping
    proc,      \* "alive" or the exit code
    config,    \* the config file: its version, the mtime ConfigWatcher remembers
    up, down,  \* the messages in the pipe, to the backend and from it
    backend    \* the manager's entry of this worker, the task it was told, its process

vars == <<happens, sched, send, bridge, logger, recv, stopping, proc, config, up, down, backend>>
outside == <<happens, config, down, backend>>  \* what a thread that sends leaves alone

Threads == {"main", "pool", "recv"}
NoThread == "none"

\* What a worker sends: its state, the task it runs, and what has no state.
Messages == {"running", "scheduler-waiting", "error", "task", "no-task",
             "log", "preview", "other"}
Commands == {"scheduler-stopping", "scheduler-continue", "killing"}
\* The caller acquires the task lock: it waits until the message was sent.
Awaited == {"log", "preview"}

Pcs == {"boot", "enter", "loop", "planned", "filler", "idle", "wait", "task",
        "native", "ending", "unwind"}
Shown == {"starting", "running", "scheduler-waiting", "scheduler-stopping", "killing",
          "idle", "error"}

\* The main thread, a thread in send(), the bridge, the recv thread, the entry.
Scheds == [pc : Pcs, todo : Seq(Messages), irq : BOOLEAN, plan : 0..MaxEdits,
           failed : BOOLEAN]
Sends == [pc : {"out", "call", "mutex", "idle", "wait"}, msg : Messages]
Bridges == [running : BOOLEAN, mutex : Threads \cup {NoThread}, busy : BOOLEAN,
            ready : BOOLEAN, by : Threads, msg : Messages,
            loop : {"ready", "sending", "ended"}]
Recvs == [pc : {"read", "handle", "warn", "deadline"}, cmd : Commands]
Entries == [entry : Shown, task : BOOLEAN, alive : BOOLEAN]

TypeOK ==
    /\ sched \in Scheds /\ send \in [Threads -> Sends] /\ bridge \in Bridges
    /\ logger \in Threads \cup {NoThread} /\ recv \in Recvs
    /\ stopping \in BOOLEAN /\ proc \in {"alive", "exit0", "exit1", "exit3"}
    /\ config \in [version : 0..MaxEdits, watched : 0..MaxEdits]
    /\ up \in Seq(Messages) /\ down \in Seq(Commands)
    /\ backend \in Entries

Init ==
    /\ happens \in Scenarios
    /\ sched = [pc |-> "boot", todo |-> <<"running">>, irq |-> FALSE, plan |-> 0,
                failed |-> FALSE]
    /\ send = [t \in Threads |-> [pc |-> "out", msg |-> "log"]]
    /\ bridge = [running |-> TRUE, mutex |-> NoThread, busy |-> FALSE, ready |-> FALSE,
                 by |-> "main", msg |-> "log", loop |-> "ready"]
    /\ logger = NoThread
    /\ recv = [pc |-> "read", cmd |-> "killing"]
    /\ stopping = FALSE /\ proc = "alive"
    /\ config = [version |-> 0, watched |-> 0]
    /\ up = <<>> /\ down = <<>>
    /\ backend = [entry |-> "starting", task |-> FALSE, alive |-> TRUE]

Alive == proc = "alive"
-----------------------------------------------------------------------------
(* send(), from any thread.  A log message is sent under the lock of the   *)
(* logger, which is held until the message was sent.                       *)

Calls(t, m) == [send EXCEPT ![t] = [pc |-> "call", msg |-> m]]

\* `inited`: BackendBridge.init() has returned.
Inited == sched.pc # "boot"

\* `running` is looked at once, before the locks.  Before `inited` the logger only
\* writes its file.
Enter(t) ==
    LET sends == bridge.running /\ (send[t].msg = "log" => Inited)
    IN /\ Alive /\ send[t].pc = "call" /\ (send[t].msg = "log" => logger = NoThread)
       /\ send' = [send EXCEPT ![t].pc = IF sends THEN "mutex" ELSE "out"]
       /\ logger' = IF sends /\ send[t].msg = "log" THEN t ELSE logger
       /\ UNCHANGED <<outside, sched, bridge, recv, stopping, proc, up>>

TakeMutex(t) ==
    /\ Alive /\ send[t].pc = "mutex" /\ bridge.mutex = NoThread
    /\ send' = [send EXCEPT ![t].pc = "idle"]
    /\ bridge' = [bridge EXCEPT !.mutex = t]
    /\ UNCHANGED <<outside, sched, logger, recv, stopping, proc, up>>

\* Mutated Publish: the slot is filled before the send thread is idle.
Publish_Overwrites(t) ==
    /\ Alive /\ send[t].pc = "idle"
    /\ send' = [send EXCEPT ![t].pc = IF send[t].msg \in Awaited THEN "wait" ELSE "out"]
    /\ bridge' = [bridge EXCEPT !.mutex = NoThread, !.busy = TRUE, !.ready = TRUE,
                                !.by = t, !.msg = send[t].msg]
    /\ UNCHANGED <<outside, sched, logger, recv, stopping, proc, up>>

\* _worker_idle is taken, the slot filled, _work_ready and _mutex released.
Publish(t) ==
    /\ Alive /\ send[t].pc = "idle" /\ ~bridge.busy
    /\ send' = [send EXCEPT ![t].pc = IF send[t].msg \in Awaited THEN "wait" ELSE "out"]
    /\ bridge' = [bridge EXCEPT !.mutex = NoThread, !.busy = TRUE, !.ready = TRUE,
                                !.by = t, !.msg = send[t].msg]
    /\ UNCHANGED <<outside, sched, logger, recv, stopping, proc, up>>

\* The task lock of the slot is released: whoever waits for it goes on.
ReleaseTask ==
    LET t == bridge.by
        waits == send[t].pc = "wait"
    IN /\ send' = IF waits THEN [send EXCEPT ![t].pc = "out"] ELSE send
       /\ logger' = IF waits /\ logger = t THEN NoThread ELSE logger

\* _send_loop() is woken: it ends once the bridge is not running any more.
Wake ==
    /\ Alive /\ bridge.loop = "ready" /\ bridge.ready
    /\ bridge' = [bridge EXCEPT !.ready = FALSE,
                                !.loop = IF bridge.running THEN "sending" ELSE "ended"]
    /\ IF bridge.running THEN UNCHANGED <<send, logger>> ELSE ReleaseTask
    /\ UNCHANGED <<outside, sched, recv, stopping, proc, up>>

\* The message is written, or dropped when the pipe is broken; a full pipe blocks.
Transmit ==
    /\ Alive /\ bridge.loop = "sending"
    /\ IF backend.alive THEN Len(up) < MaxPipe /\ up' = Append(up, bridge.msg)
                        ELSE UNCHANGED up
    /\ ReleaseTask
    /\ bridge' = [bridge EXCEPT !.busy = FALSE, !.loop = "ready"]
    /\ UNCHANGED <<outside, sched, recv, stopping, proc>>
-----------------------------------------------------------------------------
(* The scheduler.  A stretch of it ends with what it sends on the way.     *)

At(pc) == Alive /\ sched.pc = pc /\ sched.todo = <<>> /\ send["main"].pc = "out"

Goto(pc, todo) == sched' = [sched EXCEPT !.pc = pc, !.todo = todo]

bystanders == <<happens, send, bridge, logger, recv, stopping, up, down, backend>>

MainSends ==
    /\ Alive /\ sched.todo # <<>> /\ send["main"].pc = "out"
    /\ send' = Calls("main", Head(sched.todo))
    /\ sched' = [sched EXCEPT !.todo = Tail(@)]
    /\ UNCHANGED <<outside, bridge, logger, recv, stopping, proc, up>>

\* SchedulerStop, or the end of run() in any other way.
StopsLoop == Goto("ending", <<"no-task", "preview", "no-task">>)

\* SchedulerError.
Fails ==
    /\ "fail" \in happens
    /\ sched' = [sched EXCEPT !.pc = "ending", !.failed = TRUE,
                              !.todo = <<"error", "no-task", "preview", "no-task">>]

Booted == At("boot") /\ Goto("enter", <<"log">>) /\ UNCHANGED <<bystanders, proc, config>>

\* _on_task_switch(None) before the loop: a device that cannot be made raises
\* SchedulerError out of run().
EnterLoop ==
    /\ At("enter")
    /\ \/ Goto("loop", <<"no-task">>) /\ UNCHANGED proc
       \/ "fail" \in happens /\ proc' = "exit1" /\ sched' = [sched EXCEPT !.failed = TRUE]
    /\ UNCHANGED <<bystanders, config>>

\* Mutated Plan: the stop request is only seen while the worker waits.
Plan_IgnoresStop ==
    /\ At("loop")
    /\ sched' = [sched EXCEPT !.pc = "planned", !.todo = <<"other">>, !.plan = config.version]
    /\ UNCHANGED <<bystanders, proc, config>>

\* _task_loop(): the next task is taken from the config as it is now.
Plan ==
    /\ At("loop")
    /\ IF stopping THEN StopsLoop
       ELSE sched' = [sched EXCEPT !.pc = "planned", !.todo = <<"other">>,
                                   !.plan = config.version]
    /\ UNCHANGED <<bystanders, proc, config>>

\* The restart tasks are skipped at first, no task is enabled, the task is due,
\* or it is not.
Planned ==
    /\ At("planned")
    /\ \/ Goto("loop", <<"other">>)
       \/ Fails
       \/ Goto("task", <<"task", "log">>)
       \/ Goto("filler", <<>>)
    /\ UNCHANGED <<bystanders, proc, config>>

\* _wait_future(): the task of an empty queue, then _on_idle().
Filler ==
    /\ At("filler")
    /\ \/ Goto("idle", <<"preview", "no-task">>)
       \/ Fails
       \/ stopping /\ StopsLoop
    /\ UNCHANGED <<bystanders, proc, config>>

Idle ==
    /\ At("idle") /\ Goto("wait", <<"scheduler-waiting">>)
    /\ config' = [config EXCEPT !.watched = config.version]
    /\ UNCHANGED <<bystanders, proc>>

\* Mutated Poll: nothing is reported when the wait is over.
Poll_ReportsNothing ==
    /\ At("wait")
    /\ IF stopping THEN StopsLoop
       ELSE \/ Goto("task", <<"task", "log">>)
            \/ config.watched # config.version /\ Goto("loop", <<>>)
    /\ UNCHANGED <<bystanders, proc, config>>

\* A poll of the wait: told to stop, the task is due, the config was modified.
Poll ==
    /\ At("wait")
    /\ IF stopping THEN StopsLoop
       ELSE \/ Goto("task", <<"running", "task", "log">>)
            \/ config.watched # config.version /\ Goto("loop", <<>>)
    /\ UNCHANGED <<bystanders, proc, config>>

\* _run_task(): the task is over, failed, or its sleep was told to stop.
TaskReturns ==
    /\ At("task")
    /\ Goto("loop", <<"log">>) \/ Fails \/ (stopping /\ StopsLoop)
    /\ UNCHANGED <<bystanders, proc, config>>

\* A task saves configs and logs.
TaskSends ==
    /\ At("task") /\ \E m \in {"other", "log"} : Goto("task", <<m>>)
    /\ UNCHANGED <<bystanders, proc, config>>

\* A task enters a native call that does not return.
TaskBlocks ==
    /\ "native" \in happens /\ At("task") /\ Goto("native", <<>>)
    /\ UNCHANGED <<bystanders, proc, config>>

\* run() returns, also after a SchedulerError, and so does the process.
RunReturns ==
    /\ At("ending") \/ At("unwind")
    /\ proc' = "exit0"
    /\ UNCHANGED <<bystanders, sched, config>>

\* The injected KeyboardInterrupt is raised between two bytecodes of the main thread.
\* In send() that may be before the try, which leaves _mutex locked, or inside of it,
\* where _worker_idle may just have been acquired and stays locked.  What is unwound
\* may send ("batch": BatchSetContext saves).
Interrupted ==
    /\ Alive /\ sched.irq /\ sched.pc # "native"
    /\ \/ UNCHANGED bridge
       \/ /\ send["main"].pc = "idle"
          /\ \E acquired \in {bridge.busy, TRUE} :
                bridge' = [bridge EXCEPT !.mutex = NoThread, !.busy = acquired]
    /\ send' = [send EXCEPT !["main"].pc = "out"]
    /\ logger' = IF logger = "main" THEN NoThread ELSE logger
    /\ sched' = [sched EXCEPT !.irq = FALSE, !.pc = "unwind",
                              !.todo = IF "batch" \in happens THEN <<"other">> ELSE <<>>]
    /\ proc' = IF sched.pc = "boot" THEN "exit1" ELSE proc
    /\ UNCHANGED <<outside, recv, stopping, up>>
-----------------------------------------------------------------------------
(* The recv thread, and another thread of the process.                     *)

\* _handle_backend_command() logs a command before it obeys.
ReadCommand ==
    /\ Alive /\ recv.pc = "read" /\ down # <<>>
    /\ recv' = [pc |-> "handle", cmd |-> Head(down)] /\ down' = Tail(down)
    /\ send' = Calls("recv", "log")
    /\ UNCHANGED <<happens, sched, bridge, logger, stopping, proc, config, up, backend>>

Obey ==
    /\ Alive /\ recv.pc = "handle" /\ send["recv"].pc = "out"
    /\ recv' = [recv EXCEPT !.pc = "read"]
    /\ stopping' = CASE recv.cmd = "scheduler-stopping" -> TRUE
                     [] recv.cmd = "scheduler-continue" -> FALSE
                     [] OTHER -> stopping
    /\ sched' = IF recv.cmd = "killing" THEN [sched EXCEPT !.irq = TRUE] ELSE sched
    /\ UNCHANGED <<outside, send, bridge, logger, proc, up>>

\* The end of the stream: _handle_backend_lost() clears `running` and logs.
BackendLost ==
    /\ Alive /\ recv.pc = "read" /\ down = <<>> /\ ~backend.alive
    /\ bridge' = [bridge EXCEPT !.running = FALSE]
    /\ recv' = [recv EXCEPT !.pc = "warn"]
    /\ UNCHANGED <<outside, sched, send, logger, stopping, proc, up>>

Inject ==
    /\ Alive /\ recv.pc = "warn" /\ logger = NoThread
    /\ sched' = [sched EXCEPT !.irq = TRUE]
    /\ recv' = [recv EXCEPT !.pc = "deadline"]
    /\ UNCHANGED <<outside, send, bridge, logger, stopping, proc, up>>

\* Mutated Deadline: the second step is left out.
Deadline_Trusts == FALSE /\ UNCHANGED vars

\* BACKEND_LOST_KILL_WAIT_TIMEOUT is over and the main thread still lives: a last log
\* line, and the process is ended.
Deadline ==
    /\ Alive /\ recv.pc = "deadline" /\ logger = NoThread /\ proc' = "exit3"
    /\ UNCHANGED <<outside, sched, send, bridge, logger, recv, stopping, up>>

PoolSends ==
    /\ Alive /\ "pool" \in happens /\ send["pool"].pc = "out"
    /\ \E m \in {"log", "other"} : send' = Calls("pool", m)
    /\ UNCHANGED <<outside, sched, bridge, logger, recv, stopping, proc, up>>
-----------------------------------------------------------------------------
(* The backend's side, and the user.                                       *)

worker == <<happens, sched, send, bridge, logger, recv, stopping, proc>>

\* WORKER_STATE_ALLOWS
Allows == {"running", "scheduler-waiting"}

\* Mutated Hear: a report overrides the request of a user.
Hear_Overrides ==
    /\ backend.alive /\ up # <<>> /\ up' = Tail(up)
    /\ LET m == Head(up) IN
       backend' = [backend EXCEPT !.entry = IF m \in Allows THEN m ELSE @,
                                  !.task = IF m \in {"task", "no-task"} THEN m = "task" ELSE @]
    /\ UNCHANGED <<worker, config, down>>

\* The manager's recv thread, _handle_config_event(): a report counts while the
\* entry is starting or in one of the allowed states, and "error" never does.
Hear ==
    /\ backend.alive /\ up # <<>> /\ up' = Tail(up)
    /\ LET m == Head(up) IN
       backend' = [backend EXCEPT
                     !.entry = IF m \in Allows /\ @ \in Allows \cup {"starting"} THEN m ELSE @,
                     !.task = IF m \in {"task", "no-task"} THEN m = "task" ELSE @]
    /\ UNCHANGED <<worker, config, down>>

\* _handle_disconnect(): the pipe is broken, the process is joined.
HearEnd ==
    /\ backend.alive /\ ~Alive /\ up = <<>> /\ backend.entry \notin {"idle", "error"}
    /\ backend' = [backend EXCEPT
                     !.entry = IF proc = "exit0" \/ @ = "killing" THEN "idle" ELSE "error"]
    /\ UNCHANGED <<worker, config, up, down>>

\* A request of a user that the manager accepts in these states of the entry.
Request(op, from, to, cmd) ==
    /\ op \in happens /\ backend.alive /\ backend.entry \in from /\ Len(down) < MaxPipe
    /\ backend' = [backend EXCEPT !.entry = to]
    /\ down' = Append(down, cmd)
    /\ UNCHANGED <<worker, config, up>>

Stop == Request("stop", {"starting", "running", "scheduler-waiting"},
                "scheduler-stopping", "scheduler-stopping")
Continue == Request("continue", {"scheduler-stopping"}, "running", "scheduler-continue")
Kill == Request("kill", {"starting", "running", "scheduler-waiting", "scheduler-stopping"},
                "killing", "killing")

\* The backend ends, with what it knew and had not read; its end of the pipe is closed.
BackendEnds ==
    /\ "lost" \in happens /\ backend.alive
    /\ backend' = [entry |-> "idle", task |-> FALSE, alive |-> FALSE] /\ up' = <<>>
    /\ UNCHANGED <<worker, config, down>>

\* The user changes the config in the UI.
Edit ==
    /\ "edit" \in happens /\ config.version < MaxEdits
    /\ config' = [config EXCEPT !.version = @ + 1]
    /\ UNCHANGED <<worker, up, down, backend>>
-----------------------------------------------------------------------------
OfSender(t) == Enter(t) \/ TakeMutex(t) \/ Publish(t)
SendLoop == Wake \/ Transmit
OfMain ==
    \/ MainSends \/ Booted \/ EnterLoop \/ Plan \/ Planned \/ Filler \/ Idle \/ Poll
    \/ RunReturns
OfRecv == ReadCommand \/ Obey \/ BackendLost \/ Inject \/ Deadline

Next ==
    \/ \E t \in Threads : OfSender(t)
    \/ SendLoop
    \/ OfMain \/ TaskReturns \/ TaskSends \/ TaskBlocks \/ Interrupted
    \/ OfRecv \/ PoolSends
    \/ Hear \/ HearEnd \/ Stop \/ Continue \/ Kill \/ BackendEnds \/ Edit

Spec == Init /\ [][Next]_vars

\* Threads go on and get a lock in their turn; a pending exception is raised when the
\* main thread is not blocked in a lock; a task that is not in a native call returns;
\* the manager reads the pipe.
Fairness ==
    /\ \A t \in Threads : SF_vars(OfSender(t))
    /\ WF_vars(SendLoop) /\ WF_vars(OfMain) /\ WF_vars(OfRecv)
    /\ SF_vars(TaskReturns) /\ SF_vars(send["main"].pc = "out" /\ Interrupted)
    /\ WF_vars(Hear) /\ WF_vars(HearEnd)

LiveSpec == Spec /\ Fairness
-----------------------------------------------------------------------------
(* Properties.                                                             *)

\* A thread that waits for its message (a log line, a preview) is owed an answer:
\* its message is in the slot and the send loop has it or is about to.  Otherwise
\* it would wait forever, with the lock of the logger.
WaiterIsServed ==
    \A t \in Threads : Alive /\ send[t].pc = "wait" =>
        /\ bridge.by = t /\ bridge.msg = send[t].msg /\ bridge.busy
        /\ bridge.loop = "sending" \/ (bridge.loop = "ready" /\ bridge.ready)

\* Nothing is on its way from the worker to the backend.
Quiet ==
    /\ Alive /\ backend.alive /\ up = <<>>
    /\ sched.todo = <<>> /\ send["main"].pc = "out"
    /\ bridge.loop = "ready" /\ ~bridge.ready

\* "scheduler-waiting: worker waiting for next task, no task running currently": what
\* the page shows of the worker, its state and its task, is what it does.
\* Not when a wait ends because the config was modified (see WaitingMeansWaiting).
ShownIsTrue ==
    Quiet /\ "edit" \notin happens =>
        /\ sched.pc \in {"task", "native"} =>
               backend.task /\ backend.entry # "scheduler-waiting"
        /\ sched.pc = "wait" => ~backend.task

\* The same in every behaviour.  Does not hold: after a modification _wait_future()
\* returns without reporting, and the task that is due now runs in a worker that is
\* shown as waiting.
WaitingMeansWaiting ==
    Quiet /\ sched.pc \in {"task", "native"} => backend.entry # "scheduler-waiting"

\* A thread that is inside of send() when the send loop has ended.
Abandoned ==
    bridge.loop = "ended" /\ \E t \in Threads : send[t].pc \in {"mutex", "idle"}

\* A worker whose backend is gone ends ("a worker left behind keeps driving the
\* device with nobody watching it"), in a native call or not; unless a thread is
\* abandoned in send().
OrphanEnds == ~backend.alive ~> ~Alive \/ Abandoned

\* "blocking the caller on a send worker that never runs again is worse than losing
\* the event".  Does not hold: the caller looked at `running` before it was cleared,
\* the send loop ends for the message before, and nobody releases _worker_idle.  When
\* the caller logs, the recv thread waits for the logger and never ends the process.
NobodyAbandoned == ~(Alive /\ Abandoned)

\* A stop request ends the worker after its current task, unless it is taken back or
\* replaced by a kill.
StopEnds ==
    backend.entry = "scheduler-stopping" ~>
        backend.entry # "scheduler-stopping" \/ ~backend.alive \/ sched.pc = "native"

\* A kill ends a worker that is not in a native call, and the entry with it.
KilledEnds ==
    "batch" \notin happens /\ backend.entry = "killing" ~>
        backend.entry = "idle" \/ ~backend.alive \/ sched.pc = "native"

\* The same when the interrupted code saves a config on its way out.  Does not hold:
\* an interrupt inside of send() leaves _mutex or _worker_idle locked, and the save
\* waits for it.
KilledAlwaysEnds ==
    backend.entry = "killing" ~>
        backend.entry = "idle" \/ ~backend.alive \/ sched.pc = "native"

\* A worker that waits on a plan made before a modification will notice it.  Does not
\* hold: the modification may come between the plan and ConfigWatcher.init().
EditIsNoticed ==
    At("wait") /\ sched.plan # config.version => config.watched # config.version

\* "error: worker stopped with error".  Does not hold: run() returns after a
\* SchedulerError, the process exits with 0, and the report "error" is not allowed.
ErrorIsShown ==
    sched.failed /\ ~Alive /\ backend.alive /\ backend.entry \in {"idle", "error"} => backend.entry = "error"
=============================================================================
