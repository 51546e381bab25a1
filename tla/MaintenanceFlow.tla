-------------------------- MODULE MaintenanceFlow --------------------------
(***************************************************************************)
(* The maintenance flows of a backend: alasio/backend/app/restart/         *)
(* restart_{base,manager,flow,step}.py with the resume file they publish.  *)
(* One flow at a time owns the slot; it stops the workers, hands the       *)
(* backend over to a new process, or gives everything back (wrap_up), and  *)
(* the resume queue starts what waited.  The flows run on one trio thread  *)
(* and call the worker manager through hops into a thread pool: a stretch  *)
(* between two checkpoints, or one locked section of the manager, is one   *)
(* action.  The manager is WorkerStates.                                   *)
(***************************************************************************)

CONSTANTS
    Configs,     \* config names
    Queues,      \* resume_queue() tasks
    None,        \* Python's None
    Scenarios,   \* sets of what may happen in a behaviour, the flows included
    Supervisor   \* has_supervisor()

\* The flows that are requested, by a user or by the schedule.
Kinds == {"restart", "update", "daily"}

ASSUME FlowAssumption ==
    /\ None \notin Configs \cup Kinds \cup {"startup"}
    /\ \A S \in SUBSET Configs : None # S
    /\ Supervisor \in BOOLEAN

VARIABLES
    status, mark, run,  \* the worker manager, see WorkerStates
    flow,      \* RestartBase.current and the locals of its body
    frozen,    \* RestartBase.frozen
    intent,    \* the published resume file and its credential, or None
    task,      \* the two tasks that may interrupt a flow
    queue,     \* the resume_queue() tasks
    ordered,   \* what the process was told to do: go on, restart or stop
    happens,   \* what may happen in this behaviour
    asked,     \* history: the configs the user wants running
    gaveUp     \* history: the configs whose auto-resume the user cancelled

manager == <<status, mark, run>>
history == <<asked, gaveUp>>
vars == <<status, mark, run, flow, frozen, intent, task, queue, ordered, happens, asked, gaveUp>>

Manager == INSTANCE WorkerStates

FlowPcs == {"none", "start", "check", "begin", "sending", "waiting", "draining",
            "freezing", "updating", "writing", "read", "recall", "work", "queued",
            "acquire", "publish", "order", "withdraw",
            "collect", "collect2", "release", "mark", "ended"}

Flows == [kind : {None, "startup", "restart", "update", "daily"}, pc : FlowPcs,
          open : BOOLEAN, cancelled : BOOLEAN, scope : BOOLEAN,
          todo : SUBSET Configs, list : SUBSET Configs]

NewFlow(kind, pc, list) ==
    [kind |-> kind, pc |-> pc, open |-> FALSE, cancelled |-> FALSE, scope |-> FALSE,
     todo |-> {}, list |-> list]

NoFlow == NewFlow(None, "none", {})

\* The interrupting tasks: the user's cancel, and a forced restart or a stop of
\* the backend.  live: the flow they interrupt still holds the slot.
Tasks == [pc : {"none", "abort", "scope", "cancel", "freeze", "withdraw", "order", "done"},
          live : BOOLEAN, how : {"cancel", "force", "shutdown"}]

Idle(how) == [pc |-> "none", live |-> FALSE, how |-> how]

QueueTasks == [pc : {"none", "read", "scan", "loop", "start"}, list : SUBSET Configs,
               config : Configs \cup {None}]

NewQueue(pc, list) == [pc |-> pc, list |-> list, config |-> None]

NoQueue == NewQueue("none", {})

TypeOK ==
    /\ Manager!TypeOK
    /\ flow \in Flows
    /\ frozen \in BOOLEAN
    /\ intent \in (SUBSET Configs) \cup {None}
    /\ task \in [{"cancel", "down"} -> Tasks]
    /\ queue \in [Queues -> QueueTasks]
    /\ ordered \in {"no", "restart", "stop"}
    /\ asked \subseteq Configs /\ gaveUp \subseteq Configs
    /\ flow.kind = None <=> flow.pc = "none"
    /\ flow.open => /\ flow.kind \in {"restart", "update"}
                    /\ flow.pc \in {"check", "begin", "sending", "waiting", "draining",
                                   "freezing", "updating"}
    /\ \A q \in Queues : queue[q].config # None <=> queue[q].pc = "start"

\* A process that has just been started: the startup flow owns the slot, and
\* record is what its resume credential gives it to read.
Startup(record) == NewFlow("startup", "read", record)

NoTasks == [t \in {"cancel", "down"} |-> Idle(IF t = "cancel" THEN t ELSE "force")]

NoQueues == [q \in Queues |-> NoQueue]

Init ==
    /\ Manager!Init
    /\ flow = Startup({}) /\ task = NoTasks /\ queue = NoQueues
    /\ frozen = FALSE /\ intent = None /\ ordered = "no"
    /\ happens \in Scenarios /\ asked = {} /\ gaveUp = {}

----------------------------------------------------------------------------
(* The slot and the cancellation window                                    *)

Windowed == flow.kind \in {"restart", "update"}

\* Whether the next checkpoint of the body raises: the scope belongs to the
\* window, a flow without a window never enters it.
Interrupted == Windowed /\ flow.scope

Go(pc) == flow' = [flow EXCEPT !.pc = pc]

\* The end of the stop and of the update, on the way out of the window: a
\* cancelled flow wraps up, the others go on into the handover, which freezes
\* the state and takes the publication lock before its first checkpoint.
Leave(ok, list) ==
    LET hand == ok /\ ~(Windowed /\ flow.cancelled)
    IN /\ flow' = [flow EXCEPT !.open = FALSE, !.list = list,
                               !.pc = IF hand THEN "publish" ELSE "collect"]
       /\ frozen' = IF hand THEN TRUE ELSE frozen

\* A request of a user or of the daily schedule claims the free slot.
Request(kind) ==
    /\ kind \in happens
    /\ flow.kind = None
    /\ ordered = "no" \/ "late" \in happens
    /\ kind = "update" \/ Supervisor
    /\ flow' = NewFlow(kind, "start", {})
    /\ UNCHANGED <<manager, frozen, intent, task, queue, ordered, history>>

\* The body starts: it opens its window, if it has one.
OpenWindow ==
    /\ flow.pc = "start"
    /\ flow' = [flow EXCEPT !.open = Windowed,
                            !.pc = IF flow.kind = "update" THEN "check" ELSE "begin"]
    /\ UNCHANGED <<manager, frozen, intent, task, queue, ordered, history>>

\* The pre-check of an update: nothing to do when every mod is up to date.
PreCheck ==
    /\ flow.pc = "check"
    /\ \/ Leave(FALSE, {})
       \/ ~Interrupted /\ Go("begin") /\ UNCHANGED frozen
    /\ UNCHANGED <<manager, intent, task, queue, ordered, history>>

----------------------------------------------------------------------------
(* Stopping the workers: stop_all()                                        *)

\* restart_begin(), or its refusal while another restart is in flight.
Begin ==
    /\ flow.pc = "begin"
    /\ IF Interrupted \/ run.inflight
       THEN Leave(FALSE, {}) /\ UNCHANGED manager
       ELSE /\ Manager!RestartBegin
            /\ flow' = [flow EXCEPT !.pc = "sending", !.todo = Manager!With("up")]
            /\ UNCHANGED frozen
    /\ UNCHANGED <<intent, task, queue, ordered, history>>

\* One stop request of restart_begin(): it ends what is up, and takes a config
\* that is parked already out of the list.
SendStop(c) ==
    /\ flow.pc = "sending" /\ c \in flow.todo
    /\ flow' = [flow EXCEPT !.todo = @ \ {c}]
    /\ \/ Manager!Stop(c)
       \/ Manager!CancelResume(c)
       \/ status[c] # "up" /\ ~Manager!Cancellable(c) /\ UNCHANGED manager
    /\ UNCHANGED <<frozen, intent, task, queue, ordered, history>>

\* The checkpoints between restart_begin() and restart_wait(); from then on the
\* thread waits and only the abort event ends it.
EnterWait ==
    /\ flow.pc = "sending" /\ flow.todo = {}
    /\ IF Interrupted \/ ~run.inflight THEN Leave(FALSE, {})
       ELSE Go("waiting") /\ UNCHANGED frozen
    /\ UNCHANGED <<manager, intent, task, queue, ordered, history>>

\* Mutated Pending: a worker stopped for the restart does not count as stopped.
Pending_Parked == {c \in Configs : status[c] # "idle"}

\* The workers the wait covers.
Pending == {c \in Configs : status[c] \notin {"idle", "parked"}}

WaitOver ==
    /\ flow.pc \in {"waiting", "draining"}
    /\ Pending = {}
    /\ Go("freezing")
    /\ UNCHANGED <<manager, frozen, intent, task, queue, ordered, history>>

WaitAborted ==
    /\ flow.pc \in {"waiting", "draining"}
    /\ Pending # {} /\ run.abort
    /\ Leave(FALSE, {})
    /\ UNCHANGED <<manager, intent, task, queue, ordered, history>>

\* Mutated WaitTimesOut: the kill is one for good.
WaitTimesOut_ForGood ==
    /\ "timeout" \in happens
    /\ flow.pc = "waiting"
    /\ Pending # {} /\ ~run.abort
    /\ status' = [c \in Configs |-> IF status[c] = "up" THEN "ending" ELSE status[c]]
    /\ mark' = [c \in Configs |-> mark[c] /\ c \notin Pending]
    /\ Go("draining")
    /\ UNCHANGED <<run, frozen, intent, task, queue, ordered, history>>

\* The graceful stop took too long: the remaining workers are killed, their
\* resume kept.
WaitTimesOut ==
    /\ "timeout" \in happens
    /\ flow.pc = "waiting"
    /\ Pending # {} /\ ~run.abort
    /\ status' = [c \in Configs |-> IF status[c] = "up" THEN "ending" ELSE status[c]]
    /\ Go("draining")
    /\ UNCHANGED <<mark, run, frozen, intent, task, queue, ordered, history>>

\* The list is frozen, unless an abort came first.
FreezeList ==
    /\ flow.pc = "freezing"
    /\ IF run.abort
       THEN Leave(FALSE, {}) /\ UNCHANGED manager
       ELSE /\ Manager!Freeze
            /\ flow' = [flow EXCEPT !.pc = "updating", !.list = Manager!With("parked")]
            /\ UNCHANGED frozen
    /\ UNCHANGED <<intent, task, queue, ordered, history>>

----------------------------------------------------------------------------
(* The update of the mods                                                  *)

\* The first write of an update, or the upgrade of a flow into the daily
\* maintenance, closes the window for good.
CloseWindow ==
    /\ flow.pc = "updating" /\ Windowed
    /\ flow' = [flow EXCEPT !.open = FALSE, !.pc = "writing"]
    /\ UNCHANGED <<manager, frozen, intent, task, queue, ordered, history>>

\* What may fail while the mods are updated; a restart that is not upgraded
\* has no checkpoint here.
Updated ==
    /\ flow.pc \in {"updating", "writing"}
    /\ IF Interrupted /\ ~(flow.kind = "restart" /\ flow.pc = "updating")
       THEN Leave(FALSE, flow.list)
       ELSE \/ Leave(TRUE, flow.list)
            \/ /\ "fail" \in happens /\ flow.kind \in {"update", "daily"}
               /\ Leave(FALSE, flow.list)
    /\ UNCHANGED <<manager, intent, task, queue, ordered, history>>

----------------------------------------------------------------------------
(* The startup flow                                                        *)

\* read_resume_intent(): the file is consumed ...
ReadIntent ==
    /\ flow.pc = "read"
    /\ Go("recall")
    /\ UNCHANGED <<manager, frozen, intent, task, queue, ordered, history>>

\* ... and its configs are queued.
RecallIntent ==
    /\ flow.pc = "recall"
    /\ Manager!MarkResume(flow.list)
    /\ flow' = [flow EXCEPT !.pc = "work", !.list = {}]
    /\ UNCHANGED <<frozen, intent, task, queue, ordered, history>>

\* Mutated StartupWork: the queued starts are read before the state is frozen.
StartupWork_Unfrozen ==
    /\ flow.pc = "work"
    /\ \/ Go("ended")
       \/ "converge" \in happens /\ Supervisor /\ Go("queued")
       \/ "fail" \in happens /\ Go("collect")
    /\ UNCHANGED <<manager, frozen, intent, task, queue, ordered, history>>

\* The full update of the startup: nothing changed, or the new files ask for
\* another process, or it failed.
StartupWork ==
    /\ flow.pc = "work"
    /\ \/ Go("ended") /\ UNCHANGED frozen
       \/ /\ "converge" \in happens /\ Supervisor
          /\ Go("queued") /\ frozen' = TRUE
       \/ "fail" \in happens /\ Go("collect") /\ UNCHANGED frozen
    /\ UNCHANGED <<manager, intent, task, queue, ordered, history>>

\* queued_resume_list(), inside the frozen section.
ReadQueued ==
    /\ flow.pc = "queued"
    /\ flow' = [flow EXCEPT !.pc = "acquire", !.list = Manager!With("resuming")]
    /\ UNCHANGED <<manager, frozen, intent, task, queue, ordered, history>>

AcquireLock ==
    /\ flow.pc = "acquire"
    /\ Go("publish")
    /\ UNCHANGED <<manager, frozen, intent, task, queue, ordered, history>>

----------------------------------------------------------------------------
(* The handover                                                            *)

\* What wrap_up() is called with: the startup flow passes no list.
Kept == IF flow.kind = "startup" THEN {} ELSE flow.list

\* ResumeFiles.write(), under the publication lock.
Publish ==
    /\ flow.pc = "publish"
    /\ \/ intent' = flow.list /\ Go("order") /\ UNCHANGED frozen
       \/ /\ "fail" \in happens
          /\ flow' = [flow EXCEPT !.pc = "collect", !.list = Kept]
          /\ frozen' = FALSE
          /\ UNCHANGED intent
    /\ UNCHANGED <<manager, task, queue, ordered, history>>

\* The process restart is requested: the flow is over, or has to take its
\* publication back.
Order ==
    /\ flow.pc = "order"
    /\ \/ /\ Supervisor /\ Go("ended")
          /\ ordered' = IF ordered = "no" THEN "restart" ELSE ordered
       \/ /\ ~Supervisor \/ "fail" \in happens
          /\ Go("withdraw") /\ UNCHANGED ordered
    /\ UNCHANGED <<manager, frozen, intent, task, queue, history>>

\* Mutated HandoverFailed: the frozen state is left behind.
HandoverFailed_StaysFrozen ==
    /\ flow.pc = "withdraw"
    /\ intent' = None
    /\ flow' = [flow EXCEPT !.pc = "collect", !.list = Kept]
    /\ UNCHANGED <<manager, frozen, task, queue, ordered, history>>

HandoverFailed ==
    /\ flow.pc = "withdraw"
    /\ intent' = None
    /\ frozen' = FALSE
    /\ flow' = [flow EXCEPT !.pc = "collect", !.list = Kept]
    /\ UNCHANGED <<manager, task, queue, ordered, history>>

\* The supervisor replaces the process: the workers die with it and the new
\* one reads what is published.
Replace ==
    /\ ordered = "restart"
    /\ status' = [c \in Configs |-> "idle"]
    /\ mark' = [c \in Configs |-> FALSE]
    /\ run' = Manager!NoRun
    /\ flow' = Startup(IF intent = None THEN {} ELSE intent)
    /\ task' = NoTasks /\ queue' = NoQueues
    /\ frozen' = FALSE /\ intent' = None /\ ordered' = "no"
    /\ UNCHANGED history

----------------------------------------------------------------------------
(* The wrap-up of a flow that did not hand over: four hops of their own    *)

CollectParked ==
    /\ flow.pc = "collect"
    /\ flow' = [flow EXCEPT !.pc = "collect2", !.list = @ \cup Manager!With("parked")]
    /\ UNCHANGED <<manager, frozen, intent, task, queue, ordered, history>>

\* Mutated CollectQueued: the configs that wait in the resume queue are left out.
CollectQueued_Skip ==
    /\ flow.pc = "collect2"
    /\ Go("release")
    /\ UNCHANGED <<manager, frozen, intent, task, queue, ordered, history>>

CollectQueued ==
    /\ flow.pc = "collect2"
    /\ flow' = [flow EXCEPT !.pc = "release", !.list = @ \cup Manager!With("resuming")]
    /\ UNCHANGED <<manager, frozen, intent, task, queue, ordered, history>>

ReleaseRun ==
    /\ flow.pc = "release"
    /\ Manager!RestartCancel
    /\ Go("mark")
    /\ UNCHANGED <<frozen, intent, task, queue, ordered, history>>

QueueResume ==
    /\ flow.pc = "mark"
    /\ Manager!MarkResume(flow.list)
    /\ Go("ended")
    /\ UNCHANGED <<frozen, intent, task, queue, ordered, history>>

\* Mutated ReleaseSlot: only the startup flow leaves a resume queue behind.
ReleaseSlot_StartupOnly ==
    /\ flow.pc = "ended"
    /\ flow' = NoFlow
    /\ task' = [t \in DOMAIN task |-> [task[t] EXCEPT !.live = FALSE]]
    /\ IF frozen \/ flow.kind # "startup" THEN UNCHANGED queue
       ELSE \E q \in Queues : /\ queue[q].pc = "none"
                              /\ queue' = [queue EXCEPT ![q] = NewQueue("read", {})]
    /\ UNCHANGED <<manager, frozen, intent, ordered, history>>

\* The slot is released and, unless a handover is published, a resume queue is
\* spawned, in one synchronous section.
ReleaseSlot ==
    /\ flow.pc = "ended"
    /\ flow' = NoFlow
    /\ task' = [t \in DOMAIN task |-> [task[t] EXCEPT !.live = FALSE]]
    /\ IF frozen THEN UNCHANGED queue
       ELSE \E q \in Queues : /\ queue[q].pc = "none"
                              /\ queue' = [queue EXCEPT ![q] = NewQueue("read", {})]
    /\ UNCHANGED <<manager, frozen, intent, ordered, history>>

----------------------------------------------------------------------------
(* The resume queue                                                        *)

Overtaken == run.inflight \/ frozen

QueueRead(q) ==
    /\ queue[q].pc = "read"
    /\ queue' = [queue EXCEPT ![q] =
           IF Overtaken THEN NoQueue ELSE NewQueue("scan", Manager!With("resuming"))]
    /\ UNCHANGED <<manager, flow, frozen, intent, task, ordered, history>>

\* The configs the scan does not expose are dropped.
QueueScan(q) ==
    /\ queue[q].pc = "scan"
    /\ \E missing \in IF "missing" \in happens THEN SUBSET queue[q].list ELSE {{}} :
         /\ Manager!DropResume(missing)
         /\ asked' = asked \ {c \in missing : status[c] = "resuming"}
         /\ queue' = [queue EXCEPT ![q] = NewQueue("loop", @.list \ missing)]
    /\ UNCHANGED <<flow, frozen, intent, task, ordered, gaveUp>>

\* The queue ends when a flow took the backend over or the process goes down;
\* otherwise the next config is handed to a thread ...
QueueNextConfig(q, c) ==
    /\ queue[q].pc = "loop" /\ c \in queue[q].list
    /\ queue' = [queue EXCEPT ![q] =
           IF Overtaken \/ ordered # "no" THEN NoQueue
           ELSE [pc |-> "start", list |-> @.list \ {c}, config |-> c]]
    /\ UNCHANGED <<manager, flow, frozen, intent, task, ordered, history>>

\* ... where worker_resume() looks again whether it may and the config still
\* waits; a config that cannot be loaded any more is dropped.
QueueStart(q) ==
    LET c == queue[q].config
    IN /\ queue[q].pc = "start"
       /\ queue' = [queue EXCEPT ![q] = NewQueue("loop", @.list)]
       /\ \/ /\ IF status[c] = "resuming" /\ ~Overtaken THEN Manager!Resume(c)
                ELSE UNCHANGED manager
             /\ UNCHANGED asked
          \/ /\ "missing" \in happens
             /\ Manager!DropResume({c})
             /\ asked' = IF status[c] = "resuming" THEN asked \ {c} ELSE asked
       /\ UNCHANGED <<flow, frozen, intent, task, ordered, gaveUp>>

QueueDone(q) ==
    /\ queue[q].pc = "loop" /\ queue[q].list = {}
    /\ queue' = [queue EXCEPT ![q] = NoQueue]
    /\ UNCHANGED <<manager, flow, frozen, intent, task, ordered, history>>

----------------------------------------------------------------------------
(* Cancel, forced restart, stop of the backend                             *)

\* Flow.interrupt(), first half: the flag, and the window is closed.
Interrupt(t, how) ==
    /\ flow' = [flow EXCEPT !.cancelled = TRUE, !.open = FALSE]
    /\ task' = [task EXCEPT ![t] = [pc |-> "abort", live |-> TRUE, how |-> how]]

\* The user cancels a restart or an update inside of its window.
Cancel ==
    /\ "cancel" \in happens
    /\ task["cancel"].pc = "none"
    /\ Windowed /\ flow.open /\ ~flow.cancelled
    /\ Interrupt("cancel", "cancel")
    /\ UNCHANGED <<manager, frozen, intent, queue, ordered, history>>

\* force_restart() or abort(): whatever is in flight is interrupted.
Down(how) ==
    /\ how \in happens \cap {"force", "shutdown"}
    /\ task["down"].pc = "none"
    /\ ordered = "no"
    /\ IF flow.kind # None THEN Interrupt("down", how)
       ELSE /\ task' = [task EXCEPT !["down"] = [pc |-> "cancel", live |-> FALSE, how |-> how]]
            /\ UNCHANGED flow
    /\ UNCHANGED <<manager, frozen, intent, queue, ordered, history>>

\* interrupt(), second half: restart_abort() in a hop ...
AbortWait(t) ==
    /\ task[t].pc = "abort"
    /\ run' = [run EXCEPT !.abort = TRUE]
    /\ task' = [task EXCEPT ![t].pc = "scope"]
    /\ UNCHANGED <<status, mark, flow, frozen, intent, queue, ordered, history>>

\* ... then the scope of the flow, which may be over by now.
CancelScope(t) ==
    /\ task[t].pc = "scope"
    /\ flow' = IF task[t].live THEN [flow EXCEPT !.scope = TRUE] ELSE flow
    /\ task' = [task EXCEPT ![t] = IF t = "cancel" THEN Idle("cancel")
                                   ELSE [@ EXCEPT !.pc = "cancel"]]
    /\ UNCHANGED <<manager, frozen, intent, queue, ordered, history>>

\* _release_in_flight(): the workers are let go, whatever they were promised ...
DownCancel ==
    /\ task["down"].pc = "cancel"
    /\ Manager!RestartCancel
    /\ asked' = {}
    /\ task' = [task EXCEPT !["down"].pc = "freeze"]
    /\ UNCHANGED <<flow, frozen, intent, queue, ordered, gaveUp>>

\* ... no start is accepted any more ...
DownFreeze ==
    /\ task["down"].pc = "freeze"
    /\ frozen' = TRUE
    /\ task' = [task EXCEPT !["down"].pc = "withdraw"]
    /\ UNCHANGED <<manager, flow, intent, queue, ordered, history>>

\* Mutated DownWithdraw: the publication lock is not taken.
DownWithdraw_NoLock ==
    /\ task["down"].pc = "withdraw"
    /\ intent' = None
    /\ task' = [task EXCEPT !["down"].pc = "order"]
    /\ UNCHANGED <<manager, flow, frozen, queue, ordered, history>>

\* ... and what is published is withdrawn, after a publication in progress.
DownWithdraw ==
    /\ task["down"].pc = "withdraw"
    /\ flow.pc # "publish"
    /\ intent' = None
    /\ task' = [task EXCEPT !["down"].pc = "order"]
    /\ UNCHANGED <<manager, flow, frozen, queue, ordered, history>>

\* The process is told to end; the request of a forced restart may fail, and
\* does without a supervisor.
DownOrder ==
    /\ task["down"].pc = "order"
    /\ \/ /\ \/ task["down"].how = "shutdown" /\ ordered' = "stop"
             \/ task["down"].how = "force" /\ Supervisor /\ ordered' = "restart"
          /\ task' = [task EXCEPT !["down"].pc = "done"]
       \/ /\ task["down"].how = "force" /\ (~Supervisor \/ "fail" \in happens)
          /\ task' = [task EXCEPT !["down"].pc = "none"]
          /\ UNCHANGED ordered
    /\ UNCHANGED <<manager, flow, frozen, intent, queue, history>>

----------------------------------------------------------------------------
(* Users and workers                                                       *)

\* worker_start(): refused when frozen, queued while a flow owns the slot.
UserStart(c) ==
    /\ ~frozen
    /\ IF flow.kind = None THEN Manager!Start(c)
       ELSE "queue" \in happens /\ Manager!QueueStart(c)
    /\ asked' = asked \cup {c}
    /\ gaveUp' = gaveUp \ {c}
    /\ UNCHANGED <<flow, frozen, intent, task, queue, ordered>>

\* worker_scheduler_stop(): a worker ends -- and comes back all the same when a
\* restart has marked it --, a config without a process loses its resume.
UserStop(c) ==
    /\ "stop" \in happens
    /\ \/ /\ Manager!Stop(c)
          /\ asked' = asked \ {c}
          /\ UNCHANGED gaveUp
       \/ /\ Manager!CancelResume(c)
          /\ asked' = asked \ {c}
          /\ gaveUp' = gaveUp \cup {c}
    /\ UNCHANGED <<flow, frozen, intent, task, queue, ordered>>

\* worker_kill(): the worker is stopped for good.
UserKill(c) ==
    /\ "kill" \in happens
    /\ Manager!GiveUp(c)
    /\ asked' = asked \ {c}
    /\ gaveUp' = gaveUp \cup {c}
    /\ UNCHANGED <<flow, frozen, intent, task, queue, ordered>>

\* A worker ends by itself.
WorkerCrash(c) ==
    /\ "crash" \in happens
    /\ Manager!Stop(c)
    /\ asked' = IF mark[c] THEN asked ELSE asked \ {c}
    /\ UNCHANGED <<flow, frozen, intent, task, queue, ordered, gaveUp>>

\* A worker that was told to stop is gone.
WorkerGone(c) ==
    /\ status[c] = "ending"
    /\ Manager!Ended(c)
    /\ UNCHANGED <<flow, frozen, intent, task, queue, ordered, history>>

----------------------------------------------------------------------------

FlowNext ==
    \/ OpenWindow \/ PreCheck \/ Begin \/ EnterWait \/ WaitOver \/ WaitAborted
    \/ WaitTimesOut \/ FreezeList \/ CloseWindow \/ Updated
    \/ \E c \in Configs : SendStop(c)
    \/ ReadIntent \/ RecallIntent \/ StartupWork \/ ReadQueued \/ AcquireLock
    \/ Publish \/ Order \/ HandoverFailed
    \/ CollectParked \/ CollectQueued \/ ReleaseRun \/ QueueResume \/ ReleaseSlot

QueueNext(q) ==
    \/ QueueRead(q) \/ QueueScan(q) \/ QueueStart(q) \/ QueueDone(q)
    \/ \E c \in Configs : QueueNextConfig(q, c)

DownNext == DownCancel \/ DownFreeze \/ DownWithdraw \/ DownOrder

\* What may happen in a behaviour is chosen once.
Constant == UNCHANGED happens

Next ==
    /\ Constant
    /\ \/ \E kind \in Kinds : Request(kind)
       \/ FlowNext
       \/ \E q \in Queues : QueueNext(q)
       \/ Cancel \/ \E how \in {"force", "shutdown"} : Down(how)
       \/ \E t \in {"cancel", "down"} : AbortWait(t) \/ CancelScope(t)
       \/ DownNext
       \/ \E c \in Configs : UserStart(c) \/ UserStop(c) \/ UserKill(c)
                             \/ WorkerCrash(c) \/ WorkerGone(c)
       \/ Replace

Spec == Init /\ [][Next]_vars

\* The tasks of the trio loop and the threads they hop into get to run, a
\* worker that was told to stop or killed ends, and a supervisor that was asked
\* for a restart replaces the process.
Fairness ==
    /\ WF_vars(FlowNext /\ Constant)
    /\ \A q \in Queues : WF_vars(QueueNext(q) /\ Constant)
    /\ \A t \in {"cancel", "down"} : WF_vars((AbortWait(t) \/ CancelScope(t)) /\ Constant)
    /\ WF_vars(DownNext /\ Constant)
    /\ \A c \in Configs : WF_vars(WorkerGone(c) /\ Constant)
    /\ WF_vars(Replace /\ Constant)

LiveSpec == Spec /\ Fairness

----------------------------------------------------------------------------
(* Properties                                                              *)

\* The configs a task still holds the names of: the record a startup flow has
\* read, and the list a wrap-up queues again.
InTransit == IF flow.pc \in {"read", "recall", "mark"} THEN flow.list ELSE {}

\* Every config the user wants running is up, about to be, or in somebody's
\* hands.
WantedIsHeld == \A c \in asked : status[c] # "idle" \/ c \in InTransit

\* Whatever the flows, the handovers and the new processes do in between, no
\* worker a flow took and no start it accepted is forgotten -- as long as nobody
\* cancels a flow, no worker ends by itself and, once starts are queued, nothing
\* is stopped and every flow hands over,
\* where the code does forget (README, 12).
NobodyForgotten ==
    \/ happens \cap {"cancel", "crash"} # {}
    \/ "queue" \in happens /\ happens \cap {"stop", "kill", "fail", "update"} # {}
    \/ WantedIsHeld

\* No config whose auto-resume the user has cancelled is about to be resumed.
GivenUpStays == \A c \in gaveUp : status[c] \notin {"parked", "resuming"}

\* A config whose auto-resume the user has cancelled is not resumed, by this
\* process or by the next one (F4: a stop is refused rather than honoured here
\* and undone by the resume file), unless a flow gives back, the startup hands
\* over what it has read before, or a request comes after the process was told
\* to end (README, 12).
UserStopHonoured ==
    happens \cap {"fail", "update", "converge", "late"} # {} \/ GivenUpStays

\* Everything restart_cancel() is going to return to idle is in the list.
CollectsAll == Manager!With("parked") \cup Manager!With("resuming") \subseteq flow.list

\* When the run is released for a wrap-up, everything restart_cancel() is going
\* to return to idle has been collected.
AlwaysCollectsAll == [][flow.pc = "release" /\ flow'.pc = "mark" => CollectsAll]_vars

\* The same as long as no start is accepted while the flow gives back: the code
\* drops it (README, 12).
WrapUpCollectsAll ==
    [][flow.pc = "release" /\ flow'.pc = "mark" /\ 
            /\ ("queue" \in happens => happens \cap {"fail", "update"} = {})
         => CollectsAll]_vars

\* A flow does not go on to kill the workers it waits for once its cancel is
\* done: an accepted cancel interrupts the phase in flight.
CancelledKillsNobody ==
    [][flow.pc = "waiting" /\ flow'.pc = "draining"
         => ~(flow.cancelled /\ task["cancel"].pc = "none")]_vars

\* Once a forced restart or a stop has withdrawn the resume file, the flow it
\* interrupted does not publish it (again).
WithdrawnForGood ==
    task["down"].pc \in {"order", "done"} /\ flow.kind # None /\ flow.cancelled
        => intent = None

\* The same of the flows that can be interrupted; one without a window, a daily
\* maintenance or a startup that converges, runs on and publishes (README, 12).
InterruptedPublishesNothing == Windowed => WithdrawnForGood

\* Once the starts are refused for a forced restart or a stop, nobody brings a
\* worker up again: the backend is going down.
NothingStartsGoingDown ==
    [][task["down"].pc \in {"withdraw", "order", "done"}
         => \A c \in Configs : status[c] # "up" => status'[c] # "up"]_vars

\* Every start that waits in the resume queue is taken up in the end, by the
\* queue or by the next flow, unless the backend stops.
QueuedStartsSettle ==
    \A c \in Configs :
        status[c] = "resuming" ~> status[c] # "resuming" \/ ordered = "stop"

\* Every flow ends, whatever its workers do, unless the process is told to end
\* under it.
FlowEnds == flow.pc # "none" ~> flow.pc = "none" \/ task["down"].pc = "done"

\* The frozen state ends, with the process or because the handover failed: it
\* would refuse every start forever.
Thaws == frozen ~> ~frozen \/ ordered = "stop"
=============================================================================
