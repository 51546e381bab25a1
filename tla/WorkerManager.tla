--------------------------- MODULE WorkerManager ---------------------------
(***************************************************************************)
(* The backend side of the worker processes: alasio/backend/worker/        *)
(* manager.py.  One WorkerManager object keeps a dict  config -> entry.    *)
(* RPC threads start, stop and kill workers, one recv thread per worker    *)
(* process reads its pipe and finalizes the entry when the pipe breaks,    *)
(* and the thread of a maintenance flow stops every worker, waits, and     *)
(* freezes the list of configs to resume after the backend restart.        *)
(*                                                                         *)
(* Every `with self._lock` section of the code is one action, and so is    *)
(* every stretch of code between two of them: the interleavings of the     *)
(* sections are the point of the model.                                    *)
(***************************************************************************)

CONSTANTS
    Configs,      \* config names
    Entries,      \* WorkerState objects; an object nobody refers to is reused
    Runs,         \* one pipe, one process and one recv thread; reused likewise
    Callers,      \* threads serving the RPC calls and the resume queue
    Orch,         \* the thread that runs restart_begin() and restart_wait()
    None,         \* Python's None
    Operations,   \* the RPC calls the environment makes in this instance
    WaitTimeout   \* whether restart_wait() was given a timeout

ASSUME ConstantsAssumption ==
    /\ None \notin Configs \cup Entries \cup Runs
    /\ Orch \notin Callers
    /\ WaitTimeout \in BOOLEAN

Actors == Callers \cup {Orch}

\* 'running' stands for WORKER_STATE_ALLOWS (running, scheduler-waiting) and
\* 'parked' for WORKER_PARKED_STATE (restarting, updating): the manager never
\* tells the members of either list apart.
States == {"idle", "starting", "running", "disconnected", "error",
           "scheduler-stopping", "killing", "force-killing",
           "parked", "resuming"}

Stopped == {"idle", "error", "parked", "resuming"}
Killing == {"killing", "force-killing"}

\* A process: no process yet, pipe open, running, its end of the pipe closed,
\* gone with exit code 0, gone with another one.
ProcStates == {"none", "pipe", "alive", "eof", "exited", "failed"}

\* What the commands in the pipe of a run, read in order, tell its worker;
\* "closed" when the parent end is closed.
Orders == {"run", "stop", "kill", "force", "closed"}

Commands == {"scheduler-stopping", "scheduler-continue", "killing", "force-killing"}

VARIABLES
    reg,      \* WorkerManager.state: config -> registered entry or None
    ent,      \* the WorkerState objects
    proc,     \* run -> state of its process
    ctl,      \* run -> what its worker has been told
    recv,     \* run -> its recv thread
    call,     \* actor -> the manager call it is inside of
    stage,    \* how far the orchestration thread is
    todo,     \* configs the orchestration loop has still to visit
    restart,  \* WorkerManager._restart and the RestartRun it points to
    flow,     \* RESTART_MANAGER: no flow, a flow owns the slot, or frozen
    closing   \* how far close() is, the entries of its round, all it has taken

vars == <<reg, ent, proc, ctl, recv, call, stage, todo, restart, flow, closing>>

----------------------------------------------------------------------------
(* Records                                                                 *)

Entry == [config : Configs \cup {None}, state : States, pending : BOOLEAN,
          conn : Runs \cup {None}, process : Runs \cup {None}]

Blank(c) == [config |-> c, state |-> "idle", pending |-> FALSE,
             conn |-> None, process |-> None]

RecvThread == [pc : {"none", "loop", "reap", "final"}, entry : Entries \cup {None},
               publish : BOOLEAN, before : States, ok : BOOLEAN]

NoThread == [pc |-> "none", entry |-> None, publish |-> FALSE,
             before |-> "idle", ok |-> FALSE]

Call == [pc : {"ready", "spawn", "register", "send", "killwait", "escalate",
               "reap", "final"},
         config : Configs \cup {None}, entry : Entries \cup {None},
         run : Runs \cup {None}, keep : BOOLEAN, cmd : Commands \cup {None}]

Ready == [pc |-> "ready", config |-> None, entry |-> None, run |-> None,
          keep |-> FALSE, cmd |-> None]

RestartRun == [inflight : BOOLEAN, abort : BOOLEAN, frozen : BOOLEAN,
               list : SUBSET Configs]

NoRestart == [inflight |-> FALSE, abort |-> TRUE, frozen |-> FALSE, list |-> {}]

Closing == [pc : {"open", "reap", "final", "again", "closed"},
            entries : SUBSET Entries, taken : SUBSET Entries]

Stages == {"off", "stopping", "graceful", "killing", "draining", "freezing", "frozen"}

TypeOK ==
    /\ reg \in [Configs -> Entries \cup {None}]
    /\ ent \in [Entries -> Entry]
    /\ proc \in [Runs -> ProcStates]
    /\ ctl \in [Runs -> Orders]
    /\ recv \in [Runs -> RecvThread]
    /\ call \in [Actors -> Call]
    /\ stage \in Stages
    /\ todo \in SUBSET Configs
    /\ restart \in RestartRun
    /\ flow \in {"none", "window", "sealed"}
    /\ closing \in Closing

Init ==
    /\ reg = [c \in Configs |-> None]
    /\ ent = [e \in Entries |-> Blank(None)]
    /\ proc = [r \in Runs |-> "none"]
    /\ ctl = [r \in Runs |-> "run"]
    /\ recv = [r \in Runs |-> NoThread]
    /\ call = [a \in Actors |-> Ready]
    /\ stage = "off"
    /\ todo = {}
    /\ restart = NoRestart
    /\ flow = "none"
    /\ closing = [pc |-> "open", entries |-> {}, taken |-> {}]

----------------------------------------------------------------------------
(* Helpers                                                                 *)

Registered(e) == \E c \in Configs : reg[c] = e

\* The state get_state_info() shows: a config without an entry is idle.
StateOf(c) == IF reg[c] = None THEN "idle" ELSE ent[reg[c]].state

\* Objects the garbage collector may take back.
UnusedEntries == {e \in Entries :
    /\ ~Registered(e) /\ e \notin closing.taken
    /\ \A r \in Runs : recv[r].entry # e
    /\ \A a \in Actors : call[a].entry # e}

UnusedRuns == {r \in Runs :
    /\ proc[r] \in {"none", "exited", "failed"}
    /\ recv[r].pc = "none"
    /\ \A e \in Entries : e \in UnusedEntries \/ (ent[e].conn # r /\ ent[e].process # r)
    /\ \A a \in Actors : call[a].run # r}

\* The entry a start of config c works on and what it looks like before.
EntryFor(c) == IF reg[c] = None THEN UnusedEntries ELSE {reg[c]}
Before(c, e) == IF reg[c] = None THEN Blank(c) ELSE ent[e]

\* _set_state(): an idle entry leaves the dict -- by config name, whatever
\* entry is registered there.
Publish(e, new) ==
    /\ ent' = [ent EXCEPT ![e] = new]
    /\ reg' = IF new.state = "idle" THEN [reg EXCEPT ![new.config] = None] ELSE reg

Live(r) == proc[r] \in {"alive", "eof"}

\* terminate() / kill() and join(): only a process still alive is affected.
KillProcess(p) ==
    proc' = [r \in Runs |-> IF r = p /\ Live(r) THEN "failed" ELSE proc[r]]

\* conn_close()
CloseConn(p) == ctl' = [r \in Runs |-> IF r = p THEN "closed" ELSE ctl[r]]

\* What a worker that was told old does when it reads cmd next.
Told(old, cmd) ==
    IF old \in {"force", "closed"} \/ (old = "kill" /\ cmd # "force-killing")
    THEN old
    ELSE CASE cmd = "force-killing"      -> "force"
           [] cmd = "killing"            -> "kill"
           [] cmd = "scheduler-stopping" -> "stop"
           [] cmd = "scheduler-continue" -> "run"

----------------------------------------------------------------------------
(* Starting a worker                                                       *)

\* The server has ended before close() is called, so that a call made while close()
\* runs is "late"; the process exits when it has returned.
Offered(op) ==
    /\ op \in Operations
    /\ closing.pc # "open" => "late" \in Operations /\ closing.pc # "closed"

Return(a) == [call EXCEPT ![a] = Ready]

\* Mutated MarkStarting: the pipe is opened after the state is visible, so the
\* spawn window has none.
MarkStarting_PipeLater(a, e, r, before) ==
    /\ ent' = [ent EXCEPT ![e] = [before EXCEPT !.state = "starting"]]
    /\ reg' = [reg EXCEPT ![before.config] = e]
    /\ proc' = [proc EXCEPT ![r] = "pipe"]
    /\ ctl' = [ctl EXCEPT ![r] = "run"]
    /\ call' = [call EXCEPT ![a] = [Ready EXCEPT !.pc = "spawn", !.config = before.config,
                                                !.entry = e, !.run = r]]

\* _mark_starting_locked() and what precedes it: entry e gets the pipe of a
\* fresh run and is published as starting; the spawn follows, lock released.
MarkStarting(a, e, r, before) ==
    /\ ent' = [ent EXCEPT ![e] = [before EXCEPT !.state = "starting", !.conn = r]]
    /\ reg' = [reg EXCEPT ![before.config] = e]
    /\ proc' = [proc EXCEPT ![r] = "pipe"]
    /\ ctl' = [ctl EXCEPT ![r] = "run"]
    /\ call' = [call EXCEPT ![a] = [Ready EXCEPT !.pc = "spawn", !.config = before.config,
                                                !.entry = e, !.run = r]]

\* Mutated StartAllowed: an entry still being cleaned up may be started.
StartAllowed_Disconnected(c) ==
    flow = "none" /\ ~restart.inflight /\ StateOf(c) \in {"idle", "error", "disconnected"}

\* What worker_start() checks before it starts a process.
StartAllowed(c) == flow = "none" /\ ~restart.inflight /\ StateOf(c) \in {"idle", "error"}

\* worker_start() outside of maintenance flows.
Start(a, c) ==
    /\ Offered("start")
    /\ call[a].pc = "ready"
    /\ StartAllowed(c)
    /\ \E e \in EntryFor(c), r \in UnusedRuns :
         MarkStarting(a, e, r, [Before(c, e) EXCEPT !.pending = FALSE])
    /\ UNCHANGED <<recv, stage, todo, restart, flow, closing>>

\* worker_start() while a flow owns the backend: _queue_update_start_locked()
\* parks the start, or queues it when the workers are not being stopped yet.
QueueStart(a, c) ==
    /\ Offered("start")
    /\ call[a].pc = "ready"
    /\ flow = "window"
    /\ StateOf(c) \in {"idle", "error"}
    /\ ~(restart.inflight /\ restart.frozen)
    /\ \E e \in EntryFor(c) :
         /\ ent' = [ent EXCEPT ![e] =
                [Before(c, e) EXCEPT !.pending = restart.inflight,
                        !.state = IF restart.inflight THEN "parked" ELSE "resuming"]]
         /\ reg' = [reg EXCEPT ![c] = e]
    /\ UNCHANGED <<proc, ctl, recv, call, stage, todo, restart, flow, closing>>

\* worker_resume(): the resume queue starts an entry mark_resume() queued.
Resume(a, c) ==
    /\ Offered("resume")
    /\ call[a].pc = "ready"
    /\ StateOf(c) = "resuming"
    /\ ~restart.inflight /\ flow # "sealed"
    /\ \E r \in UnusedRuns : MarkStarting(a, reg[c], r, ent[reg[c]])
    /\ UNCHANGED <<recv, stage, todo, restart, flow, closing>>

\* process.start() returned: the worker runs, nobody reads its pipe yet.
Spawn(a) ==
    /\ call[a].pc = "spawn"
    /\ proc' = [proc EXCEPT ![call[a].run] = "alive"]
    /\ call' = [call EXCEPT ![a].pc = "register"]
    /\ UNCHANGED <<reg, ent, ctl, recv, stage, todo, restart, flow, closing>>

\* process.start() raised: the pipe is closed and the entry is finalized here,
\* a marked one like a crashed startup.  No process existed in between, so the
\* raise and the lock section that follows it are one step.
SpawnFail(a) ==
    /\ call[a].pc = "spawn"
    /\ LET e == call[a].entry IN
         ent' = [ent EXCEPT ![e] = [ent[e] EXCEPT !.conn = None,
                    !.state = IF ent[e].pending THEN "parked" ELSE "error"]]
    /\ proc' = [proc EXCEPT ![call[a].run] = "none"]
    /\ CloseConn(call[a].run)
    /\ call' = Return(a)
    /\ UNCHANGED <<reg, recv, stage, todo, restart, flow, closing>>

\* The section after the spawn: the process is registered and its recv thread
\* started.
Register(a) ==
    /\ call[a].pc = "register"
    /\ LET e == call[a].entry
           r == call[a].run
       IN /\ ent' = [ent EXCEPT ![e] = [ent[e] EXCEPT !.process = r]]
          /\ recv' = [recv EXCEPT ![r] = [NoThread EXCEPT !.pc = "loop", !.entry = e]]
    /\ call' = Return(a)
    /\ UNCHANGED <<reg, proc, ctl, stage, todo, restart, flow, closing>>

----------------------------------------------------------------------------
(* Stopping a worker                                                       *)

\* _cancel_or_keep_resume(): a stop of a config without a process cancels its
\* auto-resume, unless it keeps the resume or the frozen list has the config.
CancelsResume(c, keep) ==
    \/ StateOf(c) = "resuming"
    \/ /\ StateOf(c) = "parked" /\ ~keep
       /\ ~(restart.inflight /\ c \in restart.list)

CancelResume(c) ==
    Publish(reg[c], [ent[reg[c]] EXCEPT !.pending = FALSE, !.state = "idle"])

\* States in which the three stop calls have a process to address.
Stoppable == {"starting", "running"}
Killable == Stoppable \cup {"scheduler-stopping"}

\* Mutated ForceKillable: a worker that is being killed is not killed again,
\* as in worker_kill().
ForceKillable_NotKilling == Killable

ForceKillable == Killable \cup {"killing"}

\* The locked section of a stop call: publish the new state of the entry, then
\* go on at pc with the lock released.
Mark(a, c, new, keep, pc, cmd) ==
    /\ Publish(reg[c], new)
    /\ call' = [call EXCEPT ![a] = [Ready EXCEPT !.pc = pc, !.config = c, !.entry = reg[c],
                                                !.keep = keep, !.cmd = cmd]]

\* worker_scheduler_stop() up to the unlock.
StopRequest(a, c, keep) ==
    \/ CancelsResume(c, keep) /\ CancelResume(c) /\ UNCHANGED call
    \/ /\ StateOf(c) \in Stoppable
       /\ Mark(a, c, [ent[reg[c]] EXCEPT !.state = "scheduler-stopping"], FALSE,
               "send", "scheduler-stopping")
    \/ /\ ~CancelsResume(c, keep) /\ StateOf(c) \notin Stoppable
       /\ UNCHANGED <<reg, ent, call>>

\* worker_kill() up to the unlock: by default it gives the resume up.
KillRequest(a, c, keep) ==
    \/ CancelsResume(c, keep) /\ CancelResume(c) /\ UNCHANGED call
    \/ /\ StateOf(c) \in Killable
       /\ Mark(a, c, [ent[reg[c]] EXCEPT !.state = "killing", !.pending = keep /\ @], keep,
               "send", "killing")
    \/ /\ ~CancelsResume(c, keep) /\ StateOf(c) \notin Killable
       /\ UNCHANGED <<reg, ent, call>>

\* Mutated AfterForceKillMark: the spawn window is not told apart.
AfterForceKillMark_Always(e) == "reap"

\* Where worker_force_kill() goes on: a process not registered yet cannot be
\* killed by this thread.
AfterForceKillMark(e) == IF ent[e].process = None THEN "send" ELSE "reap"

\* worker_force_kill() up to the unlock.  A worker still spawning gets the
\* kill through its pipe, any other one is killed by this thread.  done is
\* what the calling thread's record becomes when nothing is left to do.
ForceKillRequest(a, c, keep, done) ==
    \/ CancelsResume(c, keep) /\ CancelResume(c) /\ call' = done
    \/ /\ StateOf(c) \in ForceKillable
       /\ Mark(a, c, [ent[reg[c]] EXCEPT !.state = "force-killing", !.pending = keep /\ @],
               keep, AfterForceKillMark(reg[c]), "force-killing")
    \/ /\ ~CancelsResume(c, keep) /\ StateOf(c) \notin ForceKillable
       /\ call' = done
       /\ UNCHANGED <<reg, ent>>

UserCall(a, op) == Offered(op) /\ call[a].pc = "ready"

SchedulerStop(a, c, keep) ==
    /\ UserCall(a, "stop")
    /\ StopRequest(a, c, keep)
    /\ UNCHANGED <<proc, ctl, recv, stage, todo, restart, flow, closing>>

Kill(a, c, keep) ==
    /\ UserCall(a, "kill")
    /\ KillRequest(a, c, keep)
    /\ UNCHANGED <<proc, ctl, recv, stage, todo, restart, flow, closing>>

ForceKill(a, c, keep) ==
    /\ UserCall(a, "force-kill")
    /\ ForceKillRequest(a, c, keep, call)
    /\ UNCHANGED <<proc, ctl, recv, stage, todo, restart, flow, closing>>

\* worker_scheduler_continue() up to the unlock.
SchedulerContinue(a, c) ==
    /\ UserCall(a, "continue")
    /\ StateOf(c) = "scheduler-stopping"
    /\ ~ent[reg[c]].pending
    /\ Mark(a, c, [ent[reg[c]] EXCEPT !.state = "running"], FALSE, "send", "scheduler-continue")
    /\ UNCHANGED <<proc, ctl, recv, stage, todo, restart, flow, closing>>

\* send_command(), lock released: it reads the pipe the entry has by now; a
\* command without a pipe, or into a broken one, is dropped.
Send(a) ==
    /\ call[a].pc = "send"
    /\ LET r == ent[call[a].entry].conn IN
         IF r \in Runs /\ proc[r] \in {"pipe", "alive"}
         THEN ctl' = [ctl EXCEPT ![r] = Told(@, call[a].cmd)]
         ELSE UNCHANGED ctl
    /\ call' = IF call[a].cmd = "killing" THEN [call EXCEPT ![a].pc = "killwait"] ELSE Return(a)
    /\ UNCHANGED <<reg, ent, proc, recv, stage, todo, restart, flow, closing>>

\* worker_kill(): the stopped_event of the entry ends the wait ...
KillDone(a) ==
    /\ call[a].pc = "killwait"
    /\ ent[call[a].entry].state \in Stopped
    /\ call' = Return(a)
    /\ UNCHANGED <<reg, ent, proc, ctl, recv, stage, todo, restart, flow, closing>>

\* ... or KILL_WAIT_TIMEOUT does ...
KillTimeout(a) ==
    /\ call[a].pc = "killwait"
    /\ ent[call[a].entry].state \notin Stopped
    /\ call' = [call EXCEPT ![a].pc = "escalate"]
    /\ UNCHANGED <<reg, ent, proc, ctl, recv, stage, todo, restart, flow, closing>>

\* ... and the kill escalates, by config name.
Escalate(a) ==
    /\ call[a].pc = "escalate"
    /\ ForceKillRequest(a, call[a].config, call[a].keep, Return(a))
    /\ UNCHANGED <<proc, ctl, recv, stage, todo, restart, flow, closing>>

\* worker_force_kill(), lock released: kill the process, close the pipe.
Reap(a) ==
    /\ call[a].pc = "reap"
    /\ KillProcess(ent[call[a].entry].process)
    /\ CloseConn(ent[call[a].entry].conn)
    /\ call' = [call EXCEPT ![a].pc = "final"]
    /\ UNCHANGED <<reg, ent, recv, stage, todo, restart, flow, closing>>

\* worker_force_kill(), last section.  The recv thread may or may not have
\* ended: it is joined with a timeout.
Finish(a) ==
    /\ call[a].pc = "final"
    /\ LET e == call[a].entry IN
         Publish(e, [ent[e] EXCEPT !.process = None, !.conn = None,
                        !.state = IF ent[e].pending THEN "parked" ELSE "idle"])
    /\ call' = Return(a)
    /\ UNCHANGED <<proc, ctl, recv, stage, todo, restart, flow, closing>>

----------------------------------------------------------------------------
(* The worker process and its recv thread                                  *)

\* The process ends, on its own, on a command, or because its pipe broke.
WorkerExit(r, code) ==
    /\ Live(r)
    /\ proc' = [proc EXCEPT ![r] = code]
    /\ UNCHANGED <<reg, ent, ctl, recv, call, stage, todo, restart, flow, closing>>

\* The worker closes its end of the pipe and is about to exit.
WorkerClosesPipe(r) ==
    /\ proc[r] = "alive"
    /\ proc' = [proc EXCEPT ![r] = "eof"]
    /\ UNCHANGED <<reg, ent, ctl, recv, call, stage, todo, restart, flow, closing>>

\* _handle_config_event() with a WorkerState report (a buffered one may be
\* read after the worker ended).
Report(r) ==
    /\ recv[r].pc = "loop"
    /\ ent[recv[r].entry].state = "starting"
    /\ ent' = [ent EXCEPT ![recv[r].entry].state = "running"]
    /\ UNCHANGED <<reg, proc, ctl, recv, call, stage, todo, restart, flow, closing>>

\* The loop ends, first section of _handle_disconnect(): only the entry
\* registered for the config is published.
Disconnect(r) ==
    LET e == recv[r].entry
        publish == reg[ent[e].config] = e
    IN /\ recv[r].pc = "loop"
       /\ proc[r] # "alive" \/ ctl[r] = "closed" \/ ent[e].conn = None
       /\ ent' = IF publish THEN [ent EXCEPT ![e].state = "disconnected"] ELSE ent
       /\ recv' = [recv EXCEPT ![r] = [@ EXCEPT !.pc = "reap", !.publish = publish,
                                               !.before = ent[e].state]]
       /\ UNCHANGED <<reg, proc, ctl, call, stage, todo, restart, flow, closing>>

\* _handle_disconnect(), lock released: end the process, close the pipe.
ReapDisconnected(r) ==
    LET e == recv[r].entry
        p == ent[e].process
    IN /\ recv[r].pc = "reap"
       /\ KillProcess(p)
       /\ CloseConn(ent[e].conn)
       /\ recv' = [recv EXCEPT ![r] = [@ EXCEPT !.pc = "final",
                                               !.ok = p \in Runs /\ proc[p] = "exited"]]
       /\ UNCHANGED <<reg, ent, call, stage, todo, restart, flow, closing>>

\* The state a disconnected entry is finalized in.
FinalState(pending, t) ==
    CASE pending                          -> "parked"
      [] ~pending /\ t.ok                -> "idle"
      [] ~pending /\ ~t.ok               -> IF t.before \in Killing THEN "idle" ELSE "error"

\* _handle_disconnect(), last section, and the end of the thread.
FinishDisconnect(r) ==
    LET t == recv[r]
        gone == [ent[t.entry] EXCEPT !.conn = None, !.process = None]
    IN /\ t.pc = "final"
       /\ IF t.publish
          THEN Publish(t.entry, [gone EXCEPT !.state = FinalState(gone.pending, t)])
          ELSE ent' = [ent EXCEPT ![t.entry] = gone] /\ UNCHANGED reg
       /\ recv' = [recv EXCEPT ![r] = NoThread]
       /\ UNCHANGED <<proc, ctl, call, stage, todo, restart, flow, closing>>

----------------------------------------------------------------------------
(* The auto-resume queue                                                   *)

\* mark_resume(): refused during a graceful restart; configs that are started
\* already are skipped.
MarkResume(c) ==
    /\ Offered("resume")
    /\ ~restart.inflight
    /\ StateOf(c) \in {"idle", "error"}
    /\ \E e \in EntryFor(c) :
         /\ ent' = [ent EXCEPT ![e] = [Before(c, e) EXCEPT !.state = "resuming"]]
         /\ reg' = [reg EXCEPT ![c] = e]
    /\ UNCHANGED <<proc, ctl, recv, call, stage, todo, restart, flow, closing>>

\* drop_resume()
DropResume(c) ==
    /\ Offered("resume")
    /\ StateOf(c) = "resuming"
    /\ Publish(reg[c], [ent[reg[c]] EXCEPT !.state = "idle"])
    /\ UNCHANGED <<proc, ctl, recv, call, stage, todo, restart, flow, closing>>

----------------------------------------------------------------------------
(* The graceful restart                                                    *)

\* Mutated PendingConfigs: a worker whose pipe broke counts as stopped.
PendingConfigs_NotDisconnected ==
    {c \in Configs : StateOf(c) \notin {"idle", "error", "parked", "disconnected"}}

\* Mutated PendingConfigs: a worker stopped for the restart does not count as
\* stopped.
PendingConfigs_Parked == {c \in Configs : StateOf(c) \notin {"idle", "error"}}

\* _restart_pending_configs_locked()
PendingConfigs == {c \in Configs : StateOf(c) \notin {"idle", "error", "parked"}}

\* What restart_begin() makes of a registered entry: running ones are marked,
\* queued ones parked.
Taken(w) ==
    IF w.state \in Stoppable THEN [w EXCEPT !.pending = TRUE]
    ELSE IF w.state = "resuming" THEN [w EXCEPT !.pending = TRUE, !.state = "parked"]
    ELSE w

\* Mutated Snapshot: the entries instead of their configs.
Snapshot_Entries == {reg[c] : c \in {d \in Configs : StateOf(d) \in Stoppable}}

\* The workers restart_begin() is going to stop.
Snapshot == {c \in Configs : StateOf(c) \in Stoppable}

\* restart_begin(), the locked part: gate, snapshot and marks in one section.
RestartBegin ==
    /\ Offered("restart")
    /\ stage = "off" /\ flow # "sealed"
    /\ ~restart.inflight
    /\ restart' = [NoRestart EXCEPT !.inflight = TRUE, !.abort = FALSE]
    /\ ent' = [e \in Entries |-> IF Registered(e) THEN Taken(ent[e]) ELSE ent[e]]
    /\ todo' = Snapshot
    /\ stage' = "stopping"
    /\ UNCHANGED <<reg, proc, ctl, recv, call, flow, closing>>

\* restart_begin(), lock released: one worker_scheduler_stop() per snapshot
\* config, with the default restart_resume=False.
StopNext(c) ==
    /\ stage = "stopping" /\ call[Orch].pc = "ready"
    /\ c \in todo
    /\ todo' = todo \ {c}
    /\ StopRequest(Orch, c, FALSE)
    /\ UNCHANGED <<proc, ctl, recv, stage, restart, flow, closing>>

StopsSent ==
    /\ stage = "stopping" /\ call[Orch].pc = "ready"
    /\ todo = {}
    /\ stage' = "graceful"
    /\ UNCHANGED <<reg, ent, proc, ctl, recv, call, todo, restart, flow, closing>>

\* restart_wait(): a poll that finds every worker stopped goes on to the freeze,
\* in a section of its own ...
WaitOver ==
    /\ stage \in {"graceful", "draining"}
    /\ PendingConfigs = {}
    /\ stage' = "freezing"
    /\ UNCHANGED <<reg, ent, proc, ctl, recv, call, todo, restart, flow, closing>>

\* ... an abort ends it ...
WaitAborted ==
    /\ stage \in {"graceful", "draining"}
    /\ PendingConfigs # {}
    /\ restart.abort
    /\ stage' = "off"
    /\ UNCHANGED <<reg, ent, proc, ctl, recv, call, todo, restart, flow, closing>>

\* ... and so does the timeout of the graceful phase: the workers still
\* running are killed, their resume kept.
WaitTimesOut ==
    /\ WaitTimeout
    /\ stage = "graceful"
    /\ PendingConfigs # {}
    /\ ~restart.abort
    /\ todo' = PendingConfigs
    /\ stage' = "killing"
    /\ UNCHANGED <<reg, ent, proc, ctl, recv, call, restart, flow, closing>>

KillNext(c) ==
    /\ stage = "killing" /\ call[Orch].pc = "ready"
    /\ c \in todo
    /\ todo' = todo \ {c}
    /\ KillRequest(Orch, c, TRUE)
    /\ UNCHANGED <<proc, ctl, recv, stage, restart, flow, closing>>

KillsSent ==
    /\ stage = "killing" /\ call[Orch].pc = "ready"
    /\ todo = {}
    /\ stage' = "draining"
    /\ UNCHANGED <<reg, ent, proc, ctl, recv, call, todo, restart, flow, closing>>

\* Mutated Freeze: the abort is not looked at again.
Freeze_NoAbortCheck ==
    /\ stage = "freezing"
    /\ stage' = "frozen"
    /\ restart' = [restart EXCEPT !.frozen = TRUE,
                       !.list = {c \in Configs : StateOf(c) = "parked"}]
    /\ UNCHANGED <<reg, ent, proc, ctl, recv, call, todo, flow, closing>>

\* _freeze_restart_resume_list(): the abort is checked again in the section of
\* the freeze.
Freeze ==
    /\ stage = "freezing"
    /\ IF restart.abort
       THEN stage' = "off" /\ UNCHANGED restart
       ELSE /\ stage' = "frozen"
            /\ restart' = [restart EXCEPT !.frozen = TRUE,
                               !.list = {c \in Configs : StateOf(c) = "parked"}]
    /\ UNCHANGED <<reg, ent, proc, ctl, recv, call, todo, flow, closing>>

\* restart_abort(): wakes the wait, releases nothing.
RestartAbort ==
    /\ Offered("cancel")
    /\ restart.inflight /\ ~restart.abort
    /\ restart' = [restart EXCEPT !.abort = TRUE]
    /\ UNCHANGED <<reg, ent, proc, ctl, recv, call, stage, todo, flow, closing>>

\* Mutated Released: the marks are kept.
Released_Marked(w) ==
    [w EXCEPT !.state = IF @ \in {"parked", "resuming"} THEN "idle" ELSE @]

\* What restart_cancel() makes of a registered entry.
Released(w) ==
    [w EXCEPT !.pending = FALSE,
              !.state = IF @ \in {"parked", "resuming"} THEN "idle" ELSE @]

\* restart_cancel(): releases the run, drops every mark, and returns the
\* entries without a process to idle.
RestartCancel ==
    /\ Offered("cancel")
    /\ restart' = NoRestart
    /\ ent' = [e \in Entries |-> IF Registered(e) THEN Released(ent[e]) ELSE ent[e]]
    /\ reg' = [c \in Configs |-> IF StateOf(c) \in {"parked", "resuming"} THEN None ELSE reg[c]]
    /\ stage' = IF stage = "frozen" THEN "off" ELSE stage
    /\ UNCHANGED <<proc, ctl, recv, call, todo, flow, closing>>

\* What the manager reads of RESTART_MANAGER: a flow takes the slot, publishes
\* the resume intent of a frozen list, or fails to hand over, and leaves.
FlowOpen == flow = "none" /\ flow' = "window"
FlowSeal ==
    /\ flow = "window" /\ flow' = "sealed"
    /\ stage = "frozen" \/ (stage = "off" /\ ~restart.inflight)
FlowUnseal == flow = "sealed" /\ flow' = "window"
FlowClose == flow = "window" /\ ~restart.inflight /\ stage = "off" /\ flow' = "none"

Flow ==
    /\ Offered("flow")
    /\ FlowOpen \/ FlowSeal \/ FlowUnseal \/ FlowClose
    /\ UNCHANGED <<reg, ent, proc, ctl, recv, call, stage, todo, restart, closing>>

----------------------------------------------------------------------------
(* close(), at the end of the backend                                      *)

\* A round takes every entry out of the dict; one that finds none ends the call.
CloseTakes ==
    /\ "close" \in Operations
    /\ closing.pc \in {"open", "again"}
    /\ LET round == {e \in Entries : Registered(e)} IN
         IF round = {}
         THEN closing' = [closing EXCEPT !.pc = "closed"] /\ UNCHANGED <<reg, ent>>
         ELSE /\ closing' = [pc |-> "reap", entries |-> round,
                             taken |-> closing.taken \cup round]
              /\ ent' = [e \in Entries |->
                          IF e \in round THEN [ent[e] EXCEPT !.state = "killing"] ELSE ent[e]]
              /\ reg' = [c \in Configs |-> None]
    /\ UNCHANGED <<proc, ctl, recv, call, stage, todo, restart, flow>>

\* Mutated CloseReaps: the pipe of a worker without a process is left open.
CloseReaps_KeepsPipes ==
    LET processes == {ent[e].process : e \in closing.entries} IN
    /\ closing.pc = "reap"
    /\ proc' = [r \in Runs |-> IF r \in processes /\ Live(r) THEN "failed" ELSE proc[r]]
    /\ ctl' = [r \in Runs |-> IF r \in processes THEN "closed" ELSE ctl[r]]
    /\ closing' = [closing EXCEPT !.pc = "final"]
    /\ UNCHANGED <<reg, ent, recv, call, stage, todo, restart, flow>>

\* Lock released: the processes are ended and the pipes closed.  A worker that is
\* still being spawned has no process yet.
CloseReaps ==
    LET processes == {ent[e].process : e \in closing.entries}
        conns == {ent[e].conn : e \in closing.entries}
    IN /\ closing.pc = "reap"
       /\ proc' = [r \in Runs |-> IF r \in processes /\ Live(r) THEN "failed" ELSE proc[r]]
       /\ ctl' = [r \in Runs |-> IF r \in conns THEN "closed" ELSE ctl[r]]
       /\ closing' = [closing EXCEPT !.pc = "final"]
       /\ UNCHANGED <<reg, ent, recv, call, stage, todo, restart, flow>>

\* The entries are set to idle, which removes what is registered by now under their
\* configs; the next round follows.
CloseEnds ==
    /\ closing.pc = "final"
    /\ closing' = [closing EXCEPT !.pc = "again"]
    /\ ent' = [e \in Entries |->
                 IF e \in closing.entries
                 THEN [ent[e] EXCEPT !.process = None, !.conn = None, !.state = "idle"]
                 ELSE ent[e]]
    /\ reg' = [c \in Configs |->
                 IF \E e \in closing.entries : ent[e].config = c THEN None ELSE reg[c]]
    /\ UNCHANGED <<proc, ctl, recv, call, stage, todo, restart, flow>>

CloseNext == CloseTakes \/ CloseReaps \/ CloseEnds

----------------------------------------------------------------------------

UserNext ==
    \/ \E a \in Callers, c \in Configs :
         \/ Start(a, c) \/ QueueStart(a, c) \/ Resume(a, c) \/ SchedulerContinue(a, c)
         \/ \E keep \in BOOLEAN :
              SchedulerStop(a, c, keep) \/ Kill(a, c, keep) \/ ForceKill(a, c, keep)
    \/ \E c \in Configs : MarkResume(c) \/ DropResume(c)
    \/ RestartBegin \/ RestartAbort \/ RestartCancel \/ Flow

\* The rest of a call an actor is inside of.
CallNext(a) ==
    \/ Spawn(a) \/ SpawnFail(a) \/ Register(a) \/ Send(a)
    \/ KillDone(a) \/ KillTimeout(a) \/ Escalate(a) \/ Reap(a) \/ Finish(a)

RecvNext(r) == Report(r) \/ Disconnect(r) \/ ReapDisconnected(r) \/ FinishDisconnect(r)

WorkerNext(r) == WorkerClosesPipe(r) \/ \E code \in {"exited", "failed"} : WorkerExit(r, code)

OrchNext ==
    \/ \E c \in Configs : StopNext(c) \/ KillNext(c)
    \/ StopsSent \/ WaitOver \/ WaitAborted \/ WaitTimesOut \/ KillsSent \/ Freeze

Next ==
    \/ UserNext
    \/ \E a \in Actors : CallNext(a)
    \/ \E r \in Runs : RecvNext(r) \/ WorkerNext(r)
    \/ OrchNext
    \/ CloseNext

Spec == Init /\ [][Next]_vars

\* A thread that is inside of a call or of its recv loop gets to run, and so
\* does the orchestration.  A worker exits when its pipe is gone (its bridge
\* ends it) and when it finds a force-killing command; it may ignore the others.
Fairness ==
    /\ \A a \in Actors : WF_vars(CallNext(a))
    /\ \A r \in Runs :
         /\ WF_vars(Disconnect(r) \/ ReapDisconnected(r) \/ FinishDisconnect(r))
         /\ WF_vars((proc[r] = "eof" \/ ctl[r] \in {"force", "closed"}) /\ WorkerExit(r, "failed"))
    /\ WF_vars(OrchNext)

LiveSpec == Spec /\ Fairness

----------------------------------------------------------------------------
(* Properties                                                              *)

\* The run a live process or a spawn in progress belongs to is hosted by the
\* entry its spawning thread or its recv thread works on.
Hosts(e, r) ==
    \/ recv[r].pc # "none" /\ recv[r].entry = e
    \/ \E a \in Actors : call[a].pc \in {"spawn", "register"} /\ call[a].run = r
                                                            /\ call[a].entry = e

\* A mark and a parked entry exist only while a graceful restart owns the
\* manager, and whatever is parked is marked: nothing a restart leaves behind
\* can park a worker that stops later for another reason.
MarksBelongToARestart ==
    \A c \in Configs : reg[c] # None =>
        /\ ent[reg[c]].pending => restart.inflight
        /\ ent[reg[c]].state = "parked" => ent[reg[c]].pending

\* No entry is queued for auto-resume while a graceful restart is in flight: no
\* restart would convert it and it would stall the wait (mark_resume()).
NoResumingInRestart ==
    restart.inflight => \A c \in Configs : StateOf(c) # "resuming"

\* When the list is frozen no worker process is left: the backend may exit.
FrozenMeansStopped ==
    restart.inflight /\ restart.frozen => \A r \in Runs : ~Live(r)

\* While a graceful restart is in flight every worker that is starting or
\* running carries its mark: none slips between the gate and the snapshot.
RunningIsMarked ==
    restart.inflight => \A c \in Configs :
        StateOf(c) \in Stoppable => ent[reg[c]].pending

\* An entry shown as stopped has no process and none being spawned, whichever
\* of the threads finalized it (worker_force_kill() in the spawn window); but for
\* the entries close() took (CloseReachesTracked).
StoppedMeansDead ==
    \A e \in Entries \ closing.taken, r \in Runs :
        (Live(r) \/ proc[r] = "pipe") /\ Hosts(e, r) => ent[e].state \notin Stopped

\* Every worker process belongs to an entry in the dict: a config that is shown
\* as idle has none.
EveryWorkerTracked ==
    \A r \in Runs : Live(r) => \E c \in Configs : reg[c] # None /\ Hosts(reg[c], r)

\* A worker shown as stopping has been told so, or is about to be: a stop is
\* not lost in the spawn window, nor undone.
StopReachesWorker ==
    \A c \in Configs :
        /\ StateOf(c) = "scheduler-stopping"
        /\ \A a \in Actors : ~(call[a].pc = "send" /\ call[a].entry = reg[c])
        /\ \E r \in Runs : Hosts(reg[c], r) /\ proc[r] \in {"pipe", "alive"}
        => \E r \in Runs : Hosts(reg[c], r) /\ ctl[r] # "run"

\* Every worker the dict has when close() takes it is ended: by its process, or by
\* its pipe when it is still being spawned, whatever the other threads do meanwhile.
CloseReachesTracked ==
    \A e \in closing.taken, r \in Runs :
        (Live(r) \/ proc[r] = "pipe") /\ Hosts(e, r) =>
            ctl[r] = "closed" \/ (closing.pc = "reap" /\ e \in closing.entries)

\* After close() no worker is left that goes on ("maybe new worker started while we
\* are killing existing workers").  Does not hold: a worker started for the same config
\* in the meantime is removed from the dict with the old entry, so no round finds it.
NobodyOutlivesClose ==
    closing.pc = "closed" => \A r \in Runs : Live(r) => ctl[r] = "closed"

\* A recv thread publishes the end of its worker only on the entry that is
\* registered for the config (_handle_disconnect()).
DisconnectPublishesRegistered ==
    [][\A r \in Runs : recv[r].pc = "final" /\ recv'[r].pc = "none" /\ recv[r].publish
         => Registered(recv[r].entry)]_vars

\* The stop requests of restart_begin() keep the resume of the workers it has
\* just marked: only the user cancels one.
RestartBeginKeepsResume ==
    [][\A c \in todo \ todo' : stage = "stopping" /\ StateOf(c) = "parked"
         => StateOf(c)' = "parked"]_vars

\* worker_kill() escalates on the worker it was asked to kill.
EscalationHitsItsWorker ==
    [][\A a \in Actors : call[a].pc = "escalate" /\ call'[a].pc # "ready"
         => call'[a].entry = call[a].entry]_vars

\* With a timeout restart_wait() ends, whatever the workers do.
RestartEnds == stage = "graceful" ~> stage \in {"frozen", "off"}

\* A config that is shown as being killed leaves that state in the end, also
\* when its worker ignores the kill or has not been spawned yet.
KillSettles == \A c \in Configs : StateOf(c) \in Killing ~> StateOf(c) \notin Killing

----------------------------------------------------------------------------
(* The abstract life cycle                                                 *)

\* What an entry is doing, as far as a caller of the manager can tell.
StatusOf(s) ==
    CASE s \in {"idle", "error"}      -> "idle"
      [] s \in {"starting", "running"} -> "up"
      [] s \in {"parked", "resuming"}  -> s
      [] s \in {"disconnected", "scheduler-stopping"} \cup Killing -> "ending"

Abstract == INSTANCE WorkerStates WITH
    status <- [c \in Configs |-> StatusOf(StateOf(c))],
    mark <- [c \in Configs |-> reg[c] # None /\ ent[reg[c]].pending],
    run <- restart

\* Whatever the threads do in between, a config goes through the life cycle of
\* WorkerStates: a worker comes up through a start, a resume or a continue only,
\* it is parked only for the restart that marked it, and the list is frozen when
\* every worker has stopped.
ImplementsWorkerStates == Abstract!Spec
=============================================================================
