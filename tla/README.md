# A TLA+ model of the Alasio backend

Alasio runs game-automation scripts ("mods").  A **supervisor** process starts a
**backend** process (an async web server); the backend starts one **worker**
process per configuration and talks to it over a pipe; a web UI talks to the
backend over a websocket.  Two things make the program hard to get right.  One is the backend's bookkeeping
of its workers while the backend itself is being restarted or updated: RPC
threads, one receive thread per worker, and a maintenance flow all change the
same entries, and the configs that were running have to be running again after
the restart, no more and no less, although backends crash and are killed in
between.  The other is what the browser sees of it: a table travels from a worker
or a file through a source, a subscription, a full buffer and a connection that
breaks and comes back, and has to arrive whole, in order and current.

All paths below are relative to the repository's root.

## 1. Inventory

| component | where | state it keeps | operations | talks to |
|---|---|---|---|---|
| worker manager | `alasio/backend/worker/manager.py` | dict config -> `WorkerState` (state, restart mark, pipe, process, recv thread); the restart run | start, queue a start, resume, stop, continue, kill, force kill, restart begin / wait / abort / cancel, mark and drop resume, close | worker processes (pipe, signals), restart manager, topics |
| worker bridge, worker process | `worker/bridge.py`, `worker/event.py` | send slots, stop / kill flags | reports, commands, loss of the backend, close | worker manager |
| maintenance slot and flows | `app/restart/restart_{base,manager,flow,step}.py` | the flow that owns the slot, `frozen`, the resume queue | claim, cancel, stop all, hand over, wrap up, resume queue | worker manager, resume file, supervisor |
| resume file, supervisor | `app/restart/resume_file.py`, `backend/supervisor.py`, `entry.py` | the resume file, its one-shot credential, restart counters | write, withdraw, announce, read, restart, give up | each other across process restarts |
| daily restart, update check | `app/restart/daily.py`, `update_check.py` | last target done, check sequences | crossing of the daily moment, pause / resume of the checks | flows |
| backend application | `app/{lifespan,app,asgi,frontend}.py` | nursery | start and stop order | all of the backend |
| token pipe | `backend/mpipe/*` | a window of two tokens on each side | rotate, acknowledge, verify | supervisor, backend |
| reactive sources | `backend/reactive/*` | subscribers, last value, event queue | subscribe, full, diff, lazy init | topics |
| websocket server | `backend/ws/*` | topics of a connection, outbox | subscribe, unsubscribe, rpc, drop | topics, UI |
| websocket client | `frontend/src/lib/ws/*` | the socket, counted topics, queue, retries, the login probe | connect, subscribe, call, reconnect, end the session | websocket server, pages |
| desktop shell | `webapp/main/*` | the accepted token, the supervisor process | follow announcements, stop, renew | supervisor, websocket server |
| topics | `backend/topic/*` | projections of the other components | full and incremental updates | reactive sources |
| auth and gate | `backend/auth/*`, `backend/middleware/*` | failures per client, tokens | login, verify, ban, collect | HTTP |
| pools | `ext/concurrent/*` | threads, idle set, queue, tokens, waiters | enqueue, run, idle out, acquire, release, kill a job | everything |
| cache, files | `ext/cache`, `ext/file`, `ext/path` | cached resources, lock files | get, collect, lock, atomic replace | everything |
| scheduler | `base/scheduler/*` | task queue of a worker | pick, wait, stop | bridge, config |
| config, db | `config/*`, `db/*` | tables, connections | read, write, validate | scheduler, topics |
| the rest | `git`, `deploy`, `codegen`, `adb`, `device`, `assets`, `ocr`, `ExampleMod`, ... | | generators, I/O, image processing, UI | |

`PROJECT.json` lists every component with its status and the reason when it is
not modelled.

What makes each of the central components correct:

* *worker manager*: an entry shown as stopped has no process; a config never has
  two; every process is tracked; a stop request is not lost in the spawn window;
  a restart keeps exactly the workers it took, and only while it is in flight;
  its list is final once frozen; waits and kills end.
* *flows*: one flow at a time; a start accepted while a flow owns the backend is
  started by somebody; a cancelled or failed flow gives every worker back; after
  the hand-over no start is accepted and none is lost.
* *resume file*: consumed by at most one backend that came up, by the process it
  was written for, and by none when it was taken back.
* *supervisor*: gives up on a crash loop, never on a requested restart; leaves no
  backend alone.
* *token pipe*: the shell follows every announcement, and the backend accepts the
  token the shell holds.
* *reactive sources, websocket*: a subscriber sees a full value first and then
  every difference in order, and nothing of what it left.
* *websocket client*: what the page counts is served by the connection it has;
  what it shows is of the backend it talks to; only a refused login ends the
  session.
* *pools*: never more threads than configured; a worker belongs to one caller; a
  queued job is run although workers idle out.

The behaviours that are hard to test are listed under `hazards` in
`PROJECT.json`, each at its line and with the properties that cover it.

## 2. What is modelled: `WorkerManager.tla`

One instance of the module is one backend process.

### State

| variable | code |
|---|---|
| `reg` | `WorkerManager.state`, config -> entry or `None` |
| `ent` | the `WorkerState` objects: `config`, `state`, `restart_pending` (`pending`), `conn`, `process` |
| `proc` | the OS process of a run: no process, pipe open, alive, its pipe end closed, exit code 0, other exit code |
| `ctl` | what the commands written to the pipe tell the worker, or that the parent end is closed |
| `recv` | the recv thread of a run and the locals of `_handle_disconnect()` that live across its unlock |
| `call` | the manager call a thread is inside of, with the locals that live across an unlock |
| `stage`, `todo` | how far `restart_begin()` / `restart_wait()` are, and the configs their loop has left |
| `restart` | `WorkerManager._restart`: in flight, aborted, frozen, the frozen list |
| `flow` | what the manager reads of `RESTART_MANAGER`: no flow, a flow owns the slot, intent frozen |
| `closing` | how far `close()` is, the entries of its round (`states`), all it has taken (history) |

### Actions

Each `with self._lock:` section is one action, and so is each stretch between
two of them; this is the grain at which the code's threads interleave.

| code | actions |
|---|---|
| `worker_start` | `Start`, `Spawn`, `SpawnFail`, `Register`; `QueueStart` while a flow owns the backend |
| `worker_resume` | `Resume`, then as above |
| `worker_scheduler_stop`, `worker_scheduler_continue` | `SchedulerStop`, `SchedulerContinue`, `Send` |
| `worker_kill` | `Kill`, `Send`, `KillDone` or `KillTimeout`, `Escalate` |
| `worker_force_kill` | `ForceKill`, then `Send` (spawn window) or `Reap`, `Finish` |
| `_worker_recv_loop`, `_handle_config_event`, `_handle_disconnect` | `Report`, `Disconnect`, `ReapDisconnected`, `FinishDisconnect` |
| `mark_resume`, `drop_resume` | `MarkResume`, `DropResume` |
| `restart_begin` | `RestartBegin`, `StopNext`, `StopsSent` |
| `restart_wait`, `_freeze_restart_resume_list` | `WaitOver`, `WaitAborted`, `WaitTimesOut`, `KillNext`, `KillsSent`, `Freeze` |
| `restart_abort`, `restart_cancel` | `RestartAbort`, `RestartCancel` |
| `close` | `CloseTakes`, `CloseReaps`, `CloseEnds`, round after round |
| worker process (external) | `WorkerExit`, `WorkerClosesPipe` |
| maintenance flow, as far as the manager reads it | `FlowOpen`, `FlowSeal`, `FlowUnseal`, `FlowClose` |

### Abstractions

* `running` stands for `running` and `scheduler-waiting`, `parked` for
  `restarting` and `updating`: the manager never tells the members of either
  pair apart (`WORKER_STATE_ALLOWS`, `WORKER_PARKED_STATE`).
* The commands in a pipe are reduced to what they tell the worker in the end
  (`Told`): a later stop or continue replaces an earlier one, a kill is only
  replaced by a force kill.
* `process_terminate()` / `process_kill()` and the joins between them are one
  step that leaves no live process.
* Objects and runs nobody refers to are reused, as the garbage collector and the
  operating system do; the instances have enough of them that a start never waits.
* `FlowSeal` waits for the freeze of a restart, or for a flow that stopped no
  worker; when exactly a flow publishes its intent is the flow's own business.
* `close()` is called when the server has ended: what runs beside it are calls that began
  before, unless the instance has "late" ones; after it the process exits (`Offered`).
* Not modelled in this module: `worker_wait_started()`, which only waits, logging,
  previews and the messages the recv thread forwards to the UI.

## 3. What is modelled: `WorkerStates.tla`

What the manager promises about a config, without entries, pipes, processes and
threads: a config is `idle`, `up`, `ending`, `parked` for a graceful restart or
`resuming` (queued for auto-resume); `mark` says that a restart wants it back;
`run` is the restart in flight with its abort flag and its frozen list.  One
action per manager call or worker event, in the order of the manager's file.

`WorkerManager` implements it: `Abstract` maps `starting` and `running` to `up`,
everything on its way out (`scheduler-stopping`, the killing states,
`disconnected`) to `ending`, and no entry or `error` to `idle`;
`ImplementsWorkerStates` is the abstract specification, checked as a property of
the detailed one (run `restart_graceful`) and proved for every instance
(`WorkerManagerProofs`, section 14).  The kills are left out of that run on
purpose: with them two threads finalize one entry, and the second may publish
over what came after it (`LostWorker.cfg` in section 12), which the
abstract life cycle does not allow.

## 4. What is modelled: `MaintenanceFlow.tla`

The orchestration above the manager: which flow owns the slot, how it stops the
workers, hands the backend over to a new process or gives everything back, and
how the resume queue starts what waited.  The manager below it is `WorkerStates`
(`INSTANCE` over the same variables).  The behaviours run over any number of
backend processes: `Replace` ends one and starts the next.

| variable | code |
|---|---|
| `status`, `mark`, `run` | the worker manager, as above |
| `flow` | `RestartBase.current`: its kind, how far its body is, its window (`open`), `cancelled`, its cancel scope, and the locals of the body (`todo`: the stop requests not sent yet; `list`: the resume list) |
| `frozen` | `RestartBase.frozen` |
| `intent` | the resume file with its announced credential: the published configs, or `None` |
| `task` | the two tasks that interrupt a flow: the user's cancel, and a forced restart or stop of the backend |
| `queue` | the `resume_queue()` tasks; a new one may be spawned while an older one still runs |
| `ordered` | what the process was told: nothing, to restart (supervisor), to stop |
| `happens` | the scenario of a behaviour: which flows are requested and what else the environment does, chosen once (`Constant`) |
| `asked`, `gaveUp` | history: what users want running, and whose auto-resume they cancelled |

| code | actions |
|---|---|
| `_claim`, `restart`, `update_apply`, `request_daily` | `Request` |
| `Flow.cancel_window`, `close_window` | `OpenWindow`, `Leave`, `CloseWindow` |
| `stop_all`, `restart_begin`, `restart_wait` | `Begin`, `SendStop`, `EnterWait`, `WaitOver`, `WaitAborted`, `WaitTimesOut`, `FreezeList` |
| `FlowUpdate.run`, `maybe_upgrade_to_daily`, the updates | `PreCheck`, `CloseWindow`, `Updated` |
| `FlowStartup.run`, `read_resume_intent`, `queued_resume_list` | `ReadIntent`, `RecallIntent`, `StartupWork`, `ReadQueued`, `AcquireLock` |
| `handover`, `handover_intent`, `ResumeFiles.write` | `Publish`, `Order`, `HandoverFailed` |
| `wrap_up` | `CollectParked`, `CollectQueued`, `ReleaseRun`, `QueueResume` |
| `_run_flow` | `ReleaseSlot` |
| `resume_queue`, `_resume_one` | `QueueRead`, `QueueScan`, `QueueNextConfig`, `QueueStart`, `QueueDone` |
| `Flow.cancel`, `Flow.interrupt` | `Cancel`, `AbortWait`, `CancelScope` |
| `force_restart`, `abort`, `_release_in_flight` | `Down`, `AbortWait`, `CancelScope`, `DownCancel`, `DownFreeze`, `DownWithdraw`, `DownOrder` |
| the supervisor (external) | `Replace` |
| users and workers | `UserStart`, `UserStop`, `UserKill`, `WorkerCrash`, `WorkerGone` |

Grain: the flows are tasks of one trio thread, so a stretch between two
checkpoints is atomic, and so is one locked section of the manager that a task
reaches through a thread hop.  Where a hop is followed by a checkpoint of its
own, a cancelled scope raises there: `Interrupted`.

Abstractions:

* A config is up, ending, ... as in `WorkerStates`; `worker_start()` reads the
  flow's flags and changes the entry in one step.
* A stop request that a worker ignores is covered by the timeout of the wait,
  which makes `up` workers `ending`; what is `ending` is gone in the end.
* `intent` is written, withdrawn and read as a whole, the first two under the
  publication lock: while a flow is in `publish`, `DownWithdraw` waits.
* Which mods are updated is left out; an update succeeds or fails.
* There are `Queues` resume queue tasks and one task each for a cancel and for a
  forced restart or stop.  A flow that ends waits for a free queue task in the
  model; `flows` has two, so that one is overtaken by the next.
* A scenario names the flows that are requested (`Kinds`: `restart`, `update`,
  `daily`) and what the environment does: `queue` (starts
  while a flow owns the slot), `stop`, `kill`, `crash`, `timeout` (of the wait),
  `converge` (the startup flow asks for another process), `fail` (updates,
  publication, restart requests), `missing` (configs the scan does not find),
  `cancel`, `force`, `shutdown`, `late` (requests after the process was told to end).
* A startup flow that converges may converge again in the next process, which the
  code's check interval would skip in practice.  This only adds behaviours; the
  liveness run leaves `converge` out.
* Not modelled: `abandon_startup()`, the phases shown to the UI, the paused
  update checks, the moment of the daily restart.

## 5. What is modelled: `Supervisor.tla`

The supervisor process, the backends it spawns one after the other, the pipe
between them, and the resume file one backend leaves for the next.

| variable | code |
|---|---|
| `main` | where `run()` is, with its local `startup_success` |
| `flag` | `restart_requested`, `stop_requested`, `_stdin_eof`, `sigint_count` |
| `slot` | `resume_token`, and the `ALASIO_RESUME_TOKEN` that stays in `os.environ` |
| `times`, `now` | which restarts of `log` `restart_times` still holds; the clock in ticks |
| `listener`, `host` | the stdin thread; the process at the other end of stdin |
| `conn`, `up`, `down` | `parent_conn`; the messages of the backend; a `command:stop` to it |
| `be` | the backend: its number, phase, credential, and how far its publication is |
| `disk` | the resume files, each named by its credential |
| `resumed`, `served`, `retracted`, `log` | history: who consumed a file, who came up, what was taken back, when it was restarted after a crash |

| code | actions |
|---|---|
| `run`, `cleanup`, `_check_restart_limit` | `CleanUp`, `Decide`, `DelayEnds`, `Leave` |
| `start_backend` | `StartBackend` |
| `recv_loop`, `handle_backend_message` | `Receive`, `StartupTimeout`, `HostLost`, `BackendEnded` |
| `graceful_shutdown`, `force_shutdown`, `handle_sigint` | `SendStop`, `WaitEnds`, `ForceShutdown`, `Signal` |
| the stdin thread | `ReadStop`, `ReadEof` |
| `entry.py`, `asgi.py` | `Boot`, `Bind` |
| `resume_file.py` | `ReadIntent`; `WriteIntent`, `AnnounceIntent`; `RemoveIntent`, `RetractIntent` |
| `lifespan.py` | `RequestRestart`, `RequestStop`, `ReceiveStop`, `Aborted`, `Exit` |
| host, clock, operating system (external) | `HostStops`, `HostDies`, `Tick`, `Crash`, `Killed` |

Grain: the stdin thread and the host move between any two steps of the main thread,
and a backend dies between any two of its own.  A publication is two steps, the file
and its credential, and so is a withdrawal.

Abstractions: a backend publishes at most one file, so its number names it; the
content, the owner and the age of a file are left out; the removal of a file may fail
("undeletable"); a message is written and received whole.  The four scenarios separate
the resume file, the crash loop, the host and the signals, because they meet in the
main thread only through the flags, and each has crashes or restarts beside it.  The last
backend neither crashes nor restarts, so the supervisor is never asked for a fifth.
`NoOrphans` needs the pipe to break when the supervisor is gone, which the operating
system does (`Killed`).

## 6. What is modelled: `TokenRotation.tla`

The electron token: the supervisor generates it, announces it on stdout to the
desktop shell, and sends it down the pipe to the backend, which checks it on restricted
subscriptions.

| variable | code |
|---|---|
| `window`, `round`, `next` | `_window`; the round of the rotation thread; tokens generated |
| `main` | the main thread, which takes `window()` for a new backend before it spawns it |
| `be`, `down`, `up` | the backend with its token table; `token` and `token_ack` messages |
| `lines`, `host` | announcements in stdout; the token the shell accepted |
| `conn`, `notify` | connections with the token they were opened with, a restricted subscription and a renewal; those `notify_rotation()` has not reached |
| `lag` | history: failed rounds since the backend knew what was announced |

| code | actions |
|---|---|
| `rotate`, `handle_token_ack`, `_reset_pending` | `Rotate`, `HandleAck`, `Announce`, `AckTimesOut` |
| `window`, `seed_from_supervisor` | `TakeWindow`, `Spawn` |
| `acceptAnnouncement` | `ReadLine` |
| `handle_token`, `notify_rotation`, `_notify_one` | `HandleToken`, `NotifyOne` |
| `serve`, `handle_job`, `ws/renew.py` | `Connect`, `Subscribe`, `IssueCode`, `Redeem` |
| the supervisor (external) | `BackendEnds` |

A token is the number of its generation.  `slow` allows an acknowledgement later than
`ACK_TIMEOUT` to meet connections that are stuck and codes that expire; an
acknowledgement may come late in every behaviour.  Four tokens and three backends are
enough for two windows to be replaced completely and for a backend to be born in the
middle of a round.

## 7. What is modelled: `LiveTopic.tla`

A topic from its source to the browser: instances of a source and their registry,
the subscriptions of the connections, the send buffer with its outbox, and the
refresh manager of the task queue.

| variable | code |
|---|---|
| `truth` | the table as disk and worker have it |
| `reg`, `inst` | `_singleton_instances`; a source: data, freshness, dirty marks, subscribers, inbox, who holds `_fetch_lock` |
| `calls`, `loop` | the queue of `run_sync_soon`; the task whose stretch on the trio thread is not over |
| `topic` | the topic of a connection and its `_resubscribe()` round |
| `conn`, `view` | the memory channel, the senders waiting in line, the outbox and its task; what the browser shows |
| `watch`, `pend` | `TaskQueueUpdateManager`; a worker's or a save's thread between two locks |

| code | actions |
|---|---|
| `BaseTopic.deliver`, `_outbox_send`, `_drop_outbox`, `task_send` | `RunCallback`, `OutboxSend`, `Take`, and the operators `Deliver`, `Dropped`, `Enter` |
| `on_event`, `on_config_event` with their follow-up outside of the lock | `WorkerPush`, `Save`, `FollowUp` |
| `_resubscribe`, `get_source`, `fetch_init`, `reinit`, `subscribe`, `_reconcile` | `Begin`, `Resolve`, `ReadDisk`, `ReadDone`, `Attach`, `Sent` |
| the user, `op_unsub` | `Navigate`, `Close` |
| time to live, `gc_idle` | `Expire`, `Collect` |
| `TaskQueueUpdateManager.run`, `_refresh` | `Refresh`, `RefreshReads`, `RefreshDone` |

Abstractions: a table is the version it was computed from, so a difference is the new
version and is merged by replacing it; what is in a difference is left out.  A
`resident` source (`WorkerStatusSource` and the like) reads nothing; the other one is
the task queue, which reads the disk.  The deadline of a refresh may pass at any time
(`clock`).  A buffer of one message and an outbox of two are the smallest with a fast
path, a full buffer, a backlog and a dropped message.  Two configs, two connections,
two changes and two navigations: a viewer that stays and one that leaves, an old and
a new source, a change during and one after a read.

The properties are about states in which nothing is under way (`Quiet`); on the way
there everything interleaves.  Each is restricted to the scenarios without the operation
that breaks it (section 12).

## 8. What is modelled: `WsClient.tla`

The websocket client of a page with its sockets, against the connection handler.

| variable | code |
|---|---|
| `cl` | `WebsocketManager`: `#ws`, `connectionState`, `subscriptions`, `topics` (`data`), `#messageQueue`, `reconnectAttempts`, its timers, the shared login probe, `routeState.public`; one call of a component; and the `WebSocket` objects with their two directions and what the server serves on them |
| `page` | the mounted route group |
| `login`, `server` | the login session; the backend process |

| code | actions |
|---|---|
| `connect`: `onopen`, `onclose`, the watchdog | `Opens`, `OnClose`, `WatchdogFires` |
| `#scheduleReconnect` | `RetryFires` |
| `#handleAuthFailure`, `probeSession` | `ProbeDecided`, `ProbeAnswered`, `ProbeAgain` |
| `onMessage` | `Deliver` |
| `sub`, `unsub`, `createRpc` | `Sub`, `Unsub`, `Call`, `CallTimesOut` |
| `disconnect`, the (public) layout | `VisitLogin`, `LogIn` |
| `handle_job`, `op_sub`, `serve` | `HandleJob`, `ServerCloses` |
| browser, network, backend (external) | `ConnectionLost`, `HandshakeFails`, `BackendStops`, `BackendStarts`, `LoginExpires` |

A JavaScript handler runs to completion and is one action, so the manager is one record
and its methods are functions of it.  `#scheduleReconnect()` overwrites the handle of
the timer it sets, so a replaced timer still fires: `retries` counts all, `held` says
whether the last is still known.  `hung` marks the loop of `onopen` that never ends.

Bounds: one topic (topics share the queue and the connection and nothing else), two
counts of it, two sockets, two retries instead of five, two backends, two logins, two
faults, queues of two.  A page whose queue is full waits.  `rejoin` (leave and mount a
topic while its unsubscription is queued), `linger` (pages that act in the CLOSING state
of a socket) and `slow` (a verdict about the old login after a new one) are only in the
counterexamples.

## 9. What is modelled: `ThreadPool.tla`

| variable | code |
|---|---|
| `idle`, `all`, `create` | `idle_workers`, `all_workers`, the holder of `create_lock` |
| `work` | the worker threads: where `_work()` is, the job in hand, the next one, a `JobKill` on its way, the ident of the thread |
| `caller`, `job` | where a caller is, with its local `worker`; the jobs: their `worker`, whether they are answered |

| code | actions |
|---|---|
| `_get_thread_worker` | `Reuse`, `Look`, `WaitFull`, `SizeAgain`, `Lock`, `LookAgain`, `PopLocked`, `SizeLocked`, `Create` |
| `start_thread_soon`, `Job.get`, `get_or_kill` | `Assign`, `Answered`, `Expires` |
| `Job._kill`, `WorkerThread.kill` | `Strike`, `Unlist`, `Unidle` |
| `WorkerThread._work`, `_handle_job` | `Take`, `Finish`, `Deliver`, `TimesOut`, `Leave`, `Exit`, `Dies`, `Swallows` |

A step is one access to what the threads share: the idle set, `all_workers`, a lock, the
exception a thread has pending.  A kill is three of them, `PyThreadState_SetAsyncExc()`,
`all_workers.pop()` and `idle_workers.pop()`, under the `put_lock` of the job, which keeps
the worker from delivering that job (`PutLocked`) and nobody from taking the worker out of
the idle set.  The wait for `notify_pool` ends after 10 ms in any case and is not
modelled; a waiting caller may look again at any time.

The scenarios: nobody is killed; `kill` with `recycle`, where a new thread may get the
ident of one that has ended and `SetAsyncExc`, which goes by the ident, may hit it; `kill`
with `swallow`, where the function of a job catches the `JobKill` (an `Exception`) and the
thread goes on although it is no longer listed.  Two of the three callers use
`get_or_kill()`.  Three callers for two threads make one wait outside and one inside of
`create_lock`; a third `WorkerThread` is created after one has died or was killed.  Every
caller submits one job; the worker, not the caller, carries state from one job to the
next.

Two things are assumed.  A recycled ident goes to a thread of the pool; it could as well go
to any other thread of the process, which then gets the `JobKill`.  And a pending `JobKill`
is raised before its thread touches the pool again: CPython 3.11 and before look for it
when the call of the job's function returns; an interpreter that does not would let the
thread enter `idle_workers` after its kill has left it.

## 10. What is modelled: `WorkerProcess.tla`

One worker process, with the end of the pipe the manager holds: the scheduler on the
main thread, the bridge with its send and its recv thread, another thread that logs.

| variable | code |
|---|---|
| `sched` | the main thread: where it is in `run()`, `_task_loop()`, `_wait_future()`; what the stretch it finished still sends (`todo`); a pending `KeyboardInterrupt` (`irq`); the version its plan was made from |
| `send` | where each thread is in `BackendBridge.send()` |
| `bridge` | `running`, `_mutex`, `_worker_idle` (`busy`), `_work_ready` (`ready`), `_task_slot` (`by`, `msg`); the send loop |
| `logger`, `recv`, `stopping` | the lock of the logger; the recv thread; `scheduler_stopping` |
| `proc`, `config` | the exit code; the config file and the mtime `ConfigWatcher` remembers |
| `up`, `down`, `backend` | the pipe; the entry of the manager and the task it was told |

| code | actions |
|---|---|
| `send`, `_send_loop`, `_release_pending_task` | `Enter`, `TakeMutex`, `Publish`, `Wake`, `Transmit` |
| `mod_entry`, `run` | `Booted`, `EnterLoop`, `RunReturns`, `Interrupted` |
| `_task_loop`, `_skip_first_tasks`, `_wait_future`, `_run_task` | `Plan`, `Planned`, `Filler`, `Idle`, `Poll`, `TaskReturns` |
| `_recv_loop`, `_handle_backend_command`, `_handle_backend_lost` | `ReadCommand`, `Obey`, `BackendLost`, `Inject`, `Deadline` |
| `_handle_config_event`, `_handle_disconnect` of the manager | `Hear`, `HearEnd` |
| the requests of a user | `Stop`, `Continue`, `Kill`, `Edit` |
| tasks, other threads, the backend process (external) | `TaskSends`, `TaskBlocks`, `PoolSends`, `BackendEnds` |

Grain: every acquisition of a lock is a step, and the locks are held across steps, the
lock of the logger until the message was sent.  What the scheduler sends in one stretch
is a sequence it works off message by message, each through all of `send()`.  An
interrupt arrives between any two steps; inside of `send()` it may leave `_mutex` locked
(before the `try`) or `_worker_idle` (after it was acquired).

Abstractions: a message is its kind; which task is next, whether it is due and how it
ends is a choice; a log message before `inited` goes to the file only and is not sent;
the manager's side has no threads (`WorkerManager` has them), and its commands arrive in
the order it wrote them.  `MaxPipe` = 1 lets both directions block; `MaxEdits` = 1 is one
modification before, during or after a plan.

## 11. Runs

`MC*.tla` give the instances.  The manager's runs name a set of `Operations`; all others
choose one scenario of `Scenarios` at the start of a behaviour, and every scenario of a
run is listed in its MC module.  Interchangeable objects are symmetric in the runs that
check no liveness; `Canonical` is the view that hides the fields of the manager's
objects nobody refers to.

| run | shows | distinct states |
|---|---|---|
| `worker_lifecycle` | start, stop and force kill of one config by two threads, and `close()` at any point: `StoppedMeansDead`, `StopReachesWorker`, `CloseReachesTracked` | 779,194 |
| `restart_graceful` | a restart without kills over two configs, with queued starts, aborts and cancels at every point: `FrozenMeansStopped`, `EveryWorkerTracked`; and `WorkerManager` implements `WorkerStates`: `ImplementsWorkerStates` | 177,120 |
| `restart_escalates` | stops, continues, kills and force kills beside a wait that times out and kills, under fairness: `TypeOK`, `MarksBelongToARestart`, `RestartEnds`, `KillSettles` | 314,372 |
| `flows` | three scenarios over several processes: restarts and daily maintenances with users that stop and kill; starts queued while a flow owns the backend, convergence, overtaken resume queues, late requests; every kind of flow with failures and crashes: `NobodyForgotten`, `UserStopHonoured`, `WrapUpCollectsAll` | 1,275,320 |
| `flow_ends` | a forced restart or a stop at every point of a restart or update; every kind of flow with failures, timeouts and cancels, under fairness: `InterruptedPublishesNothing`, `QueuedStartsSettle`, `FlowEnds`, `Thaws` | 288,353 |
| `supervised` | four backends, the scenarios of section 5: `WithdrawnNeverResumed`, `ResumedByOneServer`, `CrashLoopBounded`, `NoOrphans` | 505,243 |
| `token_rotation` | four tokens, three backends, two connections: `AnnouncementsChain`, `ShellIsAccepted`, `RestrictedHoldsToken` | 154,264 |
| `live_topic` | six scenarios of a resident and of a disk source: `ClientMatchesSource`, `CleanIsCurrent`, `WatchedIsTracked` | 344,359 |
| `ws_client` | outages, restarts, refusals, new logins, calls: `ShownIsCurrent`, `ServedIsCounted`, `CallRunsOnce`, `SessionEndsRefused`, `SubscriberFed` | 349,351 |
| `thread_pool` | three callers, two threads, with and without kills step by step, recycled idents, swallowed kills: `PoolBounded`, `PoolIsUsable`, `JobsAnswered` | 479,922 |
| `worker_process` | stop, continue and failing tasks; a modified config; stop, kill, native calls and a lost backend; a thread that logs beside the scheduler; under fairness: `WaiterIsServed`, `ShownIsTrue`, `OrphanEnds`, `StopEnds`, `KilledEnds` | 99,996 |
| `full_trails` | a violation: `ClientAlwaysMatches` when a worker pushes while a refresh is published | |

Why the bounds are enough.  Every hazard of the manager involves one config and at most
two generations of its worker (two entries and two runs), at most two user threads and
the restart.  The second config of `restart_graceful` is there for the list: a restart
that has stopped one of its workers and not the other.  The flow runs have two configs
for the same reason (one taken, one queued or given up) and one in `flow_ends`, whose
properties are about each config alone; two resume queue tasks where one may overtake the
other.  The bounds of the other
modules are argued in their sections; `MaxBackends`, `MaxTime`, `MaxTokens`,
`MaxVersion`, `MaxEdits`, `MaxMoves`, `MaxSessions`, `MaxEras`, `MaxFaults`, `MaxQueue` and `MaxJobs`
end behaviours that would otherwise go on forever, nothing else does.

Deadlock is checked where the system cannot stop: in `flows` and `supervised`.  The
others may: every call may have been made and every worker ended (the manager, the
pool), the process has exited (`worker_process`), a backend is told to end and nothing replaces it (`flow_ends`),
or a bound is reached (tokens, versions, faults).

## 12. Disagreements between the code and its comments

One run ends in a violation; `PROJECT.json` quotes the comment it contradicts: `full_trails`.
The doorbell of a source rings when its inbox was empty and drains the inbox when it is
answered.  A full event that `reinit()` queues behind a doorbell is therefore overtaken by
an increment that enters the inbox after it and before the doorbell is answered.

More counterexamples are kept beside the runs, each as a configuration of one
property that TLC refutes:

| configuration, module | what happens |
|---|---|
| `LostWorker.cfg`, `MCWorkerManager` | `EveryWorkerTracked`: the recv thread decides that it may publish the end of a force-killed worker, the force kill removes the entry, a new worker is started: the recv thread removes its entry by config name while its process runs (`manager.py:844`); `DisconnectPublishesRegistered` is refuted by the first half of it |
| `CloseForgets.cfg`, `MCWorkerManager` | `NobodyOutlivesClose`: a call that comes late (a thread that outlived the server) starts a worker for a config whose old entry `close()` has taken; when the old entry is set to idle the new one is removed with it, the next round finds nothing, and the worker runs on until the process exits ("maybe new worker started while we are killing existing workers", `manager.py:1431`) |
| `StopOvertaken.cfg`, `MCWorkerManager` | `StopReachesWorker`: stop and continue set their states in one order and write their commands in the other; the worker shown as stopping was told to go on (`manager.py:682`) |
| `ContinueInRestart.cfg`, `MCWorkerManager` | `RunningIsMarked`: a worker that was stopping before the restart began carries no mark, may be continued and keeps the restart waiting (`manager.py:698`) |
| `BeginCancelsResume.cfg`, `MCWorkerManager` | `RestartBeginKeepsResume`: a marked worker that ends by itself before its own stop request loses its resume to that request (`manager.py:958`) |
| `EscalationMisses.cfg`, `MCWorkerManager` | `EscalationHitsItsWorker`: the escalation of a kill finds, and kills, a worker started after the kill (`manager.py:773`) |
| `CancelForgets.cfg`, `MCMaintenanceFlow` | `WantedIsHeld`: a cancelled wait leaves a worker that is still stopping; neither parked nor queued, it is not collected and ends as idle (`restart_step.py:712`) |
| `StopUndone.cfg`, `MCMaintenanceFlow` | `GivenUpStays`: a user cancels an auto-resume which the converging startup has already published; the next process resumes it (`manager.py:896`) |
| `CancelThenKill.cfg`, `MCMaintenanceFlow` | `CancelledKillsNobody`: a cancel wakes the wait before the restart has begun, the flow enters the wait before its scope is cancelled; it waits on and kills the workers (`restart_base.py:336`) |
| `ThawedGoingDown.cfg`, `MCMaintenanceFlow` | `NothingStartsGoingDown`: a hand-over fails while the backend is being stopped and clears the frozen state; workers start in a process that goes down (`restart_base.py:539`) |
| `FrozenForever.cfg`, `MCMaintenanceFlow` | `Thaws`: a forced restart without a supervisor fails after it froze the state, and nobody thaws it (`restart_step.py:928`) |
| `WrapUpDropsStart.cfg`, `MCMaintenanceFlow` | `AlwaysCollectsAll`: `wrap_up()` reads what is queued, a start is queued, `restart_cancel()` resets it to idle: the accepted start never happens (`restart_step.py:712`) |
| `DailyPublishes.cfg`, `MCMaintenanceFlow` | `WithdrawnForGood`: a daily maintenance has no window; interrupted by a forced restart it publishes its list after the withdrawal (`restart_flow.py:347`); so does a converging startup |
| `FlowEnds.cfg` with `Scenarios <- LateCancelled` | `InterruptedPublishesNothing`: a flow requested after the process was told to end is cancelled by a user and finds the file of the flow before it (`restart_base.py:525`) |
| `Flows.cfg` with `Scenarios <- LateFailing` | `NobodyForgotten`: the hand-over of such a flow fails and takes back the file the next process would read (`restart_base.py:541`) |
| `Flows.cfg` with `Scenarios <- QueuedAndStopped` | `UserStopHonoured`: a config is started and given up while the startup of the new process has its old record in hand, between the read and the mark; it is resumed from that record (`restart_step.py:727`) |
| `Supervised.cfg` with property `StopNeverSpawns` | `StopNeverSpawns`: a stop is read from stdin after the main thread looked at the flag at the end of the restart delay; no pipe is attached, so nothing is forwarded, and the backend spawned next runs on until the host closes stdin ("never spawn a backend that nobody is left to manage", `supervisor.py:826`) |
| `TokenRotation.cfg` with property `ShellAlwaysAccepted` | `ShellAlwaysAccepted`: two acknowledgements in a row come too late; the table holds two tokens that were never announced (`token_supervisor.py:118`) |
| `LiveTopic.cfg` with `Scenarios <- LeavingPushes` and `ClientAlwaysMatches` | `ClientAlwaysMatches`: an increment is queued for a viewer who leaves, another finds no subscriber and is only stored; the next viewer gets the full table, then the old doorbell delivers the older increment over it (`source.py:580`) |
| `OutboxStuck.cfg`, `MCLiveTopic` | `ClientAlwaysMatches`: a topic moves on while its outbox task waits for the full buffer; the task is cancelled and has not run yet, so the first increment of the new source is put into the outbox, which the task then leaves (`ws_topic.py:115`) |
| `Stranded.cfg`, `MCLiveTopic` | `SubscriberIsFed`: an event creates an instance while a collected one is on its way to a subscriber; `_reconcile()` leaves that one outside of the registry and it gets no events (`source.py:197`) |
| `SaveSwallowed.cfg`, `MCLiveTopic` | `SavesAreSeen`: a save has seen a viewer and asked for a refresh, the viewer leaves, `unregister()` drops the request and no dirty mark is left: the next viewer is shown the old table as fresh ("no save can be swallowed", `que.py:150`) |
| `WsClient.cfg` with `Scenarios <- Lingering` | `NeverHangs`: a component subscribes while the old socket closes; the close event forgets the new socket, whose `onopen` then puts every message back into the queue it is emptying (`client.svelte.ts:238`) |
| `WsClient.cfg` with `Scenarios <- Rejoining` | `ServedIsCounted`: a topic is left and mounted again while the client is connecting; the queued unsubscription is sent after the resubscription, and the page counts a topic that its connection does not serve ("Resubscribe to all topics that have active component subscriptions", `client.svelte.ts:230`) |
| `WsClient.cfg` with `Scenarios <- Refusing` | `OpenIsShown`: a component reconnects while the login is probed; the probe reaches no backend, asks again, and marks the open connection as reconnecting (`client.svelte.ts:601`) |
| `WsClient.cfg` with `Scenarios <- Slow` | `SessionEndsRefused`: the verdict about the old login arrives after a new one and ends it (`client.svelte.ts:612`) |
| `Abandoned.cfg`, `MCWorkerProcess` | `NobodyAbandoned`: a caller has seen `running`, the backend is lost, the send loop ends with the message before; nobody releases `_worker_idle`, and the caller stays in `send()` ("blocking the caller on a send worker that never runs again is worse than losing the event", `bridge.py:238`). If it logs, the recv thread waits for the logger and does not end the process |
| `WaitsWhileRunning.cfg`, `MCWorkerProcess` | `WaitingMeansWaiting`: a wait that ends because the config was modified reports nothing; when the next task is due it runs in a worker shown as waiting ("worker waiting for next task, no task running currently", `manager.py:21`; `scheduler.py:281`) |
| `ErrorAsIdle.cfg`, `MCWorkerProcess` | `ErrorIsShown`: `run()` reports "error", which the manager does not allow, and returns; the process exits with 0 and the config is shown as idle ("error: worker stopped with error", `manager.py:28`; `scheduler.py:389`) |
| `WorkerProcess.cfg` with `Scenarios <- Editing` | `EditIsNoticed`: the config is modified between the plan and `ConfigWatcher.init()`; the wait goes on with the old plan (`scheduler.py:262`) |
| `WorkerProcess.cfg` with `Scenarios <- Saving` | `KilledAlwaysEnds`: the interrupt hits the main thread inside of `send()`, a batch of config changes is saved on the way out and waits for a lock nobody will release; the manager's escalation after `KILL_WAIT_TIMEOUT` ends it (`bridge.py:251`) |
| `ThreadPool.cfg` with `Scenarios <- Killing` and `IdleIsAlive` | `IdleIsAlive`: `kill()` sets the exception of a worker that has offered itself and waits for `put_lock`; until the last step of the kill another caller may take that worker, which dies with its job ("Each leak is bounded to one thread per kill()", and one job of another caller; `threadpool.py:287`) |
| `ThreadPool.cfg` with `Scenarios <- Recycling` and `KillHitsItsWorker` | `KillHitsItsWorker`: that job keeps its dead worker; its caller times out as well, and `kill()` sets the exception by an ident that a new thread has got (`threadpool.py:286`) |
| `ThreadPool.cfg` with `Scenarios <- Swallowing` and `PoolAlwaysBounded` | `PoolAlwaysBounded`: a function catches its `JobKill` and goes on, while another thread was created in the place of its own (`threadpool.py:77`) |
| `ThreadPool.cfg` with `Scenarios <- Killing` and `JobsAlwaysAnswered` | `JobsAlwaysAnswered`: a worker offers itself before it delivers, is handed the job of another caller, and is killed for the first; the second caller waits forever (`threadpool.py:218`) |

The passing runs show the same properties in the scenarios without the operation
that breaks them: either the scenario of a run leaves it out, or the property names it.
`StopReachesWorker` is checked without continue; `EveryWorkerTracked` without force kill;
`NobodyForgotten` without cancel, crash, a late flow that fails, and what is stopped or given
back once starts are queued (the flow's view of `BeginCancelsResume`); `UserStopHonoured` without
convergence, failures (a failing wrap-up has the same window) and requests that come
after the hand-over (`late`: their wrap-up releases the list that is published already),
and without stops beside queued starts;
`WrapUpCollectsAll` without starts queued during a flow that gives back;
`InterruptedPublishesNothing` of the flows that have a window, without late ones that are
cancelled; `Thaws` with a supervisor;
`ClientMatchesSource` without users that move on, collected instances, and a source that
is pushed and also saved, refreshed or left; `WatchedIsTracked` of sources that are not
pushed, resident or collected; `CleanIsCurrent` without viewers that leave; `ShellIsAccepted` after
at most one failed round; the client without the scenarios `rejoin`, `linger` and `slow`;
`JobsAnswered` without kills, `PoolBounded` without swallowed ones, the second half of
`PoolIsUsable` without recycled idents; `ShownIsTrue` without a modified config; `OrphanEnds` unless a
thread is abandoned in `send()`; `KilledEnds` when nothing is saved on the way out.  The other properties of the table are only refuted.

Seen in the code and not stated as a property: a read of `reinit()` that began before a
worker's push replaces the newer pushed table with the older one it read; a worker's push
decides whether its config is watched before it unregisters it, and may untrack one that
was subscribed in between; an increment waiting in a source's inbox is delivered to a
subscriber whose full message already contains it.

## 13. Fairness

`WorkerManager!LiveSpec` asks weak fairness of: a thread that is inside of a manager call; a
recv thread whose pipe is broken; the orchestrating thread; and a process whose
pipe is gone or that was told to force-kill itself (its bridge ends it).  Nothing
is asked of the user, of the worker's own progress, or of a worker that was told
to stop or to be killed: it may ignore both.  The code's threads run under a
preemptive scheduler and never wait for each other inside a lock except for
bounded joins, which justifies weak fairness.

`MaintenanceFlow!LiveSpec` asks weak fairness of the flow's body, of every
resume queue task and of the interrupting tasks (tasks of the trio loop and the
threads they hop into); of a worker that was told to stop or killed, which ends
(the timeout of the wait kills those that do not obey, and a kill terminates the
process); and of the supervisor, which replaces a process that asked for it.
Requests, starts, stops, cancels and crashes are never fair.

`Supervisor!LiveSpec` asks weak fairness of the main thread (its waits are polls with a
timeout), of the stdin thread (the read of a line or of the end of the stream returns),
and of a backend that boots, reads a stop or a broken pipe, finishes a publication it
has begun or has to take back, and goes down.  A running backend need do nothing.

`WsClient!LiveSpec` asks weak fairness of the timers (watchdog, reconnect), of the events
of a socket, of the messages on an open connection, and of the supervisor that starts the
next backend.  A handshake need not complete: the watchdog is for that.  Nothing is asked
of the probe, so `SubscriberFed` allows a page to wait for it.

`ThreadPool!LiveSpec` asks weak fairness of every caller and worker; a job returns.  The
locks of the pool are short, so nobody starves at `create_lock` in three callers; no
thread need time out.

`WorkerProcess!LiveSpec` asks strong fairness of a thread that sends (Python's locks are
not fair, but every holder gives them up and each thread is scheduled), weak fairness of
the send loop, of the scheduler between its tasks, of the recv thread and of the manager
that reads the pipe.  A task that is not in a native call returns; an injected interrupt
is raised once the main thread is not blocked in a lock.  Nothing is asked of a native
call, of the other threads, of the user and of the backend.

## 14. Proofs

Every theorem is about a `Spec` for every value of the constants: a proof cites the
assumption its module makes (`FlowAssumption`, `SupervisorAssumption`, `TopicAssumption`, in
the others `ConstantsAssumption`), and none assumes that a set is small or a bound is that of
a run.  Where the code breaks a property in some scenario, the theorem names that scenario as
a hypothesis, and a counterexample of section 12 shows that it cannot be dropped.  The
invariants below were checked by TLC on the scenarios of the runs before they were proved.

| module | theorems | runs' properties |
|---|---|---|
| `WorkerManagerProofs` | `Invariance`, `TypeCorrect`, `MarksTheorem`, `ResumingTheorem` | `TypeOK`, `MarksBelongToARestart` |
| its second part | `HostsInvariance`, `StoppedIsDead`, `CloseEndsItsWorkers`, `StopsReachTheirWorkers`, `WorkersAreTracked`, `FrozenIsStopped`, `ManagerImplementsWorkerStates` | `StoppedMeansDead`, `CloseReachesTracked`, `StopReachesWorker`, `EveryWorkerTracked`, `FrozenMeansStopped`, `ImplementsWorkerStates` |
| `MaintenanceFlowProofs` | `StatesTypeCorrect`, `FrozenListIsExact`, `QueueIsOwned`, `ParkedWaits`, `FrozenListIsFinal` | of `WorkerStates`, its manager |
| its second part | `TypeCorrect`, `InterruptedStaysQuiet`, `WrapUpLosesNothing`, `NobodyIsForgotten`, `StopsAreHonoured` | `InterruptedPublishesNothing`, `WrapUpCollectsAll`, `NobodyForgotten`, `UserStopHonoured` |
| `SupervisorProofs` | `TakenBackForGood`, `ResumedOnce`, `CrashLoopEnds` | `WithdrawnNeverResumed`, `ResumedByOneServer`, `CrashLoopBounded` |
| `LiveTopicProofs` | `BaseInvariance`, `ViewedIsTracked`, `SavesAreNeverLost`, `BrowserShowsItsSource` | `WatchedIsTracked`, `CleanIsCurrent`, `ClientMatchesSource` |
| `TokenRotationProofs` | `TypeCorrect`, `EveryLineIsAccepted`, `ShellTokenIsValid`, `RestrictedIsValid` | `AnnouncementsChain`, `ShellIsAccepted`, `RestrictedHoldsToken` |
| `WsClientProofs` | `TypeCorrect`, `CallsRunOnce`, `ShownStaysCurrent`, `ServedStaysCounted`, `SessionEndsOnRefusal` | `CallRunsOnce`, `ShownIsCurrent`, `ServedIsCounted`, `SessionEndsRefused` |
| `ThreadPoolProofs` | `TypeCorrect`, `PoolIsBounded`, `PoolStaysUsable`, `NoJobIsLost` | `PoolBounded`, `PoolIsUsable` |
| `WorkerProcessProofs` | `WorkerTypes`, `WaiterIsAlwaysServed`, `ShownIsAlwaysTrue` | `WaiterIsServed`, `ShownIsTrue` |

### `WorkerManagerProofs.tla`

For every set of configs, entries, runs and callers, assuming only that `None`
is none of them and the orchestrating thread is not an RPC thread.

The theorems follow from one inductive invariant, `IInv`, with three parts.
`TypeOK` alone is not inductive: `Send` needs to know that a thread inside of a
send has a command, `Finish` that it has an entry (`ThreadsOK`).  The starts need
to know that the entry registered for a config carries that config's name, or
they would register it under another one; and a mark can only be tied to the
restart when the entry is reached through its registration.  `EntriesOK` says
both of every registered entry.  The proof that a step preserves `IInv` goes
action by action; three lemmas carry most of it: replacing one entry
(`EntryReplaced`), publishing one (`EntryPublished`) and registering one
(`EntryRegistered`).

The second part of the module is about which thread works on which entry and which
process.  A process is *hosted* by the thread that spawns it, then by its recv thread, and
both act on an entry they looked up long before.  Its invariant `HInv` is `IInv` and `Apart`:

* `HostsApart`, `ReapersApart`: no two threads host the same run or entry, no two force
  kills reap the same entry, and what `close()` took is registered no more;
* `RestedOK`: an entry that may be started again has been left by every thread of its
  last process, so that a start never meets a late one;
* `LivesOK`: a live process is the one its entry knows and the entry is not shown as
  stopped, except for the entries `close()` took;
* `EndsOK`: where a recv thread and a force kill both end one entry, which of them is
  ahead can be told from the state of the entry;
* `PipesOK`: the pipe of a hosted run is its entry's, or closed.

`StoppedIsDead` and `CloseEndsItsWorkers` follow for all operations together, kills,
timeouts and `close()` included.  `StopsReachTheirWorkers` assumes that no stop is taken
back (`StopOvertaken.cfg`); its invariant says that the thread which will write the command
is on its way.  `WorkersAreTracked` and `FrozenIsStopped` assume that nothing is killed
(`NoKills`; `LostWorker.cfg`): then every process has a host and every host a registered
entry that is not stopped (`AllHosted`), and the list is frozen only with nothing pending
(`FreezeOK`).

`ManagerImplementsWorkerStates` is the refinement under the same hypothesis: the initial
states map to initial states, and every step to one step of `WorkerStates` or to none.
`StatusCases` says what a state of an entry stands for, `MovesOne` that a step which
changes one registered entry moves one config; then one lemma per action, from
`StartFollows` to `StepFollows`.

### `MaintenanceFlowProofs.tla`

For every set of configs and resume queues, with and without a supervisor, over any number
of processes.

The first part is about `WorkerStates` alone, the manager under the flows (the instance
`Manager`), and needs no assumption.  Its inductive invariant is the conjunction of the four
invariants with `MarkedInRestart`: a mark exists only while a restart is in flight.  Without
it `Resume` could hand an old mark to a worker, and `Ended` would park it for a restart that
does not exist.  `MoveMInv` says once what a step that moves a single config has to satisfy;
the single-config actions cite it, the others are proved conjunct by conjunct.

In the second part `FInv` joins the types, the invariant of `WorkerStates` and which flow may be
where in its body (`OwnPcs`).  The manager's part costs no proof of its own: a step of the
flows does to the manager what one of its operations does (`NextManagerStep`), or one of
three things more that keep its invariant too (`ManagerKept`: several configs at once, the
kill of what is up, a new process).  `StartSteps`, `StopSteps`, `EndSteps` and `SlotSteps` say
where each step leads a flow; the invariant proofs cite them in place of the actions.

* `InterruptedStaysQuiet`: a published file belongs to a flow that hands over or to a
  process that was told to end (`Published`), so that a flow whose window is still open finds
  none; from the withdrawal on an interrupted flow is on the way to its wrap-up
  (`NotPublishing`).
* The other three are about behaviours in which no flow is interrupted (`Calm`), for the
  counterexamples of section 12 begin with an interruption or a failure.  `InFlight` says who
  has the restart of the manager in flight, and that the list of a flow is the frozen list
  from the freeze to the publication; `StartsUp` that nothing runs under a startup flow.
* `WrapUpLosesNothing`: what was collected stays collected, because nothing becomes parked
  or queued in between (`NothingNew`): nobody ends with a mark after the freeze, and where
  starts are queued a wrap-up runs frozen.  That last part holds since only a
  flow that finds another restart in flight gives back then.
* `NobodyIsForgotten`: a wanted config that ends has its mark, what runs under a restart too,
  no stop request meets a wanted config that is parked already, and a process that is told to
  restart has published whatever is wanted (`Held`).  `HandsOverAll` is the heart of it: the
  list that is published has everybody.
* `StopsAreHonoured`: a config that was given up carries no mark, the file is the frozen
  list, and what a startup has read holds nobody who was given up (`Given`).

### `SupervisorProofs.tla`

For every number of backends, every clock and all scenarios: `IInv` is about the way of a
credential: published by one backend, announced in the pipe, kept in the slot, handed down
in an environment, consumed.  `InOrder` says that each of these places holds credentials of
the past only, and at most one backend consumes one.  A credential that was taken back is
nowhere, except where the message that clears it comes later in the pipe (`Withdrawn`);
after a backend came up, the slot holds its own credential or none, unless its
`command:started` is still on the way (`Started`); and a file it consumed is offered to
nobody else (`Spent`).  What makes both work is that the pipe is read to its end before the
next backend is spawned (`Attached`).

`CrashLoopEnds` has an invariant of its own, `Limit`: the restarts that `restart_times` has
forgotten are older than the window, so that a span of the window contains remembered ones
only, or ends before now and does not grow (`CountedLimit`).

### `TokenRotationProofs.tla`

For every number of tokens, backends and connections.  The invariant orders everything by
the generation of a token (`InOrder`): the window, the pipe down, the table, the pipe up.
`LinesChain` says that the announcements in stdout lead from the shell's token to the last
one of the window, each line accepted where the one before it ended; `Watched` that only
connections a notification has still to reach may hold an evicted token (without `slow`);
`Confirmed` and `WithinLag` how far the backend may be ahead of what was announced, after no
failed round and after one, which is what `ShellIsAccepted` allows.

### `LiveTopicProofs.tla`

For every set of configs, sources and connections, any number of changes and navigations and
any size of the two buffers.  `Base` says who holds what between two steps: nobody refers to a
source that was not created (`References`), a source is read by the one task that holds its
lock and whose mark only grows behind it (`Readers`), a thread reports back once
(`Reports`), and topic and source agree about who is subscribed (`Subscriptions`).  Each
action has a lemma that says what it does (`...Does`) and one that it keeps `Base`; the
three results below cite the former.  Without `expire` the registry names every source that is
used (`Kept`), without `roam` the only round of a topic is for the config it wants (`Stays`).

* `ViewedIsTracked`: a step that ends the tracking of a config has found its source without
  viewers, and there is no other source of that config.
* `SavesAreNeverLost`: a source that is behind the disk has a dirty mark, or a requested
  refresh, or a save between its two locks; while it is read, a mark newer than the one the
  read began with (`Saved`).  A requested config has viewers (`Asked`), so that `unregister()`
  drops no request.
* `BrowserShowsItsSource`: `Newest` is what a browser shows once it got everything that was
  sent to it, the last message of outbox, line, buffer or page.  It moves only when a message
  is delivered (`DeliverPipes`, `OutboxPipes`, `TakePipes`), for the outbox is used only while
  its task is there, and the task waits only for a full buffer (`PipeOK`).  A viewer's `Newest` is
  what its source holds, or more is on the way: of a source that reads change, a whole table
  among the callbacks, which is the current one because who has read publishes after the
  tables queued before its thread reported back (`Orderly`); of a source that events change,
  increments in the inbox, which end with what the source holds and whose doorbell rings
  (`Pushes`).  Such a source is read only before its first viewer came.

### `WsClientProofs.tla`

For every set of topics and all bounds.  `SInv` collects: a call is in one place at most,
the queue, a socket, or run (`CallsOnce`); what is used and queued is of the login it was
made in (`OfLogin`); a refused connection and the verdict "over" are about a login that is
refused (`Refused`); an accepted connection is of the running backend, and a socket
left behind has nothing to tell of a backend older than the one of the used socket
(`Fresh`); what is shown is counted and of the open connection (`ShownOK`); without
`linger` there is one socket (`OneSocket`), and without `rejoin` too the connection serves
what is counted once it has handled what is on its way (`ServedSoon`).

Most steps of the client send nothing.  The lemma `QuietsKeep` treats all of them at once
by what they may do to sockets, backend and login (`Quiets`); the steps that send or
answer (`Sub`, `Unsub`, `Call`, `Opens`, `Deliver`, `HandleJob`, the login) have a lemma
each.  `CallRunsOnce` and `ShownIsCurrent` hold in all scenarios; `ServedIsCounted` needs the
absence of `linger` and `rejoin`, `SessionEndsRefused` that of `linger` and `slow`, and the
counterexamples of section 12 show why.

### `ThreadPoolProofs.tla`

For every set of callers, any number of threads and jobs.  `LockIsHeld` (who is
in the section of `create_lock` holds it), `SizeIsKept` (there is room as long as a caller
that looked may create, and every living thread that was not killed is listed), `OneOwner`
(a worker is idle, or being assigned by one caller, or has a next job, or runs one, or
exits), `KillIsAimed` (a kill has a worker that exists until its last step, and the
exception has reached it when `all_workers` loses it) and `DyingLeaves` are inductive
together, with kills at any point and each of their steps on its own.  `DyingLeaves` is
what makes `PoolIsUsable` hold in spite of the three steps: a worker that is dying is on the
list only for a caller before the second, in the idle set only for one before the last.
It rests on `TargetStays`: nobody delivers a job, and so takes its worker from it, while
it is being killed, because of `put_lock`.  That no dying worker is ever *taken* is false
(`IdleIsAlive`) and not claimed.  `NoJobIsLost` assumes nothing but that its
scenario has no kill, and is the safety part of `JobsAnswered`: a job without an answer is in
the hands of a worker that lives.

### `WorkerProcessProofs.tla`

For every set of scenarios and all bounds that are natural numbers.

`WaiterIsServed` is about the slot and the send loop, and a second caller could refill
the slot while the first one waits.  The invariant therefore adds `SlotIsTaken`: as long as
a message is in the slot or is being sent, and from the end of the send loop on,
`_worker_idle` is held.  An interrupt of the main thread in the middle of a hand-over
keeps it, which is where the two ways to unwind `send()` matter.

For `ShownIsTrue` the invariant says what the manager *will* show once it has read
everything that is on its way: what the main thread has still to send, what is in the
slot or being sent, and what is in the pipe, in that order (`ShownSoon`); nobody else tells
anything about tasks (`OthersTellNothing`), and the config is not modified (`NoEdits`).

### Only model-checked

* The liveness properties: `RestartEnds`, `KillSettles`, `QueuedStartsSettle`, `FlowEnds`,
  `Thaws`, `NoOrphans`, `SubscriberFed`, `JobsAnswered`, `OrphanEnds`, `StopEnds`, `KilledEnds`.
  Fairness and `ENABLED` are out of the prover's reach.  `NoJobIsLost` is the safety part of
  one of them.
* The properties of section 12, which are refuted.  Each restricted form that a run checks
  is proved.

`NoResumingInRestart` and the results about `WorkerStates` are checked by no run of
their own: they are proved for every set of configs, and `restart_graceful` shows, with
`ManagerImplementsWorkerStates`, that `WorkerManager` implements that module.

## 15. Not modelled

* `abandon_startup()`, which runs once, when a backend cannot start; `close()` beside a
  graceful restart (a flow is cancelled before the manager is closed).
* `close()` of the bridge, which only the tests call; the preview a page may ask a
  worker for; which task of a config is next.
* `PriorityThreadPool`, `PriorityCapacity` and the process pool, the resource cache,
  the file lock and Fail2Ban: sequential, or concurrent in the way of what is
  modelled.  They are the next candidates.
* The rest of the repository converts data (git objects, packs, archives, image
  matching, code generation, configuration schemas, path arithmetic), talks to
  devices and servers, or draws.  A state machine of these would restate the
  conversion.  They are most of the code by size, which is why the mapped share of it
  is small.

## 16. Plan

1. *(done)* `WorkerManager`, its runs, type correctness and the marks of a restart.
2. *(done)* `MaintenanceFlow` over the abstract manager `WorkerStates`, which
   `WorkerManager` implements; the proofs about `WorkerStates`.
3. *(done)* `Supervisor` with the resume file; `TokenRotation`.
4. *(done)* `LiveTopic` and `WsClient`: a table from its source to the page.
5. *(done)* `ThreadPool`.
6. *(done)* `WorkerProcess` and the proof of `WaiterIsServed`.
7. *(done)* Proofs of every safety invariant and action property the runs check, and of
   the refinement, in eight modules (section 14).
8. `PriorityThreadPool` and `PriorityCapacity`; the file lock.

## 17. How to run

    tlc -workers 2 -config WorkerLifecycle.cfg MCWorkerManager
    tlc -workers 2 -config Flows.cfg MCMaintenanceFlow
    tlc -workers 2 -config Supervised.cfg MCSupervisor
    tlc -workers 2 -config LiveTopic.cfg MCLiveTopic
    tlc -workers 2 -config TokenRotation.cfg MCTokenRotation
    tlc -workers 2 -config WsClient.cfg MCWsClient
    tlc -workers 2 -config ThreadPool.cfg MCThreadPool
    tlc -workers 2 -config WorkerProcess.cfg MCWorkerProcess
    tlapm WorkerManagerProofs.tla
    tlapm MaintenanceFlowProofs.tla
    tlapm SupervisorProofs.tla
    tlapm TokenRotationProofs.tla
    tlapm LiveTopicProofs.tla
    tlapm WsClientProofs.tla
    tlapm ThreadPoolProofs.tla
    tlapm WorkerProcessProofs.tla

Each `.cfg` names its specification, constants and properties; `PROJECT.json`
lists the runs, the mutated definitions every property was tried on, and the
source lines of every definition.
