----------------------------- MODULE Supervisor -----------------------------
(***************************************************************************)
(* The supervisor process (alasio/backend/supervisor.py), the backend it   *)
(* spawns again and again (entry.py, app/asgi.py, app/lifespan.py), the    *)
(* pipe between them, and the resume file one backend leaves for the next  *)
(* (app/restart/resume_file.py).  The main thread runs run(); a second     *)
(* thread reads commands of the host from stdin and runs between any two   *)
(* steps of the first.  A backend may die between any two of its steps.    *)
(***************************************************************************)
EXTENDS Naturals, Sequences, FiniteSets

CONSTANTS
    Scenarios,     \* sets of what may go wrong or be asked for in a behaviour
    MaxBackends,   \* bound: the last backend neither crashes nor restarts
    MaxRestarts,   \* max_restart_attempts
    RestartWindow, \* restart_window, in ticks
    MaxTime        \* bound: ticks of the clock

ASSUME SupervisorAssumption ==
    /\ MaxBackends \in Nat \ {0} /\ MaxRestarts \in Nat
    /\ RestartWindow \in Nat \ {0} /\ MaxTime \in Nat

VARIABLES
    scenario,  \* what the environment does in this behaviour
    main,      \* the main thread: where run() is, and its local startup_success
    flag,      \* restart_requested, stop_requested, _stdin_eof, sigint_count
    slot,      \* resume_token and the ALASIO_RESUME_TOKEN of os.environ
    times,     \* restart_times: which entries of log it still holds
    now,       \* the clock
    listener,  \* the stdin thread is alive
    host,      \* Electron: has stdin open; wrote a command:stop nobody read
    conn,      \* parent_conn is attached
    up, down,  \* the pipe: messages of the backend; a command:stop to it
    be,        \* the backend process
    disk,      \* the resume files on disk, each named by its credential
    resumed,   \* history: by which backends a resume file was consumed
    served,    \* history: the backends that announced command:started
    retracted, \* history: the credentials taken back
    log        \* history: the time of every restart after a crash

superv == <<main, flag, slot, times, listener, conn>>
vars == <<scenario, main, flag, slot, times, now, listener, host, conn, up, down,
          be, disk, resumed, served, retracted, log>>

Backends == 1..MaxBackends
\* A backend publishes at most one resume file: write() is called once per
\* handover.  No credential is 0, the empty string of the code.
Credentials == Backends

\* What a backend tells the supervisor; resume carries a credential, or none to
\* take it back.
Messages == [kind : {"spawned", "started", "restart", "stop", "resume"},
             cred : 0..MaxBackends]

Phases == {"boot", "starting", "serving", "down", "dead"}

InTry == {"cleanup", "spawn", "window", "serving", "decide", "delay"}
MainPcs == InTry \cup {"graceful", "stopping", "force", "finally", "ended"}

TypeOK ==
    /\ main \in [pc : MainPcs, ok : BOOLEAN]
    /\ flag \in [restart : BOOLEAN, stop : BOOLEAN, eof : BOOLEAN, sigints : 0..3]
    /\ slot \in [token : 0..MaxBackends, env : 0..MaxBackends]
    /\ log \in Seq(0..MaxTime) /\ times \subseteq DOMAIN log
    /\ now \in 0..MaxTime /\ listener \in BOOLEAN /\ conn \in BOOLEAN
    /\ host \in [open : BOOLEAN, said : BOOLEAN]
    /\ up \in Seq(Messages) /\ down \in BOOLEAN
    /\ be \in [id : 0..MaxBackends, phase : Phases, env : 0..MaxBackends, read : BOOLEAN,
               pub : {"none", "written", "announced", "removed", "withdrawn"},
               abort : BOOLEAN]
    /\ disk \subseteq Credentials
    /\ resumed \in [Credentials -> SUBSET Backends]
    /\ served \subseteq Backends /\ retracted \subseteq Credentials

Alive == be.phase # "dead"
Connected == Alive /\ conn

Init ==
    /\ scenario \in Scenarios
    /\ main = [pc |-> "cleanup", ok |-> FALSE]
    /\ flag = [restart |-> FALSE, stop |-> FALSE, eof |-> FALSE, sigints |-> 0]
    /\ slot = [token |-> 0, env |-> 0]
    /\ times = {} /\ now = 0 /\ log = <<>>
    /\ listener = FALSE /\ conn = FALSE
    /\ host = [open |-> TRUE, said |-> FALSE]
    /\ up = <<>> /\ down = FALSE
    /\ be = [id |-> 0, phase |-> "dead", env |-> 0, read |-> TRUE, pub |-> "none",
             abort |-> FALSE]
    /\ disk = {} /\ resumed = [c \in Credentials |-> {}]
    /\ served = {} /\ retracted = {}

-----------------------------------------------------------------------------
(* The main thread: run().                                                 *)

Goto(pc) == main' = [main EXCEPT !.pc = pc]

\* cleanup() at the top of the loop: no backend is alive here.
CleanUp ==
    /\ main.pc = "cleanup" /\ Goto("spawn")
    /\ conn' = FALSE
    /\ UNCHANGED <<scenario, flag, slot, times, now, listener, host, up, down, be,
                   disk, resumed, served, retracted, log>>

\* The environment the child inherits: the announced credential is written over
\* an older one, no credential leaves the variable alone.
Injected == IF slot.token # 0 THEN slot.token ELSE slot.env

\* start_backend(): joins the stdin thread, then spawns.
StartBackend ==
    /\ main.pc = "spawn" /\ be.id < MaxBackends
    /\ main' = [pc |-> "window", ok |-> FALSE]
    /\ listener' = FALSE /\ conn' = TRUE
    /\ slot' = [slot EXCEPT !.env = Injected]
    /\ be' = [id |-> be.id + 1, phase |-> "boot", env |-> Injected, read |-> FALSE,
              pub |-> "none", abort |-> FALSE]
    /\ up' = <<>> /\ down' = FALSE
    /\ UNCHANGED <<scenario, flag, times, now, host, disk, resumed, served, retracted, log>>

\* Mutated Kept: an empty credential does not clear the slot.
Kept_NoRetract(m) ==
    CASE m.kind = "started" -> [token |-> 0, env |-> 0]
      [] m.kind = "resume" /\ m.cred # 0 -> [slot EXCEPT !.token = m.cred]
      [] OTHER -> slot

\* Mutated Kept: command:started forgets the environment.
Kept_Residue(m) ==
    CASE m.kind = "started" -> [slot EXCEPT !.token = 0]
      [] m.kind = "resume" -> [slot EXCEPT !.token = m.cred]
      [] OTHER -> slot

\* handle_backend_message(): command:started has served the credential, a
\* credential overwrites the slot, an empty one clears it, command:stop is a
\* first CTRL+C.
Kept(m) ==
    CASE m.kind = "started" -> [token |-> 0, env |-> 0]
      [] m.kind = "resume" -> [slot EXCEPT !.token = m.cred]
      [] OTHER -> slot

\* recv_loop() takes one message.  The first one that is not command:spawned
\* ends the startup window; the stdin thread runs from command:spawned on.
Receive ==
    /\ main.pc \in {"window", "serving"} /\ ~flag.eof /\ up # <<>>
    /\ up' = Tail(up)
    /\ LET m == Head(up) IN
         /\ slot' = Kept(m)
         /\ flag' = [flag EXCEPT !.restart = @ \/ m.kind = "restart",
                                 !.sigints = IF m.kind = "stop" THEN @ + 1 ELSE @]
         /\ main' = CASE m.kind = "stop" -> [main EXCEPT !.pc = "graceful"]
                      [] m.kind = "spawned" -> main
                      [] OTHER -> [pc |-> "serving", ok |-> TRUE]
         /\ listener' = (listener \/ (main.pc = "window" /\ m.kind # "stop"))
    /\ UNCHANGED <<scenario, times, now, host, conn, down, be, disk, resumed, served,
                   retracted, log>>

\* Mutated StartupTimeout: leaves the stdin thread to command:spawned.
StartupTimeout_NoListener ==
    /\ main.pc = "window" /\ ~flag.eof
    /\ main' = [pc |-> "serving", ok |-> TRUE]
    /\ UNCHANGED <<scenario, flag, slot, times, now, listener, host, conn, up, down, be,
                   disk, resumed, served, retracted, log>>

\* startup_timeout passed with no message that confirms the start.
StartupTimeout ==
    /\ main.pc = "window" /\ ~flag.eof
    /\ main' = [pc |-> "serving", ok |-> TRUE]
    /\ listener' = TRUE
    /\ UNCHANGED <<scenario, flag, slot, times, now, host, conn, up, down, be, disk,
                   resumed, served, retracted, log>>

\* recv_loop() raises ParentProcessExited.
HostLost ==
    /\ main.pc \in {"window", "serving"} /\ flag.eof /\ Goto("graceful")
    /\ UNCHANGED <<scenario, flag, slot, times, now, listener, host, conn, up, down,
                   be, disk, resumed, served, retracted, log>>

\* The pipe is drained and broken: recv_loop() returns, wait_for_backend() too.
BackendEnded ==
    /\ main.pc \in {"window", "serving"} /\ ~flag.eof
    /\ up = <<>> /\ ~Alive
    /\ Goto("decide")
    /\ UNCHANGED <<scenario, flag, slot, times, now, listener, host, conn, up, down,
                   be, disk, resumed, served, retracted, log>>

\* Mutated Recent: forgets a restart one tick early.
Recent_Short == {i \in times : now - log[i] < RestartWindow - 1}

\* restart_times after _check_restart_limit() dropped the old ones.
Recent == {i \in times : now - log[i] < RestartWindow}

\* What run() does with a backend that ended.
Decide ==
    /\ main.pc = "decide"
    /\ IF flag.eof \/ flag.stop \/ ~main.ok
         THEN Goto("finally") /\ UNCHANGED <<flag, times, log>>
         ELSE IF flag.restart
         THEN Goto("cleanup") /\ flag' = [flag EXCEPT !.restart = FALSE]
              /\ UNCHANGED <<times, log>>
         ELSE IF Cardinality(Recent) >= MaxRestarts
         THEN Goto("finally") /\ times' = Recent /\ UNCHANGED <<flag, log>>
         ELSE Goto("delay") /\ log' = Append(log, now)
              /\ times' = Recent \cup {Len(log) + 1} /\ UNCHANGED flag
    /\ UNCHANGED <<scenario, slot, now, listener, host, conn, up, down, be, disk,
                   resumed, served, retracted>>

\* The restart delay is over, or cut short by the stdin thread.
DelayEnds ==
    /\ main.pc = "delay"
    /\ Goto(IF flag.eof \/ flag.stop THEN "finally" ELSE "cleanup")
    /\ UNCHANGED <<scenario, flag, slot, times, now, listener, host, conn, up, down,
                   be, disk, resumed, served, retracted, log>>

\* graceful_shutdown() up to its wait.
SendStop ==
    /\ main.pc = "graceful" /\ Goto(IF Alive THEN "stopping" ELSE "finally")
    /\ down' = (down \/ Connected)
    /\ UNCHANGED <<scenario, flag, slot, times, now, listener, host, conn, up, be,
                   disk, resumed, served, retracted, log>>

\* ... the backend ended while it waited, or did not in time.
WaitEnds ==
    /\ main.pc = "stopping" /\ Goto(IF Alive THEN "force" ELSE "finally")
    /\ UNCHANGED <<scenario, flag, slot, times, now, listener, host, conn, up, down,
                   be, disk, resumed, served, retracted, log>>

\* force_shutdown() kills the backend.
ForceShutdown ==
    /\ main.pc = "force" /\ Goto("finally")
    /\ be' = [be EXCEPT !.phase = "dead"] /\ conn' = FALSE
    /\ UNCHANGED <<scenario, flag, slot, times, now, listener, host, up, down,
                   disk, resumed, served, retracted, log>>

\* The finally clause of run(): cleanup() and stop_stdin_listener().
Leave ==
    /\ main.pc = "finally" /\ Goto("ended")
    /\ be' = [be EXCEPT !.phase = "dead"] /\ conn' = FALSE /\ listener' = FALSE
    /\ UNCHANGED <<scenario, flag, slot, times, now, host, up, down, disk, resumed, served,
                   retracted, log>>

\* handle_sigint() on a signal: the first raises KeyboardInterrupt into run(),
\* which asks the backend to stop, one more while it waits kills the backend.
Signal ==
    /\ "signal" \in scenario /\ main.pc # "ended" /\ flag.sigints < 3
    /\ flag' = [flag EXCEPT !.sigints = @ + 1]
    /\ main' = [main EXCEPT !.pc = IF flag.sigints >= 2 THEN @
                                   ELSE IF @ \in InTry THEN "graceful"
                                   ELSE IF @ \in {"graceful", "stopping"} THEN "force"
                                   ELSE @]
    /\ UNCHANGED <<scenario, slot, times, now, listener, host, conn, up, down, be, disk,
                   resumed, served, retracted, log>>

\* The supervisor process is killed: the pipe breaks, the backend lives on.
Killed ==
    /\ "kill" \in scenario /\ main.pc # "ended" /\ Goto("ended")
    /\ conn' = FALSE /\ listener' = FALSE
    /\ UNCHANGED <<scenario, flag, slot, times, now, host, up, down, be, disk, resumed,
                   served, retracted, log>>

Main == CleanUp \/ StartBackend \/ Receive \/ StartupTimeout \/ HostLost \/ BackendEnded
        \/ Decide \/ DelayEnds \/ SendStop \/ WaitEnds \/ ForceShutdown \/ Leave
-----------------------------------------------------------------------------
(* The stdin thread, the host behind it and the clock.                     *)

\* _handle_stdin_line() of command:stop: raises the flag, forwards the command
\* if a backend is attached, and ends the thread.
ReadStop ==
    /\ listener /\ host.said
    /\ flag' = [flag EXCEPT !.stop = TRUE]
    /\ host' = [host EXCEPT !.said = FALSE]
    /\ down' = (down \/ Connected)
    /\ listener' = FALSE
    /\ UNCHANGED <<scenario, main, slot, times, now, conn, up, be, disk, resumed, served,
                   retracted, log>>

\* _stdin_loop() reads the end of the stream.
ReadEof ==
    /\ listener /\ ~host.said /\ ~host.open
    /\ flag' = [flag EXCEPT !.eof = TRUE]
    /\ listener' = FALSE
    /\ UNCHANGED <<scenario, main, slot, times, now, host, conn, up, down, be, disk,
                   resumed, served, retracted, log>>

\* The host writes command:stop; the host dies or closes stdin.
HostStops ==
    /\ "host" \in scenario /\ host.open /\ ~host.said /\ ~flag.stop
    /\ host' = [host EXCEPT !.said = TRUE]
    /\ UNCHANGED <<scenario, superv, now, up, down, be, disk, resumed, served, retracted, log>>

HostDies ==
    /\ "host" \in scenario /\ host.open
    /\ host' = [host EXCEPT !.open = FALSE]
    /\ UNCHANGED <<scenario, superv, now, up, down, be, disk, resumed, served, retracted, log>>

Tick ==
    /\ "clock" \in scenario /\ now < MaxTime /\ now' = now + 1
    /\ UNCHANGED <<scenario, superv, host, up, down, be, disk, resumed, served, retracted, log>>
-----------------------------------------------------------------------------
(* The backend process.                                                    *)

Send(kind, cred) ==
    up' = IF conn THEN Append(up, [kind |-> kind, cred |-> cred]) ELSE up
Say(kind) == Send(kind, 0)
Quiet == UNCHANGED <<scenario, superv, now, host, served, retracted, log>>

\* backend_process_entry() announces command:spawned.
Boot ==
    /\ be.phase = "boot" /\ be' = [be EXCEPT !.phase = "starting"]
    /\ Say("spawned")
    /\ UNCHANGED <<down, disk, resumed>> /\ Quiet

\* create_sockets() binds the port and announces command:started, or fails.
Bind ==
    /\ be.phase = "starting" /\ be' = [be EXCEPT !.phase = "serving"]
    /\ Say("started")
    /\ served' = served \cup {be.id}
    /\ UNCHANGED <<scenario, superv, now, host, retracted, log, down, disk, resumed>>

\* ResumeFiles.read() in the startup flow: the payload is taken and the file
\* removed; a removal that fails is only logged.
ReadIntent ==
    /\ be.phase \in {"starting", "serving"} /\ ~be.read
    /\ be' = [be EXCEPT !.read = TRUE]
    /\ IF be.env \in disk
         THEN /\ resumed' = [resumed EXCEPT ![be.env] = @ \cup {be.id}]
              /\ \/ disk' = disk \ {be.env}
                 \/ "undeletable" \in scenario /\ disk' = disk
         ELSE UNCHANGED <<resumed, disk>>
    /\ UNCHANGED <<up, down>> /\ Quiet

\* write() of a flow that hands over, in two steps: the file, then its
\* credential.
WriteIntent ==
    /\ "publish" \in scenario /\ be.phase = "serving" /\ be.read /\ ~be.abort
    /\ be.pub = "none"
    /\ be' = [be EXCEPT !.pub = "written"]
    /\ disk' = disk \cup {be.id}
    /\ UNCHANGED <<up, down, resumed>> /\ Quiet

AnnounceIntent ==
    /\ Alive /\ be.pub = "written"
    /\ be' = [be EXCEPT !.pub = "announced"]
    /\ Send("resume", be.id)
    /\ UNCHANGED <<down, disk, resumed>> /\ Quiet

\* withdraw(), in two steps as well: by a flow that gave up, a forced restart,
\* or abort().
RemoveIntent ==
    /\ Alive /\ be.pub = "announced"
    /\ \/ be.abort
       \/ "withdraw" \in scenario /\ be.phase = "serving"
    /\ be' = [be EXCEPT !.pub = "removed"]
    /\ \/ disk' = disk \ {be.id}
       \/ "undeletable" \in scenario /\ disk' = disk
    /\ UNCHANGED <<up, down, resumed>> /\ Quiet

RetractIntent ==
    /\ Alive /\ be.pub = "removed"
    /\ be' = [be EXCEPT !.pub = "withdrawn"]
    /\ Send("resume", 0)
    /\ retracted' = retracted \cup {be.id}
    /\ UNCHANGED <<scenario, superv, now, host, served, log, down, disk, resumed>>

\* lifespan_restart() and lifespan_stop(): tell the supervisor, then go down.
RequestRestart ==
    /\ "restart" \in scenario /\ be.phase = "serving" /\ ~be.abort /\ be.id < MaxBackends
    /\ be.pub \in {"none", "announced", "withdrawn"}
    /\ be' = [be EXCEPT !.phase = "down"] /\ Say("restart")
    /\ UNCHANGED <<down, disk, resumed>> /\ Quiet

RequestStop ==
    /\ "stop" \in scenario /\ be.phase = "serving" /\ ~be.abort
    /\ be' = [be EXCEPT !.phase = "down"] /\ Say("stop")
    /\ UNCHANGED <<down, disk, resumed>> /\ Quiet

\* mpipe_recv_loop() reads command:stop or a broken pipe: abort() takes the
\* publication back, then the shutdown event is set.
ReceiveStop ==
    /\ be.phase \in {"starting", "serving", "down"} /\ ~be.abort /\ (down \/ ~conn)
    /\ be' = [be EXCEPT !.abort = TRUE] /\ down' = FALSE
    /\ UNCHANGED <<up, disk, resumed>> /\ Quiet

Aborted ==
    /\ be.abort /\ be.phase \in {"starting", "serving"}
    /\ be.pub \in {"none", "withdrawn"}
    /\ be' = [be EXCEPT !.phase = "down"]
    /\ UNCHANGED <<up, down, disk, resumed>> /\ Quiet

\* The process of a backend that goes down ends.
Exit ==
    /\ be.phase = "down" /\ be' = [be EXCEPT !.phase = "dead"]
    /\ UNCHANGED <<up, down, disk, resumed>> /\ Quiet

\* It dies for another reason: at any time, or where it cannot start.
Crash ==
    /\ be.id < MaxBackends
    /\ \/ "crash" \in scenario /\ Alive
       \/ "bind" \in scenario /\ be.phase = "starting"
    /\ be' = [be EXCEPT !.phase = "dead"]
    /\ UNCHANGED <<up, down, disk, resumed>> /\ Quiet

Backend == Boot \/ Bind \/ ReadIntent \/ WriteIntent \/ AnnounceIntent \/ RemoveIntent
           \/ RetractIntent \/ RequestRestart \/ RequestStop \/ ReceiveStop \/ Aborted
           \/ Exit \/ Crash

\* Supervisor and backend are gone, or the backend serves and nothing happens.
AtRest ==
    /\ \/ main.pc = "ended" /\ ~Alive
       \/ main.pc = "serving" /\ be.phase = "serving" /\ up = <<>>
    /\ UNCHANGED vars

Next == Main \/ Signal \/ Killed \/ ReadStop \/ ReadEof \/ HostStops \/ HostDies \/ Tick
        \/ Backend \/ AtRest

Spec == Init /\ [][Next]_vars

\* The two threads of the supervisor run; a backend boots, and one told to stop
\* comes down.
LiveSpec ==
    /\ Spec
    /\ WF_vars(Main) /\ WF_vars(ReadStop \/ ReadEof)
    /\ WF_vars(RemoveIntent /\ be.abort) /\ WF_vars(AnnounceIntent) /\ WF_vars(RetractIntent)
    /\ WF_vars(Boot) /\ WF_vars(ReceiveStop) /\ WF_vars(Aborted) /\ WF_vars(Exit)
-----------------------------------------------------------------------------
(* Properties.                                                             *)

\* A resume file whose credential was taken back is consumed by no backend,
\* whatever became of the file and of the processes (resume_file.py).
WithdrawnNeverResumed == \A c \in retracted : resumed[c] = {}

\* At most one of the backends that came up consumed a resume file, even when
\* its removal failed: command:started takes the credential out of the slot and
\* of the environment (handle_backend_message).
ResumedByOneServer == \A c \in Credentials : Cardinality(resumed[c] \cap served) <= 1

\* No span of restart_window sees more than max_restart_attempts restarts after
\* a crash (_check_restart_limit).
CrashLoopBounded ==
    \A t \in 0..MaxTime :
        Cardinality({i \in DOMAIN log : t <= log[i] /\ log[i] < t + RestartWindow})
            <= MaxRestarts

\* Once the host is gone the supervisor ends (start_stdin_listener, recv_loop),
\* and a supervisor that ended, or was killed, leaves no backend behind
\* (mpipe_recv_loop).
NoOrphans == (~host.open \/ main.pc = "ended") ~> (main.pc = "ended" /\ ~Alive)

\* The comment of run(): "never spawn a backend that nobody is left to manage":
\* once a stop was read from stdin no backend is started.
StopNeverSpawns == [][be'.id # be.id => ~flag.stop]_vars
=============================================================================
