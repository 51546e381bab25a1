---------------------------- MODULE WorkerStates ----------------------------
(***************************************************************************)
(* What the worker manager promises about a config: the abstract life      *)
(* cycle that alasio/backend/worker/manager.py implements with entries,    *)
(* pipes, processes and threads.  A config is idle, up, ending, parked for *)
(* a graceful restart, or queued for auto-resume; a graceful restart       *)
(* collects what was up into a frozen list.  WorkerManager implements this *)
(* specification, MaintenanceFlow is built on it.                          *)
(***************************************************************************)

CONSTANT Configs

VARIABLES
    status,  \* config -> what its worker is doing
    mark,    \* config -> a graceful restart wants it back (pending_restart)
    run      \* the graceful restart in flight

vars == <<status, mark, run>>

Statuses == {"idle", "up", "ending", "parked", "resuming"}

NoRun == [inflight |-> FALSE, abort |-> TRUE, frozen |-> FALSE, list |-> {}]

NewRun == [inflight |-> TRUE, abort |-> FALSE, frozen |-> FALSE, list |-> {}]

TypeOK ==
    /\ status \in [Configs -> Statuses]
    /\ mark \in [Configs -> BOOLEAN]
    /\ run \in [inflight : BOOLEAN, abort : BOOLEAN, frozen : BOOLEAN,
                list : SUBSET Configs]
    /\ run.inflight \/ run = NoRun

Init ==
    /\ status = [c \in Configs |-> "idle"]
    /\ mark = [c \in Configs |-> FALSE]
    /\ run = NoRun

With(s) == {c \in Configs : status[c] = s}

Move(c, s, m) ==
    /\ status' = [status EXCEPT ![c] = s]
    /\ mark' = [mark EXCEPT ![c] = m]
    /\ UNCHANGED run

----------------------------------------------------------------------------

\* A worker is started: never while a graceful restart is in flight.
Start(c) == ~run.inflight /\ status[c] = "idle" /\ Move(c, "up", FALSE)

\* A start is queued while a flow owns the backend: parked when the workers are
\* being stopped already, refused once the list is frozen.
QueueStart(c) ==
    /\ status[c] = "idle"
    /\ ~(run.inflight /\ run.frozen)
    /\ Move(c, IF run.inflight THEN "parked" ELSE "resuming", run.inflight)

\* The resume queue starts a queued config.
Resume(c) == ~run.inflight /\ status[c] = "resuming" /\ Move(c, "up", mark[c])

\* The worker is asked to stop, its resume kept, or its pipe breaks.
Stop(c) == status[c] = "up" /\ Move(c, "ending", mark[c])

\* The worker is killed for good.
GiveUp(c) == status[c] \in {"up", "ending"} /\ Move(c, "ending", FALSE)

\* The stop request is taken back.
Continue(c) == status[c] = "ending" /\ Move(c, "up", mark[c])

\* The worker is gone, or could not be spawned.
Ended(c) ==
    /\ status[c] \in {"up", "ending"}
    /\ Move(c, IF mark[c] THEN "parked" ELSE "idle", mark[c])

\* Mutated Cancellable: the frozen list is not looked at.
Cancellable_Unfrozen(c) == status[c] \in {"resuming", "parked"}

\* The user cancels the auto-resume of a config without a process, unless the
\* frozen list holds it.
Cancellable(c) ==
    \/ status[c] = "resuming"
    \/ status[c] = "parked" /\ ~(run.inflight /\ c \in run.list)

CancelResume(c) == Cancellable(c) /\ Move(c, "idle", FALSE)

\* The idle ones of a set of configs are queued for auto-resume.
MarkResume(S) ==
    /\ ~run.inflight
    /\ status' = [c \in Configs |-> IF c \in S /\ status[c] = "idle" THEN "resuming"
                                    ELSE status[c]]
    /\ UNCHANGED <<mark, run>>

\* The queued ones of a set of configs are given up.
DropResume(S) ==
    /\ status' = [c \in Configs |-> IF c \in S /\ status[c] = "resuming" THEN "idle"
                                    ELSE status[c]]
    /\ UNCHANGED <<mark, run>>

\* A graceful restart takes everything that is up or queued.
RestartBegin ==
    /\ ~run.inflight
    /\ run' = NewRun
    /\ mark' = [c \in Configs |-> mark[c] \/ status[c] \in {"up", "resuming"}]
    /\ status' = [c \in Configs |-> IF status[c] = "resuming" THEN "parked" ELSE status[c]]

\* Every worker stopped: the list of what comes back is final.
Freeze ==
    /\ run.inflight /\ ~run.abort
    /\ \A c \in Configs : status[c] \in {"idle", "parked"}
    /\ run' = [run EXCEPT !.frozen = TRUE, !.list = With("parked")]
    /\ UNCHANGED <<status, mark>>

\* The wait for the workers is told to end.
RestartAbort ==
    /\ run.inflight
    /\ run' = [run EXCEPT !.abort = TRUE]
    /\ UNCHANGED <<status, mark>>

\* The restart is taken back: whoever is parked or queued is idle again, and
\* whoever is still ending will be.
RestartCancel ==
    /\ run' = NoRun
    /\ mark' = [c \in Configs |-> FALSE]
    /\ status' = [c \in Configs |-> IF status[c] \in {"parked", "resuming"} THEN "idle"
                                    ELSE status[c]]

Next ==
    \/ \E c \in Configs :
         \/ Start(c) \/ QueueStart(c) \/ Resume(c) \/ Stop(c) \/ GiveUp(c)
         \/ Continue(c) \/ Ended(c) \/ CancelResume(c)
         \/ MarkResume({c}) \/ DropResume({c})
    \/ RestartBegin \/ Freeze \/ RestartAbort \/ RestartCancel

Spec == Init /\ [][Next]_vars

----------------------------------------------------------------------------
(* Properties                                                              *)

\* A graceful restart collects what was queued for auto-resume, and nothing is
\* queued while it runs: the queue and the restart never own a config together.
RestartOwnsTheQueue == run.inflight => With("resuming") = {}

\* The frozen list is what the resume file is written from: as long as the
\* restart stands, exactly its configs are parked and nothing else runs.
FrozenListExact ==
    run.frozen => /\ run.inflight
                  /\ run.list = With("parked")
                  /\ \A c \in Configs : status[c] \in {"idle", "parked"}

\* A parked config carries the mark of a restart, and without a restart nothing
\* is parked: no config waits for a restart that is over.
ParkedForARestart ==
    \A c \in Configs : status[c] = "parked" => run.inflight /\ mark[c]

\* Once frozen, the list does not change before the restart is taken back.
ListIsFinal == [][run.frozen /\ run'.frozen => run'.list = run.list]_vars

=============================================================================
