----------------------------- MODULE ThreadPool -----------------------------
(***************************************************************************)
(* alasio/ext/concurrent/threadpool.py: callers that hand jobs to worker   *)
(* threads, create threads up to the size of the pool, wait for one when   *)
(* it is full, and kill the thread of a job that takes too long.           *)
(* A step is one access to what the threads share: the idle set, the set   *)
(* of all workers, a lock, the exception a thread has pending.  The wait   *)
(* on notify_pool ends after 10 ms whether notified or not, so a waiting   *)
(* caller may look at the pool at any time.  A pending exception is raised *)
(* before its thread touches the pool again: the interpreter looks for one *)
(* when the call of the function of a job returns.  Scenarios:             *)
(*   kill     get_or_kill() times out, for the callers that use it;        *)
(*   recycle  a new thread may get the ident of one that has ended;        *)
(*   swallow  the function of a job may catch the JobKill.                 *)
(***************************************************************************)
EXTENDS Naturals, FiniteSets

CONSTANTS
    Scenarios,  \* sets of what may happen in a behaviour
    Callers,    \* threads that submit jobs
    Killers,    \* those that wait with get_or_kill(), the others with get()
    MaxJobs,    \* bound: jobs of a caller
    Workers,    \* bound: WorkerThread objects
    Size        \* pool_size

VARIABLES
    scenario,  \* what may happen in this behaviour
    idle,      \* idle_workers
    all,       \* all_workers
    create,    \* the caller that holds create_lock
    work,      \* the worker threads, exc a JobKill that is pending
    caller,    \* the callers
    job        \* the jobs: their worker and notify_get

vars == <<scenario, idle, all, create, work, caller, job>>

Jobs == Callers \X (1..MaxJobs)
NoOne == "none"

ASSUME ConstantsAssumption ==
    /\ NoOne \notin Callers \cup Workers /\ Killers \subseteq Callers
    /\ MaxJobs \in Nat /\ Size \in Nat

NoWork == [pc |-> "none", doing |-> <<>>, next |-> <<>>, exc |-> FALSE, ident |-> NoOne]
NoJob == [worker |-> NoOne, notified |-> FALSE]

Init ==
    /\ scenario \in Scenarios
    /\ idle = {} /\ all = {} /\ create = NoOne
    /\ work = [w \in Workers |-> NoWork]
    /\ caller = [c \in Callers |-> [pc |-> "ready", n |-> 0, w |-> NoOne]]
    /\ job = [j \in Jobs |-> NoJob]

Alive(w) == work[w].pc \notin {"none", "dead"}
Full == Cardinality(all) >= Size
-----------------------------------------------------------------------------
(* Callers: _get_thread_worker() and start_thread_soon().                  *)

Goto(c, pc) == caller' = [caller EXCEPT ![c].pc = pc]

\* idle_workers.popitem()
Pop(c) ==
    \E w \in idle : /\ idle' = idle \ {w}
                    /\ caller' = [caller EXCEPT ![c].pc = "assign", ![c].w = w]

Reuse(c) ==
    /\ caller[c].pc = "ready" /\ caller[c].n < MaxJobs
    /\ IF idle # {} THEN Pop(c) ELSE Goto(c, "look") /\ UNCHANGED idle
    /\ UNCHANGED <<scenario, all, create, work, job>>

Look(c) ==
    /\ caller[c].pc = "look" /\ Goto(c, IF Full THEN "full" ELSE "lock")
    /\ UNCHANGED <<scenario, idle, all, create, work, job>>

\* The wait without create_lock: a look at the idle set, then one at the size.
WaitFull(c) ==
    /\ caller[c].pc = "full"
    /\ IF idle # {} THEN Pop(c) ELSE Goto(c, "fullsize") /\ UNCHANGED idle
    /\ UNCHANGED <<scenario, all, create, work, job>>

SizeAgain(c) ==
    /\ caller[c].pc = "fullsize" /\ Goto(c, IF Full THEN "full" ELSE "lock")
    /\ UNCHANGED <<scenario, idle, all, create, work, job>>

Lock(c) ==
    /\ caller[c].pc = "lock" /\ create = NoOne
    /\ create' = c /\ Goto(c, "locked")
    /\ UNCHANGED <<scenario, idle, all, work, job>>

\* Mutated LookAgain: the size is not looked at again under the lock.
LookAgain_Trusts(c) ==
    /\ caller[c].pc = "locked" /\ Goto(c, "lockedpop")
    /\ UNCHANGED <<scenario, idle, all, create, work, job>>

\* The second look at the size, under create_lock.
LookAgain(c) ==
    /\ caller[c].pc = "locked" /\ Goto(c, IF Full THEN "lockedfull" ELSE "lockedpop")
    /\ UNCHANGED <<scenario, idle, all, create, work, job>>

\* A worker that became idle in the meantime is taken and the lock released;
\* otherwise one is created, in a full pool once there is room (SizeLocked).
PopLocked(c) ==
    /\ caller[c].pc \in {"lockedpop", "lockedfull"}
    /\ IF idle # {} THEN Pop(c) /\ create' = NoOne
       ELSE /\ Goto(c, IF caller[c].pc = "lockedpop" THEN "create" ELSE "lockedsize")
            /\ UNCHANGED <<idle, create>>
    /\ UNCHANGED <<scenario, all, work, job>>

SizeLocked(c) ==
    /\ caller[c].pc = "lockedsize" /\ Goto(c, IF Full THEN "lockedfull" ELSE "create")
    /\ UNCHANGED <<scenario, idle, all, create, work, job>>

\* The ident of a new thread: its own or, "recycle", that of one that has ended.
Idents(w) ==
    LET ended == {v \in Workers : work[v].pc = "dead" /\ "recycle" \in scenario}
        living == {v \in Workers : Alive(v)}
    IN {w} \cup ({work[v].ident : v \in ended} \ {work[v].ident : v \in living})

\* The new WorkerThread: those that are not made yet are all alike.
Unused == {w \in Workers : work[w].pc = "none"}

Create(c) ==
    /\ caller[c].pc = "create"
    /\ Unused # {}
    /\ LET w == CHOOSE v \in Unused : TRUE IN \E id \in Idents(w) :
         /\ work' = [work EXCEPT ![w].pc = "wait", ![w].ident = id] /\ all' = all \cup {w}
         /\ caller' = [caller EXCEPT ![c].pc = "assign", ![c].w = w]
    /\ create' = NoOne
    /\ UNCHANGED <<scenario, idle, job>>

\* The job is made, set on the worker and worker_lock released.
Assign(c) ==
    LET j == <<c, caller[c].n + 1>> IN
    /\ caller[c].pc = "assign"
    /\ job' = [job EXCEPT ![j].worker = caller[c].w]
    /\ work' = [work EXCEPT ![caller[c].w].next = j]
    /\ caller' = [caller EXCEPT ![c].pc = "wait", ![c].w = NoOne, ![c].n = @ + 1]
    /\ UNCHANGED <<scenario, idle, all, create>>

\* get()
Answered(c) ==
    /\ caller[c].pc = "wait" /\ job[<<c, caller[c].n>>].notified /\ Goto(c, "ready")
    /\ UNCHANGED <<scenario, idle, all, create, work, job>>

\* get_or_kill(): the timeout of the wait for the result has passed.
Expires(c) ==
    /\ "kill" \in scenario /\ c \in Killers /\ caller[c].pc = "wait" /\ ~job[<<c, caller[c].n>>].notified
    /\ Goto(c, "expired")
    /\ UNCHANGED <<scenario, idle, all, create, work, job>>

\* The worker of the job of a caller, and who kills it: the caller holds put_lock
\* from PyThreadState_SetAsyncExc() until the worker is out of both sets.
Target(c) == job[<<c, caller[c].n>>].worker
Kills(c) == caller[c].pc \in {"unlist", "unidle"}
PutLocked(j) == \E c \in Callers : Kills(c) /\ j = <<c, caller[c].n>>

\* _kill() takes put_lock and kill() sets the exception of the thread with the ident
\* of the worker.  A job that was delivered in the meantime has no worker.
Strike(c) ==
    /\ caller[c].pc = "expired"
    /\ IF Target(c) = NoOne
       THEN Goto(c, "ready") /\ UNCHANGED work
       ELSE /\ Goto(c, "unlist")
            /\ work' = [v \in Workers |-> [work[v] EXCEPT !.exc =
                           @ \/ (Alive(v) /\ work[v].ident = work[Target(c)].ident)]]
    /\ UNCHANGED <<scenario, idle, all, create, job>>

Unlist(c) ==
    /\ caller[c].pc = "unlist" /\ all' = all \ {Target(c)} /\ Goto(c, "unidle")
    /\ UNCHANGED <<scenario, idle, create, work, job>>

\* The last step: the job loses its worker and put_lock is released.
Forget(c) ==
    /\ caller[c].pc = "unidle" /\ Goto(c, "ready")
    /\ job' = [job EXCEPT ![<<c, caller[c].n>>].worker = NoOne]
    /\ UNCHANGED <<scenario, all, create, work>>

\* Mutated Unidle: the worker stays in the idle set.
Unidle_LeavesIdle(c) == Forget(c) /\ UNCHANGED idle

Unidle(c) == Forget(c) /\ idle' = idle \ {Target(c)}
-----------------------------------------------------------------------------
(* Worker threads: _work() and _handle_job().                              *)

Take(w) ==
    /\ work[w].pc = "wait" /\ work[w].next # <<>> /\ ~work[w].exc
    /\ work' = [work EXCEPT ![w].pc = "run", ![w].doing = work[w].next, ![w].next = <<>>]
    /\ UNCHANGED <<scenario, idle, all, create, caller, job>>

\* The function returned or raised: the worker offers itself before it delivers.
Finish(w) ==
    /\ work[w].pc = "run" /\ ~work[w].exc
    /\ work' = [work EXCEPT ![w].pc = "deliver"] /\ idle' = idle \cup {w}
    /\ UNCHANGED <<scenario, all, create, caller, job>>

\* The result is there and, unless the job was killed, its worker no longer.
Delivered == [worker |-> NoOne, notified |-> TRUE]

Deliver(w) ==
    /\ work[w].pc = "deliver" /\ ~work[w].exc /\ ~PutLocked(work[w].doing)
    /\ work' = [work EXCEPT ![w].pc = "wait", ![w].doing = <<>>]
    /\ job' = [job EXCEPT ![work[w].doing] = Delivered]
    /\ UNCHANGED <<scenario, idle, all, create, caller>>

\* IDLE_TIMEOUT
TimesOut(w) ==
    /\ work[w].pc = "wait" /\ work[w].next = <<>> /\ ~work[w].exc
    /\ work' = [work EXCEPT ![w].pc = "leave"]
    /\ UNCHANGED <<scenario, idle, all, create, caller, job>>

\* It exits when it takes itself out of the idle set; otherwise a job is coming.
Leave(w) ==
    /\ work[w].pc = "leave" /\ ~work[w].exc
    /\ idle' = idle \ {w}
    /\ work' = [work EXCEPT ![w].pc = IF w \in idle THEN "exit" ELSE "wait"]
    /\ UNCHANGED <<scenario, all, create, caller, job>>

\* Mutated Exit: the thread that exits stays in all_workers.
Exit_StaysListed(w) ==
    /\ work[w].pc = "exit" /\ ~work[w].exc
    /\ work' = [work EXCEPT ![w].pc = "dead"]
    /\ UNCHANGED <<scenario, idle, all, create, caller, job>>

Exit(w) ==
    /\ work[w].pc = "exit" /\ ~work[w].exc
    /\ all' = all \ {w} /\ work' = [work EXCEPT ![w].pc = "dead"]
    /\ UNCHANGED <<scenario, idle, create, caller, job>>

\* JobKill is raised in the thread: in the function it becomes the result, which is
\* delivered under put_lock; outside of it the job in hand is delivered or not.
Dies(w) ==
    /\ Alive(w) /\ work[w].exc
    /\ work' = [work EXCEPT ![w].pc = "dead", ![w].doing = <<>>, ![w].exc = FALSE]
    /\ \/ UNCHANGED job
       \/ /\ work[w].pc = "run" /\ ~PutLocked(work[w].doing)
          /\ job' = [job EXCEPT ![work[w].doing].notified = TRUE]
       \/ /\ work[w].pc = "deliver" /\ ~PutLocked(work[w].doing)
          /\ job' = [job EXCEPT ![work[w].doing] = Delivered]
    /\ UNCHANGED <<scenario, idle, all, create, caller>>

\* JobKill is an Exception: a function that catches those goes on.
Swallows(w) ==
    /\ "swallow" \in scenario /\ work[w].pc = "run" /\ work[w].exc
    /\ work' = [work EXCEPT ![w].exc = FALSE]
    /\ UNCHANGED <<scenario, idle, all, create, caller, job>>
-----------------------------------------------------------------------------
OfCaller(c) ==
    \/ Reuse(c) \/ Look(c) \/ WaitFull(c) \/ SizeAgain(c)
    \/ Lock(c) \/ LookAgain(c) \/ PopLocked(c) \/ SizeLocked(c)
    \/ Create(c) \/ Assign(c) \/ Answered(c)
    \/ Strike(c) \/ Unlist(c) \/ Unidle(c)

OfWorker(w) == Take(w) \/ Finish(w) \/ Deliver(w) \/ Leave(w) \/ Exit(w) \/ Dies(w)

Next ==
    \/ \E c \in Callers : OfCaller(c) \/ Expires(c)
    \/ \E w \in Workers : OfWorker(w) \/ TimesOut(w) \/ Swallows(w)

Spec == Init /\ [][Next]_vars

\* Threads go on and jobs return; nobody need time out.
Fairness ==
    /\ \A c \in Callers : WF_vars(OfCaller(c))
    /\ \A w \in Workers : WF_vars(OfWorker(w))

LiveSpec == Spec /\ Fairness
-----------------------------------------------------------------------------
(* Properties.                                                             *)

\* A worker that lives and is not about to die.
Sound(w) == Alive(w) /\ ~work[w].exc

\* The pool never has more threads than its size, but for those a kill has
\* abandoned and that have not died yet ("each leak is bounded to one thread per
\* kill()"); where a function swallows its JobKill, such a thread works on.
PoolBounded ==
    "swallow" \notin scenario => Cardinality({w \in Workers : Sound(w)}) <= Size

\* The same of functions that swallow it.  Does not hold: the thread a kill has
\* abandoned goes on, while another has been made in its place.
PoolAlwaysBounded == Cardinality({w \in Workers : Sound(w)}) <= Size

\* Who takes an idle worker is the only one who has it.  A worker that is about to
\* die, or has died, is in the idle set or takes up room in the pool only as long as
\* its kill is under way, unless the kill hit another thread by its ident.
PoolIsUsable ==
    /\ \A w \in idle : /\ work[w].next = <<>> /\ work[w].pc # "run"
                       /\ \A c \in Callers : ~(caller[c].pc = "assign" /\ caller[c].w = w)
    /\ "recycle" \notin scenario =>
         \A w \in idle \cup all : Sound(w) \/ \E c \in Callers : Kills(c) /\ Target(c) = w

\* An idle worker lives and is not about to die.  Does not hold: kill() sets the
\* exception first, and another caller takes the worker, which has offered itself
\* and waits for put_lock, before kill() takes it out of the idle set.
IdleIsAlive == \A w \in idle : Sound(w)

\* A kill hits the worker of its job.  Does not hold: that worker was killed for
\* another job and has ended, and a new thread got its ident.
KillHitsItsWorker ==
    [][\A w \in Workers : ~work[w].exc /\ work'[w].exc =>
         \E c \in Callers : Strike(c) /\ Target(c) = w]_vars

\* Without a kill every job that was accepted is answered, and no caller waits
\* forever for a worker of the full pool.
JobsAnswered ==
    \A c \in Callers : []<>("kill" \in scenario \/ caller[c].pc = "ready")

\* The same with kills.  Does not hold: a worker that has offered itself before
\* it delivers can be handed a job of another caller and then be killed for the
\* first one.
JobsAlwaysAnswered == \A c \in Callers : []<>(caller[c].pc = "ready")
=============================================================================
