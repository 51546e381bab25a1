-------------------------- MODULE ThreadPoolProofs --------------------------
(***************************************************************************)
(* Proofs about ThreadPool: its types, that kills and creations keep the   *)
(* pool within its size, that an idle worker has one owner and that dying  *)
(* ones are in the pool only while their kill is under way.  They hold for *)
(* any number of callers, jobs and worker threads, and any size.           *)
(***************************************************************************)
EXTENDS ThreadPool, FiniteSetTheorems, TLAPS

LookPcs == {"look", "full", "fullsize", "lock", "locked", "lockedpop", "lockedfull",
            "lockedsize", "create"}
CallerPcs == LookPcs \cup {"ready", "assign", "wait", "expired", "unlist", "unidle"}
WorkerPcs == {"none", "wait", "run", "deliver", "leave", "exit", "dead"}

\* The values of a slot of a worker, the workers, the callers and the jobs.
Slots == Jobs \cup {<<>>}
Works == [pc : WorkerPcs, doing : Slots, next : Slots, exc : BOOLEAN,
          ident : Workers \cup {NoOne}]
Calls == [pc : CallerPcs, n : 0..MaxJobs, w : Workers \cup {NoOne}]
JobStates == [worker : Workers \cup {NoOne}, notified : BOOLEAN]

\* A caller between two jobs has submitted them all or has one left, a caller with a
\* worker has a real one, a caller with a job has submitted it.
CallersOK ==
    /\ caller \in [Callers -> Calls]
    /\ \A c \in Callers :
         /\ caller[c].pc \in LookPcs \cup {"assign"} => caller[c].n < MaxJobs
         /\ caller[c].pc = "assign" => caller[c].w \in Workers
         /\ caller[c].pc \in {"wait", "expired", "unlist", "unidle"} => caller[c].n > 0

\* A worker with a job has a real one.
WorkersOK ==
    /\ work \in [Workers -> Works]
    /\ \A w \in Workers : work[w].pc \in {"run", "deliver"} => work[w].doing \in Jobs

TypeOK ==
    /\ idle \subseteq Workers /\ all \subseteq Workers /\ create \in Callers \cup {NoOne}
    /\ CallersOK /\ WorkersOK /\ job \in [Jobs -> JobStates]

\* Who is in the part of _get_thread_worker() that create_lock protects holds it.
LockIsHeld ==
    \A c \in Callers :
        caller[c].pc \in {"locked", "lockedpop", "lockedfull", "lockedsize", "create"} =>
            create = c

\* What makes PoolBounded inductive: all_workers is never over the size, it has room
\* as long as a caller that looked at it may create, and it lists every thread that
\* lives and has not been killed.
SizeIsKept ==
    /\ IsFiniteSet(all) /\ Cardinality(all) <= Size
    /\ \A c \in Callers : caller[c].pc \in {"lockedpop", "create"} => Cardinality(all) < Size
    /\ "swallow" \notin scenario => \A w \in Workers : Sound(w) => w \in all

\* Of being idle, being assigned by one caller, having a next job, running one and
\* exiting, a worker is in one state at most.
OneOwner ==
    /\ \A w \in idle : work[w].pc \notin {"none", "run", "exit"} /\ work[w].next = <<>>
    /\ \A w \in Workers : work[w].pc \in {"none", "run", "exit"} => work[w].next = <<>>
    /\ \A c \in Callers : caller[c].pc = "assign" =>
         LET w == caller[c].w IN
         /\ w \notin idle /\ work[w].pc \notin {"none", "run", "exit"} /\ work[w].next = <<>>
         /\ \A d \in Callers \ {c} : ~(caller[d].pc = "assign" /\ caller[d].w = w)

\* A kill is aimed at a worker that exists, for as long as it takes; the exception is
\* set on threads that live, and has reached that worker, if it does, when all_workers
\* loses it; and idents tell the threads apart where none is used twice.
KillIsAimed ==
    /\ \A w \in Workers : work[w].exc => Alive(w)
    /\ \A j \in Jobs : job[j].worker \in Workers => work[job[j].worker].pc # "none"
    /\ \A c \in Callers : Kills(c) => Target(c) \in Workers
    /\ "swallow" \notin scenario =>
         \A c \in Callers : caller[c].pc = "unlist" => ~Sound(Target(c))
    /\ "recycle" \notin scenario =>
         \A w \in Workers : work[w].pc # "none" => work[w].ident = w

\* What makes PoolIsUsable inductive: a worker that is dying leaves all_workers with the
\* first step after the exception is set and the idle set with the second.
DyingLeaves ==
    "recycle" \notin scenario =>
        /\ \A w \in idle : Sound(w) \/ \E c \in Callers : Kills(c) /\ Target(c) = w
        /\ \A w \in all :
             Sound(w) \/ \E c \in Callers : caller[c].pc = "unlist" /\ Target(c) = w

IInv == TypeOK /\ LockIsHeld /\ SizeIsKept /\ OneOwner /\ KillIsAimed /\ DyingLeaves
-----------------------------------------------------------------------------

\* The initial states satisfy the invariant.
LEMMA InitIInv == Init => IInv
<1> SUFFICES ASSUME Init PROVE IInv
    OBVIOUS
<1>1. TypeOK
      BY ConstantsAssumption
      DEF Init, TypeOK, CallersOK, WorkersOK, Works, Calls, JobStates, NoWork, NoJob, Slots,
          WorkerPcs, CallerPcs, LookPcs
<1>2. LockIsHeld
      BY DEF Init, LockIsHeld
<1>3. SizeIsKept
      BY ConstantsAssumption, FS_EmptySet DEF Init, SizeIsKept, Sound, Alive, NoWork
<1>4. OneOwner
      BY DEF Init, OneOwner, NoWork
<1>5. KillIsAimed
      BY ConstantsAssumption DEF Init, KillIsAimed, Kills, NoJob, NoWork
<1>6. DyingLeaves
      BY DEF Init, DyingLeaves
<1>7. QED
      BY <1>1, <1>2, <1>3, <1>4, <1>5, <1>6 DEF IInv
-----------------------------------------------------------------------------
(* What the steps have in common.                                          *)

\* The steps of a caller that looks for a worker, of a caller with a job, of a worker.
Looking(c) ==
    \/ Reuse(c) \/ Look(c) \/ WaitFull(c) \/ SizeAgain(c)
    \/ Lock(c) \/ LookAgain(c) \/ PopLocked(c) \/ SizeLocked(c)
Killing(c) == Expires(c) \/ Strike(c) \/ Unlist(c) \/ Unidle(c)
Working(w) == OfWorker(w) \/ TimesOut(w) \/ Swallows(w)

\* Every step is one of these.
LEMMA NextCases ==
  ASSUME [Next]_vars
  PROVE  \/ \E c \in Callers :
              Looking(c) \/ Create(c) \/ Assign(c) \/ Answered(c) \/ Killing(c)
         \/ \E w \in Workers : Working(w)
         \/ UNCHANGED vars
  BY DEF Next, OfCaller, Looking, Killing, Working

\* Who looks goes on looking or gets an idle worker.
LEMMA LookingStep ==
  ASSUME NEW c \in Callers, Looking(c)
  PROVE  /\ scenario' = scenario /\ all' = all /\ work' = work /\ job' = job
         /\ caller[c].pc \in (LookPcs \ {"create"}) \cup {"ready"}
         /\ caller[c].pc = "ready" => caller[c].n < MaxJobs
         /\ \/ idle' = idle /\ \E pc \in LookPcs : Goto(c, pc)
            \/ Pop(c)
  BY DEF Looking, Reuse, Look, WaitFull, SizeAgain, Lock, LookAgain, PopLocked, SizeLocked,
         LookPcs

\* A worker changes nobody else.
LEMMA WorkingStep ==
  ASSUME WorkersOK, NEW w \in Workers, Working(w)
  PROVE  /\ scenario' = scenario /\ caller' = caller /\ create' = create
         /\ \A v \in Workers \ {w} : work'[v] = work[v]
         /\ work[w].pc # "none" /\ work'[w].pc # "none"
         /\ work'[w].ident = work[w].ident
  BY DEF Working, OfWorker, Take, Finish, Deliver, Leave, Exit, Dies, TimesOut, Swallows,
         WorkersOK, Works, Alive

\* A kill leaves the pc and the slots of all workers.
LEMMA KillingStep ==
  ASSUME TypeOK, NEW c \in Callers, Killing(c)
  PROVE  /\ scenario' = scenario /\ create' = create
         /\ \A d \in Callers \ {c} : caller'[d] = caller[d]
         /\ caller[c].pc \in {"wait", "expired", "unlist", "unidle"}
         /\ caller'[c].pc \in {"ready", "expired", "unlist", "unidle"}
         /\ caller'[c].n = caller[c].n
         /\ idle' \subseteq idle /\ all' \subseteq all
         /\ \A v \in Workers : /\ work'[v].pc = work[v].pc /\ work'[v].next = work[v].next
                               /\ work'[v].ident = work[v].ident
<1> USE DEF TypeOK, CallersOK, WorkersOK, Calls, Works
<1>1. CASE Expires(c)
      BY <1>1 DEF Expires, Goto
<1>2. CASE Strike(c)
      BY <1>2 DEF Strike, Goto
<1>3. CASE Unlist(c)
      BY <1>3 DEF Unlist, Goto
<1>4. CASE Unidle(c)
      BY <1>4 DEF Unidle, Forget, Goto
<1>5. QED
      BY <1>1, <1>2, <1>3, <1>4 DEF Killing

\* What a kill and what a worker do to the jobs.
LEMMA KillingJob ==
  ASSUME NEW c \in Callers, Killing(c)
  PROVE  job' = job \/ job' = [job EXCEPT ![<<c, caller[c].n>>].worker = NoOne]
  BY DEF Killing, Expires, Strike, Unlist, Unidle, Forget

LEMMA WorkingJob ==
  ASSUME NEW w \in Workers, Working(w)
  PROVE  \/ job' = job
         \/ \E j : /\ ~PutLocked(j)
                   /\ \/ job' = [job EXCEPT ![j] = Delivered]
                      \/ job' = [job EXCEPT ![j].notified = TRUE]
  BY DEF Working, OfWorker, Take, Finish, Deliver, Leave, Exit, Dies, TimesOut, Swallows

\* Create() in one place: a worker that was not there gets its thread.
LEMMA CreateStep ==
  ASSUME TypeOK, NEW c \in Callers, Create(c)
  PROVE  \E w \in Workers : \E id \in Workers \cup {NoOne} :
            /\ work[w].pc = "none" /\ ("recycle" \notin scenario => id = w)
            /\ work' = [work EXCEPT ![w].pc = "wait", ![w].ident = id] /\ all' = all \cup {w}
            /\ caller' = [caller EXCEPT ![c].pc = "assign", ![c].w = w]
            /\ idle' = idle /\ job' = job /\ scenario' = scenario
<1>1. PICK w : w = CHOOSE v \in Unused : TRUE
      OBVIOUS
<1>2. w \in Workers /\ work[w].pc = "none"
      BY <1>1 DEF Create, Unused
<1>3. PICK id \in Idents(w) :
         /\ work' = [work EXCEPT ![w].pc = "wait", ![w].ident = id] /\ all' = all \cup {w}
         /\ caller' = [caller EXCEPT ![c].pc = "assign", ![c].w = w]
      BY <1>1 DEF Create
<1>4. id \in Workers \cup {NoOne} /\ ("recycle" \notin scenario => id = w)
      BY <1>2, <1>3 DEF Idents, TypeOK, WorkersOK, Works
<1>5. QED
      BY <1>2, <1>3, <1>4 DEF Create
-----------------------------------------------------------------------------
(* Types.                                                                  *)

\* A caller that goes on to look for a worker keeps its types.
LEMMA GotoTypes ==
  ASSUME CallersOK, NEW c \in Callers, caller[c].n < MaxJobs, NEW pc \in LookPcs, Goto(c, pc)
  PROVE  CallersOK'
  BY DEF CallersOK, Goto, Calls, LookPcs, CallerPcs

\* So does one that was given a worker.
LEMMA GivenTypes ==
  ASSUME CallersOK, NEW c \in Callers, caller[c].n < MaxJobs, NEW w \in Workers,
         caller' = [caller EXCEPT ![c].pc = "assign", ![c].w = w]
  PROVE  CallersOK'
  BY DEF CallersOK, Calls, CallerPcs, LookPcs

\* The steps of a caller that looks for a worker keep the types.
LEMMA LookingTypes ==
  ASSUME TypeOK, NEW c \in Callers, Looking(c)
  PROVE  TypeOK'
<1>1. caller[c].n < MaxJobs
      BY LookingStep DEF TypeOK, CallersOK
<1>2. CallersOK' /\ idle' \subseteq Workers
  <2>1. CASE idle' = idle /\ \E pc \in LookPcs : Goto(c, pc)
        BY <1>1, <2>1, GotoTypes DEF TypeOK
  <2>2. CASE Pop(c)
        BY <1>1, <2>2, GivenTypes DEF TypeOK, Pop
  <2>3. QED
        BY <2>1, <2>2, LookingStep
<1>3. create' \in Callers \cup {NoOne}
      BY DEF TypeOK, Looking, Reuse, Look, WaitFull, SizeAgain, Lock, LookAgain, PopLocked,
             SizeLocked
<1>4. QED
      BY <1>2, <1>3, LookingStep DEF TypeOK, WorkersOK

\* The steps of a caller with a worker keep the types.
LEMMA ServedTypes ==
  ASSUME TypeOK, NEW c \in Callers, Create(c) \/ Assign(c) \/ Answered(c)
  PROVE  TypeOK'
<1>1. CallersOK /\ caller[c].n \in 0..MaxJobs
      BY DEF TypeOK, CallersOK, Calls
<1>2. CASE Create(c)
  <2>1. PICK w \in Workers, id \in Workers \cup {NoOne} :
           /\ work' = [work EXCEPT ![w].pc = "wait", ![w].ident = id] /\ all' = all \cup {w}
           /\ caller' = [caller EXCEPT ![c].pc = "assign", ![c].w = w]
        BY <1>2, CreateStep
  <2>2. CallersOK'
        BY <1>1, <1>2, <2>1, GivenTypes DEF CallersOK, Create, LookPcs
  <2>3. work' \in [Workers -> Works]
        BY ZenonT(40), <2>1 DEF TypeOK, WorkersOK, Works, WorkerPcs
  <2>4. \A v \in Workers : work'[v].pc \in {"run", "deliver"} => work'[v].doing \in Jobs
        BY <2>1 DEF TypeOK, WorkersOK, Works
  <2>5. QED
        BY <1>2, <2>1, <2>2, <2>3, <2>4 DEF Create, TypeOK, WorkersOK
<1>3. CASE Assign(c)
  <2>1. caller[c].n < MaxJobs /\ caller[c].w \in Workers
        BY <1>3 DEF Assign, TypeOK, CallersOK
  <2>2. caller[c].n + 1 \in 1..MaxJobs
        BY <1>1, <2>1, ConstantsAssumption
  <2>3. <<c, caller[c].n + 1>> \in Jobs
        BY <2>2 DEF Jobs
  <2>4. CallersOK'
        BY <1>1, <1>3, <2>2 DEF Assign, CallersOK, Calls, CallerPcs, LookPcs
  <2>5. job' \in [Jobs -> JobStates]
        BY <1>3, <2>1 DEF Assign, TypeOK, JobStates
  <2>6. work' \in [Workers -> Works]
    <3>1. /\ work' = [work EXCEPT ![caller[c].w].next = <<c, caller[c].n + 1>>]
          /\ <<c, caller[c].n + 1>> \in Slots
          BY <1>3, <2>3 DEF Assign, Slots
    <3>2. QED
          BY <3>1 DEF TypeOK, WorkersOK, Works
  <2>7. \A w \in Workers : work'[w].pc \in {"run", "deliver"} => work'[w].doing \in Jobs
        BY <1>3, <2>1 DEF Assign, TypeOK, WorkersOK, Works
  <2>8. QED
        BY <1>3, <2>4, <2>5, <2>6, <2>7 DEF Assign, TypeOK, WorkersOK
<1>4. CASE Answered(c)
  <2>1. CallersOK'
        BY <1>1, <1>4 DEF Answered, Goto, CallersOK, Calls, CallerPcs, LookPcs
  <2>2. QED
        BY <1>4, <2>1 DEF Answered, TypeOK, WorkersOK
<1>5. QED
      BY <1>2, <1>3, <1>4

\* The steps of a kill keep the types.
LEMMA KillingTypes ==
  ASSUME TypeOK, NEW c \in Callers, Killing(c)
  PROVE  TypeOK'
<1>1. CallersOK'
  <2>1. \E pc \in {"ready", "expired", "unlist", "unidle"} : Goto(c, pc)
        BY DEF Killing, Expires, Strike, Unlist, Unidle, Forget
  <2>2. caller[c].n > 0
        BY KillingStep DEF TypeOK, CallersOK
  <2>3. QED
        BY <2>1, <2>2 DEF TypeOK, CallersOK, Goto, Calls, CallerPcs, LookPcs
<1>2. WorkersOK'
  <2>1. work' = work \/ Strike(c)
        BY DEF Killing, Expires, Unlist, Unidle, Forget
  <2>2. \A v \in Workers :
           (work[v].exc \/ (Alive(v) /\ work[v].ident = work[Target(c)].ident)) \in BOOLEAN
        BY DEF TypeOK, WorkersOK, Works, Alive
  <2>3. work' = work \/ \E f \in [Workers -> BOOLEAN] :
                            work' = [v \in Workers |-> [work[v] EXCEPT !.exc = f[v]]]
    <3> DEFINE f == [v \in Workers |->
                        work[v].exc \/ (Alive(v) /\ work[v].ident = work[Target(c)].ident)]
    <3>1. f \in [Workers -> BOOLEAN]
          BY <2>2
    <3>2. work' = work \/ work' = [v \in Workers |-> [work[v] EXCEPT !.exc = f[v]]]
          BY <2>1 DEF Strike
    <3> HIDE DEF f
    <3>3. QED
          BY <3>1, <3>2
  <2>4. CASE work' = work
        BY <2>4 DEF TypeOK, WorkersOK
  <2>5. ASSUME NEW f \in [Workers -> BOOLEAN],
               work' = [v \in Workers |-> [work[v] EXCEPT !.exc = f[v]]]
        PROVE  WorkersOK'
    <3>1. \A v \in Workers : f[v] \in BOOLEAN /\ work[v] \in Works
          BY DEF TypeOK, WorkersOK
    <3>2. \A v \in Workers : [work[v] EXCEPT !.exc = f[v]] \in Works
          BY <3>1 DEF Works
    <3>3. \A v \in Workers : /\ work'[v].pc = work[v].pc
                             /\ work'[v].doing = work[v].doing
          BY <2>5, <3>1 DEF Works
    <3>4. work' \in [Workers -> Works]
          BY <2>5, <3>2
    <3>5. QED
          BY <3>3, <3>4 DEF TypeOK, WorkersOK
  <2>6. QED
        BY <2>3, <2>4, <2>5
<1>3. job' \in [Jobs -> JobStates]
      BY ZenonT(40), KillingJob DEF TypeOK, JobStates
<1>4. QED
      BY <1>1, <1>2, <1>3, KillingStep DEF TypeOK

\* The steps of a worker thread keep the types.
LEMMA WorkingTypes ==
  ASSUME TypeOK, NEW w \in Workers, Working(w)
  PROVE  TypeOK'
<1> USE DEF TypeOK, WorkersOK, Works, WorkerPcs
<1>1. WorkersOK'
  <2>1. CASE Take(w)
        BY <2>1 DEF Take, Slots
  <2>2. CASE Finish(w)
        BY <2>2 DEF Finish
  <2>3. CASE Deliver(w)
        BY ZenonT(40), <2>3 DEF Deliver, Slots
  <2>4. CASE Leave(w)
        BY <2>4 DEF Leave
  <2>5. CASE Exit(w)
        BY <2>5 DEF Exit
  <2>6. CASE Dies(w)
        BY <2>6 DEF Dies, Slots
  <2>7. CASE TimesOut(w)
        BY <2>7 DEF TimesOut
  <2>8. CASE Swallows(w)
        BY <2>8 DEF Swallows
  <2>9. QED
        BY <2>1, <2>2, <2>3, <2>4, <2>5, <2>6, <2>7, <2>8 DEF Working, OfWorker
<1>2. job' \in [Jobs -> JobStates]
  <2>1. Delivered \in JobStates
        BY DEF Delivered, JobStates
  <2>2. \A j : [job EXCEPT ![j] = Delivered] \in [Jobs -> JobStates]
        BY <2>1
  <2>3. \A j : [job EXCEPT ![j].notified = TRUE] \in [Jobs -> JobStates]
        BY DEF JobStates
  <2>4. QED
        BY <2>2, <2>3, WorkingJob
<1>3. idle' \subseteq Workers /\ all' \subseteq Workers
      BY DEF Working, OfWorker, Take, Finish, Deliver, Leave, Exit, Dies, TimesOut, Swallows
<1>4. QED
      BY <1>1, <1>2, <1>3, WorkingStep DEF CallersOK

\* Every step keeps the types.
LEMMA NextTypes == TypeOK /\ [Next]_vars => TypeOK'
<1> SUFFICES ASSUME TypeOK, [Next]_vars PROVE TypeOK'
    OBVIOUS
<1>1. CASE UNCHANGED vars
      BY <1>1 DEF vars, TypeOK, CallersOK, WorkersOK
<1>2. QED
      BY <1>1, NextCases, LookingTypes, ServedTypes, KillingTypes, WorkingTypes
-----------------------------------------------------------------------------
(* The lock and the size.                                                  *)

\* create_lock excludes: who enters the protected part takes it, and who leaves it
\* gives back what nobody else can hold.
LEMMA NextLock ==
  ASSUME IInv, [Next]_vars
  PROVE  LockIsHeld'
<1> USE DEF IInv, TypeOK, CallersOK, Calls, LockIsHeld
<1>1. ASSUME NEW c \in Callers,
             \/ Reuse(c) \/ Look(c) \/ WaitFull(c) \/ SizeAgain(c) \/ Assign(c) \/ Answered(c)
             \/ Killing(c)
      PROVE  LockIsHeld'
  <2>1. CASE Killing(c)
        BY <2>1, KillingStep
  <2>2. CASE ~ Killing(c)
    <3>1. create' = create /\ \A d \in Callers \ {c} : caller'[d] = caller[d]
          BY <1>1, <2>2 DEF Reuse, Look, WaitFull, SizeAgain, Assign, Answered, Pop, Goto
    <3>2. caller'[c].pc \in {"assign", "look", "full", "fullsize", "lock", "wait", "ready"}
          BY <1>1, <2>2 DEF Reuse, Look, WaitFull, SizeAgain, Assign, Answered, Pop, Goto
    <3>3. QED
          BY <3>1, <3>2
  <2>3. QED
        BY <2>1, <2>2
<1>2. ASSUME NEW c \in Callers, Lock(c) PROVE LockIsHeld'
      BY <1>2, ConstantsAssumption DEF Lock, Goto
<1>3. ASSUME NEW c \in Callers, LookAgain(c) \/ PopLocked(c) \/ SizeLocked(c) \/ Create(c)
      PROVE  LockIsHeld'
  <2>1. create = c
        BY <1>3 DEF LookAgain, PopLocked, SizeLocked, Create
  <2>2. \A d \in Callers \ {c} : caller'[d] = caller[d]
        BY <1>3 DEF LookAgain, PopLocked, SizeLocked, Create, Pop, Goto
  <2>3. create' = create \/ caller'[c].pc = "assign"
        BY ZenonT(40), <1>3 DEF LookAgain, PopLocked, SizeLocked, Create, Pop
  <2>4. QED
        BY <2>1, <2>2, <2>3
<1>4. ASSUME NEW w \in Workers, Working(w) PROVE LockIsHeld'
      BY <1>4, WorkingStep
<1>5. CASE UNCHANGED vars
      BY <1>5 DEF vars
<1>6. QED
      BY <1>1, <1>2, <1>3, <1>4, <1>5, NextCases DEF Looking

\* Only a creation makes all_workers larger, and it happens where there is room.
LEMMA NextAll ==
  ASSUME IInv, [Next]_vars
  PROVE  /\ IsFiniteSet(all') /\ Cardinality(all') <= Size
         /\ \/ Cardinality(all') <= Cardinality(all)
            \/ \E c \in Callers : Create(c)
<1>1. /\ IsFiniteSet(all) /\ Cardinality(all) \in Nat /\ Cardinality(all) <= Size
      /\ Size \in Nat
      BY FS_CardinalityType, ConstantsAssumption DEF IInv, SizeIsKept
<1>2. CASE \E c \in Callers : Create(c)
  <2>1. Cardinality(all) < Size /\ \E w : all' = all \cup {w}
        BY <1>2 DEF Create, IInv, SizeIsKept
  <2>2. QED
        BY <1>1, <1>2, <2>1, FS_AddElement
<1>3. CASE ~ \E c \in Callers : Create(c)
  <2>1. all' = all \/ \E w : all' = all \ {w}
    <3>1. ASSUME NEW c \in Callers, Looking(c) \/ Assign(c) \/ Answered(c) \/ Killing(c)
          PROVE  all' = all \/ \E w : all' = all \ {w}
          BY <3>1, LookingStep
          DEF Assign, Answered, Killing, Expires, Strike, Unlist, Unidle, Forget
    <3>2. ASSUME NEW v \in Workers, Working(v) PROVE all' = all \/ \E w : all' = all \ {w}
          BY <3>2 DEF Working, OfWorker, Take, Finish, Deliver, Leave, Exit, Dies, TimesOut,
                      Swallows
    <3>3. CASE UNCHANGED vars
          BY <3>3 DEF vars
    <3>4. QED
          BY <1>3, <3>1, <3>2, <3>3, NextCases
  <2>2. QED
        BY <1>1, <2>1, FS_RemoveElement
<1>4. QED
      BY <1>2, <1>3

\* A caller that may create has looked under create_lock, and until it creates nobody
\* else can.
LEMMA NextRoom ==
  ASSUME IInv, [Next]_vars, NEW c \in Callers, caller'[c].pc \in {"lockedpop", "create"}
  PROVE  Cardinality(all') < Size
<1> USE DEF IInv, TypeOK, CallersOK, Calls
<1>1. /\ IsFiniteSet(all) /\ Cardinality(all) \in Nat /\ Size \in Nat
      /\ IsFiniteSet(all') /\ Cardinality(all') \in Nat
      BY NextAll, FS_CardinalityType, ConstantsAssumption DEF SizeIsKept
<1>2. CASE caller[c].pc \in {"lockedpop", "create"}
  <2>1. ~ Create(c)
        BY ZenonT(40) DEF Create
  <2>2. \A d \in Callers \ {c} : ~ Create(d)
        BY <1>2 DEF Create, LockIsHeld
  <2>3. QED
        BY <1>1, <1>2, <2>1, <2>2, NextAll DEF SizeIsKept
<1>3. CASE caller[c].pc \notin {"lockedpop", "create"}
  <2>1. ASSUME NEW d \in Callers,
               Looking(d) \/ Create(d) \/ Assign(d) \/ Answered(d) \/ Killing(d)
        PROVE  d = c /\ (LookAgain(c) \/ SizeLocked(c))
    <3>1. d = c
          BY <1>3, <2>1, LookingStep, KillingStep DEF Create, Assign, Answered, Pop, Goto
    <3>2. ~ (Create(c) \/ Assign(c) \/ Answered(c))
      <4>1. ASSUME Create(c) PROVE caller'[c].pc = "assign"
        <5>1. PICK w : caller' = [caller EXCEPT ![c].pc = "assign", ![c].w = w]
              BY <4>1, CreateStep
        <5>2. QED
              BY <5>1
      <4>2. Assign(c) => caller'[c].pc = "wait"
            BY DEF Assign
      <4>3. Answered(c) => caller'[c].pc = "ready"
            BY DEF Answered, Goto
      <4>4. QED
            BY <4>1, <4>2, <4>3
    <3>3. ~ Killing(c)
          BY KillingStep
    <3>4. ~ (Reuse(c) \/ Look(c) \/ WaitFull(c) \/ SizeAgain(c) \/ Lock(c))
          BY DEF Reuse, Look, WaitFull, SizeAgain, Lock, Pop, Goto
    <3>5. ~ PopLocked(c)
          BY <1>3 DEF PopLocked, Pop, Goto
    <3>6. QED
          BY <2>1, <3>1, <3>2, <3>3, <3>4, <3>5 DEF Looking
  <2>2. caller' # caller
        BY <1>3
  <2>3. LookAgain(c) \/ SizeLocked(c)
        BY <2>1, <2>2, NextCases, WorkingStep DEF vars
  <2>4. all' = all /\ ~ Full
        BY <2>3 DEF LookAgain, SizeLocked, Goto
  <2>5. QED
        BY <1>1, <2>4 DEF Full
<1>4. QED
      BY <1>2, <1>3

\* Every thread that lives and has not been killed stays listed: a kill takes off the
\* list a worker that the exception has reached, or that has ended.
LEMMA NextListed ==
  ASSUME IInv, [Next]_vars, "swallow" \notin scenario, NEW w \in Workers, Sound(w)'
  PROVE  w \in all'
<1> USE DEF IInv, TypeOK, WorkersOK, Works, SizeIsKept, Alive, Sound
<1>1. ASSUME NEW c \in Callers, Looking(c) \/ Answered(c) PROVE w \in all'
      BY <1>1, LookingStep DEF Answered
<1>2. ASSUME NEW c \in Callers, Create(c) PROVE w \in all'
      BY <1>2, CreateStep
<1>3. ASSUME NEW c \in Callers, Assign(c) PROVE w \in all'
      BY <1>3 DEF Assign
<1>4. ASSUME NEW c \in Callers, Killing(c) PROVE w \in all'
  <2>1. Sound(w) /\ w \in all
    <3>1. work[w].exc => work'[w].exc
          BY <1>4 DEF Killing, Expires, Strike, Unlist, Unidle, Forget
    <3>2. QED
          BY <1>4, <3>1, KillingStep
  <2>2. CASE Unlist(c)
    <3>1. ~Sound(Target(c)) /\ all' = all \ {Target(c)}
          BY <2>2 DEF Unlist, KillIsAimed
    <3>2. QED
          BY <2>1, <3>1
  <2>3. CASE ~ Unlist(c)
        BY <1>4, <2>1, <2>3 DEF Killing, Expires, Strike, Unidle, Forget
  <2>4. QED
        BY <2>2, <2>3
<1>5. ASSUME NEW v \in Workers, Working(v) PROVE w \in all'
  <2>1. Sound(w) /\ ~ (Exit(v) /\ v = w)
        BY <1>5 DEF Working, OfWorker, Take, Finish, Deliver, Leave, Exit, Dies, TimesOut,
                    Swallows
  <2>2. all' = all \/ (Exit(v) /\ all' = all \ {v})
        BY <1>5 DEF Working, OfWorker, Take, Finish, Deliver, Leave, Exit, Dies, TimesOut,
                    Swallows
  <2>3. QED
        BY <2>1, <2>2
<1>6. CASE UNCHANGED vars
      BY <1>6 DEF vars
<1>7. QED
      BY <1>1, <1>2, <1>3, <1>4, <1>5, <1>6, NextCases

\* What may happen is settled at the start.
LEMMA StepScenario == [Next]_vars => scenario' = scenario
<1> SUFFICES ASSUME [Next]_vars PROVE scenario' = scenario
    OBVIOUS
<1>1. ASSUME NEW c \in Callers,
             Looking(c) \/ Create(c) \/ Assign(c) \/ Answered(c) \/ Killing(c)
      PROVE  scenario' = scenario
      BY <1>1, LookingStep
      DEF Create, Assign, Answered, Killing, Expires, Strike, Unlist, Unidle, Forget
<1>2. ASSUME NEW w \in Workers, Working(w) PROVE scenario' = scenario
      BY <1>2 DEF Working, OfWorker, Take, Finish, Deliver, Leave, Exit, Dies, TimesOut,
                  Swallows
<1>3. QED
      BY <1>1, <1>2, NextCases DEF vars

\* The pool keeps its size.
LEMMA NextSize == ASSUME IInv, [Next]_vars PROVE SizeIsKept'
  BY NextAll, NextRoom, NextListed, StepScenario DEF SizeIsKept
-----------------------------------------------------------------------------
(* The owner of a worker.                                                  *)

\* A caller that takes an idle worker is its only owner.
LEMMA PopOwner ==
  ASSUME IInv, NEW c \in Callers, caller[c].pc # "assign", Pop(c), work' = work
  PROVE  OneOwner'
<1> USE DEF IInv, TypeOK, CallersOK, Calls
<1>1. PICK w \in idle : /\ idle' = idle \ {w}
                        /\ caller' = [caller EXCEPT ![c].pc = "assign", ![c].w = w]
      BY DEF Pop
<1>2. /\ caller'[c].pc = "assign" /\ caller'[c].w = w
      /\ \A d \in Callers \ {c} : caller'[d] = caller[d]
      BY <1>1
<1>3. \A d \in Callers : caller[d].pc = "assign" => caller[d].w # w
      BY DEF OneOwner
<1>4. QED
      BY <1>1, <1>2, <1>3 DEF OneOwner

\* A caller that does not get a worker leaves the workers with whom they are.
LEMMA GotoOwner ==
  ASSUME IInv, NEW c \in Callers,
         caller'[c].pc # "assign", \A d \in Callers \ {c} : caller'[d] = caller[d],
         idle' \subseteq idle,
         \A v \in Workers : work'[v].pc = work[v].pc /\ work'[v].next = work[v].next
  PROVE  OneOwner'
  BY DEF IInv, TypeOK, CallersOK, OneOwner

\* One owner: the steps of a caller.
LEMMA CallerOwner ==
  ASSUME IInv, NEW c \in Callers,
         Looking(c) \/ Create(c) \/ Assign(c) \/ Answered(c) \/ Killing(c)
  PROVE  OneOwner'
<1> USE DEF IInv, TypeOK, CallersOK, Calls, WorkersOK
<1>1. CASE Looking(c)
  <2>1. CASE Pop(c)
        BY <1>1, <2>1, LookingStep, PopOwner DEF LookPcs
  <2>2. CASE idle' = idle /\ \E pc \in LookPcs : Goto(c, pc)
    <3>1. caller'[c].pc # "assign" /\ \A d \in Callers \ {c} : caller'[d] = caller[d]
          BY <2>2 DEF Goto, LookPcs
    <3>2. QED
          BY <1>1, <2>2, <3>1, LookingStep, GotoOwner
  <2>3. QED
        BY <1>1, <2>1, <2>2, LookingStep
<1>2. CASE Create(c)
  <2>1. PICK w \in Workers, id \in Workers \cup {NoOne} :
           /\ work[w].pc = "none" /\ idle' = idle
           /\ work' = [work EXCEPT ![w].pc = "wait", ![w].ident = id]
           /\ caller' = [caller EXCEPT ![c].pc = "assign", ![c].w = w]
        BY <1>2, CreateStep
  <2>2. w \notin idle /\ \A d \in Callers : caller[d].pc = "assign" => caller[d].w # w
        BY <2>1 DEF OneOwner
  <2>3. /\ caller'[c].pc = "assign" /\ caller'[c].w = w
        /\ \A d \in Callers \ {c} : caller'[d] = caller[d]
        /\ work'[w].pc = "wait" /\ work'[w].next = <<>>
        /\ \A v \in Workers \ {w} : work'[v] = work[v]
        BY <2>1 DEF OneOwner, Works
  <2>4. QED
        BY <2>1, <2>2, <2>3 DEF OneOwner
<1>3. CASE Assign(c)
  <2>1. PICK w \in Workers : w = caller[c].w
        BY <1>3 DEF Assign
  <2>2. /\ w \notin idle /\ work[w].pc \notin {"none", "run", "exit"}
        /\ \A d \in Callers \ {c} : caller[d].pc = "assign" => caller[d].w # w
        BY <1>3, <2>1 DEF Assign, OneOwner
  <2>3. /\ caller'[c].pc = "wait" /\ \A d \in Callers \ {c} : caller'[d] = caller[d]
        /\ work'[w].pc = work[w].pc /\ \A v \in Workers \ {w} : work'[v] = work[v]
        /\ idle' = idle
        BY <1>3, <2>1 DEF Assign, Works
  <2>4. QED
        BY SMTT(30), <2>2, <2>3 DEF OneOwner
<1>4. CASE Answered(c)
  <2>1. caller'[c].pc # "assign" /\ \A d \in Callers \ {c} : caller'[d] = caller[d]
        BY <1>4 DEF Answered, Goto
  <2>2. QED
        BY <1>4, <2>1, GotoOwner DEF Answered
<1>5. CASE Killing(c)
      BY <1>5, KillingStep, GotoOwner
<1>6. QED
      BY <1>1, <1>2, <1>3, <1>4, <1>5

\* One owner: the steps of a worker thread.
LEMMA WorkerOwner ==
  ASSUME IInv, NEW w \in Workers, Working(w)
  PROVE  OneOwner'
<1> USE DEF IInv, TypeOK, WorkersOK, Works
<1>1. caller' = caller /\ \A v \in Workers \ {w} : work'[v] = work[v]
      BY WorkingStep
<1>2. CASE Take(w)
  <2>1. w \notin idle /\ \A c \in Callers : caller[c].pc = "assign" => caller[c].w # w
        BY <1>2 DEF Take, OneOwner
  <2>2. QED
        BY <1>1, <1>2, <2>1 DEF Take, OneOwner
<1>3. CASE Finish(w)
  <2>1. \A c \in Callers : caller[c].pc = "assign" => caller[c].w # w
        BY <1>3 DEF Finish, OneOwner
  <2>2. QED
        BY <1>1, <1>3, <2>1 DEF Finish, OneOwner
<1>4. CASE Deliver(w) \/ TimesOut(w) \/ Swallows(w) \/ Exit(w) \/ Dies(w)
  <2>1. /\ idle' = idle /\ work'[w].next = work[w].next
        /\ work'[w].pc \in {work[w].pc, "wait", "leave", "dead"}
        BY <1>4 DEF Deliver, TimesOut, Swallows, Exit, Dies
  <2>2. /\ \A v \in Workers : work'[v].next = work[v].next
        /\ \A v \in Workers :
             work'[v].pc \in {"none", "run", "exit"} => work'[v].pc = work[v].pc
        BY <1>1, <2>1
  <2>3. \A v \in idle : work'[v].pc \notin {"none", "run", "exit"}
        BY <2>2 DEF OneOwner
  <2>4. \A c \in Callers : caller[c].pc = "assign" =>
           work'[caller[c].w].pc \notin {"none", "run", "exit"}
        BY <2>2 DEF OneOwner, CallersOK
  <2>5. QED
        BY <1>1, <2>1, <2>2, <2>3, <2>4 DEF OneOwner, CallersOK
<1>5. CASE Leave(w)
  <2>1. \A c \in Callers : caller[c].pc = "assign" /\ caller[c].w = w => w \notin idle
        BY DEF OneOwner
  <2>2. QED
        BY <1>1, <1>5, <2>1 DEF Leave, OneOwner
<1>6. QED
      BY <1>2, <1>3, <1>4, <1>5 DEF Working, OfWorker
-----------------------------------------------------------------------------
(* Kills.                                                                  *)

\* A job keeps its worker as long as it is being killed: who delivers it waits for
\* put_lock.
LEMMA TargetStays ==
  ASSUME TypeOK, [Next]_vars, NEW d \in Callers, Kills(d), Kills(d)'
  PROVE  Target(d)' = Target(d)
<1> <<d, caller[d].n>> \in Jobs
    BY ConstantsAssumption DEF TypeOK, CallersOK, Calls, Kills, Jobs
<1> USE DEF TypeOK, CallersOK, Calls, Kills, Target
<1>1. ASSUME NEW c \in Callers, Looking(c) \/ Create(c)
      PROVE  job' = job /\ caller'[d] = caller[d]
  <2>1. c # d
        BY <1>1, LookingStep DEF LookPcs, Create
  <2>2. CASE Looking(c)
        BY <2>1, <2>2, LookingStep DEF Goto, Pop
  <2>3. CASE Create(c)
        BY ZenonT(40), <2>1, <2>3, CreateStep
  <2>4. QED
        BY <1>1, <2>2, <2>3
<1>2. ASSUME NEW c \in Callers, Assign(c) \/ Answered(c)
      PROVE  job'[<<d, caller[d].n>>] = job[<<d, caller[d].n>>] /\ caller'[d] = caller[d]
  <2>1. c # d
        BY <1>2 DEF Assign, Answered
  <2>2. QED
        BY <1>2, <2>1 DEF Assign, Answered, Goto
<1>3. ASSUME NEW c \in Callers, Killing(c)
      PROVE  /\ job'[<<d, caller[d].n>>] = job[<<d, caller[d].n>>]
             /\ caller'[d].n = caller[d].n
  <2>1. CASE c = d
    <3>1. ~ Unidle(c)
          BY <2>1 DEF Unidle, Forget, Goto
    <3>2. job' = job
          BY <1>3, <3>1 DEF Killing, Expires, Strike, Unlist
    <3>3. QED
          BY <1>3, <2>1, <3>2, KillingStep
  <2>2. CASE c # d
    <3>1. caller'[d] = caller[d] /\ <<c, caller[c].n>> # <<d, caller[d].n>>
          BY <1>3, <2>2, KillingStep
    <3>2. QED
          BY <1>3, <3>1, KillingJob
  <2>3. QED
        BY <2>1, <2>2
<1>4. ASSUME NEW w \in Workers, Working(w)
      PROVE  job'[<<d, caller[d].n>>] = job[<<d, caller[d].n>>] /\ caller' = caller
  <2>1. PutLocked(<<d, caller[d].n>>)
        BY DEF PutLocked
  <2> HIDE DEF PutLocked
  <2>2. job'[<<d, caller[d].n>>] = job[<<d, caller[d].n>>]
        BY <1>4, <2>1, WorkingJob
  <2>3. QED
        BY <1>4, <2>2, WorkingStep
<1>5. CASE UNCHANGED vars
      BY <1>5 DEF vars
<1>6. QED
      BY <1>1, <1>2, <1>3, <1>4, <1>5, NextCases

\* A thread once made stays made.
LEMMA StaysMade ==
  ASSUME TypeOK, [Next]_vars, NEW w \in Workers, work[w].pc # "none"
  PROVE  work'[w].pc # "none" /\ work'[w].ident = work[w].ident
<1> USE DEF TypeOK, WorkersOK, Works
<1>1. ASSUME NEW c \in Callers, Looking(c) \/ Answered(c)
      PROVE  work' = work
      BY <1>1, LookingStep DEF Answered
<1>2. ASSUME NEW c \in Callers, Create(c) PROVE work'[w] = work[w]
      BY <1>2, CreateStep
<1>3. ASSUME NEW c \in Callers, Assign(c)
      PROVE  work'[w].pc = work[w].pc /\ work'[w].ident = work[w].ident
      BY <1>3 DEF Assign
<1>4. ASSUME NEW c \in Callers, Killing(c)
      PROVE  work'[w].pc = work[w].pc /\ work'[w].ident = work[w].ident
      BY <1>4, KillingStep
<1>5. ASSUME NEW v \in Workers, Working(v)
      PROVE  work'[w].pc # "none" /\ work'[w].ident = work[w].ident
      BY <1>5, WorkingStep
<1>6. CASE UNCHANGED vars
      BY <1>6 DEF vars
<1>7. QED
      BY <1>1, <1>2, <1>3, <1>4, <1>5, <1>6, NextCases

\* A worker that has been made and is not sound does not become so, unless the function
\* it runs swallows the exception.
LEMMA StaysUnsound ==
  ASSUME TypeOK, [Next]_vars, NEW w \in Workers, work[w].pc # "none", ~Sound(w)
  PROVE  ~Sound(w)' \/ Swallows(w)
<1> USE DEF TypeOK, WorkersOK, Works, Sound, Alive
<1>1. ASSUME NEW c \in Callers, Looking(c) \/ Answered(c)
      PROVE  ~Sound(w)'
      BY <1>1, LookingStep DEF Answered
<1>2. ASSUME NEW c \in Callers, Create(c) PROVE ~Sound(w)'
  <2>1. work'[w] = work[w]
        BY <1>2, CreateStep
  <2>2. QED
        BY <2>1
<1>3. ASSUME NEW c \in Callers, Assign(c) PROVE ~Sound(w)'
      BY <1>3 DEF Assign
<1>4. ASSUME NEW c \in Callers, Killing(c) PROVE ~Sound(w)'
  <2>1. work[w].exc => work'[w].exc
        BY <1>4 DEF Killing, Expires, Strike, Unlist, Unidle, Forget
  <2>2. QED
        BY <1>4, <2>1, KillingStep
<1>5. ASSUME NEW v \in Workers, Working(v) PROVE ~Sound(w)' \/ Swallows(w)
  <2>1. CASE v # w
        BY <1>5, <2>1, WorkingStep
  <2>2. CASE v = w
        BY <1>5, <2>2 DEF Working, OfWorker, Take, Finish, Deliver, Leave, Exit, Dies,
                          TimesOut, Swallows
  <2>3. QED
        BY <2>1, <2>2
<1>6. CASE UNCHANGED vars
      BY <1>6 DEF vars
<1>7. QED
      BY <1>1, <1>2, <1>3, <1>4, <1>5, <1>6, NextCases

\* The worker of a job is one that its caller was given.
LEMMA NextJobWorker ==
  ASSUME IInv, [Next]_vars, NEW j \in Jobs, job'[j].worker \in Workers
  PROVE  work'[job'[j].worker].pc # "none"
<1> USE DEF IInv, TypeOK, KillIsAimed
<1>1. CASE job'[j].worker = job[j].worker
      BY <1>1, StaysMade
<1>2. CASE job'[j].worker # job[j].worker
  <2>1. ASSUME NEW c \in Callers,
               Looking(c) \/ Create(c) \/ Assign(c) \/ Answered(c) \/ Killing(c)
        PROVE  \E d \in Callers : Assign(d) /\ job'[j].worker = caller[d].w
    <3>1. ~ (Looking(c) \/ Create(c) \/ Answered(c))
          BY <1>2, LookingStep DEF Create, Answered
    <3>2. ~ Killing(c)
      <4>1. ASSUME NEW k, job' = [job EXCEPT ![k].worker = NoOne] PROVE FALSE
            BY <1>2, <4>1, ConstantsAssumption
      <4>2. QED
            BY <1>2, <4>1, KillingJob
    <3>3. Assign(c)
          BY <2>1, <3>1, <3>2
    <3>4. job'[j].worker = caller[c].w
          BY <1>2, <3>3 DEF Assign
    <3>5. QED
          BY <3>3, <3>4
  <2>2. ASSUME NEW w \in Workers, Working(w) PROVE FALSE
    <3>1. \A k : /\ [job EXCEPT ![k] = Delivered][j].worker \in {job[j].worker, NoOne}
                 /\ [job EXCEPT ![k].notified = TRUE][j].worker = job[j].worker
          BY DEF Delivered, JobStates
    <3>2. QED
          BY <1>2, <2>2, <3>1, WorkingJob, ConstantsAssumption
  <2>3. PICK d \in Callers : Assign(d) /\ job'[j].worker = caller[d].w
        BY <1>2, <2>1, <2>2, NextCases DEF vars
  <2>4. work[caller[d].w].pc # "none"
        BY <2>3 DEF Assign, OneOwner
  <2>5. QED
        BY <2>3, <2>4, StaysMade
<1>3. QED
      BY <1>1, <1>2

\* Where no ident is used twice, a worker keeps its own.
LEMMA NextIdent ==
  ASSUME IInv, [Next]_vars, "recycle" \notin scenario, NEW w \in Workers, work'[w].pc # "none"
  PROVE  work'[w].ident = w
<1>1. CASE work[w].pc # "none"
      BY <1>1, StaysMade DEF IInv, KillIsAimed
<1>2. CASE work[w].pc = "none"
  <2>1. ASSUME NEW c \in Callers,
               Looking(c) \/ Create(c) \/ Assign(c) \/ Answered(c) \/ Killing(c)
        PROVE  Create(c)
    <3>1. ~ (Looking(c) \/ Answered(c) \/ Killing(c))
          BY <1>2, LookingStep, KillingStep DEF Answered, IInv
    <3>2. ~ Assign(c)
          BY <1>2 DEF Assign, IInv, TypeOK, WorkersOK, Works
    <3>3. QED
          BY <2>1, <3>1, <3>2
  <2>2. ASSUME NEW v \in Workers, Working(v) PROVE FALSE
        BY <1>2, <2>2, WorkingStep DEF IInv, TypeOK
  <2>3. PICK c \in Callers : Create(c)
        BY <1>2, <2>1, <2>2, NextCases DEF vars
  <2>4. PICK v \in Workers, id \in Workers \cup {NoOne} :
           /\ "recycle" \notin scenario => id = v
           /\ work' = [work EXCEPT ![v].pc = "wait", ![v].ident = id]
        BY <2>3, CreateStep DEF IInv
  <2>5. QED
        BY <1>2, <2>4 DEF IInv, TypeOK, WorkersOK, Works
<1>3. QED
      BY <1>1, <1>2

\* A kill begins by setting the exception of its worker.
LEMMA NewKill ==
  ASSUME TypeOK, [Next]_vars, NEW c \in Callers, Kills(c)',
         ~(Kills(c) /\ caller[c].pc = caller'[c].pc)
  PROVE  Strike(c) \/ Unlist(c)
<1> USE DEF TypeOK, CallersOK, Calls, Kills
<1>1. ASSUME NEW d \in Callers,
             Looking(d) \/ Create(d) \/ Assign(d) \/ Answered(d) \/ Killing(d)
      PROVE  d = c /\ Killing(c)
  <2>1. caller'[c] # caller[c] /\ caller'[c].pc \in {"unlist", "unidle"}
        OBVIOUS
  <2>2. ASSUME Looking(d) PROVE FALSE
    <3>1. CASE \E pc \in LookPcs : Goto(d, pc)
          BY <2>1, <3>1 DEF Goto, LookPcs
    <3>2. CASE Pop(d)
          BY <2>1, <3>2 DEF Pop
    <3>3. QED
          BY <2>2, <3>1, <3>2, LookingStep
  <2>3. ASSUME Create(d) PROVE FALSE
    <3>1. PICK w : caller' = [caller EXCEPT ![d].pc = "assign", ![d].w = w]
          BY <2>3, CreateStep
    <3>2. QED
          BY <2>1, <3>1
  <2>4. ASSUME Assign(d) \/ Answered(d) PROVE FALSE
        BY <2>1, <2>4 DEF Assign, Answered, Goto
  <2>5. QED
        BY <1>1, <2>1, <2>2, <2>3, <2>4, KillingStep
<1>2. Killing(c)
      BY <1>1, NextCases, WorkingStep DEF vars
<1>3. QED
      BY <1>2 DEF Killing, Expires, Unidle, Forget, Goto

\* A thread with an exception pending lives.
LEMMA NextPending ==
  ASSUME IInv, [Next]_vars, NEW w \in Workers, work'[w].exc
  PROVE  Alive(w)'
<1>1. TypeOK /\ (work[w].exc => Alive(w))
      BY DEF IInv, KillIsAimed
<1>2. ASSUME NEW c \in Callers, Create(c) PROVE Alive(w)'
  <2>1. PICK v \in Workers, id \in Workers \cup {NoOne} :
           work[v].pc = "none" /\ work' = [work EXCEPT ![v].pc = "wait", ![v].ident = id]
        BY <1>1, <1>2, CreateStep
  <2>2. QED
        BY <1>1, <2>1 DEF TypeOK, WorkersOK, Works, Alive
<1> USE DEF TypeOK, WorkersOK, Works, Alive
<1>3. ASSUME NEW c \in Callers, Looking(c) \/ Answered(c) PROVE Alive(w)'
      BY <1>1, <1>3, LookingStep DEF Answered
<1>4. ASSUME NEW c \in Callers, Assign(c) PROVE Alive(w)'
      BY <1>1, <1>4 DEF Assign
<1>5. ASSUME NEW c \in Callers, Killing(c) PROVE Alive(w)'
  <2>1. Alive(w)
        BY <1>1, <1>5 DEF Killing, Expires, Strike, Unlist, Unidle, Forget
  <2>2. QED
        BY <1>1, <1>5, <2>1, KillingStep
<1>6. ASSUME NEW v \in Workers, Working(v) PROVE Alive(w)'
  <2>1. CASE v # w
        BY <1>1, <1>6, <2>1, WorkingStep
  <2>2. CASE v = w
        BY <1>1, <1>6, <2>2 DEF Working, OfWorker, Take, Finish, Deliver, Leave, Exit, Dies,
                          TimesOut, Swallows
  <2>3. QED
        BY <2>1, <2>2
<1>7. CASE UNCHANGED vars
      BY <1>1, <1>7 DEF vars
<1>8. QED
      BY <1>2, <1>3, <1>4, <1>5, <1>6, <1>7, NextCases

\* A kill stays aimed.
LEMMA NextKillIsAimed == ASSUME IInv, [Next]_vars PROVE KillIsAimed'
<1> USE DEF IInv
<1>1. \A j \in Jobs : job'[j].worker \in Workers => work'[job'[j].worker].pc # "none"
      BY NextJobWorker
<1>2. ASSUME NEW c \in Callers, Kills(c)' PROVE Target(c)' \in Workers
  <2>1. CASE Kills(c)
        BY <1>2, <2>1, TargetStays DEF KillIsAimed
  <2>2. CASE ~ Kills(c)
    <3>1. Strike(c)
          BY <1>2, <2>2, NewKill DEF Unlist, Kills
    <3>2. <<c, caller[c].n>> \in Jobs
          BY <3>1, ConstantsAssumption DEF Strike, TypeOK, CallersOK, Calls, Jobs
    <3>3. Target(c) # NoOne /\ Target(c) \in Workers
      <4>1. Target(c) # NoOne
            BY <1>2, <3>1 DEF Strike, Goto, Kills, TypeOK, CallersOK, Calls
      <4>2. Target(c) \in Workers \cup {NoOne}
            BY <3>2 DEF TypeOK, JobStates, Target
      <4>3. QED
            BY <4>1, <4>2
    <3>4. QED
          BY <3>1, <3>3, KillingStep DEF Killing, Strike, Target
  <2>3. QED
        BY <2>1, <2>2
<1>3. ASSUME "swallow" \notin scenario, NEW c \in Callers, caller'[c].pc = "unlist"
      PROVE  ~Sound(Target(c))'
  <2>1. CASE caller[c].pc = "unlist"
    <3>1. PICK w : w = Target(c)
          OBVIOUS
    <3>2. w \in Workers /\ ~Sound(w) /\ Target(c)' = w
          BY <1>3, <2>1, <3>1, TargetStays DEF KillIsAimed, Kills
    <3>3. work[w].pc # "none"
      <4>1. <<c, caller[c].n>> \in Jobs
            BY <2>1, ConstantsAssumption DEF TypeOK, CallersOK, Calls, Jobs
      <4>2. QED
            BY <3>1, <3>2, <4>1 DEF KillIsAimed, Target
    <3>4. ~Sound(w)'
          BY <1>3, <3>2, <3>3, StaysUnsound DEF Swallows
    <3>5. QED
          BY <3>2, <3>4 DEF Sound, Alive
  <2>2. CASE caller[c].pc # "unlist"
    <3>1. Strike(c)
      <4>1. Strike(c) \/ Unlist(c)
            BY <1>3, <2>2, NewKill DEF Kills
      <4>2. QED
            BY <2>2, <4>1 DEF Unlist
    <3>2. Target(c)' = Target(c) /\ Target(c)' \in Workers
          BY <1>2, <1>3, <3>1, KillingStep DEF Killing, Strike, Target, Kills
    <3>3. PICK w \in Workers : w = Target(c) /\ Target(c)' = w
          BY <3>2
    <3>4. work'[w].pc = work[w].pc /\ (Alive(w) => work'[w].exc)
      <4>1. Target(c) # NoOne
            BY <3>3, ConstantsAssumption
      <4>2. work'[w] = [work[w] EXCEPT !.exc =
                           @ \/ (Alive(w) /\ work[w].ident = work[w].ident)]
            BY <3>1, <3>3, <4>1 DEF Strike
      <4>3. QED
            BY <4>2 DEF TypeOK, WorkersOK, Works
    <3>5. QED
          BY <3>3, <3>4 DEF Sound, Alive
  <2>3. QED
        BY <2>1, <2>2
<1>4. ASSUME "recycle" \notin scenario, NEW w \in Workers, work'[w].pc # "none"
      PROVE  work'[w].ident = w
      BY <1>4, NextIdent
<1>5. QED
      BY <1>1, <1>2, <1>3, <1>4, NextPending, StepScenario DEF KillIsAimed

\* Where no ident is used twice, who stops being sound exits or is the one that a kill
\* is aimed at.
LEMMA WhoIsHit ==
  ASSUME IInv, [Next]_vars, "recycle" \notin scenario,
         NEW w \in Workers, Sound(w), ~Sound(w)', ~Exit(w)
  PROVE  \E c \in Callers : caller'[c].pc = "unlist" /\ Target(c)' = w
<1> USE DEF IInv, TypeOK, CallersOK, WorkersOK, Works, Calls, Sound, Alive
<1>1. ASSUME NEW c \in Callers, Looking(c) \/ Create(c) \/ Assign(c) \/ Answered(c)
      PROVE  FALSE
  <2>1. CASE Looking(c) \/ Answered(c)
        BY <2>1, LookingStep DEF Answered
  <2>2. CASE Create(c)
        BY <2>2, CreateStep
  <2>3. CASE Assign(c)
        BY <2>3 DEF Assign
  <2>4. QED
        BY <1>1, <2>1, <2>2, <2>3
<1>2. ASSUME NEW v \in Workers, Working(v) PROVE FALSE
  <2>1. v = w
        BY <1>2, WorkingStep
  <2>2. ~ Dies(w)
        BY DEF Dies
  <2>3. QED
        BY <1>2, <2>1, <2>2 DEF Working, OfWorker, Take, Finish, Deliver, Leave, Exit,
                                TimesOut, Swallows
<1>3. ASSUME NEW c \in Callers, Killing(c)
      PROVE  caller'[c].pc = "unlist" /\ Target(c)' = w
  <2>1. Strike(c) /\ Target(c) # NoOne
        BY <1>3 DEF Killing, Expires, Strike, Unlist, Unidle, Forget
  <2>2. /\ work[w].ident = work[Target(c)].ident /\ caller'[c].pc = "unlist"
        /\ caller'[c].n = caller[c].n /\ job' = job
    <3>1. work'[w] = [work[w] EXCEPT !.exc =
                         @ \/ (Alive(w) /\ work[w].ident = work[Target(c)].ident)]
          BY <2>1 DEF Strike
    <3>2. work[w].ident = work[Target(c)].ident
          BY <3>1
    <3>3. QED
          BY <2>1, <3>2 DEF Strike, Goto
  <2>3. Target(c) \in Workers /\ work[Target(c)].pc # "none"
    <3>1. <<c, caller[c].n>> \in Jobs
          BY <2>1, ConstantsAssumption DEF Strike, Jobs
    <3>2. QED
          BY <2>1, <3>1 DEF Target, JobStates, KillIsAimed
  <2>4. Target(c) = w
        BY <2>2, <2>3 DEF KillIsAimed
  <2>5. QED
        BY <2>2, <2>4 DEF Target
<1>4. CASE UNCHANGED vars
      BY <1>4 DEF vars
<1>5. QED
      BY <1>1, <1>2, <1>3, <1>4, NextCases

\* A caller goes from one step of its kill to the next by that step.
LEMMA KillGoesOn ==
  ASSUME TypeOK, [Next]_vars, NEW c \in Callers, Kills(c), caller'[c].pc # caller[c].pc
  PROVE  IF caller[c].pc = "unlist" THEN Unlist(c) ELSE Unidle(c)
<1> USE DEF TypeOK, CallersOK, Calls, Kills
<1>1. ASSUME NEW d \in Callers,
             Looking(d) \/ Create(d) \/ Assign(d) \/ Answered(d) \/ Killing(d)
      PROVE  Killing(c)
  <2>1. CASE d = c
    <3>1. ~ (Looking(c) \/ Create(c) \/ Assign(c) \/ Answered(c))
          BY LookingStep DEF Create, Assign, Answered, LookPcs
    <3>2. QED
          BY <1>1, <2>1, <3>1
  <2>2. CASE d # c
    <3>1. ASSUME Looking(d) PROVE FALSE
      <4>1. caller'[c] = caller[c]
            BY <2>2, <3>1, LookingStep DEF Goto, Pop
      <4>2. QED
            BY <4>1
    <3>2. ASSUME Create(d) PROVE FALSE
      <4>1. PICK w : caller' = [caller EXCEPT ![d].pc = "assign", ![d].w = w]
            BY <3>2, CreateStep
      <4>2. QED
            BY <2>2, <4>1
    <3>3. ASSUME Assign(d) \/ Answered(d) PROVE FALSE
          BY <2>2, <3>3 DEF Assign, Answered, Goto
    <3>4. QED
          BY <1>1, <2>2, <3>1, <3>2, <3>3, KillingStep
  <2>3. QED
        BY <2>1, <2>2
<1>2. Killing(c)
      BY <1>1, NextCases, WorkingStep DEF vars
<1>3. QED
      BY <1>2 DEF Killing, Expires, Strike, Unlist, Unidle, Forget

\* Only a worker that has finished enters the idle set, and only a new one the list.
LEMMA WhoIsAdded ==
  ASSUME TypeOK, [Next]_vars
  PROVE  /\ \A w \in idle' \ idle : Finish(w)
         /\ \A w \in all' \ all :
              work[w].pc = "none" /\ work'[w].pc = "wait" /\ work'[w].exc = work[w].exc
<1>1. ASSUME NEW c \in Callers, Looking(c) \/ Assign(c) \/ Answered(c) \/ Killing(c)
      PROVE  idle' \subseteq idle /\ all' \subseteq all
      BY <1>1, LookingStep, KillingStep DEF Assign, Answered, Pop
<1>2. ASSUME NEW c \in Callers, Create(c)
      PROVE  /\ idle' = idle
             /\ \A w \in all' \ all :
                  work[w].pc = "none" /\ work'[w].pc = "wait" /\ work'[w].exc = work[w].exc
  <2>1. PICK w \in Workers, id \in Workers \cup {NoOne} :
           /\ work[w].pc = "none" /\ idle' = idle /\ all' = all \cup {w}
           /\ work' = [work EXCEPT ![w].pc = "wait", ![w].ident = id]
        BY <1>2, CreateStep
  <2>2. QED
        BY <2>1 DEF TypeOK, WorkersOK, Works
<1>3. ASSUME NEW w \in Workers, Working(w)
      PROVE  all' \subseteq all /\ \A v \in idle' \ idle : Finish(v)
      BY <1>3 DEF Working, OfWorker, Take, Finish, Deliver, Leave, Exit, Dies, TimesOut,
                  Swallows
<1>4. CASE UNCHANGED vars
      BY <1>4 DEF vars
<1>5. QED
      BY <1>1, <1>2, <1>3, <1>4, NextCases

\* A dying worker is in the idle set until the second step of its kill and on the list
\* until the first.
LEMMA NextDyingLeaves == ASSUME IInv, [Next]_vars PROVE DyingLeaves'
<1> SUFFICES ASSUME "recycle" \notin scenario PROVE DyingLeaves'
    BY StepScenario DEF DyingLeaves
<1>1. ASSUME NEW w \in idle', ~Sound(w)'
      PROVE  \E c \in Callers : Kills(c)' /\ Target(c)' = w
  <2>1. w \in idle /\ w \in Workers
    <3>1. ~ Finish(w)
          BY <1>1 DEF Finish, Sound, Alive, IInv, TypeOK, WorkersOK, Works
    <3>2. QED
          BY <1>1, <3>1, WhoIsAdded DEF IInv, TypeOK
  <2>2. CASE Sound(w)
    <3>1. ~ Exit(w)
          BY <2>1 DEF Exit, IInv, OneOwner
    <3>2. QED
          BY <1>1, <2>1, <2>2, <3>1, WhoIsHit DEF Kills
  <2>3. CASE ~Sound(w)
    <3>1. PICK c \in Callers : Kills(c) /\ Target(c) = w
          BY <2>1, <2>3 DEF IInv, DyingLeaves
    <3>2. ~ Unidle(c)
          BY <1>1, <3>1 DEF Unidle
    <3>3. Kills(c)'
          BY <3>1, <3>2, KillGoesOn DEF Kills, Unlist, Goto, IInv, TypeOK, CallersOK, Calls
    <3>4. QED
          BY <3>1, <3>3, TargetStays DEF IInv
  <2>4. QED
        BY <2>2, <2>3
<1>2. ASSUME NEW w \in all', ~Sound(w)'
      PROVE  \E c \in Callers : caller'[c].pc = "unlist" /\ Target(c)' = w
  <2>1. w \in all /\ w \in Workers
    <3>1. w \in Workers
          BY NextTypes DEF IInv, TypeOK
    <3>2. ~ (work[w].pc = "none" /\ work'[w].pc = "wait" /\ work'[w].exc = work[w].exc)
          BY <1>2, <3>1 DEF IInv, KillIsAimed, Sound, Alive
    <3>3. QED
          BY <1>2, <3>1, <3>2, WhoIsAdded DEF IInv
  <2>2. CASE Sound(w)
    <3>1. ~ Exit(w)
          BY <1>2 DEF Exit
    <3>2. QED
          BY <1>2, <2>1, <2>2, <3>1, WhoIsHit
  <2>3. CASE ~Sound(w)
    <3>1. PICK c \in Callers : caller[c].pc = "unlist" /\ Target(c) = w
          BY <2>1, <2>3 DEF IInv, DyingLeaves
    <3>2. ~ Unlist(c)
          BY <1>2, <3>1 DEF Unlist
    <3>3. caller'[c].pc = "unlist"
          BY <3>1, <3>2, KillGoesOn DEF Kills, IInv
    <3>4. QED
          BY <3>1, <3>3, TargetStays DEF IInv, Kills
  <2>4. QED
        BY <2>2, <2>3
<1>3. QED
      BY <1>1, <1>2 DEF DyingLeaves
-----------------------------------------------------------------------------
(* The invariant and what follows from it.                                 *)

\* The invariant is inductive.
LEMMA NextIInv == IInv /\ [Next]_vars => IInv'
<1> SUFFICES ASSUME IInv, [Next]_vars PROVE IInv'
    OBVIOUS
<1>1. TypeOK' /\ LockIsHeld' /\ SizeIsKept' /\ KillIsAimed' /\ DyingLeaves'
      BY NextTypes, NextLock, NextSize, NextKillIsAimed, NextDyingLeaves DEF IInv
<1>2. OneOwner'
  <2>1. CASE UNCHANGED vars
        BY <2>1 DEF vars, IInv, OneOwner
  <2>2. QED
        BY <2>1, CallerOwner, WorkerOwner, NextCases
<1>3. QED
      BY <1>1, <1>2 DEF IInv

\* The invariant holds in every behaviour.
LEMMA IInvHolds == Spec => []IInv
<1>1. QED
      BY InitIInv, NextIInv, PTL DEF Spec

\* The values of the variables: threads, callers and jobs stay in their states, and a
\* job is always given to a real worker.
THEOREM TypeCorrect == Spec => []TypeOK
<1>1. IInv => TypeOK
      BY DEF IInv
<1>2. QED
      BY <1>1, IInvHolds, PTL

\* PoolBounded of every pool: creations, kills, timeouts and exits of any number of
\* threads never leave more live threads than pool_size that no kill has abandoned.
THEOREM PoolIsBounded == Spec => []PoolBounded
<1>1. IInv => PoolBounded
  <2> SUFFICES ASSUME IInv, "swallow" \notin scenario
               PROVE  Cardinality({w \in Workers : Sound(w)}) <= Size
      BY DEF PoolBounded
  <2>1. {w \in Workers : Sound(w)} \in SUBSET all
        BY DEF IInv, SizeIsKept
  <2> HIDE DEF Sound
  <2>2. /\ Cardinality({w \in Workers : Sound(w)}) <= Cardinality(all)
        /\ IsFiniteSet({w \in Workers : Sound(w)})
        BY <2>1, FS_Subset DEF IInv, SizeIsKept
  <2>3. /\ Cardinality({w \in Workers : Sound(w)}) \in Nat
        /\ Cardinality(all) \in Nat
        BY <2>2, FS_CardinalityType DEF IInv, SizeIsKept
  <2>4. QED
        BY <2>2, <2>3, ConstantsAssumption DEF IInv, SizeIsKept
<1>2. QED
      BY <1>1, IInvHolds, PTL

\* PoolIsUsable of every pool: popitem() hands a caller a worker that nobody else has,
\* and one that is dying, or dead, only while the three steps of its kill last.
THEOREM PoolStaysUsable == Spec => []PoolIsUsable
<1>1. IInv => PoolIsUsable
  <2> SUFFICES ASSUME IInv PROVE PoolIsUsable
      OBVIOUS
  <2>1. ASSUME NEW w \in idle
        PROVE  /\ work[w].next = <<>> /\ work[w].pc # "run"
               /\ \A c \in Callers : ~(caller[c].pc = "assign" /\ caller[c].w = w)
        BY DEF IInv, OneOwner
  <2>2. ASSUME "recycle" \notin scenario, NEW w \in idle \cup all
        PROVE  Sound(w) \/ \E c \in Callers : Kills(c) /\ Target(c) = w
        BY <2>2 DEF IInv, DyingLeaves, Kills
  <2>3. QED
        BY <2>1, <2>2 DEF PoolIsUsable
<1>2. QED
      BY <1>1, IInvHolds, PTL
-----------------------------------------------------------------------------
(* No job is lost where nobody kills.                                      *)

\* A live thread has the job as its next one or is working on it.
InHand(j) ==
    \E w \in Workers : /\ Alive(w)
                       /\ \/ work[w].next = j
                          \/ work[w].pc \in {"run", "deliver"} /\ work[w].doing = j

\* The safety half of JobsAnswered: without kills the job a caller waits for has been
\* answered or is in hand.  A job put on a worker that exits (_work() at IDLE_TIMEOUT),
\* or over a job another caller has put there, would break it.
JobsInHand ==
    "kill" \notin scenario =>
        \A c \in Callers : caller[c].pc = "wait" =>
            job[<<c, caller[c].n>>].notified \/ InHand(<<c, caller[c].n>>)

\* What makes it inductive: nobody dies but by leaving, and no idle or assigned worker
\* does.
NobodyKilled ==
    "kill" \notin scenario =>
        /\ \A w \in Workers : ~work[w].exc
        /\ \A c \in Callers : caller[c].pc \notin {"expired", "unlist", "unidle"}
        /\ \A w \in idle : Alive(w)
        /\ \A c \in Callers : caller[c].pc = "assign" => Alive(caller[c].w)

JInv == IInv /\ NobodyKilled /\ JobsInHand

\* So no step is part of a kill.
LEMMA NoKilling ==
  ASSUME NobodyKilled, "kill" \notin scenario, NEW c \in Callers
  PROVE  ~ Killing(c)
  BY DEF NobodyKilled, Killing, Expires, Strike, Unlist, Unidle, Forget

\* Nobody is killed, and an assigned worker lives on.
LEMMA NextNobodyKilled == JInv /\ [Next]_vars => NobodyKilled'
<1> SUFFICES ASSUME JInv, [Next]_vars, "kill" \notin scenario
             PROVE  NobodyKilled'
    BY StepScenario DEF NobodyKilled
<1> USE DEF JInv, IInv, TypeOK, CallersOK, WorkersOK, Works, Calls, NobodyKilled, Alive
<1>1. ASSUME NEW c \in Callers, Looking(c) PROVE NobodyKilled'
  <2>1. work' = work
        BY <1>1, LookingStep
  <2>2. CASE Pop(c)
    <3>1. PICK w \in idle : /\ idle' = idle \ {w}
                            /\ caller' = [caller EXCEPT ![c].pc = "assign", ![c].w = w]
          BY <2>2 DEF Pop
    <3>2. Alive(w)
          BY <3>1
    <3>3. QED
          BY <2>1, <3>1, <3>2
  <2>3. CASE idle' = idle /\ \E pc \in LookPcs : Goto(c, pc)
    <3>1. PICK pc \in LookPcs : caller' = [caller EXCEPT ![c].pc = pc]
          BY <2>3 DEF Goto
    <3>2. pc \notin {"assign", "expired", "unlist", "unidle"}
          BY <3>1 DEF LookPcs
    <3>3. QED
          BY <2>1, <2>3, <3>1, <3>2
  <2>4. QED
        BY <1>1, <2>2, <2>3, LookingStep
<1>2. ASSUME NEW c \in Callers, Create(c) PROVE NobodyKilled'
  <2>1. PICK w \in Workers, id \in Workers \cup {NoOne} :
           /\ idle' = idle /\ work' = [work EXCEPT ![w].pc = "wait", ![w].ident = id]
           /\ caller' = [caller EXCEPT ![c].pc = "assign", ![c].w = w]
        BY <1>2, CreateStep
  <2>2. QED
        BY <2>1
<1>3. ASSUME NEW c \in Callers, Assign(c) PROVE NobodyKilled'
      BY <1>3 DEF Assign
<1>4. ASSUME NEW c \in Callers, Answered(c) PROVE NobodyKilled'
      BY <1>4 DEF Answered, Goto
<1>5. ASSUME NEW w \in Workers, Working(w) PROVE NobodyKilled'
  <2>1. /\ ~ Dies(w) /\ caller' = caller
        /\ \A v \in Workers : work'[v].exc = work[v].exc
        BY SMTT(30), <1>5
        DEF Working, OfWorker, Take, Finish, Deliver, Leave, Exit, Dies, TimesOut, Swallows
  <2>2. \A v \in Workers \ {w} : work'[v] = work[v]
        BY <1>5, WorkingStep
  <2>3. Alive(w)' \/ Exit(w)
        BY <1>5, <2>1
        DEF Working, OfWorker, Take, Finish, Deliver, Leave, Exit, TimesOut, Swallows
  <2>4. Exit(w) =>
           w \notin idle /\ \A c \in Callers : caller[c].pc = "assign" => caller[c].w # w
        BY DEF Exit, OneOwner
  <2>5. idle' \subseteq idle \/ (Finish(w) /\ idle' = idle \cup {w})
        BY <1>5 DEF Working, OfWorker, Take, Finish, Deliver, Leave, Exit, Dies, TimesOut,
                    Swallows
  <2>6. \A v \in idle' : Alive(v)'
    <3>1. ~ (Exit(w) /\ Finish(w))
          BY DEF Exit, Finish
    <3>2. QED
          BY <2>2, <2>3, <2>4, <2>5, <3>1
  <2>7. QED
        BY <2>1, <2>2, <2>3, <2>4, <2>6
<1>6. CASE UNCHANGED vars
      BY <1>6 DEF vars
<1>7. QED
      BY <1>1, <1>2, <1>3, <1>4, <1>5, <1>6, NextCases, NoKilling

\* A slot with a job in it is not empty.
LEMMA JobIsNoHole == ASSUME NEW j \in Jobs PROVE j # <<>>
<1>1. PICK c \in Callers, n \in 1..MaxJobs : j = <<c, n>>
      BY DEF Jobs
<1>2. <<c, n>> # <<>>
      OBVIOUS
<1>3. QED
      BY <1>1, <1>2

\* A job in hand stays in hand or is answered.
LEMMA HandKeeps ==
  ASSUME JInv, [Next]_vars, "kill" \notin scenario, NEW j \in Jobs, InHand(j)
  PROVE  job'[j].notified \/ InHand(j)'
<1> USE DEF JInv, IInv, TypeOK, WorkersOK, Works, Alive
<1> PICK w \in Workers : /\ Alive(w)
                         /\ \/ work[w].next = j
                            \/ work[w].pc \in {"run", "deliver"} /\ work[w].doing = j
    BY DEF InHand
<1>1. ASSUME NEW c \in Callers, Looking(c) \/ Answered(c) PROVE InHand(j)'
      BY <1>1, LookingStep DEF Answered, InHand
<1>2. ASSUME NEW c \in Callers, Create(c) PROVE InHand(j)'
  <2>1. work'[w] = work[w]
        BY <1>2, CreateStep
  <2>2. QED
        BY <2>1 DEF InHand
<1>3. ASSUME NEW c \in Callers, Assign(c) PROVE InHand(j)'
  <2>1. work[caller[c].w].next = <<>> /\ j # <<>>
        BY <1>3, JobIsNoHole DEF Assign, OneOwner
  <2>2. QED
        BY <1>3, <2>1 DEF Assign, InHand
<1>4. ASSUME NEW v \in Workers, Working(v), v # w PROVE InHand(j)'
  <2>1. work'[w] = work[w]
        BY <1>4, WorkingStep
  <2>2. QED
        BY <2>1 DEF InHand
<1>5. ASSUME Working(w) PROVE job'[j].notified \/ InHand(j)'
  <2>1. ~ Dies(w) /\ ~ Swallows(w) /\ j # <<>>
        BY JobIsNoHole DEF Dies, Swallows, NobodyKilled
  <2>2. CASE Take(w)
        BY <2>2 DEF Take, InHand
  <2>3. CASE Finish(w)
        BY <2>3 DEF Finish, InHand
  <2>4. CASE Deliver(w) /\ work[w].next = j
        BY <2>4 DEF Deliver, InHand
  <2>5. CASE Deliver(w) /\ work[w].doing = j
        BY <2>5 DEF Deliver, Delivered
  <2>6. CASE Leave(w)
    <3>1. w \notin idle /\ work[w].next = j
          BY <2>1, <2>6 DEF Leave, OneOwner
    <3>2. QED
          BY <2>6, <3>1 DEF Leave, InHand
  <2>7. CASE Exit(w)
        BY <2>1, <2>7 DEF Exit, OneOwner
  <2>8. CASE TimesOut(w)
        BY <2>1, <2>8 DEF TimesOut
  <2>9. QED
        BY <1>5, <2>1, <2>2, <2>3, <2>4, <2>5, <2>6, <2>7, <2>8 DEF Working, OfWorker, Deliver
<1>6. CASE UNCHANGED vars
      BY <1>6 DEF vars, InHand
<1>7. QED
      BY <1>1, <1>2, <1>3, <1>4, <1>5, <1>6, NextCases, NoKilling

\* An answered job stays answered.
LEMMA AnswerKeeps ==
  ASSUME IInv, [Next]_vars, NEW j \in Jobs, job[j].notified
  PROVE  job'[j].notified
<1> USE DEF IInv, TypeOK, JobStates
<1>1. ASSUME NEW k, NEW w, job' = [job EXCEPT ![k].worker = w] PROVE job'[j].notified
      BY <1>1
<1>2. ASSUME NEW c \in Callers, Looking(c) \/ Create(c) \/ Answered(c) PROVE job' = job
      BY <1>2, LookingStep DEF Create, Answered
<1>3. ASSUME NEW c \in Callers, Assign(c) PROVE job'[j].notified
      BY <1>1, <1>3 DEF Assign
<1>4. ASSUME NEW c \in Callers, Killing(c) PROVE job'[j].notified
      BY <1>1, <1>4, KillingJob
<1>5. ASSUME NEW w \in Workers, Working(w) PROVE job'[j].notified
      BY <1>5, WorkingJob DEF Delivered
<1>6. CASE UNCHANGED vars
      BY <1>6 DEF vars
<1>7. QED
      BY <1>2, <1>3, <1>4, <1>5, <1>6, NextCases

\* A caller begins to wait by assigning its job.
LEMMA StaysWaiting ==
  ASSUME TypeOK, [Next]_vars, NEW c \in Callers, caller'[c].pc = "wait", ~ Assign(c)
  PROVE  caller'[c] = caller[c]
<1> USE DEF TypeOK, CallersOK, Calls
<1>1. ASSUME NEW d \in Callers, Looking(d) PROVE caller'[c] = caller[c]
  <2>1. CASE Pop(d)
        BY <2>1 DEF Pop
  <2>2. CASE \E pc \in LookPcs : Goto(d, pc)
        BY <2>2 DEF Goto, LookPcs
  <2>3. QED
        BY <1>1, <2>1, <2>2, LookingStep
<1>2. ASSUME NEW d \in Callers, Create(d) PROVE caller'[c] = caller[c]
  <2>1. PICK w : caller' = [caller EXCEPT ![d].pc = "assign", ![d].w = w]
        BY <1>2, CreateStep
  <2>2. QED
        BY <2>1
<1>3. ASSUME NEW d \in Callers, Assign(d) \/ Answered(d) PROVE caller'[c] = caller[c]
      BY <1>3 DEF Assign, Answered, Goto
<1>4. ASSUME NEW d \in Callers, Killing(d) PROVE caller'[c] = caller[c]
      BY <1>4, KillingStep
<1>5. ASSUME NEW w \in Workers, Working(w) PROVE caller'[c] = caller[c]
      BY <1>5, WorkingStep
<1>6. CASE UNCHANGED vars
      BY <1>6 DEF vars
<1>7. QED
      BY <1>1, <1>2, <1>3, <1>4, <1>5, <1>6, NextCases

\* The job a caller waits for is in hand: by what the caller did, or since before.
LEMMA NextInHand == JInv /\ [Next]_vars => JobsInHand'
<1> SUFFICES ASSUME JInv, [Next]_vars, "kill" \notin scenario, NEW c \in Callers, NEW n,
                    caller'[c].pc = "wait", caller'[c].n = n
             PROVE  job'[<<c, n>>].notified \/ InHand(<<c, n>>)'
    BY StepScenario DEF JobsInHand
<1> USE DEF JInv, IInv, TypeOK, CallersOK, WorkersOK, Calls, Works
<1>1. CASE Assign(c)
  <2>1. /\ caller[c].w \in Workers /\ Alive(caller[c].w) /\ n = caller[c].n + 1
        BY <1>1 DEF Assign, NobodyKilled
  <2>2. /\ work'[caller[c].w].next = <<c, n>>
        /\ work'[caller[c].w].pc = work[caller[c].w].pc
        BY <1>1, <2>1 DEF Assign
  <2>3. QED
        BY <2>1, <2>2 DEF InHand, Alive
<1>2. CASE ~ Assign(c)
  <2>1. caller'[c] = caller[c]
        BY <1>2, StaysWaiting
  <2>2. <<c, n>> \in Jobs
        BY <2>1, ConstantsAssumption DEF Jobs
  <2>3. QED
        BY <2>1, <2>2, HandKeeps, AnswerKeeps DEF JobsInHand
<1>3. QED
      BY <1>1, <1>2

\* Without kills, no waiting caller's job is ever lost: it is answered or a live worker
\* thread has it, for any number of callers and jobs and any size of the pool.
THEOREM NoJobIsLost == Spec => []JobsInHand
<1>1. Init => JInv
      BY InitIInv DEF Init, JInv, NobodyKilled, JobsInHand, NoWork
<1>2. JInv /\ [Next]_vars => JInv'
      BY NextIInv, NextNobodyKilled, NextInHand DEF JInv
<1>3. JInv => JobsInHand
      BY DEF JInv
<1>4. QED
      BY <1>1, <1>2, <1>3, PTL DEF Spec
=============================================================================
