------------------------ MODULE WorkerProcessProofs ------------------------
(***************************************************************************)
(* Proofs about WorkerProcess: its types; that a thread which waits for    *)
(* its message to be sent is owed an answer in every behaviour, the ones   *)
(* with a lost backend and an interrupted main thread included; and that   *)
(* what the page shows of a worker, once everything the worker has sent is *)
(* read, is what the scheduler is doing.                                   *)
(***************************************************************************)
EXTENDS WorkerProcess, TLAPS

\* What makes WaiterIsServed inductive: the slot is taken as long as a message is in
\* it or is being sent, and from the end of the send loop on.
SlotIsTaken ==
    /\ bridge.ready => bridge.busy /\ bridge.loop = "ready"
    /\ bridge.loop # "ready" => bridge.busy

IInv == TypeOK /\ SlotIsTaken /\ WaiterIsServed
-----------------------------------------------------------------------------

\* What the main thread has still to send, wherever it goes.
LEMMA Todos ==
  /\ <<>> \in Seq(Messages) /\ <<>> \in Seq(Commands)
  /\ <<"running">> \in Seq(Messages) /\ <<"log">> \in Seq(Messages)
  /\ <<"no-task">> \in Seq(Messages) /\ <<"other">> \in Seq(Messages)
  /\ <<"scheduler-waiting">> \in Seq(Messages)
  /\ <<"task", "log">> \in Seq(Messages) /\ <<"preview", "no-task">> \in Seq(Messages)
  /\ <<"running", "task", "log">> \in Seq(Messages)
  /\ <<"no-task", "preview", "no-task">> \in Seq(Messages)
  /\ <<"error", "no-task", "preview", "no-task">> \in Seq(Messages)
  BY DEF Messages

\* The initial states satisfy the invariant.
LEMMA InitIInv == Init => IInv
<1> SUFFICES ASSUME Init PROVE IInv
    OBVIOUS
<1>1. sched \in Scheds
      BY ConstantsAssumption, Todos DEF Init, Scheds, Pcs
<1>2. send \in [Threads -> Sends] /\ bridge \in Bridges
      BY DEF Init, Sends, Bridges, Threads, Messages
<1>3. /\ logger \in Threads \cup {NoThread} /\ recv \in Recvs /\ backend \in Entries
      /\ config \in [version : 0..MaxEdits, watched : 0..MaxEdits]
      BY ConstantsAssumption DEF Init, Recvs, Entries, Commands, Shown
<1>4. TypeOK
      BY <1>1, <1>2, <1>3, Todos DEF Init, TypeOK
<1>5. QED
      BY <1>4 DEF Init, IInv, SlotIsTaken, WaiterIsServed

\* The steps inside of send() keep the types.
LEMMA SenderTypes ==
  ASSUME TypeOK, NEW t \in Threads, OfSender(t)
  PROVE  TypeOK'
<1>1. CASE Enter(t)
      BY <1>1 DEF Enter, TypeOK, Sends, outside
<1>2. CASE TakeMutex(t)
      BY ZenonT(40), <1>2 DEF TakeMutex, TypeOK, Sends, Bridges, outside
<1>3. CASE Publish(t)
      BY ZenonT(40), <1>3 DEF Publish, TypeOK, Sends, Bridges, outside
<1>4. QED
      BY <1>1, <1>2, <1>3 DEF OfSender

\* So does the release of a task lock.
LEMMA ReleaseTypes ==
  ASSUME TypeOK, ReleaseTask
  PROVE  send' \in [Threads -> Sends] /\ logger' \in Threads \cup {NoThread}
  BY DEF ReleaseTask, TypeOK, Sends, Bridges

\* The steps of the send loop keep the types.
LEMMA SendLoopTypes ==
  ASSUME TypeOK, SendLoop
  PROVE  TypeOK'
<1>1. CASE Wake
  <2>1. send' \in [Threads -> Sends] /\ logger' \in Threads \cup {NoThread}
        BY <1>1, ReleaseTypes DEF Wake, TypeOK
  <2>2. bridge' \in Bridges
        BY <1>1 DEF Wake, TypeOK, Bridges
  <2>3. QED
        BY <1>1, <2>1, <2>2 DEF Wake, TypeOK, outside
<1>2. CASE Transmit
  <2>1. send' \in [Threads -> Sends] /\ logger' \in Threads \cup {NoThread}
        BY <1>2, ReleaseTypes DEF Transmit
  <2>2. bridge' \in Bridges /\ bridge.msg \in Messages
        BY <1>2 DEF Transmit, TypeOK, Bridges
  <2>3. up' \in Seq(Messages)
    <3>1. up \in Seq(Messages) /\ (up' = up \/ up' = Append(up, bridge.msg))
          BY <1>2 DEF Transmit, TypeOK
    <3>2. QED
          BY <3>1, <2>2
  <2>4. QED
        BY <1>2, <2>1, <2>2, <2>3 DEF Transmit, TypeOK, outside
<1>3. QED
      BY <1>1, <1>2 DEF SendLoop

\* Where the main thread goes, with what it still sends.
LEMMA GotoTypes ==
  ASSUME TypeOK, NEW pc \in Pcs, NEW todo \in Seq(Messages), Goto(pc, todo)
  PROVE  sched' \in Scheds
  BY DEF Goto, TypeOK, Scheds

\* The two ends of the scheduler loop.
LEMMA EndTypes ==
  ASSUME TypeOK, StopsLoop \/ Fails
  PROVE  sched' \in Scheds
<1>1. CASE StopsLoop
  <2>1. "ending" \in Pcs /\ <<"no-task", "preview", "no-task">> \in Seq(Messages)
        BY Todos DEF Pcs
  <2>2. QED
        BY <1>1, <2>1, GotoTypes DEF StopsLoop
<1>2. CASE Fails
  <2>1. "ending" \in Pcs /\ <<"error", "no-task", "preview", "no-task">> \in Seq(Messages)
        BY Todos DEF Pcs
  <2>2. QED
        BY <1>2, <2>1 DEF Fails, TypeOK, Scheds
<1>3. QED
      BY <1>1, <1>2

\* A step of the scheduler between two messages changes its own state, the exit code
\* and what it remembers of the config file.
LEMMA BystanderTypes ==
  ASSUME TypeOK, UNCHANGED bystanders, sched' \in Scheds,
         proc' \in {"alive", "exit0", "exit1", "exit3"},
         config' \in [version : 0..MaxEdits, watched : 0..MaxEdits]
  PROVE  TypeOK'
  BY DEF TypeOK, bystanders

\* The steps of the main thread outside of send() keep the types.
LEMMA SchedulerTypes ==
  ASSUME TypeOK,
         \/ Booted \/ EnterLoop \/ Plan \/ Planned \/ Filler \/ Idle \/ Poll \/ RunReturns
         \/ TaskReturns \/ TaskSends \/ TaskBlocks
  PROVE  TypeOK'
<1> USE Todos
<1>1. /\ {"boot", "enter", "loop", "planned", "filler", "idle", "wait", "task", "native"}
             \subseteq Pcs
      /\ config \in [version : 0..MaxEdits, watched : 0..MaxEdits]
      /\ proc \in {"alive", "exit0", "exit1", "exit3"} /\ sched \in Scheds
      BY DEF Pcs, TypeOK
<1>2. /\ UNCHANGED bystanders
      /\ config' = config \/ config' = [config EXCEPT !.watched = config.version]
      /\ proc' = proc \/ proc' \in {"exit0", "exit1"}
      BY DEF Booted, EnterLoop, Plan, Planned, Filler, Idle, Poll, RunReturns, TaskReturns,
             TaskSends, TaskBlocks, bystanders
<1>3. config' \in [version : 0..MaxEdits, watched : 0..MaxEdits]
      BY <1>1, <1>2
<1>4. sched' \in Scheds
  <2>1. CASE Booted
        BY <2>1, <1>1, GotoTypes DEF Booted
  <2>2. CASE EnterLoop
    <3>1. CASE Goto("loop", <<"no-task">>)
          BY <3>1, <1>1, GotoTypes
    <3>2. CASE sched' = [sched EXCEPT !.failed = TRUE]
          BY <3>2, <1>1 DEF Scheds
    <3>3. QED
          BY <2>2, <3>1, <3>2 DEF EnterLoop
  <2>3. CASE Plan
    <3>1. CASE StopsLoop
          BY <3>1, EndTypes
    <3>2. CASE sched' = [sched EXCEPT !.pc = "planned", !.todo = <<"other">>,
                                      !.plan = config.version]
          BY <3>2, <1>1 DEF Scheds
    <3>3. QED
          BY <2>3, <3>1, <3>2 DEF Plan
  <2>4. CASE Planned
    <3>1. \/ Goto("loop", <<"other">>) \/ Goto("task", <<"task", "log">>)
          \/ Goto("filler", <<>>) \/ Fails
          BY <2>4 DEF Planned
    <3>2. QED
          BY <3>1, <1>1, GotoTypes, EndTypes
  <2>5. CASE Filler
    <3>1. Goto("idle", <<"preview", "no-task">>) \/ Fails \/ StopsLoop
          BY <2>5 DEF Filler
    <3>2. QED
          BY <3>1, <1>1, GotoTypes, EndTypes
  <2>6. CASE Idle
        BY <2>6, <1>1, GotoTypes DEF Idle
  <2>7. CASE Poll
    <3>1. \/ StopsLoop \/ Goto("task", <<"running", "task", "log">>)
          \/ Goto("loop", <<>>)
          BY <2>7 DEF Poll
    <3>2. QED
          BY <3>1, <1>1, GotoTypes, EndTypes
  <2>8. CASE RunReturns
        BY <2>8, <1>1 DEF RunReturns
  <2>9. CASE TaskReturns
    <3>1. Goto("loop", <<"log">>) \/ Fails \/ StopsLoop
          BY <2>9 DEF TaskReturns
    <3>2. QED
          BY <3>1, <1>1, GotoTypes, EndTypes
  <2>10. CASE TaskSends
    <3>1. Goto("task", <<"other">>) \/ Goto("task", <<"log">>)
          BY <2>10 DEF TaskSends
    <3>2. QED
          BY <3>1, <1>1, GotoTypes
  <2>11. CASE TaskBlocks
        BY <2>11, <1>1, GotoTypes DEF TaskBlocks
  <2>12. QED
        BY <2>1, <2>2, <2>3, <2>4, <2>5, <2>6, <2>7, <2>8, <2>9, <2>10, <2>11
<1>5. QED
      BY <1>1, <1>2, <1>3, <1>4, BystanderTypes

\* The main thread calls send() or is interrupted: the types are kept.
LEMMA MainSendsTypes ==
  ASSUME TypeOK, MainSends \/ Interrupted
  PROVE  TypeOK'
<1>1. CASE MainSends
  <2>1. Head(sched.todo) \in Messages /\ Tail(sched.todo) \in Seq(Messages)
        BY <1>1 DEF MainSends, TypeOK, Scheds
  <2>2. send' \in [Threads -> Sends]
        BY <1>1, <2>1 DEF MainSends, Calls, TypeOK, Sends, Threads
  <2>3. sched' \in Scheds
        BY <1>1, <2>1 DEF MainSends, TypeOK, Scheds
  <2>4. QED
        BY <1>1, <2>2, <2>3 DEF MainSends, TypeOK, outside
<1>2. CASE Interrupted
  <2>1. send' \in [Threads -> Sends] /\ logger' \in Threads \cup {NoThread}
        BY <1>2 DEF Interrupted, TypeOK, Sends, Threads
  <2>2. bridge' \in Bridges
        BY <1>2 DEF Interrupted, TypeOK, Bridges
  <2>3. sched' \in Scheds
    <3>1. "unwind" \in Pcs /\ <<"other">> \in Seq(Messages) /\ <<>> \in Seq(Messages)
          BY Todos DEF Pcs
    <3>2. QED
          BY <1>2, <3>1 DEF Interrupted, TypeOK, Scheds
  <2>4. proc' \in {"alive", "exit0", "exit1", "exit3"}
        BY <1>2 DEF Interrupted, TypeOK
  <2>5. QED
        BY <1>2, <2>1, <2>2, <2>3, <2>4 DEF Interrupted, TypeOK, outside
<1>3. QED
      BY <1>1, <1>2

\* The steps of the recv thread and of another thread keep the types.
LEMMA RecvTypes ==
  ASSUME TypeOK, OfRecv \/ PoolSends
  PROVE  TypeOK'
<1>1. CASE ReadCommand
  <2>1. Head(down) \in Commands /\ Tail(down) \in Seq(Commands)
        BY <1>1 DEF ReadCommand, TypeOK
  <2>2. send' \in [Threads -> Sends]
        BY <1>1 DEF ReadCommand, Calls, TypeOK, Sends, Threads, Messages
  <2>3. recv' \in Recvs
        BY <1>1, <2>1 DEF ReadCommand, Recvs
  <2>4. QED
        BY <1>1, <2>1, <2>2, <2>3 DEF ReadCommand, TypeOK
<1>2. CASE Obey
  <2>1. sched' \in Scheds /\ recv' \in Recvs /\ stopping' \in BOOLEAN
        BY <1>2 DEF Obey, TypeOK, Scheds, Recvs
  <2>2. QED
        BY <1>2, <2>1 DEF Obey, TypeOK, outside
<1>3. CASE BackendLost
      BY <1>3 DEF BackendLost, TypeOK, Bridges, Recvs, outside
<1>4. CASE Inject
      BY <1>4 DEF Inject, TypeOK, Scheds, Recvs, outside
<1>5. CASE Deadline
      BY <1>5 DEF Deadline, TypeOK, outside
<1>6. CASE PoolSends
      BY <1>6 DEF PoolSends, Calls, TypeOK, Sends, Threads, Messages, outside
<1>7. QED
      BY <1>1, <1>2, <1>3, <1>4, <1>5, <1>6 DEF OfRecv

\* What the backend and the user do.
OfBackend == Hear \/ HearEnd \/ Stop \/ Continue \/ Kill \/ BackendEnds \/ Edit

\* A request keeps the types, for every state and command the manager uses.
LEMMA RequestTypes ==
  ASSUME TypeOK, NEW op, NEW from, NEW to \in Shown, NEW cmd \in Commands,
         Request(op, from, to, cmd)
  PROVE  TypeOK'
<1>1. backend' \in Entries
      BY DEF Request, TypeOK, Entries
<1>2. down' \in Seq(Commands)
      BY DEF Request, TypeOK
<1>3. QED
      BY <1>1, <1>2 DEF Request, TypeOK, worker

\* So does everything else the backend does.
LEMMA BackendTypes ==
  ASSUME TypeOK, OfBackend
  PROVE  TypeOK'
<1>1. CASE Hear
  <2>1. up' \in Seq(Messages)
        BY <1>1 DEF Hear, TypeOK
  <2>2. backend' \in Entries
        BY <1>1 DEF Hear, TypeOK, Entries, Allows, Shown
  <2>3. QED
        BY <1>1, <2>1, <2>2 DEF Hear, TypeOK, worker
<1>2. CASE HearEnd
  <2>1. backend' \in Entries
        BY <1>2 DEF HearEnd, TypeOK, Entries, Shown
  <2>2. QED
        BY <1>2, <2>1 DEF HearEnd, TypeOK, worker
<1>3. CASE Stop \/ Continue \/ Kill
  <2>1. {"scheduler-stopping", "running", "killing"} \subseteq Shown
        BY DEF Shown
  <2>2. Commands = {"scheduler-stopping", "scheduler-continue", "killing"}
        BY DEF Commands
  <2>3. QED
        BY <1>3, <2>1, <2>2, RequestTypes DEF Stop, Continue, Kill
<1>4. CASE BackendEnds
  <2>1. backend' \in Entries /\ up' \in Seq(Messages)
        BY <1>4, Todos DEF BackendEnds, Entries, Shown
  <2>2. QED
        BY <1>4, <2>1 DEF BackendEnds, TypeOK, worker
<1>5. CASE Edit
  <2>1. config' \in [version : 0..MaxEdits, watched : 0..MaxEdits]
        BY <1>5, ConstantsAssumption DEF Edit, TypeOK
  <2>2. QED
        BY <1>5, <2>1 DEF Edit, TypeOK, worker
<1>6. QED
      BY <1>1, <1>2, <1>3, <1>4, <1>5 DEF OfBackend

\* Every step keeps the types.
LEMMA TypesStep == TypeOK /\ [Next]_vars => TypeOK'
<1> SUFFICES ASSUME TypeOK, [Next]_vars PROVE TypeOK'
    OBVIOUS
<1>1. CASE UNCHANGED vars
      BY <1>1 DEF vars, TypeOK
<1>2. CASE Next
      BY <1>2, SenderTypes, SendLoopTypes, SchedulerTypes, MainSendsTypes, RecvTypes,
         BackendTypes
      DEF Next, OfMain, OfBackend
<1>3. QED
      BY <1>1, <1>2
-----------------------------------------------------------------------------

\* A step that leaves the slot alone and makes no thread wait disturbs nothing.
LEMMA CalmStep ==
  ASSUME SlotIsTaken, WaiterIsServed, proc' = "alive" => proc = "alive",
         UNCHANGED <<bridge.busy, bridge.ready, bridge.by, bridge.msg, bridge.loop>>,
         \A t \in Threads : send'[t].pc = "wait" => send'[t] = send[t]
  PROVE  SlotIsTaken' /\ WaiterIsServed'
  BY DEF SlotIsTaken, WaiterIsServed, Alive

\* The steps inside of send(): a message is only put into a free slot, and then no
\* thread waits.
LEMMA SenderServes ==
  ASSUME IInv, NEW t \in Threads, OfSender(t)
  PROVE  SlotIsTaken' /\ WaiterIsServed'
<1>1. send \in [Threads -> Sends] /\ bridge \in Bridges
      BY DEF IInv, TypeOK
<1>2. CASE Enter(t)
  <2>1. \A u \in Threads : send'[u].pc = "wait" => send'[u] = send[u]
        BY <1>1, <1>2 DEF Enter, Sends
  <2>2. QED
        BY <1>2, <2>1, CalmStep DEF Enter, IInv
<1>3. CASE TakeMutex(t)
  <2>1. \A u \in Threads : send'[u].pc = "wait" => send'[u] = send[u]
        BY <1>1, <1>3 DEF TakeMutex, Sends
  <2>2. UNCHANGED <<bridge.busy, bridge.ready, bridge.by, bridge.msg, bridge.loop>>
        BY <1>1, <1>3 DEF TakeMutex, Bridges
  <2>3. QED
        BY <1>3, <2>1, <2>2, CalmStep DEF TakeMutex, IInv
<1>4. CASE Publish(t)
  <2>1. bridge.busy = FALSE /\ bridge.loop = "ready" /\ proc = "alive"
        BY <1>1, <1>4 DEF Publish, IInv, SlotIsTaken, Alive, Bridges
  <2>2. \A u \in Threads : send[u].pc # "wait"
        BY <2>1 DEF IInv, WaiterIsServed, Alive
  <2>3. /\ bridge'.busy /\ bridge'.ready /\ bridge'.loop = "ready"
        /\ bridge'.by = t /\ bridge'.msg = send[t].msg
        BY <1>1, <1>4, <2>1 DEF Publish, Bridges
  <2>4. /\ send'[t].msg = send[t].msg
        /\ \A u \in Threads \ {t} : send'[u] = send[u]
        BY <1>1, <1>4 DEF Publish, Sends
  <2>5. QED
        BY <2>2, <2>3, <2>4 DEF SlotIsTaken, WaiterIsServed
<1>5. QED
      BY <1>2, <1>3, <1>4 DEF OfSender

\* Whoever waits is the thread whose message is in the slot: once its task lock is
\* released no thread waits.
LEMMA ReleaseServes ==
  ASSUME TypeOK, WaiterIsServed, Alive, ReleaseTask
  PROVE  \A t \in Threads : send'[t].pc # "wait"
<1>1. send \in [Threads -> Sends] /\ bridge.by \in Threads
      BY DEF TypeOK, Bridges
<1>2. \A t \in Threads : send[t].pc = "wait" => t = bridge.by
      BY DEF WaiterIsServed
<1>3. QED
      BY <1>1, <1>2 DEF ReleaseTask, Sends

\* The send loop takes the message over, or releases its sender at its end.
LEMMA SendLoopServes ==
  ASSUME IInv, SendLoop
  PROVE  SlotIsTaken' /\ WaiterIsServed'
<1>1. bridge \in Bridges
      BY DEF IInv, TypeOK
<1>2. CASE Wake
  <2>1. /\ bridge'.busy = bridge.busy /\ bridge'.by = bridge.by /\ bridge'.msg = bridge.msg
        /\ bridge'.ready = FALSE
        /\ bridge'.loop = IF bridge.running THEN "sending" ELSE "ended"
        BY <1>1, <1>2 DEF Wake, Bridges
  <2>2. bridge.busy
        BY <1>2 DEF Wake, IInv, SlotIsTaken
  <2>3. SlotIsTaken'
        BY <2>1, <2>2 DEF SlotIsTaken
  <2>4. CASE bridge.running
    <3>1. send' = send /\ proc' = proc
          BY <1>2, <2>4 DEF Wake
    <3>2. QED
          BY <2>1, <2>3, <2>4, <3>1 DEF IInv, WaiterIsServed, Alive
  <2>5. CASE ~bridge.running
    <3>1. \A t \in Threads : send'[t].pc # "wait"
          BY <1>2, <2>5, ReleaseServes DEF Wake, IInv
    <3>2. QED
          BY <2>3, <3>1 DEF WaiterIsServed
  <2>6. QED
        BY <2>4, <2>5
<1>3. CASE Transmit
  <2>1. \A t \in Threads : send'[t].pc # "wait"
        BY <1>3, ReleaseServes DEF Transmit, IInv
  <2>2. bridge'.loop = "ready" /\ bridge'.ready = FALSE
        BY <1>1, <1>3 DEF Transmit, IInv, SlotIsTaken, Bridges
  <2>3. QED
        BY <2>1, <2>2 DEF SlotIsTaken, WaiterIsServed
<1>4. QED
      BY <1>2, <1>3 DEF SendLoop

\* A KeyboardInterrupt in the middle of send() may leave the slot locked, but only
\* when nobody waits for it.
LEMMA InterruptServes ==
  ASSUME IInv, Interrupted
  PROVE  SlotIsTaken' /\ WaiterIsServed'
<1>1. send \in [Threads -> Sends] /\ bridge \in Bridges /\ "main" \in Threads
      BY DEF IInv, TypeOK, Threads
<1>2. /\ send'["main"].pc = "out"
      /\ \A t \in Threads \ {"main"} : send'[t] = send[t]
      BY <1>1 DEF Interrupted, Sends
<1>3. /\ bridge'.ready = bridge.ready /\ bridge'.by = bridge.by /\ bridge'.msg = bridge.msg
      /\ bridge'.loop = bridge.loop /\ (bridge.busy => bridge'.busy)
      BY <1>1 DEF Interrupted, Bridges
<1>4. proc = "alive"
      BY DEF Interrupted, Alive
<1>5. QED
      BY <1>2, <1>3, <1>4 DEF IInv, SlotIsTaken, WaiterIsServed, Alive

\* No other step touches the slot or makes a thread wait.
LEMMA OtherServes ==
  ASSUME IInv, OfMain \/ TaskReturns \/ TaskSends \/ TaskBlocks
               \/ OfRecv \/ PoolSends \/ OfBackend
  PROVE  SlotIsTaken' /\ WaiterIsServed'
<1>1. send \in [Threads -> Sends] /\ bridge \in Bridges
      BY DEF IInv, TypeOK
<1>2. CASE MainSends \/ ReadCommand \/ PoolSends
  <2>1. bridge' = bridge /\ proc' = proc
        BY <1>2 DEF MainSends, ReadCommand, PoolSends
  <2>2. \E u \in Threads : \E m : send' = Calls(u, m)
        BY <1>2 DEF MainSends, ReadCommand, PoolSends, Threads
  <2>3. \A u \in Threads : send'[u].pc = "wait" => send'[u] = send[u]
        BY <1>1, <2>2 DEF Calls
  <2>4. QED
        BY <2>1, <2>3, CalmStep DEF IInv
<1>3. CASE BackendLost
  <2>1. UNCHANGED <<bridge.busy, bridge.ready, bridge.by, bridge.msg, bridge.loop>>
        BY <1>1, <1>3 DEF BackendLost, Bridges
  <2>2. send' = send /\ proc' = proc
        BY <1>3 DEF BackendLost
  <2>3. QED
        BY <2>1, <2>2, CalmStep DEF IInv
<1>4. CASE \/ Booted \/ EnterLoop \/ Plan \/ Planned \/ Filler \/ Idle \/ Poll \/ RunReturns
           \/ TaskReturns \/ TaskSends \/ TaskBlocks
  <2>1. bridge' = bridge /\ send' = send /\ proc = "alive"
        BY <1>4 DEF Booted, EnterLoop, Plan, Planned, Filler, Idle, Poll, RunReturns,
                    TaskReturns, TaskSends, TaskBlocks, bystanders, At, Alive
  <2>2. QED
        BY <2>1, CalmStep DEF IInv
<1>5. CASE Obey \/ Inject \/ Deadline
  <2>1. bridge' = bridge /\ send' = send /\ proc = "alive"
        BY <1>5 DEF Obey, Inject, Deadline, Alive
  <2>2. QED
        BY <2>1, CalmStep DEF IInv
<1>6. CASE OfBackend
  <2>1. bridge' = bridge /\ send' = send /\ proc' = proc
        BY <1>6 DEF OfBackend, Hear, HearEnd, Stop, Continue, Kill, Request, BackendEnds,
                    Edit, worker
  <2>2. QED
        BY <2>1, CalmStep DEF IInv
<1>7. QED
      BY <1>2, <1>3, <1>4, <1>5, <1>6 DEF OfMain, OfRecv

\* Every step keeps the invariant.
LEMMA IInvStep == IInv /\ [Next]_vars => IInv'
<1> SUFFICES ASSUME IInv, [Next]_vars PROVE IInv'
    OBVIOUS
<1>1. TypeOK'
      BY TypesStep DEF IInv
<1>2. SlotIsTaken' /\ WaiterIsServed'
  <2>1. CASE UNCHANGED vars
        BY <2>1 DEF vars, IInv, SlotIsTaken, WaiterIsServed, Alive
  <2>2. CASE Next
        BY <2>2, SenderServes, SendLoopServes, InterruptServes, OtherServes
        DEF Next, OfBackend
  <2>3. QED
        BY <2>1, <2>2
<1>3. QED
      BY <1>1, <1>2 DEF IInv
-----------------------------------------------------------------------------

\* The invariant holds in every behaviour of a worker process.
THEOREM ServedInvariance == Spec => []IInv
<1>1. QED
      BY InitIInv, IInvStep, PTL DEF Spec

\* The types of the worker process, whatever scenarios and bounds are chosen.
THEOREM WorkerTypes == Spec => []TypeOK
<1>1. IInv => TypeOK
      BY DEF IInv
<1>2. QED
      BY <1>1, ServedInvariance, PTL

\* No thread waits for a message that nobody sends any more: a log line or a preview
\* always returns, or its process ends (send(), _send_loop(), _release_pending_task()).
THEOREM WaiterIsAlwaysServed == Spec => []WaiterIsServed
<1>1. IInv => WaiterIsServed
      BY DEF IInv
<1>2. QED
      BY <1>1, ServedInvariance, PTL

-----------------------------------------------------------------------------
(* What the page will show of the worker once everything it has sent is    *)
(* read: the pipe, the slot, the message in send() and what the scheduler  *)
(* still sends, in this order.                                             *)

Tells == {"task", "no-task"}

\* The last message of s that is in S is v; or s has none, and b.
LastIs(s, S, v, b) ==
    \/ \E i \in DOMAIN s : s[i] = v /\ \A j \in DOMAIN s : j > i => s[j] \notin S
    \/ b /\ \A i \in DOMAIN s : s[i] \notin S
OneIs(here, m, S, v, b) == IF here /\ m \in S THEN m = v ELSE b

InSlot == bridge.ready \/ bridge.loop = "sending"
InMain == send["main"].pc \in {"call", "mutex", "idle"}
Sent(S, v, b) == OneIs(InSlot, bridge.msg, S, v, LastIs(up, S, v, b))
WillShow(S, v, b) ==
    LastIs(sched.todo, S, v, OneIs(InMain, send["main"].msg, S, v, Sent(S, v, b)))

\* What makes ShownIsTrue inductive: wherever the scheduler is, what is still to be read
\* will make the page show it; no other thread reports, and nothing is dropped.
TaskSoon == sched.pc \in {"task", "native"} => WillShow(Tells, "task", backend.task)
NoTaskSoon == sched.pc \in {"idle", "wait"} => WillShow(Tells, "no-task", ~backend.task)
NotWaitingSoon == sched.pc \notin {"wait", "ending", "unwind"} =>
                      WillShow(Allows, "running", backend.entry # "scheduler-waiting")
ShownSoon == "edit" \notin happens /\ Alive /\ backend.alive =>
                 TaskSoon /\ NoTaskSoon /\ NotWaitingSoon
OthersTellNothing == \A t \in Threads \ {"main"} : send[t].msg \in {"log", "other"}
StillRunning == backend.alive => bridge.running
NoEdits == "edit" \notin happens => config.version = 0 /\ config.watched = 0
SInv == IInv /\ ShownSoon /\ OthersTellNothing /\ StillRunning /\ NoEdits

\* A message that is written last, and one that is read first.
LEMMA LastAppend ==
  ASSUME NEW s \in Seq(Messages), NEW m \in Messages, NEW S, NEW v, NEW b \in BOOLEAN,
         OneIs(TRUE, m, S, v, LastIs(s, S, v, b))
  PROVE  LastIs(Append(s, m), S, v, b)
<1>. DEFINE t == Append(s, m)
            n == Len(s) + 1
<1>1. /\ Len(s) \in Nat /\ DOMAIN s = 1..Len(s) /\ DOMAIN t = 1..n /\ t[n] = m
      /\ \A i \in DOMAIN s : t[i] = s[i]
  OBVIOUS
<1> HIDE DEF t
<1>2. CASE m \in S
  <2>1. n \in DOMAIN t /\ t[n] = v /\ \A j \in DOMAIN t : ~(j > n)
    BY <1>1, <1>2 DEF OneIs
  <2> QED
    BY <2>1 DEF LastIs, t
<1>3. CASE m \notin S
  <2>1. LastIs(s, S, v, b)
    BY <1>3 DEF OneIs
  <2>2. CASE \E i \in DOMAIN s : s[i] = v /\ \A j \in DOMAIN s : j > i => s[j] \notin S
    <3>1. PICK i \in DOMAIN s : s[i] = v /\ \A j \in DOMAIN s : j > i => s[j] \notin S
      BY <2>2
    <3>2. i \in DOMAIN t /\ t[i] = v
      BY <1>1, <3>1
    <3>3. \A j \in DOMAIN t : j > i => t[j] \notin S
      BY <1>1, <1>3, <3>1
    <3> QED
      BY <3>2, <3>3 DEF LastIs, t
  <2>3. CASE b /\ \A i \in DOMAIN s : s[i] \notin S
    <3>1. \A j \in DOMAIN t : t[j] \notin S
      BY <1>1, <1>3, <2>3
    <3> QED
      BY <2>3, <3>1 DEF LastIs, t
  <2> QED
    BY <2>1, <2>2, <2>3 DEF LastIs
<1> QED
  BY <1>2, <1>3

LEMMA LastTail ==
  ASSUME NEW s \in Seq(Messages), s # <<>>, NEW S, NEW v \in S, NEW b \in BOOLEAN,
         LastIs(s, S, v, b)
  PROVE  LastIs(Tail(s), S, v, OneIs(TRUE, Head(s), S, v, b))
<1>1. /\ Len(s) \in Nat /\ Len(s) > 0 /\ DOMAIN Tail(s) = 1..(Len(s) - 1) /\ Head(s) = s[1]
      /\ DOMAIN s = 1..Len(s) /\ \A i \in DOMAIN Tail(s) : Tail(s)[i] = s[i + 1]
  OBVIOUS
<1>2. CASE \E i \in DOMAIN s : s[i] = v /\ \A j \in DOMAIN s : j > i => s[j] \notin S
  <2>1. PICK i \in DOMAIN s : s[i] = v /\ \A j \in DOMAIN s : j > i => s[j] \notin S
    BY <1>2
  <2>2. CASE i = 1
    <3>1. \A k \in DOMAIN Tail(s) : Tail(s)[k] \notin S
      BY <1>1, <2>1, <2>2
    <3> QED
      BY <1>1, <2>1, <2>2, <3>1 DEF LastIs, OneIs
  <2>3. CASE i # 1
    <3>1. i - 1 \in DOMAIN Tail(s) /\ Tail(s)[i - 1] = v
      BY <1>1, <2>1, <2>3
    <3>2. \A k \in DOMAIN Tail(s) : k > i - 1 => Tail(s)[k] \notin S
      BY <1>1, <2>1
    <3> QED
      BY <3>1, <3>2 DEF LastIs
  <2> QED
    BY <2>2, <2>3
<1>3. CASE b /\ \A i \in DOMAIN s : s[i] \notin S
  <2>1. \A k \in DOMAIN Tail(s) : Tail(s)[k] \notin S
    BY <1>1, <1>3
  <2>2. Head(s) \notin S
    BY <1>1, <1>3
  <2> QED
    BY <1>3, <2>1, <2>2 DEF LastIs, OneIs
<1> QED
  BY <1>2, <1>3 DEF LastIs

\* What is on its way is read in the same order, whatever thread moves it on.
Carried == \A S \in {Tells, Allows} : \A v \in S, b \in BOOLEAN :
               WillShow(S, v, b) => WillShow(S, v, b)'

LEMMA CarriedShows ==
  ASSUME TypeOK, ShownSoon, Carried, UNCHANGED <<happens, backend>>, sched'.pc = sched.pc,
         Alive' => Alive
  PROVE  ShownSoon'
<1>1. PICK b \in BOOLEAN : b <=> backend.task
  BY DEF TypeOK, Entries
<1>2. PICK c \in BOOLEAN : c <=> backend.entry # "scheduler-waiting"
  OBVIOUS
<1>3. PICK d \in BOOLEAN : d <=> ~backend.task
  OBVIOUS
<1>4. /\ WillShow(Tells, "task", b) => WillShow(Tells, "task", b)'
      /\ WillShow(Tells, "no-task", d) => WillShow(Tells, "no-task", d)'
      /\ WillShow(Allows, "running", c) => WillShow(Allows, "running", c)'
  BY DEF Carried, Tells, Allows
<1>5. /\ WillShow(Tells, "task", backend.task) <=> WillShow(Tells, "task", b)
      /\ WillShow(Tells, "no-task", ~backend.task) <=> WillShow(Tells, "no-task", d)
      /\ WillShow(Allows, "running", backend.entry # "scheduler-waiting") <=> WillShow(Allows, "running", c)
  BY <1>1, <1>2, <1>3 DEF WillShow, LastIs, Sent, OneIs
<1>6. /\ WillShow(Tells, "task", backend.task)' <=> WillShow(Tells, "task", b)'
      /\ WillShow(Tells, "no-task", ~backend.task)' <=> WillShow(Tells, "no-task", d)'
      /\ WillShow(Allows, "running", backend.entry # "scheduler-waiting")' <=> WillShow(Allows, "running", c)'
  BY <1>1, <1>2, <1>3 DEF WillShow, LastIs, Sent, OneIs
<1> QED
  BY <1>4, <1>5, <1>6 DEF ShownSoon, TaskSoon, NoTaskSoon, NotWaitingSoon

\* In send(): a message goes into the slot when nothing is in it; the bridge runs, so
\* that only a log line may be dropped.
LEMMA SenderCarries ==
  ASSUME SInv, backend.alive, NEW t \in Threads, OfSender(t)
  PROVE  Carried
<1>1. send \in [Threads -> Sends] /\ bridge \in Bridges /\ "main" \in Threads
  BY DEF SInv, IInv, TypeOK, Threads
<1>2. UNCHANGED <<sched, up>>
  BY DEF OfSender, Enter, TakeMutex, Publish
<1>3. CASE Enter(t)
  <2>1. send'["main"].msg = send["main"].msg /\ UNCHANGED bridge
    BY <1>1, <1>3 DEF Enter, Sends
  <2>2. (InMain' <=> InMain) \/ (InMain /\ ~InMain' /\ send["main"].msg = "log")
    BY <1>1, <1>3 DEF Enter, Sends, InMain, SInv, StillRunning
  <2> QED
    BY <1>2, <2>1, <2>2 DEF Carried, WillShow, Sent, OneIs, InSlot, Tells, Allows
<1>4. CASE TakeMutex(t)
  <2>1. send'["main"].msg = send["main"].msg /\ (InMain' <=> InMain)
    BY <1>1, <1>4 DEF TakeMutex, Sends, InMain
  <2>2. bridge'.ready = bridge.ready /\ bridge'.loop = bridge.loop /\ bridge'.msg = bridge.msg
    BY <1>1, <1>4 DEF TakeMutex, Bridges
  <2> QED
    BY <1>2, <2>1, <2>2 DEF Carried, WillShow, Sent, InSlot
<1>5. CASE Publish(t)
  <2>1. ~InSlot /\ InSlot' /\ bridge'.msg = send[t].msg
    BY <1>1, <1>5 DEF Publish, Bridges, InSlot, SInv, IInv, SlotIsTaken
  <2>2. CASE t = "main"
    <3>1. InMain /\ ~InMain'
      BY <1>1, <1>5, <2>2 DEF Publish, Sends, InMain
    <3> QED
      BY <1>2, <2>1, <2>2, <3>1 DEF Carried, WillShow, Sent, OneIs
  <2>3. CASE t # "main"
    <3>1. send'["main"] = send["main"] /\ send[t].msg \in {"log", "other"}
      BY <1>1, <1>5, <2>3 DEF Publish, SInv, OthersTellNothing
    <3> QED
      BY <1>2, <2>1, <3>1 DEF Carried, WillShow, Sent, OneIs, InMain, Tells, Allows
  <2> QED
    BY <2>2, <2>3
<1> QED
  BY <1>3, <1>4, <1>5 DEF OfSender

\* The send loop takes the message of the slot over and writes it.
LEMMA SendLoopCarries ==
  ASSUME SInv, backend.alive, SendLoop
  PROVE  Carried
<1>1. send \in [Threads -> Sends] /\ bridge \in Bridges /\ "main" \in Threads
  BY DEF SInv, IInv, TypeOK, Threads
<1>2. CASE Wake
  <2>1. bridge.running
    BY DEF SInv, StillRunning
  <2>2. UNCHANGED <<send, sched, up>>
    BY <1>2, <2>1 DEF Wake
  <2>3. (InSlot' <=> InSlot) /\ bridge'.msg = bridge.msg
    BY <1>1, <1>2, <2>1 DEF Wake, InSlot, Bridges
  <2> QED
    BY <2>2, <2>3 DEF Carried, WillShow, Sent, InMain
<1>3. CASE Transmit
  <2>1. InSlot /\ ~InSlot' /\ bridge.msg \in Messages
    BY <1>1, <1>3 DEF Transmit, InSlot, Bridges, SInv, IInv, SlotIsTaken
  <2>2. up' = Append(up, bridge.msg) /\ up \in Seq(Messages) /\ sched' = sched
    BY <1>3 DEF Transmit, SInv, IInv, TypeOK
  <2>3. send'["main"].msg = send["main"].msg /\ (InMain' <=> InMain)
    BY <1>1, <1>3 DEF Transmit, ReleaseTask, Sends, InMain
  <2>4. ASSUME NEW S \in {Tells, Allows}, NEW v \in S, NEW b \in BOOLEAN, Sent(S, v, b)
        PROVE  Sent(S, v, b)'
    <3>1. OneIs(TRUE, bridge.msg, S, v, LastIs(up, S, v, b))
      BY <2>1, <2>4 DEF Sent, OneIs
    <3>2. LastIs(Append(up, bridge.msg), S, v, b)
      BY <2>1, <2>2, <3>1, LastAppend
    <3> QED
      BY <2>1, <2>2, <3>2 DEF Sent, OneIs
  <2> QED
    BY <2>2, <2>3, <2>4 DEF Carried, WillShow, LastIs, OneIs
<1> QED
  BY <1>2, <1>3 DEF SendLoop

\* The main thread calls send() with what it has to send next, and another thread with
\* something the page does not show.
LEMMA CallCarries ==
  ASSUME SInv, MainSends \/ ReadCommand \/ PoolSends
  PROVE  Carried
<1>1. send \in [Threads -> Sends] /\ "main" \in Threads /\ sched \in Scheds
  BY DEF SInv, IInv, TypeOK, Threads
<1>2. UNCHANGED <<bridge, up>>
  BY DEF MainSends, ReadCommand, PoolSends
<1>3. CASE MainSends
  <2>1. /\ send'["main"].msg = Head(sched.todo) /\ ~InMain /\ InMain'
        /\ sched'.todo = Tail(sched.todo) /\ sched.todo # <<>> /\ sched.todo \in Seq(Messages)
    BY <1>1, <1>3 DEF MainSends, Calls, InMain, Scheds
  <2>2. ASSUME NEW S \in {Tells, Allows}, NEW v \in S, NEW b \in BOOLEAN, WillShow(S, v, b)
        PROVE  WillShow(S, v, b)'
    <3>1. PICK c \in BOOLEAN : c <=> Sent(S, v, b)
      OBVIOUS
    <3>2. LastIs(sched.todo, S, v, c)
      BY <2>1, <2>2, <3>1 DEF WillShow, OneIs, LastIs
    <3>3. LastIs(Tail(sched.todo), S, v, OneIs(TRUE, Head(sched.todo), S, v, c))
      BY <2>1, <3>2, LastTail
    <3>4. Sent(S, v, b)' <=> c
      BY <1>2, <3>1 DEF Sent, InSlot
    <3> QED
      BY <2>1, <3>3, <3>4 DEF WillShow, OneIs, LastIs
  <2> QED
    BY <2>2 DEF Carried
<1>4. CASE ReadCommand \/ PoolSends
  <2>1. send'["main"] = send["main"] /\ UNCHANGED sched
    BY <1>1, <1>4 DEF ReadCommand, PoolSends, Calls
  <2> QED
    BY <1>2, <2>1 DEF Carried, WillShow, Sent, InSlot, InMain
<1> QED
  BY <1>3, <1>4

\* The scheduler goes on with messages l, of which the last one that the page shows
\* tells what it does next; or none of them does.
EndsIn(l, S, v) == \E i \in DOMAIN l : l[i] = v /\ \A j \in DOMAIN l : j > i => l[j] \notin S
SaysNone(l, S) == \A i \in DOMAIN l : l[i] \notin S

LEMMA GoesOn ==
  ASSUME TypeOK, ShownSoon, At(sched.pc), NEW l, sched'.todo = l, UNCHANGED bystanders,
         sched'.pc \in {"task", "native"} =>
             EndsIn(l, Tells, "task")
             \/ (sched.pc \in {"task", "native"} /\ SaysNone(l, Tells)),
         sched'.pc \in {"idle", "wait"} =>
             EndsIn(l, Tells, "no-task")
             \/ (sched.pc \in {"idle", "wait"} /\ SaysNone(l, Tells)),
         sched'.pc \notin {"wait", "ending", "unwind"} =>
             EndsIn(l, Allows, "running")
             \/ (sched.pc \notin {"wait", "ending", "unwind"} /\ SaysNone(l, Allows))
  PROVE  ShownSoon'
<1>1. sched.todo = <<>> /\ ~InMain /\ ~InMain' /\ Alive
  BY DEF At, InMain, bystanders
<1>2. ASSUME NEW S, NEW v, NEW b \in BOOLEAN
      PROVE  /\ EndsIn(l, S, v) => WillShow(S, v, b)'
             /\ SaysNone(l, S) /\ WillShow(S, v, b) => WillShow(S, v, b)'
  <2>1. Sent(S, v, b)' <=> Sent(S, v, b)
    BY DEF Sent, InSlot, bystanders
  <2>2. EndsIn(l, S, v) => WillShow(S, v, b)'
    BY DEF EndsIn, WillShow, LastIs
  <2>3. WillShow(S, v, b) => Sent(S, v, b)
    BY <1>1 DEF WillShow, LastIs, OneIs
  <2>4. SaysNone(l, S) /\ Sent(S, v, b)' => WillShow(S, v, b)'
    BY <1>1 DEF SaysNone, WillShow, LastIs, OneIs
  <2> QED
    BY <2>1, <2>2, <2>3, <2>4
<1>3. /\ EndsIn(l, Tells, "task") => WillShow(Tells, "task", backend.task)'
      /\ SaysNone(l, Tells) /\ WillShow(Tells, "task", backend.task)
           => WillShow(Tells, "task", backend.task)'
      /\ EndsIn(l, Tells, "no-task") => WillShow(Tells, "no-task", ~backend.task)'
      /\ SaysNone(l, Tells) /\ WillShow(Tells, "no-task", ~backend.task)
           => WillShow(Tells, "no-task", ~backend.task)'
      /\ EndsIn(l, Allows, "running")
           => WillShow(Allows, "running", backend.entry # "scheduler-waiting")'
      /\ SaysNone(l, Allows) /\ WillShow(Allows, "running", backend.entry # "scheduler-waiting")
           => WillShow(Allows, "running", backend.entry # "scheduler-waiting")'
  <2>0. UNCHANGED backend
    BY DEF bystanders
  <2>1. PICK b \in BOOLEAN : b <=> backend.task
    BY DEF TypeOK, Entries
  <2>2. PICK c \in BOOLEAN : c <=> backend.entry # "scheduler-waiting"
    OBVIOUS
  <2>3. PICK d \in BOOLEAN : d <=> ~backend.task
    OBVIOUS
  <2>4. /\ WillShow(Tells, "task", backend.task) <=> WillShow(Tells, "task", b)
        /\ WillShow(Tells, "no-task", ~backend.task) <=> WillShow(Tells, "no-task", d)
        /\ WillShow(Allows, "running", backend.entry # "scheduler-waiting")
             <=> WillShow(Allows, "running", c)
    BY <2>1, <2>2, <2>3 DEF WillShow, LastIs, Sent, OneIs
  <2>5. /\ WillShow(Tells, "task", backend.task)' <=> WillShow(Tells, "task", b)'
        /\ WillShow(Tells, "no-task", ~backend.task)' <=> WillShow(Tells, "no-task", d)'
        /\ WillShow(Allows, "running", backend.entry # "scheduler-waiting")'
             <=> WillShow(Allows, "running", c)'
    BY <2>0, <2>1, <2>2, <2>3 DEF WillShow, LastIs, Sent, OneIs
  <2> QED
    BY <1>2, <2>4, <2>5
<1> QED
  BY <1>1, <1>3 DEF ShownSoon, TaskSoon, NoTaskSoon, NotWaitingSoon, bystanders

\* What the lists that the scheduler sends say.
LEMMA Lists ==
  /\ \A l \in {<<>>, <<"log">>, <<"other">>} : SaysNone(l, Tells) /\ SaysNone(l, Allows)
  /\ SaysNone(<<"no-task">>, Allows) /\ SaysNone(<<"scheduler-waiting">>, Tells)
  /\ EndsIn(<<"task", "log">>, Tells, "task") /\ SaysNone(<<"task", "log">>, Allows)
  /\ EndsIn(<<"preview", "no-task">>, Tells, "no-task")
  /\ SaysNone(<<"preview", "no-task">>, Allows)
  /\ EndsIn(<<"running", "task", "log">>, Tells, "task")
  /\ EndsIn(<<"running", "task", "log">>, Allows, "running")
<1>1. \A l \in {<<>>, <<"log">>, <<"other">>} : SaysNone(l, Tells) /\ SaysNone(l, Allows)
  BY DEF SaysNone, Tells, Allows
<1>2. SaysNone(<<"no-task">>, Allows) /\ SaysNone(<<"scheduler-waiting">>, Tells)
  BY DEF SaysNone, Tells, Allows
<1>3. SaysNone(<<"task", "log">>, Allows) /\ SaysNone(<<"preview", "no-task">>, Allows)
  BY DEF SaysNone, Allows
<1>4. EndsIn(<<"task", "log">>, Tells, "task")
  <2>. DEFINE l == <<"task", "log">>
  <2>1. 1 \in DOMAIN l /\ l[1] = "task" /\ \A j \in DOMAIN l : j > 1 => l[j] \notin Tells
    BY DEF Tells
  <2> QED
    BY <2>1 DEF EndsIn
<1>5. EndsIn(<<"preview", "no-task">>, Tells, "no-task")
  <2>. DEFINE l == <<"preview", "no-task">>
  <2>1. 2 \in DOMAIN l /\ l[2] = "no-task" /\ \A j \in DOMAIN l : ~(j > 2)
    OBVIOUS
  <2> QED
    BY <2>1 DEF EndsIn
<1>6. /\ EndsIn(<<"running", "task", "log">>, Tells, "task")
      /\ EndsIn(<<"running", "task", "log">>, Allows, "running")
  <2>. DEFINE l == <<"running", "task", "log">>
  <2>1. 2 \in DOMAIN l /\ l[2] = "task" /\ \A j \in DOMAIN l : j > 2 => l[j] \notin Tells
    BY DEF Tells
  <2>2. 1 \in DOMAIN l /\ l[1] = "running" /\ \A j \in DOMAIN l : j > 1 => l[j] \notin Allows
    BY DEF Allows
  <2> QED
    BY <2>1, <2>2 DEF EndsIn
<1> QED
  BY <1>1, <1>2, <1>3, <1>4, <1>5, <1>6

\* The steps of the scheduler.
LEMMA ScheduleShows ==
  ASSUME SInv, "edit" \notin happens, Alive',
         \/ Booted \/ EnterLoop \/ Plan \/ Planned \/ Filler \/ Idle \/ Poll \/ RunReturns
         \/ TaskReturns \/ TaskSends \/ TaskBlocks
  PROVE  ShownSoon'
<1>0. TypeOK /\ ShownSoon /\ sched \in Scheds
  BY DEF SInv, IInv, TypeOK
<1>1. At(sched.pc) /\ UNCHANGED bystanders
  BY DEF Booted, EnterLoop, Plan, Planned, Filler, Idle, Poll, RunReturns, TaskReturns,
         TaskSends, TaskBlocks, At
<1>2. ASSUME NEW pc, NEW l, Goto(pc, l) PROVE sched'.pc = pc /\ sched'.todo = l
  BY <1>0, <1>2 DEF Goto, Scheds
<1>3. ASSUME sched'.pc = "ending" PROVE ShownSoon'
  BY <1>0, <1>1, <1>3, GoesOn
<1>4. StopsLoop => ShownSoon'
  BY <1>2, <1>3 DEF StopsLoop
<1>5. Fails => ShownSoon'
  BY <1>0, <1>3 DEF Fails, Scheds
<1>6. CASE Booted
  <2>1. sched.pc = "boot" /\ sched'.pc = "enter" /\ sched'.todo = <<"log">>
    BY <1>2, <1>6 DEF Booted, At
  <2> QED
    BY <1>0, <1>1, <2>1, GoesOn, Lists
<1>7. CASE EnterLoop
  <2>1. sched.pc = "enter" /\ sched'.pc = "loop" /\ sched'.todo = <<"no-task">>
    BY <1>2, <1>7 DEF EnterLoop, At, Alive
  <2> QED
    BY <1>0, <1>1, <2>1, GoesOn, Lists
<1>8. CASE Plan
  <2>1. CASE sched' = [sched EXCEPT !.pc = "planned", !.todo = <<"other">>, !.plan = config.version]
    <3>1. sched.pc = "loop" /\ sched'.pc = "planned" /\ sched'.todo = <<"other">>
      BY <1>0, <1>8, <2>1 DEF Plan, At, Scheds
    <3> QED
      BY <1>0, <1>1, <3>1, GoesOn, Lists
  <2> QED
    BY <1>4, <1>8, <2>1 DEF Plan
<1>9. CASE Planned
  <2>0. sched.pc = "planned"
    BY <1>9 DEF Planned, At
  <2>1. CASE Goto("loop", <<"other">>)
    BY <1>0, <1>1, <1>2, <2>0, <2>1, GoesOn, Lists
  <2>2. CASE Goto("task", <<"task", "log">>)
    BY <1>0, <1>1, <1>2, <2>0, <2>2, GoesOn, Lists
  <2>3. CASE Goto("filler", <<>>)
    BY <1>0, <1>1, <1>2, <2>0, <2>3, GoesOn, Lists
  <2> QED
    BY <1>5, <1>9, <2>1, <2>2, <2>3 DEF Planned
<1>10. CASE Filler
  <2>0. sched.pc = "filler"
    BY <1>10 DEF Filler, At
  <2>1. CASE Goto("idle", <<"preview", "no-task">>)
    BY <1>0, <1>1, <1>2, <2>0, <2>1, GoesOn, Lists
  <2> QED
    BY <1>4, <1>5, <1>10, <2>1 DEF Filler
<1>11. CASE Idle
  <2>1. sched.pc = "idle" /\ sched'.pc = "wait" /\ sched'.todo = <<"scheduler-waiting">>
    BY <1>2, <1>11 DEF Idle, At
  <2> QED
    BY <1>0, <1>1, <2>1, GoesOn, Lists
<1>12. CASE Poll
  <2>0. sched.pc = "wait"
    BY <1>12 DEF Poll, At
  <2>1. CASE Goto("task", <<"running", "task", "log">>)
    BY <1>0, <1>1, <1>2, <2>0, <2>1, GoesOn, Lists
  <2>2. config.watched = config.version
    BY DEF SInv, NoEdits
  <2> QED
    BY <1>4, <1>12, <2>1, <2>2 DEF Poll
<1>13. CASE TaskReturns
  <2>0. sched.pc = "task"
    BY <1>13 DEF TaskReturns, At
  <2>1. CASE Goto("loop", <<"log">>)
    BY <1>0, <1>1, <1>2, <2>0, <2>1, GoesOn, Lists
  <2> QED
    BY <1>4, <1>5, <1>13, <2>1 DEF TaskReturns
<1>14. CASE TaskSends
  <2>1. PICK m \in {"other", "log"} : Goto("task", <<m>>)
    BY <1>14 DEF TaskSends
  <2>2. sched.pc = "task" /\ sched'.pc = "task" /\ sched'.todo = <<m>>
    BY <1>2, <1>14, <2>1 DEF TaskSends, At
  <2>3. SaysNone(<<m>>, Tells) /\ SaysNone(<<m>>, Allows)
    BY Lists
  <2> QED
    BY <1>0, <1>1, <2>2, <2>3, GoesOn
<1>15. CASE TaskBlocks
  <2>1. sched.pc = "task" /\ sched'.pc = "native" /\ sched'.todo = <<>>
    BY <1>2, <1>15 DEF TaskBlocks, At
  <2> QED
    BY <1>0, <1>1, <2>1, GoesOn, Lists
<1>16. ~RunReturns
  BY DEF RunReturns, Alive
<1> QED
  BY <1>6, <1>7, <1>8, <1>9, <1>10, <1>11, <1>12, <1>13, <1>14, <1>15, <1>16

\* A message is read: it shows at once, as long as no user asked for something else.
LEMMA HearShows ==
  ASSUME SInv, Hear
  PROVE  ShownSoon'
<1>1. /\ up \in Seq(Messages) /\ up # <<>> /\ up' = Tail(up) /\ backend \in Entries
      /\ UNCHANGED <<happens, sched, send, bridge, proc>>
  BY DEF Hear, worker, SInv, IInv, TypeOK
<1>. DEFINE m == Head(up)
<1>2. /\ backend'.task = IF m \in Tells THEN m = "task" ELSE backend.task
      /\ backend'.entry = IF m \in Allows /\ backend.entry \in Allows \cup {"starting"}
                          THEN m ELSE backend.entry
      /\ backend'.alive = backend.alive
  BY <1>1 DEF Hear, Entries, Tells
<1>3. ASSUME NEW S, NEW v \in S, NEW b \in BOOLEAN, NEW c \in BOOLEAN,
             WillShow(S, v, b), OneIs(TRUE, m, S, v, b) => c
      PROVE  WillShow(S, v, c)'
  <2>1. LastIs(up, S, v, b) => LastIs(Tail(up), S, v, c)
    <3>1. PICK d \in BOOLEAN : d <=> OneIs(TRUE, m, S, v, b)
      OBVIOUS
    <3>2. LastIs(up, S, v, b) => LastIs(Tail(up), S, v, OneIs(TRUE, m, S, v, b))
      BY <1>1, LastTail
    <3> QED
      BY <1>3, <3>1, <3>2 DEF LastIs
  <2>2. Sent(S, v, b) => Sent(S, v, c)'
    BY <1>1, <2>1 DEF Sent, OneIs, InSlot
  <2> QED
    BY <1>1, <1>3, <2>2 DEF WillShow, LastIs, OneIs, InMain
<1>4. PICK b, bb, d, dd, c, cc \in BOOLEAN :
        /\ b <=> backend.task
        /\ bb <=> backend'.task
        /\ d <=> ~backend.task
        /\ dd <=> ~backend'.task
        /\ c <=> backend.entry # "scheduler-waiting"
        /\ cc <=> backend'.entry # "scheduler-waiting"
  BY <1>1, <1>2 DEF Entries
<1>5. WillShow(Tells, "task", b) => WillShow(Tells, "task", bb)'
  BY <1>2, <1>3, <1>4 DEF OneIs, Tells
<1>6. WillShow(Tells, "no-task", d) => WillShow(Tells, "no-task", dd)'
  BY <1>2, <1>3, <1>4 DEF OneIs, Tells
<1>7. WillShow(Allows, "running", c) => WillShow(Allows, "running", cc)'
  BY <1>2, <1>3, <1>4 DEF OneIs, Allows
<1>8. /\ WillShow(Tells, "task", backend.task) <=> WillShow(Tells, "task", b)
      /\ WillShow(Tells, "no-task", ~backend.task) <=> WillShow(Tells, "no-task", d)
      /\ WillShow(Allows, "running", backend.entry # "scheduler-waiting")
           <=> WillShow(Allows, "running", c)
  BY <1>4 DEF WillShow, LastIs, Sent, OneIs
<1>9. /\ WillShow(Tells, "task", backend.task)' <=> WillShow(Tells, "task", bb)'
      /\ WillShow(Tells, "no-task", ~backend.task)' <=> WillShow(Tells, "no-task", dd)'
      /\ WillShow(Allows, "running", backend.entry # "scheduler-waiting")'
           <=> WillShow(Allows, "running", cc)'
  BY <1>4 DEF WillShow, LastIs, Sent, OneIs
<1> QED
  BY <1>1, <1>2, <1>5, <1>6, <1>7, <1>8, <1>9
     DEF SInv, ShownSoon, TaskSoon, NoTaskSoon, NotWaitingSoon, Alive

\* A request of a user: what the page shows then is not that the worker waits.
LEMMA RequestShows ==
  ASSUME SInv, Stop \/ Continue \/ Kill
  PROVE  ShownSoon'
<1>1. /\ backend'.task = backend.task /\ backend'.alive = backend.alive
      /\ backend'.entry # "scheduler-waiting" /\ UNCHANGED <<worker, up>>
  BY DEF Stop, Continue, Kill, Request, SInv, IInv, TypeOK, Entries
<1>2. PICK b, c \in BOOLEAN : /\ b <=> backend.task
                              /\ c <=> backend.entry # "scheduler-waiting"
  BY DEF SInv, IInv, TypeOK, Entries
<1>3. /\ WillShow(Tells, "task", backend.task) => WillShow(Tells, "task", backend.task)'
      /\ WillShow(Tells, "no-task", ~backend.task) => WillShow(Tells, "no-task", ~backend.task)'
      /\ WillShow(Allows, "running", backend.entry # "scheduler-waiting")
           => WillShow(Allows, "running", backend.entry # "scheduler-waiting")'
  BY <1>1, <1>2 DEF WillShow, LastIs, Sent, OneIs, InSlot, InMain, worker
<1> QED
  BY <1>1, <1>3 DEF SInv, ShownSoon, TaskSoon, NoTaskSoon, NotWaitingSoon, Alive, worker

\* Every step keeps what makes ShownIsTrue hold.
LEMMA ShownStep ==
  ASSUME SInv, [Next]_vars
  PROVE  ShownSoon'
<1>0. TypeOK /\ ShownSoon /\ UNCHANGED happens /\ (Alive' => Alive)
  BY DEF SInv, IInv, Next, OfSender, Enter, TakeMutex, Publish, SendLoop, Wake, Transmit, OfMain,
         MainSends, Booted, EnterLoop, Plan, Planned, Filler, Idle, Poll, RunReturns, TaskReturns,
         TaskSends, TaskBlocks, Interrupted, OfRecv, ReadCommand, Obey, BackendLost, Inject,
         Deadline, PoolSends, Hear, HearEnd, Stop, Continue, Kill, Request, BackendEnds, Edit,
         bystanders, outside, worker, vars, At, Alive
<1> SUFFICES ASSUME "edit" \notin happens, Alive', backend'.alive PROVE ShownSoon'
  BY <1>0 DEF ShownSoon
<1>1. ASSUME NEW t \in Threads, OfSender(t) PROVE ShownSoon'
  <2>1. UNCHANGED <<backend, sched>>
    BY <1>1 DEF OfSender, Enter, TakeMutex, Publish, outside
  <2> QED
    BY <1>0, <1>1, <2>1, SenderCarries, CarriedShows
<1>2. CASE SendLoop
  <2>1. UNCHANGED <<backend, sched>>
    BY <1>2 DEF SendLoop, Wake, Transmit, outside
  <2> QED
    BY <1>0, <1>2, <2>1, SendLoopCarries, CarriedShows
<1>3. CASE MainSends \/ ReadCommand \/ PoolSends
  <2>1. UNCHANGED backend /\ sched'.pc = sched.pc
    BY <1>0, <1>3 DEF MainSends, ReadCommand, PoolSends, outside, TypeOK, Scheds
  <2> QED
    BY <1>0, <1>3, <2>1, CallCarries, CarriedShows
<1>4. CASE \/ Booted \/ EnterLoop \/ Plan \/ Planned \/ Filler \/ Idle \/ Poll \/ RunReturns
           \/ TaskReturns \/ TaskSends \/ TaskBlocks
  BY <1>4, ScheduleShows
<1>5. CASE Interrupted
  <2>1. sched'.pc = "unwind"
    BY <1>0, <1>5 DEF Interrupted, TypeOK, Scheds
  <2> QED
    BY <2>1 DEF ShownSoon, TaskSoon, NoTaskSoon, NotWaitingSoon
<1>6. CASE Obey \/ Inject
  <2>1. UNCHANGED <<send, bridge, up, backend>>
    BY <1>6 DEF Obey, Inject, outside
  <2>2. sched'.pc = sched.pc /\ sched'.todo = sched.todo
    BY <1>0, <1>6 DEF Obey, Inject, TypeOK, Scheds
  <2>3. Carried
    BY <2>1, <2>2 DEF Carried, WillShow, Sent, InSlot, InMain
  <2> QED
    BY <1>0, <2>1, <2>2, <2>3, CarriedShows
<1>7. CASE Hear
  BY <1>7, HearShows
<1>8. CASE Stop \/ Continue \/ Kill
  BY <1>8, RequestShows
<1>9. CASE UNCHANGED vars
  BY <1>0, <1>9 DEF vars, ShownSoon, TaskSoon, NoTaskSoon, NotWaitingSoon, WillShow, Sent, InSlot,
                    InMain, Alive
<1>10. ~BackendLost /\ ~Deadline /\ ~HearEnd /\ ~BackendEnds /\ ~Edit
  BY <1>0 DEF BackendLost, Deadline, HearEnd, BackendEnds, Edit, Alive, outside
<1> QED
  BY <1>1, <1>2, <1>3, <1>4, <1>5, <1>6, <1>7, <1>8, <1>9, <1>10 DEF Next, OfMain, OfRecv

\* ... the other threads tell nothing, the bridge runs as long as the backend lives, and
\* without edits the config is as it was.
LEMMA QuietStep ==
  ASSUME SInv, [Next]_vars
  PROVE  OthersTellNothing' /\ StillRunning' /\ NoEdits'
<1>0. /\ send \in [Threads -> Sends] /\ bridge \in Bridges /\ backend \in Entries
      /\ sched \in Scheds
  BY DEF SInv, IInv, TypeOK
<1>1. OthersTellNothing'
  <2>1. CASE ReadCommand \/ PoolSends
    BY <1>0, <2>1 DEF ReadCommand, PoolSends, Calls, SInv, OthersTellNothing, Threads
  <2>2. CASE MainSends
    BY <1>0, <2>2 DEF MainSends, Calls, SInv, OthersTellNothing, Threads
  <2>3. CASE \A t \in Threads : send'[t].msg = send[t].msg
    BY <2>3 DEF SInv, OthersTellNothing
  <2>4. CASE UNCHANGED send
    BY <2>4 DEF SInv, OthersTellNothing
  <2>5. ASSUME NEW t \in Threads, OfSender(t) PROVE \A u \in Threads : send'[u].msg = send[u].msg
    BY <1>0, <2>5 DEF OfSender, Enter, TakeMutex, Publish, Sends
  <2>6. SendLoop \/ Interrupted => \A u \in Threads : send'[u].msg = send[u].msg
    BY <1>0 DEF SendLoop, Wake, Transmit, ReleaseTask, Interrupted, Sends
  <2> QED
    BY <2>1, <2>2, <2>3, <2>4, <2>5, <2>6
       DEF Next, OfMain, Booted, EnterLoop, Plan, Planned, Filler, Idle, Poll, RunReturns,
           TaskReturns, TaskSends, TaskBlocks, OfRecv, Obey, BackendLost, Inject, Deadline,
           Hear, HearEnd, Stop, Continue, Kill, Request, BackendEnds, Edit, bystanders, outside,
           worker, vars
<1>2. StillRunning'
  <2>1. backend'.alive => backend.alive
    BY <1>0 DEF Next, OfSender, Enter, TakeMutex, Publish, SendLoop, Wake, Transmit, OfMain,
         MainSends, Booted, EnterLoop, Plan, Planned, Filler, Idle, Poll, RunReturns, TaskReturns,
         TaskSends, TaskBlocks, Interrupted, OfRecv, ReadCommand, Obey, BackendLost, Inject,
         Deadline, PoolSends, Hear, HearEnd, Stop, Continue, Kill, Request, BackendEnds, Edit,
         bystanders, outside, worker, vars, Entries
  <2>2. bridge'.running = bridge.running \/ BackendLost
    BY <1>0 DEF Next, OfSender, Enter, TakeMutex, Publish, SendLoop, Wake, Transmit, OfMain,
         MainSends, Booted, EnterLoop, Plan, Planned, Filler, Idle, Poll, RunReturns, TaskReturns,
         TaskSends, TaskBlocks, Interrupted, OfRecv, ReadCommand, Obey, Inject,
         Deadline, PoolSends, Hear, HearEnd, Stop, Continue, Kill, Request, BackendEnds, Edit,
         bystanders, outside, worker, vars, Bridges
  <2> QED
    BY <2>1, <2>2 DEF SInv, StillRunning, BackendLost, outside
<1>3. NoEdits'
  <2>1. /\ UNCHANGED happens
        /\ config' \in {config, [config EXCEPT !.watched = config.version]} \/ "edit" \in happens
    BY DEF Next, OfSender, Enter, TakeMutex, Publish, SendLoop, Wake, Transmit, OfMain,
         MainSends, Booted, EnterLoop, Plan, Planned, Filler, Idle, Poll, RunReturns, TaskReturns,
         TaskSends, TaskBlocks, Interrupted, OfRecv, ReadCommand, Obey, BackendLost, Inject,
         Deadline, PoolSends, Hear, HearEnd, Stop, Continue, Kill, Request, BackendEnds, Edit,
         bystanders, outside, worker, vars
  <2>2. config \in [version : 0..MaxEdits, watched : 0..MaxEdits]
    BY DEF SInv, IInv, TypeOK
  <2> QED
    BY <2>1, <2>2 DEF SInv, NoEdits
<1> QED
  BY <1>1, <1>2, <1>3

\* Without edits the page shows what the worker does, its task and whether it waits, as
\* soon as nothing is on its way (ConfigReport, bridge.send() and _handle_config_event()):
\* whatever is logged, stopped, continued or killed in the meantime.
THEOREM ShownIsAlwaysTrue == Spec => []ShownIsTrue
<1>1. Init => SInv
  <2> SUFFICES ASSUME Init PROVE ShownSoon /\ OthersTellNothing /\ StillRunning /\ NoEdits
    BY InitIInv DEF SInv
  <2>1. WillShow(Allows, "running", backend.entry # "scheduler-waiting")
    <3>1. 1 \in DOMAIN sched.todo /\ sched.todo[1] = "running" /\ \A j \in DOMAIN sched.todo : ~(j > 1)
      BY DEF Init
    <3> QED
      BY <3>1 DEF WillShow, LastIs
  <2> QED
    BY <2>1 DEF Init, ShownSoon, TaskSoon, NoTaskSoon, NotWaitingSoon, OthersTellNothing,
                StillRunning, NoEdits
<1>2. SInv /\ [Next]_vars => SInv'
  BY IInvStep, ShownStep, QuietStep DEF SInv
<1>3. SInv => ShownIsTrue
  <2> SUFFICES ASSUME SInv, Quiet, "edit" \notin happens
               PROVE  /\ sched.pc \in {"task", "native"} =>
                             backend.task /\ backend.entry # "scheduler-waiting"
                      /\ sched.pc = "wait" => ~backend.task
    BY DEF ShownIsTrue
  <2>1. sched.todo = <<>> /\ ~InMain /\ ~InSlot /\ up = <<>>
    BY DEF Quiet, InMain, InSlot
  <2>2. /\ WillShow(Tells, "task", backend.task) => backend.task
        /\ WillShow(Tells, "no-task", ~backend.task) => ~backend.task
        /\ WillShow(Allows, "running", backend.entry # "scheduler-waiting")
             => backend.entry # "scheduler-waiting"
    BY <2>1 DEF WillShow, LastIs, Sent, OneIs
  <2> QED
    BY <2>2 DEF SInv, ShownSoon, TaskSoon, NoTaskSoon, NotWaitingSoon, Quiet
<1> QED
  BY <1>1, <1>2, <1>3, PTL DEF Spec
=============================================================================
