----------------------- MODULE MaintenanceFlowProofs -----------------------
(***************************************************************************)
(* Proofs about MaintenanceFlow, for every set of configs and resume       *)
(* queues, with and without a supervisor.                                  *)
(***************************************************************************)
EXTENDS MaintenanceFlow, TLAPS

-----------------------------------------------------------------------------
(* The life cycle of the manager, WorkerStates: the resume list of a        *)
(* graceful restart is exact and final once it is frozen.                   *)

\* What makes ParkedForARestart inductive: only a restart in flight marks.
MarkedInRestart == \A c \in Configs : mark[c] => run.inflight

\* The worker manager keeps the invariant of its life cycle.
MInv ==
    /\ Manager!TypeOK
    /\ MarkedInRestart
    /\ Manager!RestartOwnsTheQueue
    /\ Manager!FrozenListExact
    /\ Manager!ParkedForARestart

\* The initial state is type correct, and the strengthened invariant holds in it.
LEMMA InitMInv == Manager!Init => MInv
  BY DEF Manager!Init, MInv, Manager!TypeOK, Manager!Statuses, Manager!NoRun, MarkedInRestart,
         Manager!RestartOwnsTheQueue, Manager!FrozenListExact, Manager!ParkedForARestart,
         Manager!With

\* A step that moves one config and leaves the run alone: what its new status
\* and mark have to satisfy for the invariant to be kept.
LEMMA MoveMInv ==
  ASSUME MInv, NEW c \in Configs, NEW s \in Manager!Statuses, NEW m \in BOOLEAN,
         Manager!Move(c, s, m),
         m => run.inflight,
         s = "resuming" => ~run.inflight,
         s = "parked" => run.inflight /\ m,
         run.frozen => s \in {"idle", "parked"} /\ (s = "parked" <=> status[c] = "parked")
  PROVE  MInv'
<1>1. /\ status' = [status EXCEPT ![c] = s] /\ mark' = [mark EXCEPT ![c] = m] /\ run' = run
      BY DEF Manager!Move
<1>2. /\ status \in [Configs -> Manager!Statuses] /\ mark \in [Configs -> BOOLEAN]
      BY DEF MInv, Manager!TypeOK
<1>3. \A d \in Configs : /\ status'[d] = IF d = c THEN s ELSE status[d]
                         /\ mark'[d] = IF d = c THEN m ELSE mark[d]
      BY <1>1, <1>2
<1>4. Manager!TypeOK'
      BY <1>1, <1>2 DEF MInv, Manager!TypeOK, Manager!NoRun
<1>5. MarkedInRestart'
      BY <1>1, <1>3 DEF MInv, MarkedInRestart
<1>6. Manager!RestartOwnsTheQueue'
      BY <1>1, <1>3 DEF MInv, Manager!RestartOwnsTheQueue, Manager!With
<1>7. Manager!FrozenListExact'
  <2>1. CASE ~run.frozen
        BY <2>1, <1>1 DEF Manager!FrozenListExact
  <2>2. CASE run.frozen
    <3>1. Manager!With("parked")' = Manager!With("parked")
          BY <2>2, <1>3 DEF Manager!With
    <3>2. \A d \in Configs : status'[d] \in {"idle", "parked"}
          BY <2>2, <1>3 DEF MInv, Manager!FrozenListExact
    <3>3. QED
          BY <2>2, <3>1, <3>2, <1>1 DEF MInv, Manager!FrozenListExact
  <2>3. QED
        BY <2>1, <2>2
<1>8. Manager!ParkedForARestart'
      BY <1>1, <1>3 DEF MInv, Manager!ParkedForARestart
<1>9. QED
      BY <1>4, <1>5, <1>6, <1>7, <1>8 DEF MInv

\* Every step of the life cycle keeps the strengthened invariant.
LEMMA NextMInv == MInv /\ [Manager!Next]_(Manager!vars) => MInv'
<1> SUFFICES ASSUME MInv, [Manager!Next]_(Manager!vars)
             PROVE  MInv'
    OBVIOUS
<1>0. /\ status \in [Configs -> Manager!Statuses] /\ mark \in [Configs -> BOOLEAN]
      /\ run \in [inflight : BOOLEAN, abort : BOOLEAN, frozen : BOOLEAN,
                  list : SUBSET Configs]
      /\ run.inflight \/ run = Manager!NoRun
      BY DEF MInv, Manager!TypeOK
<1>1. ASSUME NEW c \in Configs, Manager!Start(c)
      PROVE  MInv'
  <2>1. ~run.frozen
        BY <1>1 DEF Manager!Start, MInv, Manager!FrozenListExact
  <2>2. QED
        BY <1>1, <2>1, MoveMInv DEF Manager!Start, Manager!Statuses
<1>2. ASSUME NEW c \in Configs, Manager!QueueStart(c)
      PROVE  MInv'
  <2>1. ~run.frozen
        BY <1>2 DEF Manager!QueueStart, MInv, Manager!FrozenListExact
  <2>2. CASE run.inflight
        BY <1>2, <2>1, <2>2, MoveMInv DEF Manager!QueueStart, Manager!Statuses
  <2>3. CASE ~run.inflight
        BY <1>2, <2>1, <2>3, MoveMInv, <1>0 DEF Manager!QueueStart, Manager!Statuses
  <2>4. QED
        BY <2>2, <2>3
<1>3. ASSUME NEW c \in Configs, Manager!Resume(c)
      PROVE  MInv'
  <2>1. ~run.frozen /\ ~mark[c]
        BY <1>3 DEF Manager!Resume, MInv, Manager!FrozenListExact, MarkedInRestart
  <2>2. QED
        BY <1>3, <2>1, <1>0, MoveMInv DEF Manager!Resume, Manager!Statuses
<1>4. ASSUME NEW c \in Configs, Manager!Stop(c)
      PROVE  MInv'
  <2>1. ~run.frozen
        BY <1>4 DEF Manager!Stop, MInv, Manager!FrozenListExact
  <2>2. QED
        BY <1>4, <2>1, <1>0, MoveMInv DEF Manager!Stop, Manager!Statuses, MInv, MarkedInRestart
<1>5. ASSUME NEW c \in Configs, Manager!GiveUp(c)
      PROVE  MInv'
  <2>1. ~run.frozen
        BY <1>5 DEF Manager!GiveUp, MInv, Manager!FrozenListExact
  <2>2. QED
        BY <1>5, <2>1, MoveMInv DEF Manager!GiveUp, Manager!Statuses
<1>6. ASSUME NEW c \in Configs, Manager!Continue(c)
      PROVE  MInv'
  <2>1. ~run.frozen
        BY <1>6 DEF Manager!Continue, MInv, Manager!FrozenListExact
  <2>2. QED
        BY <1>6, <2>1, <1>0, MoveMInv DEF Manager!Continue, Manager!Statuses, MInv,
                                          MarkedInRestart
<1>7. ASSUME NEW c \in Configs, Manager!Ended(c)
      PROVE  MInv'
  <2>1. ~run.frozen
        BY <1>7 DEF Manager!Ended, MInv, Manager!FrozenListExact
  <2>2. CASE mark[c]
    <3>1. run.inflight /\ Manager!Move(c, "parked", TRUE)
          BY <1>7, <2>2, <1>0 DEF Manager!Ended, MInv, MarkedInRestart
    <3>2. QED
          BY <2>1, <3>1, MoveMInv DEF Manager!Statuses
  <2>3. CASE ~mark[c]
    <3>1. Manager!Move(c, "idle", FALSE)
          BY <1>7, <2>3, <1>0 DEF Manager!Ended
    <3>2. QED
          BY <2>1, <3>1, MoveMInv DEF Manager!Statuses
  <2>4. QED
        BY <2>2, <2>3
<1>8. ASSUME NEW c \in Configs, Manager!CancelResume(c)
      PROVE  MInv'
  <2>1. Manager!Move(c, "idle", FALSE)
        BY <1>8 DEF Manager!CancelResume
  <2>2. run.frozen => status[c] # "parked"
        BY <1>8 DEF Manager!CancelResume, Manager!Cancellable, MInv, Manager!FrozenListExact,
                    Manager!With
  <2>3. QED
        BY <2>1, <2>2, MoveMInv DEF Manager!Statuses
<1>9. ASSUME NEW S \in SUBSET Configs, Manager!MarkResume(S)
      PROVE  MInv'
  <2>1. /\ mark' = mark /\ run' = run /\ run = Manager!NoRun
        /\ ~run.inflight /\ ~run.frozen
        BY <1>9, <1>0 DEF Manager!MarkResume, Manager!NoRun
  <2>2. /\ status' \in [Configs -> Manager!Statuses]
        /\ \A d \in Configs : status'[d] = "parked" => status[d] = "parked"
        BY <1>9, <1>0 DEF Manager!MarkResume, Manager!Statuses
  <2>3. QED
        BY <2>1, <2>2 DEF MInv, Manager!TypeOK, MarkedInRestart, Manager!RestartOwnsTheQueue,
                          Manager!FrozenListExact, Manager!ParkedForARestart, Manager!NoRun
<1>10. ASSUME NEW S \in SUBSET Configs, Manager!DropResume(S)
       PROVE  MInv'
  <2>1. mark' = mark /\ run' = run
        BY <1>10 DEF Manager!DropResume
  <2>2. /\ status' \in [Configs -> Manager!Statuses]
        /\ \A d \in Configs : /\ status[d] # "resuming" => status'[d] = status[d]
                              /\ status[d] = "resuming" => status'[d] \in {"resuming", "idle"}
        BY <1>10, <1>0 DEF Manager!DropResume, Manager!Statuses
  <2>3. Manager!TypeOK' /\ MarkedInRestart' /\ Manager!ParkedForARestart'
        BY <2>1, <2>2 DEF MInv, Manager!TypeOK, MarkedInRestart, Manager!ParkedForARestart,
                          Manager!NoRun
  <2>4. Manager!RestartOwnsTheQueue'
        BY <2>1, <2>2 DEF MInv, Manager!RestartOwnsTheQueue, Manager!With
  <2>5. Manager!FrozenListExact'
    <3>1. Manager!With("parked")' = Manager!With("parked")
          BY <2>2 DEF Manager!With
    <3>2. QED
          BY <2>1, <2>2, <3>1 DEF MInv, Manager!FrozenListExact
  <2>6. QED
        BY <2>3, <2>4, <2>5 DEF MInv
<1>11. CASE Manager!RestartBegin
  <2>1. /\ run' = Manager!NewRun
        /\ status' \in [Configs -> Manager!Statuses] /\ mark' \in [Configs -> BOOLEAN]
        /\ \A d \in Configs : /\ status'[d] # "resuming"
                              /\ status'[d] = "parked" => status[d] \in {"resuming", "parked"}
                              /\ status[d] = "resuming" => mark'[d]
        BY <1>11, <1>0 DEF Manager!RestartBegin, Manager!Statuses
  <2>2. \A d \in Configs : status[d] # "parked"
        BY <1>11 DEF Manager!RestartBegin, MInv, Manager!ParkedForARestart
  <2>3. Manager!TypeOK' /\ MarkedInRestart' /\ Manager!ParkedForARestart'
        BY <2>1, <2>2 DEF Manager!TypeOK, MarkedInRestart, Manager!ParkedForARestart,
                          Manager!NewRun
  <2>4. Manager!RestartOwnsTheQueue' /\ Manager!FrozenListExact'
        BY <2>1 DEF Manager!RestartOwnsTheQueue, Manager!FrozenListExact, Manager!With,
                    Manager!NewRun
  <2>5. QED
        BY <2>3, <2>4 DEF MInv
<1>12. CASE Manager!Freeze
  <2>1. /\ status' = status /\ mark' = mark
        /\ run' = [run EXCEPT !.frozen = TRUE, !.list = Manager!With("parked")]
        /\ run.inflight /\ \A d \in Configs : status[d] \in {"idle", "parked"}
        BY <1>12 DEF Manager!Freeze
  <2>2. Manager!With("parked") \in SUBSET Configs
        BY DEF Manager!With
  <2>3. /\ run' \in [inflight : BOOLEAN, abort : BOOLEAN, frozen : BOOLEAN,
                     list : SUBSET Configs]
        /\ run'.inflight /\ run'.frozen /\ run'.list = Manager!With("parked")
        BY <2>1, <2>2, <1>0
  <2>4. Manager!TypeOK' /\ MarkedInRestart' /\ Manager!ParkedForARestart'
        BY <2>1, <2>3, <1>0 DEF MInv, Manager!TypeOK, MarkedInRestart, Manager!ParkedForARestart
  <2>5. Manager!RestartOwnsTheQueue' /\ Manager!FrozenListExact'
        BY <2>1, <2>3 DEF Manager!RestartOwnsTheQueue, Manager!FrozenListExact, Manager!With
  <2>6. QED
        BY <2>4, <2>5 DEF MInv
<1>13. CASE Manager!RestartAbort
  <2>1. status' = status /\ mark' = mark /\ run.inflight
        /\ run' = [run EXCEPT !.abort = TRUE]
        BY <1>13 DEF Manager!RestartAbort
  <2>2. /\ run' \in [inflight : BOOLEAN, abort : BOOLEAN, frozen : BOOLEAN,
                     list : SUBSET Configs]
        /\ run'.inflight /\ run'.frozen = run.frozen /\ run'.list = run.list
        BY <2>1, <1>0
  <2>3. Manager!TypeOK' /\ MarkedInRestart' /\ Manager!ParkedForARestart'
        BY <2>1, <2>2, <1>0 DEF MInv, Manager!TypeOK, MarkedInRestart, Manager!ParkedForARestart
  <2>4. Manager!RestartOwnsTheQueue' /\ Manager!FrozenListExact'
        BY <2>1, <2>2 DEF MInv, Manager!RestartOwnsTheQueue, Manager!FrozenListExact,
                          Manager!With
  <2>5. QED
        BY <2>3, <2>4 DEF MInv
<1>14. CASE Manager!RestartCancel
  <2>1. /\ run' = Manager!NoRun
        /\ status' \in [Configs -> Manager!Statuses] /\ mark' \in [Configs -> BOOLEAN]
        /\ \A d \in Configs : status'[d] # "parked" /\ ~mark'[d]
        BY <1>14, <1>0 DEF Manager!RestartCancel, Manager!Statuses
  <2>2. QED
        BY <2>1 DEF MInv, Manager!TypeOK, MarkedInRestart, Manager!RestartOwnsTheQueue,
                    Manager!FrozenListExact, Manager!ParkedForARestart, Manager!NoRun
<1>15. CASE UNCHANGED Manager!vars
       BY <1>15 DEF Manager!vars, MInv, Manager!TypeOK, MarkedInRestart,
                    Manager!RestartOwnsTheQueue, Manager!FrozenListExact,
                    Manager!ParkedForARestart, Manager!With
<1>16. QED
  <2>1. \A c \in Configs : {c} \in SUBSET Configs
        OBVIOUS
  <2>2. QED
        BY <1>1, <1>2, <1>3, <1>4, <1>5, <1>6, <1>7, <1>8, <1>9, <1>10, <1>11, <1>12,
           <1>13, <1>14, <1>15, <2>1 DEF Manager!Next

\* The strengthened invariant holds in every reachable state.
THEOREM ManagerInvariant == Manager!Spec => []MInv
<1>1. QED
      BY InitMInv, NextMInv, PTL DEF Manager!Spec

\* The states of the manager have their types, and a released run holds nothing.
THEOREM StatesTypeCorrect == Manager!Spec => []Manager!TypeOK
<1>1. MInv => Manager!TypeOK
      BY DEF MInv
<1>2. QED
      BY ManagerInvariant, <1>1, PTL

\* The list the resume file is written from is exactly what is parked.
THEOREM FrozenListIsExact == Manager!Spec => []Manager!FrozenListExact
<1>1. MInv => Manager!FrozenListExact
      BY DEF MInv
<1>2. QED
      BY ManagerInvariant, <1>1, PTL

\* The queue and the restart never own a config together.
THEOREM QueueIsOwned == Manager!Spec => []Manager!RestartOwnsTheQueue
<1>1. MInv => Manager!RestartOwnsTheQueue
      BY DEF MInv
<1>2. QED
      BY ManagerInvariant, <1>1, PTL

\* No config waits for a restart that is over.
THEOREM ParkedWaits == Manager!Spec => []Manager!ParkedForARestart
<1>1. MInv => Manager!ParkedForARestart
      BY DEF MInv
<1>2. QED
      BY ManagerInvariant, <1>1, PTL

\* No step between the freeze and the release of the run changes the list.
THEOREM FrozenListIsFinal == Manager!Spec => Manager!ListIsFinal
<1>1. MInv /\ [Manager!Next]_(Manager!vars)
        => [run.frozen /\ run'.frozen => run'.list = run.list]_(Manager!vars)
  <2> SUFFICES ASSUME MInv, [Manager!Next]_(Manager!vars), run.frozen, run'.frozen
               PROVE  run'.list = run.list
      OBVIOUS
  <2>1. run \in [inflight : BOOLEAN, abort : BOOLEAN, frozen : BOOLEAN,
                 list : SUBSET Configs]
        /\ run.inflight /\ run.list = Manager!With("parked")
        BY DEF MInv, Manager!TypeOK, Manager!FrozenListExact
  <2>2. CASE Manager!Freeze
    <3>1. run' = [run EXCEPT !.frozen = TRUE, !.list = Manager!With("parked")]
          BY <2>2 DEF Manager!Freeze
    <3>2. QED
          BY <2>1, <3>1
  <2>3. CASE Manager!RestartAbort
    <3>1. run' = [run EXCEPT !.abort = TRUE]
          BY <2>3 DEF Manager!RestartAbort
    <3>2. QED
          BY <2>1, <3>1
  <2>4. ~Manager!RestartBegin /\ ~Manager!RestartCancel
        BY <2>1 DEF Manager!RestartBegin, Manager!RestartCancel, Manager!NoRun
  <2>5. CASE UNCHANGED run
        BY <2>5
  <2>6. QED
        BY <2>2, <2>3, <2>4, <2>5
           DEF Manager!Next, Manager!Start, Manager!QueueStart, Manager!Resume, Manager!Stop,
               Manager!GiveUp, Manager!Continue, Manager!Ended, Manager!CancelResume,
               Manager!MarkResume, Manager!DropResume, Manager!Move, Manager!vars
<1>2. QED
      BY ManagerInvariant, <1>1, PTL DEF Manager!Spec, Manager!ListIsFinal
-----------------------------------------------------------------------------
(* The flows                                                               *)

Stopping == {"sending", "waiting", "draining", "freezing"}
Updating == {"updating", "writing"}
Handing == {"publish", "order", "withdraw"}
WrappingUp == {"collect", "collect2", "release", "mark"}
Converging == {"queued", "acquire"}

\* Which flow may be where in its body, and in which scenario.
OwnPcs ==
    /\ flow.pc \in {"read", "recall", "work"} \cup Converging => flow.kind = "startup"
    /\ flow.pc \in {"start", "check", "begin"} \cup Stopping \cup Updating => flow.kind \in Kinds
    /\ flow.pc = "check" => flow.kind = "update"
    /\ flow.kind \in Kinds => flow.kind \in happens
    /\ flow.kind \in {"restart", "daily"} => Supervisor
    /\ flow.pc \in Converging \cup Handing /\ flow.kind = "startup" =>
         Supervisor /\ "converge" \in happens
    /\ flow.pc = "withdraw" => ~Supervisor \/ "fail" \in happens

FInv == TypeOK /\ MInv /\ OwnPcs
-----------------------------------------------------------------------------
(* The worker manager                                                      *)

\* What a step does to the worker manager: nothing, one of its operations, a new
\* process, the kill of everything that is up, or an abort where no restart waits.
ManagerStep ==
    \/ UNCHANGED manager
    \/ Manager!Next
    \/ \E S \in SUBSET Configs : Manager!MarkResume(S) \/ Manager!DropResume(S)
    \/ /\ status' = [c \in Configs |-> IF status[c] = "up" THEN "ending" ELSE status[c]]
       /\ \E c \in Configs : status[c] \notin {"idle", "parked"}
       /\ UNCHANGED <<mark, run>>
    \/ ~run.inflight /\ run' = [run EXCEPT !.abort = TRUE] /\ UNCHANGED <<status, mark>>
    \/ /\ status' = [c \in Configs |-> "idle"] /\ mark' = [c \in Configs |-> FALSE]
       /\ run' = Manager!NoRun

LEMMA ManagerKept ==
  ASSUME MInv, ManagerStep
  PROVE  MInv'
<1>0. /\ Manager!TypeOK /\ MarkedInRestart /\ Manager!RestartOwnsTheQueue
      /\ Manager!FrozenListExact /\ Manager!ParkedForARestart
  BY DEF MInv
<1>1. CASE UNCHANGED manager
  BY <1>1 DEF manager, MInv, Manager!TypeOK, MarkedInRestart,
              Manager!RestartOwnsTheQueue, Manager!FrozenListExact, Manager!ParkedForARestart,
              Manager!With
<1>2. CASE Manager!Next
  BY <1>2, NextMInv DEF MInv
<1>3. CASE \E S \in SUBSET Configs : Manager!MarkResume(S)
  <2>1. PICK S \in SUBSET Configs : Manager!MarkResume(S)
    BY <1>3
  <2>2. /\ ~run.inflight /\ mark' = mark /\ run' = run
        /\ status' \in [Configs -> Manager!Statuses]
        /\ \A c \in Configs : status'[c] # status[c] => status'[c] = "resuming"
    BY <2>1, <1>0 DEF Manager!MarkResume, Manager!TypeOK, Manager!Statuses
  <2> QED
    BY <2>2, <1>0 DEF MInv, Manager!TypeOK, MarkedInRestart,
              Manager!RestartOwnsTheQueue, Manager!FrozenListExact, Manager!ParkedForARestart
<1>4. CASE \E S \in SUBSET Configs : Manager!DropResume(S)
  <2>1. PICK S \in SUBSET Configs : Manager!DropResume(S)
    BY <1>4
  <2>2. /\ mark' = mark /\ run' = run
        /\ status' \in [Configs -> Manager!Statuses]
        /\ \A c \in Configs : status'[c] # status[c] => status[c] = "resuming" /\ status'[c] = "idle"
    BY <2>1, <1>0 DEF Manager!DropResume, Manager!TypeOK, Manager!Statuses
  <2>3. /\ run.inflight => Manager!With("resuming")' = {}
        /\ run.frozen => Manager!With("parked")' = Manager!With("parked")
    BY <2>2, <1>0 DEF Manager!RestartOwnsTheQueue, Manager!With
  <2>4. Manager!FrozenListExact'
    BY <2>2, <2>3, <1>0 DEF Manager!FrozenListExact
  <2> QED
    BY <2>2, <2>3, <2>4, <1>0 DEF MInv, Manager!TypeOK, MarkedInRestart,
              Manager!RestartOwnsTheQueue, Manager!ParkedForARestart
<1>5. CASE /\ status' = [c \in Configs |-> IF status[c] = "up" THEN "ending" ELSE status[c]]
           /\ \E c \in Configs : status[c] \notin {"idle", "parked"}
           /\ UNCHANGED <<mark, run>>
  <2>1. /\ mark' = mark /\ run' = run /\ ~run.frozen
        /\ status' \in [Configs -> Manager!Statuses]
        /\ \A c \in Configs : status'[c] # status[c] => status'[c] = "ending"
    BY <1>5, <1>0 DEF Manager!TypeOK, Manager!Statuses, Manager!FrozenListExact
  <2>2. run.inflight => Manager!With("resuming")' = {}
    BY <2>1, <1>0 DEF Manager!RestartOwnsTheQueue, Manager!With
  <2> QED
    BY <2>1, <2>2, <1>0 DEF MInv, Manager!TypeOK, MarkedInRestart,
              Manager!RestartOwnsTheQueue, Manager!ParkedForARestart, Manager!FrozenListExact
<1>6. CASE ~run.inflight /\ run' = [run EXCEPT !.abort = TRUE] /\ UNCHANGED <<status, mark>>
  <2>1. run' = run
    BY <1>6, <1>0 DEF Manager!TypeOK, Manager!NoRun
  <2> QED
    BY <2>1, <1>1, <1>6 DEF manager
<1>7. CASE /\ status' = [c \in Configs |-> "idle"] /\ mark' = [c \in Configs |-> FALSE]
           /\ run' = Manager!NoRun
  BY <1>7 DEF MInv, Manager!TypeOK, MarkedInRestart, Manager!NoRun, Manager!RestartOwnsTheQueue,
              Manager!FrozenListExact, Manager!ParkedForARestart, Manager!With, Manager!Statuses
<1> QED
  BY <1>1, <1>2, <1>3, <1>4, <1>5, <1>6, <1>7 DEF ManagerStep

\* A step of the flows does to the manager what one of its operations does.
LEMMA NextManagerStep ==
  ASSUME TypeOK, [Next]_vars
  PROVE  ManagerStep
<1>1. CASE \/ \E kind \in Kinds : Request(kind)
           \/ OpenWindow \/ PreCheck \/ EnterWait \/ WaitOver \/ WaitAborted
           \/ CloseWindow \/ Updated \/ ReadIntent \/ StartupWork \/ ReadQueued \/ AcquireLock
           \/ Publish \/ Order \/ HandoverFailed \/ CollectParked \/ CollectQueued \/ ReleaseSlot
  BY <1>1 DEF ManagerStep, manager, Request, OpenWindow, PreCheck, EnterWait, WaitOver,
              WaitAborted, CloseWindow, Updated, ReadIntent, StartupWork, ReadQueued,
              AcquireLock, Publish, Order, HandoverFailed, CollectParked, CollectQueued,
              ReleaseSlot
<1>2. CASE \/ \E q \in Queues : QueueRead(q) \/ QueueDone(q) \/ \E c \in Configs : QueueNextConfig(q, c)
           \/ Cancel \/ \E how \in {"force", "shutdown"} : Down(how)
           \/ \E t \in {"cancel", "down"} : CancelScope(t)
           \/ DownFreeze \/ DownWithdraw \/ DownOrder
  BY <1>2 DEF ManagerStep, manager, QueueRead, QueueDone, QueueNextConfig, Cancel, Down,
              CancelScope, DownFreeze, DownWithdraw, DownOrder
<1>3. CASE Begin
  BY <1>3 DEF Begin, ManagerStep, manager, Manager!Next, Manager!RestartBegin, Manager!NewRun
<1>4. CASE WaitTimesOut
  BY <1>4 DEF WaitTimesOut, ManagerStep, Pending
<1>5. CASE FreezeList
  BY <1>5 DEF FreezeList, ManagerStep, manager, Manager!Next, Manager!Freeze, Manager!With
<1>6. CASE \E c \in Configs : SendStop(c)
  BY <1>6 DEF SendStop, ManagerStep, manager, Manager!Next, Manager!Stop, Manager!Move,
              Manager!CancelResume, Manager!Cancellable
<1>7. CASE RecallIntent \/ QueueResume
  BY <1>7 DEF RecallIntent, QueueResume, ManagerStep, TypeOK, Flows
<1>8. CASE ReleaseRun \/ DownCancel
  BY <1>8 DEF ReleaseRun, DownCancel, ManagerStep, Manager!Next, Manager!RestartCancel,
              Manager!NoRun
<1>9. CASE \E q \in Queues : QueueScan(q)
  <2>1. PICK q \in Queues : QueueScan(q)
    BY <1>9
  <2>2. queue[q].list \in SUBSET Configs
    BY <2>1 DEF TypeOK, QueueTasks
  <2> QED
    BY <2>1, <2>2 DEF QueueScan, ManagerStep
<1>10. CASE \E q \in Queues : QueueStart(q)
  <2>1. PICK q \in Queues : QueueStart(q)
    BY <1>10
  <2>2. queue[q].config \in Configs
    BY <2>1 DEF TypeOK, QueueTasks, QueueStart
  <2> QED
    BY <2>1, <2>2 DEF QueueStart, ManagerStep, manager, Manager!Next, Manager!Resume,
                      Manager!Move
<1>11. CASE \E t \in {"cancel", "down"} : AbortWait(t)
  BY <1>11 DEF AbortWait, ManagerStep, Manager!Next, Manager!RestartAbort
<1>12. CASE \E c \in Configs : UserStart(c)
  BY <1>12 DEF UserStart, ManagerStep, Manager!Next, Manager!Start, Manager!Move,
               Manager!QueueStart
<1>13. CASE \E c \in Configs : UserStop(c) \/ UserKill(c)
  BY <1>13 DEF UserStop, UserKill, ManagerStep, Manager!Next, Manager!Stop, Manager!Move,
               Manager!CancelResume, Manager!Cancellable, Manager!GiveUp
<1>14. CASE \E c \in Configs : WorkerCrash(c) \/ WorkerGone(c)
  BY <1>14 DEF WorkerCrash, WorkerGone, ManagerStep, Manager!Next, Manager!Stop, Manager!Move,
               Manager!Ended
<1>15. CASE Replace
  BY <1>15 DEF Replace, ManagerStep
<1>16. CASE UNCHANGED vars
  BY <1>16 DEF vars, ManagerStep, manager
<1> QED
  BY <1>1, <1>2, <1>3, <1>4, <1>5, <1>6, <1>7, <1>8, <1>9, <1>10, <1>11, <1>12, <1>13, <1>14, <1>15,
     <1>16 DEF Next, FlowNext, QueueNext, DownNext

-----------------------------------------------------------------------------
(* Types, and which flow may be where                                      *)

\* The part of the types that is about the flow, and the rest.
FlowOK ==
    /\ flow \in Flows
    /\ flow.kind = None <=> flow.pc = "none"
    /\ flow.open => /\ flow.kind \in {"restart", "update"}
                    /\ flow.pc \in {"check", "begin", "sending", "waiting", "draining",
                                   "freezing", "updating"}
RestOK ==
    /\ frozen \in BOOLEAN
    /\ intent \in (SUBSET Configs) \cup {None}
    /\ task \in [{"cancel", "down"} -> Tasks]
    /\ queue \in [Queues -> QueueTasks]
    /\ ordered \in {"no", "restart", "stop"}
    /\ asked \subseteq Configs /\ gaveUp \subseteq Configs
    /\ \A q \in Queues : queue[q].config # None <=> queue[q].pc = "start"

\* What a flow may become that keeps its kind.
LEMMA FlowGoes ==
  ASSUME FlowOK, NEW pc \in FlowPcs \ {"none"}, flow.pc # "none",
         flow' \in Flows, flow'.pc = pc, flow'.kind = flow.kind,
         flow'.open => flow.kind \in {"restart", "update"} /\
                       pc \in {"check", "begin", "sending", "waiting", "draining", "freezing", "updating"}
  PROVE  FlowOK'
  BY DEF FlowOK

\* The flow leaves its window into the handover or the wrap-up.
LEMMA Leaves ==
  ASSUME flow \in Flows, NEW ok \in BOOLEAN, NEW list \in SUBSET Configs, Leave(ok, list)
  PROVE  /\ flow' \in Flows /\ flow'.kind = flow.kind /\ ~flow'.open
         /\ flow'.cancelled = flow.cancelled /\ flow'.scope = flow.scope
         /\ flow'.todo = flow.todo /\ flow'.list = list
         /\ flow'.pc = "publish" => ok /\ ~(Windowed /\ flow.cancelled) /\ frozen'
         /\ flow'.pc # "publish" => flow'.pc = "collect" /\ frozen' = frozen
                                    /\ (ok => Windowed /\ flow.cancelled)
         /\ frozen \in BOOLEAN => frozen' \in BOOLEAN
<1>. DEFINE hand == ok /\ ~(Windowed /\ flow.cancelled)
            pc == IF hand THEN "publish" ELSE "collect"
<1>1. /\ flow' = [flow EXCEPT !.open = FALSE, !.list = list, !.pc = pc]
      /\ frozen' = IF hand THEN TRUE ELSE frozen
  BY DEF Leave
<1>2. pc \in FlowPcs /\ (pc = "publish" <=> hand) /\ (pc # "publish" => pc = "collect")
  BY DEF FlowPcs
<1> HIDE DEF pc
<1>3. /\ flow' \in Flows /\ flow'.kind = flow.kind /\ ~flow'.open
      /\ flow'.cancelled = flow.cancelled /\ flow'.scope = flow.scope
      /\ flow'.todo = flow.todo /\ flow'.list = list /\ flow'.pc = pc
  BY <1>1, <1>2 DEF Flows
<1> QED
  BY <1>1, <1>2, <1>3

\* A new flow.
LEMMA FlowStarts ==
  ASSUME NEW kind \in Kinds \cup {"startup"}, NEW pc \in FlowPcs \ {"none"},
         NEW list \in SUBSET Configs, flow' = NewFlow(kind, pc, list)
  PROVE  /\ FlowOK' /\ flow'.kind = kind /\ flow'.pc = pc /\ flow'.list = list /\ ~flow'.open
         /\ ~flow'.cancelled /\ ~flow'.scope /\ flow'.todo = {}
<1>1. flow' \in Flows
  BY DEF NewFlow, Flows, Kinds
<1> QED
  BY <1>1, FlowAssumption DEF FlowOK, NewFlow

LEMMA FlowEmpty ==
  /\ NoFlow \in Flows /\ NoFlow.kind = None /\ NoFlow.pc = "none" /\ ~NoFlow.open
  /\ ~NoFlow.cancelled /\ ~NoFlow.scope /\ NoFlow.todo = {} /\ NoFlow.list = {}
  BY DEF NoFlow, NewFlow, Flows, FlowPcs

\* The flow goes on to pc with this list, and these stop requests to send.
To(pc, list, todo) ==
    /\ FlowOK' /\ flow'.kind = flow.kind /\ flow'.pc = pc /\ flow'.list = list /\ flow'.todo = todo
    /\ flow'.cancelled = flow.cancelled /\ flow'.scope = flow.scope

Open(pc) == pc \in {"check", "begin", "sending", "waiting", "draining", "freezing", "updating"}

\* Replacing fields of the flow.
LEMMA FlowSet ==
  ASSUME FlowOK, flow.pc # "none",
         NEW pc \in FlowPcs \ {"none"}, NEW open \in BOOLEAN, NEW list \in SUBSET Configs,
         NEW todo \in SUBSET Configs,
         flow' = [flow EXCEPT !.pc = pc, !.open = open, !.list = list, !.todo = todo],
         open => flow.kind \in {"restart", "update"} /\ Open(pc)
  PROVE  To(pc, list, todo)
<1>1. /\ flow' \in Flows /\ flow'.pc = pc /\ flow'.kind = flow.kind /\ flow'.open = open
      /\ flow'.list = list /\ flow'.todo = todo
      /\ flow'.cancelled = flow.cancelled /\ flow'.scope = flow.scope
  BY DEF FlowOK, Flows
<1> QED
  BY <1>1, FlowGoes DEF To, Open

LEMMA FlowGo ==
  ASSUME FlowOK, flow.pc # "none", NEW pc \in FlowPcs \ {"none"}, Go(pc),
         flow.open => Open(pc)
  PROVE  To(pc, flow.list, flow.todo)
<1>1. /\ flow' \in Flows /\ flow'.pc = pc /\ flow'.kind = flow.kind /\ flow'.open = flow.open
      /\ flow'.list = flow.list /\ flow'.todo = flow.todo
      /\ flow'.cancelled = flow.cancelled /\ flow'.scope = flow.scope
  BY DEF FlowOK, Flows, Go
<1> QED
  BY <1>1, FlowGoes DEF To, Open, FlowOK

LEMMA FlowLists ==
  ASSUME FlowOK, flow.pc # "none", NEW pc \in FlowPcs \ {"none"}, NEW list \in SUBSET Configs,
         flow' = [flow EXCEPT !.pc = pc, !.list = list],
         flow.open => Open(pc)
  PROVE  To(pc, list, flow.todo)
<1>1. /\ flow' \in Flows /\ flow'.pc = pc /\ flow'.kind = flow.kind /\ flow'.open = flow.open
      /\ flow'.list = list /\ flow'.todo = flow.todo
      /\ flow'.cancelled = flow.cancelled /\ flow'.scope = flow.scope
  BY DEF FlowOK, Flows
<1> QED
  BY <1>1, FlowGoes DEF To, Open, FlowOK

LEMMA FlowLeaves ==
  ASSUME FlowOK, OwnPcs, flow.pc \in {"check", "begin"} \cup Stopping \cup Updating,
         NEW ok \in BOOLEAN, NEW list \in SUBSET Configs, Leave(ok, list)
  PROVE  /\ To("publish", list, flow.todo) \/ To("collect", list, flow.todo)
         /\ flow'.pc = "publish" => ok /\ ~(Windowed /\ flow.cancelled) /\ frozen'
         /\ flow'.pc = "collect" => frozen' = frozen /\ (ok => Windowed /\ flow.cancelled)
<1>1. /\ flow' \in Flows /\ flow'.kind = flow.kind /\ ~flow'.open
      /\ flow'.cancelled = flow.cancelled /\ flow'.scope = flow.scope
      /\ flow'.todo = flow.todo /\ flow'.list = list
      /\ flow'.pc = "publish" => ok /\ ~(Windowed /\ flow.cancelled) /\ frozen'
      /\ flow'.pc # "publish" => flow'.pc = "collect" /\ frozen' = frozen
                                    /\ (ok => Windowed /\ flow.cancelled)
  BY Leaves DEF FlowOK
<1>2. flow.pc # "none" /\ {"publish", "collect"} \subseteq FlowPcs \ {"none"}
  BY DEF Stopping, Updating, FlowPcs
<1>3. FlowOK'
  BY <1>1, <1>2, FlowGoes
<1> QED
  BY <1>1, <1>3 DEF To

\* Where the steps of a flow lead.
LEMMA StartSteps ==
  ASSUME FlowOK, OwnPcs
  PROVE  /\ OpenWindow => To(IF flow.kind = "update" THEN "check" ELSE "begin", flow.list, flow.todo)
         /\ ReadIntent => To("recall", flow.list, flow.todo)
         /\ RecallIntent => To("work", {}, flow.todo)
         /\ StartupWork =>
              \/ To("ended", flow.list, flow.todo) /\ frozen' = frozen
              \/ To("collect", flow.list, flow.todo) /\ frozen' = frozen /\ "fail" \in happens
              \/ /\ To("queued", flow.list, flow.todo) /\ frozen' = TRUE
                 /\ Supervisor /\ "converge" \in happens
         /\ ReadQueued => To("acquire", Manager!With("resuming"), flow.todo)
         /\ AcquireLock => To("publish", flow.list, flow.todo)
<1>0. /\ flow.list \in SUBSET Configs /\ flow.todo \in SUBSET Configs
      /\ Manager!With("resuming") \in SUBSET Configs
      /\ {"ended", "queued", "collect", "check", "begin", "recall", "work", "acquire", "publish"}
           \subseteq FlowPcs \ {"none"}
  BY DEF FlowOK, Flows, FlowPcs, Manager!With
<1>1. ASSUME OpenWindow
      PROVE  To(IF flow.kind = "update" THEN "check" ELSE "begin", flow.list, flow.todo)
  <2>. DEFINE pc == IF flow.kind = "update" THEN "check" ELSE "begin"
              open == Windowed
  <2>1. /\ flow' = [flow EXCEPT !.open = open, !.pc = pc] /\ flow.pc = "start"
        /\ pc \in FlowPcs \ {"none"} /\ open \in BOOLEAN /\ Open(pc)
        /\ open => flow.kind \in {"restart", "update"}
    BY <1>0, <1>1 DEF OpenWindow, Windowed, Open
  <2> HIDE DEF pc, open
  <2>2. flow' = [flow EXCEPT !.pc = pc, !.open = open, !.list = flow.list, !.todo = flow.todo]
    BY <2>1 DEF FlowOK, Flows
  <2>3. To(pc, flow.list, flow.todo)
    BY <1>0, <2>1, <2>2, FlowSet
  <2> QED
    BY <2>3 DEF pc
<1>2. ReadIntent => To("recall", flow.list, flow.todo)
  BY <1>0, FlowGo DEF ReadIntent, FlowOK
<1>3. RecallIntent => To("work", {}, flow.todo)
  BY <1>0, FlowLists DEF RecallIntent, FlowOK
<1>4. StartupWork =>
        \/ To("ended", flow.list, flow.todo) /\ frozen' = frozen
        \/ To("collect", flow.list, flow.todo) /\ frozen' = frozen /\ "fail" \in happens
        \/ /\ To("queued", flow.list, flow.todo) /\ frozen' = TRUE
           /\ Supervisor /\ "converge" \in happens
  BY <1>0, FlowGo DEF StartupWork, FlowOK
<1>5. ReadQueued => To("acquire", Manager!With("resuming"), flow.todo)
  BY <1>0, FlowLists DEF ReadQueued, FlowOK
<1>6. AcquireLock => To("publish", flow.list, flow.todo)
  BY <1>0, FlowGo DEF AcquireLock, FlowOK
<1> QED
  BY <1>1, <1>2, <1>3, <1>4, <1>5, <1>6

\* ... of the stop and of the update ...
Out(list) == To("collect", list, flow.todo) /\ frozen' = frozen
LEMMA StopSteps ==
  ASSUME FlowOK, OwnPcs
  PROVE  /\ PreCheck => Out({}) \/ (To("begin", flow.list, flow.todo) /\ frozen' = frozen)
         /\ Begin => IF Interrupted \/ run.inflight THEN Out({})
                     ELSE To("sending", flow.list, Manager!With("up")) /\ frozen' = frozen
         /\ \A c \in Configs : SendStop(c) => To("sending", flow.list, flow.todo \ {c})
         /\ EnterWait => IF Interrupted \/ ~run.inflight THEN Out({})
                         ELSE To("waiting", flow.list, flow.todo) /\ frozen' = frozen
         /\ WaitOver => To("freezing", flow.list, flow.todo)
         /\ WaitAborted => Out({})
         /\ WaitTimesOut => To("draining", flow.list, flow.todo)
         /\ FreezeList => IF run.abort THEN Out({})
                          ELSE To("updating", Manager!With("parked"), flow.todo) /\ frozen' = frozen
         /\ CloseWindow => To("writing", flow.list, flow.todo)
         /\ Updated => \/ To("publish", flow.list, flow.todo) /\ frozen' /\ ~(Windowed /\ flow.cancelled)
                       \/ Out(flow.list) /\ ((Windowed /\ (flow.scope \/ flow.cancelled)) \/ "fail" \in happens)
<1>0. /\ flow.list \in SUBSET Configs /\ flow.todo \in SUBSET Configs
      /\ Manager!With("up") \in SUBSET Configs /\ Manager!With("parked") \in SUBSET Configs
      /\ {"begin", "sending", "waiting", "draining", "freezing", "updating", "writing"}
           \subseteq FlowPcs \ {"none"}
      /\ \A pc \in {"begin", "sending", "waiting", "draining", "freezing", "updating"} : Open(pc)
      /\ {"check", "begin"} \cup Stopping \cup Updating =
           {"check", "begin", "sending", "waiting", "draining", "freezing", "updating", "writing"}
  BY DEF FlowOK, Flows, FlowPcs, Manager!With, Open, Stopping, Updating
<1>1. PreCheck => Out({}) \/ (To("begin", flow.list, flow.todo) /\ frozen' = frozen)
  BY <1>0, FlowGo, FlowLeaves DEF PreCheck, Out, To
<1>2. ASSUME Begin
      PROVE  IF Interrupted \/ run.inflight THEN Out({})
             ELSE To("sending", flow.list, Manager!With("up")) /\ frozen' = frozen
  <2>1. CASE Interrupted \/ run.inflight
    BY <1>0, <1>2, <2>1, FlowLeaves DEF Begin, Out, To
  <2>2. CASE ~(Interrupted \/ run.inflight)
    <3>. DEFINE up == Manager!With("up")
    <3>1. /\ flow' = [flow EXCEPT !.pc = "sending", !.todo = up] /\ flow.pc = "begin"
          /\ up \in SUBSET Configs /\ frozen' = frozen
      BY <1>0, <1>2, <2>2 DEF Begin
    <3> HIDE DEF up
    <3>2. flow' = [flow EXCEPT !.pc = "sending", !.open = flow.open, !.list = flow.list, !.todo = up]
      BY <3>1 DEF FlowOK, Flows
    <3>3. flow.open \in BOOLEAN /\ (flow.open => flow.kind \in {"restart", "update"})
      BY DEF FlowOK, Flows
    <3>4. To("sending", flow.list, up)
      BY <1>0, <3>1, <3>2, <3>3, FlowSet
    <3> QED
      BY <2>2, <3>1, <3>4 DEF up
  <2> QED
    BY <2>1, <2>2
<1>3. ASSUME NEW c \in Configs, SendStop(c) PROVE To("sending", flow.list, flow.todo \ {c})
  <2>. DEFINE todo == flow.todo \ {c}
  <2>1. flow' = [flow EXCEPT !.todo = todo] /\ flow.pc = "sending" /\ todo \in SUBSET Configs
    BY <1>0, <1>3 DEF SendStop
  <2> HIDE DEF todo
  <2>2. flow' = [flow EXCEPT !.pc = "sending", !.open = flow.open, !.list = flow.list, !.todo = todo]
    BY <2>1 DEF FlowOK, Flows
  <2>3. flow.open \in BOOLEAN /\ (flow.open => flow.kind \in {"restart", "update"})
    BY DEF FlowOK, Flows
  <2>4. To("sending", flow.list, todo)
    BY <1>0, <2>1, <2>2, <2>3, FlowSet
  <2> QED
    BY <2>4 DEF todo
<1>4. EnterWait => IF Interrupted \/ ~run.inflight THEN Out({})
                   ELSE To("waiting", flow.list, flow.todo) /\ frozen' = frozen
  BY <1>0, FlowGo, FlowLeaves DEF EnterWait, Out, To
<1>5. WaitOver => To("freezing", flow.list, flow.todo)
  BY <1>0, FlowGo DEF WaitOver
<1>6. WaitAborted => Out({})
  BY <1>0, FlowLeaves DEF WaitAborted, Out, To
<1>7. WaitTimesOut => To("draining", flow.list, flow.todo)
  BY <1>0, FlowGo DEF WaitTimesOut
<1>8. ASSUME FreezeList
      PROVE  IF run.abort THEN Out({})
             ELSE To("updating", Manager!With("parked"), flow.todo) /\ frozen' = frozen
  <2>1. CASE run.abort
    BY <1>0, <1>8, <2>1, FlowLeaves DEF FreezeList, Out, To
  <2>2. CASE ~run.abort
    BY <1>0, <1>8, <2>2, FlowLists DEF FreezeList
  <2> QED
    BY <2>1, <2>2
<1>9. ASSUME CloseWindow PROVE To("writing", flow.list, flow.todo)
  <2>1. flow' = [flow EXCEPT !.open = FALSE, !.pc = "writing"] /\ flow.pc = "updating"
    BY <1>9 DEF CloseWindow
  <2>2. flow' = [flow EXCEPT !.pc = "writing", !.open = FALSE, !.list = flow.list, !.todo = flow.todo]
    BY <2>1 DEF FlowOK, Flows
  <2> QED
    BY <1>0, <2>1, <2>2, FlowSet
<1>10. ASSUME Updated
       PROVE  \/ To("publish", flow.list, flow.todo) /\ frozen' /\ ~(Windowed /\ flow.cancelled)
              \/ Out(flow.list) /\ ((Windowed /\ (flow.scope \/ flow.cancelled)) \/ "fail" \in happens)
  <2>1. PICK ok \in BOOLEAN : Leave(ok, flow.list) /\ (~ok => (Windowed /\ flow.scope) \/ "fail" \in happens)
    BY <1>10 DEF Updated, Interrupted
  <2>2. flow.pc \in {"check", "begin"} \cup Stopping \cup Updating
    BY <1>0, <1>10 DEF Updated
  <2>3. /\ To("publish", flow.list, flow.todo) \/ To("collect", flow.list, flow.todo)
        /\ flow'.pc = "publish" => ok /\ ~(Windowed /\ flow.cancelled) /\ frozen'
        /\ flow'.pc = "collect" => frozen' = frozen /\ (ok => Windowed /\ flow.cancelled)
    BY <1>0, <2>1, <2>2, FlowLeaves
  <2> QED
    BY <2>1, <2>3 DEF To, Out
<1> QED
  BY <1>1, <1>2, <1>3, <1>4, <1>5, <1>6, <1>7, <1>8, <1>9, <1>10

\* ... and of the handover and the wrap-up.
LEMMA EndSteps ==
  ASSUME FlowOK, OwnPcs
  PROVE  /\ Publish => \/ To("order", flow.list, flow.todo) /\ intent' = flow.list /\ frozen' = frozen
                       \/ /\ \E list \in {{}, flow.list} : To("collect", list, flow.todo)
                          /\ intent' = intent /\ frozen' = FALSE /\ "fail" \in happens
         /\ Order => \/ To("ended", flow.list, flow.todo) /\ Supervisor
                        /\ ordered' = IF ordered = "no" THEN "restart" ELSE ordered
                     \/ To("withdraw", flow.list, flow.todo) /\ ordered' = ordered
                        /\ (~Supervisor \/ "fail" \in happens)
         /\ HandoverFailed => \E list \in {{}, flow.list} : To("collect", list, flow.todo)
         /\ CollectParked => To("collect2", flow.list \cup Manager!With("parked"), flow.todo)
         /\ CollectQueued => To("release", flow.list \cup Manager!With("resuming"), flow.todo)
         /\ ReleaseRun => To("mark", flow.list, flow.todo)
         /\ QueueResume => To("ended", flow.list, flow.todo)
<1>0. /\ flow.list \in SUBSET Configs /\ {} \in SUBSET Configs /\ Kept \in {{}, flow.list}
      /\ flow.list \cup Manager!With("parked") \in SUBSET Configs
      /\ flow.list \cup Manager!With("resuming") \in SUBSET Configs
      /\ {"order", "collect", "ended", "withdraw", "collect2", "release", "mark"}
           \subseteq FlowPcs \ {"none"}
      /\ flow.pc \in {"publish", "order", "withdraw", "collect", "collect2", "release", "mark"} => ~flow.open
  BY DEF FlowOK, Flows, FlowPcs, Manager!With, Kept
<1>1. Publish => \/ To("order", flow.list, flow.todo) /\ intent' = flow.list /\ frozen' = frozen
                 \/ /\ \E list \in {{}, flow.list} : To("collect", list, flow.todo)
                    /\ intent' = intent /\ frozen' = FALSE /\ "fail" \in happens
  BY <1>0, FlowGo, FlowLists DEF Publish
<1>2. Order => \/ To("ended", flow.list, flow.todo) /\ Supervisor
                  /\ ordered' = IF ordered = "no" THEN "restart" ELSE ordered
               \/ To("withdraw", flow.list, flow.todo) /\ ordered' = ordered
                  /\ (~Supervisor \/ "fail" \in happens)
  BY <1>0, FlowGo DEF Order
<1>3. HandoverFailed => \E list \in {{}, flow.list} : To("collect", list, flow.todo)
  BY <1>0, FlowLists DEF HandoverFailed
<1>4. CollectParked => To("collect2", flow.list \cup Manager!With("parked"), flow.todo)
  BY <1>0, FlowLists DEF CollectParked
<1>5. CollectQueued => To("release", flow.list \cup Manager!With("resuming"), flow.todo)
  BY <1>0, FlowLists DEF CollectQueued
<1>6. ReleaseRun => To("mark", flow.list, flow.todo)
  BY <1>0, FlowGo DEF ReleaseRun
<1>7. QueueResume => To("ended", flow.list, flow.todo)
  BY <1>0, FlowGo DEF QueueResume
<1> QED
  BY <1>1, <1>2, <1>3, <1>4, <1>5, <1>6, <1>7

\* A flow begins, ends, or is interrupted; what else happens leaves it alone.
Begins(kind, pc, list) ==
    /\ FlowOK' /\ flow'.kind = kind /\ flow'.pc = pc /\ flow'.list = list /\ flow'.todo = {}
    /\ ~flow'.cancelled /\ ~flow'.scope
Record == IF intent = None THEN {} ELSE intent

LEMMA SlotSteps ==
  ASSUME FlowOK, intent \in (SUBSET Configs) \cup {None}
  PROVE  /\ \A kind \in Kinds : Request(kind) => Begins(kind, "start", {})
         /\ ReleaseSlot => Begins(None, "none", {})
         /\ Replace => Begins("startup", "read", Record)
<1>1. ASSUME NEW kind \in Kinds, Request(kind) PROVE Begins(kind, "start", {})
  <2>1. flow' = NewFlow(kind, "start", {}) /\ "start" \in FlowPcs \ {"none"} /\ {} \in SUBSET Configs
    BY <1>1 DEF Request, FlowPcs
  <2> QED
    BY <2>1, FlowStarts DEF Begins
<1>2. ReleaseSlot => Begins(None, "none", {})
  BY FlowEmpty, FlowAssumption DEF ReleaseSlot, Begins, FlowOK
<1>3. ASSUME Replace PROVE Begins("startup", "read", Record)
  <2>1. flow' = NewFlow("startup", "read", Record) /\ "read" \in FlowPcs \ {"none"}
        /\ Record \in SUBSET Configs
    <3>1. Record \in SUBSET Configs
      <4>1. CASE intent = None
        BY <4>1 DEF Record
      <4>2. CASE intent # None
        <5>1. Record = intent
          BY <4>2, Zenon DEF Record
        <5>2. intent \in SUBSET Configs
          BY <4>2, Zenon
        <5> QED
          BY <5>1, <5>2
      <4> QED
        BY <4>1, <4>2
    <3> QED
      BY <1>3, <3>1 DEF Replace, Startup, Record, FlowPcs
  <2> QED
    BY <2>1, FlowStarts DEF Begins
<1> QED
  BY <1>1, <1>2, <1>3

\* The flow is told to end where it is.
Told ==
    /\ FlowOK' /\ flow'.kind = flow.kind /\ flow'.pc = flow.pc /\ flow'.list = flow.list
    /\ flow'.todo = flow.todo
LEMMA TaskSteps ==
  ASSUME FlowOK
  PROVE  /\ Cancel => Told /\ flow'.cancelled /\ flow'.scope = flow.scope
         /\ \A how \in {"force", "shutdown"} : Down(how) =>
              flow' = flow \/ (Told /\ flow'.cancelled /\ flow'.scope = flow.scope)
         /\ \A t \in {"cancel", "down"} : CancelScope(t) =>
              IF task[t].live THEN Told /\ flow'.scope /\ flow'.cancelled = flow.cancelled
              ELSE flow' = flow
<1>1. ASSUME flow' = [flow EXCEPT !.cancelled = TRUE, !.open = FALSE]
      PROVE  Told /\ flow'.cancelled /\ flow'.scope = flow.scope
  BY <1>1 DEF Told, FlowOK, Flows
<1>2. ASSUME flow' = [flow EXCEPT !.scope = TRUE]
      PROVE  Told /\ flow'.scope /\ flow'.cancelled = flow.cancelled
  BY <1>2 DEF Told, FlowOK, Flows
<1> QED
  BY <1>1, <1>2 DEF Cancel, Down, Interrupt, CancelScope

\* The steps that leave the flow alone.
Aside ==
    \/ UNCHANGED vars
    \/ \E q \in Queues : QueueNext(q)
    \/ \E t \in {"cancel", "down"} : AbortWait(t)
    \/ DownNext
    \/ \E c \in Configs : UserStart(c) \/ UserStop(c) \/ UserKill(c) \/ WorkerCrash(c) \/ WorkerGone(c)

LEMMA AsideSteps == Aside => flow' = flow
  BY DEF Aside, vars, QueueNext, QueueRead, QueueScan, QueueStart, QueueDone, QueueNextConfig,
         DownNext, DownCancel, DownFreeze, DownWithdraw, DownOrder, AbortWait,
         UserStart, UserStop, UserKill, WorkerCrash, WorkerGone

\* The steps of a flow, by its phases.
Starts == OpenWindow \/ ReadIntent \/ RecallIntent \/ StartupWork \/ ReadQueued \/ AcquireLock
Stops ==
    \/ PreCheck \/ Begin \/ EnterWait \/ WaitOver \/ WaitAborted \/ WaitTimesOut \/ FreezeList
    \/ CloseWindow \/ Updated
    \/ \E c \in Configs : SendStop(c)
Ends ==
    \/ Publish \/ Order \/ HandoverFailed
    \/ CollectParked \/ CollectQueued \/ ReleaseRun \/ QueueResume
Slot == ReleaseSlot \/ Replace \/ \E kind \in Kinds : Request(kind)
Tells ==
    \/ Cancel \/ \E how \in {"force", "shutdown"} : Down(how)
    \/ \E t \in {"cancel", "down"} : CancelScope(t)
LEMMA NextSplits ==
  [Next]_vars => (Starts \/ Stops \/ Ends \/ Slot \/ Tells \/ Aside) /\ happens' = happens
  BY DEF Next, FlowNext, Starts, Stops, Ends, Slot, Tells, Aside, Constant, vars

\* Every step keeps the types of the flow and which flow may be where.
LEMMA FlowKept ==
  ASSUME FlowOK, OwnPcs, intent \in (SUBSET Configs) \cup {None}, [Next]_vars
  PROVE  FlowOK' /\ OwnPcs'
<1>1. happens' = happens
  BY NextSplits
<1>. USE DEF OwnPcs, Stopping, Updating, Handing, Converging
<1>2. CASE Starts
  <2>1. CASE StartupWork
    <3>1. \/ To("ended", flow.list, flow.todo) \/ To("collect", flow.list, flow.todo)
          \/ To("queued", flow.list, flow.todo) /\ Supervisor /\ "converge" \in happens
      BY <2>1, StartSteps
    <3>2. flow.pc = "work"
      BY <2>1 DEF StartupWork
    <3> QED
      BY <1>1, <3>1, <3>2 DEF To
  <2>2. CASE OpenWindow
    BY <1>1, <2>2, StartSteps DEF OpenWindow, To
  <2>3. CASE ReadIntent \/ RecallIntent \/ ReadQueued \/ AcquireLock
    BY <1>1, <2>3, StartSteps DEF ReadIntent, RecallIntent, ReadQueued, AcquireLock, To
  <2> QED
    BY <1>2, <2>1, <2>2, <2>3 DEF Starts
<1>3. CASE Stops
  <2>1. /\ flow.kind \in Kinds
        /\ \E pc \in {"collect", "publish", "begin", "writing", "updating"} \cup Stopping,
              list \in SUBSET Configs, todo \in SUBSET Configs : To(pc, list, todo)
    <3>1. /\ {} \in SUBSET Configs /\ flow.list \in SUBSET Configs /\ flow.todo \in SUBSET Configs
          /\ Manager!With("up") \in SUBSET Configs /\ Manager!With("parked") \in SUBSET Configs
          /\ \A c \in Configs : flow.todo \ {c} \in SUBSET Configs
      BY DEF FlowOK, Flows, Manager!With
    <3>2. flow.pc \in {"check", "begin"} \cup Stopping \cup Updating
      BY <1>3 DEF Stops, PreCheck, Begin, EnterWait, WaitOver, WaitAborted, WaitTimesOut,
                  FreezeList, CloseWindow, Updated, SendStop
    <3> QED
      BY <1>3, <3>1, <3>2, StopSteps DEF Stops, Out
  <2> QED
    BY <1>1, <2>1, FlowAssumption DEF To, Kinds
<1>4. CASE Ends
  <2>1. \/ \E pc \in {"order", "ended"} \cup WrappingUp, list \in SUBSET Configs :
             To(pc, list, flow.todo) /\ (pc = "order" => flow.pc = "publish")
        \/ To("withdraw", flow.list, flow.todo) /\ flow.pc = "order" /\ (~Supervisor \/ "fail" \in happens)
    <3>1. /\ {} \in SUBSET Configs /\ flow.list \in SUBSET Configs
          /\ flow.list \cup Manager!With("parked") \in SUBSET Configs
          /\ flow.list \cup Manager!With("resuming") \in SUBSET Configs
          /\ {"collect", "collect2", "release", "mark"} = WrappingUp
      BY DEF FlowOK, Flows, Manager!With, WrappingUp
    <3>2. CASE Publish
      <4>1. To("order", flow.list, flow.todo) \/ \E list \in {{}, flow.list} : To("collect", list, flow.todo)
        BY <3>2, EndSteps
      <4> QED
        BY <3>1, <3>2, <4>1 DEF Publish
    <3>3. CASE Order
      <4>1. \/ To("ended", flow.list, flow.todo)
            \/ To("withdraw", flow.list, flow.todo) /\ (~Supervisor \/ "fail" \in happens)
        BY <3>3, EndSteps
      <4> QED
        BY <3>1, <3>3, <4>1 DEF Order
    <3>4. CASE HandoverFailed
      <4>1. PICK list \in {{}, flow.list} : To("collect", list, flow.todo)
        BY <3>4, EndSteps
      <4> QED
        BY <3>1, <4>1
    <3>5. CASE CollectParked \/ CollectQueued
      <4>1. \E pc \in WrappingUp, list \in SUBSET Configs : To(pc, list, flow.todo)
        BY <3>1, <3>5, EndSteps
      <4>2. \A pc \in WrappingUp : pc # "order"
        BY DEF WrappingUp
      <4> QED
        BY <4>1, <4>2
    <3>6. CASE ReleaseRun \/ QueueResume
      <4>1. \E pc \in {"ended", "mark"} : To(pc, flow.list, flow.todo)
        BY <3>6, EndSteps
      <4>2. {"ended", "mark"} \subseteq {"order", "ended"} \cup WrappingUp
        BY DEF WrappingUp
      <4> QED
        BY <3>1, <4>1, <4>2
    <3> QED
      BY <1>4, <3>2, <3>3, <3>4, <3>5, <3>6 DEF Ends
  <2> QED
    BY <1>1, <2>1 DEF To, WrappingUp
<1>5. CASE Slot
  BY <1>1, <1>5, SlotSteps, FlowAssumption DEF Slot, Begins, Request, Kinds
<1>6. CASE Tells
  <2>1. Told \/ flow' = flow
    BY <1>6, TaskSteps DEF Tells
  <2> QED
    BY <1>1, <2>1 DEF Told, FlowOK
<1>7. CASE Aside
  BY <1>1, <1>7, AsideSteps DEF FlowOK
<1> QED
  BY <1>2, <1>3, <1>4, <1>5, <1>6, <1>7, NextSplits

\* Every step keeps the types of the rest.
LEMMA RestKept ==
  ASSUME TypeOK, [Next]_vars
  PROVE  RestOK'
<1>0. RestOK /\ flow \in Flows /\ \A s \in Manager!Statuses : Manager!With(s) \subseteq Configs
  BY DEF TypeOK, RestOK, Manager!With
<1>1. CASE Starts
  BY <1>0, <1>1 DEF Starts, OpenWindow, ReadIntent, RecallIntent, StartupWork, ReadQueued,
                    AcquireLock, RestOK, history
<1>2. CASE Stops
  BY <1>0, <1>2 DEF Stops, PreCheck, Begin, EnterWait, WaitOver, WaitAborted, WaitTimesOut,
                    FreezeList, CloseWindow, Updated, SendStop, Leave, RestOK, history
<1>3. CASE Publish \/ Order \/ HandoverFailed
  <2>1. flow.list \in SUBSET Configs
    BY <1>0 DEF Flows
  <2>2. intent' \in (SUBSET Configs) \cup {None}
    BY <1>0, <1>3, <2>1 DEF Publish, Order, HandoverFailed, RestOK
  <2> QED
    BY <1>0, <1>3, <2>2 DEF Publish, Order, HandoverFailed, RestOK, history
<1>4. CASE CollectParked \/ CollectQueued \/ ReleaseRun \/ QueueResume
  BY <1>0, <1>4 DEF CollectParked, CollectQueued, ReleaseRun, QueueResume, RestOK, history
<1>5. CASE \E kind \in Kinds : Request(kind)
  BY <1>0, <1>5 DEF Request, RestOK, history
<1>6. CASE ReleaseSlot
  <2>1. task' \in [{"cancel", "down"} -> Tasks]
    BY ZenonT(40), <1>0, <1>6 DEF ReleaseSlot, RestOK, Tasks
  <2>2. NewQueue("read", {}) \in QueueTasks /\ NewQueue("read", {}).config = None
        /\ NewQueue("read", {}).pc = "read"
    BY DEF NewQueue, QueueTasks
  <2>3. queue' = queue \/ \E q \in Queues : queue' = [queue EXCEPT ![q] = NewQueue("read", {})]
    BY <1>6 DEF ReleaseSlot
  <2>4. queue' \in [Queues -> QueueTasks] /\ \A q \in Queues : queue'[q].config # None <=> queue'[q].pc = "start"
    BY <1>0, <2>2, <2>3 DEF RestOK
  <2> QED
    BY <1>0, <1>6, <2>1, <2>4 DEF ReleaseSlot, RestOK, history
<1>7. CASE Replace
  <2>1. task' \in [{"cancel", "down"} -> Tasks]
    BY <1>7 DEF Replace, NoTasks, Tasks, Idle
  <2>2. queue' \in [Queues -> QueueTasks] /\ \A q \in Queues : queue'[q].config # None <=> queue'[q].pc = "start"
    BY <1>7 DEF Replace, NoQueues, NoQueue, NewQueue, QueueTasks
  <2> QED
    BY <1>0, <1>7, <2>1, <2>2 DEF Replace, RestOK, history
<1>8. CASE Cancel \/ \E how \in {"force", "shutdown"} : Down(how)
  <2>1. task' \in [{"cancel", "down"} -> Tasks]
    <3>1. \A how \in {"cancel", "force", "shutdown"} :
            /\ [pc |-> "abort", live |-> TRUE, how |-> how] \in Tasks
            /\ [pc |-> "cancel", live |-> FALSE, how |-> how] \in Tasks
      BY DEF Tasks
    <3>2. \E t \in {"cancel", "down"}, s \in Tasks : task' = [task EXCEPT ![t] = s]
      BY <1>8, <3>1 DEF Cancel, Down, Interrupt
    <3> QED
      BY <1>0, <3>2 DEF RestOK
  <2> QED
    BY <1>0, <1>8, <2>1 DEF Cancel, Down, RestOK, history
<1>9. CASE \E t \in {"cancel", "down"} : CancelScope(t) \/ AbortWait(t)
  <2>1. task' \in [{"cancel", "down"} -> Tasks]
    <3>1. PICK t \in {"cancel", "down"} : CancelScope(t) \/ AbortWait(t)
      BY <1>9
    <3>2. task[t] \in Tasks
      BY <1>0 DEF RestOK
    <3>3. /\ Idle("cancel") \in Tasks
          /\ [task[t] EXCEPT !.pc = "cancel"] \in Tasks /\ [task[t] EXCEPT !.pc = "scope"] \in Tasks
      BY <3>2 DEF Tasks, Idle
    <3>4. \E s \in Tasks : task' = [task EXCEPT ![t] = s]
      BY <3>1, <3>3 DEF CancelScope, AbortWait
    <3> QED
      BY <1>0, <3>4 DEF RestOK
  <2> QED
    BY <1>0, <1>9, <2>1 DEF CancelScope, AbortWait, RestOK, history
<1>10. CASE DownNext
  <2>1. task' \in [{"cancel", "down"} -> Tasks]
    BY <1>0, <1>10 DEF DownNext, DownCancel, DownFreeze, DownWithdraw, DownOrder, RestOK, Tasks
  <2> QED
    BY <1>0, <1>10, <2>1 DEF DownNext, DownCancel, DownFreeze, DownWithdraw, DownOrder, RestOK,
                             history
<1>11. ASSUME NEW q \in Queues, QueueNext(q) PROVE RestOK'
  <2>1. /\ Manager!With("resuming") \subseteq Configs /\ queue[q] \in QueueTasks
        /\ asked' \subseteq Configs
    BY <1>0, <1>11 DEF QueueNext, QueueRead, QueueScan, QueueStart, QueueDone, QueueNextConfig,
                       RestOK, history, Manager!With
  <2>2. NoQueue \in QueueTasks /\ NoQueue.config = None /\ NoQueue.pc = "none"
    BY DEF NoQueue, NewQueue, QueueTasks
  <2>3. \A pc \in {"scan", "loop"}, l \in SUBSET Configs :
          NewQueue(pc, l) \in QueueTasks /\ NewQueue(pc, l).config = None /\ NewQueue(pc, l).pc = pc
    BY DEF NewQueue, QueueTasks
  <2>4. \A c \in Configs, l \in SUBSET Configs : LET n == [pc |-> "start", list |-> l, config |-> c] IN
          n \in QueueTasks /\ n.config # None /\ n.pc = "start"
    BY FlowAssumption DEF QueueTasks
  <2>5. \E n \in QueueTasks : queue' = [queue EXCEPT ![q] = n] /\ (n.config # None <=> n.pc = "start")
    <3>1. queue[q].list \in SUBSET Configs
      BY <2>1 DEF QueueTasks
    <3>2. CASE QueueRead(q)
      BY <2>1, <2>2, <2>3, <3>2 DEF QueueRead
    <3>3. CASE QueueScan(q)
      BY <2>3, <3>1, <3>3 DEF QueueScan
    <3>4. CASE QueueStart(q)
      BY <2>3, <3>1, <3>4 DEF QueueStart
    <3>5. CASE QueueDone(q)
      BY <2>2, <3>5 DEF QueueDone
    <3>6. CASE \E c \in Configs : QueueNextConfig(q, c)
      <4>1. PICK c \in Configs : QueueNextConfig(q, c)
        BY <3>6
      <4>2. queue[q].list \ {c} \in SUBSET Configs
        BY <3>1
      <4>3. CASE Overtaken \/ ordered # "no"
        BY <2>2, <4>1, <4>3 DEF QueueNextConfig
      <4>4. CASE ~(Overtaken \/ ordered # "no")
        BY <2>4, <4>1, <4>2, <4>4 DEF QueueNextConfig
      <4> QED
        BY <4>3, <4>4
    <3> QED
      BY <1>11, <3>2, <3>3, <3>4, <3>5, <3>6 DEF QueueNext
  <2>6. queue' \in [Queues -> QueueTasks] /\ \A p \in Queues : queue'[p].config # None <=> queue'[p].pc = "start"
    BY <1>0, <2>5 DEF RestOK
  <2> QED
    BY <1>0, <1>11, <2>1, <2>6 DEF QueueNext, QueueRead, QueueScan, QueueStart, QueueDone,
                                   QueueNextConfig, RestOK, history
<1>12. CASE \E c \in Configs : UserStart(c) \/ UserStop(c) \/ UserKill(c) \/ WorkerCrash(c) \/ WorkerGone(c)
  BY <1>0, <1>12 DEF UserStart, UserStop, UserKill, WorkerCrash, WorkerGone, RestOK, history
<1>13. CASE UNCHANGED vars
  BY <1>0, <1>13 DEF vars, RestOK
<1> QED
  BY <1>1, <1>2, <1>3, <1>4, <1>5, <1>6, <1>7, <1>8, <1>9, <1>10, <1>11, <1>12, <1>13, NextSplits
  DEF Ends, Slot, Tells, Aside

LEMMA TypesSplit ==
  /\ TypeOK <=> FlowOK /\ RestOK /\ Manager!TypeOK
  /\ FlowOK' /\ RestOK' /\ MInv' => TypeOK'
  BY DEF TypeOK, FlowOK, RestOK, MInv, Manager!TypeOK, Manager!Statuses, Manager!NoRun
LEMMA ManagerTypes == MInv => Manager!TypeOK
  BY DEF MInv, Manager!TypeOK, Manager!Statuses, Manager!NoRun

LEMMA InitFInv == Init => FInv
<1> SUFFICES ASSUME Init PROVE FInv
  OBVIOUS
<1>1. MInv
  BY InitMInv DEF Init, MInv, Manager!Init, Manager!NoRun
<1>2. /\ flow \in Flows /\ flow.kind = "startup" /\ flow.pc = "read" /\ ~flow.open
  BY DEF Init, Startup, NewFlow, Flows, FlowPcs
<1>3. FlowOK /\ OwnPcs
  BY <1>2, FlowAssumption DEF FlowOK, OwnPcs, Kinds, Stopping, Updating, Handing, Converging
<1>4. RestOK
  BY DEF Init, RestOK, NoTasks, Tasks, Idle, NoQueues, NoQueue, NewQueue, QueueTasks
<1> QED
  BY <1>1, <1>3, <1>4, ManagerTypes, TypesSplit DEF FInv

LEMMA FInvKept == FInv /\ [Next]_vars => FInv'
<1> SUFFICES ASSUME FInv, [Next]_vars PROVE FInv'
  OBVIOUS
<1>1. MInv'
  BY ManagerKept, NextManagerStep DEF FInv
<1>2. FlowOK' /\ OwnPcs'
  BY FlowKept, TypesSplit DEF FInv, TypeOK
<1>3. RestOK'
  BY RestKept DEF FInv
<1> QED
  BY <1>1, <1>2, <1>3, TypesSplit DEF FInv

\* The types of the flow, the tasks and the queues, and of the manager below them.
THEOREM TypeCorrect == Spec => []TypeOK
<1>1. FInv => TypeOK
  BY DEF FInv
<1> QED
  BY <1>1, InitFInv, FInvKept, PTL DEF Spec

-----------------------------------------------------------------------------
(* What an interrupted flow publishes: nothing                             *)

\* A published file belongs to a flow that hands over, or to a process that was
\* told to end.
Published ==
    intent # None =>
        \/ flow.pc \in {"order", "withdraw"}
        \/ ordered # "no" /\ ("late" \in happens \/ flow.pc \in {"ended", "none"})

\* The flow that was interrupted by a task that has withdrawn the file.
NotPublishing ==
    Windowed /\ flow.cancelled /\ task["down"].pc \in {"order", "done"} =>
        flow.pc # "publish" /\ intent = None

IntInv ==
    /\ Published
    /\ {"late", "cancel"} \subseteq happens \/ NotPublishing

\* What is published changes only in the handover, by a withdrawal, and with the
\* process.
LEMMA IntentKept ==
  /\ Starts \/ Stops \/ Tells \/ (\E kind \in Kinds : Request(kind)) \/ ReleaseSlot
     \/ CollectParked \/ CollectQueued \/ ReleaseRun \/ QueueResume =>
       intent' = intent /\ ordered' = ordered
  /\ Aside => \/ DownWithdraw
              \/ intent' = intent /\ (ordered' = ordered \/ ordered' # "no")
<1>1. Starts \/ Stops => intent' = intent /\ ordered' = ordered
  BY DEF Starts, Stops, OpenWindow, ReadIntent, RecallIntent, StartupWork, ReadQueued,
         AcquireLock, PreCheck, Begin, EnterWait, WaitOver, WaitAborted, WaitTimesOut,
         FreezeList, CloseWindow, Updated, SendStop
<1>2. Tells \/ (\E kind \in Kinds : Request(kind)) \/ ReleaseSlot
      \/ CollectParked \/ CollectQueued \/ ReleaseRun \/ QueueResume =>
        intent' = intent /\ ordered' = ordered
  BY DEF Tells, Cancel, Down, CancelScope, Request, ReleaseSlot, CollectParked, CollectQueued,
         ReleaseRun, QueueResume
<1>3. Aside => \/ DownWithdraw
               \/ intent' = intent /\ (ordered' = ordered \/ ordered' # "no")
  BY DEF Aside, vars, QueueNext, QueueRead, QueueScan, QueueStart, QueueDone, QueueNextConfig,
         DownNext, DownCancel, DownFreeze, DownOrder, AbortWait,
         UserStart, UserStop, UserKill, WorkerCrash, WorkerGone
<1> QED
  BY <1>1, <1>2, <1>3

LEMMA PublishedKept ==
  ASSUME FInv, Published, [Next]_vars
  PROVE  Published'
<1>1. FlowOK /\ OwnPcs /\ happens' = happens /\ intent \in (SUBSET Configs) \cup {None}
  BY NextSplits, TypesSplit DEF FInv, RestOK
<1>. USE DEF Published
<1>2. CASE Starts
  <2>1. flow.pc \in {"start", "read", "recall", "work"} \cup Converging
    BY <1>2 DEF Starts, OpenWindow, ReadIntent, RecallIntent, StartupWork, ReadQueued,
                AcquireLock, Converging
  <2> QED
    BY <1>1, <1>2, <2>1, IntentKept DEF Converging
<1>3. CASE Stops
  <2>1. flow.pc \in {"check", "begin"} \cup Stopping \cup Updating
    BY <1>3 DEF Stops, PreCheck, Begin, EnterWait, WaitOver, WaitAborted, WaitTimesOut,
                FreezeList, CloseWindow, Updated, SendStop, Stopping, Updating
  <2> QED
    BY <1>1, <1>3, <2>1, IntentKept DEF Stopping, Updating
<1>4. CASE Publish
  BY <1>1, <1>4, EndSteps DEF Publish, To
<1>5. CASE Order
  BY <1>1, <1>5, EndSteps DEF Order, To
<1>6. CASE HandoverFailed
  BY <1>6 DEF HandoverFailed
<1>7. CASE CollectParked \/ CollectQueued \/ ReleaseRun \/ QueueResume
  BY <1>1, <1>7, IntentKept DEF CollectParked, CollectQueued, ReleaseRun, QueueResume
<1>8. CASE \E kind \in Kinds : Request(kind)
  BY <1>1, <1>8, IntentKept, FlowAssumption DEF Request, FlowOK
<1>9. CASE ReleaseSlot
  BY <1>1, <1>9, IntentKept, SlotSteps DEF ReleaseSlot, Begins
<1>10. CASE Replace
  BY <1>10 DEF Replace
<1>11. CASE Tells
  <2>1. flow'.pc = flow.pc
    BY <1>1, <1>11, TaskSteps DEF Tells, Told
  <2> QED
    BY <1>1, <1>11, <2>1, IntentKept
<1>12. CASE Aside
  BY <1>1, <1>12, AsideSteps, IntentKept DEF DownWithdraw
<1> QED
  BY <1>2, <1>3, <1>4, <1>5, <1>6, <1>7, <1>8, <1>9, <1>10, <1>11, <1>12, NextSplits 
     DEF Ends, Slot

LEMMA NotPublishingKept ==
  ASSUME FInv, Published, NotPublishing, [Next]_vars, ~({"late", "cancel"} \subseteq happens)
  PROVE  NotPublishing'
<1>1. /\ FlowOK /\ OwnPcs /\ intent \in (SUBSET Configs) \cup {None}
      /\ task \in [{"cancel", "down"} -> Tasks]
  BY TypesSplit DEF FInv, RestOK
<1>. USE DEF NotPublishing, Windowed
<1>2. CASE Starts
  <2>1. task' = task /\ intent' = intent
    BY <1>2, IntentKept DEF Starts, OpenWindow, ReadIntent, RecallIntent, StartupWork,
                            ReadQueued, AcquireLock
  <2>2. /\ flow'.kind = flow.kind /\ flow'.cancelled = flow.cancelled
        /\ flow'.pc = "publish" => flow.kind = "startup"
    BY <1>1, <1>2, StartSteps DEF Starts, To, AcquireLock, OwnPcs, Converging
  <2> QED
    BY <2>1, <2>2
<1>3. CASE Stops
  <2>1. task' = task /\ intent' = intent
    BY <1>3, IntentKept DEF Stops, PreCheck, Begin, EnterWait, WaitOver, WaitAborted,
                            WaitTimesOut, FreezeList, CloseWindow, Updated, SendStop
  <2>2. /\ flow'.kind = flow.kind /\ flow'.cancelled = flow.cancelled
        /\ flow'.pc = "publish" => ~(Windowed /\ flow.cancelled)
    BY <1>1, <1>3, StopSteps DEF Stops, To, Out
  <2> QED
    BY <2>1, <2>2
<1>4. CASE Publish
  <2>1. flow'.kind = flow.kind /\ flow'.cancelled = flow.cancelled /\ task' = task /\ flow.pc = "publish"
    BY <1>1, <1>4, EndSteps DEF Publish, To
  <2> QED
    BY <2>1
<1>5. CASE Order \/ HandoverFailed
  <2>1. /\ flow'.kind = flow.kind /\ flow'.cancelled = flow.cancelled /\ task' = task
        /\ flow'.pc # "publish" /\ (intent' = intent \/ intent' = None)
    BY <1>1, <1>5, EndSteps DEF Order, HandoverFailed, To
  <2> QED
    BY <2>1
<1>6. CASE CollectParked \/ CollectQueued \/ ReleaseRun \/ QueueResume
  <2>1. /\ flow'.kind = flow.kind /\ flow'.cancelled = flow.cancelled /\ task' = task
        /\ flow'.pc # "publish" /\ intent' = intent
    BY <1>1, <1>6, EndSteps DEF CollectParked, CollectQueued, ReleaseRun, QueueResume, To
  <2> QED
    BY <2>1
<1>7. CASE Slot
  <2>1. ~flow'.cancelled
    BY <1>1, <1>7, SlotSteps DEF Slot, Begins
  <2> QED
    BY <2>1
<1>8. CASE Cancel
  <2>1. flow'.pc = flow.pc /\ flow.open /\ "cancel" \in happens /\ intent' = intent
    BY <1>1, <1>8, TaskSteps DEF Told, Cancel
  <2>2. flow.pc \notin {"publish", "order", "withdraw", "ended", "none"}
    BY <1>1, <2>1 DEF FlowOK
  <2> QED
    BY <2>1, <2>2 DEF Published
<1>9. CASE \E how \in {"force", "shutdown"} : Down(how)
  <2>1. task'["down"].pc \in {"abort", "cancel"}
    BY <1>1, <1>9 DEF Down, Interrupt
  <2> QED
    BY <2>1
<1>10. CASE CancelScope("cancel")
  <2>1. /\ flow'.pc = flow.pc /\ flow'.kind = flow.kind /\ flow'.cancelled = flow.cancelled
        /\ intent' = intent /\ task'["down"] = task["down"]
    BY <1>1, <1>10, TaskSteps DEF Told, CancelScope
  <2> QED
    BY <2>1
<1>11. CASE CancelScope("down")
  <2>1. task'["down"].pc = "cancel"
    BY <1>1, <1>11 DEF CancelScope, Tasks
  <2> QED
    BY <2>1
<1>12. CASE DownNext
  <2>1. flow' = flow
    BY <1>12, AsideSteps DEF Aside
  <2>2. \/ intent' = None /\ flow.pc # "publish"
        \/ intent' = intent /\ task["down"].pc = "order"
        \/ task'["down"].pc \in {"freeze", "withdraw"}
    BY <1>1, <1>12 DEF DownNext, DownCancel, DownFreeze, DownWithdraw, DownOrder, Tasks
  <2> QED
    BY <2>1, <2>2
<1>13. CASE \E t \in {"cancel", "down"} : AbortWait(t)
  <2>1. flow' = flow /\ intent' = intent
    BY <1>13, AsideSteps DEF Aside, AbortWait
  <2>2. task'["down"].pc = task["down"].pc \/ task'["down"].pc = "scope"
    BY <1>1, <1>13 DEF AbortWait, Tasks
  <2> QED
    BY <2>1, <2>2
<1>14. CASE \/ UNCHANGED vars \/ \E q \in Queues : QueueNext(q)
            \/ \E c \in Configs : UserStart(c) \/ UserStop(c) \/ UserKill(c) \/ WorkerCrash(c) \/ WorkerGone(c)
  <2>1. flow' = flow /\ intent' = intent /\ task' = task
    BY <1>14 DEF vars, QueueNext, QueueRead, QueueScan, QueueStart, QueueDone, QueueNextConfig,
                 UserStart, UserStop, UserKill, WorkerCrash, WorkerGone
  <2> QED
    BY <2>1
<1> QED
  BY <1>2, <1>3, <1>4, <1>5, <1>6, <1>7, <1>8, <1>9, <1>10, <1>11, <1>12, <1>13, <1>14, NextSplits
  DEF Ends, Tells, Aside

\* A flow that a forced restart or a stop of the backend interrupts does not
\* publish the resume file once it is withdrawn, unless a user may cancel a flow
\* that was requested after the process was told to end: the cancelled flow finds
\* the file of the one before.
THEOREM InterruptedStaysQuiet ==
  Spec => []({"late", "cancel"} \subseteq happens \/ InterruptedPublishesNothing)
<1>. DEFINE Inv == FInv /\ IntInv
<1>1. Init => Inv
  BY InitFInv DEF Init, IntInv, Published, NotPublishing, Windowed, Startup, NewFlow
<1>2. Inv /\ [Next]_vars => Inv'
  <2>1. [Next]_vars => happens' = happens
    BY NextSplits
  <2>2. FInv /\ IntInv /\ [Next]_vars => IntInv'
    BY <2>1, PublishedKept, NotPublishingKept DEF IntInv
  <2> QED
    BY <2>2, FInvKept
<1>3. Inv => {"late", "cancel"} \subseteq happens \/ InterruptedPublishesNothing
  BY DEF IntInv, NotPublishing, InterruptedPublishesNothing, WithdrawnForGood
<1> QED
  BY <1>1, <1>2, <1>3, PTL DEF Spec

-----------------------------------------------------------------------------
(* Behaviours in which no flow is interrupted                              *)

Calm == happens \cap {"cancel", "force", "shutdown"} = {}

\* Nothing interrupts the flow or aborts the wait.
Undisturbed ==
    /\ task["cancel"].pc = "none" /\ task["down"].pc = "none"
    /\ ~flow.cancelled /\ ~flow.scope /\ ~(run.inflight /\ run.abort)

\* Who has a graceful restart in flight, and what is published of it: the flow
\* that stops the workers, hands over or gives back, until the process ends.
InFlight ==
    /\ run.inflight => run.frozen \/ flow.pc \in Stopping
    /\ flow.pc \in Stopping => run.inflight /\ ~run.frozen
    /\ flow.pc \in Updating \/ (flow.pc \in Handing /\ flow.kind # "startup") =>
         run.frozen /\ flow.list = run.list
    /\ flow.pc = "order" => intent = flow.list
    /\ "late" \notin happens /\ ordered # "no" => flow.pc \in {"ended", "none"}
    /\ "late" \notin happens /\ run.inflight =>
         flow.pc \in Stopping \cup Updating \cup Handing \cup WrappingUp \/ ordered # "no"

\* Under the startup flow nothing runs yet, and a startup that hands over has
\* everything that is queued in its list.
StartsUp ==
    flow.kind = "startup" =>
        /\ \A c \in Configs : status[c] \in {"idle", "resuming"}
        /\ \A q \in Queues : queue[q].pc = "none"
        /\ ~run.inflight
        /\ flow.pc \in {"acquire"} \cup Handing => Manager!With("resuming") \subseteq flow.list
        /\ flow.pc \in Converging \cup Handing => frozen

CInv == Undisturbed /\ InFlight /\ StartsUp

\* What happens beside the flow when nothing interrupts it.
QuietAside ==
    \/ UNCHANGED vars
    \/ \E q \in Queues : QueueNext(q)
    \/ \E c \in Configs : UserStart(c) \/ UserStop(c) \/ UserKill(c) \/ WorkerCrash(c) \/ WorkerGone(c)

LEMMA CalmSplits ==
  ASSUME Calm, task["cancel"].pc = "none", task["down"].pc = "none", [Next]_vars
  PROVE  (Starts \/ Stops \/ Ends \/ Slot \/ QuietAside) /\ happens' = happens
<1>1. ~Cancel /\ (\A how \in {"force", "shutdown"} : ~Down(how))
  BY DEF Calm, Cancel, Down
<1>2. /\ \A t \in {"cancel", "down"} : ~CancelScope(t) /\ ~AbortWait(t)
      /\ ~DownNext
  BY DEF CancelScope, AbortWait, DownNext, DownCancel, DownFreeze, DownWithdraw, DownOrder
<1> QED
  BY <1>1, <1>2, NextSplits DEF Tells, Aside, QuietAside

\* Only four steps touch the restart in flight.
LEMMA RunKept ==
  /\ Starts => run' = run
  /\ Stops => run' = run \/ Begin \/ FreezeList
  /\ Ends => run' = run \/ ReleaseRun
  /\ Slot => run' = run \/ Replace
  /\ QuietAside => run' = run
<1>1. Starts => run' = run
  BY DEF Starts, OpenWindow, ReadIntent, RecallIntent, StartupWork, ReadQueued, AcquireLock,
         manager, Manager!MarkResume
<1>2. Stops => run' = run \/ Begin \/ FreezeList
  BY DEF Stops, PreCheck, EnterWait, WaitOver, WaitAborted, WaitTimesOut, CloseWindow, Updated,
         SendStop, manager, Manager!Stop, Manager!CancelResume, Manager!Move
<1>3. Ends => run' = run \/ ReleaseRun
  BY DEF Ends, Publish, Order, HandoverFailed, CollectParked, CollectQueued, QueueResume,
         manager, Manager!MarkResume
<1>4. Slot => run' = run \/ Replace
  BY DEF Slot, ReleaseSlot, Request, manager
<1>5. QuietAside => run' = run
  <2>1. (\E q \in Queues : QueueNext(q)) => run' = run
    BY DEF QueueNext, QueueRead, QueueScan, QueueStart, QueueDone, QueueNextConfig, manager,
           Manager!DropResume, Manager!Resume, Manager!Move
  <2>2. (\E c \in Configs : UserStart(c) \/ UserStop(c) \/ UserKill(c) \/ WorkerCrash(c) \/ WorkerGone(c))
          => run' = run
    BY DEF UserStart, UserStop, UserKill, WorkerCrash, WorkerGone, Manager!Start,
           Manager!QueueStart, Manager!Stop, Manager!CancelResume, Manager!GiveUp,
           Manager!Ended, Manager!Move
  <2> QED
    BY <2>1, <2>2 DEF QuietAside, vars
<1> QED
  BY <1>1, <1>2, <1>3, <1>4, <1>5

LEMMA QuietKept ==
  QuietAside => /\ flow' = flow /\ task' = task /\ intent' = intent /\ ordered' = ordered
                /\ frozen' = frozen
  BY DEF QuietAside, vars, QueueNext, QueueRead, QueueScan, QueueStart, QueueDone,
         QueueNextConfig, UserStart, UserStop, UserKill, WorkerCrash, WorkerGone

\* Every step keeps the flow undisturbed.
LEMMA UndisturbedKept ==
  ASSUME FInv, Calm, Undisturbed, [Next]_vars
  PROVE  Undisturbed'
<1>1. /\ FlowOK /\ OwnPcs /\ intent \in (SUBSET Configs) \cup {None}
      /\ task \in [{"cancel", "down"} -> Tasks]
  BY TypesSplit DEF FInv, RestOK
<1>2. run \in [inflight : BOOLEAN, abort : BOOLEAN, frozen : BOOLEAN, list : SUBSET Configs]
  BY DEF FInv, TypeOK, Manager!TypeOK
<1>3. ~(run'.inflight /\ run'.abort)
  <2>1. run' = run \/ Begin \/ FreezeList \/ ReleaseRun \/ Replace
    BY CalmSplits, RunKept DEF Undisturbed
  <2>2. Begin => run' = run \/ run' = Manager!NewRun
    BY DEF Begin, manager, Manager!RestartBegin
  <2>3. FreezeList => ~(run'.inflight /\ run'.abort)
    BY <1>2 DEF Undisturbed, FreezeList, manager, Manager!Freeze
  <2>4. ReleaseRun \/ Replace => run' = Manager!NoRun
    BY DEF ReleaseRun, Replace, Manager!RestartCancel
  <2> QED
    BY <2>1, <2>2, <2>3, <2>4 DEF Undisturbed, Manager!NewRun, Manager!NoRun
<1>4. task'["cancel"].pc = "none" /\ task'["down"].pc = "none"
  <2>1. task' = task \/ ReleaseSlot \/ Replace
    BY CalmSplits, QuietKept DEF Undisturbed, Starts, OpenWindow, ReadIntent, RecallIntent,
                                 StartupWork, ReadQueued, AcquireLock, Stops, PreCheck, Begin,
                                 EnterWait, WaitOver, WaitAborted, WaitTimesOut, FreezeList,
                                 CloseWindow, Updated, SendStop, Ends, Publish, Order,
                                 HandoverFailed, CollectParked, CollectQueued, ReleaseRun,
                                 QueueResume, Slot, Request
  <2>2. ReleaseSlot => \A t \in {"cancel", "down"} : task'[t].pc = task[t].pc
    BY <1>1 DEF ReleaseSlot, Tasks
  <2>3. Replace => \A t \in {"cancel", "down"} : task'[t].pc = "none"
    BY DEF Replace, NoTasks, Idle
  <2> QED
    BY <2>1, <2>2, <2>3 DEF Undisturbed
<1>5. ~flow'.cancelled /\ ~flow'.scope
  <2>1. CASE Starts \/ Stops \/ Ends
    <3>1. flow'.cancelled = flow.cancelled /\ flow'.scope = flow.scope
      BY <1>1, <2>1, StartSteps, StopSteps, EndSteps DEF Starts, Stops, Ends, To, Out
    <3> QED
      BY <3>1 DEF Undisturbed
  <2>2. CASE Slot
    BY <1>1, <2>2, SlotSteps DEF Slot, Begins
  <2>3. CASE QuietAside
    BY <2>3, QuietKept DEF Undisturbed
  <2> QED
    BY <2>1, <2>2, <2>3, CalmSplits DEF Undisturbed
<1> QED
  BY <1>3, <1>4, <1>5 DEF Undisturbed

\* Every step keeps who has the restart in flight.
LEMMA InFlightKept ==
  ASSUME FInv, Calm, Undisturbed, InFlight, [Next]_vars
  PROVE  InFlight'
<1>1. /\ FlowOK /\ OwnPcs /\ intent \in (SUBSET Configs) \cup {None}
      /\ happens' = happens /\ ~Interrupted
      /\ run \in [inflight : BOOLEAN, abort : BOOLEAN, frozen : BOOLEAN, list : SUBSET Configs]
  BY TypesSplit, NextSplits DEF FInv, RestOK, TypeOK, Manager!TypeOK, Undisturbed, Interrupted
<1>. USE DEF InFlight, Stopping, Updating, Handing, WrappingUp
<1>2. CASE Starts
  <2>1. run' = run /\ intent' = intent /\ ordered' = ordered
    BY <1>2, RunKept, IntentKept
  <2>2. /\ flow.pc \in {"start", "read", "recall", "work", "queued", "acquire"}
        /\ flow'.pc \in {"check", "begin", "recall", "work", "ended", "collect", "queued", "acquire", "publish"}
        /\ flow'.pc = "publish" => flow'.kind = "startup"
    <3>1. CASE OpenWindow
      BY <1>1, <3>1, StartSteps DEF OpenWindow, To
    <3>2. CASE StartupWork
      BY <1>1, <3>2, StartSteps DEF StartupWork, To
    <3>3. CASE ReadIntent \/ RecallIntent \/ ReadQueued \/ AcquireLock
      BY <1>1, <3>3, StartSteps DEF ReadIntent, RecallIntent, ReadQueued, AcquireLock, To,
                                    OwnPcs, Converging
    <3> QED
      BY <1>2, <3>1, <3>2, <3>3 DEF Starts
  <2> QED
    BY <1>1, <2>1, <2>2
<1>3. CASE Stops
  <2>0. intent' = intent /\ ordered' = ordered
    BY <1>3, IntentKept
  <2>1. CASE Begin
    <3>1. CASE run.inflight
      <4>1. run' = run /\ flow'.pc = "collect" /\ flow.pc = "begin"
        BY <1>1, <2>1, <3>1, StopSteps DEF Begin, Out, To, manager
      <4> QED
        BY <1>1, <2>0, <4>1
    <3>2. CASE ~run.inflight
      <4>1. run' = Manager!NewRun /\ flow'.pc = "sending" /\ flow.pc = "begin"
        BY <1>1, <2>1, <3>2, StopSteps DEF Begin, Out, To, Manager!RestartBegin
      <4>2. run'.inflight /\ ~run'.frozen
        BY <4>1 DEF Manager!NewRun
      <4> QED
        BY <1>1, <2>0, <4>1, <4>2
    <3> QED
      BY <3>1, <3>2
  <2>2. CASE FreezeList
    <3>1. ~run.abort /\ flow.pc = "freezing"
      BY <2>2 DEF FreezeList, Undisturbed
    <3>2. /\ flow'.pc = "updating" /\ flow'.list = Manager!With("parked")
          /\ run' = [run EXCEPT !.frozen = TRUE, !.list = Manager!With("parked")]
      BY <1>1, <2>2, <3>1, StopSteps DEF FreezeList, Manager!Freeze, To
    <3> HIDE DEF Manager!With
    <3>3. run'.inflight = run.inflight /\ run'.frozen /\ run'.list = Manager!With("parked")
      BY <1>1, <3>2
    <3> QED
      BY <1>1, <2>0, <3>1, <3>2, <3>3
  <2>3. CASE EnterWait \/ (\E c \in Configs : SendStop(c))
    <3>1. run' = run /\ flow.pc = "sending" /\ flow'.pc \in {"sending", "waiting"}
      BY <1>1, <2>3, StopSteps, RunKept DEF Stops, EnterWait, Begin, FreezeList, SendStop, To
    <3> QED
      BY <1>1, <2>0, <3>1
  <2>4. CASE WaitOver \/ WaitTimesOut
    <3>1. run' = run /\ flow.pc \in Stopping /\ flow'.pc \in {"freezing", "draining"}
      BY <1>1, <2>4, StopSteps, RunKept DEF Stops, WaitOver, WaitTimesOut, Begin, FreezeList,
                                            To, manager
    <3> QED
      BY <1>1, <2>0, <3>1
  <2>5. CASE WaitAborted
    BY <2>5 DEF WaitAborted, Undisturbed
  <2>6. CASE PreCheck
    <3>1. run' = run /\ flow.pc = "check" /\ flow'.pc \in {"begin", "collect"}
      BY <1>1, <2>6, StopSteps DEF PreCheck, To, Out, manager
    <3> QED
      BY <1>1, <2>0, <3>1
  <2>7. CASE CloseWindow \/ Updated
    <3>1. /\ run' = run /\ flow.pc \in Updating /\ flow'.pc \in {"writing", "publish", "collect"}
          /\ flow'.list = flow.list
      BY <1>1, <2>7, StopSteps DEF CloseWindow, Updated, To, Out, manager
    <3> QED
      BY <1>1, <2>0, <3>1
  <2> QED
    BY <1>3, <2>1, <2>2, <2>3, <2>4, <2>5, <2>6, <2>7 DEF Stops
<1>4. CASE Publish
  <2>1. /\ run' = run /\ ordered' = ordered /\ flow.pc = "publish" /\ flow'.kind = flow.kind
        /\ \/ flow'.pc = "order" /\ flow'.list = flow.list /\ intent' = flow.list
           \/ flow'.pc = "collect"
    BY <1>1, <1>4, EndSteps DEF Publish, To, manager
  <2> QED
    BY <1>1, <2>1
<1>5. CASE Order
  <2>1. /\ run' = run /\ intent' = intent /\ flow.pc = "order" /\ flow'.kind = flow.kind
        /\ flow'.list = flow.list
        /\ \/ flow'.pc = "ended" /\ ordered' # "no"
           \/ flow'.pc = "withdraw" /\ ordered' = ordered
    BY <1>1, <1>5, EndSteps DEF Order, To, manager
  <2> QED
    BY <1>1, <2>1
<1>6. CASE HandoverFailed
  <2>1. run' = run /\ ordered' = ordered /\ flow.pc = "withdraw" /\ flow'.pc = "collect"
    BY <1>1, <1>6, EndSteps DEF HandoverFailed, To, manager
  <2> QED
    BY <1>1, <2>1
<1>7. CASE CollectParked \/ CollectQueued
  <2>1. /\ run' = run /\ ordered' = ordered /\ flow.pc \in {"collect", "collect2"}
        /\ flow'.pc \in {"collect2", "release"}
    BY <1>1, <1>7, EndSteps DEF CollectParked, CollectQueued, To, manager
  <2> QED
    BY <1>1, <2>1
<1>8. CASE ReleaseRun \/ QueueResume
  <2>1. /\ ~run'.inflight /\ ordered' = ordered /\ flow.pc \in {"release", "mark"}
        /\ flow'.pc \in {"mark", "ended"}
    BY <1>1, <1>8, EndSteps DEF ReleaseRun, QueueResume, To, Manager!RestartCancel,
                                Manager!MarkResume, Manager!NoRun
  <2> QED
    BY <1>1, <2>1
<1>9. CASE \E kind \in Kinds : Request(kind)
  <2>1. /\ run' = run /\ ordered' = ordered /\ flow.pc = "none" /\ flow'.pc = "start"
        /\ ordered = "no" \/ "late" \in happens
    BY <1>1, <1>9, SlotSteps DEF Request, FlowOK, Begins, manager
  <2> QED
    BY <1>1, <2>1
<1>10. CASE ReleaseSlot
  <2>1. run' = run /\ ordered' = ordered /\ flow.pc = "ended" /\ flow'.pc = "none"
    BY <1>1, <1>10, SlotSteps DEF ReleaseSlot, Begins, manager
  <2> QED
    BY <1>1, <2>1
<1>11. CASE Replace
  <2>1. ~run'.inflight /\ ordered' = "no" /\ flow'.pc = "read"
    BY <1>1, <1>11, SlotSteps DEF Replace, Begins, Manager!NoRun
  <2> QED
    BY <1>1, <2>1
<1>12. CASE QuietAside
  BY <1>1, <1>12, QuietKept, RunKept
<1> QED
  BY <1>2, <1>3, <1>4, <1>5, <1>6, <1>7, <1>8, <1>9, <1>10, <1>11, <1>12, CalmSplits
  DEF Ends, Slot, Undisturbed

\* Every step keeps what holds under the startup flow.
LEMMA StartsUpKept ==
  ASSUME FInv, Calm, Undisturbed, StartsUp, [Next]_vars
  PROVE  StartsUp'
<1>1. /\ FlowOK /\ OwnPcs /\ intent \in (SUBSET Configs) \cup {None}
      /\ status \in [Configs -> Manager!Statuses]
  BY TypesSplit DEF FInv, RestOK, TypeOK, Manager!TypeOK
<1>. USE DEF StartsUp, Handing, Converging
<1>2. CASE Starts
  <2>1. CASE StartupWork
    <3>1. /\ flow'.kind = flow.kind /\ status' = status /\ run' = run /\ queue' = queue
          /\ flow'.pc \in {"ended", "collect", "queued"} /\ (flow'.pc = "queued" => frozen')
      BY <1>1, <2>1, StartSteps DEF StartupWork, To, manager
    <3> QED
      BY <3>1
  <2>2. CASE OpenWindow \/ ReadIntent
    <3>1. /\ flow'.kind = flow.kind /\ status' = status /\ run' = run /\ queue' = queue
          /\ flow'.pc \in {"check", "begin", "recall"}
      BY <1>1, <2>2, StartSteps DEF OpenWindow, ReadIntent, To, manager
    <3> QED
      BY <3>1
  <2>3. CASE RecallIntent
    <3>1. /\ flow'.kind = flow.kind /\ run' = run /\ queue' = queue /\ flow'.pc = "work"
          /\ \A c \in Configs : status'[c] = status[c] \/ status'[c] = "resuming"
      BY <1>1, <2>3, StartSteps DEF RecallIntent, To, Manager!MarkResume
    <3> QED
      BY <3>1
  <2>4. CASE ReadQueued
    <3>1. /\ flow'.kind = flow.kind /\ status' = status /\ run' = run /\ queue' = queue
          /\ flow'.pc = "acquire" /\ flow'.list = Manager!With("resuming") /\ flow.pc = "queued"
          /\ frozen' = frozen
      BY <1>1, <2>4, StartSteps DEF ReadQueued, To, manager
    <3>2. Manager!With("resuming")' = Manager!With("resuming")
      BY <3>1 DEF Manager!With
    <3> QED
      BY <3>1, <3>2
  <2>5. CASE AcquireLock
    <3>1. /\ flow'.kind = flow.kind /\ status' = status /\ run' = run /\ queue' = queue
          /\ flow'.pc = "publish" /\ flow'.list = flow.list /\ flow.pc = "acquire" /\ frozen' = frozen
      BY <1>1, <2>5, StartSteps DEF AcquireLock, To, manager
    <3>2. Manager!With("resuming")' = Manager!With("resuming")
      BY <3>1 DEF Manager!With
    <3> QED
      BY <3>1, <3>2
  <2> QED
    BY <1>2, <2>1, <2>2, <2>3, <2>4, <2>5 DEF Starts
<1>3. CASE Stops
  <2>1. flow'.kind = flow.kind
    BY <1>1, <1>3, StopSteps DEF Stops, To, Out
  <2>2. flow.pc \in {"check", "begin"} \cup Stopping \cup Updating
    BY <1>3 DEF Stops, PreCheck, Begin, EnterWait, WaitOver, WaitAborted, WaitTimesOut,
                FreezeList, CloseWindow, Updated, SendStop, Stopping, Updating
  <2> QED
    BY <1>1, <2>1, <2>2 DEF OwnPcs, Kinds
<1>4. CASE Publish \/ Order \/ HandoverFailed \/ CollectParked \/ CollectQueued
  <2>1. /\ flow'.kind = flow.kind /\ status' = status /\ run' = run /\ queue' = queue
        /\ \/ flow'.pc \notin {"acquire"} \cup Converging \cup Handing
           \/ flow.pc \in Handing /\ flow'.list = flow.list /\ frozen' = frozen
    BY <1>1, <1>4, EndSteps DEF Publish, Order, HandoverFailed, CollectParked, CollectQueued,
                                To, manager
  <2>2. Manager!With("resuming")' = Manager!With("resuming")
    BY <2>1 DEF Manager!With
  <2> QED
    BY <2>1, <2>2
<1>5. CASE ReleaseRun \/ QueueResume
  <2>1. /\ flow'.kind = flow.kind /\ queue' = queue /\ flow'.pc \in {"mark", "ended"} /\ ~run'.inflight
        /\ \A c \in Configs : status'[c] = status[c] \/ status'[c] \in {"idle", "resuming"}
    BY <1>1, <1>5, EndSteps DEF ReleaseRun, QueueResume, To, Manager!RestartCancel,
                                Manager!MarkResume, Manager!NoRun
  <2> QED
    BY <2>1
<1>6. CASE ReleaseSlot \/ \E kind \in Kinds : Request(kind)
  BY <1>1, <1>6, SlotSteps, FlowAssumption DEF Begins, Kinds
<1>7. CASE Replace
  <2>1. flow'.pc = "read"
    BY <1>1, <1>7, SlotSteps DEF Begins
  <2> QED
    BY <1>7, <2>1 DEF Replace, NoQueues, NoQueue, NewQueue, Manager!NoRun
<1>8. ASSUME QuietAside, flow.kind = "startup"
      PROVE  StartsUp'
  <2>1. flow' = flow /\ run' = run /\ frozen' = frozen
    BY <1>8, QuietKept, RunKept
  <2>2. \A q \in Queues : ~QueueNext(q)
    BY <1>8 DEF QueueNext, QueueRead, QueueScan, QueueStart, QueueDone, QueueNextConfig
  <2>3. queue' = queue
    BY <1>8, <2>2 DEF QuietAside, vars, UserStart, UserStop, UserKill, WorkerCrash, WorkerGone
  <2>4. \A c \in Configs : /\ ~(status[c] = "up") /\ ~(status[c] = "ending")
                           /\ ~Manager!Stop(c) /\ ~Manager!GiveUp(c) /\ ~Manager!Ended(c)
    BY <1>8 DEF Manager!Stop, Manager!GiveUp, Manager!Ended
  <2>5. \A c \in Configs : status'[c] = status[c] \/ status'[c] = "idle"
                           \/ (status'[c] = "resuming" /\ ~frozen)
    <3>1. CASE UNCHANGED vars
      BY <3>1 DEF vars
    <3>2. ASSUME NEW c \in Configs, UserStart(c)
          PROVE  \A d \in Configs : status'[d] = status[d] \/ (status'[d] = "resuming" /\ ~frozen)
      BY <1>1, <1>8, <3>2, FlowAssumption DEF UserStart, Manager!QueueStart, Manager!Move
    <3>3. ASSUME NEW c \in Configs, UserStop(c) \/ UserKill(c) \/ WorkerCrash(c) \/ WorkerGone(c)
          PROVE  \A d \in Configs : status'[d] = status[d] \/ status'[d] = "idle"
      BY <1>1, <2>4, <3>3 DEF UserStop, UserKill, WorkerCrash, WorkerGone, Manager!CancelResume,
                              Manager!Move
    <3> QED
      BY <1>8, <2>2, <3>1, <3>2, <3>3 DEF QuietAside
  <2>6. frozen => Manager!With("resuming")' \subseteq Manager!With("resuming")
    BY <2>5 DEF Manager!With
  <2> QED
    BY <1>8, <2>1, <2>3, <2>5, <2>6
<1>9. CASE QuietAside
  BY <1>8, <1>9, QuietKept
<1> QED
  BY <1>2, <1>3, <1>4, <1>5, <1>6, <1>7, <1>9, CalmSplits DEF Ends, Slot, Undisturbed

LEMMA CInvKept ==
  /\ Init => CInv
  /\ FInv /\ Calm /\ CInv /\ [Next]_vars => CInv'
<1>1. Init => CInv
  BY DEF Init, CInv, Undisturbed, InFlight, StartsUp, Manager!Init, Manager!NoRun, Startup,
         NewFlow, NoTasks, Idle, NoQueues, NoQueue, NewQueue, Stopping, Updating, Handing,
         WrappingUp, Converging
<1> QED
  BY <1>1, UndisturbedKept, InFlightKept, StartsUpKept DEF CInv

-----------------------------------------------------------------------------
(* What a wrap-up collects                                                 *)

\* Once starts are queued, every flow hands over.
Handed == "queue" \in happens => happens \cap {"fail", "update"} = {}

\* The list of a wrap-up covers what has been collected, and nothing is added
\* behind its back: where starts are queued, it runs in the frozen state.
Collecting ==
    /\ flow.pc \in {"collect2", "release"} => Manager!With("parked") \subseteq flow.list
    /\ flow.pc = "release" => Manager!With("resuming") \subseteq flow.list
    /\ "queue" \in happens =>
         /\ flow.pc \in {"collect", "collect2", "release"} => frozen
         /\ run.frozen => frozen \/ flow.pc \in Updating
         /\ flow.pc \in Converging \cup Handing => frozen

\* Under a flow that has no workers to stop any more, nothing becomes parked or
\* queued but by the flow.
LEMMA NothingNew ==
  ASSUME FInv, flow.kind # None, "queue" \in happens => frozen, run.inflight => run.frozen, QuietAside
  PROVE  /\ Manager!With("parked")' \subseteq Manager!With("parked")
         /\ Manager!With("resuming")' \subseteq Manager!With("resuming")
<1>1. /\ status \in [Configs -> Manager!Statuses] /\ mark \in [Configs -> BOOLEAN]
      /\ \A c \in Configs : status[c] = "ending" => ~mark[c]
  BY DEF FInv, TypeOK, Manager!TypeOK, MInv, MarkedInRestart, Manager!FrozenListExact
<1>2. \A d \in Configs : status'[d] = status[d] \/ status'[d] \notin {"parked", "resuming"}
  <2>1. CASE UNCHANGED vars
    BY <2>1 DEF vars
  <2>2. CASE \E q \in Queues : QueueNext(q)
    BY ZenonT(40), <1>1, <2>2 DEF QueueNext, QueueRead, QueueScan, QueueStart, QueueDone, QueueNextConfig,
                      manager, Manager!DropResume, Manager!Resume, Manager!Move
  <2>3. CASE \E c \in Configs : UserStart(c)
    BY <2>3 DEF UserStart
  <2>4. CASE \E c \in Configs : UserStop(c) \/ UserKill(c) \/ WorkerCrash(c)
    BY <1>1, <2>4 DEF UserStop, UserKill, WorkerCrash, Manager!Stop, Manager!CancelResume,
                      Manager!GiveUp, Manager!Move
  <2>5. CASE \E c \in Configs : WorkerGone(c)
    BY <1>1, <2>5 DEF WorkerGone, Manager!Ended, Manager!Move
  <2> QED
    BY <2>1, <2>2, <2>3, <2>4, <2>5 DEF QuietAside
<1> QED
  BY <1>2 DEF Manager!With

LEMMA CollectingKept ==
  ASSUME FInv, Calm, CInv, Handed, Collecting, [Next]_vars
  PROVE  Collecting'
<1>1. /\ FlowOK /\ OwnPcs /\ intent \in (SUBSET Configs) \cup {None}
      /\ happens' = happens /\ ~Interrupted
      /\ "queue" \in happens => "fail" \notin happens /\ flow.pc # "withdraw"
      /\ run.inflight => run.frozen \/ flow.pc \in Stopping
      /\ run.frozen => run.inflight
  <2>1. /\ FlowOK /\ OwnPcs /\ intent \in (SUBSET Configs) \cup {None}
        /\ happens' = happens /\ ~Interrupted
        /\ run.inflight => run.frozen \/ flow.pc \in Stopping
        /\ run.frozen => run.inflight
    BY TypesSplit, NextSplits DEF FInv, RestOK, CInv, Undisturbed, Interrupted, InFlight, MInv,
                                  Manager!FrozenListExact
  <2>2. "queue" \in happens => "fail" \notin happens /\ flow.pc # "withdraw"
    BY <2>1 DEF Handed, OwnPcs, Kinds, Handing, FlowOK, Flows
  <2> QED
    BY <2>1, <2>2
<1>. USE DEF Collecting, Updating, Handing, Converging
<1>2. CASE Starts
  <2>1. CASE StartupWork
    <3>1. /\ run' = run /\ flow.pc = "work"
          /\ \/ flow'.pc = "ended" /\ frozen' = frozen
             \/ flow'.pc = "collect" /\ frozen' = frozen /\ "fail" \in happens
             \/ flow'.pc = "queued" /\ frozen'
      BY <1>1, <2>1, StartSteps DEF StartupWork, To, manager
    <3> QED
      BY <1>1, <3>1
  <2>2. CASE OpenWindow \/ ReadIntent \/ RecallIntent
    <3>1. /\ run' = run /\ flow.pc \in {"start", "read", "recall"}
          /\ flow'.pc \in {"check", "begin", "recall", "work"} /\ frozen' = frozen
      BY <1>1, <2>2, StartSteps DEF OpenWindow, ReadIntent, RecallIntent, To, manager,
                                    Manager!MarkResume
    <3> QED
      BY <1>1, <3>1
  <2>3. CASE ReadQueued \/ AcquireLock
    <3>1. /\ run' = run /\ flow.pc \in Converging /\ flow'.pc \in {"acquire", "publish"} /\ frozen' = frozen
      BY <1>1, <2>3, StartSteps DEF ReadQueued, AcquireLock, To, manager
    <3> QED
      BY <1>1, <3>1
  <2> QED
    BY <1>2, <2>1, <2>2, <2>3 DEF Starts
<1>3. CASE Stops
  <2>1. CASE Begin
    <3>1. CASE run.inflight
      <4>1. run' = run /\ flow'.pc = "collect" /\ flow.pc = "begin" /\ frozen' = frozen
        BY <1>1, <2>1, <3>1, StopSteps DEF Begin, Out, To, manager
      <4> QED
        BY <1>1, <3>1, <4>1 DEF Stopping
    <3>2. CASE ~run.inflight
      <4>1. run' = Manager!NewRun /\ flow'.pc = "sending"
        BY <1>1, <2>1, <3>2, StopSteps DEF Begin, Out, To, Manager!RestartBegin
      <4> QED
        BY <1>1, <4>1 DEF Manager!NewRun
    <3> QED
      BY <3>1, <3>2
  <2>2. CASE FreezeList
    <3>1. flow'.pc = "updating"
      BY <1>1, <2>2, StopSteps DEF FreezeList, To, CInv, Undisturbed, InFlight, Stopping
    <3> QED
      BY <1>1, <3>1
  <2>3. CASE EnterWait \/ WaitOver \/ WaitTimesOut \/ \E c \in Configs : SendStop(c)
    <3>1. /\ run' = run /\ frozen' = frozen /\ flow.pc \in Stopping
          /\ flow'.pc \in {"sending", "waiting", "draining", "freezing"}
      BY <1>1, <2>3, StopSteps, RunKept DEF Stops, EnterWait, WaitOver, WaitTimesOut, SendStop,
                                            Begin, FreezeList, To, CInv, InFlight, Stopping
    <3> QED
      BY <1>1, <3>1 DEF Stopping
  <2>4. CASE WaitAborted
    BY <2>4 DEF WaitAborted, CInv, Undisturbed, InFlight, Stopping
  <2>5. CASE PreCheck
    <3>1. run' = run /\ frozen' = frozen /\ flow.pc = "check" /\ flow'.pc \in {"begin", "collect"}
      BY <1>1, <2>5, StopSteps DEF PreCheck, To, Out, manager
    <3>2. "queue" \notin happens
      BY <1>1, <3>1 DEF Handed, OwnPcs, Kinds
    <3> QED
      BY <1>1, <3>1, <3>2
  <2>6. CASE CloseWindow
    <3>1. run' = run /\ frozen' = frozen /\ flow'.pc = "writing"
      BY <1>1, <2>6, StopSteps DEF CloseWindow, To, manager
    <3> QED
      BY <1>1, <3>1
  <2>7. CASE Updated
    <3>1. \/ flow'.pc = "publish" /\ frozen'
          \/ flow'.pc = "collect" /\ "fail" \in happens
      BY <1>1, <2>7, StopSteps DEF To, Out, CInv, Undisturbed
    <3> QED
      BY <1>1, <3>1
  <2> QED
    BY <1>3, <2>1, <2>2, <2>3, <2>4, <2>5, <2>6, <2>7 DEF Stops
<1>4. CASE Publish
  <2>1. /\ run' = run /\ flow.pc = "publish"
        /\ \/ flow'.pc = "order" /\ frozen' = frozen
           \/ flow'.pc = "collect" /\ "fail" \in happens
    BY <1>1, <1>4, EndSteps DEF Publish, To, manager
  <2> QED
    BY <1>1, <2>1
<1>5. CASE Order
  <2>1. run' = run /\ flow.pc = "order" /\ frozen' = frozen /\ flow'.pc \in {"ended", "withdraw"}
    BY <1>1, <1>5, EndSteps DEF Order, To, manager
  <2> QED
    BY <1>1, <2>1
<1>6. CASE HandoverFailed
  <2>1. flow.pc = "withdraw" /\ flow'.pc = "collect"
    BY <1>1, <1>6, EndSteps DEF HandoverFailed, To
  <2> QED
    BY <1>1, <2>1
<1>7. CASE CollectParked
  <2>1. /\ run' = run /\ frozen' = frozen /\ status' = status /\ flow.pc = "collect" /\ flow'.pc = "collect2"
        /\ flow'.list = flow.list \cup Manager!With("parked")
    BY <1>1, <1>7, EndSteps DEF CollectParked, To, manager
  <2>2. Manager!With("parked")' = Manager!With("parked")
    BY <2>1 DEF Manager!With
  <2> QED
    BY <1>1, <2>1, <2>2
<1>8. CASE CollectQueued
  <2>1. /\ run' = run /\ frozen' = frozen /\ status' = status /\ flow.pc = "collect2" /\ flow'.pc = "release"
        /\ flow'.list = flow.list \cup Manager!With("resuming")
    BY <1>1, <1>8, EndSteps DEF CollectQueued, To, manager
  <2>2. /\ Manager!With("parked")' = Manager!With("parked")
        /\ Manager!With("resuming")' = Manager!With("resuming")
    BY <2>1 DEF Manager!With
  <2> QED
    BY <1>1, <2>1, <2>2
<1>9. CASE ReleaseRun \/ QueueResume
  <2>1. ~run'.frozen /\ flow'.pc \in {"mark", "ended"}
    BY <1>1, <1>9, EndSteps DEF ReleaseRun, QueueResume, To, Manager!RestartCancel,
                                Manager!NoRun, Manager!MarkResume
  <2> QED
    BY <1>1, <2>1
<1>10. CASE ReleaseSlot \/ \E kind \in Kinds : Request(kind)
  <2>1. run' = run /\ frozen' = frozen /\ flow'.pc \in {"none", "start"} /\ flow.pc \in {"none", "ended"}
    BY <1>1, <1>10, SlotSteps DEF ReleaseSlot, Request, Begins, FlowOK, manager
  <2> QED
    BY <1>1, <2>1
<1>11. CASE Replace
  <2>1. ~run'.frozen /\ flow'.pc = "read"
    BY <1>1, <1>11, SlotSteps DEF Replace, Begins, Manager!NoRun
  <2> QED
    BY <1>1, <2>1
<1>12. CASE QuietAside
  <2>1. flow' = flow /\ frozen' = frozen /\ run' = run
    BY <1>12, QuietKept, RunKept
  <2>2. flow.pc \in {"collect2", "release"} =>
          /\ Manager!With("parked")' \subseteq Manager!With("parked")
          /\ Manager!With("resuming")' \subseteq Manager!With("resuming")
    BY <1>1, <1>12, NothingNew DEF FlowOK, Stopping
  <2> QED
    BY <1>1, <2>1, <2>2
<1> QED
  BY <1>2, <1>3, <1>4, <1>5, <1>6, <1>7, <1>8, <1>9, <1>10, <1>11, <1>12, CalmSplits
  DEF Ends, Slot, CInv, Undisturbed

\* A flow that gives back collects, before it releases the workers, everything
\* the release would return to idle; unless it is interrupted, or a start is
\* queued while it gives back.
THEOREM WrapUpLosesNothing == Spec /\ Calm => WrapUpCollectsAll
<1>. DEFINE Inv == FInv /\ Calm /\ CInv /\ (Handed => Collecting)
<1>1. Init /\ Calm => Inv
  BY InitFInv, CInvKept DEF Init, Collecting, Startup, NewFlow, Manager!Init, Manager!NoRun,
                            Converging, Handing
<1>2. Inv /\ [Next]_vars => Inv'
  <2>1. [Next]_vars => happens' = happens
    BY NextSplits
  <2>2. [Next]_vars => (Calm' <=> Calm) /\ (Handed' <=> Handed)
    BY <2>1 DEF Calm, Handed
  <2> QED
    BY <2>2, FInvKept, CInvKept, CollectingKept
<1>3. Inv /\ [Next]_vars =>
        [flow.pc = "release" /\ flow'.pc = "mark" /\ 
            /\ ("queue" \in happens => happens \cap {"fail", "update"} = {})
         => CollectsAll]_vars
  BY DEF Collecting, CollectsAll, Handed
<1> QED
  BY <1>1, <1>2, <1>3, PTL DEF Spec, WrapUpCollectsAll

-----------------------------------------------------------------------------
(* Who is wanted comes back                                                *)

\* No worker ends by itself, a hand-over fails only where no flow comes late,
\* and, once starts are queued, nothing is stopped and every flow hands over.
Keeping ==
    /\ "crash" \notin happens /\ ~({"late", "fail"} \subseteq happens)
    /\ "queue" \in happens => happens \cap {"stop", "kill", "fail", "update"} = {}

\* A wanted worker that ends is going to be parked.
EndingIsMarked == \A c \in asked : status[c] = "ending" => mark[c]

\* Under a restart, whatever runs will be parked when it ends.
RunningIsMarked == run.inflight => \A c \in Configs : status[c] = "up" => mark[c]

\* The stop requests of a restart do not meet a wanted config that is parked.
SendsToRunning ==
    flow.pc = "sending" =>
        \A c \in flow.todo : (c \in asked \/ "queue" \in happens) => status[c] = "up"

\* A process that is told to restart has published whatever is wanted.
OrderedHasAll ==
    ordered = "restart" => intent # None /\ asked \subseteq intent /\ frozen /\ Supervisor

HandsOverFrozen == flow.pc \in Handing => frozen

Held ==
    /\ WantedIsHeld /\ EndingIsMarked /\ RunningIsMarked /\ SendsToRunning
    /\ OrderedHasAll /\ HandsOverFrozen

\* A flow that hands over has whatever is wanted in its list.
LEMMA HandsOverAll ==
  ASSUME FInv, CInv, WantedIsHeld, flow.pc \in Handing
  PROVE  asked \subseteq flow.list
<1>1. asked \subseteq Configs /\ InTransit = {} /\ \A c \in asked : status[c] # "idle"
  BY DEF FInv, TypeOK, WantedIsHeld, InTransit, Handing
<1>2. CASE flow.kind = "startup"
  BY <1>1, <1>2 DEF CInv, StartsUp, Manager!With
<1>3. CASE flow.kind # "startup"
  <2>1. run.frozen /\ flow.list = run.list
    BY <1>3 DEF CInv, InFlight
  <2>2. run.list = Manager!With("parked") /\ \A c \in Configs : status[c] \in {"idle", "parked"}
    BY <2>1 DEF FInv, MInv, Manager!FrozenListExact
  <2> QED
    BY <1>1, <2>1, <2>2 DEF Manager!With
<1> QED
  BY <1>2, <1>3

\* A step of the flow that leaves the workers alone.
LEMMA HeldAlone ==
  ASSUME Held, status' = status, mark' = mark, run' = run, asked' = asked, happens' = happens,
         InTransit \subseteq InTransit',
         flow'.pc = "sending" => flow.pc = "sending" /\ flow'.todo \subseteq flow.todo,
         ordered' = ordered, ordered = "restart" => intent' = intent /\ frozen',
         flow'.pc \in Handing => frozen'
  PROVE  Held'
<1>1. WantedIsHeld'
  BY DEF Held, WantedIsHeld
<1>2. EndingIsMarked' /\ RunningIsMarked'
  BY DEF Held, EndingIsMarked, RunningIsMarked
<1>3. SendsToRunning'
  BY DEF Held, SendsToRunning
<1>4. OrderedHasAll' /\ HandsOverFrozen'
  BY DEF Held, OrderedHasAll, HandsOverFrozen, Handing
<1> QED
  BY <1>1, <1>2, <1>3, <1>4 DEF Held

LEMMA HeldStarts ==
  ASSUME FInv, CInv, Held, Starts, happens' = happens
  PROVE  Held'
<1>1. FlowOK /\ OwnPcs /\ asked' = asked /\ ordered' = ordered /\ intent' = intent /\ run' = run
  BY TypesSplit, IntentKept, RunKept DEF FInv, Starts, OpenWindow, ReadIntent, RecallIntent,
     StartupWork, ReadQueued, AcquireLock, history
<1>2. CASE RecallIntent
  <2>1. /\ flow.pc = "recall" /\ flow'.pc = "work" /\ mark' = mark /\ frozen' = frozen /\ ~run.inflight
        /\ \A c \in Configs : status'[c] = IF c \in flow.list /\ status[c] = "idle" THEN "resuming" ELSE status[c]
    BY <1>1, <1>2, StartSteps DEF RecallIntent, To, Manager!MarkResume
  <2>2. InTransit = flow.list /\ asked \subseteq Configs
    BY <2>1 DEF InTransit, FInv, TypeOK
  <2>3. WantedIsHeld' /\ EndingIsMarked' /\ RunningIsMarked'
    BY <1>1, <2>1, <2>2 DEF Held, WantedIsHeld, EndingIsMarked, RunningIsMarked
  <2>4. SendsToRunning' /\ OrderedHasAll' /\ HandsOverFrozen'
    BY <1>1, <2>1 DEF Held, SendsToRunning, OrderedHasAll, HandsOverFrozen, Handing
  <2> QED
    BY <2>3, <2>4 DEF Held
<1>3. CASE OpenWindow \/ ReadIntent \/ StartupWork \/ ReadQueued \/ AcquireLock
  <2>1. status' = status /\ mark' = mark /\ (frozen => frozen')
    BY <1>3 DEF OpenWindow, ReadIntent, StartupWork, ReadQueued, AcquireLock, manager
  <2>2. CASE ReadIntent
    <3>1. flow.pc = "read" /\ flow'.pc = "recall" /\ flow'.list = flow.list
      BY <1>1, <2>2, StartSteps DEF ReadIntent, To
    <3> QED
      BY <1>1, <2>1, <3>1, HeldAlone DEF InTransit, Held, OrderedHasAll, Handing
  <2>3. CASE AcquireLock
    <3>1. flow.pc = "acquire" /\ flow'.pc = "publish" /\ frozen
      BY <1>1, <2>3, StartSteps DEF AcquireLock, To, CInv, StartsUp, OwnPcs, Converging
    <3> QED
      BY <1>1, <2>1, <3>1, HeldAlone DEF InTransit, Held, OrderedHasAll
  <2>4. CASE OpenWindow \/ StartupWork \/ ReadQueued
    <3>1. /\ flow.pc \in {"start", "work", "queued"}
          /\ flow'.pc \in {"check", "begin", "ended", "collect", "queued", "acquire"}
      <4>1. CASE OpenWindow
        BY <1>1, <4>1, StartSteps DEF OpenWindow, To
      <4>2. CASE StartupWork
        BY <1>1, <4>2, StartSteps DEF StartupWork, To
      <4>3. CASE ReadQueued
        BY <1>1, <4>3, StartSteps DEF ReadQueued, To
      <4> QED
        BY <2>4, <4>1, <4>2, <4>3
    <3> QED
      BY <1>1, <2>1, <3>1, HeldAlone DEF InTransit, Held, OrderedHasAll, Handing
  <2> QED
    BY <1>3, <2>2, <2>3, <2>4
<1> QED
  BY <1>2, <1>3 DEF Starts

LEMMA HeldStops ==
  ASSUME FInv, CInv, Held, Stops, happens' = happens
  PROVE  Held'
<1>1. /\ FlowOK /\ OwnPcs /\ asked' = asked /\ ordered' = ordered /\ intent' = intent /\ ~Interrupted
      /\ asked \subseteq Configs /\ flow.todo \subseteq Configs
      /\ status \in [Configs -> Manager!Statuses] /\ mark \in [Configs -> BOOLEAN]
  BY TypesSplit, IntentKept DEF FInv, TypeOK, Manager!TypeOK, Stops, PreCheck, Begin,
                                EnterWait, WaitOver, WaitAborted, WaitTimesOut, FreezeList,
                                CloseWindow, Updated, SendStop, history, CInv, Undisturbed,
                                Interrupted, FlowOK, Flows
<1>2. flow.pc \in Stopping => run.inflight
  BY DEF CInv, InFlight
<1>3. CASE Begin /\ ~run.inflight
  <2>1. /\ flow.pc = "begin" /\ flow'.pc = "sending" /\ flow'.todo = Manager!With("up") /\ frozen' = frozen
        /\ run' = Manager!NewRun
        /\ mark' = [c \in Configs |-> mark[c] \/ status[c] \in {"up", "resuming"}]
        /\ status' = [c \in Configs |-> IF status[c] = "resuming" THEN "parked" ELSE status[c]]
    BY <1>1, <1>3, StopSteps DEF Begin, To, Manager!RestartBegin
  <2>2. WantedIsHeld' /\ EndingIsMarked' /\ RunningIsMarked'
    BY <1>1, <2>1 DEF Held, WantedIsHeld, EndingIsMarked, RunningIsMarked, InTransit
  <2>3. SendsToRunning'
    BY <1>1, <2>1 DEF SendsToRunning, Manager!With
  <2>4. OrderedHasAll' /\ HandsOverFrozen'
    BY <1>1, <2>1 DEF Held, OrderedHasAll, HandsOverFrozen, Handing
  <2> QED
    BY <2>2, <2>3, <2>4 DEF Held
<1>4. ASSUME NEW c \in Configs, SendStop(c) PROVE Held'
  <2>1. /\ flow.pc = "sending" /\ flow'.pc = "sending" /\ flow'.todo = flow.todo \ {c} /\ c \in flow.todo
        /\ frozen' = frozen /\ run' = run /\ run.inflight
        /\ InTransit = {} /\ InTransit' = {}
    BY <1>1, <1>2, <1>4, StopSteps DEF SendStop, To, manager, Manager!Stop, Manager!CancelResume,
       Manager!Move, InTransit, Stopping
  <2>2. \/ status[c] = "up" /\ status' = [status EXCEPT ![c] = "ending"] /\ mark' = [mark EXCEPT ![c] = mark[c]]
        \/ /\ c \notin asked /\ status[c] # "up"
           /\ status' = [status EXCEPT ![c] = "idle"] /\ mark' = [mark EXCEPT ![c] = FALSE]
        \/ status' = status /\ mark' = mark
    BY <1>4, <2>1 DEF SendStop, manager, Manager!Stop, Manager!CancelResume, Manager!Cancellable,
       Manager!Move, Held, SendsToRunning
  <2>3. WantedIsHeld'
    BY <1>1, <2>1, <2>2 DEF Held, WantedIsHeld
  <2>4. EndingIsMarked' /\ RunningIsMarked'
    BY <1>1, <2>1, <2>2 DEF Held, EndingIsMarked, RunningIsMarked
  <2>5. SendsToRunning'
    BY <1>1, <2>1, <2>2 DEF Held, SendsToRunning
  <2>6. OrderedHasAll' /\ HandsOverFrozen'
    BY <1>1, <2>1 DEF Held, OrderedHasAll, HandsOverFrozen, Handing
  <2> QED
    BY <2>3, <2>4, <2>5, <2>6 DEF Held
<1>5. CASE WaitTimesOut
  <2>1. /\ flow.pc = "waiting" /\ flow'.pc = "draining" /\ frozen' = frozen /\ run' = run /\ run.inflight
        /\ mark' = mark
        /\ status' = [c \in Configs |-> IF status[c] = "up" THEN "ending" ELSE status[c]]
    BY <1>1, <1>2, <1>5, StopSteps DEF WaitTimesOut, To, Stopping
  <2>2. WantedIsHeld' /\ EndingIsMarked' /\ RunningIsMarked'
    BY <1>1, <2>1 DEF Held, WantedIsHeld, EndingIsMarked, RunningIsMarked, InTransit
  <2>3. SendsToRunning' /\ OrderedHasAll' /\ HandsOverFrozen'
    BY <1>1, <2>1 DEF Held, SendsToRunning, OrderedHasAll, HandsOverFrozen, Handing
  <2> QED
    BY <2>2, <2>3 DEF Held
<1>6. CASE FreezeList
  <2>1. /\ flow.pc = "freezing" /\ flow'.pc = "updating" /\ frozen' = frozen /\ status' = status
        /\ mark' = mark /\ run.inflight
    BY <1>1, <1>2, <1>6, StopSteps DEF FreezeList, To, CInv, Undisturbed, Manager!Freeze,
                                       Stopping
  <2>2. WantedIsHeld' /\ EndingIsMarked' /\ RunningIsMarked'
    BY <1>1, <2>1 DEF Held, WantedIsHeld, EndingIsMarked, RunningIsMarked, InTransit
  <2>3. SendsToRunning' /\ OrderedHasAll' /\ HandsOverFrozen'
    BY <1>1, <2>1 DEF Held, SendsToRunning, OrderedHasAll, HandsOverFrozen, Handing
  <2> QED
    BY <2>2, <2>3 DEF Held
<1>7. CASE WaitAborted
  BY <1>2, <1>7 DEF WaitAborted, CInv, Undisturbed, Stopping
<1>8. CASE (Begin /\ run.inflight) \/ PreCheck \/ EnterWait \/ WaitOver \/ CloseWindow \/ Updated
  <2>1. status' = status /\ mark' = mark /\ run' = run
    BY <1>8 DEF Begin, PreCheck, EnterWait, WaitOver, CloseWindow, Updated, manager
  <2>2. /\ flow'.pc \in {"collect", "begin", "waiting", "freezing", "writing", "publish"}
        /\ flow.pc \in {"check", "begin"} \cup Stopping \cup Updating
        /\ frozen' = frozen \/ (flow'.pc = "publish" /\ frozen')
        /\ flow'.pc = "publish" => frozen'
    <3>. USE DEF To, Out, Stopping, Updating
    <3>1. CASE Begin /\ run.inflight
      BY <1>1, <3>1, StopSteps DEF Begin
    <3>4. CASE PreCheck
      BY <1>1, <3>4, StopSteps DEF PreCheck
    <3>5. CASE EnterWait
      BY <1>1, <1>2, <3>5, StopSteps DEF EnterWait
    <3>2. CASE WaitOver \/ CloseWindow \/ Updated
      BY <1>1, <3>2, StopSteps DEF WaitOver, CloseWindow, Updated, To, Out, Stopping, Updating
    <3> QED
      BY <1>8, <3>1, <3>2, <3>4, <3>5
  <2>3. InTransit = {} /\ InTransit' = {}
    BY <2>2 DEF InTransit, Stopping, Updating
  <2> QED
    BY <1>1, <2>1, <2>2, <2>3, HeldAlone DEF Held, OrderedHasAll, Handing
<1> QED
  BY <1>3, <1>4, <1>5, <1>6, <1>7, <1>8 DEF Stops

LEMMA HeldEnds ==
  ASSUME FInv, CInv, Keeping, Collecting, Held, Ends, happens' = happens
  PROVE  Held'
<1>1. /\ FlowOK /\ OwnPcs /\ asked' = asked /\ asked \subseteq Configs
      /\ flow.list \in SUBSET Configs
      /\ status \in [Configs -> Manager!Statuses]
  BY TypesSplit DEF FInv, TypeOK, Manager!TypeOK, Ends, Publish, Order, HandoverFailed,
                    CollectParked, CollectQueued, ReleaseRun, QueueResume, history, FlowOK,
                    Flows
<1>2. CASE Publish
  <2>1. status' = status /\ mark' = mark /\ run' = run /\ ordered' = ordered /\ flow.pc = "publish"
    BY <1>2 DEF Publish, manager
  <2>2. WantedIsHeld' /\ EndingIsMarked' /\ RunningIsMarked' /\ SendsToRunning'
    <3>1. InTransit = {} /\ InTransit' = {} /\ flow'.pc # "sending"
      BY <1>1, <1>2, <2>1, EndSteps DEF To, InTransit
    <3> QED
      BY <1>1, <2>1, <3>1 DEF Held, WantedIsHeld, EndingIsMarked, RunningIsMarked, SendsToRunning
  <2>3. CASE flow'.pc = "order"
    <3>1. intent' = flow.list /\ frozen' = frozen /\ frozen
      BY <1>1, <1>2, <2>1, <2>3, EndSteps DEF To, Held, HandsOverFrozen, Handing
    <3>2. asked \subseteq flow.list /\ flow.list # None
      BY <1>1, <2>1, HandsOverAll, FlowAssumption DEF Held, Handing
    <3> QED
      BY <1>1, <2>1, <2>2, <3>1, <3>2 DEF Held, OrderedHasAll, HandsOverFrozen
  <2>4. CASE flow'.pc # "order"
    <3>1. flow'.pc = "collect" /\ "fail" \in happens
      BY <1>1, <1>2, <2>4, EndSteps DEF To
    <3>2. ordered = "no"
      BY <2>1, <3>1 DEF Keeping, CInv, InFlight
    <3> QED
      BY <2>1, <2>2, <3>1, <3>2 DEF Held, OrderedHasAll, HandsOverFrozen, Handing
  <2> QED
    BY <2>3, <2>4
<1>3. CASE Order
  <2>1. /\ status' = status /\ mark' = mark /\ run' = run /\ intent' = intent /\ frozen' = frozen
        /\ flow.pc = "order" /\ frozen
    BY <1>3 DEF Order, manager, Held, HandsOverFrozen, Handing
  <2>2. /\ flow'.pc \in {"ended", "withdraw"}
        /\ \/ Supervisor /\ ordered' = IF ordered = "no" THEN "restart" ELSE ordered
           \/ ordered' = ordered
    BY <1>1, <1>3, EndSteps DEF To
  <2>3. WantedIsHeld' /\ EndingIsMarked' /\ RunningIsMarked' /\ SendsToRunning'
    <3>1. InTransit = {} /\ InTransit' = {}
      BY <2>1, <2>2 DEF InTransit
    <3> QED
      BY <1>1, <2>1, <2>2, <3>1 DEF Held, WantedIsHeld, EndingIsMarked, RunningIsMarked,
                                    SendsToRunning
  <2>4. intent = flow.list /\ asked \subseteq flow.list /\ flow.list # None
    BY <1>1, <2>1, HandsOverAll, FlowAssumption DEF Held, Handing, CInv, InFlight
  <2> QED
    BY <1>1, <2>1, <2>2, <2>3, <2>4 DEF Held, OrderedHasAll, HandsOverFrozen
<1>4. CASE HandoverFailed
  <2>1. status' = status /\ mark' = mark /\ run' = run /\ ordered' = ordered /\ flow.pc = "withdraw"
    BY <1>4 DEF HandoverFailed, manager
  <2>2. flow'.pc = "collect"
    BY <1>1, <1>4, EndSteps DEF To
  <2>3. ordered # "restart"
    <3>1. CASE ~Supervisor
      BY <3>1 DEF Held, OrderedHasAll
    <3>2. CASE "fail" \in happens
      BY <2>1, <3>2 DEF Keeping, CInv, InFlight
    <3> QED
      BY <1>1, <2>1, <3>1, <3>2 DEF OwnPcs
  <2>4. InTransit = {} /\ InTransit' = {}
    BY <2>1, <2>2 DEF InTransit
  <2> QED
    BY <1>1, <2>1, <2>2, <2>3, <2>4, HeldAlone DEF Held, Handing
<1>5. CASE CollectParked \/ CollectQueued
  <2>1. /\ status' = status /\ mark' = mark /\ run' = run /\ ordered' = ordered /\ intent' = intent
        /\ frozen' = frozen /\ flow.pc \in {"collect", "collect2"}
    BY <1>5 DEF CollectParked, CollectQueued, manager
  <2>2. flow'.pc \in {"collect2", "release"}
    BY <1>1, <1>5, EndSteps DEF To
  <2>3. InTransit = {} /\ InTransit' = {}
    BY <2>1, <2>2 DEF InTransit
  <2> QED
    BY <1>1, <2>1, <2>2, <2>3, HeldAlone DEF Held, OrderedHasAll, Handing
<1>6. CASE ReleaseRun
  <2>1. /\ ordered' = ordered /\ intent' = intent /\ frozen' = frozen /\ flow.pc = "release"
        /\ run' = Manager!NoRun /\ mark' = [c \in Configs |-> FALSE]
        /\ status' = [c \in Configs |-> IF status[c] \in {"parked", "resuming"} THEN "idle" ELSE status[c]]
    BY <1>6 DEF ReleaseRun, Manager!RestartCancel
  <2>2. flow'.pc = "mark" /\ flow'.list = flow.list
    BY <1>1, <1>6, EndSteps DEF To
  <2>3. \A c \in asked : status[c] # "ending"
    <3>1. run.inflight => run.frozen
      BY <2>1 DEF CInv, InFlight, Stopping
    <3>2. \A c \in Configs : mark[c] => run.inflight
      BY DEF FInv, MInv, MarkedInRestart
    <3>3. run.frozen => \A c \in Configs : status[c] \in {"idle", "parked"}
      BY DEF FInv, MInv, Manager!FrozenListExact
    <3> QED
      BY <1>1, <3>1, <3>2, <3>3 DEF Held, EndingIsMarked
  <2>4. \A c \in asked : status[c] # "idle" /\ (status[c] \in {"parked", "resuming"} => c \in flow.list)
    BY <1>1, <2>1 DEF Held, WantedIsHeld, InTransit, Collecting, Manager!With
  <2>5. WantedIsHeld' /\ EndingIsMarked'
    <3>1. InTransit' = flow.list
      BY <2>2 DEF InTransit
    <3> QED
      BY <1>1, <2>1, <2>3, <2>4, <3>1 DEF WantedIsHeld, EndingIsMarked
  <2>6. RunningIsMarked' /\ SendsToRunning' /\ OrderedHasAll' /\ HandsOverFrozen'
    BY <1>1, <2>1, <2>2 DEF Held, RunningIsMarked, SendsToRunning, OrderedHasAll,
                            HandsOverFrozen, Handing, Manager!NoRun
  <2> QED
    BY <2>5, <2>6 DEF Held
<1>7. CASE QueueResume
  <2>1. /\ ordered' = ordered /\ intent' = intent /\ frozen' = frozen /\ flow.pc = "mark"
        /\ run' = run /\ mark' = mark /\ ~run.inflight
        /\ status' = [c \in Configs |-> IF c \in flow.list /\ status[c] = "idle" THEN "resuming" ELSE status[c]]
    BY <1>7 DEF QueueResume, Manager!MarkResume
  <2>2. flow'.pc = "ended" /\ InTransit = flow.list
    BY <1>1, <1>7, <2>1, EndSteps DEF To, InTransit
  <2>3. WantedIsHeld' /\ EndingIsMarked' /\ RunningIsMarked'
    BY <1>1, <2>1, <2>2 DEF Held, WantedIsHeld, EndingIsMarked, RunningIsMarked
  <2>4. SendsToRunning' /\ OrderedHasAll' /\ HandsOverFrozen'
    BY <1>1, <2>1, <2>2 DEF Held, SendsToRunning, OrderedHasAll, HandsOverFrozen, Handing
  <2> QED
    BY <2>3, <2>4 DEF Held
<1> QED
  BY <1>2, <1>3, <1>4, <1>5, <1>6, <1>7 DEF Ends

LEMMA HeldSlot ==
  ASSUME FInv, CInv, Held, Slot, happens' = happens
  PROVE  Held'
<1>1. /\ FlowOK /\ asked' = asked /\ asked \subseteq Configs /\ intent \in (SUBSET Configs) \cup {None}
  BY TypesSplit DEF FInv, RestOK, Slot, ReleaseSlot, Request, Replace, history
<1>2. CASE Replace
  <2>1. /\ ordered = "restart" /\ ordered' = "no"
        /\ status' = [c \in Configs |-> "idle"] /\ ~run'.inflight
    BY <1>2 DEF Replace, Manager!NoRun
  <2>2. flow'.pc = "read" /\ flow'.list = Record
    BY <1>1, <1>2, SlotSteps DEF Begins
  <2>3. asked \subseteq Record
    <3>1. intent # None /\ asked \subseteq intent
      BY <2>1 DEF Held, OrderedHasAll
    <3>2. Record = intent
      BY <3>1, Zenon DEF Record
    <3> QED
      BY <3>1, <3>2
  <2>4. InTransit' = Record
    BY <2>2 DEF InTransit
  <2>5. WantedIsHeld' /\ EndingIsMarked'
    BY <1>1, <2>1, <2>3, <2>4 DEF WantedIsHeld, EndingIsMarked
  <2>6. RunningIsMarked' /\ SendsToRunning' /\ OrderedHasAll' /\ HandsOverFrozen'
    BY <2>1, <2>2 DEF RunningIsMarked, SendsToRunning, OrderedHasAll, HandsOverFrozen, Handing
  <2> QED
    BY <2>5, <2>6 DEF Held
<1>3. CASE ReleaseSlot \/ \E kind \in Kinds : Request(kind)
  <2>1. /\ status' = status /\ mark' = mark /\ run' = run /\ ordered' = ordered /\ intent' = intent
        /\ frozen' = frozen
    BY <1>3 DEF ReleaseSlot, Request, manager
  <2>2. flow'.pc \in {"none", "start"} /\ flow.pc \in {"none", "ended"}
    BY <1>1, <1>3, SlotSteps DEF ReleaseSlot, Request, Begins, FlowOK
  <2>3. InTransit = {} /\ InTransit' = {}
    BY <2>2 DEF InTransit
  <2> QED
    BY <1>1, <2>1, <2>2, <2>3, HeldAlone DEF Held, OrderedHasAll, Handing
<1> QED
  BY <1>2, <1>3 DEF Slot

\* A config that changes hands beside the flow: its status and mark, and whether
\* it is wanted.
LEMMA HeldOne ==
  ASSUME FInv, CInv, Held, NEW c \in Configs, NEW s \in Manager!Statuses, NEW m \in BOOLEAN,
         flow' = flow, run' = run, intent' = intent, ordered' = ordered, frozen' = frozen, happens' = happens,
         status' = [status EXCEPT ![c] = s], mark' = [mark EXCEPT ![c] = m],
         asked' \subseteq asked \cup {c},
         c \in asked' => s # "idle" \/ c \in InTransit,
         c \in asked' /\ s = "ending" => m,
         run.inflight /\ s = "up" => m,
         flow.pc = "sending" /\ c \in flow.todo /\ (c \in asked' \/ "queue" \in happens) => s = "up",
         ordered = "restart" /\ c \in asked' => c \in asked
  PROVE  Held'
<1>1. asked \subseteq Configs /\ status \in [Configs -> Manager!Statuses] /\ mark \in [Configs -> BOOLEAN]
      /\ flow.todo \subseteq Configs
  BY DEF FInv, TypeOK, Manager!TypeOK, Flows
<1>2. WantedIsHeld'
  BY <1>1 DEF Held, WantedIsHeld, InTransit
<1>3. EndingIsMarked' /\ RunningIsMarked'
  BY <1>1 DEF Held, EndingIsMarked, RunningIsMarked
<1>4. SendsToRunning'
  BY <1>1 DEF Held, SendsToRunning
<1>5. OrderedHasAll' /\ HandsOverFrozen'
  BY <1>1 DEF Held, OrderedHasAll, HandsOverFrozen
<1> QED
  BY <1>2, <1>3, <1>4, <1>5 DEF Held

\* The queued configs that are dropped are not wanted any more.
LEMMA HeldDropped ==
  ASSUME FInv, Held, NEW S \in SUBSET Configs, Manager!DropResume(S),
         flow' = flow, intent' = intent, ordered' = ordered, frozen' = frozen, happens' = happens,
         asked' \subseteq asked, \A c \in asked' : c \in S => status[c] # "resuming"
  PROVE  Held'
<1>1. asked \subseteq Configs /\ status \in [Configs -> Manager!Statuses] /\ flow.todo \subseteq Configs
      /\ mark' = mark /\ run' = run
      /\ status' = [c \in Configs |-> IF c \in S /\ status[c] = "resuming" THEN "idle" ELSE status[c]]
  BY DEF FInv, TypeOK, Manager!TypeOK, Flows, Manager!DropResume
<1>2. WantedIsHeld' /\ EndingIsMarked'
  BY <1>1 DEF Held, WantedIsHeld, EndingIsMarked, InTransit
<1>3. RunningIsMarked' /\ SendsToRunning'
  BY <1>1 DEF Held, RunningIsMarked, SendsToRunning
<1>4. OrderedHasAll' /\ HandsOverFrozen'
  BY <1>1 DEF Held, OrderedHasAll, HandsOverFrozen
<1> QED
  BY <1>2, <1>3, <1>4 DEF Held

LEMMA HeldQuiet ==
  ASSUME FInv, CInv, Keeping, Held, QuietAside, happens' = happens
  PROVE  Held'
<1>1. /\ FlowOK /\ asked \subseteq Configs /\ queue \in [Queues -> QueueTasks]
      /\ status \in [Configs -> Manager!Statuses] /\ mark \in [Configs -> BOOLEAN]
      /\ \A c \in Configs : mark[c] => run.inflight
      /\ \A q \in Queues : queue[q].config # None <=> queue[q].pc = "start"
      /\ {"idle", "up", "ending", "parked", "resuming"} \subseteq Manager!Statuses
  BY TypesSplit DEF FInv, RestOK, TypeOK, Manager!TypeOK, Manager!Statuses, MInv,
                    MarkedInRestart
<1>2. flow' = flow /\ run' = run /\ intent' = intent /\ ordered' = ordered /\ frozen' = frozen
  BY QuietKept, RunKept
<1>3. flow.pc = "sending" => run.inflight
  BY DEF CInv, InFlight, Stopping
<1>4. CASE UNCHANGED vars
  BY <1>4, HeldAlone, <1>2 DEF vars, InTransit, Held, OrderedHasAll, HandsOverFrozen
<1>5. ASSUME NEW q \in Queues, QueueNext(q) PROVE Held'
  <2>1. CASE QueueRead(q) \/ QueueDone(q) \/ \E c \in Configs : QueueNextConfig(q, c)
    <3>1. status' = status /\ mark' = mark /\ asked' = asked
      BY <2>1 DEF QueueRead, QueueDone, QueueNextConfig, manager, history
    <3> QED
      BY <1>2, <3>1, HeldAlone DEF InTransit, Held, OrderedHasAll, HandsOverFrozen
  <2>2. CASE QueueScan(q)
    <3>1. PICK missing \in SUBSET Configs :
            Manager!DropResume(missing) /\ asked' = asked \ {c \in missing : status[c] = "resuming"}
      <4>1. queue[q].list \in SUBSET Configs
        BY <1>1 DEF QueueTasks
      <4> QED
        BY <2>2, <4>1 DEF QueueScan
    <3> QED
      BY <1>2, <3>1, HeldDropped
  <2>3. CASE QueueStart(q)
    <3>. DEFINE c == queue[q].config
    <3>1. c \in Configs
      BY <1>1, <2>3 DEF QueueStart, QueueTasks
    <3>2. \/ Manager!Resume(c) /\ asked' = asked
          \/ UNCHANGED manager /\ asked' = asked
          \/ /\ Manager!DropResume({c})
             /\ asked' = IF status[c] = "resuming" THEN asked \ {c} ELSE asked
      BY <2>3 DEF QueueStart
    <3> HIDE DEF c
    <3>3. CASE Manager!Resume(c) /\ asked' = asked
      <4>1. /\ status[c] = "resuming" /\ ~run.inflight
            /\ status' = [status EXCEPT ![c] = "up"] /\ mark' = [mark EXCEPT ![c] = mark[c]]
        BY <3>3 DEF Manager!Resume, Manager!Move
      <4>2. mark[c] \in BOOLEAN /\ "up" \in Manager!Statuses
        BY <1>1, <3>1
      <4> QED
        BY <1>2, <1>3, <3>1, <3>3, <4>1, <4>2, HeldOne
    <3>4. CASE UNCHANGED manager /\ asked' = asked
      BY <1>2, <3>4, HeldAlone DEF manager, InTransit, Held, OrderedHasAll, HandsOverFrozen
    <3>5. CASE /\ Manager!DropResume({c})
               /\ asked' = IF status[c] = "resuming" THEN asked \ {c} ELSE asked
      BY <1>2, <3>1, <3>5, HeldDropped
    <3> QED
      BY <3>2, <3>3, <3>4, <3>5
  <2> QED
    BY <1>5, <2>1, <2>2, <2>3 DEF QueueNext
<1>6. ASSUME NEW c \in Configs, UserStart(c) PROVE Held'
  <2>1. asked' = asked \cup {c} /\ ~frozen /\ status[c] = "idle"
    BY <1>6 DEF UserStart, Manager!Start, Manager!QueueStart
  <2>2. ordered # "restart"
    BY <2>1 DEF Held, OrderedHasAll
  <2>3. CASE flow.kind = None
    <3>1. /\ ~run.inflight /\ status' = [status EXCEPT ![c] = "up"] /\ mark' = [mark EXCEPT ![c] = FALSE]
      BY <1>6, <2>3 DEF UserStart, Manager!Start, Manager!Move
    <3> QED
      BY <1>1, <1>2, <1>3, <2>1, <2>2, <3>1, HeldOne
  <2>4. CASE flow.kind # None
    <3>. DEFINE s == IF run.inflight THEN "parked" ELSE "resuming"
    <3>1. /\ "queue" \in happens
          /\ status' = [status EXCEPT ![c] = s] /\ mark' = [mark EXCEPT ![c] = run.inflight]
      BY <1>6, <2>4 DEF UserStart, Manager!QueueStart, Manager!Move
    <3>2. s \in Manager!Statuses /\ s \notin {"idle", "up", "ending"} /\ run.inflight \in BOOLEAN
      BY <1>1 DEF FInv, TypeOK, Manager!TypeOK
    <3>3. flow.pc = "sending" => c \notin flow.todo
      BY <2>1, <3>1 DEF Held, SendsToRunning
    <3> HIDE DEF s
    <3> QED
      BY <1>1, <1>2, <1>3, <2>1, <2>2, <3>1, <3>2, <3>3, HeldOne
  <2> QED
    BY <2>3, <2>4
<1>7. ASSUME NEW c \in Configs, UserStop(c) \/ UserKill(c) PROVE Held'
  <2>1. "queue" \notin happens /\ asked' = asked \ {c}
    BY <1>7 DEF UserStop, UserKill, Keeping
  <2>2. CASE UserStop(c) /\ Manager!Stop(c)
    <3>1. /\ status' = [status EXCEPT ![c] = "ending"] /\ mark' = [mark EXCEPT ![c] = mark[c]]
      BY <2>2 DEF Manager!Stop, Manager!Move
    <3>2. mark[c] \in BOOLEAN
      BY <1>1
    <3> QED
      BY <1>1, <1>2, <2>1, <3>1, <3>2, HeldOne
  <2>3. CASE UserStop(c) /\ Manager!CancelResume(c)
    <3>1. /\ status' = [status EXCEPT ![c] = "idle"] /\ mark' = [mark EXCEPT ![c] = FALSE]
      BY <2>3 DEF Manager!CancelResume, Manager!Move
    <3> QED
      BY <1>1, <1>2, <2>1, <3>1, HeldOne
  <2>4. CASE UserKill(c)
    <3>1. /\ status' = [status EXCEPT ![c] = "ending"] /\ mark' = [mark EXCEPT ![c] = FALSE]
      BY <2>4 DEF UserKill, Manager!GiveUp, Manager!Move
    <3> QED
      BY <1>1, <1>2, <2>1, <3>1, HeldOne
  <2> QED
    BY <1>7, <2>2, <2>3, <2>4 DEF UserStop
<1>8. ASSUME NEW c \in Configs, WorkerGone(c) PROVE Held'
  <2>. DEFINE s == IF mark[c] THEN "parked" ELSE "idle"
  <2>1. /\ status[c] = "ending" /\ asked' = asked
        /\ status' = [status EXCEPT ![c] = s] /\ mark' = [mark EXCEPT ![c] = mark[c]]
    BY <1>8 DEF WorkerGone, Manager!Ended, Manager!Move, history
  <2>2. /\ s \in Manager!Statuses /\ s \notin {"up", "ending"} /\ mark[c] \in BOOLEAN
        /\ c \in asked => s # "idle"
    BY <1>1, <2>1 DEF Held, EndingIsMarked
  <2>3. flow.pc = "sending" /\ c \in flow.todo => c \notin asked' /\ "queue" \notin happens
    BY <2>1 DEF Held, SendsToRunning
  <2> HIDE DEF s
  <2> QED
    BY <1>1, <1>2, <2>1, <2>2, <2>3, HeldOne
<1>9. \A c \in Configs : ~WorkerCrash(c)
  BY DEF WorkerCrash, Keeping
<1> QED
  BY <1>4, <1>5, <1>6, <1>7, <1>8, <1>9 DEF QuietAside

LEMMA HeldKept ==
  ASSUME FInv, Calm, CInv, Keeping, Collecting, Held, [Next]_vars
  PROVE  Held'
  BY HeldStarts, HeldStops, HeldEnds, HeldSlot, HeldQuiet, CalmSplits DEF CInv, Undisturbed

\* Whatever the flows, the hand-overs and the new processes do in between, no
\* worker a flow took and no start it accepted is forgotten: unless a flow is
\* interrupted, or a hand-over fails in a flow that came after the process was
\* told to restart (it takes back the file the new process is going to read).
THEOREM NobodyIsForgotten ==
  Spec /\ Calm /\ ~({"late", "fail"} \subseteq happens) => []NobodyForgotten
<1>. DEFINE Inv == /\ FInv /\ Calm /\ CInv /\ (Handed => Collecting)
                   /\ ~({"late", "fail"} \subseteq happens) /\ (Keeping => Held)
<1>1. Init /\ Calm /\ ~({"late", "fail"} \subseteq happens) => Inv
  BY InitFInv, CInvKept DEF Init, Collecting, Startup, NewFlow, Manager!Init, Manager!NoRun,
                            Converging, Handing, Held, WantedIsHeld, EndingIsMarked,
                            RunningIsMarked, SendsToRunning, OrderedHasAll, HandsOverFrozen
<1>2. Inv /\ [Next]_vars => Inv'
  <2>1. [Next]_vars => happens' = happens
    BY NextSplits
  <2>2. [Next]_vars => (Calm' <=> Calm) /\ (Handed' <=> Handed) /\ (Keeping' <=> Keeping)
    BY <2>1 DEF Calm, Handed, Keeping
  <2>3. Keeping => Handed
    BY DEF Keeping, Handed
  <2> QED
    BY <2>1, <2>2, <2>3, FInvKept, CInvKept, CollectingKept, HeldKept
<1>3. Inv => NobodyForgotten
  BY DEF Keeping, Calm, Held, NobodyForgotten
<1> QED
  BY <1>1, <1>2, <1>3, PTL DEF Spec

-----------------------------------------------------------------------------
(* Who is given up stays away                                              *)

\* Every flow hands over at once and none comes late, and nobody both queues and
\* stops.
Straight ==
    /\ happens \cap {"fail", "update", "converge", "late"} = {}
    /\ ~({"queue", "stop"} \subseteq happens)

\* A config whose auto-resume was cancelled is idle or ends for good.
GivenUpIsLeft == \A c \in gaveUp : status[c] \in {"idle", "ending"} /\ ~mark[c]

\* No flow gives back.
NoGivingBack == flow.pc \notin WrappingUp \cup {"withdraw", "queued", "acquire", "check"}

\* The resume file is the frozen list of the restart.
FileIsFrozenList == intent # None => run.frozen /\ intent = run.list

\* What a startup has read holds nobody who is given up, and nobody can be given
\* up before it is queued.
RecordIsClean ==
    flow.pc \in {"read", "recall"} =>
        /\ flow.list \cap gaveUp = {}
        /\ "queue" \notin happens => \A c \in Configs : status[c] = "idle"

Given == GivenUpIsLeft /\ NoGivingBack /\ FileIsFrozenList /\ RecordIsClean

\* No flow gives back, because nothing goes wrong in one.
LEMMA NoGivingBackKept ==
  ASSUME FInv, Calm, CInv, Straight, NoGivingBack, [Next]_vars
  PROVE  NoGivingBack'
<1>1. /\ FlowOK /\ OwnPcs /\ ~Interrupted /\ intent \in (SUBSET Configs) \cup {None}
      /\ "fail" \notin happens /\ "update" \notin happens /\ "converge" \notin happens
  BY TypesSplit DEF FInv, RestOK, CInv, Undisturbed, Interrupted, Straight
<1>. USE DEF NoGivingBack, WrappingUp
<1>2. CASE Starts
  <2>1. CASE OpenWindow
    <3>1. flow.kind # "update"
      BY <1>1 DEF OwnPcs, Kinds
    <3>2. flow'.pc = "begin"
      BY <1>1, <2>1, <3>1, StartSteps DEF To
    <3> QED
      BY <3>2
  <2>2. CASE StartupWork
    BY <1>1, <2>2, StartSteps DEF To
  <2>3. CASE ReadIntent \/ RecallIntent
    BY <1>1, <2>3, StartSteps DEF To
  <2>4. CASE ReadQueued \/ AcquireLock
    BY <2>4 DEF ReadQueued, AcquireLock
  <2> QED
    BY <1>2, <2>1, <2>2, <2>3, <2>4 DEF Starts
<1>3. CASE Stops
  <2>1. flow.pc \in Stopping => run.inflight
    BY DEF CInv, InFlight
  <2>2. CASE Begin
    <3>1. flow.pc = "begin" /\ ~run.inflight
      BY <2>2 DEF Begin, CInv, InFlight, Straight, Stopping, Updating, Handing
    <3> QED
      BY <1>1, <2>2, <3>1, StopSteps DEF To
  <2>3. CASE EnterWait
    <3>1. run.inflight
      BY <2>1, <2>3 DEF EnterWait, Stopping
    <3> QED
      BY <1>1, <2>3, <3>1, StopSteps DEF To
  <2>4. CASE FreezeList
    <3>1. ~run.abort
      BY <2>1, <2>4 DEF FreezeList, Stopping, CInv, Undisturbed
    <3> QED
      BY <1>1, <2>4, <3>1, StopSteps DEF To
  <2>5. CASE WaitAborted
    BY <2>1, <2>5 DEF WaitAborted, Stopping, CInv, Undisturbed
  <2>6. CASE Updated
    BY <1>1, <2>6, StopSteps DEF To, CInv, Undisturbed
  <2>7. CASE PreCheck
    BY <2>7 DEF PreCheck
  <2>8. CASE WaitOver \/ WaitTimesOut \/ CloseWindow \/ \E c \in Configs : SendStop(c)
    BY <1>1, <2>8, StopSteps DEF To
  <2> QED
    BY <1>3, <2>2, <2>3, <2>4, <2>5, <2>6, <2>7, <2>8 DEF Stops
<1>4. CASE Ends
  <2>1. CASE Publish
    BY <1>1, <2>1, EndSteps DEF To
  <2>2. CASE Order
    <3>1. flow.pc = "order"
      BY <2>2 DEF Order
    <3>2. Supervisor
      BY <1>1, <3>1 DEF OwnPcs, Handing, Kinds, FlowOK, Flows
    <3> QED
      BY <1>1, <2>2, <3>2, EndSteps DEF To
  <2>3. CASE HandoverFailed \/ CollectParked \/ CollectQueued \/ ReleaseRun \/ QueueResume
    BY <2>3 DEF HandoverFailed, CollectParked, CollectQueued, ReleaseRun, QueueResume
  <2> QED
    BY <1>4, <2>1, <2>2, <2>3 DEF Ends
<1>5. CASE Slot
  BY <1>1, <1>5, SlotSteps DEF Slot, Begins
<1>6. CASE QuietAside
  BY <1>6, QuietKept
<1> QED
  BY <1>2, <1>3, <1>4, <1>5, <1>6, CalmSplits DEF CInv, Undisturbed

\* The resume file stays the frozen list.
LEMMA FileKept ==
  ASSUME FInv, Calm, CInv, Straight, NoGivingBack, FileIsFrozenList, [Next]_vars
  PROVE  FileIsFrozenList'
<1>1. /\ FlowOK /\ OwnPcs /\ "converge" \notin happens
      /\ run.frozen => run.inflight
  BY TypesSplit DEF FInv, Straight, MInv, Manager!FrozenListExact
<1>. USE DEF FileIsFrozenList
<1>2. CASE Publish
  <2>1. /\ flow.pc = "publish" /\ run' = run
        /\ intent' = flow.list \/ intent' = intent
    BY <1>2 DEF Publish, manager
  <2>2. run.frozen /\ flow.list = run.list
    BY <1>1, <2>1 DEF CInv, InFlight, OwnPcs, Handing
  <2> QED
    BY <2>1, <2>2
<1>3. CASE Begin
  <2>1. intent' = intent /\ (run' = run \/ ~run.inflight)
    BY <1>3 DEF Begin, manager
  <2> QED
    BY <1>1, <2>1
<1>4. CASE FreezeList
  <2>1. intent' = intent /\ ~run.frozen
    BY <1>4 DEF FreezeList, CInv, InFlight, Stopping
  <2> QED
    BY <2>1
<1>5. CASE Replace \/ HandoverFailed
  BY <1>5 DEF Replace, HandoverFailed
<1>6. CASE Order
  BY <1>6 DEF Order, manager
<1>7. CASE CollectParked \/ CollectQueued \/ ReleaseRun \/ QueueResume
  BY <1>7 DEF CollectParked, CollectQueued, ReleaseRun, QueueResume, NoGivingBack, WrappingUp
<1>8. CASE Starts
  BY <1>8, IntentKept, RunKept
<1>9. CASE Stops /\ ~Begin /\ ~FreezeList
  BY <1>9, IntentKept, RunKept
<1>10. CASE ReleaseSlot \/ \E kind \in Kinds : Request(kind)
  BY <1>10 DEF ReleaseSlot, Request, manager
<1>11. CASE QuietAside
  BY <1>11, QuietKept, RunKept
<1> QED
  BY <1>2, <1>3, <1>4, <1>5, <1>6, <1>7, <1>8, <1>9, <1>10, <1>11, CalmSplits
  DEF Ends, Slot, CInv, Undisturbed

\* A config changes its status beside the flow.
LEMMA LeftOne ==
  ASSUME FInv, GivenUpIsLeft, NEW c \in Configs, NEW s, NEW m,
         status' = [status EXCEPT ![c] = s], mark' = [mark EXCEPT ![c] = m],
         gaveUp' \subseteq gaveUp \cup {c},
         c \in gaveUp' => s \in {"idle", "ending"} /\ ~m
  PROVE  GivenUpIsLeft'
<1>1. gaveUp \subseteq Configs /\ status \in [Configs -> Manager!Statuses] /\ mark \in [Configs -> BOOLEAN]
  BY DEF FInv, TypeOK, Manager!TypeOK
<1> QED
  BY <1>1 DEF GivenUpIsLeft

LEMMA GivenUpKept ==
  ASSUME FInv, Calm, CInv, Straight, Given, [Next]_vars
  PROVE  GivenUpIsLeft'
<1>1. /\ gaveUp \subseteq Configs /\ queue \in [Queues -> QueueTasks]
      /\ status \in [Configs -> Manager!Statuses] /\ mark \in [Configs -> BOOLEAN]
      /\ \A q \in Queues : queue[q].config # None <=> queue[q].pc = "start"
      /\ GivenUpIsLeft
  BY DEF FInv, TypeOK, Manager!TypeOK, Given
<1>2. CASE UNCHANGED <<status, mark, gaveUp>>
  BY <1>1, <1>2 DEF GivenUpIsLeft
<1>3. CASE RecallIntent
  <2>1. /\ mark' = mark /\ gaveUp' = gaveUp /\ flow.list \cap gaveUp = {}
        /\ status' = [c \in Configs |-> IF c \in flow.list /\ status[c] = "idle" THEN "resuming" ELSE status[c]]
    BY <1>3 DEF RecallIntent, Manager!MarkResume, history, Given, RecordIsClean
  <2> QED
    BY <1>1, <2>1 DEF GivenUpIsLeft
<1>4. CASE Begin
  <2>1. CASE UNCHANGED manager
    BY <1>2, <1>4, <2>1 DEF Begin, manager, history
  <2>2. CASE Manager!RestartBegin
    BY <1>1, <1>4, <2>2 DEF Begin, history, Manager!RestartBegin, GivenUpIsLeft
  <2> QED
    BY <1>4, <2>1, <2>2 DEF Begin
<1>5. CASE WaitTimesOut
  BY <1>1, <1>5 DEF WaitTimesOut, history, GivenUpIsLeft
<1>6. ASSUME NEW c \in Configs, SendStop(c) \/ UserStop(c) PROVE GivenUpIsLeft'
  <2>1. gaveUp' = gaveUp \/ (gaveUp' = gaveUp \cup {c} /\ Manager!CancelResume(c))
    BY <1>6 DEF SendStop, UserStop, history
  <2>2. CASE Manager!Stop(c)
    <3>1. /\ status' = [status EXCEPT ![c] = "ending"] /\ mark' = [mark EXCEPT ![c] = mark[c]]
          /\ c \notin gaveUp /\ gaveUp' = gaveUp
      BY <1>1, <2>1, <2>2 DEF Manager!Stop, Manager!Move, Manager!CancelResume,
                              Manager!Cancellable, GivenUpIsLeft
    <3> QED
      BY <1>1, <3>1, LeftOne
  <2>3. CASE Manager!CancelResume(c)
    <3>1. status' = [status EXCEPT ![c] = "idle"] /\ mark' = [mark EXCEPT ![c] = FALSE]
      BY <2>3 DEF Manager!CancelResume, Manager!Move
    <3> QED
      BY <1>1, <2>1, <3>1, LeftOne
  <2>4. CASE UNCHANGED manager
    BY <1>2, <1>6, <2>1, <2>3, <2>4 DEF manager
  <2> QED
    BY <1>6, <2>2, <2>3, <2>4 DEF SendStop, UserStop
<1>7. CASE ReleaseRun \/ QueueResume
  BY <1>7 DEF ReleaseRun, QueueResume, Given, NoGivingBack, WrappingUp
<1>8. CASE Replace
  BY <1>1, <1>8 DEF Replace, history, GivenUpIsLeft
<1>9. ASSUME NEW q \in Queues, QueueNext(q) PROVE GivenUpIsLeft'
  <2>1. gaveUp' = gaveUp
    BY <1>9 DEF QueueNext, QueueRead, QueueScan, QueueStart, QueueDone, QueueNextConfig, history
  <2>2. ASSUME NEW S, Manager!DropResume(S) PROVE GivenUpIsLeft'
    BY <1>1, <2>1, <2>2 DEF Manager!DropResume, GivenUpIsLeft
  <2>3. ASSUME NEW c \in Configs, Manager!Resume(c) PROVE GivenUpIsLeft'
    <3>1. /\ status' = [status EXCEPT ![c] = "up"] /\ mark' = [mark EXCEPT ![c] = mark[c]] /\ c \notin gaveUp
      BY <1>1, <2>3 DEF Manager!Resume, Manager!Move, GivenUpIsLeft
    <3> QED
      BY <1>1, <2>1, <3>1, LeftOne
  <2>4. QueueStart(q) => queue[q].config \in Configs
    BY <1>1 DEF QueueStart, QueueTasks
  <2>5. \/ UNCHANGED manager
        \/ \E S : Manager!DropResume(S)
        \/ \E c \in Configs : Manager!Resume(c)
    BY <1>9, <2>4 DEF QueueNext, QueueRead, QueueScan, QueueStart, QueueDone, QueueNextConfig
  <2> QED
    BY <1>2, <2>1, <2>2, <2>3, <2>5 DEF manager
<1>10. ASSUME NEW c \in Configs, UserStart(c) PROVE GivenUpIsLeft'
  <2>1. gaveUp' = gaveUp \ {c}
    BY <1>10 DEF UserStart
  <2>2. \E s, m : status' = [status EXCEPT ![c] = s] /\ mark' = [mark EXCEPT ![c] = m]
    BY <1>10 DEF UserStart, Manager!Start, Manager!QueueStart, Manager!Move
  <2> QED
    BY <1>1, <2>1, <2>2, LeftOne
<1>11. ASSUME NEW c \in Configs, UserKill(c) PROVE GivenUpIsLeft'
  <2>1. /\ gaveUp' = gaveUp \cup {c}
        /\ status' = [status EXCEPT ![c] = "ending"] /\ mark' = [mark EXCEPT ![c] = FALSE]
    BY <1>11 DEF UserKill, Manager!GiveUp, Manager!Move
  <2> QED
    BY <1>1, <2>1, LeftOne
<1>12. ASSUME NEW c \in Configs, WorkerCrash(c) \/ WorkerGone(c) PROVE GivenUpIsLeft'
  <2>1. gaveUp' = gaveUp
    BY <1>12 DEF WorkerCrash, WorkerGone, history
  <2>2. CASE Manager!Stop(c)
    <3>1. /\ status' = [status EXCEPT ![c] = "ending"] /\ mark' = [mark EXCEPT ![c] = mark[c]]
          /\ c \notin gaveUp
      BY <1>1, <2>2 DEF Manager!Stop, Manager!Move, GivenUpIsLeft
    <3> QED
      BY <1>1, <2>1, <3>1, LeftOne
  <2>3. CASE Manager!Ended(c)
    <3>1. /\ status' = [status EXCEPT ![c] = IF mark[c] THEN "parked" ELSE "idle"]
          /\ mark' = [mark EXCEPT ![c] = mark[c]]
      BY <2>3 DEF Manager!Ended, Manager!Move
    <3>2. c \in gaveUp => ~mark[c]
      BY <1>1 DEF GivenUpIsLeft
    <3> QED
      BY <1>1, <2>1, <3>1, <3>2, LeftOne
  <2> QED
    BY <1>12, <2>2, <2>3 DEF WorkerCrash, WorkerGone
<1>13. CASE \/ OpenWindow \/ ReadIntent \/ StartupWork \/ ReadQueued \/ AcquireLock
            \/ PreCheck \/ EnterWait \/ WaitOver \/ WaitAborted \/ FreezeList \/ CloseWindow \/ Updated
            \/ Publish \/ Order \/ HandoverFailed \/ CollectParked \/ CollectQueued
            \/ ReleaseSlot \/ (\E kind \in Kinds : Request(kind)) \/ UNCHANGED vars
  <2>1. UNCHANGED <<status, mark, gaveUp>>
    BY <1>13 DEF OpenWindow, ReadIntent, StartupWork, ReadQueued, AcquireLock, PreCheck,
                 EnterWait, WaitOver, WaitAborted, FreezeList, CloseWindow, Updated, Publish,
                 Order, HandoverFailed, CollectParked, CollectQueued, ReleaseSlot, Request,
                 vars, manager, history, Manager!Freeze
  <2> QED
    BY <1>2, <2>1
<1> QED
  BY <1>3, <1>4, <1>5, <1>6, <1>7, <1>8, <1>9, <1>10, <1>11, <1>12, <1>13, CalmSplits
  DEF Starts, Stops, Ends, Slot, QuietAside, CInv, Undisturbed

LEMMA RecordKept ==
  ASSUME FInv, Calm, CInv, Straight, Given, [Next]_vars
  PROVE  RecordIsClean'
<1>1. /\ FlowOK /\ OwnPcs /\ intent \in (SUBSET Configs) \cup {None}
      /\ happens' = happens /\ gaveUp \subseteq Configs
      /\ status \in [Configs -> Manager!Statuses]
  BY TypesSplit, NextSplits DEF FInv, RestOK, TypeOK, Manager!TypeOK
<1>. USE DEF RecordIsClean
<1>2. CASE ReadIntent
  <2>1. /\ flow.pc = "read" /\ flow'.list = flow.list /\ gaveUp' = gaveUp /\ status' = status
    BY <1>1, <1>2, StartSteps DEF ReadIntent, To, manager, history
  <2> QED
    BY <1>1, <2>1 DEF Given
<1>3. CASE Starts /\ ~ReadIntent
  <2>1. flow'.pc \notin {"read", "recall"}
    BY <1>1, <1>3, StartSteps DEF Starts, To
  <2> QED
    BY <2>1
<1>4. CASE Stops \/ Ends
  <2>1. flow'.pc \notin {"read", "recall"}
    <3>1. CASE Stops
      BY <1>1, <3>1, StopSteps DEF Stops, To, Out
    <3>2. CASE Ends
      BY <1>1, <3>2, EndSteps DEF Ends, To
    <3> QED
      BY <1>4, <3>1, <3>2
  <2> QED
    BY <2>1
<1>5. CASE ReleaseSlot \/ \E kind \in Kinds : Request(kind)
  BY <1>1, <1>5, SlotSteps DEF Begins
<1>6. CASE Replace
  <2>1. /\ flow'.list = Record /\ gaveUp' = gaveUp /\ \A c \in Configs : status'[c] = "idle"
    BY <1>1, <1>6, SlotSteps DEF Begins, Replace, history
  <2>2. Record \cap gaveUp = {}
    <3>1. CASE intent = None
      BY <3>1 DEF Record
    <3>2. CASE intent # None
      <4>1. Record = intent
        BY <3>2, Zenon DEF Record
      <4>2. intent = run.list /\ run.list = Manager!With("parked")
        BY <3>2 DEF Given, FileIsFrozenList, FInv, MInv, Manager!FrozenListExact
      <4> QED
        BY <4>1, <4>2 DEF Given, GivenUpIsLeft, Manager!With
    <3> QED
      BY <3>1, <3>2
  <2> QED
    BY <2>1, <2>2
<1>7. ASSUME QuietAside, flow.pc \in {"read", "recall"}
      PROVE  RecordIsClean'
  <2>1. /\ flow.kind = "startup" /\ flow' = flow /\ flow.kind # None
        /\ \A c \in Configs : status[c] \in {"idle", "resuming"}
        /\ \A q \in Queues : ~QueueNext(q)
    <3>1. flow.kind = "startup" /\ flow' = flow /\ flow.kind # None
      BY <1>1, <1>7, QuietKept, FlowAssumption DEF OwnPcs
    <3> QED
      BY <3>1 DEF CInv, StartsUp, QueueNext, QueueRead, QueueScan, QueueStart, QueueDone,
                  QueueNextConfig
  <2>2. CASE UNCHANGED vars
    BY <1>1, <1>7, <2>2 DEF vars, Given
  <2>3. ASSUME NEW c \in Configs, UserStart(c) PROVE RecordIsClean'
    <3>1. "queue" \in happens /\ gaveUp' \subseteq gaveUp
      BY <2>1, <2>3 DEF UserStart
    <3> QED
      BY <1>1, <1>7, <2>1, <3>1 DEF Given
  <2>4. \A c \in Configs : ~UserKill(c) /\ ~WorkerCrash(c) /\ ~WorkerGone(c)
    BY <2>1 DEF UserKill, WorkerCrash, WorkerGone, Manager!GiveUp, Manager!Stop
  <2>5. \A c \in Configs : ~UserStop(c)
    <3> SUFFICES ASSUME NEW c \in Configs, UserStop(c) PROVE FALSE
      OBVIOUS
    <3>1. status[c] = "idle"
      BY <1>7 DEF UserStop, Straight, Given
    <3> QED
      BY <3>1 DEF UserStop, Manager!Stop, Manager!CancelResume, Manager!Cancellable
  <2> QED
    BY <1>7, <2>1, <2>2, <2>3, <2>4, <2>5 DEF QuietAside
<1>8. CASE QuietAside
  BY <1>7, <1>8, QuietKept
<1> QED
  BY <1>2, <1>3, <1>4, <1>5, <1>6, <1>8, CalmSplits DEF Slot, CInv, Undisturbed

\* A config whose auto-resume the user has cancelled is not resumed, by this
\* process or the next one: unless a flow is interrupted, or users both stop and
\* queue starts (a config that is started and given up while the new process has
\* its old record in hand is resumed from the record).
THEOREM StopsAreHonoured ==
  Spec /\ Calm /\ ~({"queue", "stop"} \subseteq happens) => []UserStopHonoured
<1>. DEFINE Inv == /\ FInv /\ Calm /\ CInv /\ ~({"queue", "stop"} \subseteq happens)
                   /\ (Straight => Given)
<1>1. Init /\ Calm /\ ~({"queue", "stop"} \subseteq happens) => Inv
  BY InitFInv, CInvKept DEF Init, Startup, NewFlow, Manager!Init, Given, GivenUpIsLeft,
                            NoGivingBack, FileIsFrozenList, RecordIsClean, WrappingUp
<1>2. Inv /\ [Next]_vars => Inv'
  <2>1. [Next]_vars => happens' = happens
    BY NextSplits
  <2>2. [Next]_vars => (Calm' <=> Calm) /\ (Straight' <=> Straight)
    BY <2>1 DEF Calm, Straight
  <2>3. FInv /\ Calm /\ CInv /\ Straight /\ Given /\ [Next]_vars => Given'
    BY NoGivingBackKept, FileKept, GivenUpKept, RecordKept DEF Given
  <2> QED
    BY <2>1, <2>2, <2>3, FInvKept, CInvKept
<1>3. Inv => UserStopHonoured
  BY DEF Straight, Given, GivenUpIsLeft, UserStopHonoured, GivenUpStays
<1> QED
  BY <1>1, <1>2, <1>3, PTL DEF Spec
=============================================================================
