------------------------ MODULE WorkerManagerProofs ------------------------
(***************************************************************************)
(* Theorems about WorkerManager, for every value of its constants: the     *)
(* types and what a restart marks; then what depends on which thread works *)
(* on which entry and which process: a stopped entry has no process,       *)
(* close() ends what it took, a stop reaches its worker; and, as long as   *)
(* nothing is killed, that no worker is lost from the dict, that a frozen  *)
(* backend has no worker left, and that the manager implements             *)
(* WorkerStates.                                                           *)
(***************************************************************************)
EXTENDS WorkerManager, TLAPS

\* An actor inside of a call works on an entry and a config, one that spawns a
\* process on a run, and a recv thread on an entry.
ThreadsOK ==
    /\ \A a \in Actors : call[a].pc # "ready" =>
         call[a].entry \in Entries /\ call[a].config \in Configs
    /\ \A a \in Actors : call[a].pc \in {"spawn", "register"} => call[a].run \in Runs
    /\ \A a \in Actors : call[a].pc = "send" => call[a].cmd \in Commands
    /\ \A r \in Runs : recv[r].pc # "none" => recv[r].entry \in Entries

TInv == TypeOK /\ ThreadsOK

\* What is true of the entry w that is registered for config c.
EntryOK(c, w) ==
    /\ w.config = c
    /\ w.pending => restart.inflight
    /\ w.state = "parked" => w.pending
    /\ restart.inflight => w.state # "resuming"

EntriesOK == \A c \in Configs : reg[c] # None => EntryOK(c, ent[reg[c]])

\* The inductive invariant.
IInv == TInv /\ EntriesOK

----------------------------------------------------------------------------
(* Operators                                                               *)

LEMMA BlankType == ASSUME NEW c \in Configs PROVE Blank(c) \in Entry
BY DEF Blank, Entry, States

LEMMA ReadyType == Ready \in Call /\ Ready.pc = "ready"
BY DEF Ready, Call

LEMMA ReturnType ==
    ASSUME TypeOK, NEW a \in Actors
    PROVE  /\ Return(a) \in [Actors -> Call]
           /\ Return(a)[a].pc = "ready"
           /\ \A b \in Actors \ {a} : Return(a)[b] = call[b]
BY ReadyType DEF TypeOK, Return

LEMMA PublishType ==
    ASSUME TypeOK, NEW e, NEW new \in Entry, Publish(e, new)
    PROVE  reg' \in [Configs -> Entries \cup {None}] /\ ent' \in [Entries -> Entry]
BY DEF TypeOK, Publish

\* The entry of a config that is not idle exists.
LEMMA NotIdle ==
    ASSUME TypeOK, NEW c \in Configs, StateOf(c) # "idle"
    PROVE  reg[c] \in Entries /\ ent[reg[c]] \in Entry /\ StateOf(c) = ent[reg[c]].state
BY DEF TypeOK, StateOf

\* The entry a start works on, before and after.
LEMMA EntryForType ==
    ASSUME TypeOK, NEW c \in Configs, NEW e \in EntryFor(c)
    PROVE  e \in Entries /\ Before(c, e) \in Entry
BY BlankType, ConstantsAssumption DEF EntryFor, Before, TypeOK, UnusedEntries

LEMMA BeforeOK ==
    ASSUME TypeOK, EntriesOK, NEW c \in Configs, NEW e \in EntryFor(c)
    PROVE  EntryOK(c, Before(c, e))
BY DEF TypeOK, EntriesOK, EntryOK, EntryFor, Before, Blank

LEMMA CancelResumeType ==
    ASSUME TypeOK, NEW c \in Configs, NEW keep, CancelsResume(c, keep), CancelResume(c)
    PROVE  reg' \in [Configs -> Entries \cup {None}] /\ ent' \in [Entries -> Entry]
<1>1. reg[c] \in Entries /\ ent[reg[c]] \in Entry
  BY NotIdle DEF CancelsResume
<1>2. [ent[reg[c]] EXCEPT !.pending = FALSE, !.state = "idle"] \in Entry
  BY <1>1 DEF Entry, States
<1>. QED
  BY <1>2, PublishType DEF CancelResume

LEMMA MarkType ==
    ASSUME TInv, NEW a \in Actors, NEW c \in Configs, reg[c] \in Entries, NEW new \in Entry,
           NEW keep \in BOOLEAN, NEW pc \in {"send", "reap"}, NEW cmd \in Commands,
           Mark(a, c, new, keep, pc, cmd)
    PROVE  /\ reg' \in [Configs -> Entries \cup {None}] /\ ent' \in [Entries -> Entry]
           /\ call' \in [Actors -> Call]
           /\ \A b \in Actors \ {a} : call'[b] = call[b]
           /\ call'[a].entry = reg[c] /\ call'[a].config = c /\ call'[a].pc = pc
           /\ call'[a].cmd = cmd
<1>1. Publish(reg[c], new)
  BY DEF Mark
<1>2. reg' \in [Configs -> Entries \cup {None}] /\ ent' \in [Entries -> Entry]
  BY <1>1, PublishType DEF TInv
<1>3. [Ready EXCEPT !.pc = pc, !.config = c, !.entry = reg[c], !.keep = keep, !.cmd = cmd] \in Call
  BY DEF Ready, Call
<1>4. call' \in [Actors -> Call] /\ \A b \in Actors \ {a} : call'[b] = call[b]
  BY <1>3 DEF Mark, TInv, TypeOK
<1>5. /\ call'[a].entry = reg[c] /\ call'[a].config = c /\ call'[a].pc = pc
      /\ call'[a].cmd = cmd
  BY DEF Mark, TInv, TypeOK, Ready
<1>. QED
  BY <1>2, <1>4, <1>5

LEMMA StopRequestType ==
    ASSUME TInv, NEW a \in Actors, NEW c \in Configs, NEW keep \in BOOLEAN,
           StopRequest(a, c, keep), UNCHANGED <<proc, ctl, recv, stage, restart, flow, closing>>,
           todo' \in SUBSET Configs
    PROVE  TInv'
<1>1. CASE CancelsResume(c, keep) /\ CancelResume(c) /\ UNCHANGED call
  BY <1>1, CancelResumeType DEF TInv, TypeOK, ThreadsOK
<1>2. CASE /\ StateOf(c) \in Stoppable
           /\ Mark(a, c, [ent[reg[c]] EXCEPT !.state = "scheduler-stopping"], FALSE,
                   "send", "scheduler-stopping")
  <2>1. reg[c] \in Entries /\ ent[reg[c]] \in Entry
    BY <1>2, NotIdle DEF TInv, Stoppable
  <2>2. [ent[reg[c]] EXCEPT !.state = "scheduler-stopping"] \in Entry
    BY <2>1 DEF Entry, States
  <2>3. /\ reg' \in [Configs -> Entries \cup {None}] /\ ent' \in [Entries -> Entry]
        /\ call' \in [Actors -> Call]
        /\ \A b \in Actors \ {a} : call'[b] = call[b]
        /\ call'[a].entry = reg[c] /\ call'[a].config = c /\ call'[a].pc = "send"
        /\ call'[a].cmd \in Commands
    BY <1>2, <2>1, <2>2, MarkType DEF Commands
  <2>. QED
    BY <2>1, <2>3 DEF TInv, TypeOK, ThreadsOK
<1>3. CASE UNCHANGED <<reg, ent, call>>
  BY <1>3 DEF TInv, TypeOK, ThreadsOK
<1>. QED
  BY <1>1, <1>2, <1>3 DEF StopRequest

LEMMA KillRequestType ==
    ASSUME TInv, NEW a \in Actors, NEW c \in Configs, NEW keep \in BOOLEAN,
           KillRequest(a, c, keep), UNCHANGED <<proc, ctl, recv, stage, restart, flow, closing>>,
           todo' \in SUBSET Configs
    PROVE  TInv'
<1>1. CASE CancelsResume(c, keep) /\ CancelResume(c) /\ UNCHANGED call
  BY <1>1, CancelResumeType DEF TInv, TypeOK, ThreadsOK
<1>2. CASE /\ StateOf(c) \in Killable
           /\ Mark(a, c, [ent[reg[c]] EXCEPT !.state = "killing", !.pending = keep /\ @], keep,
                   "send", "killing")
  <2>1. reg[c] \in Entries /\ ent[reg[c]] \in Entry
    BY <1>2, NotIdle DEF TInv, Killable, Stoppable
  <2>2. [ent[reg[c]] EXCEPT !.state = "killing", !.pending = keep /\ @] \in Entry
    BY <2>1 DEF Entry, States
  <2>3. /\ reg' \in [Configs -> Entries \cup {None}] /\ ent' \in [Entries -> Entry]
        /\ call' \in [Actors -> Call]
        /\ \A b \in Actors \ {a} : call'[b] = call[b]
        /\ call'[a].entry = reg[c] /\ call'[a].config = c /\ call'[a].pc \in {"send", "reap"}
        /\ call'[a].cmd \in Commands
    BY <1>2, <2>1, <2>2, MarkType DEF Commands
  <2>. QED
    BY <2>1, <2>3 DEF TInv, TypeOK, ThreadsOK
<1>3. CASE UNCHANGED <<reg, ent, call>>
  BY <1>3 DEF TInv, TypeOK, ThreadsOK
<1>. QED
  BY <1>1, <1>2, <1>3 DEF KillRequest

LEMMA ForceKillRequestType ==
    ASSUME TInv, NEW a \in Actors, NEW c \in Configs, NEW keep \in BOOLEAN, NEW done,
           done \in {call, Return(a)},
           ForceKillRequest(a, c, keep, done),
           UNCHANGED <<proc, ctl, recv, stage, todo, restart, flow, closing>>
    PROVE  TInv'
<1>0. /\ done \in [Actors -> Call]
      /\ \A b \in Actors : done[b].pc # "ready" => done[b] = call[b]
  BY ReadyType DEF Return, TInv, TypeOK
<1>1. CASE CancelsResume(c, keep) /\ CancelResume(c) /\ call' = done
  BY <1>0, <1>1, CancelResumeType DEF TInv, TypeOK, ThreadsOK
<1>2. CASE /\ StateOf(c) \in ForceKillable
           /\ Mark(a, c, [ent[reg[c]] EXCEPT !.state = "force-killing", !.pending = keep /\ @],
                   keep, AfterForceKillMark(reg[c]), "force-killing")
  <2>1. reg[c] \in Entries /\ ent[reg[c]] \in Entry
    BY <1>2, NotIdle DEF TInv, ForceKillable, Killable, Stoppable
  <2>2. [ent[reg[c]] EXCEPT !.state = "force-killing", !.pending = keep /\ @] \in Entry
    BY <2>1 DEF Entry, States
  <2>3. AfterForceKillMark(reg[c]) \in {"send", "reap"}
    BY DEF AfterForceKillMark
  <2>4. /\ reg' \in [Configs -> Entries \cup {None}] /\ ent' \in [Entries -> Entry]
        /\ call' \in [Actors -> Call]
        /\ \A b \in Actors \ {a} : call'[b] = call[b]
        /\ call'[a].entry = reg[c] /\ call'[a].config = c /\ call'[a].pc \in {"send", "reap"}
        /\ call'[a].cmd \in Commands
    BY <1>2, <2>1, <2>2, <2>3, MarkType DEF Commands
  <2>. QED
    BY <2>1, <2>4 DEF TInv, TypeOK, ThreadsOK
<1>3. CASE call' = done /\ UNCHANGED <<reg, ent>>
  BY <1>0, <1>3 DEF TInv, TypeOK, ThreadsOK
<1>. QED
  BY <1>1, <1>2, <1>3 DEF ForceKillRequest

LEMMA MarkStartingType ==
    ASSUME TInv, NEW a \in Actors, NEW e \in Entries, NEW r \in Runs,
           NEW before \in Entry, before.config \in Configs, MarkStarting(a, e, r, before),
           UNCHANGED <<recv, stage, todo, restart, flow, closing>>
    PROVE  TInv'
<1>1. [before EXCEPT !.state = "starting", !.conn = r] \in Entry
  BY DEF Entry, States
<1>2. [Ready EXCEPT !.pc = "spawn", !.config = before.config, !.entry = e, !.run = r] \in Call
  BY DEF Ready, Call
<1>3. reg' \in [Configs -> Entries \cup {None}] /\ ent' \in [Entries -> Entry]
  BY <1>1 DEF MarkStarting, TInv, TypeOK
<1>4. proc' \in [Runs -> ProcStates] /\ ctl' \in [Runs -> Orders]
  BY DEF MarkStarting, TInv, TypeOK, ProcStates, Orders
<1>5. /\ call' \in [Actors -> Call]
      /\ \A b \in Actors \ {a} : call'[b] = call[b]
  BY <1>2 DEF MarkStarting, TInv, TypeOK
<1>6. /\ call'[a].entry = e /\ call'[a].config = before.config /\ call'[a].run = r
      /\ call'[a].pc = "spawn"
  BY DEF MarkStarting, TInv, TypeOK, Ready
<1>7. TypeOK'
  BY <1>3, <1>4, <1>5 DEF TInv, TypeOK
<1>8. ThreadsOK'
  BY <1>5, <1>6 DEF TInv, ThreadsOK
<1>. QED
  BY <1>7, <1>8 DEF TInv

LEMMA KillProcessType ==
    ASSUME TypeOK, NEW p, KillProcess(p)
    PROVE  proc' \in [Runs -> ProcStates]
BY DEF TypeOK, KillProcess, ProcStates

LEMMA CloseConnType ==
    ASSUME TypeOK, NEW p, CloseConn(p)
    PROVE  ctl' \in [Runs -> Orders]
BY DEF TypeOK, CloseConn, Orders

----------------------------------------------------------------------------
(* Type correctness                                                        *)

LEMMA TypeInit == Init => TInv
BY ConstantsAssumption
   DEF Init, TInv, TypeOK, ThreadsOK, Entry, Blank, ProcStates, Orders, RecvThread, NoThread,
       Call, Ready, RestartRun, NoRestart, Stages, States, Closing

LEMMA TypeStarts ==
    ASSUME TInv, EntriesOK,
           NEW a \in Callers, NEW c \in Configs,
           Start(a, c) \/ QueueStart(a, c) \/ Resume(a, c)
    PROVE  TInv'
<1>. a \in Actors
  BY DEF Actors
<1>1. CASE Start(a, c)
  <2>1. PICK e \in EntryFor(c), r \in UnusedRuns :
               MarkStarting(a, e, r, [Before(c, e) EXCEPT !.pending = FALSE])
    BY <1>1 DEF Start
  <2>2. e \in Entries /\ Before(c, e) \in Entry
    BY EntryForType DEF TInv
  <2>3. Before(c, e).config = c
    BY BeforeOK DEF TInv, EntryOK
  <2>4. /\ [Before(c, e) EXCEPT !.pending = FALSE] \in Entry
        /\ [Before(c, e) EXCEPT !.pending = FALSE].config = c
    BY <2>2, <2>3 DEF Entry
  <2>5. r \in Runs
    BY DEF UnusedRuns
  <2>6. UNCHANGED <<recv, stage, todo, restart, flow, closing>>
    BY <1>1 DEF Start
  <2>. QED
    BY <2>1, <2>2, <2>4, <2>5, <2>6, MarkStartingType
<1>2. CASE QueueStart(a, c)
  <2>1. PICK e \in EntryFor(c) :
            /\ ent' = [ent EXCEPT ![e] =
                   [Before(c, e) EXCEPT !.pending = restart.inflight,
                        !.state = IF restart.inflight THEN "parked" ELSE "resuming"]]
            /\ reg' = [reg EXCEPT ![c] = e]
    BY <1>2 DEF QueueStart
  <2>2. e \in Entries /\ Before(c, e) \in Entry
    BY EntryForType DEF TInv
  <2>3. restart.inflight \in BOOLEAN
    BY DEF TInv, TypeOK, RestartRun
  <2>4. [Before(c, e) EXCEPT !.pending = restart.inflight,
             !.state = IF restart.inflight THEN "parked" ELSE "resuming"] \in Entry
    BY <2>2, <2>3 DEF Entry, States
  <2>5. reg' \in [Configs -> Entries \cup {None}] /\ ent' \in [Entries -> Entry]
    BY <2>1, <2>2, <2>4 DEF TInv, TypeOK
  <2>. QED
    BY <1>2, <2>5 DEF TInv, TypeOK, ThreadsOK, QueueStart
<1>3. CASE Resume(a, c)
  <2>1. PICK r \in UnusedRuns : MarkStarting(a, reg[c], r, ent[reg[c]])
    BY <1>3 DEF Resume
  <2>2. reg[c] \in Entries /\ ent[reg[c]] \in Entry
    BY <1>3, NotIdle DEF TInv, Resume
  <2>3. ent[reg[c]].config = c
    BY <2>2, ConstantsAssumption DEF EntriesOK, EntryOK
  <2>4. r \in Runs /\ UNCHANGED <<recv, stage, todo, restart, flow, closing>>
    BY <1>3 DEF UnusedRuns, Resume
  <2>. QED
    BY <2>1, <2>2, <2>3, <2>4, MarkStartingType
<1>. QED
  BY <1>1, <1>2, <1>3

LEMMA TypeCalls ==
    ASSUME TInv, NEW a \in Actors, CallNext(a)
    PROVE  TInv'
<1>1. CASE Spawn(a)
  <2>1. TypeOK'
    BY ZenonT(40), <1>1 DEF TInv, TypeOK, Spawn, Call, ProcStates
  <2>2. ThreadsOK'
    BY <1>1 DEF TInv, TypeOK, ThreadsOK, Spawn, Call
  <2>. QED
    BY <2>1, <2>2 DEF TInv
<1>2. CASE SpawnFail(a)
  <2>. DEFINE e == call[a].entry
              new == [ent[e] EXCEPT !.conn = None,
                         !.state = IF ent[e].pending THEN "parked" ELSE "error"]
  <2>1. e \in Entries /\ ent[e] \in Entry
    BY <1>2 DEF TInv, TypeOK, ThreadsOK, SpawnFail
  <2>2. new \in Entry
    BY <2>1 DEF Entry, States
  <2>3. ent' \in [Entries -> Entry] /\ UNCHANGED <<reg, recv, stage, todo, restart, flow, closing>>
    BY <1>2, <2>1, <2>2 DEF SpawnFail, TInv, TypeOK
  <2>4. proc' \in [Runs -> ProcStates]
    BY <1>2 DEF SpawnFail, TInv, TypeOK, ProcStates
  <2>5. ctl' \in [Runs -> Orders]
    BY <1>2, CloseConnType DEF SpawnFail, TInv
  <2>6. call' = Return(a)
    BY <1>2 DEF SpawnFail
  <2>. QED
    BY <2>3, <2>4, <2>5, <2>6, ReturnType DEF TInv, TypeOK, ThreadsOK
<1>3. CASE Register(a)
  <2>. DEFINE e == call[a].entry
              r == call[a].run
  <2>1. e \in Entries /\ r \in Runs /\ ent[e] \in Entry
    BY <1>3 DEF TInv, TypeOK, ThreadsOK, Register
  <2>2. [ent[e] EXCEPT !.process = r] \in Entry
    BY <2>1 DEF Entry
  <2>3. [NoThread EXCEPT !.pc = "loop", !.entry = e] \in RecvThread
    BY <2>1 DEF NoThread, RecvThread, States
  <2>4. ent' \in [Entries -> Entry] /\ recv' \in [Runs -> RecvThread]
    BY <1>3, <2>1, <2>2, <2>3 DEF Register, TInv, TypeOK
  <2>5. \A q \in Runs : recv'[q].pc # "none" => recv'[q].entry \in Entries
    BY <1>3, <2>1 DEF Register, TInv, TypeOK, ThreadsOK, NoThread
  <2>6. call' = Return(a) /\ UNCHANGED <<reg, proc, ctl, stage, todo, restart, flow, closing>>
    BY <1>3 DEF Register
  <2>. QED
    BY <2>4, <2>5, <2>6, ReturnType DEF TInv, TypeOK, ThreadsOK
<1>4. CASE Send(a)
  <2>2. ctl' \in [Runs -> Orders]
    <3>. DEFINE r == ent[call[a].entry].conn
    <3>1. CASE UNCHANGED ctl
      BY <3>1 DEF TInv, TypeOK
    <3>2. CASE r \in Runs /\ ctl' = [ctl EXCEPT ![r] = Told(ctl[r], call[a].cmd)]
      <4>1. call[a].cmd \in Commands
        BY <1>4 DEF TInv, ThreadsOK, Send
      <4>2. ctl[r] \in Orders
        BY <3>2 DEF TInv, TypeOK
      <4>3. Told(ctl[r], call[a].cmd) \in Orders
        BY <4>1, <4>2 DEF Told, Orders, Commands
      <4>. QED
        BY <3>2, <4>3 DEF TInv, TypeOK
    <3>. QED
      BY <1>4, <3>1, <3>2 DEF Send
  <2>3. CASE call' = [call EXCEPT ![a].pc = "killwait"]
    <3>1. call' \in [Actors -> Call]
      BY <2>3 DEF TInv, TypeOK, Call
    <3>2. ThreadsOK'
      BY <1>4, <2>3 DEF TInv, TypeOK, ThreadsOK, Send, Call
    <3>. QED
      BY <1>4, <2>2, <3>1, <3>2 DEF TInv, TypeOK, Send
  <2>4. CASE call' = Return(a)
    <3>1. TypeOK'
      BY <1>4, <2>2, <2>4, ReturnType DEF TInv, TypeOK, Send
    <3>2. ThreadsOK'
      BY <1>4, <2>4, ReturnType DEF TInv, TypeOK, ThreadsOK, Send
    <3>. QED
      BY <3>1, <3>2 DEF TInv
  <2>. QED
    BY <1>4, <2>3, <2>4 DEF Send
<1>5. CASE KillDone(a)
  BY <1>5, ReturnType DEF TInv, TypeOK, ThreadsOK, KillDone
<1>6. CASE KillTimeout(a)
  <2>1. TypeOK'
    BY <1>6 DEF TInv, TypeOK, KillTimeout, Call
  <2>2. ThreadsOK'
    BY <1>6 DEF TInv, TypeOK, ThreadsOK, KillTimeout, Call
  <2>. QED
    BY <2>1, <2>2 DEF TInv
<1>7. CASE Escalate(a)
  <2>1. call[a].config \in Configs /\ call[a].keep \in BOOLEAN
    BY <1>7 DEF TInv, TypeOK, ThreadsOK, Escalate, Call
  <2>. QED
    BY <1>7, <2>1, ForceKillRequestType DEF Escalate
<1>8. CASE Reap(a)
  <2>1. proc' \in [Runs -> ProcStates] /\ ctl' \in [Runs -> Orders]
    BY <1>8, KillProcessType, CloseConnType DEF Reap, TInv
  <2>2. call' \in [Actors -> Call]
    BY <1>8 DEF Reap, TInv, TypeOK, Call
  <2>3. ThreadsOK'
    BY <1>8 DEF TInv, TypeOK, ThreadsOK, Reap, Call
  <2>. QED
    BY <1>8, <2>1, <2>2, <2>3 DEF Reap, TInv, TypeOK
<1>9. CASE Finish(a)
  <2>. DEFINE e == call[a].entry
              new == [ent[e] EXCEPT !.process = None, !.conn = None,
                         !.state = IF ent[e].pending THEN "parked" ELSE "idle"]
  <2>1. e \in Entries /\ ent[e] \in Entry
    BY <1>9 DEF TInv, TypeOK, ThreadsOK, Finish
  <2>2. new \in Entry
    BY <2>1 DEF Entry, States
  <2>3. reg' \in [Configs -> Entries \cup {None}] /\ ent' \in [Entries -> Entry]
    BY <1>9, <2>2, PublishType DEF Finish, TInv
  <2>4. call' = Return(a) /\ UNCHANGED <<proc, ctl, recv, stage, todo, restart, flow, closing>>
    BY <1>9 DEF Finish
  <2>. QED
    BY <2>3, <2>4, ReturnType DEF TInv, TypeOK, ThreadsOK
<1>. QED
  BY <1>1, <1>2, <1>3, <1>4, <1>5, <1>6, <1>7, <1>8, <1>9 DEF CallNext

LEMMA TypeRecv ==
    ASSUME TInv, NEW r \in Runs, RecvNext(r)
    PROVE  TInv'
<1>. DEFINE e == recv[r].entry
<1>1. recv[r].pc # "none"
  BY DEF RecvNext, Report, Disconnect, ReapDisconnected, FinishDisconnect
<1>2. recv[r] \in RecvThread /\ e \in Entries /\ ent[e] \in Entry
  BY <1>1 DEF TInv, TypeOK, ThreadsOK
<1>3. CASE Report(r)
  <2>1. [ent[e] EXCEPT !.state = "running"] \in Entry
    BY <1>2 DEF Entry, States
  <2>2. ent' \in [Entries -> Entry]
    BY <1>2, <1>3, <2>1 DEF Report, TInv, TypeOK
  <2>. QED
    BY <1>3, <2>2 DEF Report, TInv, TypeOK, ThreadsOK
<1>4. CASE Disconnect(r)
  <2>. DEFINE publish == reg[ent[e].config] = e
              t == [recv[r] EXCEPT !.pc = "reap", !.publish = publish, !.before = ent[e].state]
  <2>1. [ent[e] EXCEPT !.state = "disconnected"] \in Entry
    BY <1>2 DEF Entry, States
  <2>2. ent' \in [Entries -> Entry]
    BY <1>2, <1>4, <2>1 DEF Disconnect, TInv, TypeOK
  <2>3. t \in RecvThread /\ t.entry = e
    BY <1>2 DEF RecvThread, Entry
  <2>4. recv' \in [Runs -> RecvThread]
    BY <1>4, <2>3 DEF Disconnect, TInv, TypeOK
  <2>5. \A q \in Runs : recv'[q].pc # "none" => recv'[q].entry \in Entries
    BY <1>2, <1>4, <2>3 DEF Disconnect, TInv, TypeOK, ThreadsOK
  <2>. QED
    BY <1>4, <2>2, <2>4, <2>5 DEF Disconnect, TInv, TypeOK, ThreadsOK
<1>5. CASE ReapDisconnected(r)
  <2>. DEFINE p == ent[e].process
              t == [recv[r] EXCEPT !.pc = "final", !.ok = p \in Runs /\ proc[p] = "exited"]
  <2>1. proc' \in [Runs -> ProcStates] /\ ctl' \in [Runs -> Orders]
    BY <1>5, KillProcessType, CloseConnType DEF ReapDisconnected, TInv
  <2>2. t \in RecvThread /\ t.entry = e
    BY <1>2 DEF RecvThread
  <2>3. recv' \in [Runs -> RecvThread]
    BY <1>5, <2>2 DEF ReapDisconnected, TInv, TypeOK
  <2>4. \A q \in Runs : recv'[q].pc # "none" => recv'[q].entry \in Entries
    BY <1>2, <1>5, <2>2 DEF ReapDisconnected, TInv, TypeOK, ThreadsOK
  <2>. QED
    BY <1>5, <2>1, <2>3, <2>4 DEF ReapDisconnected, TInv, TypeOK, ThreadsOK
<1>6. CASE FinishDisconnect(r)
  <2>. DEFINE gone == [ent[e] EXCEPT !.conn = None, !.process = None]
              new == [gone EXCEPT !.state = FinalState(gone.pending, recv[r])]
  <2>1. gone \in Entry
    BY <1>2 DEF Entry
  <2>2. FinalState(gone.pending, recv[r]) \in States
    BY <1>2, <2>1 DEF FinalState, States, Entry, RecvThread
  <2>3. new \in Entry
    BY <2>1, <2>2 DEF Entry
  <2>4. reg' \in [Configs -> Entries \cup {None}] /\ ent' \in [Entries -> Entry]
    <3>1. CASE Publish(e, new)
      BY <2>3, <3>1, PublishType DEF TInv
    <3>2. CASE ent' = [ent EXCEPT ![e] = gone] /\ UNCHANGED reg
      BY <2>1, <3>2 DEF TInv, TypeOK
    <3>. QED
      BY <1>6, <3>1, <3>2 DEF FinishDisconnect
  <2>5. NoThread \in RecvThread /\ NoThread.pc = "none"
    BY DEF NoThread, RecvThread, States
  <2>6. recv' \in [Runs -> RecvThread]
    BY <1>6, <2>5 DEF FinishDisconnect, TInv, TypeOK
  <2>7. \A q \in Runs : recv'[q].pc # "none" => recv'[q].entry \in Entries
    BY <1>6, <2>5 DEF FinishDisconnect, TInv, TypeOK, ThreadsOK
  <2>. QED
    BY <1>6, <2>4, <2>6, <2>7 DEF FinishDisconnect, TInv, TypeOK, ThreadsOK
<1>. QED
  BY <1>3, <1>4, <1>5, <1>6 DEF RecvNext

LEMMA TypeWorker ==
    ASSUME TInv, NEW r \in Runs, WorkerNext(r)
    PROVE  TInv'
<1>1. proc' \in [Runs -> ProcStates]
  BY DEF WorkerNext, WorkerClosesPipe, WorkerExit, TInv, TypeOK, ProcStates
<1>2. UNCHANGED <<reg, ent, ctl, recv, call, stage, todo, restart, flow, closing>>
  BY DEF WorkerNext, WorkerClosesPipe, WorkerExit
<1>. QED
  BY <1>1, <1>2 DEF TInv, TypeOK, ThreadsOK

LEMMA TypeOrch ==
    ASSUME TInv, OrchNext
    PROVE  TInv'
<1>. Orch \in Actors
  BY DEF Actors
<1>1. ASSUME NEW c \in Configs, StopNext(c) PROVE TInv'
  <2>1. todo' \in SUBSET Configs
    BY <1>1 DEF StopNext, TInv, TypeOK
  <2>. QED
    BY <1>1, <2>1, StopRequestType DEF StopNext
<1>2. ASSUME NEW c \in Configs, KillNext(c) PROVE TInv'
  <2>1. todo' \in SUBSET Configs
    BY <1>2 DEF KillNext, TInv, TypeOK
  <2>. QED
    BY <1>2, <2>1, KillRequestType DEF KillNext
<1>3. CASE StopsSent
  BY <1>3 DEF StopsSent, TInv, TypeOK, ThreadsOK, Stages
<1>4. CASE WaitOver
  BY <1>4 DEF WaitOver, TInv, TypeOK, ThreadsOK, Stages
<1>5. CASE WaitAborted
  BY <1>5 DEF WaitAborted, TInv, TypeOK, ThreadsOK, Stages
<1>6. CASE WaitTimesOut
  <2>1. PendingConfigs \in SUBSET Configs
    BY DEF PendingConfigs
  <2>. QED
    BY <1>6, <2>1 DEF WaitTimesOut, TInv, TypeOK, ThreadsOK, Stages
<1>7. CASE KillsSent
  BY <1>7 DEF KillsSent, TInv, TypeOK, ThreadsOK, Stages
<1>8. CASE Freeze
  <2>1. restart' \in RestartRun /\ stage' \in Stages
    BY ZenonT(40), <1>8 DEF Freeze, TInv, TypeOK, RestartRun, Stages
  <2>. QED
    BY <1>8, <2>1 DEF Freeze, TInv, TypeOK, ThreadsOK
<1>. QED
  BY <1>1, <1>2, <1>3, <1>4, <1>5, <1>6, <1>7, <1>8 DEF OrchNext

\* What Taken and Released make of an entry is an entry.
LEMMA TakenType ==
    ASSUME NEW w \in Entry
    PROVE  Taken(w) \in Entry /\ Released(w) \in Entry
BY DEF Taken, Released, Entry, States

LEMMA TypeUser ==
    ASSUME TInv, EntriesOK, UserNext
    PROVE  TInv'
<1>1. ASSUME NEW a \in Callers, NEW c \in Configs,
             Start(a, c) \/ QueueStart(a, c) \/ Resume(a, c)
      PROVE  TInv'
  BY <1>1, TypeStarts
<1>2. ASSUME NEW a \in Callers, NEW c \in Configs, SchedulerContinue(a, c)
      PROVE  TInv'
  <2>. DEFINE new == [ent[reg[c]] EXCEPT !.state = "running"]
  <2>1. a \in Actors /\ reg[c] \in Entries /\ ent[reg[c]] \in Entry
    BY <1>2, NotIdle DEF SchedulerContinue, TInv, Actors
  <2>2. new \in Entry
    BY <2>1 DEF Entry, States
  <2>3. Mark(a, c, new, FALSE, "send", "scheduler-continue")
    BY <1>2 DEF SchedulerContinue
  <2>4. /\ reg' \in [Configs -> Entries \cup {None}] /\ ent' \in [Entries -> Entry]
        /\ call' \in [Actors -> Call]
        /\ \A b \in Actors \ {a} : call'[b] = call[b]
        /\ call'[a].entry = reg[c] /\ call'[a].config = c /\ call'[a].pc = "send"
        /\ call'[a].cmd \in Commands
    BY <2>1, <2>2, <2>3, MarkType DEF Commands
  <2>5. UNCHANGED <<proc, ctl, recv, stage, todo, restart, flow, closing>>
    BY <1>2 DEF SchedulerContinue
  <2>. QED
    BY <2>1, <2>4, <2>5 DEF TInv, TypeOK, ThreadsOK
<1>3. ASSUME NEW a \in Callers, NEW c \in Configs, NEW keep \in BOOLEAN,
             SchedulerStop(a, c, keep) \/ Kill(a, c, keep) \/ ForceKill(a, c, keep)
      PROVE  TInv'
  <2>1. a \in Actors /\ todo \in SUBSET Configs
    BY DEF Actors, TInv, TypeOK
  <2>2. CASE SchedulerStop(a, c, keep)
    BY <2>1, <2>2, StopRequestType DEF SchedulerStop
  <2>3. CASE Kill(a, c, keep)
    BY <2>1, <2>3, KillRequestType DEF Kill
  <2>4. CASE ForceKill(a, c, keep)
    BY <2>1, <2>4, ForceKillRequestType DEF ForceKill
  <2>. QED
    BY <1>3, <2>2, <2>3, <2>4
<1>4. ASSUME NEW c \in Configs, MarkResume(c)
      PROVE  TInv'
  <2>1. PICK e \in EntryFor(c) :
            /\ ent' = [ent EXCEPT ![e] = [Before(c, e) EXCEPT !.state = "resuming"]]
            /\ reg' = [reg EXCEPT ![c] = e]
    BY <1>4 DEF MarkResume
  <2>2. e \in Entries /\ Before(c, e) \in Entry
    BY EntryForType DEF TInv
  <2>3. [Before(c, e) EXCEPT !.state = "resuming"] \in Entry
    BY <2>2 DEF Entry, States
  <2>4. reg' \in [Configs -> Entries \cup {None}] /\ ent' \in [Entries -> Entry]
    BY <2>1, <2>2, <2>3 DEF TInv, TypeOK
  <2>. QED
    BY <1>4, <2>4 DEF TInv, TypeOK, ThreadsOK, MarkResume
<1>5. ASSUME NEW c \in Configs, DropResume(c)
      PROVE  TInv'
  <2>1. reg[c] \in Entries /\ ent[reg[c]] \in Entry
    BY <1>5, NotIdle DEF DropResume, TInv
  <2>2. [ent[reg[c]] EXCEPT !.state = "idle"] \in Entry
    BY <2>1 DEF Entry, States
  <2>3. reg' \in [Configs -> Entries \cup {None}] /\ ent' \in [Entries -> Entry]
    BY <1>5, <2>2, PublishType DEF DropResume, TInv
  <2>. QED
    BY <1>5, <2>3 DEF TInv, TypeOK, ThreadsOK, DropResume
<1>6. CASE RestartBegin
  <2>1. ent' \in [Entries -> Entry]
    BY <1>6, TakenType DEF RestartBegin, TInv, TypeOK
  <2>2. Snapshot \in SUBSET Configs
    BY DEF Snapshot
  <2>3. restart' \in RestartRun
    BY <1>6 DEF RestartBegin, RestartRun, NoRestart
  <2>. QED
    BY <1>6, <2>1, <2>2, <2>3 DEF RestartBegin, TInv, TypeOK, ThreadsOK, Stages
<1>7. CASE RestartAbort
  <2>1. restart' \in RestartRun
    BY <1>7 DEF RestartAbort, TInv, TypeOK, RestartRun
  <2>. QED
    BY <1>7, <2>1 DEF RestartAbort, TInv, TypeOK, ThreadsOK
<1>8. CASE RestartCancel
  <2>1. ent' \in [Entries -> Entry]
    BY <1>8, TakenType DEF RestartCancel, TInv, TypeOK
  <2>2. reg' \in [Configs -> Entries \cup {None}]
    BY <1>8 DEF RestartCancel, TInv, TypeOK
  <2>3. restart' \in RestartRun /\ stage' \in Stages
    BY <1>8 DEF RestartCancel, RestartRun, NoRestart, TInv, TypeOK, Stages
  <2>. QED
    BY <1>8, <2>1, <2>2, <2>3 DEF RestartCancel, TInv, TypeOK, ThreadsOK
<1>9. CASE Flow
  BY <1>9 DEF Flow, FlowOpen, FlowSeal, FlowUnseal, FlowClose, TInv, TypeOK, ThreadsOK
<1>. QED
  BY <1>1, <1>2, <1>3, <1>4, <1>5, <1>6, <1>7, <1>8, <1>9 DEF UserNext

LEMMA TypeClose ==
    ASSUME TInv, CloseNext
    PROVE  TInv'
<1>1. CASE CloseTakes
  <2>1. \A e \in Entries : [ent[e] EXCEPT !.state = "killing"] \in Entry
    BY DEF TInv, TypeOK, Entry, States
  <2>2. ent' \in [Entries -> Entry]
    BY <1>1, <2>1 DEF CloseTakes, TInv, TypeOK
  <2>3. reg' \in [Configs -> Entries \cup {None}]
    BY <1>1 DEF CloseTakes, TInv, TypeOK
  <2>4. closing' \in Closing
    BY <1>1 DEF CloseTakes, TInv, TypeOK, Closing
  <2>. QED
    BY <1>1, <2>2, <2>3, <2>4 DEF CloseTakes, TInv, TypeOK, ThreadsOK
<1>2. CASE CloseReaps
  <2>1. proc' \in [Runs -> ProcStates]
    BY <1>2 DEF CloseReaps, TInv, TypeOK, ProcStates
  <2>2. ctl' \in [Runs -> Orders]
    BY <1>2 DEF CloseReaps, TInv, TypeOK, Orders
  <2>3. closing' \in Closing
    BY <1>2 DEF CloseReaps, TInv, TypeOK, Closing
  <2>. QED
    BY <1>2, <2>1, <2>2, <2>3 DEF CloseReaps, TInv, TypeOK, ThreadsOK
<1>3. CASE CloseEnds
  <2>1. \A e \in Entries :
          [ent[e] EXCEPT !.process = None, !.conn = None, !.state = "idle"] \in Entry
    BY DEF TInv, TypeOK, Entry, States
  <2>2. ent' \in [Entries -> Entry]
    BY <1>3, <2>1 DEF CloseEnds, TInv, TypeOK
  <2>3. reg' \in [Configs -> Entries \cup {None}]
    BY <1>3 DEF CloseEnds, TInv, TypeOK
  <2>4. closing' \in Closing
    BY <1>3 DEF CloseEnds, TInv, TypeOK, Closing
  <2>. QED
    BY <1>3, <2>2, <2>3, <2>4 DEF CloseEnds, TInv, TypeOK, ThreadsOK
<1>. QED
  BY <1>1, <1>2, <1>3 DEF CloseNext

LEMMA TypeStep ==
    ASSUME TInv, EntriesOK, [Next]_vars
    PROVE  TInv'
<1>1. CASE UserNext
  BY <1>1, TypeUser
<1>2. CASE \E a \in Actors : CallNext(a)
  BY <1>2, TypeCalls
<1>3. CASE \E r \in Runs : RecvNext(r) \/ WorkerNext(r)
  BY <1>3, TypeRecv, TypeWorker
<1>4. CASE OrchNext
  BY <1>4, TypeOrch
<1>5. CASE CloseNext
  BY <1>5, TypeClose
<1>6. CASE UNCHANGED vars
  BY <1>6 DEF vars, TInv, TypeOK, ThreadsOK
<1>. QED
  BY <1>1, <1>2, <1>3, <1>4, <1>5, <1>6 DEF Next

----------------------------------------------------------------------------
(* The marks of a graceful restart                                         *)

\* One entry is replaced and nothing registered: what was true of the entries
\* stays true when it is true of the replacement.
LEMMA EntryReplaced ==
    ASSUME TypeOK, EntriesOK, UNCHANGED restart, NEW e \in Entries, NEW new,
           ent' = [ent EXCEPT ![e] = new],
           \A c \in Configs : reg'[c] # None => reg'[c] = reg[c],
           \A c \in Configs : reg'[c] = e => EntryOK(c, new)
    PROVE  EntriesOK'
<1>. SUFFICES ASSUME NEW c \in Configs, reg'[c] # None
              PROVE  EntryOK(c, ent[reg[c]])'
  BY DEF EntriesOK
<1>1. reg'[c] = reg[c] /\ reg[c] \in Entries
  BY DEF TypeOK
<1>2. CASE reg[c] = e
  <2>1. ent'[reg'[c]] = new
    BY <1>1, <1>2 DEF TypeOK
  <2>. QED
    BY <1>1, <1>2, <2>1 DEF EntryOK
<1>3. CASE reg[c] # e
  <2>1. ent'[reg'[c]] = ent[reg[c]]
    BY <1>1, <1>3 DEF TypeOK
  <2>. QED
    BY <1>1, <2>1 DEF EntriesOK, EntryOK
<1>. QED
  BY <1>2, <1>3

\* Publish() registers nothing, and does not leave an idle entry registered
\* for its config.
LEMMA EntryPublished ==
    ASSUME TypeOK, EntriesOK, UNCHANGED restart, NEW e \in Entries, NEW new,
           Publish(e, new),
           \A c \in Configs : reg[c] = e => EntryOK(c, new)
    PROVE  EntriesOK'
<1>1. \A c \in Configs : reg'[c] # None => reg'[c] = reg[c]
  BY DEF Publish, TypeOK
<1>2. \A c \in Configs : reg'[c] = e => EntryOK(c, new)
  BY <1>1, ConstantsAssumption
<1>3. ent' = [ent EXCEPT ![e] = new]
  BY DEF Publish
<1>. QED
  BY <1>1, <1>2, <1>3, EntryReplaced

\* A start registers the entry it works on.
LEMMA EntryRegistered ==
    ASSUME TypeOK, EntriesOK, UNCHANGED restart, NEW c \in Configs, NEW e \in EntryFor(c), NEW new,
           ent' = [ent EXCEPT ![e] = new],
           reg' = [reg EXCEPT ![c] = e],
           EntryOK(c, new)
    PROVE  EntriesOK'
<1>1. e \in Entries
  BY EntryForType
<1>2. \A d \in Configs : d # c => reg[d] # e
  BY ConstantsAssumption DEF EntryFor, UnusedEntries, Registered, EntriesOK, EntryOK, TypeOK
<1>. SUFFICES ASSUME NEW d \in Configs, reg'[d] # None
              PROVE  EntryOK(d, ent[reg[d]])'
  BY DEF EntriesOK
<1>3. CASE d = c
  <2>1. ent'[reg'[d]] = new
    BY <1>1, <1>3 DEF TypeOK
  <2>. QED
    BY <1>3, <2>1 DEF EntryOK
<1>4. CASE d # c
  <2>1. reg'[d] = reg[d] /\ reg[d] # e /\ reg[d] \in Entries
    BY <1>2, <1>4 DEF TypeOK
  <2>2. ent'[reg'[d]] = ent[reg[d]]
    BY <1>1, <2>1 DEF TypeOK
  <2>. QED
    BY <2>1, <2>2 DEF EntriesOK, EntryOK
<1>. QED
  BY <1>3, <1>4

\* None of the three stop calls marks an entry, parks one or queues one.
LEMMA StopsKeepEntriesOK ==
    ASSUME TInv, EntriesOK, UNCHANGED restart,
           NEW a \in Actors, NEW c \in Configs, NEW keep \in BOOLEAN, NEW done,
           \/ StopRequest(a, c, keep)
           \/ KillRequest(a, c, keep)
           \/ ForceKillRequest(a, c, keep, done)
    PROVE  EntriesOK'
<1>1. CASE UNCHANGED <<reg, ent>>
  BY <1>1 DEF EntriesOK, EntryOK
<1>. SUFFICES ASSUME NEW new, StateOf(c) # "idle", Publish(reg[c], new),
                     new.config = ent[reg[c]].config,
                     new.state \notin {"parked", "resuming"},
                     new.pending => ent[reg[c]].pending
              PROVE  EntriesOK'
  <2>1. ASSUME StateOf(c) # "idle" PROVE ent[reg[c]] \in Entry
    BY <2>1, NotIdle DEF TInv
  <2>. DEFINE Becomes(new) ==
                /\ StateOf(c) # "idle" /\ Publish(reg[c], new)
                /\ new.config = ent[reg[c]].config
                /\ new.state \notin {"parked", "resuming"}
                /\ new.pending => ent[reg[c]].pending
  <2>2. ASSUME CancelsResume(c, keep), CancelResume(c) PROVE \E new : Becomes(new)
    <3>1. StateOf(c) # "idle"
      BY <2>2 DEF CancelsResume
    <3>2. Becomes([ent[reg[c]] EXCEPT !.pending = FALSE, !.state = "idle"])
      BY <2>1, <2>2, <3>1 DEF CancelResume, Entry
    <3>. QED
      BY <3>2
  <2>3. ASSUME StateOf(c) \in ForceKillable, NEW pc, NEW cmd, NEW s \in Commands, NEW k,
               \/ Mark(a, c, [ent[reg[c]] EXCEPT !.state = s], k, pc, cmd)
               \/ Mark(a, c, [ent[reg[c]] EXCEPT !.state = s, !.pending = keep /\ @],
                       k, pc, cmd)
        PROVE  \E new : Becomes(new)
    <3>1. StateOf(c) # "idle" /\ s \notin {"parked", "resuming"}
      BY <2>3 DEF ForceKillable, Killable, Stoppable, Commands
    <3>2. CASE Mark(a, c, [ent[reg[c]] EXCEPT !.state = s], k, pc, cmd)
      <4>1. Becomes([ent[reg[c]] EXCEPT !.state = s])
        BY <2>1, <3>1, <3>2 DEF Mark, Entry
      <4>. QED
        BY <4>1
    <3>3. CASE Mark(a, c, [ent[reg[c]] EXCEPT !.state = s, !.pending = keep /\ @], k, pc, cmd)
      <4>1. Becomes([ent[reg[c]] EXCEPT !.state = s, !.pending = keep /\ @])
        BY <2>1, <3>1, <3>3 DEF Mark, Entry
      <4>. QED
        BY <4>1
    <3>. QED
      BY <2>3, <3>2, <3>3
  <2>4. Stoppable \subseteq ForceKillable /\ Killable \subseteq ForceKillable
    BY DEF ForceKillable, Killable
  <2>5. CASE StopRequest(a, c, keep)
    BY <1>1, <2>2, <2>3, <2>4, <2>5 DEF StopRequest, Commands
  <2>6. CASE KillRequest(a, c, keep)
    BY <1>1, <2>2, <2>3, <2>4, <2>6 DEF KillRequest, Commands
  <2>7. CASE ForceKillRequest(a, c, keep, done)
    BY <1>1, <2>2, <2>3, <2>7 DEF ForceKillRequest, Commands
  <2>. QED
    BY <2>5, <2>6, <2>7
<1>2. reg[c] \in Entries
  BY NotIdle DEF TInv
<1>3. \A d \in Configs : reg[d] = reg[c] => EntryOK(d, new)
  BY <1>2, ConstantsAssumption DEF EntriesOK, EntryOK
<1>. QED
  BY <1>2, <1>3, EntryPublished DEF TInv

LEMMA EntriesUser ==
    ASSUME TInv, EntriesOK, UserNext
    PROVE  EntriesOK'
<1>0. ASSUME NEW c \in Configs, NEW e \in EntryFor(c)
      PROVE  e \in Entries /\ Before(c, e) \in Entry /\ EntryOK(c, Before(c, e))
  BY <1>0, EntryForType, BeforeOK DEF TInv
<1>1. ASSUME NEW a \in Callers, NEW c \in Configs, Start(a, c) PROVE EntriesOK'
  <2>1. PICK e \in EntryFor(c), r \in UnusedRuns :
               MarkStarting(a, e, r, [Before(c, e) EXCEPT !.pending = FALSE])
    BY <1>1 DEF Start
  <2>. DEFINE before == [Before(c, e) EXCEPT !.pending = FALSE]
              new == [before EXCEPT !.state = "starting", !.conn = r]
  <2>2. before.config = c /\ EntryOK(c, new)
    BY <1>0 DEF EntryOK, Entry
  <2>3. ent' = [ent EXCEPT ![e] = new] /\ reg' = [reg EXCEPT ![c] = e] /\ UNCHANGED restart
    BY <1>1, <2>1, <2>2 DEF MarkStarting, Start
  <2>. QED
    BY <2>2, <2>3, EntryRegistered DEF TInv
<1>2. ASSUME NEW a \in Callers, NEW c \in Configs, QueueStart(a, c) PROVE EntriesOK'
  <2>. DEFINE New(e) == [Before(c, e) EXCEPT !.pending = restart.inflight,
                            !.state = IF restart.inflight THEN "parked" ELSE "resuming"]
  <2>1. PICK e \in EntryFor(c) : ent' = [ent EXCEPT ![e] = New(e)] /\ reg' = [reg EXCEPT ![c] = e]
    BY <1>2 DEF QueueStart
  <2>2. restart.inflight \in BOOLEAN
    BY DEF TInv, TypeOK, RestartRun
  <2>3. EntryOK(c, New(e))
    BY <1>0, <2>2 DEF EntryOK, Entry
  <2>4. UNCHANGED restart
    BY <1>2 DEF QueueStart
  <2>. QED
    BY <2>1, <2>3, <2>4, EntryRegistered DEF TInv
<1>3. ASSUME NEW a \in Callers, NEW c \in Configs, Resume(a, c) PROVE EntriesOK'
  <2>1. PICK r \in UnusedRuns : MarkStarting(a, reg[c], r, ent[reg[c]])
    BY <1>3 DEF Resume
  <2>. DEFINE new == [ent[reg[c]] EXCEPT !.state = "starting", !.conn = r]
  <2>2. reg[c] \in Entries /\ ent[reg[c]] \in Entry
    BY <1>3, NotIdle DEF TInv, Resume
  <2>3. EntryOK(c, ent[reg[c]]) /\ reg[c] \in EntryFor(c)
    BY <2>2, ConstantsAssumption DEF EntriesOK, EntryFor
  <2>4. EntryOK(c, new)
    BY <2>2, <2>3 DEF EntryOK, Entry
  <2>5. ent' = [ent EXCEPT ![reg[c]] = new] /\ reg' = [reg EXCEPT ![c] = reg[c]]
    BY <2>1, <2>3 DEF MarkStarting, EntryOK
  <2>6. UNCHANGED restart
    BY <1>3 DEF Resume
  <2>. QED
    BY <2>3, <2>4, <2>5, <2>6, EntryRegistered DEF TInv
<1>4. ASSUME NEW a \in Callers, NEW c \in Configs, SchedulerContinue(a, c) PROVE EntriesOK'
  <2>. DEFINE new == [ent[reg[c]] EXCEPT !.state = "running"]
  <2>1. reg[c] \in Entries /\ ent[reg[c]] \in Entry
    BY <1>4, NotIdle DEF SchedulerContinue, TInv
  <2>2. \A d \in Configs : reg[d] = reg[c] => EntryOK(d, new)
    BY <2>1, ConstantsAssumption DEF EntriesOK, EntryOK, Entry
  <2>3. Publish(reg[c], new) /\ UNCHANGED restart
    BY <1>4 DEF SchedulerContinue, Mark
  <2>. QED
    BY <2>1, <2>2, <2>3, EntryPublished DEF TInv
<1>5. ASSUME NEW a \in Callers, NEW c \in Configs, NEW keep \in BOOLEAN,
             SchedulerStop(a, c, keep) \/ Kill(a, c, keep) \/ ForceKill(a, c, keep)
      PROVE  EntriesOK'
  <2>1. a \in Actors /\ UNCHANGED restart
    BY <1>5 DEF Actors, SchedulerStop, Kill, ForceKill
  <2>2. \/ StopRequest(a, c, keep)
        \/ KillRequest(a, c, keep)
        \/ ForceKillRequest(a, c, keep, call)
    BY <1>5 DEF SchedulerStop, Kill, ForceKill
  <2>. QED
    BY <2>1, <2>2, StopsKeepEntriesOK
<1>6. ASSUME NEW c \in Configs, MarkResume(c) PROVE EntriesOK'
  <2>. DEFINE New(e) == [Before(c, e) EXCEPT !.state = "resuming"]
  <2>1. PICK e \in EntryFor(c) : ent' = [ent EXCEPT ![e] = New(e)] /\ reg' = [reg EXCEPT ![c] = e]
    BY <1>6 DEF MarkResume
  <2>2. ~restart.inflight /\ UNCHANGED restart
    BY <1>6 DEF MarkResume
  <2>3. EntryOK(c, New(e))
    BY <1>0, <2>2 DEF EntryOK, Entry
  <2>. QED
    BY <2>1, <2>2, <2>3, EntryRegistered DEF TInv
<1>7. ASSUME NEW c \in Configs, DropResume(c) PROVE EntriesOK'
  <2>. DEFINE new == [ent[reg[c]] EXCEPT !.state = "idle"]
  <2>1. reg[c] \in Entries /\ ent[reg[c]] \in Entry
    BY <1>7, NotIdle DEF DropResume, TInv
  <2>2. \A d \in Configs : reg[d] = reg[c] => EntryOK(d, new)
    BY <2>1, ConstantsAssumption DEF EntriesOK, EntryOK, Entry
  <2>3. Publish(reg[c], new) /\ UNCHANGED restart
    BY <1>7 DEF DropResume
  <2>. QED
    BY <2>1, <2>2, <2>3, EntryPublished DEF TInv
<1>8. CASE RestartBegin
  <2>. SUFFICES ASSUME NEW c \in Configs, reg'[c] # None
                PROVE  EntryOK(c, ent[reg[c]])'
    BY DEF EntriesOK
  <2>1. reg'[c] = reg[c] /\ reg[c] \in Entries /\ ent[reg[c]] \in Entry /\ EntryOK(c, ent[reg[c]])
    BY <1>8 DEF RestartBegin, TInv, TypeOK, EntriesOK
  <2>2. ent'[reg[c]] = Taken(ent[reg[c]]) /\ restart'.inflight = TRUE
    BY <1>8, <2>1 DEF RestartBegin, Registered, NoRestart
  <2>3. /\ Taken(ent[reg[c]]).config = c
        /\ Taken(ent[reg[c]]).state = "parked" => Taken(ent[reg[c]]).pending
        /\ Taken(ent[reg[c]]).state # "resuming"
    BY <2>1 DEF EntryOK, Taken, Stoppable, Entry
  <2>. QED
    BY <2>1, <2>2, <2>3 DEF EntryOK
<1>9. CASE RestartAbort
  <2>1. restart'.inflight = restart.inflight /\ UNCHANGED <<reg, ent>>
    BY <1>9 DEF RestartAbort, TInv, TypeOK, RestartRun
  <2>. QED
    BY <2>1 DEF EntriesOK, EntryOK
<1>10. CASE RestartCancel
  <2>. SUFFICES ASSUME NEW c \in Configs, reg'[c] # None
                PROVE  EntryOK(c, ent[reg[c]])'
    BY DEF EntriesOK
  <2>1. reg'[c] = reg[c] /\ reg[c] \in Entries /\ ent[reg[c]] \in Entry /\ EntryOK(c, ent[reg[c]])
    BY <1>10 DEF RestartCancel, TInv, TypeOK, EntriesOK
  <2>2. ent'[reg[c]] = Released(ent[reg[c]]) /\ restart'.inflight = FALSE
    BY <1>10, <2>1 DEF RestartCancel, Registered, NoRestart
  <2>. QED
    BY <2>1, <2>2 DEF EntryOK, Released, Entry
<1>11. CASE Flow
  BY <1>11 DEF Flow, EntriesOK, EntryOK
<1>. QED
  BY <1>1, <1>2, <1>3, <1>4, <1>5, <1>6, <1>7, <1>8, <1>9, <1>10, <1>11 DEF UserNext

LEMMA EntriesCalls ==
    ASSUME TInv, EntriesOK, NEW a \in Actors, CallNext(a)
    PROVE  EntriesOK'
<1>. DEFINE e == call[a].entry
<1>1. CASE UNCHANGED <<reg, ent, restart>>
  BY <1>1 DEF EntriesOK, EntryOK
<1>2. UNCHANGED restart
  BY DEF CallNext, Spawn, SpawnFail, Register, Send, KillDone, KillTimeout, Escalate, Reap, Finish
<1>3. call[a].pc # "ready" /\ e \in Entries /\ ent[e] \in Entry
  BY DEF CallNext, Spawn, SpawnFail, Register, Send, KillDone, KillTimeout, Escalate, Reap,
         Finish, TInv, TypeOK, ThreadsOK
<1>4. CASE SpawnFail(a)
  <2>. DEFINE new == [ent[e] EXCEPT !.conn = None,
                         !.state = IF ent[e].pending THEN "parked" ELSE "error"]
  <2>1. ent' = [ent EXCEPT ![e] = new] /\ UNCHANGED reg
    BY <1>4 DEF SpawnFail
  <2>2. \A c \in Configs : reg[c] = e => EntryOK(c, new)
    BY <1>3, ConstantsAssumption DEF EntriesOK, EntryOK, Entry
  <2>. QED
    BY <1>2, <1>3, <2>1, <2>2, EntryReplaced DEF TInv
<1>5. CASE Register(a)
  <2>. DEFINE new == [ent[e] EXCEPT !.process = call[a].run]
  <2>1. ent' = [ent EXCEPT ![e] = new] /\ UNCHANGED reg
    BY <1>5 DEF Register
  <2>2. \A c \in Configs : reg[c] = e => EntryOK(c, new)
    BY <1>3, ConstantsAssumption DEF EntriesOK, EntryOK, Entry
  <2>. QED
    BY <1>2, <1>3, <2>1, <2>2, EntryReplaced DEF TInv
<1>6. CASE Escalate(a)
  <2>1. call[a].config \in Configs /\ call[a].keep \in BOOLEAN
    BY <1>3 DEF TInv, TypeOK, ThreadsOK, Call
  <2>. QED
    BY <1>2, <1>6, <2>1, StopsKeepEntriesOK DEF Escalate
<1>7. CASE Finish(a)
  <2>. DEFINE new == [ent[e] EXCEPT !.process = None, !.conn = None,
                         !.state = IF ent[e].pending THEN "parked" ELSE "idle"]
  <2>1. Publish(e, new)
    BY <1>7 DEF Finish
  <2>2. \A c \in Configs : reg[c] = e => EntryOK(c, new)
    BY <1>3, ConstantsAssumption DEF EntriesOK, EntryOK, Entry
  <2>. QED
    BY <1>2, <1>3, <2>1, <2>2, EntryPublished DEF TInv
<1>. QED
  BY <1>1, <1>2, <1>4, <1>5, <1>6, <1>7
     DEF CallNext, Spawn, Send, KillDone, KillTimeout, Reap

LEMMA EntriesRecv ==
    ASSUME TInv, EntriesOK, NEW r \in Runs, RecvNext(r)
    PROVE  EntriesOK'
<1>. DEFINE e == recv[r].entry
<1>1. UNCHANGED restart
  BY DEF RecvNext, Report, Disconnect, ReapDisconnected, FinishDisconnect
<1>2. recv[r].pc # "none"
  BY DEF RecvNext, Report, Disconnect, ReapDisconnected, FinishDisconnect
<1>3. recv[r] \in RecvThread /\ e \in Entries /\ ent[e] \in Entry
  BY <1>2 DEF TInv, TypeOK, ThreadsOK
<1>4. ASSUME NEW s \in {"running", "disconnected"}, ent' = [ent EXCEPT ![e].state = s],
             UNCHANGED reg
      PROVE  EntriesOK'
  <2>. DEFINE new == [ent[e] EXCEPT !.state = s]
  <2>1. ent' = [ent EXCEPT ![e] = new]
    BY <1>3, <1>4 DEF TInv, TypeOK
  <2>2. \A c \in Configs : reg[c] = e => EntryOK(c, new)
    BY <1>3, <1>4, ConstantsAssumption DEF EntriesOK, EntryOK, Entry
  <2>. QED
    BY <1>1, <1>3, <1>4, <2>1, <2>2, EntryReplaced DEF TInv
<1>5. CASE UNCHANGED <<reg, ent>>
  BY <1>1, <1>5 DEF EntriesOK, EntryOK
<1>6. CASE FinishDisconnect(r)
  <2>. DEFINE gone == [ent[e] EXCEPT !.conn = None, !.process = None]
              new == [gone EXCEPT !.state = FinalState(gone.pending, recv[r])]
  <2>1. CASE Publish(e, new)
    <3>1. gone.pending = ent[e].pending /\ gone.pending \in BOOLEAN /\ recv[r].ok \in BOOLEAN
      BY <1>3 DEF Entry, RecvThread
    <3>2. FinalState(gone.pending, recv[r]) = "parked" => gone.pending
      BY <3>1 DEF FinalState
    <3>3. FinalState(gone.pending, recv[r]) # "resuming"
      BY <3>1 DEF FinalState
    <3>4. /\ new.config = ent[e].config /\ new.pending = ent[e].pending
          /\ new.state = FinalState(gone.pending, recv[r])
      BY <1>3 DEF Entry
    <3>5. \A c \in Configs : reg[c] = e => EntryOK(c, new)
      BY <1>3, <3>1, <3>2, <3>3, <3>4, ConstantsAssumption DEF EntriesOK, EntryOK
    <3>. QED
      BY <1>1, <1>3, <2>1, <3>5, EntryPublished DEF TInv
  <2>2. CASE ent' = [ent EXCEPT ![e] = gone] /\ UNCHANGED reg
    <3>1. \A c \in Configs : reg[c] = e => EntryOK(c, gone)
      BY <1>3, ConstantsAssumption DEF EntriesOK, EntryOK, Entry
    <3>. QED
      BY <1>1, <1>3, <2>2, <3>1, EntryReplaced DEF TInv
  <2>. QED
    BY <1>6, <2>1, <2>2 DEF FinishDisconnect
<1>. QED
  BY <1>4, <1>5, <1>6 DEF RecvNext, Report, Disconnect, ReapDisconnected

LEMMA EntriesOrch ==
    ASSUME TInv, EntriesOK, OrchNext
    PROVE  EntriesOK'
<1>1. ASSUME NEW c \in Configs, StopNext(c) \/ KillNext(c) PROVE EntriesOK'
  BY <1>1, StopsKeepEntriesOK DEF StopNext, KillNext, Actors
<1>2. CASE UNCHANGED <<reg, ent>> /\ restart'.inflight = restart.inflight
  BY <1>2 DEF EntriesOK, EntryOK
<1>3. CASE Freeze
  <2>1. restart'.inflight = restart.inflight
    BY <1>3 DEF Freeze, TInv, TypeOK, RestartRun
  <2>. QED
    BY <1>2, <1>3, <2>1 DEF Freeze
<1>. QED
  BY <1>1, <1>2, <1>3 DEF OrchNext, StopsSent, WaitOver, WaitAborted, WaitTimesOut, KillsSent

\* close() registers nothing, and what it makes of an entry carries no mark that was
\* not there; an entry it takes may be registered no more.
LEMMA EntriesClose ==
    ASSUME TInv, EntriesOK, CloseNext
    PROVE  EntriesOK'
<1>1. CASE UNCHANGED <<reg, ent, restart>>
  BY <1>1 DEF EntriesOK, EntryOK
<1>2. CASE CloseTakes
  <2>1. CASE reg' = [c \in Configs |-> None]
    BY <2>1 DEF EntriesOK
  <2>. QED
    BY <1>1, <1>2, <2>1 DEF CloseTakes
<1>3. CASE CloseEnds
  <2>. SUFFICES ASSUME NEW c \in Configs, reg'[c] # None
                PROVE  EntryOK(c, ent[reg[c]])'
    BY DEF EntriesOK
  <2>1. reg'[c] = reg[c] /\ reg[c] \in Entries /\ restart' = restart
    BY <1>3 DEF CloseEnds, TInv, TypeOK
  <2>2. EntryOK(c, ent[reg[c]])
    BY <2>1, ConstantsAssumption DEF EntriesOK
  <2>3. ent[reg[c]] \in Entry
    BY <2>1 DEF TInv, TypeOK
  <2>4. \/ ent'[reg[c]] = ent[reg[c]]
        \/ ent'[reg[c]] = [ent[reg[c]] EXCEPT !.process = None, !.conn = None, !.state = "idle"]
    BY <1>3, <2>1 DEF CloseEnds
  <2>. QED
    BY <2>1, <2>2, <2>3, <2>4 DEF EntryOK, Entry
<1>. QED
  BY <1>1, <1>2, <1>3 DEF CloseNext, CloseReaps

LEMMA EntriesStep ==
    ASSUME TInv, EntriesOK, [Next]_vars
    PROVE  EntriesOK'
<1>1. CASE UserNext
  BY <1>1, EntriesUser
<1>2. CASE \E a \in Actors : CallNext(a)
  BY <1>2, EntriesCalls
<1>3. ASSUME NEW r \in Runs, RecvNext(r) PROVE EntriesOK'
  BY <1>3, EntriesRecv
<1>4. ASSUME NEW r \in Runs, WorkerNext(r) PROVE EntriesOK'
  BY <1>4 DEF WorkerNext, WorkerClosesPipe, WorkerExit, EntriesOK, EntryOK
<1>5. CASE OrchNext
  BY <1>5, EntriesOrch
<1>6. CASE CloseNext
  BY <1>6, EntriesClose
<1>7. CASE UNCHANGED vars
  BY <1>7 DEF vars, EntriesOK, EntryOK
<1>. QED
  BY <1>1, <1>2, <1>3, <1>4, <1>5, <1>6, <1>7 DEF Next

----------------------------------------------------------------------------
(* The theorems                                                            *)

\* IInv holds in every reachable state: threads work on entries and configs
\* that exist, and every registered entry obeys the graceful restart.
THEOREM Invariance == Spec => []IInv
<1>1. Init => IInv
  <2>1. Init => EntriesOK
    BY DEF Init, EntriesOK
  <2>. QED
    BY <2>1, TypeInit DEF IInv
<1>2. IInv /\ [Next]_vars => IInv'
  BY TypeStep, EntriesStep DEF IInv
<1>. QED
  BY <1>1, <1>2, PTL DEF Spec

\* TypeOK: every variable of the manager keeps its type, whatever the number
\* of configs, threads and worker processes.
THEOREM TypeCorrect == Spec => []TypeOK
<1>1. IInv => TypeOK
  BY DEF IInv, TInv
<1>. QED
  BY <1>1, Invariance, PTL

\* MarksBelongToARestart: neither a restart mark nor a parked entry outlives
\* the graceful restart it belongs to, so that no worker is parked for a
\* restart nobody runs (restart_begin(), restart_cancel()).
THEOREM MarksTheorem == Spec => []MarksBelongToARestart
<1>1. IInv => MarksBelongToARestart
  BY DEF IInv, EntriesOK, EntryOK, MarksBelongToARestart
<1>. QED
  BY <1>1, Invariance, PTL

\* NoResumingInRestart: no entry is queued for auto-resume while a graceful
\* restart is in flight (mark_resume(), restart_begin()).
THEOREM ResumingTheorem == Spec => []NoResumingInRestart
<1>1. IInv => NoResumingInRestart
  BY DEF IInv, EntriesOK, EntryOK, NoResumingInRestart, StateOf
<1>. QED
  BY <1>1, Invariance, PTL

----------------------------------------------------------------------------
(* Threads, entries and processes                                          *)


Spawning(a) == call[a].pc \in {"spawn", "register"}
Reaping(a) == call[a].pc \in {"reap", "final"}
Reads(r, e) == recv[r].pc # "none" /\ recv[r].entry = e

\* No two threads host the same run or the same entry: neither two callers that spawn,
\* nor two recv threads, nor one of each; and close() leaves nothing registered.
SpawnerApart(a) ==
    /\ recv[call[a].run].pc = "none"
    /\ call[a].pc = "spawn" <=> proc[call[a].run] = "pipe"
    /\ ent[call[a].entry].process = None
    /\ \A r \in Runs : ~Reads(r, call[a].entry)
    /\ \A b \in Actors : Spawning(b) /\ a # b =>
         call[a].run # call[b].run /\ call[a].entry # call[b].entry
    /\ \A b \in Actors : Reaping(b) => call[a].entry # call[b].entry
ReaderApart(r) ==
    /\ proc[r] # "pipe"
    /\ \A q \in Runs : Reads(q, recv[r].entry) => q = r
ClosedApart ==
    closing.entries \subseteq closing.taken /\ \A e \in closing.taken : ~Registered(e)
HostsApart ==
    /\ \A a \in Actors : Spawning(a) => SpawnerApart(a)
    /\ \A r \in Runs : recv[r].pc # "none" => ReaderApart(r)
    /\ ClosedApart

\* A registered entry that may be started again has been left by every thread that
\* worked on its last process.
Left(e) ==
    /\ \A a \in Actors : Spawning(a) \/ Reaping(a) => call[a].entry # e
    /\ \A r \in Runs : ~Reads(r, e)
Startable == {"idle", "error", "resuming"}
RestedOK ==
    \A e \in Entries : Registered(e) /\ ent[e].state \in Startable =>
        ent[e].process = None /\ Left(e)

\* A process that lives is the one its entry knows, and the entry is not shown as
\* stopped; the threads that end it have done so when they are at their last section.
LivesOK ==
    \A e \in Entries \ closing.taken :
        /\ \A a \in Actors : Spawning(a) /\ call[a].entry = e => ent[e].state \notin Stopped
        /\ \A r \in Runs : Reads(r, e) /\ Live(r) =>
             /\ ent[e].process = r /\ ent[e].state \notin Stopped
             /\ recv[r].pc # "final"
             /\ \A a \in Actors : call[a].pc = "final" => call[a].entry # e

\* Where a recv thread and a force kill are with a registered entry they both end.
EndOK(e) ==
    /\ \A r \in Runs : Reads(r, e) /\ recv[r].pc # "loop" =>
         ent[e].state \in {"disconnected", "parked"}
    /\ \A a \in Actors : Reaping(a) /\ call[a].entry = e =>
         /\ ent[e].state \in {"force-killing", "disconnected", "parked"}
         /\ \A r \in Runs : Reads(r, e) =>
              \/ recv[r].pc = "loop" /\ ent[e].state = "force-killing"
              \/ recv[r].pc # "loop" /\ ent[e].state = "disconnected"
                 /\ recv[r].before \in Killing
EndsOK == \A e \in Entries : Registered(e) => EndOK(e)
ReapersApart ==
    \A a, b \in Actors : Reaping(a) /\ Reaping(b) /\ call[a].entry = call[b].entry => a = b

\* The pipe of a hosted run is the one its entry knows, or it is closed; and it is
\* closed when the thread that closes it is done.
Running(r) == Live(r) \/ proc[r] = "pipe"
PipesOK ==
    \A e \in Entries, r \in Runs : Hosts(e, r) /\ Running(r) =>
        /\ ent[e].conn = r \/ ctl[r] = "closed"
        /\ \A a \in Actors : call[a].pc = "final" /\ call[a].entry = e => ctl[r] = "closed"

Apart ==
    /\ HostsApart /\ ReapersApart /\ RestedOK /\ LivesOK /\ EndsOK
    /\ PipesOK /\ CloseReachesTracked
HInv == IInv /\ Apart

\* What makes StopReachesWorker inductive, where no stop is taken back: until the worker
\* was told, the thread that tells it is on its way.
Working(r) == proc[r] \in {"pipe", "alive"}
Pending(e) == \E a \in Actors : call[a].pc = "send" /\ call[a].entry = e
NoContinue == \A a \in Actors : call[a].pc = "send" => call[a].cmd # "scheduler-continue"
StopsOK ==
    /\ NoContinue
    /\ \A e \in Entries, r \in Runs :
         ent[e].state = "scheduler-stopping" /\ Hosts(e, r) /\ Working(r) =>
             ctl[r] # "run" \/ Pending(e)

\* Where nothing is killed: no thread but the recv threads ends a process, ...
NoKills == Operations \cap {"kill", "force-kill", "close"} = {} /\ ~WaitTimeout
NothingKilled ==
    /\ \A a \in Actors :
         /\ call[a].pc \in {"ready", "spawn", "register", "send"}
         /\ call[a].pc = "send" => call[a].cmd \in {"scheduler-stopping", "scheduler-continue"}
    /\ stage \notin {"killing", "draining"}
    /\ closing = [pc |-> "open", entries |-> {}, taken |-> {}]
\* ... every process has a host and every host a registered entry that is not stopped, ...
AllHosted ==
    /\ \A r \in Runs : Running(r) => \E e \in Entries : Hosts(e, r)
    /\ \A e \in Entries, r \in Runs : Hosts(e, r) =>
         Registered(e) /\ ent[e].state \notin Stopped
\* ... and a freeze finds every worker stopped.
FreezeOK ==
    /\ ~restart.abort => restart.inflight
    /\ stage = "freezing" /\ ~restart.abort => PendingConfigs = {}
    /\ restart.inflight /\ restart.frozen => PendingConfigs = {}
KInv == HInv /\ NothingKilled /\ AllHosted /\ FreezeOK
----------------------------------------------------------------------------
(* What the steps do to hosts and entries                                  *)

Free(a) == ~Spawning(a) /\ ~Reaping(a)
Same(e) == /\ ent'[e].state = ent[e].state /\ ent'[e].process = ent[e].process
           /\ ent'[e].conn = ent[e].conn
OthersSame(e) == \A d \in Entries : d # e => Same(d)
CallsSame(a) == \A b \in Actors : b # a => call'[b] = call[b]
OthersKept(e) == \A d \in Entries : d # e /\ Registered(d) => Registered(d)'
NoneRegistered == \A e \in Entries : Registered(e)' => Registered(e)
NoneRevived ==
    \A r \in Runs : /\ Live(r)' => Live(r)
                    /\ proc'[r] = "pipe" <=> proc[r] = "pipe"
                    /\ proc'[r] = "alive" => proc[r] = "alive"
                    /\ ctl[r] = "closed" => ctl'[r] = "closed"

\* Most steps only change how an entry is shown, and what a caller does that hosts
\* nothing.
Relabelled(e) ==
    /\ ent'[e].process = ent[e].process /\ ent'[e].conn = ent[e].conn
    /\ ent'[e].state \in Stopped => ent[e].state \in Stopped
    /\ Registered(e)' /\ ent'[e].state \in Startable => ent'[e].state = ent[e].state
    /\ Registered(e)' /\ ent[e].state \in {"force-killing", "disconnected", "parked"} =>
         ent'[e].state = ent[e].state
    /\ Registered(e) /\ ent[e].state \notin Stopped => Registered(e)'
Labels ==
    /\ UNCHANGED <<recv, closing>>
    /\ NoneRegistered /\ NoneRevived
    /\ \A a \in Actors : call'[a] = call[a] \/ (Free(a) /\ Free(a)')
    /\ \A e \in Entries : Relabelled(e)

\* A start, and an entry that is queued for one.
StartsOn(a, e, r) ==
    /\ Free(a) /\ Left(e) /\ e \notin closing.taken
    /\ recv[r].pc = "none" /\ ~Running(r) /\ \A b \in Actors : call[b].run # r
    /\ ent'[e].state = "starting" /\ ent'[e].process = None /\ ent'[e].conn = r
    /\ OthersSame(e) /\ \A d \in Entries : d # e /\ Registered(d)' => Registered(d)
    /\ OthersKept(e) /\ Registered(e)'
    /\ call'[a].pc = "spawn" /\ call'[a].entry = e /\ call'[a].run = r /\ CallsSame(a)
    /\ proc'[r] = "pipe" /\ \A q \in Runs : q # r => proc'[q] = proc[q] /\ ctl'[q] = ctl[q]
    /\ UNCHANGED <<recv, closing>>
Queues(e) ==
    /\ Left(e) /\ e \notin closing.taken
    /\ ent'[e].state \in {"parked", "resuming"} /\ ent'[e].process = None
    /\ OthersSame(e) /\ \A d \in Entries : d # e /\ Registered(d)' => Registered(d)
    /\ OthersKept(e)
    /\ UNCHANGED <<proc, ctl, recv, call, closing>>

\* A force kill goes on to end the process.
MarksReap(a, e) ==
    /\ Free(a) /\ call'[a].pc = "reap" /\ call'[a].entry = e /\ CallsSame(a)
    /\ Registered(e) /\ ent[e].process # None
    /\ ent[e].state \in ForceKillable
    /\ ent'[e].state = "force-killing" /\ ent'[e].process = ent[e].process
    /\ ent'[e].conn = ent[e].conn /\ OthersSame(e)
    /\ NoneRegistered
    /\ UNCHANGED <<proc, ctl, recv, closing>>

\* The steps of a spawn.
Spawns(a, e, r) ==
    /\ call[a].pc = "spawn" /\ call[a].entry = e /\ call[a].run = r
    /\ call'[a].pc = "register" /\ call'[a].entry = e /\ call'[a].run = r /\ CallsSame(a)
    /\ proc'[r] = "alive" /\ \A q \in Runs : q # r => proc'[q] = proc[q]
    /\ UNCHANGED <<reg, ent, ctl, recv, closing>>
FailsToSpawn(a, e, r) ==
    /\ call[a].pc = "spawn" /\ call[a].entry = e /\ call[a].run = r
    /\ Free(a)' /\ CallsSame(a)
    /\ ent'[e].state \in {"parked", "error"} /\ ent'[e].process = ent[e].process
    /\ OthersSame(e)
    /\ proc'[r] = "none" /\ \A q \in Runs : q # r => proc'[q] = proc[q] /\ ctl'[q] = ctl[q]
    /\ UNCHANGED <<reg, recv, closing>>
RecvsSame(r) == \A q \in Runs : q # r => recv'[q] = recv[q]
Registers(a, e, r) ==
    /\ call[a].pc = "register" /\ call[a].entry = e /\ call[a].run = r
    /\ Free(a)' /\ CallsSame(a)
    /\ ent'[e].state = ent[e].state /\ ent'[e].process = r /\ ent'[e].conn = ent[e].conn
    /\ OthersSame(e)
    /\ recv'[r].pc = "loop" /\ recv'[r].entry = e /\ RecvsSame(r)
    /\ UNCHANGED <<reg, proc, ctl, closing>>

\* The steps of a thread that ends the worker of entry e.
Kills(e) ==
    /\ NoneRevived
    /\ \A r \in Runs : /\ ent[e].process = r => ~Live(r)'
                       /\ ent[e].conn = r => ctl'[r] = "closed"
    /\ UNCHANGED <<reg, ent, closing>>
Reaps(a, e) ==
    /\ call[a].pc = "reap" /\ call[a].entry = e
    /\ call'[a].pc = "final" /\ call'[a].entry = e /\ CallsSame(a)
    /\ Kills(e) /\ UNCHANGED recv
Finishes(a, e) ==
    /\ call[a].pc = "final" /\ call[a].entry = e /\ Free(a)' /\ CallsSame(a)
    /\ ent'[e].state \in {"parked", "idle"} /\ ent'[e].process = None /\ OthersSame(e)
    /\ NoneRegistered /\ (ent'[e].state = "idle" => ~Registered(e)')
    /\ UNCHANGED <<proc, ctl, recv, closing>>
Disconnects(r, e) ==
    /\ recv[r].pc = "loop" /\ recv[r].entry = e
    /\ recv'[r].pc = "reap" /\ recv'[r].entry = e /\ recv'[r].before = ent[e].state
    /\ RecvsSame(r)
    /\ ent'[e].state \in {"disconnected", ent[e].state}
    /\ Registered(e) => ent'[e].state = "disconnected"
    /\ ent'[e].process = ent[e].process /\ ent'[e].conn = ent[e].conn /\ OthersSame(e)
    /\ UNCHANGED <<reg, proc, ctl, call, closing>>
ReapsDisconnected(r, e) ==
    /\ recv[r].pc = "reap" /\ recv[r].entry = e
    /\ recv'[r].pc = "final" /\ recv'[r].entry = e /\ recv'[r].before = recv[r].before
    /\ RecvsSame(r) /\ Kills(e) /\ UNCHANGED call
FinishesDisconnect(r, e) ==
    /\ recv[r].pc = "final" /\ recv[r].entry = e /\ recv'[r].pc = "none" /\ RecvsSame(r)
    /\ ent'[e].process = None /\ OthersSame(e) /\ NoneRegistered
    /\ Registered(e) => OthersKept(e)
    /\ \/ ent'[e].state \in {ent[e].state, "parked"}
       \/ ent'[e].state = "idle" /\ ~Registered(e)'
       \/ ent'[e].state = "error" /\ recv[r].before \notin Killing
    /\ UNCHANGED <<proc, ctl, call, closing>>

\* The steps of close().
TakesRound ==
    /\ closing.taken \subseteq closing'.taken
    /\ closing'.entries \subseteq closing'.taken \cap Entries
    /\ \/ closing'.pc = "reap" /\ closing'.taken \subseteq closing.taken \cup closing'.entries
       \/ closing'.pc = "closed" /\ closing'.taken = closing.taken
    /\ \A e \in Entries : /\ ~Registered(e)'
                          /\ e \notin closing'.taken => Same(e)
                          /\ ent'[e].process = ent[e].process /\ ent'[e].conn = ent[e].conn
    /\ closing.pc # "reap"
    /\ UNCHANGED <<proc, ctl, recv, call>>
ReapsRound ==
    /\ closing.pc = "reap" /\ closing'.taken = closing.taken
    /\ closing'.entries = closing.entries
    /\ NoneRevived
    /\ \A e \in closing.entries, r \in Runs : ent[e].conn = r => ctl'[r] = "closed"
    /\ UNCHANGED <<reg, ent, recv, call>>
EndsRound ==
    /\ closing.pc # "reap" /\ closing'.taken = closing.taken
    /\ closing'.entries = closing.entries
    /\ NoneRegistered
    /\ \A e \in Entries : /\ e \notin closing.entries => Same(e)
                          /\ ent'[e].process \in {ent[e].process, None}
    /\ UNCHANGED <<proc, ctl, recv, call>>
----------------------------------------------------------------------------

\* A thread that is inside of a call works on an entry.
LEMMA Threads ==
    ASSUME IInv
    PROVE  /\ \A a \in Actors : Spawning(a) => call[a].run \in Runs
           /\ \A a \in Actors : Spawning(a) \/ Reaping(a) => call[a].entry \in Entries
           /\ \A r \in Runs : recv[r].pc # "none" => recv[r].entry \in Entries
           /\ \A c \in Configs : reg[c] \in Entries \cup {None}
           /\ \A e \in Entries : ent[e] \in Entry
           /\ \A e \in Entries : Registered(e) => reg[ent[e].config] = e
           /\ closing.taken \subseteq Entries
           /\ None \notin Entries /\ None \notin Runs
BY ConstantsAssumption
   DEF IInv, TInv, TypeOK, ThreadsOK, Spawning, Reaping, EntriesOK, EntryOK, Registered, Closing

\* A start works on an entry that every thread has left.
LEMMA EntryForLeft ==
    ASSUME IInv, HostsApart, RestedOK, NEW c \in Configs, StateOf(c) \in Startable,
           NEW e \in EntryFor(c)
    PROVE  /\ e \in Entries /\ Left(e) /\ e \notin closing.taken
           /\ Before(c, e).process = None /\ Before(c, e) \in Entry
<1>1. e \in Entries /\ Before(c, e) \in Entry
  BY EntryForType DEF IInv, TInv
<1>2. CASE reg[c] = None
  <2>1. e \in UnusedEntries /\ Before(c, e) = Blank(c)
    BY <1>2 DEF EntryFor, Before
  <2> QED
    BY <1>1, <2>1 DEF UnusedEntries, Left, Reads, Blank
<1>3. CASE reg[c] # None
  <2>1. e = reg[c] /\ Before(c, e) = ent[e] /\ ent[e].state \in Startable
    BY <1>3 DEF EntryFor, Before, StateOf
  <2>2. Registered(e)
    BY <2>1 DEF Registered
  <2> QED
    BY <1>1, <2>1, <2>2 DEF HostsApart, ClosedApart, RestedOK
<1> QED
  BY <1>2, <1>3

LEMMA RegisteringKeeps ==
    ASSUME IInv, NEW c \in Configs, NEW e \in Entries, reg' = [reg EXCEPT ![c] = e],
           reg[c] = None \/ reg[c] = e
    PROVE  OthersKept(e) /\ Registered(e)'
BY ConstantsAssumption DEF OthersKept, Registered, IInv, TInv, TypeOK

LEMMA StartEffect ==
    ASSUME IInv, HostsApart, RestedOK, NEW a \in Callers, NEW c \in Configs,
           Start(a, c) \/ Resume(a, c)
    PROVE  \E e \in Entries, r \in Runs : StartsOn(a, e, r)
<1>0. a \in Actors /\ call[a].pc = "ready" /\ UNCHANGED <<recv, closing>>
  BY DEF Actors, Start, Resume
<1>1. PICK e \in EntryFor(c), r \in UnusedRuns, before \in Entry :
        /\ MarkStarting(a, e, r, before) /\ before.process = None /\ before.config = c
        /\ e \in Entries /\ Left(e) /\ e \notin closing.taken
  <2>1. CASE Start(a, c)
    <3>1. PICK e \in EntryFor(c), r \in UnusedRuns :
                 MarkStarting(a, e, r, [Before(c, e) EXCEPT !.pending = FALSE])
      BY <2>1 DEF Start
    <3>2. StateOf(c) \in Startable
      BY <2>1 DEF Start, StartAllowed, Startable
    <3>3. Before(c, e).config = c
      BY BeforeOK DEF IInv, TInv, EntryOK
    <3>4. /\ Before(c, e) \in Entry /\ Before(c, e).process = None
          /\ e \in Entries /\ Left(e) /\ e \notin closing.taken
      BY <3>2, EntryForLeft
    <3>5. /\ [Before(c, e) EXCEPT !.pending = FALSE] \in Entry
          /\ [Before(c, e) EXCEPT !.pending = FALSE].process = None
          /\ [Before(c, e) EXCEPT !.pending = FALSE].config = c
      BY <3>3, <3>4 DEF Entry
    <3> QED
      BY <3>1, <3>4, <3>5
  <2>2. CASE Resume(a, c)
    <3>1. PICK r \in UnusedRuns : MarkStarting(a, reg[c], r, ent[reg[c]])
      BY <2>2 DEF Resume
    <3>2. StateOf(c) \in Startable /\ reg[c] # None
      BY <2>2 DEF Resume, StateOf, Startable
    <3>3. reg[c] \in EntryFor(c) /\ Before(c, reg[c]) = ent[reg[c]]
      BY <3>2 DEF EntryFor, Before
    <3>4. ent[reg[c]].config = c
      BY <3>2 DEF IInv, EntriesOK, EntryOK
    <3> QED
      BY <3>1, <3>2, <3>3, <3>4, EntryForLeft
  <2> QED
    BY <2>1, <2>2
<1>2. r \in Runs /\ recv[r].pc = "none" /\ ~Running(r) /\ \A b \in Actors : call[b].run # r
  BY DEF UnusedRuns, Running, Live
<1>3. /\ ent'[e].state = "starting" /\ ent'[e].process = None /\ ent'[e].conn = r
      /\ OthersSame(e)
  BY <1>1 DEF MarkStarting, OthersSame, Same, IInv, TInv, TypeOK, Entry
<1>4. \A d \in Entries : d # e /\ Registered(d)' => Registered(d)
  BY <1>1 DEF MarkStarting, Registered, IInv, TInv, TypeOK
<1>5. call'[a].pc = "spawn" /\ call'[a].entry = e /\ call'[a].run = r /\ CallsSame(a)
  BY <1>0, <1>1 DEF MarkStarting, CallsSame, IInv, TInv, TypeOK, Ready
<1>6. proc'[r] = "pipe" /\ \A q \in Runs : q # r => proc'[q] = proc[q] /\ ctl'[q] = ctl[q]
  BY <1>1, <1>2 DEF MarkStarting, IInv, TInv, TypeOK
<1>7. Free(a)
  BY <1>0 DEF Free, Spawning, Reaping
<1>8. OthersKept(e) /\ Registered(e)'
  <2>1. reg' = [reg EXCEPT ![c] = e] /\ (reg[c] = None \/ reg[c] = e)
    BY <1>1 DEF MarkStarting, EntryFor
  <2> QED
    BY <1>1, <2>1, RegisteringKeeps
<1> QED
  BY <1>0, <1>1, <1>2, <1>3, <1>4, <1>5, <1>6, <1>7, <1>8 DEF StartsOn

LEMMA QueueEffect ==
    ASSUME IInv, HostsApart, RestedOK, NEW c \in Configs,
           MarkResume(c) \/ \E a \in Callers : QueueStart(a, c)
    PROVE  \E e \in Entries : Queues(e)
<1>1. StateOf(c) \in Startable /\ UNCHANGED <<proc, ctl, recv, call, closing>>
  BY DEF MarkResume, QueueStart, Startable
<1>2. PICK e \in EntryFor(c), new \in Entry :
        /\ ent' = [ent EXCEPT ![e] = new] /\ reg' = [reg EXCEPT ![c] = e]
        /\ new.state \in {"parked", "resuming"} /\ new.process = None
  <2>1. CASE MarkResume(c)
    <3>1. PICK e \in EntryFor(c) :
            /\ ent' = [ent EXCEPT ![e] = [Before(c, e) EXCEPT !.state = "resuming"]]
            /\ reg' = [reg EXCEPT ![c] = e]
      BY <2>1 DEF MarkResume
    <3>2. [Before(c, e) EXCEPT !.state = "resuming"] \in Entry
      BY <1>1, EntryForLeft DEF Entry, States
    <3>3. /\ [Before(c, e) EXCEPT !.state = "resuming"].state = "resuming"
          /\ [Before(c, e) EXCEPT !.state = "resuming"].process = None
      BY <1>1, EntryForLeft DEF Entry
    <3> QED
      BY <3>1, <3>2, <3>3
  <2>2. CASE \E a \in Callers : QueueStart(a, c)
    <3>. DEFINE New(e) == [Before(c, e) EXCEPT !.pending = restart.inflight,
                               !.state = IF restart.inflight THEN "parked" ELSE "resuming"]
    <3>1. PICK e \in EntryFor(c) :
            ent' = [ent EXCEPT ![e] = New(e)] /\ reg' = [reg EXCEPT ![c] = e]
      BY <2>2 DEF QueueStart
    <3>2. restart.inflight \in BOOLEAN
      BY DEF IInv, TInv, TypeOK, RestartRun
    <3>3. New(e) \in Entry /\ New(e).state \in {"parked", "resuming"} /\ New(e).process = None
      BY <1>1, <3>2, EntryForLeft DEF Entry, States
    <3> QED
      BY <3>1, <3>3
  <2> QED
    BY <2>1, <2>2
<1>3. e \in Entries /\ Left(e) /\ e \notin closing.taken
  BY <1>1, EntryForLeft
<1>4. /\ ent'[e].state \in {"parked", "resuming"} /\ ent'[e].process = None
      /\ OthersSame(e)
  BY <1>2, <1>3 DEF OthersSame, Same, IInv, TInv, TypeOK
<1>5. \A d \in Entries : d # e /\ Registered(d)' => Registered(d)
  BY <1>2 DEF Registered, IInv, TInv, TypeOK
<1>6. OthersKept(e)
  BY <1>2, <1>3, RegisteringKeeps DEF EntryFor
<1> QED
  BY <1>1, <1>3, <1>4, <1>5, <1>6 DEF Queues

\* An entry that becomes idle leaves the dict, when it is still in it.
LEMMA Unregistered ==
    ASSUME IInv, NEW e \in Entries, NEW new, Publish(e, new), new.state = "idle",
           new.config = ent[e].config
    PROVE  ~Registered(e)'
<1> SUFFICES ASSUME NEW d \in Configs, reg'[d] = e PROVE FALSE
  BY DEF Registered
<1>1. reg' = [reg EXCEPT ![ent[e].config] = None]
  BY DEF Publish
<1>2. d # ent[e].config /\ reg[d] = e
  BY <1>1, ConstantsAssumption DEF IInv, TInv, TypeOK
<1> QED
  BY <1>2, ConstantsAssumption DEF IInv, EntriesOK, EntryOK

\* _set_state() on the entry of a config that neither is ended by it nor comes back.
LEMMA PublishRelabels ==
    ASSUME IInv, NEW c \in Configs, NEW e \in Entries, reg[c] = e, NEW new \in Entry,
           Publish(e, new),
           new.process = ent[e].process, new.conn = ent[e].conn, new.config = c,
           new.state \in Stopped => ent[e].state \in Stopped,
           \/ new.state = "idle"
           \/ /\ new.state \notin Startable
              /\ ent[e].state \notin {"force-killing", "disconnected", "parked"}
    PROVE  NoneRegistered /\ \A d \in Entries : Relabelled(d)
<1>1. /\ reg' = IF new.state = "idle" THEN [reg EXCEPT ![c] = None] ELSE reg
      /\ ent' = [ent EXCEPT ![e] = new]
  BY DEF Publish
<1>2. NoneRegistered
  BY <1>1, ConstantsAssumption DEF NoneRegistered, Registered, IInv, TInv, TypeOK
<1>3. ASSUME NEW d \in Entries, d # e PROVE Relabelled(d)
  <2>1. ent'[d] = ent[d]
    BY <1>1, <1>3 DEF IInv, TInv, TypeOK
  <2>2. ent[d].state \in {"force-killing", "disconnected", "parked"} => ent'[d].state = ent[d].state
    BY <2>1
  <2>3. Registered(d) => Registered(d)'
    BY <1>1, <1>3, ConstantsAssumption DEF Registered, IInv, TInv, TypeOK
  <2> QED
    BY <2>1, <2>2, <2>3 DEF Relabelled
<1>4. new.state = "idle" => ~Registered(e)'
  <2>1. ent[e].config = c
    BY ConstantsAssumption DEF IInv, EntriesOK, EntryOK
  <2> QED
    BY <2>1, Unregistered
<1>5. ent'[e] = new
  BY <1>1 DEF IInv, TInv, TypeOK
<1>6. Relabelled(e)
  <2>1. new.state = "idle" \/ reg' = reg
    BY <1>1
  <2>2. new.state \notin Stopped => Registered(e)'
    BY <2>1 DEF Registered, Stopped
  <2> QED
    BY <1>4, <1>5, <2>2 DEF Relabelled, Stopped
<1> QED
  BY <1>2, <1>3, <1>6

LEMMA CancelRelabels ==
    ASSUME IInv, NEW c \in Configs, NEW keep, CancelsResume(c, keep), CancelResume(c)
    PROVE  NoneRegistered /\ \A e \in Entries : Relabelled(e)
<1>1. reg[c] \in Entries /\ ent[reg[c]] \in Entry /\ ent[reg[c]].state \in Stopped
  BY NotIdle DEF CancelsResume, IInv, TInv, Stopped
<1>2. ent[reg[c]].config = c
  BY <1>1, ConstantsAssumption DEF IInv, EntriesOK, EntryOK
<1>. DEFINE new == [ent[reg[c]] EXCEPT !.pending = FALSE, !.state = "idle"]
<1>3. /\ new \in Entry /\ new.process = ent[reg[c]].process /\ new.conn = ent[reg[c]].conn
      /\ new.config = c /\ new.state = "idle" /\ Publish(reg[c], new)
  BY <1>1, <1>2 DEF Entry, States, CancelResume
<1> QED
  BY <1>1, <1>3, PublishRelabels

\* The locked section of a stop call, with the state s it publishes.
LEMMA MarkEffect ==
    ASSUME IInv, NEW a \in Actors, NEW c \in Configs, NEW keep \in BOOLEAN, NEW pc, NEW cmd,
           NEW new \in Entry, Free(a), reg[c] \in Entries,
           new.process = ent[reg[c]].process, new.conn = ent[reg[c]].conn, new.config = c,
           ent[reg[c]].state \notin {"force-killing", "disconnected", "parked"},
           new.state \notin Stopped,
           Mark(a, c, new, keep, pc, cmd), UNCHANGED <<proc, ctl, recv, closing>>
    PROVE  /\ call'[a].pc = pc /\ call'[a].entry = reg[c] /\ CallsSame(a)
           /\ ent'[reg[c]] = new /\ OthersSame(reg[c])
           /\ NoneRegistered /\ \A e \in Entries : Relabelled(e)
           /\ pc = "send" => Labels
<1>1. Publish(reg[c], new)
  BY DEF Mark
<1>2. NoneRegistered /\ \A e \in Entries : Relabelled(e)
  BY <1>1, PublishRelabels DEF Stopped, Startable
<1>3. call'[a].pc = pc /\ call'[a].entry = reg[c] /\ CallsSame(a)
  BY DEF Mark, CallsSame, IInv, TInv, TypeOK, Ready
<1>4. ent'[reg[c]] = new /\ OthersSame(reg[c])
  BY <1>1 DEF Publish, OthersSame, Same, IInv, TInv, TypeOK
<1>5. ASSUME pc = "send" PROVE Labels
  <2>1. Free(a)'
    BY <1>3, <1>5 DEF Free, Spawning, Reaping
  <2>2. NoneRevived
    BY DEF NoneRevived, Live
  <2> QED
    BY <1>2, <1>3, <2>1, <2>2 DEF Labels, CallsSame
<1> QED
  BY <1>2, <1>3, <1>4, <1>5

LEMMA UnmarkedLabels ==
    ASSUME IInv, NEW a \in Actors, Free(a), call' \in {call, Return(a)},
           UNCHANGED <<proc, ctl, recv, closing>>,
           \/ UNCHANGED <<reg, ent>>
           \/ NoneRegistered /\ \A e \in Entries : Relabelled(e)
    PROVE  Labels
<1>1. \A b \in Actors : call'[b] = call[b] \/ (Free(b) /\ Free(b)')
  BY ReadyType DEF Return, Free, Spawning, Reaping, IInv, TInv, TypeOK
<1>2. NoneRevived
  BY DEF NoneRevived, Live
<1>3. NoneRegistered /\ \A e \in Entries : Relabelled(e)
  BY DEF NoneRegistered, Relabelled, Registered
<1> QED
  BY <1>1, <1>2, <1>3 DEF Labels

LEMMA RequestEffect ==
    ASSUME IInv, NEW a \in Actors, NEW c \in Configs, NEW keep \in BOOLEAN, NEW done,
           done \in {call, Return(a)}, Free(a),
           \/ StopRequest(a, c, keep)
           \/ KillRequest(a, c, keep)
           \/ ForceKillRequest(a, c, keep, done),
           UNCHANGED <<proc, ctl, recv, closing>>
    PROVE  Labels \/ \E e \in Entries : MarksReap(a, e)
<1>1. CASE CancelsResume(c, keep) /\ CancelResume(c) /\ call' \in {call, Return(a)}
  BY <1>1, CancelRelabels, UnmarkedLabels
<1>2. CASE UNCHANGED <<reg, ent>> /\ call' \in {call, Return(a)}
  BY <1>2, UnmarkedLabels
<1>3. ASSUME StateOf(c) \in ForceKillable
      PROVE  /\ reg[c] \in Entries /\ ent[reg[c]] \in Entry /\ ent[reg[c]].config = c
             /\ StateOf(c) = ent[reg[c]].state
             /\ ent[reg[c]].state \notin {"force-killing", "disconnected", "parked"}
             /\ Registered(reg[c])
  <2>1. reg[c] \in Entries /\ ent[reg[c]] \in Entry /\ StateOf(c) = ent[reg[c]].state
    BY <1>3, NotIdle DEF IInv, TInv, ForceKillable, Killable, Stoppable
  <2>2. ent[reg[c]].config = c
    BY <2>1, ConstantsAssumption DEF IInv, EntriesOK, EntryOK
  <2> QED
    BY <1>3, <2>1, <2>2 DEF ForceKillable, Killable, Stoppable, Registered
<1>4. CASE /\ StateOf(c) \in Stoppable
           /\ Mark(a, c, [ent[reg[c]] EXCEPT !.state = "scheduler-stopping"], FALSE,
                   "send", "scheduler-stopping")
  <2>. DEFINE new == [ent[reg[c]] EXCEPT !.state = "scheduler-stopping"]
  <2>1. StateOf(c) \in ForceKillable
    BY <1>4 DEF ForceKillable, Killable
  <2>2. /\ new \in Entry /\ new.process = ent[reg[c]].process /\ new.conn = ent[reg[c]].conn
        /\ new.config = c /\ new.state \notin Stopped
    BY <1>3, <2>1 DEF Entry, States, Stopped
  <2> QED
    BY <1>3, <1>4, <2>1, <2>2, MarkEffect
<1>5. CASE /\ StateOf(c) \in Killable
           /\ Mark(a, c, [ent[reg[c]] EXCEPT !.state = "killing", !.pending = keep /\ @], keep,
                   "send", "killing")
  <2>. DEFINE new == [ent[reg[c]] EXCEPT !.state = "killing", !.pending = keep /\ @]
  <2>1. StateOf(c) \in ForceKillable
    BY <1>5 DEF ForceKillable
  <2>2. /\ new \in Entry /\ new.process = ent[reg[c]].process /\ new.conn = ent[reg[c]].conn
        /\ new.config = c /\ new.state \notin Stopped
    BY <1>3, <2>1 DEF Entry, States, Stopped
  <2>3. Mark(a, c, new, keep, "send", "killing")
    BY <1>5
  <2> HIDE DEF new
  <2> QED
    BY <1>3, <2>1, <2>2, <2>3, MarkEffect
<1>6. CASE /\ StateOf(c) \in ForceKillable
           /\ Mark(a, c, [ent[reg[c]] EXCEPT !.state = "force-killing", !.pending = keep /\ @],
                   keep, AfterForceKillMark(reg[c]), "force-killing")
  <2>. DEFINE new == [ent[reg[c]] EXCEPT !.state = "force-killing", !.pending = keep /\ @]
  <2>1. /\ new \in Entry /\ new.process = ent[reg[c]].process /\ new.conn = ent[reg[c]].conn
        /\ new.config = c /\ new.state \notin Stopped /\ new.state = "force-killing"
    BY <1>3, <1>6 DEF Entry, States, Stopped
  <2>4. Mark(a, c, new, keep, AfterForceKillMark(reg[c]), "force-killing")
    BY <1>6
  <2> HIDE DEF new
  <2>2. CASE ent[reg[c]].process = None
    <3>1. Mark(a, c, new, keep, "send", "force-killing")
      BY <2>2, <2>4 DEF AfterForceKillMark
    <3> QED
      BY <1>3, <1>6, <2>1, <3>1, MarkEffect
  <2>3. CASE ent[reg[c]].process # None
    <3>1. Mark(a, c, new, keep, "reap", "force-killing")
      BY <2>3, <2>4 DEF AfterForceKillMark
    <3>2. /\ call'[a].pc = "reap" /\ call'[a].entry = reg[c] /\ CallsSame(a)
          /\ ent'[reg[c]] = new /\ OthersSame(reg[c]) /\ NoneRegistered
      BY <1>3, <1>6, <2>1, <3>1, MarkEffect
    <3>3. MarksReap(a, reg[c])
      BY <1>3, <1>6, <2>1, <2>3, <3>2 DEF MarksReap
    <3> QED
      BY <1>3, <1>6, <3>3
  <2> QED
    BY <2>2, <2>3
<1> QED
  BY <1>1, <1>2, <1>4, <1>5, <1>6 DEF StopRequest, KillRequest, ForceKillRequest

LEMMA SendLabels ==
    ASSUME IInv, NEW a \in Actors, Send(a) \/ KillDone(a) \/ KillTimeout(a)
    PROVE  Labels
<1>1. UNCHANGED <<reg, ent, proc, recv, closing>>
  BY DEF Send, KillDone, KillTimeout
<1>2. NoneRegistered /\ \A e \in Entries : Relabelled(e)
  BY <1>1 DEF NoneRegistered, Relabelled, Registered
<1>3. \A b \in Actors : call'[b] = call[b] \/ (Free(b) /\ Free(b)')
  BY ReadyType
     DEF Send, KillDone, KillTimeout, Return, Free, Spawning, Reaping, IInv, TInv, TypeOK, Call
<1>4. ASSUME NEW r \in Runs, ctl[r] = "closed" PROVE ctl'[r] = "closed"
  <2>1. Told("closed", call[a].cmd) = "closed"
    BY DEF Told
  <2> QED
    BY <1>4, <2>1 DEF Send, KillDone, KillTimeout, IInv, TInv, TypeOK
<1>5. NoneRevived
  BY <1>1, <1>4 DEF NoneRevived, Live
<1> QED
  BY <1>1, <1>2, <1>3, <1>5 DEF Labels

LEMMA ContinueLabels ==
    ASSUME IInv, NEW a \in Actors, NEW c \in Configs, SchedulerContinue(a, c)
    PROVE  Labels
<1>. DEFINE new == [ent[reg[c]] EXCEPT !.state = "running"]
<1>1. /\ reg[c] \in Entries /\ ent[reg[c]] \in Entry
      /\ ent[reg[c]].state = "scheduler-stopping"
  BY NotIdle DEF SchedulerContinue, IInv, TInv
<1>2. ent[reg[c]].config = c
  BY <1>1, ConstantsAssumption DEF IInv, EntriesOK, EntryOK
<1>3. /\ new \in Entry /\ new.process = ent[reg[c]].process /\ new.conn = ent[reg[c]].conn
      /\ new.config = c /\ new.state \notin Stopped
  BY <1>1, <1>2 DEF Entry, States, Stopped
<1>4. Mark(a, c, new, FALSE, "send", "scheduler-continue")
  BY DEF SchedulerContinue
<1>5. Free(a) /\ UNCHANGED <<proc, ctl, recv, closing>>
  BY DEF SchedulerContinue, UserCall, Free, Spawning, Reaping
<1> HIDE DEF new
<1> QED
  BY <1>1, <1>3, <1>4, <1>5, MarkEffect

LEMMA DropLabels == ASSUME IInv, NEW c \in Configs, DropResume(c) PROVE Labels
<1>. DEFINE new == [ent[reg[c]] EXCEPT !.state = "idle"]
<1>1. reg[c] \in Entries /\ ent[reg[c]] \in Entry /\ ent[reg[c]].state = "resuming"
  BY NotIdle DEF DropResume, IInv, TInv
<1>2. ent[reg[c]].config = c
  BY <1>1, ConstantsAssumption DEF IInv, EntriesOK, EntryOK
<1>3. /\ new \in Entry /\ new.process = ent[reg[c]].process /\ new.conn = ent[reg[c]].conn
      /\ new.config = c /\ new.state = "idle" /\ Publish(reg[c], new)
  BY <1>1, <1>2 DEF Entry, States, DropResume
<1> HIDE DEF new
<1>4. NoneRegistered /\ \A e \in Entries : Relabelled(e)
  BY <1>1, <1>3, PublishRelabels DEF Stopped
<1>5. NoneRevived /\ UNCHANGED <<recv, call, closing>>
  BY DEF DropResume, NoneRevived, Live
<1> QED
  BY <1>4, <1>5 DEF Labels

\* restart_begin() and restart_cancel() go over every registered entry.
LEMMA RestartLabels ==
    ASSUME IInv, RestartBegin \/ RestartCancel
    PROVE  Labels
<1>1. UNCHANGED <<proc, ctl, recv, call, closing>>
  BY DEF RestartBegin, RestartCancel
<1>2. NoneRegistered
  BY ConstantsAssumption
     DEF RestartBegin, RestartCancel, NoneRegistered, Registered, IInv, TInv, TypeOK
<1>3. ASSUME NEW e \in Entries PROVE Relabelled(e)
  <2>0. ent[e] \in Entry
    BY DEF IInv, TInv, TypeOK
  <2>1. CASE RestartBegin
    <3>1. reg' = reg /\ (ent'[e] = ent[e] \/ ent'[e] = Taken(ent[e]))
      BY <2>1 DEF RestartBegin
    <3>2. Registered(e) => Registered(e)'
      BY <3>1 DEF Registered
    <3> QED
      BY <2>0, <3>1, <3>2 DEF Relabelled, Taken, Stoppable, Stopped, Startable, Entry
  <2>2. CASE RestartCancel
    <3>1. ent'[e] = IF Registered(e) THEN Released(ent[e]) ELSE ent[e]
      BY <2>2 DEF RestartCancel
    <3>2. Registered(e)' => ent[e].state \notin {"parked", "resuming"}
      BY <2>2, ConstantsAssumption DEF RestartCancel, Registered, StateOf, IInv, TInv, TypeOK
    <3>3. Registered(e) /\ ent[e].state \notin Stopped => Registered(e)'
      BY <2>2 DEF RestartCancel, Registered, StateOf, Stopped
    <3> QED
      BY <2>0, <3>1, <3>2, <3>3 DEF Relabelled, Released, Stopped, Startable, Entry
  <2> QED
    BY <2>1, <2>2
<1>4. NoneRevived
  BY <1>1 DEF NoneRevived, Live
<1> QED
  BY <1>1, <1>2, <1>3, <1>4 DEF Labels

LEMMA ReportLabels == ASSUME IInv, NEW r \in Runs, Report(r) PROVE Labels
<1>1. UNCHANGED <<reg, proc, ctl, recv, call, closing>>
  BY DEF Report
<1>2. ASSUME NEW e \in Entries PROVE Relabelled(e)
  <2>1. Registered(e) => Registered(e)'
    BY <1>1 DEF Registered
  <2> QED
    BY <1>1, <2>1 DEF Report, Relabelled, Stopped, Startable, IInv, TInv, TypeOK, Entry
<1>3. NoneRegistered /\ NoneRevived
  BY <1>1 DEF NoneRegistered, Registered, NoneRevived, Live
<1> QED
  BY <1>1, <1>2, <1>3 DEF Labels

LEMMA IdleLabels ==
    ASSUME IInv,
           \/ UNCHANGED <<reg, ent, proc, ctl, recv, call, closing>>
           \/ \E r \in Runs : WorkerNext(r)
    PROVE  Labels
<1>1. UNCHANGED <<reg, ent, ctl, recv, call, closing>>
  BY DEF WorkerNext, WorkerClosesPipe, WorkerExit
<1>2. NoneRegistered /\ \A e \in Entries : Relabelled(e)
  BY <1>1 DEF NoneRegistered, Relabelled, Registered
<1>3. NoneRevived
  BY <1>1 DEF NoneRevived, Live, WorkerNext, WorkerClosesPipe, WorkerExit, IInv, TInv, TypeOK
<1> QED
  BY <1>1, <1>2, <1>3 DEF Labels

LEMMA SpawnEffect ==
    ASSUME IInv, HostsApart, NEW a \in Actors, Spawn(a) \/ SpawnFail(a) \/ Register(a)
    PROVE  \E e \in Entries, r \in Runs :
             Spawns(a, e, r) \/ FailsToSpawn(a, e, r) \/ Registers(a, e, r)
<1>. DEFINE e == call[a].entry
            r == call[a].run
<1>1. Spawning(a)
  BY DEF Spawning, Spawn, SpawnFail, Register
<1>2. e \in Entries /\ r \in Runs /\ ent[e] \in Entry /\ call[a] \in Call
  BY <1>1, Threads DEF IInv, TInv, TypeOK
<1>3. CASE Spawn(a)
  <2>1. Spawns(a, e, r)
    BY <1>2, <1>3 DEF Spawn, Spawns, CallsSame, IInv, TInv, TypeOK, Call
  <2> QED
    BY <1>2, <2>1
<1>4. CASE SpawnFail(a)
  <2>1. Free(a)' /\ CallsSame(a)
    BY <1>4, ReturnType DEF SpawnFail, Free, Spawning, Reaping, CallsSame, IInv, TInv
  <2>2. /\ ent'[e].state \in {"parked", "error"} /\ ent'[e].process = ent[e].process
        /\ OthersSame(e)
    BY <1>2, <1>4 DEF SpawnFail, OthersSame, Same, IInv, TInv, TypeOK, Entry
  <2>3. proc'[r] = "none" /\ \A q \in Runs : q # r => proc'[q] = proc[q] /\ ctl'[q] = ctl[q]
    BY <1>2, <1>4 DEF SpawnFail, CloseConn, IInv, TInv, TypeOK
  <2>4. FailsToSpawn(a, e, r)
    BY <1>4, <2>1, <2>2, <2>3 DEF SpawnFail, FailsToSpawn
  <2> QED
    BY <1>2, <2>4
<1>5. CASE Register(a)
  <2>1. Free(a)' /\ CallsSame(a)
    BY <1>5, ReturnType DEF Register, Free, Spawning, Reaping, CallsSame, IInv, TInv
  <2>2. /\ ent'[e].state = ent[e].state /\ ent'[e].process = r /\ ent'[e].conn = ent[e].conn
        /\ OthersSame(e)
    BY <1>2, <1>5 DEF Register, OthersSame, Same, IInv, TInv, TypeOK, Entry
  <2>3. recv'[r].pc = "loop" /\ recv'[r].entry = e /\ RecvsSame(r)
    BY <1>2, <1>5 DEF Register, RecvsSame, NoThread, IInv, TInv, TypeOK
  <2>4. Registers(a, e, r)
    BY <1>5, <2>1, <2>2, <2>3 DEF Register, Registers
  <2> QED
    BY <1>2, <2>4
<1> QED
  BY <1>3, <1>4, <1>5

\* KillProcess() and conn_close() on the process and the pipe of an entry.
LEMMA KillEffect ==
    ASSUME IInv, NEW e \in Entries, KillProcess(ent[e].process), CloseConn(ent[e].conn),
           UNCHANGED <<reg, ent, closing>>
    PROVE  Kills(e)
BY DEF Kills, KillProcess, CloseConn, NoneRevived, Live, IInv, TInv, TypeOK

LEMMA ReapEffect ==
    ASSUME IInv, NEW a \in Actors, Reap(a) \/ Finish(a)
    PROVE  \E e \in Entries : Reaps(a, e) \/ Finishes(a, e)
<1>1. PICK e \in Entries : e = call[a].entry
  BY Threads DEF Reaping, Reap, Finish
<1>2. e \in Entries /\ e = call[a].entry /\ ent[e] \in Entry /\ call[a] \in Call
  BY <1>1 DEF IInv, TInv, TypeOK
<1>3. CASE Reap(a)
  <2>1. Kills(e)
    BY <1>2, <1>3, KillEffect DEF Reap
  <2>2. call'[a].pc = "final" /\ call'[a].entry = e /\ CallsSame(a)
    BY <1>2, <1>3 DEF Reap, CallsSame, IInv, TInv, TypeOK, Call
  <2>3. Reaps(a, e)
    BY <1>2, <1>3, <2>1, <2>2 DEF Reap, Reaps
  <2> QED
    BY <1>2, <2>3
<1>4. CASE Finish(a)
  <2>. DEFINE new == [ent[e] EXCEPT !.process = None, !.conn = None,
                         !.state = IF ent[e].pending THEN "parked" ELSE "idle"]
  <2>1. Free(a)' /\ CallsSame(a)
    BY <1>4, ReturnType DEF Finish, Free, Spawning, Reaping, CallsSame, IInv, TInv
  <2>2. Publish(e, new) /\ UNCHANGED <<proc, ctl, recv, closing>>
    BY <1>2, <1>4 DEF Finish
  <2>3. /\ new.state \in {"parked", "idle"} /\ new.process = None
        /\ new.config = ent[e].config
    BY <1>2 DEF Entry
  <2> HIDE DEF new
  <2>4. ent'[e] = new /\ OthersSame(e)
    BY <1>2, <2>2 DEF Publish, OthersSame, Same, IInv, TInv, TypeOK
  <2>5. reg' = reg \/ (reg' = [reg EXCEPT ![ent[e].config] = None])
    BY <2>2, <2>3 DEF Publish
  <2>6. NoneRegistered
    BY <2>5, ConstantsAssumption DEF NoneRegistered, Registered, IInv, TInv, TypeOK
  <2>7. new.state = "idle" => ~Registered(e)'
    BY <1>2, <2>2, <2>3, Unregistered
  <2>8. Finishes(a, e)
    BY <1>2, <1>4, <2>1, <2>2, <2>3, <2>4, <2>6, <2>7 DEF Finish, Finishes
  <2> QED
    BY <1>2, <2>8
<1> QED
  BY <1>3, <1>4

LEMMA DisconnectEffect ==
    ASSUME IInv, NEW r \in Runs, Disconnect(r) \/ ReapDisconnected(r) \/ FinishDisconnect(r)
    PROVE  \E e \in Entries :
             Disconnects(r, e) \/ ReapsDisconnected(r, e) \/ FinishesDisconnect(r, e)
<1>0. PICK e \in Entries : e = recv[r].entry
  BY Threads DEF Disconnect, ReapDisconnected, FinishDisconnect
<1>1. e \in Entries /\ e = recv[r].entry /\ ent[e] \in Entry /\ recv[r] \in RecvThread
  BY <1>0 DEF IInv, TInv, TypeOK
<1>2. CASE Disconnect(r)
  <2>1. /\ recv'[r].pc = "reap" /\ recv'[r].entry = e /\ recv'[r].before = ent[e].state
        /\ RecvsSame(r)
    BY <1>1, <1>2 DEF Disconnect, RecvsSame, RecvThread, IInv, TInv, TypeOK
  <2>2. Registered(e) => reg[ent[e].config] = e
    BY <1>1, Threads
  <2>3. /\ ent'[e].state \in {"disconnected", ent[e].state}
        /\ Registered(e) => ent'[e].state = "disconnected"
        /\ ent'[e].process = ent[e].process /\ ent'[e].conn = ent[e].conn /\ OthersSame(e)
    BY <1>1, <1>2, <2>2 DEF Disconnect, OthersSame, Same, IInv, TInv, TypeOK, Entry
  <2>4. Disconnects(r, e)
    BY <1>1, <1>2, <2>1, <2>3 DEF Disconnect, Disconnects
  <2> QED
    BY <1>1, <2>4
<1>3. CASE ReapDisconnected(r)
  <2>1. /\ recv'[r].pc = "final" /\ recv'[r].entry = e /\ recv'[r].before = recv[r].before
        /\ RecvsSame(r)
    BY <1>1, <1>3 DEF ReapDisconnected, RecvsSame, RecvThread, IInv, TInv, TypeOK
  <2>2. Kills(e)
    BY <1>1, <1>3, KillEffect DEF ReapDisconnected
  <2>3. ReapsDisconnected(r, e)
    BY <1>1, <1>3, <2>1, <2>2 DEF ReapDisconnected, ReapsDisconnected
  <2> QED
    BY <1>1, <2>3
<1>4. CASE FinishDisconnect(r)
  <2>. DEFINE gone == [ent[e] EXCEPT !.conn = None, !.process = None]
              new == [gone EXCEPT !.state = FinalState(gone.pending, recv[r])]
  <2>0. recv'[r].pc = "none" /\ RecvsSame(r)
    BY <1>1, <1>4 DEF FinishDisconnect, RecvsSame, NoThread, IInv, TInv, TypeOK
  <2>1. CASE ent' = [ent EXCEPT ![e] = gone] /\ UNCHANGED reg
    <3>1. ent'[e] = gone /\ OthersSame(e)
      BY <1>1, <2>1 DEF OthersSame, Same, IInv, TInv, TypeOK
    <3>2. gone.state = ent[e].state /\ gone.process = None
      BY <1>1 DEF Entry
    <3>3. NoneRegistered /\ OthersKept(e)
      BY <2>1 DEF NoneRegistered, OthersKept, Registered
    <3>4. FinishesDisconnect(r, e)
      BY <1>1, <1>4, <2>0, <3>1, <3>2, <3>3 DEF FinishDisconnect, FinishesDisconnect
    <3> QED
      BY <1>1, <3>4
  <2>2. CASE Publish(e, new)
    <3>1. gone.pending \in BOOLEAN /\ recv[r].ok \in BOOLEAN
      BY <1>1 DEF Entry, RecvThread
    <3>2. \/ FinalState(gone.pending, recv[r]) \in {"parked", "idle"}
          \/ FinalState(gone.pending, recv[r]) = "error" /\ recv[r].before \notin Killing
      BY <3>1 DEF FinalState
    <3>3. /\ new.state = FinalState(gone.pending, recv[r]) /\ new.process = None
          /\ new.config = ent[e].config
      BY <1>1 DEF Entry
    <3> HIDE DEF new, gone
    <3>4. ent'[e] = new /\ OthersSame(e)
      BY <1>1, <2>2 DEF Publish, OthersSame, Same, IInv, TInv, TypeOK
    <3>5. reg' = reg \/ (reg' = [reg EXCEPT ![ent[e].config] = None])
      BY <2>2, <3>3 DEF Publish
    <3>6. NoneRegistered
      BY <3>5, ConstantsAssumption DEF NoneRegistered, Registered, IInv, TInv, TypeOK
    <3>7. new.state = "idle" => ~Registered(e)'
      BY <1>1, <2>2, <3>3, Unregistered
    <3>8. Registered(e) => OthersKept(e)
      <4>1. Registered(e) => reg[ent[e].config] = e
        BY <1>1, Threads
      <4> QED
        BY <1>1, <3>5, <4>1, ConstantsAssumption DEF OthersKept, Registered, IInv, TInv, TypeOK
    <3>9. FinishesDisconnect(r, e)
      BY <1>1, <1>4, <2>0, <3>2, <3>3, <3>4, <3>6, <3>7, <3>8 DEF FinishDisconnect, FinishesDisconnect
    <3> QED
      BY <1>1, <3>9
  <2> QED
    BY <1>1, <1>4, <2>1, <2>2 DEF FinishDisconnect
<1> QED
  BY <1>2, <1>3, <1>4

LEMMA CloseEffect ==
    ASSUME IInv, HostsApart, CloseNext
    PROVE  TakesRound \/ ReapsRound \/ EndsRound
<1>0. /\ closing \in Closing /\ closing.entries \subseteq closing.taken
      /\ closing.taken \subseteq Entries
  BY DEF IInv, TInv, TypeOK, HostsApart, ClosedApart, Closing
<1>1. CASE CloseTakes
  <2>. DEFINE round == {e \in Entries : Registered(e)}
  <2>1. CASE round = {}
    <3>1. closing' = [closing EXCEPT !.pc = "closed"] /\ UNCHANGED <<reg, ent>>
      BY <1>1, <2>1 DEF CloseTakes
    <3>2. closing'.taken = closing.taken /\ closing'.entries = closing.entries /\ closing'.pc = "closed"
      BY <1>0, <3>1 DEF Closing
    <3>3. \A e \in Entries : ~Registered(e)' /\ Same(e)
      BY <2>1, <3>1 DEF Registered, Same
    <3> QED
      BY <1>0, <1>1, <3>2, <3>3 DEF CloseTakes, TakesRound, Same
  <2>2. CASE round # {}
    <3>1. /\ closing' = [pc |-> "reap", entries |-> round, taken |-> closing.taken \cup round]
          /\ ent' = [e \in Entries |->
                       IF e \in round THEN [ent[e] EXCEPT !.state = "killing"] ELSE ent[e]]
          /\ reg' = [c \in Configs |-> None]
      BY <1>1, <2>2 DEF CloseTakes
    <3>2. \A e \in Entries : ~Registered(e)'
      BY <3>1, ConstantsAssumption DEF Registered
    <3>3. \A e \in Entries : /\ e \notin closing'.taken => Same(e)
                             /\ ent'[e].process = ent[e].process /\ ent'[e].conn = ent[e].conn
      BY <3>1 DEF Same, IInv, TInv, TypeOK, Entry
    <3> QED
      BY <1>1, <3>1, <3>2, <3>3 DEF CloseTakes, TakesRound
  <2> QED
    BY <2>1, <2>2
<1>2. CASE CloseReaps
  <2>1. closing.entries \subseteq Entries
    BY <1>0 DEF Closing
  <2>2. /\ closing'.taken = closing.taken /\ closing'.entries = closing.entries
        /\ closing.pc = "reap" /\ UNCHANGED <<reg, ent, recv, call>>
    BY <1>0, <1>2 DEF CloseReaps, Closing
  <2>3. NoneRevived
    BY <1>2 DEF CloseReaps, NoneRevived, Live, IInv, TInv, TypeOK
  <2>4. \A e \in closing.entries, r \in Runs : ent[e].conn = r => ctl'[r] = "closed"
    BY <1>2 DEF CloseReaps
  <2> QED
    BY <2>2, <2>3, <2>4 DEF ReapsRound
<1>3. CASE CloseEnds
  <2>1. closing'.taken = closing.taken /\ closing'.entries = closing.entries
    BY <1>0, <1>3 DEF CloseEnds, Closing
  <2>2. NoneRegistered
    BY <1>3, ConstantsAssumption DEF CloseEnds, NoneRegistered, Registered, IInv, TInv, TypeOK
  <2>3. \A e \in Entries : /\ e \notin closing.entries => Same(e)
                           /\ ent'[e].process \in {ent[e].process, None}
    BY <1>3 DEF CloseEnds, Same, IInv, TInv, TypeOK, Entry
  <2> QED
    BY <1>3, <2>1, <2>2, <2>3 DEF CloseEnds, EndsRound
<1> QED
  BY <1>1, <1>2, <1>3 DEF CloseNext

\* What a step of the manager does to the hosts.
SpawnKinds == \E a \in Actors, e \in Entries, r \in Runs :
    StartsOn(a, e, r) \/ Spawns(a, e, r) \/ FailsToSpawn(a, e, r) \/ Registers(a, e, r)
EntryKinds == \E e \in Entries :
    \/ Queues(e)
    \/ \E a \in Actors : MarksReap(a, e) \/ Reaps(a, e) \/ Finishes(a, e)
    \/ \E r \in Runs : Disconnects(r, e) \/ ReapsDisconnected(r, e) \/ FinishesDisconnect(r, e)
CloseKinds == CloseNext /\ (TakesRound \/ ReapsRound \/ EndsRound)

LEMMA StepKinds ==
    ASSUME IInv, HostsApart, RestedOK, [Next]_vars
    PROVE  Labels \/ SpawnKinds \/ EntryKinds \/ CloseKinds
<1>0. \A a \in Callers : a \in Actors
  BY DEF Actors
<1>1. CASE \E a \in Callers, c \in Configs : Start(a, c) \/ Resume(a, c)
  BY <1>0, <1>1, StartEffect DEF SpawnKinds
<1>2. CASE \E c \in Configs : MarkResume(c) \/ \E a \in Callers : QueueStart(a, c)
  BY <1>2, QueueEffect DEF EntryKinds
<1>3. CASE \E a \in Callers, c \in Configs, keep \in BOOLEAN :
             SchedulerStop(a, c, keep) \/ Kill(a, c, keep) \/ ForceKill(a, c, keep)
  <2>1. PICK a \in Callers, c \in Configs, keep \in BOOLEAN :
             SchedulerStop(a, c, keep) \/ Kill(a, c, keep) \/ ForceKill(a, c, keep)
    BY <1>3
  <2>2. Free(a) /\ UNCHANGED <<proc, ctl, recv, closing>>
    BY <2>1 DEF SchedulerStop, Kill, ForceKill, UserCall, Free, Spawning, Reaping
  <2>3. \/ StopRequest(a, c, keep)
        \/ KillRequest(a, c, keep)
        \/ ForceKillRequest(a, c, keep, call)
    BY <2>1 DEF SchedulerStop, Kill, ForceKill
  <2> QED
    BY <1>0, <2>2, <2>3, RequestEffect DEF EntryKinds
<1>4. CASE \E a \in Callers, c \in Configs : SchedulerContinue(a, c)
  BY <1>0, <1>4, ContinueLabels
<1>5. CASE \E c \in Configs : DropResume(c)
  BY <1>5, DropLabels
<1>6. CASE RestartBegin \/ RestartCancel
  BY <1>6, RestartLabels
<1>7. CASE RestartAbort \/ Flow
  BY <1>7, IdleLabels DEF RestartAbort, Flow
<1>8. ASSUME NEW a \in Actors, CallNext(a) PROVE Labels \/ SpawnKinds \/ EntryKinds
  <2>1. CASE Spawn(a) \/ SpawnFail(a) \/ Register(a)
    BY <2>1, SpawnEffect DEF SpawnKinds
  <2>2. CASE Send(a) \/ KillDone(a) \/ KillTimeout(a)
    BY <2>2, SendLabels
  <2>3. CASE Escalate(a)
    <3>1. /\ call[a].config \in Configs /\ call[a].keep \in BOOLEAN /\ Free(a)
      BY <2>3 DEF Escalate, Free, Spawning, Reaping, IInv, TInv, TypeOK, ThreadsOK, Call
    <3>2. /\ ForceKillRequest(a, call[a].config, call[a].keep, Return(a))
          /\ UNCHANGED <<proc, ctl, recv, closing>>
      BY <2>3 DEF Escalate
    <3> QED
      BY <3>1, <3>2, RequestEffect DEF EntryKinds
  <2>4. CASE Reap(a) \/ Finish(a)
    BY <2>4, ReapEffect DEF EntryKinds
  <2> QED
    BY <1>8, <2>1, <2>2, <2>3, <2>4 DEF CallNext
<1>9. ASSUME NEW r \in Runs, RecvNext(r) PROVE Labels \/ EntryKinds
  BY <1>9, ReportLabels, DisconnectEffect DEF RecvNext, EntryKinds
<1>10. CASE \E r \in Runs : WorkerNext(r)
  BY <1>10, IdleLabels
<1>11. ASSUME NEW c \in Configs, StopNext(c) \/ KillNext(c) PROVE Labels \/ EntryKinds
  <2>1. Orch \in Actors /\ Free(Orch) /\ UNCHANGED <<proc, ctl, recv, closing>>
    BY <1>11 DEF Actors, StopNext, KillNext, Free, Spawning, Reaping
  <2>2. \E keep \in BOOLEAN : StopRequest(Orch, c, keep) \/ KillRequest(Orch, c, keep)
    BY <1>11 DEF StopNext, KillNext
  <2> QED
    BY <2>1, <2>2, RequestEffect DEF EntryKinds
<1>12. CASE StopsSent \/ WaitOver \/ WaitAborted \/ WaitTimesOut \/ KillsSent \/ Freeze
  BY <1>12, IdleLabels DEF StopsSent, WaitOver, WaitAborted, WaitTimesOut, KillsSent, Freeze
<1>13. CASE CloseNext
  BY <1>13, CloseEffect DEF CloseKinds
<1>14. CASE UNCHANGED vars
  BY <1>14, IdleLabels DEF vars
<1> QED
  BY <1>1, <1>2, <1>3, <1>4, <1>5, <1>6, <1>7, <1>8, <1>9, <1>10, <1>11, <1>12, <1>13, <1>14
     DEF Next, UserNext, OrchNext
LEMMA LabelsKeep ==
    ASSUME HInv, Labels
    PROVE  Apart'
<1>. USE Threads DEF HInv, Apart, Labels, Relabelled, NoneRegistered, NoneRevived, Free, Spawning, Reaping, Reads, Same, OthersSame, CallsSame, RecvsSame, Live, Running
<1>1. HostsApart'
  <2>1. ASSUME NEW b \in Actors, Spawning(b)' PROVE SpawnerApart(b)'
    BY <2>1 DEF HostsApart, SpawnerApart, ReaderApart, Left
  <2>2. ASSUME NEW q \in Runs, (recv[q].pc # "none")' PROVE ReaderApart(q)'
    BY <2>2 DEF HostsApart, SpawnerApart, ReaderApart, Left
  <2>3. ClosedApart'
    BY DEF HostsApart, ClosedApart
  <2> QED
    BY <2>1, <2>2, <2>3 DEF HostsApart
<1>2. ReapersApart'
  BY DEF ReapersApart, EndsOK, EndOK
<1>3. RestedOK'
  BY DEF RestedOK, HostsApart, SpawnerApart, ReaderApart, ClosedApart, EndsOK, EndOK, Left, Startable
<1>4. LivesOK'
  BY DEF LivesOK, HostsApart, SpawnerApart, ReaderApart, ClosedApart, Stopped, Left
<1>5. EndsOK'
  BY DEF EndsOK, HostsApart, SpawnerApart, ReaderApart, EndOK, ClosedApart, ReapersApart, Left
<1>6. PipesOK'
  BY DEF PipesOK, HostsApart, SpawnerApart, ReaderApart, ClosedApart, CloseReachesTracked, Hosts, Left
<1>7. CloseReachesTracked'
  BY DEF CloseReachesTracked, HostsApart, SpawnerApart, ReaderApart, PipesOK, Hosts, Left
<1> QED
  BY <1>1, <1>2, <1>3, <1>4, <1>5, <1>6, <1>7 DEF Apart

LEMMA StartKeeps ==
    ASSUME HInv, NEW a \in Actors, NEW e \in Entries, NEW r \in Runs, StartsOn(a, e, r)
    PROVE  Apart'
<1>. USE Threads DEF HInv, Apart, StartsOn, Free, Spawning, Reaping, Reads, Same, OthersSame, CallsSame, RecvsSame, Live, Running
<1>1. HostsApart'
  <2>1. ASSUME NEW b \in Actors, Spawning(b)' PROVE SpawnerApart(b)'
    BY <2>1 DEF HostsApart, SpawnerApart, ReaderApart, Left
  <2>2. ASSUME NEW q \in Runs, (recv[q].pc # "none")' PROVE ReaderApart(q)'
    BY <2>2 DEF HostsApart, SpawnerApart, ReaderApart, Left
  <2>3. ClosedApart'
    BY DEF HostsApart, ClosedApart
  <2> QED
    BY <2>1, <2>2, <2>3 DEF HostsApart
<1>2. ReapersApart'
  BY DEF ReapersApart, EndsOK, EndOK
<1>3. RestedOK'
  <2> SUFFICES ASSUME NEW d \in Entries, Registered(d)', ent'[d].state \in Startable
               PROVE  ent'[d].process = None /\ Left(d)'
    BY DEF RestedOK
  <2>1. CASE d = e
    BY <2>1 DEF Left, Startable
  <2>2. CASE d # e
    BY <2>2 DEF RestedOK, Left
  <2> QED
    BY <2>1, <2>2
<1>4. LivesOK'
  BY DEF LivesOK, HostsApart, SpawnerApart, ReaderApart, ClosedApart, Stopped, Left
<1>5. EndsOK'
  BY DEF EndsOK, HostsApart, SpawnerApart, ReaderApart, EndOK, ClosedApart, ReapersApart, Left
<1>6. PipesOK'
  BY DEF PipesOK, HostsApart, SpawnerApart, ReaderApart, ClosedApart, CloseReachesTracked, Hosts, Left
<1>7. CloseReachesTracked'
  BY DEF CloseReachesTracked, HostsApart, SpawnerApart, ReaderApart, PipesOK, Hosts, Left
<1> QED
  BY <1>1, <1>2, <1>3, <1>4, <1>5, <1>6, <1>7 DEF Apart

LEMMA QueueKeeps ==
    ASSUME HInv, NEW e \in Entries, Queues(e)
    PROVE  Apart'
<1>. USE Threads DEF HInv, Apart, Queues, Free, Spawning, Reaping, Reads, Same, OthersSame, CallsSame, RecvsSame, Live, Running
<1>1. HostsApart'
  <2>1. ASSUME NEW b \in Actors, Spawning(b)' PROVE SpawnerApart(b)'
    BY <2>1 DEF HostsApart, SpawnerApart, ReaderApart, Left
  <2>2. ASSUME NEW q \in Runs, (recv[q].pc # "none")' PROVE ReaderApart(q)'
    BY <2>2 DEF HostsApart, SpawnerApart, ReaderApart, Left
  <2>3. ClosedApart'
    BY DEF HostsApart, ClosedApart
  <2> QED
    BY <2>1, <2>2, <2>3 DEF HostsApart
<1>2. ReapersApart'
  BY DEF ReapersApart, EndsOK, EndOK
<1>3. RestedOK'
  <2> SUFFICES ASSUME NEW d \in Entries, Registered(d)', ent'[d].state \in Startable
               PROVE  ent'[d].process = None /\ Left(d)'
    BY DEF RestedOK
  <2>1. CASE d = e
    BY <2>1 DEF Left, Startable
  <2>2. CASE d # e
    BY <2>2 DEF RestedOK, Left
  <2> QED
    BY <2>1, <2>2
<1>4. LivesOK'
  BY DEF LivesOK, HostsApart, SpawnerApart, ReaderApart, ClosedApart, Stopped, Left
<1>5. EndsOK'
  BY DEF EndsOK, HostsApart, SpawnerApart, ReaderApart, EndOK, ClosedApart, ReapersApart, Left
<1>6. PipesOK'
  BY DEF PipesOK, HostsApart, SpawnerApart, ReaderApart, ClosedApart, CloseReachesTracked, Hosts, Left
<1>7. CloseReachesTracked'
  BY DEF CloseReachesTracked, HostsApart, SpawnerApart, ReaderApart, PipesOK, Hosts, Left
<1> QED
  BY <1>1, <1>2, <1>3, <1>4, <1>5, <1>6, <1>7 DEF Apart

LEMMA MarkKeeps ==
    ASSUME HInv, NEW a \in Actors, NEW e \in Entries, MarksReap(a, e)
    PROVE  Apart'
<1>. USE Threads DEF HInv, Apart, MarksReap, ForceKillable, Killable, Stoppable, NoneRegistered, Free, Spawning, Reaping, Reads, Same, OthersSame, CallsSame, RecvsSame, Live, Running
<1>1. HostsApart'
  <2>1. ASSUME NEW b \in Actors, Spawning(b)' PROVE SpawnerApart(b)'
    BY <2>1 DEF HostsApart, SpawnerApart, ReaderApart, Left
  <2>2. ASSUME NEW q \in Runs, (recv[q].pc # "none")' PROVE ReaderApart(q)'
    BY <2>2 DEF HostsApart, SpawnerApart, ReaderApart, Left
  <2>3. ClosedApart'
    BY DEF HostsApart, ClosedApart
  <2> QED
    BY <2>1, <2>2, <2>3 DEF HostsApart
<1>2. ReapersApart'
  BY DEF ReapersApart, EndsOK, EndOK
<1>3. RestedOK'
  BY DEF RestedOK, HostsApart, SpawnerApart, ReaderApart, ClosedApart, EndsOK, EndOK, Left, Startable
<1>4. LivesOK'
  BY DEF LivesOK, HostsApart, SpawnerApart, ReaderApart, ClosedApart, Stopped, Left
<1>5. EndsOK'
  BY DEF EndsOK, HostsApart, SpawnerApart, ReaderApart, EndOK, ClosedApart, ReapersApart, Left
<1>6. PipesOK'
  BY DEF PipesOK, HostsApart, SpawnerApart, ReaderApart, ClosedApart, CloseReachesTracked, Hosts, Left
<1>7. CloseReachesTracked'
  BY DEF CloseReachesTracked, HostsApart, SpawnerApart, ReaderApart, PipesOK, Hosts, Left
<1> QED
  BY <1>1, <1>2, <1>3, <1>4, <1>5, <1>6, <1>7 DEF Apart

LEMMA SpawnKeeps ==
    ASSUME HInv, NEW a \in Actors, NEW e \in Entries, NEW r \in Runs, Spawns(a, e, r)
    PROVE  Apart'
<1>0. \A d \in Entries : Registered(d)' <=> Registered(d)
  BY DEF Spawns, Registered
<1>. USE <1>0, Threads DEF HInv, Apart, Spawns, Free, Spawning, Reaping, Reads, Same, OthersSame, CallsSame, RecvsSame, Live, Running
<1>1. HostsApart'
  <2>1. ASSUME NEW b \in Actors, Spawning(b)' PROVE SpawnerApart(b)'
    BY <2>1 DEF HostsApart, SpawnerApart, ReaderApart, Left
  <2>2. ASSUME NEW q \in Runs, (recv[q].pc # "none")' PROVE ReaderApart(q)'
    BY <2>2 DEF HostsApart, SpawnerApart, ReaderApart, Left
  <2>3. ClosedApart'
    BY DEF HostsApart, ClosedApart
  <2> QED
    BY <2>1, <2>2, <2>3 DEF HostsApart
<1>2. ReapersApart'
  BY DEF ReapersApart, EndsOK, EndOK
<1>3. RestedOK'
  BY DEF RestedOK, HostsApart, SpawnerApart, ReaderApart, ClosedApart, EndsOK, EndOK, Left, Startable
<1>4. LivesOK'
  BY DEF LivesOK, HostsApart, SpawnerApart, ReaderApart, ClosedApart, Stopped, Left
<1>5. EndsOK'
  BY DEF EndsOK, HostsApart, SpawnerApart, ReaderApart, EndOK, ClosedApart, ReapersApart, Left
<1>6. PipesOK'
  BY DEF PipesOK, HostsApart, SpawnerApart, ReaderApart, ClosedApart, CloseReachesTracked, Hosts, Left
<1>7. CloseReachesTracked'
  BY DEF CloseReachesTracked, HostsApart, SpawnerApart, ReaderApart, PipesOK, Hosts, Left
<1> QED
  BY <1>1, <1>2, <1>3, <1>4, <1>5, <1>6, <1>7 DEF Apart

LEMMA FailKeeps ==
    ASSUME HInv, NEW a \in Actors, NEW e \in Entries, NEW r \in Runs, FailsToSpawn(a, e, r)
    PROVE  Apart'
<1>0. \A d \in Entries : Registered(d)' <=> Registered(d)
  BY DEF FailsToSpawn, Registered
<1>. USE <1>0, Threads DEF HInv, Apart, FailsToSpawn, Free, Spawning, Reaping, Reads, Same, OthersSame, CallsSame, RecvsSame, Live, Running
<1>1. HostsApart'
  <2>1. ASSUME NEW b \in Actors, Spawning(b)' PROVE SpawnerApart(b)'
    BY <2>1 DEF HostsApart, SpawnerApart, ReaderApart, Left
  <2>2. ASSUME NEW q \in Runs, (recv[q].pc # "none")' PROVE ReaderApart(q)'
    BY <2>2 DEF HostsApart, SpawnerApart, ReaderApart, Left
  <2>3. ClosedApart'
    BY DEF HostsApart, ClosedApart
  <2> QED
    BY <2>1, <2>2, <2>3 DEF HostsApart
<1>2. ReapersApart'
  BY DEF ReapersApart, EndsOK, EndOK
<1>3. RestedOK'
  BY DEF RestedOK, HostsApart, SpawnerApart, ReaderApart, ClosedApart, EndsOK, EndOK, Left, Startable
<1>4. LivesOK'
  BY DEF LivesOK, HostsApart, SpawnerApart, ReaderApart, ClosedApart, Stopped, Left
<1>5. EndsOK'
  BY DEF EndsOK, HostsApart, SpawnerApart, ReaderApart, EndOK, ClosedApart, ReapersApart, Left
<1>6. PipesOK'
  BY DEF PipesOK, HostsApart, SpawnerApart, ReaderApart, ClosedApart, CloseReachesTracked, Hosts, Left
<1>7. CloseReachesTracked'
  BY DEF CloseReachesTracked, HostsApart, SpawnerApart, ReaderApart, PipesOK, Hosts, Left
<1> QED
  BY <1>1, <1>2, <1>3, <1>4, <1>5, <1>6, <1>7 DEF Apart

LEMMA RegisterKeeps ==
    ASSUME HInv, NEW a \in Actors, NEW e \in Entries, NEW r \in Runs, Registers(a, e, r)
    PROVE  Apart'
<1>0. \A d \in Entries : Registered(d)' <=> Registered(d)
  BY DEF Registers, Registered
<1>. USE <1>0, Threads DEF HInv, Apart, Registers, Free, Spawning, Reaping, Reads, Same, OthersSame, CallsSame, RecvsSame, Live, Running
<1>1. HostsApart'
  <2>1. ASSUME NEW b \in Actors, Spawning(b)' PROVE SpawnerApart(b)'
    BY <2>1 DEF HostsApart, SpawnerApart, ReaderApart, Left
  <2>2. ASSUME NEW q \in Runs, (recv[q].pc # "none")' PROVE ReaderApart(q)'
    BY <2>2 DEF HostsApart, SpawnerApart, ReaderApart, Left
  <2>3. ClosedApart'
    BY DEF HostsApart, ClosedApart
  <2> QED
    BY <2>1, <2>2, <2>3 DEF HostsApart
<1>2. ReapersApart'
  BY DEF ReapersApart, EndsOK, EndOK
<1>3. RestedOK'
  BY DEF RestedOK, HostsApart, SpawnerApart, ReaderApart, ClosedApart, EndsOK, EndOK, Left, Startable
<1>4. LivesOK'
  BY DEF LivesOK, HostsApart, SpawnerApart, ReaderApart, ClosedApart, Stopped, Left
<1>5. EndsOK'
  BY DEF EndsOK, HostsApart, SpawnerApart, ReaderApart, EndOK, ClosedApart, ReapersApart, Left
<1>6. PipesOK'
  BY DEF PipesOK, HostsApart, SpawnerApart, ReaderApart, ClosedApart, CloseReachesTracked, Hosts, Left
<1>7. CloseReachesTracked'
  BY DEF CloseReachesTracked, HostsApart, SpawnerApart, ReaderApart, PipesOK, Hosts, Left
<1> QED
  BY <1>1, <1>2, <1>3, <1>4, <1>5, <1>6, <1>7 DEF Apart

LEMMA ReapKeeps ==
    ASSUME HInv, NEW a \in Actors, NEW e \in Entries, Reaps(a, e)
    PROVE  Apart'
<1>0. \A d \in Entries : Registered(d)' <=> Registered(d)
  BY DEF Reaps, Kills, Registered
<1>. USE <1>0, Threads DEF HInv, Apart, Reaps, Kills, NoneRevived, Free, Spawning, Reaping, Reads, Same, OthersSame, CallsSame, RecvsSame, Live, Running
<1>1. HostsApart'
  <2>1. ASSUME NEW b \in Actors, Spawning(b)' PROVE SpawnerApart(b)'
    BY <2>1 DEF HostsApart, SpawnerApart, ReaderApart, Left
  <2>2. ASSUME NEW q \in Runs, (recv[q].pc # "none")' PROVE ReaderApart(q)'
    BY <2>2 DEF HostsApart, SpawnerApart, ReaderApart, Left
  <2>3. ClosedApart'
    BY DEF HostsApart, ClosedApart
  <2> QED
    BY <2>1, <2>2, <2>3 DEF HostsApart
<1>2. ReapersApart'
  BY DEF ReapersApart, EndsOK, EndOK
<1>3. RestedOK'
  BY DEF RestedOK, HostsApart, SpawnerApart, ReaderApart, ClosedApart, EndsOK, EndOK, Left, Startable
<1>4. LivesOK'
  BY DEF LivesOK, HostsApart, SpawnerApart, ReaderApart, ClosedApart, Stopped, Left
<1>5. EndsOK'
  BY DEF EndsOK, HostsApart, SpawnerApart, ReaderApart, EndOK, ClosedApart, ReapersApart, Left
<1>6. PipesOK'
  BY DEF PipesOK, HostsApart, SpawnerApart, ReaderApart, ClosedApart, CloseReachesTracked, Hosts, Left
<1>7. CloseReachesTracked'
  BY DEF CloseReachesTracked, HostsApart, SpawnerApart, ReaderApart, PipesOK, Hosts, Left
<1> QED
  BY <1>1, <1>2, <1>3, <1>4, <1>5, <1>6, <1>7 DEF Apart

LEMMA FinishKeeps ==
    ASSUME HInv, NEW a \in Actors, NEW e \in Entries, Finishes(a, e)
    PROVE  Apart'
<1>. USE Threads DEF HInv, Apart, Finishes, NoneRegistered, Free, Spawning, Reaping, Reads, Same, OthersSame, CallsSame, RecvsSame, Live, Running
<1>1. HostsApart'
  <2>1. ASSUME NEW b \in Actors, Spawning(b)' PROVE SpawnerApart(b)'
    BY <2>1 DEF HostsApart, SpawnerApart, ReaderApart, Left
  <2>2. ASSUME NEW q \in Runs, (recv[q].pc # "none")' PROVE ReaderApart(q)'
    BY <2>2 DEF HostsApart, SpawnerApart, ReaderApart, Left
  <2>3. ClosedApart'
    BY DEF HostsApart, ClosedApart
  <2> QED
    BY <2>1, <2>2, <2>3 DEF HostsApart
<1>2. ReapersApart'
  BY DEF ReapersApart, EndsOK, EndOK
<1>3. RestedOK'
  BY DEF RestedOK, HostsApart, SpawnerApart, ReaderApart, ClosedApart, EndsOK, EndOK, Left, Startable
<1>4. LivesOK'
  BY DEF LivesOK, HostsApart, SpawnerApart, ReaderApart, ClosedApart, Stopped, Left
<1>5. EndsOK'
  BY DEF EndsOK, HostsApart, SpawnerApart, ReaderApart, EndOK, ClosedApart, ReapersApart, Left
<1>6. PipesOK'
  BY DEF PipesOK, HostsApart, SpawnerApart, ReaderApart, ClosedApart, CloseReachesTracked, Hosts, Left
<1>7. CloseReachesTracked'
  BY DEF CloseReachesTracked, HostsApart, SpawnerApart, ReaderApart, PipesOK, Hosts, Left
<1> QED
  BY <1>1, <1>2, <1>3, <1>4, <1>5, <1>6, <1>7 DEF Apart

LEMMA DisconnectKeeps ==
    ASSUME HInv, NEW e \in Entries, NEW r \in Runs, Disconnects(r, e)
    PROVE  Apart'
<1>0. \A d \in Entries : Registered(d)' <=> Registered(d)
  BY DEF Disconnects, Registered
<1>. USE <1>0, Threads DEF HInv, Apart, Disconnects, Free, Spawning, Reaping, Reads, Same, OthersSame, CallsSame, RecvsSame, Live, Running
<1>1. HostsApart'
  <2>1. ASSUME NEW b \in Actors, Spawning(b)' PROVE SpawnerApart(b)'
    BY <2>1 DEF HostsApart, SpawnerApart, ReaderApart, Left
  <2>2. ASSUME NEW q \in Runs, (recv[q].pc # "none")' PROVE ReaderApart(q)'
    BY <2>2 DEF HostsApart, SpawnerApart, ReaderApart, Left
  <2>3. ClosedApart'
    BY DEF HostsApart, ClosedApart
  <2> QED
    BY <2>1, <2>2, <2>3 DEF HostsApart
<1>2. ReapersApart'
  BY DEF ReapersApart, EndsOK, EndOK
<1>3. RestedOK'
  BY DEF RestedOK, HostsApart, SpawnerApart, ReaderApart, ClosedApart, EndsOK, EndOK, Left, Startable
<1>4. LivesOK'
  BY DEF LivesOK, HostsApart, SpawnerApart, ReaderApart, ClosedApart, Stopped, Left
<1>5. EndsOK'
  <2> SUFFICES ASSUME NEW d \in Entries, Registered(d)' PROVE EndOK(d)'
    BY DEF EndsOK
  <2>1. CASE d = e
    <3>1. EndOK(e) /\ \A q \in Runs : Reads(q, e)' => q = r
      BY <2>1 DEF EndsOK, HostsApart, ReaderApart
    <3> QED
      BY <2>1, <3>1 DEF EndOK, Killing
  <2>2. CASE d # e
    BY <2>2 DEF EndsOK, EndOK
  <2> QED
    BY <2>1, <2>2
<1>6. PipesOK'
  BY DEF PipesOK, HostsApart, SpawnerApart, ReaderApart, ClosedApart, CloseReachesTracked, Hosts, Left
<1>7. CloseReachesTracked'
  BY DEF CloseReachesTracked, HostsApart, SpawnerApart, ReaderApart, PipesOK, Hosts, Left
<1> QED
  BY <1>1, <1>2, <1>3, <1>4, <1>5, <1>6, <1>7 DEF Apart

LEMMA ReapDisconnectedKeeps ==
    ASSUME HInv, NEW e \in Entries, NEW r \in Runs, ReapsDisconnected(r, e)
    PROVE  Apart'
<1>0. \A d \in Entries : Registered(d)' <=> Registered(d)
  BY DEF ReapsDisconnected, Kills, Registered
<1>. USE <1>0, Threads DEF HInv, Apart, ReapsDisconnected, Kills, NoneRevived, Free, Spawning, Reaping, Reads, Same, OthersSame, CallsSame, RecvsSame, Live, Running
<1>1. HostsApart'
  <2>1. ASSUME NEW b \in Actors, Spawning(b)' PROVE SpawnerApart(b)'
    BY <2>1 DEF HostsApart, SpawnerApart, ReaderApart, Left
  <2>2. ASSUME NEW q \in Runs, (recv[q].pc # "none")' PROVE ReaderApart(q)'
    BY <2>2 DEF HostsApart, SpawnerApart, ReaderApart, Left
  <2>3. ClosedApart'
    BY DEF HostsApart, ClosedApart
  <2> QED
    BY <2>1, <2>2, <2>3 DEF HostsApart
<1>2. ReapersApart'
  BY DEF ReapersApart, EndsOK, EndOK
<1>3. RestedOK'
  BY DEF RestedOK, HostsApart, SpawnerApart, ReaderApart, ClosedApart, EndsOK, EndOK, Left, Startable
<1>4. LivesOK'
  BY DEF LivesOK, HostsApart, SpawnerApart, ReaderApart, ClosedApart, Stopped, Left
<1>5. EndsOK'
  BY DEF EndsOK, HostsApart, SpawnerApart, ReaderApart, EndOK, ClosedApart, ReapersApart, Left
<1>6. PipesOK'
  BY DEF PipesOK, HostsApart, SpawnerApart, ReaderApart, ClosedApart, CloseReachesTracked, Hosts, Left
<1>7. CloseReachesTracked'
  BY DEF CloseReachesTracked, HostsApart, SpawnerApart, ReaderApart, PipesOK, Hosts, Left
<1> QED
  BY <1>1, <1>2, <1>3, <1>4, <1>5, <1>6, <1>7 DEF Apart

LEMMA FinishDisconnectKeeps ==
    ASSUME HInv, NEW e \in Entries, NEW r \in Runs, FinishesDisconnect(r, e)
    PROVE  Apart'
<1>. USE Threads DEF HInv, Apart, FinishesDisconnect, NoneRegistered, Free, Spawning, Reaping, Reads, Same, OthersSame, CallsSame, RecvsSame, Live, Running
<1>1. HostsApart'
  <2>1. ASSUME NEW b \in Actors, Spawning(b)' PROVE SpawnerApart(b)'
    BY <2>1 DEF HostsApart, SpawnerApart, ReaderApart, Left
  <2>2. ASSUME NEW q \in Runs, (recv[q].pc # "none")' PROVE ReaderApart(q)'
    BY <2>2 DEF HostsApart, SpawnerApart, ReaderApart, Left
  <2>3. ClosedApart'
    BY DEF HostsApart, ClosedApart
  <2> QED
    BY <2>1, <2>2, <2>3 DEF HostsApart
<1>2. ReapersApart'
  BY DEF ReapersApart, EndsOK, EndOK
<1>3. RestedOK'
  BY DEF RestedOK, HostsApart, SpawnerApart, ReaderApart, ClosedApart, EndsOK, EndOK, Left, Startable
<1>4. LivesOK'
  BY DEF LivesOK, HostsApart, SpawnerApart, ReaderApart, ClosedApart, Stopped, Left
<1>5. EndsOK'
  BY DEF EndsOK, HostsApart, SpawnerApart, ReaderApart, EndOK, ClosedApart, ReapersApart, Left
<1>6. PipesOK'
  BY DEF PipesOK, HostsApart, SpawnerApart, ReaderApart, ClosedApart, CloseReachesTracked, Hosts, Left
<1>7. CloseReachesTracked'
  BY DEF CloseReachesTracked, HostsApart, SpawnerApart, ReaderApart, PipesOK, Hosts, Left
<1> QED
  BY <1>1, <1>2, <1>3, <1>4, <1>5, <1>6, <1>7 DEF Apart

LEMMA TakeKeeps ==
    ASSUME HInv, TakesRound
    PROVE  Apart'
<1>. USE Threads DEF HInv, Apart, TakesRound, Free, Spawning, Reaping, Reads, Same, OthersSame, CallsSame, RecvsSame, Live, Running
<1>1. HostsApart'
  <2>1. ASSUME NEW b \in Actors, Spawning(b)' PROVE SpawnerApart(b)'
    BY <2>1 DEF HostsApart, SpawnerApart, ReaderApart, Left
  <2>2. ASSUME NEW q \in Runs, (recv[q].pc # "none")' PROVE ReaderApart(q)'
    BY <2>2 DEF HostsApart, SpawnerApart, ReaderApart, Left
  <2>3. ClosedApart'
    BY DEF HostsApart, ClosedApart
  <2> QED
    BY <2>1, <2>2, <2>3 DEF HostsApart
<1>2. ReapersApart'
  BY DEF ReapersApart, EndsOK, EndOK
<1>3. RestedOK'
  BY DEF RestedOK, HostsApart, SpawnerApart, ReaderApart, ClosedApart, EndsOK, EndOK, Left, Startable
<1>4. LivesOK'
  BY DEF LivesOK, HostsApart, SpawnerApart, ReaderApart, ClosedApart, Stopped, Left
<1>5. EndsOK'
  BY DEF EndsOK, HostsApart, SpawnerApart, ReaderApart, EndOK, ClosedApart, ReapersApart, Left
<1>6. PipesOK'
  BY DEF PipesOK, HostsApart, SpawnerApart, ReaderApart, ClosedApart, CloseReachesTracked, Hosts, Left
<1>7. CloseReachesTracked'
  BY DEF CloseReachesTracked, HostsApart, SpawnerApart, ReaderApart, PipesOK, Hosts, Left
<1> QED
  BY <1>1, <1>2, <1>3, <1>4, <1>5, <1>6, <1>7 DEF Apart

LEMMA ReapRoundKeeps ==
    ASSUME HInv, ReapsRound
    PROVE  Apart'
<1>0. \A d \in Entries : Registered(d)' <=> Registered(d)
  BY DEF ReapsRound, Registered
<1>. USE <1>0, Threads DEF HInv, Apart, ReapsRound, NoneRevived, Free, Spawning, Reaping, Reads, Same, OthersSame, CallsSame, RecvsSame, Live, Running
<1>1. HostsApart'
  <2>1. ASSUME NEW b \in Actors, Spawning(b)' PROVE SpawnerApart(b)'
    BY <2>1 DEF HostsApart, SpawnerApart, ReaderApart, Left
  <2>2. ASSUME NEW q \in Runs, (recv[q].pc # "none")' PROVE ReaderApart(q)'
    BY <2>2 DEF HostsApart, SpawnerApart, ReaderApart, Left
  <2>3. ClosedApart'
    BY DEF HostsApart, ClosedApart
  <2> QED
    BY <2>1, <2>2, <2>3 DEF HostsApart
<1>2. ReapersApart'
  BY DEF ReapersApart, EndsOK, EndOK
<1>3. RestedOK'
  BY DEF RestedOK, HostsApart, SpawnerApart, ReaderApart, ClosedApart, EndsOK, EndOK, Left, Startable
<1>4. LivesOK'
  BY DEF LivesOK, HostsApart, SpawnerApart, ReaderApart, ClosedApart, Stopped, Left
<1>5. EndsOK'
  BY DEF EndsOK, HostsApart, SpawnerApart, ReaderApart, EndOK, ClosedApart, ReapersApart, Left
<1>6. PipesOK'
  BY DEF PipesOK, HostsApart, SpawnerApart, ReaderApart, ClosedApart, CloseReachesTracked, Hosts, Left
<1>7. CloseReachesTracked'
  BY DEF CloseReachesTracked, HostsApart, SpawnerApart, ReaderApart, PipesOK, Hosts, Left
<1> QED
  BY <1>1, <1>2, <1>3, <1>4, <1>5, <1>6, <1>7 DEF Apart

LEMMA EndRoundKeeps ==
    ASSUME HInv, EndsRound
    PROVE  Apart'
<1>. USE Threads DEF HInv, Apart, EndsRound, NoneRegistered, Free, Spawning, Reaping, Reads, Same, OthersSame, CallsSame, RecvsSame, Live, Running
<1>1. HostsApart'
  <2>1. ASSUME NEW b \in Actors, Spawning(b)' PROVE SpawnerApart(b)'
    BY <2>1 DEF HostsApart, SpawnerApart, ReaderApart, Left
  <2>2. ASSUME NEW q \in Runs, (recv[q].pc # "none")' PROVE ReaderApart(q)'
    BY <2>2 DEF HostsApart, SpawnerApart, ReaderApart, Left
  <2>3. ClosedApart'
    BY DEF HostsApart, ClosedApart
  <2> QED
    BY <2>1, <2>2, <2>3 DEF HostsApart
<1>2. ReapersApart'
  BY DEF ReapersApart, EndsOK, EndOK
<1>3. RestedOK'
  BY DEF RestedOK, HostsApart, SpawnerApart, ReaderApart, ClosedApart, EndsOK, EndOK, Left, Startable
<1>4. LivesOK'
  BY DEF LivesOK, HostsApart, SpawnerApart, ReaderApart, ClosedApart, Stopped, Left
<1>5. EndsOK'
  BY DEF EndsOK, HostsApart, SpawnerApart, ReaderApart, EndOK, ClosedApart, ReapersApart, Left
<1>6. PipesOK'
  BY DEF PipesOK, HostsApart, SpawnerApart, ReaderApart, ClosedApart, CloseReachesTracked, Hosts, Left
<1>7. CloseReachesTracked'
  BY DEF CloseReachesTracked, HostsApart, SpawnerApart, ReaderApart, PipesOK, Hosts, Left
<1> QED
  BY <1>1, <1>2, <1>3, <1>4, <1>5, <1>6, <1>7 DEF Apart

----------------------------------------------------------------------------
(* The inductive invariant                                                 *)

LEMMA HostsInit == Init => Apart
<1> SUFFICES ASSUME Init PROVE Apart
  OBVIOUS
<1>1. /\ \A e \in Entries : ~Registered(e) /\ ent[e].state = "idle"
      /\ \A a \in Actors : ~Spawning(a) /\ ~Reaping(a)
      /\ \A r \in Runs : recv[r].pc = "none"
      /\ closing.entries = {} /\ closing.taken = {}
  BY ConstantsAssumption DEF Init, Registered, Blank, Spawning, Reaping, Ready, NoThread
<1>2. HostsApart /\ ReapersApart
  BY <1>1 DEF HostsApart, ClosedApart, ReapersApart
<1>3. RestedOK /\ EndsOK
  BY <1>1 DEF RestedOK, EndsOK
<1>4. \A e \in Entries, r \in Runs : ~Hosts(e, r)
  BY <1>1 DEF Hosts, Spawning
<1>5. LivesOK /\ PipesOK /\ CloseReachesTracked
  BY <1>1, <1>4 DEF LivesOK, PipesOK, CloseReachesTracked, Reads
<1> QED
  BY <1>2, <1>3, <1>5 DEF Apart

LEMMA HostsStep ==
    ASSUME HInv, [Next]_vars
    PROVE  HInv'
<1>1. IInv'
  BY TypeStep, EntriesStep DEF HInv, IInv
<1>2. Labels \/ SpawnKinds \/ EntryKinds \/ CloseKinds
  BY StepKinds DEF HInv, Apart
<1>3. CASE Labels
  BY <1>1, <1>3, LabelsKeep DEF HInv
<1>4. CASE SpawnKinds
  BY <1>1, <1>4, StartKeeps, SpawnKeeps, FailKeeps, RegisterKeeps DEF SpawnKinds, HInv
<1>5. CASE EntryKinds
  BY <1>1, <1>5, QueueKeeps, MarkKeeps, ReapKeeps, FinishKeeps, DisconnectKeeps,
     ReapDisconnectedKeeps, FinishDisconnectKeeps DEF EntryKinds, HInv
<1>6. CASE CloseKinds
  BY <1>1, <1>6, TakeKeeps, ReapRoundKeeps, EndRoundKeeps DEF CloseKinds, HInv
<1> QED
  BY <1>2, <1>3, <1>4, <1>5, <1>6

\* HInv holds in every reachable state, whatever calls the environment makes: no two
\* threads work for the same entry or the same process at a time, although worker_start(),
\* worker_force_kill() and _handle_disconnect() all leave the lock in the middle.
THEOREM HostsInvariance == Spec => []HInv
<1>1. Init => HInv
  <2>1. Init => IInv
    <3>1. Init => EntriesOK
      BY DEF Init, EntriesOK
    <3> QED
      BY <3>1, TypeInit DEF IInv
  <2> QED
    BY <2>1, HostsInit DEF HInv
<1>2. HInv /\ [Next]_vars => HInv'
  BY HostsStep
<1> QED
  BY <1>1, <1>2, PTL DEF Spec

\* StoppedMeansDead: an entry shown as stopped has no process and none is being spawned
\* for it, whichever of worker_force_kill(), _handle_disconnect() and a failed spawn
\* finalized it.
THEOREM StoppedIsDead == Spec => []StoppedMeansDead
<1>1. ASSUME HInv PROVE StoppedMeansDead
  <2> SUFFICES ASSUME NEW e \in Entries \ closing.taken, NEW r \in Runs,
                      Live(r) \/ proc[r] = "pipe", Hosts(e, r)
               PROVE  ent[e].state \notin Stopped
    BY DEF StoppedMeansDead
  <2>1. CASE Reads(r, e)
    BY <1>1, <2>1 DEF HInv, Apart, HostsApart, ReaderApart, LivesOK, Reads
  <2>2. CASE \E a \in Actors : Spawning(a) /\ call[a].entry = e
    BY <1>1, <2>2 DEF HInv, Apart, LivesOK
  <2> QED
    BY <2>1, <2>2 DEF Hosts, Reads, Spawning
<1> QED
  BY <1>1, HostsInvariance, PTL

\* CloseReachesTracked: close() ends every worker it finds in the dict, by its process or
\* by its pipe, whatever spawns, kills and disconnects run at the same time.
THEOREM CloseEndsItsWorkers == Spec => []CloseReachesTracked
<1>1. HInv => CloseReachesTracked
  BY DEF HInv, Apart
<1> QED
  BY <1>1, HostsInvariance, PTL

----------------------------------------------------------------------------
(* A stop reaches its worker, unless it is taken back                      *)

\* A running worker that has a host after a step had it before, or is just starting.
LEMMA HostedBefore ==
    ASSUME HInv, [Next]_vars, NEW e \in Entries, NEW r \in Runs, Hosts(e, r)', Working(r)'
    PROVE  (Hosts(e, r) /\ Working(r)) \/ ent'[e].state = "starting"
<1>. USE DEF Hosts, Working
<1>1. Labels \/ SpawnKinds \/ EntryKinds \/ CloseKinds
  BY StepKinds DEF HInv, Apart
<1>2. CASE Labels
  BY <1>2 DEF Labels, NoneRevived, Free, Spawning
<1>3. CASE SpawnKinds
  <2>1. PICK a \in Actors, d \in Entries, q \in Runs :
          StartsOn(a, d, q) \/ Spawns(a, d, q) \/ FailsToSpawn(a, d, q) \/ Registers(a, d, q)
    BY <1>3 DEF SpawnKinds
  <2>2. CASE StartsOn(a, d, q)
    <3>1. CASE q = r
      BY <2>2, <3>1 DEF StartsOn, CallsSame
    <3>2. CASE q # r
      BY <2>2, <3>2 DEF StartsOn, CallsSame
    <3> QED
      BY <3>1, <3>2
  <2>3. CASE Spawns(a, d, q)
    BY <2>3 DEF Spawns, CallsSame, HInv, Apart, HostsApart, SpawnerApart, Spawning
  <2>4. CASE FailsToSpawn(a, d, q)
    BY <2>4 DEF FailsToSpawn, CallsSame, Free, Spawning
  <2>5. CASE Registers(a, d, q)
    BY <2>5 DEF Registers, CallsSame, RecvsSame, Free, Spawning
  <2> QED
    BY <2>1, <2>2, <2>3, <2>4, <2>5
<1>4. CASE EntryKinds
  <2>1. PICK d \in Entries :
          \/ Queues(d)
          \/ \E a \in Actors : MarksReap(a, d) \/ Reaps(a, d) \/ Finishes(a, d)
          \/ \E q \in Runs : Disconnects(q, d) \/ ReapsDisconnected(q, d)
                             \/ FinishesDisconnect(q, d)
    BY <1>4 DEF EntryKinds
  <2>2. CASE Queues(d)
    BY <2>2 DEF Queues
  <2>3. ASSUME NEW a \in Actors, MarksReap(a, d) \/ Reaps(a, d) \/ Finishes(a, d)
        PROVE  Hosts(e, r) /\ Working(r)
    BY <2>3 DEF MarksReap, Reaps, Kills, Finishes, CallsSame, NoneRevived, Free, Spawning
  <2>4. ASSUME NEW q \in Runs,
               Disconnects(q, d) \/ ReapsDisconnected(q, d) \/ FinishesDisconnect(q, d)
        PROVE  Hosts(e, r) /\ Working(r)
    BY <2>4 DEF Disconnects, ReapsDisconnected, Kills, FinishesDisconnect, RecvsSame, NoneRevived
  <2> QED
    BY <2>1, <2>2, <2>3, <2>4
<1>5. CASE CloseKinds
  BY <1>5 DEF CloseKinds, TakesRound, ReapsRound, EndsRound, NoneRevived
<1> QED
  BY <1>1, <1>2, <1>3, <1>4, <1>5

\* What a step can do to a stop that is not carried out yet.
Untold ==
    /\ NoContinue'
    /\ \A e \in Entries : ent'[e].state = "scheduler-stopping" =>
         ent[e].state = "scheduler-stopping" \/ Pending(e)'
    /\ \A r \in Runs : ctl'[r] = "run" /\ Working(r) => ctl[r] = "run"
    /\ \A e \in Entries : Pending(e) => Pending(e)'

LEMMA MarkUntold ==
    ASSUME IInv, NoContinue, NEW a \in Actors, NEW c \in Configs, NEW new \in Entry,
           NEW keep \in BOOLEAN, NEW pc \in {"send", "reap"}, NEW cmd \in Commands,
           cmd # "scheduler-continue", call[a].pc # "send", reg[c] \in Entries,
           new.state = "scheduler-stopping" => pc = "send",
           Mark(a, c, new, keep, pc, cmd), UNCHANGED <<proc, ctl, recv, closing>>
    PROVE  Untold
<1>1. /\ call'[a].pc = pc /\ call'[a].entry = reg[c] /\ call'[a].cmd = cmd
      /\ \A b \in Actors \ {a} : call'[b] = call[b]
  BY MarkType DEF IInv
<1>2. ent' = [ent EXCEPT ![reg[c]] = new]
  BY DEF Mark, Publish
<1>3. NoContinue'
  BY <1>1 DEF NoContinue
<1>4. \A e \in Entries : Pending(e) => Pending(e)'
  BY <1>1 DEF Pending
<1>5. ASSUME NEW e \in Entries, ent'[e].state = "scheduler-stopping"
      PROVE  ent[e].state = "scheduler-stopping" \/ Pending(e)'
  <2>1. CASE e = reg[c]
    BY <1>1, <1>2, <1>5, <2>1 DEF Pending, IInv, TInv, TypeOK
  <2>2. CASE e # reg[c]
    BY <1>2, <1>5, <2>2 DEF IInv, TInv, TypeOK
  <2> QED
    BY <2>1, <2>2
<1> QED
  BY <1>3, <1>4, <1>5 DEF Untold

LEMMA RequestUntold ==
    ASSUME IInv, NoContinue, NEW a \in Actors, NEW c \in Configs, NEW keep \in BOOLEAN, NEW done,
           done \in {call, Return(a)}, call[a].pc # "send",
           \/ StopRequest(a, c, keep)
           \/ KillRequest(a, c, keep)
           \/ ForceKillRequest(a, c, keep, done),
           UNCHANGED <<proc, ctl, recv, closing>>
    PROVE  Untold
<1>0. ASSUME call' \in {call, Return(a)}
      PROVE  NoContinue' /\ \A e \in Entries : Pending(e) => Pending(e)'
  BY <1>0 DEF NoContinue, Pending, Return, Ready, IInv, TInv, TypeOK
<1>1. CASE CancelsResume(c, keep) /\ CancelResume(c) /\ call' \in {call, Return(a)}
  <2>1. reg[c] \in Entries /\ ent[reg[c]] \in Entry
    BY <1>1, NotIdle DEF CancelsResume, IInv, TInv
  <2>2. \A e \in Entries : ent'[e].state = "scheduler-stopping" => ent'[e] = ent[e]
    BY <1>1, <2>1 DEF CancelResume, Publish, IInv, TInv, TypeOK, Entry
  <2> QED
    BY <1>0, <1>1, <2>2 DEF Untold
<1>2. CASE UNCHANGED <<reg, ent>> /\ call' \in {call, Return(a)}
  BY <1>0, <1>2 DEF Untold
<1>3. ASSUME StateOf(c) \in ForceKillable
      PROVE  reg[c] \in Entries /\ ent[reg[c]] \in Entry
  BY <1>3, NotIdle DEF IInv, TInv, ForceKillable, Killable, Stoppable
<1>4. CASE /\ StateOf(c) \in Stoppable
           /\ Mark(a, c, [ent[reg[c]] EXCEPT !.state = "scheduler-stopping"], FALSE,
                   "send", "scheduler-stopping")
  <2>1. reg[c] \in Entries /\ [ent[reg[c]] EXCEPT !.state = "scheduler-stopping"] \in Entry
    BY <1>3, <1>4 DEF ForceKillable, Killable, Entry, States
  <2> QED
    BY <1>4, <2>1, MarkUntold DEF Commands
<1>5. CASE /\ StateOf(c) \in Killable
           /\ Mark(a, c, [ent[reg[c]] EXCEPT !.state = "killing", !.pending = keep /\ @], keep,
                   "send", "killing")
  <2>1. reg[c] \in Entries /\ [ent[reg[c]] EXCEPT !.state = "killing", !.pending = keep /\ @] \in Entry
    BY <1>3, <1>5 DEF ForceKillable, Entry, States
  <2> QED
    BY <1>5, <2>1, MarkUntold DEF Commands
<1>6. CASE /\ StateOf(c) \in ForceKillable
           /\ Mark(a, c, [ent[reg[c]] EXCEPT !.state = "force-killing", !.pending = keep /\ @],
                   keep, AfterForceKillMark(reg[c]), "force-killing")
  <2>. DEFINE new == [ent[reg[c]] EXCEPT !.state = "force-killing", !.pending = keep /\ @]
  <2>1. reg[c] \in Entries /\ new \in Entry /\ new.state = "force-killing"
    BY <1>3, <1>6 DEF Entry, States
  <2>2. AfterForceKillMark(reg[c]) \in {"send", "reap"}
    BY DEF AfterForceKillMark
  <2>3. Mark(a, c, new, keep, AfterForceKillMark(reg[c]), "force-killing")
    BY <1>6
  <2> HIDE DEF new
  <2> QED
    BY <2>1, <2>2, <2>3, MarkUntold DEF Commands
<1> QED
  BY <1>1, <1>2, <1>4, <1>5, <1>6 DEF StopRequest, KillRequest, ForceKillRequest


\* A call that sends nothing.
LEMMA QuietCall ==
    ASSUME IInv, NoContinue, NEW a \in Actors, call[a].pc # "send", call'[a].pc # "send",
           \A b \in Actors \ {a} : call'[b] = call[b]
    PROVE  NoContinue' /\ \A e \in Entries : Pending(e) => Pending(e)'
BY DEF NoContinue, Pending

LEMMA StartUntold ==
    ASSUME IInv, NoContinue, NEW a \in Actors, NEW e \in Entries, NEW r \in UnusedRuns,
           NEW before \in Entry, call[a].pc = "ready", MarkStarting(a, e, r, before)
    PROVE  Untold
<1>1. call'[a].pc = "spawn" /\ \A b \in Actors \ {a} : call'[b] = call[b]
  BY DEF MarkStarting, Ready, IInv, TInv, TypeOK
<1>2. r \in Runs /\ ~Working(r) /\ ctl' = [ctl EXCEPT ![r] = "run"]
  BY DEF UnusedRuns, Working, MarkStarting
<1>3. \A d \in Entries : ent'[d].state = "scheduler-stopping" =>
        ent[d].state = "scheduler-stopping"
  BY DEF MarkStarting, IInv, TInv, TypeOK, Entry
<1>4. \A q \in Runs : ctl'[q] = "run" /\ Working(q) => ctl[q] = "run"
  BY <1>2 DEF IInv, TInv, TypeOK
<1> QED
  BY <1>1, <1>3, <1>4, QuietCall DEF Untold

LEMMA UserUntold ==
    ASSUME IInv, NoContinue, "continue" \notin Operations, UserNext
    PROVE  Untold
<1>0. \A a \in Callers : a \in Actors
  BY DEF Actors
<1>1. ASSUME NEW a \in Callers, NEW c \in Configs, Start(a, c) PROVE Untold
  <2>1. PICK e \in EntryFor(c), r \in UnusedRuns :
               MarkStarting(a, e, r, [Before(c, e) EXCEPT !.pending = FALSE])
    BY <1>1 DEF Start
  <2>2. e \in Entries /\ [Before(c, e) EXCEPT !.pending = FALSE] \in Entry
    BY EntryForType DEF IInv, TInv, Entry
  <2> QED
    BY <1>0, <1>1, <2>1, <2>2, StartUntold DEF Start
<1>2. ASSUME NEW a \in Callers, NEW c \in Configs, Resume(a, c) PROVE Untold
  <2>1. PICK r \in UnusedRuns : MarkStarting(a, reg[c], r, ent[reg[c]])
    BY <1>2 DEF Resume
  <2>2. reg[c] \in Entries /\ ent[reg[c]] \in Entry
    BY <1>2, NotIdle DEF Resume, IInv, TInv
  <2> QED
    BY <1>0, <1>2, <2>1, <2>2, StartUntold DEF Resume
<1>3. ASSUME NEW a \in Callers, NEW c \in Configs, QueueStart(a, c) PROVE Untold
  <2>1. PICK e \in EntryFor(c) :
          ent' = [ent EXCEPT ![e] =
                [Before(c, e) EXCEPT !.pending = restart.inflight,
                        !.state = IF restart.inflight THEN "parked" ELSE "resuming"]]
    BY <1>3 DEF QueueStart
  <2>2. e \in Entries /\ Before(c, e) \in Entry
    BY EntryForType DEF IInv, TInv
  <2>3. \A d \in Entries : ent'[d].state = "scheduler-stopping" =>
          ent[d].state = "scheduler-stopping"
    BY <2>1, <2>2 DEF IInv, TInv, TypeOK, Entry
  <2> QED
    BY <1>3, <2>3 DEF QueueStart, Untold, NoContinue, Pending
<1>4. ASSUME NEW a \in Callers, NEW c \in Configs, NEW keep \in BOOLEAN,
             SchedulerStop(a, c, keep) \/ Kill(a, c, keep) \/ ForceKill(a, c, keep)
      PROVE  Untold
  BY <1>0, <1>4, RequestUntold DEF SchedulerStop, Kill, ForceKill, UserCall
<1>5. ASSUME NEW c \in Configs, MarkResume(c) PROVE Untold
  <2>1. PICK e \in EntryFor(c) :
          ent' = [ent EXCEPT ![e] = [Before(c, e) EXCEPT !.state = "resuming"]]
    BY <1>5 DEF MarkResume
  <2>2. e \in Entries /\ Before(c, e) \in Entry
    BY EntryForType DEF IInv, TInv
  <2>3. \A d \in Entries : ent'[d].state = "scheduler-stopping" =>
          ent[d].state = "scheduler-stopping"
    BY <2>1, <2>2 DEF IInv, TInv, TypeOK, Entry
  <2> QED
    BY <1>5, <2>3 DEF MarkResume, Untold, NoContinue, Pending
<1>6. ASSUME NEW c \in Configs, DropResume(c) PROVE Untold
  <2>1. reg[c] \in Entries /\ ent[reg[c]] \in Entry
    BY <1>6, NotIdle DEF DropResume, IInv, TInv
  <2> QED
    BY <1>6, <2>1 DEF DropResume, Publish, Untold, NoContinue, Pending, IInv, TInv, TypeOK, Entry
<1>7. ASSUME RestartBegin \/ RestartCancel PROVE Untold
  <2>1. \A e \in Entries : ent'[e].state = "scheduler-stopping" =>
          ent[e].state = "scheduler-stopping"
    <3>1. ASSUME NEW e \in Entries
          PROVE  ent[e] \in Entry /\ ent'[e] \in {ent[e], Taken(ent[e]), Released(ent[e])}
      BY <1>7 DEF RestartBegin, RestartCancel, IInv, TInv, TypeOK
    <3>2. \A w \in Entry : Taken(w).state # "scheduler-stopping" \/ w.state = "scheduler-stopping"
      BY DEF Taken, Entry
    <3>3. \A w \in Entry : Released(w).state # "scheduler-stopping" \/ w.state = "scheduler-stopping"
      BY DEF Released, Entry
    <3> QED
      BY <3>1, <3>2, <3>3
  <2> QED
    BY <1>7, <2>1 DEF RestartBegin, RestartCancel, Untold, NoContinue, Pending
<1>8. ASSUME RestartAbort \/ Flow PROVE Untold
  BY <1>8 DEF RestartAbort, Flow, Untold, NoContinue, Pending
<1> QED
  BY <1>1, <1>2, <1>3, <1>4, <1>5, <1>6, <1>7, <1>8
     DEF UserNext, SchedulerContinue, UserCall, Offered

LEMMA CallUntold ==
    ASSUME IInv, NoContinue, NEW a \in Actors, CallNext(a), ~Send(a)
    PROVE  Untold
<1>0. call[a].pc # "send"
  BY DEF CallNext, Send, Spawn, SpawnFail, Register, KillDone, KillTimeout, Escalate, Reap, Finish
<1>1. ASSUME call[a].entry \in Entries, ~Escalate(a)
      PROVE  Untold
  <2>1. call'[a].pc # "send" /\ \A b \in Actors \ {a} : call'[b] = call[b]
    <3>1. TypeOK /\ call \in [Actors -> Call]
      BY DEF IInv, TInv, TypeOK
    <3>2. CASE SpawnFail(a) \/ Register(a) \/ KillDone(a) \/ Finish(a)
      BY <3>1, <3>2, ReturnType DEF SpawnFail, Register, KillDone, Finish
    <3>3. CASE Spawn(a) \/ KillTimeout(a) \/ Reap(a)
      <4>1. \E pc \in {"register", "escalate", "final"} : call' = [call EXCEPT ![a].pc = pc]
        BY <3>3 DEF Spawn, KillTimeout, Reap
      <4>2. call[a] \in Call
        BY <3>1
      <4> QED
        BY <3>1, <4>1, <4>2 DEF Call
    <3> QED
      BY <1>0, <1>1, <3>2, <3>3 DEF CallNext
  <2>2. \A e \in Entries : ent'[e].state = "scheduler-stopping" =>
          ent[e].state = "scheduler-stopping"
    <3>1. CASE Spawn(a) \/ SpawnFail(a) \/ Register(a)
      <4>1. \A e \in Entries :
              \/ ent'[e] = ent[e]
              \/ ent'[e] = [ent[e] EXCEPT !.conn = None,
                                !.state = IF ent[e].pending THEN "parked" ELSE "error"]
              \/ ent'[e] = [ent[e] EXCEPT !.process = call[a].run]
        BY <1>1, <3>1 DEF Spawn, SpawnFail, Register, IInv, TInv, TypeOK
      <4>2. \A e \in Entries : ent[e] \in Entry
        BY DEF IInv, TInv, TypeOK
      <4> QED
        BY <4>1, <4>2 DEF Entry
    <3>2. CASE KillDone(a) \/ KillTimeout(a) \/ Reap(a)
      BY <3>2 DEF KillDone, KillTimeout, Reap
    <3>3. CASE Finish(a)
      BY <1>1, <3>3 DEF Finish, Publish, IInv, TInv, TypeOK, Entry
    <3> QED
      BY <1>0, <1>1, <3>1, <3>2, <3>3 DEF CallNext
  <2>3. \A r \in Runs : ctl'[r] = "run" => ctl[r] = "run"
    BY <1>1
       DEF CallNext, Send, Spawn, SpawnFail, Register, KillDone, KillTimeout, Reap, Finish,
           CloseConn, IInv, TInv, TypeOK
  <2> QED
    BY <1>0, <2>1, <2>2, <2>3, QuietCall DEF Untold
<1>2. call[a].pc # "ready"
  BY DEF CallNext, Send, Spawn, SpawnFail, Register, KillDone, KillTimeout, Escalate, Reap, Finish
<1>3. call[a].entry \in Entries /\ call[a].config \in Configs /\ call[a].keep \in BOOLEAN
  BY <1>2 DEF IInv, TInv, ThreadsOK, TypeOK, Call
<1>4. CASE Escalate(a)
  BY <1>0, <1>3, <1>4, RequestUntold DEF Escalate
<1> QED
  BY <1>1, <1>3, <1>4

LEMMA RecvUntold ==
    ASSUME IInv, NoContinue, NEW r \in Runs, RecvNext(r)
    PROVE  Untold
<1>1. recv[r].pc # "none" /\ UNCHANGED call
  BY DEF RecvNext, Report, Disconnect, ReapDisconnected, FinishDisconnect
<1>2. recv[r].entry \in Entries /\ recv[r] \in RecvThread
  BY <1>1 DEF IInv, TInv, ThreadsOK, TypeOK
<1>3. \A e \in Entries : ent'[e].state = "scheduler-stopping" =>
        ent[e].state = "scheduler-stopping"
  <2>1. CASE Report(r) \/ Disconnect(r) \/ ReapDisconnected(r)
    BY <1>2, <2>1 DEF Report, Disconnect, ReapDisconnected, IInv, TInv, TypeOK, Entry
  <2>2. CASE FinishDisconnect(r)
    <3>1. \A p \in BOOLEAN : FinalState(p, recv[r]) # "scheduler-stopping"
      BY <1>2 DEF FinalState, RecvThread
    <3>2. ent[recv[r].entry].pending \in BOOLEAN
      BY <1>2 DEF IInv, TInv, TypeOK, Entry
    <3> QED
      <4>. DEFINE gone == [ent[recv[r].entry] EXCEPT !.conn = None, !.process = None]
                  new == [gone EXCEPT !.state = FinalState(gone.pending, recv[r])]
      <4>1. /\ ent[recv[r].entry] \in Entry /\ gone.state = ent[recv[r].entry].state
            /\ gone.pending = ent[recv[r].entry].pending
        BY <1>2 DEF IInv, TInv, TypeOK, Entry
      <4>2. new.state # "scheduler-stopping"
        BY <3>1, <3>2, <4>1 DEF Entry
      <4>3. ent' = [ent EXCEPT ![recv[r].entry] = gone] \/ ent' = [ent EXCEPT ![recv[r].entry] = new]
        BY <2>2 DEF FinishDisconnect, Publish
      <4> HIDE DEF new, gone
      <4> QED
        BY <1>2, <4>1, <4>2, <4>3 DEF IInv, TInv, TypeOK
  <2> QED
    BY <2>1, <2>2 DEF RecvNext
<1>4. \A q \in Runs : ctl'[q] = "run" => ctl[q] = "run"
  BY DEF RecvNext, Report, Disconnect, ReapDisconnected, FinishDisconnect, CloseConn,
         IInv, TInv, TypeOK
<1> QED
  BY <1>1, <1>3, <1>4 DEF Untold, NoContinue, Pending

LEMMA CloseUntold ==
    ASSUME IInv, NoContinue, CloseNext
    PROVE  Untold
<1>1. UNCHANGED call
  BY DEF CloseNext, CloseTakes, CloseReaps, CloseEnds
<1>2. \A e \in Entries : ent'[e].state = "scheduler-stopping" =>
        ent[e].state = "scheduler-stopping"
  <2>1. ASSUME NEW e \in Entries
        PROVE  /\ ent[e] \in Entry
               /\ \/ ent'[e] = ent[e]
                  \/ ent'[e] = [ent[e] EXCEPT !.state = "killing"]
                  \/ ent'[e] = [ent[e] EXCEPT !.process = None, !.conn = None, !.state = "idle"]
    BY DEF CloseNext, CloseTakes, CloseReaps, CloseEnds, IInv, TInv, TypeOK
  <2> QED
    BY <2>1 DEF Entry
<1>3. \A q \in Runs : ctl'[q] = "run" => ctl[q] = "run"
  BY DEF CloseNext, CloseTakes, CloseReaps, CloseEnds, IInv, TInv, TypeOK
<1> QED
  BY <1>1, <1>2, <1>3 DEF Untold, NoContinue, Pending


\* send_command() reaches the worker it is for, or one that is gone.
LEMMA SendTells ==
    ASSUME HInv, StopsOK, NEW a \in Actors, Send(a)
    PROVE  StopsOK'
<1>1. /\ call[a].pc = "send" /\ call[a].cmd \in Commands \ {"scheduler-continue"}
      /\ call[a].entry \in Entries
      /\ UNCHANGED <<reg, ent, proc, recv>>
      /\ \A b \in Actors \ {a} : call'[b] = call[b]
  BY ReturnType DEF Send, StopsOK, NoContinue, HInv, IInv, TInv, ThreadsOK, TypeOK
<1>2. call'[a].pc # "send"
  BY <1>1, ReturnType DEF Send, HInv, IInv, TInv, TypeOK, Call
<1>3. \A old \in Orders : Told(old, call[a].cmd) # "run"
  BY <1>1 DEF Told, Orders, Commands
<1>4. \A r \in Runs : ctl'[r] = ctl[r] \/ ctl'[r] # "run"
  BY <1>3 DEF Send, HInv, IInv, TInv, TypeOK
<1>5. \A r \in Runs : ent[call[a].entry].conn = r /\ Working(r) => ctl'[r] # "run"
  BY <1>3 DEF Send, Working, HInv, IInv, TInv, TypeOK
<1>6. NoContinue'
  BY <1>1, <1>2 DEF StopsOK, NoContinue
<1>7. ASSUME NEW e \in Entries, NEW r \in Runs, (ent[e].state = "scheduler-stopping")',
             Hosts(e, r)', Working(r)'
      PROVE  ctl'[r] # "run" \/ Pending(e)'
  <2>1. Hosts(e, r) /\ Working(r)
    BY <1>1, <1>2, <1>7 DEF Hosts, Working, Send, Return, Ready, HInv, IInv, TInv, TypeOK
  <2>2. CASE e = call[a].entry
    <3>1. ent[e].conn = r \/ ctl[r] = "closed"
      BY <2>1 DEF HInv, Apart, PipesOK, Running, Live, Working
    <3> QED
      BY <1>4, <1>5, <2>1, <2>2, <3>1
  <2>3. CASE e # call[a].entry
    <3>1. ctl[r] # "run" \/ Pending(e)
      BY <1>1, <1>7, <2>1 DEF StopsOK
    <3>2. Pending(e) => Pending(e)'
      BY <1>1, <2>3 DEF Pending
    <3> QED
      BY <1>4, <3>1, <3>2
  <2> QED
    BY <2>2, <2>3
<1> QED
  BY <1>6, <1>7 DEF StopsOK

LEMMA StopsStep ==
    ASSUME HInv, StopsOK, "continue" \notin Operations, [Next]_vars
    PROVE  StopsOK'
<1>1. CASE \E a \in Actors : Send(a)
  BY <1>1, SendTells
<1>2. CASE ~\E a \in Actors : Send(a)
  <2>0. IInv /\ NoContinue
    BY DEF HInv, StopsOK
  <2>1. Untold
    <3>1. CASE UserNext
      BY <2>0, <3>1, UserUntold
    <3>2. ASSUME NEW a \in Actors, CallNext(a) PROVE Untold
      BY <1>2, <2>0, <3>2, CallUntold
    <3>3. ASSUME NEW r \in Runs, RecvNext(r) PROVE Untold
      BY <2>0, <3>3, RecvUntold
    <3>4. ASSUME NEW r \in Runs, WorkerNext(r) PROVE Untold
      BY <2>0, <3>4
         DEF WorkerNext, WorkerClosesPipe, WorkerExit, Untold, NoContinue, Pending
    <3>5. CASE OrchNext
      <4>1. ASSUME NEW c \in Configs, StopNext(c) \/ KillNext(c) PROVE Untold
        <5>1. Orch \in Actors /\ call[Orch].pc # "send" /\ UNCHANGED <<proc, ctl, recv, closing>>
          BY <4>1 DEF Actors, StopNext, KillNext
        <5>2. \E keep \in BOOLEAN : StopRequest(Orch, c, keep) \/ KillRequest(Orch, c, keep)
          BY <4>1 DEF StopNext, KillNext
        <5> QED
          BY <2>0, <5>1, <5>2, RequestUntold
      <4>2. CASE StopsSent \/ WaitOver \/ WaitAborted \/ WaitTimesOut \/ KillsSent \/ Freeze
        BY <2>0, <4>2 DEF StopsSent, WaitOver, WaitAborted, WaitTimesOut, KillsSent, Freeze,
                          Untold, NoContinue, Pending
      <4> QED
        BY <3>5, <4>1, <4>2 DEF OrchNext
    <3>6. CASE CloseNext
      BY <2>0, <3>6, CloseUntold
    <3>7. CASE UNCHANGED vars
      BY <2>0, <3>7 DEF vars, Untold, NoContinue, Pending
    <3> QED
      BY <3>1, <3>2, <3>3, <3>4, <3>5, <3>6, <3>7 DEF Next
  <2>2. ASSUME NEW e \in Entries, NEW r \in Runs, (ent[e].state = "scheduler-stopping")',
               Hosts(e, r)', Working(r)'
        PROVE  ctl'[r] # "run" \/ Pending(e)'
    <3>1. Hosts(e, r) /\ Working(r)
      BY <2>2, HostedBefore
    <3> QED
      BY <2>1, <2>2, <3>1 DEF Untold, StopsOK
  <2> QED
    BY <2>1, <2>2 DEF Untold, StopsOK
<1> QED
  BY <1>1, <1>2

\* StopReachesWorker: where no stop is taken back by worker_scheduler_continue(), whose
\* answer may overtake the stop (StopOvertaken.cfg), a worker that is shown as stopping
\* has been told to stop when no thread is left that is about to tell it: no start, no kill and no
\* restart in between loses the command.
THEOREM StopsReachTheirWorkers ==
    ASSUME "continue" \notin Operations
    PROVE  Spec => []StopReachesWorker
<1>1. Init => HInv /\ StopsOK
  <2>1. ASSUME Init PROVE StopsOK
    BY <2>1 DEF Init, StopsOK, NoContinue, Ready, Blank
  <2>2. Init => IInv
    <3>1. Init => EntriesOK
      BY DEF Init, EntriesOK
    <3> QED
      BY <3>1, TypeInit DEF IInv
  <2> QED
    BY <2>1, <2>2, HostsInit DEF HInv
<1>2. HInv /\ StopsOK /\ [Next]_vars => (HInv /\ StopsOK)'
  BY HostsStep, StopsStep
<1>3. HInv /\ StopsOK => StopReachesWorker
  <2> SUFFICES ASSUME HInv, StopsOK, NEW c \in Configs, StateOf(c) = "scheduler-stopping",
                      \A a \in Actors : ~(call[a].pc = "send" /\ call[a].entry = reg[c]),
                      NEW r \in Runs, Hosts(reg[c], r), proc[r] \in {"pipe", "alive"}
               PROVE  ctl[r] # "run"
    BY DEF StopReachesWorker
  <2>1. reg[c] \in Entries /\ ent[reg[c]].state = "scheduler-stopping"
    BY NotIdle DEF HInv, IInv, TInv
  <2> QED
    BY <2>1 DEF StopsOK, Pending, Working
<1> QED
  BY <1>1, <1>2, <1>3, PTL DEF Spec

----------------------------------------------------------------------------
(* Where nothing is killed                                                 *)

LEMMA NothingKilledStep ==
    ASSUME IInv, NoKills, NothingKilled, [Next]_vars
    PROVE  NothingKilled'
<1>1. /\ UNCHANGED closing
      /\ stage' \notin {"killing", "draining"}
  BY DEF NoKills, NothingKilled, Next, vars, UserNext, CallNext, RecvNext, WorkerNext, OrchNext,
         CloseNext, Start, QueueStart, Resume, SchedulerContinue, SchedulerStop, Kill, ForceKill,
         MarkResume, DropResume, RestartBegin, RestartAbort, RestartCancel, Flow,
         Spawn, SpawnFail, Register, Send, KillDone, KillTimeout, Escalate, Reap, Finish,
         Report, Disconnect, ReapDisconnected, FinishDisconnect, WorkerClosesPipe, WorkerExit,
         StopNext, KillNext, StopsSent, WaitOver, WaitAborted, WaitTimesOut, KillsSent, Freeze,
         CloseTakes, CloseReaps, CloseEnds
<1>. DEFINE Calm(w) == /\ w.pc \in {"ready", "spawn", "register", "send"}
                       /\ w.pc = "send" => w.cmd \in {"scheduler-stopping", "scheduler-continue"}
<1>2. Calm(Ready)
  BY DEF Ready
<1>3. ASSUME NEW a \in Actors, NEW c \in Configs, NEW keep, StopRequest(a, c, keep)
      PROVE  \A b \in Actors : Calm(call'[b])
  BY ZenonT(40), <1>3 DEF StopRequest, Mark, Ready, NothingKilled, IInv, TInv, TypeOK
<1>4. \A a \in Actors : Calm(call'[a])
  <2>1. CASE UserNext
    <3>0. \A a \in Callers : a \in Actors
      BY DEF Actors
    <3>1. ASSUME NEW a \in Callers, NEW c \in Configs, Start(a, c) \/ Resume(a, c)
          PROVE  \A b \in Actors : Calm(call'[b])
      <4>1. \E e, r, before : MarkStarting(a, e, r, before)
        BY <3>1 DEF Start, Resume
      <4> QED
        BY <3>0, <4>1 DEF MarkStarting, Ready, NothingKilled, IInv, TInv, TypeOK
    <3>2. ASSUME NEW a \in Callers, NEW c \in Configs, SchedulerContinue(a, c)
          PROVE  \A b \in Actors : Calm(call'[b])
      BY <3>0, <3>2 DEF SchedulerContinue, Mark, Ready, NothingKilled, IInv, TInv, TypeOK
    <3>3. ASSUME NEW a \in Callers, NEW c \in Configs, NEW keep, SchedulerStop(a, c, keep)
          PROVE  \A b \in Actors : Calm(call'[b])
      BY <1>3, <3>0, <3>3 DEF SchedulerStop
    <3>4. CASE UNCHANGED call
      BY <3>4 DEF NothingKilled
    <3> QED
      BY <2>1, <3>1, <3>2, <3>3, <3>4
         DEF UserNext, QueueStart, MarkResume, DropResume, RestartBegin, RestartAbort,
             RestartCancel, Flow, Kill, ForceKill, UserCall, Offered, NoKills
  <2>2. ASSUME NEW a \in Actors, CallNext(a)
        PROVE  \A b \in Actors : Calm(call'[b])
    <3>1. CASE Spawn(a)
      BY <3>1 DEF Spawn, NothingKilled, IInv, TInv, TypeOK, Call
    <3>2. CASE call' = Return(a)
      BY <1>2, <3>2 DEF Return, NothingKilled, IInv, TInv, TypeOK
    <3> QED
      BY <2>2, <3>1, <3>2
         DEF CallNext, SpawnFail, Register, Send, KillDone, KillTimeout, Escalate, Reap, Finish,
             NothingKilled
  <2>3. CASE OrchNext
    <3>1. CASE \E c \in Configs : StopNext(c)
      BY <1>3, <3>1 DEF StopNext, Actors
    <3>2. CASE UNCHANGED call
      BY <3>2 DEF NothingKilled
    <3> QED
      BY <2>3, <3>1, <3>2
         DEF OrchNext, KillNext, StopsSent, WaitOver, WaitAborted, WaitTimesOut, KillsSent,
             Freeze, NothingKilled
  <2>4. CASE UNCHANGED call
    BY <2>4 DEF NothingKilled
  <2> QED
    BY <2>1, <2>2, <2>3, <2>4
       DEF Next, vars, RecvNext, Report, Disconnect, ReapDisconnected, FinishDisconnect,
           WorkerNext, WorkerClosesPipe, WorkerExit, CloseNext, CloseTakes, CloseReaps, CloseEnds
<1> QED
  BY <1>1, <1>4 DEF NothingKilled

\* With nothing killed and nothing closed no step but these is left.
LEMMA CalmKinds ==
    ASSUME HInv, NoKills, NothingKilled, [Next]_vars
    PROVE  \/ Labels \/ SpawnKinds
           \/ \E e \in Entries : Queues(e)
           \/ \E e \in Entries, r \in Runs :
                Disconnects(r, e) \/ ReapsDisconnected(r, e) \/ FinishesDisconnect(r, e)
<1>1. NothingKilled'
  BY NothingKilledStep DEF HInv
<1>2. Labels \/ SpawnKinds \/ EntryKinds \/ CloseKinds
  BY StepKinds DEF HInv, Apart
<1>3. ASSUME NEW a \in Actors, NEW e \in Entries
      PROVE  ~MarksReap(a, e) /\ ~Reaps(a, e) /\ ~Finishes(a, e)
  BY <1>1 DEF NothingKilled, MarksReap, Reaps, Finishes
<1>4. ~CloseNext
  BY DEF NoKills, NothingKilled, CloseNext, CloseTakes, CloseReaps, CloseEnds
<1> QED
  BY <1>2, <1>3, <1>4 DEF EntryKinds, CloseKinds


LEMMA AllHostedStep ==
    ASSUME HInv, NoKills, NothingKilled, AllHosted, [Next]_vars
    PROVE  AllHosted'
<1>. USE DEF Hosts
<1>1. \/ Labels \/ SpawnKinds
      \/ \E e \in Entries : Queues(e)
      \/ \E e \in Entries, r \in Runs :
           Disconnects(r, e) \/ ReapsDisconnected(r, e) \/ FinishesDisconnect(r, e)
  BY CalmKinds
<1>2. CASE Labels
  <2>1. \A e \in Entries, r \in Runs : Hosts(e, r)' <=> Hosts(e, r)
    BY <1>2 DEF Labels, Free, Spawning
  <2>2. \A r \in Runs : Running(r)' => Running(r)
    BY <1>2 DEF Labels, NoneRevived, Running, Live
  <2> HIDE DEF Hosts
  <2> QED
    BY <1>2, <2>1, <2>2 DEF AllHosted, Labels, Relabelled
<1>3. ASSUME NEW a \in Actors, NEW d \in Entries, NEW q \in Runs, StartsOn(a, d, q)
      PROVE  AllHosted'
  <2>1. \A e \in Entries, r \in Runs : Hosts(e, r)' <=> Hosts(e, r) \/ (e = d /\ r = q)
    BY <1>3 DEF StartsOn, CallsSame, Free, Spawning
  <2>2. \A r \in Runs : Running(r)' => Running(r) \/ r = q
    BY <1>3 DEF StartsOn, Running, Live
  <2>3. \A r \in Runs : ~Hosts(d, r)
    BY <1>3 DEF StartsOn, Left, Reads, Spawning
  <2> HIDE DEF Hosts
  <2> QED
    BY <1>3, <2>1, <2>2, <2>3 DEF AllHosted, StartsOn, OthersSame, Same, OthersKept, Stopped
<1>4. ASSUME NEW a \in Actors, NEW d \in Entries, NEW q \in Runs,
             Spawns(a, d, q) \/ Registers(a, d, q)
      PROVE  AllHosted'
  <2>1. \A e \in Entries, r \in Runs : Hosts(e, r)' <=> Hosts(e, r)
    BY <1>4 DEF Spawns, Registers, CallsSame, RecvsSame, Free, Spawning, HInv, Apart, HostsApart, SpawnerApart
  <2>2. \A r \in Runs : Running(r)' => Running(r) \/ r = q
    BY <1>4 DEF Spawns, Registers, Running, Live
  <2>3. Hosts(d, q)
    BY <1>4 DEF Spawns, Registers
  <2>4. \A e \in Entries : Registered(e)' <=> Registered(e)
    BY <1>4 DEF Spawns, Registers, Registered
  <2>5. \A e \in Entries : ent'[e].state = ent[e].state
    BY <1>4 DEF Spawns, Registers, OthersSame, Same
  <2> HIDE DEF Hosts
  <2> QED
    BY <2>1, <2>2, <2>3, <2>4, <2>5 DEF AllHosted
<1>5. ASSUME NEW a \in Actors, NEW d \in Entries, NEW q \in Runs, FailsToSpawn(a, d, q)
      PROVE  AllHosted'
  <2>1. \A e \in Entries, r \in Runs : Hosts(e, r) => (Hosts(e, r)' /\ e # d) \/ (e = d /\ r = q)
    BY <1>5 DEF FailsToSpawn, CallsSame, HInv, Apart, HostsApart, SpawnerApart, Spawning, Reads
  <2>2. \A e \in Entries, r \in Runs : Hosts(e, r)' => Hosts(e, r) /\ e # d
    BY <1>5
       DEF FailsToSpawn, CallsSame, Free, HInv, Apart, HostsApart, SpawnerApart, Spawning, Reads
  <2>3. \A r \in Runs : Running(r)' => Running(r) /\ r # q
    BY <1>5 DEF FailsToSpawn, Running, Live
  <2>4. \A e \in Entries : Registered(e)' <=> Registered(e)
    BY <1>5 DEF FailsToSpawn, Registered
  <2>5. \A e \in Entries : e # d => ent'[e].state = ent[e].state
    BY <1>5 DEF FailsToSpawn, OthersSame, Same
  <2> HIDE DEF Hosts
  <2> QED
    BY <2>1, <2>2, <2>3, <2>4, <2>5 DEF AllHosted
<1>6. ASSUME NEW d \in Entries, Queues(d) PROVE AllHosted'
  <2>1. \A e \in Entries, r \in Runs : Hosts(e, r)' <=> Hosts(e, r)
    BY <1>6 DEF Queues
  <2>2. \A r \in Runs : (Running(r)' <=> Running(r)) /\ ~Hosts(d, r)
    BY <1>6 DEF Queues, Running, Live, Left, Reads, Spawning
  <2> HIDE DEF Hosts
  <2> QED
    BY <1>6, <2>1, <2>2 DEF AllHosted, Queues, OthersKept, OthersSame, Same
<1>7. ASSUME NEW d \in Entries, NEW q \in Runs, Disconnects(q, d) \/ ReapsDisconnected(q, d)
      PROVE  AllHosted'
  <2>1. \A e \in Entries, r \in Runs : Hosts(e, r)' <=> Hosts(e, r)
    BY <1>7 DEF Disconnects, ReapsDisconnected, RecvsSame
  <2>2. \A r \in Runs : Running(r)' => Running(r)
    BY <1>7 DEF Disconnects, ReapsDisconnected, Kills, NoneRevived, Running, Live
  <2>3. \A e \in Entries : Registered(e)' <=> Registered(e)
    BY <1>7 DEF Disconnects, ReapsDisconnected, Kills, Registered
  <2>4. \A e \in Entries : ent'[e].state \in {ent[e].state, "disconnected"}
    BY <1>7 DEF Disconnects, ReapsDisconnected, Kills, OthersSame, Same
  <2> HIDE DEF Hosts
  <2> QED
    BY <2>1, <2>2, <2>3, <2>4 DEF AllHosted, Stopped
<1>8. ASSUME NEW d \in Entries, NEW q \in Runs, FinishesDisconnect(q, d)
      PROVE  AllHosted'
  <2>1. \A e \in Entries, r \in Runs : Hosts(e, r) => Hosts(e, r)' \/ (e = d /\ r = q)
    BY <1>8 DEF FinishesDisconnect, RecvsSame
  <2>2. \A e \in Entries, r \in Runs : Hosts(e, r)' => Hosts(e, r) /\ e # d
    BY <1>8 DEF FinishesDisconnect, RecvsSame, HInv, Apart, HostsApart, SpawnerApart, ReaderApart,
                Spawning, Reads
  <2>3. \A r \in Runs : Running(r)' <=> Running(r)
    BY <1>8 DEF FinishesDisconnect, Running, Live
  <2>4. ~Running(q) /\ Hosts(d, q)
    <3>1. d \notin closing.taken /\ recv[q].pc = "final" /\ recv[q].entry = d
      BY <1>8 DEF FinishesDisconnect, NothingKilled
    <3> QED
      BY <3>1 DEF HInv, Apart, HostsApart, ReaderApart, LivesOK, Reads, Running
  <2> HIDE DEF Hosts
  <2>5. Registered(d)
    BY <2>4 DEF AllHosted
  <2> QED
    BY <1>8, <2>1, <2>2, <2>3, <2>4, <2>5
       DEF AllHosted, FinishesDisconnect, OthersKept, OthersSame, Same
<1> QED
  BY <1>1, <1>2, <1>3, <1>4, <1>5, <1>6, <1>7, <1>8 DEF SpawnKinds


\* The steps that change the restart or reach the freeze.
LEMMA RestartSteps ==
    ASSUME [Next]_vars
    PROVE  /\ restart' = restart \/ RestartBegin \/ RestartAbort \/ RestartCancel \/ Freeze
           /\ stage' = "freezing" => stage = "freezing" \/ WaitOver
BY DEF Next, vars, UserNext, CallNext, RecvNext, WorkerNext, OrchNext, CloseNext,
       Start, QueueStart, Resume, SchedulerContinue, SchedulerStop, Kill, ForceKill,
       MarkResume, DropResume, RestartBegin, RestartAbort, RestartCancel, Flow,
       Spawn, SpawnFail, Register, Send, KillDone, KillTimeout, Escalate, Reap, Finish,
       Report, Disconnect, ReapDisconnected, FinishDisconnect, WorkerClosesPipe, WorkerExit,
       StopNext, KillNext, StopsSent, WaitOver, WaitAborted, WaitTimesOut, KillsSent, Freeze,
       CloseTakes, CloseReaps, CloseEnds

\* When no config is pending no thread works for a worker.
LEMMA Drained ==
    ASSUME HInv, AllHosted, PendingConfigs = {}
    PROVE  /\ \A e \in Entries, r \in Runs : ~Hosts(e, r)
           /\ \A a \in Actors : ~Spawning(a)
           /\ \A r \in Runs : recv[r].pc = "none"
           /\ \A c \in Configs : StateOf(c) \in {"idle", "error", "parked"}
<1>1. \A c \in Configs : StateOf(c) \in {"idle", "error", "parked"}
  BY DEF PendingConfigs
<1>2. ASSUME NEW e \in Entries, NEW r \in Runs, Hosts(e, r) PROVE FALSE
  <2>1. PICK c \in Configs : reg[c] = e /\ ent[e].state \notin Stopped
    BY <1>2 DEF AllHosted, Registered
  <2>2. StateOf(c) = ent[e].state
    BY <2>1, Threads DEF StateOf, HInv
  <2> QED
    BY <1>1, <2>1, <2>2 DEF Stopped
<1> QED
  BY <1>1, <1>2, Threads DEF Hosts, Spawning, HInv

LEMMA DrainedStays ==
    ASSUME HInv, NoKills, NothingKilled, AllHosted, [Next]_vars,
           restart.inflight, PendingConfigs = {}, (restart.inflight)'
    PROVE  PendingConfigs' = {}
<1>. DEFINE Rest == {"idle", "error", "parked"}
<1>0. TypeOK
  BY DEF HInv, IInv, TInv
<1>1. \A c \in Configs : StateOf(c) \in Rest
  BY Drained
<1>2. ASSUME UNCHANGED <<reg, ent>> PROVE \A c \in Configs : StateOf(c)' \in Rest
  BY <1>1, <1>2 DEF StateOf
<1>3. ASSUME NEW a, NEW c \in Configs, NEW keep, StopRequest(a, c, keep)
      PROVE  \A d \in Configs : StateOf(d)' \in Rest
  <2>1. CASE CancelsResume(c, keep) /\ CancelResume(c)
    <3>1. reg[c] \in Entries /\ ent[reg[c]] \in Entry
      BY <1>0, <2>1, NotIdle DEF CancelsResume
    <3>2. ent'[reg[c]].state = "idle" /\ \A e \in Entries : e # reg[c] => ent'[e] = ent[e]
      BY <1>0, <2>1, <3>1 DEF CancelResume, Publish, TypeOK, Entry
    <3>3. \A d \in Configs : reg'[d] \in {None, reg[d]}
      BY <1>0, <2>1 DEF CancelResume, Publish, TypeOK
    <3> QED
      BY <1>0, <1>1, <3>2, <3>3 DEF StateOf, TypeOK
  <2> QED
    BY <1>1, <1>2, <1>3, <2>1 DEF StopRequest, Stoppable
<1>4. CASE UserNext
  <2>1. ASSUME NEW a \in Callers, NEW c \in Configs, QueueStart(a, c)
        PROVE  \A d \in Configs : StateOf(d)' \in Rest
    <3>1. PICK e \in EntryFor(c) :
            /\ ent' = [ent EXCEPT ![e] =
                  [Before(c, e) EXCEPT !.pending = restart.inflight,
                          !.state = IF restart.inflight THEN "parked" ELSE "resuming"]]
            /\ reg' = [reg EXCEPT ![c] = e]
      BY <2>1 DEF QueueStart
    <3>2. e \in Entries /\ Before(c, e) \in Entry
      BY <1>0, EntryForType
    <3>3. ent'[e].state = "parked" /\ \A d \in Entries : d # e => ent'[d] = ent[d]
      BY <1>0, <3>1, <3>2 DEF TypeOK, Entry
    <3>4. \A d \in Configs : reg'[d] = e \/ (reg'[d] = reg[d])
      BY <1>0, <3>1 DEF TypeOK
    <3> QED
      BY <1>0, <1>1, <3>2, <3>3, <3>4 DEF StateOf, TypeOK
  <2>2. ASSUME NEW a \in Callers, NEW c \in Configs
        PROVE  /\ ~Start(a, c) /\ ~Resume(a, c) /\ ~SchedulerContinue(a, c)
               /\ ~MarkResume(c) /\ ~DropResume(c)
    BY <1>1 DEF Start, StartAllowed, Resume, SchedulerContinue, MarkResume, DropResume
  <2>3. ~RestartBegin /\ ~RestartCancel
    BY DEF RestartBegin, RestartCancel, NoRestart
  <2>4. \A c \in Configs : ~MarkResume(c) /\ ~DropResume(c)
    BY <1>1 DEF MarkResume, DropResume
  <2>5. ASSUME NEW a \in Callers, NEW c \in Configs, NEW keep \in BOOLEAN
        PROVE  ~Kill(a, c, keep) /\ ~ForceKill(a, c, keep)
    BY DEF Kill, ForceKill, UserCall, Offered, NoKills
  <2>6. ASSUME NEW a \in Callers, NEW c \in Configs, NEW keep \in BOOLEAN, SchedulerStop(a, c, keep)
        PROVE  \A d \in Configs : StateOf(d)' \in Rest
    BY <1>3, <2>6 DEF SchedulerStop
  <2>7. CASE RestartAbort \/ Flow
    BY <1>2, <2>7 DEF RestartAbort, Flow, PendingConfigs
  <2> QED
    BY <1>4, <2>1, <2>2, <2>3, <2>4, <2>5, <2>6, <2>7 DEF UserNext, PendingConfigs
<1>5. ASSUME NEW a \in Actors, CallNext(a) PROVE UNCHANGED <<reg, ent>>
  BY <1>5, Drained
     DEF CallNext, Spawn, SpawnFail, Register, Send, KillDone, KillTimeout, Escalate, Reap,
         Finish, NothingKilled, Spawning
<1>6. \A r \in Runs : ~RecvNext(r)
  BY Drained DEF RecvNext, Report, Disconnect, ReapDisconnected, FinishDisconnect
<1>7. CASE OrchNext
  <2>1. ASSUME NEW c \in Configs, StopNext(c) PROVE \A d \in Configs : StateOf(d)' \in Rest
    BY <1>3, <2>1 DEF StopNext
  <2>2. CASE UNCHANGED <<reg, ent>>
    BY <1>2, <2>2 DEF PendingConfigs
  <2> QED
    BY <1>7, <2>1, <2>2
       DEF OrchNext, KillNext, StopsSent, WaitOver, WaitAborted, WaitTimesOut, KillsSent,
           Freeze, NothingKilled, PendingConfigs
<1>8. ASSUME UNCHANGED <<reg, ent>> PROVE PendingConfigs' = {}
  BY <1>2, <1>8 DEF PendingConfigs
<1>9. ~CloseNext
  BY DEF NoKills, NothingKilled, CloseNext, CloseTakes, CloseReaps, CloseEnds
<1> QED
  BY <1>4, <1>5, <1>6, <1>7, <1>8, <1>9 DEF Next, vars, WorkerNext, WorkerClosesPipe, WorkerExit

LEMMA FreezeStep ==
    ASSUME HInv, NoKills, NothingKilled, AllHosted, FreezeOK, [Next]_vars
    PROVE  FreezeOK'
<1>0. restart \in RestartRun
  BY DEF HInv, IInv, TInv, TypeOK
<1>1. /\ restart' = restart \/ RestartBegin \/ RestartAbort \/ RestartCancel \/ Freeze
      /\ stage' = "freezing" => stage = "freezing" \/ WaitOver
  BY RestartSteps
<1>2. \/ restart' = restart
      \/ restart'.inflight /\ ~restart'.frozen /\ ~restart.inflight
      \/ /\ restart'.inflight <=> restart.inflight
         /\ restart'.frozen <=> restart.frozen
         /\ restart'.abort
      \/ ~restart'.inflight /\ restart'.abort
      \/ /\ Freeze /\ ~restart.abort
         /\ restart'.inflight <=> restart.inflight
         /\ ~restart'.abort
  <2>1. CASE RestartBegin
    BY <2>1 DEF RestartBegin, NoRestart
  <2>2. CASE RestartAbort
    BY <1>0, <2>2 DEF RestartAbort, RestartRun
  <2>3. CASE RestartCancel
    BY <2>3 DEF RestartCancel, NoRestart
  <2>4. CASE Freeze
    BY <1>0, <2>4 DEF Freeze, RestartRun
  <2> QED
    BY <1>1, <2>1, <2>2, <2>3, <2>4
<1>3. ~restart'.abort => restart'.inflight
  BY <1>2 DEF FreezeOK
<1>4. ASSUME stage' = "freezing", ~restart'.abort PROVE PendingConfigs' = {}
  <2>1. CASE WaitOver
    BY <2>1 DEF WaitOver, PendingConfigs, StateOf
  <2>2. CASE stage = "freezing"
    <3>1. ~restart.abort
      BY <1>0, <1>1, <1>4, <2>2
         DEF RestartBegin, RestartAbort, RestartCancel, Freeze, RestartRun, NoRestart
    <3> QED
      BY <1>3, <1>4, <2>2, <3>1, DrainedStays DEF FreezeOK
  <2> QED
    BY <1>1, <1>4, <2>1, <2>2
<1>5. ASSUME restart'.inflight, restart'.frozen PROVE PendingConfigs' = {}
  <2>1. CASE Freeze /\ ~restart.abort
    BY <2>1 DEF Freeze, FreezeOK, PendingConfigs, StateOf
  <2>2. CASE restart.inflight /\ restart.frozen
    BY <1>5, <2>2, DrainedStays DEF FreezeOK
  <2>3. (restart.inflight /\ restart.frozen) \/ (Freeze /\ ~restart.abort)
    BY <1>2, <1>5
  <2> QED
    BY <2>1, <2>2, <2>3
<1> QED
  BY <1>3, <1>4, <1>5 DEF FreezeOK

LEMMA CalmInvariance == ASSUME NoKills PROVE Spec => []KInv
<1>1. Init => KInv
  <2> SUFFICES ASSUME Init PROVE KInv
    OBVIOUS
  <2>1. IInv
    BY TypeInit DEF Init, EntriesOK, IInv
  <2>2. NothingKilled
    BY DEF Init, NothingKilled, Ready
  <2>3. \A e \in Entries, r \in Runs : ~Hosts(e, r)
    BY DEF Init, Hosts, Ready, NoThread
  <2>4. AllHosted
    BY <2>3 DEF Init, AllHosted, Running, Live
  <2>5. FreezeOK
    BY DEF Init, FreezeOK, NoRestart
  <2> QED
    BY <2>1, <2>2, <2>4, <2>5, HostsInit DEF KInv, HInv
<1>2. KInv /\ [Next]_vars => KInv'
  BY HostsStep, NothingKilledStep, AllHostedStep, FreezeStep DEF KInv, HInv
<1> QED
  BY <1>1, <1>2, PTL DEF Spec

\* EveryWorkerTracked: where workers are started, stopped, resumed and restarted but never
\* killed, no worker process is lost from the dict: it belongs to a registered entry until
\* it is gone.  (A force kill that joins its recv thread in vain can lose one:
\* LostWorker.cfg.)
THEOREM WorkersAreTracked == ASSUME NoKills PROVE Spec => []EveryWorkerTracked
<1>1. KInv => EveryWorkerTracked
  BY Threads DEF KInv, HInv, AllHosted, EveryWorkerTracked, Running, Registered
<1> QED
  BY <1>1, CalmInvariance, PTL

\* FrozenMeansStopped: with a frozen resume list no worker process is left, so that the
\* backend may exit (restart_wait(), _freeze_restart_resume_list()), again where nothing is
\* killed.
THEOREM FrozenIsStopped == ASSUME NoKills PROVE Spec => []FrozenMeansStopped
<1>1. ASSUME KInv PROVE FrozenMeansStopped
  <2>1. restart.inflight /\ restart.frozen => \A e \in Entries, r \in Runs : ~Hosts(e, r)
    BY <1>1, Drained DEF KInv, FreezeOK
  <2> QED
    BY <1>1, <2>1 DEF KInv, AllHosted, FrozenMeansStopped, Running
<1> QED
  BY <1>1, CalmInvariance, PTL

----------------------------------------------------------------------------
(* The abstract life cycle                                                 *)

MarkOf(c) == reg[c] # None /\ ent[reg[c]].pending

LEMMA StatusCases ==
    ASSUME NEW s \in States
    PROVE  /\ StatusOf(s) = "idle" <=> s \in {"idle", "error"}
           /\ StatusOf(s) = "up" <=> s \in Stoppable
           /\ StatusOf(s) = "parked" <=> s = "parked"
           /\ StatusOf(s) = "resuming" <=> s = "resuming"
           /\ StatusOf(s) = "ending" <=>
                s \in {"disconnected", "scheduler-stopping", "killing", "force-killing"}
BY DEF StatusOf, States, Stoppable, Killing

LEMMA StateTypes ==
    ASSUME TypeOK
    PROVE  \A c \in Configs : StateOf(c) \in States
BY DEF TypeOK, StateOf, Entry, States

\* A step that moves config c alone: to status s, marked or not.
Moves(c, s, m) ==
    /\ UNCHANGED restart
    /\ \A d \in Configs : d # c => StateOf(d)' = StateOf(d) /\ (MarkOf(d)' <=> MarkOf(d))
    /\ StatusOf(StateOf(c)') = s
    /\ MarkOf(c)' <=> m

LEMMA AbstractMove ==
    ASSUME TypeOK, NEW c \in Configs, NEW s, NEW m \in BOOLEAN, Moves(c, s, m)
    PROVE  Abstract!Move(c, s, m)
BY DEF Abstract!Move, Moves, MarkOf

\* What each action of WorkerStates asks of a config, in terms of its entry.
LEMMA IsStart ==
    ASSUME TypeOK, NEW c \in Configs, ~restart.inflight, StateOf(c) \in {"idle", "error"},
           Moves(c, "up", FALSE)
    PROVE  Abstract!Start(c)
BY StateTypes, StatusCases, AbstractMove DEF Abstract!Start

LEMMA IsQueueStart ==
    ASSUME TypeOK, NEW c \in Configs, StateOf(c) \in {"idle", "error"},
           ~(restart.inflight /\ restart.frozen),
           Moves(c, IF restart.inflight THEN "parked" ELSE "resuming", restart.inflight)
    PROVE  Abstract!QueueStart(c)
<1>1. StatusOf(StateOf(c)) = "idle"
  BY StateTypes, StatusCases
<1>2. restart.inflight \in BOOLEAN
  BY DEF TypeOK, RestartRun
<1> QED
  BY <1>1, <1>2 DEF Abstract!QueueStart, Abstract!Move, Moves, MarkOf

LEMMA IsResume ==
    ASSUME TypeOK, NEW c \in Configs, ~restart.inflight, StateOf(c) = "resuming",
           Moves(c, "up", MarkOf(c))
    PROVE  Abstract!Resume(c)
<1>1. StatusOf(StateOf(c)) = "resuming"
  BY StateTypes, StatusCases
<1> QED
  BY <1>1 DEF Abstract!Resume, Abstract!Move, Moves, MarkOf

LEMMA IsStop ==
    ASSUME TypeOK, NEW c \in Configs, StateOf(c) \in Stoppable, Moves(c, "ending", MarkOf(c))
    PROVE  Abstract!Stop(c)
<1>1. StatusOf(StateOf(c)) = "up"
  BY StateTypes, StatusCases
<1> QED
  BY <1>1 DEF Abstract!Stop, Abstract!Move, Moves, MarkOf

LEMMA IsContinue ==
    ASSUME TypeOK, NEW c \in Configs, StateOf(c) = "scheduler-stopping",
           Moves(c, "up", MarkOf(c))
    PROVE  Abstract!Continue(c)
<1>1. StatusOf(StateOf(c)) = "ending"
  BY StateTypes, StatusCases
<1> QED
  BY <1>1 DEF Abstract!Continue, Abstract!Move, Moves, MarkOf

LEMMA IsEnded ==
    ASSUME TypeOK, NEW c \in Configs, StateOf(c) \notin Stopped,
           Moves(c, IF MarkOf(c) THEN "parked" ELSE "idle", MarkOf(c))
    PROVE  Abstract!Ended(c)
<1>1. StatusOf(StateOf(c)) \in {"up", "ending"}
  BY StateTypes, StatusCases DEF Stopped, Stoppable, States
<1>2. CASE MarkOf(c)
  BY <1>1, <1>2 DEF Abstract!Ended, Abstract!Move, Moves, MarkOf
<1>3. CASE ~MarkOf(c)
  BY <1>1, <1>3 DEF Abstract!Ended, Abstract!Move, Moves, MarkOf
<1> QED
  BY <1>2, <1>3

LEMMA IsCancelResume ==
    ASSUME TypeOK, NEW c \in Configs, NEW keep, CancelsResume(c, keep), Moves(c, "idle", FALSE)
    PROVE  Abstract!CancelResume(c)
<1>1. Abstract!Cancellable(c)
  BY StateTypes, StatusCases DEF Abstract!Cancellable, CancelsResume
<1> QED
  BY <1>1, AbstractMove DEF Abstract!CancelResume

LEMMA IsMarkResume ==
    ASSUME TypeOK, NEW c \in Configs, ~restart.inflight, StateOf(c) \in {"idle", "error"},
           Moves(c, "resuming", MarkOf(c))
    PROVE  Abstract!MarkResume({c})
<1>1. StatusOf(StateOf(c)) = "idle"
  BY StateTypes, StatusCases
<1> QED
  BY <1>1 DEF Abstract!MarkResume, Moves, MarkOf

LEMMA IsDropResume ==
    ASSUME TypeOK, NEW c \in Configs, StateOf(c) = "resuming", Moves(c, "idle", MarkOf(c))
    PROVE  Abstract!DropResume({c})
<1>1. StatusOf(StateOf(c)) = "resuming"
  BY StateTypes, StatusCases
<1> QED
  BY <1>1 DEF Abstract!DropResume, Moves, MarkOf

\* A step that gives config c the entry e with record new, and takes it out of the dict
\* when it is idle, moves no other config.
LEMMA MovesOne ==
    ASSUME IInv, NEW c \in Configs, NEW e \in Entries, NEW new \in Entry,
           reg[c] = e \/ (reg[c] = None /\ ~Registered(e)),
           ent' = [ent EXCEPT ![e] = new],
           reg' = [reg EXCEPT ![c] = IF new.state = "idle" THEN None ELSE e],
           UNCHANGED restart
    PROVE  Moves(c, StatusOf(new.state), new.state # "idle" /\ new.pending)
<1>0. TypeOK
  BY DEF IInv, TInv
<1>1. ASSUME NEW d \in Configs, d # c
      PROVE  StateOf(d)' = StateOf(d) /\ (MarkOf(d)' <=> MarkOf(d))
  <2>1. reg'[d] = reg[d] /\ reg[d] # e
    <3>1. reg'[d] = reg[d]
      BY <1>0, <1>1 DEF TypeOK
    <3>2. reg[c] = e => ent[e].config = c
      BY ConstantsAssumption DEF IInv, EntriesOK, EntryOK
    <3>3. reg[d] = e => ent[e].config = d
      BY ConstantsAssumption DEF IInv, EntriesOK, EntryOK
    <3> QED
      BY <1>1, <3>1, <3>2, <3>3 DEF Registered
  <2> QED
    BY <1>0, <2>1, ConstantsAssumption DEF StateOf, MarkOf, TypeOK
<1>2. StateOf(c)' = new.state /\ (MarkOf(c)' <=> new.state # "idle" /\ new.pending)
  BY <1>0, ConstantsAssumption DEF StateOf, MarkOf, TypeOK
<1> QED
  BY <1>1, <1>2 DEF Moves

\* The entry that is published for the config it is registered for.
LEMMA PublishMoves ==
    ASSUME IInv, NEW c \in Configs, NEW e \in Entries, reg[c] = e, NEW new \in Entry,
           new.config = c, Publish(e, new), UNCHANGED restart
    PROVE  Moves(c, StatusOf(new.state), new.state # "idle" /\ new.pending)
<1>1. reg' = [reg EXCEPT ![c] = IF new.state = "idle" THEN None ELSE e]
  BY DEF Publish, IInv, TInv, TypeOK
<1> QED
  BY <1>1, MovesOne DEF Publish

\* The entry of a config: it shows the state of the config, and its mark.
LEMMA EntryOf ==
    ASSUME IInv, NEW c \in Configs, reg[c] # None
    PROVE  /\ reg[c] \in Entries /\ ent[reg[c]] \in Entry /\ ent[reg[c]].config = c
           /\ ent[reg[c]].state = StateOf(c) /\ (ent[reg[c]].pending <=> MarkOf(c))
BY DEF IInv, TInv, TypeOK, EntriesOK, EntryOK, StateOf, MarkOf

LEMMA EntryForOf ==
    ASSUME IInv, NEW c \in Configs, NEW e \in EntryFor(c)
    PROVE  /\ e \in Entries /\ Before(c, e) \in Entry /\ Before(c, e).config = c
           /\ reg[c] = e \/ (reg[c] = None /\ ~Registered(e))
           /\ Before(c, e).state = StateOf(c)
           /\ Before(c, e).pending <=> MarkOf(c)
<1>1. e \in Entries /\ Before(c, e) \in Entry
  BY EntryForType DEF IInv, TInv
<1>2. Before(c, e).config = c
  BY BeforeOK DEF IInv, TInv, EntryOK
<1>3. CASE reg[c] = None
  BY <1>1, <1>2, <1>3 DEF EntryFor, UnusedEntries, Before, Blank, StateOf, MarkOf
<1>4. CASE reg[c] # None
  BY <1>1, <1>2, <1>4 DEF EntryFor, Before, StateOf, MarkOf
<1> QED
  BY <1>3, <1>4

\* _mark_starting_locked()
LEMMA MarkStartingMoves ==
    ASSUME IInv, NEW a, NEW c \in Configs, NEW e \in Entries, NEW r \in Runs,
           NEW before \in Entry, before.config = c,
           reg[c] = e \/ (reg[c] = None /\ ~Registered(e)),
           MarkStarting(a, e, r, before), UNCHANGED restart
    PROVE  Moves(c, "up", before.pending)
<1>. DEFINE new == [before EXCEPT !.state = "starting", !.conn = r]
<1>1. /\ new \in Entry /\ new.state = "starting" /\ (new.pending <=> before.pending)
      /\ ent' = [ent EXCEPT ![e] = new] /\ reg' = [reg EXCEPT ![c] = e]
  BY DEF MarkStarting, Entry, States
<1> HIDE DEF new
<1>2. reg' = [reg EXCEPT ![c] = IF new.state = "idle" THEN None ELSE e]
  BY <1>1
<1>3. Moves(c, StatusOf(new.state), new.state # "idle" /\ new.pending)
  BY <1>1, <1>2, MovesOne
<1>4. StatusOf("starting") = "up"
  BY StatusCases DEF States, Stoppable
<1> QED
  BY <1>1, <1>3, <1>4 DEF Moves

----------------------------------------------------------------------------
(* Each step of WorkerManager is one of WorkerStates                       *)

Stutters == UNCHANGED restart /\ \A c \in Configs :
    StatusOf(StateOf(c))' = StatusOf(StateOf(c)) /\ (MarkOf(c)' <=> MarkOf(c))
Follows == [Abstract!Next]_(Abstract!vars)

LEMMA StuttersFollow == ASSUME Stutters PROVE Follows
BY DEF Stutters, Follows, Abstract!vars, MarkOf

LEMMA UnchangedFollow == ASSUME UNCHANGED <<reg, ent, restart>> PROVE Follows
BY StuttersFollow DEF Stutters, StateOf, MarkOf

LEMMA StartFollows ==
    ASSUME IInv, NEW a \in Callers, NEW c \in Configs,
           Start(a, c) \/ QueueStart(a, c) \/ Resume(a, c)
    PROVE  Follows
<1>0. TypeOK /\ UNCHANGED restart
  BY DEF IInv, TInv, Start, QueueStart, Resume
<1>1. CASE Start(a, c)
  <2>. DEFINE new(e) == [Before(c, e) EXCEPT !.pending = FALSE]
  <2>1. PICK e \in EntryFor(c), r \in UnusedRuns : MarkStarting(a, e, r, new(e))
    BY <1>1 DEF Start
  <2>2. new(e) \in Entry /\ new(e).config = c /\ ~new(e).pending /\ r \in Runs
    <3>1. Before(c, e) \in Entry /\ Before(c, e).config = c
      BY EntryForOf
    <3> QED
      BY <3>1 DEF Entry, UnusedRuns
  <2> HIDE DEF new
  <2>3. Moves(c, "up", new(e).pending)
    BY <1>0, <2>1, <2>2, EntryForOf, MarkStartingMoves
  <2>4. Moves(c, "up", FALSE)
    BY <2>2, <2>3 DEF Moves
  <2>5. ~restart.inflight /\ StateOf(c) \in {"idle", "error"}
    BY <1>1 DEF Start, StartAllowed
  <2> QED
    BY <1>0, <2>4, <2>5, IsStart DEF Follows, Abstract!Next
<1>2. CASE QueueStart(a, c)
  <2>. DEFINE new(e) == [Before(c, e) EXCEPT !.pending = restart.inflight,
                             !.state = IF restart.inflight THEN "parked" ELSE "resuming"]
  <2>1. PICK e \in EntryFor(c) : ent' = [ent EXCEPT ![e] = new(e)] /\ reg' = [reg EXCEPT ![c] = e]
    BY <1>2 DEF QueueStart
  <2>2. /\ new(e) \in Entry /\ (new(e).pending <=> restart.inflight)
        /\ new(e).state = IF restart.inflight THEN "parked" ELSE "resuming"
    <3>1. Before(c, e) \in Entry /\ restart.inflight \in BOOLEAN
      BY <1>0, EntryForOf DEF TypeOK, RestartRun
    <3> QED
      BY <3>1 DEF Entry, States
  <2> HIDE DEF new
  <2>3. reg' = [reg EXCEPT ![c] = IF new(e).state = "idle" THEN None ELSE e]
    BY <2>1, <2>2
  <2>4. Moves(c, StatusOf(new(e).state), new(e).state # "idle" /\ new(e).pending)
    BY <1>0, <2>1, <2>2, <2>3, EntryForOf, MovesOne
  <2>5. StatusOf(new(e).state) = new(e).state
    BY <2>2, StatusCases DEF States
  <2>6. Moves(c, IF restart.inflight THEN "parked" ELSE "resuming", restart.inflight)
    BY <2>2, <2>4, <2>5 DEF Moves
  <2>7. StateOf(c) \in {"idle", "error"} /\ ~(restart.inflight /\ restart.frozen)
    BY <1>2 DEF QueueStart
  <2> QED
    BY <1>0, <2>6, <2>7, IsQueueStart DEF Follows, Abstract!Next
<1>3. CASE Resume(a, c)
  <2>1. PICK r \in UnusedRuns : MarkStarting(a, reg[c], r, ent[reg[c]])
    BY <1>3 DEF Resume
  <2>2. StateOf(c) = "resuming" /\ ~restart.inflight /\ reg[c] # None
    BY <1>3 DEF Resume, StateOf
  <2>3. Moves(c, "up", ent[reg[c]].pending)
    BY <1>0, <2>1, <2>2, EntryOf, MarkStartingMoves DEF UnusedRuns
  <2>4. Moves(c, "up", MarkOf(c))
    BY <2>2, <2>3, EntryOf DEF Moves
  <2> QED
    BY <1>0, <2>2, <2>4, IsResume DEF Follows, Abstract!Next
<1> QED
  BY <1>1, <1>2, <1>3

LEMMA StopFollows ==
    ASSUME IInv, NEW a, NEW c \in Configs, NEW keep, StopRequest(a, c, keep),
           UNCHANGED restart
    PROVE  Follows
<1>0. TypeOK
  BY DEF IInv, TInv
<1>1. CASE CancelsResume(c, keep) /\ CancelResume(c)
  <2>. DEFINE new == [ent[reg[c]] EXCEPT !.pending = FALSE, !.state = "idle"]
  <2>1. reg[c] # None
    BY <1>1 DEF CancelsResume, StateOf
  <2>2. new \in Entry /\ new.config = c /\ new.state = "idle" /\ Publish(reg[c], new)
    BY <1>1, <2>1, EntryOf DEF CancelResume, Entry, States
  <2> HIDE DEF new
  <2>3. Moves(c, StatusOf(new.state), new.state # "idle" /\ new.pending)
    BY <2>1, <2>2, EntryOf, PublishMoves
  <2>4. StatusOf("idle") = "idle"
    BY StatusCases DEF States
  <2>5. Moves(c, "idle", FALSE)
    BY <2>2, <2>3, <2>4 DEF Moves
  <2> QED
    BY <1>0, <1>1, <2>5, IsCancelResume DEF Follows, Abstract!Next
<1>2. CASE StateOf(c) \in Stoppable
           /\ Publish(reg[c], [ent[reg[c]] EXCEPT !.state = "scheduler-stopping"])
  <2>. DEFINE new == [ent[reg[c]] EXCEPT !.state = "scheduler-stopping"]
  <2>1. reg[c] # None
    BY <1>2 DEF StateOf, Stoppable
  <2>2. /\ new \in Entry /\ new.config = c /\ new.state = "scheduler-stopping"
        /\ (new.pending <=> MarkOf(c)) /\ Publish(reg[c], new)
    BY <1>2, <2>1, EntryOf DEF Entry, States
  <2> HIDE DEF new
  <2>3. Moves(c, StatusOf(new.state), new.state # "idle" /\ new.pending)
    BY <2>1, <2>2, EntryOf, PublishMoves
  <2>4. StatusOf("scheduler-stopping") = "ending"
    BY StatusCases DEF States
  <2>5. Moves(c, "ending", MarkOf(c))
    BY <2>2, <2>3, <2>4 DEF Moves
  <2> QED
    BY <1>0, <1>2, <2>5, IsStop DEF Follows, Abstract!Next
<1>3. CASE UNCHANGED <<reg, ent, call>>
  BY <1>3, UnchangedFollow
<1> QED
  BY <1>1, <1>2, <1>3 DEF StopRequest, Mark

LEMMA ContinueFollows ==
    ASSUME IInv, NEW a, NEW c \in Configs, SchedulerContinue(a, c)
    PROVE  Follows
<1>. DEFINE new == [ent[reg[c]] EXCEPT !.state = "running"]
<1>1. StateOf(c) = "scheduler-stopping" /\ reg[c] # None /\ TypeOK /\ UNCHANGED restart
  BY DEF SchedulerContinue, StateOf, IInv, TInv
<1>2. /\ new \in Entry /\ new.config = c /\ new.state = "running"
      /\ (new.pending <=> MarkOf(c)) /\ Publish(reg[c], new)
  BY <1>1, EntryOf DEF Entry, States, SchedulerContinue, Mark
<1> HIDE DEF new
<1>3. Moves(c, StatusOf(new.state), new.state # "idle" /\ new.pending)
  BY <1>1, <1>2, EntryOf, PublishMoves
<1>4. StatusOf("running") = "up"
  BY StatusCases DEF States, Stoppable
<1>5. Moves(c, "up", MarkOf(c))
  BY <1>2, <1>3, <1>4 DEF Moves
<1> QED
  BY <1>1, <1>5, IsContinue DEF Follows, Abstract!Next

LEMMA QueueFollows ==
    ASSUME IInv, NEW c \in Configs, MarkResume(c) \/ DropResume(c)
    PROVE  Follows
<1>0. TypeOK /\ UNCHANGED restart
  BY DEF IInv, TInv, MarkResume, DropResume
<1>1. CASE MarkResume(c)
  <2>. DEFINE new(e) == [Before(c, e) EXCEPT !.state = "resuming"]
  <2>1. PICK e \in EntryFor(c) : ent' = [ent EXCEPT ![e] = new(e)] /\ reg' = [reg EXCEPT ![c] = e]
    BY <1>1 DEF MarkResume
  <2>2. new(e) \in Entry /\ (new(e).pending <=> MarkOf(c)) /\ new(e).state = "resuming"
    BY EntryForOf DEF Entry, States
  <2> HIDE DEF new
  <2>3. reg' = [reg EXCEPT ![c] = IF new(e).state = "idle" THEN None ELSE e]
    BY <2>1, <2>2
  <2>4. Moves(c, StatusOf(new(e).state), new(e).state # "idle" /\ new(e).pending)
    BY <1>0, <2>1, <2>2, <2>3, EntryForOf, MovesOne
  <2>5. StatusOf("resuming") = "resuming"
    BY StatusCases DEF States
  <2>6. Moves(c, "resuming", MarkOf(c))
    BY <2>2, <2>4, <2>5 DEF Moves
  <2>7. StateOf(c) \in {"idle", "error"} /\ ~restart.inflight
    BY <1>1 DEF MarkResume
  <2> QED
    BY <1>0, <2>6, <2>7, IsMarkResume DEF Follows, Abstract!Next
<1>2. CASE DropResume(c)
  <2>. DEFINE new == [ent[reg[c]] EXCEPT !.state = "idle"]
  <2>1. StateOf(c) = "resuming" /\ reg[c] # None
    BY <1>2 DEF DropResume, StateOf
  <2>2. new \in Entry /\ new.config = c /\ new.state = "idle" /\ Publish(reg[c], new)
    BY <1>2, <2>1, EntryOf DEF DropResume, Entry, States
  <2>3. ~MarkOf(c)
    BY <2>1, EntryOf DEF IInv, EntriesOK, EntryOK
  <2> HIDE DEF new
  <2>4. Moves(c, StatusOf(new.state), new.state # "idle" /\ new.pending)
    BY <1>0, <2>1, <2>2, EntryOf, PublishMoves
  <2>5. StatusOf("idle") = "idle"
    BY StatusCases DEF States
  <2>6. Moves(c, "idle", MarkOf(c))
    BY <2>2, <2>3, <2>4, <2>5 DEF Moves
  <2> QED
    BY <1>0, <2>1, <2>6, IsDropResume DEF Follows, Abstract!Next
<1> QED
  BY <1>1, <1>2

\* A failed spawn, ...
LEMMA SpawnFailFollows ==
    ASSUME HInv, AllHosted, NEW a \in Actors, SpawnFail(a)
    PROVE  Follows
<1>0. IInv /\ TypeOK /\ UNCHANGED <<reg, restart>>
  BY DEF HInv, IInv, TInv, SpawnFail
<1>1. PICK e \in Entries : e = call[a].entry
  BY <1>0, Threads DEF SpawnFail, Spawning
<1>2. PICK c \in Configs : reg[c] = e /\ e # None /\ ent[e].state \notin Stopped
  <2>1. call[a].run \in Runs /\ Hosts(e, call[a].run)
    BY <1>0, <1>1, Threads DEF SpawnFail, Spawning, Hosts
  <2> QED
    BY <1>0, <2>1, Threads DEF AllHosted, Registered
<1>. DEFINE new == [ent[e] EXCEPT !.conn = None,
                        !.state = IF ent[e].pending THEN "parked" ELSE "error"]
<1>3. ent[e] \in Entry /\ ent[e].config = c /\ StateOf(c) \notin Stopped
      /\ (ent[e].pending <=> MarkOf(c))
  BY <1>0, <1>2, EntryOf
<1>4. /\ new \in Entry /\ new.config = c /\ (new.pending <=> MarkOf(c))
      /\ new.state = IF MarkOf(c) THEN "parked" ELSE "error"
      /\ ent' = [ent EXCEPT ![e] = new]
  BY <1>1, <1>3 DEF Entry, States, SpawnFail
<1> HIDE DEF new
<1>5. Publish(e, new)
  BY <1>0, <1>4 DEF Publish
<1>6. Moves(c, StatusOf(new.state), new.state # "idle" /\ new.pending)
  BY <1>0, <1>2, <1>4, <1>5, PublishMoves
<1>7. StatusOf(new.state) = IF MarkOf(c) THEN "parked" ELSE "idle"
  BY <1>4, StatusCases DEF States
<1>8. Moves(c, IF MarkOf(c) THEN "parked" ELSE "idle", MarkOf(c))
  BY <1>4, <1>6, <1>7 DEF Moves
<1> QED
  BY <1>0, <1>3, <1>8, IsEnded DEF Follows, Abstract!Next

\* ... a spawn that goes on, and a command that is sent: nothing a caller sees.
LEMMA CallFollows ==
    ASSUME HInv, NothingKilled, AllHosted, NEW a \in Actors, CallNext(a)
    PROVE  Follows
<1>0. IInv /\ TypeOK
  BY DEF HInv, IInv, TInv
<1>1. CASE SpawnFail(a)
  BY <1>1, SpawnFailFollows
<1>2. CASE Register(a)
  <2>1. PICK e \in Entries : e = call[a].entry
    BY <1>0, <1>2, Threads DEF Register, Spawning
  <2>2. ent' = [ent EXCEPT ![e] = [ent[e] EXCEPT !.process = call[a].run]]
        /\ UNCHANGED <<reg, restart>>
    BY <1>2, <2>1 DEF Register
  <2>3. \A d \in Entries : ent'[d].state = ent[d].state /\ ent'[d].pending = ent[d].pending
    BY <1>0, <2>1, <2>2 DEF TypeOK, Entry
  <2> QED
    BY <1>0, <2>2, <2>3, StuttersFollow DEF Stutters, StateOf, MarkOf, TypeOK
<1>3. CASE UNCHANGED <<reg, ent, restart>>
  BY <1>3, UnchangedFollow
<1> QED
  BY <1>1, <1>2, <1>3
     DEF CallNext, Spawn, Send, KillDone, KillTimeout, Escalate, Reap, Finish, NothingKilled

\* The recv thread of a worker: a report does not show, the pipe breaks, the entry is
\* finalized.
LEMMA ReportFollows ==
    ASSUME HInv, NEW r \in Runs, Report(r)
    PROVE  Follows
<1>0. TypeOK /\ UNCHANGED <<reg, restart>>
  BY DEF HInv, IInv, TInv, Report
<1>1. PICK e \in Entries : e = recv[r].entry
  BY Threads DEF HInv, Report
<1>2. ent[e].state = "starting" /\ ent' = [ent EXCEPT ![e] = [ent[e] EXCEPT !.state = "running"]]
  BY <1>1 DEF Report
<1>3. \A d \in Entries : /\ ent'[d].pending = ent[d].pending
                         /\ StatusOf(ent'[d].state) = StatusOf(ent[d].state)
  <2>1. StatusOf("starting") = "up" /\ StatusOf("running") = "up"
    BY StatusCases DEF States, Stoppable
  <2> QED
    BY <1>0, <1>2, <2>1 DEF TypeOK, Entry
<1> QED
  BY <1>0, <1>3, StuttersFollow DEF Stutters, StateOf, MarkOf, TypeOK

LEMMA DisconnectFollows ==
    ASSUME HInv, AllHosted, NEW r \in Runs, Disconnect(r)
    PROVE  Follows
<1>0. IInv /\ TypeOK /\ UNCHANGED <<reg, restart>>
  BY DEF HInv, IInv, TInv, Disconnect
<1>1. PICK e \in Entries : e = recv[r].entry
  BY <1>0, Threads DEF Disconnect
<1>2. PICK c \in Configs : reg[c] = e /\ e # None /\ ent[e].state \notin Stopped
  BY <1>0, <1>1, Threads DEF AllHosted, Registered, Hosts, Disconnect
<1>. DEFINE new == [ent[e] EXCEPT !.state = "disconnected"]
<1>3. ent[e] \in Entry /\ ent[e].config = c /\ StateOf(c) \notin Stopped
      /\ (ent[e].pending <=> MarkOf(c))
  BY <1>0, <1>2, EntryOf
<1>4. /\ new \in Entry /\ new.config = c /\ (new.pending <=> MarkOf(c))
      /\ new.state = "disconnected" /\ ent' = [ent EXCEPT ![e] = new]
  BY <1>1, <1>2, <1>3 DEF Entry, States, Disconnect
<1> HIDE DEF new
<1>5. Publish(e, new)
  BY <1>0, <1>4 DEF Publish
<1>6. Moves(c, StatusOf(new.state), new.state # "idle" /\ new.pending)
  BY <1>0, <1>2, <1>4, <1>5, PublishMoves
<1>7. StatusOf("disconnected") = "ending"
  BY StatusCases DEF States
<1>8. Moves(c, "ending", MarkOf(c))
  BY <1>4, <1>6, <1>7 DEF Moves
<1>9. CASE StateOf(c) \in Stoppable
  BY <1>0, <1>8, <1>9, IsStop DEF Follows, Abstract!Next
<1>10. CASE StateOf(c) \notin Stoppable
  <2>1. StatusOf(StateOf(c)) = "ending"
    BY <1>0, <1>3, <1>10, StateTypes, StatusCases DEF Stopped, Stoppable, States
  <2> QED
    BY <1>8, <2>1, StuttersFollow DEF Stutters, Moves
<1> QED
  BY <1>9, <1>10

LEMMA FinishDisconnectFollows ==
    ASSUME HInv, AllHosted, NEW r \in Runs, FinishDisconnect(r)
    PROVE  Follows
<1>0. IInv /\ TypeOK /\ UNCHANGED restart
  BY DEF HInv, IInv, TInv, FinishDisconnect
<1>1. PICK e \in Entries : e = recv[r].entry
  BY <1>0, Threads DEF FinishDisconnect
<1>2. PICK c \in Configs : reg[c] = e /\ e # None /\ ent[e].state \notin Stopped
  BY <1>0, <1>1, Threads DEF AllHosted, Registered, Hosts, FinishDisconnect
<1>3. ent[e] \in Entry /\ ent[e].config = c /\ StateOf(c) \notin Stopped
      /\ (ent[e].pending <=> MarkOf(c))
  BY <1>0, <1>2, EntryOf
<1>. DEFINE gone == [ent[e] EXCEPT !.conn = None, !.process = None]
            s == FinalState(gone.pending, recv[r])
            new == [gone EXCEPT !.state = s]
<1>4. CASE recv[r].publish
  <2>0. s \in {"parked", "idle", "error"} /\ (s = "parked" <=> MarkOf(c))
    <3>1. gone.pending \in BOOLEAN /\ (gone.pending <=> MarkOf(c))
      BY <1>3 DEF Entry
    <3> QED
      BY <3>1 DEF FinalState
  <2>1. new \in Entry /\ new.config = c /\ new.state = s /\ (new.pending <=> MarkOf(c))
    BY <1>3, <2>0 DEF Entry, States
  <2>2. Publish(e, new)
    BY <1>1, <1>4 DEF FinishDisconnect
  <2> HIDE DEF new, s
  <2>3. Moves(c, StatusOf(new.state), new.state # "idle" /\ new.pending)
    BY <1>0, <1>2, <2>1, <2>2, PublishMoves
  <2>4. StatusOf(s) = IF MarkOf(c) THEN "parked" ELSE "idle"
    BY <2>0, StatusCases DEF States
  <2>5. Moves(c, IF MarkOf(c) THEN "parked" ELSE "idle", MarkOf(c))
    BY <2>0, <2>1, <2>3, <2>4 DEF Moves
  <2> QED
    BY <1>0, <1>3, <2>5, IsEnded DEF Follows, Abstract!Next
<1>5. CASE ~recv[r].publish
  <2>1. ent' = [ent EXCEPT ![e] = gone] /\ UNCHANGED reg
    BY <1>1, <1>5 DEF FinishDisconnect
  <2>2. \A d \in Entries : ent'[d].state = ent[d].state /\ ent'[d].pending = ent[d].pending
    BY <1>0, <2>1 DEF TypeOK, Entry
  <2> QED
    BY <1>0, <2>1, <2>2, StuttersFollow DEF Stutters, StateOf, MarkOf, TypeOK
<1> QED
  BY <1>4, <1>5

\* A graceful restart: begun, frozen, aborted, taken back.
LEMMA BeginFollows == ASSUME IInv, RestartBegin PROVE Follows
<1>0. TypeOK
  BY DEF IInv, TInv
<1>1. /\ restart' = [inflight |-> TRUE, abort |-> FALSE, frozen |-> FALSE, list |-> {}]
      /\ ~restart.inflight /\ UNCHANGED reg
  BY DEF RestartBegin, NoRestart
<1>2. ASSUME NEW c \in Configs
      PROVE  /\ StateOf(c)' = IF StateOf(c) = "resuming" THEN "parked" ELSE StateOf(c)
             /\ MarkOf(c)' <=> MarkOf(c) \/ StateOf(c) \in Stoppable \/ StateOf(c) = "resuming"
  <2>1. CASE reg[c] = None
    BY <1>1, <2>1 DEF StateOf, MarkOf, Stoppable
  <2>2. CASE reg[c] # None
    <3>1. PICK e \in Entries : e = reg[c] /\ ent[e] \in Entry
      BY <1>0, <2>2, EntryOf
    <3>2. ent'[e] = Taken(ent[e])
      BY <1>0, <3>1 DEF RestartBegin, Registered
    <3>3. /\ ent'[e].state = IF ent[e].state = "resuming" THEN "parked" ELSE ent[e].state
          /\ ent'[e].pending <=>
               ent[e].pending \/ ent[e].state \in Stoppable \/ ent[e].state = "resuming"
      BY <3>1, <3>2 DEF Taken, Entry, Stoppable
    <3> QED
      BY <1>1, <2>2, <3>1, <3>3 DEF StateOf, MarkOf
  <2> QED
    BY <2>1, <2>2
<1>3. ASSUME NEW c \in Configs
      PROVE  /\ StatusOf(StateOf(c))' = IF StatusOf(StateOf(c)) = "resuming" THEN "parked"
                                       ELSE StatusOf(StateOf(c))
             /\ MarkOf(c)' <=> MarkOf(c) \/ StatusOf(StateOf(c)) \in {"up", "resuming"}
  <2>1. StateOf(c) \in States /\ StatusOf("parked") = "parked"
    BY <1>0, StateTypes, StatusCases DEF States
  <2>2. /\ StatusOf(StateOf(c)) = "resuming" <=> StateOf(c) = "resuming"
        /\ StatusOf(StateOf(c)) = "up" <=> StateOf(c) \in Stoppable
    BY <2>1, StatusCases
  <2> QED
    BY <1>2, <2>1, <2>2
<1>4. Abstract!RestartBegin
  BY <1>1, <1>3 DEF Abstract!RestartBegin, Abstract!NewRun, MarkOf
<1> QED
  BY <1>4 DEF Follows, Abstract!Next

LEMMA FreezeFollows == ASSUME IInv, FreezeOK, Freeze PROVE Follows
<1>0. TypeOK /\ UNCHANGED <<reg, ent>>
  BY DEF IInv, TInv, Freeze
<1>1. CASE restart.abort
  BY <1>0, <1>1, UnchangedFollow DEF Freeze
<1>2. CASE ~restart.abort
  <2>1. restart.inflight /\ \A c \in Configs : StateOf(c) \in {"idle", "error", "parked"}
    BY <1>2 DEF Freeze, FreezeOK, PendingConfigs
  <2>2. \A c \in Configs : /\ StatusOf(StateOf(c)) \in {"idle", "parked"}
                           /\ StatusOf(StateOf(c)) = "parked" <=> StateOf(c) = "parked"
    BY <2>1, StatusCases DEF States
  <2>3. restart' = [restart EXCEPT !.frozen = TRUE,
                        !.list = {c \in Configs : StatusOf(StateOf(c)) = "parked"}]
    <3>1. {c \in Configs : StateOf(c) = "parked"}
            = {c \in Configs : StatusOf(StateOf(c)) = "parked"}
      BY <2>2
    <3> QED
      BY <1>2, <3>1 DEF Freeze
  <2>4. Abstract!With("parked") = {c \in Configs : StatusOf(StateOf(c)) = "parked"}
    BY DEF Abstract!With
  <2>5. UNCHANGED <<[c \in Configs |-> StatusOf(StateOf(c))],
                    [c \in Configs |-> reg[c] # None /\ ent[reg[c]].pending]>>
    BY <1>0 DEF StateOf
  <2>6. Abstract!Freeze
    BY <1>2, <2>1, <2>2, <2>3, <2>4, <2>5 DEF Abstract!Freeze
  <2> QED
    BY <2>6 DEF Follows, Abstract!Next
<1> QED
  BY <1>1, <1>2

LEMMA AbortFollows == ASSUME RestartAbort PROVE Follows
<1>1. UNCHANGED <<[c \in Configs |-> StatusOf(StateOf(c))],
                  [c \in Configs |-> reg[c] # None /\ ent[reg[c]].pending]>>
  BY DEF StateOf, RestartAbort
<1>2. Abstract!RestartAbort
  BY <1>1 DEF Abstract!RestartAbort, RestartAbort
<1> QED
  BY <1>2 DEF Follows, Abstract!Next

LEMMA CancelFollows == ASSUME IInv, RestartCancel PROVE Follows
<1>0. TypeOK
  BY DEF IInv, TInv
<1>1. restart' = [inflight |-> FALSE, abort |-> TRUE, frozen |-> FALSE, list |-> {}]
  BY DEF RestartCancel, NoRestart
<1>2. ASSUME NEW c \in Configs
      PROVE  /\ StateOf(c)' = IF StateOf(c) \in {"parked", "resuming"} THEN "idle" ELSE StateOf(c)
             /\ ~MarkOf(c)'
  <2>0. reg'[c] = IF StateOf(c) \in {"parked", "resuming"} THEN None ELSE reg[c]
    BY DEF RestartCancel
  <2>1. CASE reg'[c] = None
    BY <2>0, <2>1 DEF StateOf, MarkOf
  <2>2. CASE reg'[c] # None
    <3>1. PICK e \in Entries : e = reg[c] /\ ent[e] \in Entry /\ reg'[c] = e /\ e # None
      BY <1>0, <2>0, <2>2, EntryOf
    <3>2. ent'[e] = Released(ent[e]) /\ ent[e].state = StateOf(c)
      BY <1>0, <3>1 DEF RestartCancel, Registered, StateOf
    <3>3. /\ ent'[e].state = IF ent[e].state \in {"parked", "resuming"} THEN "idle"
                             ELSE ent[e].state
          /\ ~ent'[e].pending
      BY <3>1, <3>2 DEF Released, Entry
    <3> QED
      BY <3>1, <3>2, <3>3 DEF StateOf, MarkOf
  <2> QED
    BY <2>1, <2>2
<1>3. ASSUME NEW c \in Configs
      PROVE  StatusOf(StateOf(c))' = IF StatusOf(StateOf(c)) \in {"parked", "resuming"}
                                     THEN "idle" ELSE StatusOf(StateOf(c))
  <2>1. StateOf(c) \in States /\ StatusOf("idle") = "idle"
    BY <1>0, StateTypes, StatusCases DEF States
  <2>2. /\ StatusOf(StateOf(c)) = "resuming" <=> StateOf(c) = "resuming"
        /\ StatusOf(StateOf(c)) = "parked" <=> StateOf(c) = "parked"
    BY <2>1, StatusCases
  <2> QED
    BY <1>2, <2>1, <2>2
<1>4. Abstract!RestartCancel
  BY <1>1, <1>2, <1>3 DEF Abstract!RestartCancel, Abstract!NoRun, MarkOf
<1> QED
  BY <1>4 DEF Follows, Abstract!Next

LEMMA StepFollows ==
    ASSUME NoKills, KInv, [Next]_vars
    PROVE  Follows
<1>0. IInv /\ HInv /\ NothingKilled /\ AllHosted /\ FreezeOK
  BY DEF KInv, HInv
<1>1. CASE UserNext
  <2>1. ASSUME NEW a \in Callers, NEW c \in Configs, NEW keep \in BOOLEAN
        PROVE  ~Kill(a, c, keep) /\ ~ForceKill(a, c, keep)
    BY DEF Kill, ForceKill, UserCall, Offered, NoKills
  <2>2. ASSUME NEW a \in Callers, NEW c \in Configs, NEW keep \in BOOLEAN, SchedulerStop(a, c, keep)
        PROVE  Follows
    BY <1>0, <2>2, StopFollows DEF SchedulerStop
  <2>3. Flow => Follows
    BY UnchangedFollow DEF Flow
  <2> QED
    BY <1>0, <1>1, <2>1, <2>2, <2>3, StartFollows, ContinueFollows, QueueFollows, BeginFollows,
       AbortFollows, CancelFollows DEF UserNext
<1>2. ASSUME NEW a \in Actors, CallNext(a) PROVE Follows
  BY <1>0, <1>2, CallFollows
<1>3. ASSUME NEW r \in Runs, RecvNext(r) PROVE Follows
  <2>1. ReapDisconnected(r) => Follows
    BY UnchangedFollow DEF ReapDisconnected
  <2> QED
    BY <1>0, <1>3, <2>1, ReportFollows, DisconnectFollows, FinishDisconnectFollows DEF RecvNext
<1>4. ASSUME NEW r \in Runs, WorkerNext(r) PROVE Follows
  BY <1>4, UnchangedFollow DEF WorkerNext, WorkerClosesPipe, WorkerExit
<1>5. CASE OrchNext
  <2>1. ASSUME NEW c \in Configs, StopNext(c) PROVE Follows
    BY <1>0, <2>1, StopFollows DEF StopNext
  <2>2. ASSUME NEW c \in Configs PROVE ~KillNext(c)
    BY <1>0 DEF KillNext, NothingKilled
  <2>3. CASE StopsSent \/ WaitOver \/ WaitAborted \/ WaitTimesOut \/ KillsSent
    BY <2>3, UnchangedFollow DEF StopsSent, WaitOver, WaitAborted, WaitTimesOut, KillsSent
  <2> QED
    BY <1>0, <1>5, <2>1, <2>2, <2>3, FreezeFollows DEF OrchNext
<1>6. CASE CloseNext
  BY <1>0, <1>6 DEF NoKills, NothingKilled, CloseNext, CloseTakes, CloseReaps, CloseEnds
<1>7. CASE UNCHANGED vars
  BY <1>7, UnchangedFollow DEF vars
<1> QED
  BY <1>1, <1>2, <1>3, <1>4, <1>5, <1>6, <1>7 DEF Next

\* ImplementsWorkerStates: whatever the threads of the manager do in between, where
\* nothing is killed a config goes through the life cycle that MaintenanceFlow is built on:
\* it comes up through a start, a resume or a continue only, it is parked only for the
\* restart that marked it, and the list is frozen when every worker has stopped.
THEOREM ManagerImplementsWorkerStates ==
    ASSUME NoKills
    PROVE  Spec => ImplementsWorkerStates
<1>1. Init => Abstract!Init
  <2>1. StatusOf("idle") = "idle"
    BY StatusCases DEF States
  <2> QED
    BY <2>1 DEF Init, Abstract!Init, Abstract!NoRun, NoRestart, StateOf
<1>2. KInv /\ [Next]_vars => [Abstract!Next]_(Abstract!vars)
  BY StepFollows DEF Follows
<1> QED
  BY <1>1, <1>2, CalmInvariance, PTL DEF Spec, ImplementsWorkerStates, Abstract!Spec
====
