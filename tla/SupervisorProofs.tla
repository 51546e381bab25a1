-------------------------- MODULE SupervisorProofs --------------------------
(***************************************************************************)
(* Proofs about Supervisor: a credential that was taken back is never      *)
(* resumed, at most one backend that came up has consumed a resume file,   *)
(* and a crash loop is given up.  They hold for any number of backends,    *)
(* crashes, restarts and signals, and whatever the host does.              *)
(***************************************************************************)
EXTENDS Supervisor, FiniteSetTheorems, TLAPS

\* The values of what the credentials pass through.
Types ==
    /\ main \in [pc : MainPcs, ok : BOOLEAN] /\ conn \in BOOLEAN
    /\ slot \in [token : 0..MaxBackends, env : 0..MaxBackends]
    /\ up \in Seq(Messages)
    /\ be \in [id : 0..MaxBackends, phase : Phases, env : 0..MaxBackends, read : BOOLEAN,
               pub : {"none", "written", "announced", "removed", "withdrawn"},
               abort : BOOLEAN]
    /\ disk \subseteq Credentials
    /\ resumed \in [Credentials -> SUBSET Backends]
    /\ served \subseteq Backends /\ retracted \subseteq Credentials

\* Where run() decides about the next backend, there is none and its pipe is drained;
\* and the supervisor is attached to a backend that lives, until it is gone itself.
Attached ==
    /\ main.pc \in {"cleanup", "spawn", "decide", "delay"} => ~Alive /\ up = <<>>
    /\ Alive /\ ~conn => main.pc = "ended"

\* A credential belongs to the backend that published it: it is announced by that one
\* and consumed by a later one.
Earlier(c) == c = 0 \/ c < be.id
InOrder ==
    /\ Alive => be.id \in Backends
    /\ slot.token <= be.id /\ Earlier(slot.env) /\ Earlier(be.env)
    /\ \A i \in 1..Len(up) : up[i].kind = "resume" => up[i].cred \in {0, be.id}
    /\ \A b \in served \cup retracted : b <= be.id
    /\ \A c \in Credentials : \A b \in resumed[c] :
         c < b /\ b <= be.id /\ (b = be.id => be.env = c)
    /\ be.id \in retracted => be.pub = "withdrawn"

\* What makes WithdrawnNeverResumed inductive: a credential that was taken back is in
\* no environment, and where it is still in the slot or on its way to it, the message
\* that clears the slot comes after it.
Clears(m) == m.kind = "resume" /\ m.cred = 0
TakenBack(c) ==
    /\ slot.env # c
    /\ slot.token = c => \E i \in 1..Len(up) : Clears(up[i])
    /\ \A i \in 1..Len(up) : up[i].kind = "resume" /\ up[i].cred = c =>
         \E j \in 1..Len(up) : i < j /\ Clears(up[j])
Withdrawn ==
    /\ \A c \in retracted : resumed[c] = {} /\ be.env # c
    /\ main.pc # "ended" => \A c \in retracted : TakenBack(c)

\* What makes ResumedByOneServer inductive: once a backend has come up, slot and
\* environment hold no credential but its own, or its command:started is on its way;
\* and a file that such a backend consumed is offered to no later one.
Started ==
    be.id \in served /\ main.pc # "ended" =>
        \/ \E i \in 1..Len(up) : up[i].kind = "started"
        \/ slot.env = 0 /\ slot.token \in {0, be.id}
Spent ==
    \A c \in Credentials : \A a \in resumed[c] \cap served :
        /\ a < be.id => be.env # c /\ slot.env # c /\ slot.token # c
        /\ \A b \in resumed[c] \cap served : a = b

IInv == Types /\ Attached /\ InOrder /\ Withdrawn /\ Started /\ Spent
-----------------------------------------------------------------------------
(* The initial states, and what the steps have in common.                  *)

LEMMA InitIInv == Init => IInv
<1> SUFFICES ASSUME Init PROVE IInv
  OBVIOUS
<1>1. Types
  <2>1. main \in [pc : MainPcs, ok : BOOLEAN] /\ conn \in BOOLEAN
    BY DEF Init, MainPcs, InTry
  <2>2. slot \in [token : 0..MaxBackends, env : 0..MaxBackends] /\ up \in Seq(Messages)
    BY SupervisorAssumption DEF Init
  <2>3. be \in [id : 0..MaxBackends, phase : Phases, env : 0..MaxBackends, read : BOOLEAN,
                pub : {"none", "written", "announced", "removed", "withdrawn"},
                abort : BOOLEAN]
    BY SupervisorAssumption DEF Init, Phases
  <2>4. resumed \in [Credentials -> SUBSET Backends]
    BY DEF Init
  <2> QED
    BY <2>1, <2>2, <2>3, <2>4 DEF Init, Types
<1>2. retracted = {} /\ served = {} /\ up = <<>> /\ be.id = 0 /\ be.env = 0 /\ ~Alive
      /\ slot.token = 0 /\ slot.env = 0 /\ \A c \in Credentials : resumed[c] = {}
  BY DEF Init, Alive
<1>3. Attached /\ InOrder
  BY <1>2 DEF Attached, InOrder, Earlier
<1>4. Withdrawn /\ Started /\ Spent
  BY <1>2 DEF Withdrawn, Started, Spent
<1> QED
  BY <1>1, <1>3, <1>4 DEF IInv

\* Only the backend speaks into the pipe, and only while it lives.
LEMMA Sent ==
    ASSUME Types, NEW k \in {"spawned", "started", "restart", "stop", "resume"},
           NEW c \in 0..MaxBackends, Send(k, c)
    PROVE  up' \in Seq(Messages)
<1>1. [kind |-> k, cred |-> c] \in Messages
  BY DEF Messages
<1> QED
  BY <1>1 DEF Send, Types

LEMMA Spoke ==
    ASSUME Types, NEW k \in {"spawned", "started", "restart", "stop", "resume"}, Say(k)
    PROVE  up' \in Seq(Messages)
  BY Sent, SupervisorAssumption DEF Say

LEMMA TypesStep == Types /\ Attached /\ InOrder /\ [Next]_vars => Types'
<1> SUFFICES ASSUME Types, Attached, InOrder, [Next]_vars PROVE Types'
  OBVIOUS
<1> USE SupervisorAssumption
<1>1. CASE CleanUp
  BY <1>1 DEF CleanUp, Goto, Types, MainPcs, InTry
<1>2. CASE StartBackend
  BY <1>2 DEF StartBackend, Types, Injected, MainPcs, InTry, Phases
<1>3. CASE Receive
  <2>1. Head(up) \in Messages /\ Tail(up) \in Seq(Messages)
    BY <1>3 DEF Receive, Types
  <2>2. slot' \in [token : 0..MaxBackends, env : 0..MaxBackends]
    BY <1>3, <2>1 DEF Receive, Kept, Types, Messages
  <2>3. main' \in [pc : MainPcs, ok : BOOLEAN]
    BY <1>3 DEF Receive, Types, MainPcs, InTry
  <2> QED
    BY <1>3, <2>1, <2>2, <2>3 DEF Receive, Types
<1>4. CASE StartupTimeout \/ HostLost \/ BackendEnded
  <2>1. CASE StartupTimeout
    BY <2>1 DEF StartupTimeout, Types, MainPcs, InTry
  <2>2. CASE HostLost
    BY <2>2 DEF HostLost, Goto, Types, MainPcs, InTry
  <2>3. CASE BackendEnded
    BY <2>3 DEF BackendEnded, Goto, Types, MainPcs, InTry
  <2> QED
    BY <1>4, <2>1, <2>2, <2>3
<1>5. CASE Decide
  BY <1>5 DEF Decide, Goto, Types, MainPcs, InTry
<1>6. CASE DelayEnds \/ SendStop \/ WaitEnds
  BY <1>6 DEF DelayEnds, SendStop, WaitEnds, Goto, Types, MainPcs, InTry
<1>7. CASE ForceShutdown \/ Leave
  BY ZenonT(40), <1>7 DEF ForceShutdown, Leave, Goto, Types, MainPcs, InTry, Phases
<1>8. CASE Signal
  BY <1>8 DEF Signal, Types, MainPcs, InTry
<1>9. CASE Killed
  BY <1>9 DEF Killed, Goto, Types, MainPcs, InTry
<1> HIDE SupervisorAssumption
<1>10. CASE ReadStop \/ ReadEof \/ HostStops \/ HostDies \/ Tick
  BY <1>10 DEF ReadStop, ReadEof, HostStops, HostDies, Tick, superv, Types
<1>11. CASE Boot
  <2>1. up' \in Seq(Messages)
    BY <1>11, Spoke DEF Boot
  <2> QED
    BY <1>11, <2>1 DEF Boot, Quiet, superv, Types, Phases
<1>12. CASE Bind
  <2>1. be.id \in Backends
    BY <1>12 DEF Bind, InOrder, Alive
  <2>2. up' \in Seq(Messages)
    BY <1>12, Spoke DEF Bind
  <2> QED
    BY <1>12, <2>1, <2>2 DEF Bind, superv, Types, Phases
<1>13. CASE ReadIntent
  <2>1. be.id \in Backends
    BY <1>13 DEF ReadIntent, InOrder, Alive
  <2>2. CASE be.env \in disk
    <3>1. resumed' \in [Credentials -> SUBSET Backends]
      BY <1>13, <2>1, <2>2 DEF ReadIntent, Types
    <3>2. disk' \subseteq Credentials
      BY <1>13, <2>2 DEF ReadIntent, Types
    <3> QED
      BY <1>13, <3>1, <3>2 DEF ReadIntent, Quiet, superv, Types
  <2>3. CASE be.env \notin disk
    BY <1>13, <2>3 DEF ReadIntent, Quiet, superv, Types
  <2> QED
    BY <2>2, <2>3
<1>14. CASE WriteIntent
  <2>1. be.id \in Credentials
    BY <1>14 DEF WriteIntent, InOrder, Alive, Credentials
  <2> QED
    BY <1>14, <2>1 DEF WriteIntent, Quiet, superv, Types
<1>15. CASE AnnounceIntent
  <2>1. be.id \in 0..MaxBackends
    BY DEF Types
  <2>2. up' \in Seq(Messages)
    BY <1>15, <2>1, Sent DEF AnnounceIntent
  <2> QED
    BY <1>15, <2>2 DEF AnnounceIntent, Quiet, superv, Types
<1>16. CASE RemoveIntent
  BY <1>16 DEF RemoveIntent, Quiet, superv, Types
<1>17. CASE RetractIntent
  <2>1. be.id \in Credentials
    BY <1>17 DEF RetractIntent, InOrder, Credentials
  <2>2. up' \in Seq(Messages)
    BY <1>17, Sent, SupervisorAssumption DEF RetractIntent
  <2> QED
    BY <1>17, <2>1, <2>2 DEF RetractIntent, superv, Types
<1>18. CASE RequestRestart \/ RequestStop
  <2>1. up' \in Seq(Messages)
    BY <1>18, Spoke DEF RequestRestart, RequestStop
  <2> QED
    BY <1>18, <2>1 DEF RequestRestart, RequestStop, Quiet, superv, Types, Phases
<1>19. CASE ReceiveStop \/ Aborted \/ Exit \/ Crash
  BY <1>19 DEF ReceiveStop, Aborted, Exit, Crash, Quiet, superv, Types, Phases
<1>20. CASE UNCHANGED vars
  BY <1>20 DEF vars, superv, Types
<1> QED
  BY <1>1, <1>2, <1>3, <1>4, <1>5, <1>6, <1>7, <1>8, <1>9, <1>10, <1>11, <1>12, <1>13,
     <1>14, <1>15, <1>16, <1>17, <1>18, <1>19, <1>20
     DEF Next, Main, Backend, AtRest

LEMMA AttachedStep == Types /\ Attached /\ [Next]_vars => Attached'
<1> SUFFICES ASSUME Types, Attached, [Next]_vars PROVE Attached'
  OBVIOUS
<1>1. main \in [pc : MainPcs, ok : BOOLEAN]
  BY DEF Types
<1>2. be.phase \in Phases
  BY DEF Types
<1> USE <1>1 DEF Alive, Attached
<1>3. CASE CleanUp \/ StartBackend
  BY <1>3, <1>2 DEF CleanUp, StartBackend, Goto
<1>4. CASE Receive
  BY <1>4 DEF Receive
<1>5. CASE StartupTimeout \/ HostLost \/ BackendEnded
  BY <1>5 DEF StartupTimeout, HostLost, BackendEnded, Alive, Goto
<1>6. CASE Decide
  BY <1>6 DEF Decide, Goto
<1>7. CASE DelayEnds \/ SendStop \/ WaitEnds
  BY <1>7 DEF DelayEnds, SendStop, WaitEnds, Goto
<1>8. CASE ForceShutdown \/ Leave
  BY <1>8, <1>2 DEF ForceShutdown, Leave, Goto, Types
<1>9. CASE Signal
  BY <1>9 DEF Signal, InTry
<1>10. CASE Killed
  BY <1>10 DEF Killed, Goto
<1>11. CASE ReadStop \/ ReadEof \/ HostStops \/ HostDies \/ Tick
  BY <1>11 DEF ReadStop, ReadEof, HostStops, HostDies, Tick, superv
<1>12. CASE Boot \/ Bind \/ RequestRestart \/ RequestStop
  BY <1>12 DEF Boot, Bind, RequestRestart, RequestStop, Quiet, superv
<1>13. CASE ReadIntent \/ WriteIntent \/ RemoveIntent
  BY <1>13 DEF ReadIntent, WriteIntent, RemoveIntent, Quiet, superv, Types
<1>14. CASE AnnounceIntent \/ RetractIntent
  BY <1>14 DEF AnnounceIntent, RetractIntent, Quiet, superv
<1>15. CASE ReceiveStop \/ Aborted \/ Exit \/ Crash
  BY <1>15 DEF ReceiveStop, Aborted, Exit, Crash, Quiet, superv, Types
<1>16. CASE UNCHANGED vars
  BY <1>16 DEF vars, superv
<1> QED
  BY <1>3, <1>4, <1>5, <1>6, <1>7, <1>8, <1>9, <1>10, <1>11, <1>12, <1>13, <1>14, <1>15,
     <1>16 DEF Next, Main, Backend, AtRest

\* What most steps leave alone: the credentials outside the pipe.
Still ==
    /\ slot' = slot /\ be'.id = be.id /\ be'.env = be.env
    /\ resumed' = resumed /\ served' = served /\ retracted' = retracted
    /\ be.pub = "withdrawn" => be'.pub = "withdrawn"
    /\ Alive' => Alive
    /\ main.pc = "ended" => main'.pc = "ended"

\* ... and the pipe: a message may be put into it, which carries no credential but one
\* that its backend has not taken back.
Harmless(m) == m.kind = "resume" => m.cred = be.id /\ be.id \notin retracted
Speaks == up' = up \/ \E m \in Messages : Harmless(m) /\ up' = Append(up, m)

LEMMA SaysSpeaks ==
    ASSUME NEW k \in {"spawned", "restart", "stop"}, Say(k) PROVE Speaks
<1>1. [kind |-> k, cred |-> 0] \in Messages
  BY SupervisorAssumption DEF Messages
<1> QED
  BY <1>1 DEF Say, Send, Speaks, Harmless

\* The steps that do more.
Moves == Bind \/ RetractIntent \/ ReadIntent \/ StartBackend \/ Receive

LEMMA StepKinds == IInv /\ [Next]_vars => (Still /\ Speaks) \/ Moves
<1> SUFFICES ASSUME IInv, [Next]_vars, ~Moves PROVE Still /\ Speaks
  OBVIOUS
<1>1. Types /\ main \in [pc : MainPcs, ok : BOOLEAN]
  BY DEF IInv, Types
<1> USE <1>1 DEF Alive, Still
<1>3. CASE CleanUp
  BY <1>3 DEF CleanUp, Goto, Speaks
<1>5. CASE StartupTimeout \/ HostLost \/ BackendEnded
  BY <1>5 DEF StartupTimeout, HostLost, BackendEnded, Goto, Speaks
<1>6. CASE Decide
  BY <1>6 DEF Decide, Goto, Speaks
<1>7. CASE DelayEnds \/ SendStop \/ WaitEnds
  BY <1>7 DEF DelayEnds, SendStop, WaitEnds, Goto, Speaks
<1>8. CASE ForceShutdown \/ Leave
  BY <1>8 DEF ForceShutdown, Leave, Goto, Types, Speaks
<1>9. CASE Signal
  BY <1>9 DEF Signal, Speaks
<1>10. CASE Killed
  BY <1>10 DEF Killed, Goto, Speaks
<1>11. CASE ReadStop \/ ReadEof \/ HostStops \/ HostDies \/ Tick
  BY <1>11 DEF ReadStop, ReadEof, HostStops, HostDies, Tick, superv, Speaks
<1>12. CASE Boot \/ RequestRestart \/ RequestStop
  <2>1. Speaks
    BY <1>12, SaysSpeaks DEF Boot, RequestRestart, RequestStop
  <2> QED
    BY <1>12, <2>1 DEF Boot, RequestRestart, RequestStop, Quiet, superv, Types
<1>13. CASE WriteIntent \/ RemoveIntent
  BY <1>13 DEF WriteIntent, RemoveIntent, Quiet, superv, Types, Speaks
<1>14. CASE AnnounceIntent
  <2>1. [kind |-> "resume", cred |-> be.id] \in Messages
    BY DEF Types, Messages
  <2>2. be.id \notin retracted
    BY <1>14 DEF AnnounceIntent, IInv, InOrder
  <2>3. Speaks
    BY <1>14, <2>1, <2>2 DEF AnnounceIntent, Send, Speaks, Harmless
  <2> QED
    BY <1>14, <2>3 DEF AnnounceIntent, Quiet, superv, Types
<1>15. CASE ReceiveStop \/ Aborted \/ Exit \/ Crash
  BY <1>15 DEF ReceiveStop, Aborted, Exit, Crash, Quiet, superv, Types, Speaks
<1>16. CASE UNCHANGED vars
  BY <1>16 DEF vars, superv, Speaks
<1> QED
  BY <1>3, <1>5, <1>6, <1>7, <1>8, <1>9, <1>10, <1>11, <1>12, <1>13, <1>14, <1>15,
     <1>16 DEF Next, Main, Backend, AtRest, Moves
-----------------------------------------------------------------------------
(* The pipe as a sequence.                                                 *)

\* Append leaves the messages before the new one where they are.
LEMMA Appended ==
    ASSUME NEW s \in Seq(Messages), NEW m \in Messages, NEW t, t = Append(s, m)
    PROVE  /\ Len(t) = Len(s) + 1 /\ t[Len(s) + 1] = m
           /\ \A i \in 1..Len(s) : t[i] = s[i]
  OBVIOUS

\* Receive moves the others one place forward.
LEMMA Dequeued ==
    ASSUME NEW s \in Seq(Messages), s # <<>>, NEW t, t = Tail(s)
    PROVE  /\ Head(s) = s[1] /\ s[1] \in Messages
           /\ \A i \in 1..Len(t) : i + 1 \in 1..Len(s) /\ t[i] = s[i + 1]
           /\ \A i \in 1..Len(s) : i # 1 => i - 1 \in 1..Len(t) /\ t[i - 1] = s[i]
  OBVIOUS

\* Without a message more than one place in the pipe, what a step of the other kinds
\* finds there is what was there before it.
LEMMA SpokenPipe ==
    ASSUME Types, Speaks
    PROVE  /\ \A i \in 1..Len(up) : i \in 1..Len(up') /\ up'[i] = up[i]
           /\ \A i \in 1..Len(up') : i \in 1..Len(up) \/ Harmless(up'[i])
<1>1. CASE up' = up
  BY <1>1
<1>2. ASSUME NEW m \in Messages, Harmless(m), up' = Append(up, m)
      PROVE  /\ \A i \in 1..Len(up) : i \in 1..Len(up') /\ up'[i] = up[i]
             /\ \A i \in 1..Len(up') : i \in 1..Len(up) \/ Harmless(up'[i])
  <2>1. up \in Seq(Messages)
    BY DEF Types
  <2>2. /\ Len(up') = Len(up) + 1 /\ up'[Len(up) + 1] = m
        /\ \A i \in 1..Len(up) : up'[i] = up[i]
    BY <2>1, <1>2, Appended
  <2>3. Len(up) \in Nat
    BY <2>1
  <2> QED
    BY <2>2, <2>3, <1>2
<1> QED
  BY <1>1, <1>2 DEF Speaks

\* command:started is as harmless as what the other steps say.
LEMMA BindSpeaks == Bind => Speaks
<1>1. [kind |-> "started", cred |-> 0] \in Messages
  BY SupervisorAssumption DEF Messages
<1> QED
  BY <1>1 DEF Bind, Say, Send, Speaks, Harmless
-----------------------------------------------------------------------------
(* Each conjunct of the inductive invariant is preserved.                  *)

LEMMA InOrderStep == IInv /\ [Next]_vars => InOrder'
<1> SUFFICES ASSUME IInv, [Next]_vars PROVE InOrder'
  OBVIOUS
<1>1. Types /\ Attached /\ InOrder
  BY DEF IInv
<1>2. /\ be.id \in 0..MaxBackends /\ be.env \in 0..MaxBackends
      /\ slot.token \in 0..MaxBackends /\ slot.env \in 0..MaxBackends
      /\ \A c \in Credentials : c \in Nat \ {0}
      /\ resumed \in [Credentials -> SUBSET Backends]
      /\ \A c \in Credentials : \A b \in resumed[c] : b \in Nat
      /\ \A b \in served \cup retracted : b \in Nat
  BY <1>1 DEF Types, Credentials, Backends
<1>3. CASE Still /\ Speaks
  <2>1. \A i \in 1..Len(up') : up'[i].kind = "resume" => up'[i].cred \in {0, be'.id}
    BY <1>1, <1>3, SpokenPipe DEF InOrder, Still, Harmless
  <2> QED
    BY <1>1, <1>2, <1>3, <2>1 DEF InOrder, Still, Earlier
<1>4. CASE Bind
  <2>1. \A i \in 1..Len(up') : up'[i].kind = "resume" => up'[i].cred \in {0, be.id}
    BY <1>1, <1>4, SpokenPipe, BindSpeaks DEF InOrder, Harmless
  <2>2. be'.id = be.id /\ be'.env = be.env /\ be'.pub = be.pub /\ (Alive' => Alive)
    BY <1>1, <1>4 DEF Bind, Types, Alive
  <2> QED
    BY <1>1, <1>2, <1>4, <2>1, <2>2 DEF InOrder, Bind, superv, Earlier
<1>5. CASE RetractIntent
  <2>1. \A i \in 1..Len(up') : up'[i].kind = "resume" => up'[i].cred \in {0, be.id}
    <3>1. [kind |-> "resume", cred |-> 0] \in Messages /\ up \in Seq(Messages)
      BY <1>1, SupervisorAssumption DEF Messages, Types
    <3>2. CASE up' = up
      BY <3>2, <1>1 DEF InOrder
    <3>3. CASE up' = Append(up, [kind |-> "resume", cred |-> 0])
      BY <3>1, <3>3, <1>1, Appended DEF InOrder
    <3> QED
      BY <3>2, <3>3, <1>5 DEF RetractIntent, Send
  <2>2. be'.id = be.id /\ be'.env = be.env /\ be'.pub = "withdrawn" /\ (Alive' => Alive)
    BY <1>1, <1>5 DEF RetractIntent, Types, Alive
  <2> QED
    BY <1>1, <1>2, <1>5, <2>1, <2>2 DEF InOrder, RetractIntent, superv, Earlier
<1>6. CASE ReadIntent
  <2>1. /\ be'.id = be.id /\ be'.env = be.env /\ be'.pub = be.pub /\ (Alive' => Alive)
        /\ be.id \in Backends
    BY <1>1, <1>6 DEF ReadIntent, Types, Alive, InOrder
  <2>2. \A c \in Credentials : \A b \in resumed'[c] :
          b \in resumed[c] \/ (b = be.id /\ be.env = c)
    BY <1>2, <1>6 DEF ReadIntent
  <2> QED
    BY <1>1, <1>2, <1>6, <2>1, <2>2 DEF InOrder, ReadIntent, Quiet, superv, Earlier
<1>7. CASE StartBackend
  <2>1. /\ be'.id = be.id + 1 /\ be'.env = Injected /\ up' = <<>>
        /\ slot'.token = slot.token /\ slot'.env = Injected
    BY <1>1, <1>7 DEF StartBackend, Types
  <2>2. Injected = 0 \/ Injected < be.id + 1
    BY <1>1, <1>2 DEF Injected, InOrder, Earlier
  <2>3. be.id + 1 \in Backends
    BY <1>2, <1>7, SupervisorAssumption DEF StartBackend, Backends
  <2>4. be.id + 1 \notin retracted
    BY <1>1, <1>2 DEF InOrder
  <2> QED
    BY <1>1, <1>2, <1>7, <2>1, <2>2, <2>3, <2>4
       DEF InOrder, StartBackend, Earlier
<1>8. CASE Receive
  <2>1. up \in Seq(Messages) /\ up # <<>> /\ up' = Tail(up) /\ slot' = Kept(Head(up))
    BY <1>1, <1>8 DEF Receive, Types
  <2>2. \A i \in 1..Len(up') : up'[i].kind = "resume" => up'[i].cred \in {0, be.id}
    BY <1>1, <2>1, Dequeued DEF InOrder
  <2>3. slot'.token <= be.id /\ (slot'.env = 0 \/ slot'.env < be.id)
    <3>1. 1 \in 1..Len(up) /\ Head(up) = up[1]
      BY <2>1
    <3>2. Head(up).kind = "resume" => Head(up).cred \in {0, be.id}
      BY <1>1, <3>1 DEF InOrder
    <3> QED
      BY <1>1, <1>2, <2>1, <3>2 DEF Kept, InOrder, Earlier, Types
  <2> QED
    BY <1>1, <1>2, <1>8, <2>2, <2>3 DEF InOrder, Receive, Earlier, Alive
<1> QED
  BY <1>3, <1>4, <1>5, <1>6, <1>7, <1>8, StepKinds DEF Moves

LEMMA WithdrawnStep == IInv /\ [Next]_vars => Withdrawn'
<1> SUFFICES ASSUME IInv, [Next]_vars PROVE Withdrawn'
  OBVIOUS
<1>1. Types /\ Attached /\ InOrder /\ Withdrawn
  BY DEF IInv
<1>2. retracted \subseteq Credentials /\ up \in Seq(Messages)
  BY <1>1 DEF Types
<1>3. CASE Still /\ Speaks
  <2> SUFFICES ASSUME NEW c \in retracted, main'.pc # "ended" PROVE TakenBack(c)'
    BY <1>1, <1>3 DEF Withdrawn, Still
  <2>1. TakenBack(c)
    BY <1>1, <1>3 DEF Withdrawn, Still
  <2>2. /\ \A i \in 1..Len(up) : i \in 1..Len(up') /\ up'[i] = up[i]
        /\ \A i \in 1..Len(up') : i \in 1..Len(up) \/ Harmless(up'[i])
    BY <1>1, <1>3, SpokenPipe
  <2>3. \A i \in 1..Len(up') : up'[i].kind = "resume" /\ up'[i].cred = c => i \in 1..Len(up)
    BY <2>2 DEF Harmless
  <2> QED
    BY <1>3, <2>1, <2>2, <2>3 DEF TakenBack, Still, Clears
<1>4. CASE Bind
  <2>1. /\ retracted' = retracted /\ resumed' = resumed /\ be'.env = be.env
        /\ slot' = slot /\ main' = main
    BY <1>1, <1>4 DEF Bind, superv, Types
  <2> SUFFICES ASSUME NEW c \in retracted, main'.pc # "ended" PROVE TakenBack(c)'
    BY <1>1, <2>1 DEF Withdrawn
  <2>2. TakenBack(c)
    BY <1>1, <2>1 DEF Withdrawn
  <2>3. /\ \A i \in 1..Len(up) : i \in 1..Len(up') /\ up'[i] = up[i]
        /\ \A i \in 1..Len(up') : i \in 1..Len(up) \/ Harmless(up'[i])
    BY <1>1, <1>4, BindSpeaks, SpokenPipe
  <2>4. \A i \in 1..Len(up') : up'[i].kind = "resume" /\ up'[i].cred = c => i \in 1..Len(up)
    BY <2>3 DEF Harmless
  <2> QED
    BY <2>1, <2>2, <2>3, <2>4 DEF TakenBack, Clears
<1>5. CASE RetractIntent
  <2>1. /\ retracted' = retracted \cup {be.id} /\ resumed' = resumed /\ be'.env = be.env
        /\ slot' = slot /\ main' = main /\ be.id \in Backends
    BY <1>1, <1>5 DEF RetractIntent, superv, Types, InOrder
  <2>2. resumed[be.id] = {} /\ be.env # be.id /\ slot.env # be.id
    <3>1. be.id \in Credentials /\ be.id \in Nat \ {0}
      BY <2>1 DEF Credentials, Backends
    <3>2. \A b \in resumed[be.id] : be.id < b /\ b <= be.id
      BY <1>1, <3>1 DEF InOrder
    <3>3. \A b \in resumed[be.id] : b \in Nat
      BY <1>1, <3>1 DEF Types, Backends
    <3> QED
      BY <1>1, <3>1, <3>2, <3>3 DEF InOrder, Earlier
  <2> SUFFICES ASSUME NEW c \in retracted \cup {be.id}, main'.pc # "ended"
               PROVE TakenBack(c)'
    BY <1>1, <2>1, <2>2 DEF Withdrawn
  <2>3. up' = Append(up, [kind |-> "resume", cred |-> 0])
    BY <1>1, <1>5, <2>1 DEF RetractIntent, Send, Attached
  <2>4. [kind |-> "resume", cred |-> 0] \in Messages
    BY SupervisorAssumption DEF Messages
  <2>5. /\ Len(up') = Len(up) + 1 /\ up'[Len(up) + 1] = [kind |-> "resume", cred |-> 0]
        /\ \A i \in 1..Len(up) : up'[i] = up[i]
        /\ Len(up) \in Nat
    BY <1>2, <2>3, <2>4, Appended
  <2>6. Len(up) + 1 \in 1..Len(up') /\ Clears(up'[Len(up) + 1])
    BY <2>5 DEF Clears
  <2>7. c # 0
    BY <1>2, <2>1 DEF Credentials, Backends
  <2>8. slot.env # c
    BY <1>1, <2>1, <2>2 DEF Withdrawn, TakenBack
  <2>9. \A i \in 1..Len(up') : up'[i].kind = "resume" /\ up'[i].cred = c => i < Len(up) + 1
    BY <2>5, <2>7
  <2> QED
    BY <2>1, <2>6, <2>8, <2>9 DEF TakenBack
<1>6. CASE ReadIntent
  <2>1. /\ retracted' = retracted /\ be'.env = be.env /\ slot' = slot /\ main' = main
        /\ up' = up
    BY <1>1, <1>6 DEF ReadIntent, Quiet, superv, Types
  <2>2. \A c \in retracted : resumed'[c] = resumed[c]
    BY <1>1, <1>2, <1>6 DEF ReadIntent, Withdrawn, Types
  <2> QED
    BY <1>1, <2>1, <2>2 DEF Withdrawn, TakenBack
<1>7. CASE StartBackend
  <2>1. /\ be'.env = Injected /\ up = <<>> /\ main.pc # "ended"
        /\ slot'.token = slot.token /\ slot'.env = Injected
        /\ retracted' = retracted /\ resumed' = resumed /\ up' = <<>>
    BY <1>1, <1>7 DEF StartBackend, Types, Attached
  <2>2. \A c \in retracted : slot.token # c /\ slot.env # c
    BY <1>1, <2>1 DEF Withdrawn, TakenBack
  <2>3. \A c \in retracted : Injected # c
    BY <2>2 DEF Injected
  <2> QED
    BY <1>1, <2>1, <2>2, <2>3 DEF Withdrawn, TakenBack
<1>8. CASE Receive
  <2>1. /\ up # <<>> /\ up' = Tail(up) /\ slot' = Kept(up[1]) /\ main.pc # "ended"
        /\ retracted' = retracted /\ resumed' = resumed /\ be' = be
    BY <1>2, <1>8 DEF Receive
  <2> SUFFICES ASSUME NEW c \in retracted PROVE TakenBack(c)'
    BY <1>1, <2>1 DEF Withdrawn
  <2>2. TakenBack(c) /\ c # 0
    BY <1>1, <1>2, <2>1 DEF Withdrawn, Credentials, Backends
  <2>3. /\ \A i \in 1..Len(up') : i + 1 \in 1..Len(up) /\ up'[i] = up[i + 1]
        /\ \A i \in 1..Len(up) : i # 1 => i - 1 \in 1..Len(up') /\ up'[i - 1] = up[i]
        /\ 1 \in 1..Len(up)
    BY <1>2, <2>1, Dequeued
  <2>4. slot'.env # c
    BY <1>1, <2>1, <2>2 DEF Kept, TakenBack, Types
  <2>5. ASSUME slot'.token = c PROVE \E i \in 1..Len(up') : Clears(up'[i])
    <3>1. \/ up[1].kind = "resume" /\ up[1].cred = c
          \/ ~Clears(up[1]) /\ slot.token = c
      BY <1>1, <2>1, <2>2, <2>5 DEF Kept, Clears, Types
    <3>2. CASE up[1].kind = "resume" /\ up[1].cred = c
      <4>1. PICK i \in 1..Len(up) : 1 < i /\ Clears(up[i])
        BY <2>2, <2>3, <3>2 DEF TakenBack
      <4> QED
        BY <2>3, <4>1
    <3>3. CASE ~Clears(up[1]) /\ slot.token = c
      <4>1. PICK i \in 1..Len(up) : Clears(up[i])
        BY <2>2, <3>3 DEF TakenBack
      <4>2. i # 1
        BY <3>3, <4>1
      <4> QED
        BY <2>3, <4>1, <4>2
    <3> QED
      BY <3>1, <3>2, <3>3
  <2>6. ASSUME NEW i \in 1..Len(up'), up'[i].kind = "resume", up'[i].cred = c
        PROVE  \E j \in 1..Len(up') : i < j /\ Clears(up'[j])
    <3>1. i + 1 \in 1..Len(up) /\ up[i + 1].kind = "resume" /\ up[i + 1].cred = c
      BY <2>3, <2>6
    <3>2. PICK j \in 1..Len(up) : i + 1 < j /\ Clears(up[j])
      BY <2>2, <3>1 DEF TakenBack
    <3>3. j # 1 /\ i < j - 1
      BY <3>2
    <3> QED
      BY <2>3, <3>2, <3>3
  <2> QED
    BY <2>4, <2>5, <2>6 DEF TakenBack
<1> QED
  BY <1>3, <1>4, <1>5, <1>6, <1>7, <1>8, StepKinds DEF Moves

LEMMA StartedStep == IInv /\ [Next]_vars => Started'
<1> SUFFICES ASSUME IInv, [Next]_vars, be'.id \in served', main'.pc # "ended"
             PROVE  \/ \E i \in 1..Len(up') : up'[i].kind = "started"
                    \/ slot'.env = 0 /\ slot'.token \in {0, be'.id}
  BY DEF Started
<1>1. Types /\ Attached /\ InOrder /\ Started
  BY DEF IInv
<1>2. up \in Seq(Messages) /\ be.id \in 0..MaxBackends
  BY <1>1 DEF Types
<1>3. CASE Still /\ Speaks
  <2>1. \A i \in 1..Len(up) : i \in 1..Len(up') /\ up'[i] = up[i]
    BY <1>1, <1>3, SpokenPipe
  <2> QED
    BY <1>1, <1>3, <2>1 DEF Started, Still
<1>4. CASE Bind
  <2>1. conn
    BY <1>1, <1>4 DEF Bind, Attached, Alive, superv
  <2>2. up' = Append(up, [kind |-> "started", cred |-> 0])
    BY <1>4, <2>1 DEF Bind, Say, Send
  <2>3. [kind |-> "started", cred |-> 0] \in Messages
    BY SupervisorAssumption DEF Messages
  <2>4. /\ Len(up') = Len(up) + 1 /\ Len(up) \in Nat
        /\ up'[Len(up) + 1] = [kind |-> "started", cred |-> 0]
    BY <1>2, <2>2, <2>3, Appended
  <2>5. Len(up) + 1 \in 1..Len(up') /\ up'[Len(up) + 1].kind = "started"
    BY <2>4
  <2> QED
    BY <2>5
<1>5. CASE RetractIntent
  <2>1. conn /\ main' = main /\ slot' = slot /\ served' = served /\ be'.id = be.id
    BY <1>1, <1>5 DEF RetractIntent, Attached, Alive, superv, Types
  <2>2. up' = Append(up, [kind |-> "resume", cred |-> 0])
    BY <1>5, <2>1 DEF RetractIntent, Send
  <2>3. [kind |-> "resume", cred |-> 0] \in Messages
    BY SupervisorAssumption DEF Messages
  <2>4. \A i \in 1..Len(up) : i \in 1..Len(up') /\ up'[i] = up[i]
    BY <1>2, <2>2, <2>3, Appended
  <2> QED
    BY <1>1, <2>1, <2>4 DEF Started
<1>6. CASE ReadIntent
  <2>1. main' = main /\ slot' = slot /\ served' = served /\ be'.id = be.id /\ up' = up
    BY <1>1, <1>6 DEF ReadIntent, Quiet, superv, Types
  <2> QED
    BY <1>1, <2>1 DEF Started
<1>7. CASE StartBackend
  <2>1. be'.id = be.id + 1 /\ served' = served
    BY <1>7 DEF StartBackend
  <2>2. be.id + 1 \notin served
    BY <1>1, <1>2 DEF InOrder
  <2> QED
    BY <2>1, <2>2
<1>8. CASE Receive
  <2>1. /\ up # <<>> /\ up' = Tail(up) /\ slot' = Kept(up[1]) /\ main.pc # "ended"
        /\ served' = served /\ be' = be
    BY <1>2, <1>8 DEF Receive
  <2>2. /\ \A i \in 1..Len(up) : i # 1 => i - 1 \in 1..Len(up') /\ up'[i - 1] = up[i]
        /\ 1 \in 1..Len(up)
    BY <1>2, <2>1, Dequeued
  <2>3. CASE up[1].kind = "started"
    BY <2>1, <2>3 DEF Kept
  <2>4. CASE up[1].kind # "started" /\ \E i \in 1..Len(up) : up[i].kind = "started"
    <3>1. PICK i \in 1..Len(up) : up[i].kind = "started"
      BY <2>4
    <3>2. i # 1
      BY <2>4, <3>1
    <3> QED
      BY <2>2, <3>1, <3>2
  <2>5. CASE up[1].kind # "started" /\ slot.env = 0 /\ slot.token \in {0, be.id}
    <3>1. up[1].kind = "resume" => up[1].cred \in {0, be.id}
      BY <1>1, <2>2 DEF InOrder
    <3> QED
      BY <1>1, <2>1, <2>5, <3>1 DEF Kept, Types
  <2> QED
    BY <1>1, <2>1, <2>3, <2>4, <2>5 DEF Started
<1> QED
  BY <1>3, <1>4, <1>5, <1>6, <1>7, <1>8, StepKinds DEF Moves

LEMMA SpentStep == IInv /\ [Next]_vars => Spent'
<1> SUFFICES ASSUME IInv, [Next]_vars PROVE Spent'
  OBVIOUS
<1>1. Types /\ Attached /\ InOrder /\ Started /\ Spent
  BY DEF IInv
<1>2. /\ be.id \in 0..MaxBackends /\ MaxBackends \in Nat
      /\ \A c \in Credentials : c \in Nat \ {0}
      /\ \A c \in Credentials : \A b \in resumed[c] : b \in Nat
      /\ \A c \in Credentials : \A b \in resumed[c] :
           c < b /\ b <= be.id /\ (b = be.id => be.env = c)
      /\ resumed \in [Credentials -> SUBSET Backends]
  BY <1>1, SupervisorAssumption DEF Types, Credentials, Backends, InOrder
<1>3. CASE Still /\ Speaks
  BY <1>1, <1>3 DEF Spent, Still
<1>4. CASE Bind
  <2>1. /\ served' = served \cup {be.id} /\ resumed' = resumed /\ slot' = slot
        /\ be'.id = be.id /\ be'.env = be.env
    BY <1>1, <1>4 DEF Bind, superv, Types
  <2>2. \A c \in Credentials : be.id \in resumed[c] =>
          \A b \in resumed[c] \cap served : b = be.id
    BY <1>1, <1>2 DEF Spent
  <2>3. \A c \in Credentials : \A a, b \in resumed[c] \cap served' : a = b
    BY <1>1, <2>1, <2>2 DEF Spent
  <2>4. \A c \in Credentials : \A a \in resumed[c] \cap served' :
          a < be.id => be.env # c /\ slot.env # c /\ slot.token # c
    BY <1>1, <1>2, <2>1 DEF Spent
  <2> QED
    BY <2>1, <2>3, <2>4 DEF Spent
<1>5. CASE RetractIntent
  <2>1. /\ served' = served /\ resumed' = resumed /\ slot' = slot
        /\ be'.id = be.id /\ be'.env = be.env
    BY <1>1, <1>5 DEF RetractIntent, superv, Types
  <2> QED
    BY <1>1, <2>1 DEF Spent
<1>6. CASE ReadIntent
  <2>1. served' = served /\ slot' = slot /\ be'.id = be.id /\ be'.env = be.env
    BY <1>1, <1>6 DEF ReadIntent, Quiet, superv, Types
  <2>2. \A c \in Credentials : resumed'[c] = resumed[c] \/
          (resumed'[c] = resumed[c] \cup {be.id} /\ be.env = c)
    BY <1>2, <1>6 DEF ReadIntent
  <2>3. \A c \in Credentials : be.env = c =>
          \A a \in resumed[c] \cap served : a = be.id
    BY <1>1, <1>2 DEF Spent
  <2>4. \A c \in Credentials : \A a, b \in resumed'[c] \cap served : a = b
    BY <1>1, <2>2, <2>3 DEF Spent
  <2>5. \A c \in Credentials : \A a \in resumed'[c] \cap served : a < be.id =>
          a \in resumed[c]
    BY <1>2, <2>2
  <2> QED
    BY <1>1, <2>1, <2>4, <2>5 DEF Spent
<1>7. CASE StartBackend
  <2>1. /\ be'.id = be.id + 1 /\ be'.env = Injected /\ up = <<>> /\ main.pc # "ended"
        /\ slot'.token = slot.token /\ slot'.env = Injected
        /\ resumed' = resumed /\ served' = served
    BY <1>1, <1>7 DEF StartBackend, Types, Attached
  <2>2. ASSUME NEW c \in Credentials, NEW a \in resumed[c] \cap served
        PROVE  slot.env # c /\ slot.token # c
    <3>1. CASE a < be.id
      BY <1>1, <3>1 DEF Spent
    <3>2. CASE a = be.id
      <4>1. slot.env = 0 /\ slot.token \in {0, be.id}
        BY <1>1, <2>1, <3>2 DEF Started
      <4> QED
        BY <1>2, <3>2, <4>1
    <3> QED
      BY <1>2, <3>1, <3>2
  <2>3. \A c \in Credentials : \A a \in resumed[c] \cap served : Injected # c
    BY <2>2 DEF Injected
  <2> QED
    BY <1>1, <2>1, <2>2, <2>3 DEF Spent
<1>8. CASE Receive
  <2>1. /\ up # <<>> /\ slot' = Kept(up[1]) /\ 1 \in 1..Len(up)
        /\ served' = served /\ be' = be /\ resumed' = resumed
    BY <1>1, <1>8 DEF Receive, Types
  <2>2. up[1].kind = "resume" => up[1].cred \in {0, be.id}
    BY <1>1, <2>1 DEF InOrder
  <2>3. ASSUME NEW c \in Credentials, NEW a \in resumed[c] \cap served, a < be.id
        PROVE  slot'.env # c /\ slot'.token # c
    <3>1. slot.env # c /\ slot.token # c /\ c # 0 /\ c # be.id
      BY <1>1, <1>2, <2>3 DEF Spent
    <3> QED
      BY <1>1, <2>1, <2>2, <3>1 DEF Kept, Types
  <2> QED
    BY <1>1, <2>1, <2>3 DEF Spent
<1> QED
  BY <1>3, <1>4, <1>5, <1>6, <1>7, <1>8, StepKinds DEF Moves
-----------------------------------------------------------------------------
(* The restart limit.                                                      *)

\* The restarts of the span of restart_window that begins at t.
Span(t) == {i \in 1..Len(log) : t <= log[i] /\ log[i] < t + RestartWindow}

\* What makes CrashLoopBounded inductive: restart_times has lost no restart that a span
\* which is still open contains.
Limit ==
    /\ now \in 0..MaxTime /\ log \in Seq(0..MaxTime)
    /\ times \subseteq 1..Len(log) /\ Cardinality(times) <= MaxRestarts
    /\ \A i \in 1..Len(log) : log[i] <= now
    /\ \A i \in 1..Len(log) : i \in times \/ log[i] + RestartWindow <= now
    /\ \A t \in 0..MaxTime : Cardinality(Span(t)) <= MaxRestarts

LEMMA InitLimit == Init => Limit
<1> SUFFICES ASSUME Init PROVE Limit
  OBVIOUS
<1>1. now \in 0..MaxTime /\ log = <<>> /\ times = {}
  BY SupervisorAssumption DEF Init
<1>2. \A t \in 0..MaxTime : Span(t) = {}
  BY <1>1 DEF Span
<1>3. Cardinality({}) <= MaxRestarts
  BY SupervisorAssumption, FS_EmptySet
<1> QED
  BY <1>1, <1>2, <1>3 DEF Limit

\* A restart that Decide counts.
LEMMA CountedLimit ==
    ASSUME Limit, ~(Cardinality(Recent) >= MaxRestarts), now' = now,
           log' = Append(log, now), times' = Recent \cup {Len(log) + 1}
    PROVE  Limit'
<1>1. /\ now \in 0..MaxTime /\ log \in Seq(0..MaxTime) /\ times \subseteq 1..Len(log)
      /\ MaxTime \in Nat /\ MaxRestarts \in Nat /\ RestartWindow \in Nat \ {0}
      /\ Len(log) \in Nat
  BY SupervisorAssumption DEF Limit
<1>2. /\ log' \in Seq(0..MaxTime) /\ Len(log') = Len(log) + 1 /\ log'[Len(log) + 1] = now
      /\ \A i \in 1..Len(log) : log'[i] = log[i]
  BY <1>1
<1>3. IsFiniteSet(Recent) /\ Cardinality(Recent) \in Nat
  <2>1. IsFiniteSet(1..Len(log))
    BY <1>1, FS_Interval
  <2>2. Recent \subseteq 1..Len(log)
    BY <1>1 DEF Recent
  <2> QED
    BY <2>1, <2>2, FS_Subset, FS_CardinalityType
<1>4. IsFiniteSet(times') /\ Cardinality(times') <= MaxRestarts
  <2>1. Cardinality(Recent) + 1 <= MaxRestarts
    BY <1>1, <1>3
  <2>2. Len(log) + 1 \notin Recent
    BY <1>1 DEF Recent
  <2>3. /\ IsFiniteSet(Recent \cup {Len(log) + 1})
        /\ Cardinality(Recent \cup {Len(log) + 1}) = Cardinality(Recent) + 1
    BY <1>3, <2>2, FS_AddElement
  <2> QED
    BY <2>1, <2>3
<1>5. \A i \in 1..Len(log') : i \in 1..Len(log) \/ i = Len(log) + 1
  BY <1>1, <1>2
<1>6. times' \subseteq 1..Len(log')
  <2>1. Recent \subseteq 1..Len(log)
    BY <1>1 DEF Recent
  <2> HIDE DEF Recent
  <2>2. 1..Len(log) \subseteq 1..Len(log') /\ Len(log) + 1 \in 1..Len(log')
    BY <1>1, <1>2
  <2> QED
    BY <2>1, <2>2
<1>7. \A i \in 1..Len(log') : log'[i] <= now'
  BY <1>1, <1>2, <1>5 DEF Limit
<1>8. \A i \in 1..Len(log') : i \in times' \/ log'[i] + RestartWindow <= now'
  <2> SUFFICES ASSUME NEW i \in 1..Len(log), i \notin Recent
               PROVE  log[i] + RestartWindow <= now
    BY <1>2, <1>5
  <2>1. log[i] \in 0..MaxTime
    BY <1>1
  <2> QED
    BY <1>1, <2>1 DEF Limit, Recent
<1>9. ASSUME NEW t \in 0..MaxTime PROVE Cardinality(Span(t)') <= MaxRestarts
  <2>1. CASE t <= now /\ now < t + RestartWindow
    <3>1. Span(t)' \subseteq times'
      <4> SUFFICES ASSUME NEW i \in 1..Len(log), t <= log[i] PROVE i \in times'
        BY <1>2, <1>5 DEF Span
      <4>1. log[i] \in 0..MaxTime /\ ~(log[i] + RestartWindow <= now)
        BY <1>1, <2>1
      <4> QED
        BY <1>1, <4>1 DEF Limit, Recent
    <3> QED
      BY <1>1, <1>4, <3>1, FS_Subset, FS_CardinalityType
  <2>2. CASE ~(t <= now /\ now < t + RestartWindow)
    <3>1. Span(t)' = Span(t)
      BY <1>2, <1>5, <2>2 DEF Span
    <3> QED
      BY <3>1 DEF Limit
  <2> QED
    BY <2>1, <2>2
<1> QED
  BY <1>1, <1>2, <1>4, <1>6, <1>7, <1>8, <1>9 DEF Limit

\* A step of the clock, and a check that gives the crash loop up, forget only what no
\* open span contains.
LEMMA OlderLimit ==
    ASSUME Limit, now' \in 0..MaxTime, now <= now', log' = log,
           times' = times \/ (times' = Recent /\ now' = now)
    PROVE  Limit'
<1>1. /\ now \in 0..MaxTime /\ log \in Seq(0..MaxTime) /\ times \subseteq 1..Len(log)
      /\ MaxTime \in Nat /\ RestartWindow \in Nat \ {0} /\ Len(log) \in Nat
      /\ MaxRestarts \in Nat
  BY SupervisorAssumption DEF Limit
<1>2. times' \subseteq times
  BY DEF Recent
<1>3. Cardinality(times') <= MaxRestarts
  <2>1. IsFiniteSet(times)
    <3>1. IsFiniteSet(1..Len(log))
      BY <1>1, FS_Interval
    <3> QED
      BY <1>1, <3>1, FS_Subset
  <2>2. /\ Cardinality(times) \in Nat /\ Cardinality(times') \in Nat
        /\ Cardinality(times') <= Cardinality(times)
    BY <1>2, <2>1, FS_Subset, FS_CardinalityType
  <2> QED
    BY <1>1, <2>2 DEF Limit
<1>4. ASSUME NEW i \in 1..Len(log)
      PROVE  log[i] <= now' /\ (i \in times' \/ log[i] + RestartWindow <= now')
  <2>1. log[i] \in 0..MaxTime /\ log[i] <= now
    BY <1>1 DEF Limit
  <2>2. i \in times \/ log[i] + RestartWindow <= now
    BY DEF Limit
  <2>3. CASE times' = times
    BY <1>1, <2>1, <2>2, <2>3
  <2>4. CASE times' = Recent /\ now' = now
    BY <1>1, <2>1, <2>2, <2>4 DEF Recent
  <2> QED
    BY <2>3, <2>4
<1>5. \A t \in 0..MaxTime : Span(t)' = Span(t)
  BY DEF Span
<1> QED
  BY <1>1, <1>2, <1>3, <1>4, <1>5 DEF Limit

\* No other step than Decide and Tick sees restart_times or the clock.
Timeless == times' = times /\ now' = now /\ log' = log

LEMMA TimelessSteps == [Next]_vars => Timeless \/ Decide \/ Tick
<1> SUFFICES ASSUME [Next]_vars, ~Decide, ~Tick PROVE Timeless
  OBVIOUS
<1> USE DEF Timeless
<1>1. CASE CleanUp \/ StartBackend \/ Receive
  BY <1>1 DEF CleanUp, StartBackend, Receive
<1>2. CASE StartupTimeout \/ HostLost \/ BackendEnded
  BY <1>2 DEF StartupTimeout, HostLost, BackendEnded
<1>3. CASE DelayEnds \/ SendStop \/ WaitEnds
  BY <1>3 DEF DelayEnds, SendStop, WaitEnds
<1>4. CASE ForceShutdown \/ Leave \/ Signal \/ Killed
  BY <1>4 DEF ForceShutdown, Leave, Signal, Killed
<1>5. CASE ReadStop \/ ReadEof \/ HostStops \/ HostDies
  BY <1>5 DEF ReadStop, ReadEof, HostStops, HostDies, superv
<1>6. CASE Boot \/ Bind \/ ReadIntent \/ WriteIntent
  BY <1>6 DEF Boot, Bind, ReadIntent, WriteIntent, Quiet, superv
<1>7. CASE AnnounceIntent \/ RemoveIntent \/ RetractIntent
  BY <1>7 DEF AnnounceIntent, RemoveIntent, RetractIntent, Quiet, superv
<1>8. CASE RequestRestart \/ RequestStop \/ ReceiveStop
  BY <1>8 DEF RequestRestart, RequestStop, ReceiveStop, Quiet, superv
<1>9. CASE Aborted \/ Exit \/ Crash
  BY <1>9 DEF Aborted, Exit, Crash, Quiet, superv
<1>10. CASE UNCHANGED vars
  BY <1>10 DEF vars, superv
<1> QED
  BY <1>1, <1>2, <1>3, <1>4, <1>5, <1>6, <1>7, <1>8, <1>9, <1>10
     DEF Next, Main, Backend, AtRest

LEMMA LimitStep == Limit /\ [Next]_vars => Limit'
<1> SUFFICES ASSUME Limit, [Next]_vars PROVE Limit'
  OBVIOUS
<1>1. now \in 0..MaxTime /\ MaxTime \in Nat
  BY SupervisorAssumption DEF Limit
<1>2. CASE Timeless
  BY <1>1, <1>2, OlderLimit DEF Timeless, Limit, Span
<1>3. CASE Tick
  <2>1. now' \in 0..MaxTime /\ now <= now' /\ log' = log /\ times' = times
    BY <1>1, <1>3 DEF Tick, superv
  <2> QED
    BY <2>1, OlderLimit
<1>4. CASE Decide
  <2>1. now' = now
    BY <1>4 DEF Decide
  <2>2. \/ times' = times /\ log' = log
        \/ times' = Recent /\ log' = log
        \/ /\ ~(Cardinality(Recent) >= MaxRestarts)
           /\ log' = Append(log, now) /\ times' = Recent \cup {Len(log) + 1}
    BY <1>4 DEF Decide
  <2>3. CASE times' = times /\ log' = log
    BY <2>1, <2>3 DEF Limit, Span
  <2>4. CASE times' = Recent /\ log' = log
    BY <1>1, <2>1, <2>4, OlderLimit
  <2> QED
    BY <2>1, <2>2, <2>3, <2>4, CountedLimit
<1> QED
  BY <1>2, <1>3, <1>4, TimelessSteps
-----------------------------------------------------------------------------
(* The theorems.                                                           *)

\* IInv holds in every state of the supervisor and its backends.
THEOREM Invariant == Spec => []IInv
<1>1. IInv /\ [Next]_vars => IInv'
  BY TypesStep, AttachedStep, InOrderStep, WithdrawnStep, StartedStep, SpentStep DEF IInv
<1> QED
  BY InitIInv, <1>1, PTL DEF Spec

\* A credential that was taken back is consumed by no backend: not by one that is
\* running, not by a later one, and also when the file could not be deleted.
THEOREM TakenBackForGood == Spec => []WithdrawnNeverResumed
<1>1. IInv => WithdrawnNeverResumed
  BY DEF IInv, Withdrawn, WithdrawnNeverResumed
<1> QED
  BY Invariant, <1>1, PTL

\* At most one of the backends that announced command:started consumed a resume file,
\* although a failed removal leaves the file on disk and a crash before the
\* announcement lets the next backend try again.
THEOREM ResumedOnce == Spec => []ResumedByOneServer
<1>1. IInv => ResumedByOneServer
  <2> SUFFICES ASSUME IInv, NEW c \in Credentials
               PROVE  Cardinality(resumed[c] \cap served) <= 1
    BY DEF ResumedByOneServer
  <2>1. \A a, b \in resumed[c] \cap served : a = b
    BY DEF IInv, Spent
  <2>2. CASE resumed[c] \cap served = {}
    BY <2>2, FS_EmptySet
  <2>3. CASE \E a : a \in resumed[c] \cap served
    <3>1. PICK a : resumed[c] \cap served = {a}
      BY <2>1, <2>3
    <3>2. Cardinality({a}) = 1
      BY FS_Singleton
    <3> QED
      BY <3>1, <3>2
  <2> QED
    BY <2>2, <2>3
<1> QED
  BY Invariant, <1>1, PTL

\* A backend that keeps crashing is given up: however the clock and the crashes fall,
\* no span of restart_window sees more than max_restart_attempts restarts after a
\* crash, and a restart that was asked for does not count.
THEOREM CrashLoopEnds == Spec => []CrashLoopBounded
<1>1. Limit => CrashLoopBounded
  <2> SUFFICES ASSUME Limit, NEW t \in 0..MaxTime
               PROVE  Cardinality({i \in DOMAIN log : t <= log[i] /\ log[i] < t + RestartWindow})
                        <= MaxRestarts
    BY DEF CrashLoopBounded
  <2>1. DOMAIN log = 1..Len(log)
    BY DEF Limit
  <2> QED
    BY <2>1 DEF Limit, Span
<1> QED
  BY InitLimit, LimitStep, <1>1, PTL DEF Spec
=============================================================================
