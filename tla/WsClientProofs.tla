--------------------------- MODULE WsClientProofs ---------------------------
(***************************************************************************)
(* Proofs about WsClient: its types; that a call runs at most once, and in *)
(* the login it was made in, and that the page shows what the backend of   *)
(* its connection sent, whatever happens to sockets, backends and logins;  *)
(* and that the connection serves what the page counts, where a component  *)
(* neither mounts in the closing state of a socket nor mounts a topic      *)
(* again whose unsubscription is queued; and that only a refused login     *)
(* ends the session.                                                       *)
(***************************************************************************)
EXTENDS WsClient, FiniteSetTheorems, TLAPS

\* Where the call is: in the queue, on its way in a socket, or run.
IsCall(m) == m[1] = "rpc"
Holds(s) == \E n \in DOMAIN s : IsCall(s[n])
OneCall(s) == \A m, n \in DOMAIN s : IsCall(s[m]) /\ IsCall(s[n]) => m = n
Up(i) == cl.sock[i].up

\* A call that was made is in one place at most.
CallsOnce ==
    /\ OneCall(cl.queue) /\ \A i \in Sockets : OneCall(Up(i))
    /\ Holds(cl.queue) => \A i \in Sockets : ~Holds(Up(i))
    /\ \A i, j \in Sockets : Holds(Up(i)) /\ Holds(Up(j)) => i = j
    /\ cl.call.st = "none" \/ cl.call.ran # <<>> =>
         ~Holds(cl.queue) /\ \A i \in Sockets : ~Holds(Up(i))
    /\ cl.call.st = "none" => cl.call.ran = <<>>

\* A connection that is used, a queued call and a call on its way are of the login they
\* were made in; nothing of it is left on the login page.
OfLogin ==
    /\ page = "public" => cl.public /\ cl.ws = 0 /\ cl.queue = <<>> /\ cl.subs = NoData
    /\ IsOpen(cl) => cl.sock[cl.ws].era = login.era
    /\ Holds(cl.queue) => cl.call.era = login.era
    /\ \A i \in Sockets : Holds(Up(i)) => cl.sock[i].era = cl.call.era
CInv == TypeOK /\ CallsOnce /\ OfLogin /\ CallRunsOnce

\* Where nothing happens while a socket closes, there is only one.
OneSocket ==
    /\ \A i \in Sockets : cl.sock[i].st # "none" <=> i = cl.ws
    /\ ~cl.hung

\* What is shown is counted and of the open connection.
ShownOK ==
    \A t \in Topics : cl.data[t] # 0 =>
        t \in Counted /\ (IsOpen(cl) => cl.data[t] = cl.sock[cl.ws].session)

\* An accepted connection is of the running backend, whether it is the used one or was left
\* behind; what is on its way to the page or from it is of no older one than the used one is.
Fresh ==
    \A i \in Sockets : LET s == cl.sock[i] IN s.st = "open" =>
        /\ s.code = "none" => server.up /\ s.session = server.session
        /\ s.down # <<>> => s.code = "none"
        /\ s.code = "none" /\ (s.up # <<>> \/ s.down # <<>>) /\ IsOpen(cl) =>
             cl.sock[cl.ws].session = s.session

\* What the connection serves once it has handled s: t or not.
LastOf(s, m, o, b) ==
    \/ \E i \in DOMAIN s : s[i] = m /\ \A j \in DOMAIN s : j > i => s[j] # o
    \/ b /\ \A i \in DOMAIN s : s[i] # o
WillServe(s, t, served) ==
    IF t \in Counted THEN LastOf(s, <<"sub", t>>, <<"unsub", t>>, t \in served)
    ELSE LastOf(s, <<"unsub", t>>, <<"sub", t>>, t \notin served)
ServedSoon ==
    /\ IsOpen(cl) => cl.queue = <<>>
    /\ \A n \in DOMAIN cl.queue, t \in Topics :
         /\ cl.queue[n] # <<"sub", t>>
         /\ cl.queue[n] = <<"unsub", t>> => t \notin Counted
    /\ IsOpen(cl) /\ cl.sock[cl.ws].code = "none" =>
         \A t \in Topics : WillServe(Up(cl.ws), t, cl.sock[cl.ws].served)
\* A connection refused for its login, and the answer that it is over, are about the login
\* of the page, which stays refused.
Refused ==
    /\ \A i \in Sockets : cl.sock[i].code = "auth" =>
         cl.sock[i].st # "none" /\ ("linger" \notin scenario => ~login.ok)
    /\ cl.verdict = "over" /\ "slow" \notin scenario => ~login.ok
SInv == CInv /\ Refused /\ Fresh /\ ShownOK /\ ("linger" \notin scenario => OneSocket)
             /\ (scenario \cap {"linger", "rejoin"} = {} => ServedSoon)
-----------------------------------------------------------------------------
(* Sequences.                                                              *)

\* A message written last, a message read first, and one sequence after another.
LEMMA OneAppended ==
  ASSUME NEW s \in Seq(Messages), NEW m \in Messages
  PROVE  /\ Holds(Append(s, m)) <=> Holds(s) \/ IsCall(m)
         /\ OneCall(s) /\ ~(Holds(s) /\ IsCall(m)) => OneCall(Append(s, m))
<1>. DEFINE t == Append(s, m)
            n == Len(s) + 1
<1>1. /\ Len(s) \in Nat /\ DOMAIN s = 1..Len(s) /\ DOMAIN t = 1..n /\ t[n] = m
      /\ \A i \in DOMAIN s : t[i] = s[i]
  OBVIOUS
<1> HIDE DEF t
<1>2. /\ \A i \in DOMAIN t : i \in DOMAIN s \/ i = n
      /\ \A i \in DOMAIN s : i \in DOMAIN t
      /\ n \in DOMAIN t
  BY <1>1
<1> QED
  BY <1>1, <1>2 DEF Holds, OneCall, t

LEMMA OneTaken ==
  ASSUME NEW s \in Seq(Messages), s # <<>>
  PROVE  /\ Holds(s) <=> Holds(Tail(s)) \/ IsCall(Head(s))
         /\ OneCall(s) => OneCall(Tail(s)) /\ ~(Holds(Tail(s)) /\ IsCall(Head(s)))
<1>1. /\ Len(s) \in Nat /\ Len(s) > 0 /\ DOMAIN Tail(s) = 1..(Len(s) - 1) /\ Head(s) = s[1]
      /\ DOMAIN s = 1..Len(s) /\ \A i \in DOMAIN Tail(s) : Tail(s)[i] = s[i + 1]
  OBVIOUS
<1>2. /\ 1 \in DOMAIN s
      /\ \A i \in DOMAIN s : i = 1 \/ (i - 1 \in DOMAIN Tail(s) /\ Tail(s)[i - 1] = s[i])
      /\ \A i \in DOMAIN Tail(s) : i + 1 \in DOMAIN s /\ i + 1 # 1
      /\ \A i, j \in DOMAIN Tail(s) : i + 1 = j + 1 => i = j
  BY <1>1
<1>3. Holds(s) <=> Holds(Tail(s)) \/ IsCall(Head(s))
  BY <1>1, <1>2 DEF Holds
<1>4. OneCall(s) => OneCall(Tail(s)) /\ ~(Holds(Tail(s)) /\ IsCall(Head(s)))
  BY <1>1, <1>2 DEF Holds, OneCall
<1> QED
  BY <1>3, <1>4

LEMMA Joined ==
  ASSUME NEW s \in Seq(Messages), NEW t \in Seq(Messages)
  PROVE  /\ s \o t \in Seq(Messages)
         /\ \A i \in DOMAIN s : i \in DOMAIN (s \o t) /\ (s \o t)[i] = s[i]
         /\ \A i \in DOMAIN t : Len(s) + i \in DOMAIN (s \o t) /\ (s \o t)[Len(s) + i] = t[i]
         /\ \A i \in DOMAIN (s \o t) :
              i \in DOMAIN s \/ (i - Len(s) \in DOMAIN t /\ i > Len(s))
  OBVIOUS

LEMMA OneJoined ==
  ASSUME NEW s \in Seq(Messages), NEW t \in Seq(Messages)
  PROVE  /\ Holds(s \o t) <=> Holds(s) \/ Holds(t)
         /\ OneCall(s) /\ OneCall(t) /\ ~(Holds(s) /\ Holds(t)) => OneCall(s \o t)
<1>. DEFINE u == s \o t
<1>1. /\ \A i \in DOMAIN s : i \in DOMAIN u /\ u[i] = s[i]
      /\ \A i \in DOMAIN t : Len(s) + i \in DOMAIN u /\ u[Len(s) + i] = t[i]
      /\ \A i \in DOMAIN u : i \in DOMAIN s \/ (i - Len(s) \in DOMAIN t /\ i > Len(s))
  BY Joined
<1>2. /\ Len(s) \in Nat /\ DOMAIN u \subseteq Nat
      /\ \A i \in Nat : Len(s) + (i - Len(s)) = i
  OBVIOUS
<1> HIDE DEF u
<1>3. \A i \in DOMAIN u : \/ i \in DOMAIN s /\ u[i] = s[i]
                          \/ \E k \in DOMAIN t : i = Len(s) + k /\ u[i] = t[k]
  <2> SUFFICES ASSUME NEW i \in DOMAIN u, i \notin DOMAIN s
               PROVE  \E k \in DOMAIN t : i = Len(s) + k /\ u[i] = t[k]
    BY <1>1
  <2>1. i - Len(s) \in DOMAIN t /\ Len(s) + (i - Len(s)) = i
    BY <1>1, <1>2
  <2> QED
    BY <1>1, <2>1
<1> QED
  BY ZenonT(40), <1>1, <1>3 DEF Holds, OneCall, u

-----------------------------------------------------------------------------
(* The methods of the manager, as functions of its state.                  *)

\* SetToSeq lists a finite set.
LEMMA Listed ==
  ASSUME NEW S, IsFiniteSet(S)
  PROVE  /\ SetToSeq(S) \in Seq(S)
         /\ \A x \in S : \E n \in DOMAIN SetToSeq(S) : SetToSeq(S)[n] = x
<1>. DEFINE n == Cardinality(S)
            f == SetToSeq(S)
<1>1. n \in Nat /\ ExistsBijection(1..n, S)
  BY FS_CardinalityType
<1>2. \E g \in [1..n -> S] : IsInjective(g)
  BY <1>1 DEF ExistsBijection, Bijection, Injection
<1>3. f \in [1..n -> S] /\ IsInjective(f)
  BY <1>2 DEF SetToSeq
<1>4. Cardinality(1..n) = n
  BY <1>1, FS_Interval
<1> HIDE DEF f, n
<1>5. f \in Surjection(1..n, S)
  BY <1>3, <1>4, FS_Injection DEF Injection, n
<1>6. f \in Seq(S)
  BY <1>1, <1>3
<1>7. \A x \in S : \E i \in 1..n : f[i] = x
  BY <1>5 DEF Surjection
<1> QED
  BY <1>3, <1>6, <1>7 DEF f

\* What onopen sends: every counted topic, then the queue.
SubsOf(c) == {<<"sub", t>> : t \in {u \in Topics : c.subs[u] > 0}}

LEMMA Subscriptions ==
  ASSUME NEW c \in Clients
  PROVE  /\ SetToSeq(SubsOf(c)) \in Seq(Messages)
         /\ \A n \in DOMAIN SetToSeq(SubsOf(c)) : SetToSeq(SubsOf(c))[n] \in SubsOf(c)
         /\ \A t \in Topics : c.subs[t] > 0 =>
              \E n \in DOMAIN SetToSeq(SubsOf(c)) : SetToSeq(SubsOf(c))[n] = <<"sub", t>>
         /\ ~Holds(SetToSeq(SubsOf(c)))
<1>. DEFINE T == {u \in Topics : c.subs[u] > 0}
            f == [t \in T |-> <<"sub", t>>]
            s == SetToSeq(SubsOf(c))
<1>1. IsFiniteSet(T)
  BY FS_Subset, ConstantsAssumption
<1>2. f \in Surjection(T, SubsOf(c))
  BY DEF Surjection, SubsOf
<1>3. IsFiniteSet(SubsOf(c))
  BY <1>1, <1>2, FS_Surjection
<1>4. s \in Seq(SubsOf(c)) /\ \A x \in SubsOf(c) : \E n \in DOMAIN s : s[n] = x
  BY <1>3, Listed
<1>5. SubsOf(c) \subseteq Messages /\ \A m \in SubsOf(c) : ~IsCall(m)
  BY DEF SubsOf, Messages, IsCall
<1> HIDE DEF s
<1>6. s \in Seq(Messages) /\ \A n \in DOMAIN s : s[n] \in SubsOf(c)
  BY <1>4, <1>5
<1>7. \A t \in Topics : c.subs[t] > 0 => <<"sub", t>> \in SubsOf(c)
  BY DEF SubsOf
<1> QED
  BY <1>4, <1>5, <1>6, <1>7 DEF Holds, s

LEMMA Outgoes ==
  ASSUME NEW c \in Clients
  PROVE  /\ Outgoing(c) \in Seq(Messages)
         /\ Holds(Outgoing(c)) <=> Holds(c.queue)
         /\ OneCall(c.queue) => OneCall(Outgoing(c))
<1>1. c.queue \in Seq(Messages)
  BY DEF Clients
<1>2. Outgoing(c) = SetToSeq(SubsOf(c)) \o c.queue
  BY DEF Outgoing, SubsOf
<1>3. OneCall(SetToSeq(SubsOf(c)))
  BY Subscriptions DEF OneCall, Holds
<1> QED
  BY <1>1, <1>2, <1>3, Subscriptions, OneJoined, Joined

LEMMA NothingOutgoing ==
  ASSUME NEW c \in Clients, c.subs = NoData, c.queue = <<>>
  PROVE  Outgoing(c) = <<>>
<1>. DEFINE s == SetToSeq(SubsOf(c))
<1>1. SubsOf(c) = {}
  BY DEF SubsOf, NoData
<1>2. s \in Seq(Messages) /\ DOMAIN s = {}
  BY <1>1, Subscriptions
<1>3. Outgoing(c) = s \o c.queue
  BY DEF Outgoing, SubsOf
<1> HIDE DEF s
<1>4. s = <<>>
  BY <1>2
<1> QED
  BY <1>3, <1>4

-----------------------------------------------------------------------------
(* Types.                                                                  *)

\* The types of a client, and what it counts: timers and calls that wait for a probe.
Counts(c) == (c.held => c.retries > 0) /\ (c.verdict # "none" => c.probing > 0)
Sound(c) == c \in Clients /\ Counts(c)

LEMMA Fields ==
  ASSUME NEW c, Sound(c)
  PROVE  /\ c.ws \in 0..MaxSockets /\ c.sock \in [Sockets -> SocketStates]
         /\ c.state \in {"connecting", "open", "closed", "reconnecting"}
         /\ c.subs \in [Topics -> 0..2] /\ c.data \in [Topics -> 0..MaxSessions]
         /\ c.queue \in Seq(Messages) /\ c.attempts \in 0..MaxRetries /\ c.retries \in Nat
         /\ c.held \in BOOLEAN /\ c.watchdog \in 0..MaxSockets /\ c.probing \in Nat
         /\ c.verdict \in {"none", "alive", "over", "unknown"} /\ c.probeTimer \in BOOLEAN
         /\ c.public \in BOOLEAN /\ c.hung \in BOOLEAN /\ c.call \in Calls
         /\ Counts(c)
  BY DEF Clients, Sound

LEMMA Constants ==
  /\ 0 \in Nat /\ 0 \in 0..MaxSockets /\ 0 \in 0..MaxRetries /\ 0 \in 0..MaxSessions
  /\ NoData \in [Topics -> 0..MaxSessions] /\ NoData \in [Topics -> 0..2]
  /\ <<>> \in Seq(Messages) /\ NoSocket \in SocketStates
  BY ConstantsAssumption DEF NoData, NoSocket, SocketStates, Sockets, Messages

LEMMA ClearSound == ASSUME NEW c, Sound(c) PROVE Sound(ClearRetry(c))
<1>. DEFINE r == IF c.held THEN c.retries - 1 ELSE c.retries
<1>0. c.held \in BOOLEAN /\ c.retries \in Nat /\ (c.held => c.retries > 0)
  BY Fields DEF Counts
<1>1. r \in Nat
  BY <1>0
<1>2. ClearRetry(c) = [c EXCEPT !.retries = r, !.held = FALSE]
  BY DEF ClearRetry
<1> HIDE DEF r
<1>3. ClearRetry(c) \in Clients
  BY <1>1, <1>2 DEF Clients, Sound
<1>4. /\ ClearRetry(c).held = FALSE /\ ClearRetry(c).verdict = c.verdict
      /\ ClearRetry(c).probing = c.probing
  BY <1>2 DEF Sound, Clients
<1> QED
  BY <1>3, <1>4 DEF Sound, Counts

\* What an update of the named fields keeps.
LEMMA Updates ==
  ASSUME NEW c, Sound(c)
  PROVE  /\ \A s \in [Sockets -> SocketStates] : Sound([c EXCEPT !.sock = s])
         /\ \A q \in Seq(Messages) : Sound([c EXCEPT !.queue = q])
         /\ \A k \in Calls : Sound([c EXCEPT !.call = k])
         /\ \A n \in [Topics -> 0..2] : Sound([c EXCEPT !.subs = n])
         /\ \A d \in [Topics -> 0..MaxSessions] : Sound([c EXCEPT !.data = d])
         /\ \A w \in 0..MaxSockets : Sound([c EXCEPT !.ws = w])
         /\ \A w \in 0..MaxSockets : Sound([c EXCEPT !.watchdog = w])
         /\ \A b \in BOOLEAN : /\ Sound([c EXCEPT !.public = b]) /\ Sound([c EXCEPT !.hung = b])
                               /\ Sound([c EXCEPT !.probeTimer = b])
         /\ \A s \in {"connecting", "open", "closed", "reconnecting"} : Sound([c EXCEPT !.state = s])
         /\ \A n \in 0..MaxRetries : Sound([c EXCEPT !.attempts = n])
<1>1. \A s \in [Sockets -> SocketStates] : Sound([c EXCEPT !.sock = s])
  BY DEF Sound, Counts, Clients
<1>2. \A q \in Seq(Messages) : Sound([c EXCEPT !.queue = q])
  BY DEF Sound, Counts, Clients
<1>3. \A k \in Calls : Sound([c EXCEPT !.call = k])
  BY DEF Sound, Counts, Clients
<1>4. \A n \in [Topics -> 0..2] : Sound([c EXCEPT !.subs = n])
  BY DEF Sound, Counts, Clients
<1>5. \A d \in [Topics -> 0..MaxSessions] : Sound([c EXCEPT !.data = d])
  BY DEF Sound, Counts, Clients
<1>6. \A w \in 0..MaxSockets : Sound([c EXCEPT !.ws = w])
  BY DEF Sound, Counts, Clients
<1>7. \A w \in 0..MaxSockets : Sound([c EXCEPT !.watchdog = w])
  BY DEF Sound, Counts, Clients
<1>8. \A b \in BOOLEAN : Sound([c EXCEPT !.public = b])
  BY DEF Sound, Counts, Clients
<1>9. \A b \in BOOLEAN : Sound([c EXCEPT !.hung = b])
  BY DEF Sound, Counts, Clients
<1>10. \A b \in BOOLEAN : Sound([c EXCEPT !.probeTimer = b])
  BY DEF Sound, Counts, Clients
<1>11. \A s \in {"connecting", "open", "closed", "reconnecting"} : Sound([c EXCEPT !.state = s])
  BY DEF Sound, Counts, Clients
<1>12. \A n \in 0..MaxRetries : Sound([c EXCEPT !.attempts = n])
  BY DEF Sound, Counts, Clients
<1> QED
  BY <1>1, <1>2, <1>3, <1>4, <1>5, <1>6, <1>7, <1>8, <1>9, <1>10, <1>11, <1>12

\* The methods return a sound client.
LEMMA ScheduleSound == ASSUME NEW c, Sound(c) PROVE Sound(Schedule(c))
<1>. DEFINE r == c.retries + 1
            a == c.attempts + 1
<1>1. CASE c.attempts >= MaxRetries
  BY <1>1 DEF Schedule
<1>2. CASE ~(c.attempts >= MaxRetries)
  <2>0. c.retries \in Nat /\ c.attempts \in 0..MaxRetries
    BY Fields
  <2>1. r \in Nat /\ r > 0 /\ a \in 0..MaxRetries
    BY <1>2, <2>0, ConstantsAssumption
  <2>2. Schedule(c) = [c EXCEPT !.attempts = a, !.retries = r, !.held = TRUE]
    BY <1>2 DEF Schedule
  <2> HIDE DEF r, a
  <2>3. Schedule(c) \in Clients
    BY <2>1, <2>2 DEF Clients, Sound
  <2>4. /\ Schedule(c).retries = r /\ Schedule(c).verdict = c.verdict
        /\ Schedule(c).probing = c.probing
    BY <2>2 DEF Sound, Clients
  <2> QED
    BY <2>1, <2>3, <2>4 DEF Sound, Counts
<1> QED
  BY <1>1, <1>2

\* One socket changes.
LEMMA SocketSound ==
  ASSUME NEW c, Sound(c), NEW i \in Sockets, NEW s \in SocketStates
  PROVE  Sound([c EXCEPT !.sock[i] = s]) /\ [c.sock EXCEPT ![i] = s] \in [Sockets -> SocketStates]
<1>. DEFINE q == [c.sock EXCEPT ![i] = s]
<1>1. q \in [Sockets -> SocketStates]
  BY Fields
<1>2. [c EXCEPT !.sock[i] = s] = [c EXCEPT !.sock = q]
  BY DEF Sound, Clients
<1> HIDE DEF q
<1>3. Sound([c EXCEPT !.sock = q])
  BY <1>1, Updates
<1> QED
  BY <1>1, <1>2, <1>3 DEF q

LEMMA ConnectSound == ASSUME NEW c, Sound(c) PROVE Sound(Connect(c))
<1>. DEFINE free == {i \in Sockets : c.sock[i].st = "none"}
            i == CHOOSE i \in free : TRUE
            s == [c.sock[i] EXCEPT !.st = "connecting"]
            d == ClearRetry(c)
            st == IF c.attempts > 0 THEN "reconnecting" ELSE "connecting"
<1>1. CASE c.public
  <2>1. Sound(d)
    BY ClearSound
  <2>2. Connect(c) = [d EXCEPT !.attempts = 0, !.state = "closed"]
    BY <1>1 DEF Connect
  <2> HIDE DEF d
  <2>3. Sound([d EXCEPT !.attempts = 0])
    BY <2>1, Updates, Constants
  <2> QED
    BY <2>2, <2>3, Updates
<1>2. CASE ~c.public /\ (IsLive(c) \/ free = {})
  BY <1>2 DEF Connect
<1>3. CASE ~c.public /\ ~(IsLive(c) \/ free = {})
  <2>1. i \in Sockets /\ i \in 0..MaxSockets
    <3>1. i \in free
      BY <1>3
    <3> QED
      BY <3>1, ConstantsAssumption DEF Sockets
  <2>2. c.sock[i] \in SocketStates
    BY <2>1, Fields DEF Sound
  <2>3. s \in SocketStates
    BY <2>2 DEF SocketStates
  <2>4. Connect(c) = [c EXCEPT !.state = st, !.ws = i, !.sock[i].st = "connecting", !.watchdog = i]
    BY <1>3 DEF Connect
  <2>5. st \in {"connecting", "open", "closed", "reconnecting"}
    OBVIOUS
  <2> HIDE DEF st, i
  <2>6. Connect(c) = [[[[c EXCEPT !.state = st] EXCEPT !.ws = i] EXCEPT !.sock[i] = s] EXCEPT !.watchdog = i]
    BY <2>1, <2>2, <2>4, Fields DEF Sound, Clients
  <2> HIDE DEF s
  <2>7. Sound([c EXCEPT !.state = st])
    BY <2>5, Updates
  <2>8. Sound([[c EXCEPT !.state = st] EXCEPT !.ws = i])
    BY <2>1, <2>7, Updates
  <2>9. Sound([[[c EXCEPT !.state = st] EXCEPT !.ws = i] EXCEPT !.sock[i] = s])
    BY <2>1, <2>3, <2>8, SocketSound
  <2>. DEFINE e == [[[c EXCEPT !.state = st] EXCEPT !.ws = i] EXCEPT !.sock[i] = s]
  <2>10. Sound(e) /\ Connect(c) = [e EXCEPT !.watchdog = i]
    BY <2>6, <2>9
  <2> HIDE DEF e
  <2>11. Sound([e EXCEPT !.watchdog = i])
    BY <2>1, <2>10, Updates
  <2> QED
    BY <2>10, <2>11
<1> QED
  BY <1>1, <1>2, <1>3

LEMMA SendSound == ASSUME NEW c, Sound(c), NEW m \in Messages PROVE Sound(Send(c, m))
<1>1. CASE IsOpen(c)
  <2>. DEFINE s == [c.sock[c.ws] EXCEPT !.up = Append(@, m)]
  <2>1. c.ws \in Sockets
    <3>1. c.ws \in 0..MaxSockets /\ c.ws # 0
      BY <1>1, Fields DEF IsOpen
    <3> QED
      BY <3>1, ConstantsAssumption DEF Sockets
  <2>2. c.sock[c.ws] \in SocketStates
    BY <2>1, Fields DEF Sound
  <2>3. s \in SocketStates
    <3>1. c.sock[c.ws].up \in Seq(Messages)
      BY <2>2 DEF SocketStates
    <3>2. Append(c.sock[c.ws].up, m) \in Seq(Messages)
      BY <3>1
    <3> QED
      BY <2>2, <3>2 DEF SocketStates
  <2>4. Send(c, m) = [c EXCEPT !.sock[c.ws] = s]
    BY <1>1, <2>1, <2>2, Fields DEF Sound, Send
  <2> QED
    BY <2>1, <2>3, <2>4, SocketSound
<1>2. CASE ~IsOpen(c)
  <2>0. c.queue \in Seq(Messages)
    BY Fields
  <2>1. Append(c.queue, m) \in Seq(Messages)
    BY <2>0
  <2>2. Sound([c EXCEPT !.queue = Append(@, m)])
    BY <2>1, Updates
  <2> QED
    BY <1>2, <2>2, ConnectSound DEF Send
<1> QED
  BY <1>1, <1>2

LEMMA DropSound == ASSUME NEW c, Sound(c) PROVE Sound(DropCall(c))
<1>. DEFINE k == [c.call EXCEPT !.st = "dropped"]
<1>1. k \in Calls
  BY Fields DEF Sound, Calls
<1>2. DropCall(c) = IF c.call.st = "pending" THEN [c EXCEPT !.call = k] ELSE c
  BY DEF DropCall
<1> HIDE DEF k
<1>3. Sound([c EXCEPT !.call = k])
  BY <1>1, Updates
<1> QED
  BY <1>2, <1>3

LEMMA EndSound == ASSUME NEW c, Sound(c) PROVE Sound(EndSession(c))
<1>. DEFINE d == DropCall(ClearRetry(c))
<1>1. Sound(d)
  BY ClearSound, DropSound
<1>2. EndSession(c) = [d EXCEPT !.public = TRUE, !.probeTimer = FALSE, !.state = "closed",
                                !.attempts = 0, !.data = NoData, !.queue = <<>>]
  BY DEF EndSession
<1> HIDE DEF d
<1>3. EndSession(c) \in Clients
  BY ZenonT(40), <1>1, <1>2, Constants DEF Sound, Clients
<1>4. Counts(EndSession(c))
  BY <1>1, <1>2 DEF Sound, Counts, Clients
<1> QED
  BY <1>3, <1>4 DEF Sound

LEMMA DisconnectSound == ASSUME NEW c, Sound(c) PROVE Sound(Disconnect(c))
<1>. DEFINE d == DropCall(ClearRetry(c))
            e == [d EXCEPT !.public = TRUE, !.watchdog = 0, !.probeTimer = FALSE, !.attempts = 0,
                           !.ws = 0, !.data = NoData, !.subs = NoData, !.queue = <<>>,
                           !.state = "closed"]
<1>1. Sound(d)
  BY ClearSound, DropSound
<1>2. Disconnect(c) = IF c.ws = 0 THEN e ELSE [e EXCEPT !.sock[c.ws] = NoSocket]
  BY DEF Disconnect
<1> HIDE DEF d
<1>3. e \in Clients
  BY <1>1, Constants DEF Sound, Clients
<1>4. Counts(e)
  BY <1>1 DEF Sound, Counts, Clients
<1>5. c.ws # 0 => c.ws \in Sockets
  <2>1. c.ws \in 0..MaxSockets
    BY Fields
  <2> QED
    BY <2>1, ConstantsAssumption DEF Sockets
<1> HIDE DEF e
<1> QED
  BY <1>2, <1>3, <1>4, <1>5, Constants, SocketSound DEF Sound

-----------------------------------------------------------------------------
(* What the methods change, of the parts the invariants speak of.          *)

KeptRest(d, c) ==
    /\ d.ws = c.ws /\ d.sock = c.sock /\ d.public = c.public /\ d.hung = c.hung
    /\ d.queue = c.queue /\ d.call = c.call /\ d.data = c.data /\ d.subs = c.subs
Kept(d, c) == KeptRest(d, c) /\ d.verdict = c.verdict

\* A socket is being opened, where there was no live one.
Opening(d, c) ==
    /\ ~c.public /\ ~IsLive(c)
    /\ \E i \in Sockets :
         /\ c.sock[i].st = "none" /\ d.ws = i
         /\ d.sock = [c.sock EXCEPT ![i] = [c.sock[i] EXCEPT !.st = "connecting"]]
    /\ d.public = c.public /\ d.hung = c.hung /\ d.verdict = c.verdict
    /\ d.queue = c.queue /\ d.call = c.call /\ d.data = c.data /\ d.subs = c.subs

\* The call is as it was, but for being given up.
SameCall(k, l) == k.ran = l.ran /\ k.era = l.era /\ (k.st = "none" <=> l.st = "none")

LEMMA ClearKeeps == ASSUME NEW c, Sound(c) PROVE Kept(ClearRetry(c), c)
  BY DEF ClearRetry, Kept, KeptRest, Sound, Clients

LEMMA ScheduleKeeps == ASSUME NEW c, Sound(c) PROVE Kept(Schedule(c), c)
  BY DEF Schedule, Kept, KeptRest, Sound, Clients

LEMMA Connects ==
  ASSUME NEW c, Sound(c)
  PROVE  /\ Kept(Connect(c), c) \/ Opening(Connect(c), c)
         /\ Kept(Connect(c), c) => c.public \/ IsLive(c) \/ \A i \in Sockets : c.sock[i].st # "none"
<1>. DEFINE free == {i \in Sockets : c.sock[i].st = "none"}
            i == CHOOSE i \in free : TRUE
<1>1. CASE c.public
  <2>1. Connect(c) = [ClearRetry(c) EXCEPT !.attempts = 0, !.state = "closed"]
    BY <1>1 DEF Connect
  <2>2. Sound(ClearRetry(c)) /\ Kept(ClearRetry(c), c)
    BY ClearKeeps, ClearSound
  <2>. DEFINE d == ClearRetry(c)
  <2> HIDE DEF d
  <2>3. Kept(Connect(c), d)
    BY <2>1, <2>2 DEF Kept, KeptRest, Sound, Clients, d
  <2> QED
    BY <1>1, <2>2, <2>3 DEF Kept, KeptRest, d
<1>2. CASE ~c.public /\ (IsLive(c) \/ free = {})
  <2>1. Connect(c) = c
    BY <1>2 DEF Connect
  <2> QED
    BY <1>2, <2>1 DEF Kept, KeptRest
<1>3. CASE ~c.public /\ ~(IsLive(c) \/ free = {})
  <2>1. Connect(c) = [c EXCEPT !.state = IF c.attempts > 0 THEN "reconnecting" ELSE "connecting",
                               !.ws = i, !.sock[i].st = "connecting", !.watchdog = i]
    BY <1>3 DEF Connect
  <2>2. i \in Sockets /\ c.sock[i].st = "none"
    BY <1>3
  <2>3. c.sock \in [Sockets -> SocketStates]
    BY Fields
  <2> HIDE DEF i
  <2>4. Opening(Connect(c), c)
    BY <1>3, <2>1, <2>2, <2>3 DEF Opening, Sound, Clients
  <2>5. Connect(c).ws # c.ws \/ Connect(c).sock # c.sock
    <3>1. PICK j \in Sockets :
             /\ c.sock[j].st = "none"
             /\ Connect(c).sock = [c.sock EXCEPT ![j] = [c.sock[j] EXCEPT !.st = "connecting"]]
      BY <2>4 DEF Opening
    <3>2. Connect(c).sock[j].st = "connecting"
      BY <2>3, <3>1 DEF SocketStates
    <3> QED
      BY <3>1, <3>2
  <2> QED
    BY <2>4, <2>5 DEF Kept, KeptRest
<1> QED
  BY <1>1, <1>2, <1>3

LEMMA Drops ==
  ASSUME NEW c, Sound(c)
  PROVE  /\ SameCall(DropCall(c).call, c.call)
         /\ \A k : Kept([DropCall(c) EXCEPT !.call = k], [c EXCEPT !.call = k])
<1>1. CASE c.call.st = "pending"
  <2>1. DropCall(c) = [c EXCEPT !.call = [c.call EXCEPT !.st = "dropped"]]
    BY <1>1 DEF DropCall, Sound, Clients
  <2>2. c.call \in Calls
    BY Fields
  <2> QED
    BY <1>1, <2>1, <2>2 DEF SameCall, Kept, KeptRest, Calls, Sound, Clients
<1>2. CASE c.call.st # "pending"
  BY <1>2 DEF DropCall, SameCall, Kept, KeptRest
<1> QED
  BY <1>1, <1>2

LEMMA Ends ==
  ASSUME NEW c, Sound(c)
  PROVE  LET d == EndSession(c) IN
         /\ d.ws = c.ws /\ d.sock = c.sock /\ d.public /\ d.hung = c.hung /\ d.queue = <<>>
         /\ SameCall(d.call, c.call) /\ d.data = NoData /\ d.subs = c.subs
         /\ d.verdict = c.verdict
<1>. DEFINE e == ClearRetry(c)
            d == DropCall(e)
<1>1. Sound(e) /\ Kept(e, c)
  BY ClearKeeps, ClearSound
<1> HIDE DEF e
<1>2. Sound(d) /\ SameCall(d.call, e.call) /\ Kept([d EXCEPT !.call = 0], [e EXCEPT !.call = 0])
  BY <1>1, DropSound, Drops
<1>3. EndSession(c) = [d EXCEPT !.public = TRUE, !.probeTimer = FALSE, !.state = "closed",
                                !.attempts = 0, !.data = NoData, !.queue = <<>>]
  BY DEF EndSession, e
<1> HIDE DEF d
<1>4. d.verdict = e.verdict /\ d.ws = e.ws /\ d.sock = e.sock /\ d.hung = e.hung /\ d.subs = e.subs
  BY <1>1, <1>2 DEF Sound, Clients, Kept, KeptRest
<1>5. /\ EndSession(c).ws = d.ws /\ EndSession(c).sock = d.sock /\ EndSession(c).public
      /\ EndSession(c).hung = d.hung /\ EndSession(c).queue = <<>> /\ EndSession(c).call = d.call
      /\ EndSession(c).data = NoData /\ EndSession(c).subs = d.subs
      /\ EndSession(c).verdict = d.verdict
  BY <1>2, <1>3 DEF Sound, Clients
<1> QED
  BY <1>1, <1>2, <1>4, <1>5 DEF Kept, KeptRest

LEMMA Disconnects ==
  ASSUME NEW c, Sound(c)
  PROVE  LET d == Disconnect(c) IN
         /\ d.verdict = c.verdict /\ d.ws = 0 /\ d.public /\ d.hung = c.hung /\ d.queue = <<>>
         /\ SameCall(d.call, c.call) /\ d.data = NoData /\ d.subs = NoData
         /\ d.sock = IF c.ws = 0 THEN c.sock ELSE [c.sock EXCEPT ![c.ws] = NoSocket]
<1>. DEFINE e == ClearRetry(c)
            d == DropCall(e)
            f == [d EXCEPT !.public = TRUE, !.watchdog = 0, !.probeTimer = FALSE, !.attempts = 0,
                           !.ws = 0, !.data = NoData, !.subs = NoData, !.queue = <<>>,
                           !.state = "closed"]
<1>1. Sound(e) /\ Kept(e, c)
  BY ClearKeeps, ClearSound
<1>2. Disconnect(c) = IF c.ws = 0 THEN f ELSE [f EXCEPT !.sock[c.ws] = NoSocket]
  BY DEF Disconnect
<1> HIDE DEF e
<1>3. Sound(d) /\ SameCall(d.call, e.call) /\ Kept([d EXCEPT !.call = 0], [e EXCEPT !.call = 0])
  BY <1>1, DropSound, Drops
<1> HIDE DEF d
<1>4. d.verdict = e.verdict /\ d.ws = e.ws /\ d.sock = e.sock /\ d.hung = e.hung /\ d.subs = e.subs
  BY <1>1, <1>3 DEF Sound, Clients, Kept, KeptRest
<1>5. /\ f.verdict = c.verdict /\ f.ws = 0 /\ f.public /\ f.hung = c.hung /\ f.queue = <<>>
      /\ SameCall(f.call, c.call) /\ f.data = NoData /\ f.subs = NoData
      /\ f.sock = c.sock
  BY <1>1, <1>3, <1>4 DEF Sound, Clients, Kept, KeptRest
<1>6. f \in Clients
  BY <1>3, Constants DEF Sound, Clients
<1> HIDE DEF f
<1>7. CASE c.ws # 0
  <2>1. Disconnect(c) = [f EXCEPT !.sock = [f.sock EXCEPT ![c.ws] = NoSocket]]
    BY <1>2, <1>6, <1>7 DEF Clients
  <2>2. /\ Disconnect(c).verdict = f.verdict /\ Disconnect(c).ws = f.ws /\ Disconnect(c).public = f.public
        /\ Disconnect(c).hung = f.hung /\ Disconnect(c).queue = f.queue
        /\ Disconnect(c).call = f.call /\ Disconnect(c).data = f.data
        /\ Disconnect(c).subs = f.subs /\ Disconnect(c).sock = [f.sock EXCEPT ![c.ws] = NoSocket]
    BY <1>6, <2>1 DEF Clients
  <2> QED
    BY <1>5, <1>7, <2>2
<1> QED
  BY <1>2, <1>5, <1>7

LEMMA Sends ==
  ASSUME NEW c, Sound(c), NEW m \in Messages
  PROVE  LET d == Send(c, m)
             e == [c EXCEPT !.queue = Append(@, m)]
         IN /\ IsOpen(c) =>
                 /\ d.verdict = c.verdict /\ d.ws = c.ws /\ d.public = c.public /\ d.hung = c.hung /\ d.queue = c.queue
                 /\ d.call = c.call /\ d.data = c.data /\ d.subs = c.subs /\ c.ws \in Sockets
                 /\ d.sock = [c.sock EXCEPT ![c.ws] =
                                 [c.sock[c.ws] EXCEPT !.up = Append(c.sock[c.ws].up, m)]]
            /\ ~IsOpen(c) =>
                 /\ Kept(d, e) \/ Opening(d, e)
                 /\ e.verdict = c.verdict /\ e.ws = c.ws /\ e.sock = c.sock /\ e.public = c.public /\ e.hung = c.hung
                 /\ e.queue = Append(c.queue, m) /\ e.call = c.call /\ e.data = c.data
                 /\ e.subs = c.subs
<1>. DEFINE e == [c EXCEPT !.queue = Append(@, m)]
            s == [c.sock EXCEPT ![c.ws] = [c.sock[c.ws] EXCEPT !.up = Append(c.sock[c.ws].up, m)]]
<1>1. CASE IsOpen(c)
  <2>1. Send(c, m) = [c EXCEPT !.sock[c.ws].up = Append(@, m)]
    BY <1>1 DEF Send
  <2>2. c.ws \in Sockets
    <3>1. c.ws \in 0..MaxSockets /\ c.ws # 0
      BY <1>1, Fields DEF IsOpen
    <3> QED
      BY <3>1, ConstantsAssumption DEF Sockets
  <2>3. Send(c, m) = [c EXCEPT !.sock = s]
    BY <2>1, <2>2, Fields DEF Sound, Clients
  <2> HIDE DEF s
  <2>4. /\ Send(c, m).verdict = c.verdict /\ Send(c, m).ws = c.ws /\ Send(c, m).public = c.public /\ Send(c, m).hung = c.hung
        /\ Send(c, m).queue = c.queue /\ Send(c, m).call = c.call /\ Send(c, m).data = c.data
        /\ Send(c, m).subs = c.subs /\ Send(c, m).sock = s
    BY <2>3 DEF Sound, Clients
  <2> QED
    BY <1>1, <2>2, <2>4 DEF s
<1>2. CASE ~IsOpen(c)
  <2>1. c.queue \in Seq(Messages)
    BY Fields
  <2>2. Append(c.queue, m) \in Seq(Messages)
    BY <2>1
  <2>3. Sound(e)
    BY <2>2, Updates
  <2>4. /\ e.verdict = c.verdict /\ e.ws = c.ws /\ e.sock = c.sock /\ e.public = c.public /\ e.hung = c.hung
        /\ e.queue = Append(c.queue, m) /\ e.call = c.call /\ e.data = c.data
        /\ e.subs = c.subs
    BY DEF Sound, Clients
  <2>5. Send(c, m) = Connect(e)
    BY <1>2 DEF Send
  <2> HIDE DEF e
  <2>6. Kept(Send(c, m), e) \/ Opening(Send(c, m), e)
    BY <2>3, <2>5, Connects
  <2> QED
    BY <1>2, <2>4, <2>6 DEF e
<1> QED
  BY <1>1, <1>2

\* What an opened socket is, and what onopen has changed before it sends.
TypesOfRest ==
    /\ page \in {"private", "public"} /\ faults \in 0..MaxFaults
    /\ login \in [era : 1..MaxEras, ok : BOOLEAN]
    /\ server \in [session : 1..MaxSessions, up : BOOLEAN]
    /\ server.up \/ server.session < MaxSessions

LEMMA Types == TypeOK <=> Sound(cl) /\ TypesOfRest
  BY DEF TypeOK, Sound, Counts, TypesOfRest

LEMMA NewSocket ==
  ASSUME TypesOfRest, NEW code \in {"none", "auth", "refused", "lost"}
  PROVE  Connected(code) \in SocketStates
<1>4. server.session \in 0..MaxSessions
  BY ConstantsAssumption DEF TypesOfRest
<1>5. login.era \in 0..MaxEras
  BY ConstantsAssumption DEF TypesOfRest
<1>6. <<>> \in Seq(Messages)
  OBVIOUS
<1>7. <<>> \in Seq({"full", "reply"} \X Topics)
  OBVIOUS
<1> QED
  BY <1>4, <1>5, <1>6, <1>7 DEF Connected, SocketStates

LEMMA OpenedIs ==
  ASSUME NEW c, Sound(c), TypesOfRest, NEW i \in Sockets,
         NEW code \in {"none", "auth", "refused", "lost"}
  PROVE  LET o == Opened(c, i, code) IN
         /\ Sound(o) /\ Connected(code) \in SocketStates
         /\ o.ws = c.ws /\ o.public = c.public /\ o.hung = c.hung /\ o.queue = c.queue
         /\ o.verdict = c.verdict /\ o.call = c.call /\ o.subs = c.subs /\ o.data = NoData
         /\ o.sock = [c.sock EXCEPT ![i] = Connected(code)]
<1>. DEFINE d == ClearRetry(c)
            s == Connected(code)
            o == Opened(c, i, code)
<1>1. Sound(d) /\ Kept(d, c)
  BY ClearKeeps, ClearSound
<1>2. s \in SocketStates
  BY NewSocket
<1>3. o = [d EXCEPT !.sock[i] = s, !.state = "open", !.attempts = 0, !.watchdog = 0,
                    !.probeTimer = FALSE, !.data = NoData]
  BY DEF Opened
<1>. DEFINE q == [d.sock EXCEPT ![i] = s]
<1>4. d.sock \in [Sockets -> SocketStates]
  BY <1>1, Fields
<1> HIDE DEF d
<1>5. q \in [Sockets -> SocketStates]
  BY <1>2, <1>4
<1>6. o = [d EXCEPT !.sock = q, !.state = "open", !.attempts = 0, !.watchdog = 0,
                    !.probeTimer = FALSE, !.data = NoData]
  BY <1>1, <1>3 DEF Sound, Clients
<1> HIDE DEF o, q
<1>7. o \in Clients
  BY <1>1, <1>5, <1>6, Constants DEF Sound, Clients
<1>8. /\ o.ws = d.ws /\ o.public = d.public /\ o.hung = d.hung /\ o.queue = d.queue
      /\ o.call = d.call /\ o.subs = d.subs /\ o.data = NoData /\ o.sock = q
      /\ o.held = d.held /\ o.retries = d.retries /\ o.verdict = d.verdict /\ o.probing = d.probing
  BY <1>1, <1>6 DEF Sound, Clients
<1>9. Counts(o)
  BY <1>1, <1>8 DEF Sound, Counts
<1> QED
  BY <1>1, <1>2, <1>7, <1>8, <1>9 DEF Kept, KeptRest, Sound, o, q

-----------------------------------------------------------------------------
(* What the steps change, and their types.                                 *)

\* onopen of socket i: what was queued goes out where the used socket is open.
OpensTo(i) ==
    \E code \in {"none", "auth", "refused"} :
        LET S == [cl.sock EXCEPT ![i] = Connected(code)]
            live == cl.ws # 0 /\ S[cl.ws].st = "open"
        IN /\ code = "auth" => ~login.ok
           /\ cl'.ws = cl.ws /\ cl'.public = cl.public /\ cl'.subs = cl.subs
           /\ cl'.call = cl.call /\ cl'.data = NoData /\ cl'.verdict = cl.verdict
           /\ live => /\ cl'.queue = <<>> /\ cl'.hung = cl.hung
                      /\ cl'.sock = [S EXCEPT ![cl.ws] =
                                       [S[cl.ws] EXCEPT !.up = S[cl.ws].up \o Outgoing(cl)]]
           /\ ~live => cl'.sock = S /\ cl'.queue = Outgoing(cl)

LEMMA OpensStep ==
  ASSUME TypeOK, NEW i \in Sockets, Opens(i)
  PROVE  TypeOK' /\ OpensTo(i) /\ UNCHANGED <<scenario, page, login, server>>
<1>1. Sound(cl) /\ TypesOfRest
  BY Types
<1>2. PICK code \in {"none", "auth", "refused"} :
        LET o == Opened(cl, i, code) IN
        /\ code = "refused" => faults < MaxFaults
        /\ code = "auth" => ~login.ok
        /\ faults' = IF code = "refused" THEN faults + 1 ELSE faults
        /\ cl' = IF IsOpen(o) THEN [o EXCEPT !.sock[o.ws].up = @ \o Outgoing(cl), !.queue = <<>>]
                 ELSE [o EXCEPT !.queue = Outgoing(cl), !.hung = Outgoing(cl) # <<>>]
  BY DEF Opens
<1>3. UNCHANGED <<scenario, page, login, server>>
  BY DEF Opens
<1>4. faults' \in 0..MaxFaults
  BY <1>1, <1>2, ConstantsAssumption DEF TypesOfRest
<1>5. TypesOfRest'
  BY <1>1, <1>3, <1>4 DEF TypesOfRest
<1>. DEFINE o == Opened(cl, i, code)
            S == [cl.sock EXCEPT ![i] = Connected(code)]
            live == cl.ws # 0 /\ S[cl.ws].st = "open"
            out == Outgoing(cl)
<1>0. code \in {"none", "auth", "refused", "lost"}
  OBVIOUS
<1>6. /\ Sound(o) /\ Connected(code) \in SocketStates
      /\ o.ws = cl.ws /\ o.public = cl.public /\ o.hung = cl.hung /\ o.queue = cl.queue
      /\ o.verdict = cl.verdict /\ o.call = cl.call /\ o.subs = cl.subs /\ o.data = NoData /\ o.sock = S
  BY ZenonT(40), <1>0, <1>1, OpenedIs
<1>7. out \in Seq(Messages)
  BY <1>1, Outgoes DEF Sound
<1>8. IsOpen(o) <=> live
  BY <1>6 DEF IsOpen
<1>9. cl' = IF IsOpen(o) THEN [o EXCEPT !.sock[o.ws].up = @ \o out, !.queue = <<>>]
            ELSE [o EXCEPT !.queue = out, !.hung = out # <<>>]
  BY <1>2
<1> HIDE DEF o, out
<1>10. CASE live
  <2>. DEFINE s == [S[cl.ws] EXCEPT !.up = S[cl.ws].up \o out]
              T == [S EXCEPT ![cl.ws] = s]
  <2>1. cl.ws \in Sockets
    <3>1. cl.ws \in 0..MaxSockets
      BY <1>1, Fields
    <3> QED
      BY <1>10, <3>1, ConstantsAssumption DEF Sockets
  <2>0. cl.sock \in [Sockets -> SocketStates]
    BY <1>1, Fields
  <2>2. S \in [Sockets -> SocketStates] /\ S[cl.ws] \in SocketStates
    BY <1>6, <2>0, <2>1
  <2> HIDE DEF S
  <2>3. S[cl.ws].up \in Seq(Messages)
    BY <2>2 DEF SocketStates
  <2>4. S[cl.ws].up \o out \in Seq(Messages)
    BY <1>7, <2>3, Joined
  <2>5. s \in SocketStates
    BY <2>2, <2>4 DEF SocketStates
  <2>6. T \in [Sockets -> SocketStates]
    BY <2>1, <2>2, <2>5
  <2>7. cl' = [[o EXCEPT !.sock = T] EXCEPT !.queue = <<>>]
    BY <1>6, <1>8, <1>9, <1>10, <2>1, <2>2 DEF Sound, Clients
  <2> HIDE DEF T
  <2>8. Sound([o EXCEPT !.sock = T])
    BY <1>6, <2>6, Updates
  <2>9. Sound(cl')
    BY <2>7, <2>8, Updates, Constants
  <2>10. /\ cl'.ws = o.ws /\ cl'.public = o.public /\ cl'.hung = o.hung /\ cl'.queue = <<>>
         /\ cl'.verdict = o.verdict /\ cl'.call = o.call /\ cl'.subs = o.subs /\ cl'.data = o.data /\ cl'.sock = T
    BY <1>6, <2>7 DEF Sound, Clients
  <2>11. OpensTo(i)
    BY <1>2, <1>6, <1>10, <2>10 DEF OpensTo, S, T, out
  <2>12. TypeOK'
    BY <1>5, <2>9 DEF TypeOK, Sound, Counts, TypesOfRest
  <2> QED
    BY <1>3, <2>11, <2>12
<1>11. CASE ~live
  <2>. DEFINE h == out # <<>>
  <2>1. cl' = [[o EXCEPT !.queue = out] EXCEPT !.hung = h]
    BY <1>8, <1>9, <1>11
  <2>2. h \in BOOLEAN
    OBVIOUS
  <2> HIDE DEF h
  <2>3. Sound([o EXCEPT !.queue = out])
    BY <1>6, <1>7, Updates
  <2>4. Sound(cl')
    BY <2>1, <2>2, <2>3, Updates
  <2>5. /\ cl'.ws = o.ws /\ cl'.public = o.public /\ cl'.queue = out
        /\ cl'.verdict = o.verdict /\ cl'.call = o.call /\ cl'.subs = o.subs /\ cl'.data = o.data /\ cl'.sock = o.sock
    BY <1>6, <2>1 DEF Sound, Clients
  <2>6. OpensTo(i)
    BY <1>2, <1>6, <1>11, <2>5 DEF OpensTo, out
  <2>7. TypeOK'
    BY <1>5, <2>4 DEF TypeOK, Sound, Counts, TypesOfRest
  <2> QED
    BY <1>3, <2>6, <2>7
<1> QED
  BY <1>10, <1>11

\* A socket that is open after a step was open; the backend is the same, or no connection
\* is left of the one before.
Steady(i) ==
    /\ cl'.sock[i].st = "open" =>
        /\ cl.sock[i].st = "open" /\ cl'.sock[i].code = cl.sock[i].code
        /\ cl'.sock[i].session = cl.sock[i].session
        /\ cl'.sock[i].down # <<>> => cl.sock[i].down # <<>> \/ cl.sock[i].code = "none"
        /\ cl'.sock[i].up # <<>> \/ cl'.sock[i].down # <<>> =>
             cl.sock[i].up # <<>> \/ cl.sock[i].down # <<>> \/ i = cl'.ws
    /\ cl'.sock[i].code = "auth" =>
        cl.sock[i].code = "auth" /\ (cl.sock[i].st = "none" \/ cl'.sock[i].st # "none")
\* The login page is due for a reason, and the login stays refused.
Judged ==
    /\ cl'.verdict \in {cl.verdict, "none"} \/ (cl'.verdict = "over" => ~login.ok)
    /\ cl'.public => cl.public \/ cl.verdict = "over" \/ \E i \in Sockets : cl.sock[i].code = "auth"
    /\ login'.ok => login.ok
SameBackend ==
    \/ server' = server \/ ~server.up
    \/ \A i \in Sockets : cl'.sock[i].st = "open" => cl'.sock[i].code # "none"

LEMMA FreshStays ==
  ASSUME Fresh, SameBackend, \A i \in Sockets : Steady(i),
         IsOpen(cl') => IsOpen(cl) /\ cl'.ws = cl.ws
                        /\ cl'.sock[cl.ws].session = cl.sock[cl.ws].session
  PROVE  Fresh'
<1> SUFFICES ASSUME NEW i \in Sockets, cl'.sock[i].st = "open"
             PROVE  LET s == cl'.sock[i] IN
                    /\ s.code = "none" => server'.up /\ s.session = server'.session
                    /\ s.down # <<>> => s.code = "none"
                    /\ s.code = "none" /\ (s.up # <<>> \/ s.down # <<>>) /\ IsOpen(cl') =>
                         cl'.sock[cl'.ws].session = s.session
  BY DEF Fresh
<1>1. /\ cl.sock[i].st = "open" /\ cl'.sock[i].code = cl.sock[i].code
      /\ cl'.sock[i].session = cl.sock[i].session
  BY DEF Steady
<1>2. cl.sock[i].code = "none" => server.up /\ cl.sock[i].session = server.session
  BY <1>1 DEF Fresh
<1>3. cl.sock[i].code = "none" => server' = server
  BY <1>1, <1>2 DEF SameBackend
<1>4. cl'.sock[i].down # <<>> => cl.sock[i].code = "none"
  BY <1>1 DEF Fresh, Steady
<1>5. ASSUME cl.sock[i].code = "none", cl'.sock[i].up # <<>> \/ cl'.sock[i].down # <<>>, IsOpen(cl')
      PROVE  cl'.sock[cl'.ws].session = cl.sock[i].session
  BY <1>1, <1>5 DEF Fresh, Steady
<1> QED
  BY <1>1, <1>2, <1>3, <1>4, <1>5

LEMMA RefusedStays ==
  ASSUME Refused, \A i \in Sockets : Steady(i), scenario' = scenario, login'.ok => login.ok,
         cl'.verdict \in {cl.verdict, "none"} \/ (cl'.verdict = "over" => ~login.ok)
  PROVE  Refused'
<1>1. ASSUME NEW i \in Sockets, cl'.sock[i].code = "auth"
      PROVE  cl'.sock[i].st # "none" /\ ("linger" \notin scenario => ~login'.ok)
  BY <1>1 DEF Refused, Steady
<1>2. cl'.verdict = "over" /\ "slow" \notin scenario => ~login'.ok
  BY DEF Refused
<1> QED
  BY <1>1, <1>2 DEF Refused

\* A step that sends nothing: queue and sockets keep what they hold or lose it, and the
\* connection in use, if it is open afterwards, is the one it was.
Quiets ==
    /\ UNCHANGED <<scenario, page, login.era>> /\ TypeOK'
    /\ cl'.subs = cl.subs /\ cl'.data \in {cl.data, NoData} /\ cl'.queue \in {cl.queue, <<>>}
    /\ SameCall(cl'.call, cl.call) /\ (cl.public => cl'.public)
    /\ \A i \in Sockets : \/ cl'.sock[i].up = cl.sock[i].up /\ cl'.sock[i].era = cl.sock[i].era
                          \/ cl'.sock[i].up = <<>>
    /\ cl'.ws \in {0, cl.ws} \/ ~cl.public
    /\ IsOpen(cl') => IsOpen(cl) /\ cl'.ws = cl.ws /\ cl'.sock[cl.ws] = cl.sock[cl.ws]
    /\ "linger" \notin scenario /\ OneSocket => OneSocket'
    /\ SameBackend /\ Judged /\ \A i \in Sockets : Steady(i)

LEMMA KeptQuiets ==
  ASSUME TypeOK', Kept([cl' EXCEPT !.call = cl.call], cl), SameCall(cl'.call, cl.call),
         UNCHANGED <<scenario, page, login, server>>
  PROVE  Quiets
<1>1. cl' \in Clients
  BY DEF TypeOK
<1>2. /\ cl'.ws = cl.ws /\ cl'.sock = cl.sock /\ cl'.public = cl.public /\ cl'.hung = cl.hung
      /\ cl'.queue = cl.queue /\ cl'.data = cl.data /\ cl'.subs = cl.subs
      /\ cl'.verdict = cl.verdict
  BY <1>1 DEF Clients, Kept, KeptRest
<1> QED
  BY <1>2 DEF Quiets, IsOpen, OneSocket, SameBackend, Steady, Judged

\* The used socket stays, or one is being opened where there was no live one.
Moved ==
    /\ cl'.hung = cl.hung
    /\ \/ cl'.ws = cl.ws /\ cl'.sock = cl.sock
       \/ /\ ~cl.public /\ ~IsLive(cl)
          /\ \E i \in Sockets :
               /\ cl.sock[i].st = "none" /\ cl'.ws = i
               /\ cl'.sock = [cl.sock EXCEPT ![i] = [cl.sock[i] EXCEPT !.st = "connecting"]]

LEMMA Moves ==
  ASSUME TypeOK, Moved, Calm
  PROVE  /\ IsOpen(cl') => IsOpen(cl) /\ cl'.ws = cl.ws /\ cl'.sock = cl.sock
         /\ \A i \in Sockets : cl'.sock[i].up = cl.sock[i].up /\ cl'.sock[i].era = cl.sock[i].era
         /\ cl'.ws = cl.ws \/ ~cl.public
         /\ "linger" \notin scenario /\ OneSocket => OneSocket'
         /\ \A i \in Sockets : Steady(i)
<1>1. CASE cl'.ws = cl.ws /\ cl'.sock = cl.sock
  BY <1>1 DEF IsOpen, OneSocket, Moved, Steady
<1>2. CASE ~(cl'.ws = cl.ws /\ cl'.sock = cl.sock)
  <2>1. PICK i \in Sockets :
          /\ cl.sock[i].st = "none" /\ cl'.ws = i
          /\ cl'.sock = [cl.sock EXCEPT ![i] = [cl.sock[i] EXCEPT !.st = "connecting"]]
    BY <1>2 DEF Moved
  <2>2. cl.sock \in [Sockets -> SocketStates]
    BY Types, Fields
  <2>3. cl'.sock[i].st = "connecting" /\ cl'.sock[i].code = cl.sock[i].code /\ cl'.sock[i].up = cl.sock[i].up /\ cl'.sock[i].era = cl.sock[i].era
    BY <2>1, <2>2 DEF SocketStates
  <2>4. \A j \in Sockets \ {i} : cl'.sock[j] = cl.sock[j]
    BY <2>1, <2>2
  <2>5. ~IsOpen(cl') /\ ~IsLive(cl) /\ ~cl.public
    BY <1>2, <2>1, <2>3 DEF IsOpen, Moved
  <2>6. ASSUME "linger" \notin scenario, OneSocket PROVE OneSocket'
    <3>1. \A j \in Sockets : cl.sock[j].st # "closing"
      BY <2>6 DEF Calm
    <3>2. \A j \in Sockets : cl.sock[j].st = "none"
      <4> SUFFICES ASSUME NEW j \in Sockets, cl.sock[j].st # "none" PROVE FALSE
        OBVIOUS
      <4>1. j = cl.ws /\ j # 0
        BY <2>6 DEF OneSocket, Sockets
      <4>2. cl.sock[j].st \in {"connecting", "open"}
        BY <2>2, <3>1 DEF SocketStates
      <4> QED
        BY <2>5, <4>1, <4>2 DEF IsLive
    <3>3. \A j \in Sockets : cl'.sock[j].st # "none" <=> j = cl'.ws
      BY <2>1, <2>3, <2>4, <3>2
    <3> QED
      BY <2>6, <3>3 DEF OneSocket, Moved
  <2>7. \A j \in Sockets : Steady(j)
    BY <2>3, <2>4 DEF Steady
  <2> QED
    BY <2>3, <2>4, <2>5, <2>6, <2>7
<1> QED
  BY <1>1, <1>2

LEMMA ConnectQuiets ==
  ASSUME TypeOK, NEW c, Sound(c), Kept(c, cl), Calm, cl' = Connect(c),
         UNCHANGED <<scenario, page, login, server, faults>>
  PROVE  Quiets
<1>1. Kept(cl', c) \/ Opening(cl', c)
  BY Connects
<1>2. Moved
  BY <1>1 DEF Kept, KeptRest, Opening, IsLive, Moved
<1>3. TypeOK'
  <2>1. Sound(cl') /\ TypesOfRest
    BY ConnectSound, Types
  <2> QED
    BY <2>1 DEF TypeOK, TypesOfRest, Sound, Counts
<1>4. /\ cl'.public = cl.public /\ cl'.queue = cl.queue /\ cl'.call = cl.call
      /\ cl'.data = cl.data /\ cl'.subs = cl.subs /\ cl'.verdict = cl.verdict
  BY <1>1 DEF Kept, KeptRest, Opening
<1> QED
  BY <1>2, <1>3, <1>4, Moves DEF Quiets, SameCall, SameBackend, Judged

\* The close event, and the steps that lead to it.
LEMMA ClosingQuiets ==
  ASSUME TypeOK, TypesOfRest', UNCHANGED <<scenario, page, login>>, SameBackend,
         NEW q \in [Sockets -> SocketStates], cl' = [cl EXCEPT !.sock = q],
         \A i \in Sockets : q[i] = cl.sock[i]
              \/ /\ cl.sock[i].st # "none" /\ q[i].st = "closing"
                 /\ q[i].up = cl.sock[i].up /\ q[i].era = cl.sock[i].era
                 /\ q[i].code \in {cl.sock[i].code, "lost"}
  PROVE  Quiets
<1>1. Sound(cl)
  BY Types
<1>2. Sound(cl')
  BY <1>1, Updates
<1>3. TypeOK'
  BY <1>2 DEF TypeOK, TypesOfRest, Sound, Counts
<1>4. /\ cl'.ws = cl.ws /\ cl'.sock = q /\ cl'.public = cl.public /\ cl'.hung = cl.hung
      /\ cl'.queue = cl.queue /\ cl'.data = cl.data /\ cl'.subs = cl.subs /\ cl'.call = cl.call
      /\ cl'.verdict = cl.verdict
  BY <1>1 DEF Sound, Clients
<1>5. cl.ws # 0 => cl.ws \in Sockets
  <2>1. cl.ws \in 0..MaxSockets
    BY <1>1, Fields
  <2> QED
    BY <2>1, ConstantsAssumption DEF Sockets
<1>6. IsOpen(cl') => IsOpen(cl) /\ cl'.ws = cl.ws /\ cl'.sock[cl.ws] = cl.sock[cl.ws]
  BY <1>4, <1>5 DEF IsOpen
<1>7. OneSocket => OneSocket'
  BY <1>4 DEF OneSocket
<1>8. \A i \in Sockets : Steady(i)
  BY <1>4 DEF Steady
<1> QED
  BY <1>3, <1>4, <1>6, <1>7, <1>8 DEF Quiets, SameCall, Judged

LEMMA OneClosing ==
  ASSUME TypeOK, NEW i \in Sockets, NEW code \in {cl.sock[i].code, "lost"},
         cl.sock[i].st # "none", Closing(i, code), TypesOfRest',
         UNCHANGED <<scenario, page, login, server>>
  PROVE  Quiets
<1>. DEFINE s == [cl.sock[i] EXCEPT !.st = "closing", !.code = code]
            q == [cl.sock EXCEPT ![i] = s]
<1>1. Sound(cl)
  BY Types
<1>2. cl.sock \in [Sockets -> SocketStates] /\ cl.sock[i] \in SocketStates
  BY <1>1, Fields
<1>3. s \in SocketStates
  BY <1>2 DEF SocketStates
<1>4. s.st = "closing" /\ s.up = cl.sock[i].up /\ s.era = cl.sock[i].era
      /\ s.code = code
  BY <1>2 DEF SocketStates
<1>5. cl' = [cl EXCEPT !.sock = q]
  BY <1>1, <1>2 DEF Closing, Sound, Clients
<1> HIDE DEF s
<1>6. q \in [Sockets -> SocketStates]
  BY <1>2, <1>3
<1>7. \A j \in Sockets : q[j] = cl.sock[j]
              \/ /\ cl.sock[j].st # "none" /\ q[j].st = "closing"
                 /\ q[j].up = cl.sock[j].up /\ q[j].era = cl.sock[j].era
                 /\ q[j].code \in {cl.sock[j].code, "lost"}
  BY <1>2, <1>4
<1> HIDE DEF q
<1> QED
  BY <1>5, <1>6, <1>7, ClosingQuiets DEF SameBackend

LEMMA ClosesQuiet ==
  ASSUME TypeOK, NEW i \in Sockets, ServerCloses(i) \/ ConnectionLost(i) \/ HandshakeFails(i)
  PROVE  Quiets
<1>1. Sound(cl) /\ TypesOfRest
  BY Types
<1>2. cl.sock[i] \in SocketStates
  BY <1>1, Fields
<1>3. cl.sock[i].code \in {"none", "auth", "refused", "lost"}
  BY <1>2 DEF SocketStates
<1>4. CASE ServerCloses(i)
  BY <1>1, <1>3, <1>4, OneClosing DEF ServerCloses, TypesOfRest
<1>5. CASE ConnectionLost(i)
  <2>1. faults' \in 0..MaxFaults
    BY <1>1, <1>5, ConstantsAssumption DEF TypesOfRest, ConnectionLost
  <2>2. TypesOfRest'
    BY <1>1, <1>5, <2>1 DEF ConnectionLost, TypesOfRest
  <2> QED
    BY <1>5, <2>2, OneClosing DEF ConnectionLost
<1>6. CASE HandshakeFails(i)
  BY <1>1, <1>6, OneClosing DEF HandshakeFails, TypesOfRest
<1> QED
  BY <1>4, <1>5, <1>6

LEMMA BackendStopsQuiets == ASSUME TypeOK, BackendStops PROVE Quiets
<1>. DEFINE q == [i \in Sockets |-> IF cl.sock[i].st = "open" /\ cl.sock[i].code = "none"
                                   THEN [cl.sock[i] EXCEPT !.st = "closing", !.code = "lost"]
                                   ELSE cl.sock[i]]
<1>1. Sound(cl) /\ TypesOfRest
  BY Types
<1>2. cl.sock \in [Sockets -> SocketStates]
  BY <1>1, Fields
<1>3. \A i \in Sockets : LET s == [cl.sock[i] EXCEPT !.st = "closing", !.code = "lost"] IN
        s \in SocketStates /\ s.st = "closing" /\ s.up = cl.sock[i].up /\ s.era = cl.sock[i].era
        /\ s.code = "lost"
  BY <1>2 DEF SocketStates
<1>4. q \in [Sockets -> SocketStates]
  BY <1>2, <1>3
<1>5. \A i \in Sockets : q[i] = cl.sock[i]
              \/ /\ cl.sock[i].st # "none" /\ q[i].st = "closing"
                 /\ q[i].up = cl.sock[i].up /\ q[i].era = cl.sock[i].era
                 /\ q[i].code \in {cl.sock[i].code, "lost"}
  BY <1>3
<1>6. cl' = [cl EXCEPT !.sock = q]
  BY DEF BackendStops
<1>7. TypesOfRest' /\ UNCHANGED <<scenario, page, login>>
  BY <1>1 DEF BackendStops, TypesOfRest
<1>8. \A i \in Sockets : cl'.sock[i].st = "open" => cl'.sock[i].code # "none"
  <2>1. cl'.sock = q
    BY <1>1, <1>6 DEF Sound, Clients
  <2>2. \A i \in Sockets : q[i].st = "closing" \/ ~(q[i].st = "open" /\ q[i].code = "none")
    BY <1>3
  <2> QED
    BY <2>1, <2>2
<1> HIDE DEF q
<1> QED
  BY <1>4, <1>5, <1>6, <1>7, <1>8, ClosingQuiets DEF SameBackend

\* The socket is gone.
LEMMA GoneQuiets ==
  ASSUME TypeOK, TypesOfRest', NEW i \in Sockets, cl.sock[i].st # "none",
         UNCHANGED <<scenario, page, login, server>>, cl'.verdict = cl.verdict,
         cl'.public => cl.public \/ \E j \in Sockets : cl.sock[j].code = "auth",
         Sound(cl'), cl'.ws = 0, cl'.sock = [cl.sock EXCEPT ![i] = NoSocket],
         cl.public => cl'.public, cl'.hung = cl.hung, cl'.queue \in {cl.queue, <<>>},
         cl'.data \in {cl.data, NoData}, cl'.subs = cl.subs, SameCall(cl'.call, cl.call)
  PROVE  Quiets
<1>1. TypeOK'
  BY DEF TypeOK, TypesOfRest, Sound, Counts
<1>2. cl.sock \in [Sockets -> SocketStates]
  BY Types, Fields
<1>3. NoSocket.st = "none" /\ NoSocket.up = <<>> /\ NoSocket.code = "none"
  BY DEF NoSocket
<1>4. /\ cl'.sock[i].st = "none" /\ cl'.sock[i].up = <<>> /\ cl'.sock[i].code = "none"
      /\ \A j \in Sockets \ {i} : cl'.sock[j] = cl.sock[j]
  BY <1>2, <1>3
<1>5. ASSUME OneSocket PROVE OneSocket'
  <2>1. \A j \in Sockets : cl'.sock[j].st = "none" /\ j # 0
    BY <1>4, <1>5 DEF OneSocket, Sockets
  <2> QED
    BY <1>5, <2>1 DEF OneSocket
<1>6. ~IsOpen(cl') /\ \A j \in Sockets : Steady(j)
  BY <1>4 DEF IsOpen, Steady
<1> QED
  BY <1>1, <1>4, <1>5, <1>6 DEF Quiets, SameBackend, Judged

LEMMA AskSound ==
  ASSUME NEW c, Sound(c)
  PROVE  Sound(AskSession(c)) /\ Kept(AskSession(c), c)
<1>. DEFINE n == c.probing + 1
<1>1. c.probing \in Nat
  BY Fields
<1>2. n \in Nat /\ n > 0
  BY <1>1
<1>3. AskSession(c) = [c EXCEPT !.state = "reconnecting", !.probing = n]
  BY DEF AskSession
<1> HIDE DEF n
<1>4. AskSession(c) \in Clients
  BY <1>2, <1>3 DEF Sound, Clients
<1>5. /\ AskSession(c).held = c.held /\ AskSession(c).retries = c.retries
      /\ AskSession(c).probing = n /\ Kept(AskSession(c), c)
  BY <1>3 DEF Sound, Clients, Kept, KeptRest
<1> QED
  BY <1>2, <1>4, <1>5 DEF Sound, Counts

LEMMA OnCloseQuiets == ASSUME TypeOK, NEW i \in Sockets, OnClose(i) PROVE Quiets
<1>. DEFINE q == [cl.sock EXCEPT ![i] = NoSocket]
            c == [cl EXCEPT !.state = "closed", !.ws = 0, !.watchdog = 0, !.sock[i] = NoSocket]
            d == [cl EXCEPT !.state = "closed", !.ws = 0, !.watchdog = 0]
<1>1. Sound(cl) /\ TypesOfRest
  BY Types
<1>2. q \in [Sockets -> SocketStates]
  BY <1>1, Constants, SocketSound
<1>3. Sound(d)
  <2>1. Sound([cl EXCEPT !.state = "closed"])
    BY <1>1, Updates
  <2>2. Sound([[cl EXCEPT !.state = "closed"] EXCEPT !.ws = 0])
    BY <2>1, Updates, Constants
  <2> QED
    BY <2>2, Updates, Constants
<1>4. d.sock = cl.sock /\ d.ws = 0 /\ d.public = cl.public /\ d.hung = cl.hung
      /\ d.queue = cl.queue /\ d.data = cl.data /\ d.subs = cl.subs /\ d.call = cl.call
      /\ d.verdict = cl.verdict
  BY <1>1 DEF Sound, Clients
<1>5. c = [d EXCEPT !.sock = q]
  BY <1>1 DEF Sound, Clients
<1> HIDE DEF d, q
<1>6. Sound(c)
  <2>1. Sound([d EXCEPT !.sock = q])
    BY <1>2, <1>3, Updates
  <2> QED
    BY <1>5, <2>1
<1>7. /\ c.sock = q /\ c.ws = 0 /\ c.public = cl.public /\ c.hung = cl.hung
      /\ c.queue = cl.queue /\ c.data = cl.data /\ c.subs = cl.subs /\ c.call = cl.call
      /\ c.verdict = cl.verdict
  BY <1>3, <1>4, <1>5 DEF Sound, Clients
<1>8. \/ cl' = EndSession(c) /\ cl.sock[i].code = "auth"
      \/ cl' \in {AskSession(c), Schedule(c)}
  BY DEF OnClose
<1>9. UNCHANGED <<scenario, page, login, server, faults>> /\ cl.sock[i].st = "closing"
  BY DEF OnClose
<1>10. TypesOfRest'
  BY <1>1, <1>9 DEF TypesOfRest
<1> HIDE DEF c
<1>11. CASE cl' = EndSession(c) /\ cl.sock[i].code = "auth"
  BY <1>1, <1>6, <1>7, <1>9, <1>10, <1>11, Ends, EndSound, GoneQuiets DEF q
<1>12. CASE cl' = AskSession(c) \/ cl' = Schedule(c)
  <2>1. Kept(cl', c) /\ Sound(cl')
    BY <1>6, <1>12, AskSound, ScheduleKeeps, ScheduleSound
  <2> QED
    BY <1>1, <1>7, <1>9, <1>10, <2>1, GoneQuiets DEF q, Kept, KeptRest, SameCall
<1> QED
  BY <1>8, <1>11, <1>12

LEMMA WatchdogQuiets == ASSUME TypeOK, WatchdogFires PROVE Quiets
<1>1. Sound(cl) /\ TypesOfRest
  BY Types
<1>2. UNCHANGED <<scenario, page, login, server, faults>>
  BY DEF WatchdogFires
<1>3. TypesOfRest'
  BY <1>1, <1>2 DEF TypesOfRest
<1>4. CASE cl.ws # cl.watchdog \/ cl.sock[cl.ws].st # "connecting"
  <2>1. cl' = [cl EXCEPT !.watchdog = 0]
    BY <1>4 DEF WatchdogFires
  <2>2. Sound(cl')
    BY <1>1, <2>1, Updates, Constants
  <2>3. TypeOK'
    BY <1>3, <2>2 DEF TypeOK, TypesOfRest, Sound, Counts
  <2>4. Kept([cl' EXCEPT !.call = cl.call], cl) /\ cl'.call = cl.call
    BY <1>1, <2>1 DEF Sound, Clients, Kept, KeptRest
  <2> QED
    BY <1>2, <2>3, <2>4, KeptQuiets DEF SameCall
<1>5. CASE cl.ws = cl.watchdog /\ cl.sock[cl.ws].st = "connecting"
  <2>. DEFINE i == cl.ws
              q == [cl.sock EXCEPT ![i] = NoSocket]
              c == [cl EXCEPT !.watchdog = 0, !.sock[i] = NoSocket, !.ws = 0, !.state = "closed"]
              d == [cl EXCEPT !.watchdog = 0]
              e == [d EXCEPT !.sock = q]
              f == [e EXCEPT !.ws = 0]
  <2>1. i \in Sockets
    <3>1. cl.ws \in 0..MaxSockets /\ cl.ws # 0
      BY <1>1, <1>5, Fields DEF WatchdogFires
    <3> QED
      BY <3>1, ConstantsAssumption DEF Sockets
  <2>2. q \in [Sockets -> SocketStates]
    BY <1>1, <2>1, Constants, SocketSound
  <2>3. cl' = Schedule(c)
    BY <1>5 DEF WatchdogFires
  <2>4. c = [f EXCEPT !.state = "closed"]
    BY <1>1 DEF Sound, Clients
  <2>5. /\ c.sock = q /\ c.ws = 0 /\ c.public = cl.public /\ c.hung = cl.hung
        /\ c.queue = cl.queue /\ c.data = cl.data /\ c.subs = cl.subs /\ c.call = cl.call
        /\ c.verdict = cl.verdict
    BY <1>1 DEF Sound, Clients
  <2> HIDE DEF q, c
  <2>6. Sound(d)
    BY <1>1, Updates, Constants
  <2> HIDE DEF d
  <2>7. Sound(e)
    BY <2>2, <2>6, Updates
  <2> HIDE DEF e
  <2>8. Sound(f)
    BY <2>7, Updates, Constants
  <2> HIDE DEF f
  <2>9. Sound(c)
    BY <2>4, <2>8, Updates
  <2>10. Kept(cl', c) /\ Sound(cl')
    BY <2>3, <2>9, ScheduleKeeps, ScheduleSound
  <2>11. cl.sock[i].st # "none"
    BY <1>5
  <2> HIDE DEF i
  <2> QED
    BY <1>1, <1>2, <1>3, <2>1, <2>5, <2>10, <2>11, GoneQuiets DEF q, Kept, KeptRest, SameCall
<1> QED
  BY <1>4, <1>5

\* A pending timer fires.
LEMMA RetryQuiets == ASSUME TypeOK, RetryFires PROVE Quiets
<1>1. Sound(cl) /\ TypesOfRest
  BY Types
<1>2. PICK h \in BOOLEAN :
        /\ h => cl.held
        /\ ~h => cl.retries > (IF cl.held THEN 1 ELSE 0)
        /\ cl' = Connect([cl EXCEPT !.retries = @ - 1, !.held = @ /\ ~h])
  BY DEF RetryFires
<1>. DEFINE n == cl.retries - 1
            b == cl.held /\ ~h
            c == [cl EXCEPT !.retries = n, !.held = b]
<1>3. cl.retries \in Nat /\ cl.held \in BOOLEAN /\ cl.retries > 0
  BY <1>1, Fields DEF RetryFires
<1>4. n \in Nat /\ b \in BOOLEAN /\ (b => n > 0)
  BY <1>2, <1>3
<1>5. cl' = Connect(c)
  BY <1>2
<1> HIDE DEF n, b
<1>6. c \in Clients
  BY <1>1, <1>4 DEF Sound, Clients
<1>7. /\ c.held = b /\ c.retries = n /\ c.verdict = cl.verdict /\ c.probing = cl.probing
      /\ Kept(c, cl)
  BY <1>1 DEF Sound, Clients, Kept, KeptRest
<1>8. Sound(c)
  BY <1>1, <1>4, <1>6, <1>7 DEF Sound, Counts
<1> HIDE DEF c
<1>9. Calm /\ UNCHANGED <<scenario, page, login, server, faults>>
  BY DEF RetryFires
<1> QED
  BY <1>1, <1>5, <1>7, <1>8, <1>9, ConnectQuiets

\* A step that leaves all but the call, the timers and the probes.
LEMMA StillQuiets ==
  ASSUME TypeOK, Sound(cl'), TypesOfRest', UNCHANGED <<scenario, page, login.era>>, SameBackend, Judged,
         cl'.ws = cl.ws, cl'.sock = cl.sock, cl'.hung = cl.hung, cl'.subs = cl.subs,
         cl.public => cl'.public, cl'.queue \in {cl.queue, <<>>},
         cl'.data \in {cl.data, NoData}, SameCall(cl'.call, cl.call)
  PROVE  Quiets
<1>1. TypeOK'
  BY DEF TypeOK, TypesOfRest, Sound, Counts
<1> QED
  BY <1>1 DEF Quiets, IsOpen, OneSocket, Steady

LEMMA ProbeDecidedQuiets == ASSUME TypeOK, ProbeDecided PROVE Quiets
<1>1. Sound(cl) /\ TypesOfRest
  BY Types
<1>2. PICK v \in {"unknown", "alive", "over"} :
          cl' = [cl EXCEPT !.verdict = v] /\ (v = "over" => ~login.ok)
  BY DEF ProbeDecided
<1>3. cl.probing > 0 /\ UNCHANGED <<scenario, page, login, server, faults>>
  BY DEF ProbeDecided
<1>4. cl' \in Clients
  BY <1>1, <1>2 DEF Sound, Clients
<1>5. /\ cl'.held = cl.held /\ cl'.retries = cl.retries /\ cl'.probing = cl.probing
      /\ KeptRest(cl', cl) /\ cl'.verdict = v
  BY <1>1, <1>2 DEF Sound, Clients, Kept, KeptRest
<1>6. Sound(cl') /\ TypesOfRest'
  BY <1>1, <1>3, <1>4, <1>5 DEF Sound, Counts, TypesOfRest
<1>7. Judged
  BY <1>2, <1>3, <1>5 DEF Judged, KeptRest
<1> QED
  BY <1>3, <1>5, <1>6, <1>7, StillQuiets DEF SameBackend, KeptRest, SameCall

LEMMA AnsweredSound ==
  ASSUME NEW c, Sound(c)
  PROVE  LET d == [c EXCEPT !.probing = 0, !.verdict = "none"] IN Sound(d) /\ KeptRest(d, c) /\ d.verdict = "none"
<1>. DEFINE d == [c EXCEPT !.probing = 0, !.verdict = "none"]
<1>1. d \in Clients
  BY DEF Sound, Clients
<1>2. d.held = c.held /\ d.retries = c.retries /\ d.verdict = "none" /\ KeptRest(d, c)
  BY DEF Sound, Clients, Kept, KeptRest
<1> QED
  BY <1>1, <1>2 DEF Sound, Counts

LEMMA ProbeAnsweredQuiets == ASSUME TypeOK, ProbeAnswered PROVE Quiets
<1>1. Sound(cl) /\ TypesOfRest
  BY Types
<1>. DEFINE n == cl.probing
            told == Told(cl, n)
            d == [cl EXCEPT !.probeTimer = FALSE, !.attempts = 0]
            s == Schedule(d)
            r == cl.retries + n
<1>2. UNCHANGED <<scenario, page, login, server, faults>> /\ TypesOfRest'
  BY <1>1 DEF ProbeAnswered, TypesOfRest
<1>3. cl' = [told EXCEPT !.probing = 0, !.verdict = "none"] /\ cl.verdict # "none"
  BY DEF ProbeAnswered
<1>4. n \in Nat /\ n > 0 /\ cl.retries \in Nat /\ cl.verdict \in {"alive", "over", "unknown"}
  BY <1>1, <1>3, Fields DEF Counts
<1>5. Sound(d) /\ Kept(d, cl)
  <2>1. Sound([cl EXCEPT !.probeTimer = FALSE])
    BY <1>1, Updates
  <2>2. Sound([[cl EXCEPT !.probeTimer = FALSE] EXCEPT !.attempts = 0])
    BY <2>1, Updates, Constants
  <2> QED
    BY <1>1, <2>2 DEF Kept, KeptRest, Sound, Clients
<1>6. Sound(s) /\ Kept(s, d)
  BY <1>5, ScheduleSound, ScheduleKeeps
<1>7. CASE cl.verdict = "alive"
  <2>1. told = [s EXCEPT !.retries = r]
    BY <1>7 DEF Told
  <2>2. r \in Nat /\ r > 0
    BY <1>4
  <2> HIDE DEF d, s, r, told
  <2>3. told \in Clients
    BY <1>6, <2>1, <2>2 DEF Sound, Clients
  <2>4. /\ told.retries = r /\ told.verdict = s.verdict /\ told.probing = s.probing
        /\ KeptRest(told, s)
    BY <1>6, <2>1 DEF Sound, Clients, Kept, KeptRest
  <2>5. Sound(told)
    BY <1>6, <2>2, <2>3, <2>4 DEF Sound, Counts
  <2>6. Sound(cl') /\ KeptRest(cl', told) /\ cl'.verdict = "none"
    BY <1>3, <2>5, AnsweredSound
  <2> QED
    BY <1>2, <1>5, <1>6, <2>4, <2>6, StillQuiets DEF Judged, SameBackend, Kept, KeptRest, SameCall
<1>8. CASE cl.verdict = "over"
  <2>1. told = EndSession(cl)
    BY <1>8 DEF Told
  <2> HIDE DEF told
  <2>2. Sound(told)
    BY <1>1, <2>1, EndSound
  <2>3. /\ told.ws = cl.ws /\ told.sock = cl.sock /\ told.public /\ told.hung = cl.hung
        /\ told.queue = <<>> /\ SameCall(told.call, cl.call) /\ told.data = NoData
        /\ told.subs = cl.subs
    BY <1>1, <2>1, Ends
  <2>4. Sound(cl') /\ KeptRest(cl', told) /\ cl'.verdict = "none"
    BY <1>3, <2>2, AnsweredSound
  <2> QED
    BY <1>2, <1>8, <2>3, <2>4, StillQuiets DEF Judged, SameBackend, Kept, KeptRest
<1>9. CASE cl.verdict = "unknown"
  <2>1. told = [cl EXCEPT !.probeTimer = TRUE]
    BY <1>9 DEF Told
  <2> HIDE DEF told
  <2>2. Sound(told)
    BY <1>1, <2>1, Updates
  <2>3. Kept(told, cl)
    BY <1>1, <2>1 DEF Kept, KeptRest, Sound, Clients
  <2>4. Sound(cl') /\ KeptRest(cl', told) /\ cl'.verdict = "none"
    BY <1>3, <2>2, AnsweredSound
  <2> QED
    BY <1>2, <2>3, <2>4, StillQuiets DEF Judged, SameBackend, Kept, KeptRest, SameCall
<1> QED
  BY <1>4, <1>7, <1>8, <1>9

LEMMA ProbeAgainQuiets == ASSUME TypeOK, ProbeAgain PROVE Quiets
<1>1. Sound(cl) /\ TypesOfRest
  BY Types
<1>. DEFINE c == [cl EXCEPT !.probeTimer = FALSE]
<1>2. cl' = AskSession(c) /\ UNCHANGED <<scenario, page, login, server, faults>>
  BY DEF ProbeAgain
<1>3. Sound(c)
  BY <1>1, Updates
<1>4. Kept(c, cl)
  BY <1>1 DEF Kept, KeptRest, Sound, Clients
<1> HIDE DEF c
<1>5. Sound(cl') /\ Kept(cl', c)
  BY <1>2, <1>3, AskSound
<1>6. TypesOfRest'
  BY <1>1, <1>2 DEF TypesOfRest
<1> QED
  BY <1>2, <1>4, <1>5, <1>6, StillQuiets DEF Judged, SameBackend, Kept, KeptRest, SameCall

LEMMA CallTimesOutQuiets == ASSUME TypeOK, CallTimesOut PROVE Quiets
<1>1. Sound(cl) /\ TypesOfRest
  BY Types
<1>. DEFINE k == [cl.call EXCEPT !.st = "timeout"]
<1>2. cl.call \in Calls
  BY <1>1, Fields
<1>3. k \in Calls /\ k.ran = cl.call.ran /\ k.era = cl.call.era /\ k.st = "timeout"
  BY <1>2 DEF Calls
<1>4. cl' = [cl EXCEPT !.call = k]
  BY <1>1 DEF CallTimesOut, Sound, Clients
<1> HIDE DEF k
<1>5. Sound(cl')
  BY <1>1, <1>3, <1>4, Updates
<1>6. Kept([cl' EXCEPT !.call = cl.call], cl) /\ cl'.call = k
  BY <1>1, <1>4 DEF Kept, KeptRest, Sound, Clients
<1>7. UNCHANGED <<scenario, page, login, server, faults>> /\ cl.call.st = "pending"
  BY DEF CallTimesOut
<1>8. TypesOfRest'
  BY <1>1, <1>7 DEF TypesOfRest
<1>9. SameCall(cl'.call, cl.call)
  BY <1>3, <1>6, <1>7 DEF SameCall
<1>10. TypeOK'
  BY <1>5, <1>8 DEF TypeOK, TypesOfRest, Sound, Counts
<1> QED
  BY <1>6, <1>7, <1>9, <1>10, KeptQuiets

LEMMA OutsideQuiets == ASSUME TypeOK, BackendStarts \/ LoginExpires PROVE Quiets
<1>1. Sound(cl) /\ TypesOfRest
  BY Types
<1>2. cl' = cl /\ UNCHANGED <<scenario, page, faults>>
  BY DEF BackendStarts, LoginExpires
<1>3. login.era' = login.era /\ login' \in [era : 1..MaxEras, ok : BOOLEAN]
  BY <1>1 DEF BackendStarts, LoginExpires, TypesOfRest
<1>4. server' \in [session : 1..MaxSessions, up : BOOLEAN]
      /\ (server'.up \/ server'.session < MaxSessions)
  <2>1. CASE BackendStarts
    <3>1. server.session \in 1..MaxSessions /\ server.session < MaxSessions /\ MaxSessions \in Nat
      BY <1>1, <2>1, ConstantsAssumption DEF BackendStarts, TypesOfRest
    <3>2. server.session + 1 \in 1..MaxSessions
      BY <3>1
    <3> QED
      BY <2>1, <3>2 DEF BackendStarts
  <2>2. CASE LoginExpires
    BY <1>1, <2>2 DEF LoginExpires, TypesOfRest
  <2> QED
    BY <2>1, <2>2
<1>5. TypesOfRest' /\ Sound(cl')
  BY <1>1, <1>2, <1>3, <1>4 DEF TypesOfRest, Sound, Counts
<1>6. SameBackend /\ Judged
  BY <1>1, <1>2 DEF SameBackend, Judged, BackendStarts, LoginExpires, TypesOfRest
<1> QED
  BY <1>2, <1>3, <1>5, <1>6, StillQuiets DEF SameCall

-----------------------------------------------------------------------------
(* The invariant.                                                          *)

LEMMA Nothing == ~Holds(<<>>) /\ OneCall(<<>>) /\ <<>> \in Seq(Messages)
  BY DEF Holds, OneCall

\* A step that neither makes nor moves nor runs a call.
CallsStay ==
    /\ Holds(cl'.queue) => Holds(cl.queue)
    /\ OneCall(cl.queue) => OneCall(cl'.queue)
    /\ \A i \in Sockets : Holds(cl'.sock[i].up) => Holds(cl.sock[i].up)
                                                   /\ cl'.sock[i].era = cl.sock[i].era
    /\ \A i \in Sockets : OneCall(cl.sock[i].up) => OneCall(cl'.sock[i].up)
    /\ SameCall(cl'.call, cl.call)

LEMMA StayingCalls ==
  ASSUME CInv, CallsStay
  PROVE  /\ CallsOnce' /\ CallRunsOnce'
         /\ \A i \in Sockets : Holds(cl'.sock[i].up) => cl'.sock[i].era = cl'.call.era
         /\ Holds(cl'.queue) => cl'.call.era = login.era
<1>1. CallsOnce'
  BY DEF CInv, CallsOnce, CallsStay, SameCall, Up
<1>2. CallRunsOnce'
  BY DEF CInv, CallRunsOnce, CallsStay, SameCall
<1> QED
  BY <1>1, <1>2 DEF CInv, OfLogin, CallsStay, SameCall, Up

LEMMA QuietsKeep == ASSUME SInv, Quiets PROVE SInv'
<1>1. CallsStay
  BY Nothing DEF Quiets, CallsStay
<1>2. /\ CallsOnce' /\ CallRunsOnce'
      /\ \A i \in Sockets : Holds(cl'.sock[i].up) => cl'.sock[i].era = cl'.call.era
      /\ Holds(cl'.queue) => cl'.call.era = login.era
  BY <1>1, StayingCalls DEF SInv
<1>3. OfLogin'
  <2>1. page' = "public" => cl'.public /\ cl'.ws = 0 /\ cl'.queue = <<>> /\ cl'.subs = NoData
    BY DEF SInv, CInv, OfLogin, Quiets
  <2>2. IsOpen(cl') => cl'.sock[cl'.ws].era = login'.era
    BY DEF SInv, CInv, OfLogin, Quiets
  <2> QED
    BY <1>2, <2>1, <2>2 DEF OfLogin, Quiets, Up
<1>4. CInv'
  BY <1>2, <1>3 DEF CInv, Quiets
<1>5. ShownOK'
  <2>0. ShownOK
    BY DEF SInv
  <2>1. ASSUME NEW t \in Topics, cl'.data[t] # 0
        PROVE  t \in Counted' /\ (IsOpen(cl') => cl'.data[t] = cl'.sock[cl'.ws].session)
    <3>1. cl'.data = cl.data
      BY <2>1 DEF Quiets, NoData
    <3> QED
      BY <2>0, <2>1, <3>1 DEF ShownOK, Quiets, Counted
  <2> QED
    BY <2>1 DEF ShownOK
<1>6. ASSUME ServedSoon PROVE ServedSoon'
  <2>1. Counted' = Counted
    BY DEF Quiets, Counted
  <2>2. DOMAIN cl'.queue = {} \/ cl'.queue = cl.queue
    BY DEF Quiets
  <2>3. IsOpen(cl') => IsOpen(cl) /\ cl'.ws = cl.ws /\ cl'.sock[cl'.ws] = cl.sock[cl.ws]
    BY DEF Quiets
  <2> QED
    BY <1>6, <2>1, <2>2, <2>3 DEF ServedSoon, Quiets, WillServe, Up
<1>7. Fresh'
  BY FreshStays DEF SInv, Quiets
<1>8. Refused'
  BY RefusedStays DEF SInv, Quiets, Judged
<1> QED
  BY <1>4, <1>5, <1>6, <1>7, <1>8 DEF SInv, Quiets

\* Messages about one topic, seen from their end.
LEMMA LastAppended ==
  ASSUME NEW s \in Seq(Messages), NEW e \in Messages, NEW m, NEW o, NEW b \in BOOLEAN, m # o
  PROVE  /\ e = m => LastOf(Append(s, e), m, o, b)
         /\ e # o /\ LastOf(s, m, o, b) => LastOf(Append(s, e), m, o, b)
<1>. DEFINE t == Append(s, e)
            n == Len(s) + 1
<1>1. /\ Len(s) \in Nat /\ DOMAIN s = 1..Len(s) /\ DOMAIN t = 1..n /\ t[n] = e
      /\ \A i \in DOMAIN s : t[i] = s[i]
  OBVIOUS
<1> HIDE DEF t
<1>2. /\ \A i \in DOMAIN t : (i \in DOMAIN s /\ ~(i > n)) \/ i = n
      /\ \A i \in DOMAIN s : i \in DOMAIN t
      /\ n \in DOMAIN t /\ ~(n > n)
  BY <1>1
<1>3. e = m => LastOf(t, m, o, b)
  BY <1>1, <1>2 DEF LastOf
<1>4. e # o /\ LastOf(s, m, o, b) => LastOf(t, m, o, b)
  BY <1>1, <1>2 DEF LastOf
<1> QED
  BY <1>3, <1>4 DEF t

LEMMA LastTaken ==
  ASSUME NEW s \in Seq(Messages), s # <<>>, NEW m, NEW o, NEW b \in BOOLEAN, NEW c \in BOOLEAN,
         m # o, LastOf(s, m, o, b), Head(s) = m => c, Head(s) # o /\ b => c
  PROVE  LastOf(Tail(s), m, o, c)
<1>1. /\ Len(s) \in Nat /\ Len(s) > 0 /\ DOMAIN Tail(s) = 1..(Len(s) - 1) /\ Head(s) = s[1]
      /\ DOMAIN s = 1..Len(s) /\ \A i \in DOMAIN Tail(s) : Tail(s)[i] = s[i + 1]
  OBVIOUS
<1>2. /\ 1 \in DOMAIN s
      /\ \A i \in DOMAIN s : i = 1 \/ (i - 1 \in DOMAIN Tail(s) /\ Tail(s)[i - 1] = s[i])
      /\ \A i \in DOMAIN Tail(s) : i + 1 \in DOMAIN s /\ i + 1 > 1
      /\ \A i \in DOMAIN s, j \in DOMAIN Tail(s) : j > i - 1 => j + 1 > i
  BY <1>1
<1>3. CASE \E i \in DOMAIN s : s[i] = m /\ \A j \in DOMAIN s : j > i => s[j] # o
  <2>1. PICK i \in DOMAIN s : s[i] = m /\ \A j \in DOMAIN s : j > i => s[j] # o
    BY <1>3
  <2>2. CASE i = 1
    <3>1. \A j \in DOMAIN Tail(s) : Tail(s)[j] # o
      BY <1>1, <1>2, <2>1, <2>2
    <3> QED
      BY <1>1, <2>1, <2>2, <3>1 DEF LastOf
  <2>3. CASE i # 1
    <3>1. i - 1 \in DOMAIN Tail(s) /\ Tail(s)[i - 1] = m
      BY <1>2, <2>1, <2>3
    <3>2. \A j \in DOMAIN Tail(s) : j > i - 1 => Tail(s)[j] # o
      BY <1>1, <1>2, <2>1
    <3> QED
      BY <3>1, <3>2 DEF LastOf
  <2> QED
    BY <2>2, <2>3
<1>4. CASE b /\ \A i \in DOMAIN s : s[i] # o
  BY <1>1, <1>2, <1>4 DEF LastOf
<1> QED
  BY <1>3, <1>4 DEF LastOf

-----------------------------------------------------------------------------
(* The steps that send.                                                    *)

\* A message goes out in the open socket, or waits in the queue.
Says(m) ==
    /\ cl'.hung = cl.hung /\ cl'.public = cl.public
    /\ IsOpen(cl) =>
         /\ cl'.ws = cl.ws /\ cl'.queue = cl.queue
         /\ cl'.sock = [cl.sock EXCEPT ![cl.ws] =
                           [cl.sock[cl.ws] EXCEPT !.up = Append(cl.sock[cl.ws].up, m)]]
    /\ ~IsOpen(cl) => cl'.queue = Append(cl.queue, m) /\ Moved

LEMMA SaysIt ==
  ASSUME TypeOK, NEW c, Sound(c), NEW m \in Messages,
         c.ws = cl.ws, c.sock = cl.sock, c.public = cl.public, c.hung = cl.hung,
         c.queue = cl.queue,
         cl'.ws = Send(c, m).ws, cl'.sock = Send(c, m).sock, cl'.hung = Send(c, m).hung,
         cl'.queue = Send(c, m).queue, cl'.public = Send(c, m).public
  PROVE  Says(m)
<1>1. IsOpen(c) <=> IsOpen(cl)
  BY DEF IsOpen
<1>2. CASE IsOpen(cl)
  <2>. DEFINE d == Send(c, m)
  <2>1. /\ d.ws = c.ws /\ d.public = c.public /\ d.hung = c.hung /\ d.queue = c.queue
        /\ d.sock = [c.sock EXCEPT ![c.ws] =
                        [c.sock[c.ws] EXCEPT !.up = Append(c.sock[c.ws].up, m)]]
    BY ZenonT(40), <1>1, <1>2, Sends
  <2> HIDE DEF d
  <2> QED
    BY <1>2, <2>1 DEF Says, d
<1>3. CASE ~IsOpen(cl)
  <2>. DEFINE d == Send(c, m)
              e == [c EXCEPT !.queue = Append(@, m)]
  <2>1. /\ Kept(d, e) \/ Opening(d, e)
        /\ e.verdict = c.verdict /\ e.ws = c.ws /\ e.sock = c.sock /\ e.public = c.public /\ e.hung = c.hung
        /\ e.queue = Append(c.queue, m) /\ e.call = c.call /\ e.data = c.data
        /\ e.subs = c.subs
    BY <1>1, <1>3, Sends
  <2> HIDE DEF d, e
  <2>2. cl'.hung = cl.hung /\ cl'.public = cl.public /\ cl'.queue = Append(cl.queue, m)
    BY <2>1 DEF Kept, KeptRest, Opening, d
  <2>3. Kept(d, e) => Moved
    BY <2>1, <2>2 DEF Kept, KeptRest, Moved, d
  <2>4. Opening(d, e) => Moved
    <3>1. Opening(d, e) => ~cl.public /\ ~IsLive(cl)
      BY <2>1 DEF Opening, IsLive
    <3>2. ASSUME Opening(d, e)
          PROVE  \E i \in Sockets :
                   /\ cl.sock[i].st = "none" /\ cl'.ws = i
                   /\ cl'.sock = [cl.sock EXCEPT ![i] = [cl.sock[i] EXCEPT !.st = "connecting"]]
      <4>1. PICK i \in Sockets :
              /\ e.sock[i].st = "none" /\ d.ws = i
              /\ d.sock = [e.sock EXCEPT ![i] = [e.sock[i] EXCEPT !.st = "connecting"]]
        BY <3>2 DEF Opening
      <4>2. e.sock = cl.sock /\ d.sock = cl'.sock /\ d.ws = cl'.ws
        BY <2>1 DEF d
      <4> QED
        BY <4>1, <4>2
    <3> QED
      BY <2>2, <3>1, <3>2 DEF Moved
  <2> QED
    BY <1>3, <2>1, <2>2, <2>3, <2>4 DEF Says
<1> QED
  BY <1>2, <1>3

LEMMA SaidIt ==
  ASSUME TypeOK, Calm, NEW m \in Messages, Says(m)
  PROVE  /\ IsOpen(cl') <=> IsOpen(cl)
         /\ IsOpen(cl) =>
              /\ cl'.ws = cl.ws /\ cl.ws \in Sockets
              /\ cl'.queue = cl.queue /\ cl'.sock[cl.ws].up = Append(cl.sock[cl.ws].up, m)
              /\ cl'.sock[cl.ws].session = cl.sock[cl.ws].session
              /\ cl'.sock[cl.ws].code = cl.sock[cl.ws].code
              /\ cl'.sock[cl.ws].served = cl.sock[cl.ws].served
              /\ \A i \in Sockets : i # cl.ws => cl'.sock[i] = cl.sock[i]
         /\ ~IsOpen(cl) =>
              /\ cl'.queue = Append(cl.queue, m)
              /\ \A i \in Sockets : cl'.sock[i].up = cl.sock[i].up
         /\ \A i \in Sockets : cl'.sock[i].era = cl.sock[i].era
         /\ cl'.ws = cl.ws \/ ~cl.public
         /\ "linger" \notin scenario /\ OneSocket => OneSocket'
         /\ \A i \in Sockets : Steady(i)
<1>1. Sound(cl)
  BY Types
<1>2. CASE IsOpen(cl)
  <2>. DEFINE w == cl.ws
              s == [cl.sock[w] EXCEPT !.up = Append(cl.sock[w].up, m)]
  <2>1. w \in Sockets
    <3>1. cl.ws \in 0..MaxSockets /\ cl.ws # 0
      BY <1>1, <1>2, Fields DEF IsOpen
    <3> QED
      BY <3>1, ConstantsAssumption DEF Sockets
  <2>2. cl.sock \in [Sockets -> SocketStates] /\ cl.sock[w] \in SocketStates
    BY <1>1, <2>1, Fields
  <2>3. /\ s.up = Append(cl.sock[w].up, m) /\ s.session = cl.sock[w].session /\ s.st = cl.sock[w].st
        /\ s.code = cl.sock[w].code /\ s.served = cl.sock[w].served /\ s.era = cl.sock[w].era
        /\ s.down = cl.sock[w].down
    BY <2>2 DEF SocketStates
  <2> HIDE DEF s
  <2>4. cl'.ws = w /\ cl'.queue = cl.queue /\ cl'.hung = cl.hung /\ cl'.sock = [cl.sock EXCEPT ![w] = s]
    BY <1>2 DEF Says, s
  <2>5. cl'.sock[w] = s /\ \A i \in Sockets : i # w => cl'.sock[i] = cl.sock[i]
    BY <2>1, <2>2, <2>4
  <2>6. IsOpen(cl')
    BY <1>2, <2>3, <2>4, <2>5 DEF IsOpen
  <2>7. OneSocket => OneSocket'
    BY <2>3, <2>4, <2>5 DEF OneSocket
  <2>8. \A i \in Sockets : cl'.sock[i].era = cl.sock[i].era
    BY <2>3, <2>5
  <2>9. \A i \in Sockets : Steady(i)
    BY <2>3, <2>4, <2>5 DEF Steady
  <2> QED
    BY <1>2, <2>1, <2>3, <2>4, <2>5, <2>6, <2>7, <2>8, <2>9
<1>3. CASE ~IsOpen(cl)
  BY <1>3, Moves DEF Says
<1> QED
  BY <1>2, <1>3

LEMMA SaidNoCall ==
  ASSUME TypeOK, Calm, NEW m \in Messages, Says(m), ~IsCall(m), SameCall(cl'.call, cl.call)
  PROVE  CallsStay
<1>1. cl.sock \in [Sockets -> SocketStates] /\ cl.queue \in Seq(Messages)
  BY Types, Fields
<1>2. \A i \in Sockets : cl.sock[i].up \in Seq(Messages)
  BY <1>1 DEF SocketStates
<1>3. \A i \in Sockets : cl'.sock[i].up \in {cl.sock[i].up, Append(cl.sock[i].up, m)}
  BY SaidIt
<1>4. cl'.queue \in {cl.queue, Append(cl.queue, m)}
  BY SaidIt
<1>5. \A s \in Seq(Messages) : /\ Holds(Append(s, m)) <=> Holds(s)
                               /\ OneCall(s) => OneCall(Append(s, m))
  BY OneAppended
<1>6. \A i \in Sockets : cl'.sock[i].era = cl.sock[i].era
  BY SaidIt
<1>7. (Holds(cl'.queue) => Holds(cl.queue)) /\ (OneCall(cl.queue) => OneCall(cl'.queue))
  BY <1>1, <1>4, <1>5
<1>8. \A i \in Sockets : /\ Holds(cl'.sock[i].up) => Holds(cl.sock[i].up)
                         /\ OneCall(cl.sock[i].up) => OneCall(cl'.sock[i].up)
  BY <1>2, <1>3, <1>5
<1> QED
  BY <1>6, <1>7, <1>8 DEF CallsStay

\* Of the login: what a step on the page keeps.
LEMMA LoginKept ==
  ASSUME CInv, CallsStay, UNCHANGED <<page, login>>,
         cl'.public = cl.public, cl'.ws = cl.ws \/ ~cl.public, page = "private",
         IsOpen(cl') => IsOpen(cl) /\ cl'.ws = cl.ws /\ cl'.sock[cl.ws].era = cl.sock[cl.ws].era
  PROVE  CallsOnce' /\ CallRunsOnce' /\ OfLogin'
<1>1. /\ CallsOnce' /\ CallRunsOnce'
      /\ \A i \in Sockets : Holds(cl'.sock[i].up) => cl'.sock[i].era = cl'.call.era
      /\ Holds(cl'.queue) => cl'.call.era = login.era
  BY StayingCalls
<1> QED
  BY <1>1 DEF CInv, OfLogin, Up

LEMMA SendsRest ==
  ASSUME NEW c, Sound(c), NEW m \in Messages
  PROVE  /\ Send(c, m).call = c.call /\ Send(c, m).data = c.data /\ Send(c, m).subs = c.subs
         /\ Send(c, m).public = c.public /\ Send(c, m).verdict = c.verdict
<1>1. CASE IsOpen(c)
  BY <1>1, Sends
<1>2. CASE ~IsOpen(c)
  <2>. DEFINE d == Send(c, m)
              e == [c EXCEPT !.queue = Append(@, m)]
  <2>1. /\ Kept(d, e) \/ Opening(d, e)
        /\ e.verdict = c.verdict /\ e.public = c.public /\ e.call = c.call /\ e.data = c.data /\ e.subs = c.subs
    BY <1>2, Sends
  <2> HIDE DEF d, e
  <2>2. d.call = c.call /\ d.data = c.data /\ d.subs = c.subs /\ d.public = c.public /\ d.verdict = c.verdict
    BY <2>1 DEF Kept, KeptRest, Opening
  <2> QED
    BY <2>2 DEF d
<1> QED
  BY <1>1, <1>2

\* What the connection serves soon, when m is sent.
LEMMA ServedSaid ==
  ASSUME TypeOK, Calm, ServedSoon, NEW m \in Messages, Says(m), cl'.subs \in [Topics -> 0..2],
         \A u \in Topics : (u \in Counted' <=> u \in Counted) \/ m \in {<<"sub", u>>, <<"unsub", u>>},
         \A u \in Topics : m = <<"sub", u>> => u \in Counted' /\ IsOpen(cl),
         \A u \in Topics : m = <<"unsub", u>> => u \notin Counted'
  PROVE  ServedSoon'
<1>1. Sound(cl)
  BY Types
<1>2. cl.queue \in Seq(Messages) /\ cl.sock \in [Sockets -> SocketStates]
  BY <1>1, Fields
<1>3. CASE IsOpen(cl)
  <2>. DEFINE s == cl.sock[cl.ws]
              up == s.up
  <2>1. /\ IsOpen(cl') /\ cl'.ws = cl.ws /\ cl.ws \in Sockets /\ cl'.queue = cl.queue
        /\ cl'.sock[cl.ws].up = Append(up, m)
        /\ cl'.sock[cl.ws].code = s.code /\ cl'.sock[cl.ws].served = s.served
    BY <1>3, SaidIt
  <2>2. up \in Seq(Messages)
    BY <1>2, <2>1 DEF SocketStates
  <2>3. cl.queue = <<>> /\ DOMAIN cl.queue = {}
    BY <1>3 DEF ServedSoon
  <2>4. ASSUME s.code = "none", NEW t \in Topics
        PROVE  IF t \in Counted' THEN LastOf(Append(up, m), <<"sub", t>>, <<"unsub", t>>, t \in s.served)
               ELSE LastOf(Append(up, m), <<"unsub", t>>, <<"sub", t>>, t \notin s.served)
    <3>1. IF t \in Counted THEN LastOf(up, <<"sub", t>>, <<"unsub", t>>, t \in s.served)
          ELSE LastOf(up, <<"unsub", t>>, <<"sub", t>>, t \notin s.served)
      BY <1>3, <2>4 DEF ServedSoon, WillServe, Up
    <3>2. <<"sub", t>> # <<"unsub", t>>
      OBVIOUS
    <3>. DEFINE b == t \in s.served
                n == t \notin s.served
                x == <<"sub", t>>
                y == <<"unsub", t>>
    <3>3. b \in BOOLEAN /\ n \in BOOLEAN
      OBVIOUS
    <3>4. x # y /\ IF t \in Counted THEN LastOf(up, x, y, b) ELSE LastOf(up, y, x, n)
      BY <3>1, <3>2
    <3> HIDE DEF b, n, x, y
    <3>5. CASE t \in Counted'
      <4>1. m = x \/ (t \in Counted /\ m # y)
        BY <3>5 DEF x, y
      <4>2. LastOf(Append(up, m), x, y, b)
        BY <2>2, <3>3, <3>4, <4>1, LastAppended
      <4> QED
        BY <3>5, <4>2 DEF x, y, b
    <3>6. CASE t \notin Counted'
      <4>1. m = y \/ (t \notin Counted /\ m # x)
        BY <3>6 DEF x, y
      <4>2. LastOf(Append(up, m), y, x, n)
        BY <2>2, <3>3, <3>4, <4>1, LastAppended
      <4> QED
        BY <3>6, <4>2 DEF x, y, n
    <3> QED
      BY <3>5, <3>6
  <2> QED
    BY <2>1, <2>3, <2>4 DEF ServedSoon, WillServe, Up
<1>4. CASE ~IsOpen(cl)
  <2>1. ~IsOpen(cl') /\ cl'.queue = Append(cl.queue, m)
    BY <1>4, SaidIt
  <2>2. \A n \in DOMAIN cl'.queue : (n \in DOMAIN cl.queue /\ cl'.queue[n] = cl.queue[n])
                                    \/ cl'.queue[n] = m
    BY <1>2, <2>1
  <2>3. \A u \in Topics : u \in Counted' => u \in Counted
    BY <1>4
  <2>4. \A n \in DOMAIN cl.queue, t \in Topics :
          cl.queue[n] # <<"sub", t>> /\ (cl.queue[n] = <<"unsub", t>> => t \notin Counted)
    BY DEF ServedSoon
  <2>5. \A n \in DOMAIN cl'.queue, t \in Topics :
          cl'.queue[n] # <<"sub", t>> /\ (cl'.queue[n] = <<"unsub", t>> => t \notin Counted')
    BY <1>4, <2>2, <2>3, <2>4
  <2> QED
    BY <2>1, <2>5 DEF ServedSoon
<1> QED
  BY <1>3, <1>4

\* useTopic() of a component that mounts.
LEMMA SubStep ==
  ASSUME TypeOK, NEW t \in Topics, Sub(t)
  PROVE  /\ TypeOK' /\ Calm /\ page = "private" /\ UNCHANGED <<scenario, page, login, server>>
         /\ cl'.public = cl.public /\ cl'.verdict = cl.verdict /\ cl'.data = cl.data /\ cl'.call = cl.call
         /\ cl'.subs = [cl.subs EXCEPT ![t] = cl.subs[t] + 1]
         /\ \/ cl.subs[t] = 0 /\ IsOpen(cl) /\ Says(<<"sub", t>>)
            \/ (cl.subs[t] > 0 \/ ~IsOpen(cl')) /\ Moved /\ cl'.queue = cl.queue
<1>1. Sound(cl) /\ TypesOfRest
  BY Types
<1>. DEFINE n == [cl.subs EXCEPT ![t] = cl.subs[t] + 1]
            b == [cl EXCEPT !.subs = n]
            c == Connect(b)
            m == <<"sub", t>>
<1>2. cl.subs \in [Topics -> 0..2] /\ cl.subs[t] < 2
  BY <1>1, Fields DEF Sub
<1>3. n \in [Topics -> 0..2]
  BY <1>2
<1>4. /\ Calm /\ page = "private" /\ UNCHANGED <<scenario, page, login, server, faults>>
      /\ cl' = IF cl.subs[t] = 0 /\ IsOpen(c) THEN Send(c, m) ELSE c
  BY <1>1, <1>2 DEF Sub, Sound, Clients
<1>5. m \in Messages
  BY DEF Messages
<1> HIDE DEF n, m
<1>6. Sound(b)
  BY <1>1, <1>3, Updates
<1>7. /\ b.ws = cl.ws /\ b.sock = cl.sock /\ b.public = cl.public /\ b.hung = cl.hung
      /\ b.verdict = cl.verdict /\ b.queue = cl.queue /\ b.data = cl.data /\ b.call = cl.call /\ b.subs = n
  BY <1>1 DEF Sound, Clients
<1> HIDE DEF b
<1>8. Sound(c) /\ (Kept(c, b) \/ Opening(c, b))
  BY <1>6, ConnectSound, Connects
<1> HIDE DEF c
<1>9. /\ c.verdict = cl.verdict /\ c.public = cl.public /\ c.hung = cl.hung /\ c.queue = cl.queue /\ c.data = cl.data
      /\ c.call = cl.call /\ c.subs = n
  BY <1>7, <1>8 DEF Kept, KeptRest, Opening
<1>10. CASE cl.subs[t] = 0 /\ IsOpen(c)
  <2>1. Kept(c, b)
    <3> SUFFICES ASSUME Opening(c, b) PROVE FALSE
      BY <1>8
    <3>1. PICK i \in Sockets :
            c.ws = i /\ c.sock = [b.sock EXCEPT ![i] = [b.sock[i] EXCEPT !.st = "connecting"]]
      BY DEF Opening
    <3>2. b.sock \in [Sockets -> SocketStates]
      BY <1>6, Fields
    <3>3. c.sock[i].st = "connecting"
      BY <3>1, <3>2 DEF SocketStates
    <3> QED
      BY <1>10, <3>1, <3>3 DEF IsOpen
  <2>2. cl' = Send(c, m)
    BY <1>4, <1>10
  <2>3. IsOpen(cl) /\ c.ws = cl.ws /\ c.sock = cl.sock
    BY <1>7, <1>10, <2>1 DEF IsOpen, Kept, KeptRest
  <2>4. Says(m)
    BY <1>5, <1>8, <1>9, <2>2, <2>3, SaysIt
  <2>5. /\ cl'.public = cl.public /\ cl'.verdict = cl.verdict /\ cl'.data = cl.data /\ cl'.call = cl.call /\ cl'.subs = n
    BY <1>5, <1>8, <1>9, <2>2, SendsRest
  <2>6. TypeOK'
    <3>1. Sound(cl')
      BY <1>5, <1>8, <2>2, SendSound
    <3> QED
      BY <1>1, <1>4, <3>1 DEF TypeOK, TypesOfRest, Sound, Counts
  <2> QED
    BY <1>4, <1>10, <2>3, <2>4, <2>5, <2>6 DEF m, n
<1>11. CASE ~(cl.subs[t] = 0 /\ IsOpen(c))
  <2>1. cl' = c
    BY <1>4, <1>11
  <2>2. TypeOK'
    BY <1>1, <1>4, <1>8, <2>1 DEF TypeOK, TypesOfRest, Sound, Counts
  <2>3. Moved
    BY <1>7, <1>8, <1>9, <2>1 DEF Kept, KeptRest, Opening, IsLive, Moved
  <2>4. cl.subs[t] > 0 \/ ~IsOpen(cl')
    BY <1>2, <1>11, <2>1
  <2> QED
    BY <1>4, <1>9, <2>1, <2>2, <2>3, <2>4 DEF n
<1> QED
  BY <1>10, <1>11

LEMMA SubKeeps == ASSUME SInv, NEW t \in Topics, Sub(t) PROVE SInv'
<1>0. TypeOK /\ CInv
  BY DEF SInv, CInv
<1>. DEFINE m == <<"sub", t>>
<1>1. /\ TypeOK' /\ Calm /\ page = "private" /\ UNCHANGED <<scenario, page, login, server>>
      /\ cl'.public = cl.public /\ cl'.verdict = cl.verdict /\ cl'.data = cl.data /\ cl'.call = cl.call
      /\ cl'.subs = [cl.subs EXCEPT ![t] = cl.subs[t] + 1]
      /\ \/ cl.subs[t] = 0 /\ IsOpen(cl) /\ Says(m)
         \/ (cl.subs[t] > 0 \/ ~IsOpen(cl')) /\ Moved /\ cl'.queue = cl.queue
  BY <1>0, SubStep
<1>2. cl.subs \in [Topics -> 0..2] /\ cl'.subs \in [Topics -> 0..2]
  BY <1>0, <1>1 DEF TypeOK, Clients
<1>3. /\ \A u \in Topics \ {t} : cl'.subs[u] = cl.subs[u]
      /\ t \in Counted' /\ \A u \in Topics : u \in Counted => u \in Counted'
      /\ cl.subs[t] > 0 => Counted' = Counted
  BY <1>1, <1>2 DEF Counted
<1>4. m \in Messages /\ ~IsCall(m)
  BY DEF Messages, IsCall
<1>5. SameCall(cl'.call, cl.call)
  BY <1>1 DEF SameCall
<1>6. /\ CallsStay /\ (cl'.ws = cl.ws \/ ~cl.public)
      /\ IsOpen(cl') => /\ IsOpen(cl) /\ cl'.ws = cl.ws
                        /\ cl'.sock[cl.ws].era = cl.sock[cl.ws].era
                        /\ cl'.sock[cl.ws].session = cl.sock[cl.ws].session
      /\ "linger" \notin scenario /\ OneSocket => OneSocket'
      /\ \A i \in Sockets : Steady(i)
  <2>1. CASE Says(m)
    BY <1>0, <1>1, <1>4, <1>5, <2>1, SaidIt, SaidNoCall
  <2>2. CASE Moved /\ cl'.queue = cl.queue
    BY <1>0, <1>1, <1>5, <2>2, Moves DEF CallsStay
  <2> QED
    BY <1>1, <2>1, <2>2
<1>7. CInv'
  BY <1>0, <1>1, <1>6, LoginKept DEF CInv
<1>8. ShownOK'
  BY <1>1, <1>3, <1>6 DEF ShownOK, SInv
<1>9. ASSUME ServedSoon, "rejoin" \notin scenario PROVE ServedSoon'
  <2>1. CASE Says(m) /\ IsOpen(cl)
    <3>1. \A u \in Topics : (u \in Counted' <=> u \in Counted) \/ m \in {<<"sub", u>>, <<"unsub", u>>}
      BY <1>3 DEF Counted
    <3>2. \A u \in Topics : m = <<"sub", u>> => u \in Counted' /\ IsOpen(cl)
      BY <1>3, <2>1
    <3>3. \A u \in Topics : m # <<"unsub", u>>
      OBVIOUS
    <3> HIDE DEF m
    <3> QED
      BY <1>0, <1>1, <1>2, <1>4, <1>9, <2>1, <3>1, <3>2, <3>3, ServedSaid
  <2>2. CASE (cl.subs[t] > 0 \/ ~IsOpen(cl')) /\ Moved /\ cl'.queue = cl.queue
    <3>1. IsOpen(cl') => IsOpen(cl) /\ cl'.ws = cl.ws /\ cl'.sock = cl.sock
      BY <1>0, <1>1, <2>2, Moves
    <3>2. CASE cl.subs[t] > 0
      BY <1>3, <1>9, <2>2, <3>1, <3>2 DEF ServedSoon, WillServe, Up
    <3>3. CASE ~IsOpen(cl')
      <4>1. \A n \in DOMAIN cl.queue : cl.queue[n] # <<"unsub", t>>
        BY <1>9 DEF Sub, ToSet
      <4>2. \A u \in Topics : u \in Counted' => u \in Counted \/ u = t
        BY <1>3 DEF Counted
      <4> QED
        BY <1>9, <2>2, <3>3, <4>1, <4>2 DEF ServedSoon
    <3> QED
      BY <2>2, <3>2, <3>3
  <2> QED
    BY <1>1, <2>1, <2>2
<1>10. Fresh'
  BY <1>1, <1>6, FreshStays DEF SInv, SameBackend
<1>11. Refused'
  BY <1>1, <1>6, RefusedStays DEF SInv
<1> QED
  BY <1>1, <1>6, <1>7, <1>8, <1>9, <1>10, <1>11 DEF SInv

\* useTopic() of a component that unmounts.
LEMMA UnsubStep ==
  ASSUME TypeOK, NEW t \in Topics, Unsub(t)
  PROVE  /\ TypeOK' /\ Calm /\ page = "private" /\ UNCHANGED <<scenario, page, login, server>>
         /\ cl'.public = cl.public /\ cl'.verdict = cl.verdict /\ cl'.call = cl.call /\ cl.subs[t] > 0
         /\ cl'.subs = [cl.subs EXCEPT ![t] = cl.subs[t] - 1]
         /\ \/ /\ cl.subs[t] = 1 /\ Says(<<"unsub", t>>)
               /\ cl'.data = [cl.data EXCEPT ![t] = 0]
            \/ /\ cl.subs[t] > 1 /\ Moved /\ cl'.queue = cl.queue /\ cl'.data = cl.data
<1>1. Sound(cl) /\ TypesOfRest
  BY Types
<1>. DEFINE n == [cl.subs EXCEPT ![t] = cl.subs[t] - 1]
            c == [cl EXCEPT !.subs = n]
            m == <<"unsub", t>>
            d == Send(c, m)
            e == [d.data EXCEPT ![t] = 0]
<1>2. cl.subs \in [Topics -> 0..2] /\ cl.subs[t] > 0
  BY <1>1, Fields DEF Unsub
<1>3. n \in [Topics -> 0..2]
  BY <1>2
<1>4. /\ Calm /\ page = "private" /\ UNCHANGED <<scenario, page, login, server, faults>>
      /\ cl' = IF cl.subs[t] = 1 THEN [d EXCEPT !.data[t] = 0] ELSE c
  BY <1>1, <1>2 DEF Unsub, Sound, Clients
<1>5. m \in Messages
  BY DEF Messages
<1> HIDE DEF n, m
<1>6. Sound(c)
  BY <1>1, <1>3, Updates
<1>7. /\ c.ws = cl.ws /\ c.sock = cl.sock /\ c.public = cl.public /\ c.hung = cl.hung
      /\ c.verdict = cl.verdict /\ c.queue = cl.queue /\ c.data = cl.data /\ c.call = cl.call /\ c.subs = n
  BY <1>1 DEF Sound, Clients
<1> HIDE DEF c
<1>8. CASE cl.subs[t] = 1
  <2>1. Sound(d) /\ d.verdict = cl.verdict /\ d.public = cl.public /\ d.data = cl.data /\ d.call = cl.call /\ d.subs = n
    BY <1>5, <1>6, <1>7, SendSound, SendsRest
  <2>2. d.data \in [Topics -> 0..MaxSessions]
    BY <2>1, Fields
  <2>3. e \in [Topics -> 0..MaxSessions]
    BY <2>2, Constants
  <2> HIDE DEF d
  <2>4. cl' = [d EXCEPT !.data = e]
    BY <1>4, <1>8, <2>1 DEF Sound, Clients
  <2> HIDE DEF e
  <2>5. Sound(cl')
    BY <2>1, <2>3, <2>4, Updates
  <2>6. /\ cl'.ws = d.ws /\ cl'.sock = d.sock /\ cl'.hung = d.hung /\ cl'.queue = d.queue
        /\ cl'.verdict = d.verdict /\ cl'.public = d.public /\ cl'.data = e /\ cl'.call = d.call /\ cl'.subs = d.subs
    BY <2>1, <2>4 DEF Sound, Clients
  <2>7. Says(m)
    BY <1>5, <1>6, <1>7, <2>6, SaysIt DEF d
  <2>8. TypeOK'
    BY <1>1, <1>4, <2>5 DEF TypeOK, TypesOfRest, Sound, Counts
  <2>9. cl'.data = [cl.data EXCEPT ![t] = 0]
    BY <2>1, <2>6 DEF e
  <2> QED
    BY <1>2, <1>4, <1>8, <2>1, <2>6, <2>7, <2>8, <2>9 DEF m, n
<1>9. CASE cl.subs[t] # 1
  <2>1. cl' = c /\ cl.subs[t] > 1
    BY <1>2, <1>4, <1>9
  <2>2. TypeOK'
    BY <1>1, <1>4, <1>6, <2>1 DEF TypeOK, TypesOfRest, Sound, Counts
  <2>3. Moved
    BY <1>7, <2>1 DEF Moved
  <2> QED
    BY <1>2, <1>4, <1>7, <2>1, <2>2, <2>3 DEF n
<1> QED
  BY <1>8, <1>9

LEMMA UnsubKeeps == ASSUME SInv, NEW t \in Topics, Unsub(t) PROVE SInv'
<1>0. TypeOK /\ CInv
  BY DEF SInv, CInv
<1>. DEFINE m == <<"unsub", t>>
<1>1. /\ TypeOK' /\ Calm /\ page = "private" /\ UNCHANGED <<scenario, page, login, server>>
      /\ cl'.public = cl.public /\ cl'.verdict = cl.verdict /\ cl'.call = cl.call /\ cl.subs[t] > 0
      /\ cl'.subs = [cl.subs EXCEPT ![t] = cl.subs[t] - 1]
      /\ \/ cl.subs[t] = 1 /\ Says(m) /\ cl'.data = [cl.data EXCEPT ![t] = 0]
         \/ cl.subs[t] > 1 /\ Moved /\ cl'.queue = cl.queue /\ cl'.data = cl.data
  BY <1>0, UnsubStep
<1>2. /\ cl.subs \in [Topics -> 0..2] /\ cl'.subs \in [Topics -> 0..2]
      /\ cl.data \in [Topics -> 0..MaxSessions]
  BY <1>0, <1>1 DEF TypeOK, Clients
<1>3. /\ \A u \in Topics \ {t} : cl'.subs[u] = cl.subs[u]
      /\ cl'.subs[t] = cl.subs[t] - 1
      /\ \A u \in Topics : u \in Counted' => u \in Counted
      /\ \A u \in Topics \ {t} : u \in Counted => u \in Counted'
      /\ cl.subs[t] > 1 => Counted' = Counted
      /\ cl.subs[t] = 1 => t \notin Counted'
  BY <1>1, <1>2 DEF Counted
<1>4. m \in Messages /\ ~IsCall(m)
  BY DEF Messages, IsCall
<1>5. SameCall(cl'.call, cl.call)
  BY <1>1 DEF SameCall
<1>6. /\ CallsStay /\ (cl'.ws = cl.ws \/ ~cl.public)
      /\ IsOpen(cl') => /\ IsOpen(cl) /\ cl'.ws = cl.ws
                        /\ cl'.sock[cl.ws].era = cl.sock[cl.ws].era
                        /\ cl'.sock[cl.ws].session = cl.sock[cl.ws].session
      /\ "linger" \notin scenario /\ OneSocket => OneSocket'
      /\ \A i \in Sockets : Steady(i)
  <2>1. CASE Says(m)
    BY <1>0, <1>1, <1>4, <1>5, <2>1, SaidIt, SaidNoCall
  <2>2. CASE Moved /\ cl'.queue = cl.queue
    BY <1>0, <1>1, <1>5, <2>2, Moves DEF CallsStay
  <2> QED
    BY <1>1, <2>1, <2>2
<1>7. CInv'
  BY <1>0, <1>1, <1>6, LoginKept DEF CInv
<1>8. ShownOK'
  <2>1. CASE cl.subs[t] = 1 /\ cl'.data = [cl.data EXCEPT ![t] = 0]
    <3>1. \A u \in Topics : cl'.data[u] # 0 => u # t /\ cl'.data[u] = cl.data[u]
      BY <1>2, <2>1
    <3> QED
      BY <1>3, <1>6, <3>1 DEF ShownOK, SInv
  <2>2. CASE cl.subs[t] > 1 /\ cl'.data = cl.data
    BY <1>3, <1>6, <2>2 DEF ShownOK, SInv
  <2> QED
    BY <1>1, <2>1, <2>2
<1>9. ASSUME ServedSoon PROVE ServedSoon'
  <2>1. CASE Says(m) /\ cl.subs[t] = 1
    <3>1. \A u \in Topics : (u \in Counted' <=> u \in Counted) \/ m \in {<<"sub", u>>, <<"unsub", u>>}
      BY <1>3
    <3>2. \A u \in Topics : m # <<"sub", u>>
      OBVIOUS
    <3>3. \A u \in Topics : m = <<"unsub", u>> => u \notin Counted'
      BY <1>3, <2>1
    <3> HIDE DEF m
    <3> QED
      BY <1>0, <1>1, <1>2, <1>4, <1>9, <2>1, <3>1, <3>2, <3>3, ServedSaid
  <2>2. CASE cl.subs[t] > 1 /\ Moved /\ cl'.queue = cl.queue
    <3>1. IsOpen(cl') => IsOpen(cl) /\ cl'.ws = cl.ws /\ cl'.sock = cl.sock
      BY <1>0, <1>1, <2>2, Moves
    <3> QED
      BY <1>3, <1>9, <2>2, <3>1 DEF ServedSoon, WillServe, Up
  <2> QED
    BY <1>1, <2>1, <2>2
<1>10. Fresh'
  BY <1>1, <1>6, FreshStays DEF SInv, SameBackend
<1>11. Refused'
  BY <1>1, <1>6, RefusedStays DEF SInv
<1> QED
  BY <1>1, <1>6, <1>7, <1>8, <1>9, <1>10, <1>11 DEF SInv

\* call() of a component.
LEMMA CallStep ==
  ASSUME TypeOK, NEW t \in Topics, Call(t)
  PROVE  /\ TypeOK' /\ Calm /\ page = "private" /\ UNCHANGED <<scenario, page, login, server>>
         /\ cl'.public = cl.public /\ cl'.verdict = cl.verdict /\ cl'.subs = cl.subs /\ cl'.data = cl.data
         /\ cl.call.st = "none" /\ cl'.call.st = "pending" /\ cl'.call.era = login.era
         /\ cl'.call.ran = cl.call.ran /\ Says(<<"rpc", t>>)
<1>1. Sound(cl) /\ TypesOfRest
  BY Types
<1>. DEFINE k == [cl.call EXCEPT !.st = "pending", !.topic = t, !.era = login.era]
            c == [cl EXCEPT !.call = k]
            m == <<"rpc", t>>
<1>2. cl.call \in Calls /\ login.era \in 0..MaxEras
  BY <1>1, Fields, ConstantsAssumption DEF TypesOfRest
<1>3. k \in Calls /\ k.st = "pending" /\ k.era = login.era /\ k.ran = cl.call.ran
  BY <1>2 DEF Calls
<1>4. /\ Calm /\ page = "private" /\ UNCHANGED <<scenario, page, login, server, faults>>
      /\ cl.call.st = "none" /\ cl' = Send(c, m)
  BY <1>1, <1>2 DEF Call, Sound, Clients
<1>5. m \in Messages
  BY DEF Messages
<1> HIDE DEF k, m
<1>6. Sound(c)
  BY <1>1, <1>3, Updates
<1>7. /\ c.ws = cl.ws /\ c.sock = cl.sock /\ c.public = cl.public /\ c.hung = cl.hung
      /\ c.verdict = cl.verdict /\ c.queue = cl.queue /\ c.data = cl.data /\ c.call = k /\ c.subs = cl.subs
  BY <1>1 DEF Sound, Clients
<1> HIDE DEF c
<1>8. /\ cl'.public = cl.public /\ cl'.verdict = cl.verdict /\ cl'.data = cl.data /\ cl'.call = k /\ cl'.subs = cl.subs
      /\ Sound(cl')
  BY <1>4, <1>5, <1>6, <1>7, SendSound, SendsRest
<1>9. Says(m)
  BY <1>4, <1>5, <1>6, <1>7, SaysIt
<1>10. TypeOK'
  BY <1>1, <1>4, <1>8 DEF TypeOK, TypesOfRest, Sound, Counts
<1> QED
  BY <1>3, <1>4, <1>8, <1>9, <1>10 DEF m

LEMMA CallKeeps == ASSUME SInv, NEW t \in Topics, Call(t) PROVE SInv'
<1>0. TypeOK /\ CInv
  BY DEF SInv, CInv
<1>. DEFINE m == <<"rpc", t>>
            w == cl.ws
<1>1. /\ TypeOK' /\ Calm /\ page = "private" /\ UNCHANGED <<scenario, page, login, server>>
      /\ cl'.public = cl.public /\ cl'.verdict = cl.verdict /\ cl'.subs = cl.subs /\ cl'.data = cl.data
      /\ cl.call.st = "none" /\ cl'.call.st = "pending" /\ cl'.call.era = login.era
      /\ cl'.call.ran = cl.call.ran /\ Says(m)
  BY <1>0, CallStep
<1>2. m \in Messages /\ IsCall(m)
  BY DEF Messages, IsCall
<1>3. cl.sock \in [Sockets -> SocketStates] /\ cl.queue \in Seq(Messages)
  BY <1>0, Types, Fields
<1>4. \A i \in Sockets : cl.sock[i].up \in Seq(Messages)
  BY <1>3 DEF SocketStates
<1>5. cl.call.ran = <<>> /\ ~Holds(cl.queue) /\ \A i \in Sockets : ~Holds(cl.sock[i].up)
  BY <1>0, <1>1 DEF CInv, CallsOnce, Up
<1>6. \A s \in Seq(Messages) : ~Holds(s) /\ OneCall(s) => OneCall(Append(s, m))
  BY <1>2, OneAppended
<1>7. OneCall(cl.queue) /\ \A i \in Sockets : OneCall(cl.sock[i].up)
  BY <1>0 DEF CInv, CallsOnce, Up
<1> HIDE DEF m
<1>8. ASSUME IsOpen(cl) PROVE CallsOnce' /\ OfLogin'
  <2>1. /\ IsOpen(cl') /\ cl'.ws = w /\ w \in Sockets /\ cl'.queue = cl.queue
        /\ cl'.sock[w].up = Append(cl.sock[w].up, m)
        /\ \A i \in Sockets : i # w => cl'.sock[i] = cl.sock[i]
        /\ \A i \in Sockets : cl'.sock[i].era = cl.sock[i].era
    BY <1>0, <1>1, <1>2, <1>8, SaidIt
  <2>2. OneCall(cl'.sock[w].up)
    BY <1>4, <1>5, <1>6, <1>7, <2>1
  <2>3. CallsOnce'
    BY <1>1, <1>5, <1>7, <2>1, <2>2 DEF CallsOnce, Up
  <2>4. OfLogin'
    BY <1>0, <1>1, <1>5, <1>8, <2>1 DEF CInv, OfLogin, Up
  <2> QED
    BY <2>3, <2>4
<1>9. ASSUME ~IsOpen(cl) PROVE CallsOnce' /\ OfLogin'
  <2>1. /\ ~IsOpen(cl') /\ cl'.queue = Append(cl.queue, m)
        /\ \A i \in Sockets : cl'.sock[i].up = cl.sock[i].up
    BY <1>0, <1>1, <1>2, <1>9, SaidIt
  <2>2. OneCall(cl'.queue)
    BY <1>3, <1>5, <1>6, <1>7, <2>1
  <2>3. CallsOnce'
    BY <1>1, <1>5, <1>7, <2>1, <2>2 DEF CallsOnce, Up
  <2>4. OfLogin'
    BY <1>0, <1>1, <1>5, <2>1 DEF CInv, OfLogin, Up
  <2> QED
    BY <2>3, <2>4
<1>10. CallRunsOnce'
  BY <1>1, <1>5 DEF CallRunsOnce, ToSet
<1>11. CInv'
  BY <1>1, <1>8, <1>9, <1>10 DEF CInv
<1>12. /\ IsOpen(cl') => /\ IsOpen(cl) /\ cl'.ws = cl.ws
                         /\ cl'.sock[cl.ws].session = cl.sock[cl.ws].session
       /\ "linger" \notin scenario /\ OneSocket => OneSocket'
       /\ \A i \in Sockets : Steady(i)
  BY <1>0, <1>1, <1>2, SaidIt
<1>13. Counted' = Counted
  BY <1>1 DEF Counted
<1>14. ShownOK'
  BY <1>1, <1>12, <1>13 DEF ShownOK, SInv
<1>15. ServedSoon => ServedSoon'
  <2>1. \A u \in Topics : m # <<"sub", u>> /\ m # <<"unsub", u>>
    BY DEF m
  <2>2. cl'.subs \in [Topics -> 0..2]
    BY <1>1 DEF TypeOK, Clients
  <2> QED
    BY <1>0, <1>1, <1>2, <1>13, <2>1, <2>2, ServedSaid
<1>16. Fresh'
  BY <1>1, <1>12, FreshStays DEF SInv, SameBackend
<1>17. Refused'
  BY <1>1, <1>12, RefusedStays DEF SInv
<1> QED
  BY <1>1, <1>11, <1>12, <1>14, <1>15, <1>16, <1>17 DEF SInv

-----------------------------------------------------------------------------
(* The steps of a socket: onopen, a message from the backend, a message to it. *)

LEMMA OpensKeeps == ASSUME SInv, NEW i \in Sockets, Opens(i) PROVE SInv'
<1>0. TypeOK /\ CInv /\ Sound(cl)
  BY Types DEF SInv, CInv
<1>1. TypeOK' /\ OpensTo(i) /\ UNCHANGED <<scenario, page, login, server>>
  BY <1>0, OpensStep
<1>2. ~cl.hung /\ cl.sock[i].st = "connecting" /\ server.up
  BY DEF Opens
<1>. DEFINE out == Outgoing(cl)
            w == cl.ws
<1>3. PICK code \in {"none", "auth", "refused"} :
        LET S == [cl.sock EXCEPT ![i] = Connected(code)]
            live == w # 0 /\ S[w].st = "open"
        IN /\ code = "auth" => ~login.ok
           /\ cl'.ws = w /\ cl'.public = cl.public /\ cl'.subs = cl.subs
           /\ cl'.call = cl.call /\ cl'.data = NoData /\ cl'.verdict = cl.verdict
           /\ live => /\ cl'.queue = <<>> /\ cl'.hung = cl.hung
                      /\ cl'.sock = [S EXCEPT ![w] = [S[w] EXCEPT !.up = S[w].up \o out]]
           /\ ~live => cl'.sock = S /\ cl'.queue = out
  BY <1>1 DEF OpensTo
<1>. DEFINE new == Connected(code)
            S == [cl.sock EXCEPT ![i] = new]
            live == w # 0 /\ S[w].st = "open"
<1>4. cl.sock \in [Sockets -> SocketStates] /\ cl.queue \in Seq(Messages) /\ w \in 0..MaxSockets
  BY <1>0, Fields
<1>5. new \in SocketStates
  BY <1>0, Types, NewSocket
<1>6. /\ new.st = "open" /\ new.up = <<>> /\ new.era = login.era /\ new.served = {}
      /\ new.down = <<>> /\ new.session = server.session
      /\ new.code = "auth" => ~login.ok
  BY <1>3 DEF Connected
<1> HIDE DEF new
<1>7. S \in [Sockets -> SocketStates] /\ S[i] = new /\ \A j \in Sockets \ {i} : S[j] = cl.sock[j]
  BY <1>4, <1>5
<1>8. /\ live => /\ cl'.queue = <<>> /\ cl'.hung = cl.hung
                 /\ cl'.sock = [S EXCEPT ![w] = [S[w] EXCEPT !.up = S[w].up \o out]]
      /\ ~live => cl'.sock = S /\ cl'.queue = out
      /\ cl'.ws = w /\ cl'.public = cl.public /\ cl'.subs = cl.subs
      /\ cl'.call = cl.call /\ cl'.data = NoData /\ cl'.verdict = cl.verdict
  BY <1>3 DEF new
<1> HIDE DEF S
<1>9. live => w \in Sockets
  BY <1>4, ConstantsAssumption DEF Sockets
<1>10. /\ out \in Seq(Messages) /\ (Holds(out) <=> Holds(cl.queue))
       /\ OneCall(cl.queue) => OneCall(out)
  BY <1>0, Outgoes DEF Sound
<1> HIDE DEF out
<1>11. ASSUME live
       PROVE  LET T == cl'.sock[w] IN
              /\ T.up = S[w].up \o out /\ T.st = "open" /\ T.era = S[w].era
              /\ T.served = S[w].served /\ T.code = S[w].code
              /\ T.session = S[w].session /\ T.down = S[w].down
              /\ \A j \in Sockets : j # w => cl'.sock[j] = S[j]
  <2>1. S[w] \in SocketStates
    BY <1>7, <1>9, <1>11
  <2>. DEFINE T == [S[w] EXCEPT !.up = S[w].up \o out]
  <2>2. /\ T.up = S[w].up \o out /\ T.st = S[w].st /\ T.era = S[w].era
        /\ T.served = S[w].served /\ T.code = S[w].code
        /\ T.session = S[w].session /\ T.down = S[w].down
    BY <2>1 DEF SocketStates
  <2> HIDE DEF T
  <2>3. cl'.sock[w] = T /\ \A j \in Sockets : j # w => cl'.sock[j] = S[j]
    BY <1>7, <1>8, <1>9, <1>11 DEF T
  <2> QED
    BY <1>11, <2>2, <2>3
<1>12. /\ OneCall(cl.queue) /\ OneCall(out) /\ \A j \in Sockets : OneCall(S[j].up)
       /\ Holds(out) => \A j \in Sockets : ~Holds(S[j].up)
       /\ \A j, k \in Sockets : Holds(S[j].up) /\ Holds(S[k].up) => j = k
       /\ cl.call.st = "none" \/ cl.call.ran # <<>> =>
            ~Holds(out) /\ \A j \in Sockets : ~Holds(S[j].up)
       /\ cl.call.st = "none" => cl.call.ran = <<>>
       /\ \A j \in Sockets : Holds(S[j].up) => S[j].era = cl.call.era
  <2>1. \A j \in Sockets : \/ S[j].up = cl.sock[j].up /\ S[j].era = cl.sock[j].era
                           \/ S[j].up = <<>>
    BY <1>6, <1>7
  <2> QED
    BY <1>0, <1>10, <2>1, Nothing DEF CInv, CallsOnce, OfLogin, Up
<1>13. live => S[w].era = login.era
  <2>1. w # i /\ live => IsOpen(cl)
    BY <1>7, <1>9 DEF IsOpen
  <2> QED
    BY <1>0, <1>6, <1>7, <1>9, <2>1 DEF CInv, OfLogin
<1>14. ASSUME live PROVE CallsOnce' /\ OfLogin'
  <2>1. S[w].up \in Seq(Messages)
    BY <1>7, <1>9, <1>14 DEF SocketStates
  <2>2. /\ Holds(cl'.sock[w].up) <=> Holds(S[w].up) \/ Holds(out)
        /\ OneCall(cl'.sock[w].up)
    <3>1. cl'.sock[w].up = S[w].up \o out
      BY <1>11, <1>14
    <3>2. OneCall(S[w].up) /\ OneCall(out) /\ ~(Holds(S[w].up) /\ Holds(out))
      BY <1>9, <1>12, <1>14
    <3> QED
      BY <1>10, <2>1, <3>1, <3>2, OneJoined
  <2>3. \A j \in Sockets : j # w => cl'.sock[j] = S[j]
    BY <1>11, <1>14
  <2>4. cl'.queue = <<>> /\ cl'.call = cl.call
    BY <1>8, <1>14
  <2>5. CallsOnce'
    BY <1>9, <1>12, <1>14, <2>2, <2>3, <2>4, Nothing DEF CallsOnce, Up
  <2>6. Holds(cl.queue) => cl.call.era = login.era
    BY <1>0 DEF CInv, OfLogin
  <2>7. \A j \in Sockets : Holds(cl'.sock[j].up) => cl'.sock[j].era = cl'.call.era
    BY <1>9, <1>10, <1>11, <1>12, <1>13, <1>14, <2>2, <2>3, <2>4, <2>6
  <2>8. page' = "public" => cl'.public /\ cl'.ws = 0 /\ cl'.queue = <<>> /\ cl'.subs = NoData
    BY <1>0, <1>1, <1>8, <2>4 DEF CInv, OfLogin
  <2>9. IsOpen(cl') => cl'.sock[cl'.ws].era = login'.era
    BY <1>1, <1>8, <1>11, <1>13, <1>14
  <2> QED
    BY <2>4, <2>5, <2>7, <2>8, <2>9, Nothing DEF OfLogin, Up
<1>15. ASSUME ~live PROVE CallsOnce' /\ OfLogin'
  <2>1. cl'.sock = S /\ cl'.queue = out /\ cl'.call = cl.call /\ cl'.ws = w
    BY <1>8, <1>15
  <2>2. CallsOnce'
    BY <1>12, <2>1 DEF CallsOnce, Up
  <2>3. ~IsOpen(cl')
    BY <1>15, <2>1 DEF IsOpen
  <2>4. page = "public" => cl.public /\ cl.ws = 0 /\ cl.subs = NoData /\ out = <<>>
    BY <1>0, NothingOutgoing DEF CInv, OfLogin, Sound, out
  <2>5. page' = "public" => cl'.public /\ cl'.ws = 0 /\ cl'.queue = <<>> /\ cl'.subs = NoData
    BY <1>1, <1>8, <2>1, <2>4
  <2> QED
    BY <1>0, <1>1, <1>8, <1>10, <1>12, <2>1, <2>2, <2>3, <2>5 DEF CInv, OfLogin, Up
<1>16. CallRunsOnce'
  BY <1>0, <1>8 DEF CInv, CallRunsOnce
<1>17. CInv'
  BY <1>1, <1>14, <1>15, <1>16 DEF CInv
<1>18. ShownOK'
  BY <1>8 DEF ShownOK, NoData
<1>19. ASSUME OneSocket PROVE live /\ i = w /\ OneSocket'
  <2>1. i = w /\ live
    BY <1>2, <1>6, <1>7, <1>19 DEF OneSocket, Sockets
  <2>2. \A j \in Sockets : cl'.sock[j].st # "none" <=> j = cl'.ws
    <3>1. cl'.sock[w].st = "open" /\ \A j \in Sockets : j # w => cl'.sock[j] = cl.sock[j]
      BY <1>7, <1>11, <2>1
    <3>2. \A j \in Sockets : j # w => cl.sock[j].st = "none"
      BY <1>19 DEF OneSocket
    <3>3. cl'.ws = w
      BY <1>8
    <3> QED
      BY <3>1, <3>2, <3>3
  <2> QED
    BY <1>8, <1>19, <2>1, <2>2 DEF OneSocket
<1>20. ASSUME OneSocket, ServedSoon PROVE ServedSoon'
  <2>. DEFINE sub == SetToSeq(SubsOf(cl))
              q == cl.queue
  <2>1. i = w /\ live
    BY <1>19, <1>20
  <2>2. /\ cl'.queue = <<>> /\ cl'.ws = w /\ cl'.sock[w].up = <<>> \o out
        /\ cl'.sock[w].served = {}
    BY <1>6, <1>7, <1>8, <1>11, <2>1
  <2>3. out = sub \o q
    BY DEF Outgoing, SubsOf, out
  <2>4. /\ sub \in Seq(Messages)
        /\ \A n \in DOMAIN sub : sub[n] \in SubsOf(cl)
        /\ \A t \in Topics : t \in Counted => \E n \in DOMAIN sub : sub[n] = <<"sub", t>>
    BY <1>0, Subscriptions DEF Sound, Counted
  <2>5. \A n \in DOMAIN sub, t \in Topics :
          sub[n] # <<"unsub", t>> /\ (sub[n] = <<"sub", t>> => t \in Counted)
    BY <2>4 DEF SubsOf, Counted
  <2>6. \A n \in DOMAIN q, t \in Topics :
          q[n] # <<"sub", t>> /\ (q[n] = <<"unsub", t>> => t \notin Counted)
    BY <1>20 DEF ServedSoon
  <2> HIDE DEF sub, q
  <2>7. <<>> \o out = sub \o q
    BY <1>10, <2>3
  <2>. DEFINE up == sub \o q
  <2>8. /\ \A n \in DOMAIN sub : n \in DOMAIN up /\ up[n] = sub[n]
        /\ \A n \in DOMAIN up : (n \in DOMAIN sub /\ up[n] = sub[n])
                                \/ \E k \in DOMAIN q : up[n] = q[k]
    <3>1. q \in Seq(Messages)
      BY <1>4 DEF q
    <3>2. \A n \in DOMAIN up : n \in DOMAIN sub \/ (n - Len(sub) \in DOMAIN q /\ n > Len(sub))
      BY <2>4, <3>1, Joined
    <3>3. \A n \in DOMAIN up : n - Len(sub) \in DOMAIN q => up[n] = q[n - Len(sub)]
      <4>1. \A k \in DOMAIN q : up[Len(sub) + k] = q[k]
        BY <2>4, <3>1, Joined
      <4>2. DOMAIN up \subseteq Nat /\ Len(sub) \in Nat
        BY <2>4, <3>1
      <4>3. \A n \in DOMAIN up : Len(sub) + (n - Len(sub)) = n
        BY <4>2
      <4> QED
        BY <4>1, <4>3
    <3>4. \A n \in DOMAIN sub : n \in DOMAIN up /\ up[n] = sub[n]
      BY <2>4, <3>1, Joined
    <3> QED
      BY <3>2, <3>3, <3>4
  <2> HIDE DEF up
  <2>9. ASSUME NEW t \in Topics, t \in Counted
        PROVE  LastOf(up, <<"sub", t>>, <<"unsub", t>>, t \in {})
    <3>1. \A n \in DOMAIN up : up[n] # <<"unsub", t>>
      BY <2>5, <2>6, <2>8, <2>9
    <3>2. \E n \in DOMAIN up : up[n] = <<"sub", t>>
      BY <2>4, <2>8, <2>9
    <3> QED
      BY <3>1, <3>2 DEF LastOf
  <2>10. ASSUME NEW t \in Topics, t \notin Counted
         PROVE  LastOf(up, <<"unsub", t>>, <<"sub", t>>, t \notin {})
    <3>1. \A n \in DOMAIN up : up[n] # <<"sub", t>>
      BY <2>5, <2>6, <2>8, <2>10
    <3> QED
      BY <3>1 DEF LastOf
  <2>11. \A t \in Topics : IF t \in Counted
                            THEN LastOf(up, <<"sub", t>>, <<"unsub", t>>, t \in {})
                            ELSE LastOf(up, <<"unsub", t>>, <<"sub", t>>, t \notin {})
    BY <2>9, <2>10
  <2>12. Counted' = Counted
    BY <1>8 DEF Counted
  <2>13. Up(cl.ws)' = up /\ cl'.sock[cl'.ws].served = {}
    BY <2>2, <2>7 DEF Up, up
  <2>14. /\ IsOpen(cl') => cl'.queue = <<>>
         /\ DOMAIN cl'.queue = {}
    BY <2>2
  <2>15. \A t \in Topics : WillServe(Up(cl.ws), t, cl.sock[cl.ws].served)'
    BY <2>11, <2>12, <2>13 DEF WillServe
  <2> QED
    BY <2>14, <2>15 DEF ServedSoon
<1>21. Fresh'
  <2>1. \A j \in Sockets : /\ cl'.sock[j].st = S[j].st /\ cl'.sock[j].code = S[j].code
                           /\ cl'.sock[j].down = S[j].down /\ cl'.sock[j].session = S[j].session
                           /\ (live /\ j = w) \/ cl'.sock[j].up = S[j].up
    BY <1>8, <1>11
  <2>2. \A j \in Sockets : S[j].st = "open" =>
          /\ S[j].code = "none" => S[j].session = server.session
          /\ S[j].down # <<>> => S[j].code = "none"
    BY <1>6, <1>7 DEF SInv, Fresh
  <2>3. IsOpen(cl') => live /\ w \in Sockets
    BY <1>8, <1>9, <2>1 DEF IsOpen
  <2>4. ASSUME IsOpen(cl'), NEW j \in Sockets, S[j].st = "open", S[j].code = "none",
               cl'.sock[j].up # <<>> \/ S[j].down # <<>>
        PROVE  S[w].session = S[j].session
    <3>1. CASE j = w
      BY <3>1
    <3>2. CASE w = i
      BY <1>6, <1>7, <2>2, <2>4, <3>2
    <3>3. CASE j # w /\ w # i
      <4>1. j # i
        BY <1>6, <1>7, <2>1, <2>4, <3>3
      <4>2. S[j] = cl.sock[j] /\ S[w] = cl.sock[w] /\ IsOpen(cl) /\ cl'.sock[j].up = S[j].up
        BY <1>7, <2>1, <2>3, <2>4, <3>3, <4>1 DEF IsOpen
      <4> QED
        BY <2>4, <4>2 DEF SInv, Fresh
    <3> QED
      BY <3>1, <3>2, <3>3
  <2> QED
    BY <1>1, <1>2, <1>8, <2>1, <2>2, <2>3, <2>4 DEF Fresh
<1>22. Refused'
  <2>1. \A j \in Sockets : cl'.sock[j].code = S[j].code /\ cl'.sock[j].st = S[j].st
    BY <1>8, <1>11
  <2>2. \A j \in Sockets : S[j].code = "auth" =>
          S[j].st # "none" /\ ("linger" \notin scenario => ~login.ok)
    BY <1>6, <1>7 DEF SInv, Refused
  <2> QED
    BY <1>1, <1>8, <2>1, <2>2 DEF SInv, Refused
<1> QED
  BY <1>1, <1>17, <1>18, <1>19, <1>20, <1>21, <1>22 DEF SInv

\* onMessage().
LEMMA DeliverStep ==
  ASSUME TypeOK, NEW i \in Sockets, Deliver(i)
  PROVE  /\ TypeOK' /\ UNCHANGED <<scenario, page, login, server>>
         /\ cl.sock[i].st = "open" /\ cl.sock[i].down # <<>>
         /\ cl'.verdict = cl.verdict /\ cl'.ws = cl.ws /\ cl'.public = cl.public /\ cl'.hung = cl.hung
         /\ cl'.queue = cl.queue /\ cl'.subs = cl.subs /\ SameCall(cl'.call, cl.call)
         /\ \A j \in Sockets : /\ cl'.sock[j].up = cl.sock[j].up /\ cl'.sock[j].era = cl.sock[j].era
                               /\ cl'.sock[j].st = cl.sock[j].st /\ cl'.sock[j].code = cl.sock[j].code
                               /\ cl'.sock[j].served = cl.sock[j].served
                               /\ cl'.sock[j].session = cl.sock[j].session
                               /\ cl'.sock[j].down = cl.sock[j].down \/ j = i
         /\ \/ cl'.data = cl.data
            \/ \E t \in Counted : cl'.data = [cl.data EXCEPT ![t] = cl.sock[i].session]
<1>1. Sound(cl) /\ TypesOfRest
  BY Types
<1>. DEFINE m == Head(cl.sock[i].down)
            r == [cl.sock[i] EXCEPT !.down = Tail(cl.sock[i].down)]
            S == [cl.sock EXCEPT ![i] = r]
            c == [cl EXCEPT !.sock = S]
            d == [cl.data EXCEPT ![m[2]] = cl.sock[i].session]
            k == [cl.call EXCEPT !.st = "done"]
<1>2. /\ cl.sock \in [Sockets -> SocketStates] /\ cl.sock[i] \in SocketStates
      /\ cl.data \in [Topics -> 0..MaxSessions] /\ cl.call \in Calls
  BY <1>1, Fields
<1>3. /\ cl.sock[i].down \in Seq({"full", "reply"} \X Topics)
      /\ cl.sock[i].session \in 0..MaxSessions
  BY <1>2 DEF SocketStates
<1>4. /\ cl.sock[i].st = "open" /\ cl.sock[i].down # <<>>
      /\ UNCHANGED <<scenario, page, login, server, faults>>
  BY DEF Deliver
<1>5. m \in {"full", "reply"} \X Topics /\ Tail(cl.sock[i].down) \in Seq({"full", "reply"} \X Topics)
  BY <1>3, <1>4
<1>6. r \in SocketStates
  BY <1>2, <1>5 DEF SocketStates
<1>7. /\ r.up = cl.sock[i].up /\ r.era = cl.sock[i].era /\ r.st = cl.sock[i].st
      /\ r.code = cl.sock[i].code /\ r.served = cl.sock[i].served /\ r.session = cl.sock[i].session
  BY <1>2 DEF SocketStates
<1>8. [cl EXCEPT !.sock[i].down = Tail(@)] = c
  BY <1>1, <1>2 DEF Sound, Clients
<1>9. cl' = CASE m[1] = "full" /\ cl.subs[m[2]] > 0 -> [c EXCEPT !.data[m[2]] = cl.sock[i].session]
              [] m[1] = "reply" /\ cl.call.st = "pending" -> [c EXCEPT !.call.st = "done"]
              [] OTHER -> c
  BY <1>8 DEF Deliver
<1> HIDE DEF r
<1>10. S \in [Sockets -> SocketStates]
  BY <1>2, <1>6
<1>11. \A j \in Sockets : /\ S[j].up = cl.sock[j].up /\ S[j].era = cl.sock[j].era
                          /\ S[j].st = cl.sock[j].st /\ S[j].code = cl.sock[j].code
                          /\ S[j].served = cl.sock[j].served /\ S[j].session = cl.sock[j].session
                          /\ S[j].down = cl.sock[j].down \/ j = i
  BY <1>2, <1>7
<1> HIDE DEF S, m
<1>12. Sound(c)
  BY <1>1, <1>10, Updates
<1>13. /\ c.verdict = cl.verdict /\ c.ws = cl.ws /\ c.public = cl.public /\ c.hung = cl.hung /\ c.sock = S
       /\ c.queue = cl.queue /\ c.subs = cl.subs /\ c.call = cl.call /\ c.data = cl.data
  BY <1>1 DEF Sound, Clients
<1> HIDE DEF c
<1>14. ASSUME Sound(cl') PROVE TypeOK'
  BY <1>1, <1>4, <1>14 DEF TypeOK, TypesOfRest, Sound, Counts
<1>15. CASE m[1] = "full" /\ cl.subs[m[2]] > 0
  <2>1. cl' = [c EXCEPT !.data[m[2]] = cl.sock[i].session]
    BY <1>9, <1>15
  <2>2. cl' = [c EXCEPT !.data = d]
    BY <1>12, <1>13, <2>1 DEF Sound, Clients
  <2>3. m[2] \in Topics /\ d \in [Topics -> 0..MaxSessions]
    BY <1>2, <1>3, <1>5
  <2>4. m[2] \in Counted /\ \E t \in Counted : d = [cl.data EXCEPT ![t] = cl.sock[i].session]
    BY <1>15, <2>3 DEF Counted
  <2> HIDE DEF d
  <2>5. Sound(cl')
    BY <1>12, <2>2, <2>3, Updates
  <2>6. /\ cl'.verdict = c.verdict /\ cl'.ws = c.ws /\ cl'.public = c.public /\ cl'.hung = c.hung /\ cl'.sock = c.sock
        /\ cl'.queue = c.queue /\ cl'.subs = c.subs /\ cl'.call = c.call /\ cl'.data = d
    BY <1>12, <2>2 DEF Sound, Clients
  <2>7. TypeOK' /\ SameCall(cl'.call, cl.call)
    BY <1>13, <1>14, <2>5, <2>6 DEF SameCall
  <2> QED
    BY <1>4, <1>11, <1>13, <2>4, <2>6, <2>7
<1>16. CASE ~(m[1] = "full" /\ cl.subs[m[2]] > 0) /\ m[1] = "reply" /\ cl.call.st = "pending"
  <2>1. cl' = [c EXCEPT !.call.st = "done"]
    BY <1>9, <1>16
  <2>2. k \in Calls /\ k.ran = cl.call.ran /\ k.era = cl.call.era /\ k.st = "done"
    BY <1>2 DEF Calls
  <2>3. cl' = [c EXCEPT !.call = k]
    BY <1>12, <1>13, <2>1 DEF Sound, Clients
  <2> HIDE DEF k
  <2>4. Sound(cl')
    BY <1>12, <2>2, <2>3, Updates
  <2>5. /\ cl'.verdict = c.verdict /\ cl'.ws = c.ws /\ cl'.public = c.public /\ cl'.hung = c.hung /\ cl'.sock = c.sock
        /\ cl'.queue = c.queue /\ cl'.subs = c.subs /\ cl'.call = k /\ cl'.data = c.data
    BY <1>12, <2>3 DEF Sound, Clients
  <2>6. TypeOK' /\ SameCall(cl'.call, cl.call)
    BY <1>14, <1>16, <2>2, <2>4, <2>5 DEF SameCall
  <2> QED
    BY <1>4, <1>11, <1>13, <2>5, <2>6
<1>17. CASE /\ ~(m[1] = "full" /\ cl.subs[m[2]] > 0)
            /\ ~(m[1] = "reply" /\ cl.call.st = "pending")
  <2>1. cl' = c
    BY <1>9, <1>17
  <2>2. TypeOK' /\ SameCall(cl'.call, cl.call)
    BY <1>12, <1>13, <1>14, <2>1 DEF SameCall
  <2> QED
    BY <1>4, <1>11, <1>13, <2>1, <2>2
<1> QED
  BY <1>15, <1>16, <1>17

LEMMA DeliverKeeps == ASSUME SInv, NEW i \in Sockets, Deliver(i) PROVE SInv'
<1>0. TypeOK /\ CInv /\ Sound(cl)
  BY Types DEF SInv, CInv
<1>1. /\ TypeOK' /\ UNCHANGED <<scenario, page, login, server>>
      /\ cl.sock[i].st = "open" /\ cl.sock[i].down # <<>>
      /\ cl'.verdict = cl.verdict /\ cl'.ws = cl.ws /\ cl'.public = cl.public /\ cl'.hung = cl.hung
      /\ cl'.queue = cl.queue /\ cl'.subs = cl.subs /\ SameCall(cl'.call, cl.call)
      /\ \A j \in Sockets : /\ cl'.sock[j].up = cl.sock[j].up /\ cl'.sock[j].era = cl.sock[j].era
                            /\ cl'.sock[j].st = cl.sock[j].st /\ cl'.sock[j].code = cl.sock[j].code
                            /\ cl'.sock[j].served = cl.sock[j].served
                            /\ cl'.sock[j].session = cl.sock[j].session
                            /\ cl'.sock[j].down = cl.sock[j].down \/ j = i
      /\ \/ cl'.data = cl.data
         \/ \E t \in Counted : cl'.data = [cl.data EXCEPT ![t] = cl.sock[i].session]
  BY <1>0, DeliverStep
<1>2. cl.ws # 0 => cl.ws \in Sockets
  <2>1. cl.ws \in 0..MaxSockets
    BY <1>0, Fields
  <2> QED
    BY <2>1, ConstantsAssumption DEF Sockets
<1>3. /\ (IsOpen(cl') <=> IsOpen(cl)) /\ Counted' = Counted
      /\ OneSocket => OneSocket'
  BY <1>1, <1>2 DEF IsOpen, Counted, OneSocket
<1>4. CallsStay
  BY <1>1 DEF CallsStay
<1>5. OfLogin' /\ CallsOnce' /\ CallRunsOnce'
  <2>1. /\ CallsOnce' /\ CallRunsOnce'
        /\ \A j \in Sockets : Holds(cl'.sock[j].up) => cl'.sock[j].era = cl'.call.era
        /\ Holds(cl'.queue) => cl'.call.era = login.era
    BY <1>0, <1>4, StayingCalls
  <2>2. IsOpen(cl') => cl'.sock[cl'.ws].era = login'.era
    BY <1>0, <1>1, <1>2, <1>3 DEF CInv, OfLogin, IsOpen
  <2> QED
    BY <1>0, <1>1, <2>1, <2>2 DEF CInv, OfLogin, Up
<1>6. CInv'
  BY <1>1, <1>5 DEF CInv
<1>7. ShownOK'
  <2>1. IsOpen(cl) => cl.sock[cl.ws].session = cl.sock[i].session
    BY <1>1 DEF SInv, Fresh
  <2>2. \A t \in Topics : cl'.data[t] # 0 =>
          cl'.data[t] = cl.data[t] \/ (t \in Counted /\ cl'.data[t] = cl.sock[i].session)
    <3>1. cl.data \in [Topics -> 0..MaxSessions]
      BY <1>0, Fields
    <3> QED
      BY <1>1, <3>1
  <2> QED
    BY <1>1, <1>2, <1>3, <2>1, <2>2 DEF ShownOK, SInv, IsOpen
<1>8. ASSUME ServedSoon PROVE ServedSoon'
  <2>1. cl.ws \in Sockets /\ IsOpen(cl) =>
          /\ Up(cl.ws)' = Up(cl.ws) /\ cl'.sock[cl'.ws].code = cl.sock[cl.ws].code
          /\ cl'.sock[cl'.ws].served = cl.sock[cl.ws].served
    BY <1>1 DEF Up
  <2>2. IsOpen(cl) => cl.ws \in Sockets
    BY <1>2 DEF IsOpen
  <2> QED
    BY <1>1, <1>3, <1>8, <2>1, <2>2 DEF ServedSoon, WillServe
<1>9. Fresh'
  <2>1. \A j \in Sockets : Steady(j)
    BY <1>1 DEF Steady, SInv, Fresh
  <2> QED
    BY <1>1, <1>2, <1>3, <2>1, FreshStays DEF SInv, SameBackend, IsOpen
<1>10. Refused'
  <2>1. \A j \in Sockets : Steady(j)
    BY <1>1 DEF Steady, SInv, Fresh
  <2> QED
    BY <1>1, <2>1, RefusedStays DEF SInv
<1> QED
  BY <1>1, <1>3, <1>6, <1>7, <1>8, <1>9, <1>10 DEF SInv

\* handle_job(): what a connection serves after a message, and what the step changes.
ServesNext(served, m) ==
    IF m[1] = "sub" THEN served \cup {m[2]} ELSE IF m[1] = "unsub" THEN served \ {m[2]} ELSE served
Handled(i) ==
    /\ TypeOK' /\ UNCHANGED <<scenario, page, login, server>>
    /\ cl.sock[i].st = "open" /\ cl.sock[i].code = "none"
    /\ cl'.verdict = cl.verdict /\ cl'.ws = cl.ws /\ cl'.public = cl.public /\ cl'.hung = cl.hung
    /\ cl'.queue = cl.queue /\ cl'.subs = cl.subs /\ cl'.data = cl.data
    /\ cl.sock[i].up # <<>> /\ cl'.sock[i].up = Tail(cl.sock[i].up)
    /\ cl'.sock[i].served = ServesNext(cl.sock[i].served, Head(cl.sock[i].up))
    /\ \A j \in Sockets : /\ cl'.sock[j].era = cl.sock[j].era
                          /\ cl'.sock[j].st = cl.sock[j].st /\ cl'.sock[j].code = cl.sock[j].code
                          /\ cl'.sock[j].session = cl.sock[j].session
                          /\ j # i => cl'.sock[j] = cl.sock[j]
    /\ cl'.call.st = cl.call.st /\ cl'.call.era = cl.call.era
    /\ \/ cl'.call.ran = cl.call.ran
       \/ IsCall(Head(cl.sock[i].up)) /\ cl'.call.ran = Append(cl.call.ran, cl.sock[i].era)

LEMMA HandleStep == ASSUME TypeOK, NEW i \in Sockets, HandleJob(i) PROVE Handled(i)
<1>1. Sound(cl) /\ TypesOfRest
  BY Types
<1>. DEFINE s == cl.sock[i]
            m == Head(s.up)
            up == Tail(s.up)
            Downs == {"full", "reply"} \X Topics
<1>2. cl.sock \in [Sockets -> SocketStates] /\ s \in SocketStates /\ cl.call \in Calls
  BY <1>1, Fields
<1>3. /\ s.up \in Seq(Messages) /\ s.down \in Seq(Downs) /\ s.served \subseteq Topics
      /\ s.era \in 0..MaxEras
  BY <1>2 DEF SocketStates
<1>4. /\ s.st = "open" /\ s.code = "none" /\ s.up # <<>>
      /\ UNCHANGED <<scenario, page, login, server, faults>>
  BY DEF HandleJob
<1>5. m \in Messages /\ up \in Seq(Messages)
  BY <1>3, <1>4
<1>6. m[2] \in Topics /\ m[1] \in {"sub", "unsub", "rpc"}
  BY <1>5 DEF Messages
<1>. DEFINE c == [cl EXCEPT !.sock[i].up = Tail(@)]
<1>7. cl' = CASE m[1] = "sub" /\ m[2] \notin s.served -> Served(c, i, m[2])
              [] m[1] = "unsub" -> [c EXCEPT !.sock[i].served = @ \ {m[2]}]
              [] m[1] = "rpc" -> [c EXCEPT !.sock[i].down = Append(@, <<"reply", m[2]>>),
                                           !.call.ran = IF m[2] \in s.served
                                                        THEN Append(@, s.era) ELSE @]
              [] OTHER -> c
  BY DEF HandleJob
<1>8. /\ c \in Clients /\ c.sock[i] = [s EXCEPT !.up = up] /\ c.sock \in [Sockets -> SocketStates]
      /\ c.sock[i].served = s.served /\ c.sock[i].down = s.down /\ c.call = cl.call
      /\ c.sock = [cl.sock EXCEPT ![i] = [s EXCEPT !.up = up]]
      /\ \A S, k : [c EXCEPT !.sock = S, !.call = k] = [cl EXCEPT !.sock = S, !.call = k]
  <2>. DEFINE r == [s EXCEPT !.up = up]
              S == [cl.sock EXCEPT ![i] = r]
  <2>1. r \in SocketStates /\ r.served = s.served /\ r.down = s.down
    BY <1>2, <1>5 DEF SocketStates
  <2>2. c = [cl EXCEPT !.sock = S]
    BY <1>1, <1>2 DEF Sound, Clients
  <2> HIDE DEF r
  <2>3. S \in [Sockets -> SocketStates] /\ S[i] = r
    BY <1>2, <2>1
  <2> HIDE DEF S
  <2>4. c \in Clients /\ c.sock = S /\ c.call = cl.call
    BY <1>1, <2>2, <2>3 DEF Sound, Clients
  <2>5. \A T, k : [c EXCEPT !.sock = T, !.call = k] = [cl EXCEPT !.sock = T, !.call = k]
    BY <1>1, <2>2 DEF Sound, Clients
  <2> QED
    BY <2>1, <2>3, <2>4, <2>5 DEF r, S
<1> HIDE DEF c, m, up
\* What the socket and the call become.
<1>. DEFINE Becomes(r) ==
              /\ r \in SocketStates /\ r.up = up /\ r.era = s.era /\ r.st = s.st /\ r.code = s.code
              /\ r.session = s.session /\ r.served = ServesNext(s.served, m)
            Runs(k) ==
              /\ k \in Calls /\ k.st = cl.call.st /\ k.era = cl.call.era
              /\ k.ran = cl.call.ran \/ (IsCall(m) /\ k.ran = Append(cl.call.ran, s.era))
<1>9. ASSUME NEW r, Becomes(r), NEW k, Runs(k),
             cl' = [c EXCEPT !.sock = [c.sock EXCEPT ![i] = r], !.call = k]
      PROVE  Handled(i)
  <2>. DEFINE S == [cl.sock EXCEPT ![i] = r]
              d == [cl EXCEPT !.sock = S]
  <2>1. S \in [Sockets -> SocketStates] /\ S = [c.sock EXCEPT ![i] = r]
    BY <1>2, <1>8, <1>9
  <2>2. /\ S[i].up = up /\ S[i].served = ServesNext(s.served, m)
        /\ \A j \in Sockets : /\ S[j].era = cl.sock[j].era /\ S[j].st = cl.sock[j].st
                              /\ S[j].code = cl.sock[j].code /\ S[j].session = cl.sock[j].session
                              /\ j # i => S[j] = cl.sock[j]
    BY <1>2, <1>9
  <2>3. cl' = [cl EXCEPT !.sock = S, !.call = k]
    BY <1>8, <1>9, <2>1
  <2> HIDE DEF S
  <2>4. Sound(d) /\ cl' = [d EXCEPT !.call = k]
    BY <1>1, <2>1, <2>3, Updates
  <2> HIDE DEF d
  <2>5. Sound(cl')
    <3>1. k \in Calls
      BY <1>9
    <3>2. \A l \in Calls : Sound([d EXCEPT !.call = l])
      BY <2>4, Updates
    <3> QED
      BY <2>4, <3>1, <3>2
  <2>6. TypeOK'
    BY <1>1, <1>4, <2>5 DEF TypeOK, TypesOfRest, Sound, Counts
  <2>7. /\ cl'.call = k /\ cl'.sock = S
        /\ cl'.verdict = cl.verdict /\ cl'.ws = cl.ws /\ cl'.public = cl.public /\ cl'.hung = cl.hung
        /\ cl'.queue = cl.queue /\ cl'.subs = cl.subs /\ cl'.data = cl.data
    BY <1>1, <2>3 DEF Sound, Clients
  <2> QED
    BY <1>4, <1>9, <2>2, <2>6, <2>7 DEF Handled, m, up
<1>10. Runs(cl.call) /\ \A S : [c EXCEPT !.sock = S] = [c EXCEPT !.sock = S, !.call = cl.call]
  BY <1>2, <1>8 DEF Clients
<1>11. CASE m[1] = "sub" /\ m[2] \notin s.served
  <2>. DEFINE w == s.served \cup {m[2]}
              d == Append(s.down, <<"full", m[2]>>)
              r == [s EXCEPT !.up = up, !.served = w, !.down = d]
  <2>1. w \in SUBSET Topics /\ d \in Seq(Downs)
    BY <1>3, <1>6
  <2>2. w = ServesNext(s.served, m)
    BY <1>11 DEF ServesNext
  <2>3. cl' = [c EXCEPT !.sock[i].served = @ \cup {m[2]}, !.sock[i].down = Append(@, <<"full", m[2]>>)]
    BY <1>7, <1>11 DEF Served
  <2>4. cl' = [c EXCEPT !.sock[i].served = w, !.sock[i].down = d]
    BY <1>8, <2>3 DEF Clients, SocketStates
  <2> HIDE DEF w, d
  <2>5. cl' = [c EXCEPT !.sock = [c.sock EXCEPT ![i] = [c.sock[i] EXCEPT !.served = w, !.down = d]]]
    BY ZenonT(40), <1>8, <2>4 DEF Clients, SocketStates
  <2>6. [c.sock[i] EXCEPT !.served = w, !.down = d] = r
    BY <1>2, <1>8 DEF SocketStates
  <2>7. Becomes(r)
    BY <1>2, <1>5, <2>1, <2>2 DEF SocketStates
  <2> HIDE DEF r, Becomes, Runs
  <2>8. cl' = [c EXCEPT !.sock = [c.sock EXCEPT ![i] = r], !.call = cl.call]
    BY <1>10, <2>5, <2>6
  <2> QED
    BY <1>9, <1>10, <2>7, <2>8
<1>12. CASE m[1] = "unsub"
  <2>. DEFINE w == s.served \ {m[2]}
              r == [s EXCEPT !.up = up, !.served = w]
  <2>1. w \in SUBSET Topics
    BY <1>3
  <2>2. w = ServesNext(s.served, m)
    BY <1>12 DEF ServesNext
  <2>3. cl' = [c EXCEPT !.sock[i].served = @ \ {m[2]}]
    BY <1>7, <1>12
  <2>4. cl' = [c EXCEPT !.sock[i].served = w]
    BY <1>8, <2>3 DEF Clients, SocketStates
  <2> HIDE DEF w
  <2>5. cl' = [c EXCEPT !.sock = [c.sock EXCEPT ![i] = [c.sock[i] EXCEPT !.served = w]]]
    BY <1>8, <2>4 DEF Clients, SocketStates
  <2>6. [c.sock[i] EXCEPT !.served = w] = r
    BY <1>2, <1>8 DEF SocketStates
  <2>7. Becomes(r)
    BY <1>2, <1>5, <2>1, <2>2 DEF SocketStates
  <2> HIDE DEF r, Becomes, Runs
  <2>8. cl' = [c EXCEPT !.sock = [c.sock EXCEPT ![i] = r], !.call = cl.call]
    BY <1>10, <2>5, <2>6
  <2> QED
    BY <1>9, <1>10, <2>7, <2>8
<1>13. CASE m[1] = "rpc"
  <2>. DEFINE d == Append(s.down, <<"reply", m[2]>>)
              a == IF m[2] \in s.served THEN Append(cl.call.ran, s.era) ELSE cl.call.ran
              k == [cl.call EXCEPT !.ran = a]
              r == [s EXCEPT !.up = up, !.down = d]
  <2>1. d \in Seq(Downs)
    BY <1>3, <1>6
  <2>2. s.served = ServesNext(s.served, m)
    BY <1>13 DEF ServesNext
  <2>3. cl' = [c EXCEPT !.sock[i].down = Append(@, <<"reply", m[2]>>),
                        !.call.ran = IF m[2] \in s.served THEN Append(@, s.era) ELSE @]
    BY <1>7, <1>13
  <2>4. cl' = [c EXCEPT !.sock[i].down = d, !.call.ran = a]
    BY <1>8, <2>3 DEF Clients, SocketStates
  <2>5. cl.call.ran \in Seq(0..MaxEras)
    BY <1>2 DEF Calls
  <2>6. Append(cl.call.ran, s.era) \in Seq(0..MaxEras)
    BY <1>3, <2>5
  <2>7. a \in Seq(0..MaxEras) /\ a \in {cl.call.ran, Append(cl.call.ran, s.era)}
    BY <2>5, <2>6
  <2> HIDE DEF d, a
  <2>8. cl' = [c EXCEPT !.sock = [c.sock EXCEPT ![i] = [c.sock[i] EXCEPT !.down = d]], !.call = k]
    BY <1>8, <2>4 DEF Clients, SocketStates
  <2>9. [c.sock[i] EXCEPT !.down = d] = r
    BY <1>2, <1>8 DEF SocketStates
  <2>10. Becomes(r)
    BY <1>2, <1>5, <2>1, <2>2 DEF SocketStates
  <2>11. k \in Calls /\ k.st = cl.call.st /\ k.era = cl.call.era /\ k.ran = a
    BY <1>2, <2>7 DEF Calls
  <2> HIDE DEF k
  <2>12. Runs(k)
    BY <1>13, <2>7, <2>11 DEF IsCall
  <2> HIDE DEF r, Becomes, Runs
  <2>13. cl' = [c EXCEPT !.sock = [c.sock EXCEPT ![i] = r], !.call = k]
    BY <2>8, <2>9
  <2> QED
    BY <1>9, <2>10, <2>12, <2>13
<1>14. CASE m[1] = "sub" /\ m[2] \in s.served
  <2>. DEFINE r == [s EXCEPT !.up = up]
  <2>1. cl' = c
    BY <1>7, <1>14
  <2>2. Becomes(r)
    <3>1. s.served = ServesNext(s.served, m)
      BY <1>14 DEF ServesNext
    <3> QED
      BY <1>2, <1>5, <3>1 DEF SocketStates
  <2>3. [c.sock EXCEPT ![i] = r] = c.sock
    BY <1>8
  <2> HIDE DEF r
  <2>4. [c EXCEPT !.sock = c.sock, !.call = cl.call] = c
    BY <1>8 DEF Clients
  <2> HIDE DEF Becomes, Runs
  <2>5. cl' = [c EXCEPT !.sock = [c.sock EXCEPT ![i] = r], !.call = cl.call]
    BY <2>1, <2>3, <2>4
  <2> QED
    BY <1>9, <1>10, <2>2, <2>5
<1> QED
  BY <1>6, <1>11, <1>12, <1>13, <1>14

LEMMA HandleKeeps == ASSUME SInv, NEW i \in Sockets, HandleJob(i) PROVE SInv'
<1>0. TypeOK /\ CInv /\ Sound(cl)
  BY Types DEF SInv, CInv
<1>1. Handled(i)
  BY <1>0, HandleStep
<1>. DEFINE s == cl.sock[i]
            m == Head(s.up)
            up == Tail(s.up)
<1>2. s.up \in Seq(Messages)
  <2>1. cl.sock \in [Sockets -> SocketStates]
    BY <1>0, Fields
  <2> QED
    BY <2>1 DEF SocketStates
<1>3. s.up # <<>> /\ cl'.sock[i].up = up /\ cl'.sock[i].served = ServesNext(s.served, m)
      /\ \A j \in Sockets : j # i => cl'.sock[j] = cl.sock[j]
  BY <1>1 DEF Handled
<1>4. m \in Messages /\ up \in Seq(Messages)
  BY <1>2, <1>3
<1>5. /\ Holds(s.up) <=> Holds(up) \/ IsCall(m)
      /\ OneCall(s.up) => OneCall(up) /\ ~(Holds(up) /\ IsCall(m))
  BY <1>2, <1>3, OneTaken
<1>6. cl.ws # 0 => cl.ws \in Sockets
  <2>1. cl.ws \in 0..MaxSockets
    BY <1>0, Fields
  <2> QED
    BY <2>1, ConstantsAssumption DEF Sockets
<1>7. /\ (IsOpen(cl') <=> IsOpen(cl)) /\ Counted' = Counted
      /\ OneSocket => OneSocket'
  BY <1>1, <1>6 DEF IsOpen, Counted, OneSocket, Handled
<1>8. /\ UNCHANGED <<scenario, page, login, server>> /\ cl'.queue = cl.queue /\ cl'.public = cl.public
      /\ cl'.verdict = cl.verdict /\ cl'.ws = cl.ws /\ cl'.subs = cl.subs /\ cl'.data = cl.data /\ cl'.call.st = cl.call.st
      /\ cl'.call.era = cl.call.era
      /\ \A j \in Sockets : cl'.sock[j].era = cl.sock[j].era
                            /\ cl'.sock[j].session = cl.sock[j].session
                            /\ cl'.sock[j].code = cl.sock[j].code
  BY <1>1 DEF Handled
<1>9. /\ \A j \in Sockets : Holds(cl'.sock[j].up) => Holds(cl.sock[j].up)
      /\ \A j \in Sockets : OneCall(cl'.sock[j].up)
      /\ OneCall(cl.queue)
  BY <1>0, <1>3, <1>5 DEF CInv, CallsOnce, Up
\* The call runs: it was nowhere else, and has not run before.
<1>10. ASSUME cl'.call.ran # cl.call.ran
       PROVE  /\ cl.call.ran = <<>> /\ cl'.call.ran = Append(<<>>, cl.call.era)
              /\ cl.call.st # "none" /\ ~Holds(cl.queue)
              /\ \A j \in Sockets : ~Holds(cl'.sock[j].up)
  <2>1. IsCall(m) /\ cl'.call.ran = Append(cl.call.ran, s.era)
    BY <1>1, <1>10 DEF Handled
  <2>2. Holds(Up(i)) /\ Holds(s.up) /\ ~Holds(up)
    BY <1>0, <1>5, <2>1 DEF CInv, CallsOnce, Up
  <2>3. /\ cl.call.ran = <<>> /\ cl.call.st # "none" /\ ~Holds(cl.queue)
        /\ \A j \in Sockets : Holds(cl.sock[j].up) => j = i
    BY <1>0, <2>2 DEF CInv, CallsOnce, Up
  <2>4. s.era = cl.call.era
    BY <1>0, <2>2 DEF CInv, OfLogin, Up
  <2> QED
    BY <1>3, <1>9, <2>1, <2>2, <2>3, <2>4
<1>11. CallsOnce'
  <2>1. CASE cl'.call.ran = cl.call.ran
    BY <1>0, <1>8, <1>9, <2>1 DEF CInv, CallsOnce, Up
  <2>2. CASE cl'.call.ran # cl.call.ran
    BY <1>8, <1>9, <1>10, <2>2 DEF CallsOnce, Up
  <2> QED
    BY <2>1, <2>2
<1>12. CallRunsOnce'
  <2>1. CASE cl'.call.ran = cl.call.ran
    BY <1>0, <1>8, <2>1 DEF CInv, CallRunsOnce
  <2>2. CASE cl'.call.ran # cl.call.ran
    <3>1. cl'.call.ran = <<cl'.call.era>>
      BY <1>8, <1>10, <2>2
    <3>2. Len(cl'.call.ran) <= 1 /\ \A n \in DOMAIN cl'.call.ran : cl'.call.ran[n] = cl'.call.era
      BY <3>1
    <3> QED
      BY <3>2 DEF CallRunsOnce, ToSet
  <2> QED
    BY <2>1, <2>2
<1>13. OfLogin'
  <2>1. IsOpen(cl') => cl'.sock[cl'.ws].era = login'.era
    BY <1>0, <1>6, <1>7, <1>8 DEF CInv, OfLogin, IsOpen
  <2> QED
    BY <1>0, <1>8, <1>9, <2>1 DEF CInv, OfLogin, Up
<1>14. CInv'
  BY <1>1, <1>11, <1>12, <1>13 DEF CInv, Handled
<1>15. ShownOK'
  BY <1>6, <1>7, <1>8 DEF ShownOK, IsOpen, SInv
<1>16. ASSUME OneSocket, ServedSoon PROVE ServedSoon'
  <2>1. cl.ws = i /\ IsOpen(cl)
    BY <1>1, <1>16 DEF OneSocket, Handled, IsOpen, Sockets
  <2>2. ASSUME s.code = "none", NEW t \in Topics
        PROVE  IF t \in Counted
               THEN LastOf(up, <<"sub", t>>, <<"unsub", t>>, t \in ServesNext(s.served, m))
               ELSE LastOf(up, <<"unsub", t>>, <<"sub", t>>, t \notin ServesNext(s.served, m))
    <3>. DEFINE b == t \in s.served
                n == t \notin s.served
                c == t \in ServesNext(s.served, m)
                d == t \notin ServesNext(s.served, m)
                x == <<"sub", t>>
                y == <<"unsub", t>>
    <3>1. IF t \in Counted THEN LastOf(s.up, x, y, b) ELSE LastOf(s.up, y, x, n)
      BY <1>16, <2>1, <2>2 DEF ServedSoon, WillServe, Up
    <3>2. /\ x # y /\ b \in BOOLEAN /\ n \in BOOLEAN /\ c \in BOOLEAN /\ d \in BOOLEAN
          /\ m = x => c
          /\ m = y => d
          /\ m # y /\ b => c
          /\ m # x /\ n => d
      <4>1. m[2] \in Topics /\ m[1] \in {"sub", "unsub", "rpc"} /\ m = <<m[1], m[2]>>
        BY <1>4 DEF Messages
      <4> QED
        BY <4>1 DEF ServesNext
    <3> HIDE DEF b, n, c, d, x, y, m
    <3>3. t \in Counted => LastOf(up, x, y, c)
      BY <1>2, <1>3, <3>1, <3>2, LastTaken DEF m
    <3>4. t \notin Counted => LastOf(up, y, x, d)
      BY <1>2, <1>3, <3>1, <3>2, LastTaken DEF m
    <3> QED
      BY <3>3, <3>4 DEF c, d, x, y, m
  <2>3. \A t \in Topics : s.code = "none" =>
            WillServe(Up(cl.ws), t, cl.sock[cl.ws].served)'
    BY <1>3, <1>7, <1>8, <2>1, <2>2 DEF WillServe, Up
  <2> QED
    BY <1>7, <1>8, <1>16, <2>1, <2>3 DEF ServedSoon
<1>17. Fresh'
  <2>1. \A j \in Sockets : Steady(j)
    BY <1>1 DEF Steady, Handled
  <2> QED
    BY <1>6, <1>7, <1>8, <2>1, FreshStays DEF SInv, SameBackend, IsOpen
<1>18. Refused'
  <2>1. \A j \in Sockets : Steady(j)
    BY <1>1 DEF Steady, Handled
  <2> QED
    BY <1>8, <2>1, RefusedStays DEF SInv
<1> QED
  BY <1>7, <1>8, <1>14, <1>15, <1>16, <1>17, <1>18 DEF SInv

-----------------------------------------------------------------------------
(* The login page, the initial states, and the theorems.                   *)

LEMMA VisitKeeps == ASSUME SInv, VisitLogin PROVE SInv'
<1>0. TypeOK /\ CInv /\ Sound(cl) /\ TypesOfRest
  BY Types DEF SInv, CInv
<1>1. cl' = Disconnect(cl) /\ page' = "public" /\ UNCHANGED <<scenario, login, server, faults>>
  BY DEF VisitLogin
<1>2. /\ cl'.verdict = cl.verdict /\ cl'.ws = 0 /\ cl'.public /\ cl'.hung = cl.hung /\ cl'.queue = <<>>
      /\ SameCall(cl'.call, cl.call) /\ cl'.data = NoData /\ cl'.subs = NoData
      /\ cl'.sock = IF cl.ws = 0 THEN cl.sock ELSE [cl.sock EXCEPT ![cl.ws] = NoSocket]
      /\ Sound(cl')
  BY <1>0, <1>1, Disconnects, DisconnectSound
<1>3. TypeOK'
  BY <1>0, <1>1, <1>2 DEF TypeOK, TypesOfRest, Sound, Counts
<1>4. cl.sock \in [Sockets -> SocketStates] /\ NoSocket.st = "none" /\ NoSocket.up = <<>> /\ NoSocket.code = "none"
  BY <1>0, Fields DEF NoSocket
<1>5. \A j \in Sockets : \/ cl'.sock[j] = cl.sock[j] /\ j # cl.ws
                         \/ cl'.sock[j].st = "none" /\ cl'.sock[j].up = <<>>
                            /\ cl'.sock[j].code = "none"
  <2>1. \A j \in Sockets : j # 0
    BY DEF Sockets
  <2> QED
    BY <1>2, <1>4, <2>1
<1>6. CallsStay
  BY <1>2, <1>5, Nothing DEF CallsStay
<1>7. /\ CallsOnce' /\ CallRunsOnce'
      /\ \A i \in Sockets : Holds(cl'.sock[i].up) => cl'.sock[i].era = cl'.call.era
      /\ Holds(cl'.queue) => cl'.call.era = login.era
  BY <1>0, <1>6, StayingCalls
<1>8. ~IsOpen(cl')
  BY <1>2 DEF IsOpen
<1>9. CInv'
  BY <1>1, <1>2, <1>3, <1>7, <1>8 DEF CInv, OfLogin, Up
<1>10. OneSocket => OneSocket'
  <2>1. \A j \in Sockets : j # 0
    BY DEF Sockets
  <2> QED
    BY <1>2, <1>5, <2>1 DEF OneSocket
<1>11. ShownOK'
  BY <1>2 DEF ShownOK, NoData
<1>12. ServedSoon'
  BY <1>2, <1>8 DEF ServedSoon
<1>13. Fresh'
  <2>1. \A j \in Sockets : Steady(j)
    BY <1>5 DEF Steady
  <2> QED
    BY <1>1, <1>8, <2>1, FreshStays DEF SInv, SameBackend
<1>14. Refused'
  <2>1. \A j \in Sockets : Steady(j)
    BY <1>5 DEF Steady
  <2> QED
    BY <1>1, <1>2, <2>1, RefusedStays DEF SInv
<1> QED
  BY <1>1, <1>9, <1>10, <1>11, <1>12, <1>13, <1>14 DEF SInv

LEMMA LogInKeeps == ASSUME SInv, LogIn PROVE SInv'
<1>0. TypeOK /\ CInv /\ Sound(cl) /\ TypesOfRest
  BY Types DEF SInv, CInv
<1>1. /\ cl' = [cl EXCEPT !.public = FALSE] /\ page = "public" /\ page' = "private"
      /\ login' = [era |-> login.era + 1, ok |-> TRUE] /\ login.era < MaxEras
      /\ "slow" \in scenario \/ cl.verdict # "over"
      /\ UNCHANGED <<scenario, server, faults>>
  BY DEF LogIn
<1>2. Sound(cl')
  BY <1>0, <1>1, Updates
<1>3. /\ cl'.ws = cl.ws /\ cl'.sock = cl.sock /\ cl'.hung = cl.hung /\ cl'.queue = cl.queue
      /\ cl'.verdict = cl.verdict /\ cl'.call = cl.call /\ cl'.data = cl.data /\ cl'.subs = cl.subs
  BY <1>0, <1>1 DEF Sound, Clients
<1>4. TypeOK'
  <2>1. login.era \in 1..MaxEras /\ MaxEras \in Nat
    BY <1>0, ConstantsAssumption DEF TypesOfRest
  <2>2. login.era + 1 \in 1..MaxEras
    BY <1>1, <2>1
  <2>3. login' \in [era : 1..MaxEras, ok : BOOLEAN]
    BY <1>1, <2>2
  <2> QED
    BY <1>0, <1>1, <1>2, <2>3 DEF TypeOK, TypesOfRest, Sound, Counts
<1>5. cl.ws = 0 /\ cl.queue = <<>>
  BY <1>0, <1>1 DEF CInv, OfLogin
<1>6. ~IsOpen(cl) /\ ~IsOpen(cl')
  BY <1>3, <1>5 DEF IsOpen
<1>7. CallsOnce' /\ CallRunsOnce'
  BY <1>0, <1>3 DEF CInv, CallsOnce, CallRunsOnce, Up
<1>8. OfLogin'
  BY <1>0, <1>1, <1>3, <1>5, <1>6, Nothing DEF CInv, OfLogin, Up
<1>9. CInv'
  BY <1>4, <1>7, <1>8 DEF CInv
<1>10. OneSocket => OneSocket'
  BY <1>3 DEF OneSocket
<1>11. ShownOK'
  BY <1>3, <1>6 DEF ShownOK, Counted, SInv
<1>12. ServedSoon'
  BY <1>3, <1>5, <1>6 DEF ServedSoon
<1>13. Fresh'
  <2>1. \A j \in Sockets : Steady(j)
    BY <1>3 DEF Steady
  <2> QED
    BY <1>1, <1>6, <2>1, FreshStays DEF SInv, SameBackend
<1>14. Refused'
  <2>1. "linger" \notin scenario => \A j \in Sockets : cl.sock[j].st = "none"
    BY <1>5 DEF SInv, OneSocket, Sockets
  <2> QED
    BY <1>1, <1>3, <2>1 DEF SInv, Refused
<1> QED
  BY <1>1, <1>9, <1>10, <1>11, <1>12, <1>13, <1>14 DEF SInv

LEMMA InitSInv == ASSUME Init PROVE SInv
<1>. DEFINE call == [st |-> "none", topic |-> CHOOSE t \in Topics : TRUE, era |-> 0, ran |-> <<>>]
            S == [i \in Sockets |-> NoSocket]
<1>1. /\ cl = [ws |-> 0, sock |-> S, state |-> "closed",
               subs |-> NoData, data |-> NoData, queue |-> <<>>, attempts |-> 0,
               retries |-> 0, held |-> FALSE, watchdog |-> 0, probing |-> 0,
               verdict |-> "none", probeTimer |-> FALSE, public |-> FALSE, hung |-> FALSE,
               call |-> call]
      /\ page = "private" /\ login = [era |-> 1, ok |-> TRUE]
      /\ server = [session |-> 1, up |-> TRUE] /\ faults = 0
  BY DEF Init
<1>2. (CHOOSE t \in Topics : TRUE) \in Topics
  BY ConstantsAssumption
<1>3. <<>> \in Seq(0..MaxEras) /\ 0 \in 0..MaxEras
  BY ConstantsAssumption
<1>4. call \in Calls /\ call.st = "none" /\ call.ran = <<>>
  BY <1>2, <1>3 DEF Calls
<1> HIDE DEF call
<1>5. S \in [Sockets -> SocketStates] /\ \A i \in Sockets : S[i].st = "none" /\ S[i].up = <<>>
                                       /\ S[i].code = "none"
  BY Constants DEF NoSocket
<1> HIDE DEF S
<1>6. /\ cl.ws = 0 /\ cl.sock = S /\ cl.data = NoData /\ cl.queue = <<>> /\ cl.call = call
      /\ ~cl.hung /\ ~cl.held /\ cl.verdict = "none"
  BY <1>1
<1>7. cl \in Clients
  BY <1>1, <1>4, <1>5, Constants DEF Clients
<1>8. TypeOK
  BY <1>1, <1>6, <1>7, ConstantsAssumption DEF TypeOK
<1>9. ~IsOpen(cl)
  BY <1>6 DEF IsOpen
<1>10. CallsOnce
  BY <1>4, <1>5, <1>6, Nothing DEF CallsOnce, Up
<1>11. OfLogin
  BY <1>1, <1>5, <1>6, <1>9, Nothing DEF OfLogin, Up
<1>12. CallRunsOnce
  BY <1>4, <1>6 DEF CallRunsOnce, ToSet
<1>13. OneSocket
  BY <1>5, <1>6 DEF OneSocket, Sockets
<1>14. ShownOK
  BY <1>6 DEF ShownOK, NoData
<1>15. ServedSoon
  BY <1>6, <1>9 DEF ServedSoon
<1>16. Fresh
  BY <1>5, <1>6 DEF Fresh
<1>17. Refused
  BY <1>5, <1>6 DEF Refused
<1> QED
  BY <1>8, <1>10, <1>11, <1>12, <1>13, <1>14, <1>15, <1>16, <1>17 DEF SInv, CInv

LEMMA StepSInv == ASSUME SInv, [Next]_vars PROVE SInv'
<1>1. TypeOK
  BY DEF SInv, CInv
<1>2. CASE \E i \in Sockets : OfSocket(i)
  <2>1. PICK i \in Sockets : OfSocket(i)
    BY <1>2
  <2>2. CASE ServerCloses(i) \/ ConnectionLost(i) \/ HandshakeFails(i)
    BY <1>1, <2>2, ClosesQuiet, QuietsKeep
  <2>3. CASE OnClose(i)
    BY <1>1, <2>3, OnCloseQuiets, QuietsKeep
  <2> QED
    BY <2>1, <2>2, <2>3, OpensKeeps, DeliverKeeps, HandleKeeps DEF OfSocket
<1>3. CASE \E t \in Topics : Sub(t) \/ Unsub(t) \/ Call(t)
  BY <1>3, SubKeeps, UnsubKeeps, CallKeeps
<1>4. CASE WatchdogFires \/ RetryFires
  BY <1>1, <1>4, WatchdogQuiets, RetryQuiets, QuietsKeep
<1>5. CASE ProbeDecided \/ ProbeAnswered \/ ProbeAgain
  BY <1>1, <1>5, ProbeDecidedQuiets, ProbeAnsweredQuiets, ProbeAgainQuiets, QuietsKeep
<1>6. CASE CallTimesOut \/ BackendStops
  BY <1>1, <1>6, CallTimesOutQuiets, BackendStopsQuiets, QuietsKeep
<1>7. CASE BackendStarts \/ LoginExpires
  BY <1>1, <1>7, OutsideQuiets, QuietsKeep
<1>8. CASE VisitLogin \/ LogIn
  BY <1>8, VisitKeeps, LogInKeeps
<1>9. CASE UNCHANGED vars
  BY SMTT(30), <1>9 DEF SInv, CInv, TypeOK, CallsOnce, OfLogin, CallRunsOnce, OneSocket, ShownOK, Fresh, Refused,
              ServedSoon, WillServe, Up, IsOpen, Counted, vars
<1> QED
  BY <1>2, <1>3, <1>4, <1>5, <1>6, <1>7, <1>8, <1>9 DEF Next

LEMMA Invariance == Spec => []SInv
<1>1. Init => SInv
  BY InitSInv
<1>2. SInv /\ [Next]_vars => SInv'
  BY StepSInv
<1> QED
  BY <1>1, <1>2, PTL DEF Spec

\* The types of the client, its sockets, the login and the backend.
THEOREM TypeCorrect == Spec => []TypeOK
<1>1. SInv => TypeOK
  BY DEF SInv, CInv
<1> QED
  BY <1>1, Invariance, PTL

\* A call runs at most once and in the login it was made in, whatever is lost, refused,
\* restarted or logged out meanwhile, also where components mount in the closing state of
\* a socket: #endSession() and disconnect() drop the queue, onopen sends it once.
THEOREM CallsRunOnce == Spec => []CallRunsOnce
<1>1. SInv => CallRunsOnce
  BY DEF SInv, CInv
<1> QED
  BY <1>1, Invariance, PTL

\* What a page shows is counted and of the backend of the open connection, also where
\* components mount in the closing state of a socket: onopen clears the data, onMessage()
\* discards what nobody counts, and a socket left behind has nothing to tell of a backend
\* older than the one of the used socket.
THEOREM ShownStaysCurrent == Spec => []ShownIsCurrent
<1>1. SInv => ShownIsCurrent
  BY DEF SInv, ShownOK, ShownIsCurrent
<1> QED
  BY <1>1, Invariance, PTL

\* A connection that has handled what was sent serves what the page counts, over every
\* reconnect, restart and login, unless a component mounts in the closing state or mounts
\* a topic again whose unsubscription waits in the queue.
THEOREM ServedStaysCounted ==
  Spec => [](scenario \cap {"linger", "rejoin"} = {} => ServedIsCounted)
<1>1. ASSUME SInv, scenario \cap {"linger", "rejoin"} = {} PROVE ServedIsCounted
  <2>1. SUFFICES ASSUME IsOpen(cl), cl.sock[cl.ws].code = "none", cl.sock[cl.ws].up = <<>>
                 PROVE  cl.sock[cl.ws].served = Counted
    BY DEF ServedIsCounted
  <2>2. \A t \in Topics : WillServe(<<>>, t, cl.sock[cl.ws].served)
    BY <1>1, <2>1 DEF SInv, ServedSoon, Up
  <2>3. \A t \in Topics : t \in Counted <=> t \in cl.sock[cl.ws].served
    BY <2>2 DEF WillServe, LastOf
  <2>4. cl.sock[cl.ws].served \subseteq Topics
    <3>1. Sound(cl)
      BY <1>1, Types DEF SInv, CInv
    <3>2. cl.ws \in 0..MaxSockets /\ cl.ws # 0 /\ cl.sock \in [Sockets -> SocketStates]
      BY <2>1, <3>1, Fields DEF IsOpen
    <3>3. cl.ws \in Sockets
      BY <3>2, ConstantsAssumption DEF Sockets
    <3> QED
      BY <3>2, <3>3 DEF SocketStates
  <2> QED
    BY <2>3, <2>4 DEF Counted
<1>2. SInv => (scenario \cap {"linger", "rejoin"} = {} => ServedIsCounted)
  BY <1>1
<1> QED
  BY <1>2, Invariance, PTL


\* Only a login that is no longer accepted ends the session, as long as pages do not act in
\* the closing state of a socket and no answer about an old login meets a new one: a lost
\* connection, a restart, a refused handshake and an unreachable backend do not.
THEOREM SessionEndsOnRefusal ==
  Spec /\ [](scenario \cap {"linger", "slow"} = {}) => SessionEndsRefused
<1>. DEFINE A == cl'.public /\ ~cl.public /\ page' = page => ~login.ok
<1>1. ASSUME SInv, scenario \cap {"linger", "slow"} = {}, Next PROVE A
  <2>0. TypeOK
    BY <1>1 DEF SInv, CInv
  <2>1. Quiets => A
    BY <1>1 DEF Quiets, Judged, SInv, Refused
  <2>2. CASE \E i \in Sockets : OfSocket(i)
    <3>1. PICK i \in Sockets : OfSocket(i)
      BY <2>2
    <3>2. CASE ServerCloses(i) \/ ConnectionLost(i) \/ HandshakeFails(i) \/ OnClose(i)
      BY <2>0, <2>1, <3>2, ClosesQuiet, OnCloseQuiets
    <3>3. CASE Opens(i)
      BY <2>0, <3>3, OpensStep DEF OpensTo
    <3>4. CASE Deliver(i)
      BY <2>0, <3>4, DeliverStep
    <3>5. CASE HandleJob(i)
      BY <2>0, <3>5, HandleStep DEF Handled
    <3> QED
      BY <3>1, <3>2, <3>3, <3>4, <3>5 DEF OfSocket
  <2>3. CASE \E t \in Topics : Sub(t) \/ Unsub(t) \/ Call(t)
    BY <2>0, <2>3, SubStep, UnsubStep, CallStep
  <2>4. CASE WatchdogFires \/ RetryFires \/ ProbeDecided \/ ProbeAnswered \/ ProbeAgain
    BY <2>0, <2>1, <2>4, WatchdogQuiets, RetryQuiets, ProbeDecidedQuiets, ProbeAnsweredQuiets,
       ProbeAgainQuiets
  <2>5. CASE CallTimesOut \/ BackendStops \/ BackendStarts \/ LoginExpires
    BY <2>0, <2>1, <2>5, CallTimesOutQuiets, BackendStopsQuiets, OutsideQuiets
  <2>6. CASE VisitLogin \/ LogIn
    BY <2>6 DEF VisitLogin, LogIn
  <2> QED
    BY <1>1, <2>2, <2>3, <2>4, <2>5, <2>6 DEF Next
<1>2. SInv /\ scenario \cap {"linger", "slow"} = {} /\ [Next]_vars => [A]_vars
  BY <1>1
<1> QED
  BY <1>2, Invariance, PTL DEF Spec, SessionEndsRefused
=============================================================================
