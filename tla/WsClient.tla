------------------------------ MODULE WsClient ------------------------------
(***************************************************************************)
(* The websocket client of the web UI (frontend/src/lib/ws/client.svelte.ts *)
(* with route-state, topic and rpc) against the connection handler of the   *)
(* backend (alasio/backend/ws/ws_server.py): subscriptions that outlive     *)
(* connections, backends and login sessions.                               *)
(* Handlers run to completion; between them the page, the timers, the      *)
(* sockets and the backend move in any order.                              *)
(***************************************************************************)
EXTENDS Naturals, Sequences, FiniteSets, SequencesExt

CONSTANTS
    Scenarios,    \* sets of what may happen in a behaviour
    Topics,       \* topics, other than the default one
    MaxSockets,   \* bound: WebSocket objects that exist at a time
    MaxRetries,   \* reconnects before #scheduleReconnect gives up (5)
    MaxSessions,  \* bound: backend processes
    MaxEras,      \* bound: logins
    MaxFaults,    \* bound: lost connections and refusals
    MaxQueue      \* bound: messages in a queue or one way in a socket

ASSUME ConstantsAssumption ==
    /\ IsFiniteSet(Topics) /\ Topics # {}
    /\ {MaxSockets, MaxFaults, MaxQueue} \subseteq Nat
    /\ {MaxRetries, MaxSessions, MaxEras} \subseteq Nat \ {0}

VARIABLES
    scenario,  \* what may happen in this behaviour
    cl,        \* the WebsocketManager and its sockets
    page,      \* the mounted route group, (private) or (public)
    login,     \* the login session: its number, still accepted
    server,    \* the backend process: number, listening
    faults     \* faults so far

vars == <<scenario, cl, page, login, server, faults>>

Sockets == 1..MaxSockets
NoData == [t \in Topics |-> 0]
NoSocket == [st |-> "none", up |-> <<>>, down |-> <<>>, served |-> {},
             session |-> 0, era |-> 0, code |-> "none"]
Messages == ({"sub", "unsub"} \X Topics) \cup {<<"rpc", t>> : t \in Topics}

SocketStates ==
    [st : {"none", "connecting", "open", "closing"}, up : Seq(Messages),
     down : Seq({"full", "reply"} \X Topics), served : SUBSET Topics,
     session : 0..MaxSessions, era : 0..MaxEras, code : {"none", "auth", "refused", "lost"}]
Calls == [st : {"none", "pending", "timeout", "done", "dropped"}, topic : Topics,
          era : 0..MaxEras, ran : Seq(0..MaxEras)]
Clients ==
    [ws : 0..MaxSockets, sock : [Sockets -> SocketStates],
     state : {"connecting", "open", "closed", "reconnecting"}, subs : [Topics -> 0..2],
     data : [Topics -> 0..MaxSessions], queue : Seq(Messages), attempts : 0..MaxRetries,
     retries : Nat, held : BOOLEAN, watchdog : 0..MaxSockets, probing : Nat,
     verdict : {"none", "alive", "over", "unknown"}, probeTimer : BOOLEAN,
     public : BOOLEAN, hung : BOOLEAN, call : Calls]

TypeOK ==
    /\ cl \in Clients
    /\ cl.held => cl.retries > 0
    /\ cl.verdict # "none" => cl.probing > 0
    /\ page \in {"private", "public"} /\ faults \in 0..MaxFaults
    /\ login \in [era : 1..MaxEras, ok : BOOLEAN]
    /\ server \in [session : 1..MaxSessions, up : BOOLEAN]
    /\ server.up \/ server.session < MaxSessions

Init ==
    /\ scenario \in Scenarios
    /\ cl = [ws |-> 0, sock |-> [i \in Sockets |-> NoSocket], state |-> "closed",
             subs |-> NoData, data |-> NoData, queue |-> <<>>, attempts |-> 0,
             retries |-> 0, held |-> FALSE, watchdog |-> 0, probing |-> 0,
             verdict |-> "none", probeTimer |-> FALSE, public |-> FALSE, hung |-> FALSE,
             call |-> [st |-> "none", topic |-> CHOOSE t \in Topics : TRUE,
                       era |-> 0, ran |-> <<>>]]
    /\ page = "private"
    /\ login = [era |-> 1, ok |-> TRUE]
    /\ server = [session |-> 1, up |-> TRUE]
    /\ faults = 0
-----------------------------------------------------------------------------
(* Methods of the manager, as functions of its state.                      *)

IsOpen(c) == c.ws # 0 /\ c.sock[c.ws].st = "open"
IsLive(c) == c.ws # 0 /\ c.sock[c.ws].st \in {"connecting", "open"}

\* clearTimeout(#reconnectTimeout): only the timer set last is held.
ClearRetry(c) ==
    [c EXCEPT !.retries = IF c.held THEN @ - 1 ELSE @, !.held = FALSE]

Connect(c) ==
    LET free == {i \in Sockets : c.sock[i].st = "none"} IN
    IF c.public THEN [ClearRetry(c) EXCEPT !.attempts = 0, !.state = "closed"]
    ELSE IF IsLive(c) \/ free = {} THEN c
    ELSE LET i == CHOOSE i \in free : TRUE IN
         [c EXCEPT !.state = IF c.attempts > 0 THEN "reconnecting" ELSE "connecting",
                   !.ws = i, !.sock[i].st = "connecting", !.watchdog = i]

\* #scheduleReconnect(); past the budget invalidateAll(), which connects nothing.
Schedule(c) ==
    IF c.attempts >= MaxRetries THEN c
    ELSE [c EXCEPT !.attempts = @ + 1, !.retries = @ + 1, !.held = TRUE]

\* #send()
Send(c, m) ==
    IF IsOpen(c) THEN [c EXCEPT !.sock[c.ws].up = Append(@, m)]
    ELSE Connect([c EXCEPT !.queue = Append(@, m)])

DropCall(c) == IF c.call.st = "pending" THEN [c EXCEPT !.call.st = "dropped"] ELSE c

EndSession(c) ==
    [DropCall(ClearRetry(c)) EXCEPT !.public = TRUE, !.probeTimer = FALSE, !.state = "closed",
                                    !.attempts = 0, !.data = NoData, !.queue = <<>>]

\* Mutated Disconnect: the queue survives the login session.
Disconnect_KeepsQueue(c) ==
    LET d == [DropCall(ClearRetry(c)) EXCEPT
                !.public = TRUE, !.watchdog = 0, !.probeTimer = FALSE, !.attempts = 0,
                !.ws = 0, !.data = NoData, !.subs = NoData, !.state = "closed"]
    IN IF c.ws = 0 THEN d ELSE [d EXCEPT !.sock[c.ws] = NoSocket]

\* disconnect(), called with the public flag already up.
Disconnect(c) ==
    LET d == [DropCall(ClearRetry(c)) EXCEPT
                !.public = TRUE, !.watchdog = 0, !.probeTimer = FALSE, !.attempts = 0,
                !.ws = 0, !.data = NoData, !.subs = NoData, !.queue = <<>>, !.state = "closed"]
    IN IF c.ws = 0 THEN d ELSE [d EXCEPT !.sock[c.ws] = NoSocket]

\* #handleAuthFailure() up to its await.
AskSession(c) == [c EXCEPT !.state = "reconnecting", !.probing = @ + 1]

\* Mutated Told: a backend that is not reached ends the session.
Told_UnknownEnds(c, n) ==
    LET d == [c EXCEPT !.probeTimer = FALSE, !.attempts = 0] IN
    CASE c.verdict = "alive" -> [Schedule(d) EXCEPT !.retries = c.retries + n]
      [] c.verdict \in {"over", "unknown"} -> EndSession(c)

\* #handleAuthFailure() after its await, for n calls that waited for the one answer:
\* each of them sets a timer, the rest they do alike.
Told(c, n) ==
    LET d == [c EXCEPT !.probeTimer = FALSE, !.attempts = 0] IN
    CASE c.verdict = "alive"   -> [Schedule(d) EXCEPT !.retries = c.retries + n]
      [] c.verdict = "over"    -> EndSession(c)
      [] c.verdict = "unknown" -> [c EXCEPT !.probeTimer = TRUE]
-----------------------------------------------------------------------------
(* Sockets.                                                                *)

\* Mutated Outgoing: only what was queued.
Outgoing_Queued(c) == c.queue

\* What onopen sends: the counted topics, then the queue.
Outgoing(c) ==
    SetToSeq({<<"sub", t>> : t \in {u \in Topics : c.subs[u] > 0}}) \o c.queue

\* A connection the backend has accepted, in its session and the login of the page.
Connected(code) == [st |-> "open", up |-> <<>>, down |-> <<>>, served |-> {},
                    session |-> server.session, era |-> login.era, code |-> code]

\* Mutated Opened: the data of the former connection stays.
Opened_KeepsData(c, i, code) ==
    [ClearRetry(c) EXCEPT
        !.sock[i] = Connected(code),
        !.state = "open", !.attempts = 0, !.watchdog = 0, !.probeTimer = FALSE]

\* onopen before it sends.
Opened(c, i, code) ==
    [ClearRetry(c) EXCEPT
        !.sock[i] = Connected(code),
        !.state = "open", !.attempts = 0, !.watchdog = 0, !.probeTimer = FALSE,
        !.data = NoData]

\* serve() accepts and checks the login afterwards, so onopen runs first.  The
\* loop over the queue never ends when #send() puts every message back.
Opens(i) ==
    /\ ~cl.hung /\ cl.sock[i].st = "connecting" /\ server.up
    /\ \E code \in {IF login.ok THEN "none" ELSE "auth", "refused"} :
         /\ code = "refused" => "refuse" \in scenario /\ faults < MaxFaults
         /\ faults' = IF code = "refused" THEN faults + 1 ELSE faults
         /\ LET o == Opened(cl, i, code)
            IN cl' = IF IsOpen(o) THEN [o EXCEPT !.sock[o.ws].up = @ \o Outgoing(cl), !.queue = <<>>]
                     ELSE [o EXCEPT !.queue = Outgoing(cl), !.hung = Outgoing(cl) # <<>>]
    /\ UNCHANGED <<scenario, page, login, server>>

\* The socket leaves OPEN or CONNECTING, its close event follows.
Closing(i, code) ==
    cl' = [cl EXCEPT !.sock[i].st = "closing", !.sock[i].code = code]

ServerCloses(i) ==
    /\ cl.sock[i].st = "open" /\ cl.sock[i].code # "none" /\ Closing(i, cl.sock[i].code)
    /\ UNCHANGED <<scenario, page, login, server, faults>>

\* The network, a pong timeout, a rotated token (4002).
ConnectionLost(i) ==
    /\ "lost" \in scenario /\ faults < MaxFaults
    /\ cl.sock[i].st = "open" /\ cl.sock[i].code = "none" /\ Closing(i, "lost")
    /\ faults' = faults + 1
    /\ UNCHANGED <<scenario, page, login, server>>

HandshakeFails(i) ==
    /\ cl.sock[i].st = "connecting" /\ ~server.up /\ Closing(i, "lost")
    /\ UNCHANGED <<scenario, page, login, server, faults>>

OnClose(i) ==
    /\ ~cl.hung /\ cl.sock[i].st = "closing"
    /\ LET c == [cl EXCEPT !.state = "closed", !.ws = 0, !.watchdog = 0, !.sock[i] = NoSocket]
       IN cl' = CASE cl.sock[i].code = "auth"    -> EndSession(c)
                  [] cl.sock[i].code = "refused" -> AskSession(c)
                  [] OTHER                       -> Schedule(c)
    /\ UNCHANGED <<scenario, page, login, server, faults>>

\* The rest of the manager runs while no close event is due, or also in the
\* CLOSING state of a socket.
Calm == ~cl.hung /\ ("linger" \in scenario \/ \A i \in Sockets : cl.sock[i].st # "closing")

\* The handshake watchdog.
WatchdogFires ==
    /\ Calm /\ cl.watchdog # 0
    /\ cl' = IF cl.ws # cl.watchdog \/ cl.sock[cl.ws].st # "connecting"
             THEN [cl EXCEPT !.watchdog = 0]
             ELSE Schedule([cl EXCEPT !.watchdog = 0, !.sock[cl.ws] = NoSocket,
                                      !.ws = 0, !.state = "closed"])
    /\ UNCHANGED <<scenario, page, login, server, faults>>

\* A pending timer of #scheduleReconnect(): the held one, or one it replaced.
RetryFires ==
    /\ Calm /\ cl.retries > 0
    /\ \E h \in BOOLEAN :
         /\ h => cl.held
         /\ ~h => cl.retries > (IF cl.held THEN 1 ELSE 0)
         /\ cl' = Connect([cl EXCEPT !.retries = @ - 1, !.held = @ /\ ~h])
    /\ UNCHANGED <<scenario, page, login, server, faults>>

\* GET /api/auth/renew is answered: 200, 401 or 403, or no backend was reached.
ProbeDecided ==
    /\ cl.probing > 0 /\ cl.verdict = "none"
    /\ \E v \in {"unknown"} \cup (IF ~server.up THEN {} ELSE IF login.ok THEN {"alive"} ELSE {"over"}) :
         cl' = [cl EXCEPT !.verdict = v]
    /\ UNCHANGED <<scenario, page, login, server, faults>>

\* Every call that waits gets the answer of the one request.
ProbeAnswered ==
    /\ Calm /\ cl.verdict # "none"
    /\ cl' = [Told(cl, cl.probing) EXCEPT !.probing = 0, !.verdict = "none"]
    /\ UNCHANGED <<scenario, page, login, server, faults>>

ProbeAgain ==
    /\ Calm /\ cl.probeTimer
    /\ cl' = AskSession([cl EXCEPT !.probeTimer = FALSE])
    /\ UNCHANGED <<scenario, page, login, server, faults>>

\* onMessage(): a topic nobody counts is discarded, an answer nobody waits for too.
Deliver(i) ==
    /\ ~cl.hung /\ cl.sock[i].st = "open" /\ cl.sock[i].down # <<>>
    /\ LET m == Head(cl.sock[i].down)
           c == [cl EXCEPT !.sock[i].down = Tail(@)]
       IN cl' = CASE m[1] = "full" /\ cl.subs[m[2]] > 0 ->
                         [c EXCEPT !.data[m[2]] = cl.sock[i].session]
                  [] m[1] = "reply" /\ cl.call.st = "pending" -> [c EXCEPT !.call.st = "done"]
                  [] OTHER -> c
    /\ UNCHANGED <<scenario, page, login, server, faults>>
-----------------------------------------------------------------------------
(* Pages.                                                                  *)

Room(n) ==
    /\ Len(cl.queue) <= MaxQueue - n
    /\ \A i \in Sockets : Len(cl.sock[i].up) <= MaxQueue - n

\* useTopic() of a component that mounts.
Sub(t) ==
    /\ Calm /\ page = "private" /\ cl.subs[t] < 2 /\ Room(1)
    /\ "rejoin" \in scenario \/ <<"unsub", t>> \notin ToSet(cl.queue)
    /\ LET c == Connect([cl EXCEPT !.subs[t] = @ + 1])
       IN cl' = IF cl.subs[t] = 0 /\ IsOpen(c) THEN Send(c, <<"sub", t>>) ELSE c
    /\ UNCHANGED <<scenario, page, login, server, faults>>

\* useTopic() of a component that unmounts.
Unsub(t) ==
    /\ Calm /\ page = "private" /\ cl.subs[t] > 0 /\ Room(1)
    /\ LET c == [cl EXCEPT !.subs[t] = @ - 1]
       IN cl' = IF cl.subs[t] = 1 THEN [Send(c, <<"unsub", t>>) EXCEPT !.data[t] = 0] ELSE c
    /\ UNCHANGED <<scenario, page, login, server, faults>>

\* call() of a component, one in a behaviour.
Call(t) ==
    /\ "call" \in scenario /\ Calm /\ page = "private" /\ cl.subs[t] > 0 /\ Room(1)
    /\ cl.call.st = "none"
    /\ cl' = Send([cl EXCEPT !.call.st = "pending", !.call.topic = t, !.call.era = login.era],
                  <<"rpc", t>>)
    /\ UNCHANGED <<scenario, page, login, server, faults>>

CallTimesOut ==
    /\ Calm /\ cl.call.st = "pending" /\ cl' = [cl EXCEPT !.call.st = "timeout"]
    /\ UNCHANGED <<scenario, page, login, server, faults>>

\* load() of the (public) layout: after goto('/auth'), or the user goes there.
VisitLogin ==
    /\ Calm /\ page = "private" /\ (cl.public \/ "visit" \in scenario)
    /\ page' = "public" /\ cl' = Disconnect(cl)
    /\ UNCHANGED <<scenario, login, server, faults>>

\* The user logs in, the (public) layout is destroyed.  An answer about the login
\* before that is under way only in a slow behaviour.
LogIn ==
    /\ Calm /\ page = "public" /\ login.era < MaxEras
    /\ "slow" \in scenario \/ cl.verdict # "over"
    /\ page' = "private" /\ cl' = [cl EXCEPT !.public = FALSE]
    /\ login' = [era |-> login.era + 1, ok |-> TRUE]
    /\ UNCHANGED <<scenario, server, faults>>
-----------------------------------------------------------------------------
(* Backend.                                                                *)

\* Mutated Served: no "full" is sent.
Served_Silent(c, i, t) == [c EXCEPT !.sock[i].served = @ \cup {t}]

\* op_sub(): the topic is served, its first message is the whole data.
Served(c, i, t) ==
    [c EXCEPT !.sock[i].served = @ \cup {t}, !.sock[i].down = Append(@, <<"full", t>>)]

\* handle_job(): a message of a connection.  What it sends waits for a free place
\* in the send buffer.
HandleJob(i) ==
    /\ cl.sock[i].st = "open" /\ cl.sock[i].code = "none" /\ cl.sock[i].up # <<>>
    /\ Len(cl.sock[i].down) < MaxQueue
    /\ LET m == Head(cl.sock[i].up)
           c == [cl EXCEPT !.sock[i].up = Tail(@)]
           served == cl.sock[i].served
       IN cl' = CASE m[1] = "sub" /\ m[2] \notin served ->
                         Served(c, i, m[2])
                  [] m[1] = "unsub" -> [c EXCEPT !.sock[i].served = @ \ {m[2]}]
                  [] m[1] = "rpc" ->
                         [c EXCEPT !.sock[i].down = Append(@, <<"reply", m[2]>>),
                                   !.call.ran = IF m[2] \in served
                                                THEN Append(@, cl.sock[i].era) ELSE @]
                  [] OTHER -> c
    /\ UNCHANGED <<scenario, page, login, server, faults>>

\* server_terminated closes every connection with 1001.
BackendStops ==
    /\ "restart" \in scenario /\ server.up /\ server.session < MaxSessions
    /\ server' = [server EXCEPT !.up = FALSE]
    /\ cl' = [cl EXCEPT !.sock = [i \in Sockets |->
                  IF cl.sock[i].st = "open" /\ cl.sock[i].code = "none"
                  THEN [cl.sock[i] EXCEPT !.st = "closing", !.code = "lost"] ELSE cl.sock[i]]]
    /\ UNCHANGED <<scenario, page, login, faults>>

BackendStarts ==
    /\ ~server.up /\ server' = [session |-> server.session + 1, up |-> TRUE]
    /\ UNCHANGED <<scenario, cl, page, login, faults>>

LoginExpires ==
    /\ "expire" \in scenario /\ login.ok /\ login' = [login EXCEPT !.ok = FALSE]
    /\ UNCHANGED <<scenario, cl, page, server, faults>>
-----------------------------------------------------------------------------
OfSocket(i) ==
    \/ Opens(i) \/ ServerCloses(i) \/ ConnectionLost(i) \/ HandshakeFails(i) \/ OnClose(i)
    \/ Deliver(i) \/ HandleJob(i)

Next ==
    \/ \E i \in Sockets : OfSocket(i)
    \/ WatchdogFires \/ RetryFires \/ ProbeDecided \/ ProbeAnswered \/ ProbeAgain
    \/ \E t \in Topics : Sub(t) \/ Unsub(t) \/ Call(t)
    \/ CallTimesOut \/ VisitLogin \/ LogIn \/ BackendStops \/ BackendStarts \/ LoginExpires

Spec == Init /\ [][Next]_vars

\* Timers fire, events are dispatched, a connection moves its messages, a stopped
\* backend is replaced (Supervisor).  A handshake need not complete.
Fairness ==
    /\ WF_vars(WatchdogFires) /\ WF_vars(RetryFires) /\ WF_vars(BackendStarts)
    /\ \A i \in Sockets : WF_vars(ServerCloses(i)) /\ WF_vars(HandshakeFails(i))
                          /\ WF_vars(OnClose(i)) /\ WF_vars(Deliver(i)) /\ WF_vars(HandleJob(i))

LiveSpec == Spec /\ Fairness
-----------------------------------------------------------------------------
(* Properties.                                                             *)

Counted == {t \in Topics : cl.subs[t] > 0}

\* What a page shows belongs to a topic it still counts and, while the client
\* calls itself open, to the backend it is connected to (onopen clears it, a late
\* push of a topic left behind is discarded).
ShownIsCurrent ==
    \A t \in Topics : cl.data[t] # 0 =>
        t \in Counted /\ (cl.state = "open" /\ IsOpen(cl) => cl.data[t] = cl.sock[cl.ws].session)

\* Once a connection has handled what was sent, it serves the topics the page
\* counts: over reconnects, restarts and new logins ("Resubscribe to all topics
\* that have active component subscriptions").
ServedIsCounted ==
    IsOpen(cl) /\ cl.sock[cl.ws].code = "none" /\ cl.sock[cl.ws].up = <<>> =>
        cl.sock[cl.ws].served = Counted

\* A call runs at most once, and in the login session it was made in (#endSession:
\* "replaying them into the next (logged-in) session would re-run stale operations").
CallRunsOnce == Len(cl.call.ran) <= 1 /\ ToSet(cl.call.ran) \subseteq {cl.call.era}

\* Only a login that is no longer accepted ends the session: no outage, restart
\* or refused handshake does ("Only the latter two end the session").
SessionEndsRefused == [][cl'.public /\ ~cl.public /\ page' = page => ~login.ok]_vars

\* A topic a page keeps counting is shown with the data of a running backend, or
\* the page was left, the session ended or the retry budget spent; or the page waits
\* for a probe of the login: one is under way (probing) or will be asked again
\* (probeTimer), and nothing makes it be answered.
SubscriberFed ==
    \A t \in Topics : cl.subs[t] > 0 ~>
        \/ cl.data[t] # 0 \/ cl.subs[t] = 0 \/ cl.public \/ cl.probing > 0 \/ cl.probeTimer
        \/ (cl.attempts = MaxRetries /\ ~IsOpen(cl))

\* The tab goes on.  Does not hold when a component subscribes while the socket
\* closes: the close event of the old socket takes the new one away, and its
\* onopen puts every queued message back into the queue it is emptying.
NeverHangs == ~cl.hung

\* An open connection is shown as open.  Does not hold after a refused handshake:
\* a probe answered after the reconnect marks it as reconnecting for good.
OpenIsShown == IsOpen(cl) => cl.state = "open"
=============================================================================
