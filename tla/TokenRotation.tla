--------------------------- MODULE TokenRotation ---------------------------
(***************************************************************************)
(* The electron token: the rotation thread of the supervisor               *)
(* (mpipe/token_supervisor.py), the token table of the backend             *)
(* (token_backend.py), the announcements the desktop shell accepts         *)
(* (webapp/main/announcement.ts) and the websocket connections that renew  *)
(* theirs (lifespan.notify_rotation, ws/renew.py, renewal.svelte.ts).      *)
(* Token n is the n-th one generated, 0 is no token.                       *)
(***************************************************************************)
EXTENDS Naturals, Sequences, FiniteSets, SequencesExt

CONSTANTS
    Scenarios,   \* sets of what may go wrong in a behaviour
    Conns,       \* websocket connections
    MaxTokens,   \* bound: tokens generated
    MaxBackends  \* bound: backend processes

VARIABLES
    scenario,  \* what may go wrong in this behaviour
    window,    \* _window, a deque of two
    round,     \* the rotation thread
    next,      \* tokens generated so far
    main,      \* the main thread: watches a backend, or has the window for a new one
    be,        \* the backend process and its token table, oldest first
    down, up,  \* token and token_ack messages in the pipe
    notify,    \* connections notify_rotation() has still to reach
    lines,     \* announcements in stdout
    host,      \* the token the desktop shell accepted
    conn,      \* the connections: their token, a restricted subscription, a renewal
    lag        \* rounds since shell and backend agreed (2: the backend missed one)

vars == <<scenario, window, round, next, main, be, down, up, notify, lines, host, conn, lag>>

ASSUME ConstantsAssumption == MaxTokens \in Nat \ {0} /\ MaxBackends \in Nat \ {0}

Tokens == 0..MaxTokens
Closed == [open |-> FALSE, auth |-> 0, sub |-> FALSE, renewal |-> "none"]

TypeOK ==
    /\ window \in Seq(Tokens) /\ Len(window) \in 1..2 /\ next \in 1..MaxTokens
    /\ round \in [token : Tokens, acked : BOOLEAN, by : 0..MaxBackends]
    /\ main \in [pc : {"watch", "spawn"}, snap : Seq(Tokens)]
    /\ be \in [id : 1..MaxBackends, alive : BOOLEAN, table : Seq(Tokens)]
    /\ Len(be.table) \in 1..2 /\ IsInjective(be.table)
    /\ down \in Seq(Tokens) /\ up \in Seq(Tokens)
    /\ notify \subseteq Conns /\ lines \in Seq(Tokens \X Tokens)
    /\ host \in Tokens /\ lag \in 0..2
    /\ conn \in [Conns -> [open : BOOLEAN, auth : Tokens, sub : BOOLEAN,
                           renewal : {"none", "asked", "code"}]]

\* init_token() announced the first token, the first backend was born with it.
Init ==
    /\ scenario \in Scenarios
    /\ window = <<1>> /\ next = 1 /\ lines = << <<0, 1>> >> /\ host = 0 /\ lag = 0
    /\ round = [token |-> 0, acked |-> FALSE, by |-> 0]
    /\ main = [pc |-> "watch", snap |-> <<>>]
    /\ be = [id |-> 1, alive |-> TRUE, table |-> <<1>>]
    /\ down = <<>> /\ up = <<>> /\ notify = {}
    /\ conn = [c \in Conns |-> Closed]

\* verify()
Valid(t) == t \in ToSet(be.table)

\* Mutated Two: evicts as soon as it is full.
Two_One(s, t) == <<t>>

\* deque(maxlen=2), and _add() of the token table.
Two(s, t) == LET r == Append(s, t) IN IF Len(r) > 2 THEN Tail(r) ELSE r
-----------------------------------------------------------------------------
(* Supervisor.                                                             *)

\* rotate() up to its wait; without a pipe to a live backend the round is skipped.
Rotate ==
    /\ round.token = 0 /\ next < MaxTokens
    /\ next' = next + 1
    /\ IF main.pc = "watch" /\ be.alive
         THEN /\ round' = [token |-> next', acked |-> FALSE, by |-> be.id]
              /\ down' = Append(down, next')
         ELSE UNCHANGED <<round, down>>
    /\ UNCHANGED <<scenario, window, main, be, up, notify, lines, host, conn, lag>>

\* recv_loop() hands a token_ack to handle_token_ack().
HandleAck ==
    /\ main.pc = "watch" /\ up # <<>> /\ up' = Tail(up)
    /\ round' = [round EXCEPT !.acked = @ \/ (round.token # 0 /\ Head(up) = round.token)]
    /\ UNCHANGED <<scenario, window, next, main, be, down, notify, lines, host, conn, lag>>

\* _reset_pending()
NoRound == [token |-> 0, acked |-> FALSE, by |-> 0]

\* Mutated Announce: the oldest token of the window is named as the old one.
Announce_Oldest ==
    /\ round.token # 0 /\ round.acked
    /\ window' = Two(window, round.token)
    /\ lines' = Append(lines, <<Head(window), round.token>>)
    /\ lag' = IF main.pc = "watch" /\ round.by # be.id THEN 2 ELSE 0
    /\ round' = NoRound
    /\ UNCHANGED <<scenario, next, main, be, down, up, notify, host, conn>>

\* The confirmed token is announced after the last one of the window.
Announce ==
    /\ round.token # 0 /\ round.acked
    /\ window' = Two(window, round.token)
    /\ lines' = Append(lines, <<Last(window), round.token>>)
    /\ lag' = IF main.pc = "watch" /\ round.by # be.id THEN 2 ELSE 0
    /\ round' = NoRound
    /\ UNCHANGED <<scenario, next, main, be, down, up, notify, host, conn>>

\* ACK_TIMEOUT: the round is dropped.
AckTimesOut ==
    /\ round.token # 0 /\ ~round.acked
    /\ round' = NoRound
    /\ lag' = IF lag < 2 THEN lag + 1 ELSE 2
    /\ UNCHANGED <<scenario, window, next, main, be, down, up, notify, lines, host, conn>>

\* start_backend() takes window() before the process is started.
TakeWindow ==
    /\ main.pc = "watch" /\ ~be.alive /\ up = <<>> /\ be.id < MaxBackends
    /\ main' = [pc |-> "spawn", snap |-> window]
    /\ UNCHANGED <<scenario, window, round, next, be, down, up, notify, lines, host, conn, lag>>

Spawn ==
    /\ main.pc = "spawn" /\ main' = [main EXCEPT !.pc = "watch"]
    /\ be' = [id |-> be.id + 1, alive |-> TRUE, table |-> main.snap]
    /\ down' = <<>>
    /\ lag' = IF Last(main.snap) = Last(window) THEN 0 ELSE 2
    /\ UNCHANGED <<scenario, window, round, next, up, notify, lines, host, conn>>
-----------------------------------------------------------------------------
(* Desktop shell.                                                          *)

\* acceptAnnouncement()
Accepted(old, new) == IF old = host THEN new ELSE host

ReadLine ==
    /\ lines # <<>> /\ lines' = Tail(lines)
    /\ host' = Accepted(Head(lines)[1], Head(lines)[2])
    /\ UNCHANGED <<scenario, window, round, next, main, be, down, up, notify, conn, lag>>
-----------------------------------------------------------------------------
(* Backend.                                                                *)

\* notify_rotation(): the connections with a restricted subscription.
Notified == {c \in Conns : conn[c].open /\ conn[c].sub}

\* mpipe_recv_loop() takes a token: into the table, acknowledged, and the
\* connections with a restricted subscription are notified before it goes on.
HandleToken ==
    /\ be.alive /\ down # <<>> /\ notify = {}
    /\ down' = Tail(down)
    /\ be' = [be EXCEPT !.table = Two(@, Head(down))]
    /\ up' = Append(up, Head(down))
    /\ notify' = Notified
    /\ UNCHANGED <<scenario, window, round, next, main, lines, host, conn, lag>>

\* Mutated NotifyOne: every connection is asked to renew.
NotifyOne_KeepsEvicted(c) ==
    /\ c \in notify /\ notify' = notify \ {c}
    /\ conn' = [conn EXCEPT ![c].renewal = IF conn[c].open THEN "asked" ELSE @]
    /\ UNCHANGED <<scenario, window, round, next, main, be, down, up, lines, host, lag>>

\* _notify_one(): renew, or close(4002); a stuck connection is skipped.
NotifyOne(c) ==
    /\ c \in notify /\ notify' = notify \ {c}
    /\ \/ "slow" \in scenario /\ UNCHANGED conn
       \/ conn' = [conn EXCEPT ![c] = IF ~conn[c].open THEN @
                                      ELSE IF Valid(@.auth) THEN [@ EXCEPT !.renewal = "asked"]
                                      ELSE Closed]
    /\ UNCHANGED <<scenario, window, round, next, main, be, down, up, lines, host, lag>>

\* The handshake carries the token of the shell, a logged-in session is accepted
\* with any.
Connect(c) ==
    /\ be.alive /\ ~conn[c].open
    /\ conn' = [conn EXCEPT ![c] = [Closed EXCEPT !.open = TRUE, !.auth = host]]
    /\ UNCHANGED <<scenario, window, round, next, main, be, down, up, notify, lines, host, lag>>

\* handle_job('sub') of a restricted topic.
Subscribe(c) ==
    /\ conn[c].open /\ ~conn[c].sub /\ Valid(conn[c].auth)
    /\ conn' = [conn EXCEPT ![c].sub = TRUE]
    /\ UNCHANGED <<scenario, window, round, next, main, be, down, up, notify, lines, host, lag>>

\* POST /api/ws/renew with the token of the shell.
IssueCode(c) ==
    /\ conn[c].open /\ conn[c].renewal = "asked"
    /\ conn' = [conn EXCEPT ![c].renewal = IF Valid(host) THEN "code" ELSE "none"]
    /\ UNCHANGED <<scenario, window, round, next, main, be, down, up, notify, lines, host, lag>>

\* handle_job('auth'): redeemed for current(), or expired.
Redeem(c) ==
    /\ conn[c].open /\ conn[c].renewal = "code"
    /\ \/ conn' = [conn EXCEPT ![c].renewal = "none", ![c].auth = Last(be.table)]
       \/ "slow" \in scenario /\ conn' = [conn EXCEPT ![c].renewal = "none"]
    /\ UNCHANGED <<scenario, window, round, next, main, be, down, up, notify, lines, host, lag>>

\* The backend restarts or crashes: its connections and what it had not read go.
BackendEnds ==
    /\ "restart" \in scenario /\ be.alive /\ be.id < MaxBackends
    /\ be' = [be EXCEPT !.alive = FALSE] /\ down' = <<>> /\ notify' = {}
    /\ conn' = [c \in Conns |-> Closed]
    /\ UNCHANGED <<scenario, window, round, next, main, up, lines, host, lag>>
-----------------------------------------------------------------------------
Next ==
    \/ Rotate \/ HandleAck \/ Announce \/ AckTimesOut \/ TakeWindow \/ Spawn \/ ReadLine
    \/ HandleToken \/ BackendEnds
    \/ \E c \in Conns : NotifyOne(c) \/ Connect(c) \/ Subscribe(c) \/ IssueCode(c) \/ Redeem(c)

Spec == Init /\ [][Next]_vars
-----------------------------------------------------------------------------
(* Properties.                                                             *)

\* No announcement is out of the chain: the shell accepts every line the
\* supervisor prints, also those after a dropped round or a restart.
AnnouncementsChain == lines # <<>> => Head(lines)[1] = host

Settled == be.alive /\ main.pc = "watch" /\ round.token = 0 /\ lines = <<>> /\ down = <<>>

\* After a round that went through, and after the one that follows it whatever
\* becomes of it, the backend accepts the token of the shell (rotate()).
ShellIsAccepted == Settled /\ lag <= 1 => Valid(host)

\* The same without the allowance.  Does not hold: two acknowledgements in a row
\* that come too late evict the token the shell is left with, and a backend that
\* is started between an acknowledgement and its round's end misses the token.
ShellAlwaysAccepted == Settled => Valid(host)

\* Once the notification of a rotation is over, whoever has a restricted
\* subscription holds a token of the table (notify_rotation()).
RestrictedHoldsToken ==
    notify = {} /\ "slow" \notin scenario =>
        \A c \in Conns : conn[c].open /\ conn[c].sub => Valid(conn[c].auth)
=============================================================================
