------------------------ MODULE TokenRotationProofs ------------------------
(***************************************************************************)
(* Proofs about TokenRotation: its types, that the desktop shell accepts   *)
(* every announcement, that the backend accepts the token of the shell     *)
(* after one failed round at most, and that a restricted subscription      *)
(* never outlives its token.  They hold for any number of connections,     *)
(* tokens and backend processes.                                           *)
(***************************************************************************)
EXTENDS TokenRotation, TLAPS

\* A deque of tokens, oldest first: one or two of them, none of them newer than the
\* last one generated.
Deque(s) ==
    /\ s \in Seq(Tokens) /\ Len(s) \in 1..2
    /\ Len(s) = 2 => s[1] < s[2]
    /\ Last(s) <= next

\* Messages in the order of their tokens, all of them newer than lo and none newer than
\* hi; and messages none of which is newer than hi.
Rising(s) == \A i, j \in 1..Len(s) : i < j => s[i] < s[j]
Between(s, lo, hi) == \A i \in 1..Len(s) : lo < s[i] /\ s[i] <= hi
AtMost(s, hi) == \A i \in 1..Len(s) : s[i] <= hi

\* The order of the tokens: a token is generated, sent, handled, confirmed and announced
\* before the next one, the pipe and the deques keep that order, and what is on its way
\* down is newer than the table and what is on its way up is not.
InOrder ==
    /\ Deque(window) /\ Deque(be.table)
    /\ Rising(down) /\ Between(down, Last(be.table), next) /\ AtMost(up, Last(be.table))
    /\ round.token # 0 => round.token = next /\ Last(window) < next
    /\ round.by <= be.id

\* While the main thread has the window for a new backend, there is none.
BetweenBackends ==
    main.pc = "spawn" =>
        ~be.alive /\ be.id < MaxBackends /\ up = <<>> /\ Deque(main.snap)

\* What makes AnnouncementsChain inductive: the lines in stdout lead from the token of
\* the shell to the last one of the window.
LinesChain ==
    /\ lines = <<>> => host = Last(window)
    /\ lines # <<>> => lines[1][1] = host /\ lines[Len(lines)][2] = Last(window)
    /\ \A i \in 1..(Len(lines) - 1) : lines[i][2] = lines[i + 1][1]

\* What makes RestrictedHoldsToken inductive: only the connections that a notification
\* has still to reach may hold a token that was evicted.
Watched ==
    /\ ~be.alive => \A c \in Conns : ~conn[c].open
    /\ "slow" \notin scenario =>
         \A c \in Conns \ notify : conn[c].open /\ conn[c].sub => Valid(conn[c].auth)

\* A confirmed token of this backend is the last one it was sent.
Confirmed ==
    round.token # 0 /\ round.acked /\ round.by = be.id => Last(be.table) = round.token

\* The announced token is the newest one the backend was sent, or the one before it.
Newest == Last(be.table) = Last(window) /\ down = <<>>
OneNewer ==
    \/ Last(be.table) = Last(window) /\ Len(down) = 1
    \/ Len(be.table) = 2 /\ be.table[1] = Last(window) /\ down = <<>>

\* What makes ShellIsAccepted inductive: without a failed round the backend is one token
\* ahead while a round is on, after one it still holds the announced token.
WithinLag ==
    main.pc = "watch" /\ be.alive =>
        /\ lag = 0 /\ (round.token = 0 \/ round.by # be.id) => Newest
        /\ lag = 0 /\ round.token # 0 /\ round.by = be.id => OneNewer
        /\ lag = 1 /\ round.token = 0 => Newest \/ OneNewer

IInv ==
    /\ TypeOK /\ InOrder /\ BetweenBackends /\ LinesChain
    /\ Watched /\ Confirmed /\ WithinLag
-----------------------------------------------------------------------------

\* The sequences of the model: appending, taking the first, and the deque of two.
LEMMA Appended ==
  ASSUME NEW S, NEW s \in Seq(S), NEW x \in S
  PROVE  /\ Append(s, x) \in Seq(S) /\ Append(s, x) # <<>> /\ Len(Append(s, x)) = Len(s) + 1
         /\ \A i \in 1..Len(s) : Append(s, x)[i] = s[i]
         /\ Append(s, x)[Len(s) + 1] = x
  OBVIOUS

LEMMA Taken ==
  ASSUME NEW S, NEW s \in Seq(S), s # <<>>
  PROVE  /\ Len(s) \in Nat \ {0} /\ Head(s) = s[1] /\ s[1] \in S
         /\ Tail(s) \in Seq(S) /\ Len(Tail(s)) = Len(s) - 1
         /\ \A i \in 1..(Len(s) - 1) : Tail(s)[i] = s[i + 1]
  OBVIOUS

LEMMA EmptySeq == ASSUME NEW S, NEW s \in Seq(S), Len(s) = 0 PROVE s = <<>>
  OBVIOUS

LEMMA TwoOf ==
  ASSUME NEW s \in Seq(Tokens), Len(s) \in 1..2, NEW t \in Tokens
  PROVE  /\ Two(s, t) \in Seq(Tokens) /\ Len(Two(s, t)) = 2
         /\ Two(s, t)[1] = Last(s) /\ Two(s, t)[2] = t /\ Last(Two(s, t)) = t
  BY DEF Two, Last

LEMMA LastOf ==
  ASSUME NEW s \in Seq(Tokens), Len(s) \in 1..2
  PROVE  Last(s) \in Tokens /\ s[1] \in Tokens /\ Last(s) \in ToSet(s) /\ s[1] \in ToSet(s)
  BY DEF Last, ToSet

\* The messages in the pipe: one more at the end, one less at the start.
LEMMA SentLast ==
  ASSUME NEW s \in Seq(Tokens), NEW lo \in Nat, NEW hi \in Nat, NEW x \in Tokens,
         Rising(s), Between(s, lo, hi), lo < x, hi < x
  PROVE  Rising(Append(s, x)) /\ Between(Append(s, x), lo, x)
<1>1. /\ Len(Append(s, x)) = Len(s) + 1 /\ Append(s, x)[Len(s) + 1] = x /\ x \in Nat
      /\ \A i \in 1..Len(s) : Append(s, x)[i] = s[i] /\ s[i] \in Nat
      BY ConstantsAssumption DEF Tokens
<1>2. ASSUME NEW i \in 1..(Len(s) + 1)
      PROVE  lo < Append(s, x)[i] /\ Append(s, x)[i] <= x
  <2>1. CASE i \in 1..Len(s)
        BY <1>1, <2>1 DEF Between
  <2>2. CASE i = Len(s) + 1
        BY <1>1, <2>2
  <2>3. QED
        BY <2>1, <2>2
<1>3. ASSUME NEW i \in 1..(Len(s) + 1), NEW j \in 1..(Len(s) + 1), i < j
      PROVE  Append(s, x)[i] < Append(s, x)[j]
  <2>1. i \in 1..Len(s) /\ s[i] <= hi
        BY <1>3 DEF Between
  <2>2. CASE j \in 1..Len(s)
        BY <1>1, <1>3, <2>1, <2>2 DEF Rising
  <2>3. CASE j = Len(s) + 1
        BY <1>1, <2>1, <2>3
  <2>4. QED
        BY <2>2, <2>3
<1>4. QED
      BY <1>1, <1>2, <1>3 DEF Rising, Between

LEMMA ReceivedFirst ==
  ASSUME NEW s \in Seq(Tokens), s # <<>>, NEW lo \in Nat, NEW hi \in Nat,
         Rising(s), Between(s, lo, hi)
  PROVE  Rising(Tail(s)) /\ Between(Tail(s), s[1], hi)
<1>1. /\ Len(s) \in Nat \ {0} /\ Len(Tail(s)) = Len(s) - 1
      /\ \A i \in 1..(Len(s) - 1) : Tail(s)[i] = s[i + 1] /\ i + 1 \in 1..Len(s)
      BY Taken
<1>2. ASSUME NEW i \in 1..(Len(s) - 1)
      PROVE  s[1] < Tail(s)[i] /\ Tail(s)[i] <= hi
      BY <1>1 DEF Rising, Between
<1>3. ASSUME NEW i \in 1..(Len(s) - 1), NEW j \in 1..(Len(s) - 1), i < j
      PROVE  Tail(s)[i] < Tail(s)[j]
      BY <1>1, <1>3 DEF Rising
<1>4. QED
      BY <1>1, <1>2, <1>3 DEF Rising, Between

LEMMA AnsweredLast ==
  ASSUME NEW s \in Seq(Tokens), NEW hi \in Nat, NEW x \in Tokens, AtMost(s, hi), hi < x
  PROVE  AtMost(Append(s, x), x)
<1>1. /\ Len(Append(s, x)) = Len(s) + 1 /\ Append(s, x)[Len(s) + 1] = x /\ x \in Nat
      /\ \A i \in 1..Len(s) : Append(s, x)[i] = s[i] /\ s[i] \in Nat
      BY ConstantsAssumption DEF Tokens
<1>2. ASSUME NEW i \in 1..(Len(s) + 1) PROVE Append(s, x)[i] <= x
  <2>1. CASE i \in 1..Len(s)
        BY <1>1, <2>1 DEF AtMost
  <2>2. CASE i = Len(s) + 1
        BY <1>1, <2>2
  <2>3. QED
        BY <2>1, <2>2
<1>3. QED
      BY <1>1, <1>2 DEF AtMost

LEMMA AnswerRead ==
  ASSUME NEW s \in Seq(Tokens), s # <<>>, NEW hi \in Nat, AtMost(s, hi)
  PROVE  AtMost(Tail(s), hi)
<1>1. /\ Len(s) \in Nat \ {0} /\ Len(Tail(s)) = Len(s) - 1
      /\ \A i \in 1..(Len(s) - 1) : Tail(s)[i] = s[i + 1] /\ i + 1 \in 1..Len(s)
      BY Taken
<1>2. QED
      BY <1>1 DEF AtMost

LEMMA NoneSent ==
  ASSUME NEW lo, NEW hi
  PROVE  Rising(<<>>) /\ Between(<<>>, lo, hi) /\ AtMost(<<>>, hi)
  BY DEF Rising, Between, AtMost

\* What a step leaves alone for the deques and the pipe.
LEMMA SameOrder ==
  ASSUME InOrder, UNCHANGED <<window, round, next, be, down, up>>
  PROVE  InOrder'
  BY DEF InOrder, Deque, Rising, Between, AtMost

\* The initial states satisfy the invariant.
LEMMA InitIInv == Init => IInv
<1> SUFFICES ASSUME Init PROVE IInv
    OBVIOUS
<1>1. /\ <<1>> \in Seq(Tokens) /\ Len(<<1>>) = 1 /\ Last(<<1>>) = 1
      /\ <<>> \in Seq(Tokens) /\ << <<0, 1>> >> \in Seq(Tokens \X Tokens)
      BY ConstantsAssumption DEF Tokens, Last
<1>2. IsInjective(<<1>>)
      BY DEF IsInjective
<1>3. TypeOK
      BY ConstantsAssumption, <1>1, <1>2 DEF Init, TypeOK, Tokens, Closed
<1>4. InOrder
      BY <1>1, NoneSent DEF Init, InOrder, Deque
<1>5. LinesChain /\ BetweenBackends /\ Watched /\ Confirmed /\ WithinLag
      BY <1>1 DEF Init, LinesChain, BetweenBackends, Watched, Confirmed, WithinLag, Newest, Closed
<1>6. QED
      BY <1>3, <1>4, <1>5 DEF IInv
-----------------------------------------------------------------------------

\* A deque that moved on to a newer token.
LEMMA NextDeque ==
  ASSUME NEW s \in Seq(Tokens), Len(s) \in 1..2, NEW t \in Tokens, Last(s) < t, t <= next
  PROVE  Deque(Two(s, t)) /\ Last(Two(s, t)) = t
<1>1. /\ Two(s, t) \in Seq(Tokens) /\ Len(Two(s, t)) = 2
      /\ Two(s, t)[1] = Last(s) /\ Two(s, t)[2] = t /\ Last(Two(s, t)) = t
      BY TwoOf
<1>2. QED
      BY <1>1 DEF Deque

LEMMA MoreTokens ==
  ASSUME NEW s \in Seq(Tokens), NEW lo, NEW hi \in Nat, Between(s, lo, hi)
  PROVE  Between(s, lo, hi + 1)
<1>1. \A i \in 1..Len(s) : s[i] \in Nat
      BY ConstantsAssumption DEF Tokens
<1>2. QED
      BY <1>1 DEF Between

\* The deques and the pipe in numbers.
LEMMA Numbers ==
  ASSUME TypeOK, InOrder
  PROVE  /\ next \in Nat /\ next \in Tokens /\ \A t \in Tokens : t \in Nat
         /\ window \in Seq(Tokens) /\ Len(window) \in 1..2
         /\ Last(window) \in Tokens /\ Last(window) \in Nat /\ Last(window) <= next
         /\ be.table \in Seq(Tokens) /\ Len(be.table) \in 1..2
         /\ Last(be.table) \in Tokens /\ Last(be.table) \in Nat /\ Last(be.table) <= next
         /\ down \in Seq(Tokens) /\ up \in Seq(Tokens)
<1>1. next \in Nat /\ next \in Tokens /\ \A t \in Tokens : t \in Nat
      BY ConstantsAssumption DEF TypeOK, Tokens
<1>2. /\ window \in Seq(Tokens) /\ Len(window) \in 1..2 /\ Last(window) <= next
      /\ be.table \in Seq(Tokens) /\ Len(be.table) \in 1..2 /\ Last(be.table) <= next
      /\ down \in Seq(Tokens) /\ up \in Seq(Tokens)
      BY DEF TypeOK, InOrder, Deque
<1>3. QED
      BY <1>1, <1>2, LastOf

\* What waits to be handled is newer than the table.
LEMMA FirstSent ==
  ASSUME TypeOK, InOrder, down # <<>>
  PROVE  /\ down[1] \in Tokens /\ down[1] \in Nat /\ next \in Nat /\ Last(be.table) \in Nat
         /\ Last(be.table) < down[1] /\ down[1] <= next
<1>1. /\ down \in Seq(Tokens) /\ down[1] \in Tokens /\ down[1] \in Nat
      /\ next \in Nat /\ Last(be.table) \in Nat
      BY Numbers, Taken
<1>2. 1 \in 1..Len(down)
      BY <1>1
<1>3. QED
      BY <1>1, <1>2 DEF InOrder, Between

\* The order of the tokens is kept by every step.
LEMMA StepOrder ==
  ASSUME IInv, [Next]_vars
  PROVE  InOrder'
<1>1. CASE Rotate
  <2>1. /\ next' = next + 1 /\ next' \in Tokens /\ next \in Nat /\ UNCHANGED <<window, be, up>>
        /\ round.token = 0
        BY <1>1, ConstantsAssumption DEF Rotate, IInv, TypeOK, Tokens
  <2>2. Deque(window)' /\ Deque(be.table)'
        BY <2>1, Numbers DEF IInv, InOrder, Deque, Tokens
  <2>3. CASE UNCHANGED <<round, down>>
    <3>1. Between(down, Last(be.table), next')
          BY <2>1, Numbers, MoreTokens DEF IInv, InOrder
    <3>2. QED
          BY <2>1, <2>2, <2>3, <3>1 DEF IInv, InOrder, Rising, Between, AtMost
  <2>4. CASE /\ round' = [token |-> next', acked |-> FALSE, by |-> be.id]
             /\ down' = Append(down, next')
    <3>1. Last(be.table) < next' /\ next < next' /\ Last(window) < next'
      <4>1. Last(be.table) \in Nat /\ Last(be.table) <= next
            BY Numbers DEF IInv
      <4>2. Last(window) \in Nat /\ Last(window) <= next
            BY Numbers DEF IInv
      <4>3. QED
            BY <2>1, <4>1, <4>2
    <3>2. Rising(down') /\ Between(down', Last(be.table), next')
          BY <2>1, <2>4, <3>1, Numbers, SentLast DEF IInv, InOrder
    <3>3. round'.token = next' /\ round'.by = be.id /\ be.id <= be.id
          BY <2>4 DEF IInv, TypeOK
    <3>4. QED
          BY <2>1, <2>2, <3>1, <3>2, <3>3 DEF IInv, InOrder, Rising, Between, AtMost
  <2>5. QED
        BY <1>1, <2>3, <2>4 DEF Rotate
<1>2. CASE HandleAck
  <2>1. /\ up # <<>> /\ up' = Tail(up) /\ UNCHANGED <<window, next, be, down>>
        /\ round'.token = round.token /\ round'.by = round.by
        BY <1>2 DEF HandleAck, IInv, TypeOK
  <2>2. AtMost(up', Last(be.table))
        BY <2>1, Numbers, AnswerRead DEF IInv, InOrder
  <2>3. QED
        BY <2>1, <2>2 DEF IInv, InOrder, Deque, Rising, Between, AtMost
<1>3. CASE Announce
  <2>1. /\ round.token = next /\ Last(window) < next
        /\ window' = Two(window, next) /\ UNCHANGED <<next, be, down, up>>
        /\ round' = NoRound
        BY <1>3 DEF Announce, IInv, InOrder
  <2>2. Deque(Two(window, next)) /\ Deque(window)'
        BY <2>1, Numbers, NextDeque DEF IInv, Deque
  <2>3. NoRound.token = 0 /\ NoRound.by <= be.id
        BY DEF NoRound, IInv, TypeOK
  <2>4. QED
        BY <2>1, <2>2, <2>3 DEF IInv, InOrder, Deque, Rising, Between, AtMost
<1>4. CASE AckTimesOut
  <2>1. NoRound.token = 0 /\ NoRound.by <= be.id
        BY DEF NoRound, IInv, TypeOK
  <2>2. QED
        BY <1>4, <2>1 DEF AckTimesOut, IInv, InOrder, Deque, Rising, Between, AtMost
<1>5. CASE Spawn
  <2>1. /\ be'.table = main.snap /\ be'.id = be.id + 1 /\ down' = <<>> /\ up' = <<>>
        /\ UNCHANGED <<window, round, next>> /\ Deque(main.snap)
        BY <1>5 DEF Spawn, IInv, BetweenBackends
  <2>2. Deque(be.table)' /\ Deque(window)'
        BY <2>1 DEF IInv, InOrder, Deque
  <2>3. round.by <= be.id + 1
        BY DEF IInv, InOrder, TypeOK
  <2>4. QED
        BY <2>1, <2>2, <2>3, NoneSent DEF IInv, InOrder, Rising, Between, AtMost
<1>6. CASE HandleToken
  <2> DEFINE t == down[1]
  <2>1. /\ down # <<>> /\ down' = Tail(down) /\ be'.table = Two(be.table, t) /\ be'.id = be.id
        /\ up' = Append(up, t) /\ UNCHANGED <<window, round, next>>
        BY <1>6, Numbers, Taken DEF HandleToken, IInv, TypeOK
  <2>2. t \in Tokens /\ Last(be.table) < t /\ t <= next
        BY <2>1, Numbers, Taken DEF IInv, InOrder, Between
  <2>3. Deque(Two(be.table, t)) /\ Deque(be.table)' /\ Last(be'.table) = t
        BY <2>1, <2>2, Numbers, NextDeque DEF IInv, Deque
  <2>4. Rising(down') /\ Between(down', t, next)
        BY <2>1, Numbers, ReceivedFirst DEF IInv, InOrder
  <2>5. AtMost(up', t)
        BY <2>1, <2>2, Numbers, AnsweredLast DEF IInv, InOrder
  <2>6. QED
        BY <2>1, <2>3, <2>4, <2>5 DEF IInv, InOrder, Deque, Rising, Between, AtMost
<1>7. CASE BackendEnds
  <2>1. /\ be'.table = be.table /\ be'.id = be.id /\ down' = <<>>
        /\ UNCHANGED <<window, round, next, up>>
        BY <1>7 DEF BackendEnds, IInv, TypeOK
  <2>2. QED
        BY <2>1, NoneSent DEF IInv, InOrder, Deque, Rising, Between, AtMost
<1>8. CASE TakeWindow \/ ReadLine \/ UNCHANGED vars
      BY <1>8, SameOrder DEF TakeWindow, ReadLine, vars, IInv
<1>9. CASE \E c \in Conns : NotifyOne(c) \/ Connect(c) \/ Subscribe(c) \/ IssueCode(c)
                            \/ Redeem(c)
      BY <1>9, SameOrder DEF NotifyOne, Connect, Subscribe, IssueCode, Redeem, IInv
<1>10. QED
      BY <1>1, <1>2, <1>3, <1>4, <1>5, <1>6, <1>7, <1>8, <1>9 DEF Next

\* The steps of the connections leave the supervisor, the pipe and the shell alone.
LEMMA ConnSteps ==
  ASSUME NEW c \in Conns,
         NotifyOne(c) \/ Connect(c) \/ Subscribe(c) \/ IssueCode(c) \/ Redeem(c)
  PROVE  UNCHANGED <<scenario, window, round, next, main, be, down, up, lines, host, lag>>
  BY DEF NotifyOne, Connect, Subscribe, IssueCode, Redeem

\* The states of a connection.
Connection == [open : BOOLEAN, auth : Tokens, sub : BOOLEAN, renewal : {"none", "asked", "code"}]

\* The steps of the connections keep the types.
LEMMA ConnTypes ==
  ASSUME TypeOK, InOrder, NEW c \in Conns,
         NotifyOne(c) \/ Connect(c) \/ Subscribe(c) \/ IssueCode(c) \/ Redeem(c)
  PROVE  TypeOK'
<1>1. /\ conn \in [Conns -> Connection] /\ host \in Tokens /\ Last(be.table) \in Tokens
      /\ 0 \in Tokens /\ notify' \subseteq Conns
  <2>1. 0 \in Tokens
        BY ConstantsAssumption DEF Tokens
  <2>2. notify' \subseteq Conns
        BY DEF TypeOK, NotifyOne, Connect, Subscribe, IssueCode, Redeem
  <2>3. QED
        BY <2>1, <2>2, Numbers DEF TypeOK, Connection
<1>2. Closed \in Connection /\ [Closed EXCEPT !.open = TRUE, !.auth = host] \in Connection
      BY <1>1 DEF Closed, Connection
<1>3. conn' \in [Conns -> Connection]
  <2>1. CASE NotifyOne(c)
        BY <1>1, <1>2, <2>1 DEF NotifyOne, Connection
  <2>2. CASE Connect(c)
        BY <1>1, <2>2 DEF Connect, Closed, Connection
  <2>3. CASE Subscribe(c)
        BY <1>1, <2>3 DEF Subscribe, Connection
  <2>4. CASE IssueCode(c)
    <3>1. \E r \in {"code", "none"} : conn' = [conn EXCEPT ![c].renewal = r]
          BY <2>4 DEF IssueCode
    <3>2. QED
          BY <1>1, <3>1 DEF Connection
  <2>5. CASE Redeem(c)
        BY <1>1, <2>5 DEF Redeem, Connection
  <2>6. QED
        BY <2>1, <2>2, <2>3, <2>4, <2>5
<1>4. QED
      BY <1>1, <1>3, ConnSteps DEF TypeOK, Connection

\* The steps of the backend process and of the main thread keep the types.
LEMMA BackendTypes ==
  ASSUME TypeOK, InOrder, BetweenBackends, InOrder',
         TakeWindow \/ Spawn \/ HandleToken \/ BackendEnds
  PROVE  TypeOK'
<1>1. 0 \in Tokens /\ \A t \in Tokens : t \in Nat
      BY ConstantsAssumption DEF Tokens
<1>2. /\ be'.table \in Seq(Tokens) /\ Len(be'.table) \in 1..2 /\ IsInjective(be'.table)
  <2>1. /\ be'.table \in Seq(Tokens) /\ Len(be'.table) \in 1..2
        /\ Len(be'.table) = 2 => be'.table[1] < be'.table[2]
        BY DEF InOrder, Deque, Tokens
  <2>2. IsInjective(be'.table)
        BY <2>1, ConstantsAssumption DEF IsInjective, Tokens
  <2>3. QED
        BY <2>1, <2>2
<1>3. be' \in [id : 1..MaxBackends, alive : BOOLEAN, table : Seq(Tokens)]
  <2>1. be \in [id : 1..MaxBackends, alive : BOOLEAN, table : Seq(Tokens)]
        BY DEF TypeOK
  <2>2. CASE Spawn
    <3>1. be.id + 1 \in 1..MaxBackends
          BY <2>2, <2>1, ConstantsAssumption DEF Spawn, BetweenBackends, TypeOK
    <3>2. QED
          BY <2>2, <3>1, <1>2 DEF Spawn
  <2>3. CASE ~ Spawn
    <3>1. /\ be'.id = be.id /\ be' = [id |-> be'.id, alive |-> be'.alive, table |-> be'.table]
          /\ be'.alive \in BOOLEAN
          BY <2>1, <2>3 DEF TakeWindow, HandleToken, BackendEnds
    <3>2. QED
          BY <1>2, <2>1, <3>1
  <2>4. QED
        BY <2>2, <2>3
<1>4. /\ main' \in [pc : {"watch", "spawn"}, snap : Seq(Tokens)]
      /\ down' \in Seq(Tokens) /\ up' \in Seq(Tokens) /\ lag' \in 0..2
      /\ next' = next /\ next' \in 1..MaxTokens /\ window' = window
  <2>1. CASE TakeWindow
        BY <2>1 DEF TypeOK, TakeWindow
  <2>2. CASE Spawn
    <3>1. main' = [main EXCEPT !.pc = "watch"] /\ down' = <<>> /\ lag' \in {0, 2}
          BY <2>2 DEF Spawn
    <3>2. UNCHANGED <<up, next, window>>
          BY <2>2 DEF Spawn
    <3>3. main' \in [pc : {"watch", "spawn"}, snap : Seq(Tokens)]
          BY <3>1 DEF TypeOK
    <3>4. down' \in Seq(Tokens) /\ lag' \in 0..2
          BY <3>1
    <3>5. QED
          BY <3>2, <3>3, <3>4 DEF TypeOK
  <2>3. CASE HandleToken
        BY <2>3, Taken, Appended DEF TypeOK, HandleToken
  <2>4. CASE BackendEnds
        BY <2>4 DEF TypeOK, BackendEnds
  <2>5. QED
        BY <2>1, <2>2, <2>3, <2>4
<1>5. /\ notify' \subseteq Conns
      /\ conn' = conn \/ conn' = [c \in Conns |-> Closed]
      /\ UNCHANGED <<round, lines, host>>
      BY DEF TypeOK, TakeWindow, Spawn, HandleToken, BackendEnds, Notified
<1>6. conn' \in [Conns -> Connection]
  <2>1. conn \in [Conns -> Connection] /\ Closed \in Connection
        BY <1>1 DEF TypeOK, Connection, Closed
  <2>2. QED
        BY <1>5, <2>1
<1>7. QED
      BY <1>2, <1>3, <1>4, <1>5, <1>6 DEF TypeOK, Connection

\* The rounds of the supervisor and the lines it prints keep the types.
LEMMA RoundTypes ==
  ASSUME TypeOK, InOrder, InOrder',
         Rotate \/ HandleAck \/ Announce \/ AckTimesOut \/ ReadLine
  PROVE  TypeOK'
<1>1. CASE Rotate
  <2>1. next' \in 1..MaxTokens /\ next' \in Tokens
        BY <1>1, ConstantsAssumption DEF Rotate, TypeOK, Tokens
  <2>2. /\ round' \in [token : Tokens, acked : BOOLEAN, by : 0..MaxBackends]
        /\ down' \in Seq(Tokens)
    <3>1. CASE UNCHANGED <<round, down>>
          BY <3>1 DEF TypeOK
    <3>2. CASE /\ round' = [token |-> next', acked |-> FALSE, by |-> be.id]
               /\ down' = Append(down, next')
      <4>1. be.id \in 0..MaxBackends
            BY ConstantsAssumption DEF TypeOK
      <4>2. QED
            BY <2>1, <3>2, <4>1, Appended DEF TypeOK
    <3>3. QED
          BY <1>1, <3>1, <3>2 DEF Rotate
  <2>3. QED
        BY <1>1, <2>1, <2>2 DEF Rotate, TypeOK
<1>2. CASE HandleAck
  <2>1. up' \in Seq(Tokens)
        BY <1>2, Taken DEF HandleAck, TypeOK
  <2>2. round' \in [token : Tokens, acked : BOOLEAN, by : 0..MaxBackends]
        BY <1>2 DEF HandleAck, TypeOK
  <2>3. QED
        BY <1>2, <2>1, <2>2 DEF HandleAck, TypeOK
<1>3. NoRound \in [token : Tokens, acked : BOOLEAN, by : 0..MaxBackends]
      BY ConstantsAssumption DEF NoRound, Tokens
<1>4. CASE Announce
  <2>1. window' \in Seq(Tokens) /\ Len(window') \in 1..2
        BY DEF InOrder, Deque, Tokens
  <2>2. lines' \in Seq(Tokens \X Tokens)
        BY <1>4, Numbers, Appended DEF Announce, TypeOK
  <2>3. QED
        BY <1>3, <1>4, <2>1, <2>2 DEF Announce, TypeOK
<1>5. CASE AckTimesOut
      BY <1>3, <1>5 DEF AckTimesOut, TypeOK
<1>6. CASE ReadLine
  <2>1. lines' \in Seq(Tokens \X Tokens) /\ Head(lines) \in Tokens \X Tokens
        BY <1>6, Taken DEF ReadLine, TypeOK
  <2>2. host' \in Tokens
        BY <1>6, <2>1 DEF ReadLine, Accepted, TypeOK
  <2>3. QED
        BY <1>6, <2>1, <2>2 DEF ReadLine, TypeOK
<1>7. QED
      BY <1>1, <1>2, <1>4, <1>5, <1>6

\* Every step keeps the types.
LEMMA StepTypes ==
  ASSUME IInv, [Next]_vars, InOrder'
  PROVE  TypeOK'
<1>1. CASE UNCHANGED vars
      BY <1>1 DEF vars, IInv, TypeOK
<1>2. QED
      BY <1>1, ConnTypes, BackendTypes, RoundTypes DEF Next, IInv

\* The main thread takes the window when the backend has ended and the pipe is drained.
LEMMA StepBetween ==
  ASSUME IInv, [Next]_vars, InOrder'
  PROVE  BetweenBackends'
<1> USE DEF IInv, BetweenBackends
<1>1. CASE Rotate \/ HandleAck \/ Announce \/ AckTimesOut \/ ReadLine
  <2>1. main' = main /\ be' = be /\ (up = <<>> => up' = <<>>) /\ next <= next' /\ next' \in Nat
        BY <1>1, Numbers DEF Rotate, HandleAck, Announce, AckTimesOut, ReadLine
  <2>2. Deque(main.snap) => Deque(main.snap)'
    <3>1. Deque(main.snap) => Last(main.snap) \in Tokens
          BY LastOf DEF Deque
    <3>2. QED
          BY <2>1, <3>1, Numbers DEF Deque
  <2>3. QED
        BY <2>1, <2>2
<1>2. CASE TakeWindow
      BY <1>2 DEF TakeWindow, InOrder, Deque, TypeOK
<1>3. CASE Spawn
      BY <1>3 DEF Spawn, TypeOK
<1>4. CASE HandleToken \/ BackendEnds
      BY <1>4 DEF HandleToken, BackendEnds, TypeOK, Deque
<1>5. ASSUME NEW c \in Conns,
             NotifyOne(c) \/ Connect(c) \/ Subscribe(c) \/ IssueCode(c) \/ Redeem(c)
      PROVE  BetweenBackends'
      BY <1>5, ConnSteps DEF Deque
<1>6. CASE UNCHANGED vars
      BY <1>6 DEF vars, Deque
<1>7. QED
      BY <1>1, <1>2, <1>3, <1>4, <1>5, <1>6 DEF Next
-----------------------------------------------------------------------------

\* The lines stay a chain: Announce adds a link at its end, ReadLine takes the first.
LEMMA StepChain ==
  ASSUME IInv, [Next]_vars
  PROVE  LinesChain'
<1> USE DEF IInv, LinesChain
<1>1. lines \in Seq(Tokens \X Tokens)
      BY DEF TypeOK
<1>2. CASE Announce
  <2> DEFINE l == <<Last(window), round.token>>
  <2>1. l \in Tokens \X Tokens /\ lines' = Append(lines, l) /\ host' = host
        BY <1>2, Numbers DEF Announce, TypeOK
  <2>2. Last(window') = round.token
        BY ZenonT(40), <1>2, Numbers, TwoOf DEF Announce, TypeOK
  <2>3. /\ lines' # <<>> /\ Len(lines') = Len(lines) + 1 /\ lines'[Len(lines) + 1] = l
        /\ \A i \in 1..Len(lines) : lines'[i] = lines[i]
        BY <1>1, <2>1, Appended
  <2> HIDE DEF l
  <2>4. l[1] = Last(window) /\ l[2] = round.token
        BY DEF l
  <2>5. lines'[1][1] = host
    <3>1. CASE lines = <<>>
          BY <2>3, <2>4, <3>1
    <3>2. CASE lines # <<>>
          BY <1>1, <2>3, <3>2
    <3>3. QED
          BY <3>1, <3>2
  <2>6. ASSUME NEW i \in 1..Len(lines) PROVE lines'[i][2] = lines'[i + 1][1]
    <3>1. CASE i = Len(lines)
          BY <1>1, <2>3, <2>4, <3>1
    <3>2. CASE i \in 1..(Len(lines) - 1)
          BY <1>1, <2>3, <3>2
    <3>3. QED
          BY <1>1, <3>1, <3>2
  <2>7. QED
        BY <1>1, <2>1, <2>2, <2>3, <2>4, <2>5, <2>6
<1>3. CASE ReadLine
  <2>1. /\ lines # <<>> /\ lines' = Tail(lines) /\ window' = window
        /\ host' = lines[1][2]
        BY <1>1, <1>3, Taken DEF ReadLine, Accepted
  <2>2. /\ Len(lines) \in Nat \ {0} /\ Len(lines') = Len(lines) - 1
        /\ \A i \in 1..(Len(lines) - 1) : lines'[i] = lines[i + 1]
        BY <1>1, <2>1, Taken
  <2>3. CASE Len(lines) = 1
        BY <1>1, <2>1, <2>2, <2>3
  <2>4. CASE Len(lines) > 1
    <3>1. lines' # <<>>
      <4>1. Len(lines') > 0
            BY <2>2, <2>4
      <4>2. QED
            BY <4>1
    <3>2. 1 \in 1..(Len(lines) - 1) /\ Len(lines) - 1 \in 1..(Len(lines) - 1)
          BY <2>2, <2>4
    <3>3. lines'[1] = lines[2] /\ lines'[Len(lines')] = lines[Len(lines)]
          BY <2>2, <3>2
    <3>4. lines[1][2] = lines[2][1] /\ lines[Len(lines)][2] = Last(window)
          BY <2>1, <3>2
    <3>5. ASSUME NEW i \in 1..(Len(lines') - 1) PROVE lines'[i][2] = lines'[i + 1][1]
      <4>1. i \in 1..(Len(lines) - 1) /\ i + 1 \in 1..(Len(lines) - 1)
            BY <2>2, <2>4
      <4>2. lines'[i] = lines[i + 1] /\ lines'[i + 1] = lines[i + 2]
            BY <2>2, <4>1
      <4>3. lines[i + 1][2] = lines[i + 2][1]
            BY <4>1
      <4>4. QED
            BY <4>2, <4>3
    <3>6. QED
          BY <2>1, <3>1, <3>3, <3>4, <3>5
  <2>5. QED
        BY <2>2, <2>3, <2>4
<1>4. CASE UNCHANGED <<window, lines, host>>
      BY <1>4
<1>5. QED
      BY <1>2, <1>3, <1>4, ConnSteps
      DEF Next, vars, Rotate, HandleAck, AckTimesOut, TakeWindow, Spawn, HandleToken, BackendEnds

\* A restricted subscription whose token is not in the table is one the notification has
\* still to reach: HandleToken lists them all, NotifyOne renews or closes, and a
\* subscription or a renewal takes a token of the table.
LEMMA StepWatched ==
  ASSUME IInv, [Next]_vars
  PROVE  Watched'
<1> USE DEF IInv, TypeOK
<1>1. CASE Rotate \/ HandleAck \/ Announce \/ AckTimesOut \/ TakeWindow \/ ReadLine
           \/ UNCHANGED vars
      BY <1>1
      DEF Rotate, HandleAck, Announce, AckTimesOut, TakeWindow, ReadLine, vars, Watched, Valid
<1>2. CASE Spawn
      BY <1>2 DEF Spawn, BetweenBackends, Watched
<1>3. CASE HandleToken
      BY <1>3 DEF HandleToken, Watched, Notified
<1>4. CASE BackendEnds
      BY <1>4 DEF BackendEnds, Watched, Closed
<1>5. ASSUME NEW c \in Conns,
             NotifyOne(c) \/ Connect(c) \/ Subscribe(c) \/ IssueCode(c) \/ Redeem(c)
      PROVE  Watched'
  <2>1. /\ UNCHANGED <<scenario, be>> /\ \A k \in Conns \ {c} : conn'[k] = conn[k]
        /\ \A k \in Conns \ {c} : k \in notify <=> k \in notify'
        BY <1>5 DEF NotifyOne, Connect, Subscribe, IssueCode, Redeem
  <2>2. ~be.alive => ~conn'[c].open
        BY <1>5 DEF NotifyOne, Connect, Subscribe, IssueCode, Redeem, Watched, Closed
  <2>3. ASSUME "slow" \notin scenario, c \notin notify', conn'[c].open, conn'[c].sub
        PROVE  Valid(conn'[c].auth)
    <3>1. CASE NotifyOne(c)
      <4>1. conn' = [conn EXCEPT ![c] = IF ~conn[c].open THEN @
                                        ELSE IF Valid(@.auth) THEN [@ EXCEPT !.renewal = "asked"]
                                        ELSE Closed]
            BY <2>3, <3>1 DEF NotifyOne
      <4>2. conn[c].open /\ Valid(conn[c].auth) /\ conn'[c].auth = conn[c].auth
            BY <2>3, <4>1 DEF Closed
      <4>3. QED
            BY <4>2
    <3>2. CASE Connect(c)
          BY <2>3, <3>2 DEF Connect, Closed
    <3>3. CASE Subscribe(c)
          BY <3>3 DEF Subscribe
    <3>4. CASE IssueCode(c)
          BY <2>3, <3>4 DEF IssueCode, Watched
    <3>5. CASE Redeem(c)
          BY <2>3, <3>5, Numbers, LastOf DEF Redeem, Valid
    <3>6. QED
          BY <1>5, <3>1, <3>2, <3>3, <3>4, <3>5
  <2>4. QED
        BY <2>1, <2>2, <2>3 DEF Watched, Valid
<1>6. QED
      BY <1>1, <1>2, <1>3, <1>4, <1>5 DEF Next

\* An acknowledgement that confirms a round of this backend is the last one it sent.
LEMMA StepConfirmed ==
  ASSUME IInv, [Next]_vars
  PROVE  Confirmed'
<1> USE DEF IInv, TypeOK, Confirmed
<1>1. CASE Rotate
      BY <1>1 DEF Rotate
<1>2. CASE HandleAck
  <2>1. /\ UNCHANGED be /\ round'.token = round.token /\ round'.by = round.by
        /\ round'.acked => round.acked \/ (round.token # 0 /\ up[1] = round.token)
        /\ up # <<>>
        BY <1>2, Taken DEF HandleAck
  <2>2. up[1] \in Nat /\ up[1] <= Last(be.table)
        BY SMTT(30), <2>1, Numbers, Taken DEF InOrder, AtMost
  <2>3. round.token # 0 => round.token = next
        BY DEF InOrder
  <2>4. round.token # 0 /\ up[1] = round.token => Last(be.table) = round.token
        BY <2>2, <2>3, Numbers
  <2>5. QED
        BY <2>1, <2>4
<1>3. CASE Announce \/ AckTimesOut
      BY <1>3 DEF Announce, AckTimesOut, NoRound
<1>4. CASE Spawn
  <2>1. be'.id = be.id + 1 /\ round' = round /\ round.by <= be.id
        BY <1>4 DEF Spawn, InOrder
  <2>2. QED
        BY <2>1
<1>5. CASE HandleToken
  <2>1. /\ down # <<>> /\ down[1] \in Nat /\ Last(be.table) < down[1] /\ down[1] <= next
        BY <1>5, FirstSent DEF HandleToken
  <2>2. ~ (round.token # 0 /\ round.acked /\ round.by = be.id)
        BY <2>1, Numbers DEF InOrder
  <2>3. be'.id = be.id /\ round' = round
        BY <1>5 DEF HandleToken
  <2>4. QED
        BY <2>2, <2>3
<1>6. CASE BackendEnds
      BY <1>6 DEF BackendEnds
<1>7. CASE TakeWindow \/ ReadLine \/ UNCHANGED vars
      BY <1>7 DEF TakeWindow, ReadLine, vars
<1>8. QED
      BY <1>1, <1>2, <1>3, <1>4, <1>5, <1>6, <1>7, ConnSteps DEF Next

\* How far the backend is ahead of the announced token, round by round.
LEMMA StepLag ==
  ASSUME IInv, [Next]_vars
  PROVE  WithinLag'
<1> USE DEF IInv, TypeOK, WithinLag, Newest, OneNewer
<1>1. CASE Rotate
  <2>1. CASE main.pc = "watch" /\ be.alive
    <3>1. /\ round.token = 0 /\ round' = [token |-> next', acked |-> FALSE, by |-> be.id]
          /\ next' = next + 1 /\ down' = Append(down, next') /\ UNCHANGED <<be, window, lag, main>>
          BY <1>1, <2>1 DEF Rotate
    <3>2. round'.token # 0 /\ round'.by = be.id
          BY <3>1, Numbers
    <3>3. Newest => Len(down') = 1
          BY <3>1
    <3>4. QED
          BY <3>1, <3>2, <3>3
  <2>2. CASE ~(main.pc = "watch" /\ be.alive)
        BY <1>1, <2>2 DEF Rotate
  <2>3. QED
        BY <2>1, <2>2
<1>2. CASE HandleAck
      BY <1>2 DEF HandleAck
<1>3. CASE Announce
  <2>1. /\ UNCHANGED <<main, be, down>> /\ round' = NoRound
        /\ window' = Two(window, round.token)
        /\ lag' = IF main.pc = "watch" /\ round.by # be.id THEN 2 ELSE 0
        /\ round.token # 0 /\ round.acked
        BY <1>3 DEF Announce
  <2> Last(window') = round.token
    <3>1. window \in Seq(Tokens) /\ Len(window) \in 1..2 /\ round.token \in Tokens
          BY Numbers
    <3>2. Last(Two(window, round.token)) = round.token
          BY <3>1, TwoOf
    <3>3. QED
          BY <2>1, <3>2
  <2>2. CASE main.pc = "watch" /\ round.by = be.id
    <3>1. Last(be.table) = round.token /\ round.token = next
          BY <2>1, <2>2 DEF Confirmed, InOrder
    <3>2. down = <<>>
      <4>1. ASSUME down # <<>> PROVE FALSE
            BY <3>1, <4>1, FirstSent
      <4>2. QED
            BY <4>1
    <3>3. QED
          BY <2>1, <2>2, <3>1, <3>2 DEF NoRound
  <2>3. QED
        BY <2>1, <2>2
<1>4. CASE AckTimesOut
  <2>1. /\ round.token # 0 /\ round' = NoRound /\ UNCHANGED <<main, be, down, window>>
        /\ lag' = IF lag < 2 THEN lag + 1 ELSE 2
        BY <1>4 DEF AckTimesOut
  <2>2. lag' # 0 /\ (lag' = 1 => lag = 0)
        BY <2>1
  <2>3. QED
        BY <2>1, <2>2
<1>5. CASE TakeWindow
      BY <1>5 DEF TakeWindow
<1>6. CASE Spawn
  <2>1. /\ be'.table = main.snap /\ be'.id = be.id + 1 /\ down' = <<>>
        /\ UNCHANGED <<window, round>> /\ round.by <= be.id
        /\ lag' = IF Last(main.snap) = Last(window) THEN 0 ELSE 2
        BY <1>6 DEF Spawn, InOrder
  <2>2. round.by # be'.id
        BY <2>1
  <2>3. QED
        BY <2>1, <2>2
<1>7. CASE HandleToken
  <2>1. /\ down # <<>> /\ down' = Tail(down) /\ be'.table = Two(be.table, down[1])
        /\ be'.id = be.id /\ be'.alive = be.alive /\ UNCHANGED <<window, round, main, lag>>
        /\ Len(down) \in Nat \ {0} /\ down' \in Seq(Tokens) /\ Len(down') = Len(down) - 1
        /\ down[1] \in Tokens
        BY <1>7, Taken DEF HandleToken
  <2>2. Len(be'.table) = 2 /\ be'.table[1] = Last(be.table)
    <3>1. be.table \in Seq(Tokens) /\ Len(be.table) \in 1..2
          BY Numbers
    <3>2. Len(Two(be.table, down[1])) = 2 /\ Two(be.table, down[1])[1] = Last(be.table)
          BY <2>1, <3>1, TwoOf
    <3>3. QED
          BY <2>1, <3>2
  <2>3. ~ Newest
        BY <2>1
  <2>4. OneNewer => OneNewer'
    <3>1. ASSUME OneNewer
          PROVE  Last(be.table) = Last(window) /\ Len(down) = 1
          BY <2>1, <3>1
    <3>2. Len(down) = 1 => Len(down') = 0
          BY <2>1
    <3>3. Len(down') = 0 => down' = <<>>
          BY <2>1, EmptySeq
    <3>4. QED
          BY <2>1, <2>2, <3>1, <3>2, <3>3
  <2>5. QED
        BY <2>1, <2>3, <2>4
<1>8. CASE BackendEnds
      BY <1>8 DEF BackendEnds
<1>9. CASE ReadLine \/ UNCHANGED vars
      BY <1>9 DEF ReadLine, vars
<1>10. QED
      BY <1>1, <1>2, <1>3, <1>4, <1>5, <1>6, <1>7, <1>8, <1>9, ConnSteps DEF Next

\* The invariant holds in every behaviour.
LEMMA IInvHolds == Spec => []IInv
<1>1. IInv /\ [Next]_vars => IInv'
      BY StepOrder, StepTypes, StepBetween, StepChain, StepWatched, StepConfirmed, StepLag
      DEF IInv
<1>2. QED
      BY <1>1, InitIInv, PTL DEF Spec
-----------------------------------------------------------------------------

\* The values of the variables; the token table holds one or two different tokens.
THEOREM TypeCorrect == Spec => []TypeOK
<1>1. IInv => TypeOK
      BY DEF IInv
<1>2. QED
      BY <1>1, IInvHolds, PTL

\* Every announcement in stdout names the token the shell has at that moment, through
\* dropped rounds, late acknowledgements and restarted backends (acceptAnnouncement()).
THEOREM EveryLineIsAccepted == Spec => []AnnouncementsChain
<1>1. IInv => AnnouncementsChain
      BY Taken DEF IInv, TypeOK, LinesChain, AnnouncementsChain
<1>2. QED
      BY <1>1, IInvHolds, PTL

\* After one failed round at most, the backend verifies the token of the shell, however
\* long the supervisor has run and however often the backend was restarted.
THEOREM ShellTokenIsValid == Spec => []ShellIsAccepted
<1>1. IInv => ShellIsAccepted
  <2> SUFFICES ASSUME IInv, Settled, lag <= 1 PROVE Valid(host)
      BY DEF ShellIsAccepted
  <2>1. host = Last(window) /\ (Newest \/ OneNewer) /\ down = <<>>
        BY DEF IInv, TypeOK, Settled, LinesChain, WithinLag
  <2>2. host = Last(be.table) \/ host = be.table[1]
        BY <2>1 DEF Newest, OneNewer
  <2>3. QED
        BY <2>2, Numbers, LastOf DEF IInv, Valid
<1>2. QED
      BY <1>1, IInvHolds, PTL

\* Once notify_rotation() is over, no restricted subscription is left with a token the
\* table does not hold, for any number of connections that come, subscribe and renew.
THEOREM RestrictedIsValid == Spec => []RestrictedHoldsToken
<1>1. IInv => RestrictedHoldsToken
      BY DEF IInv, Watched, RestrictedHoldsToken
<1>2. QED
      BY <1>1, IInvHolds, PTL
=============================================================================
