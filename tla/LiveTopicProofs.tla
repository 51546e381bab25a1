--------------------------- MODULE LiveTopicProofs ---------------------------
(***************************************************************************)
(* Proofs about LiveTopic, for any number of configs, connections and      *)
(* changes and any size of the buffers: a viewed config is tracked by the  *)
(* refresh manager, no save is swallowed while nobody leaves, and a        *)
(* browser that stays with its config ends with what its source holds.     *)
(***************************************************************************)
EXTENDS LiveTopic, TLAPS

-----------------------------------------------------------------------------
(* The invariant of the sources, the rounds and the threads between them.  *)

SomeInstance == Instances \cup {None}
SomeVersion == Nat \cup {None}
Tasks == Conns \cup {None, Manager}

Sources == [config : Configs \cup {None}, data : SomeVersion, fresh : BOOLEAN,
            loaded : BOOLEAN, dirty : Nat, subs : SUBSET Conns, inbox : Seq(Nat),
            reader : Tasks]
Callbacks == [i : Instances, full : SomeVersion, who : Tasks]
Rounds == [pc : {"idle", "begin", "resolve", "read", "done", "attach", "send"},
           want : Configs \cup {None}, src : SomeInstance, inst : SomeInstance, mark : Nat,
           val : SomeVersion, dirty : BOOLEAN, closed : BOOLEAN, holds : BOOLEAN]
Watches == [tracked : SUBSET Configs, requested : SUBSET Configs, inst : SomeInstance,
            val : SomeVersion, read : BOOLEAN, mark : Nat]
Threads == [kind : {"push", "save"}, inst : Instances, watched : BOOLEAN]

\* The values of all but the pipes to the browsers.
Types ==
    /\ truth \in [Configs -> Nat] /\ reg \in [Configs -> SomeInstance]
    /\ inst \in [Instances -> Sources] /\ calls \in Seq(Callbacks)
    /\ loop \in Conns \cup {None} /\ topic \in [Conns -> Rounds]
    /\ watch \in Watches /\ pend \in Threads \cup {None}

\* Nobody holds a source that was not created, and the registry names a source of the
\* config.
Used(i) == inst[i].config # None
Reads(k) == topic[k].pc \in {"read", "done"}
References ==
    /\ \A i \in Instances : ~Used(i) => inst[i] = Blank
    /\ \A c \in Configs : reg[c] # None => inst[reg[c]].config = c
    /\ \A k \in Conns : topic[k].src # None => Used(topic[k].src)
    /\ \A k \in Conns : Reads(k) => topic[k].inst # None
    /\ \A k \in Conns : topic[k].pc \in {"read", "done", "attach"} /\ topic[k].inst # None =>
         Used(topic[k].inst)
    /\ watch.inst # None => Used(watch.inst)
    /\ pend # None => Used(pend.inst)

\* A source is read by the one task that holds its lock, which came with a mark that
\* only grows.
Readers ==
    /\ \A k \in Conns : Reads(k) =>
         /\ inst[topic[k].inst].reader = k /\ topic[k].mark <= inst[topic[k].inst].dirty
         /\ topic[k].pc = "done" => topic[k].val # None
    /\ watch.inst # None =>
         /\ inst[watch.inst].reader = Manager /\ watch.mark <= inst[watch.inst].dirty
         /\ watch.read => watch.val # None
    /\ \A i \in Instances :
         /\ inst[i].reader \in Conns => Reads(inst[i].reader) /\ topic[inst[i].reader].inst = i
         /\ inst[i].reader = Manager => watch.inst = i

\* A thread reports back once, to a task that waits for it.
Reports ==
    /\ \A n \in 1..Len(calls) :
         /\ calls[n].who \in Conns =>
              topic[calls[n].who].pc = "read" /\ topic[calls[n].who].val # None
         /\ calls[n].who = Manager => watch.inst # None /\ ~watch.read /\ watch.val # None
         /\ calls[n].who # None => calls[n].full = None
    /\ \A m, n \in 1..Len(calls) : calls[m].who = calls[n].who /\ calls[m].who # None => m = n

\* Topic and source agree about who is subscribed.
Subscriptions ==
    /\ \A k \in Conns :
         /\ topic[k].pc \in {"resolve", "read", "done", "attach"} => topic[k].src = None
         /\ topic[k].pc = "attach" => loop = k
         /\ topic[k].closed => topic[k].src = None
    /\ \A i \in Instances, k \in Conns : k \in inst[i].subs <=> topic[k].src = i

Base == Types /\ References /\ Readers /\ Reports /\ Subscriptions
-----------------------------------------------------------------------------
(* The queue of callbacks as a sequence.                                   *)

LEMMA CallsAppended ==
    ASSUME calls \in Seq(Callbacks), NEW r \in Callbacks, calls' = Append(calls, r)
    PROVE  /\ calls' \in Seq(Callbacks) /\ Len(calls') = Len(calls) + 1 /\ Len(calls) \in Nat
           /\ calls'[Len(calls) + 1] = r
           /\ \A n \in 1..Len(calls) : n \in 1..Len(calls') /\ calls'[n] = calls[n]
           /\ \A n \in 1..Len(calls') : n \in 1..Len(calls) \/ n = Len(calls) + 1
  OBVIOUS

LEMMA CallsShifted ==
    ASSUME calls \in Seq(Callbacks), calls # <<>>, calls' = Tail(calls)
    PROVE  /\ calls' \in Seq(Callbacks) /\ Head(calls) = calls[1] /\ calls[1] \in Callbacks
           /\ 1 \in 1..Len(calls)
           /\ \A n \in 1..Len(calls') : n + 1 \in 1..Len(calls) /\ calls'[n] = calls[n + 1]
           /\ \A n \in 1..Len(calls) : n # 1 => n - 1 \in 1..Len(calls') /\ calls'[n - 1] = calls[n]
  OBVIOUS
-----------------------------------------------------------------------------
(* What the steps do.                                                      *)

\* cls(config): the registered instance or an unused one.
Found(i, c) ==
    \/ reg[c] = i /\ inst[i].config = c
    \/ reg[c] = None /\ inst[i] = Blank

LEMMA LookupFinds ==
    ASSUME Types, References, NEW c \in Configs, NEW i \in Lookup(c)
    PROVE  /\ i \in Instances /\ Found(i, c)
           /\ Created(i, c) \in [Instances -> Sources]
           /\ \A j \in Instances : j # i => Created(i, c)[j] = inst[j]
           /\ Created(i, c)[i] = [inst[i] EXCEPT !.config = c]
<1>1. i \in Instances /\ Found(i, c)
  <2>1. CASE reg[c] # None
    BY <2>1 DEF Lookup, Found, References, Types, SomeInstance
  <2>2. CASE reg[c] = None
    <3>1. Free # {} /\ i \in Free
      BY <2>2 DEF Lookup
    <3> QED
      BY <2>2, <3>1 DEF Free, Found, References, Used
  <2> QED
    BY <2>1, <2>2
<1>2. inst[i] \in Sources /\ inst \in [Instances -> Sources]
  BY <1>1 DEF Types
<1>3. [inst[i] EXCEPT !.config = c] \in Sources
  BY <1>2 DEF Sources
<1>4. Created(i, c) = [inst EXCEPT ![i] = [inst[i] EXCEPT !.config = c]]
  BY DEF Created
<1> HIDE DEF Sources
<1> QED
  BY <1>1, <1>2, <1>3, <1>4


Elsewhere(i) == \A j \in Instances : j # i => inst'[j] = inst[j]

\* A round that neither looks for its source nor reads it.
Outside(k) == topic[k].pc \in {"idle", "begin", "send"}

LEMMA RoundMoves ==
    ASSUME Base, UNCHANGED <<truth, reg, inst, calls, loop, watch, pend>>,
           topic' \in [Conns -> Rounds],
           \A k \in Conns :
             /\ topic'[k].src = topic[k].src /\ topic'[k].closed = topic[k].closed
             /\ \/ /\ topic'[k].pc = topic[k].pc /\ topic'[k].inst = topic[k].inst
                   /\ topic'[k].mark = topic[k].mark /\ topic'[k].val = topic[k].val
                \/ Outside(k) /\ Outside(k)'
    PROVE  Base'
<1> USE DEF Base, Reads, Outside
<1>1. Types'
  BY DEF Types
<1>2. References'
  BY DEF References, Used
<1>3. Readers'
  BY DEF Readers
<1>4. Reports'
  BY DEF Reports
<1>5. Subscriptions'
  BY DEF Subscriptions
<1> QED
  BY <1>1, <1>2, <1>3, <1>4, <1>5

\* The user moves on: the round starts, or starts over when it is done.
LEMMA NavigateDoes ==
    ASSUME Base, NEW k \in Conns, Navigate(k)
    PROVE  /\ UNCHANGED <<scenario, truth, reg, inst, calls, loop, conn, view, watch, pend>>
           /\ loop = None /\ ~topic[k].closed
           /\ "roam" \in scenario \/ topic[k].want = None
           /\ topic' \in [Conns -> Rounds] /\ \A h \in Conns : h # k => topic'[h] = topic[h]
           /\ topic'[k].src = topic[k].src /\ topic'[k].closed = topic[k].closed
           /\ topic'[k].inst = topic[k].inst /\ topic'[k].mark = topic[k].mark
           /\ topic'[k].val = topic[k].val /\ topic'[k].holds = topic[k].holds
           /\ topic'[k].want # topic[k].want
           /\ \/ topic[k].pc = "idle" /\ topic'[k].pc = "begin" /\ topic'[k].dirty = FALSE
              \/ topic[k].pc # "idle" /\ topic'[k].pc = topic[k].pc /\ topic'[k].dirty = TRUE
<1>1. topic \in [Conns -> Rounds] /\ topic[k] \in Rounds
  BY DEF Base, Types
<1> DEFINE busy == topic[k].pc # "idle"
           pc == IF topic[k].pc = "idle" THEN "begin" ELSE topic[k].pc
<1>2. PICK c \in (Configs \cup {None}) \ {topic[k].want} :
        topic' = [topic EXCEPT ![k].want = c, ![k].dirty = busy, ![k].pc = pc]
  BY DEF Navigate, Busy
<1> DEFINE r == [topic[k] EXCEPT !.want = c, !.dirty = busy, !.pc = pc]
<1>3. busy \in BOOLEAN /\ pc \in {"idle", "begin", "resolve", "read", "done", "attach", "send"}
  BY <1>1 DEF Rounds
<1>4. topic' = [topic EXCEPT ![k] = r]
  BY <1>2
<1> HIDE DEF busy, pc
<1>5. /\ r \in Rounds /\ r.src = topic[k].src /\ r.closed = topic[k].closed
      /\ r.inst = topic[k].inst /\ r.mark = topic[k].mark /\ r.val = topic[k].val
      /\ r.holds = topic[k].holds /\ r.want = c /\ r.dirty = busy /\ r.pc = pc
  BY <1>1, <1>3 DEF Rounds
<1> HIDE DEF r
<1>6. topic' \in [Conns -> Rounds] /\ topic'[k] = r /\ \A h \in Conns : h # k => topic'[h] = topic[h]
  BY <1>1, <1>4, <1>5
<1>7. \/ topic[k].pc = "idle" /\ pc = "begin" /\ busy = FALSE
      \/ topic[k].pc # "idle" /\ pc = topic[k].pc /\ busy = TRUE
  BY DEF pc, busy
<1> QED
  BY <1>2, <1>5, <1>6, <1>7 DEF Navigate

\* The suspended send of a round went through.
LEMMA SentDoes ==
    ASSUME Base, NEW k \in Conns, Sent(k)
    PROVE  /\ UNCHANGED <<scenario, truth, reg, inst, calls, loop, conn, view, watch, pend>>
           /\ topic' \in [Conns -> Rounds] /\ \A h \in Conns : h # k => topic'[h] = topic[h]
           /\ topic'[k].src = topic[k].src /\ topic'[k].closed = topic[k].closed
           /\ topic'[k].inst = topic[k].inst /\ topic'[k].mark = topic[k].mark
           /\ topic'[k].val = topic[k].val /\ topic'[k].holds = topic[k].holds
           /\ topic'[k].want = topic[k].want /\ topic'[k].dirty = topic[k].dirty
           /\ topic[k].pc = "send"
           /\ \/ topic[k].dirty /\ topic'[k].pc = "begin"
              \/ ~topic[k].dirty /\ topic'[k].pc = "idle"
<1>1. topic \in [Conns -> Rounds] /\ topic[k] \in Rounds /\ topic[k].dirty \in BOOLEAN
  BY DEF Base, Types, Rounds
<1> DEFINE pc == IF topic[k].dirty THEN "begin" ELSE "idle"
           r == [topic[k] EXCEPT !.pc = pc]
<1>2. topic' = [topic EXCEPT ![k] = r]
  BY DEF Sent
<1>3. pc \in {"idle", "begin"}
  BY <1>1
<1> HIDE DEF pc
<1>4. /\ r \in Rounds /\ r.src = topic[k].src /\ r.closed = topic[k].closed
      /\ r.inst = topic[k].inst /\ r.mark = topic[k].mark /\ r.val = topic[k].val
      /\ r.holds = topic[k].holds /\ r.want = topic[k].want /\ r.dirty = topic[k].dirty
      /\ r.pc = pc
  BY <1>1, <1>3 DEF Rounds
<1> HIDE DEF r
<1>5. topic' \in [Conns -> Rounds] /\ topic'[k] = r /\ \A h \in Conns : h # k => topic'[h] = topic[h]
  BY <1>1, <1>2, <1>4
<1> QED
  BY <1>4, <1>5 DEF Sent, pc

LEMMA BaseMoves ==
    ASSUME Base,
           \/ UNCHANGED vars
           \/ \E k \in Conns : OutboxSend(k) \/ Take(k) \/ Navigate(k) \/ Sent(k)
    PROVE  Base'
<1>1. topic \in [Conns -> Rounds]
  BY DEF Base, Types
<1>2. CASE UNCHANGED vars
  BY <1>1, <1>2, RoundMoves DEF vars
<1>3. ASSUME NEW k \in Conns, OutboxSend(k) \/ Take(k) PROVE Base'
  BY <1>1, <1>3, RoundMoves DEF OutboxSend, Take
<1>4. ASSUME NEW k \in Conns, Sent(k) PROVE Base'
  BY <1>4, SentDoes, RoundMoves DEF Outside
<1>5. ASSUME NEW k \in Conns, Navigate(k) PROVE Base'
  BY <1>5, NavigateDoes, RoundMoves DEF Outside
<1> QED
  BY <1>2, <1>3, <1>4, <1>5

\* What a step leaves of a source, apart from its viewers.
SameSource(i) ==
    /\ inst'[i].config = inst[i].config /\ inst'[i].data = inst[i].data
    /\ inst'[i].fresh = inst[i].fresh /\ inst'[i].loaded = inst[i].loaded
    /\ inst'[i].dirty = inst[i].dirty /\ inst'[i].inbox = inst[i].inbox
    /\ inst'[i].reader = inst[i].reader

\* What a step leaves of a round that it does not begin or end.
SameRound(k) ==
    /\ topic'[k].pc = topic[k].pc /\ topic'[k].want = topic[k].want
    /\ topic'[k].src = topic[k].src /\ topic'[k].inst = topic[k].inst
    /\ topic'[k].mark = topic[k].mark /\ topic'[k].val = topic[k].val
    /\ topic'[k].dirty = topic[k].dirty /\ topic'[k].closed = topic[k].closed

SameRefresh ==
    /\ watch'.inst = watch.inst /\ watch'.val = watch.val
    /\ watch'.read = watch.read /\ watch'.mark = watch.mark

\* unsubscribe().
LEMMA LeftDoes ==
    ASSUME Types, NEW k \in Conns, inst' = Left(k)
    PROVE  /\ inst' \in [Instances -> Sources]
           /\ \A i \in Instances :
                /\ SameSource(i)
                /\ topic[k].src # i => inst'[i] = inst[i]
                /\ inst'[i].subs = inst[i].subs \ (IF topic[k].src = i THEN {k} ELSE {})
<1>1. inst \in [Instances -> Sources] /\ topic[k] \in Rounds
  BY DEF Types
<1>2. CASE topic[k].src = None
  <2>1. \A i \in Instances : i # None
    BY TopicAssumption
  <2> QED
    BY <1>1, <1>2, <2>1 DEF Left, SameSource
<1>3. CASE topic[k].src # None
  <2> DEFINE j == topic[k].src
             s == [inst[j] EXCEPT !.subs = @ \ {k}]
  <2>1. j \in Instances
    BY <1>1, <1>3 DEF Rounds, SomeInstance
  <2>2. s \in Sources
    BY <1>1, <2>1 DEF Sources
  <2>3. inst' = [inst EXCEPT ![j] = s]
    BY <1>3 DEF Left
  <2>4. /\ s.config = inst[j].config /\ s.data = inst[j].data /\ s.fresh = inst[j].fresh
        /\ s.loaded = inst[j].loaded /\ s.dirty = inst[j].dirty /\ s.inbox = inst[j].inbox
        /\ s.reader = inst[j].reader /\ s.subs = inst[j].subs \ {k}
    BY <1>1, <2>1 DEF Sources
  <2> HIDE DEF s, j
  <2>5. inst' \in [Instances -> Sources] /\ inst'[j] = s
        /\ \A i \in Instances : i # j => inst'[i] = inst[i]
    BY <1>1, <2>1, <2>2, <2>3
  <2> QED
    BY <2>4, <2>5 DEF SameSource, j
<1> QED
  BY <1>2, <1>3

\* register() and unregister().
LEMMA TrackedDoes ==
    ASSUME NEW w \in Watches, NEW c \in Configs, NEW watched \in BOOLEAN
    PROVE  LET v == Tracked(w, c, watched) IN
           /\ v \in Watches
           /\ v.inst = w.inst /\ v.val = w.val /\ v.read = w.read /\ v.mark = w.mark
           /\ v.tracked = IF watched THEN w.tracked \cup {c} ELSE w.tracked \ {c}
           /\ v.requested = IF watched THEN w.requested ELSE w.requested \ {c}
<1>1. CASE watched
  BY <1>1 DEF Tracked, Watches
<1>2. CASE ~watched
  BY <1>2 DEF Tracked, Watches
<1> QED
  BY <1>1, <1>2

\* The end of the tracking by the last viewer.
LEMMA LeftWatchDoes ==
    ASSUME Types, References, NEW k \in Conns, inst' = Left(k), watch' = LeftWatch(k)
    PROVE  /\ watch' \in Watches /\ SameRefresh
           /\ \/ watch' = watch /\ (Resident \/ topic[k].src = None)
              \/ /\ topic[k].src \in Instances /\ ~Resident
                 /\ watch' = Tracked(watch, inst[topic[k].src].config, inst'[topic[k].src].subs # {})
<1>1. watch \in Watches /\ inst \in [Instances -> Sources] /\ topic[k] \in Rounds
  BY DEF Types
<1>2. CASE topic[k].src = None \/ Resident
  BY <1>1, <1>2 DEF LeftWatch, SameRefresh
<1>3. CASE ~(topic[k].src = None \/ Resident)
  <2> DEFINE i == topic[k].src
             watched == inst'[i].subs # {}
  <2>1. i \in Instances /\ inst[i].config # None
    BY <1>1, <1>3 DEF Rounds, SomeInstance, References, Used
  <2>2. inst[i].config \in Configs
    BY <1>1, <2>1 DEF Sources
  <2>3. watch' = Tracked(watch, inst[i].config, watched) /\ watched \in BOOLEAN
    BY <1>3 DEF LeftWatch
  <2> HIDE DEF watched
  <2>4. watch' \in Watches /\ SameRefresh
    <3>1. CASE watched
      BY <1>1, <2>2, <2>3, <3>1 DEF SameRefresh, Tracked, Watches
    <3>2. CASE ~watched
      BY <1>1, <2>2, <2>3, <3>2 DEF SameRefresh, Tracked, Watches
    <3> QED
      BY <3>1, <3>2
  <2> QED
    BY <1>3, <2>1, <2>3, <2>4 DEF watched
<1> QED
  BY <1>2, <1>3

LEMMA BeginDoes ==
    ASSUME Base, NEW k \in Conns, Begin(k)
    PROVE  /\ UNCHANGED <<scenario, truth, reg, calls, loop, view, pend>>
           /\ loop = None /\ topic[k].pc = "begin" /\ topic' \in [Conns -> Rounds]
           /\ \A h \in Conns : h # k => topic'[h] = topic[h]
           /\ topic'[k].closed = topic[k].closed /\ topic'[k].want = topic[k].want
           /\ topic'[k].holds = topic[k].holds
           /\ \/ /\ topic[k].closed /\ topic'[k].pc = "idle"
                 /\ topic'[k].src = topic[k].src /\ topic'[k].dirty = topic[k].dirty
                 /\ UNCHANGED <<inst, conn, watch>>
              \/ /\ ~topic[k].closed /\ topic'[k].pc = "resolve"
                 /\ topic'[k].src = None /\ topic'[k].dirty = FALSE
                 /\ inst' = Left(k) /\ watch' = LeftWatch(k)
                 /\ conn' = IF topic[k].src = None THEN conn ELSE [conn EXCEPT ![k] = Dropped(@)]
<1>1. topic \in [Conns -> Rounds]
  BY DEF Base, Types
<1>2. CASE topic[k].closed
  <2>1. topic' = [topic EXCEPT ![k].pc = "idle"] /\ UNCHANGED <<inst, conn, watch>>
    BY <1>2 DEF Begin
  <2>2. topic' \in [Conns -> Rounds]
    BY <1>1, <2>1 DEF Rounds
  <2>3. /\ topic'[k].closed = topic[k].closed /\ topic'[k].want = topic[k].want
        /\ topic'[k].holds = topic[k].holds /\ topic'[k].pc = "idle"
        /\ topic'[k].src = topic[k].src /\ topic'[k].dirty = topic[k].dirty
    BY <1>1, <2>1 DEF Rounds
  <2> QED
    BY <1>1, <1>2, <2>1, <2>2, <2>3 DEF Begin
<1>3. CASE ~topic[k].closed
  <2> DEFINE r == [topic[k] EXCEPT !.pc = "resolve", !.dirty = FALSE, !.src = None]
  <2>1. topic' = [topic EXCEPT ![k] = r]
    BY <1>3 DEF Begin
  <2>2. r \in Rounds
    BY <1>1 DEF Rounds, SomeInstance
  <2> HIDE DEF r
  <2>3. topic' \in [Conns -> Rounds] /\ topic'[k] = r /\ \A h \in Conns : h # k => topic'[h] = topic[h]
    BY <1>1, <2>1, <2>2
  <2>4. /\ r.closed = topic[k].closed /\ r.want = topic[k].want /\ r.holds = topic[k].holds
        /\ r.pc = "resolve" /\ r.src = None /\ r.dirty = FALSE
    BY <1>1 DEF Rounds, r
  <2> QED
    BY <1>3, <2>3, <2>4 DEF Begin
<1> QED
  BY <1>2, <1>3

\* Taking a viewer off its source disturbs no reader and no report.
LEMMA LeavingKeeps ==
    ASSUME Base, NEW k \in Conns, UNCHANGED <<truth, reg, calls, loop, pend>>,
           topic' \in [Conns -> Rounds], inst' = Left(k), watch' = LeftWatch(k),
           \A h \in Conns : h # k => topic'[h] = topic[h],
           topic'[k].src = None,
           \/ /\ topic'[k].pc = topic[k].pc /\ topic'[k].inst = topic[k].inst
              /\ topic'[k].mark = topic[k].mark /\ topic'[k].val = topic[k].val
           \/ Outside(k) /\ topic'[k].pc = "resolve"
    PROVE  Base'
<1>1. /\ inst' \in [Instances -> Sources]
      /\ \A i \in Instances :
           /\ SameSource(i)
           /\ topic[k].src # i => inst'[i] = inst[i]
           /\ inst'[i].subs = inst[i].subs \ (IF topic[k].src = i THEN {k} ELSE {})
  BY LeftDoes DEF Base
<1>2. watch' \in Watches /\ SameRefresh
  BY LeftWatchDoes DEF Base
<1>3. \A i \in Instances : i # None
  BY TopicAssumption
<1>4. \A i \in Instances : inst[i] \in Sources /\ inst'[i] \in Sources
  BY <1>1 DEF Base, Types
<1> USE DEF Base, Reads, Outside
<1>5. Types'
  BY <1>1, <1>2 DEF Types
<1>6. References'
  <2>1. ASSUME NEW i \in Instances, ~Used(i)' PROVE inst'[i] = Blank
    <3>1. inst[i] = Blank /\ topic[k].src # i
      BY <1>1, <1>3, <2>1 DEF References, Used, SameSource
    <3>2. inst'[i] = inst[i]
      BY <1>1, <3>1
    <3> QED
      BY <3>1, <3>2
  <2>2. \A i \in Instances : Used(i)' <=> Used(i)
    BY <1>1 DEF Used, SameSource
  <2>3. \A h \in Conns : topic[h] \in Rounds /\ topic'[h] \in Rounds
    BY DEF Types
  <2>4. \A h \in Conns : topic[h].src \in SomeInstance /\ topic[h].inst \in SomeInstance
    BY <2>3 DEF Rounds
  <2>5. watch.inst \in SomeInstance /\ (pend # None => pend.inst \in Instances)
        /\ \A c \in Configs : reg[c] \in SomeInstance
    BY DEF Types, Watches, Threads
  <2> QED
    BY <1>1, <1>2, <2>1, <2>2, <2>4, <2>5 DEF References, SameRefresh, SomeInstance, SameSource
<1>7. Readers'
  <2>1. \A h \in Conns : Reads(h) => topic[h].inst \in Instances
    BY DEF Types, Rounds, References, SomeInstance
  <2>2. watch.inst # None => watch.inst \in Instances
    BY DEF Types, Watches, SomeInstance
  <2>3. ASSUME NEW h \in Conns
        PROVE  /\ Reads(h)' <=> Reads(h)
               /\ Reads(h) => /\ topic'[h].inst = topic[h].inst /\ topic'[h].mark = topic[h].mark
                              /\ topic'[h].val = topic[h].val /\ topic'[h].pc = topic[h].pc
    OBVIOUS
  <2> HIDE DEF Reads, Outside
  <2>4. \A i \in Instances : inst[i].reader = Manager => watch.inst = i
    BY DEF Readers
  <2> QED
    BY <1>1, <1>2, <2>1, <2>2, <2>3, <2>4 DEF Readers, SameSource, SameRefresh
<1>8. Reports'
  <2>1. \A h \in Conns : topic[h].pc = "read" => topic'[h].pc = "read" /\ topic'[h].val = topic[h].val
    OBVIOUS
  <2> QED
    BY <1>2, <2>1 DEF Reports, SameRefresh
<1>9. Subscriptions'
  BY <1>1, <1>3 DEF Subscriptions
<1> QED
  BY <1>5, <1>6, <1>7, <1>8, <1>9

LEMMA BaseBegin ==
    ASSUME Base, NEW k \in Conns, Begin(k)
    PROVE  Base'
<1>1. topic \in [Conns -> Rounds] /\ topic[k] \in Rounds
  BY DEF Base, Types
<1>2. CASE topic[k].closed
  <2>1. Outside(k) /\ Outside(k)' /\ topic'[k].src = topic[k].src /\ UNCHANGED <<inst, watch>>
    BY <1>2, BeginDoes DEF Outside
  <2> QED
    BY <1>2, <2>1, BeginDoes, RoundMoves
<1>3. CASE ~topic[k].closed
  <2>1. topic'[k].src = None /\ topic'[k].pc = "resolve" /\ Outside(k)
    BY <1>1, <1>3, BeginDoes DEF Outside, Rounds
  <2> QED
    BY <1>3, <2>1, BeginDoes, LeavingKeeps
<1> QED
  BY <1>2, <1>3

LEMMA CloseDoes ==
    ASSUME Base, NEW k \in Conns, Close(k)
    PROVE  /\ UNCHANGED <<scenario, truth, reg, calls, loop, view, pend>>
           /\ loop = None /\ "close" \in scenario /\ ~topic[k].closed
           /\ topic' \in [Conns -> Rounds]
           /\ \A h \in Conns : h # k => topic'[h] = topic[h]
           /\ topic'[k].closed = TRUE /\ topic'[k].src = None
           /\ topic'[k].pc = topic[k].pc /\ topic'[k].want = topic[k].want
           /\ topic'[k].inst = topic[k].inst /\ topic'[k].mark = topic[k].mark
           /\ topic'[k].val = topic[k].val /\ topic'[k].dirty = topic[k].dirty
           /\ inst' = Left(k) /\ watch' = LeftWatch(k)
           /\ conn' = [conn EXCEPT ![k] = Dropped(@)]
<1>1. topic \in [Conns -> Rounds]
  BY DEF Base, Types
<1> DEFINE r == [topic[k] EXCEPT !.closed = TRUE, !.src = None]
<1>2. topic' = [topic EXCEPT ![k] = r]
  BY DEF Close
<1>3. r \in Rounds
  BY <1>1 DEF Rounds, SomeInstance
<1> HIDE DEF r
<1>4. topic' \in [Conns -> Rounds] /\ topic'[k] = r /\ \A h \in Conns : h # k => topic'[h] = topic[h]
  BY <1>1, <1>2, <1>3
<1>5. /\ r.closed = TRUE /\ r.src = None /\ r.pc = topic[k].pc /\ r.want = topic[k].want
      /\ r.inst = topic[k].inst /\ r.mark = topic[k].mark
      /\ r.val = topic[k].val /\ r.dirty = topic[k].dirty
  BY <1>1 DEF Rounds, r
<1> QED
  BY <1>4, <1>5 DEF Close

LEMMA BaseClose ==
    ASSUME Base, NEW k \in Conns, Close(k)
    PROVE  Base'
  BY CloseDoes, LeavingKeeps

-----------------------------------------------------------------------------
(* The steps that change a source and no round.                            *)

LEMMA SourcesMove ==
    ASSUME Base, UNCHANGED <<loop, topic>>, Types', SameRefresh,
           \A i \in Instances :
             /\ inst'[i].reader = inst[i].reader /\ inst'[i].subs = inst[i].subs
             /\ inst[i].dirty <= inst'[i].dirty
             /\ Used(i) => inst'[i].config = inst[i].config
             /\ inst'[i].config = None => inst'[i] = inst[i],
           \A c \in Configs : reg'[c] # None => inst'[reg'[c]].config = c,
           pend' # None => Used(pend.inst)',
           \/ calls' = calls
           \/ \E r \in Callbacks : calls' = Append(calls, r) /\ r.who = None
    PROVE  Base'
<1>1. \A i \in Instances : i # None
  BY TopicAssumption
<1>2. \A h \in Conns : Reads(h) => topic[h].inst \in Instances
  BY DEF Base, Types, Rounds, References, Reads, SomeInstance
<1>3. watch.inst # None => watch.inst \in Instances
  BY DEF Base, Types, Watches, SomeInstance
<1>4. \A h \in Conns : topic[h].src \in SomeInstance /\ topic[h].inst \in SomeInstance
  BY DEF Base, Types, Rounds
<1>5. References'
  <2>1. \A i \in Instances : Used(i) => Used(i)'
    BY DEF Used
  <2>2. \A i \in Instances : ~Used(i)' => inst'[i] = Blank
    BY <2>1 DEF Base, References, Used
  <2> QED
    BY <1>2, <1>3, <1>4, <2>1, <2>2 DEF Base, References, SameRefresh, SomeInstance, Reads
<1>6. Readers'
  <2>1. \A i \in Instances : inst[i].dirty \in Nat /\ inst'[i].dirty \in Nat
    BY DEF Base, Types, Sources
  <2>2. \A h \in Conns : topic[h].mark \in Nat
    BY DEF Base, Types, Rounds
  <2>3. watch.mark \in Nat
    BY DEF Base, Types, Watches
  <2> QED
    BY <1>1, <1>2, <1>3, <2>1, <2>2, <2>3 DEF Base, Readers, SameRefresh, Reads
<1>7. Reports'
  <2>1. CASE calls' = calls
    BY <2>1 DEF Base, Reports, SameRefresh
  <2>2. ASSUME NEW r \in Callbacks, calls' = Append(calls, r), r.who = None PROVE Reports'
    <3>1. None \notin Conns /\ None # Manager
      BY TopicAssumption
    <3>2. /\ Len(calls) \in Nat /\ calls'[Len(calls) + 1] = r
          /\ \A n \in 1..Len(calls) : n \in 1..Len(calls') /\ calls'[n] = calls[n]
          /\ \A n \in 1..Len(calls') : n \in 1..Len(calls) \/ n = Len(calls) + 1
      BY <2>2, CallsAppended DEF Base, Types
    <3> QED
      BY <2>2, <3>1, <3>2 DEF Base, Reports, SameRefresh
  <2> QED
    BY <2>1, <2>2
<1>8. Subscriptions'
  BY DEF Base, Subscriptions
<1> QED
  BY <1>5, <1>6, <1>7, <1>8 DEF Base

LEMMA ExpireDoes ==
    ASSUME Base, NEW i \in Instances, Expire(i)
    PROVE  /\ UNCHANGED <<scenario, truth, reg, calls, loop, topic, conn, view, watch, pend>>
           /\ "expire" \in scenario /\ inst' \in [Instances -> Sources] /\ Elsewhere(i)
           /\ inst'[i] = [inst[i] EXCEPT !.fresh = FALSE] /\ Used(i)
<1>1. inst \in [Instances -> Sources]
  BY DEF Base, Types
<1>2. inst' = [inst EXCEPT ![i] = [inst[i] EXCEPT !.fresh = FALSE]]
  BY DEF Expire
<1>3. [inst[i] EXCEPT !.fresh = FALSE] \in Sources
  BY <1>1 DEF Sources
<1> QED
  BY <1>1, <1>2, <1>3 DEF Expire, Elsewhere, Used

LEMMA BaseExpire ==
    ASSUME Base, NEW i \in Instances, Expire(i)
    PROVE  Base'
<1>1. Types'
  BY ExpireDoes DEF Base, Types
<1>2. inst[i] \in Sources /\ \A j \in Instances : inst[j].dirty \in Nat
  BY DEF Base, Types, Sources
<1>3. \A j \in Instances :
        /\ inst'[j].reader = inst[j].reader /\ inst'[j].subs = inst[j].subs
        /\ inst[j].dirty <= inst'[j].dirty /\ inst'[j].config = inst[j].config
        /\ inst'[j].config = None => inst'[j] = inst[j]
  <2>1. /\ inst'[i].reader = inst[i].reader /\ inst'[i].subs = inst[i].subs
        /\ inst'[i].dirty = inst[i].dirty /\ inst'[i].config = inst[i].config
        /\ inst[i].config # None
    BY <1>2, ExpireDoes DEF Sources, Used
  <2>2. \A j \in Instances : j # i => inst'[j] = inst[j]
    BY ExpireDoes DEF Elsewhere
  <2> QED
    BY <1>2, <2>1, <2>2
<1>4. \A c \in Configs : reg'[c] # None => inst'[reg'[c]].config = c
  <2>1. \A c \in Configs : reg[c] # None => reg[c] \in Instances /\ inst[reg[c]].config = c
    BY DEF Base, References, Types, SomeInstance
  <2>2. reg' = reg
    BY ExpireDoes
  <2> QED
    BY <1>3, <2>1, <2>2
<1>5. pend' # None => Used(pend.inst)'
  BY <1>3, ExpireDoes DEF Base, References, Types, Threads, Used
<1> QED
  BY <1>1, <1>3, <1>4, <1>5, SourcesMove, ExpireDoes DEF SameRefresh

LEMMA BaseCollect ==
    ASSUME Base, NEW c \in Configs, Collect(c)
    PROVE  Base'
<1>1. reg' = [reg EXCEPT ![c] = None] /\ reg \in [Configs -> SomeInstance]
  BY DEF Collect, Base, Types
<1>2. Types'
  BY <1>1 DEF Collect, Base, Types, SomeInstance
<1>3. \A j \in Instances : inst[j].dirty \in Nat
  BY DEF Base, Types, Sources
<1>4. \A b \in Configs : reg'[b] # None => inst'[reg'[b]].config = b
  BY <1>1 DEF Base, References, Collect
<1>5. pend' # None => Used(pend.inst)'
  BY DEF Base, References, Used, Collect
<1> QED
  BY <1>2, <1>3, <1>4, <1>5, SourcesMove DEF Collect, SameRefresh

\* A save or a push finds the source of its config; both leave a thread behind.
LEMMA SaveDoes ==
    ASSUME Base, NEW c \in Configs, Save(c)
    PROVE  /\ UNCHANGED <<scenario, calls, loop, topic, conn, view, watch>>
           /\ "save" \in scenario /\ pend = None
           /\ truth' \in [Configs -> Nat] /\ \A b \in Configs : b # c => truth'[b] = truth[b]
           /\ \E i \in Instances :
                /\ Found(i, c) /\ Elsewhere(i) /\ inst' \in [Instances -> Sources]
                /\ inst'[i] = [inst[i] EXCEPT !.config = c]
                /\ reg' = [reg EXCEPT ![c] = i]
                /\ pend' \in Threads /\ pend'.kind = "save" /\ pend'.inst = i
                /\ pend'.watched <=> inst[i].subs # {}
<1>1. truth \in [Configs -> Nat] /\ Types /\ References
  BY DEF Base, Types
<1>2. truth' \in [Configs -> Nat] /\ \A b \in Configs : b # c => truth'[b] = truth[b]
  BY <1>1 DEF Save
<1>3. PICK i \in Lookup(c) : /\ reg' = [reg EXCEPT ![c] = i] /\ inst' = Created(i, c)
                             /\ pend' = [kind |-> "save", inst |-> i, watched |-> inst[i].subs # {}]
  BY DEF Save, Registered
<1>4. /\ i \in Instances /\ Found(i, c) /\ Elsewhere(i) /\ inst' \in [Instances -> Sources]
      /\ inst'[i] = [inst[i] EXCEPT !.config = c]
  BY <1>1, <1>3, LookupFinds DEF Elsewhere
<1>5. pend' \in Threads /\ pend'.kind = "save" /\ pend'.inst = i /\ (pend'.watched <=> inst[i].subs # {})
  BY <1>3, <1>4 DEF Threads
<1> QED
  BY <1>2, <1>3, <1>4, <1>5 DEF Save

\* The fields of a source that a lookup names.
LEMMA FoundKeeps ==
    ASSUME Base, NEW c \in Configs, NEW i \in Instances, Found(i, c)
    PROVE  /\ inst[i].config \in {c, None} /\ inst[i] \in Sources
           /\ inst[i].config = None => inst[i] = Blank
           /\ reg[c] \in {i, None}
<1>1. inst[i] \in Sources
  BY DEF Base, Types
<1>2. inst[i] = Blank => inst[i].config = None
  BY DEF Blank
<1> QED
  BY <1>1, <1>2 DEF Base, References, Found, Used

LEMMA BaseSave ==
    ASSUME Base, NEW c \in Configs, Save(c)
    PROVE  Base'
<1>1. PICK i \in Instances :
        /\ Found(i, c) /\ Elsewhere(i) /\ inst' \in [Instances -> Sources]
        /\ inst'[i] = [inst[i] EXCEPT !.config = c]
        /\ reg' = [reg EXCEPT ![c] = i]
        /\ pend' \in Threads /\ pend'.inst = i
  BY SaveDoes
<1>2. reg \in [Configs -> SomeInstance] /\ c # None /\ i # None
  BY TopicAssumption DEF Base, Types
<1>3. Types'
  BY <1>1, <1>2, SaveDoes DEF Base, Types, SomeInstance
<1>4. /\ inst'[i].reader = inst[i].reader /\ inst'[i].subs = inst[i].subs
      /\ inst'[i].dirty = inst[i].dirty /\ inst'[i].config = c
      /\ inst[i].config \in {c, None}
  BY <1>1, FoundKeeps DEF Sources
<1>5. \A j \in Instances : inst[j].dirty \in Nat
  BY DEF Base, Types, Sources
<1>6. \A j \in Instances :
        /\ inst'[j].reader = inst[j].reader /\ inst'[j].subs = inst[j].subs
        /\ inst[j].dirty <= inst'[j].dirty
        /\ Used(j) => inst'[j].config = inst[j].config
        /\ inst'[j].config = None => inst'[j] = inst[j]
  <2>1. \A j \in Instances : j # i => inst'[j] = inst[j]
    BY <1>1 DEF Elsewhere
  <2> QED
    BY <1>2, <1>4, <1>5, <2>1 DEF Used
<1>7. \A b \in Configs : reg'[b] # None => inst'[reg'[b]].config = b
  <2>1. ASSUME NEW b \in Configs, reg'[b] # None PROVE inst'[reg'[b]].config = b
    <3>1. CASE b = c
      BY <1>1, <1>2, <1>4, <3>1
    <3>2. CASE b # c
      <4>1. reg'[b] = reg[b] /\ reg[b] \in Instances /\ inst[reg[b]].config = b
        BY <1>1, <1>2, <2>1, <3>2 DEF Base, References, SomeInstance
      <4>2. b # None
        BY TopicAssumption
      <4> QED
        BY <1>6, <4>1, <4>2 DEF Used
    <3> QED
      BY <3>1, <3>2
  <2> QED
    BY <2>1
<1>8. pend' # None => Used(pend.inst)'
  BY <1>1, <1>2, <1>4 DEF Used
<1> QED
  BY <1>3, <1>6, <1>7, <1>8, SourcesMove, SaveDoes DEF SameRefresh

\* Registering the source that was found.
LEMMA FoundRegistered ==
    ASSUME Base, NEW c \in Configs, NEW i \in Instances, Found(i, c), Elsewhere(i),
           reg' = [reg EXCEPT ![c] = i], inst'[i].config = c
    PROVE  /\ reg' \in [Configs -> SomeInstance]
           /\ \A j \in Instances :
                /\ Used(j) => inst'[j].config = inst[j].config
                /\ inst'[j].config = None => inst'[j] = inst[j]
           /\ \A b \in Configs : reg'[b] # None => inst'[reg'[b]].config = b
<1>1. reg \in [Configs -> SomeInstance] /\ c # None /\ i # None
  BY TopicAssumption DEF Base, Types
<1>2. inst[i].config \in {c, None}
  BY FoundKeeps
<1>3. \A j \in Instances : j # i => inst'[j] = inst[j]
  BY DEF Elsewhere
<1>4. \A j \in Instances :
        /\ Used(j) => inst'[j].config = inst[j].config
        /\ inst'[j].config = None => inst'[j] = inst[j]
  BY <1>1, <1>2, <1>3 DEF Used
<1>5. ASSUME NEW b \in Configs, reg'[b] # None PROVE inst'[reg'[b]].config = b
  <2>1. CASE b = c
    BY <1>1, <2>1
  <2>2. CASE b # c
    <3>1. reg'[b] = reg[b] /\ reg[b] \in Instances /\ inst[reg[b]].config = b
      BY <1>1, <1>5, <2>2 DEF Base, References, SomeInstance
    <3>2. b # None
      BY TopicAssumption
    <3> QED
      BY <1>4, <3>1, <3>2 DEF Used
  <2> QED
    BY <2>1, <2>2
<1> QED
  BY <1>1, <1>4, <1>5 DEF SomeInstance

\* What a push does to the source of its config.
Pushed(i, c) ==
    /\ Found(i, c) /\ Elsewhere(i) /\ inst' \in [Instances -> Sources]
    /\ reg' = [reg EXCEPT ![c] = i]
    /\ inst'[i].config = c /\ inst'[i].data = truth'[c]
    /\ inst'[i].fresh = TRUE /\ inst'[i].loaded = TRUE
    /\ inst'[i].dirty = inst[i].dirty /\ inst'[i].subs = inst[i].subs
    /\ inst'[i].reader = inst[i].reader
    /\ \/ inst[i].subs = {} /\ inst'[i].inbox = inst[i].inbox /\ calls' = calls
       \/ /\ inst[i].subs # {} /\ inst'[i].inbox = Append(inst[i].inbox, truth'[c])
          /\ \/ inst[i].inbox = <<>> /\ calls' = Call(i, None, None)
             \/ inst[i].inbox # <<>> /\ calls' = calls
    /\ \/ Resident /\ pend' = None
       \/ /\ ~Resident /\ pend' \in Threads /\ pend'.kind = "push" /\ pend'.inst = i
          /\ pend'.watched <=> inst[i].subs # {}

LEMMA PushDoes ==
    ASSUME Base, NEW c \in Configs, WorkerPush(c)
    PROVE  /\ UNCHANGED <<scenario, loop, topic, conn, view, watch>>
           /\ "event" \in scenario /\ pend = None
           /\ truth' \in [Configs -> Nat] /\ \A b \in Configs : b # c => truth'[b] = truth[b]
           /\ \E i \in Instances : Pushed(i, c)
<1>1. truth \in [Configs -> Nat] /\ Types /\ References /\ inst \in [Instances -> Sources]
  BY DEF Base, Types
<1>2. truth' \in [Configs -> Nat] /\ \A b \in Configs : b # c => truth'[b] = truth[b]
  BY <1>1 DEF WorkerPush
<1> DEFINE v == truth'[c]
           t(i) == [Created(i, c)[i] EXCEPT !.data = v, !.fresh = TRUE, !.loaded = TRUE]
<1>3. PICK i \in Lookup(c) :
        /\ reg' = [reg EXCEPT ![c] = i]
        /\ IF Created(i, c)[i].subs = {} THEN inst' = [inst EXCEPT ![i] = t(i)] /\ calls' = calls
           ELSE /\ inst' = [inst EXCEPT ![i] = [t(i) EXCEPT !.inbox = Append(@, v)]]
                /\ calls' = Ring(i)
        /\ pend' = IF Resident THEN None
                   ELSE [kind |-> "push", inst |-> i, watched |-> inst[i].subs # {}]
  BY DEF WorkerPush, Registered
<1>4. v \in Nat
  BY <1>2
<1> HIDE DEF v
<1>5. i \in Instances /\ Found(i, c) /\ Created(i, c)[i] = [inst[i] EXCEPT !.config = c]
  BY <1>1, LookupFinds
<1>6. inst[i] \in Sources
  BY <1>1, <1>5
<1>7. /\ t(i) \in Sources /\ t(i).config = c /\ t(i).data = v /\ t(i).fresh = TRUE
      /\ t(i).loaded = TRUE /\ t(i).dirty = inst[i].dirty /\ t(i).subs = inst[i].subs
      /\ t(i).reader = inst[i].reader /\ t(i).inbox = inst[i].inbox
      /\ Created(i, c)[i].subs = inst[i].subs
  BY <1>4, <1>5, <1>6 DEF Sources, SomeVersion
<1> DEFINE r == t(i)
           q == [r EXCEPT !.inbox = Append(@, v)]
<1>8. /\ q \in Sources /\ q.config = c /\ q.data = v /\ q.fresh = TRUE
      /\ q.loaded = TRUE /\ q.dirty = inst[i].dirty /\ q.subs = inst[i].subs
      /\ q.reader = inst[i].reader /\ q.inbox = Append(inst[i].inbox, v)
  <2> HIDE DEF r
  <2>1. /\ r \in Sources /\ r.config = c /\ r.data = v /\ r.fresh = TRUE
        /\ r.loaded = TRUE /\ r.dirty = inst[i].dirty /\ r.subs = inst[i].subs
        /\ r.reader = inst[i].reader /\ r.inbox = inst[i].inbox
    BY <1>7 DEF r
  <2>2. r.inbox \in Seq(Nat)
    BY <2>1 DEF Sources
  <2> DEFINE box == Append(r.inbox, v)
  <2>3. box \in Seq(Nat) /\ box = Append(inst[i].inbox, v)
    BY <1>4, <2>1, <2>2
  <2> HIDE DEF box
  <2>4. q = [r EXCEPT !.inbox = box]
    BY DEF box
  <2> QED
    BY <2>1, <2>3, <2>4 DEF Sources
<1>9. /\ \/ Resident /\ pend' = None
         \/ /\ ~Resident /\ pend' \in Threads /\ pend'.kind = "push" /\ pend'.inst = i
            /\ pend'.watched <=> inst[i].subs # {}
  BY <1>3, <1>5 DEF Threads
<1>10. \/ inst[i].subs = {} /\ inst' = [inst EXCEPT ![i] = r] /\ calls' = calls
       \/ inst[i].subs # {} /\ inst' = [inst EXCEPT ![i] = q] /\ calls' = Ring(i)
  BY <1>3, <1>7
<1> HIDE DEF q
<1>11. r \in Sources /\ q \in Sources
  BY <1>7, <1>8
<1> HIDE DEF r
<1>12. /\ inst' \in [Instances -> Sources] /\ Elsewhere(i)
       /\ \/ inst[i].subs = {} /\ inst'[i] = r /\ calls' = calls
          \/ inst[i].subs # {} /\ inst'[i] = q /\ calls' = Ring(i)
  BY <1>1, <1>5, <1>10, <1>11 DEF Elsewhere
<1>13. /\ inst'[i].config = c /\ inst'[i].data = v /\ inst'[i].fresh = TRUE
       /\ inst'[i].loaded = TRUE /\ inst'[i].dirty = inst[i].dirty
       /\ inst'[i].subs = inst[i].subs /\ inst'[i].reader = inst[i].reader
       /\ \/ inst[i].subs = {} /\ inst'[i].inbox = inst[i].inbox /\ calls' = calls
          \/ /\ inst[i].subs # {} /\ inst'[i].inbox = Append(inst[i].inbox, v)
             /\ calls' = Ring(i)
  <2>1. CASE inst'[i] = r /\ inst[i].subs = {} /\ calls' = calls
    BY <1>7, <2>1 DEF r
  <2>2. CASE inst'[i] = q /\ inst[i].subs # {} /\ calls' = Ring(i)
    BY <1>8, <2>2
  <2> QED
    BY <1>12, <2>1, <2>2
<1>14. UNCHANGED <<scenario, loop, topic, conn, view, watch>> /\ "event" \in scenario /\ pend = None
  BY DEF WorkerPush
<1>15. v = truth'[c]
  BY DEF v
<1>16. Ring(i) = IF inst[i].inbox = <<>> THEN Call(i, None, None) ELSE calls
  BY DEF Ring
<1> QED
  <2>1. Pushed(i, c)
    BY <1>3, <1>5, <1>9, <1>12, <1>13, <1>15, <1>16 DEF Pushed
  <2> QED
    BY <1>2, <1>5, <1>14, <2>1

LEMMA BaseWorkerPush ==
    ASSUME Base, NEW c \in Configs, WorkerPush(c)
    PROVE  Base'
<1>1. PICK i \in Instances : Pushed(i, c)
  BY PushDoes
<1> DEFINE r == [i |-> i, full |-> None, who |-> None]
<1>2. r \in Callbacks /\ r.who = None
  BY DEF Callbacks, SomeVersion, Tasks
<1>3. calls' = calls \/ calls' = Append(calls, r)
  BY <1>1 DEF Call, Pushed
<1> HIDE DEF r
<1>4. calls' \in Seq(Callbacks)
  <2>1. calls \in Seq(Callbacks)
    BY DEF Base, Types
  <2> QED
    BY <1>2, <1>3, <2>1
<1>5. /\ reg' \in [Configs -> SomeInstance]
      /\ \A j \in Instances :
           /\ Used(j) => inst'[j].config = inst[j].config
           /\ inst'[j].config = None => inst'[j] = inst[j]
      /\ \A b \in Configs : reg'[b] # None => inst'[reg'[b]].config = b
  BY <1>1, FoundRegistered DEF Pushed
<1>6. Types'
  <2>1. pend' \in Threads \cup {None} /\ inst' \in [Instances -> Sources]
    BY <1>1 DEF Pushed
  <2>2. loop' = loop /\ topic' = topic /\ watch' = watch /\ truth' \in [Configs -> Nat]
    BY PushDoes
  <2> QED
    BY <1>4, <1>5, <2>1, <2>2 DEF Base, Types
<1>7. \A j \in Instances :
        /\ inst'[j].reader = inst[j].reader /\ inst'[j].subs = inst[j].subs
        /\ inst[j].dirty <= inst'[j].dirty
  <2>1. \A j \in Instances : j # i => inst'[j] = inst[j]
    BY <1>1 DEF Elsewhere, Pushed
  <2>2. \A j \in Instances : inst[j].dirty \in Nat
    BY DEF Base, Types, Sources
  <2> QED
    BY <1>1, <2>1, <2>2 DEF Pushed
<1>8. pend' # None => Used(pend.inst)'
  <2>1. pend' # None => pend'.inst = i /\ inst'[i].config = c
    BY <1>1 DEF Pushed
  <2> QED
    BY <2>1, TopicAssumption DEF Used
<1> QED
  <2>1. loop' = loop /\ topic' = topic /\ watch' = watch
    BY PushDoes
  <2> QED
    BY <1>2, <1>3, <1>5, <1>6, <1>7, <1>8, <2>1, SourcesMove DEF SameRefresh

LEMMA FollowUpDoes ==
    ASSUME Base, FollowUp
    PROVE  /\ UNCHANGED <<scenario, truth, reg, calls, loop, topic, conn, view>>
           /\ pend \in Threads /\ pend' = None /\ pend.inst \in Instances
           /\ inst[pend.inst].config \in Configs
           /\ inst' \in [Instances -> Sources] /\ watch' \in Watches /\ SameRefresh
           /\ LET c == inst[pend.inst].config IN
              \/ /\ pend.kind = "push" /\ UNCHANGED inst
                 /\ watch'.requested = watch.requested \ {c}
                 /\ \/ pend.watched /\ watch'.tracked = watch.tracked \cup {c}
                    \/ ~pend.watched /\ watch'.tracked = watch.tracked \ {c}
              \/ /\ pend.kind = "save" /\ pend.watched /\ UNCHANGED inst
                 /\ watch'.requested = watch.requested \cup {c}
                 /\ watch'.tracked = watch.tracked
              \/ /\ pend.kind = "save" /\ ~pend.watched /\ UNCHANGED watch
                 /\ Elsewhere(pend.inst)
                 /\ inst'[pend.inst] = [inst[pend.inst] EXCEPT !.dirty = @ + 1]
<1>1. /\ inst \in [Instances -> Sources] /\ watch \in Watches
      /\ pend \in Threads /\ pend' = None
  BY DEF Base, Types, FollowUp
<1>2. pend.inst \in Instances /\ pend.kind \in {"push", "save"} /\ pend.watched \in BOOLEAN
  BY <1>1 DEF Threads
<1> DEFINE i == pend.inst
           c == inst[i].config
<1>3. inst[i] \in Sources /\ c # None
  BY <1>1, <1>2 DEF Base, References, Used, FollowUp
<1>4. c \in Configs
  BY <1>3 DEF Sources
<1>5. UNCHANGED <<scenario, truth, reg, calls, loop, topic, conn, view>>
  BY DEF FollowUp
<1>6. CASE pend.kind = "push"
  <2>1. /\ watch' = [Tracked(watch, c, pend.watched) EXCEPT !.requested = @ \ {c}]
        /\ UNCHANGED inst
    BY <1>6 DEF FollowUp
  <2> HIDE DEF c
  <2>2. CASE pend.watched
    <3>1. /\ watch' \in Watches /\ SameRefresh
          /\ watch'.requested = watch.requested \ {c}
          /\ watch'.tracked = watch.tracked \cup {c}
      BY <1>1, <1>4, <2>1, <2>2 DEF Tracked, Watches, SameRefresh
    <3> QED
      BY <1>1, <1>2, <1>4, <1>5, <1>6, <2>1, <2>2, <3>1 DEF c
  <2>3. CASE ~pend.watched
    <3>1. /\ watch' \in Watches /\ SameRefresh
          /\ watch'.requested = watch.requested \ {c}
          /\ watch'.tracked = watch.tracked \ {c}
      BY <1>1, <1>4, <2>1, <2>3 DEF Tracked, Watches, SameRefresh
    <3> QED
      BY <1>1, <1>2, <1>4, <1>5, <1>6, <2>1, <2>3, <3>1 DEF c
  <2> QED
    BY <2>2, <2>3
<1>7. CASE pend.kind = "save" /\ pend.watched
  <2>1. watch' = [watch EXCEPT !.requested = @ \cup {c}] /\ UNCHANGED inst
    BY <1>7 DEF FollowUp
  <2> HIDE DEF c
  <2>2. /\ watch' \in Watches /\ SameRefresh
        /\ watch'.requested = watch.requested \cup {c} /\ watch'.tracked = watch.tracked
    BY <1>1, <1>4, <2>1 DEF Watches, SameRefresh
  <2> QED
    BY <1>1, <1>2, <1>4, <1>5, <1>7, <2>1, <2>2 DEF c
<1>8. CASE pend.kind = "save" /\ ~pend.watched
  <2> DEFINE s == [inst[i] EXCEPT !.dirty = @ + 1]
  <2>1. inst' = [inst EXCEPT ![i] = s] /\ UNCHANGED watch
    BY <1>8 DEF FollowUp
  <2>2. s \in Sources
    BY <1>3 DEF Sources
  <2> HIDE DEF s
  <2>3. inst' \in [Instances -> Sources] /\ inst'[i] = s /\ Elsewhere(i)
    BY <1>1, <1>2, <2>1, <2>2 DEF Elsewhere
  <2> QED
    BY <1>1, <1>2, <1>4, <1>5, <1>8, <2>1, <2>3 DEF s, SameRefresh
<1> QED
  BY <1>2, <1>6, <1>7, <1>8

LEMMA BaseFollowUp ==
    ASSUME Base, FollowUp
    PROVE  Base'
<1>1. Types'
  BY FollowUpDoes DEF Base, Types
<1>2. \A j \in Instances : inst[j] \in Sources
  BY DEF Base, Types
<1>3. \A j \in Instances :
        /\ inst'[j].reader = inst[j].reader /\ inst'[j].subs = inst[j].subs
        /\ inst[j].dirty <= inst'[j].dirty
        /\ inst'[j].config = inst[j].config
        /\ inst'[j].config = None => inst'[j] = inst[j]
  <2>1. CASE UNCHANGED inst
    <3>1. \A j \in Instances : inst[j].dirty \in Nat
      BY <1>2 DEF Sources
    <3> QED
      BY <2>1, <3>1
  <2>2. CASE /\ Elsewhere(pend.inst)
             /\ inst'[pend.inst] = [inst[pend.inst] EXCEPT !.dirty = @ + 1]
    <3> DEFINE i == pend.inst
    <3>1. \A j \in Instances : inst[j].dirty \in Nat
      BY <1>2 DEF Sources
    <3>2. i \in Instances /\ inst[i].config # None
      BY FollowUpDoes, TopicAssumption
    <3>3. /\ inst'[i].reader = inst[i].reader /\ inst'[i].subs = inst[i].subs
          /\ inst[i].dirty <= inst'[i].dirty /\ inst'[i].config = inst[i].config
      BY <1>2, <2>2, <3>2 DEF Sources
    <3>4. \A j \in Instances : j # i => inst'[j] = inst[j]
      BY <2>2 DEF Elsewhere
    <3> HIDE DEF i
    <3> QED
      BY <3>1, <3>2, <3>3, <3>4
  <2> QED
    BY <2>1, <2>2, FollowUpDoes
<1>4. \A c \in Configs : reg'[c] # None => inst'[reg'[c]].config = c
  <2>1. \A c \in Configs : reg[c] # None => reg[c] \in Instances /\ inst[reg[c]].config = c
    BY DEF Base, References, Types, SomeInstance
  <2>2. reg' = reg
    BY FollowUpDoes
  <2> QED
    BY <1>3, <2>1, <2>2
<1> QED
  BY <1>1, <1>3, <1>4, SourcesMove, FollowUpDoes

-----------------------------------------------------------------------------
(* The steps of a round.                                                   *)

LEMMA Ranges ==
    ASSUME Base
    PROVE  /\ Manager # None /\ Manager \notin Conns /\ None \notin Conns
           /\ \A i \in Instances :
                /\ i # None /\ inst[i] \in Sources /\ inst[i].dirty \in Nat
                /\ inst[i].config \in Configs \cup {None} /\ inst[i].reader \in Tasks
                /\ inst[i].subs \subseteq Conns
                /\ inst[i].config = None => inst[i] = Blank
           /\ \A c \in Configs :
                /\ c # None
                /\ reg[c] # None => reg[c] \in Instances /\ inst[reg[c]].config = c
           /\ \A k \in Conns :
                /\ topic[k] \in Rounds /\ topic[k].mark \in Nat
                /\ topic[k].src \in SomeInstance /\ topic[k].inst \in SomeInstance
                /\ topic[k].src # None => inst[topic[k].src].config \in Configs
                /\ Reads(k) =>
                     /\ topic[k].inst \in Instances /\ inst[topic[k].inst].config \in Configs
                     /\ inst[topic[k].inst].reader = k
                     /\ topic[k].mark <= inst[topic[k].inst].dirty
                /\ topic[k].pc = "attach" /\ topic[k].inst # None =>
                     topic[k].inst \in Instances /\ inst[topic[k].inst].config \in Configs
           /\ watch \in Watches /\ watch.inst \in SomeInstance /\ watch.mark \in Nat
           /\ watch.inst # None =>
                /\ watch.inst \in Instances /\ inst[watch.inst].config \in Configs
                /\ inst[watch.inst].reader = Manager /\ watch.mark <= inst[watch.inst].dirty
           /\ pend # None => pend.inst \in Instances /\ inst[pend.inst].config \in Configs
<1>1. \A i \in Instances :
        /\ i # None /\ inst[i] \in Sources /\ inst[i].dirty \in Nat
        /\ inst[i].config \in Configs \cup {None} /\ inst[i].reader \in Tasks
        /\ inst[i].subs \subseteq Conns
        /\ inst[i].config = None => inst[i] = Blank
  BY TopicAssumption DEF Base, Types, Sources, References, Used
<1>2. \A c \in Configs :
        c # None /\ (reg[c] # None => reg[c] \in Instances /\ inst[reg[c]].config = c)
  BY TopicAssumption DEF Base, Types, References, SomeInstance
<1>3. \A k \in Conns : /\ topic[k] \in Rounds /\ topic[k].mark \in Nat
                       /\ topic[k].src \in SomeInstance /\ topic[k].inst \in SomeInstance
  BY DEF Base, Types, Rounds
<1>4. watch \in Watches /\ watch.inst \in SomeInstance /\ watch.mark \in Nat
  BY DEF Base, Types, Watches
<1>5. pend # None => pend.inst \in Instances
  BY DEF Base, Types, Threads
<1>6. ASSUME NEW k \in Conns
      PROVE  /\ topic[k].src # None => inst[topic[k].src].config \in Configs
             /\ Reads(k) =>
                  /\ topic[k].inst \in Instances /\ inst[topic[k].inst].config \in Configs
                  /\ inst[topic[k].inst].reader = k
                  /\ topic[k].mark <= inst[topic[k].inst].dirty
             /\ topic[k].pc = "attach" /\ topic[k].inst # None =>
                  topic[k].inst \in Instances /\ inst[topic[k].inst].config \in Configs
  <2>1. topic[k].src # None => topic[k].src \in Instances /\ inst[topic[k].src].config # None
    BY <1>3 DEF Base, References, Used, SomeInstance
  <2>2. Reads(k) => /\ topic[k].inst \in Instances /\ inst[topic[k].inst].config # None
                    /\ inst[topic[k].inst].reader = k
                    /\ topic[k].mark <= inst[topic[k].inst].dirty
    BY <1>3 DEF Base, References, Readers, Used, Reads, SomeInstance
  <2>3. topic[k].pc = "attach" /\ topic[k].inst # None =>
          topic[k].inst \in Instances /\ inst[topic[k].inst].config # None
    BY <1>3 DEF Base, References, Used, SomeInstance
  <2> QED
    BY <1>1, <2>1, <2>2, <2>3
<1>7. watch.inst # None =>
        /\ watch.inst \in Instances /\ inst[watch.inst].config # None
        /\ inst[watch.inst].reader = Manager /\ watch.mark <= inst[watch.inst].dirty
  BY <1>4 DEF Base, References, Readers, Used, SomeInstance
<1>8. pend # None => inst[pend.inst].config # None
  BY DEF Base, References, Used
<1> QED
  BY <1>1, <1>2, <1>3, <1>4, <1>5, <1>6, <1>7, <1>8, TopicAssumption

\* References survive when sources keep their config and every new reference is used.
LEMMA ReferencesKept ==
    ASSUME Base,
           \A j \in Instances :
             /\ Used(j) => inst'[j].config = inst[j].config
             /\ inst'[j].config = None => inst'[j] = inst[j],
           \A c \in Configs : reg'[c] # None => inst'[reg'[c]].config = c,
           \A h \in Conns :
             /\ \/ topic'[h].src \in {topic[h].src, None}
                \/ inst'[topic'[h].src].config # None
             /\ \/ topic'[h].pc = topic[h].pc /\ topic'[h].inst = topic[h].inst
                \/ /\ Reads(h)' => topic'[h].inst # None
                   /\ topic'[h].pc \in {"read", "done", "attach"} /\ topic'[h].inst # None =>
                        inst'[topic'[h].inst].config # None,
           watch'.inst # None => watch'.inst = watch.inst \/ inst'[watch'.inst].config # None,
           pend' = pend
    PROVE  References'
<1>1. \A j \in Instances : Used(j) => Used(j)'
  BY DEF Used
<1>2. \A j \in Instances : ~Used(j)' => inst'[j] = Blank
  BY <1>1 DEF Used, Base, References
<1>3. \A h \in Conns : topic'[h].src # None => inst'[topic'[h].src].config # None
  BY <1>1, Ranges DEF Base, References, SomeInstance
<1>4. \A h \in Conns :
        /\ Reads(h)' => topic'[h].inst # None
        /\ topic'[h].pc \in {"read", "done", "attach"} /\ topic'[h].inst # None =>
             inst'[topic'[h].inst].config # None
  <2>1. \A h \in Conns :
          /\ Reads(h) => topic[h].inst # None
          /\ topic[h].pc \in {"read", "done", "attach"} /\ topic[h].inst # None =>
               Used(topic[h].inst) /\ topic[h].inst \in Instances
    BY Ranges DEF Base, References, SomeInstance
  <2>2. \A j \in Instances : Used(j) => inst'[j].config # None
    BY <1>1 DEF Used
  <2> QED
    BY <2>1, <2>2 DEF Reads
<1>5. watch'.inst # None => inst'[watch'.inst].config # None
  BY <1>1, Ranges DEF Base, References
<1>6. pend' # None => inst'[pend'.inst].config # None
  BY <1>1, Ranges DEF Base, References
<1> QED
  BY <1>2, <1>3, <1>4, <1>5, <1>6 DEF References, Used, Reads

\* register() for a source with viewers, unregister() for one without.
Follows(c, subs) ==
    \/ /\ subs # {} /\ watch'.tracked = watch.tracked \cup {c}
       /\ watch'.requested = watch.requested
    \/ /\ subs = {} /\ watch'.tracked = watch.tracked \ {c}
       /\ watch'.requested = watch.requested \ {c}

LEMMA FollowsDoes ==
    ASSUME Base, NEW c \in Configs, NEW subs, watch' = Tracked(watch, c, subs # {})
    PROVE  watch' \in Watches /\ SameRefresh /\ Follows(c, subs)
<1>1. watch \in Watches
  BY DEF Base, Types
<1>2. CASE subs # {}
  <2>1. watch' = Tracked(watch, c, TRUE)
    BY <1>2
  <2> QED
    BY <1>1, <1>2, <2>1 DEF Tracked, Watches, SameRefresh, Follows
<1>3. CASE subs = {}
  <2>1. watch' = Tracked(watch, c, FALSE)
    BY <1>3
  <2> QED
    BY <1>1, <1>3, <2>1 DEF Tracked, Watches, SameRefresh, Follows
<1> QED
  BY <1>2, <1>3

\* get_source() has found source i: it is fresh, or the round reads it.
Resolved(i, k) ==
    LET c == topic[k].want IN
    /\ c \in Configs /\ Found(i, c) /\ Elsewhere(i) /\ inst' \in [Instances -> Sources]
    /\ reg' = [reg EXCEPT ![c] = i] /\ inst[i].reader = None
    /\ inst'[i].config = c /\ inst'[i].data = inst[i].data /\ inst'[i].fresh = inst[i].fresh
    /\ inst'[i].loaded = inst[i].loaded /\ inst'[i].dirty = inst[i].dirty
    /\ inst'[i].subs = inst[i].subs /\ inst'[i].inbox = inst[i].inbox
    /\ topic'[k].inst = i
    /\ \/ /\ Resident \/ (inst[i].dirty = 0 /\ inst[i].loaded /\ inst[i].fresh)
          /\ inst'[i].reader = None /\ topic'[k].pc = "attach" /\ loop' = k
          /\ topic'[k].mark = topic[k].mark /\ topic'[k].val = topic[k].val
          /\ \/ Resident /\ watch' = watch
             \/ ~Resident /\ Follows(c, inst[i].subs)
       \/ /\ ~Resident /\ ~(inst[i].dirty = 0 /\ inst[i].loaded /\ inst[i].fresh)
          /\ inst'[i].reader = k /\ topic'[k].pc = "read" /\ UNCHANGED <<loop, watch>>
          /\ topic'[k].mark = inst[i].dirty /\ topic'[k].val = None

ResolvedToNone(k) ==
    /\ topic[k].want = None /\ topic'[k].pc = "attach" /\ topic'[k].inst = None
    /\ topic'[k].mark = topic[k].mark /\ topic'[k].val = topic[k].val
    /\ loop' = k /\ UNCHANGED <<reg, inst, watch>>

LEMMA ResolveDoes ==
    ASSUME Base, NEW k \in Conns, Resolve(k)
    PROVE  /\ UNCHANGED <<scenario, truth, calls, conn, view, pend>>
           /\ loop = None /\ topic[k].pc = "resolve" /\ topic' \in [Conns -> Rounds]
           /\ \A h \in Conns : h # k => topic'[h] = topic[h]
           /\ topic'[k].src = topic[k].src /\ topic'[k].want = topic[k].want
           /\ topic'[k].dirty = topic[k].dirty /\ topic'[k].closed = topic[k].closed
           /\ topic'[k].holds = topic[k].holds
           /\ watch' \in Watches /\ SameRefresh
           /\ ResolvedToNone(k) \/ \E i \in Instances : Resolved(i, k)
<1> DEFINE t == topic[k]
<1>1. topic \in [Conns -> Rounds] /\ t \in Rounds /\ watch \in Watches
  BY DEF Base, Types
<1>2. UNCHANGED <<scenario, truth, calls, conn, view, pend>> /\ loop = None /\ t.pc = "resolve"
  BY DEF Resolve
<1>3. ASSUME NEW r \in Rounds, topic' = [topic EXCEPT ![k] = r],
             r.src = t.src, r.want = t.want, r.dirty = t.dirty, r.closed = t.closed,
             r.holds = t.holds
      PROVE  /\ topic' \in [Conns -> Rounds] /\ \A h \in Conns : h # k => topic'[h] = topic[h]
             /\ topic'[k] = r
             /\ topic'[k].src = t.src /\ topic'[k].want = t.want
             /\ topic'[k].dirty = t.dirty /\ topic'[k].closed = t.closed
             /\ topic'[k].holds = t.holds
  BY <1>1, <1>3
<1>5. CASE t.want = None
  <2>1. /\ topic' = [topic EXCEPT ![k].pc = "attach", ![k].inst = None]
        /\ loop' = k /\ UNCHANGED <<reg, inst, watch>>
    BY <1>5 DEF Resolve
  <2> DEFINE r == [t EXCEPT !.pc = "attach", !.inst = None]
  <2>2. topic' = [topic EXCEPT ![k] = r]
    BY <2>1
  <2>3. /\ r \in Rounds /\ r.src = t.src /\ r.want = t.want /\ r.dirty = t.dirty
        /\ r.closed = t.closed /\ r.holds = t.holds /\ r.pc = "attach" /\ r.inst = None
        /\ r.mark = t.mark /\ r.val = t.val
    BY <1>1 DEF Rounds, SomeInstance
  <2> HIDE DEF r
  <2>4. topic'[k] = r
    BY <1>3, <2>2, <2>3
  <2>5. ResolvedToNone(k)
    BY <1>5, <2>1, <2>3, <2>4 DEF ResolvedToNone
  <2> QED
    BY <1>1, <1>2, <1>3, <2>1, <2>2, <2>3, <2>5 DEF SameRefresh
<1>6. CASE t.want # None
  <2> DEFINE c == t.want
             s(i) == Created(i, c)[i]
             fresh(i) == s(i).dirty = 0 /\ s(i).loaded /\ s(i).fresh
  <2>1. c \in Configs
    BY <1>1, <1>6 DEF Rounds
  <2>2. PICK i \in Lookup(c) :
          /\ s(i).reader = None /\ reg' = [reg EXCEPT ![c] = i]
          /\ IF Resident \/ fresh(i)
               THEN /\ inst' = Created(i, c)
                    /\ topic' = [topic EXCEPT ![k].pc = "attach", ![k].inst = i]
                    /\ watch' = IF Resident THEN watch ELSE Tracked(watch, c, s(i).subs # {})
                    /\ loop' = k
               ELSE /\ inst' = [inst EXCEPT ![i] = [s(i) EXCEPT !.reader = k]]
                    /\ topic' = [topic EXCEPT ![k].pc = "read", ![k].inst = i,
                                              ![k].mark = s(i).dirty, ![k].val = None]
                    /\ UNCHANGED <<loop, watch>>
    BY <1>6 DEF Resolve, Registered
  <2>3. /\ i \in Instances /\ Found(i, c) /\ Created(i, c) \in [Instances -> Sources]
        /\ \A j \in Instances : j # i => Created(i, c)[j] = inst[j]
        /\ s(i) = [inst[i] EXCEPT !.config = c]
    BY <2>1, LookupFinds DEF Base
  <2>4. inst[i] \in Sources /\ inst \in [Instances -> Sources]
    BY <2>3 DEF Base, Types
  <2> DEFINE src == s(i)
  <2>5. /\ src \in Sources /\ src.config = c /\ src.data = inst[i].data
        /\ src.fresh = inst[i].fresh /\ src.loaded = inst[i].loaded
        /\ src.dirty = inst[i].dirty /\ src.subs = inst[i].subs
        /\ src.inbox = inst[i].inbox /\ src.reader = inst[i].reader
        /\ src.dirty \in Nat
    BY <2>1, <2>3, <2>4 DEF Sources
  <2>6. i \in SomeInstance /\ None \in SomeVersion
    BY <2>3 DEF SomeInstance, SomeVersion
  <2>7. CASE Resident \/ fresh(i)
    <3> DEFINE r == [t EXCEPT !.pc = "attach", !.inst = i]
    <3>1. topic' = [topic EXCEPT ![k] = r]
      BY <1>1, <2>2, <2>7
    <3>2. /\ r \in Rounds /\ r.src = t.src /\ r.want = t.want /\ r.dirty = t.dirty
          /\ r.closed = t.closed /\ r.holds = t.holds /\ r.pc = "attach" /\ r.inst = i
          /\ r.mark = t.mark /\ r.val = t.val
      BY <1>1, <2>6 DEF Rounds
    <3> HIDE DEF r
    <3>3. inst' = Created(i, c) /\ loop' = k
          /\ watch' = IF Resident THEN watch ELSE Tracked(watch, c, src.subs # {})
      BY <2>2, <2>7
    <3> HIDE DEF src, c
    <3>4. /\ watch' \in Watches /\ SameRefresh
          /\ \/ Resident /\ watch' = watch
             \/ ~Resident /\ Follows(c, inst[i].subs)
      <4>1. CASE Resident
        BY <1>1, <3>3, <4>1 DEF SameRefresh
      <4>2. CASE ~Resident
        <5>1. watch' = Tracked(watch, c, inst[i].subs # {})
          BY <2>5, <3>3, <4>2
        <5> QED
          BY <2>1, <4>2, <5>1, FollowsDoes
      <4> QED
        BY <4>1, <4>2
    <3>5. Resident \/ (inst[i].dirty = 0 /\ inst[i].loaded /\ inst[i].fresh)
      BY <2>5, <2>7 DEF src
    <3>6. Resolved(i, k)
      <4>1. inst'[i] = src /\ Elsewhere(i) /\ inst' \in [Instances -> Sources]
        BY <2>3, <3>3 DEF Elsewhere, src
      <4>2. topic'[k].inst = i /\ topic'[k].pc = "attach"
            /\ topic'[k].mark = topic[k].mark /\ topic'[k].val = topic[k].val
        BY <1>3, <3>1, <3>2
      <4>3. inst[i].reader = None /\ reg' = [reg EXCEPT ![c] = i]
        BY <2>2, <2>5 DEF src
      <4> QED
        BY <2>1, <2>3, <2>5, <3>3, <3>4, <3>5, <4>1, <4>2, <4>3 DEF Resolved, c
    <3> QED
      BY <1>2, <1>3, <2>3, <3>1, <3>2, <3>4, <3>6
  <2>8. CASE ~(Resident \/ fresh(i))
    <3> DEFINE r == [src EXCEPT !.reader = k]
    <3>1. inst' = [inst EXCEPT ![i] = r] /\ UNCHANGED <<loop, watch>>
          /\ topic' = [topic EXCEPT ![k].pc = "read", ![k].inst = i,
                                    ![k].mark = src.dirty, ![k].val = None]
      BY <2>2, <2>8
    <3>2. ~Resident /\ ~(inst[i].dirty = 0 /\ inst[i].loaded /\ inst[i].fresh)
      BY <2>5, <2>8
    <3>3. inst[i].reader = None /\ reg' = [reg EXCEPT ![c] = i]
      BY <2>2, <2>5
    <3> HIDE DEF src, c
    <3>4. /\ r \in Sources /\ r.config = c /\ r.data = inst[i].data
          /\ r.fresh = inst[i].fresh /\ r.loaded = inst[i].loaded
          /\ r.dirty = inst[i].dirty /\ r.subs = inst[i].subs
          /\ r.inbox = inst[i].inbox /\ r.reader = k
      BY <2>5 DEF Sources, Tasks
    <3> HIDE DEF r
    <3>5. inst' \in [Instances -> Sources] /\ inst'[i] = r /\ Elsewhere(i)
      BY <2>3, <2>4, <3>1, <3>4 DEF Elsewhere
    <3> DEFINE m == inst[i].dirty
               q == [t EXCEPT !.pc = "read", !.inst = i, !.mark = m, !.val = None]
    <3>6. topic' = [topic EXCEPT ![k] = q]
      BY <1>1, <2>5, <3>1
    <3> HIDE DEF m
    <3>7. /\ q \in Rounds /\ q.src = t.src /\ q.want = t.want /\ q.dirty = t.dirty
          /\ q.closed = t.closed /\ q.holds = t.holds /\ q.pc = "read" /\ q.inst = i
          /\ q.mark = m /\ q.val = None
      <4>1. m \in Nat
        BY <2>5 DEF m
      <4> QED
        BY <1>1, <2>6, <4>1 DEF Rounds
    <3> HIDE DEF q
    <3>8. topic'[k].inst = i /\ topic'[k].pc = "read"
          /\ topic'[k].mark = inst[i].dirty /\ topic'[k].val = None
      BY <1>3, <3>6, <3>7 DEF m
    <3>9. Resolved(i, k)
      BY <2>1, <2>3, <3>1, <3>2, <3>3, <3>4, <3>5, <3>8 DEF Resolved, c
    <3> QED
      BY <1>1, <1>2, <1>3, <2>3, <3>1, <3>6, <3>7, <3>9 DEF SameRefresh
  <2> QED
    BY <2>7, <2>8
<1> QED
  BY <1>5, <1>6

\* A report stays valid for a task whose read is not over.
LEMMA ReportsKept ==
    ASSUME Base, SameRefresh, calls' = calls,
           \A h \in Conns : topic[h].pc = "read" =>
             topic'[h].pc = "read" /\ topic'[h].val = topic[h].val
    PROVE  Reports'
  BY DEF Base, Reports, SameRefresh

LEMMA BaseResolve ==
    ASSUME Base, NEW k \in Conns, Resolve(k)
    PROVE  Base'
<1>1. /\ UNCHANGED <<truth, calls, pend>> /\ loop = None /\ topic[k].pc = "resolve"
      /\ topic' \in [Conns -> Rounds] /\ \A h \in Conns : h # k => topic'[h] = topic[h]
      /\ topic'[k].src = topic[k].src /\ topic'[k].closed = topic[k].closed
      /\ watch' \in Watches /\ SameRefresh
  BY ResolveDoes
<1>2. Reports'
  <2>1. \A h \in Conns : topic[h].pc = "read" => topic'[h] = topic[h]
    BY <1>1
  <2> QED
    BY <1>1, <2>1, ReportsKept
<1>3. topic[k].src = None /\ \A h \in Conns : topic[h].pc # "attach"
  BY <1>1, TopicAssumption DEF Base, Subscriptions
<1>4. CASE ResolvedToNone(k)
  <2>1. /\ topic'[k].pc = "attach" /\ topic'[k].inst = None /\ loop' = k
        /\ UNCHANGED <<reg, inst, watch>>
    BY <1>4 DEF ResolvedToNone
  <2>2. Types'
    BY <1>1, <2>1 DEF Base, Types
  <2>3. References'
    <3>1. \A h \in Conns : h # k => topic'[h].pc = topic[h].pc /\ topic'[h].inst = topic[h].inst
                                    /\ topic'[h].src = topic[h].src
      BY <1>1
    <3>2. ~Reads(k)'
      BY <2>1 DEF Reads
    <3> QED
      BY <1>1, <2>1, <3>1, <3>2, ReferencesKept, Ranges DEF Used
  <2>4. Readers'
    <3>1. ~Reads(k)' /\ ~Reads(k)
      BY <1>1, <2>1 DEF Reads
    <3>2. \A h \in Conns : h # k => (Reads(h)' <=> Reads(h))
      BY <1>1 DEF Reads
    <3> QED
      BY <1>1, <2>1, <3>1, <3>2 DEF Base, Readers
  <2>5. Subscriptions'
    BY <1>1, <1>3, <2>1 DEF Base, Subscriptions
  <2> QED
    BY <1>2, <2>2, <2>3, <2>4, <2>5 DEF Base
<1>5. ASSUME NEW i \in Instances, Resolved(i, k) PROVE Base'
  <2> DEFINE c == topic[k].want
  <2>1. /\ c \in Configs /\ Found(i, c) /\ Elsewhere(i) /\ inst' \in [Instances -> Sources]
        /\ reg' = [reg EXCEPT ![c] = i] /\ inst[i].reader = None
        /\ inst'[i].config = c /\ inst'[i].dirty = inst[i].dirty /\ inst'[i].subs = inst[i].subs
        /\ topic'[k].inst = i
        /\ \/ /\ inst'[i].reader = None /\ topic'[k].pc = "attach" /\ loop' = k
           \/ /\ inst'[i].reader = k /\ topic'[k].pc = "read" /\ loop' = loop
              /\ topic'[k].mark = inst[i].dirty
    BY <1>5 DEF Resolved
  <2>2. /\ reg' \in [Configs -> SomeInstance]
        /\ \A j \in Instances :
             /\ Used(j) => inst'[j].config = inst[j].config
             /\ inst'[j].config = None => inst'[j] = inst[j]
        /\ \A b \in Configs : reg'[b] # None => inst'[reg'[b]].config = b
    BY <2>1, FoundRegistered
  <2> HIDE DEF c
  <2>3. i # None /\ c # None /\ k # None /\ k # Manager
    BY <2>1, TopicAssumption
  <2>4. Types'
    BY <1>1, <2>1, <2>2 DEF Base, Types
  <2>5. \A h \in Conns : h # k => topic'[h].pc = topic[h].pc /\ topic'[h].inst = topic[h].inst
                                  /\ topic'[h].src = topic[h].src
    BY <1>1
  <2>6. References'
    BY <1>1, <2>1, <2>2, <2>3, <2>5, ReferencesKept DEF SameRefresh
  <2>7. \A j \in Instances : j # i => inst'[j] = inst[j]
    BY <2>1 DEF Elsewhere
  <2>8. Readers'
    <3>1. ~Reads(k) /\ \A h \in Conns : h # k => (Reads(h)' <=> Reads(h))
      BY <1>1 DEF Reads
    <3>2. ASSUME NEW h \in Conns, Reads(h)'
          PROVE  /\ inst'[topic'[h].inst].reader = h /\ topic'[h].mark <= inst'[topic'[h].inst].dirty
                 /\ topic'[h].pc = "done" => topic'[h].val # None
      <4>1. CASE h = k
        BY <2>1, <3>2, <4>1, Ranges DEF Reads
      <4>2. CASE h # k
        <5>1. Reads(h) /\ topic'[h] = topic[h]
          BY <1>1, <3>1, <3>2, <4>2
        <5>2. topic[h].inst # i
          BY <2>1, <5>1, Ranges
        <5> QED
          BY <2>7, <5>1, <5>2, Ranges DEF Base, Readers
      <4> QED
        BY <4>1, <4>2
    <3>3. watch'.inst # None =>
            /\ inst'[watch'.inst].reader = Manager /\ watch'.mark <= inst'[watch'.inst].dirty
            /\ watch'.read => watch'.val # None
      <4>1. watch.inst # None => watch.inst # i
        BY <2>1, Ranges
      <4> QED
        BY <1>1, <2>7, <4>1, Ranges DEF Base, Readers, SameRefresh
    <3>4. ASSUME NEW j \in Instances
          PROVE  /\ inst'[j].reader \in Conns =>
                      /\ topic'[inst'[j].reader].pc \in {"read", "done"}
                      /\ topic'[inst'[j].reader].inst = j
                 /\ inst'[j].reader = Manager => watch'.inst = j
      <4>1. CASE j = i
        BY <2>1, <2>3, <4>1, TopicAssumption DEF Reads
      <4>2. CASE j # i
        <5>1. inst'[j].reader = inst[j].reader
          BY <2>7, <4>2
        <5>2. inst[j].reader \in Conns =>
                Reads(inst[j].reader) /\ topic[inst[j].reader].inst = j
          BY DEF Base, Readers
        <5>3. inst[j].reader = Manager => watch.inst = j
          BY DEF Base, Readers
        <5> QED
          BY <1>1, <3>1, <5>1, <5>2, <5>3 DEF SameRefresh, Reads
      <4> QED
        BY <4>1, <4>2
    <3> QED
      BY <3>2, <3>3, <3>4 DEF Readers, Reads
  <2>9. Subscriptions'
    <3>1. \A j \in Instances : inst'[j].subs = inst[j].subs
      BY <2>1, <2>7
    <3>2. \A h \in Conns : /\ topic'[h].src = topic[h].src /\ topic'[h].closed = topic[h].closed
                           /\ h # k => topic'[h].pc = topic[h].pc
      BY <1>1
    <3>3. topic'[k].pc = "attach" => loop' = k
      BY <2>1
    <3> QED
      BY <1>3, <3>1, <3>2, <3>3 DEF Base, Subscriptions
  <2> QED
    BY <1>2, <2>4, <2>6, <2>8, <2>9 DEF Base
<1> QED
  BY <1>4, <1>5, ResolveDoes

\* The refresh manager takes the source of config c and its lock.
Refreshed(i, c) ==
    /\ Found(i, c) /\ Elsewhere(i) /\ inst' \in [Instances -> Sources]
    /\ reg' = [reg EXCEPT ![c] = i] /\ inst[i].reader = None
    /\ inst'[i].config = c /\ inst'[i].data = inst[i].data /\ inst'[i].fresh = inst[i].fresh
    /\ inst'[i].loaded = inst[i].loaded /\ inst'[i].dirty = inst[i].dirty
    /\ inst'[i].subs = inst[i].subs /\ inst'[i].inbox = inst[i].inbox
    /\ inst'[i].reader = Manager
    /\ watch'.inst = i /\ watch'.mark = inst[i].dirty

LEMMA RefreshDoes ==
    ASSUME Base, NEW c \in Configs, Refresh(c)
    PROVE  /\ UNCHANGED <<scenario, truth, calls, loop, topic, conn, view, pend>>
           /\ loop = None /\ watch.inst = None
           /\ c \in watch.requested \/ ("clock" \in scenario /\ c \in watch.tracked)
           /\ watch' \in Watches /\ watch'.tracked = watch.tracked
           /\ watch'.requested = watch.requested \ {c}
           /\ watch'.val = None /\ watch'.read = FALSE
           /\ \E i \in Instances : Refreshed(i, c)
<1>1. watch \in Watches /\ inst \in [Instances -> Sources]
  BY DEF Base, Types
<1>2. PICK i \in Lookup(c) :
        /\ Created(i, c)[i].reader = None /\ reg' = [reg EXCEPT ![c] = i]
        /\ inst' = [Created(i, c) EXCEPT ![i].reader = Manager]
        /\ watch' = [watch EXCEPT !.requested = @ \ {c}, !.inst = i, !.val = None, !.read = FALSE,
                                  !.mark = inst[i].dirty]
  BY DEF Refresh, Registered
<1> DEFINE s == Created(i, c)[i]
           r == [s EXCEPT !.reader = Manager]
<1>3. /\ i \in Instances /\ Found(i, c) /\ Created(i, c) \in [Instances -> Sources]
      /\ \A j \in Instances : j # i => Created(i, c)[j] = inst[j]
      /\ s = [inst[i] EXCEPT !.config = c]
  BY LookupFinds DEF Base
<1>4. inst' = [Created(i, c) EXCEPT ![i] = r]
  BY <1>2
<1>5. /\ s \in Sources /\ s.config = c /\ s.data = inst[i].data /\ s.fresh = inst[i].fresh
      /\ s.loaded = inst[i].loaded /\ s.dirty = inst[i].dirty /\ s.subs = inst[i].subs
      /\ s.inbox = inst[i].inbox /\ s.reader = inst[i].reader /\ inst[i].dirty \in Nat
  BY <1>1, <1>3 DEF Sources
<1> HIDE DEF s
<1>6. /\ r \in Sources /\ r.config = c /\ r.data = inst[i].data /\ r.fresh = inst[i].fresh
      /\ r.loaded = inst[i].loaded /\ r.dirty = inst[i].dirty /\ r.subs = inst[i].subs
      /\ r.inbox = inst[i].inbox /\ r.reader = Manager
  BY <1>5 DEF Sources, Tasks
<1> HIDE DEF r
<1>7. inst' \in [Instances -> Sources] /\ inst'[i] = r /\ Elsewhere(i)
  BY <1>3, <1>4, <1>6 DEF Elsewhere
<1> DEFINE m == inst[i].dirty
<1>8. m \in Nat /\ watch' = [watch EXCEPT !.requested = @ \ {c}, !.inst = i, !.val = None,
                                          !.read = FALSE, !.mark = m]
  BY <1>2, <1>5
<1> HIDE DEF m
<1>9. /\ watch' \in Watches /\ watch'.inst = i /\ watch'.mark = m /\ watch'.val = None
      /\ watch'.read = FALSE /\ watch'.tracked = watch.tracked
      /\ watch'.requested = watch.requested \ {c}
  BY <1>1, <1>3, <1>8 DEF Watches, SomeInstance, SomeVersion
<1>10. Refreshed(i, c)
  BY <1>2, <1>3, <1>5, <1>6, <1>7, <1>9 DEF Refreshed, m, s
<1> QED
  BY <1>3, <1>9, <1>10 DEF Refresh

LEMMA BaseRefresh ==
    ASSUME Base, NEW c \in Configs, Refresh(c)
    PROVE  Base'
<1>1. /\ UNCHANGED <<truth, calls, loop, topic, pend>> /\ watch.inst = None
      /\ watch' \in Watches /\ watch'.val = None /\ watch'.read = FALSE
  BY RefreshDoes
<1>2. PICK i \in Instances : Refreshed(i, c)
  BY RefreshDoes
<1>3. /\ Found(i, c) /\ Elsewhere(i) /\ inst' \in [Instances -> Sources]
      /\ reg' = [reg EXCEPT ![c] = i] /\ inst[i].reader = None
      /\ inst'[i].config = c /\ inst'[i].dirty = inst[i].dirty /\ inst'[i].subs = inst[i].subs
      /\ inst'[i].reader = Manager /\ watch'.inst = i /\ watch'.mark = inst[i].dirty
  BY <1>2 DEF Refreshed
<1>4. /\ reg' \in [Configs -> SomeInstance]
      /\ \A j \in Instances :
           /\ Used(j) => inst'[j].config = inst[j].config
           /\ inst'[j].config = None => inst'[j] = inst[j]
      /\ \A b \in Configs : reg'[b] # None => inst'[reg'[b]].config = b
  BY <1>3, FoundRegistered
<1>5. \A j \in Instances : j # i => inst'[j] = inst[j]
  BY <1>3 DEF Elsewhere
<1>6. i # None /\ c # None
  BY TopicAssumption
<1>7. Types'
  BY <1>1, <1>3, <1>4 DEF Base, Types
<1>8. References'
  BY <1>1, <1>3, <1>4, <1>6, ReferencesKept
<1>9. Readers'
  <2>1. \A h \in Conns : Reads(h) => topic[h].inst # i
    BY <1>3, Ranges
  <2>2. ASSUME NEW h \in Conns, Reads(h)
        PROVE  /\ inst'[topic[h].inst].reader = h /\ topic[h].mark <= inst'[topic[h].inst].dirty
               /\ topic[h].pc = "done" => topic[h].val # None
    BY <1>5, <2>1, <2>2, Ranges DEF Base, Readers
  <2>3. inst[i].dirty \in Nat
    BY Ranges
  <2>4. ASSUME NEW j \in Instances
        PROVE  /\ inst'[j].reader \in Conns =>
                    Reads(inst'[j].reader) /\ topic[inst'[j].reader].inst = j
               /\ inst'[j].reader = Manager => watch'.inst = j
    <3>1. CASE j = i
      BY <1>3, <3>1, TopicAssumption
    <3>2. CASE j # i
      <4>1. inst'[j] = inst[j] /\ inst[j].reader # Manager
        BY <1>1, <1>5, <1>6, <3>2, TopicAssumption DEF Base, Readers
      <4> QED
        BY <4>1 DEF Base, Readers
    <3> QED
      BY <3>1, <3>2
  <2>5. \A h \in Conns : Reads(h)' <=> Reads(h)
    BY <1>1 DEF Reads
  <2> QED
    BY <1>1, <1>3, <2>2, <2>3, <2>4, <2>5 DEF Readers, Reads
<1>10. Reports'
  <2>1. \A n \in 1..Len(calls) : calls[n].who # Manager
    BY <1>1 DEF Base, Reports
  <2> QED
    BY <1>1, <2>1 DEF Base, Reports
<1>11. Subscriptions'
  BY <1>1, <1>3, <1>5 DEF Base, Subscriptions
<1> QED
  BY <1>7, <1>8, <1>9, <1>10, <1>11 DEF Base

\* The read of a thread, which reports back through run_sync_soon.
LEMMA ReadDiskDoes ==
    ASSUME Base, NEW k \in Conns, ReadDisk(k)
    PROVE  /\ UNCHANGED <<scenario, truth, reg, inst, loop, conn, view, watch, pend>>
           /\ topic[k].pc = "read" /\ topic[k].val = None /\ topic[k].inst \in Instances
           /\ topic' \in [Conns -> Rounds] /\ \A h \in Conns : h # k => topic'[h] = topic[h]
           /\ topic'[k].pc = "read" /\ topic'[k].inst = topic[k].inst
           /\ topic'[k].mark = topic[k].mark /\ topic'[k].src = topic[k].src
           /\ topic'[k].want = topic[k].want /\ topic'[k].dirty = topic[k].dirty
           /\ topic'[k].closed = topic[k].closed /\ topic'[k].holds = topic[k].holds
           /\ topic'[k].val = truth[inst[topic[k].inst].config] /\ topic'[k].val \in Nat
           /\ calls' = Append(calls, [i |-> topic[k].inst, full |-> None, who |-> k])
           /\ [i |-> topic[k].inst, full |-> None, who |-> k] \in Callbacks
<1>1. topic \in [Conns -> Rounds] /\ topic[k] \in Rounds /\ truth \in [Configs -> Nat]
  BY DEF Base, Types
<1>2. Reads(k)
  BY DEF ReadDisk, Reads
<1>3. topic[k].inst \in Instances /\ inst[topic[k].inst].config \in Configs
  BY <1>2, Ranges
<1> DEFINE v == truth[inst[topic[k].inst].config]
           r == [topic[k] EXCEPT !.val = v]
<1>4. v \in Nat
  BY <1>1, <1>3
<1>5. topic' = [topic EXCEPT ![k] = r]
  BY DEF ReadDisk
<1> HIDE DEF v
<1>6. /\ r \in Rounds /\ r.pc = topic[k].pc /\ r.inst = topic[k].inst
      /\ r.mark = topic[k].mark /\ r.src = topic[k].src
      /\ r.want = topic[k].want /\ r.dirty = topic[k].dirty
      /\ r.closed = topic[k].closed /\ r.holds = topic[k].holds /\ r.val = v
  BY <1>1, <1>4 DEF Rounds, SomeVersion
<1> HIDE DEF r
<1>7. topic' \in [Conns -> Rounds] /\ topic'[k] = r /\ \A h \in Conns : h # k => topic'[h] = topic[h]
  BY <1>1, <1>5, <1>6
<1>8. [i |-> topic[k].inst, full |-> None, who |-> k] \in Callbacks
  BY <1>3 DEF Callbacks, SomeVersion, Tasks
<1>9. calls' = Append(calls, [i |-> topic[k].inst, full |-> None, who |-> k])
  BY DEF ReadDisk, Call
<1> QED
  BY <1>3, <1>4, <1>6, <1>7, <1>8, <1>9 DEF ReadDisk, v

LEMMA BaseReadDisk ==
    ASSUME Base, NEW k \in Conns, ReadDisk(k)
    PROVE  Base'
<1> DEFINE r == [i |-> topic[k].inst, full |-> None, who |-> k]
<1>1. /\ UNCHANGED <<truth, reg, inst, loop, watch, pend>>
      /\ topic' \in [Conns -> Rounds] /\ \A h \in Conns : h # k => topic'[h] = topic[h]
      /\ topic'[k].pc = topic[k].pc /\ topic'[k].inst = topic[k].inst
      /\ topic'[k].mark = topic[k].mark /\ topic'[k].src = topic[k].src
      /\ topic'[k].closed = topic[k].closed /\ topic[k].pc = "read" /\ topic[k].val = None
      /\ topic'[k].val \in Nat /\ calls' = Append(calls, r) /\ r \in Callbacks
  BY ReadDiskDoes
<1>2. r.who = k /\ r.full = None /\ k # None /\ k # Manager
  BY TopicAssumption
<1> HIDE DEF r
<1>3. calls \in Seq(Callbacks) /\ topic \in [Conns -> Rounds]
  BY DEF Base, Types
<1>4. /\ calls' \in Seq(Callbacks) /\ Len(calls) \in Nat /\ calls'[Len(calls) + 1] = r
      /\ \A n \in 1..Len(calls) : n \in 1..Len(calls') /\ calls'[n] = calls[n]
      /\ \A n \in 1..Len(calls') : n \in 1..Len(calls) \/ n = Len(calls) + 1
  BY <1>1, <1>3, CallsAppended
<1>5. Types'
  BY <1>1, <1>4 DEF Base, Types
<1>6. \A h \in Conns : (Reads(h)' <=> Reads(h)) /\ topic'[h].inst = topic[h].inst
                       /\ topic'[h].mark = topic[h].mark /\ topic'[h].pc = topic[h].pc
                       /\ topic'[h].src = topic[h].src /\ topic'[h].closed = topic[h].closed
  BY <1>1 DEF Reads
<1>7. References'
  BY <1>1, <1>6, ReferencesKept, Ranges DEF Used
<1>8. Readers'
  <2>1. \A h \in Conns : topic[h].pc = "done" => topic'[h].val = topic[h].val
    BY <1>1
  <2> QED
    BY <1>1, <1>6, <2>1 DEF Base, Readers
<1>9. Reports'
  <2>1. \A n \in 1..Len(calls) : calls[n].who # k
    BY <1>1 DEF Base, Reports
  <2>2. ASSUME NEW n \in 1..Len(calls')
        PROVE  /\ calls'[n].who \in Conns =>
                    topic'[calls'[n].who].pc = "read" /\ topic'[calls'[n].who].val # None
               /\ calls'[n].who = Manager => watch'.inst # None /\ ~watch'.read /\ watch'.val # None
               /\ calls'[n].who # None => calls'[n].full = None
    <3>1. CASE n = Len(calls) + 1
      BY <1>1, <1>2, <1>4, <3>1, TopicAssumption
    <3>2. CASE n \in 1..Len(calls)
      <4>1. calls'[n] = calls[n] /\ calls[n].who # k
        BY <1>4, <2>1, <3>2
      <4>2. calls[n].who \in Conns => topic'[calls[n].who] = topic[calls[n].who]
        BY <1>1, <4>1
      <4> QED
        BY <1>1, <3>2, <4>1, <4>2 DEF Base, Reports
    <3> QED
      BY <1>4, <3>1, <3>2
  <2>3. ASSUME NEW m \in 1..Len(calls'), NEW n \in 1..Len(calls'),
               calls'[m].who = calls'[n].who, calls'[m].who # None
        PROVE  m = n
    <3>1. CASE m \in 1..Len(calls) /\ n \in 1..Len(calls)
      BY <1>4, <2>3, <3>1 DEF Base, Reports
    <3>2. CASE m = Len(calls) + 1 \/ n = Len(calls) + 1
      BY <1>2, <1>4, <2>1, <2>3, <3>2
    <3> QED
      BY <1>4, <3>1, <3>2
  <2> QED
    BY <2>2, <2>3 DEF Reports
<1>10. Subscriptions'
  BY <1>1, <1>6 DEF Base, Subscriptions
<1> QED
  BY <1>5, <1>7, <1>8, <1>9, <1>10 DEF Base

LEMMA RefreshReadsDoes ==
    ASSUME Base, RefreshReads
    PROVE  /\ UNCHANGED <<scenario, truth, reg, inst, loop, topic, conn, view, pend>>
           /\ watch.inst \in Instances /\ watch.val = None
           /\ watch' \in Watches /\ watch'.inst = watch.inst /\ watch'.mark = watch.mark
           /\ watch'.tracked = watch.tracked /\ watch'.requested = watch.requested
           /\ watch'.read = watch.read
           /\ watch'.val = truth[inst[watch.inst].config] /\ watch'.val \in Nat
           /\ calls' = Append(calls, [i |-> watch.inst, full |-> None, who |-> Manager])
           /\ [i |-> watch.inst, full |-> None, who |-> Manager] \in Callbacks
<1>1. watch \in Watches /\ truth \in [Configs -> Nat]
  BY DEF Base, Types
<1>2. watch.inst # None /\ watch.val = None
  BY DEF RefreshReads
<1>3. watch.inst \in Instances /\ inst[watch.inst].config \in Configs
  BY <1>2, Ranges
<1> DEFINE v == truth[inst[watch.inst].config]
<1>4. v \in Nat /\ watch' = [watch EXCEPT !.val = v]
  BY <1>1, <1>3 DEF RefreshReads
<1> HIDE DEF v
<1>5. /\ watch' \in Watches /\ watch'.inst = watch.inst /\ watch'.mark = watch.mark
      /\ watch'.tracked = watch.tracked /\ watch'.requested = watch.requested
      /\ watch'.read = watch.read /\ watch'.val = v
  BY <1>1, <1>4 DEF Watches, SomeVersion
<1>6. [i |-> watch.inst, full |-> None, who |-> Manager] \in Callbacks
  BY <1>3 DEF Callbacks, SomeVersion, Tasks
<1>7. calls' = Append(calls, [i |-> watch.inst, full |-> None, who |-> Manager])
  BY DEF RefreshReads, Call
<1> QED
  BY <1>2, <1>3, <1>4, <1>5, <1>6, <1>7 DEF RefreshReads, v

LEMMA BaseRefreshReads ==
    ASSUME Base, RefreshReads
    PROVE  Base'
<1> DEFINE r == [i |-> watch.inst, full |-> None, who |-> Manager]
<1>1. /\ UNCHANGED <<truth, reg, inst, loop, topic, pend>>
      /\ watch.inst \in Instances /\ watch.val = None
      /\ watch' \in Watches /\ watch'.inst = watch.inst /\ watch'.mark = watch.mark
      /\ watch'.read = watch.read /\ watch'.val \in Nat
      /\ calls' = Append(calls, r) /\ r \in Callbacks
  BY RefreshReadsDoes
<1>2. /\ r.who = Manager /\ r.full = None /\ Manager # None /\ Manager \notin Conns
      /\ watch.inst # None /\ watch'.val # None
  BY <1>1, TopicAssumption
<1> HIDE DEF r
<1>3. calls \in Seq(Callbacks)
  BY DEF Base, Types
<1>4. /\ calls' \in Seq(Callbacks) /\ Len(calls) \in Nat /\ calls'[Len(calls) + 1] = r
      /\ \A n \in 1..Len(calls) : n \in 1..Len(calls') /\ calls'[n] = calls[n]
      /\ \A n \in 1..Len(calls') : n \in 1..Len(calls) \/ n = Len(calls) + 1
  BY <1>1, <1>3, CallsAppended
<1>5. Types'
  BY <1>1, <1>4 DEF Base, Types
<1>6. References'
  BY <1>1, ReferencesKept, Ranges DEF Used
<1>7. ~watch.read
  BY <1>1, <1>2 DEF Base, Readers
<1>8. Readers'
  BY <1>1, <1>7 DEF Base, Readers, Reads
<1>9. Reports'
  <2>1. \A n \in 1..Len(calls) : calls[n].who # Manager
    BY <1>1 DEF Base, Reports
  <2>2. ASSUME NEW n \in 1..Len(calls')
        PROVE  /\ calls'[n].who \in Conns =>
                    topic'[calls'[n].who].pc = "read" /\ topic'[calls'[n].who].val # None
               /\ calls'[n].who = Manager => watch'.inst # None /\ ~watch'.read /\ watch'.val # None
               /\ calls'[n].who # None => calls'[n].full = None
    <3>1. CASE n = Len(calls) + 1
      BY <1>1, <1>2, <1>4, <1>7, <3>1
    <3>2. CASE n \in 1..Len(calls)
      BY <1>1, <1>4, <2>1, <3>2 DEF Base, Reports
    <3> QED
      BY <1>4, <3>1, <3>2
  <2>3. ASSUME NEW m \in 1..Len(calls'), NEW n \in 1..Len(calls'),
               calls'[m].who = calls'[n].who, calls'[m].who # None
        PROVE  m = n
    <3>1. CASE m \in 1..Len(calls) /\ n \in 1..Len(calls)
      BY <1>4, <2>3, <3>1 DEF Base, Reports
    <3>2. CASE m = Len(calls) + 1 \/ n = Len(calls) + 1
      BY <1>2, <1>4, <2>1, <2>3, <3>2
    <3> QED
      BY <1>4, <3>1, <3>2
  <2> QED
    BY <2>2, <2>3 DEF Reports
<1>10. Subscriptions'
  BY <1>1 DEF Base, Subscriptions
<1> QED
  BY <1>5, <1>6, <1>8, <1>9, <1>10 DEF Base

\* reinit() has read a table: the source takes it, and tells its viewers when it is new.
Published(i, new, mark) ==
    /\ inst' \in [Instances -> Sources] /\ Elsewhere(i)
    /\ inst'[i].config = inst[i].config /\ inst'[i].data = new
    /\ inst'[i].fresh = TRUE /\ inst'[i].loaded = TRUE /\ inst'[i].reader = None
    /\ inst'[i].subs = inst[i].subs /\ inst'[i].inbox = inst[i].inbox
    /\ \/ inst[i].dirty = mark /\ inst'[i].dirty = 0
       \/ inst[i].dirty # mark /\ inst'[i].dirty = inst[i].dirty
    /\ \/ (inst[i].data = new \/ inst[i].subs = {}) /\ calls' = calls
       \/ inst[i].data # new /\ inst[i].subs # {} /\ calls' = Call(i, new, None)

LEMMA PublishDoes ==
    ASSUME Base, NEW i \in Instances, NEW new \in Nat, NEW mark \in Nat, Publish(i, new, mark)
    PROVE  Published(i, new, mark)
<1>1. inst[i] \in Sources /\ inst[i].dirty \in Nat /\ inst \in [Instances -> Sources]
  BY Ranges DEF Base, Types
<1> DEFINE d == IF inst[i].dirty = mark THEN 0 ELSE inst[i].dirty
           r == [inst[i] EXCEPT !.fresh = TRUE, !.loaded = TRUE, !.reader = None, !.dirty = d]
           s == [r EXCEPT !.data = new]
<1>2. d \in Nat
  BY <1>1
<1>3. /\ inst' = [inst EXCEPT ![i] = s]
      /\ calls' = IF r.data = new \/ r.subs = {} THEN calls ELSE Call(i, new, None)
  BY DEF Publish
<1> HIDE DEF d
<1>4. /\ r \in Sources /\ r.data = inst[i].data /\ r.subs = inst[i].subs
      /\ r.config = inst[i].config /\ r.inbox = inst[i].inbox /\ r.fresh = TRUE
      /\ r.loaded = TRUE /\ r.reader = None /\ r.dirty = d
  BY <1>1, <1>2 DEF Sources, Tasks
<1> HIDE DEF r
<1>5. /\ s \in Sources /\ s.data = new /\ s.subs = inst[i].subs
      /\ s.config = inst[i].config /\ s.inbox = inst[i].inbox /\ s.fresh = TRUE
      /\ s.loaded = TRUE /\ s.reader = None /\ s.dirty = d
  BY <1>4 DEF Sources, SomeVersion
<1> HIDE DEF s
<1>6. inst' \in [Instances -> Sources] /\ inst'[i] = s /\ Elsewhere(i)
  BY <1>1, <1>3, <1>5 DEF Elsewhere
<1>7. \/ inst[i].dirty = mark /\ inst'[i].dirty = 0
      \/ inst[i].dirty # mark /\ inst'[i].dirty = inst[i].dirty
  BY <1>5, <1>6 DEF d
<1> QED
  BY <1>3, <1>4, <1>5, <1>6, <1>7 DEF Published

\* Reports stay valid when a broadcast is queued and no read that was reported begins.
LEMMA ReportsAdded ==
    ASSUME Base, SameRefresh \/ watch.read = TRUE,
           calls' = calls \/ \E r \in Callbacks : calls' = Append(calls, r) /\ r.who = None,
           \A h \in Conns : topic[h].pc = "read" =>
             topic'[h].pc = "read" /\ topic'[h].val = topic[h].val
    PROVE  Reports' /\ calls' \in Seq(Callbacks)
<1>1. calls \in Seq(Callbacks)
  BY DEF Base, Types
<1>2. ASSUME NEW n \in 1..Len(calls)
      PROVE  /\ calls[n].who \in Conns =>
                  topic'[calls[n].who].pc = "read" /\ topic'[calls[n].who].val # None
             /\ calls[n].who = Manager => watch'.inst # None /\ ~watch'.read /\ watch'.val # None
             /\ calls[n].who # None => calls[n].full = None
  BY DEF Base, Reports, SameRefresh
<1>3. CASE calls' = calls
  BY <1>1, <1>2, <1>3 DEF Base, Reports
<1>4. ASSUME NEW r \in Callbacks, calls' = Append(calls, r), r.who = None
      PROVE  Reports' /\ calls' \in Seq(Callbacks)
  <2>1. None \notin Conns /\ None # Manager
    BY TopicAssumption
  <2>2. /\ calls' \in Seq(Callbacks) /\ Len(calls) \in Nat /\ calls'[Len(calls) + 1] = r
        /\ \A n \in 1..Len(calls) : n \in 1..Len(calls') /\ calls'[n] = calls[n]
        /\ \A n \in 1..Len(calls') : n \in 1..Len(calls) \/ n = Len(calls) + 1
    BY <1>1, <1>4, CallsAppended
  <2>3. \A m, n \in 1..Len(calls) : calls[m].who = calls[n].who /\ calls[m].who # None => m = n
    BY DEF Base, Reports
  <2> QED
    BY <1>2, <1>4, <2>1, <2>2, <2>3 DEF Reports
<1> QED
  BY <1>3, <1>4

LEMMA PublishedAdds ==
    ASSUME Base, NEW i \in Instances, NEW new \in Nat, NEW mark, Published(i, new, mark)
    PROVE  calls' = calls \/ \E r \in Callbacks : calls' = Append(calls, r) /\ r.who = None
<1>1. [i |-> i, full |-> new, who |-> None] \in Callbacks
  BY DEF Callbacks, SomeVersion, Tasks
<1> QED
  BY <1>1 DEF Published, Call

LEMMA ReadDoneDoes ==
    ASSUME Base, NEW k \in Conns, ReadDone(k)
    PROVE  /\ UNCHANGED <<scenario, truth, reg, conn, view, pend>>
           /\ loop = None /\ topic[k].pc = "done" /\ loop' = k
           /\ topic[k].inst \in Instances /\ topic[k].val \in Nat /\ topic[k].mark \in Nat
           /\ inst[topic[k].inst].config \in Configs
           /\ Published(topic[k].inst, topic[k].val, topic[k].mark)
           /\ topic' \in [Conns -> Rounds] /\ \A h \in Conns : h # k => topic'[h] = topic[h]
           /\ topic'[k].pc = "attach" /\ topic'[k].inst = topic[k].inst
           /\ topic'[k].src = topic[k].src /\ topic'[k].want = topic[k].want
           /\ topic'[k].dirty = topic[k].dirty /\ topic'[k].closed = topic[k].closed
           /\ topic'[k].holds = topic[k].holds
           /\ watch' \in Watches /\ SameRefresh
           /\ Follows(inst[topic[k].inst].config, inst[topic[k].inst].subs)
<1>1. topic \in [Conns -> Rounds] /\ topic[k] \in Rounds
  BY DEF Base, Types
<1>2. Reads(k) /\ topic[k].pc = "done"
  BY DEF ReadDone, Reads
<1>3. topic[k].inst \in Instances /\ inst[topic[k].inst].config \in Configs
      /\ topic[k].mark \in Nat
  BY <1>2, Ranges
<1>4. topic[k].val \in Nat
  BY <1>1, <1>2 DEF Base, Readers, Rounds, SomeVersion
<1>5. Published(topic[k].inst, topic[k].val, topic[k].mark)
  BY <1>3, <1>4, PublishDoes DEF ReadDone
<1> DEFINE r == [topic[k] EXCEPT !.pc = "attach"]
<1>6. topic' = [topic EXCEPT ![k] = r]
  BY DEF ReadDone
<1>7. /\ r \in Rounds /\ r.pc = "attach" /\ r.inst = topic[k].inst
      /\ r.src = topic[k].src /\ r.want = topic[k].want
      /\ r.dirty = topic[k].dirty /\ r.closed = topic[k].closed
      /\ r.holds = topic[k].holds
  BY <1>1 DEF Rounds
<1> HIDE DEF r
<1>8. topic' \in [Conns -> Rounds] /\ topic'[k] = r /\ \A h \in Conns : h # k => topic'[h] = topic[h]
  BY <1>1, <1>6, <1>7
<1>9. /\ watch' \in Watches /\ SameRefresh
      /\ Follows(inst[topic[k].inst].config, inst[topic[k].inst].subs)
  BY <1>3, FollowsDoes DEF ReadDone
<1> QED
  BY <1>3, <1>4, <1>5, <1>7, <1>8, <1>9 DEF ReadDone

LEMMA BaseReadDone ==
    ASSUME Base, NEW k \in Conns, ReadDone(k)
    PROVE  Base'
<1> DEFINE i == topic[k].inst
<1>1. /\ UNCHANGED <<truth, reg, pend>> /\ loop = None /\ topic[k].pc = "done" /\ loop' = k
      /\ i \in Instances /\ topic[k].val \in Nat /\ Published(i, topic[k].val, topic[k].mark)
      /\ topic' \in [Conns -> Rounds] /\ \A h \in Conns : h # k => topic'[h] = topic[h]
      /\ topic'[k].pc = "attach" /\ topic'[k].inst = i
      /\ topic'[k].src = topic[k].src /\ topic'[k].closed = topic[k].closed
      /\ watch' \in Watches /\ SameRefresh
  BY ReadDoneDoes
<1>2. /\ inst' \in [Instances -> Sources] /\ Elsewhere(i)
      /\ inst'[i].config = inst[i].config /\ inst'[i].reader = None
      /\ inst'[i].subs = inst[i].subs
  BY <1>1 DEF Published
<1>3. calls' = calls \/ \E r \in Callbacks : calls' = Append(calls, r) /\ r.who = None
  BY <1>1, PublishedAdds
<1>4. Reports' /\ calls' \in Seq(Callbacks)
  <2>1. \A h \in Conns : topic[h].pc = "read" => topic'[h] = topic[h]
    BY <1>1
  <2> QED
    BY <1>1, <1>3, <2>1, ReportsAdded
<1>5. Types'
  BY <1>1, <1>2, <1>4 DEF Base, Types
<1>6. Reads(k) /\ ~Reads(k)' /\ \A h \in Conns : h # k => (Reads(h)' <=> Reads(h))
  BY <1>1 DEF Reads
<1>7. inst[i].reader = k /\ inst[i].config # None /\ k # None /\ k # Manager
  BY <1>6, Ranges
<1> HIDE DEF i
<1>8. \A j \in Instances : j # i => inst'[j] = inst[j]
  BY <1>2 DEF Elsewhere
<1>9. \A j \in Instances : inst'[j].config = inst[j].config /\ inst'[j].subs = inst[j].subs
                           /\ (inst'[j].config = None => inst'[j] = inst[j])
  BY <1>2, <1>7, <1>8
<1>10. References'
  <2>1. \A c \in Configs : reg'[c] # None => inst'[reg'[c]].config = c
    BY <1>1, <1>9, Ranges
  <2> QED
    BY <1>1, <1>6, <1>7, <1>9, <2>1, ReferencesKept DEF SameRefresh
<1>11. Readers'
  <2>1. ASSUME NEW h \in Conns, Reads(h)'
        PROVE  /\ inst'[topic'[h].inst].reader = h /\ topic'[h].mark <= inst'[topic'[h].inst].dirty
               /\ topic'[h].pc = "done" => topic'[h].val # None
    <3>1. h # k /\ Reads(h) /\ topic'[h] = topic[h]
      BY <1>1, <1>6, <2>1
    <3>2. topic[h].inst # i
      BY <1>7, <3>1, Ranges
    <3> QED
      BY <1>8, <3>1, <3>2, Ranges DEF Base, Readers
  <2>2. watch'.inst # None =>
          /\ inst'[watch'.inst].reader = Manager /\ watch'.mark <= inst'[watch'.inst].dirty
          /\ watch'.read => watch'.val # None
    <3>1. watch.inst # None => watch.inst # i
      BY <1>7, Ranges
    <3> QED
      BY <1>1, <1>8, <3>1, Ranges DEF Base, Readers, SameRefresh
  <2>3. ASSUME NEW j \in Instances
        PROVE  /\ inst'[j].reader \in Conns =>
                    /\ topic'[inst'[j].reader].pc \in {"read", "done"}
                    /\ topic'[inst'[j].reader].inst = j
               /\ inst'[j].reader = Manager => watch'.inst = j
    <3>1. CASE j = i
      BY <1>2, <3>1, TopicAssumption
    <3>2. CASE j # i
      <4>1. inst'[j].reader = inst[j].reader
        BY <1>8, <3>2
      <4>2. inst[j].reader \in Conns =>
              Reads(inst[j].reader) /\ topic[inst[j].reader].inst = j
        BY DEF Base, Readers
      <4>3. inst[j].reader = Manager => watch.inst = j
        BY DEF Base, Readers
      <4>4. inst[j].reader # k
        BY <3>2, <4>2, <1>1 DEF i
      <4> QED
        BY <1>1, <4>1, <4>2, <4>3, <4>4 DEF SameRefresh, Reads
    <3> QED
      BY <3>1, <3>2
  <2> QED
    BY <2>1, <2>2, <2>3 DEF Readers, Reads
<1>12. Subscriptions'
  <2>1. topic[k].src = None /\ \A h \in Conns : topic[h].pc # "attach"
    BY <1>1, TopicAssumption DEF Base, Subscriptions
  <2>2. \A h \in Conns : /\ topic'[h].src = topic[h].src /\ topic'[h].closed = topic[h].closed
                         /\ h # k => topic'[h].pc = topic[h].pc
    BY <1>1
  <2> QED
    BY <1>1, <1>9, <2>1, <2>2 DEF Base, Subscriptions
<1> QED
  BY <1>4, <1>5, <1>10, <1>11, <1>12 DEF Base

LEMMA RefreshDoneDoes ==
    ASSUME Base, RefreshDone
    PROVE  /\ UNCHANGED <<scenario, truth, reg, loop, topic, conn, view, pend>>
           /\ loop = None /\ watch.inst \in Instances /\ watch.read = TRUE
           /\ watch.val \in Nat /\ watch.mark \in Nat
           /\ inst[watch.inst].config \in Configs
           /\ Published(watch.inst, watch.val, watch.mark)
           /\ watch' \in Watches /\ watch'.inst = None
           /\ Follows(inst[watch.inst].config, inst[watch.inst].subs)
<1>1. watch \in Watches /\ watch.inst # None /\ watch.read
  BY DEF Base, Types, RefreshDone
<1>2. watch.inst \in Instances /\ inst[watch.inst].config \in Configs /\ watch.mark \in Nat
  BY <1>1, Ranges
<1>3. watch.val \in Nat /\ watch.read = TRUE
  BY <1>1 DEF Base, Readers, Watches, SomeVersion
<1>4. Published(watch.inst, watch.val, watch.mark)
  BY <1>2, <1>3, PublishDoes DEF RefreshDone
<1> DEFINE c == inst[watch.inst].config
           subs == inst[watch.inst].subs
           watched == subs # {}
<1>5. watch' = [Tracked(watch, c, watched) EXCEPT !.inst = None]
  BY DEF RefreshDone
<1> HIDE DEF c, subs
<1>6. watch' \in Watches /\ watch'.inst = None /\ Follows(c, subs)
  <2>0. c \in Configs
    BY <1>2 DEF c
  <2>1. CASE watched
    <3>1. watch' = [Tracked(watch, c, TRUE) EXCEPT !.inst = None]
      BY <1>5, <2>1
    <3> QED
      BY <1>1, <2>0, <2>1, <3>1 DEF Tracked, Watches, Follows, SomeInstance
  <2>2. CASE ~watched
    <3>1. watch' = [Tracked(watch, c, FALSE) EXCEPT !.inst = None]
      BY <1>5, <2>2
    <3> QED
      BY <1>1, <2>0, <2>2, <3>1 DEF Tracked, Watches, Follows, SomeInstance
  <2> QED
    BY <2>1, <2>2
<1> QED
  BY <1>2, <1>3, <1>4, <1>6 DEF RefreshDone, c, subs

LEMMA BaseRefreshDone ==
    ASSUME Base, RefreshDone
    PROVE  Base'
<1> DEFINE i == watch.inst
<1>1. /\ UNCHANGED <<truth, reg, loop, topic, pend>> /\ i \in Instances /\ watch.read = TRUE
      /\ watch.val \in Nat /\ Published(i, watch.val, watch.mark)
      /\ watch' \in Watches /\ watch'.inst = None
  BY RefreshDoneDoes
<1>2. /\ inst' \in [Instances -> Sources] /\ Elsewhere(i)
      /\ inst'[i].config = inst[i].config /\ inst'[i].reader = None
      /\ inst'[i].subs = inst[i].subs
  BY <1>1 DEF Published
<1>3. calls' = calls \/ \E r \in Callbacks : calls' = Append(calls, r) /\ r.who = None
  BY <1>1, PublishedAdds
<1>4. Reports' /\ calls' \in Seq(Callbacks)
  BY <1>1, <1>3, ReportsAdded
<1>5. Types'
  BY <1>1, <1>2, <1>4 DEF Base, Types
<1>6. inst[i].reader = Manager /\ inst[i].config # None /\ Manager # None /\ i # None
  BY <1>1, Ranges
<1> HIDE DEF i
<1>7. \A j \in Instances : j # i => inst'[j] = inst[j]
  BY <1>2 DEF Elsewhere
<1>8. \A j \in Instances : inst'[j].config = inst[j].config /\ inst'[j].subs = inst[j].subs
                           /\ (inst'[j].config = None => inst'[j] = inst[j])
  BY <1>2, <1>6, <1>7
<1>9. References'
  <2>1. \A c \in Configs : reg'[c] # None => inst'[reg'[c]].config = c
    BY <1>1, <1>8, Ranges
  <2> QED
    BY <1>1, <1>8, <2>1, ReferencesKept
<1>10. Readers'
  <2>1. ASSUME NEW h \in Conns, Reads(h)
        PROVE  /\ inst'[topic[h].inst].reader = h /\ topic[h].mark <= inst'[topic[h].inst].dirty
               /\ topic[h].pc = "done" => topic[h].val # None
    <3>1. topic[h].inst # i
      BY <1>6, <2>1, TopicAssumption, Ranges
    <3> QED
      BY <1>7, <2>1, <3>1, Ranges DEF Base, Readers
  <2>2. ASSUME NEW j \in Instances
        PROVE  /\ inst'[j].reader \in Conns =>
                    Reads(inst'[j].reader) /\ topic[inst'[j].reader].inst = j
               /\ inst'[j].reader # Manager
    <3>1. CASE j = i
      BY <1>2, <1>6, <3>1, TopicAssumption
    <3>2. CASE j # i
      <4>1. inst'[j].reader = inst[j].reader
        BY <1>7, <3>2
      <4> QED
        BY <3>2, <4>1 DEF Base, Readers, i
    <3> QED
      BY <3>1, <3>2
  <2>3. \A h \in Conns : Reads(h)' <=> Reads(h)
    BY <1>1 DEF Reads
  <2> QED
    BY <1>1, <2>1, <2>2, <2>3 DEF Readers, Reads
<1>11. Subscriptions'
  BY <1>1, <1>8 DEF Base, Subscriptions
<1> QED
  BY <1>4, <1>5, <1>9, <1>10, <1>11 DEF Base

\* After get_source(): what a subscription sends and changes.
FullOf(i) == [kind |-> "full", config |-> inst[i].config, v |-> inst[i].data]

SubscribedTo(i, k) ==
    /\ i \in Instances /\ inst' \in [Instances -> Sources] /\ Elsewhere(i)
    /\ SameSource(i) /\ inst'[i].subs = inst[i].subs \cup {k}
    /\ reg' = Reconciled(i)
    /\ \/ Resident /\ watch' = watch
       \/ /\ ~Resident /\ watch'.tracked = watch.tracked \cup {inst[i].config}
          /\ watch'.requested = watch.requested

LEMMA AttachDoes ==
    ASSUME Base, NEW k \in Conns, Attach(k)
    PROVE  LET i == topic[k].inst IN
           /\ UNCHANGED <<scenario, truth, calls, view, pend>>
           /\ loop = k /\ topic[k].pc = "attach" /\ loop' = None
           /\ topic' \in [Conns -> Rounds] /\ \A h \in Conns : h # k => topic'[h] = topic[h]
           /\ topic'[k].want = topic[k].want /\ topic'[k].dirty = topic[k].dirty
           /\ topic'[k].closed = topic[k].closed
           /\ topic'[k].val = topic[k].val /\ topic'[k].mark = topic[k].mark
           /\ watch' \in Watches /\ SameRefresh
           /\ \/ /\ topic[k].closed \/ topic[k].dirty
                 /\ topic'[k].pc = IF topic[k].closed THEN "idle" ELSE "begin"
                 /\ topic'[k].src = topic[k].src /\ topic'[k].holds = topic[k].holds
                 /\ UNCHANGED <<reg, inst, conn, watch>>
              \/ /\ ~topic[k].closed /\ ~topic[k].dirty /\ topic'[k].src = i
                 /\ topic'[k].pc \in {"send", "idle"}
                 /\ i = None \/ inst[i].data = None =>
                      /\ topic'[k].holds = FALSE
                      /\ ~topic[k].holds => conn' = conn /\ topic'[k].pc = "idle"
                 /\ i # None /\ inst[i].data # None =>
                      /\ topic'[k].holds = TRUE
                      /\ topic'[k].pc = IF Room(conn[k]) THEN "idle" ELSE "send"
                      /\ conn' = [conn EXCEPT ![k] = Enter(@, "round", FullOf(i))]
                 /\ \/ i = None /\ UNCHANGED <<reg, inst, watch>>
                    \/ SubscribedTo(i, k)
<1> DEFINE i == topic[k].inst
<1>1. /\ topic \in [Conns -> Rounds] /\ topic[k] \in Rounds /\ watch \in Watches
      /\ inst \in [Instances -> Sources] /\ topic[k].closed \in BOOLEAN
  BY DEF Base, Types, Rounds
<1>2. /\ UNCHANGED <<scenario, truth, calls, view, pend>>
      /\ loop = k /\ topic[k].pc = "attach" /\ loop' = None
  BY DEF Attach
<1>3. i \in SomeInstance /\ (i # None => i \in Instances /\ inst[i].config \in Configs)
  BY <1>2, Ranges
<1>4. ASSUME NEW r \in Rounds, topic' = [topic EXCEPT ![k] = r],
             r.want = topic[k].want, r.dirty = topic[k].dirty, r.closed = topic[k].closed,
             r.val = topic[k].val, r.mark = topic[k].mark
      PROVE  /\ topic' \in [Conns -> Rounds] /\ \A h \in Conns : h # k => topic'[h] = topic[h]
             /\ topic'[k] = r /\ topic'[k].want = topic[k].want
             /\ topic'[k].dirty = topic[k].dirty /\ topic'[k].closed = topic[k].closed
             /\ topic'[k].val = topic[k].val /\ topic'[k].mark = topic[k].mark
  BY <1>1, <1>4
<1>5. CASE topic[k].closed \/ topic[k].dirty
  <2> DEFINE p == IF topic[k].closed THEN "idle" ELSE "begin"
             r == [topic[k] EXCEPT !.pc = p]
  <2>1. topic' = [topic EXCEPT ![k] = r] /\ UNCHANGED <<reg, inst, conn, watch>>
    BY <1>5 DEF Attach
  <2>2. p \in {"idle", "begin"}
    BY <1>1
  <2> HIDE DEF p
  <2>3. /\ r \in Rounds /\ r.want = topic[k].want /\ r.dirty = topic[k].dirty
        /\ r.closed = topic[k].closed /\ r.val = topic[k].val /\ r.mark = topic[k].mark /\ r.pc = p /\ r.src = topic[k].src
        /\ r.holds = topic[k].holds
    BY <1>1, <2>2 DEF Rounds
  <2> HIDE DEF r
  <2>4. /\ topic' \in [Conns -> Rounds] /\ \A h \in Conns : h # k => topic'[h] = topic[h]
        /\ topic'[k] = r /\ topic'[k].want = topic[k].want
        /\ topic'[k].dirty = topic[k].dirty /\ topic'[k].closed = topic[k].closed
        /\ topic'[k].val = topic[k].val /\ topic'[k].mark = topic[k].mark
    BY <1>4, <2>1, <2>3
  <2>5. watch' \in Watches /\ SameRefresh
    BY <1>1, <2>1 DEF SameRefresh
  <2> QED
    BY <1>2, <1>5, <2>1, <2>3, <2>4, <2>5 DEF p
<1>6. CASE ~topic[k].closed /\ ~topic[k].dirty
  <2> DEFINE data == IF i = None THEN None ELSE inst[i].data
             m == IF data # None THEN [kind |-> "full", config |-> inst[i].config, v |-> data]
                  ELSE [kind |-> "del", config |-> None, v |-> 0]
             sends == data # None \/ topic[k].holds
             p == IF sends /\ ~Room(conn[k]) THEN "send" ELSE "idle"
             holds == data # None
             r == [topic[k] EXCEPT !.src = i, !.holds = holds, !.pc = p]
  <2>1. /\ topic' = [topic EXCEPT ![k].src = i, ![k].holds = holds, ![k].pc = p]
        /\ IF i = None THEN UNCHANGED <<reg, inst, watch>>
           ELSE /\ inst' = Subscribed(i, k) /\ reg' = Reconciled(i)
                /\ watch' = IF Resident THEN watch ELSE Tracked(watch, inst[i].config, TRUE)
    BY <1>6 DEF Attach
  <2>2. data # None => conn' = [conn EXCEPT ![k] = Enter(@, "round", FullOf(i))]
    <3>1. ASSUME data # None PROVE i # None /\ m = FullOf(i) /\ sends
      BY <3>1 DEF FullOf
    <3>2. conn' = IF sends THEN [conn EXCEPT ![k] = Enter(@, "round",
                                   IF data # None
                                   THEN [kind |-> "full", config |-> IF i = None THEN None ELSE inst[i].config,
                                         v |-> data]
                                   ELSE [kind |-> "del", config |-> None, v |-> 0])] ELSE conn
      BY <1>6 DEF Attach
    <3> QED
      BY <3>1, <3>2
  <2>3. ~sends => conn' = conn /\ p = "idle"
    BY <1>6 DEF Attach
  <2>4. topic' = [topic EXCEPT ![k] = r]
    BY <2>1
  <2>5. /\ p \in {"idle", "send"} /\ holds \in BOOLEAN /\ (holds <=> data # None)
        /\ data # None => p = IF Room(conn[k]) THEN "idle" ELSE "send"
    OBVIOUS
  <2>6. sends <=> data # None \/ topic[k].holds
    OBVIOUS
  <2> HIDE DEF p, holds, data, sends
  <2>7. /\ r \in Rounds /\ r.want = topic[k].want /\ r.dirty = topic[k].dirty
        /\ r.closed = topic[k].closed /\ r.val = topic[k].val /\ r.mark = topic[k].mark /\ r.pc = p /\ r.src = i /\ r.holds = holds
    BY <1>1, <1>3, <2>5 DEF Rounds
  <2> HIDE DEF r
  <2>8. /\ topic' \in [Conns -> Rounds] /\ \A h \in Conns : h # k => topic'[h] = topic[h]
        /\ topic'[k] = r /\ topic'[k].want = topic[k].want
        /\ topic'[k].dirty = topic[k].dirty /\ topic'[k].closed = topic[k].closed
        /\ topic'[k].val = topic[k].val /\ topic'[k].mark = topic[k].mark
    BY <1>4, <2>4, <2>7
  <2>9. /\ watch' \in Watches /\ SameRefresh
        /\ (i = None /\ UNCHANGED <<reg, inst, watch>>) \/ SubscribedTo(i, k)
    <3>1. CASE i = None
      BY <1>1, <2>1, <3>1 DEF SameRefresh
    <3>2. CASE i # None
      <4> DEFINE s == [inst[i] EXCEPT !.subs = @ \cup {k}]
      <4>1. i \in Instances /\ inst[i].config \in Configs /\ inst[i] \in Sources
        BY <1>1, <1>3, <3>2
      <4>2. inst' = [inst EXCEPT ![i] = s] /\ reg' = Reconciled(i)
            /\ watch' = IF Resident THEN watch ELSE Tracked(watch, inst[i].config, TRUE)
        BY <2>1, <3>2 DEF Subscribed
      <4>3. /\ s \in Sources /\ s.config = inst[i].config /\ s.data = inst[i].data
            /\ s.fresh = inst[i].fresh /\ s.loaded = inst[i].loaded /\ s.dirty = inst[i].dirty
            /\ s.inbox = inst[i].inbox /\ s.reader = inst[i].reader
            /\ s.subs = inst[i].subs \cup {k}
        BY <4>1 DEF Sources
      <4> HIDE DEF s
      <4>4. inst' \in [Instances -> Sources] /\ inst'[i] = s /\ Elsewhere(i)
        BY <1>1, <4>1, <4>2, <4>3 DEF Elsewhere
      <4> DEFINE c == inst[i].config
      <4>5. /\ watch' \in Watches /\ SameRefresh
            /\ \/ Resident /\ watch' = watch
               \/ /\ ~Resident /\ watch'.tracked = watch.tracked \cup {c}
                  /\ watch'.requested = watch.requested
        <5>1. CASE Resident
          BY <1>1, <4>2, <5>1 DEF SameRefresh
        <5>2. CASE ~Resident
          <6>1. watch' = Tracked(watch, c, TRUE) /\ c \in Configs
            BY <4>1, <4>2, <5>2
          <6> HIDE DEF c
          <6> QED
            BY <1>1, <5>2, <6>1 DEF Tracked, Watches, SameRefresh
        <5> QED
          BY <5>1, <5>2
      <4> QED
        BY <4>1, <4>2, <4>3, <4>4, <4>5 DEF SubscribedTo, SameSource
    <3> QED
      BY <3>1, <3>2
  <2>10. /\ i = None \/ inst[i].data = None =>
              /\ topic'[k].holds = FALSE
              /\ ~topic[k].holds => conn' = conn /\ topic'[k].pc = "idle"
         /\ i # None /\ inst[i].data # None =>
              /\ topic'[k].holds = TRUE
              /\ topic'[k].pc = IF Room(conn[k]) THEN "idle" ELSE "send"
              /\ conn' = [conn EXCEPT ![k] = Enter(@, "round", FullOf(i))]
    <3>1. data = IF i = None THEN None ELSE inst[i].data
      BY DEF data
    <3>2. topic'[k].holds = holds /\ topic'[k].pc = p /\ holds \in BOOLEAN
      BY <2>5, <2>7, <2>8
    <3>3. CASE i = None \/ inst[i].data = None
      <4>1. data = None /\ topic'[k].holds = FALSE
        BY <2>5, <3>1, <3>2, <3>3
      <4> QED
        BY <2>3, <2>6, <3>2, <3>3, <4>1
    <3>4. CASE i # None /\ inst[i].data # None
      <4>1. data # None /\ topic'[k].holds = TRUE
        BY <2>5, <3>1, <3>2, <3>4
      <4> QED
        BY <2>2, <2>5, <3>2, <3>4, <4>1
    <3> QED
      BY <3>3, <3>4
  <2>11. topic'[k].src = i /\ topic'[k].pc \in {"send", "idle"}
    BY <2>5, <2>7, <2>8
  <2> QED
    BY <1>2, <1>6, <2>8, <2>9, <2>10, <2>11
<1> QED
  BY <1>5, <1>6

LEMMA BaseAttach ==
    ASSUME Base, NEW k \in Conns, Attach(k)
    PROVE  Base'
<1> DEFINE i == topic[k].inst
<1>1. /\ UNCHANGED <<truth, calls, pend>> /\ loop = k /\ topic[k].pc = "attach" /\ loop' = None
      /\ topic' \in [Conns -> Rounds] /\ \A h \in Conns : h # k => topic'[h] = topic[h]
      /\ topic'[k].closed = topic[k].closed /\ watch' \in Watches /\ SameRefresh
      /\ topic'[k].pc \in {"idle", "begin", "send"}
      /\ \/ topic'[k].src = topic[k].src /\ UNCHANGED <<reg, inst, watch>>
         \/ ~topic[k].closed /\ topic'[k].src = i /\ i = None /\ UNCHANGED <<reg, inst, watch>>
         \/ ~topic[k].closed /\ topic'[k].src = i /\ SubscribedTo(i, k)
  BY AttachDoes
<1>2. topic[k].src = None /\ \A h \in Conns : topic[h].pc = "attach" => h = k
  BY <1>1 DEF Base, Subscriptions
<1>3. i # None => i \in Instances /\ inst[i].config \in Configs
  BY <1>1, Ranges
<1> HIDE DEF i
<1>4. ~Reads(k) /\ ~Reads(k)' /\ \A h \in Conns : h # k => (Reads(h)' <=> Reads(h))
  BY <1>1 DEF Reads
<1>5. Reports'
  <2>1. \A h \in Conns : topic[h].pc = "read" => topic'[h] = topic[h]
    BY <1>1
  <2> QED
    BY <1>1, <2>1, ReportsKept
<1>6. CASE UNCHANGED <<reg, inst, watch>> /\ topic'[k].src = None
  <2>1. Types'
    BY <1>1, <1>6 DEF Base, Types
  <2>2. References'
    BY <1>1, <1>4, <1>6, ReferencesKept, Ranges DEF Used
  <2>3. Readers'
    BY <1>1, <1>4, <1>6 DEF Base, Readers
  <2>4. Subscriptions'
    BY <1>1, <1>2, <1>6 DEF Base, Subscriptions
  <2> QED
    BY <1>5, <2>1, <2>2, <2>3, <2>4 DEF Base
<1>7. CASE ~topic[k].closed /\ topic'[k].src = i /\ SubscribedTo(i, k)
  <2>1. /\ i \in Instances /\ inst' \in [Instances -> Sources] /\ Elsewhere(i) /\ SameSource(i)
        /\ inst'[i].subs = inst[i].subs \cup {k} /\ reg' = Reconciled(i)
    BY <1>7 DEF SubscribedTo
  <2>2. i # None /\ inst[i].config \in Configs /\ \A c \in Configs : c # None
    BY <1>3, <2>1, TopicAssumption
  <2>3. \A j \in Instances : j # i => inst'[j] = inst[j]
    BY <2>1 DEF Elsewhere
  <2>4. reg \in [Configs -> SomeInstance]
    BY DEF Base, Types
  <2>5. \/ reg' = reg
        \/ reg' = [reg EXCEPT ![inst[i].config] = i]
    BY <2>1 DEF Reconciled, Registered
  <2>6. reg' \in [Configs -> SomeInstance]
        /\ \A c \in Configs : reg'[c] \in {reg[c], i} /\ (reg'[c] # reg[c] => inst[i].config = c)
    BY <2>1, <2>2, <2>4, <2>5 DEF SomeInstance
  <2>7. Types'
    BY <1>1, <2>1, <2>6 DEF Base, Types
  <2>8. \A j \in Instances : inst'[j].config = inst[j].config /\ inst'[j].reader = inst[j].reader
                             /\ inst'[j].dirty = inst[j].dirty
                             /\ (inst'[j].config = None => inst'[j] = inst[j])
    BY <2>1, <2>2, <2>3, TopicAssumption DEF SameSource
  <2>9. References'
    <3>1. \A c \in Configs : reg'[c] # None => inst'[reg'[c]].config = c
      BY <2>1, <2>6, <2>8, Ranges
    <3>2. inst'[topic'[k].src].config # None
      BY <1>7, <2>1, <2>2, <2>8, TopicAssumption
    <3>3. \A h \in Conns : h # k => topic'[h].src = topic[h].src
      BY <1>1
    <3> QED
      BY <1>1, <1>4, <2>8, <3>1, <3>2, <3>3, ReferencesKept DEF SameRefresh
  <2>10. Readers'
    <3>1. \A h \in Conns : Reads(h)' => Reads(h) /\ topic'[h] = topic[h]
      BY <1>1, <1>4
    <3>2. \A h \in Conns : Reads(h) => topic'[h] = topic[h]
      BY <1>1, <1>4
    <3>3. \A j \in Instances :
            /\ inst[j].reader \in Conns => Reads(inst[j].reader) /\ topic[inst[j].reader].inst = j
            /\ inst[j].reader = Manager => watch.inst = j
      BY DEF Base, Readers
    <3>4. \A h \in Conns : Reads(h) => topic[h].inst \in Instances /\ topic[h].mark <= inst[topic[h].inst].dirty
                                       /\ inst[topic[h].inst].reader = h
                                       /\ (topic[h].pc = "done" => topic[h].val # None)
      BY Ranges DEF Base, Readers
    <3>5. watch.inst # None =>
            /\ watch.inst \in Instances /\ inst[watch.inst].reader = Manager
            /\ watch.mark <= inst[watch.inst].dirty
            /\ watch.read => watch.val # None
      BY Ranges DEF Base, Readers
    <3>6. \A j \in Instances : inst'[j].reader \in Conns =>
            Reads(inst'[j].reader) /\ topic'[inst'[j].reader] = topic[inst'[j].reader]
            /\ topic[inst'[j].reader].inst = j
      BY <2>8, <3>2, <3>3
    <3>7. \A h \in Conns : Reads(h)' =>
            /\ inst'[topic'[h].inst].reader = h /\ topic'[h].mark <= inst'[topic'[h].inst].dirty
            /\ topic'[h].pc = "done" => topic'[h].val # None
      BY <2>8, <3>1, <3>4
    <3>8. watch'.inst # None =>
            /\ inst'[watch'.inst].reader = Manager /\ watch'.mark <= inst'[watch'.inst].dirty
            /\ watch'.read => watch'.val # None
      BY <1>1, <2>8, <3>5 DEF SameRefresh
    <3>9. \A j \in Instances :
            /\ inst'[j].reader \in Conns =>
                 /\ topic'[inst'[j].reader].pc \in {"read", "done"}
                 /\ topic'[inst'[j].reader].inst = j
            /\ inst'[j].reader = Manager => watch'.inst = j
      BY <1>1, <2>8, <3>3, <3>6 DEF SameRefresh, Reads
    <3> QED
      BY <3>7, <3>8, <3>9 DEF Readers, Reads
  <2>11. Subscriptions'
    <3>1. \A j \in Instances, h \in Conns : h \in inst'[j].subs <=> topic'[h].src = j
      BY <1>1, <1>2, <1>7, <2>1, <2>2, <2>3, TopicAssumption DEF Base, Subscriptions
    <3>2. \A h \in Conns :
            /\ topic'[h].pc \in {"resolve", "read", "done", "attach"} => topic'[h].src = None
            /\ topic'[h].pc # "attach"
            /\ topic'[h].closed => topic'[h].src = None
      BY <1>1, <1>2, <1>7 DEF Base, Subscriptions
    <3> QED
      BY <3>1, <3>2 DEF Subscriptions
  <2> QED
    BY <1>5, <2>7, <2>9, <2>10, <2>11 DEF Base
<1> QED
  BY <1>1, <1>2, <1>6, <1>7

\* The message a callback of source i puts on its way.
Broadcast(i, full) ==
    IF full # None THEN [kind |-> "full", config |-> inst[i].config, v |-> full]
    ELSE [kind |-> "set", config |-> inst[i].config, v |-> inst[i].inbox[Len(inst[i].inbox)]]

\* A thread has reported back to a round or to the refresh manager, there was nothing to
\* drain, or the viewers of source i get a message.
Answered(k) ==
    /\ topic'[k].pc = "done" /\ topic'[k].inst = topic[k].inst /\ topic'[k].mark = topic[k].mark
    /\ topic'[k].val = topic[k].val /\ topic'[k].src = topic[k].src
    /\ topic'[k].want = topic[k].want /\ topic'[k].dirty = topic[k].dirty
    /\ topic'[k].closed = topic[k].closed /\ topic'[k].holds = topic[k].holds
    /\ \A h \in Conns : h # k => topic'[h] = topic[h]
    /\ UNCHANGED <<inst, conn, watch>>

Informed ==
    /\ watch'.read = TRUE /\ watch'.inst = watch.inst /\ watch'.mark = watch.mark
    /\ watch'.val = watch.val /\ watch'.tracked = watch.tracked
    /\ watch'.requested = watch.requested
    /\ UNCHANGED <<inst, conn, topic>>

Delivered(i, full) ==
    /\ UNCHANGED watch /\ inst' \in [Instances -> Sources] /\ Elsewhere(i)
    /\ SameRefresh
    /\ full = None => inst[i].inbox # <<>> /\ inst'[i].inbox = <<>>
    /\ full # None => inst'[i] = inst[i]
    /\ inst'[i].config = inst[i].config /\ inst'[i].data = inst[i].data
    /\ inst'[i].fresh = inst[i].fresh /\ inst'[i].loaded = inst[i].loaded
    /\ inst'[i].dirty = inst[i].dirty /\ inst'[i].reader = inst[i].reader
    /\ inst'[i].subs = inst[i].subs
    /\ conn' = [k \in Conns |-> IF k \in inst[i].subs THEN Deliver(conn[k], Broadcast(i, full))
                                ELSE conn[k]]
    /\ \A k \in Conns :
         /\ SameRound(k)
         /\ topic'[k].holds <=> topic[k].holds \/ k \in inst[i].subs

LEMMA RunDoes ==
    ASSUME Base, RunCallback
    PROVE  LET i == calls[1].i
               full == calls[1].full
               who == calls[1].who
           IN
           /\ UNCHANGED <<scenario, truth, reg, loop, view, pend>>
           /\ loop = None /\ calls # <<>> /\ calls' = Tail(calls) /\ calls[1] \in Callbacks
           /\ i \in Instances
           /\ topic' \in [Conns -> Rounds] /\ watch' \in Watches
           /\ \/ who \in Conns /\ Answered(who)
              \/ who = Manager /\ Informed
              \/ /\ who = None /\ full = None /\ inst[i].inbox = <<>>
                 /\ UNCHANGED <<inst, conn, topic, watch>>
              \/ who = None /\ Delivered(i, full)
<1> DEFINE r == calls[1]
           i == r.i
           full == r.full
           who == r.who
           m == IF full # None THEN [kind |-> "full", config |-> inst[i].config, v |-> full]
                ELSE [kind |-> "set", config |-> inst[i].config,
                      v |-> inst[i].inbox[Len(inst[i].inbox)]]
<1>1. /\ topic \in [Conns -> Rounds] /\ watch \in Watches /\ inst \in [Instances -> Sources]
      /\ calls \in Seq(Callbacks)
  BY DEF Base, Types
<1>2. /\ UNCHANGED <<scenario, truth, reg, loop, view, pend>>
      /\ loop = None /\ calls # <<>> /\ calls' = Tail(calls)
  BY DEF RunCallback
<1>3. Head(calls) = r /\ r \in Callbacks
  BY <1>1, <1>2, CallsShifted
<1>4. i \in Instances /\ full \in SomeVersion /\ who \in Conns \cup {None, Manager}
  BY <1>3 DEF Callbacks, Tasks
<1>5. IF who # None
        THEN /\ topic' = [k \in Conns |-> IF k = who THEN [topic[k] EXCEPT !.pc = "done"]
                                          ELSE topic[k]]
             /\ watch' = IF who = Manager THEN [watch EXCEPT !.read = TRUE] ELSE watch
             /\ UNCHANGED <<inst, conn>>
      ELSE IF full = None /\ inst[i].inbox = <<>> THEN UNCHANGED <<inst, conn, topic, watch>>
      ELSE /\ UNCHANGED watch
           /\ inst' = IF full = None THEN [inst EXCEPT ![i].inbox = <<>>] ELSE inst
           /\ conn' = [k \in Conns |-> IF k \in inst[i].subs THEN Deliver(conn[k], m)
                                       ELSE conn[k]]
           /\ topic' = [k \in Conns |-> [topic[k] EXCEPT !.holds = @ \/ k \in inst[i].subs]]
  BY <1>3 DEF RunCallback
<1>6. m = Broadcast(i, full)
  BY DEF Broadcast
<1>7. Manager # None /\ Manager \notin Conns /\ None \notin Conns
  BY TopicAssumption
<1> HIDE DEF m, full, who, i, r
<1>8. CASE who \in Conns
  <2> DEFINE q == [topic[who] EXCEPT !.pc = "done"]
  <2>1. /\ topic' = [k \in Conns |-> IF k = who THEN [topic[k] EXCEPT !.pc = "done"]
                                     ELSE topic[k]]
        /\ UNCHANGED <<inst, conn, watch>>
    BY <1>5, <1>7, <1>8
  <2>2. topic' = [k \in Conns |-> IF k = who THEN q ELSE topic[k]]
    BY <2>1
  <2>3. /\ q \in Rounds /\ q.pc = "done" /\ q.inst = topic[who].inst /\ q.mark = topic[who].mark
        /\ q.val = topic[who].val /\ q.src = topic[who].src /\ q.want = topic[who].want
        /\ q.dirty = topic[who].dirty /\ q.closed = topic[who].closed
        /\ q.holds = topic[who].holds
    BY <1>1, <1>8 DEF Rounds
  <2> HIDE DEF q
  <2>4. topic' \in [Conns -> Rounds] /\ topic'[who] = q
        /\ \A h \in Conns : h # who => topic'[h] = topic[h]
    BY <1>1, <1>8, <2>2, <2>3
  <2>5. Answered(who)
    BY <2>1, <2>3, <2>4 DEF Answered
  <2> QED
    BY <1>1, <1>2, <1>3, <1>4, <1>8, <2>1, <2>4, <2>5 DEF i, full, who, r
<1>9. CASE who = Manager
  <2>1. /\ topic' = [k \in Conns |-> topic[k]] /\ watch' = [watch EXCEPT !.read = TRUE]
        /\ UNCHANGED <<inst, conn>>
    BY <1>5, <1>7, <1>9
  <2>2. topic' = topic
    BY <1>1, <2>1
  <2>3. /\ watch' \in Watches /\ watch'.read = TRUE /\ watch'.inst = watch.inst
        /\ watch'.mark = watch.mark /\ watch'.val = watch.val
        /\ watch'.tracked = watch.tracked /\ watch'.requested = watch.requested
    BY <1>1, <2>1 DEF Watches
  <2>4. Informed
    BY <2>1, <2>2, <2>3 DEF Informed
  <2> QED
    BY <1>1, <1>2, <1>3, <1>4, <1>9, <2>2, <2>3, <2>4 DEF i, full, who, r
<1>10. CASE who = None /\ full = None /\ inst[i].inbox = <<>>
  <2>1. UNCHANGED <<inst, conn, topic, watch>>
    BY <1>5, <1>10
  <2> QED
    BY <1>1, <1>2, <1>3, <1>4, <1>10, <2>1 DEF i, full, who, r
<1>11. CASE who = None /\ ~(full = None /\ inst[i].inbox = <<>>)
  <2>1. /\ UNCHANGED watch
        /\ inst' = IF full = None THEN [inst EXCEPT ![i].inbox = <<>>] ELSE inst
        /\ conn' = [k \in Conns |-> IF k \in inst[i].subs THEN Deliver(conn[k], m)
                                    ELSE conn[k]]
        /\ topic' = [k \in Conns |-> [topic[k] EXCEPT !.holds = @ \/ k \in inst[i].subs]]
    BY <1>5, <1>11
  <2>2. /\ inst' \in [Instances -> Sources] /\ Elsewhere(i)
        /\ full = None => inst'[i].inbox = <<>>
        /\ full # None => inst'[i] = inst[i]
        /\ inst'[i].config = inst[i].config /\ inst'[i].data = inst[i].data
        /\ inst'[i].fresh = inst[i].fresh /\ inst'[i].loaded = inst[i].loaded
        /\ inst'[i].dirty = inst[i].dirty /\ inst'[i].reader = inst[i].reader
        /\ inst'[i].subs = inst[i].subs
    <3>1. CASE full # None
      BY <1>1, <1>4, <2>1, <3>1 DEF Elsewhere
    <3>2. CASE full = None
      <4> DEFINE s == [inst[i] EXCEPT !.inbox = <<>>]
      <4>1. inst' = [inst EXCEPT ![i] = s]
        BY <2>1, <3>2
      <4>2. inst[i] \in Sources
        BY <1>1, <1>4
      <4>3. <<>> \in Seq(Nat)
        OBVIOUS
      <4>4. /\ s \in Sources /\ s.inbox = <<>> /\ s.config = inst[i].config
            /\ s.data = inst[i].data /\ s.fresh = inst[i].fresh /\ s.loaded = inst[i].loaded
            /\ s.dirty = inst[i].dirty /\ s.reader = inst[i].reader /\ s.subs = inst[i].subs
        BY <4>2, <4>3 DEF Sources
      <4> HIDE DEF s
      <4>5. inst' \in [Instances -> Sources] /\ inst'[i] = s /\ Elsewhere(i)
        BY <1>1, <1>4, <4>1, <4>4 DEF Elsewhere
      <4> QED
        BY <3>2, <4>4, <4>5
    <3> QED
      BY <3>1, <3>2
  <2>3. ASSUME NEW k \in Conns
        PROVE  /\ topic'[k] \in Rounds /\ SameRound(k)
               /\ topic'[k].holds <=> topic[k].holds \/ k \in inst[i].subs
    <3> DEFINE b == topic[k].holds \/ k \in inst[i].subs
               q == [topic[k] EXCEPT !.holds = b]
    <3>1. topic'[k] = q /\ b \in BOOLEAN
      BY <1>1, <2>1
    <3> HIDE DEF b
    <3>2. /\ q \in Rounds /\ q.pc = topic[k].pc /\ q.inst = topic[k].inst /\ q.mark = topic[k].mark
          /\ q.val = topic[k].val /\ q.src = topic[k].src /\ q.want = topic[k].want
          /\ q.dirty = topic[k].dirty /\ q.closed = topic[k].closed /\ q.holds = b
      BY SMTT(30), <1>1, <3>1 DEF Rounds
    <3> HIDE DEF q
    <3> QED
      BY <3>1, <3>2 DEF SameRound, b
  <2>4. topic' \in [Conns -> Rounds]
    BY <2>1, <2>3
  <2>5. full = None => inst[i].inbox # <<>>
    BY <1>11
  <2>6. Delivered(i, full)
    BY <1>6, <2>1, <2>2, <2>3, <2>5 DEF Delivered, SameRefresh
  <2> QED
    BY <1>1, <1>2, <1>3, <1>4, <1>11, <2>1, <2>4, <2>6 DEF i, full, who, r
<1> QED
  BY <1>4, <1>8, <1>9, <1>10, <1>11

LEMMA BaseRunCallback ==
    ASSUME Base, RunCallback
    PROVE  Base'
<1> DEFINE i == calls[1].i
           full == calls[1].full
           who == calls[1].who
<1>1. /\ UNCHANGED <<truth, reg, loop, pend>> /\ loop = None
      /\ calls # <<>> /\ calls' = Tail(calls) /\ i \in Instances
      /\ topic' \in [Conns -> Rounds] /\ watch' \in Watches
  BY RunDoes
<1>2. calls \in Seq(Callbacks)
  BY DEF Base, Types
<1>3. /\ calls' \in Seq(Callbacks) /\ 1 \in 1..Len(calls)
      /\ \A n \in 1..Len(calls') : n + 1 \in 1..Len(calls) /\ calls'[n] = calls[n + 1]
      /\ \A n \in 1..Len(calls') : n \in Nat /\ n >= 1
  BY <1>1, <1>2, CallsShifted
<1>4. Reports
  BY DEF Base
<1>5. \A m, n \in 1..Len(calls') : calls'[m].who = calls'[n].who /\ calls'[m].who # None => m = n
  <2>1. ASSUME NEW m \in 1..Len(calls'), NEW n \in 1..Len(calls'),
               calls'[m].who = calls'[n].who, calls'[m].who # None
        PROVE  m = n
    <3>1. m + 1 = n + 1
      BY <1>3, <1>4, <2>1 DEF Reports
    <3>2. m \in Nat /\ n \in Nat
      BY <1>3
    <3> QED
      BY <3>1, <3>2
  <2> QED
    BY <2>1
<1>6. ASSUME NEW n \in 1..Len(calls')
      PROVE  /\ calls'[n] = calls[n + 1] /\ n + 1 \in 1..Len(calls)
             /\ who # None => calls'[n].who # who
  <2>1. n + 1 # 1
    BY <1>3
  <2> QED
    BY <1>3, <1>4, <2>1 DEF Reports
<1>7. inst \in [Instances -> Sources]
  BY DEF Base, Types
<1>8. CASE who \in Conns /\ Answered(who)
  <2>1. /\ topic'[who].pc = "done" /\ topic'[who].inst = topic[who].inst
        /\ topic'[who].mark = topic[who].mark /\ topic'[who].val = topic[who].val
        /\ topic'[who].src = topic[who].src /\ topic'[who].closed = topic[who].closed
        /\ \A h \in Conns : h # who => topic'[h] = topic[h]
        /\ UNCHANGED <<inst, watch>>
    BY <1>8 DEF Answered
  <2>2. topic[who].pc = "read" /\ topic[who].val # None
    BY <1>3, <1>4, <1>8 DEF Reports
  <2> HIDE DEF who
  <2>3. Types'
    BY <1>1, <1>3, <1>7, <2>1 DEF Base, Types
  <2>4. \A h \in Conns : /\ Reads(h)' <=> Reads(h)
                         /\ topic'[h].inst = topic[h].inst /\ topic'[h].mark = topic[h].mark
                         /\ topic'[h].val = topic[h].val /\ topic'[h].src = topic[h].src
                         /\ topic'[h].closed = topic[h].closed
                         /\ h # who => topic'[h].pc = topic[h].pc
    BY <2>1, <2>2 DEF Reads
  <2>5. References'
    <3>1. Reads(who)
      BY <2>2 DEF Reads
    <3>2. inst'[topic'[who].inst].config # None /\ topic'[who].inst # None
      BY <1>8, <2>1, <3>1, Ranges
    <3> QED
      BY <1>1, <2>1, <2>4, <3>2, ReferencesKept, Ranges DEF Used
  <2>6. Readers'
    <3>1. \A h \in Conns : topic'[h].pc = "done" => topic'[h].val # None
      BY <2>1, <2>2, <2>4 DEF Base, Readers, Reads
    <3> QED
      BY <2>1, <2>4, <3>1 DEF Base, Readers
  <2>7. Reports'
    <3>1. ASSUME NEW n \in 1..Len(calls')
          PROVE  /\ calls'[n].who \in Conns =>
                      topic'[calls'[n].who].pc = "read" /\ topic'[calls'[n].who].val # None
                 /\ calls'[n].who = Manager => watch'.inst # None /\ ~watch'.read /\ watch'.val # None
                 /\ calls'[n].who # None => calls'[n].full = None
      BY <1>4, <1>6, <1>8, <2>1, <2>4, TopicAssumption DEF Reports
    <3> QED
      BY <1>5, <3>1 DEF Reports
  <2>8. Subscriptions'
    BY <1>1, <1>8, <2>1, <2>2, <2>4 DEF Base, Subscriptions
  <2> QED
    BY <2>3, <2>5, <2>6, <2>7, <2>8 DEF Base
<1>9. CASE who = Manager /\ Informed
  <2>1. /\ watch'.read = TRUE /\ watch'.inst = watch.inst /\ watch'.mark = watch.mark
        /\ watch'.val = watch.val /\ UNCHANGED <<inst, topic>>
    BY <1>9 DEF Informed
  <2>2. watch.inst # None /\ watch.val # None
    BY <1>3, <1>4, <1>9 DEF Reports
  <2> HIDE DEF who
  <2>3. Types'
    BY <1>1, <1>3, <1>7, <2>1 DEF Base, Types
  <2>4. References'
    BY <1>1, <2>1, ReferencesKept, Ranges DEF Used
  <2>5. Readers'
    BY <2>1, <2>2 DEF Base, Readers, Reads
  <2>6. Reports'
    <3>1. ASSUME NEW n \in 1..Len(calls')
          PROVE  /\ calls'[n].who \in Conns =>
                      topic'[calls'[n].who].pc = "read" /\ topic'[calls'[n].who].val # None
                 /\ calls'[n].who # Manager
                 /\ calls'[n].who # None => calls'[n].full = None
      BY <1>4, <1>6, <1>9, <2>1, TopicAssumption DEF Reports
    <3> QED
      BY <1>5, <3>1 DEF Reports
  <2>7. Subscriptions'
    BY <1>1, <2>1 DEF Base, Subscriptions
  <2> QED
    BY <2>3, <2>4, <2>5, <2>6, <2>7 DEF Base
<1>10. ASSUME SameRefresh, inst' \in [Instances -> Sources],
              \A j \in Instances :
                /\ inst'[j].config = inst[j].config /\ inst'[j].reader = inst[j].reader
                /\ inst'[j].dirty = inst[j].dirty /\ inst'[j].subs = inst[j].subs
                /\ inst'[j].config = None => inst'[j] = inst[j],
              \A h \in Conns : SameRound(h)
       PROVE  Base'
  <2> HIDE DEF who, i
  <2>1. Types'
    BY <1>1, <1>3, <1>10 DEF Base, Types
  <2>2. \A h \in Conns : /\ Reads(h)' <=> Reads(h)
                         /\ topic'[h].inst = topic[h].inst /\ topic'[h].mark = topic[h].mark
                         /\ topic'[h].val = topic[h].val /\ topic'[h].src = topic[h].src
                         /\ topic'[h].closed = topic[h].closed /\ topic'[h].pc = topic[h].pc
    BY <1>10 DEF Reads, SameRound
  <2>3. References'
    <3>1. \A c \in Configs : reg'[c] # None => inst'[reg'[c]].config = c
      BY <1>1, <1>10, Ranges
    <3> QED
      BY <1>1, <1>10, <2>2, <3>1, ReferencesKept DEF SameRefresh
  <2>4. Readers'
    <3>1. \A j \in Instances :
            /\ inst[j].reader \in Conns => Reads(inst[j].reader) /\ topic[inst[j].reader].inst = j
            /\ inst[j].reader = Manager => watch.inst = j
      BY DEF Base, Readers
    <3>2. \A h \in Conns : Reads(h) => topic[h].inst \in Instances /\ topic[h].mark <= inst[topic[h].inst].dirty
                                       /\ inst[topic[h].inst].reader = h
                                       /\ (topic[h].pc = "done" => topic[h].val # None)
      BY Ranges DEF Base, Readers
    <3>3. watch.inst # None =>
            /\ watch.inst \in Instances /\ inst[watch.inst].reader = Manager
            /\ watch.mark <= inst[watch.inst].dirty
            /\ watch.read => watch.val # None
      BY Ranges DEF Base, Readers
    <3>4. \A h \in Conns : Reads(h)' =>
            /\ inst'[topic'[h].inst].reader = h /\ topic'[h].mark <= inst'[topic'[h].inst].dirty
            /\ topic'[h].pc = "done" => topic'[h].val # None
      BY <1>10, <2>2, <3>2
    <3>5. watch'.inst # None =>
            /\ inst'[watch'.inst].reader = Manager /\ watch'.mark <= inst'[watch'.inst].dirty
            /\ watch'.read => watch'.val # None
      BY <1>10, <3>3 DEF SameRefresh
    <3>6. \A j \in Instances :
            /\ inst'[j].reader \in Conns =>
                 /\ topic'[inst'[j].reader].pc \in {"read", "done"}
                 /\ topic'[inst'[j].reader].inst = j
            /\ inst'[j].reader = Manager => watch'.inst = j
      BY <1>10, <2>2, <3>1 DEF SameRefresh, Reads
    <3> QED
      BY <3>4, <3>5, <3>6 DEF Readers, Reads
  <2>5. Reports'
    <3>1. ASSUME NEW n \in 1..Len(calls')
          PROVE  /\ calls'[n].who \in Conns =>
                      topic'[calls'[n].who].pc = "read" /\ topic'[calls'[n].who].val # None
                 /\ calls'[n].who = Manager => watch'.inst # None /\ ~watch'.read /\ watch'.val # None
                 /\ calls'[n].who # None => calls'[n].full = None
      BY <1>4, <1>6, <1>10, <2>2 DEF Reports, SameRefresh
    <3> QED
      BY <1>5, <3>1 DEF Reports
  <2>6. Subscriptions'
    BY <1>1, <1>10, <2>2 DEF Base, Subscriptions
  <2> QED
    BY <2>1, <2>3, <2>4, <2>5, <2>6 DEF Base
<1>11. CASE UNCHANGED <<inst, topic, watch>>
  BY <1>7, <1>10, <1>11 DEF SameRefresh, SameRound
<1>12. CASE Delivered(i, full)
  <2>1. /\ inst' \in [Instances -> Sources] /\ Elsewhere(i) /\ SameRefresh
        /\ full # None => inst'[i] = inst[i]
        /\ inst'[i].config = inst[i].config /\ inst'[i].dirty = inst[i].dirty
        /\ inst'[i].reader = inst[i].reader /\ inst'[i].subs = inst[i].subs
        /\ full = None => inst[i].inbox # <<>>
        /\ \A h \in Conns : SameRound(h)
    BY <1>12 DEF Delivered
  <2>2. \A j \in Instances : j # i => inst'[j] = inst[j]
    BY <2>1 DEF Elsewhere
  <2>3. inst[i].config # None \/ full # None
    <3>1. inst[i].config = None => inst[i] = Blank
      BY <1>1, Ranges
    <3>2. Blank.inbox = <<>>
      BY DEF Blank
    <3> QED
      BY <2>1, <3>1, <3>2
  <2> QED
    BY <1>10, <2>1, <2>2, <2>3
<1> QED
  BY <1>8, <1>9, <1>11, <1>12, RunDoes

LEMMA InitBase ==
    ASSUME Init
    PROVE  Base
<1>1. Types
  <2>1. Blank \in Sources
    <3>1. <<>> \in Seq(Nat)
      OBVIOUS
    <3> QED
      BY <3>1 DEF Blank, Sources, SomeVersion, Tasks
  <2>2. [pc |-> "idle", want |-> None, src |-> None, inst |-> None, mark |-> 0, val |-> None,
         dirty |-> FALSE, closed |-> FALSE, holds |-> FALSE] \in Rounds
    BY DEF Rounds, SomeInstance, SomeVersion
  <2>3. [tracked |-> {}, requested |-> {}, inst |-> None, val |-> None, read |-> FALSE,
         mark |-> 0] \in Watches
    BY DEF Watches, SomeInstance, SomeVersion
  <2>4. <<>> \in Seq(Callbacks)
    OBVIOUS
  <2> QED
    BY <2>1, <2>2, <2>3, <2>4 DEF Init, Types, SomeInstance
<1>2. /\ \A i \in Instances : inst[i].config = None /\ inst[i].subs = {} /\ inst[i].reader = None
      /\ \A i \in Instances : inst[i] = Blank
  BY DEF Init, Blank
<1>3. /\ \A k \in Conns : topic[k].pc = "idle" /\ topic[k].src = None /\ topic[k].inst = None
      /\ watch.inst = None /\ pend = None /\ calls = <<>> /\ \A c \in Configs : reg[c] = None
  BY DEF Init
<1>4. References /\ Readers
  BY <1>2, <1>3, TopicAssumption DEF References, Readers, Used, Reads
<1>5. Reports
  BY <1>3 DEF Reports
<1>6. Subscriptions
  BY <1>2, <1>3, TopicAssumption DEF Subscriptions
<1> QED
  BY <1>1, <1>4, <1>5, <1>6 DEF Base

-----------------------------------------------------------------------------
(* Every behaviour keeps it.                                               *)

LEMMA BaseStep ==
    ASSUME Base, [Next]_vars
    PROVE  Base'
<1>1. CASE UNCHANGED vars
  BY <1>1, BaseMoves
<1>2. CASE RunCallback
  BY <1>2, BaseRunCallback
<1>3. CASE FollowUp
  BY <1>3, BaseFollowUp
<1>4. CASE RefreshReads
  BY <1>4, BaseRefreshReads
<1>5. CASE RefreshDone
  BY <1>5, BaseRefreshDone
<1>6. ASSUME NEW k \in Conns, OutboxSend(k) \/ Take(k) \/ Navigate(k) \/ Sent(k)
      PROVE  Base'
  BY <1>6, BaseMoves
<1>7. ASSUME NEW k \in Conns, Begin(k) PROVE Base'
  BY <1>7, BaseBegin
<1>8. ASSUME NEW k \in Conns, Resolve(k) PROVE Base'
  BY <1>8, BaseResolve
<1>9. ASSUME NEW k \in Conns, ReadDisk(k) PROVE Base'
  BY <1>9, BaseReadDisk
<1>10. ASSUME NEW k \in Conns, ReadDone(k) PROVE Base'
  BY <1>10, BaseReadDone
<1>11. ASSUME NEW k \in Conns, Attach(k) PROVE Base'
  BY <1>11, BaseAttach
<1>12. ASSUME NEW k \in Conns, Close(k) PROVE Base'
  BY <1>12, BaseClose
<1>13. ASSUME NEW c \in Configs, WorkerPush(c) PROVE Base'
  BY <1>13, BaseWorkerPush
<1>14. ASSUME NEW c \in Configs, Save(c) PROVE Base'
  BY <1>14, BaseSave
<1>15. ASSUME NEW c \in Configs, Collect(c) PROVE Base'
  BY <1>15, BaseCollect
<1>16. ASSUME NEW c \in Configs, Refresh(c) PROVE Base'
  BY <1>16, BaseRefresh
<1>17. ASSUME NEW i \in Instances, Expire(i) PROVE Base'
  BY <1>17, BaseExpire
<1> QED
  BY <1>1, <1>2, <1>3, <1>4, <1>5, <1>6, <1>7, <1>8, <1>9, <1>10, <1>11, <1>12, <1>13,
     <1>14, <1>15, <1>16, <1>17 DEF Next

\* One task reads a source at a time, a thread reports back once, and topic and source
\* agree about who is subscribed.
THEOREM BaseInvariance == Spec => []Base
<1>1. Init => Base
  BY InitBase
<1>2. Base /\ [Next]_vars => Base'
  BY BaseStep
<1> QED
  BY <1>1, <1>2, PTL DEF Spec

-----------------------------------------------------------------------------
(* The registry, while no source is collected.                             *)

Kept ==
    /\ "expire" \notin scenario => \A i \in Instances : Used(i) => reg[inst[i].config] = i
    /\ pend # None /\ pend.kind = "push" => "event" \in scenario

SameConfigs == \A i \in Instances : inst'[i].config = inst[i].config

\* What a step does to the registry, and who may be left between two locks.
Registers ==
    \/ reg' = reg /\ SameConfigs
    \/ \E c \in Configs, i \in Instances :
         Found(i, c) /\ Elsewhere(i) /\ reg' = [reg EXCEPT ![c] = i] /\ inst'[i].config = c
    \/ \E i \in Instances : inst[i].config \in Configs /\ reg' = Reconciled(i) /\ SameConfigs
    \/ "expire" \in scenario /\ SameConfigs

Leaves == pend' = pend \/ pend' = None \/ pend'.kind = "save" \/ "event" \in scenario

LEMMA RegistryMoves ==
    ASSUME Base, [Next]_vars
    PROVE  scenario' = scenario /\ Registers /\ Leaves
<1> DEFINE Goal == scenario' = scenario /\ Registers /\ Leaves
<1>1. ASSUME UNCHANGED <<scenario, reg, inst, pend>> PROVE Goal
  BY <1>1 DEF Registers, Leaves, SameConfigs
<1>2. CASE UNCHANGED vars
  BY <1>1, <1>2 DEF vars
<1>3. CASE RunCallback
  <2>1. SameConfigs
    BY <1>3, RunDoes DEF SameConfigs, Answered, Informed, Delivered, Elsewhere
  <2> QED
    BY <1>3, <2>1 DEF RunCallback, Registers, Leaves
<1>4. CASE FollowUp
  <2>1. SameConfigs
    <3>1. inst[pend.inst] \in Sources
      BY <1>4, FollowUpDoes, Ranges
    <3>2. [inst[pend.inst] EXCEPT !.dirty = @ + 1].config = inst[pend.inst].config
      BY <3>1 DEF Sources
    <3> QED
      BY <1>4, <3>2, FollowUpDoes DEF SameConfigs, Elsewhere
  <2> QED
    BY <1>4, <2>1 DEF FollowUp, Registers, Leaves
<1>5. CASE RefreshReads
  BY <1>1, <1>5 DEF RefreshReads
<1>6. CASE RefreshDone
  <2>1. SameConfigs
    BY <1>6, RefreshDoneDoes DEF SameConfigs, Published, Elsewhere
  <2> QED
    BY <1>6, <2>1 DEF RefreshDone, Registers, Leaves
<1>7. ASSUME NEW k \in Conns, OutboxSend(k) \/ Take(k) \/ Navigate(k) \/ Sent(k) \/ ReadDisk(k)
      PROVE  Goal
  BY <1>1, <1>7 DEF OutboxSend, Take, Navigate, Sent, ReadDisk
<1>8. ASSUME NEW k \in Conns, Begin(k) PROVE Goal
  <2>1. SameConfigs
    BY <1>8, BeginDoes, LeftDoes DEF Base, SameConfigs, SameSource
  <2> QED
    BY <1>8, <2>1 DEF Begin, Registers, Leaves
<1>9. ASSUME NEW k \in Conns, Close(k) PROVE Goal
  <2>1. SameConfigs
    BY <1>9, CloseDoes, LeftDoes DEF Base, SameConfigs, SameSource
  <2> QED
    BY <1>9, <2>1 DEF Close, Registers, Leaves
<1>10. ASSUME NEW k \in Conns, Resolve(k) PROVE Goal
  <2>1. scenario' = scenario /\ Leaves
    BY <1>10 DEF Resolve, Leaves
  <2>2. CASE ResolvedToNone(k)
    BY <2>1, <2>2 DEF ResolvedToNone, Registers, SameConfigs
  <2>3. ASSUME NEW i \in Instances, Resolved(i, k) PROVE Goal
    BY <2>1, <2>3 DEF Resolved, Registers
  <2> QED
    BY <1>10, <2>2, <2>3, ResolveDoes
<1>11. ASSUME NEW k \in Conns, ReadDone(k) PROVE Goal
  <2>1. SameConfigs
    BY <1>11, ReadDoneDoes DEF SameConfigs, Published, Elsewhere
  <2> QED
    BY <1>11, <2>1 DEF ReadDone, Registers, Leaves
<1>12. ASSUME NEW k \in Conns, Attach(k) PROVE Goal
  <2>1. scenario' = scenario /\ Leaves
    BY <1>12 DEF Attach, Leaves
  <2>2. CASE UNCHANGED <<reg, inst>>
    BY <2>1, <2>2 DEF Registers, SameConfigs
  <2>3. CASE SubscribedTo(topic[k].inst, k)
    <3> DEFINE i == topic[k].inst
    <3>1. i \in Instances /\ inst[i].config \in Configs
      BY <1>12, <2>3, Ranges DEF SubscribedTo, Attach
    <3>2. SameConfigs /\ reg' = Reconciled(i)
      BY <2>3 DEF SubscribedTo, SameConfigs, SameSource, Elsewhere
    <3> HIDE DEF i
    <3> QED
      BY <2>1, <3>1, <3>2 DEF Registers
  <2> QED
    BY <1>12, <2>2, <2>3, AttachDoes
<1>13. ASSUME NEW c \in Configs, WorkerPush(c) PROVE Goal
  <2>1. "event" \in scenario /\ scenario' = scenario
    BY <1>13, PushDoes
  <2>2. PICK i \in Instances : Pushed(i, c)
    BY <1>13, PushDoes
  <2>3. Registers
    BY <2>2 DEF Registers, Pushed
  <2> QED
    BY <2>1, <2>3 DEF Leaves
<1>14. ASSUME NEW c \in Configs, Save(c) PROVE Goal
  <2>1. scenario' = scenario
    BY <1>14, SaveDoes
  <2>2. PICK i \in Instances :
          /\ Found(i, c) /\ Elsewhere(i) /\ inst'[i] = [inst[i] EXCEPT !.config = c]
          /\ reg' = [reg EXCEPT ![c] = i] /\ pend'.kind = "save"
    BY <1>14, SaveDoes
  <2>3. inst'[i].config = c
    BY <2>2, Ranges DEF Sources
  <2> QED
    BY <2>1, <2>2, <2>3 DEF Leaves, Registers
<1>15. ASSUME NEW c \in Configs, Collect(c) PROVE Goal
  BY <1>15 DEF Collect, Registers, Leaves, SameConfigs
<1>16. ASSUME NEW c \in Configs, Refresh(c) PROVE Goal
  <2>1. scenario' = scenario /\ Leaves
    BY <1>16 DEF Refresh, Leaves
  <2>2. Registers
    BY <1>16, RefreshDoes DEF Registers, Refreshed
  <2> QED
    BY <2>1, <2>2
<1>17. ASSUME NEW i \in Instances, Expire(i) PROVE Goal
  <2>1. inst'[i] = [inst[i] EXCEPT !.fresh = FALSE] /\ Elsewhere(i) /\ inst[i] \in Sources
    BY <1>17, ExpireDoes, Ranges
  <2>2. inst'[i].config = inst[i].config
    BY <2>1 DEF Sources
  <2>3. SameConfigs
    BY <2>1, <2>2 DEF SameConfigs, Elsewhere
  <2> QED
    BY <1>17, <2>3 DEF Expire, Registers, Leaves
<1> QED
  BY <1>2, <1>3, <1>4, <1>5, <1>6, <1>7, <1>8, <1>9, <1>10, <1>11, <1>12, <1>13,
     <1>14, <1>15, <1>16, <1>17 DEF Next

\* A source belongs to one config for good.
LEMMA ConfigsKept ==
    ASSUME Base, [Next]_vars
    PROVE  \A j \in Instances : inst[j].config # None => inst'[j].config = inst[j].config
<1>1. Registers
  BY RegistryMoves
<1>2. CASE SameConfigs
  BY <1>2 DEF SameConfigs
<1>3. ASSUME NEW c \in Configs, NEW i \in Instances, Found(i, c), Elsewhere(i),
             reg' = [reg EXCEPT ![c] = i], inst'[i].config = c
      PROVE  \A j \in Instances : inst[j].config # None => inst'[j].config = inst[j].config
  BY <1>3, FoundRegistered DEF Used
<1> QED
  BY <1>1, <1>2, <1>3 DEF Registers

LEMMA KeptStep ==
    ASSUME Base, Base', Kept, [Next]_vars
    PROVE  Kept'
<1>1. scenario' = scenario /\ Registers /\ Leaves
  BY RegistryMoves
<1>2. pend' # None /\ pend'.kind = "push" => "event" \in scenario
  BY <1>1 DEF Kept, Leaves
<1>3. ASSUME "expire" \notin scenario, NEW j \in Instances, inst'[j].config # None
      PROVE  reg'[inst'[j].config] = j
  <2>1. \A i \in Instances : inst[i].config # None =>
          inst[i].config \in Configs /\ reg[inst[i].config] = i
    BY <1>3, Ranges DEF Kept, Used
  <2>2. reg \in [Configs -> SomeInstance] /\ j # None
    BY TopicAssumption DEF Base, Types
  <2>3. CASE reg' = reg /\ SameConfigs
    BY <1>3, <2>1, <2>3 DEF SameConfigs
  <2>4. ASSUME NEW c \in Configs, NEW i \in Instances, Found(i, c), Elsewhere(i),
               reg' = [reg EXCEPT ![c] = i], inst'[i].config = c
        PROVE  reg'[inst'[j].config] = j
    <3>1. CASE j = i
      BY <2>2, <2>4, <3>1
    <3>2. CASE j # i
      <4>1. inst'[j] = inst[j] /\ inst[j].config \in Configs /\ reg[inst[j].config] = j
        BY <1>3, <2>1, <2>4, <3>2 DEF Elsewhere
      <4>2. inst[j].config # c
        BY <2>2, <2>4, <3>2, <4>1 DEF Found
      <4> QED
        BY <2>2, <2>4, <4>1, <4>2
    <3> QED
      BY <3>1, <3>2
  <2>5. ASSUME NEW i \in Instances, inst[i].config \in Configs, reg' = Reconciled(i), SameConfigs
        PROVE  reg'[inst'[j].config] = j
    <3>1. reg[inst[i].config] = i /\ i # None
      BY <2>1, <2>5, TopicAssumption
    <3>2. reg' = reg
      BY <2>5, <3>1 DEF Reconciled
    <3> QED
      BY <1>3, <2>1, <2>5, <3>2 DEF SameConfigs
  <2> QED
    BY <1>1, <1>3, <2>3, <2>4, <2>5 DEF Registers
<1> QED
  BY <1>1, <1>2, <1>3 DEF Kept, Used

LEMMA InitKept ==
    ASSUME Init
    PROVE  Kept
  BY DEF Init, Kept, Used, Blank
-----------------------------------------------------------------------------
(* The tracking of viewed configs.                                         *)

Watching == scenario \cap {"resident", "event", "expire"} = {}

\* Whoever looks at the config of a source without viewers looks at no source at all.
LEMMA NobodyElse ==
    ASSUME Base', Kept', "expire" \notin scenario', NEW i \in Instances,
           inst'[i].config # None, inst'[i].subs = {}, NEW k \in Conns, topic'[k].src # None
    PROVE  inst'[topic'[k].src].config # inst'[i].config
<1>1. topic'[k].src \in Instances /\ inst'[topic'[k].src].config # None
  BY DEF Base, Types, Rounds, SomeInstance, References, Used
<1>2. k \in inst'[topic'[k].src].subs
  BY <1>1 DEF Base, Subscriptions
<1> QED
  BY <1>1, <1>2 DEF Kept, Used

\* A config loses its tracking only with its last viewer.
LEMMA TrackingMoves ==
    ASSUME Base, Base', Kept', WatchedIsTracked, scenario' = scenario, Watching,
           \A h \in Conns : topic'[h].src # None =>
             \/ topic'[h].src = topic[h].src
             \/ inst'[topic'[h].src].config \in watch'.tracked,
           \A j \in Instances : Used(j) => inst'[j].config = inst[j].config,
           \/ watch.tracked \subseteq watch'.tracked
           \/ \E i \in Instances :
                /\ inst'[i].config # None /\ inst'[i].subs = {}
                /\ watch.tracked \subseteq watch'.tracked \cup {inst'[i].config}
    PROVE  WatchedIsTracked'
<1> SUFFICES ASSUME NEW k \in Conns, topic'[k].src # None
             PROVE  inst'[topic'[k].src].config \in watch'.tracked
  BY DEF WatchedIsTracked
<1>1. "expire" \notin scenario'
  BY DEF Watching
<1>2. CASE topic'[k].src = topic[k].src
  <2>1. /\ topic[k].src \in Instances /\ Used(topic[k].src)
    BY <1>2, Ranges DEF SomeInstance, Base, References
  <2>2. inst'[topic'[k].src].config \in watch.tracked
    BY <1>2, <2>1 DEF WatchedIsTracked, Watching
  <2> QED
    BY <1>1, <2>2, NobodyElse
<1> QED
  BY <1>2

LEMMA TrackingStep ==
    ASSUME Base, Base', Kept, Kept', WatchedIsTracked, [Next]_vars
    PROVE  WatchedIsTracked'
<1>1. scenario' = scenario
  BY RegistryMoves
<1>2. CASE ~Watching
  BY <1>1, <1>2 DEF Watching, WatchedIsTracked
<1> SUFFICES ASSUME Watching PROVE WatchedIsTracked'
  BY <1>2
<1>3. ~Resident /\ "event" \notin scenario /\ "expire" \notin scenario
  BY DEF Watching, Resident
\* Nobody begins to look at a source, and the tracking is left alone.
<1>4. ASSUME \A h \in Conns : topic'[h].src \in {topic[h].src, None},
             \A j \in Instances : Used(j) => inst'[j].config = inst[j].config,
             watch.tracked \subseteq watch'.tracked
      PROVE  WatchedIsTracked'
  BY <1>1, <1>4, TrackingMoves
\* ... or ends for a config without viewers.
<1>5. ASSUME \A h \in Conns : topic'[h].src \in {topic[h].src, None},
             \A j \in Instances : Used(j) => inst'[j].config = inst[j].config,
             NEW i \in Instances, inst'[i].config \in Configs,
             watch' = watch \/ Follows(inst'[i].config, inst'[i].subs)
      PROVE  WatchedIsTracked'
  <2>1. CASE watch.tracked \subseteq watch'.tracked
    BY <1>4, <1>5, <2>1
  <2>2. CASE watch'.tracked = watch.tracked \ {inst'[i].config} /\ inst'[i].subs = {}
    <3>1. inst'[i].config # None
      BY <1>5, TopicAssumption
    <3>2. watch.tracked \subseteq watch'.tracked \cup {inst'[i].config}
      BY <2>2
    <3> QED
      BY <1>1, <1>5, <2>2, <3>1, <3>2, TrackingMoves
  <2> QED
    BY <1>5, <2>1, <2>2 DEF Follows
<1>6. CASE UNCHANGED vars
  BY <1>4, <1>6 DEF vars
<1>7. CASE RunCallback
  <2>1. \A j \in Instances : inst'[j].config = inst[j].config
    BY <1>7, RunDoes DEF Answered, Informed, Delivered, Elsewhere
  <2>2. \A h \in Conns : topic'[h].src = topic[h].src
    BY <1>7, RunDoes DEF Answered, Informed, Delivered, SameRound
  <2>3. watch'.tracked = watch.tracked
    BY <1>7, RunDoes DEF Answered, Informed, Delivered
  <2> QED
    BY <1>4, <2>1, <2>2, <2>3
<1>8. CASE FollowUp
  <2>1. pend.kind = "save"
    BY <1>3, <1>8, FollowUpDoes DEF Kept, FollowUp
  <2>2. \A h \in Conns : topic'[h].src = topic[h].src
    BY <1>8, FollowUpDoes
  <2>3. watch'.tracked = watch.tracked
    BY <1>8, <2>1, FollowUpDoes
  <2>4. \A j \in Instances : inst'[j].config = inst[j].config
    <3>1. inst[pend.inst] \in Sources
      BY <1>8, FollowUpDoes, Ranges
    <3>2. [inst[pend.inst] EXCEPT !.dirty = @ + 1].config = inst[pend.inst].config
      BY <3>1 DEF Sources
    <3> QED
      BY <1>8, <3>2, FollowUpDoes DEF Elsewhere
  <2> QED
    BY <1>4, <2>2, <2>3, <2>4
<1>9. CASE RefreshReads
  BY <1>4, <1>9, RefreshReadsDoes
<1>10. CASE RefreshDone
  <2> DEFINE i == watch.inst
  <2>1. /\ i \in Instances /\ inst[i].config \in Configs /\ Elsewhere(i)
        /\ inst'[i].config = inst[i].config /\ inst'[i].subs = inst[i].subs
        /\ Follows(inst[i].config, inst[i].subs) /\ topic' = topic
    BY <1>10, RefreshDoneDoes DEF Published
  <2> HIDE DEF i
  <2>2. \A j \in Instances : inst'[j].config = inst[j].config
    BY <2>1 DEF Elsewhere
  <2> QED
    BY <1>5, <2>1, <2>2
<1>11. ASSUME NEW k \in Conns,
              OutboxSend(k) \/ Take(k) \/ Navigate(k) \/ Sent(k) \/ ReadDisk(k)
       PROVE  WatchedIsTracked'
  <2>1. UNCHANGED <<inst, watch>>
    BY <1>11 DEF OutboxSend, Take, Navigate, Sent, ReadDisk
  <2>2. CASE OutboxSend(k) \/ Take(k)
    BY <1>4, <2>1, <2>2 DEF OutboxSend, Take
  <2>3. CASE Navigate(k)
    BY <1>4, <2>1, <2>3, NavigateDoes
  <2>4. CASE Sent(k)
    BY <1>4, <2>1, <2>4, SentDoes
  <2>5. CASE ReadDisk(k)
    BY <1>4, <2>1, <2>5, ReadDiskDoes
  <2> QED
    BY <1>11, <2>2, <2>3, <2>4, <2>5
<1>12. ASSUME NEW k \in Conns, inst' = Left(k), watch' = LeftWatch(k),
              \A h \in Conns : topic'[h].src \in {topic[h].src, None}
       PROVE  WatchedIsTracked'
  <2>1. \A j \in Instances : inst'[j].config = inst[j].config
    BY <1>12, LeftDoes DEF Base, SameSource
  <2>2. CASE watch' = watch
    BY <1>4, <1>12, <2>1, <2>2
  <2>3. CASE /\ topic[k].src \in Instances
             /\ watch' = Tracked(watch, inst[topic[k].src].config, inst'[topic[k].src].subs # {})
    <3> DEFINE i == topic[k].src
    <3>1. i \in Instances /\ inst[i].config \in Configs
      BY <2>3, TopicAssumption, Ranges
    <3>2. Follows(inst[i].config, inst'[i].subs)
      BY <2>3, <3>1, FollowsDoes
    <3> HIDE DEF i
    <3> QED
      BY <1>5, <1>12, <2>1, <3>1, <3>2
  <2> QED
    BY <1>12, <2>2, <2>3, LeftWatchDoes DEF Base
<1>13. ASSUME NEW k \in Conns, Begin(k) PROVE WatchedIsTracked'
  <2>1. \A h \in Conns : topic'[h].src \in {topic[h].src, None}
    BY <1>13, BeginDoes
  <2> QED
    BY <1>4, <1>12, <1>13, <2>1, BeginDoes
<1>14. ASSUME NEW k \in Conns, Close(k) PROVE WatchedIsTracked'
  <2>1. \A h \in Conns : topic'[h].src \in {topic[h].src, None}
    BY <1>14, CloseDoes
  <2> QED
    BY <1>12, <1>14, <2>1, CloseDoes
<1>15. ASSUME NEW k \in Conns, Resolve(k) PROVE WatchedIsTracked'
  <2>1. \A h \in Conns : topic'[h].src = topic[h].src
    BY <1>15, ResolveDoes
  <2>2. CASE ResolvedToNone(k)
    BY <1>4, <2>1, <2>2 DEF ResolvedToNone
  <2>3. ASSUME NEW i \in Instances, Resolved(i, k) PROVE WatchedIsTracked'
    <3>1. /\ topic[k].want \in Configs /\ Found(i, topic[k].want) /\ Elsewhere(i)
          /\ reg' = [reg EXCEPT ![topic[k].want] = i] /\ inst'[i].config = topic[k].want
          /\ inst'[i].subs = inst[i].subs
          /\ watch' = watch \/ Follows(topic[k].want, inst[i].subs)
      BY <2>3 DEF Resolved
    <3>2. \A j \in Instances : Used(j) => inst'[j].config = inst[j].config
      BY <3>1, FoundRegistered
    <3> QED
      BY <1>5, <2>1, <3>1, <3>2
  <2> QED
    BY <1>15, <2>2, <2>3, ResolveDoes
<1>16. ASSUME NEW k \in Conns, ReadDone(k) PROVE WatchedIsTracked'
  <2> DEFINE i == topic[k].inst
  <2>1. /\ i \in Instances /\ inst[i].config \in Configs /\ Elsewhere(i)
        /\ inst'[i].config = inst[i].config /\ inst'[i].subs = inst[i].subs
        /\ Follows(inst[i].config, inst[i].subs)
        /\ \A h \in Conns : topic'[h].src = topic[h].src
    BY <1>16, ReadDoneDoes DEF Published
  <2> HIDE DEF i
  <2>2. \A j \in Instances : inst'[j].config = inst[j].config
    BY <2>1 DEF Elsewhere
  <2> QED
    BY <1>5, <2>1, <2>2
<1>17. ASSUME NEW k \in Conns, Attach(k) PROVE WatchedIsTracked'
  <2> DEFINE i == topic[k].inst
  <2>1. /\ \A h \in Conns : h # k => topic'[h] = topic[h]
        /\ \/ topic'[k].src = topic[k].src /\ UNCHANGED <<inst, watch>>
           \/ topic'[k].src = i /\ i = None /\ UNCHANGED <<inst, watch>>
           \/ topic'[k].src = i /\ SubscribedTo(i, k)
    BY <1>17, AttachDoes
  <2> HIDE DEF i
  <2>2. CASE topic'[k].src \in {topic[k].src, None} /\ UNCHANGED <<inst, watch>>
    BY <1>4, <2>1, <2>2
  <2>3. CASE topic'[k].src = i /\ SubscribedTo(i, k)
    <3>1. /\ i \in Instances /\ Elsewhere(i) /\ inst'[i].config = inst[i].config
          /\ watch'.tracked = watch.tracked \cup {inst[i].config}
      BY <1>3, <2>3 DEF SubscribedTo, SameSource
    <3>2. \A j \in Instances : inst'[j].config = inst[j].config
      BY <3>1 DEF Elsewhere
    <3>3. inst'[topic'[k].src].config \in watch'.tracked
      BY <2>3, <3>1
    <3>4. \A h \in Conns : \/ topic'[h].src = topic[h].src
                           \/ inst'[topic'[h].src].config \in watch'.tracked
      BY <2>1, <3>3
    <3>5. watch.tracked \subseteq watch'.tracked
      BY <3>1
    <3> QED
      BY <1>1, <3>2, <3>4, <3>5, TrackingMoves
  <2> QED
    BY <2>1, <2>2, <2>3
<1>18. ASSUME NEW c \in Configs, WorkerPush(c) PROVE WatchedIsTracked'
  BY <1>3, <1>18, PushDoes
<1>19. ASSUME NEW c \in Configs, Save(c) PROVE WatchedIsTracked'
  <2>1. UNCHANGED <<topic, watch>>
    BY <1>19, SaveDoes
  <2>2. PICK i \in Instances :
          /\ Found(i, c) /\ Elsewhere(i) /\ inst'[i] = [inst[i] EXCEPT !.config = c]
          /\ reg' = [reg EXCEPT ![c] = i]
    BY <1>19, SaveDoes
  <2>3. inst'[i].config = c
    BY <2>2, Ranges DEF Sources
  <2>4. \A j \in Instances : Used(j) => inst'[j].config = inst[j].config
    BY <2>2, <2>3, FoundRegistered
  <2> QED
    BY <1>4, <2>1, <2>4
<1>20. ASSUME NEW c \in Configs, Collect(c) PROVE WatchedIsTracked'
  BY <1>3, <1>20 DEF Collect
<1>21. ASSUME NEW c \in Configs, Refresh(c) PROVE WatchedIsTracked'
  <2>1. topic' = topic /\ watch'.tracked = watch.tracked
    BY <1>21, RefreshDoes
  <2>2. PICK i \in Instances : Refreshed(i, c)
    BY <1>21, RefreshDoes
  <2>3. \A j \in Instances : Used(j) => inst'[j].config = inst[j].config
    BY <2>2, FoundRegistered DEF Refreshed
  <2> QED
    BY <1>4, <2>1, <2>3
<1>22. ASSUME NEW i \in Instances, Expire(i) PROVE WatchedIsTracked'
  BY <1>3, <1>22 DEF Expire
<1> QED
  BY <1>6, <1>7, <1>8, <1>9, <1>10, <1>11, <1>13, <1>14, <1>15, <1>16, <1>17, <1>18,
     <1>19, <1>20, <1>21, <1>22 DEF Next

\* A config somebody looks at is tracked by the refresh manager, however viewers come and
\* go (_sync_update_time()).
THEOREM ViewedIsTracked == Spec => []WatchedIsTracked
<1> DEFINE Inv == Kept /\ WatchedIsTracked
<1>1. Init => Inv
  BY InitKept DEF Init, WatchedIsTracked
<1>2. Inv /\ Base /\ Base' /\ [Next]_vars => Inv'
  <2> SUFFICES ASSUME Inv, Base, Base', [Next]_vars PROVE Inv'
    OBVIOUS
  <2>1. Kept'
    BY KeptStep
  <2> QED
    BY <2>1, TrackingStep
<1> HIDE DEF Inv
<1>3. Spec => []Inv
  BY <1>1, <1>2, BaseInvariance, PTL DEF Spec
<1>4. Inv => WatchedIsTracked
  BY DEF Inv
<1> QED
  BY <1>3, <1>4, PTL

-----------------------------------------------------------------------------
(* A browser that stays with its config.                                   *)

\* Its round runs once, for that config.
StaysAt(k) ==
    /\ topic[k].dirty = FALSE
    /\ topic[k].want = None => topic[k].pc = "idle" /\ topic[k].src = None
    /\ topic[k].pc \notin {"idle", "send"} => topic[k].src = None
    /\ topic[k].pc \in {"read", "done", "attach"} =>
         topic[k].inst # None /\ inst[topic[k].inst].config = topic[k].want
    /\ topic[k].src # None => inst[topic[k].src].config = topic[k].want

Stays == "roam" \notin scenario => \A k \in Conns : StaysAt(k)

LEMMA StaysStep ==
    ASSUME Base, Stays, [Next]_vars
    PROVE  Stays'
<1>1. scenario' = scenario
  BY RegistryMoves
<1> SUFFICES ASSUME "roam" \notin scenario, NEW k \in Conns PROVE StaysAt(k)'
  BY <1>1 DEF Stays
<1>2. StaysAt(k)
  BY DEF Stays
<1>3. \A j \in Instances : inst[j].config # None => inst'[j].config = inst[j].config
  BY ConfigsKept
<1>4. /\ topic[k].src # None => inst'[topic[k].src].config = inst[topic[k].src].config
      /\ topic[k].pc \in {"read", "done", "attach"} =>
           inst'[topic[k].inst].config = inst[topic[k].inst].config
  BY <1>2, <1>3, TopicAssumption, Ranges DEF Reads, SomeInstance, StaysAt
<1>5. ASSUME topic'[k].want = topic[k].want, topic'[k].src = topic[k].src,
             topic'[k].inst = topic[k].inst, topic'[k].dirty = topic[k].dirty,
             \/ topic'[k].pc = topic[k].pc
             \/ topic[k].pc = "read" /\ topic'[k].pc = "done"
             \/ topic[k].pc = "done" /\ topic'[k].pc = "attach"
      PROVE  StaysAt(k)'
  BY <1>2, <1>4, <1>5 DEF StaysAt
<1>6. CASE topic'[k] = topic[k]
  BY <1>5, <1>6
<1>7. CASE topic' = topic
  BY <1>6, <1>7
<1>8. CASE RunCallback
  <2>1. CASE calls[1].who \in Conns /\ Answered(calls[1].who)
    <3>1. CASE calls[1].who = k
      <4>1. topic[k].pc = "read"
        <5>1. 1 \in 1..Len(calls)
          BY <1>8, CallsShifted DEF Base, Types, RunCallback
        <5> QED
          BY <2>1, <3>1, <5>1 DEF Base, Reports
      <4> QED
        BY <1>5, <2>1, <3>1, <4>1 DEF Answered
    <3>2. CASE calls[1].who # k
      BY <1>6, <2>1, <3>2 DEF Answered
    <3> QED
      BY <3>1, <3>2
  <2>2. CASE Delivered(calls[1].i, calls[1].full)
    BY <1>5, <2>2 DEF Delivered, SameRound
  <2> QED
    BY <1>7, <1>8, <2>1, <2>2, RunDoes DEF Informed
<1>9. ASSUME NEW h \in Conns, Navigate(h) PROVE StaysAt(k)'
  <2>1. CASE h = k
    <3>1. topic[k].want = None /\ topic[k].pc = "idle" /\ topic[k].src = None
      BY <1>2, <1>9, <2>1, NavigateDoes DEF StaysAt
    <3> QED
      BY <1>9, <2>1, <3>1, NavigateDoes DEF StaysAt
  <2> QED
    BY <1>6, <1>9, <2>1, NavigateDoes
<1>10. ASSUME NEW h \in Conns, Begin(h) PROVE StaysAt(k)'
  <2>1. CASE h = k
    <3>1. topic[k].want # None /\ topic[k].src = None /\ topic'[k].want = topic[k].want
          /\ topic'[k].pc \in {"idle", "resolve"} /\ topic'[k].src = None
          /\ topic'[k].dirty = FALSE
      BY <1>2, <1>10, <2>1, BeginDoes DEF StaysAt
    <3> QED
      BY <3>1 DEF StaysAt
  <2> QED
    BY <1>6, <1>10, <2>1, BeginDoes
<1>11. ASSUME NEW h \in Conns, Resolve(h) PROVE StaysAt(k)'
  <2>1. CASE h = k
    <3>1. topic[k].want # None /\ topic[k].src = None /\ topic[k].pc = "resolve"
          /\ topic'[k].want = topic[k].want /\ topic'[k].src = None
          /\ topic'[k].dirty = FALSE /\ ~ResolvedToNone(k)
      BY <1>2, <1>11, <2>1, ResolveDoes DEF StaysAt, ResolvedToNone
    <3>2. PICK i \in Instances : Resolved(i, k)
      BY <1>11, <2>1, <3>1, ResolveDoes
    <3>3. topic'[k].inst = i /\ inst'[i].config = topic[k].want /\ i # None
          /\ topic'[k].pc \in {"attach", "read"}
      BY <3>2, TopicAssumption DEF Resolved
    <3> QED
      BY <3>1, <3>3 DEF StaysAt
  <2> QED
    BY <1>6, <1>11, <2>1, ResolveDoes
<1>12. ASSUME NEW h \in Conns, ReadDisk(h) PROVE StaysAt(k)'
  <2>1. CASE h = k
    BY <1>5, <1>12, <2>1, ReadDiskDoes
  <2> QED
    BY <1>6, <1>12, <2>1, ReadDiskDoes
<1>13. ASSUME NEW h \in Conns, ReadDone(h) PROVE StaysAt(k)'
  <2>1. CASE h = k
    BY <1>5, <1>13, <2>1, ReadDoneDoes
  <2> QED
    BY <1>6, <1>13, <2>1, ReadDoneDoes
<1>14. ASSUME NEW h \in Conns, Attach(h) PROVE StaysAt(k)'
  <2>1. CASE h = k
    <3>1. /\ topic[k].pc = "attach" /\ topic[k].dirty = FALSE /\ topic[k].src = None
          /\ inst[topic[k].inst].config = topic[k].want /\ topic[k].want # None
      BY <1>2, <1>14, <2>1, AttachDoes DEF StaysAt
    <3>2. /\ topic'[k].want = topic[k].want /\ topic'[k].dirty = FALSE
          /\ topic'[k].pc \in {"idle", "send"}
          /\ topic'[k].src \in {None, topic[k].inst}
      BY <1>14, <2>1, <3>1, AttachDoes
    <3> QED
      BY <1>4, <3>1, <3>2 DEF StaysAt
  <2> QED
    BY <1>6, <1>14, <2>1, AttachDoes
<1>15. ASSUME NEW h \in Conns, Sent(h) PROVE StaysAt(k)'
  <2>1. CASE h = k
    <3>1. /\ topic'[k].want = topic[k].want /\ topic'[k].dirty = FALSE /\ topic[k].pc = "send"
          /\ topic'[k].pc = "idle" /\ topic'[k].src = topic[k].src
      BY <1>2, <1>15, <2>1, SentDoes DEF StaysAt
    <3> QED
      BY <1>2, <1>4, <3>1 DEF StaysAt
  <2> QED
    BY <1>6, <1>15, <2>1, SentDoes
<1>16. ASSUME NEW h \in Conns, Close(h) PROVE StaysAt(k)'
  <2>1. CASE h = k
    <3>1. /\ topic'[k].want = topic[k].want /\ topic'[k].dirty = topic[k].dirty
          /\ topic'[k].pc = topic[k].pc /\ topic'[k].src = None
          /\ topic'[k].inst = topic[k].inst
      BY <1>16, <2>1, CloseDoes
    <3> QED
      BY <1>2, <1>4, <3>1 DEF StaysAt
  <2> QED
    BY <1>6, <1>16, <2>1, CloseDoes
<1>17. CASE FollowUp
  BY <1>7, <1>17 DEF FollowUp
<1>18. CASE RefreshReads \/ RefreshDone
  BY <1>7, <1>18 DEF RefreshReads, RefreshDone
<1>19. ASSUME NEW c \in Configs, WorkerPush(c) \/ Save(c) \/ Collect(c) \/ Refresh(c)
       PROVE  StaysAt(k)'
  BY <1>7, <1>19 DEF WorkerPush, Save, Collect, Refresh
<1>20. ASSUME NEW h \in Conns, OutboxSend(h) \/ Take(h) PROVE StaysAt(k)'
  BY <1>7, <1>20 DEF OutboxSend, Take
<1>21. ASSUME NEW i \in Instances, Expire(i) PROVE StaysAt(k)'
  BY <1>7, <1>21 DEF Expire
<1>22. CASE UNCHANGED vars
  BY <1>7, <1>22 DEF vars
<1> QED
  BY <1>8, <1>9, <1>10, <1>11, <1>12, <1>13, <1>14, <1>15, <1>16, <1>17, <1>18,
     <1>19, <1>20, <1>21, <1>22 DEF Next

LEMMA InitStays ==
    ASSUME Init
    PROVE  Stays
  BY DEF Init, Stays, StaysAt

-----------------------------------------------------------------------------
(* Saves, while no viewer leaves.                                          *)

OnlySaves == scenario \cap {"event", "roam", "close", "expire"} = {}

\* A save is on its way to source i, or its config waits for a refresh.
Told(i) == (pend # None /\ pend.inst = i) \/ inst[i].config \in watch.requested

\* What the task that reads source i has read, and the mark it began with.
ReadVal(i) == IF inst[i].reader = Manager THEN watch.val ELSE topic[inst[i].reader].val
ReadMark(i) == IF inst[i].reader = Manager THEN watch.mark ELSE topic[inst[i].reader].mark

\* A source that holds an old table, or is about to, was told or carries a mark that the
\* read under way does not consume.
SavedAt(i) ==
    /\ inst[i].reader = None /\ inst[i].loaded /\ inst[i].data # truth[inst[i].config] =>
         Told(i) \/ inst[i].dirty > 0
    /\ inst[i].reader # None /\ ReadVal(i) \notin {None, truth[inst[i].config]} =>
         Told(i) \/ inst[i].dirty > ReadMark(i)

\* A refresh is asked for configs with viewers, who stay: nothing takes the request back.
Asked ==
    /\ \A k \in Conns : topic[k].closed = FALSE
    /\ \A c \in watch.requested : reg[c] # None /\ inst[reg[c]].subs # {}
    /\ pend # None /\ pend.watched => inst[pend.inst].subs # {}

Saved == OnlySaves => Asked /\ \A i \in Instances : Used(i) => SavedAt(i)

\* A step that neither reads nor publishes source i takes nothing back.
LEMMA SavedKept ==
    ASSUME Base, NEW i \in Instances, SavedAt(i), Told(i) => Told(i)',
           inst'[i].config = inst[i].config, inst'[i].data = inst[i].data,
           inst'[i].loaded = inst[i].loaded, inst'[i].reader = inst[i].reader,
           inst'[i].dirty \in Nat, inst[i].dirty <= inst'[i].dirty,
           truth'[inst[i].config] = truth[inst[i].config],
           inst[i].reader = Manager => watch'.val = watch.val /\ watch'.mark = watch.mark,
           inst[i].reader \in Conns => /\ topic'[inst[i].reader].val = topic[inst[i].reader].val
                                       /\ topic'[inst[i].reader].mark = topic[inst[i].reader].mark
    PROVE  SavedAt(i)'
<1>1. inst[i].dirty \in Nat /\ inst[i].reader \in Conns \cup {None, Manager}
  BY Ranges DEF Tasks
<1>2. inst[i].reader # None => ReadVal(i)' = ReadVal(i) /\ ReadMark(i)' = ReadMark(i)
  BY <1>1 DEF ReadVal, ReadMark
<1>3. inst[i].reader # None => ReadMark(i) \in Nat
  BY <1>1, Ranges DEF ReadMark
<1>4. CASE Told(i)
  BY <1>4 DEF SavedAt
<1>5. CASE ~Told(i)
  BY <1>1, <1>2, <1>3, <1>5 DEF SavedAt
<1> QED
  BY <1>4, <1>5

\* The source that a step has just created holds nothing.
LEMMA BlankSaved ==
    ASSUME NEW i \in Instances, inst'[i].loaded = FALSE, inst'[i].reader = None
    PROVE  SavedAt(i)'
  BY DEF SavedAt

\* What is found is blank or registered.
LEMMA FoundBlank ==
    ASSUME Base, NEW c \in Configs, NEW i \in Instances, Found(i, c), inst[i].config = None
    PROVE  inst[i].loaded = FALSE /\ inst[i].reader = None /\ inst[i].subs = {} /\ reg[c] = None
<1>1. inst[i] = Blank
  BY FoundKeeps
<1> QED
  BY <1>1, TopicAssumption DEF Blank, Found

LEMMA RegistryGrows ==
    ASSUME Base, [Next]_vars, "expire" \notin scenario
    PROVE  \A c \in Configs : reg[c] # None => reg'[c] = reg[c]
<1>1. Registers /\ reg \in [Configs -> SomeInstance]
  BY RegistryMoves DEF Base, Types
<1>2. CASE reg' = reg
  BY <1>2
<1>3. ASSUME NEW c \in Configs, NEW i \in Instances, Found(i, c), reg' = [reg EXCEPT ![c] = i]
      PROVE  \A b \in Configs : reg[b] # None => reg'[b] = reg[b]
  BY <1>1, <1>3 DEF Found
<1>4. ASSUME NEW i \in Instances, inst[i].config \in Configs, reg' = Reconciled(i)
      PROVE  \A b \in Configs : reg[b] # None => reg'[b] = reg[b]
  BY <1>1, <1>4 DEF Reconciled, Registered
<1> QED
  BY <1>1, <1>2, <1>3, <1>4 DEF Registers

LEMMA AskedKept ==
    ASSUME Base, Asked, \A c \in Configs : reg[c] # None => reg'[c] = reg[c],
           \A k \in Conns : topic'[k].closed = topic[k].closed,
           \A j \in Instances : inst[j].subs \subseteq inst'[j].subs,
           \A c \in watch'.requested :
             c \in watch.requested \/ (reg'[c] # None /\ inst'[reg'[c]].subs # {}),
           pend' # None /\ pend'.watched => pend' = pend \/ inst'[pend'.inst].subs # {}
    PROVE  Asked'
<1>1. watch.requested \subseteq Configs
  BY DEF Base, Types, Watches
<1>2. \A c \in watch'.requested : reg'[c] # None /\ inst'[reg'[c]].subs # {}
  BY <1>1, Ranges DEF Asked
<1>3. pend' # None /\ pend'.watched => inst'[pend'.inst].subs # {}
  BY Ranges DEF Asked
<1> QED
  BY <1>2, <1>3 DEF Asked

LEMMA SavedStep ==
    ASSUME Base, Base', Kept, Kept', Stays, Saved, [Next]_vars
    PROVE  Saved'
<1>1. scenario' = scenario
  BY RegistryMoves
<1> DEFINE All == \A i \in Instances : inst[i].config # None => SavedAt(i)
           Goal == Asked' /\ \A i \in Instances : inst'[i].config # None => SavedAt(i)'
<1> SUFFICES ASSUME OnlySaves PROVE Goal
  BY <1>1 DEF Saved, OnlySaves, Used
<1>2. /\ "event" \notin scenario /\ "expire" \notin scenario /\ "close" \notin scenario
      /\ "roam" \notin scenario
  BY DEF OnlySaves
<1>3. Asked /\ All /\ \A k \in Conns : StaysAt(k)
  BY <1>2 DEF Saved, Used, Stays
<1>4. \A c \in Configs : reg[c] # None => reg'[c] = reg[c]
  BY <1>2, RegistryGrows
<1>5. \A i \in Instances : /\ inst[i].dirty \in Nat /\ inst'[i].dirty \in Nat
                           /\ inst[i].subs \subseteq Conns /\ i # None
                           /\ inst[i].config \in Configs \cup {None}
                           /\ inst[i].reader \in Conns \cup {None, Manager}
  BY Ranges DEF Base, Types, Sources, Tasks
<1>6. /\ \A i \in Instances, k \in Conns : inst[i].reader = k => Reads(k) /\ topic[k].inst = i
      /\ \A i \in Instances : inst[i].reader = Manager => watch.inst = i
  BY DEF Base, Readers
\* The config of a source without viewers is not requested.
<1>7. \A i \in Instances, c \in Configs : Found(i, c) /\ inst[i].subs = {} => c \notin watch.requested
  BY <1>3, <1>5 DEF Asked, Found
<1>8. ASSUME NEW i \in Instances, NEW c \in Configs, Found(i, c), Follows(c, inst[i].subs)
      PROVE  watch'.requested = watch.requested
  BY <1>7, <1>8 DEF Follows
<1>9. \A i \in Instances : inst[i].config # None => Found(i, inst[i].config)
  BY <1>2, <1>5 DEF Kept, Used, Found
<1>31. \A i, j \in Instances, c \in Configs :
         inst[i].config # None /\ i # j /\ Found(j, c) => inst[i].config # c
  <2>1. \A i \in Instances : inst[i].config # None => reg[inst[i].config] = i
    BY <1>2 DEF Kept, Used
  <2> QED
    BY <1>5, <2>1 DEF Found
<1>32. \A i \in Instances : inst[i].config # None => inst[i].config \in Configs
  BY <1>5
\* Steps that touch neither marks nor tables.
<1>10. ASSUME UNCHANGED <<truth, pend>>, watch'.requested = watch.requested,
              watch'.val = watch.val, watch'.mark = watch.mark,
              \A k \in Conns : /\ topic'[k].closed = topic[k].closed
                               /\ topic'[k].val = topic[k].val /\ topic'[k].mark = topic[k].mark,
              \A i \in Instances :
                /\ inst'[i].config = inst[i].config /\ inst'[i].data = inst[i].data
                /\ inst'[i].loaded = inst[i].loaded /\ inst'[i].reader = inst[i].reader
                /\ inst'[i].dirty = inst[i].dirty /\ inst[i].subs \subseteq inst'[i].subs
       PROVE  Goal
  <2>1. Asked'
    BY <1>3, <1>4, <1>10, AskedKept
  <2>2. ASSUME NEW i \in Instances, inst'[i].config # None PROVE SavedAt(i)'
    <3>1. SavedAt(i) /\ (Told(i) => Told(i)')
      BY <1>3, <1>10, <2>2 DEF Told
    <3> QED
      BY <1>5, <1>10, <3>1, SavedKept
  <2> QED
    BY <2>1, <2>2
<1>11. CASE UNCHANGED vars
  BY <1>10, <1>11 DEF vars
<1>12. CASE RunCallback
  <2>1. \A i \in Instances :
          /\ inst'[i].config = inst[i].config /\ inst'[i].data = inst[i].data
          /\ inst'[i].loaded = inst[i].loaded /\ inst'[i].reader = inst[i].reader
          /\ inst'[i].dirty = inst[i].dirty /\ inst[i].subs \subseteq inst'[i].subs
    BY <1>12, RunDoes DEF Answered, Informed, Delivered, Elsewhere
  <2>2. \A k \in Conns : /\ topic'[k].closed = topic[k].closed
                         /\ topic'[k].val = topic[k].val /\ topic'[k].mark = topic[k].mark
    BY <1>12, RunDoes DEF Answered, Informed, Delivered, SameRound
  <2>3. watch'.requested = watch.requested /\ watch'.val = watch.val /\ watch'.mark = watch.mark
    BY <1>12, RunDoes DEF Answered, Informed, Delivered
  <2> QED
    BY <1>10, <1>12, <2>1, <2>2, <2>3 DEF RunCallback
<1>13. ASSUME NEW k \in Conns, OutboxSend(k) \/ Take(k) PROVE Goal
  BY <1>10, <1>13 DEF OutboxSend, Take
<1>14. ASSUME NEW k \in Conns, Navigate(k) PROVE Goal
  BY <1>10, <1>14, NavigateDoes
<1>15. ASSUME NEW k \in Conns, Sent(k) PROVE Goal
  BY <1>10, <1>15, SentDoes
<1>16. ASSUME NEW k \in Conns, Begin(k) PROVE Goal
  <2>1. topic[k].src = None
    BY <1>3, <1>16, BeginDoes DEF StaysAt
  <2>2. inst' = inst /\ watch' = watch
    BY <1>16, <2>1, BeginDoes DEF Left, LeftWatch
  <2>3. \A h \in Conns : /\ topic'[h].closed = topic[h].closed
                         /\ topic'[h].val = topic[h].val /\ topic'[h].mark = topic[h].mark
    <3>1. topic[k] \in Rounds
      BY Ranges
    <3>2. topic'[k].val = topic[k].val /\ topic'[k].mark = topic[k].mark
      BY <1>16, <3>1 DEF Begin, Base, Types, Rounds
    <3> QED
      BY <1>16, <3>2, BeginDoes
  <2> QED
    BY <1>10, <1>16, <2>2, <2>3 DEF Begin
<1>17. CASE FollowUp
  <2> DEFINE j == pend.inst
             c == inst[j].config
  <2>1. /\ UNCHANGED <<truth, reg, topic>> /\ pend # None /\ pend' = None /\ j \in Instances
        /\ c \in Configs /\ watch'.val = watch.val /\ watch'.mark = watch.mark
        /\ \/ /\ pend.watched /\ UNCHANGED inst
              /\ watch'.requested = watch.requested \cup {c}
           \/ /\ UNCHANGED watch /\ Elsewhere(j)
              /\ inst'[j] = [inst[j] EXCEPT !.dirty = @ + 1]
    BY <1>2, <1>17, FollowUpDoes DEF Kept, FollowUp, SameRefresh
  <2>2. reg[c] = j /\ j # None
    BY <1>2, <1>5, <2>1, TopicAssumption DEF Kept, Used
  <2> HIDE DEF j
  <2>3. CASE /\ pend.watched /\ UNCHANGED inst
             /\ watch'.requested = watch.requested \cup {c}
    <3>1. inst[j].subs # {}
      BY <1>3, <2>1, <2>3 DEF Asked, j
    <3>2. Asked'
      BY <1>3, <1>4, <2>1, <2>2, <2>3, <3>1, AskedKept
    <3>3. ASSUME NEW i \in Instances, inst'[i].config # None PROVE SavedAt(i)'
      <4>1. SavedAt(i)
        BY <1>3, <2>3, <3>3
      <4>2. Told(i) => Told(i)'
        BY <2>1, <2>3 DEF Told, j
      <4> QED
        BY <1>5, <2>1, <2>3, <4>1, <4>2, SavedKept
    <3> QED
      BY <3>2, <3>3
  <2>4. CASE /\ UNCHANGED watch /\ Elsewhere(j)
             /\ inst'[j] = [inst[j] EXCEPT !.dirty = @ + 1]
    <3>1. inst[j] \in Sources
      BY <2>1, Ranges
    <3>2. /\ inst'[j].config = inst[j].config /\ inst'[j].data = inst[j].data
          /\ inst'[j].loaded = inst[j].loaded /\ inst'[j].reader = inst[j].reader
          /\ inst'[j].dirty = inst[j].dirty + 1 /\ inst'[j].subs = inst[j].subs
      BY <2>4, <3>1 DEF Sources
    <3>3. \A i \in Instances : i # j => inst'[i] = inst[i]
      BY <2>4 DEF Elsewhere
    <3>4. Asked'
      <4>1. \A i \in Instances : inst[i].subs \subseteq inst'[i].subs
        BY <3>2, <3>3
      <4> QED
        BY <1>3, <1>4, <2>1, <2>4, <4>1, AskedKept
    <3>5. ASSUME NEW i \in Instances, inst'[i].config # None PROVE SavedAt(i)'
      <4>1. CASE i = j
        <5>1. inst'[i].dirty > 0
          BY <1>5, <3>2, <4>1
        <5>2. inst[i].reader # None => inst'[i].dirty > ReadMark(i)'
          <6>1. inst'[i].reader = inst[i].reader
            BY <3>2, <4>1
          <6>2. inst[i].reader = Manager =>
                  watch'.mark = watch.mark /\ watch.mark <= inst[i].dirty /\ watch.mark \in Nat
            BY <1>5, <1>6, <2>1, Ranges
          <6>3. inst[i].reader \in Conns =>
                  LET k == inst[i].reader IN
                  topic'[k].mark = topic[k].mark /\ topic[k].mark <= inst[i].dirty /\ topic[k].mark \in Nat
            BY <1>6, <2>1, Ranges
          <6> QED
            BY <1>5, <3>2, <4>1, <6>1, <6>2, <6>3 DEF ReadMark
        <5> QED
          BY <3>2, <4>1, <5>1, <5>2 DEF SavedAt
      <4>2. CASE i # j
        <5>1. inst'[i] = inst[i] /\ SavedAt(i)
          BY <1>3, <3>3, <3>5, <4>2
        <5>2. Told(i) => Told(i)'
          BY <2>4, <4>2, <5>1 DEF Told, j
        <5> QED
          BY <1>5, <2>1, <2>4, <5>1, <5>2, SavedKept
      <4> QED
        BY <4>1, <4>2
    <3> QED
      BY <3>4, <3>5
  <2> QED
    BY <2>1, <2>3, <2>4
<1>18. CASE RefreshReads
  <2>1. /\ UNCHANGED <<truth, reg, inst, topic, pend>>
        /\ watch'.requested = watch.requested /\ watch'.mark = watch.mark
        /\ watch'.val = truth[inst[watch.inst].config]
    BY <1>18, RefreshReadsDoes
  <2>2. Asked'
    BY <1>3, <1>4, <2>1, AskedKept
  <2>3. ASSUME NEW i \in Instances, inst'[i].config # None PROVE SavedAt(i)'
    <3>1. SavedAt(i) /\ (Told(i) => Told(i)')
      BY <1>3, <2>1, <2>3 DEF Told
    <3>2. CASE inst[i].reader = Manager
      <4>1. ReadVal(i)' = truth'[inst'[i].config]
        BY <1>6, <2>1, <3>2 DEF ReadVal
      <4> QED
        BY <2>1, <3>2, <4>1, TopicAssumption DEF SavedAt
    <3>3. CASE inst[i].reader # Manager
      BY <1>5, <2>1, <3>1, <3>3, SavedKept
    <3> QED
      BY <3>2, <3>3
  <2> QED
    BY <2>2, <2>3
<1>19. ASSUME NEW k \in Conns, ReadDisk(k) PROVE Goal
  <2>1. /\ UNCHANGED <<truth, reg, inst, watch, pend>>
        /\ \A h \in Conns : h # k => topic'[h] = topic[h]
        /\ topic'[k].closed = topic[k].closed
        /\ topic'[k].val = truth[inst[topic[k].inst].config]
    BY <1>19, ReadDiskDoes
  <2>2. Asked'
    BY <1>3, <1>4, <2>1, AskedKept
  <2>3. ASSUME NEW i \in Instances, inst'[i].config # None PROVE SavedAt(i)'
    <3>1. SavedAt(i) /\ (Told(i) => Told(i)')
      BY <1>3, <2>1, <2>3 DEF Told
    <3>2. CASE inst[i].reader = k
      <4>1. topic[k].inst = i /\ k # Manager /\ k # None
        BY <1>6, <3>2, TopicAssumption
      <4>2. ReadVal(i)' = truth'[inst'[i].config]
        BY <2>1, <3>2, <4>1 DEF ReadVal
      <4> QED
        BY <2>1, <3>2, <4>1, <4>2 DEF SavedAt
    <3>3. CASE inst[i].reader # k
      BY <1>5, <2>1, <3>1, <3>3, SavedKept
    <3> QED
      BY <3>2, <3>3
  <2> QED
    BY <2>2, <2>3
\* A publication by the task that has read source j.
<1>20. ASSUME NEW j \in Instances, NEW v \in Nat, NEW m \in Nat, Published(j, v, m),
              inst[j].reader # None, v = ReadVal(j), m = ReadMark(j), inst[j].config \in Configs,
              Follows(inst[j].config, inst[j].subs), UNCHANGED <<truth, pend>>,
              \A h \in Conns : topic'[h].closed = topic[h].closed,
              \A i \in Instances : i # j =>
                /\ inst[i].reader = Manager => watch'.val = watch.val /\ watch'.mark = watch.mark
                /\ inst[i].reader \in Conns =>
                     /\ topic'[inst[i].reader].val = topic[inst[i].reader].val
                     /\ topic'[inst[i].reader].mark = topic[inst[i].reader].mark
       PROVE  Goal
  <2>1. Found(j, inst[j].config)
    BY <1>9, <1>20, TopicAssumption
  <2>2. watch'.requested = watch.requested
    BY <1>8, <1>20, <2>1
  <2>3. \A i \in Instances : i # j => inst'[i] = inst[i]
    BY <1>20 DEF Published, Elsewhere
  <2>4. /\ inst'[j].config = inst[j].config /\ inst'[j].data = v /\ inst'[j].reader = None
        /\ inst'[j].subs = inst[j].subs
        /\ inst[j].dirty # m => inst'[j].dirty = inst[j].dirty
    BY <1>20 DEF Published
  <2>5. Asked'
    <3>1. \A i \in Instances : inst[i].subs \subseteq inst'[i].subs
      BY <2>3, <2>4
    <3> QED
      BY <1>3, <1>4, <1>20, <2>2, <3>1, AskedKept
  <2>6. ASSUME NEW i \in Instances, inst'[i].config # None PROVE SavedAt(i)'
    <3>1. SavedAt(i) /\ (Told(i) => Told(i)')
      BY <1>3, <1>20, <2>2, <2>3, <2>4, <2>6 DEF Told
    <3>2. CASE i = j
      <4>1. SavedAt(j)
        BY <3>1, <3>2
      <4>2. CASE v = truth[inst[j].config]
        BY <1>20, <2>4, <3>2, <4>2 DEF SavedAt
      <4>3. CASE v # truth[inst[j].config]
        <5>1. v # None
          BY <1>20, TopicAssumption
        <5>2. Told(j) \/ inst[j].dirty > m
          BY <1>20, <4>1, <4>3, <5>1 DEF SavedAt
        <5>3. inst[j].dirty > m => inst'[j].dirty > 0
          BY <1>5, <1>20, <2>4
        <5> QED
          BY <2>4, <3>1, <3>2, <5>2, <5>3 DEF SavedAt
      <4> QED
        BY <4>2, <4>3
    <3>3. CASE i # j
      BY <1>5, <1>20, <2>3, <3>1, <3>3, SavedKept
    <3> QED
      BY <3>2, <3>3
  <2> QED
    BY <2>5, <2>6
<1>21. CASE RefreshDone
  <2> DEFINE j == watch.inst
  <2>1. /\ UNCHANGED <<truth, topic, pend>> /\ j \in Instances /\ watch.val \in Nat
        /\ watch.mark \in Nat /\ inst[j].config \in Configs
        /\ Published(j, watch.val, watch.mark) /\ Follows(inst[j].config, inst[j].subs)
    BY <1>21, RefreshDoneDoes
  <2>2. inst[j].reader = Manager /\ Manager # None
    BY <1>5, <2>1, Ranges
  <2>3. watch.val = ReadVal(j) /\ watch.mark = ReadMark(j)
    BY <2>2 DEF ReadVal, ReadMark
  <2>4. \A i \in Instances : inst[i].reader = Manager => i = j
    BY <1>6
  <2> HIDE DEF j
  <2> QED
    BY <1>20, <2>1, <2>2, <2>3, <2>4
<1>22. ASSUME NEW k \in Conns, ReadDone(k) PROVE Goal
  <2> DEFINE j == topic[k].inst
  <2>1. /\ UNCHANGED <<truth, pend>> /\ j \in Instances /\ topic[k].val \in Nat
        /\ topic[k].mark \in Nat /\ inst[j].config \in Configs /\ topic[k].pc = "done"
        /\ Published(j, topic[k].val, topic[k].mark) /\ Follows(inst[j].config, inst[j].subs)
        /\ \A h \in Conns : h # k => topic'[h] = topic[h]
        /\ topic'[k].closed = topic[k].closed /\ SameRefresh
    BY <1>22, ReadDoneDoes
  <2>2. inst[j].reader = k /\ k # None /\ k # Manager
    BY <2>1, Ranges DEF Reads
  <2>3. topic[k].val = ReadVal(j) /\ topic[k].mark = ReadMark(j)
    BY <2>2 DEF ReadVal, ReadMark
  <2>4. \A i \in Instances : inst[i].reader = k => i = j
    BY <1>6
  <2>5. \A h \in Conns : topic'[h].closed = topic[h].closed
    BY <2>1
  <2>6. watch'.val = watch.val /\ watch'.mark = watch.mark
    BY <2>1 DEF SameRefresh
  <2>7. \A i \in Instances : i # j =>
          /\ inst[i].reader = Manager => watch'.val = watch.val /\ watch'.mark = watch.mark
          /\ inst[i].reader \in Conns =>
               /\ topic'[inst[i].reader].val = topic[inst[i].reader].val
               /\ topic'[inst[i].reader].mark = topic[inst[i].reader].mark
    BY <2>1, <2>4, <2>6
  <2> HIDE DEF j
  <2> QED
    BY <1>20, <2>1, <2>2, <2>3, <2>5, <2>7
<1>23. ASSUME NEW k \in Conns, Attach(k) PROVE Goal
  <2>1. /\ UNCHANGED <<truth, pend>> /\ \A h \in Conns : h # k => topic'[h] = topic[h]
        /\ topic'[k].closed = topic[k].closed /\ SameRefresh
        /\ UNCHANGED <<inst, watch>> \/ SubscribedTo(topic[k].inst, k)
    BY <1>23, AttachDoes
  <2>2. \A h \in Conns : topic'[h].val = topic[h].val /\ topic'[h].mark = topic[h].mark
    BY <1>23, <2>1, AttachDoes
  <2>3. \A h \in Conns : topic'[h].closed = topic[h].closed
    BY <2>1
  <2>4. \A i \in Instances :
          /\ inst'[i].config = inst[i].config /\ inst'[i].data = inst[i].data
          /\ inst'[i].loaded = inst[i].loaded /\ inst'[i].reader = inst[i].reader
          /\ inst'[i].dirty = inst[i].dirty /\ inst[i].subs \subseteq inst'[i].subs
    <3>1. CASE UNCHANGED <<inst, watch>>
      BY <3>1
    <3>2. CASE SubscribedTo(topic[k].inst, k)
      BY <3>2 DEF SubscribedTo, SameSource, Elsewhere
    <3> QED
      BY <2>1, <3>1, <3>2
  <2>5. watch'.requested = watch.requested /\ watch'.val = watch.val /\ watch'.mark = watch.mark
    BY <2>1 DEF SubscribedTo, SameRefresh
  <2> QED
    BY <1>10, <2>1, <2>2, <2>3, <2>4, <2>5
\* The source of config c is found, and maybe taken for a read.
<1>24. ASSUME NEW j \in Instances, NEW c \in Configs, Found(j, c), Elsewhere(j),
              inst'[j].config = c, inst'[j].data = inst[j].data,
              inst'[j].loaded = inst[j].loaded, inst'[j].dirty = inst[j].dirty,
              inst'[j].subs = inst[j].subs, inst[j].reader = None,
              \/ /\ inst'[j].reader = None /\ watch'.requested = watch.requested
                 /\ watch'.val = watch.val /\ watch'.mark = watch.mark
                 /\ \A h \in Conns : topic'[h].val = topic[h].val /\ topic'[h].mark = topic[h].mark
              \/ /\ inst'[j].reader # None /\ ReadVal(j)' = None
                 /\ \A i \in Instances : i # j =>
                      /\ inst[i].reader = Manager => watch'.val = watch.val /\ watch'.mark = watch.mark
                      /\ inst[i].reader \in Conns =>
                           /\ topic'[inst[i].reader].val = topic[inst[i].reader].val
                           /\ topic'[inst[i].reader].mark = topic[inst[i].reader].mark
                 /\ \/ watch'.requested = watch.requested
                    \/ watch'.requested = watch.requested \ {c},
              UNCHANGED <<truth, pend>>, \A h \in Conns : topic'[h].closed = topic[h].closed
       PROVE  Goal
  <2>1. \A i \in Instances : i # j => inst'[i] = inst[i]
    BY <1>24 DEF Elsewhere
  <2>2. Asked'
    <3>1. \A i \in Instances : inst[i].subs \subseteq inst'[i].subs
      BY <1>24, <2>1
    <3>2. watch'.requested \subseteq watch.requested
      BY <1>24
    <3> QED
      BY <1>3, <1>4, <1>24, <3>1, <3>2, AskedKept
  <2>3. ASSUME NEW i \in Instances, inst'[i].config # None PROVE SavedAt(i)'
    <3>1. CASE i = j
      <4>1. CASE inst'[j].reader # None
        BY <1>24, <3>1, <4>1 DEF SavedAt
      <4>2. CASE inst'[j].reader = None /\ inst[j].config = None
        BY <3>1, <4>2, <1>24, FoundBlank, BlankSaved
      <4>3. CASE inst'[j].reader = None /\ inst[j].config # None
        <5>1. inst[j].config = c
          BY <1>24, <4>3, FoundKeeps
        <5>2. SavedAt(j) /\ (Told(j) => Told(j)')
          BY <1>3, <1>24, <4>3, <5>1 DEF Told
        <5> QED
          BY <1>5, <1>24, <3>1, <4>3, <5>1, <5>2, TopicAssumption, SavedKept
      <4> QED
        BY <4>1, <4>2, <4>3
    <3>2. CASE i # j
      <4>1. inst'[i] = inst[i] /\ SavedAt(i)
        BY <1>3, <2>1, <2>3, <3>2
      <4>2. inst[i].config # c
        BY <1>24, <2>3, <3>2, <4>1, <1>31
      <4>3. Told(i) => Told(i)'
        BY <1>24, <4>1, <4>2 DEF Told
      <4> QED
        BY <1>5, <1>24, <3>2, <4>1, <4>3, SavedKept
    <3> QED
      BY <3>1, <3>2
  <2> QED
    BY <2>2, <2>3
<1>25. ASSUME NEW k \in Conns, Resolve(k) PROVE Goal
  <2>1. /\ UNCHANGED <<truth, pend>> /\ topic[k].pc = "resolve"
        /\ \A h \in Conns : h # k => topic'[h] = topic[h]
        /\ topic'[k].closed = topic[k].closed /\ SameRefresh
    BY <1>25, ResolveDoes
  <2>2. \A h \in Conns : topic'[h].closed = topic[h].closed
    BY <2>1
  <2>3. watch'.val = watch.val /\ watch'.mark = watch.mark
    BY <2>1 DEF SameRefresh
  <2>4. CASE ResolvedToNone(k)
    <3>1. \A h \in Conns : topic'[h].val = topic[h].val /\ topic'[h].mark = topic[h].mark
      BY <2>1, <2>4 DEF ResolvedToNone
    <3> QED
      BY <1>10, <2>1, <2>2, <2>4, <3>1 DEF ResolvedToNone
  <2>5. ASSUME NEW i \in Instances, Resolved(i, k) PROVE Goal
    <3> DEFINE c == topic[k].want
    <3>1. /\ c \in Configs /\ Found(i, c) /\ Elsewhere(i) /\ inst[i].reader = None
          /\ inst'[i].config = c /\ inst'[i].data = inst[i].data
          /\ inst'[i].loaded = inst[i].loaded /\ inst'[i].dirty = inst[i].dirty
          /\ inst'[i].subs = inst[i].subs
          /\ \/ /\ inst'[i].reader = None
                /\ topic'[k].mark = topic[k].mark /\ topic'[k].val = topic[k].val
                /\ watch' = watch \/ Follows(c, inst[i].subs)
             \/ inst'[i].reader = k /\ watch' = watch /\ topic'[k].val = None
      BY <2>5 DEF Resolved
    <3> HIDE DEF c
    <3>2. CASE /\ inst'[i].reader = None
               /\ topic'[k].mark = topic[k].mark /\ topic'[k].val = topic[k].val
               /\ watch' = watch \/ Follows(c, inst[i].subs)
      <4>1. watch'.requested = watch.requested
        BY <1>8, <3>1, <3>2
      <4>2. \A h \in Conns : topic'[h].val = topic[h].val /\ topic'[h].mark = topic[h].mark
        BY <2>1, <3>2
      <4> QED
        BY <1>24, <2>1, <2>2, <2>3, <3>1, <3>2, <4>1, <4>2
    <3>3. CASE inst'[i].reader = k /\ watch' = watch /\ topic'[k].val = None
      <4>1. k # None /\ k # Manager
        BY TopicAssumption
      <4>2. ReadVal(i)' = None
        BY <3>3, <4>1 DEF ReadVal
      <4>3. \A h \in Instances : inst[h].reader # k
        BY <1>6, <2>1 DEF Reads
      <4>4. \A h \in Instances : h # i =>
              /\ inst[h].reader = Manager => watch'.val = watch.val /\ watch'.mark = watch.mark
              /\ inst[h].reader \in Conns =>
                   /\ topic'[inst[h].reader].val = topic[inst[h].reader].val
                   /\ topic'[inst[h].reader].mark = topic[inst[h].reader].mark
        BY <2>1, <3>3, <4>3
      <4>5. inst'[i].reader # None /\ watch'.requested = watch.requested
        BY <3>3, <4>1
      <4> QED
        BY <1>24, <2>1, <2>2, <3>1, <4>2, <4>4, <4>5
    <3> QED
      BY <3>1, <3>2, <3>3
  <2> QED
    BY <1>25, <2>4, <2>5, ResolveDoes
<1>26. ASSUME NEW c \in Configs, Refresh(c) PROVE Goal
  <2>1. /\ UNCHANGED <<truth, topic, pend>> /\ watch.inst = None
        /\ watch'.requested = watch.requested \ {c} /\ watch'.val = None
    BY <1>26, RefreshDoes
  <2>2. PICK i \in Instances : Refreshed(i, c)
    BY <1>26, RefreshDoes
  <2>3. /\ Found(i, c) /\ Elsewhere(i) /\ inst[i].reader = None
        /\ inst'[i].config = c /\ inst'[i].data = inst[i].data
        /\ inst'[i].loaded = inst[i].loaded /\ inst'[i].dirty = inst[i].dirty
        /\ inst'[i].subs = inst[i].subs /\ inst'[i].reader = Manager
    BY <2>2 DEF Refreshed
  <2>4. ReadVal(i)' = None /\ Manager # None
    BY <2>1, <2>3, TopicAssumption DEF ReadVal
  <2>5. \A h \in Instances : inst[h].reader # Manager
    BY <1>5, <1>6, <2>1
  <2> QED
    BY <1>24, <2>1, <2>3, <2>4, <2>5
<1>27. ASSUME NEW c \in Configs, Save(c) PROVE Goal
  <2>1. /\ UNCHANGED <<topic, watch>> /\ pend = None
        /\ \A b \in Configs : b # c => truth'[b] = truth[b]
    BY <1>27, SaveDoes
  <2>2. PICK j \in Instances :
          /\ Found(j, c) /\ Elsewhere(j) /\ inst'[j] = [inst[j] EXCEPT !.config = c]
          /\ pend' \in Threads /\ pend'.inst = j /\ (pend'.watched <=> inst[j].subs # {})
    BY <1>27, SaveDoes
  <2>3. inst[j] \in Sources
    BY Ranges
  <2>4. inst'[j].config = c /\ inst'[j].subs = inst[j].subs
    BY <2>2, <2>3 DEF Sources
  <2>5. \A i \in Instances : i # j => inst'[i] = inst[i]
    BY <2>2 DEF Elsewhere
  <2>6. pend' # None
    BY <2>2, TopicAssumption DEF Threads
  <2>7. Asked'
    <3>1. \A i \in Instances : inst[i].subs \subseteq inst'[i].subs
      BY <2>4, <2>5
    <3>2. pend'.watched => inst'[pend'.inst].subs # {}
      BY <2>2, <2>4
    <3> QED
      BY <1>3, <1>4, <2>1, <3>1, <3>2, AskedKept
  <2>8. ASSUME NEW i \in Instances, inst'[i].config # None PROVE SavedAt(i)'
    <3>1. CASE i = j
      BY <2>2, <2>6, <3>1 DEF SavedAt, Told
    <3>2. CASE i # j
      <4>1. inst'[i] = inst[i] /\ SavedAt(i)
        BY <1>3, <2>5, <2>8, <3>2
      <4>2. inst[i].config # c /\ inst[i].config \in Configs
        BY <1>31, <1>32, <2>2, <2>8, <3>2, <4>1
      <4>3. Told(i) => Told(i)'
        BY <2>1, <4>1 DEF Told
      <4> QED
        BY <1>5, <2>1, <4>1, <4>2, <4>3, SavedKept
    <3> QED
      BY <3>1, <3>2
  <2> QED
    BY <2>7, <2>8
<1>28. ASSUME NEW k \in Conns, Close(k) PROVE Goal
  BY <1>2, <1>28 DEF Close
<1>29. ASSUME NEW c \in Configs, WorkerPush(c) \/ Collect(c) PROVE Goal
  BY <1>2, <1>29 DEF WorkerPush, Collect
<1>30. ASSUME NEW i \in Instances, Expire(i) PROVE Goal
  BY <1>2, <1>30 DEF Expire
<1> HIDE DEF Goal
<1> QED
  BY <1>11, <1>12, <1>13, <1>14, <1>15, <1>16, <1>17, <1>18, <1>19, <1>21, <1>22, <1>23,
     <1>25, <1>26, <1>27, <1>28, <1>29, <1>30 DEF Next

LEMMA InitSaved ==
    ASSUME Init
    PROVE  Saved
<1>1. /\ \A k \in Conns : topic[k].closed = FALSE
      /\ watch.requested = {} /\ pend = None
      /\ \A i \in Instances : inst[i].config = None
  BY DEF Init, Blank
<1> QED
  BY <1>1 DEF Saved, Asked, Used

\* Once nothing is under way no source is read, so that its mark tells the truth.
LEMMA SavedShows ==
    ASSUME Base, Saved
    PROVE  CleanIsCurrent
<1> SUFFICES ASSUME OnlySaves, Quiet,
                    NEW i \in Instances, inst[i].loaded, inst[i].dirty = 0
             PROVE  inst[i].data = truth[inst[i].config]
  BY DEF CleanIsCurrent, SavesAreSeen, OnlySaves
<1>1. inst[i].config # None
  <2>1. CASE inst[i].config = None
    <3>1. inst[i] = Blank
      BY <2>1, Ranges
    <3> QED
      BY <3>1 DEF Blank
  <2> QED
    BY <2>1
<1>2. inst[i].reader = None
  <2>1. ASSUME NEW k \in Conns, inst[i].reader = k PROVE FALSE
    <3>1. topic[k].pc \in {"read", "done"}
      BY <2>1 DEF Base, Readers, Reads
    <3> QED
      BY <3>1 DEF Quiet
  <2>2. ASSUME inst[i].reader = Manager PROVE FALSE
    <3>1. watch.inst = i
      BY <2>2 DEF Base, Readers
    <3> QED
      BY <3>1, Ranges DEF Quiet
  <2> QED
    BY <2>1, <2>2, Ranges DEF Tasks
<1>3. SavedAt(i) /\ ~Told(i)
  BY <1>1 DEF Saved, Used, Told, Quiet
<1> QED
  BY <1>2, <1>3 DEF SavedAt

\* No save is swallowed while nobody leaves: once nothing is under way, a source that was
\* read and has no mark holds the table its config was saved with (fetch_init(),
\* mark_dirty(), request_refresh()).
THEOREM SavesAreNeverLost == Spec => []CleanIsCurrent
<1> DEFINE Inv == Kept /\ Stays /\ Saved
<1>1. Init => Inv
  BY InitKept, InitStays, InitSaved
<1>2. Inv /\ Base /\ Base' /\ [Next]_vars => Inv'
  <2> SUFFICES ASSUME Inv, Base, Base', [Next]_vars PROVE Inv'
    OBVIOUS
  <2>1. Kept'
    BY KeptStep
  <2>2. Stays'
    BY StaysStep
  <2> QED
    BY <2>1, <2>2, SavedStep
<1>3. Inv /\ Base => CleanIsCurrent
  BY SavedShows
<1> HIDE DEF Inv
<1>4. Spec => []Inv
  BY <1>1, <1>2, BaseInvariance, PTL DEF Spec
<1> QED
  BY <1>3, <1>4, BaseInvariance, PTL

-----------------------------------------------------------------------------
(* The pipe from a source to a browser: outbox, line and send buffer.      *)

\* A browser that stays with its config is sent no clear.
Carried == [kind : {"full", "set"}, config : Configs, v : Nat]
Pipe == [buf : Seq(Carried), waiting : Seq([by : {"outbox"}, m : Carried]),
         out : Seq(Carried), task : {"none", "spawned", "sends"}]
Idle == [buf |-> <<>>, waiting |-> <<>>, out |-> <<>>, task |-> "none"]

\* Messages are in the outbox only while its task is there, and the task stands in line
\* only while the buffer is full.
PipeOK(co) ==
    /\ co \in Pipe
    /\ co.out # <<>> => co.task # "none"
    /\ co.waiting # <<>> => ~Room(co) /\ co.task = "sends"

Shown(m) == [config |-> m.config, v |-> m.v]

\* What the browser shows once it got everything: the last message that was sent to it.
Newest(co, shown) ==
    IF co.out # <<>> THEN Shown(co.out[Len(co.out)])
    ELSE IF co.waiting # <<>> THEN Shown(co.waiting[Len(co.waiting)].m)
    ELSE IF co.buf # <<>> THEN Shown(co.buf[Len(co.buf)])
    ELSE shown

LEMMA LastAppended ==
    ASSUME NEW S, NEW s \in Seq(S), NEW m \in S
    PROVE  /\ Append(s, m) \in Seq(S) /\ Append(s, m) # <<>>
           /\ Len(Append(s, m)) = Len(s) + 1 /\ Len(s) \in Nat
           /\ Append(s, m)[Len(Append(s, m))] = m
  OBVIOUS

LEMMA LastOfTail ==
    ASSUME NEW S, NEW s \in Seq(S), s # <<>>
    PROVE  /\ Tail(s) \in Seq(S) /\ Head(s) \in S
           /\ Len(Tail(s)) = Len(s) - 1 /\ Len(s) \in Nat /\ Len(s) >= 1
           /\ Tail(s) # <<>> => Tail(s)[Len(Tail(s))] = s[Len(s)]
           /\ Tail(s) = <<>> => s[Len(s)] = Head(s)
<1>1. Len(s) \in Nat /\ Len(s) >= 1 /\ Tail(s) \in Seq(S) /\ Len(Tail(s)) = Len(s) - 1
  OBVIOUS
<1>2. Head(s) = s[1] /\ s[1] \in S
  OBVIOUS
<1>3. ASSUME Tail(s) # <<>> PROVE Tail(s)[Len(Tail(s))] = s[Len(s)]
  <2>1. Len(Tail(s)) \in 1..Len(Tail(s))
    BY <1>1, <1>3
  <2> QED
    BY <1>1, <2>1
<1>4. ASSUME Tail(s) = <<>> PROVE s[Len(s)] = Head(s)
  <2> DEFINE rest == Tail(s)
  <2>1. rest = <<>> /\ Len(rest) = Len(s) - 1 /\ Len(s) \in Nat
    BY <1>1, <1>4
  <2> HIDE DEF rest
  <2>2. Len(s) = 1
    BY <2>1
  <2> QED
    BY <1>2, <2>2
<1> QED
  BY <1>1, <1>2, <1>3, <1>4

LEMMA PushLast ==
    ASSUME NEW out \in Seq(Carried), NEW m \in Carried
    PROVE  /\ Push(out, m) \in Seq(Carried) /\ Push(out, m) # <<>>
           /\ Push(out, m)[Len(Push(out, m))] = m
<1>1. CASE Len(out) < OutboxLength
  BY <1>1, LastAppended DEF Push
<1>2. CASE ~(Len(out) < OutboxLength)
  <2>1. out # <<>>
    BY <1>2, TopicAssumption
  <2>2. Tail(out) \in Seq(Carried)
    BY <2>1, LastOfTail
  <2> QED
    BY <1>2, <2>2, LastAppended DEF Push
<1> QED
  BY <1>1, <1>2

\* Whatever way a message takes, it is the newest.
LEMMA DeliverPipes ==
    ASSUME NEW co, PipeOK(co), NEW m \in Carried, NEW shown
    PROVE  PipeOK(Deliver(co, m)) /\ Newest(Deliver(co, m), shown) = Shown(m)
<1>1. co \in Pipe /\ co.out \in Seq(Carried) /\ co.buf \in Seq(Carried)
      /\ co.waiting \in Seq([by : {"outbox"}, m : Carried])
      /\ co.task \in {"none", "spawned", "sends"}
  BY DEF PipeOK, Pipe
<1> DEFINE box == Push(co.out, m)
           full == Append(co.buf, m)
<1>2. box \in Seq(Carried) /\ box # <<>> /\ box[Len(box)] = m
  BY <1>1, PushLast
<1>3. full \in Seq(Carried) /\ full # <<>> /\ full[Len(full)] = m
  BY <1>1, LastAppended
<1>4. CASE co.task # "none"
  <2>1. Deliver(co, m) = [co EXCEPT !.out = box]
    BY <1>4 DEF Deliver
  <2> DEFINE r == [co EXCEPT !.out = box]
  <2> HIDE DEF box
  <2>2. /\ r \in Pipe /\ r.out = box /\ r.buf = co.buf /\ r.waiting = co.waiting
        /\ r.task = co.task
    BY <1>1, <1>2 DEF Pipe
  <2> HIDE DEF r
  <2>3. PipeOK(r)
    BY <1>4, <2>2 DEF PipeOK, Room
  <2>4. Newest(r, shown) = Shown(m)
    BY <1>2, <2>2 DEF Newest
  <2> QED
    BY <2>1, <2>3, <2>4 DEF r
<1>5. CASE co.task = "none" /\ Room(co)
  <2>1. Deliver(co, m) = [co EXCEPT !.buf = full]
    BY <1>5 DEF Deliver
  <2>2. co.out = <<>> /\ co.waiting = <<>>
    BY <1>5 DEF PipeOK
  <2> DEFINE r == [co EXCEPT !.buf = full]
  <2> HIDE DEF full
  <2>3. /\ r \in Pipe /\ r.out = co.out /\ r.buf = full /\ r.waiting = co.waiting
        /\ r.task = co.task
    BY <1>1, <1>3 DEF Pipe
  <2> HIDE DEF r
  <2>4. PipeOK(r)
    BY <2>2, <2>3 DEF PipeOK
  <2>5. Newest(r, shown) = Shown(m)
    BY <1>3, <2>2, <2>3 DEF Newest
  <2> QED
    BY <2>1, <2>4, <2>5 DEF r
<1>6. CASE co.task = "none" /\ ~Room(co)
  <2>1. Deliver(co, m) = [co EXCEPT !.out = box, !.task = "spawned"]
    BY <1>6 DEF Deliver
  <2>2. co.waiting = <<>>
    BY <1>6 DEF PipeOK
  <2> DEFINE r == [co EXCEPT !.out = box, !.task = "spawned"]
  <2> HIDE DEF box
  <2>3. /\ r \in Pipe /\ r.out = box /\ r.buf = co.buf /\ r.waiting = co.waiting
        /\ r.task = "spawned"
    BY <1>1, <1>2 DEF Pipe
  <2> HIDE DEF r
  <2>4. PipeOK(r)
    BY <2>2, <2>3 DEF PipeOK
  <2>5. Newest(r, shown) = Shown(m)
    BY <1>2, <2>3 DEF Newest
  <2> QED
    BY <2>1, <2>4, <2>5 DEF r
<1> QED
  BY <1>4, <1>5, <1>6

\* The outbox task moves messages on and keeps their order.
LEMMA OutboxPipes ==
    ASSUME NEW k \in Conns, OutboxSend(k), conn = [h \in Conns |-> conn[h]], PipeOK(conn[k]),
           NEW shown
    PROVE  /\ PipeOK(conn'[k]) /\ Newest(conn'[k], shown) = Newest(conn[k], shown)
           /\ conn' = [h \in Conns |-> conn'[h]]
           /\ \A h \in Conns : h # k => conn'[h] = conn[h]
<1> DEFINE co == conn[k]
           rest == Tail(co.out)
           m == Head(co.out)
<1>1. /\ co \in Pipe /\ co.out \in Seq(Carried) /\ co.buf \in Seq(Carried)
      /\ co.waiting \in Seq([by : {"outbox"}, m : Carried])
      /\ co.task \in {"spawned", "sends"}
  BY DEF PipeOK, Pipe, OutboxSend
<1>2. co.waiting = <<>>
  <2> SUFFICES ASSUME co.waiting # <<>> PROVE FALSE
    OBVIOUS
  <2> DEFINE line == co.waiting
  <2>1. line \in Seq([by : {"outbox"}, m : Carried]) /\ line # <<>>
    BY <1>1
  <2>2. \A n \in DOMAIN line : line[n].by # "outbox"
    BY DEF OutboxSend, InLine
  <2> HIDE DEF line
  <2>3. 1 \in DOMAIN line /\ line[1] = Head(line)
    BY <2>1
  <2>4. Head(line) \in [by : {"outbox"}, m : Carried]
    BY <2>1, LastOfTail
  <2>5. line[1].by = "outbox"
    BY <2>3, <2>4
  <2> QED
    BY <2>2, <2>3, <2>5
<1>3. ASSUME NEW r, conn' = [conn EXCEPT ![k] = r]
      PROVE  /\ conn'[k] = r /\ conn' = [h \in Conns |-> conn'[h]]
             /\ \A h \in Conns : h # k => conn'[h] = conn[h]
  BY <1>3
<1>4. CASE co.out = <<>>
  <2> DEFINE r == [co EXCEPT !.task = "none"]
  <2>1. conn' = [conn EXCEPT ![k] = r]
    BY <1>4 DEF OutboxSend
  <2>2. /\ r \in Pipe /\ r.out = co.out /\ r.buf = co.buf /\ r.waiting = co.waiting
        /\ r.task = "none"
    BY <1>1 DEF Pipe
  <2> HIDE DEF r
  <2>3. PipeOK(r) /\ Newest(r, shown) = Newest(co, shown)
    BY <1>2, <1>4, <2>2 DEF PipeOK, Newest
  <2> QED
    BY <1>3, <2>1, <2>3
<1>5. CASE co.out # <<>>
  <2>1. /\ rest \in Seq(Carried) /\ m \in Carried
        /\ rest # <<>> => rest[Len(rest)] = co.out[Len(co.out)]
        /\ rest = <<>> => co.out[Len(co.out)] = m
    BY <1>1, <1>5, LastOfTail
  <2> DEFINE p == [co EXCEPT !.out = rest, !.task = "sends"]
  <2>2. conn' = [conn EXCEPT ![k] = Enter(p, "outbox", m)]
    BY <1>1, <1>5 DEF OutboxSend
  <2> HIDE DEF rest, m
  <2>3. /\ p \in Pipe /\ p.out = rest /\ p.buf = co.buf /\ p.waiting = <<>> /\ p.task = "sends"
    BY <1>1, <1>2, <2>1 DEF Pipe
  <2> HIDE DEF p
  <2>4. Newest(co, shown) = Shown(co.out[Len(co.out)])
    BY <1>5 DEF Newest
  <2>5. CASE Room(p)
    <3> DEFINE box == Append(p.buf, m)
               r == [p EXCEPT !.buf = box]
    <3>1. Enter(p, "outbox", m) = r
      BY <2>5 DEF Enter
    <3>2. box \in Seq(Carried) /\ box # <<>> /\ box[Len(box)] = m
      <4>1. p.buf \in Seq(Carried)
        BY <1>1, <2>3
      <4> QED
        BY <2>1, <4>1, LastAppended
    <3> HIDE DEF box
    <3>3. r \in Pipe /\ r.out = rest /\ r.buf = box /\ r.waiting = <<>> /\ r.task = "sends"
      BY <2>3, <3>2 DEF Pipe
    <3> HIDE DEF r
    <3>4. PipeOK(r)
      BY <3>3 DEF PipeOK
    <3>5. Newest(r, shown) = Newest(co, shown)
      BY <2>1, <2>4, <3>2, <3>3 DEF Newest
    <3> QED
      BY <1>3, <2>2, <3>1, <3>4, <3>5
  <2>6. CASE ~Room(p)
    <3> DEFINE w == [by |-> "outbox", m |-> m]
               line == Append(p.waiting, w)
               r == [p EXCEPT !.waiting = line]
    <3>1. Enter(p, "outbox", m) = r
      BY <2>6 DEF Enter
    <3>2. w \in [by : {"outbox"}, m : Carried] /\ w.m = m
      BY <2>1
    <3> HIDE DEF w
    <3>3. /\ line \in Seq([by : {"outbox"}, m : Carried]) /\ line # <<>>
          /\ line[Len(line)] = w
      BY <2>3, <3>2, LastAppended DEF Pipe
    <3> HIDE DEF line
    <3>4. r \in Pipe /\ r.out = rest /\ r.buf = p.buf /\ r.waiting = line /\ r.task = "sends"
      BY <2>3, <3>3 DEF Pipe
    <3> HIDE DEF r
    <3>5. PipeOK(r)
      BY <2>6, <3>4 DEF PipeOK, Room
    <3>6. Newest(r, shown) = Newest(co, shown)
      BY <2>1, <2>4, <3>2, <3>3, <3>4 DEF Newest
    <3> QED
      BY <1>3, <2>2, <3>1, <3>5, <3>6
  <2> QED
    BY <2>5, <2>6
<1> QED
  BY <1>4, <1>5

\* A message that the browser takes lets the first of the line into the buffer.
LEMMA TakePipes ==
    ASSUME NEW k \in Conns, Take(k), conn = [h \in Conns |-> conn[h]],
           view = [h \in Conns |-> view[h]], PipeOK(conn[k])
    PROVE  /\ PipeOK(conn'[k]) /\ Newest(conn'[k], view'[k]) = Newest(conn[k], view[k])
           /\ conn' = [h \in Conns |-> conn'[h]] /\ view' = [h \in Conns |-> view'[h]]
           /\ \A h \in Conns : h # k => conn'[h] = conn[h] /\ view'[h] = view[h]
<1> DEFINE co == conn[k]
           rest == Tail(co.buf)
           m == Head(co.buf)
<1>1. /\ co \in Pipe /\ co.out \in Seq(Carried) /\ co.buf \in Seq(Carried) /\ co.buf # <<>>
      /\ co.waiting \in Seq([by : {"outbox"}, m : Carried])
  BY DEF PipeOK, Pipe, Take
<1>2. /\ rest \in Seq(Carried) /\ m \in Carried /\ Len(rest) = Len(co.buf) - 1
      /\ Len(co.buf) \in Nat
      /\ rest # <<>> => rest[Len(rest)] = co.buf[Len(co.buf)]
      /\ rest = <<>> => co.buf[Len(co.buf)] = m
  BY <1>1, LastOfTail
<1>3. view' = [view EXCEPT ![k] = Shown(m)]
  <2>1. m.kind # "del"
    BY <1>2 DEF Carried
  <2> QED
    BY <2>1 DEF Take, Shown
<1>4. /\ view'[k] = Shown(m) /\ view' = [h \in Conns |-> view'[h]]
      /\ \A h \in Conns : h # k => view'[h] = view[h]
  BY <1>3
<1>5. ASSUME NEW r, conn' = [conn EXCEPT ![k] = r]
      PROVE  /\ conn'[k] = r /\ conn' = [h \in Conns |-> conn'[h]]
             /\ \A h \in Conns : h # k => conn'[h] = conn[h]
  BY <1>5
<1>6. CASE co.waiting = <<>>
  <2> DEFINE r == [co EXCEPT !.buf = rest]
  <2>1. conn' = [conn EXCEPT ![k] = r]
    BY <1>6 DEF Take
  <2> HIDE DEF rest, m
  <2>2. r \in Pipe /\ r.out = co.out /\ r.buf = rest /\ r.waiting = <<>> /\ r.task = co.task
    BY <1>1, <1>2, <1>6 DEF Pipe
  <2> HIDE DEF r
  <2>3. PipeOK(r)
    BY <2>2 DEF PipeOK
  <2>4. Newest(r, Shown(m)) = Newest(co, view[k])
    BY <1>1, <1>2, <1>6, <2>2 DEF Newest
  <2> QED
    BY <1>4, <1>5, <2>1, <2>3, <2>4
<1>7. CASE co.waiting # <<>>
  <2> DEFINE w == Head(co.waiting).m
             line == Tail(co.waiting)
             box == Append(rest, w)
             r == [co EXCEPT !.buf = box, !.waiting = line]
  <2>1. conn' = [conn EXCEPT ![k] = r]
    BY <1>7 DEF Take
  <2>2. /\ line \in Seq([by : {"outbox"}, m : Carried]) /\ w \in Carried
        /\ line # <<>> => line[Len(line)] = co.waiting[Len(co.waiting)]
        /\ line = <<>> => co.waiting[Len(co.waiting)].m = w
    <3>1. Head(co.waiting) \in [by : {"outbox"}, m : Carried]
      BY <1>1, <1>7, LastOfTail
    <3> QED
      BY <1>1, <1>7, <3>1, LastOfTail
  <2> HIDE DEF w, line, rest, m
  <2>3. /\ box \in Seq(Carried) /\ box # <<>> /\ box[Len(box)] = w
        /\ Len(box) = Len(co.buf)
    BY <1>2, <2>2, LastAppended
  <2> HIDE DEF box
  <2>4. r \in Pipe /\ r.out = co.out /\ r.buf = box /\ r.waiting = line /\ r.task = co.task
    BY <1>1, <2>2, <2>3 DEF Pipe
  <2> HIDE DEF r
  <2>5. PipeOK(r)
    BY <1>7, <2>3, <2>4 DEF PipeOK, Room
  <2>6. Newest(r, Shown(m)) = Newest(co, view[k])
    BY <1>7, <2>2, <2>3, <2>4 DEF Newest
  <2> QED
    BY <1>4, <1>5, <2>1, <2>5, <2>6
<1> QED
  BY <1>6, <1>7

-----------------------------------------------------------------------------
(* What the steps do to the pipes.                                         *)

\* No viewer moves to another config, no source is collected, and a source that events
\* change is neither read again nor left.
Settled ==
    /\ scenario \cap {"roam", "expire"} = {}
    /\ "event" \in scenario => scenario \cap {"save", "clock", "close"} = {}

\* What a browser shows in the end, and what it should show of source i.
Newer(k) == Newest(conn[k], view[k])
Target(i) == IF inst[i].data = None THEN Nothing
             ELSE [config |-> inst[i].config, v |-> inst[i].data]

\* Before its subscription nothing is sent to a browser.
PipeAt(k) ==
    topic[k].closed = FALSE =>
      /\ PipeOK(conn[k])
      /\ topic[k].src = None => /\ conn[k] = Idle /\ view[k] = Nothing
                                /\ topic[k].holds = FALSE
      /\ topic[k].pc # "send"

Shaped == conn = [k \in Conns |-> conn[k]] /\ view = [k \in Conns |-> view[k]]
Pipes == Settled => Shaped /\ \A k \in Conns : PipeAt(k)

\* A message of source i goes to its subscribers.
LEMMA DeliveredPipes ==
    ASSUME Base, Shaped, \A k \in Conns : PipeAt(k), NEW i \in Instances,
           NEW full \in SomeVersion, Delivered(i, full), view' = view,
           topic' \in [Conns -> Rounds]
    PROVE  /\ Shaped' /\ \A k \in Conns : PipeAt(k)'
           /\ \A k \in Conns :
                /\ topic'[k].closed = topic[k].closed /\ topic'[k].src = topic[k].src
                /\ topic[k].src = i /\ topic[k].closed = FALSE =>
                     Newer(k)' = Shown(Broadcast(i, full))
                /\ topic[k].src # i => Newer(k)' = Newer(k)
<1> DEFINE m == Broadcast(i, full)
<1>1. /\ conn' = [k \in Conns |-> IF k \in inst[i].subs THEN Deliver(conn[k], m) ELSE conn[k]]
      /\ \A k \in Conns : /\ SameRound(k)
                          /\ topic'[k].holds <=> topic[k].holds \/ k \in inst[i].subs
  BY DEF Delivered
<1>2. \A k \in Conns : k \in inst[i].subs <=> topic[k].src = i
  BY DEF Base, Subscriptions
<1>3. /\ i # None /\ inst[i].inbox \in Seq(Nat) /\ inst[i].config \in Configs \cup {None}
  BY Ranges DEF Sources
<1>4. ASSUME NEW k \in Conns, topic[k].src = i PROVE m \in Carried
  <2>1. inst[i].config \in Configs
    BY <1>3, <1>4, Ranges
  <2>2. CASE full # None
    BY <2>1, <2>2 DEF Broadcast, Carried, SomeVersion
  <2>3. CASE full = None
    <3>1. inst[i].inbox # <<>>
      BY <2>3 DEF Delivered
    <3>2. Len(inst[i].inbox) \in 1..Len(inst[i].inbox)
      BY <1>3, <3>1
    <3>3. inst[i].inbox[Len(inst[i].inbox)] \in Nat
      BY <1>3, <3>2
    <3> QED
      BY <2>1, <2>3, <3>3 DEF Broadcast, Carried
  <2> QED
    BY <2>2, <2>3
<1> HIDE DEF m
<1>5. ASSUME NEW k \in Conns
      PROVE  /\ PipeAt(k)'
             /\ topic'[k].closed = topic[k].closed /\ topic'[k].src = topic[k].src
             /\ topic[k].src = i /\ topic[k].closed = FALSE => Newer(k)' = Shown(m)
             /\ topic[k].src # i => Newer(k)' = Newer(k)
  <2>1. /\ topic'[k].closed = topic[k].closed /\ topic'[k].src = topic[k].src
        /\ topic'[k].pc = topic[k].pc /\ view'[k] = view[k]
    BY <1>1 DEF SameRound
  <2>2. CASE topic[k].src = i
    <3>1. conn'[k] = Deliver(conn[k], m)
      BY <1>1, <1>2, <2>2
    <3>2. ASSUME topic[k].closed = FALSE
          PROVE  PipeOK(conn'[k]) /\ Newest(conn'[k], view'[k]) = Shown(m) /\ topic[k].pc # "send"
      <4>1. PipeOK(conn[k]) /\ topic[k].pc # "send"
        BY <3>2 DEF PipeAt
      <4> QED
        BY <1>4, <2>2, <3>1, <4>1, DeliverPipes
    <3> QED
      BY <1>3, <2>1, <2>2, <3>2 DEF PipeAt, Newer
  <2>3. CASE topic[k].src # i
    <3>1. conn'[k] = conn[k] /\ (topic'[k].holds <=> topic[k].holds)
      BY <1>1, <1>2, <2>3
    <3>2. topic[k].holds = FALSE => topic'[k].holds = FALSE
      <4>1. topic[k].holds \in BOOLEAN /\ topic'[k].holds \in BOOLEAN
        BY DEF Base, Types, Rounds
      <4> QED
        BY <3>1, <4>1
    <3> QED
      BY <2>1, <2>3, <3>1, <3>2 DEF PipeAt, Newer
  <2> QED
    BY <2>2, <2>3
<1>6. Shaped'
  BY <1>1 DEF Shaped
<1> QED
  BY <1>5, <1>6 DEF m

\* Without navigations a round subscribes once, to an idle pipe.
LEMMA AttachPipes ==
    ASSUME Base, NEW k \in Conns, Attach(k), StaysAt(k), Shaped, PipeAt(k)
    PROVE  /\ Shaped' /\ PipeAt(k)' /\ topic'[k].closed = topic[k].closed
           /\ \A h \in Conns : h # k =>
                topic'[h] = topic[h] /\ conn'[h] = conn[h] /\ view'[h] = view[h]
           /\ topic[k].closed \/ SubscribedTo(topic[k].inst, k)
           /\ topic[k].closed = FALSE =>
                /\ topic'[k].src = topic[k].inst
                /\ Newer(k)' = Target(topic[k].inst)
<1> DEFINE i == topic[k].inst
<1>1. /\ view' = view /\ \A h \in Conns : h # k => topic'[h] = topic[h]
      /\ topic'[k].closed = topic[k].closed /\ topic[k].closed \in BOOLEAN
  BY AttachDoes DEF Base, Types, Rounds
<1>2. CASE topic[k].closed
  <2>1. conn' = conn
    BY <1>2, AttachDoes
  <2> QED
    BY <1>1, <1>2, <2>1 DEF Shaped, PipeAt
<1>3. CASE topic[k].closed = FALSE
  <2>1. topic[k].pc = "attach"
    BY AttachDoes
  <2>2. i # None /\ topic[k].dirty = FALSE /\ topic[k].src = None
    BY <2>1 DEF StaysAt
  <2>3. /\ topic'[k].src = i /\ SubscribedTo(i, k)
        /\ inst[i].data = None => /\ topic'[k].holds = FALSE
                                  /\ ~topic[k].holds => conn' = conn /\ topic'[k].pc = "idle"
        /\ inst[i].data # None =>
             /\ topic'[k].pc = IF Room(conn[k]) THEN "idle" ELSE "send"
             /\ conn' = [conn EXCEPT ![k] = Enter(@, "round", FullOf(i))]
    BY <1>3, <2>2, AttachDoes
  <2>4. conn[k] = Idle /\ view[k] = Nothing /\ topic[k].holds = FALSE
    BY <1>3, <2>2 DEF PipeAt
  <2>5. i \in Instances /\ inst[i].config \in Configs /\ inst[i].data \in SomeVersion
    BY <2>1, <2>2, Ranges DEF Sources
  <2>6. CASE inst[i].data = None
    <3>1. conn' = conn /\ topic'[k].pc = "idle"
      BY <2>3, <2>4, <2>6
    <3>2. Newer(k)' = Target(i)
      BY <1>1, <2>4, <2>6, <3>1 DEF Newer, Newest, Target, Idle
    <3> QED
      BY <1>1, <1>3, <2>2, <2>3, <3>1, <3>2 DEF Shaped, PipeAt
  <2>7. CASE inst[i].data # None
    <3> DEFINE m == FullOf(i)
               box == Append(<<>>, m)
               r == [Idle EXCEPT !.buf = box]
    <3>1. m \in Carried /\ Shown(m) = Target(i)
      BY <2>5, <2>7 DEF FullOf, Carried, Shown, Target, SomeVersion
    <3>2. Room(conn[k])
      <4>1. Len(Idle.buf) = 0
        BY DEF Idle
      <4> QED
        BY <2>4, <4>1, TopicAssumption DEF Room
    <3>3. conn' = [conn EXCEPT ![k] = r]
      BY <2>3, <2>4, <2>7, <3>2 DEF Enter, Idle
    <3> HIDE DEF m
    <3>4. box \in Seq(Carried) /\ box # <<>> /\ box[Len(box)] = m
      <4>1. <<>> \in Seq(Carried)
        OBVIOUS
      <4> QED
        BY <3>1, <4>1, LastAppended
    <3>5. Idle \in Pipe
      <4>1. <<>> \in Seq(Carried) /\ <<>> \in Seq([by : {"outbox"}, m : Carried])
        OBVIOUS
      <4> QED
        BY <4>1 DEF Idle, Pipe
    <3> HIDE DEF box
    <3>6. r \in Pipe /\ r.buf = box /\ r.out = <<>> /\ r.waiting = <<>> /\ r.task = "none"
      BY <3>4, <3>5 DEF Pipe, Idle
    <3> HIDE DEF r
    <3>7. PipeOK(r) /\ Newest(r, view[k]) = Target(i)
      BY <3>1, <3>4, <3>6 DEF PipeOK, Newest
    <3>8. /\ conn'[k] = r /\ conn' = [h \in Conns |-> conn'[h]]
          /\ \A h \in Conns : h # k => conn'[h] = conn[h]
      BY <3>3 DEF Shaped
    <3>9. topic'[k].pc = "idle"
      BY <2>3, <2>7, <3>2
    <3> QED
      BY <1>1, <1>3, <2>2, <2>3, <3>7, <3>8, <3>9 DEF Shaped, PipeAt, Newer
  <2> QED
    BY <2>6, <2>7
<1> QED
  BY <1>1, <1>2, <1>3

\* No other step changes what an open browser will show.
LEMMA OtherPipes ==
    ASSUME Base, Settled, Stays, Pipes, [Next]_vars, ~RunCallback, \A k \in Conns : ~Attach(k)
    PROVE  /\ Shaped' /\ \A k \in Conns : PipeAt(k)'
           /\ \A k \in Conns : topic'[k].closed = FALSE =>
                /\ topic[k].closed = FALSE /\ topic'[k].src = topic[k].src
                /\ Newer(k)' = Newer(k)
<1> DEFINE Goal == /\ Shaped' /\ \A k \in Conns : PipeAt(k)'
                   /\ \A k \in Conns : topic'[k].closed = FALSE =>
                        /\ topic[k].closed = FALSE /\ topic'[k].src = topic[k].src
                        /\ Newer(k)' = Newer(k)
<1> SUFFICES Goal
  OBVIOUS
<1>1. Shaped /\ \A k \in Conns : PipeAt(k)
  BY DEF Pipes
<1>2. "roam" \notin scenario /\ "expire" \notin scenario
  BY DEF Settled
<1>3. \A k \in Conns : StaysAt(k)
  BY <1>2 DEF Stays
<1>4. ASSUME conn' = conn, view' = view,
             \A k \in Conns : topic'[k].closed = FALSE =>
               /\ topic[k].closed = FALSE /\ topic'[k].src = topic[k].src
               /\ topic'[k].holds = topic[k].holds
               /\ topic'[k].pc = "send" => topic[k].pc = "send"
      PROVE  Goal
  BY <1>1, <1>4 DEF Shaped, PipeAt, Newer
<1>5. CASE conn' = conn /\ view' = view /\ topic' = topic
  BY <1>4, <1>5
<1>6. ASSUME NEW k \in Conns, OutboxSend(k) \/ Take(k) PROVE Goal
  <2>1. topic' = topic
    BY <1>6 DEF OutboxSend, Take
  <2>2. CASE topic[k].closed = FALSE
    <3>1. PipeOK(conn[k]) /\ topic[k].pc # "send"
      BY <1>1, <2>2 DEF PipeAt
    <3>2. topic[k].src # None
      <4>1. conn[k] = Idle => conn[k].task = "none" /\ conn[k].buf = <<>>
        BY DEF Idle
      <4>2. conn[k] # Idle
        BY <1>6, <4>1 DEF OutboxSend, Take
      <4> QED
        BY <1>1, <2>2, <4>2 DEF PipeAt
    <3>3. /\ PipeOK(conn'[k]) /\ Newest(conn'[k], view'[k]) = Newest(conn[k], view[k])
          /\ Shaped' /\ \A h \in Conns : h # k => conn'[h] = conn[h] /\ view'[h] = view[h]
      <4>1. CASE OutboxSend(k)
        <5>1. view' = view
          BY <4>1 DEF OutboxSend
        <5> QED
          BY <1>1, <3>1, <4>1, <5>1, OutboxPipes DEF Shaped
      <4>2. CASE Take(k)
        BY <1>1, <3>1, <4>2, TakePipes DEF Shaped
      <4> QED
        BY <1>6, <4>1, <4>2
    <3> QED
      BY <1>1, <2>1, <2>2, <3>1, <3>2, <3>3 DEF PipeAt, Newer
  <2>3. CASE topic[k].closed # FALSE
    <3>1. /\ Shaped' /\ \A h \in Conns : h # k => conn'[h] = conn[h] /\ view'[h] = view[h]
      BY <1>1, <1>6 DEF OutboxSend, Take, Shaped
    <3> QED
      BY <1>1, <2>1, <2>3, <3>1 DEF PipeAt, Newer
  <2> QED
    BY <2>2, <2>3
<1>7. ASSUME NEW k \in Conns, Navigate(k) PROVE Goal
  <2>1. /\ conn' = conn /\ view' = view /\ \A h \in Conns : h # k => topic'[h] = topic[h]
        /\ topic'[k].closed = topic[k].closed /\ topic'[k].src = topic[k].src
        /\ topic'[k].holds = topic[k].holds
        /\ topic'[k].pc = "begin" \/ topic'[k].pc = topic[k].pc
    BY <1>7, NavigateDoes
  <2> QED
    BY <1>4, <2>1
<1>8. ASSUME NEW k \in Conns, Begin(k) PROVE Goal
  <2>1. topic[k].pc = "begin"
    BY <1>8, BeginDoes
  <2>2. topic[k].src = None
    BY <1>3, <2>1 DEF StaysAt
  <2>3. /\ conn' = conn /\ view' = view /\ \A h \in Conns : h # k => topic'[h] = topic[h]
        /\ topic'[k].closed = topic[k].closed /\ topic'[k].src = topic[k].src
        /\ topic'[k].holds = topic[k].holds /\ topic'[k].pc \in {"idle", "resolve"}
    BY <1>8, <2>2, BeginDoes
  <2> QED
    BY <1>4, <2>3
<1>9. ASSUME NEW k \in Conns, Resolve(k) PROVE Goal
  <2>1. /\ conn' = conn /\ view' = view /\ \A h \in Conns : h # k => topic'[h] = topic[h]
        /\ topic'[k].closed = topic[k].closed /\ topic'[k].src = topic[k].src
        /\ topic'[k].holds = topic[k].holds
    BY <1>9, ResolveDoes
  <2>2. topic'[k].pc # "send"
    BY <1>9, ResolveDoes DEF ResolvedToNone, Resolved
  <2> QED
    BY <1>4, <2>1, <2>2
<1>10. ASSUME NEW k \in Conns, ReadDisk(k) PROVE Goal
  <2>1. /\ conn' = conn /\ view' = view /\ \A h \in Conns : h # k => topic'[h] = topic[h]
        /\ topic'[k].closed = topic[k].closed /\ topic'[k].src = topic[k].src
        /\ topic'[k].holds = topic[k].holds /\ topic'[k].pc = "read"
    BY <1>10, ReadDiskDoes
  <2> QED
    BY <1>4, <2>1
<1>11. ASSUME NEW k \in Conns, ReadDone(k) PROVE Goal
  <2>1. /\ conn' = conn /\ view' = view /\ \A h \in Conns : h # k => topic'[h] = topic[h]
        /\ topic'[k].closed = topic[k].closed /\ topic'[k].src = topic[k].src
        /\ topic'[k].holds = topic[k].holds /\ topic'[k].pc = "attach"
    BY <1>11, ReadDoneDoes
  <2> QED
    BY <1>4, <2>1
<1>12. ASSUME NEW k \in Conns, Sent(k) PROVE Goal
  <2>1. /\ conn' = conn /\ view' = view /\ \A h \in Conns : h # k => topic'[h] = topic[h]
        /\ topic'[k].closed = topic[k].closed /\ topic'[k].src = topic[k].src
        /\ topic'[k].holds = topic[k].holds /\ topic'[k].pc \in {"begin", "idle"}
    BY <1>12, SentDoes
  <2> QED
    BY <1>4, <2>1
<1>13. ASSUME NEW k \in Conns, Close(k) PROVE Goal
  <2>1. /\ conn' = [conn EXCEPT ![k] = Dropped(@)] /\ view' = view /\ topic'[k].closed = TRUE
        /\ \A h \in Conns : h # k => topic'[h] = topic[h]
    BY <1>13, CloseDoes
  <2>2. Shaped' /\ \A h \in Conns : h # k => conn'[h] = conn[h] /\ view'[h] = view[h]
    BY <1>1, <2>1 DEF Shaped
  <2> QED
    BY <1>1, <2>1, <2>2 DEF PipeAt, Newer
<1>14. CASE FollowUp \/ RefreshReads \/ RefreshDone \/ UNCHANGED vars
  BY <1>5, <1>14 DEF FollowUp, RefreshReads, RefreshDone, vars
<1>15. ASSUME NEW c \in Configs, WorkerPush(c) \/ Save(c) \/ Collect(c) \/ Refresh(c) PROVE Goal
  BY <1>5, <1>15 DEF WorkerPush, Save, Collect, Refresh
<1>16. ASSUME NEW i \in Instances, Expire(i) PROVE Goal
  BY <1>5, <1>16 DEF Expire
<1> HIDE DEF Goal
<1>17. ASSUME NEW k \in Conns,
              OutboxSend(k) \/ Take(k) \/ Navigate(k) \/ Begin(k) \/ Resolve(k)
              \/ ReadDisk(k) \/ ReadDone(k) \/ Attach(k) \/ Sent(k) \/ Close(k)
       PROVE  Goal
  BY <1>6, <1>7, <1>8, <1>9, <1>10, <1>11, <1>12, <1>13, <1>17
<1>18. CASE Next
  BY <1>14, <1>15, <1>16, <1>17, <1>18 DEF Next
<1> QED
  BY <1>14, <1>18

-----------------------------------------------------------------------------
(* Sources that only reads change.                                         *)

\* Sources with a whole table on its way to their viewers.
Fulls == {calls[n].i : n \in {m \in 1..Len(calls) : calls[m].full # None}}

LEMMA CallsTyped ==
    ASSUME Base
    PROVE  /\ calls \in Seq(Callbacks)
           /\ \A n \in 1..Len(calls) : calls[n] \in Callbacks /\ calls[n].i \in Instances
<1>1. calls \in Seq(Callbacks)
  BY DEF Base, Types
<1>2. \A n \in 1..Len(calls) : calls[n] \in Callbacks
  BY <1>1
<1> QED
  BY <1>1, <1>2 DEF Callbacks

\* A queued table is the current one: who has read a source publishes after the tables
\* that were queued before its thread reported back are delivered.
Orderly ==
    /\ \A i \in Instances : inst[i].inbox = <<>>
    /\ \A n \in 1..Len(calls) : calls[n].full # None => calls[n].full = inst[calls[n].i].data
    /\ \A k \in Conns : topic[k].pc = "done" => topic[k].inst \notin Fulls
    /\ watch.inst # None /\ watch.read => watch.inst \notin Fulls
    /\ \A m, n \in 1..Len(calls) : calls[m].full # None =>
         /\ calls[n].who \in Conns /\ calls[m].i = topic[calls[n].who].inst => m < n
         /\ calls[n].who = Manager /\ calls[m].i = watch.inst => m < n

LEMMA OrderlyKept ==
    ASSUME Base, Orderly,
           \A i \in Instances : inst'[i].data = inst[i].data /\ inst'[i].inbox = inst[i].inbox,
           calls' = calls \/ \E r \in Callbacks : calls' = Append(calls, r) /\ r.full = None,
           \A k \in Conns :
             \/ /\ topic'[k].inst = topic[k].inst
                /\ topic'[k].pc = "done" => topic[k].pc = "done"
             \/ topic[k].pc # "read" /\ topic'[k].pc # "done",
           \/ watch'.inst = watch.inst /\ watch'.read = watch.read
           \/ watch.inst = None /\ watch'.read = FALSE
    PROVE  Orderly' /\ \A i \in Instances : i \in Fulls => i \in Fulls'
<1>1. /\ calls \in Seq(Callbacks)
      /\ \A n \in 1..Len(calls) : calls[n] \in Callbacks /\ calls[n].i \in Instances
  BY CallsTyped
<1>2. /\ \A n \in 1..Len(calls) : n \in 1..Len(calls') /\ calls'[n] = calls[n]
      /\ \A n \in 1..Len(calls') :
           \/ n \in 1..Len(calls)
           \/ calls'[n].full = None /\ \A m \in 1..Len(calls) : m < n
  <2>1. CASE calls' = calls
    BY <2>1
  <2>2. ASSUME NEW r \in Callbacks, calls' = Append(calls, r), r.full = None
        PROVE  /\ \A n \in 1..Len(calls) : n \in 1..Len(calls') /\ calls'[n] = calls[n]
               /\ \A n \in 1..Len(calls') :
                    \/ n \in 1..Len(calls)
                    \/ calls'[n].full = None /\ \A m \in 1..Len(calls) : m < n
    <3>1. /\ Len(calls) \in Nat /\ calls'[Len(calls) + 1] = r
          /\ \A n \in 1..Len(calls) : n \in 1..Len(calls') /\ calls'[n] = calls[n]
          /\ \A n \in 1..Len(calls') : n \in 1..Len(calls) \/ n = Len(calls) + 1
      BY <1>1, <2>2, CallsAppended
    <3> QED
      BY <2>2, <3>1
  <2> QED
    BY <2>1, <2>2
<1>3. \A i : i \in Fulls' <=> i \in Fulls
  BY <1>2 DEF Fulls
<1>4. \A n \in 1..Len(calls') : calls'[n].full # None => calls'[n].full = inst'[calls'[n].i].data
  BY <1>1, <1>2 DEF Orderly
<1>5. \A k \in Conns : topic'[k].pc = "done" => topic'[k].inst \notin Fulls'
  BY <1>3 DEF Orderly
<1>6. watch'.inst # None /\ watch'.read => watch'.inst \notin Fulls'
  BY <1>3 DEF Orderly
<1>7. ASSUME NEW m \in 1..Len(calls'), NEW n \in 1..Len(calls'), calls'[m].full # None
      PROVE  /\ calls'[n].who \in Conns /\ calls'[m].i = topic'[calls'[n].who].inst => m < n
             /\ calls'[n].who = Manager /\ calls'[m].i = watch'.inst => m < n
  <2>1. m \in 1..Len(calls) /\ calls[m].full # None /\ calls[m].i = calls'[m].i
    BY <1>2, <1>7
  <2>2. CASE n \notin 1..Len(calls)
    BY <1>2, <2>1, <2>2
  <2>3. CASE n \in 1..Len(calls)
    <3>1. calls'[n] = calls[n]
      BY <1>2, <2>3
    <3>2. calls[n].who \in Conns => topic'[calls[n].who].inst = topic[calls[n].who].inst
      BY <2>3 DEF Base, Reports
    <3>3. calls[n].who = Manager => watch'.inst = watch.inst
      BY <2>3 DEF Base, Reports
    <3> QED
      BY <2>1, <2>3, <3>1, <3>2, <3>3 DEF Orderly
  <2> QED
    BY <2>2, <2>3
<1>8. \A i \in Instances : inst'[i].inbox = <<>>
  BY DEF Orderly
<1> QED
  BY <1>3, <1>4, <1>5, <1>6, <1>7, <1>8 DEF Orderly

LEMMA OrderlyPublished ==
    ASSUME Base, Orderly, NEW i \in Instances, NEW v \in Nat, NEW mark, Published(i, v, mark),
           i \notin Fulls,
           \A k \in Conns : topic[k].pc = "read" =>
             topic'[k].inst = topic[k].inst /\ topic[k].inst # i,
           \A k \in Conns : topic'[k].pc = "done" =>
             topic[k].pc = "done" /\ topic'[k].inst = topic[k].inst /\ topic[k].inst # i,
           \/ watch'.inst = None /\ watch.read = TRUE
           \/ watch.inst # i /\ watch'.inst = watch.inst /\ watch'.read = watch.read
    PROVE  /\ Orderly' /\ \A j \in Instances : j \in Fulls => j \in Fulls'
           /\ inst[i].data # v /\ inst[i].subs # {} => i \in Fulls'
<1>1. /\ calls \in Seq(Callbacks)
      /\ \A n \in 1..Len(calls) : calls[n] \in Callbacks /\ calls[n].i \in Instances
  BY CallsTyped
<1> DEFINE r == [i |-> i, full |-> v, who |-> None]
<1>2. r \in Callbacks /\ r.i = i /\ r.full = v /\ r.who = None /\ v # None
  BY TopicAssumption DEF Callbacks, SomeVersion, Tasks
<1>3. \/ calls' = calls /\ (inst[i].data = v \/ inst[i].subs = {})
      \/ calls' = Append(calls, r)
  BY DEF Published, Call
<1>4. \A n \in 1..Len(calls) : calls[n].full # None => calls[n].i # i
  BY DEF Fulls
<1> HIDE DEF r
<1>5. /\ \A n \in 1..Len(calls) : n \in 1..Len(calls') /\ calls'[n] = calls[n]
      /\ \A n \in 1..Len(calls') : n \in 1..Len(calls) \/ calls'[n] = r
      /\ calls' = Append(calls, r) => \E n \in 1..Len(calls') : calls'[n] = r
  <2>1. CASE calls' = calls /\ calls' # Append(calls, r)
    BY <2>1
  <2>2. CASE calls' = Append(calls, r)
    <3>1. /\ Len(calls) \in Nat /\ calls'[Len(calls) + 1] = r /\ Len(calls') = Len(calls) + 1
          /\ \A n \in 1..Len(calls) : n \in 1..Len(calls') /\ calls'[n] = calls[n]
          /\ \A n \in 1..Len(calls') : n \in 1..Len(calls) \/ n = Len(calls) + 1
      BY <1>1, <1>2, <2>2, CallsAppended
    <3>2. Len(calls) + 1 \in 1..Len(calls')
      BY <3>1
    <3> QED
      BY <3>1, <3>2
  <2> QED
    BY <1>3, <2>1, <2>2
<1>6. \A j \in Instances : j # i => (j \in Fulls' <=> j \in Fulls) /\ inst'[j] = inst[j]
  BY <1>2, <1>5 DEF Fulls, Published, Elsewhere
<1>7. \A j \in Instances : j \in Fulls => j \in Fulls'
  BY <1>6
<1>8. inst[i].data # v /\ inst[i].subs # {} => i \in Fulls'
  BY <1>2, <1>3, <1>5 DEF Fulls
<1>9. \A n \in 1..Len(calls') : calls'[n].full # None => calls'[n].full = inst'[calls'[n].i].data
  <2>1. inst'[i].data = v
    BY DEF Published
  <2> QED
    BY <1>1, <1>2, <1>4, <1>5, <1>6, <2>1 DEF Orderly
<1>10. \A k \in Conns : topic'[k].pc = "done" => topic'[k].inst \notin Fulls'
  <2>1. \A k \in Conns : topic[k].pc = "done" => topic[k].inst \in Instances
    BY Ranges DEF Reads
  <2> QED
    BY <1>6, <2>1 DEF Orderly
<1>11. watch'.inst # None /\ watch'.read => watch'.inst \notin Fulls'
  <2>1. watch.inst # None => watch.inst \in Instances
    BY Ranges
  <2> QED
    BY <1>6, <2>1 DEF Orderly
<1>12. ASSUME NEW m \in 1..Len(calls'), NEW n \in 1..Len(calls'), calls'[m].full # None
       PROVE  /\ calls'[n].who \in Conns /\ calls'[m].i = topic'[calls'[n].who].inst => m < n
              /\ calls'[n].who = Manager /\ calls'[m].i = watch'.inst => m < n
  <2>1. CASE n \notin 1..Len(calls)
    BY <1>2, <1>5, <2>1, TopicAssumption
  <2>2. CASE n \in 1..Len(calls)
    <3>1. calls'[n] = calls[n]
      BY <1>5, <2>2
    <3>2. calls[n].who \in Conns =>
            /\ topic'[calls[n].who].inst = topic[calls[n].who].inst
            /\ topic[calls[n].who].inst # i
      BY <2>2 DEF Base, Reports
    <3>3. calls[n].who = Manager => watch'.inst = watch.inst /\ watch.inst # i
      BY <2>2 DEF Base, Reports
    <3>4. CASE m \in 1..Len(calls)
      BY <1>5, <1>12, <2>2, <3>1, <3>2, <3>3, <3>4 DEF Orderly
    <3>5. CASE m \notin 1..Len(calls)
      BY <1>2, <1>5, <3>1, <3>2, <3>3, <3>5
    <3> QED
      BY <3>4, <3>5
  <2> QED
    BY <2>1, <2>2
<1>13. \A j \in Instances : inst'[j].inbox = <<>>
  BY <1>6 DEF Orderly, Published
<1> QED
  BY <1>7, <1>8, <1>9, <1>10, <1>11, <1>12, <1>13 DEF Orderly

LEMMA OrderlyTaken ==
    ASSUME Base, Orderly, RunCallback
    PROVE  /\ Orderly'
           /\ \A j \in Instances : j # calls[1].i \/ calls[1].full = None => (j \in Fulls => j \in Fulls')
           /\ \A j \in Instances : inst'[j] = inst[j]
           /\ Delivered(calls[1].i, calls[1].full) => calls[1].full # None
<1>1. /\ calls \in Seq(Callbacks) /\ calls # <<>> /\ calls' = Tail(calls)
      /\ \A n \in 1..Len(calls) : calls[n] \in Callbacks /\ calls[n].i \in Instances
  BY RunDoes, CallsTyped
<1>2. /\ 1 \in 1..Len(calls)
      /\ \A n \in 1..Len(calls') : n + 1 \in 1..Len(calls) /\ calls'[n] = calls[n + 1]
      /\ \A n \in 1..Len(calls) : n # 1 => n - 1 \in 1..Len(calls') /\ calls'[n - 1] = calls[n]
  BY <1>1, CallsShifted
<1>3. Delivered(calls[1].i, calls[1].full) => calls[1].full # None
  BY <1>1, <1>2 DEF Delivered, Orderly
<1>4. /\ \A j \in Instances : inst'[j] = inst[j]
      /\ watch'.inst = watch.inst /\ \A k \in Conns : topic'[k].inst = topic[k].inst
  <2>1. CASE calls[1].who \in Conns /\ Answered(calls[1].who)
    BY <2>1 DEF Answered
  <2>2. CASE Informed
    BY <2>2 DEF Informed
  <2>3. CASE UNCHANGED <<inst, conn, topic, watch>>
    BY <2>3
  <2>4. CASE Delivered(calls[1].i, calls[1].full)
    <3>1. calls[1].full # None
      BY <1>3, <2>4
    <3> QED
      BY <2>4, <3>1 DEF Delivered, Elsewhere, SameRound
  <2> QED
    BY <2>1, <2>2, <2>3, <2>4, RunDoes
<1>5. /\ \A k \in Conns : topic'[k].pc = "done" => topic[k].pc = "done" \/ calls[1].who = k
      /\ watch'.read => watch.read \/ calls[1].who = Manager
  <2>1. CASE calls[1].who \in Conns /\ Answered(calls[1].who)
    BY <2>1 DEF Answered
  <2>2. CASE calls[1].who = Manager /\ Informed
    BY <2>2 DEF Informed
  <2>3. CASE UNCHANGED <<inst, conn, topic, watch>>
    BY <2>3
  <2>4. CASE Delivered(calls[1].i, calls[1].full)
    BY <2>4 DEF Delivered, SameRound
  <2> QED
    BY <2>1, <2>2, <2>3, <2>4, RunDoes
<1>6. \A j : j \in Fulls' => \E n \in 1..Len(calls) : n > 1 /\ calls[n].i = j /\ calls[n].full # None
  <2>1. Len(calls') \in Nat
    BY <1>1, CallsShifted
  <2> SUFFICES ASSUME NEW j, NEW n \in 1..Len(calls'), calls'[n].i = j, calls'[n].full # None
               PROVE  \E p \in 1..Len(calls) : p > 1 /\ calls[p].i = j /\ calls[p].full # None
    BY DEF Fulls
  <2>2. n + 1 \in 1..Len(calls) /\ n + 1 > 1 /\ calls'[n] = calls[n + 1]
    BY <1>2, <2>1
  <2> QED
    BY <2>2
<1>7. \A j \in Instances : j # calls[1].i \/ calls[1].full = None => (j \in Fulls => j \in Fulls')
  <2> SUFFICES ASSUME NEW j \in Instances, j # calls[1].i \/ calls[1].full = None,
                      NEW n \in 1..Len(calls), calls[n].i = j, calls[n].full # None
               PROVE  j \in Fulls'
    BY DEF Fulls
  <2>1. n # 1
    OBVIOUS
  <2>2. n - 1 \in 1..Len(calls') /\ calls'[n - 1] = calls[n]
    BY <1>2, <2>1
  <2> QED
    BY <2>2 DEF Fulls
<1>8. \A n \in 1..Len(calls') : calls'[n].full # None => calls'[n].full = inst'[calls'[n].i].data
  BY <1>1, <1>2, <1>4 DEF Orderly
<1>9. ASSUME NEW k \in Conns, topic'[k].pc = "done" PROVE topic'[k].inst \notin Fulls'
  <2>1. CASE topic[k].pc = "done"
    <3>1. topic[k].inst \notin Fulls /\ topic'[k].inst = topic[k].inst
      BY <1>4, <2>1 DEF Orderly
    <3>2. \A j : j \in Fulls' => j \in Fulls
      <4>1. \A n \in 1..Len(calls) : calls[n].full # None => calls[n].i \in Fulls
        BY DEF Fulls
      <4> QED
        BY <1>6, <4>1
    <3> QED
      BY <3>1, <3>2
  <2>2. CASE calls[1].who = k
    <3>1. \A m \in 1..Len(calls) : calls[m].full # None /\ calls[m].i = topic[k].inst => m < 1
      BY <1>2, <2>2 DEF Orderly
    <3>2. \A m \in 1..Len(calls) : m > 1 => ~(m < 1)
      OBVIOUS
    <3> QED
      BY <1>4, <1>6, <3>1, <3>2
  <2> QED
    BY <1>5, <1>9, <2>1, <2>2
<1>10. ASSUME watch'.inst # None, watch'.read PROVE watch'.inst \notin Fulls'
  <2>1. CASE watch.read
    BY <1>4, <1>6, <1>10, <2>1 DEF Orderly, Fulls
  <2>2. CASE calls[1].who = Manager
    <3>1. \A m \in 1..Len(calls) : calls[m].full # None /\ calls[m].i = watch.inst => m < 1
      BY <1>2, <2>2 DEF Orderly
    <3>2. \A m \in 1..Len(calls) : m > 1 => ~(m < 1)
      OBVIOUS
    <3> QED
      BY <1>4, <1>6, <3>1, <3>2
  <2> QED
    BY <1>5, <1>10, <2>1, <2>2
<1>11. ASSUME NEW m \in 1..Len(calls'), NEW n \in 1..Len(calls'), calls'[m].full # None
       PROVE  /\ calls'[n].who \in Conns /\ calls'[m].i = topic'[calls'[n].who].inst => m < n
              /\ calls'[n].who = Manager /\ calls'[m].i = watch'.inst => m < n
  <2>1. /\ m + 1 \in 1..Len(calls) /\ calls'[m] = calls[m + 1]
        /\ n + 1 \in 1..Len(calls) /\ calls'[n] = calls[n + 1]
    BY <1>2
  <2>2. /\ calls[n + 1].who \in Conns /\ calls[m + 1].i = topic[calls[n + 1].who].inst => m + 1 < n + 1
        /\ calls[n + 1].who = Manager /\ calls[m + 1].i = watch.inst => m + 1 < n + 1
    BY <1>11, <2>1 DEF Orderly
  <2>3. m + 1 < n + 1 => m < n
    <3>1. m \in Nat /\ n \in Nat
      <4>1. Len(calls') \in Nat
        BY <1>1, CallsShifted
      <4> QED
        BY <4>1
    <3> QED
      BY <3>1
  <2> QED
    BY <1>4, <2>1, <2>2, <2>3
<1>12. \A j \in Instances : inst'[j].inbox = <<>>
  BY <1>4 DEF Orderly
<1> QED
  BY <1>3, <1>4, <1>7, <1>8, <1>9, <1>10, <1>11, <1>12 DEF Orderly

LEMMA PipesStep ==
    ASSUME Base, Stays, Pipes, [Next]_vars
    PROVE  Pipes'
<1>1. scenario' = scenario
  BY RegistryMoves
<1> SUFFICES ASSUME Settled PROVE Shaped' /\ \A k \in Conns : PipeAt(k)'
  BY <1>1 DEF Pipes, Settled
<1>2. Shaped /\ \A k \in Conns : PipeAt(k)
  BY DEF Pipes
<1>3. CASE RunCallback
  <2>1. ASSUME UNCHANGED conn, \A k \in Conns : /\ topic'[k].closed = topic[k].closed
                                                /\ topic'[k].src = topic[k].src
                                                /\ topic'[k].holds = topic[k].holds
                                                /\ topic'[k].pc \in {topic[k].pc, "done"}
        PROVE  Shaped' /\ \A k \in Conns : PipeAt(k)'
    <3>1. view' = view
      BY <1>3, RunDoes
    <3> QED
      BY <1>2, <2>1, <3>1 DEF Shaped, PipeAt
  <2>2. CASE calls[1].who \in Conns /\ Answered(calls[1].who)
    BY <2>1, <2>2 DEF Answered
  <2>3. CASE Informed
    BY <2>1, <2>3 DEF Informed
  <2>4. CASE UNCHANGED <<inst, conn, topic, watch>>
    BY <2>1, <2>4
  <2>5. CASE Delivered(calls[1].i, calls[1].full)
    <3>1. /\ calls[1].i \in Instances /\ calls[1].full \in SomeVersion /\ view' = view
          /\ topic' \in [Conns -> Rounds]
      BY <1>3, RunDoes DEF Callbacks
    <3> QED
      BY <1>2, <2>5, <3>1, DeliveredPipes
  <2> QED
    BY <1>3, <2>2, <2>3, <2>4, <2>5, RunDoes
<1>4. ASSUME NEW k \in Conns, Attach(k) PROVE Shaped' /\ \A h \in Conns : PipeAt(h)'
  <2>1. StaysAt(k) /\ PipeAt(k)
    BY <1>2 DEF Stays, Settled
  <2>2. /\ Shaped' /\ PipeAt(k)'
        /\ \A h \in Conns : h # k => topic'[h] = topic[h] /\ conn'[h] = conn[h] /\ view'[h] = view[h]
    BY <1>2, <1>4, <2>1, AttachPipes
  <2> QED
    BY <1>2, <2>2 DEF PipeAt
<1>5. CASE ~RunCallback /\ \A k \in Conns : ~Attach(k)
  BY <1>5, OtherPipes
<1> QED
  BY <1>3, <1>4, <1>5

LEMMA InitPipes ==
    ASSUME Init
    PROVE  Pipes
<1>1. /\ conn = [k \in Conns |-> Idle] /\ view = [k \in Conns |-> Nothing]
      /\ \A k \in Conns : topic[k].pc = "idle" /\ topic[k].holds = FALSE
  BY DEF Init, Idle
<1>2. PipeOK(Idle)
  <2>1. <<>> \in Seq(Carried) /\ <<>> \in Seq([by : {"outbox"}, m : Carried])
    OBVIOUS
  <2> QED
    BY <2>1 DEF Idle, PipeOK, Pipe
<1>3. Shaped
  BY <1>1 DEF Shaped
<1> QED
  BY <1>1, <1>2, <1>3 DEF Pipes, PipeAt

\* No other step breaks that order, and data that changes is on its way to the viewers.
LEMMA OrderlyStep ==
    ASSUME Base, Orderly, Settled, "event" \notin scenario, [Next]_vars, ~RunCallback
    PROVE  /\ Orderly' /\ \A i \in Instances : i \in Fulls => i \in Fulls'
           /\ \A i \in Instances :
                inst'[i].data # inst[i].data /\ inst[i].subs # {} => i \in Fulls'
<1> DEFINE Goal == /\ Orderly' /\ \A i \in Instances : i \in Fulls => i \in Fulls'
                   /\ \A i \in Instances :
                        inst'[i].data # inst[i].data /\ inst[i].subs # {} => i \in Fulls'
<1> SUFFICES Goal
  OBVIOUS
<1> DEFINE SameData == \A i \in Instances :
             inst'[i].data = inst[i].data /\ inst'[i].inbox = inst[i].inbox
           SameReads == watch'.inst = watch.inst /\ watch'.read = watch.read
           SameRounds == \A k \in Conns :
             \/ /\ topic'[k].inst = topic[k].inst
                /\ topic'[k].pc = "done" => topic[k].pc = "done"
             \/ topic[k].pc # "read" /\ topic'[k].pc # "done"
           SameCalls == calls' = calls \/ \E r \in Callbacks : calls' = Append(calls, r) /\ r.full = None
<1>1. ASSUME SameData, SameCalls, SameRounds,
             SameReads \/ (watch.inst = None /\ watch'.read = FALSE)
      PROVE  Goal
  BY <1>1, OrderlyKept
<1>2. ASSUME UNCHANGED <<inst, calls, topic, watch>> PROVE Goal
  BY <1>1, <1>2
<1>3. ASSUME NEW k \in Conns, OutboxSend(k) \/ Take(k) PROVE Goal
  BY <1>2, <1>3 DEF OutboxSend, Take
<1>4. ASSUME NEW k \in Conns, Navigate(k) PROVE Goal
  <2>1. SameRounds /\ SameReads
    BY <1>4, NavigateDoes
  <2> QED
    BY <1>1, <1>4, <2>1, NavigateDoes
<1>5. ASSUME NEW k \in Conns, Sent(k) PROVE Goal
  <2>1. SameRounds /\ SameReads
    BY <1>5, SentDoes
  <2> QED
    BY <1>1, <1>5, <2>1, SentDoes
<1>6. ASSUME NEW k \in Conns, inst' = Left(k) PROVE SameData
  BY <1>6, LeftDoes DEF SameSource, Base
<1>7. ASSUME NEW k \in Conns, watch' = LeftWatch(k), inst' = Left(k) PROVE SameReads
  <2>1. SameRefresh
    BY <1>7, LeftWatchDoes DEF Base
  <2> QED
    BY <2>1 DEF SameRefresh
<1>8. ASSUME NEW k \in Conns, Begin(k) PROVE Goal
  <2>1. SameData
    BY <1>6, <1>8, BeginDoes
  <2>2. SameReads
    BY <1>7, <1>8, BeginDoes
  <2>3. SameRounds
    BY <1>8, BeginDoes
  <2> QED
    BY <1>1, <1>8, <2>1, <2>2, <2>3, BeginDoes
<1>9. ASSUME NEW k \in Conns, Close(k) PROVE Goal
  <2>1. SameData /\ SameReads /\ SameRounds
    BY <1>6, <1>7, <1>9, CloseDoes
  <2> QED
    BY <1>1, <1>9, <2>1, CloseDoes
<1>10. ASSUME NEW k \in Conns, Resolve(k) PROVE Goal
  <2>1. SameData
    BY <1>10, ResolveDoes DEF Resolved, ResolvedToNone, Elsewhere
  <2>2. SameRounds
    BY <1>10, ResolveDoes DEF Resolved, ResolvedToNone
  <2>3. SameReads
    BY <1>10, ResolveDoes DEF SameRefresh
  <2> QED
    BY <1>1, <1>10, <2>1, <2>2, <2>3, ResolveDoes
<1>11. ASSUME NEW k \in Conns, ReadDisk(k) PROVE Goal
  <2> DEFINE r == [i |-> topic[k].inst, full |-> None, who |-> k]
  <2>1. r \in Callbacks /\ calls' = Append(calls, r) /\ r.full = None
    BY <1>11, ReadDiskDoes
  <2> HIDE DEF r
  <2>2. SameRounds /\ SameReads /\ SameData
    BY <1>11, ReadDiskDoes
  <2> QED
    BY <1>1, <2>1, <2>2
<1>12. CASE RefreshReads
  <2> DEFINE r == [i |-> watch.inst, full |-> None, who |-> Manager]
  <2>1. r \in Callbacks /\ calls' = Append(calls, r) /\ r.full = None
    BY <1>12, RefreshReadsDoes
  <2> HIDE DEF r
  <2>2. SameRounds /\ SameReads /\ SameData
    BY <1>12, RefreshReadsDoes
  <2> QED
    BY <1>1, <2>1, <2>2
<1>13. ASSUME NEW k \in Conns, Attach(k) PROVE Goal
  <2>1. SameData
    BY <1>13, AttachDoes DEF SubscribedTo, SameSource, Elsewhere
  <2>2. SameRounds
    BY <1>13, AttachDoes
  <2>3. SameReads
    BY <1>13, AttachDoes DEF SameRefresh
  <2> QED
    BY <1>1, <1>13, <2>1, <2>2, <2>3, AttachDoes
<1>14. CASE FollowUp
  <2>1. SameData
    <3>1. inst[pend.inst] \in Sources
      BY <1>14, FollowUpDoes, Ranges
    <3>2. /\ [inst[pend.inst] EXCEPT !.dirty = @ + 1].data = inst[pend.inst].data
          /\ [inst[pend.inst] EXCEPT !.dirty = @ + 1].inbox = inst[pend.inst].inbox
      BY <3>1 DEF Sources
    <3> QED
      BY <1>14, <3>2, FollowUpDoes DEF Elsewhere
  <2>2. SameReads
    BY <1>14, FollowUpDoes DEF SameRefresh
  <2> QED
    BY <1>1, <1>14, <2>1, <2>2, FollowUpDoes
<1>15. ASSUME NEW c \in Configs, Save(c) PROVE Goal
  <2>1. SameData
    <3>1. PICK i \in Instances : Elsewhere(i) /\ inst'[i] = [inst[i] EXCEPT !.config = c]
      BY <1>15, SaveDoes
    <3>2. inst[i] \in Sources
      BY Ranges
    <3>3. inst'[i].data = inst[i].data /\ inst'[i].inbox = inst[i].inbox
      BY <3>1, <3>2 DEF Sources
    <3> QED
      BY <3>1, <3>3 DEF Elsewhere
  <2> QED
    BY <1>1, <1>15, <2>1, SaveDoes
<1>16. ASSUME NEW c \in Configs, Refresh(c) PROVE Goal
  <2>1. SameData
    BY <1>16, RefreshDoes DEF Refreshed, Elsewhere
  <2> QED
    BY <1>1, <1>16, <2>1, RefreshDoes
<1>17. ASSUME NEW i \in Instances, NEW v \in Nat, NEW mark, Published(i, v, mark), i \notin Fulls,
              \A k \in Conns : topic[k].pc = "read" =>
                topic'[k].inst = topic[k].inst /\ topic[k].inst # i,
              \A k \in Conns : topic'[k].pc = "done" =>
                topic[k].pc = "done" /\ topic'[k].inst = topic[k].inst /\ topic[k].inst # i,
              \/ watch'.inst = None /\ watch.read = TRUE
              \/ watch.inst # i /\ watch'.inst = watch.inst /\ watch'.read = watch.read
       PROVE  Goal
  <2>1. /\ Orderly' /\ \A j \in Instances : j \in Fulls => j \in Fulls'
        /\ inst[i].data # v /\ inst[i].subs # {} => i \in Fulls'
    BY <1>17, OrderlyPublished
  <2> QED
    BY <1>17, <2>1 DEF Published, Elsewhere
<1>18. ASSUME NEW k \in Conns, ReadDone(k) PROVE Goal
  <2> DEFINE i == topic[k].inst
  <2>1. /\ i \in Instances /\ topic[k].val \in Nat /\ Published(i, topic[k].val, topic[k].mark)
        /\ topic[k].pc = "done" /\ inst[i].reader = k
    BY <1>18, ReadDoneDoes, Ranges DEF Reads
  <2>2. i \notin Fulls
    BY <2>1 DEF Orderly
  <2>3. \A h \in Conns : h # k => topic'[h] = topic[h] /\ (Reads(h) => topic[h].inst # i)
    BY <1>18, <2>1, ReadDoneDoes, Ranges
  <2>4. topic'[k].pc = "attach"
    BY <1>18, ReadDoneDoes
  <2>5. watch.inst # i /\ watch'.inst = watch.inst /\ watch'.read = watch.read
    BY <1>18, <2>1, ReadDoneDoes, Ranges DEF SameRefresh
  <2> QED
    BY <1>17, <2>1, <2>2, <2>3, <2>4, <2>5 DEF Reads
<1>19. CASE RefreshDone
  <2> DEFINE i == watch.inst
  <2>1. /\ i \in Instances /\ watch.val \in Nat /\ Published(i, watch.val, watch.mark)
        /\ watch.read = TRUE /\ watch'.inst = None /\ topic' = topic /\ inst[i].reader = Manager
    BY <1>19, RefreshDoneDoes, Ranges
  <2>2. i \notin Fulls
    BY <2>1, Ranges DEF Orderly
  <2>3. \A h \in Conns : Reads(h) => topic[h].inst # i
    BY <2>1, Ranges
  <2> QED
    BY <1>17, <2>1, <2>2, <2>3 DEF Reads
<1>20. ASSUME NEW c \in Configs, WorkerPush(c) \/ Collect(c) PROVE Goal
  BY <1>20 DEF WorkerPush, Collect, Settled
<1>21. ASSUME NEW i \in Instances, Expire(i) PROVE Goal
  BY <1>21 DEF Expire, Settled
<1>22. CASE UNCHANGED vars
  BY <1>2, <1>22 DEF vars
<1> HIDE DEF Goal
<1>23. ASSUME NEW k \in Conns,
              OutboxSend(k) \/ Take(k) \/ Navigate(k) \/ Begin(k) \/ Resolve(k)
              \/ ReadDisk(k) \/ ReadDone(k) \/ Attach(k) \/ Sent(k) \/ Close(k)
       PROVE  Goal
  BY <1>3, <1>4, <1>5, <1>8, <1>9, <1>10, <1>11, <1>13, <1>18, <1>23
<1>24. ASSUME NEW c \in Configs, WorkerPush(c) \/ Save(c) \/ Collect(c) \/ Refresh(c) PROVE Goal
  BY <1>15, <1>16, <1>20, <1>24
<1>25. CASE Next
  BY <1>12, <1>14, <1>19, <1>21, <1>23, <1>24, <1>25 DEF Next
<1> QED
  BY <1>22, <1>25

\* A viewer was sent what its source holds, or that is on its way.
Caught(k) == topic[k].closed = FALSE /\ topic[k].src # None =>
               Newer(k) = Target(topic[k].src) \/ topic[k].src \in Fulls
ByReads == Settled /\ "event" \notin scenario => Orderly /\ \A k \in Conns : Caught(k)

LEMMA ByReadsStep ==
    ASSUME Base, Base', Stays, Pipes, ByReads, [Next]_vars
    PROVE  ByReads'
<1>1. scenario' = scenario
  BY RegistryMoves
<1> SUFFICES ASSUME Settled, "event" \notin scenario
             PROVE  Orderly' /\ \A k \in Conns : Caught(k)'
  BY <1>1 DEF ByReads, Settled
<1>2. /\ Orderly /\ Shaped /\ \A k \in Conns : Caught(k) /\ PipeAt(k) /\ StaysAt(k)
  BY DEF ByReads, Pipes, Stays, Settled
<1>3. \A i \in Instances : inst[i].config # None => inst'[i].config = inst[i].config
  BY ConfigsKept
<1>4. \A k \in Conns : topic[k].src # None =>
        /\ topic[k].src \in Instances /\ inst[topic[k].src].config # None
        /\ k \in inst[topic[k].src].subs
  <2>1. \A k \in Conns : topic[k].src # None => topic[k].src \in Instances
    BY Ranges DEF SomeInstance
  <2> QED
    BY <2>1, Ranges DEF Base, Subscriptions
<1>5. CASE RunCallback
  <2> DEFINE j == calls[1].i
             full == calls[1].full
  <2>1. /\ Orderly' /\ \A i \in Instances : i # j \/ full = None => (i \in Fulls => i \in Fulls')
        /\ \A i \in Instances : inst'[i] = inst[i]
        /\ Delivered(j, full) => full # None
    BY <1>2, <1>5, OrderlyTaken
  <2>2. /\ j \in Instances /\ full \in SomeVersion /\ view' = view /\ topic' \in [Conns -> Rounds]
        /\ full # None => full = inst[j].data
    <3>1. calls[1] \in Callbacks /\ 1 \in 1..Len(calls) /\ view' = view
          /\ topic' \in [Conns -> Rounds]
      BY <1>5, RunDoes, CallsTyped, CallsShifted
    <3> QED
      BY <1>2, <3>1 DEF Callbacks, Orderly
  <2>3. CASE Delivered(j, full)
    <3>1. \A k \in Conns :
            /\ topic'[k].closed = topic[k].closed /\ topic'[k].src = topic[k].src
            /\ topic[k].src = j /\ topic[k].closed = FALSE =>
                 Newer(k)' = Shown(Broadcast(j, full))
            /\ topic[k].src # j => Newer(k)' = Newer(k)
      BY <1>2, <2>2, <2>3, DeliveredPipes
    <3>2. Shown(Broadcast(j, full)) = Target(j)
      BY <2>1, <2>2, <2>3 DEF Broadcast, Shown, Target
    <3>3. ASSUME NEW k \in Conns, topic'[k].closed = FALSE, topic'[k].src # None
          PROVE  Newer(k)' = Target(topic[k].src) \/ topic[k].src \in Fulls'
      <4>1. CASE topic[k].src = j
        BY <3>1, <3>2, <3>3, <4>1
      <4>2. CASE topic[k].src # j
        BY <1>2, <1>4, <2>1, <3>1, <3>3, <4>2 DEF Caught
      <4> QED
        BY <4>1, <4>2
    <3> QED
      BY <1>4, <2>1, <3>1, <3>3 DEF Caught, Target
  <2>4. CASE ~Delivered(j, full)
    <3>1. /\ conn' = conn /\ full = None
          /\ \A k \in Conns : topic'[k].closed = topic[k].closed /\ topic'[k].src = topic[k].src
      <4>1. \A n \in 1..Len(calls) : calls[n].who # None => calls[n].full = None
        BY DEF Base, Reports
      <4>2. 1 \in 1..Len(calls) /\ Manager # None /\ None \notin Conns
        BY <1>5, RunDoes, CallsTyped, CallsShifted, Ranges
      <4> QED
        BY <1>5, <2>4, <4>1, <4>2, RunDoes DEF Answered, Informed
    <3> QED
      BY SMTT(30), <1>2, <1>4, <2>1, <2>2, <3>1 DEF Caught, Newer, Target
  <2> QED
    BY <2>1, <2>3, <2>4
<1>6. CASE ~RunCallback
  <2>1. /\ Orderly' /\ \A i \in Instances : i \in Fulls => i \in Fulls'
        /\ \A i \in Instances :
             inst'[i].data # inst[i].data /\ inst[i].subs # {} => i \in Fulls'
    BY <1>2, <1>6, OrderlyStep
  <2>2. ASSUME NEW k \in Conns, topic'[k].closed = FALSE => topic[k].closed = FALSE,
               topic'[k].src = topic[k].src, Newer(k)' = Newer(k)
        PROVE  Caught(k)'
    <3>1. CASE topic[k].src = None \/ topic'[k].closed # FALSE
      BY <2>2, <3>1 DEF Caught
    <3>2. CASE topic[k].src # None /\ topic'[k].closed = FALSE
      <4> DEFINE i == topic[k].src
      <4>1. i \in Instances /\ inst[i].config # None /\ inst[i].subs # {}
        BY <1>4, <3>2
      <4>2. Newer(k) = Target(i) \/ i \in Fulls
        BY <1>2, <2>2, <3>2 DEF Caught
      <4>3. i \in Fulls' \/ (inst'[i].data = inst[i].data /\ inst'[i].config = inst[i].config)
        BY <1>3, <2>1, <4>1
      <4> QED
        BY <2>1, <2>2, <4>1, <4>2, <4>3 DEF Caught, Target
    <3> QED
      BY <3>1, <3>2
  <2>3. ASSUME NEW k \in Conns, Attach(k) PROVE \A h \in Conns : Caught(h)'
    <3>1. /\ topic'[k].closed = topic[k].closed
          /\ \A h \in Conns : h # k =>
               topic'[h] = topic[h] /\ conn'[h] = conn[h] /\ view'[h] = view[h]
          /\ topic[k].closed \/ SubscribedTo(topic[k].inst, k)
          /\ topic[k].closed = FALSE =>
               /\ topic'[k].src = topic[k].inst
               /\ Newer(k)' = Target(topic[k].inst)
      BY <1>2, <2>3, AttachPipes
    <3>2. \A h \in Conns : h # k => Caught(h)'
      BY <2>2, <3>1 DEF Newer
    <3>3. Caught(k)'
      <4>1. CASE topic[k].closed = FALSE
        <5>1. SubscribedTo(topic[k].inst, k)
          BY <3>1, <4>1
        <5> QED
          BY <3>1, <4>1, <5>1 DEF Caught, Target, SubscribedTo, SameSource
      <4>2. CASE topic[k].closed # FALSE
        BY <3>1, <4>2 DEF Caught
      <4> QED
        BY <4>1, <4>2
    <3> QED
      BY <3>2, <3>3
  <2>4. CASE \A k \in Conns : ~Attach(k)
    <3>1. \A k \in Conns : topic'[k].closed = FALSE =>
            /\ topic[k].closed = FALSE /\ topic'[k].src = topic[k].src
            /\ Newer(k)' = Newer(k)
      BY <1>6, <2>4, OtherPipes
    <3>2. ASSUME NEW k \in Conns PROVE Caught(k)'
      <4>1. CASE topic'[k].closed = FALSE
        BY <2>2, <3>1, <4>1
      <4>2. CASE topic'[k].closed # FALSE
        BY <4>2 DEF Caught
      <4> QED
        BY <4>1, <4>2
    <3> QED
      BY <2>1, <3>2
  <2> QED
    BY <2>1, <2>3, <2>4
<1> QED
  BY <1>5, <1>6

LEMMA InitByReads ==
    ASSUME Init
    PROVE  ByReads
<1>1. calls = <<>> /\ Fulls = {} /\ watch.inst = None
  BY DEF Init, Fulls
<1>2. \A i \in Instances : inst[i].inbox = <<>>
  BY DEF Init, Blank
<1>3. \A k \in Conns : topic[k].pc = "idle" /\ topic[k].src = None
  BY DEF Init
<1> QED
  BY <1>1, <1>2, <1>3 DEF ByReads, Orderly, Caught

-----------------------------------------------------------------------------
(* Sources that events change.                                             *)

\* Sources whose doorbell rings.
Bells == {calls[n].i : n \in {m \in 1..Len(calls) : calls[m].full = None /\ calls[m].who = None}}

\* A source is read only before its first viewer came; what is in its inbox ends with
\* what it holds, and its doorbell rings for the viewers.
Pushes(i) ==
    /\ inst[i].fresh = TRUE /\ inst[i].dirty = 0
    /\ inst[i].reader # None => ~Resident /\ inst[i].subs = {}
    /\ \A k \in Conns : topic[k].pc = "attach" /\ topic[k].inst = i =>
         inst[i].reader = None /\ (Resident \/ inst[i].loaded = TRUE)
    /\ inst[i].subs # {} => Resident \/ inst[i].loaded = TRUE
    /\ inst[i].inbox # <<>> =>
         inst[i].inbox[Len(inst[i].inbox)] = inst[i].data /\ i \in Bells /\ inst[i].subs # {}

Events ==
    /\ watch.requested = {} /\ watch.inst = None
    /\ pend # None => pend.kind = "push"
    /\ \A k \in Conns : topic[k].closed = FALSE
    /\ \A n \in 1..Len(calls) : calls[n].full = None
    /\ \A i \in Instances : Pushes(i)

LEMMA EventsKept ==
    ASSUME Base, Events, scenario' = scenario, watch'.requested = {}, watch'.inst = None,
           pend' # None => pend'.kind = "push",
           \A k \in Conns : topic'[k].closed = FALSE,
           calls' = calls \/ \E r \in Callbacks : calls' = Append(calls, r) /\ r.full = None,
           NEW except,
           \A i \in Instances : i # except => SameSource(i) /\ inst'[i].subs = inst[i].subs,
           \A k \in Conns : topic'[k].pc = "attach" =>
             \/ topic[k].pc = "attach" /\ topic'[k].inst = topic[k].inst
             \/ topic'[k].inst \in {except, None},
           except \in Instances => Pushes(except)'
    PROVE  Events' /\ Bells \subseteq Bells'
<1>1. /\ Bells \subseteq Bells'
      /\ \A n \in 1..Len(calls') : calls'[n].full = None
  <2>1. CASE calls' = calls
    BY <2>1 DEF Bells, Events
  <2>2. ASSUME NEW r \in Callbacks, calls' = Append(calls, r), r.full = None
        PROVE  Bells \subseteq Bells' /\ \A n \in 1..Len(calls') : calls'[n].full = None
    <3>1. /\ calls'[Len(calls) + 1] = r
          /\ \A n \in 1..Len(calls) : n \in 1..Len(calls') /\ calls'[n] = calls[n]
          /\ \A n \in 1..Len(calls') : n \in 1..Len(calls) \/ n = Len(calls) + 1
      BY <2>2, CallsTyped, CallsAppended
    <3> QED
      BY <2>2, <3>1 DEF Bells, Events
  <2> QED
    BY <2>1, <2>2
<1>2. ASSUME NEW i \in Instances, i # except PROVE Pushes(i)'
  <2>1. Pushes(i) /\ SameSource(i) /\ inst'[i].subs = inst[i].subs /\ i # None
    BY <1>2, Ranges DEF Events
  <2>2. \A k \in Conns : topic'[k].pc = "attach" /\ topic'[k].inst = i =>
          topic[k].pc = "attach" /\ topic[k].inst = i
    BY <1>2, <2>1
  <2> QED
    BY <1>1, <2>1, <2>2 DEF Pushes, SameSource, Resident
<1> QED
  BY <1>1, <1>2 DEF Events

LEMMA BellsTaken ==
    ASSUME Base, RunCallback
    PROVE  /\ \A j \in Bells : j # calls[1].i \/ calls[1].who # None => j \in Bells'
           /\ \A n \in 1..Len(calls') : n + 1 \in 1..Len(calls) /\ calls'[n] = calls[n + 1]
<1>1. /\ \A n \in 1..Len(calls') : n + 1 \in 1..Len(calls) /\ calls'[n] = calls[n + 1]
      /\ \A n \in 1..Len(calls) : n # 1 => n - 1 \in 1..Len(calls') /\ calls'[n - 1] = calls[n]
  BY RunDoes, CallsTyped, CallsShifted
<1>2. ASSUME NEW j \in Bells, j # calls[1].i \/ calls[1].who # None PROVE j \in Bells'
  <2>1. PICK n \in 1..Len(calls) : calls[n].i = j /\ calls[n].full = None /\ calls[n].who = None
    BY DEF Bells
  <2>2. n - 1 \in 1..Len(calls') /\ calls'[n - 1] = calls[n]
    BY <1>1, <1>2, <2>1
  <2> QED
    BY <2>1, <2>2 DEF Bells
<1> QED
  BY <1>1, <1>2

\* A push rings for the viewers of its source.
LEMMA EventsPush ==
    ASSUME Base, Events, NEW c \in Configs, WorkerPush(c), NEW i \in Instances, Pushed(i, c)
    PROVE  Pushes(i)' /\ (inst[i].subs # {} => inst'[i].inbox # <<>>)
<1>1. /\ UNCHANGED <<scenario, loop, topic>> /\ truth'[c] \in Nat
  BY PushDoes
<1>2. /\ Pushes(i) /\ inst[i].inbox \in Seq(Nat) /\ inst[i].config \in {c, None}
  BY Ranges, FoundKeeps DEF Events, Sources, Pushed
<1>3. inst[i].subs # {} => inst'[i].inbox # <<>> /\ inst'[i].inbox[Len(inst'[i].inbox)] = truth'[c]
  BY <1>1, <1>2, LastAppended DEF Pushed
<1>4. inst[i].subs # {} => i \in Bells'
  <2>1. CASE inst[i].inbox # <<>>
    <3>1. calls' = calls \/ inst[i].subs = {}
      BY <2>1 DEF Pushed
    <3> QED
      BY <1>2, <2>1, <3>1 DEF Pushes, Bells
  <2>2. CASE inst[i].inbox = <<>> /\ inst[i].subs # {}
    <3> DEFINE r == [i |-> i, full |-> None, who |-> None]
    <3>1. r \in Callbacks /\ calls' = Append(calls, r) /\ r.i = i /\ r.full = None /\ r.who = None
      BY <2>2 DEF Pushed, Call, Callbacks, SomeVersion, Tasks
    <3> HIDE DEF r
    <3>2. /\ Len(calls) \in Nat /\ calls'[Len(calls) + 1] = r /\ Len(calls') = Len(calls) + 1
      BY <3>1, CallsTyped, CallsAppended
    <3>3. Len(calls) + 1 \in 1..Len(calls')
      BY <3>2
    <3> QED
      BY <3>1, <3>2, <3>3 DEF Bells
  <2> QED
    BY <2>1, <2>2
<1>5. inst[i].subs = {} => inst'[i].inbox = <<>>
  BY <1>2 DEF Pushes, Pushed
<1> QED
  BY <1>1, <1>2, <1>3, <1>4, <1>5 DEF Pushes, Pushed, Resident

\* What the viewers of a source are behind of stays in its inbox until its doorbell is
\* answered.
LEMMA EventsStep ==
    ASSUME Base, Base', Stays, Settled, "event" \in scenario, Events, [Next]_vars, ~RunCallback
    PROVE  /\ Events'
           /\ \A i \in Instances :
                \/ inst'[i].data = inst[i].data /\ inst'[i].inbox = inst[i].inbox
                \/ inst[i].subs = {} \/ inst'[i].inbox # <<>>
<1> DEFINE Goal == /\ Events'
                   /\ \A i \in Instances :
                        \/ inst'[i].data = inst[i].data /\ inst'[i].inbox = inst[i].inbox
                        \/ inst[i].subs = {} \/ inst'[i].inbox # <<>>
<1> SUFFICES Goal
  OBVIOUS
<1>1. /\ scenario' = scenario /\ scenario \cap {"roam", "expire", "save", "clock", "close"} = {}
      /\ \A k \in Conns : StaysAt(k) /\ topic[k].closed = FALSE
      /\ watch.requested = {} /\ watch.inst = None /\ (pend # None => pend.kind = "push")
  BY RegistryMoves DEF Settled, Stays, Events
\* No round is about to subscribe while another one has the trio thread.
<1>2. \A k \in Conns : topic[k].pc = "attach" => loop = k
  BY DEF Base, Subscriptions
<1> DEFINE SameCalls == calls' = calls \/ \E r \in Callbacks : calls' = Append(calls, r) /\ r.full = None
<1>3. ASSUME inst' = inst, SameCalls, pend' = pend \/ pend' = None, watch'.requested = {},
             watch'.inst = None,
             \A k \in Conns : /\ topic'[k].closed = FALSE
                              /\ topic'[k].pc = "attach" => /\ topic[k].pc = "attach"
                                                            /\ topic'[k].inst = topic[k].inst
      PROVE  Goal
  <2>1. \A i \in Instances : i # None => SameSource(i) /\ inst'[i].subs = inst[i].subs
    BY <1>3 DEF SameSource
  <2>2. None \notin Instances
    BY TopicAssumption
  <2>3. Events'
    BY <1>1, <1>3, <2>1, <2>2, EventsKept
  <2> QED
    BY <1>3, <2>3
<1>4. ASSUME UNCHANGED <<inst, calls, topic, watch, pend>> PROVE Goal
  BY <1>1, <1>3, <1>4
<1>5. ASSUME NEW k \in Conns, OutboxSend(k) \/ Take(k) PROVE Goal
  BY <1>4, <1>5 DEF OutboxSend, Take
<1>6. ASSUME NEW k \in Conns, Navigate(k) PROVE Goal
  <2>1. \A h \in Conns : /\ topic'[h].closed = FALSE
                         /\ topic'[h].pc = "attach" => /\ topic[h].pc = "attach"
                                                       /\ topic'[h].inst = topic[h].inst
    BY ZenonT(40), <1>1, <1>6, NavigateDoes
  <2> QED
    BY <1>1, <1>3, <1>6, <2>1, NavigateDoes
<1>7. ASSUME NEW k \in Conns, Sent(k) PROVE Goal
  <2>1. \A h \in Conns : /\ topic'[h].closed = FALSE
                         /\ topic'[h].pc = "attach" => /\ topic[h].pc = "attach"
                                                       /\ topic'[h].inst = topic[h].inst
    BY <1>1, <1>7, SentDoes
  <2> QED
    BY <1>1, <1>3, <1>7, <2>1, SentDoes
<1>8. ASSUME NEW k \in Conns, Begin(k) PROVE Goal
  <2>1. topic[k].src = None
    BY <1>1, <1>8, BeginDoes DEF StaysAt
  <2>2. inst' = inst /\ watch' = watch
    BY <1>8, <2>1, BeginDoes DEF Left, LeftWatch
  <2>3. \A h \in Conns : /\ topic'[h].closed = FALSE
                         /\ topic'[h].pc = "attach" => /\ topic[h].pc = "attach"
                                                       /\ topic'[h].inst = topic[h].inst
    BY <1>1, <1>8, BeginDoes
  <2> QED
    BY <1>1, <1>3, <1>8, <2>2, <2>3, BeginDoes
<1>9. ASSUME NEW k \in Conns, ReadDisk(k) PROVE Goal
  <2> DEFINE r == [i |-> topic[k].inst, full |-> None, who |-> k]
  <2>1. r \in Callbacks /\ calls' = Append(calls, r) /\ r.full = None
    BY <1>9, ReadDiskDoes
  <2> HIDE DEF r
  <2>2. \A h \in Conns : /\ topic'[h].closed = FALSE
                         /\ topic'[h].pc = "attach" => /\ topic[h].pc = "attach"
                                                       /\ topic'[h].inst = topic[h].inst
    BY ZenonT(40), <1>1, <1>9, ReadDiskDoes
  <2> QED
    BY <1>1, <1>3, <1>9, <2>1, <2>2, ReadDiskDoes
<1>10. ASSUME NEW k \in Conns, Close(k) PROVE Goal
  BY <1>1, <1>10, CloseDoes
<1>11. ASSUME NEW c \in Configs, Save(c) \/ Collect(c) \/ Refresh(c) PROVE Goal
  BY <1>1, <1>11 DEF Save, Collect, Refresh
<1>12. ASSUME NEW i \in Instances, Expire(i) PROVE Goal
  BY <1>1, <1>12 DEF Expire
<1>13. CASE RefreshReads \/ RefreshDone
  BY <1>1, <1>13 DEF RefreshReads, RefreshDone
<1>14. CASE FollowUp
  <2>1. inst' = inst /\ watch'.requested = {} /\ watch'.inst = None
    BY <1>1, <1>14, FollowUpDoes DEF FollowUp, SameRefresh
  <2> QED
    BY <1>1, <1>3, <1>14, <2>1, FollowUpDoes
<1>15. ASSUME NEW i \in Instances, Pushes(i)',
              \A j \in Instances : j # i => SameSource(j) /\ inst'[j].subs = inst[j].subs,
              \/ inst'[i].data = inst[i].data /\ inst'[i].inbox = inst[i].inbox
              \/ inst[i].subs = {} \/ inst'[i].inbox # <<>>,
              SameCalls, pend' # None => pend'.kind = "push", watch'.requested = {},
              watch'.inst = None,
              \A k \in Conns : /\ topic'[k].closed = FALSE
                               /\ topic'[k].pc = "attach" =>
                                    \/ topic[k].pc = "attach" /\ topic'[k].inst = topic[k].inst
                                    \/ topic'[k].inst = i
       PROVE  Goal
  <2>1. Events'
    BY <1>1, <1>15, EventsKept
  <2> QED
    BY <1>15, <2>1 DEF SameSource
<1>16. ASSUME NEW k \in Conns, Resolve(k) PROVE Goal
  <2>1. /\ UNCHANGED <<calls, pend>> /\ watch'.inst = None /\ topic[k].want # None
        /\ \A h \in Conns : h # k => topic'[h] = topic[h] /\ topic[h].pc # "attach"
        /\ topic'[k].closed = FALSE /\ \E i \in Instances : Resolved(i, k)
    <3>1. loop = None /\ topic[k].pc = "resolve"
      BY <1>16, ResolveDoes
    <3>2. topic[k].want # None
      BY <1>1, <3>1 DEF StaysAt
    <3> QED
      BY <1>1, <1>2, <1>16, <3>1, <3>2, Ranges, ResolveDoes DEF ResolvedToNone, SameRefresh
  <2>2. PICK i \in Instances : Resolved(i, k)
    BY <2>1
  <2>3. watch'.requested = {}
    BY <1>1, <2>2 DEF Resolved, Follows
  <2>4. \A j \in Instances : j # i => inst'[j] = inst[j]
    BY <2>2 DEF Resolved, Elsewhere
  <2>5. Pushes(i) /\ inst[i].loaded \in BOOLEAN
    BY Ranges DEF Events, Sources
  <2>6. Pushes(i)'
    <3>1. /\ inst'[i].data = inst[i].data /\ inst'[i].fresh = inst[i].fresh
          /\ inst'[i].loaded = inst[i].loaded /\ inst'[i].dirty = inst[i].dirty
          /\ inst'[i].subs = inst[i].subs /\ inst'[i].inbox = inst[i].inbox
          /\ inst[i].reader = None /\ topic'[k].inst = i /\ (Resident' <=> Resident)
      BY <1>1, <2>2 DEF Resolved, Resident
    <3>2. \/ inst'[i].reader = None /\ (Resident \/ inst[i].loaded = TRUE)
          \/ inst'[i].reader = k /\ topic'[k].pc = "read" /\ ~Resident /\ inst[i].subs = {}
      BY <2>2, <2>5 DEF Resolved, Pushes
    <3>3. Bells' = Bells
      BY <2>1 DEF Bells
    <3>4. \A h \in Conns : topic'[h].pc = "attach" => h = k
      BY <2>1
    <3> QED
      BY <2>5, <3>1, <3>2, <3>3, <3>4 DEF Pushes
  <2>7. inst'[i].data = inst[i].data /\ inst'[i].inbox = inst[i].inbox /\ topic'[k].inst = i
    BY <2>2 DEF Resolved
  <2>8. \A j \in Instances : j # i => SameSource(j) /\ inst'[j].subs = inst[j].subs
    BY <2>4 DEF SameSource
  <2>9. \A h \in Conns : /\ topic'[h].closed = FALSE
                         /\ topic'[h].pc = "attach" =>
                              \/ topic[h].pc = "attach" /\ topic'[h].inst = topic[h].inst
                              \/ topic'[h].inst = i
    BY <1>1, <2>1, <2>7
  <2>10. pend' # None => pend'.kind = "push"
    BY <1>1, <2>1
  <2> QED
    BY <1>15, <2>1, <2>3, <2>6, <2>7, <2>8, <2>9, <2>10
<1>17. ASSUME NEW k \in Conns, ReadDone(k) PROVE Goal
  <2>0. topic[k].inst \in Instances
    BY <1>17, ReadDoneDoes
  <2> PICK i \in Instances : i = topic[k].inst
    BY <2>0
  <2>1. /\ i \in Instances /\ Published(i, topic[k].val, topic[k].mark) /\ UNCHANGED pend
        /\ topic[k].pc = "done" /\ inst[i].reader = k /\ loop = None
        /\ topic'[k].closed = FALSE /\ topic'[k].pc = "attach" /\ topic'[k].inst = i
        /\ \A h \in Conns : h # k => topic'[h] = topic[h] /\ topic[h].pc # "attach"
        /\ watch'.inst = None /\ Follows(inst[i].config, inst[i].subs)
    BY <1>1, <1>2, <1>17, ReadDoneDoes, Ranges DEF Reads, SameRefresh
  <2>2. watch'.requested = {}
    BY <1>1, <2>1 DEF Follows
  <2>3. /\ Pushes(i) /\ inst[i].subs = {} /\ k # None
    BY <2>1, Ranges DEF Events, Pushes
  <2>4. /\ calls' = calls /\ inst'[i].subs = {} /\ inst'[i].inbox = inst[i].inbox
        /\ inst'[i].fresh = TRUE /\ inst'[i].loaded = TRUE /\ inst'[i].reader = None
        /\ inst'[i].dirty = 0 /\ inst[i].inbox = <<>>
        /\ \A j \in Instances : j # i => inst'[j] = inst[j]
    BY <2>1, <2>3 DEF Published, Pushes, Elsewhere
  <2>5. Pushes(i)'
    BY <2>4 DEF Pushes
  <2>6. \A j \in Instances : j # i => SameSource(j) /\ inst'[j].subs = inst[j].subs
    BY <2>4 DEF SameSource
  <2>7. \A h \in Conns : /\ topic'[h].closed = FALSE
                         /\ topic'[h].pc = "attach" =>
                              \/ topic[h].pc = "attach" /\ topic'[h].inst = topic[h].inst
                              \/ topic'[h].inst = i
    BY <1>1, <2>1
  <2>8. pend' # None => pend'.kind = "push"
    BY <1>1, <2>1
  <2> QED
    BY <1>15, <2>1, <2>2, <2>3, <2>4, <2>5, <2>6, <2>7, <2>8
<1>18. ASSUME NEW k \in Conns, Attach(k) PROVE Goal
  <2>0. topic[k].pc = "attach" /\ topic[k].inst \in Instances /\ topic[k].dirty = FALSE
    <3>1. topic[k].pc = "attach"
      BY <1>18, AttachDoes
    <3> QED
      BY <1>1, <3>1, Ranges DEF StaysAt
  <2> PICK i \in Instances : i = topic[k].inst
    BY <2>0
  <2>1. /\ UNCHANGED <<calls, pend>> /\ topic[k].pc = "attach" /\ topic'[k].closed = FALSE
        /\ topic'[k].pc \in {"send", "idle"} /\ SubscribedTo(i, k)
        /\ \A h \in Conns : h # k => topic'[h] = topic[h]
        /\ watch'.inst = None
    <3>1. topic[k].closed = FALSE /\ watch.inst = None /\ i # None
      BY <1>1, Ranges
    <3>2. /\ UNCHANGED <<calls, pend>> /\ topic'[k].closed = topic[k].closed /\ SameRefresh
          /\ \A h \in Conns : h # k => topic'[h] = topic[h]
      BY <1>18, AttachDoes
    <3>3. topic'[k].pc \in {"send", "idle"} /\ SubscribedTo(i, k)
      BY <1>18, <2>0, <3>1, AttachDoes
    <3> QED
      BY <2>0, <3>1, <3>2, <3>3 DEF SameRefresh
  <2>2. watch'.requested = {}
    BY <1>1, <2>1 DEF SubscribedTo
  <2>3. Pushes(i) /\ inst[i].reader = None /\ (Resident \/ inst[i].loaded = TRUE)
    BY <2>1 DEF Events, Pushes
  <2>4. /\ SameSource(i) /\ inst'[i].subs = inst[i].subs \cup {k} /\ Bells' = Bells
        /\ \A j \in Instances : j # i => inst'[j] = inst[j]
    BY <2>1 DEF SubscribedTo, Elsewhere, Bells
  <2>5. Pushes(i)'
    BY <1>1, <2>1, <2>3, <2>4 DEF Pushes, SameSource, Resident
  <2>6. inst'[i].data = inst[i].data /\ inst'[i].inbox = inst[i].inbox
    BY <2>4 DEF SameSource
  <2>7. \A h \in Conns : /\ topic'[h].closed = FALSE
                         /\ topic'[h].pc = "attach" =>
                              \/ topic[h].pc = "attach" /\ topic'[h].inst = topic[h].inst
                              \/ topic'[h].inst = i
    BY <1>1, <2>1
  <2>8. \A j \in Instances : j # i => SameSource(j) /\ inst'[j].subs = inst[j].subs
    BY <2>4 DEF SameSource
  <2>9. pend' # None => pend'.kind = "push"
    BY <1>1, <2>1
  <2> QED
    BY <1>15, <2>1, <2>2, <2>5, <2>6, <2>7, <2>8, <2>9
<1>19. ASSUME NEW c \in Configs, WorkerPush(c) PROVE Goal
  <2>1. UNCHANGED <<topic, watch>> /\ \E i \in Instances : Pushed(i, c)
    BY <1>19, PushDoes
  <2>2. PICK i \in Instances : Pushed(i, c)
    BY <2>1
  <2>3. Pushes(i)' /\ (inst[i].subs # {} => inst'[i].inbox # <<>>)
    BY <1>19, <2>2, EventsPush
  <2>4. /\ pend' # None => pend'.kind = "push"
        /\ \A j \in Instances : j # i => inst'[j] = inst[j]
    BY <2>2 DEF Pushed, Elsewhere
  <2>5. SameCalls
    <3> DEFINE r == [i |-> i, full |-> None, who |-> None]
    <3>1. r \in Callbacks /\ r.full = None
      BY DEF Callbacks, SomeVersion, Tasks
    <3>2. calls' = calls \/ calls' = Append(calls, r)
      BY <2>2 DEF Pushed, Call
    <3> HIDE DEF r
    <3> QED
      BY <3>1, <3>2
  <2> QED
    BY <1>1, <1>15, <2>1, <2>3, <2>4, <2>5 DEF SameSource
<1>20. CASE UNCHANGED vars
  BY <1>4, <1>20 DEF vars
<1> HIDE DEF Goal
<1>21. ASSUME NEW k \in Conns,
              OutboxSend(k) \/ Take(k) \/ Navigate(k) \/ Begin(k) \/ Resolve(k)
              \/ ReadDisk(k) \/ ReadDone(k) \/ Attach(k) \/ Sent(k) \/ Close(k)
       PROVE  Goal
  BY <1>5, <1>6, <1>7, <1>8, <1>9, <1>10, <1>16, <1>17, <1>18, <1>21
<1>22. ASSUME NEW c \in Configs, WorkerPush(c) \/ Save(c) \/ Collect(c) \/ Refresh(c) PROVE Goal
  BY <1>11, <1>19, <1>22
<1>23. CASE Next
  BY <1>12, <1>13, <1>14, <1>21, <1>22, <1>23 DEF Next
<1> QED
  BY <1>20, <1>23

\* A viewer was sent what its source holds, or the rest waits in the inbox.
InStep(k) == topic[k].src # None =>
               Newer(k) = Target(topic[k].src) \/ inst[topic[k].src].inbox # <<>>
ByEvents == Settled /\ "event" \in scenario => Events /\ \A k \in Conns : InStep(k)

\* The doorbell is answered with the newest of the inbox.
LEMMA EventsDelivered ==
    ASSUME Base, Events, Shaped, \A k \in Conns : PipeAt(k) /\ InStep(k), RunCallback
    PROVE  Events' /\ \A k \in Conns : InStep(k)'
<1> PICK i \in Instances : i = calls[1].i
  BY RunDoes
<1>1. /\ calls[1].full = None /\ UNCHANGED <<scenario, view, pend>> /\ 1 \in 1..Len(calls)
      /\ topic' \in [Conns -> Rounds] /\ None \notin Conns /\ Manager # None
  <2>1. 1 \in 1..Len(calls)
    BY RunDoes, CallsTyped, CallsShifted
  <2> QED
    BY <2>1, RunDoes, Ranges DEF Events
<1>2. /\ \A j \in Bells : j # i \/ calls[1].who # None => j \in Bells'
      /\ \A n \in 1..Len(calls') : n + 1 \in 1..Len(calls) /\ calls'[n] = calls[n + 1]
  BY BellsTaken
<1>3. \A n \in 1..Len(calls') : calls'[n].full = None
  BY <1>2 DEF Events
<1>4. ASSUME inst' = inst, conn' = conn, watch'.inst = watch.inst,
             watch'.requested = watch.requested,
             calls[1].who # None \/ inst[i].inbox = <<>>,
             \A k \in Conns : /\ topic'[k].closed = topic[k].closed
                              /\ topic'[k].src = topic[k].src
                              /\ topic'[k].inst = topic[k].inst
                              /\ topic'[k].pc \in {topic[k].pc, "done"}
      PROVE  Events' /\ \A k \in Conns : InStep(k)'
  <2>1. \A k \in Conns : InStep(k)'
    BY <1>1, <1>4 DEF InStep, Newer, Target
  <2>2. ASSUME NEW j \in Instances PROVE Pushes(j)'
    <3>1. Pushes(j) /\ (inst[j].inbox # <<>> => j \in Bells')
      BY <1>2, <1>4 DEF Events, Pushes
    <3>2. \A k \in Conns : topic'[k].pc = "attach" => topic[k].pc = "attach"
      BY <1>4
    <3> QED
      BY <1>1, <1>4, <3>1, <3>2 DEF Pushes, Resident
  <2> QED
    BY <1>1, <1>3, <1>4, <2>1, <2>2 DEF Events
<1>5. CASE calls[1].who \in Conns /\ Answered(calls[1].who)
  BY <1>1, <1>4, <1>5 DEF Answered
<1>6. CASE calls[1].who = Manager /\ Informed
  BY <1>1, <1>4, <1>6 DEF Informed
<1>7. CASE inst[i].inbox = <<>> /\ UNCHANGED <<inst, conn, topic, watch>>
  BY <1>4, <1>7
<1>8. CASE Delivered(i, None)
  <2>1. /\ inst[i].inbox # <<>> /\ inst'[i].inbox = <<>> /\ watch' = watch
        /\ inst'[i].config = inst[i].config /\ inst'[i].data = inst[i].data
        /\ inst'[i].fresh = inst[i].fresh /\ inst'[i].loaded = inst[i].loaded
        /\ inst'[i].dirty = inst[i].dirty /\ inst'[i].reader = inst[i].reader
        /\ inst'[i].subs = inst[i].subs
        /\ \A j \in Instances : j # i => inst'[j] = inst[j]
        /\ \A k \in Conns : SameRound(k)
    BY <1>8 DEF Delivered, Elsewhere
  <2>2. \A k \in Conns :
          /\ topic'[k].closed = topic[k].closed /\ topic'[k].src = topic[k].src
          /\ topic[k].src = i /\ topic[k].closed = FALSE =>
               Newer(k)' = Shown(Broadcast(i, None))
          /\ topic[k].src # i => Newer(k)' = Newer(k)
    BY <1>1, <1>8, DeliveredPipes DEF SomeVersion
  <2>3. Shown(Broadcast(i, None)) = Target(i)
    <3>1. inst[i].inbox[Len(inst[i].inbox)] = inst[i].data
      BY <2>1 DEF Events, Pushes
    <3>2. inst[i].data # None
      <4>1. inst[i].inbox \in Seq(Nat)
        BY Ranges DEF Sources
      <4>2. Len(inst[i].inbox) \in 1..Len(inst[i].inbox)
        BY <2>1, <4>1
      <4>3. inst[i].inbox[Len(inst[i].inbox)] \in Nat
        BY <4>1, <4>2
      <4> QED
        BY <3>1, <4>3, TopicAssumption
    <3> QED
      BY <3>1, <3>2 DEF Broadcast, Shown, Target
  <2>4. ASSUME NEW k \in Conns PROVE InStep(k)'
    <3>1. topic[k].closed = FALSE /\ topic'[k].src = topic[k].src
      BY <2>2 DEF Events
    <3>2. CASE topic[k].src = i
      <4>1. Newer(k)' = Target(i) /\ Target(i)' = Target(i)
        BY <2>1, <2>2, <2>3, <3>1, <3>2 DEF Target
      <4> QED
        BY <2>1, <3>1, <3>2, <4>1 DEF InStep, Target
    <3>3. CASE topic[k].src # i
      <4>1. topic[k].src # None => topic[k].src \in Instances
        BY Ranges DEF SomeInstance
      <4> QED
        BY <2>1, <2>2, <3>1, <3>3, <4>1 DEF InStep, Target
    <3> QED
      BY <3>2, <3>3
  <2>5. ASSUME NEW j \in Instances PROVE Pushes(j)'
    <3>1. Pushes(j) /\ (j # i /\ inst[j].inbox # <<>> => j \in Bells')
      BY <1>2 DEF Events, Pushes
    <3>2. \A k \in Conns : topic'[k].pc = topic[k].pc /\ topic'[k].inst = topic[k].inst
      BY <2>1 DEF SameRound
    <3> QED
      BY <1>1, <2>1, <3>1, <3>2 DEF Pushes, Resident
  <2> QED
    BY <1>1, <1>3, <2>1, <2>2, <2>4, <2>5 DEF Events
<1> QED
  BY <1>1, <1>5, <1>6, <1>7, <1>8, RunDoes

LEMMA ByEventsStep ==
    ASSUME Base, Base', Stays, Pipes, ByEvents, [Next]_vars
    PROVE  ByEvents'
<1>1. scenario' = scenario
  BY RegistryMoves
<1> SUFFICES ASSUME Settled, "event" \in scenario
             PROVE  Events' /\ \A k \in Conns : InStep(k)'
  BY <1>1 DEF ByEvents, Settled
<1>2. /\ Events /\ Shaped /\ \A k \in Conns : InStep(k) /\ PipeAt(k) /\ StaysAt(k)
      /\ \A k \in Conns : topic[k].closed = FALSE
  BY DEF ByEvents, Pipes, Stays, Settled, Events
<1>3. \A i \in Instances : inst[i].config # None => inst'[i].config = inst[i].config
  BY ConfigsKept
<1>4. \A k \in Conns : topic[k].src # None =>
        /\ topic[k].src \in Instances /\ inst[topic[k].src].config # None
        /\ inst[topic[k].src].subs # {}
  <2>1. \A k \in Conns : topic[k].src # None => topic[k].src \in Instances
    BY Ranges DEF SomeInstance
  <2> QED
    BY <2>1, Ranges DEF Base, Subscriptions
<1>5. CASE RunCallback
  BY <1>2, <1>5, EventsDelivered
<1>6. CASE ~RunCallback
  <2>1. /\ Events'
        /\ \A i \in Instances :
             \/ inst'[i].data = inst[i].data /\ inst'[i].inbox = inst[i].inbox
             \/ inst[i].subs = {} \/ inst'[i].inbox # <<>>
    BY <1>2, <1>6, EventsStep
  <2>2. ASSUME NEW k \in Conns, topic'[k].src = topic[k].src, Newer(k)' = Newer(k)
        PROVE  InStep(k)'
    <3>1. CASE topic[k].src = None
      BY <2>2, <3>1 DEF InStep
    <3>2. CASE topic[k].src # None
      <4> PICK i \in Instances : i = topic[k].src
        BY <1>4, <3>2
      <4>1. inst[i].config # None /\ inst[i].subs # {}
        BY <1>4, <3>2
      <4>2. Newer(k) = Target(i) \/ inst[i].inbox # <<>>
        BY <1>2, <2>2, <3>2 DEF InStep
      <4> QED
        BY <1>3, <2>1, <2>2, <4>1, <4>2 DEF InStep, Target
    <3> QED
      BY <3>1, <3>2
  <2>3. ASSUME NEW k \in Conns, Attach(k) PROVE \A h \in Conns : InStep(h)'
    <3>1. /\ \A h \in Conns : h # k =>
               topic'[h] = topic[h] /\ conn'[h] = conn[h] /\ view'[h] = view[h]
          /\ SubscribedTo(topic[k].inst, k) /\ topic'[k].src = topic[k].inst
          /\ Newer(k)' = Target(topic[k].inst)
      BY <1>2, <2>3, AttachPipes
    <3>2. \A h \in Conns : h # k => InStep(h)'
      BY <2>2, <3>1 DEF Newer
    <3>3. InStep(k)'
      BY <3>1 DEF InStep, Target, SubscribedTo, SameSource
    <3> QED
      BY <3>2, <3>3
  <2>4. CASE \A k \in Conns : ~Attach(k)
    <3>1. \A k \in Conns : topic'[k].src = topic[k].src /\ Newer(k)' = Newer(k)
      BY <1>6, <2>1, <2>4, OtherPipes DEF Events
    <3> QED
      BY <2>1, <2>2, <3>1
  <2> QED
    BY <2>1, <2>3, <2>4
<1> QED
  BY <1>5, <1>6

LEMMA InitByEvents ==
    ASSUME Init
    PROVE  ByEvents
<1>1. /\ calls = <<>> /\ watch.requested = {} /\ watch.inst = None /\ pend = None
      /\ \A k \in Conns : topic[k].pc = "idle" /\ topic[k].src = None /\ topic[k].closed = FALSE
  BY DEF Init
<1>2. \A i \in Instances : inst[i] = Blank
  BY DEF Init
<1>3. \A i \in Instances : Pushes(i)
  BY <1>1, <1>2 DEF Pushes, Blank
<1> QED
  BY <1>1, <1>3 DEF ByEvents, Events, InStep

LEMMA DeliveredShows ==
    ASSUME Base, Stays, Pipes, ByReads, ByEvents
    PROVE  ClientMatchesSource
<1> SUFFICES ASSUME Settled, Quiet, NEW k \in Conns, ~topic[k].closed
             PROVE  view[k] = IF topic[k].src = None \/ inst[topic[k].src].data = None THEN Nothing
                              ELSE [config |-> topic[k].want, v |-> inst[topic[k].src].data]
  BY DEF ClientMatchesSource, ClientAlwaysMatches, Settled
<1>1. /\ calls = <<>> /\ conn[k].buf = <<>> /\ conn[k].task = "none" /\ conn[k].waiting = <<>>
  BY DEF Quiet
<1>2. topic[k].closed = FALSE /\ PipeAt(k) /\ StaysAt(k)
  <2>1. topic[k].closed \in BOOLEAN
    BY DEF Base, Types, Rounds
  <2> QED
    BY <2>1 DEF Pipes, Stays, Settled
<1>3. Newer(k) = view[k]
  BY <1>1, <1>2 DEF PipeAt, PipeOK, Newer, Newest
<1>4. CASE topic[k].src = None
  BY <1>2, <1>4 DEF PipeAt
<1>5. CASE topic[k].src # None
  <2> DEFINE i == topic[k].src
  <2>1. i \in Instances /\ inst[i].config = topic[k].want
    BY <1>2, <1>5, Ranges DEF StaysAt, SomeInstance
  <2>2. Newer(k) = Target(i)
    <3>1. CASE "event" \in scenario
      <4>1. i \notin Bells
        BY <1>1 DEF Bells
      <4>2. inst[i].inbox = <<>>
        BY <2>1, <3>1, <4>1 DEF ByEvents, Events, Pushes
      <4> QED
        BY <1>5, <3>1, <4>2 DEF ByEvents, InStep
    <3>2. CASE "event" \notin scenario
      <4>1. i \notin Fulls
        BY <1>1 DEF Fulls
      <4> QED
        BY <1>2, <1>5, <3>2, <4>1 DEF ByReads, Caught
    <3> QED
      BY <3>1, <3>2
  <2> QED
    BY <1>3, <1>5, <2>1, <2>2 DEF Target
<1> QED
  BY <1>4, <1>5

\* A browser that stays with its config ends with what its source holds, of a source
\* that only reads change or that only events change while nobody leaves: full events
\* and increments keep their order through the callbacks, the full send buffer and the
\* outbox (source.py _push(), reinit(), _sync_to_trio(); ws_topic.py deliver(),
\* _outbox_send()).
THEOREM BrowserShowsItsSource == Spec => []ClientMatchesSource
<1> DEFINE IInv == Base /\ Stays /\ Pipes /\ ByReads /\ ByEvents
<1>1. Init => IInv
  BY InitBase, InitStays, InitPipes, InitByReads, InitByEvents
<1>2. IInv /\ [Next]_vars => IInv'
  <2> SUFFICES ASSUME IInv, [Next]_vars PROVE IInv'
    OBVIOUS
  <2>1. Base'
    BY BaseStep
  <2>2. Stays' /\ Pipes'
    BY StaysStep, PipesStep
  <2>3. ByReads' /\ ByEvents'
    BY <2>1, ByReadsStep, ByEventsStep
  <2> QED
    BY <2>1, <2>2, <2>3
<1>3. IInv => ClientMatchesSource
  BY DeliveredShows
<1> QED
  BY <1>1, <1>2, <1>3, PTL DEF Spec
=============================================================================
