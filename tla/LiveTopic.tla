------------------------------ MODULE LiveTopic ------------------------------
(***************************************************************************)
(* A topic of the web UI from its source to the browser: the source        *)
(* instances of reactive/source.py and their registry (ext/singleton.py),  *)
(* the subscriptions of ws/ws_topic.py, the send buffer of ws/ws_server.py *)
(* and the refresh manager of topic/que.py.  Worker threads, the garbage   *)
(* collector and config saves touch a source under its lock while the trio *)
(* thread serves the connections; they meet in the inbox of the source and *)
(* in the queue of run_sync_soon callbacks.  A table is one number, the    *)
(* version of what it was computed from.                                   *)
(***************************************************************************)
EXTENDS Naturals, Sequences, FiniteSets

CONSTANTS
    Scenarios,   \* sets of what happens in a behaviour
    Configs,     \* config names, the keys of the registry
    Instances,   \* source objects that may be created
    Conns,       \* websocket connections
    None,        \* Python's None
    MaxVersion,  \* bound: changes of the tables
    MaxMoves,    \* bound: navigations of the users
    SendLength,  \* SEND_BUFFER_LENGTH
    OutboxLength \* OUTBOX_MAXLEN

Manager == "manager"

ASSUME TopicAssumption ==
    /\ None \notin Configs \cup Instances \cup Conns \cup {Manager} /\ None \notin Nat
    /\ None \notin [kind : {"push", "save"}, inst : Instances, watched : BOOLEAN]
    /\ Manager \notin Conns
    /\ SendLength \in Nat \ {0} /\ OutboxLength \in Nat \ {0}

VARIABLES
    scenario,  \* what happens in this behaviour
    truth,     \* the table as disk and worker have it, by config
    reg,       \* _singleton_instances: the instance of each config
    inst,      \* the source instances
    calls,     \* callbacks of run_sync_soon, in order
    loop,      \* the task whose step on the trio thread is not over, or None
    topic,     \* the topic object of each connection and its round
    conn,      \* the send side of each connection
    view,      \* what each browser shows
    watch,     \* TaskQueueUpdateManager: _watched, _requested, its refresh
    pend,      \* the thread of a worker or of a save, between two locks
    moves      \* navigations so far

vars == <<scenario, truth, reg, inst, calls, loop, topic, conn, view, watch, pend, moves>>

Versions == 0..MaxVersion

Messages == [kind : {"full", "set", "del"}, config : Configs \cup {None}, v : Versions]
Nothing == [config |-> None, v |-> 0]

Blank == [config |-> None, data |-> None, fresh |-> TRUE, loaded |-> FALSE, dirty |-> 0,
          subs |-> {}, inbox |-> <<>>, reader |-> None]

\* The pcs of _resubscribe(): looking for its source, reading it in a thread, the
\* thread has reported back, between get_source() and subscribe(), in a send.
TypeOK ==
    /\ truth \in [Configs -> Versions]
    /\ reg \in [Configs -> Instances \cup {None}]
    /\ inst \in [Instances -> [config : Configs \cup {None}, data : Versions \cup {None},
                               fresh : BOOLEAN, loaded : BOOLEAN, dirty : Nat,
                               subs : SUBSET Conns, inbox : Seq(Versions),
                               reader : Conns \cup {None, Manager}]]
    /\ calls \in Seq([i : Instances, full : Versions \cup {None}, who : Conns \cup {None, Manager}])
    /\ loop \in Conns \cup {None, Manager}
    /\ topic \in [Conns -> [pc : {"idle", "begin", "resolve", "read", "done", "attach", "send"},
                            want : Configs \cup {None}, src : Instances \cup {None},
                            inst : Instances \cup {None}, mark : Nat,
                            val : Versions \cup {None}, dirty : BOOLEAN, closed : BOOLEAN,
                            holds : BOOLEAN]]
    /\ \A k \in Conns :
         /\ conn[k].buf \in Seq(Messages) /\ Len(conn[k].buf) <= SendLength
         /\ conn[k].out \in Seq(Messages) /\ Len(conn[k].out) <= OutboxLength
         /\ conn[k].task \in {"none", "spawned", "sends", "stopped", "woken"}
    /\ view \in [Conns -> [config : Configs \cup {None}, v : Versions]]

Init ==
    /\ scenario \in Scenarios
    /\ truth = [c \in Configs |-> 0]
    /\ reg = [c \in Configs |-> None]
    /\ inst = [i \in Instances |-> Blank]
    /\ calls = <<>> /\ loop = None
    /\ topic = [k \in Conns |-> [pc |-> "idle", want |-> None, src |-> None, inst |-> None,
                                 mark |-> 0, val |-> None, dirty |-> FALSE,
                                 closed |-> FALSE, holds |-> FALSE]]
    /\ conn = [k \in Conns |-> [buf |-> <<>>, waiting |-> <<>>, out |-> <<>>,
                                task |-> "none"]]
    /\ view = [k \in Conns |-> Nothing]
    /\ watch = [tracked |-> {}, requested |-> {}, inst |-> None, val |-> None,
               read |-> FALSE, mark |-> 0]
    /\ pend = None /\ moves = 0

Resident == "resident" \in scenario
Changes == Cardinality({cv \in Configs \X (1..MaxVersion) : cv[2] <= truth[cv[1]]})
-----------------------------------------------------------------------------
(* Sending on a connection: BaseTopic.deliver(), its outbox task, and the   *)
(* memory channel of the websocket server.  A sender that finds the channel *)
(* full waits in line; taking a message lets the first of the line in.      *)

Room(co) == Len(co.buf) < SendLength

\* send() of a task: into the channel, or into its line.
Enter(co, by, m) ==
    IF Room(co) THEN [co EXCEPT !.buf = Append(@, m)]
    ELSE [co EXCEPT !.waiting = Append(@, [by |-> by, m |-> m])]

\* deque.append() of a full deque drops the oldest.
Push(out, m) == IF Len(out) < OutboxLength THEN Append(out, m) ELSE Append(Tail(out), m)

\* Mutated Deliver: the fast path is tried while the outbox task sends.
Deliver_Overtakes(co, m) ==
    IF Room(co) THEN [co EXCEPT !.buf = Append(@, m)]
    ELSE [co EXCEPT !.out = Push(@, m), !.task = IF @ = "none" THEN "spawned" ELSE @]

Deliver(co, m) ==
    IF co.task # "none" THEN [co EXCEPT !.out = Push(@, m)]
    ELSE IF Room(co) THEN [co EXCEPT !.buf = Append(@, m)]
    ELSE [co EXCEPT !.out = Push(@, m), !.task = "spawned"]

InLine(co, by) == \E n \in DOMAIN co.waiting : co.waiting[n].by = by

\* _drop_outbox(): the backlog goes.  A task that waits in line is taken out of
\* it; one whose send just went through, or that has not begun, runs once more.
Dropped(co) ==
    [co EXCEPT !.out = <<>>,
               !.waiting = SelectSeq(@, LAMBDA w : w.by # "outbox"),
               !.task = IF @ # "sends" THEN @
                        ELSE IF InLine(co, "outbox") THEN "stopped" ELSE "woken"]

\* _outbox_send(): sends the next payload, or ends.  The first send() of a
\* cancelled task raises and takes its payload with it.
OutboxSend(k) ==
    /\ loop = None /\ conn[k].task # "none" /\ ~InLine(conn[k], "outbox")
    /\ LET co == conn[k]
           over == co.task = "stopped" \/ co.out = <<>>
       IN conn' = [conn EXCEPT ![k] =
            IF over THEN [co EXCEPT !.task = "none"]
            ELSE IF co.task = "woken" THEN [co EXCEPT !.task = "none", !.out = Tail(@)]
            ELSE Enter([co EXCEPT !.out = Tail(@), !.task = "sends"], "outbox", Head(co.out))]
    /\ UNCHANGED <<scenario, truth, reg, inst, calls, loop, topic, view, watch, pend, moves>>

\* task_send() takes a message, the browser shows it.
Take(k) ==
    /\ loop = None /\ conn[k].buf # <<>>
    /\ LET co == conn[k]
           m == Head(co.buf)
       IN /\ view' = [view EXCEPT ![k] = IF m.kind = "del" THEN Nothing
                                         ELSE [config |-> m.config, v |-> m.v]]
          /\ conn' = [conn EXCEPT ![k] =
                        IF co.waiting = <<>> THEN [co EXCEPT !.buf = Tail(@)]
                        ELSE [co EXCEPT !.buf = Append(Tail(@), Head(co.waiting).m),
                                        !.waiting = Tail(@)]]
    /\ UNCHANGED <<scenario, truth, reg, inst, calls, loop, topic, watch, pend, moves>>
-----------------------------------------------------------------------------
(* The source: its lock, inbox and doorbell.                               *)

\* cls(config): the registered instance, or a new one.
Free == {i \in Instances : inst[i].config = None}
Lookup(c) == IF reg[c] # None THEN {reg[c]} ELSE IF Free = {} THEN {} ELSE {CHOOSE i \in Free : TRUE}
Created(i, c) == [inst EXCEPT ![i].config = c]
Registered(i, c) == [reg EXCEPT ![c] = i]

\* The next callback: _sync_to_trio() drains the inbox as one message, a full event
\* queued by reinit() is delivered, or a thread reports back to its task.
Call(i, full, who) == Append(calls, [i |-> i, full |-> full, who |-> who])

RunCallback ==
    /\ loop = None /\ calls # <<>> /\ calls' = Tail(calls)
    /\ LET i == Head(calls).i
           full == Head(calls).full
           box == inst[i].inbox
           who == Head(calls).who
           m == IF full # None THEN [kind |-> "full", config |-> inst[i].config, v |-> full]
                ELSE [kind |-> "set", config |-> inst[i].config, v |-> box[Len(box)]]
       IN IF who # None
            THEN /\ topic' = [k \in Conns |-> IF k = who THEN [topic[k] EXCEPT !.pc = "done"]
                                                        ELSE topic[k]]
                 /\ watch' = IF who = Manager THEN [watch EXCEPT !.read = TRUE] ELSE watch
                 /\ UNCHANGED <<inst, conn>>
          ELSE IF full = None /\ box = <<>> THEN UNCHANGED <<inst, conn, topic, watch>>
          ELSE /\ UNCHANGED watch
               /\ inst' = IF full = None THEN [inst EXCEPT ![i].inbox = <<>>] ELSE inst
               /\ conn' = [k \in Conns |-> IF k \in inst[i].subs THEN Deliver(conn[k], m)
                                           ELSE conn[k]]
               /\ topic' = [k \in Conns |-> [topic[k] EXCEPT !.holds = @ \/ k \in inst[i].subs]]
    /\ UNCHANGED <<scenario, truth, reg, loop, view, pend, moves>>

\* The doorbell rings when the inbox was empty.
Ring(i) == IF inst[i].inbox = <<>> THEN Call(i, None, None) ELSE calls

\* on_event() of a worker push, under the lock of the source; the refresh time
\* is published after the lock was released.
WorkerPush(c) ==
    /\ "event" \in scenario /\ Changes < MaxVersion /\ pend = None
    /\ truth' = [truth EXCEPT ![c] = @ + 1]
    /\ \E i \in Lookup(c) :
         /\ reg' = Registered(i, c)
         /\ LET s == Created(i, c)[i]
                t == [s EXCEPT !.data = truth'[c], !.fresh = TRUE, !.loaded = TRUE]
            IN IF s.subs = {} THEN inst' = [inst EXCEPT ![i] = t] /\ calls' = calls
               ELSE /\ inst' = [inst EXCEPT ![i] = [t EXCEPT !.inbox = Append(@, truth'[c])]]
                    /\ calls' = Ring(i)
         /\ pend' = IF Resident THEN None
                    ELSE [kind |-> "push", inst |-> i, watched |-> inst[i].subs # {}]
    /\ UNCHANGED <<scenario, loop, topic, conn, view, watch, moves>>

\* A config save changes the disk, then on_config_event() looks for subscribers.
Save(c) ==
    /\ "save" \in scenario /\ Changes < MaxVersion /\ pend = None
    /\ truth' = [truth EXCEPT ![c] = @ + 1]
    /\ \E i \in Lookup(c) :
         /\ reg' = Registered(i, c) /\ inst' = Created(i, c)
         /\ pend' = [kind |-> "save", inst |-> i, watched |-> inst[i].subs # {}]
    /\ UNCHANGED <<scenario, calls, loop, topic, conn, view, watch, moves>>

\* ... and acts on what they saw, without the lock: register() or unregister()
\* after a push (a whole table satisfies a pending request), request_refresh()
\* or mark_dirty() after a save.
Tracked(w, c, watched) ==
    IF watched THEN [w EXCEPT !.tracked = @ \cup {c}]
    ELSE [w EXCEPT !.tracked = @ \ {c}, !.requested = @ \ {c}]

FollowUp ==
    /\ pend # None /\ pend' = None
    /\ LET c == inst[pend.inst].config IN
       CASE pend.kind = "push" ->
              /\ watch' = [Tracked(watch, c, pend.watched) EXCEPT !.requested = @ \ {c}]
              /\ UNCHANGED inst
         [] pend.kind = "save" /\ pend.watched ->
              watch' = [watch EXCEPT !.requested = @ \cup {c}] /\ UNCHANGED inst
         [] OTHER ->
              inst' = [inst EXCEPT ![pend.inst].dirty = @ + 1] /\ UNCHANGED watch
    /\ UNCHANGED <<scenario, truth, reg, calls, loop, topic, conn, view, moves>>

\* The data expires; gc_idle() drops an expired instance nobody subscribes to.
Expire(i) ==
    /\ "expire" \in scenario /\ loop = None /\ inst[i].config # None /\ inst[i].fresh
    /\ inst' = [inst EXCEPT ![i].fresh = FALSE]
    /\ UNCHANGED <<scenario, truth, reg, calls, loop, topic, conn, view, watch, pend, moves>>

Collect(c) ==
    /\ "expire" \in scenario /\ reg[c] # None
    /\ inst[reg[c]].subs = {} /\ ~inst[reg[c]].fresh
    /\ reg' = [reg EXCEPT ![c] = None]
    /\ UNCHANGED <<scenario, truth, inst, calls, loop, topic, conn, view, watch, pend, moves>>

\* Mutated Publish: a read consumes the marks set while it ran.
Publish_AllMarks(i, new, mark) ==
    LET s == [inst[i] EXCEPT !.fresh = TRUE, !.loaded = TRUE, !.reader = None, !.dirty = 0]
    IN /\ inst' = [inst EXCEPT ![i] = [s EXCEPT !.data = new]]
       /\ calls' = IF s.data = new \/ s.subs = {} THEN calls
                   ELSE Call(i, new, None)

\* reinit() after its read, under the lock: new data is taken, and broadcast.
Publish(i, new, mark) ==
    LET s == [inst[i] EXCEPT !.fresh = TRUE, !.loaded = TRUE, !.reader = None,
                             !.dirty = IF @ = mark THEN 0 ELSE @]
    IN /\ inst' = [inst EXCEPT ![i] = [s EXCEPT !.data = new]]
       /\ calls' = IF s.data = new \/ s.subs = {} THEN calls
                   ELSE Call(i, new, None)
-----------------------------------------------------------------------------
(* A topic and its round: _resubscribe().                                  *)

Busy(k) == topic[k].pc # "idle"

\* The user looks at another config: the observed state changes.
Navigate(k) ==
    /\ loop = None /\ moves < MaxMoves /\ ~topic[k].closed
    /\ "roam" \in scenario \/ topic[k].want = None
    /\ \E c \in (Configs \cup {None}) \ {topic[k].want} :
         topic' = [topic EXCEPT ![k].want = c, ![k].dirty = Busy(k),
                                ![k].pc = IF Busy(k) THEN @ ELSE "begin"]
    /\ moves' = moves + 1
    /\ UNCHANGED <<scenario, truth, reg, inst, calls, loop, conn, view, watch, pend>>

\* Leave(k): unsubscribe from the source and drop the backlog.
Left(k) == IF topic[k].src = None THEN inst
           ELSE [inst EXCEPT ![topic[k].src].subs = @ \ {k}]

\* Mutated LeftWatch: any viewer that leaves ends the tracking.
LeftWatch_Any(k) ==
    IF topic[k].src = None \/ Resident THEN watch
    ELSE Tracked(watch, inst[topic[k].src].config, FALSE)

\* The last viewer ends the tracking of the config.
LeftWatch(k) ==
    IF topic[k].src = None \/ Resident THEN watch
    ELSE Tracked(watch, inst[topic[k].src].config, Left(k)[topic[k].src].subs # {})

\* The top of the loop.
Begin(k) ==
    /\ loop = None /\ topic[k].pc = "begin"
    /\ IF topic[k].closed
         THEN topic' = [topic EXCEPT ![k].pc = "idle"] /\ UNCHANGED <<inst, conn, watch>>
         ELSE /\ topic' = [topic EXCEPT ![k].pc = "resolve", ![k].dirty = FALSE, ![k].src = None]
              /\ inst' = Left(k) /\ watch' = LeftWatch(k)
              /\ conn' = IF topic[k].src = None THEN conn ELSE [conn EXCEPT ![k] = Dropped(@)]
    /\ UNCHANGED <<scenario, truth, reg, calls, loop, view, pend, moves>>

\* get_source() up to the read of reinit(); fresh data needs none.  No other
\* task runs between a look at fresh data and the subscription.
Resolve(k) ==
    /\ loop = None /\ topic[k].pc = "resolve"
    /\ IF topic[k].want = None
         THEN /\ topic' = [topic EXCEPT ![k].pc = "attach", ![k].inst = None]
              /\ loop' = k /\ UNCHANGED <<reg, inst, watch>>
         ELSE \E i \in Lookup(topic[k].want) :
                LET c == topic[k].want
                    s == Created(i, c)[i]
                    fresh == s.dirty = 0 /\ s.loaded /\ s.fresh
                IN /\ s.reader = None /\ reg' = Registered(i, c)
                   /\ IF Resident \/ fresh
                        THEN /\ inst' = Created(i, c)
                             /\ topic' = [topic EXCEPT ![k].pc = "attach", ![k].inst = i]
                             /\ watch' = IF Resident THEN watch ELSE Tracked(watch, c, s.subs # {})
                             /\ loop' = k
                        ELSE /\ inst' = [inst EXCEPT ![i] = [s EXCEPT !.reader = k]]
                             /\ topic' = [topic EXCEPT ![k].pc = "read", ![k].inst = i,
                                                       ![k].mark = s.dirty, ![k].val = None]
                             /\ UNCHANGED <<loop, watch>>
    /\ UNCHANGED <<scenario, truth, calls, conn, view, pend, moves>>

\* on_init() reads the disk in a thread.
ReadDisk(k) ==
    /\ topic[k].pc = "read" /\ topic[k].val = None
    /\ topic' = [topic EXCEPT ![k].val = truth[inst[topic[k].inst].config]]
    /\ calls' = Call(topic[k].inst, None, k)
    /\ UNCHANGED <<scenario, truth, reg, inst, loop, conn, view, watch, pend, moves>>

ReadDone(k) ==
    /\ loop = None /\ topic[k].pc = "done"
    /\ Publish(topic[k].inst, topic[k].val, topic[k].mark)
    /\ topic' = [topic EXCEPT ![k].pc = "attach"]
    /\ watch' = Tracked(watch, inst[topic[k].inst].config, inst[topic[k].inst].subs # {})
    /\ loop' = k
    /\ UNCHANGED <<scenario, truth, reg, conn, view, pend, moves>>

\* subscribe() registers before it encodes; _reconcile() puts a collected instance
\* back if its place is free.
Subscribed(i, k) == [inst EXCEPT ![i].subs = @ \cup {k}]
Reconciled(i) ==
    LET c == inst[i].config IN IF reg[c] = None THEN Registered(i, c) ELSE reg

\* After get_source(): given up, started over, or subscribed; then the full
\* event, or the clear of what the browser still shows.
Attach(k) ==
    /\ loop = k /\ topic[k].pc = "attach" /\ loop' = None
    /\ LET t == topic[k]
           i == t.inst
           data == IF i = None THEN None ELSE inst[i].data
           c == IF i = None THEN None ELSE inst[i].config
           m == IF data # None THEN [kind |-> "full", config |-> c, v |-> data]
                ELSE [kind |-> "del", config |-> None, v |-> 0]
           sends == data # None \/ t.holds
       IN IF t.closed \/ t.dirty
            THEN /\ topic' = [topic EXCEPT ![k].pc = IF t.closed THEN "idle" ELSE "begin"]
                 /\ UNCHANGED <<reg, inst, conn, watch>>
            ELSE /\ topic' = [topic EXCEPT ![k].src = i, ![k].holds = data # None,
                                           ![k].pc = IF sends /\ ~Room(conn[k]) THEN "send" ELSE "idle"]
                 /\ conn' = IF sends THEN [conn EXCEPT ![k] = Enter(@, "round", m)] ELSE conn
                 /\ IF i = None THEN UNCHANGED <<reg, inst, watch>>
                    ELSE /\ inst' = Subscribed(i, k) /\ reg' = Reconciled(i)
                         /\ watch' = IF Resident THEN watch ELSE Tracked(watch, c, TRUE)
    /\ UNCHANGED <<scenario, truth, calls, view, pend, moves>>

\* The suspended send went through.
Sent(k) ==
    /\ loop = None /\ topic[k].pc = "send" /\ ~InLine(conn[k], "round")
    /\ topic' = [topic EXCEPT ![k].pc = IF topic[k].dirty THEN "begin" ELSE "idle"]
    /\ UNCHANGED <<scenario, truth, reg, inst, calls, loop, conn, view, watch, pend, moves>>

\* op_unsub(), also when the connection ends.
Close(k) ==
    /\ "close" \in scenario /\ loop = None /\ ~topic[k].closed
    /\ topic' = [topic EXCEPT ![k].closed = TRUE, ![k].src = None]
    /\ inst' = Left(k) /\ watch' = LeftWatch(k)
    /\ conn' = [conn EXCEPT ![k] = Dropped(@)]
    /\ UNCHANGED <<scenario, truth, reg, calls, loop, view, pend, moves>>
-----------------------------------------------------------------------------
(* The refresh manager: run().                                             *)

\* _due(): requested, or its deadline passed; _refresh() up to its forced read.
Refresh(c) ==
    /\ loop = None /\ watch.inst = None
    /\ c \in watch.requested \/ ("clock" \in scenario /\ c \in watch.tracked)
    /\ \E i \in Lookup(c) :
         /\ Created(i, c)[i].reader = None /\ reg' = Registered(i, c)
         /\ inst' = [Created(i, c) EXCEPT ![i].reader = Manager]
         /\ watch' = [watch EXCEPT !.requested = @ \ {c}, !.inst = i, !.val = None, !.read = FALSE,
                                   !.mark = inst[i].dirty]
    /\ UNCHANGED <<scenario, truth, calls, loop, topic, conn, view, pend, moves>>

RefreshReads ==
    /\ watch.inst # None /\ watch.val = None
    /\ watch' = [watch EXCEPT !.val = truth[inst[watch.inst].config]]
    /\ calls' = Call(watch.inst, None, Manager)
    /\ UNCHANGED <<scenario, truth, reg, inst, loop, topic, conn, view, pend, moves>>

RefreshDone ==
    /\ loop = None /\ watch.inst # None /\ watch.read
    /\ Publish(watch.inst, watch.val, watch.mark)
    /\ watch' = [Tracked(watch, inst[watch.inst].config, inst[watch.inst].subs # {})
                   EXCEPT !.inst = None]
    /\ UNCHANGED <<scenario, truth, reg, loop, topic, conn, view, pend, moves>>
-----------------------------------------------------------------------------
Next ==
    \/ RunCallback \/ FollowUp \/ RefreshReads \/ RefreshDone
    \/ \E k \in Conns : OutboxSend(k) \/ Take(k) \/ Navigate(k) \/ Begin(k) \/ Resolve(k)
                        \/ ReadDisk(k) \/ ReadDone(k) \/ Attach(k) \/ Sent(k) \/ Close(k)
    \/ \E c \in Configs : WorkerPush(c) \/ Save(c) \/ Collect(c) \/ Refresh(c)
    \/ \E i \in Instances : Expire(i)

Spec == Init /\ [][Next]_vars
-----------------------------------------------------------------------------
(* Properties.                                                             *)

\* Nothing is on its way to a browser.
Quiet ==
    /\ calls = <<>> /\ pend = None /\ loop = None
    /\ watch.inst = None /\ watch.requested = {}
    /\ \A k \in Conns : /\ topic[k].pc = "idle" /\ conn[k].buf = <<>> /\ conn[k].task = "none"
                        /\ conn[k].waiting = <<>>

\* Once everything is delivered a browser shows what the source of its config
\* holds, and nothing when it looks at none.  Does not hold in three ways.  An
\* increment may be picked up by the doorbell of an older one and then overtake a
\* full event that was queued between the two (_push(), reinit()); an increment
\* that was queued for viewers who left reaches the next one after a full event
\* that is newer (on_event(), subscribe()); and the first increment of a new
\* source may be left in the outbox that a cancelled task of the old source is
\* about to leave (deliver(), _drop_outbox()).
ClientAlwaysMatches ==
    Quiet => \A k \in Conns : ~topic[k].closed =>
        view[k] = IF topic[k].src = None \/ inst[topic[k].src].data = None THEN Nothing
                  ELSE [config |-> topic[k].want, v |-> inst[topic[k].src].data]

\* The same for a browser that stays with its config, of a source that is changed
\* by events while no viewer leaves, or only by reads: increments keep their order
\* through the inbox, the full send buffer and the outbox.
ClientMatchesSource ==
    \/ scenario \cap {"roam", "expire"} # {}
    \/ "event" \in scenario /\ scenario \cap {"save", "clock", "close"} # {}
    \/ ClientAlwaysMatches

\* The same when viewers leave ("no save can be swallowed", request_refresh()).
\* Does not hold: the save has seen a viewer and asks for a refresh, the viewer
\* leaves, and unregister() drops the request, which leaves no mark.
SavesAreSeen ==
    Quiet => \A i \in Instances : inst[i].loaded /\ inst[i].dirty = 0
                                      => inst[i].data = truth[inst[i].config]

\* After saves a source without a dirty mark holds the current table: a mark set
\* while a read runs survives it, a request is executed (fetch_init(),
\* request_refresh()).
CleanIsCurrent == scenario \cap {"event", "roam", "close", "expire"} = {} => SavesAreSeen

\* A subscriber is attached to the instance that gets the events of its config.
\* Does not hold: an event may create an instance while a collected one is on its
\* way to a subscriber, and _reconcile() leaves it outside the registry.
SubscriberIsFed ==
    \A k \in Conns : topic[k].src # None => reg[inst[topic[k].src].config] = topic[k].src

\* A config somebody looks at is tracked by the refresh manager, however viewers
\* come and go (_sync_update_time()); unless its source was collected while it was
\* on its way to a viewer: the viewers of its successor then decide.  Attaching and
\* detaching run on the one trio thread.  A worker's push calls _sync_update_time()
\* from its own thread, may see no viewer (que.py:573), and untrack (:583) a config that
\* was subscribed in between: this is not modelled.
WatchedIsTracked ==
    scenario \cap {"resident", "event", "expire"} = {} =>
        \A k \in Conns : topic[k].src # None => inst[topic[k].src].config \in watch.tracked
=============================================================================
