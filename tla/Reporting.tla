------------------------------ MODULE Reporting ------------------------------
(***************************************************************************)
(* The reporting engine of the interaction model: reporting::Engine        *)
(* (reporting/Engine.cpp), the ReadHandlers it drives (ReadHandler.cpp)    *)
(* and the scheduler of subscription reports (ReportSchedulerImpl.cpp).    *)
(*                                                                         *)
(* An application changes attributes and calls SetDirty; the engine keeps  *)
(* a bounded set of dirty paths, each with the generation of its last      *)
(* change, and a Run, scheduled as work of the event loop, visits the      *)
(* handlers round robin and sends what each still owes its client, in as   *)
(* many chunks as it takes and with a bounded number of reports in flight. *)
(* All of it runs on one thread: a Run is a sequence of Visit steps that   *)
(* no other action interrupts.                                             *)
(*                                                                         *)
(* The value of an attribute is the generation of its last change.  Time   *)
(* is kept per subscription as the phase of its reporting interval.        *)
(***************************************************************************)
EXTENDS Integers, Sequences, FiniteSets, SequencesExt, FiniteSetsExt

CONSTANTS
    Handlers,       \* requests that may be open at once
    Readers,        \* those of them that are reads; the rest subscribe
    Listeners,      \* subscriptions that asked for an urgent event
    Request,        \* the paths each asks for: a sequence of patterns
    Attributes,     \* the data model: attributes <<e, c, a>> in its order
    Changes,        \* the patterns the application marks dirty
    MaxInFlight,    \* CHIP_IM_MAX_REPORTS_IN_FLIGHT
    DirtyMax,       \* CHIP_IM_SERVER_MAX_NUM_DIRTY_SET
    IndexModulus,   \* stands for 2^32, the width of mCurReadHandlerIdx
    MayFail,        \* whether a report may fail to be sent
    MaxInputs       \* bound: a read or a change costs 1, a subscription, an
                    \* event, an eviction, an error, a deferral or a forced
                    \* Run costs 2

ASSUME ReportingAssumption ==
    /\ Readers \subseteq Handlers /\ Listeners \subseteq Handlers \ Readers
    /\ IsFiniteSet(Handlers)
    /\ Request \in [Handlers -> Seq(Nat \X Nat \X Nat)]
    /\ Attributes \in Seq(Nat \X Nat \X Nat)
    /\ MayFail \in BOOLEAN
    /\ {MaxInFlight, DirtyMax, IndexModulus, MaxInputs} \subseteq Nat \ {0}

VARIABLES
    handler,    \* each request's ReadHandler, or Free
    pool,       \* the allocated handlers in the pool's order
    changes,    \* the patterns marked dirty so far, oldest first
    sent,       \* the last value each handler sent of each attribute, or 0
    dirtySet,   \* mGlobalDirtySet: paths with the generation of their change
    lastEvent,  \* number of the last event logged
    runScheduled, running, toVisit, inFlight, curIdx,
    unvisited,  \* history: handlers a Run has not come to (nor did, once over)
    missed,     \* history: listeners an urgent event came to during a report
    used        \* how much of the bound on inputs is used

engine == <<running, toVisit, inFlight, curIdx>>
vars == <<handler, pool, changes, sent, dirtySet, lastEvent, runScheduled,
          engine, unvisited, missed, used>>

\* mDirtyGeneration of the engine: it counts the calls of SetDirty from 1.
gen == Len(changes) + 1

-----------------------------------------------------------------------------
(* Paths.  A pattern is a triple in which 0 is a wildcard.                 *)

Covers(p, q) == \A i \in 1..3 : p[i] \in {0, q[i]}

Intersects(p, q) == \A i \in 1..3 : p[i] = 0 \/ q[i] \in {0, p[i]}

SameCluster(p, q) == p[1] = q[1] /\ p[2] = q[2]

\* The expand iterator goes through the patterns of a request and, for each of
\* them, through the data model.  Place k of that walk is attribute AttrAt(k)
\* under pattern PatternAt(k); it is a step if the pattern has the attribute.
AttrAt(k) == Attributes[((k - 1) % Len(Attributes)) + 1]

PatternAt(k) == ((k - 1) \div Len(Attributes)) + 1

WalkLength(h) == Len(Request[h]) * Len(Attributes)

Steps == [h \in Handlers |->
    {k \in 1..WalkLength(h) : Covers(Request[h][PatternAt(k)], AttrAt(k))}]

Requested == [h \in Handlers |-> {AttrAt(k) : k \in Steps[h]}]

-----------------------------------------------------------------------------
(* The dirty set.                                                          *)

\* Every way to merge a path into an entry that it overlaps.
MergeOverlapped(S, p, g) ==
    {(S \ {d}) \cup {[path |-> IF Covers(d.path, p) THEN d.path ELSE p, gen |-> g]} :
        d \in {d \in S : Covers(d.path, p) \/ Covers(p, d.path)}}

\* Replace every group of several entries by one that covers them all.
MergeGroups(S, groupOf(_), join(_)) ==
    {IF Cardinality(groupOf(d)) < 2 THEN d
     ELSE [path |-> join(d.path), gen |-> Max({x.gen : x \in groupOf(d)})] : d \in S}

MergeDirtyPathsUnderSameCluster(S) ==
    MergeGroups(S, LAMBDA d : IF d.path[2] = 0 THEN {d}
                              ELSE {x \in S : SameCluster(x.path, d.path)},
                   LAMBDA p : <<p[1], p[2], 0>>)

MergeDirtyPathsUnderSameEndpoint(S) ==
    MergeGroups(S, LAMBDA d : IF d.path[1] = 0 THEN {d}
                              ELSE {x \in S : x.path[1] = d.path[1]},
                   LAMBDA p : <<p[1], 0, 0>>)

MakeRoom(S, g) ==
    LET byCluster  == MergeDirtyPathsUnderSameCluster(S)
        byEndpoint == MergeDirtyPathsUnderSameEndpoint(byCluster)
    IN  IF Cardinality(S) < DirtyMax THEN S
        ELSE IF Cardinality(byCluster) < Cardinality(S) THEN byCluster
        ELSE IF Cardinality(byEndpoint) < Cardinality(S) THEN byEndpoint
        ELSE {[path |-> <<0, 0, 0>>, gen |-> g]}

\* InsertPathIntoDirtySet: the sets it may leave.
InsertPath(S, p, g) ==
    LET roomy == MakeRoom(S, g)
    IN  IF MergeOverlapped(S, p, g) # {} THEN MergeOverlapped(S, p, g)
        ELSE IF MergeOverlapped(roomy, p, g) # {} THEN MergeOverlapped(roomy, p, g)
        ELSE {IF Cardinality(roomy) < DirtyMax
              THEN roomy \cup {[path |-> p, gen |-> g]} ELSE roomy}

-----------------------------------------------------------------------------
(* The handlers and their place in the scheduler.  A subscription has a    *)
(* node in the scheduler, and so a phase, once it is established; a read   *)
(* is "priming" for all its life.  The timer is armed for the end of the   *)
(* min interval or of the max interval; computed when the max interval is  *)
(* already over it wraps to weeks ("far").  "fired" is history: the timer  *)
(* has fired since the last report.                                        *)

\* The value of an attribute at a generation, and now.
ValueAt(a, g) == Max({1} \cup {i \in 2..g : Covers(changes[i - 1], a)})

Value(a) == ValueAt(a, gen)

NothingSent == [k \in Range(Attributes) |-> 0]

Free == [state |-> "free"]

NewHandler ==
    [state |-> "start", priming |-> TRUE, chunked |-> FALSE, force |-> TRUE,
     dirty |-> 0, previous |-> 0, begin |-> 0, pos |-> 0, rewound |-> FALSE,
     eventMin |-> 1, eventSeen |-> 0,
     phase |-> "none", timer |-> "none", due |-> FALSE, fired |-> FALSE]

Open == {h \in Handlers : handler[h] # Free}

CanStartReporting(r) == r.state = "start"

IsDirty(r) == r.dirty > r.previous \/ r.force

ShouldReportUnscheduled(r) == CanStartReporting(r) /\ r.priming

\* ReadHandlerNode::IsReportableNow; "due" is its EngineRunScheduled flag.
IsReportableNow(r) ==
    /\ CanStartReporting(r)
    /\ r.phase # "none"
    /\ \/ r.due
       \/ r.phase = "open" /\ IsDirty(r)
       \/ r.phase = "late"

NextTimer(r) ==
    IF CanStartReporting(r) /\ IsDirty(r) /\ r.phase \in {"early", "deferred"} THEN "min"
    ELSE IF r.phase = "late" THEN "far" ELSE "max"

\* OnBecameReportable: the node's timer is set anew, or fires at once.
Scheduled(r) ==
    IF r.phase = "none" THEN r
    ELSE IF IsReportableNow(r) THEN [r EXCEPT !.timer = "none", !.due = TRUE]
    ELSE [r EXCEPT !.timer = NextTimer(r)]

\* Move to CanStartReporting, after an answer to a report.
Restarted(r) ==
    LET started == [r EXCEPT !.state = "start"]
    IN  IF r.priming THEN started ELSE Scheduled(started)

\* What makes a Run report a handler, and so what a Run is scheduled for.
Wants(r) == ShouldReportUnscheduled(r) \/ IsReportableNow(r)

\* Mutant: a handler that waits for an answer is not told.
ForceDirtyStateWhenIdle(r) ==
    IF CanStartReporting(r) /\ ~IsDirty(r) /\ ~r.priming
    THEN Scheduled([r EXCEPT !.force = TRUE]) ELSE r

\* SetStateFlag(ForceDirty).
ForceDirtyState(r) ==
    LET forced == [r EXCEPT !.force = TRUE]
    IN  IF CanStartReporting(r) /\ ~IsDirty(r) /\ ~r.priming THEN Scheduled(forced) ELSE forced

\* Whether that makes its report due at once.
BecomesDue(r) == ~IsDirty(r) /\ IsReportableNow([r EXCEPT !.force = TRUE])

\* The iterator of a report under way stands at the place "pos": the steps up
\* to there are done, and the next place is a step or the end.  It goes back
\* to the start of the cluster of the last step it has done, within that
\* step's pattern.  "rewound": it has, and would not go further back.
Rewound(h, r) ==
    LET here == Max({k \in Steps[h] : k <= r.pos})
        cluster == {k \in Steps[h] : PatternAt(k) = PatternAt(here)
                                     /\ SameCluster(AttrAt(k), AttrAt(here))}
    IN  IF Request[h][PatternAt(here)][3] # 0 THEN r
        ELSE [r EXCEPT !.pos = Min(cluster) - 1, !.rewound = TRUE]

\* Mutant: the iterator goes on.
PathIsDirtyGoesOn(h, r, p, g) == [r EXCEPT !.dirty = g]

\* AttributePathIsDirty: a change in the cluster that is reported next sends
\* the iterator back.
AttributePathIsDirty(h, r, p, g) ==
    LET marked == [r EXCEPT !.dirty = g]
        turnsBack ==
            /\ ~r.rewound
            /\ \E k \in Steps[h] : k <= r.pos
            /\ r.pos + 1 \in Steps[h]
            /\ \A i \in 1..2 : p[i] \in {0, AttrAt(r.pos + 1)[i]}
    IN  IF turnsBack THEN Rewound(h, marked) ELSE marked

-----------------------------------------------------------------------------
Init ==
    /\ handler = [h \in Handlers |-> Free]
    /\ pool = <<>>
    /\ changes = <<>>
    /\ sent = [h \in Handlers |-> NothingSent]
    /\ dirtySet = {}
    /\ lastEvent = 0
    /\ runScheduled = FALSE
    /\ running = FALSE /\ toVisit = 0 /\ inFlight = 0 /\ curIdx = 0
    /\ unvisited = {}
    /\ missed = {}
    /\ used = 0

\* The bound on requests and on whatever else disturbs the engine's work.
Input(cost) ==
    /\ used + cost <= MaxInputs
    /\ used' = used + cost

\* Mutant: whoever waited for room is not called.
ReportConfirmedQuietly ==
    /\ inFlight' = inFlight - 1
    /\ UNCHANGED runScheduled

\* OnReportConfirm: one report less in flight, and room for another.
ReportConfirmed ==
    /\ inFlight' = inFlight - 1
    /\ runScheduled' = (runScheduled \/ inFlight = MaxInFlight)

\* The pool without one of its handlers.
PoolWithout(h) == RemoveAt(pool, CHOOSE i \in 1..Len(pool) : pool[i] = h)

\* Mutant: a report that nobody will answer any more stays in flight.
CloseUnconfirmed(h) ==
    /\ handler' = [handler EXCEPT ![h] = Free]
    /\ pool' = PoolWithout(h)
    /\ sent' = [sent EXCEPT ![h] = NothingSent]
    /\ curIdx' = 0
    /\ missed' = missed \ {h}
    /\ unvisited' = unvisited \ {h}
    /\ UNCHANGED <<changes, dirtySet, lastEvent, running, toVisit, inFlight, runScheduled>>

\* Close, outside a Run: the handler is released and the engine starts over
\* at the head of the pool.
Close(h) ==
    /\ handler' = [handler EXCEPT ![h] = Free]
    /\ pool' = PoolWithout(h)
    /\ curIdx' = 0
    /\ IF handler[h].state = "await" THEN ReportConfirmed
       ELSE UNCHANGED <<inFlight, runScheduled>>
    /\ sent' = [sent EXCEPT ![h] = NothingSent]
    /\ missed' = missed \ {h}
    /\ unvisited' = unvisited \ {h}
    /\ UNCHANGED <<changes, dirtySet, lastEvent, running, toVisit>>

\* A read or subscribe request is accepted.
OnInitialRequest(h) ==
    /\ ~running
    /\ handler[h] = Free
    /\ Input(IF h \in Readers THEN 1 ELSE 2)
    /\ handler' = [handler EXCEPT ![h] = NewHandler]
    /\ pool' = Append(pool, h)
    /\ runScheduled' = TRUE
    /\ UNCHANGED <<changes, sent, dirtySet, lastEvent, engine, unvisited, missed>>

\* The application changes the attributes of a pattern.
SetDirty(p) ==
    LET g == gen + 1
        touched == {h \in Open : \E i \in 1..Len(Request[h]) : Intersects(Request[h][i], p)}
        marked(h) == AttributePathIsDirty(h, handler[h], p, g)
    IN  /\ ~running
        /\ Input(1)
        /\ changes' = Append(changes, p)
        /\ handler' = [h \in Handlers |->
                          IF h \in touched THEN Scheduled(marked(h)) ELSE handler[h]]
        /\ runScheduled' = (runScheduled \/ \E h \in touched : IsReportableNow(marked(h)))
        /\ dirtySet' \in IF touched = {} THEN {dirtySet} ELSE InsertPath(dirtySet, p, g)
        /\ UNCHANGED <<pool, sent, lastEvent, engine, unvisited, missed>>

\* NewEventGenerated: an urgent event is logged.
NewEventGenerated ==
    LET told == Open \cap Listeners
    IN  /\ ~running
        /\ Input(2)
        /\ lastEvent' = lastEvent + 1
        /\ handler' = [h \in Handlers |-> IF h \in told THEN ForceDirtyState(handler[h]) ELSE handler[h]]
        /\ runScheduled' = (runScheduled \/ \E h \in told : BecomesDue(handler[h]))
        /\ missed' = missed \cup {h \in told : handler[h].chunked}
        /\ UNCHANGED <<pool, changes, sent, dirtySet, engine, unvisited>>

\* The client answers a chunk: the next one may go.
ChunkAcknowledged(h) ==
    /\ handler[h].chunked
    /\ handler' = [handler EXCEPT ![h] = Restarted(@)]

\* The client answers the last chunk of the priming report: the subscription
\* is established and gets its node in the scheduler.
Established(h) ==
    /\ ~handler[h].chunked /\ handler[h].priming
    /\ handler' = [handler EXCEPT ![h] = Restarted([@ EXCEPT !.priming = FALSE, !.phase = "early"])]

\* The client answers the last chunk of a later report.
ReportAcknowledged(h) ==
    /\ ~handler[h].chunked /\ ~handler[h].priming
    /\ handler' = [handler EXCEPT ![h] = Restarted(@)]

OnStatusResponse(h) ==
    /\ ~running
    /\ handler[h].state = "await"
    /\ ChunkAcknowledged(h) \/ Established(h) \/ ReportAcknowledged(h)
    /\ inFlight' = inFlight - 1
    /\ runScheduled' = (runScheduled \/ inFlight = MaxInFlight \/ Wants(handler'[h]))
    /\ UNCHANGED <<pool, changes, sent, dirtySet, lastEvent, running, toVisit, curIdx,
                   unvisited, missed, used>>

\* The client answers with an error, or does not answer in time.
ReportFails(h) ==
    /\ ~running
    /\ handler[h].state = "await"
    /\ Close(h)
    /\ UNCHANGED used

\* The interaction model engine drops a subscription to make room.
EvictSubscription(h) ==
    /\ ~running
    /\ h \in Open \ Readers
    /\ Input(2)
    /\ Close(h)

-----------------------------------------------------------------------------
(* The scheduler's clock.                                                  *)

TimePasses(h) ==
    /\ ~running
    /\ handler[h] # Free
    /\ \/ /\ handler[h].phase \in {"early", "deferred"}
          /\ handler' = [handler EXCEPT ![h].phase = "open"]
       \/ /\ handler[h].phase = "open"
          /\ handler' = [handler EXCEPT ![h].phase = "late"]
    /\ UNCHANGED <<pool, changes, sent, dirtySet, lastEvent, runScheduled, engine,
                   unvisited, missed, used>>

\* At the time it was armed for, or earlier: nothing is compared with the
\* timestamps, for the sake of clock adjustments.
TimerFired(h) ==
    /\ ~running
    /\ handler[h] # Free
    /\ handler[h].timer # "none"
    /\ handler' = [handler EXCEPT ![h].timer = "none", ![h].due = TRUE, ![h].fired = TRUE]
    /\ runScheduled' = TRUE
    /\ UNCHANGED <<pool, changes, sent, dirtySet, lastEvent, engine, unvisited, missed, used>>

\* A command asks for later reports: nodes whose min interval is over wait
\* again, and every node is scheduled anew.
DeferReports ==
    LET deferred(r) == IF r.phase = "open" THEN [r EXCEPT !.phase = "deferred"] ELSE r
        nodes == {h \in Open : handler[h].phase # "none"}
    IN  /\ ~running
        /\ Input(2)
        /\ handler' = [h \in Handlers |-> IF h \in nodes THEN Scheduled(deferred(handler[h])) ELSE handler[h]]
        /\ runScheduled' = (runScheduled \/ \E h \in nodes : IsReportableNow(deferred(handler[h])))
        /\ UNCHANGED <<pool, changes, sent, dirtySet, lastEvent, engine, unvisited, missed>>

-----------------------------------------------------------------------------
(* A Run of the engine.                                                    *)

StartRun ==
    /\ ~running
    /\ running' = TRUE
    /\ toVisit' = Len(pool)
    /\ unvisited' = Range(pool)
    /\ UNCHANGED <<pool, changes, sent, dirtySet, lastEvent, inFlight, curIdx, missed>>

Run ==
    /\ runScheduled
    /\ runScheduled' = FALSE
    /\ StartRun
    /\ UNCHANGED <<handler, used>>

Visiting == running /\ inFlight < MaxInFlight /\ toVisit > 0

Current == pool[(curIdx % Len(pool)) + 1]

Advance ==
    /\ toVisit' = toVisit - 1
    /\ curIdx' = (curIdx + 1) % IndexModulus

Skip ==
    /\ Visiting
    /\ ~Wants(handler[Current])
    /\ Advance
    /\ unvisited' = unvisited \ {Current}
    /\ UNCHANGED <<handler, pool, changes, sent, dirtySet, lastEvent, runScheduled,
                   running, inFlight, missed, used>>

\* The steps of a handler's request that its report must still include.
Owed(h) ==
    LET r == handler[h]
        from == IF r.chunked THEN r.pos ELSE 0
    IN  {k \in Steps[h] :
            /\ k > from
            /\ r.priming \/ \E d \in dirtySet : Covers(d.path, AttrAt(k)) /\ d.gen > r.previous}

\* The last event a report must include: those logged before its first chunk.
EventGoal(h) ==
    IF h \notin Listeners THEN 0
    ELSE IF handler[h].chunked THEN handler[h].eventSeen ELSE lastEvent

\* The chunks a handler can send.  The buffer is full at step "stop" or
\* before event "event", or else holds all there is.
Chunks(h) ==
    LET r == handler[h]
        clean == r.eventMin > EventGoal(h)
        end == WalkLength(h) + 1
    IN  [stop : Owed(h) \cup {end},
         event : IF clean THEN {r.eventMin} ELSE r.eventMin..(lastEvent + 1)]

HasMore(h, c) ==
    \/ c.stop <= WalkLength(h)
    \/ c.event <= lastEvent /\ handler[h].eventMin <= EventGoal(h)

IsEmpty(h, c) == c.event = handler[h].eventMin /\ ~\E k \in Owed(h) : k < c.stop

\* Mutant: what changed while the report went out counts as reported.
CompletedNow(r, begin) ==
    [r EXCEPT !.previous = gen, !.force = FALSE, !.begin = 0, !.eventSeen = 0]

\* The last chunk is out.  The generation and the event number taken at the
\* report's start mean nothing from here on, and are 0.
Completed(r, begin) ==
    [r EXCEPT !.previous = begin, !.force = FALSE, !.begin = 0, !.eventSeen = 0]

\* Mutant: the flag of the timer that led to this report stays.
ReportSentStillDue(r) == Scheduled([r EXCEPT !.phase = "early", !.fired = FALSE])

\* OnSubscriptionReportSent: the intervals start over.
OnSubscriptionReportSent(r) ==
    Scheduled([r EXCEPT !.phase = "early", !.due = FALSE, !.fired = FALSE])

\* SendReportData: what a chunk that was sent changes in its handler.
AfterChunk(h, c) ==
    LET r == handler[h]
        begin == IF r.chunked THEN r.begin ELSE gen
        moved == [r EXCEPT !.state = "await", !.chunked = HasMore(h, c), !.pos = c.stop - 1,
                           !.rewound = r.chunked /\ @ /\ c.stop = r.pos + 1,
                           !.eventMin = c.event, !.begin = begin, !.eventSeen = EventGoal(h)]
    IN  IF moved.chunked THEN moved
        ELSE IF r.priming THEN Completed(moved, begin)
        ELSE Completed(OnSubscriptionReportSent(moved), begin)

Deliver(h, c) ==
    sent' = [sent EXCEPT ![h] = [a \in DOMAIN @ |->
                IF \E k \in Owed(h) : k < c.stop /\ AttrAt(k) = a THEN Value(a) ELSE @[a]]]

\* A chunk goes out that the client is to answer.
SendChunk(h, c) ==
    /\ h \notin Readers \/ HasMore(h, c)
    /\ handler' = [handler EXCEPT ![h] = AfterChunk(h, c)]
    /\ Deliver(h, c)
    /\ missed' = IF c.event > lastEvent THEN missed \ {h} ELSE missed
    /\ inFlight' = inFlight + 1
    /\ Advance
    /\ UNCHANGED <<pool, runScheduled>>

\* The handler is released by the Run that visits it.
ReleaseCurrent ==
    /\ handler' = [handler EXCEPT ![Current] = Free]
    /\ pool' = PoolWithout(Current)
    /\ sent' = [sent EXCEPT ![Current] = NothingSent]
    /\ missed' = missed \ {Current}
    /\ UNCHANGED inFlight

\* The last chunk of a read ends it; for a moment it counts as in flight.
FinishRead(h, c) ==
    /\ h \in Readers /\ ~HasMore(h, c)
    /\ runScheduled' = (runScheduled \/ inFlight + 1 = MaxInFlight)
    /\ ReleaseCurrent
    /\ toVisit' = toVisit - 1
    /\ UNCHANGED curIdx

\* Not even one attribute or event fits in a packet.
GiveUp ==
    /\ ReleaseCurrent
    /\ toVisit' = toVisit - 1
    /\ UNCHANGED <<curIdx, runScheduled>>

Report ==
    /\ Visiting
    /\ Wants(handler[Current])
    /\ \E c \in Chunks(Current) :
          IF HasMore(Current, c) /\ IsEmpty(Current, c) THEN GiveUp
          ELSE SendChunk(Current, c) \/ FinishRead(Current, c)
    /\ unvisited' = unvisited \ {Current}
    /\ UNCHANGED <<changes, dirtySet, lastEvent, running, used>>

\* The session is gone, there is no buffer, or the message cannot be sent:
\* the handler is released and the Run returns at once.
ReportError ==
    /\ MayFail
    /\ Visiting
    /\ Wants(handler[Current])
    /\ Input(2)
    /\ ReleaseCurrent
    /\ curIdx' = (curIdx - 1) % IndexModulus
    /\ running' = FALSE
    /\ toVisit' = 0
    /\ unvisited' = unvisited \ {Current}
    /\ UNCHANGED <<changes, dirtySet, lastEvent, runScheduled>>

EndRun ==
    /\ running /\ ~Visiting
    /\ running' = FALSE
    /\ toVisit' = 0
    /\ curIdx' = IF curIdx >= Len(pool) THEN 0 ELSE curIdx
    /\ dirtySet' = IF \E h \in Open : IsDirty(handler[h]) THEN dirtySet ELSE {}
    /\ unvisited' = IF inFlight = MaxInFlight THEN {} ELSE unvisited
    /\ UNCHANGED <<handler, pool, changes, sent, lastEvent, runScheduled, inFlight,
                   missed, used>>

\* Events that cannot wait: every subscription is made dirty, and a Run
\* starts at once, beside the one that may be scheduled.
ScheduleUrgentEventDeliverySync ==
    LET told == Open \ Readers
    IN  /\ StartRun
        /\ Input(2)
        /\ handler' = [h \in Handlers |-> IF h \in told THEN ForceDirtyState(handler[h]) ELSE handler[h]]
        /\ runScheduled' = (runScheduled \/ \E h \in told : BecomesDue(handler[h]))

Next ==
    \/ \E h \in Handlers : OnInitialRequest(h) \/ OnStatusResponse(h) \/ ReportFails(h)
                           \/ EvictSubscription(h) \/ TimePasses(h) \/ TimerFired(h)
    \/ \E p \in Changes : SetDirty(p)
    \/ NewEventGenerated \/ DeferReports \/ ScheduleUrgentEventDeliverySync
    \/ Run \/ Skip \/ Report \/ ReportError \/ EndRun

Spec == Init /\ [][Next]_vars

-----------------------------------------------------------------------------
(* Properties.                                                             *)

\* Between Runs, exactly the handlers that wait for an answer are in flight,
\* within the limit: OnReportConfirm (Engine.cpp) dies on one too many, and
\* one too few would block the engine for good.
InFlightIsExact ==
    /\ inFlight = Cardinality({h \in Open : handler[h].state = "await"})
    /\ inFlight <= MaxInFlight

\* A value that a client has not got is still owed: it comes later in the
\* report under way, or the handler is dirty and an entry of the dirty set,
\* merged or not, says so with a generation its reports have not reached.
NothingIsLost ==
    \A h \in Open : \A a \in Requested[h] :
        sent[h][a] # Value(a) =>
            \/ /\ handler[h].priming
               /\ \E k \in Steps[h] :
                     AttrAt(k) = a /\ (handler[h].chunked => k > handler[h].pos)
            \/ /\ IsDirty(handler[h])
               /\ \E d \in dirtySet : Covers(d.path, a) /\ d.gen > handler[h].previous

\* A complete report leaves the client with values that all of one cluster
\* had at one moment, however the attributes changed between its chunks
\* (AttributePathIsDirty sends the iterator back to make it so).
ClustersAreCoherent ==
    \A h \in Open :
        handler[h].state = "await" /\ ~handler[h].chunked =>
            \A i \in {i \in 1..Len(Request[h]) : Request[h][i][3] = 0} :
                \A a \in {a \in Requested[h] : Covers(Request[h][i], a)} :
                    \E g \in 1..gen : \A b \in Requested[h] :
                        SameCluster(a, b) => sent[h][b] = ValueAt(b, g)

\* Between Runs a handler that may report is not forgotten: a Run is
\* scheduled, an answer will schedule one, or its timer is armed for the
\* moment its report is due.  The exception is a handler that the last Run
\* left out: an error ended it, or its index skipped one (EveryoneIsVisited).
NobodyIsForgotten ==
    \A h \in Open :
        ~running /\ CanStartReporting(handler[h]) =>
            \/ runScheduled
            \/ inFlight = MaxInFlight
            \/ handler[h].timer = "min"
            \/ handler[h].timer = "max" /\ ~IsDirty(handler[h])
            \/ h \in unvisited

\* "We may be deallocating read handlers as we go.  Track how many we had
\* initially, so we make sure to go through all of them" (Engine::Run): a
\* Run that no error ended and no limit stopped leaves out no handler that
\* has something to report, unless another Run is on its way.
EveryoneIsVisited ==
    ~running /\ ~runScheduled => \A h \in unvisited : ~Wants(handler[h])

\* An urgent event makes a subscription report without waiting for the max
\* interval: until it has been sent the subscription is dirty.  The exception
\* is an event that comes between the chunks of a report, whose last chunk
\* clears the flag without sending the event.
UrgentEventsAreDue ==
    \A h \in Open \cap Listeners :
        handler[h].eventMin <= lastEvent => IsDirty(handler[h]) \/ h \in missed

\* "This flag is used to confirm that the next report timer has fired [...],
\* thus allowing reporting when timers fire earlier than the minimal
\* timestamp" (ReadHandlerNode): that is the only way.  A subscription starts
\* a report in the min interval after its last one only if the timer set
\* since then has fired early; a flag or timer of the last report, a Run for
\* another handler, an event or a deferral never makes it do so.
MinIntervalIsKept ==
    [][\A h \in Open :
          /\ handler[h].state = "start" /\ ~handler[h].priming /\ ~handler[h].chunked
          /\ handler'[h].state = "await"
          => handler[h].phase # "early" \/ handler[h].fired]_vars
=============================================================================
