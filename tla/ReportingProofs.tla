--------------------------- MODULE ReportingProofs ---------------------------
(***************************************************************************)
(* Proofs about the reporting engine, for every set of handlers, every     *)
(* request and data model, and every limit.                                *)
(*                                                                         *)
(* NobodyIsForgotten is the delicate one.  It says of the time between     *)
(* Runs that whoever may report has something that will bring it to the    *)
(* engine, and no step keeps it alone: during a Run the handlers not yet   *)
(* visited count too, and a timer that has fired has left its mark in the  *)
(* node ("due").  So the invariant has one part about each handler by      *)
(* itself (HandlerOK: its timer is armed for the right moment unless it is *)
(* due), and one about the engine (Attended: whoever is due or priming is  *)
(* on somebody's list).                                                    *)
(*                                                                         *)
(* NothingIsLost needs LossInv besides: what was sent is compared with the *)
(* generations of the handler, and these with the dirty set.  Merging for  *)
(* want of room loses no path and makes none older ("Has", "Within"), so a *)
(* value changed since the last report began stays on record (Marked); and *)
(* what a report under way has yet to send lies ahead of its iterator, or  *)
(* has changed since it began (SentOK).                                    *)
(***************************************************************************)
EXTENDS Reporting, FiniteSetTheorems, WellFoundedInduction, TLAPS

Fields == {"state", "priming", "chunked", "force", "dirty", "previous", "begin", "pos",
           "rewound", "eventMin", "eventSeen", "phase", "timer", "due", "fired"}

Phases == {"none", "early", "deferred", "open", "late"}

IsHandler(r) ==
    /\ r = [f \in Fields |-> r[f]]
    /\ r.state \in {"start", "await"}
    /\ r.priming \in BOOLEAN /\ r.chunked \in BOOLEAN
    /\ r.force \in BOOLEAN /\ r.due \in BOOLEAN /\ r.fired \in BOOLEAN
    /\ r.dirty \in Nat /\ r.previous \in Nat /\ r.begin \in Nat
    /\ r.pos \in Int
    /\ r.eventMin \in Nat /\ r.eventSeen \in Nat
    /\ r.phase \in Phases /\ r.timer \in {"none", "min", "max", "far"}

(* A node of the scheduler exists once the subscription is established,    *)
(* and in the min interval only its timer makes the next report due.       *)
IsPhased(r) ==
    /\ r.priming <=> r.phase = "none"
    /\ r.phase = "none" => ~r.due /\ r.timer = "none"
    /\ r.phase = "early" /\ r.due => r.fired

(* A subscription that may report and is not due has the right timer.      *)
IsArmed(r) ==
    CanStartReporting(r) /\ ~r.priming /\ ~r.due =>
        r.timer = "min" \/ (r.timer = "max" /\ ~IsDirty(r))

HandlerOK(r) == IsHandler(r) /\ IsPhased(r) /\ IsArmed(r)

(* The generations a handler knows are not in the future.                  *)
IsCurrent(r) == r.previous <= gen /\ r.begin <= gen

(* What a report under way will have sent of the events, or has missed.    *)
EventsOK(h) ==
    LET r == handler[h] IN
    h \in Listeners =>
        /\ r.eventMin <= lastEvent => IsDirty(r) \/ h \in missed
        /\ r.chunked => h \in missed \/ r.eventMin > lastEvent \/ r.eventSeen >= lastEvent

(* Whoever is due, or has not finished its first report, is on a list.     *)
Attended(h) ==
    LET r == handler[h] IN
    CanStartReporting(r) /\ (r.priming \/ r.due) =>
        runScheduled \/ inFlight = MaxInFlight \/ h \in unvisited

TypeInv ==
    /\ handler = [h \in Handlers |-> handler[h]]
    /\ pool \in Seq(Handlers)
    /\ changes \in Seq(Changes)
    /\ lastEvent \in Nat
    /\ runScheduled \in BOOLEAN /\ running \in BOOLEAN
    /\ toVisit \in Nat /\ inFlight \in Nat /\ curIdx \in Nat
    /\ ~running => toVisit = 0

(* The pool holds every open handler once, and a Run visits no more of     *)
(* them than there are.                                                    *)
PoolInv ==
    /\ Range(pool) = Open
    /\ \A i, j \in 1..Len(pool) : pool[i] = pool[j] => i = j
    /\ toVisit <= Len(pool)

(* NothingIsLost.  A value changed since the report that "previous" stands *)
(* for began, or since the report under way did if it is the first, is on  *)
(* record: the handler is dirty, and some entry has the attribute.         *)
Marked(h, a) ==
    /\ Value(a) <= handler[h].dirty
    /\ \E d \in dirtySet : Covers(d.path, a) /\ Value(a) <= d.gen

Floor(r) == IF r.previous > 0 THEN r.previous ELSE r.begin

(* The parts of it about attribute a, and the generations of a handler.    *)
RecordOK(h, a) ==
    LET r == handler[h] IN
    (r.previous > 0 \/ r.chunked) /\ Value(a) > Floor(r) => Marked(h, a)

(* What differs has changed since, and comes later in the report under way *)
(* unless it has changed since that began.                                 *)
ToCome(h, a) == \E k \in Steps[h] : AttrAt(k) = a /\ k > handler[h].pos

SentOK(h, a) ==
    LET r == handler[h] IN
    sent[h][a] # Value(a) =>
        /\ Value(a) > r.previous
        /\ r.chunked => Value(a) > r.begin \/ ToCome(h, a)

GenerationsOK(r) ==
    /\ r.previous = 0 => r.priming
    /\ r.chunked => r.begin > 0 /\ r.previous <= r.begin
    /\ r.state = "await" /\ ~r.chunked => r.previous > 0

ValuesInv == \A h \in Handlers : \A a \in Requested[h] : Value(a) \in 1..gen

DirtySetOK(S, g) ==
    /\ IsFiniteSet(S) /\ Cardinality(S) <= DirtyMax
    /\ \A d \in S : d.gen \in Nat /\ d.gen <= g

SentInv ==
    /\ sent = [h \in Handlers |-> sent[h]]
    /\ \A h \in Handlers : DOMAIN sent[h] = Range(Attributes)

OwedOK(h) ==
    /\ GenerationsOK(handler[h])
    /\ \A a \in Requested[h] : RecordOK(h, a) /\ SentOK(h, a)

LossInv ==
    /\ ValuesInv
    /\ DirtySetOK(dirtySet, gen)
    /\ SentInv
    /\ \A h \in Open : OwedOK(h)

Awaiting == {h \in Open : handler[h].state = "await"}

IInv ==
    /\ TypeInv
    /\ PoolInv
    /\ InFlightIsExact
    /\ \A h \in Open : HandlerOK(handler[h])
    /\ \A h \in Open : IsCurrent(handler[h])
    /\ \A h \in Open : EventsOK(h)
    /\ \A h \in Open : Attended(h)

-----------------------------------------------------------------------------
(* What the operations on a single handler do to it.                       *)

(* The fields no answer, timer or mark of the scheduler changes.           *)
SameProgress(r, s) ==
    /\ s.chunked = r.chunked
    /\ s.previous = r.previous /\ s.begin = r.begin
    /\ s.dirty = r.dirty /\ s.pos = r.pos
    /\ s.eventMin = r.eventMin /\ s.eventSeen = r.eventSeen

LEMMA FreeIsNoHandler ==
    ASSUME NEW r, IsHandler(r)
    PROVE  r # Free
BY DEF IsHandler, Free, Fields

LEMMA NewHandlerOK ==
    /\ HandlerOK(NewHandler)
    /\ NewHandler.state = "start" /\ NewHandler.force /\ ~NewHandler.chunked
    /\ NewHandler.previous = 0 /\ NewHandler.begin = 0
BY DEF NewHandler, HandlerOK, IsHandler, IsPhased, IsArmed, Fields, Phases

(* Scheduling a handler anew arms it, and marks it due only when a Run is  *)
(* asked for.                                                              *)
LEMMA ScheduledOK ==
    ASSUME NEW r, IsHandler(r), IsPhased(r)
    PROVE  /\ HandlerOK(Scheduled(r))
           /\ SameProgress(r, Scheduled(r))
           /\ Scheduled(r).state = r.state /\ Scheduled(r).priming = r.priming
           /\ IsDirty(Scheduled(r)) <=> IsDirty(r)
           /\ Scheduled(r).due => r.due \/ IsReportableNow(r)
  <1>0. SUFFICES ASSUME r.phase # "none"
        PROVE  /\ HandlerOK(Scheduled(r))
               /\ SameProgress(r, Scheduled(r))
               /\ Scheduled(r).state = r.state /\ Scheduled(r).priming = r.priming
               /\ IsDirty(Scheduled(r)) <=> IsDirty(r)
               /\ Scheduled(r).due => r.due \/ IsReportableNow(r)
    BY DEF Scheduled, HandlerOK, SameProgress, IsPhased, IsArmed
  <1>1. CASE IsReportableNow(r)
    <2> DEFINE s == [r EXCEPT !.timer = "none", !.due = TRUE]
    <2>1. Scheduled(r) = s
      BY <1>0, <1>1 DEF Scheduled
    <2>2. /\ IsHandler(s) /\ s.timer = "none" /\ s.due
          /\ s.phase = r.phase /\ s.priming = r.priming /\ s.state = r.state
          /\ s.dirty = r.dirty /\ s.force = r.force /\ SameProgress(r, s)
          /\ s.fired = r.fired
      BY DEF IsHandler, SameProgress, Fields
    <2> HIDE DEF s
    <2>3. r.phase = "early" => r.fired
      BY <1>1 DEF IsReportableNow, IsPhased
    <2> QED
      BY <1>0, <1>1, <2>1, <2>2, <2>3 DEF HandlerOK, IsPhased, IsArmed, IsDirty, SameProgress
  <1>2. CASE ~IsReportableNow(r)
    <2> DEFINE s == [r EXCEPT !.timer = NextTimer(r)]
    <2>1. Scheduled(r) = s
      BY <1>0, <1>2 DEF Scheduled
    <2>2. NextTimer(r) \in {"min", "max", "far"}
      BY DEF NextTimer
    <2>3. /\ IsHandler(s) /\ s.timer = NextTimer(r) /\ s.due = r.due /\ s.fired = r.fired
          /\ s.phase = r.phase /\ s.priming = r.priming /\ s.state = r.state
          /\ s.dirty = r.dirty /\ s.force = r.force /\ SameProgress(r, s)
      BY <2>2 DEF IsHandler, SameProgress, Fields
    <2> HIDE DEF s
    <2>4. IsArmed(s)
      BY <1>0, <1>2, <2>3 DEF IsArmed, IsReportableNow, NextTimer, CanStartReporting, IsDirty,
                              SameProgress, IsHandler, Phases
    <2> QED
      BY <1>0, <2>1, <2>3, <2>4 DEF HandlerOK, IsPhased, IsDirty, SameProgress
  <1> QED
    BY <1>1, <1>2

(* An answer lets a handler start again, and it is armed or due.           *)
LEMMA RestartedOK ==
    ASSUME NEW r, IsHandler(r), IsPhased(r)
    PROVE  /\ HandlerOK(Restarted(r))
           /\ SameProgress(r, Restarted(r))
           /\ Restarted(r).state = "start" /\ Restarted(r).priming = r.priming
           /\ IsDirty(Restarted(r)) <=> IsDirty(r)
           /\ Restarted(r).priming \/ Restarted(r).due => Wants(Restarted(r))
  <1> DEFINE s == [r EXCEPT !.state = "start"]
  <1>1. /\ IsHandler(s) /\ s.state = "start" /\ SameProgress(r, s)
        /\ s.priming = r.priming /\ s.phase = r.phase
        /\ s.due = r.due /\ s.fired = r.fired /\ s.timer = r.timer
        /\ s.dirty = r.dirty /\ s.force = r.force
    BY DEF IsHandler, SameProgress, Fields
  <1>2. Restarted(r) = IF r.priming THEN s ELSE Scheduled(s)
    BY DEF Restarted
  <1> HIDE DEF s
  <1>3. IsPhased(s) /\ (IsDirty(s) <=> IsDirty(r))
    BY <1>1 DEF IsPhased, IsDirty, SameProgress
  <1>4. CASE r.priming
    <2>1. Restarted(r) = s
      BY <1>2, <1>4
    <2> QED
      BY <1>1, <1>3, <1>4, <2>1
      DEF HandlerOK, IsArmed, Wants, ShouldReportUnscheduled, CanStartReporting
  <1>5. CASE ~r.priming
    <2> DEFINE t == Scheduled(s)
    <2>1. Restarted(r) = t
      BY <1>2, <1>5
    <2>2. /\ HandlerOK(t) /\ SameProgress(s, t)
          /\ t.state = s.state /\ t.priming = s.priming
          /\ IsDirty(t) <=> IsDirty(s)
      BY <1>1, <1>3, ScheduledOK
    <2> HIDE DEF t
    <2>3. t.due => IsReportableNow(t)
      BY <1>1, <1>5, <2>2 DEF IsReportableNow, CanStartReporting, HandlerOK, IsPhased
    <2> QED
      BY <1>1, <1>3, <1>5, <2>1, <2>2, <2>3 DEF SameProgress, Wants
  <1> QED
    BY <1>4, <1>5

(* A mark from an event.                                                   *)
LEMMA ForcedOK ==
    ASSUME NEW r, HandlerOK(r)
    PROVE  /\ HandlerOK(ForceDirtyState(r))
           /\ SameProgress(r, ForceDirtyState(r))
           /\ ForceDirtyState(r).state = r.state /\ ForceDirtyState(r).priming = r.priming
           /\ IsDirty(ForceDirtyState(r))
           /\ ForceDirtyState(r).due => r.due \/ BecomesDue(r)
  <1> DEFINE s == [r EXCEPT !.force = TRUE]
  <1>1. /\ IsHandler(s) /\ s.force /\ SameProgress(r, s) /\ s.state = r.state
        /\ s.priming = r.priming /\ s.phase = r.phase /\ s.due = r.due /\ s.fired = r.fired
        /\ s.timer = r.timer
    BY DEF HandlerOK, IsHandler, SameProgress, Fields
  <1>2. ForceDirtyState(r) =
            IF CanStartReporting(r) /\ ~IsDirty(r) /\ ~r.priming THEN Scheduled(s) ELSE s
    BY DEF ForceDirtyState
  <1>3. BecomesDue(r) <=> ~IsDirty(r) /\ IsReportableNow(s)
    BY DEF BecomesDue
  <1> HIDE DEF s
  <1>4. IsPhased(s) /\ IsDirty(s)
    BY <1>1 DEF IsPhased, IsDirty, HandlerOK
  <1>5. CASE CanStartReporting(r) /\ ~IsDirty(r) /\ ~r.priming
    <2>1. ForceDirtyState(r) = Scheduled(s)
      BY <1>2, <1>5
    <2> QED
      BY <1>1, <1>3, <1>4, <1>5, <2>1, ScheduledOK DEF SameProgress
  <1>6. CASE ~(CanStartReporting(r) /\ ~IsDirty(r) /\ ~r.priming)
    <2>1. ForceDirtyState(r) = s
      BY <1>2, <1>6
    <2>2. IsArmed(s)
      BY <1>1, <1>6 DEF IsArmed, CanStartReporting, HandlerOK
    <2> QED
      BY <1>1, <1>4, <2>1, <2>2 DEF HandlerOK
  <1> QED
    BY <1>5, <1>6

(* Sets of naturals.                                                       *)
LEMMA LeastNatural ==
    ASSUME NEW S \in SUBSET Nat, S # {}
    PROVE  \E m \in S : \A y \in S : m <= y
  <1> DEFINE Less == {ss \in Nat \X Nat : ss[1] < ss[2]}
  <1>1. IsWellFoundedOn(Less, Nat)
    BY NatLessThanWellFounded DEF OpToRel
  <1>2. \A a, b \in Nat : <<a, b>> \in Less <=> a < b
    OBVIOUS
  <1> HIDE DEF Less
  <1>3. PICK m \in S : \A y \in S : <<y, m>> \notin Less
    BY <1>1, WFMin
  <1>4. ASSUME NEW y \in S PROVE m <= y
    <2>1. m \in Nat /\ y \in Nat
      OBVIOUS
    <2>2. ~(y < m)
      BY <1>2, <1>3, <2>1, Zenon
    <2> QED
      BY <2>1, <2>2
  <1> QED
    BY <1>4

LEMMA MinOfNaturals ==
    ASSUME NEW S \in SUBSET Nat, NEW x \in S
    PROVE  Min(S) \in S /\ Min(S) <= x
  <1>1. PICK m \in S : \A y \in S : m <= y
    BY LeastNatural
  <1> QED
    BY <1>1 DEF Min

LEMMA MaxOfNaturals ==
    ASSUME NEW S \in SUBSET Nat, NEW b \in Nat, \A y \in S : y <= b, NEW x \in S
    PROVE  Max(S) \in S /\ x <= Max(S)
  <1> DEFINE T == {b - y : y \in S}
  <1>1. T \in SUBSET Nat /\ b - x \in T
    OBVIOUS
  <1>2. PICK t \in T : \A u \in T : t <= u
    <2> HIDE DEF T
    <2> QED
      BY <1>1, LeastNatural
  <1>3. PICK m \in S : t = b - m
    BY <1>2
  <1>4. ASSUME NEW y \in S PROVE m >= y
    <2>1. b - y \in T
      OBVIOUS
    <2> QED
      BY <1>2, <1>3, <2>1
  <1> QED
    BY <1>3, <1>4 DEF Max

LEMMA MaxIs ==
    ASSUME NEW S \in SUBSET Int, NEW m \in S, \A y \in S : y <= m
    PROVE  Max(S) = m
  <1>1. \A n \in S : (\A y \in S : n >= y) => n = m
    <2> SUFFICES ASSUME NEW n \in S, \A y \in S : n >= y PROVE n = m
      OBVIOUS
    <2>1. n >= m /\ n <= m /\ n \in Int /\ m \in Int
      OBVIOUS
    <2> QED
      BY <2>1
  <1>2. \A y \in S : m >= y
    OBVIOUS
  <1> QED
    BY <1>1, <1>2 DEF Max

(* The walk of a request.                                                  *)
LEMMA StepsAreNaturals ==
    ASSUME NEW h \in Handlers
    PROVE  /\ WalkLength(h) \in Int
           /\ Steps[h] \in SUBSET Nat
           /\ \A k \in Steps[h] : k > 0 /\ k <= WalkLength(h)
  <1>1. Len(Request[h]) \in Int /\ Len(Attributes) \in Int
    BY ReportingAssumption
  <1>2. WalkLength(h) \in Int
    BY <1>1 DEF WalkLength
  <1> QED
    BY <1>2 DEF Steps

(* A change brings the iterator back, never forward.                       *)
LEMMA PathIsDirtyOK ==
    ASSUME NEW h \in Handlers, NEW r, IsHandler(r), NEW p, NEW g \in Nat
    PROVE  LET d == AttributePathIsDirty(h, r, p, g)
           IN  /\ IsHandler(d) /\ d.dirty = g /\ d.pos <= r.pos
               /\ d.chunked = r.chunked /\ d.previous = r.previous /\ d.begin = r.begin
               /\ d.eventMin = r.eventMin /\ d.eventSeen = r.eventSeen
               /\ d.state = r.state /\ d.priming = r.priming /\ d.force = r.force
               /\ d.due = r.due /\ d.fired = r.fired /\ d.timer = r.timer /\ d.phase = r.phase
  <1> DEFINE marked == [r EXCEPT !.dirty = g]
             done == {k \in Steps[h] : k <= marked.pos}
             here == Max(done)
             cluster == {k \in Steps[h] : PatternAt(k) = PatternAt(here)
                                          /\ SameCluster(AttrAt(k), AttrAt(here))}
             q == Min(cluster) - 1
             back == [marked EXCEPT !.pos = q, !.rewound = TRUE]
  <1>1. /\ IsHandler(marked) /\ marked.dirty = g /\ marked.pos = r.pos
        /\ marked.chunked = r.chunked /\ marked.previous = r.previous /\ marked.begin = r.begin
        /\ marked.eventMin = r.eventMin /\ marked.eventSeen = r.eventSeen
        /\ marked.state = r.state /\ marked.priming = r.priming /\ marked.force = r.force
        /\ marked.due = r.due /\ marked.fired = r.fired /\ marked.timer = r.timer
        /\ marked.phase = r.phase
    BY DEF IsHandler, Fields
  <1> HIDE DEF marked
  <1>2. CASE AttributePathIsDirty(h, r, p, g) = marked
    BY <1>1, <1>2 DEF IsHandler
  <1>3. CASE /\ AttributePathIsDirty(h, r, p, g) = back
             /\ \E k \in Steps[h] : k <= r.pos
    <2>1. r.pos \in Int /\ Steps[h] \in SUBSET Nat
      BY StepsAreNaturals DEF IsHandler
    <2>2. PICK k \in done : TRUE
      BY <1>1, <1>3
    <2>3. done \in SUBSET Nat /\ r.pos \in Nat /\ \A y \in done : y <= r.pos
      BY <1>1, <2>1, <2>2
    <2> HIDE DEF cluster
    <2>4. here \in done
      <3> HIDE DEF done
      <3> QED
        BY <2>2, <2>3, MaxOfNaturals
    <2> HIDE DEF here
    <2>5. here \in cluster /\ cluster \in SUBSET Nat
      BY <2>1, <2>4 DEF cluster, SameCluster
    <2>6. Min(cluster) \in cluster /\ Min(cluster) <= here
      BY <2>5, MinOfNaturals
    <2>7. q \in Int /\ q <= r.pos
      <3>1. here \in Nat /\ here <= r.pos /\ Min(cluster) \in Nat
        BY <2>3, <2>4, <2>5, <2>6
      <3> HIDE DEF done
      <3> QED
        BY <2>3, <2>6, <3>1
    <2> HIDE DEF q
    <2>8. /\ IsHandler(back) /\ back.dirty = g /\ back.pos = q
          /\ back.chunked = r.chunked /\ back.previous = r.previous /\ back.begin = r.begin
          /\ back.eventMin = r.eventMin /\ back.eventSeen = r.eventSeen
          /\ back.state = r.state /\ back.priming = r.priming /\ back.force = r.force
          /\ back.due = r.due /\ back.fired = r.fired /\ back.timer = r.timer
          /\ back.phase = r.phase
      BY <1>1, <2>7 DEF IsHandler, Fields
    <2> QED
      BY <1>3, <2>7, <2>8
  <1> QED
    BY <1>2, <1>3 DEF AttributePathIsDirty, Rewound, marked

(* What the events of a chunk are.                                         *)
LEMMA ChunkEvents ==
    ASSUME NEW h, NEW c \in Chunks(h), lastEvent \in Nat, handler[h].eventMin \in Nat
    PROVE  /\ c.event \in Nat /\ c.event >= handler[h].eventMin
           /\ handler[h].eventMin > EventGoal(h) => c.event = handler[h].eventMin
BY DEF Chunks

LEMMA ChunkStops ==
    ASSUME NEW h \in Handlers, NEW c \in Chunks(h)
    PROVE  /\ c.stop \in Int
           /\ c.stop \in Owed(h) \/ c.stop = WalkLength(h) + 1
  <1>1. c.stop \in Owed(h) \cup {WalkLength(h) + 1}
    BY DEF Chunks
  <1>2. Owed(h) \subseteq Steps[h]
    BY DEF Owed
  <1> QED
    BY <1>1, <1>2, StepsAreNaturals

(* A chunk leaves its handler waiting for an answer; the last one brings   *)
(* it back to the start of its interval, and it has either sent the events *)
(* logged so far or is marked as having missed one.                        *)
LEMMA AfterChunkOK ==
    ASSUME NEW h \in Handlers, NEW c \in Chunks(h), HandlerOK(handler[h]),
           IsCurrent(handler[h]), EventsOK(h), lastEvent \in Nat, gen \in Nat
    PROVE  LET s == AfterChunk(h, c)
               left == IF c.event > lastEvent THEN missed \ {h} ELSE missed
           IN  /\ HandlerOK(s) /\ s.state = "await" /\ IsCurrent(s)
               /\ h \in Listeners =>
                     /\ s.eventMin <= lastEvent => IsDirty(s) \/ h \in left
                     /\ s.chunked => h \in left \/ s.eventMin > lastEvent
                                     \/ s.eventSeen >= lastEvent
  <1> DEFINE r == handler[h]
             begin == IF r.chunked THEN r.begin ELSE gen
             goal == EventGoal(h)
             more == HasMore(h, c)
             rewound == r.chunked /\ r.rewound /\ c.stop = r.pos + 1
             place == c.stop - 1
             moved == [r EXCEPT !.state = "await", !.chunked = more, !.pos = place,
                                !.rewound = rewound, !.eventMin = c.event, !.begin = begin, !.eventSeen = goal]
             left == IF c.event > lastEvent THEN missed \ {h} ELSE missed
  <1>1. IsHandler(r) /\ IsPhased(r)
    BY DEF HandlerOK
  <1>2. /\ c.event \in Nat /\ c.event >= r.eventMin
        /\ r.eventMin > goal => c.event = r.eventMin
    BY <1>1, ChunkEvents DEF IsHandler
  <1>3. goal \in Nat /\ begin \in Nat /\ begin <= gen /\ more \in BOOLEAN
    BY <1>1 DEF EventGoal, IsHandler, IsCurrent, HasMore
  <1>4. h \in Listeners => goal = IF r.chunked THEN r.eventSeen ELSE lastEvent
    BY DEF EventGoal
  <1>5. ~more => ~(c.event <= lastEvent /\ r.eventMin <= goal)
    BY DEF HasMore
  <1>6. h \in Listeners =>
            /\ r.eventMin <= lastEvent => IsDirty(r) \/ h \in missed
            /\ r.chunked => h \in missed \/ r.eventMin > lastEvent \/ r.eventSeen >= lastEvent
    BY DEF EventsOK
  <1>7. AfterChunk(h, c) =
            IF moved.chunked THEN moved
            ELSE IF r.priming THEN Completed(moved, begin)
            ELSE Completed(OnSubscriptionReportSent(moved), begin)
    BY DEF AfterChunk
  <1>8. r.previous <= gen
    BY DEF IsCurrent
  <1>p. place \in Int
    BY ChunkStops
  <1> HIDE DEF begin, goal, more, rewound, place
  <1>9. /\ IsHandler(moved) /\ moved.state = "await" /\ moved.chunked = more
        /\ moved.eventMin = c.event /\ moved.begin = begin /\ moved.eventSeen = goal
        /\ moved.priming = r.priming /\ moved.phase = r.phase
        /\ moved.due = r.due /\ moved.fired = r.fired /\ moved.timer = r.timer
        /\ moved.dirty = r.dirty /\ moved.previous = r.previous /\ moved.force = r.force
    BY <1>1, <1>2, <1>3, <1>p DEF IsHandler, Fields
  <1> HIDE DEF moved
  <1>10. ASSUME more
         PROVE  /\ HandlerOK(moved) /\ moved.state = "await" /\ IsCurrent(moved)
                /\ h \in Listeners =>
                     /\ moved.eventMin <= lastEvent => IsDirty(moved) \/ h \in left
                     /\ moved.chunked => h \in left \/ moved.eventMin > lastEvent
                                         \/ moved.eventSeen >= lastEvent
    <2>1. HandlerOK(moved) /\ IsCurrent(moved)
      BY <1>1, <1>3, <1>8, <1>9 DEF HandlerOK, IsPhased, IsArmed, CanStartReporting, IsCurrent
    <2>2. IsDirty(moved) <=> IsDirty(r)
      BY <1>9 DEF IsDirty
    <2>3. r.eventMin \in Nat
      BY <1>1 DEF IsHandler
    <2> HIDE DEF r
    <2> QED
      BY <1>2, <1>3, <1>4, <1>6, <1>9, <2>1, <2>2, <2>3
  <1>11. ASSUME NEW m, IsHandler(m), m.state = "await", IsPhased(m), ~m.chunked, ~more,
                m.eventMin = c.event
         PROVE  LET s == Completed(m, begin)
                IN  /\ HandlerOK(s) /\ s.state = "await" /\ IsCurrent(s)
                    /\ h \in Listeners =>
                         /\ s.eventMin <= lastEvent => IsDirty(s) \/ h \in left
                         /\ s.chunked => h \in left \/ s.eventMin > lastEvent
                                         \/ s.eventSeen >= lastEvent
    <2> DEFINE s == Completed(m, begin)
    <2>1. /\ IsHandler(s) /\ s.state = "await" /\ s.priming = m.priming /\ s.phase = m.phase
          /\ s.due = m.due /\ s.fired = m.fired /\ s.timer = m.timer
          /\ s.chunked = m.chunked /\ s.eventMin = c.event
          /\ s.previous = begin /\ s.begin = 0
      BY <1>3, <1>11 DEF Completed, IsHandler, Fields
    <2> HIDE DEF s
    <2>2. HandlerOK(s) /\ IsCurrent(s)
      BY <1>3, <1>11, <2>1 DEF HandlerOK, IsPhased, IsArmed, CanStartReporting, IsCurrent
    <2>3. r.eventMin \in Nat /\ r.eventSeen \in Nat
      BY <1>1 DEF IsHandler
    <2>4. h \in Listeners /\ c.event <= lastEvent => h \in missed
      <3> HIDE DEF r
      <3> QED
        BY <1>2, <1>3, <1>4, <1>5, <1>6, <1>11, <2>3
    <2>5. h \in Listeners /\ c.event <= lastEvent => h \in left
      BY <1>2, <2>4
    <2> QED
      BY <1>11, <2>1, <2>2, <2>5 DEF s
  <1>12. CASE more
    BY <1>7, <1>9, <1>10, <1>12
  <1>13. CASE ~more /\ r.priming
    <2>1. AfterChunk(h, c) = Completed(moved, begin)
      BY <1>7, <1>9, <1>13
    <2>2. IsPhased(moved)
      BY <1>1, <1>9 DEF IsPhased
    <2> QED
      BY <1>9, <1>11, <1>13, <2>1, <2>2
  <1>14. CASE ~more /\ ~r.priming
    <2> DEFINE early == [moved EXCEPT !.phase = "early", !.due = FALSE, !.fired = FALSE]
               m == Scheduled(early)
    <2>1. AfterChunk(h, c) = Completed(m, begin)
      BY <1>7, <1>9, <1>14 DEF OnSubscriptionReportSent
    <2>2. /\ IsHandler(early) /\ early.state = "await" /\ early.phase = "early" /\ ~early.due
          /\ early.chunked = more /\ early.eventMin = c.event /\ early.priming = r.priming
      BY <1>9 DEF IsHandler, Fields, Phases
    <2> HIDE DEF early
    <2>3. IsPhased(early)
      BY <1>14, <2>2 DEF IsPhased
    <2>4. /\ HandlerOK(m) /\ SameProgress(early, m) /\ m.state = early.state
      BY <2>2, <2>3, ScheduledOK
    <2> HIDE DEF m
    <2>5. /\ IsHandler(m) /\ m.state = "await" /\ IsPhased(m) /\ ~m.chunked
          /\ m.eventMin = c.event
      BY <1>14, <2>2, <2>4 DEF HandlerOK, SameProgress
    <2> QED
      BY <1>11, <1>14, <2>1, <2>5
  <1> QED
    BY <1>12, <1>13, <1>14

-----------------------------------------------------------------------------
(* Steps that leave every handler open or closed, and waiting or not.      *)

Kept(h) ==
    /\ HandlerOK(handler[h])'
    /\ IsCurrent(handler[h])'
    /\ EventsOK(h)'
    /\ Attended(h)'

(* What MinIntervalIsKept says of a step.                                  *)
IntervalIsKept ==
    \A h \in Open :
        /\ handler[h].state = "start" /\ ~handler[h].priming /\ ~handler[h].chunked
        /\ handler'[h].state = "await"
        => handler[h].phase # "early" \/ handler[h].fired

LEMMA SameStates ==
    ASSUME IInv, TypeInv', UNCHANGED <<pool, inFlight>>, toVisit' <= Len(pool),
           \A h \in Handlers \ Open : handler'[h] = handler[h],
           \A h \in Open : Kept(h) /\ handler'[h].state = handler[h].state
    PROVE  IInv' /\ IntervalIsKept
  <1>1. \A h \in Open : handler'[h] # Free
    BY FreeIsNoHandler DEF Kept, HandlerOK
  <1>2. Open' = Open
    BY <1>1 DEF Open
  <1>3. Awaiting' = Awaiting
    BY <1>2 DEF Awaiting
  <1>4. PoolInv'
    BY <1>2 DEF PoolInv, IInv
  <1>5. InFlightIsExact'
    BY <1>3 DEF InFlightIsExact, Awaiting, IInv
  <1> QED
    BY <1>2, <1>4, <1>5 DEF IInv, Kept, IntervalIsKept

LEMMA GenType ==
    ASSUME TypeInv PROVE gen \in Nat
BY DEF TypeInv, gen

LEMMA TimePassesStep ==
    ASSUME IInv, NEW x \in Handlers, TimePasses(x) PROVE IInv' /\ IntervalIsKept
  <1> DEFINE r == handler[x]
             s == handler'[x]
  <1>1. x \in Open /\ HandlerOK(r)
    BY DEF TimePasses, Open, IInv
  <1>2. /\ IsHandler(s) /\ SameProgress(r, s) /\ s.state = r.state /\ s.priming = r.priming
        /\ s.due = r.due /\ s.fired = r.fired /\ s.timer = r.timer
        /\ s.dirty = r.dirty /\ s.force = r.force
        /\ r.phase \in {"early", "deferred", "open"} /\ s.phase \in {"open", "late"}
    <2>1. PICK p \in {"open", "late"} : s = [r EXCEPT !.phase = p]
      BY DEF TimePasses, IInv, TypeInv
    <2>2. r.phase \in {"early", "deferred", "open"}
      BY DEF TimePasses
    <2>3. IsHandler(r)
      BY <1>1 DEF HandlerOK
    <2> HIDE DEF r, s
    <2> QED
      BY <2>1, <2>2, <2>3 DEF IsHandler, Fields, Phases, SameProgress
  <1>3. \A h \in Handlers \ {x} : handler'[h] = handler[h]
    BY DEF TimePasses, IInv, TypeInv
  <1>4. handler' = [h \in Handlers |-> handler'[h]]
    BY DEF TimePasses, IInv, TypeInv
  <1>5. /\ UNCHANGED <<pool, changes, lastEvent, runScheduled, engine, unvisited, missed>>
        /\ gen' = gen
    BY DEF TimePasses, gen
  <1>6. TypeInv'
    BY <1>4, <1>5 DEF IInv, TypeInv, engine
  <1>7. Kept(x)
    <2>1. HandlerOK(s)
      BY <1>1, <1>2 DEF HandlerOK, IsPhased, IsArmed, CanStartReporting, IsDirty, SameProgress
    <2>2. IsCurrent(r) /\ EventsOK(x) /\ Attended(x)
      BY <1>1 DEF IInv
    <2> QED
      BY <1>2, <1>5, <2>1, <2>2
      DEF Kept, IsCurrent, EventsOK, Attended, IsDirty, SameProgress, CanStartReporting, engine
  <1>8. \A h \in Open \ {x} : Kept(h)
    BY <1>3, <1>5 DEF IInv, Kept, Open, IsCurrent, EventsOK, Attended, engine
  <1>9. toVisit' <= Len(pool)
    BY <1>5 DEF IInv, PoolInv, engine
  <1> HIDE DEF r, s
  <1> QED
    BY <1>1, <1>2, <1>3, <1>5, <1>6, <1>7, <1>8, <1>9, SameStates DEF engine, Open, r, s

LEMMA TimerFiredStep ==
    ASSUME IInv, NEW x \in Handlers, TimerFired(x) PROVE IInv' /\ IntervalIsKept
  <1> DEFINE r == handler[x]
             s == handler'[x]
  <1>1. x \in Open /\ HandlerOK(r)
    BY DEF TimerFired, Open, IInv
  <1>2. /\ IsHandler(s) /\ SameProgress(r, s) /\ s.state = r.state /\ s.priming = r.priming
        /\ s.due /\ s.fired /\ s.dirty = r.dirty /\ s.force = r.force
        /\ s.phase = r.phase /\ r.timer # "none"
    BY <1>1 DEF TimerFired, IInv, TypeInv, HandlerOK, IsHandler, Fields, Phases, SameProgress
  <1>3. \A h \in Handlers \ {x} : handler'[h] = handler[h]
    BY DEF TimerFired, IInv, TypeInv
  <1>4. handler' = [h \in Handlers |-> handler'[h]]
    BY DEF TimerFired, IInv, TypeInv
  <1>5. /\ UNCHANGED <<pool, changes, lastEvent, engine, unvisited, missed>>
        /\ gen' = gen /\ runScheduled' = TRUE
    BY DEF TimerFired, gen
  <1>6. TypeInv'
    BY <1>4, <1>5 DEF IInv, TypeInv, engine
  <1>7. Kept(x)
    <2>1. HandlerOK(s)
      BY <1>1, <1>2 DEF HandlerOK, IsPhased, IsArmed
    <2>2. IsCurrent(r) /\ EventsOK(x)
      BY <1>1 DEF IInv
    <2> QED
      BY <1>2, <1>5, <2>1, <2>2 DEF Kept, IsCurrent, EventsOK, Attended, IsDirty, SameProgress
  <1>8. \A h \in Open \ {x} : Kept(h)
    BY <1>3, <1>5 DEF IInv, Kept, Open, IsCurrent, EventsOK, Attended
  <1>9. toVisit' <= Len(pool)
    BY <1>5 DEF IInv, PoolInv, engine
  <1> HIDE DEF r, s
  <1> QED
    BY <1>1, <1>2, <1>3, <1>5, <1>6, <1>7, <1>8, <1>9, SameStates DEF engine, Open, r, s

(* Deferring reports moves a node back behind its min interval.            *)
LEMMA DeferReportsStep ==
    ASSUME IInv, DeferReports PROVE IInv' /\ IntervalIsKept
  <1> DEFINE deferred(r) == IF r.phase = "open" THEN [r EXCEPT !.phase = "deferred"] ELSE r
             nodes == {h \in Open : handler[h].phase # "none"}
  <1>1. /\ handler' = [h \in Handlers |-> IF h \in nodes THEN Scheduled(deferred(handler[h]))
                                          ELSE handler[h]]
        /\ runScheduled' = (runScheduled \/ \E h \in nodes : IsReportableNow(deferred(handler[h])))
        /\ UNCHANGED <<pool, changes, lastEvent, engine, unvisited, missed>>
        /\ gen' = gen
    BY DEF DeferReports, gen
  <1>2. handler' = [h \in Handlers |-> handler'[h]]
    BY <1>1
  <1>3. TypeInv'
    BY <1>1, <1>2 DEF IInv, TypeInv, engine
  <1>4. ASSUME NEW h \in nodes
        PROVE  Kept(h) /\ handler'[h].state = handler[h].state
    <2> DEFINE r == handler[h]
               d == deferred(r)
               s == Scheduled(d)
    <2>1. HandlerOK(r) /\ IsCurrent(r) /\ EventsOK(h) /\ Attended(h)
      BY DEF IInv
    <2>2. handler'[h] = s
      BY <1>1 DEF Open
    <2>3. /\ IsHandler(d) /\ SameProgress(r, d) /\ d.state = r.state /\ d.priming = r.priming
          /\ d.due = r.due /\ d.fired = r.fired /\ d.timer = r.timer
          /\ d.dirty = r.dirty /\ d.force = r.force
          /\ d.phase \notin {"none", "early"} \/ d.phase = r.phase
          /\ d.phase # "none"
      BY <2>1 DEF HandlerOK, IsHandler, Fields, Phases, SameProgress
    <2>4. IsReportableNow(d) => runScheduled'
      BY <1>1
    <2> HIDE DEF d
    <2>5. IsPhased(d)
      BY <2>1, <2>3 DEF HandlerOK, IsPhased
    <2>6. /\ HandlerOK(s) /\ SameProgress(d, s) /\ s.state = d.state /\ s.priming = d.priming
          /\ IsDirty(s) <=> IsDirty(d)
          /\ s.due => d.due \/ IsReportableNow(d)
      BY <2>3, <2>5, ScheduledOK
    <2> HIDE DEF s
    <2>7. Attended(h)'
      BY <1>1, <2>1, <2>2, <2>3, <2>4, <2>6 DEF Attended, CanStartReporting, engine
    <2>8. IsCurrent(handler[h])' /\ EventsOK(h)'
      BY <1>1, <2>1, <2>2, <2>3, <2>6 DEF IsCurrent, EventsOK, SameProgress, IsDirty
    <2> QED
      BY <2>2, <2>3, <2>6, <2>7, <2>8 DEF Kept
  <1>5. ASSUME NEW h \in Open \ nodes
        PROVE  Kept(h) /\ handler'[h] = handler[h]
    <2>1. handler'[h] = handler[h]
      BY <1>1 DEF Open
    <2>2. HandlerOK(handler[h]) /\ IsCurrent(handler[h]) /\ EventsOK(h) /\ Attended(h)
      BY DEF IInv
    <2>3. runScheduled => runScheduled'
      BY <1>1
    <2> QED
      BY <1>1, <2>1, <2>2, <2>3 DEF Kept, IsCurrent, EventsOK, Attended, engine
  <1>6. \A h \in Handlers \ Open : handler'[h] = handler[h]
    BY <1>1
  <1>7. toVisit' <= Len(pool)
    BY <1>1 DEF IInv, PoolInv, engine
  <1> HIDE DEF nodes
  <1> QED
    BY <1>1, <1>3, <1>4, <1>5, <1>6, <1>7, SameStates DEF engine

(* A change of an attribute.  A handler that is dirty stays so, for the    *)
(* generation of the change is one no report has reached.                  *)
LEMMA SetDirtyStep ==
    ASSUME IInv, NEW p \in Changes, SetDirty(p) PROVE IInv' /\ IntervalIsKept
  <1> DEFINE g == gen + 1
             touched == {h \in Open : \E i \in 1..Len(Request[h]) : Intersects(Request[h][i], p)}
             marked(h) == AttributePathIsDirty(h, handler[h], p, g)
  <1>1. /\ handler' = [h \in Handlers |-> IF h \in touched THEN Scheduled(marked(h))
                                          ELSE handler[h]]
        /\ runScheduled' = (runScheduled \/ \E h \in touched : IsReportableNow(marked(h)))
        /\ changes' = Append(changes, p)
        /\ UNCHANGED <<pool, lastEvent, engine, unvisited, missed>>
    BY DEF SetDirty
  <1>c. /\ changes' = Append(changes, p) /\ changes \in Seq(Changes)
        /\ changes' \in Seq(Changes) /\ Len(changes') = Len(changes) + 1
    <2>1. changes' = Append(changes, p)
      BY DEF SetDirty
    <2>2. changes \in Seq(Changes)
      BY DEF IInv, TypeInv
    <2> QED
      BY <2>1, <2>2
  <1>2. gen \in Nat /\ gen' = gen + 1
    BY <1>c DEF gen
  <1>3. handler' = [h \in Handlers |-> handler'[h]]
    BY <1>1
  <1>4. TypeInv'
    <2>1. runScheduled' \in BOOLEAN
      BY <1>1
    <2> QED
      BY <1>1, <1>c, <1>3, <2>1 DEF IInv, TypeInv, engine
  <1>5. ASSUME NEW h \in touched
        PROVE  Kept(h) /\ handler'[h].state = handler[h].state
    <2> DEFINE r == handler[h]
               d == marked(h)
               s == Scheduled(d)
    <2>1. HandlerOK(r) /\ IsCurrent(r) /\ EventsOK(h) /\ Attended(h)
      BY DEF IInv
    <2>2. handler'[h] = s
      BY <1>1 DEF Open
    <2>3. /\ IsHandler(d) /\ d.state = r.state /\ d.priming = r.priming
          /\ d.due = r.due /\ d.fired = r.fired /\ d.timer = r.timer
          /\ d.dirty = g /\ d.force = r.force /\ d.phase = r.phase
          /\ d.chunked = r.chunked /\ d.previous = r.previous /\ d.begin = r.begin
          /\ d.eventMin = r.eventMin /\ d.eventSeen = r.eventSeen
      <3>1. g \in Nat /\ h \in Handlers
        BY <1>2 DEF Open
      <3>2. IsHandler(r)
        BY <2>1 DEF HandlerOK
      <3> HIDE DEF g, r
      <3> QED
        BY <3>1, <3>2, PathIsDirtyOK DEF r
    <2>4. IsReportableNow(d) => runScheduled'
      BY <1>1
    <2> HIDE DEF d
    <2>5. IsPhased(d)
      BY <2>1, <2>3 DEF HandlerOK, IsPhased
    <2>6. /\ HandlerOK(s) /\ SameProgress(d, s) /\ s.state = d.state /\ s.priming = d.priming
          /\ IsDirty(s) <=> IsDirty(d)
          /\ s.due => d.due \/ IsReportableNow(d)
      BY <2>3, <2>5, ScheduledOK
    <2> HIDE DEF s
    <2>7. r.previous \in Nat /\ r.begin \in Nat
      BY <2>1 DEF HandlerOK, IsHandler
    <2>8. IsDirty(d)
      BY <1>2, <2>1, <2>3, <2>7 DEF IsDirty, IsCurrent, SameProgress
    <2>9. Attended(h)'
      BY <1>1, <2>1, <2>2, <2>3, <2>4, <2>6 DEF Attended, CanStartReporting, engine
    <2>10. IsCurrent(handler[h])'
      BY <1>2, <2>1, <2>2, <2>3, <2>6, <2>7 DEF IsCurrent, SameProgress
    <2>11. EventsOK(h)'
      BY <1>1, <2>1, <2>2, <2>3, <2>6, <2>8 DEF EventsOK, SameProgress
    <2> QED
      BY <2>2, <2>3, <2>6, <2>9, <2>10, <2>11 DEF Kept
  <1>6. ASSUME NEW h \in Open \ touched
        PROVE  Kept(h) /\ handler'[h] = handler[h]
    <2>1. handler'[h] = handler[h]
      BY <1>1 DEF Open
    <2>2. HandlerOK(handler[h]) /\ IsCurrent(handler[h]) /\ EventsOK(h) /\ Attended(h)
      BY DEF IInv
    <2>3. runScheduled => runScheduled'
      BY <1>1
    <2>4. handler[h].previous \in Nat /\ handler[h].begin \in Nat
      BY <2>2 DEF HandlerOK, IsHandler
    <2>5. IsCurrent(handler[h])'
      BY <1>2, <2>1, <2>2, <2>4 DEF IsCurrent
    <2> QED
      BY <1>1, <2>1, <2>2, <2>3, <2>5 DEF Kept, EventsOK, Attended, engine
  <1>7. \A h \in Handlers \ Open : handler'[h] = handler[h]
    BY <1>1
  <1>8. toVisit' <= Len(pool)
    BY <1>1 DEF IInv, PoolInv, engine
  <1> HIDE DEF touched
  <1> QED
    BY <1>1, <1>4, <1>5, <1>6, <1>7, <1>8, SameStates DEF engine

(* An urgent event: every listener is told, and one whose report is under  *)
(* way has missed it.                                                      *)
LEMMA NewEventStep ==
    ASSUME IInv, NewEventGenerated PROVE IInv' /\ IntervalIsKept
  <1> DEFINE told == Open \cap Listeners
  <1>1. /\ handler' = [h \in Handlers |-> IF h \in told THEN ForceDirtyState(handler[h])
                                          ELSE handler[h]]
        /\ runScheduled' = (runScheduled \/ \E h \in told : BecomesDue(handler[h]))
        /\ lastEvent' = lastEvent + 1
        /\ missed' = missed \cup {h \in told : handler[h].chunked}
        /\ UNCHANGED <<pool, changes, engine, unvisited>>
        /\ gen' = gen
    BY DEF NewEventGenerated, gen
  <1>2. handler' = [h \in Handlers |-> handler'[h]]
    BY <1>1
  <1>3. TypeInv'
    BY <1>1, <1>2 DEF IInv, TypeInv, engine
  <1>4. ASSUME NEW h \in told
        PROVE  Kept(h) /\ handler'[h].state = handler[h].state
    <2> DEFINE r == handler[h]
               s == ForceDirtyState(r)
    <2>1. HandlerOK(r) /\ IsCurrent(r) /\ EventsOK(h) /\ Attended(h)
      BY DEF IInv
    <2>2. handler'[h] = s
      BY <1>1 DEF Open
    <2>3. BecomesDue(r) => runScheduled'
      BY <1>1
    <2>4. /\ HandlerOK(s) /\ SameProgress(r, s) /\ s.state = r.state /\ s.priming = r.priming
          /\ IsDirty(s)
          /\ s.due => r.due \/ BecomesDue(r)
      BY <2>1, ForcedOK
    <2> HIDE DEF s
    <2>5. r.chunked => h \in missed'
      BY <1>1
    <2>6. EventsOK(h)'
      BY <2>2, <2>4, <2>5 DEF EventsOK, SameProgress
    <2>7. Attended(h)'
      BY <1>1, <2>1, <2>2, <2>3, <2>4 DEF Attended, CanStartReporting, engine
    <2> QED
      BY <1>1, <2>1, <2>2, <2>4, <2>6, <2>7 DEF Kept, IsCurrent, SameProgress
  <1>5. ASSUME NEW h \in Open \ told
        PROVE  Kept(h) /\ handler'[h] = handler[h]
    <2>1. handler'[h] = handler[h] /\ h \notin Listeners
      BY <1>1 DEF Open
    <2>2. HandlerOK(handler[h]) /\ IsCurrent(handler[h]) /\ Attended(h)
      BY DEF IInv
    <2>3. runScheduled => runScheduled'
      BY <1>1
    <2> QED
      BY <1>1, <2>1, <2>2, <2>3 DEF Kept, IsCurrent, EventsOK, Attended, engine
  <1>6. \A h \in Handlers \ Open : handler'[h] = handler[h]
    BY <1>1
  <1>7. toVisit' <= Len(pool)
    BY <1>1 DEF IInv, PoolInv, engine
  <1> HIDE DEF told
  <1> QED
    BY <1>1, <1>3, <1>4, <1>5, <1>6, <1>7, SameStates DEF engine

-----------------------------------------------------------------------------
(* A Run begins: everyone open is on its list.                             *)

LEMMA StartRunStep ==
    ASSUME IInv, StartRun, runScheduled' \in BOOLEAN,
           handler' = [h \in Handlers |-> handler'[h]],
           \A h \in Handlers \ Open : handler'[h] = handler[h],
           \A h \in Open : /\ HandlerOK(handler'[h])
                           /\ SameProgress(handler[h], handler'[h])
                           /\ handler'[h].state = handler[h].state
                           /\ IsDirty(handler[h]) => IsDirty(handler'[h])
    PROVE  IInv' /\ IntervalIsKept
  <1>1. /\ UNCHANGED <<pool, changes, lastEvent, inFlight, curIdx, missed>>
        /\ gen' = gen
        /\ running' = TRUE /\ toVisit' = Len(pool) /\ unvisited' = Range(pool)
    BY DEF StartRun, gen
  <1>2. Len(pool) \in Nat /\ Range(pool) = Open
    BY DEF IInv, TypeInv, PoolInv
  <1>3. TypeInv'
    BY <1>1, <1>2 DEF IInv, TypeInv
  <1>4. ASSUME NEW h \in Open PROVE Kept(h)
    <2>1. h \in unvisited'
      BY <1>1, <1>2
    <2>2. IsCurrent(handler[h]) /\ EventsOK(h)
      BY DEF IInv
    <2>3. SameProgress(handler[h], handler'[h]) /\ HandlerOK(handler'[h])
          /\ (IsDirty(handler[h]) => IsDirty(handler'[h]))
      OBVIOUS
    <2>4. IsCurrent(handler[h])'
      BY <1>1, <2>2, <2>3 DEF IsCurrent, SameProgress
    <2>5. EventsOK(h)'
      BY <1>1, <2>2, <2>3 DEF EventsOK, SameProgress
    <2> QED
      BY <2>1, <2>3, <2>4, <2>5 DEF Kept, Attended
  <1>5. toVisit' <= Len(pool)
    BY <1>1, <1>2
  <1> QED
    BY <1>1, <1>3, <1>4, <1>5, SameStates

LEMMA RunStep ==
    ASSUME IInv, Run PROVE IInv' /\ IntervalIsKept
  <1>1. StartRun /\ runScheduled' = FALSE /\ handler' = handler
    BY DEF Run
  <1>2. handler' = [h \in Handlers |-> handler'[h]]
    BY <1>1 DEF IInv, TypeInv
  <1>3. \A h \in Open : HandlerOK(handler[h])
    BY DEF IInv
  <1> QED
    BY <1>1, <1>2, <1>3, StartRunStep DEF SameProgress

LEMMA UrgentDeliveryStep ==
    ASSUME IInv, ScheduleUrgentEventDeliverySync PROVE IInv' /\ IntervalIsKept
  <1> DEFINE told == Open \ Readers
  <1>1. /\ handler' = [h \in Handlers |-> IF h \in told THEN ForceDirtyState(handler[h])
                                          ELSE handler[h]]
        /\ runScheduled' = (runScheduled \/ \E h \in told : BecomesDue(handler[h]))
        /\ StartRun
    BY DEF ScheduleUrgentEventDeliverySync
  <1>2. handler' = [h \in Handlers |-> handler'[h]] /\ runScheduled' \in BOOLEAN
    BY <1>1
  <1>3. \A h \in Handlers \ told : handler'[h] = handler[h]
    BY <1>1
  <1>4. ASSUME NEW h \in Open
        PROVE  /\ HandlerOK(handler'[h])
               /\ SameProgress(handler[h], handler'[h])
               /\ handler'[h].state = handler[h].state
               /\ IsDirty(handler[h]) => IsDirty(handler'[h])
    <2>1. HandlerOK(handler[h]) /\ h \in Handlers
      BY DEF IInv, Open
    <2>2. CASE h \in told
      <3>1. handler'[h] = ForceDirtyState(handler[h])
        BY <1>1, <2>1, <2>2
      <3> QED
        BY <2>1, <3>1, ForcedOK
    <2>3. CASE h \notin told
      BY <1>3, <2>1, <2>3 DEF SameProgress
    <2> QED
      BY <2>2, <2>3
  <1> QED
    BY <1>1, <1>2, <1>3, <1>4, StartRunStep

-----------------------------------------------------------------------------
(* Steps that open or close a handler, or change the number in flight.     *)

LEMMA RemoveAtIndex ==
    ASSUME NEW S, NEW s \in Seq(S), NEW i \in 1..Len(s)
    PROVE  /\ RemoveAt(s, i) \in Seq(S)
           /\ Len(RemoveAt(s, i)) = Len(s) - 1
           /\ \A k \in 1..(Len(s) - 1) : RemoveAt(s, i)[k] = IF k < i THEN s[k] ELSE s[k + 1]
  <1> DEFINE a == SubSeq(s, 1, i - 1)
             b == SubSeq(s, i + 1, Len(s))
  <1>1. a \in Seq(S) /\ Len(a) = i - 1 /\ \A k \in 1..(i - 1) : a[k] = s[k]
    OBVIOUS
  <1>2. b \in Seq(S) /\ Len(b) = Len(s) - i /\ \A k \in 1..(Len(s) - i) : b[k] = s[k + i]
    OBVIOUS
  <1>3. RemoveAt(s, i) = a \o b
    BY DEF RemoveAt
  <1> HIDE DEF a, b
  <1>4. /\ a \o b \in Seq(S) /\ Len(a \o b) = Len(s) - 1
        /\ \A k \in 1..(Len(s) - 1) : (a \o b)[k] = IF k < i THEN a[k] ELSE b[k - i + 1]
    <2>0. a \in Seq(S) /\ b \in Seq(S)
      BY <1>1, <1>2
    <2>1. a \o b \in Seq(S) /\ Len(a \o b) = Len(a) + Len(b)
      BY <2>0
    <2>2. \A k \in 1..(Len(a) + Len(b)) :
              (a \o b)[k] = IF k <= Len(a) THEN a[k] ELSE b[k - Len(a)]
      BY <2>0
    <2>4. Len(a) + Len(b) = Len(s) - 1
      BY <1>1, <1>2
    <2>5. ASSUME NEW k \in 1..(Len(s) - 1)
          PROVE  (a \o b)[k] = IF k < i THEN a[k] ELSE b[k - i + 1]
      <3> DEFINE n == Len(a)
      <3>1. n = i - 1 /\ k \in 1..(n + Len(b))
        BY <1>1, <2>4
      <3>2. (a \o b)[k] = IF k <= n THEN a[k] ELSE b[k - n]
        BY <2>2, <3>1
      <3> HIDE DEF n
      <3>3. (k < i <=> k <= n) /\ k - n = k - i + 1
        BY <3>1
      <3> QED
        BY <3>2, <3>3
    <2> QED
      BY <2>1, <2>4, <2>5
  <1>5. ASSUME NEW k \in 1..(Len(s) - 1)
        PROVE  (a \o b)[k] = IF k < i THEN s[k] ELSE s[k + 1]
    <2>1. CASE k < i
      BY <1>1, <1>4, <2>1
    <2>2. CASE ~(k < i)
      <3>1. k - i + 1 \in 1..(Len(s) - i) /\ (k - i + 1) + i = k + 1
        BY <2>2
      <3> QED
        BY <1>2, <1>4, <2>2, <3>1
    <2> QED
      BY <2>1, <2>2
  <1> QED
    BY <1>3, <1>4, <1>5

(* The pool without an open handler holds the other ones, once each.       *)
LEMMA PoolWithoutOK ==
    ASSUME TypeInv, PoolInv, NEW h \in Open
    PROVE  /\ PoolWithout(h) \in Seq(Handlers)
           /\ Len(PoolWithout(h)) = Len(pool) - 1
           /\ Range(PoolWithout(h)) = Open \ {h}
           /\ \A i, j \in 1..Len(PoolWithout(h)) :
                 PoolWithout(h)[i] = PoolWithout(h)[j] => i = j
  <1> DEFINE at == CHOOSE i \in 1..Len(pool) : pool[i] = h
             q == PoolWithout(h)
  <1>1. /\ pool \in Seq(Handlers) /\ Range(pool) = Open
        /\ \A i, j \in 1..Len(pool) : pool[i] = pool[j] => i = j
    BY DEF TypeInv, PoolInv
  <1>2. \E i \in 1..Len(pool) : pool[i] = h
    BY <1>1 DEF Range
  <1>3. at \in 1..Len(pool) /\ pool[at] = h
    BY <1>2
  <1>4. q = RemoveAt(pool, at)
    BY DEF PoolWithout
  <1> HIDE DEF at, q
  <1>5. /\ q \in Seq(Handlers) /\ Len(q) = Len(pool) - 1
        /\ \A k \in 1..(Len(pool) - 1) : q[k] = IF k < at THEN pool[k] ELSE pool[k + 1]
    BY <1>1, <1>3, <1>4, RemoveAtIndex
  <1>6. ASSUME NEW x \in Range(q) PROVE x \in Open \ {h}
    <2>1. PICK k \in 1..Len(q) : x = q[k]
      BY <1>5 DEF Range
    <2>2. \E n \in 1..Len(pool) : n # at /\ x = pool[n]
      BY <1>1, <1>3, <1>5, <2>1
    <2> QED
      BY <1>1, <1>3, <2>2 DEF Range
  <1>7. ASSUME NEW x \in Open \ {h} PROVE x \in Range(q)
    <2>1. PICK n \in 1..Len(pool) : x = pool[n]
      BY <1>1 DEF Range
    <2>2. n # at
      BY <1>3, <2>1
    <2>3. CASE n < at
      <3>1. n \in 1..Len(q) /\ q[n] = x
        BY <1>1, <1>3, <1>5, <2>1, <2>3
      <3> QED
        BY <1>5, <3>1 DEF Range
    <2>4. CASE n > at
      <3>1. n - 1 \in 1..Len(q) /\ q[n - 1] = x
        BY <1>1, <1>3, <1>5, <2>1, <2>4
      <3> QED
        BY <1>5, <3>1 DEF Range
    <2> QED
      BY <1>3, <2>2, <2>3, <2>4
  <1>8. \A i, j \in 1..Len(q) : q[i] = q[j] => i = j
    BY <1>1, <1>3, <1>5
  <1> QED
    BY <1>5, <1>6, <1>7, <1>8 DEF q

(* The handlers waiting for an answer, one more or one less.               *)
LEMMA AwaitingIsFinite ==
    IsFiniteSet(Awaiting) /\ IsFiniteSet(Open)
  <1>1. Awaiting \subseteq Handlers /\ Open \subseteq Handlers
    BY DEF Awaiting, Open
  <1> QED
    BY <1>1, FS_Subset, ReportingAssumption

LEMMA OneLess ==
    ASSUME InFlightIsExact, inFlight \in Nat, NEW h \in Awaiting, Awaiting' = Awaiting \ {h},
           inFlight' = inFlight - 1
    PROVE  InFlightIsExact' /\ inFlight' \in Nat
  <1>1. inFlight = Cardinality(Awaiting)
    BY DEF InFlightIsExact, Awaiting
  <1>2. Cardinality(Awaiting \ {h}) = Cardinality(Awaiting) - 1
    BY AwaitingIsFinite, FS_RemoveElement
  <1>3. Cardinality(Awaiting \ {h}) \in Nat
    BY AwaitingIsFinite, FS_RemoveElement, FS_CardinalityType
  <1>4. inFlight' = Cardinality(Awaiting')
    BY <1>1, <1>2
  <1>5. MaxInFlight \in Nat
    BY ReportingAssumption
  <1>6. inFlight' <= MaxInFlight
    BY <1>5 DEF InFlightIsExact
  <1> QED
    BY <1>1, <1>2, <1>3, <1>4, <1>6 DEF InFlightIsExact, Awaiting

LEMMA OneMore ==
    ASSUME InFlightIsExact, inFlight \in Nat, NEW h, h \notin Awaiting,
           Awaiting' = Awaiting \cup {h}, inFlight' = inFlight + 1, inFlight < MaxInFlight
    PROVE  InFlightIsExact' /\ inFlight' \in Nat
  <1>1. inFlight = Cardinality(Awaiting)
    BY DEF InFlightIsExact, Awaiting
  <1>2. Cardinality(Awaiting \cup {h}) = Cardinality(Awaiting) + 1
    BY AwaitingIsFinite, FS_AddElement
  <1>3. inFlight' = Cardinality(Awaiting')
    BY <1>1, <1>2
  <1>4. MaxInFlight \in Nat
    BY ReportingAssumption
  <1>5. inFlight' <= MaxInFlight
    BY <1>4
  <1> QED
    BY <1>3, <1>5 DEF InFlightIsExact, Awaiting

LEMMA SameCount ==
    ASSUME InFlightIsExact, Awaiting' = Awaiting, inFlight' = inFlight
    PROVE  InFlightIsExact'
BY DEF InFlightIsExact, Awaiting

LEMMA OnInitialRequestStep ==
    ASSUME IInv, NEW x \in Handlers, OnInitialRequest(x) PROVE IInv' /\ IntervalIsKept
  <1>1. /\ handler[x] = Free /\ handler' = [handler EXCEPT ![x] = NewHandler]
        /\ pool' = Append(pool, x) /\ runScheduled' = TRUE
        /\ UNCHANGED <<changes, lastEvent, engine, unvisited, missed>>
        /\ gen' = gen
    BY DEF OnInitialRequest, gen
  <1>2. TypeInv /\ PoolInv /\ InFlightIsExact
    BY DEF IInv
  <1>3. /\ handler' = [h \in Handlers |-> handler'[h]]
        /\ handler'[x] = NewHandler
        /\ \A h \in Handlers \ {x} : handler'[h] = handler[h]
    BY <1>1, <1>2 DEF TypeInv
  <1>4. TypeInv'
    <2>1. pool' \in Seq(Handlers)
      BY <1>1, <1>2 DEF TypeInv
    <2> QED
      BY <1>1, <1>2, <1>3, <2>1 DEF TypeInv, engine
  <1>5. Open' = Open \cup {x} /\ x \notin Open
    BY <1>1, <1>3, NewHandlerOK, FreeIsNoHandler DEF Open, HandlerOK
  <1>6. PoolInv'
    <2>1. /\ pool \in Seq(Handlers) /\ Range(pool) = Open
          /\ \A i, j \in 1..Len(pool) : pool[i] = pool[j] => i = j
          /\ toVisit \in Nat /\ toVisit <= Len(pool) /\ toVisit' = toVisit
      BY <1>1, <1>2 DEF TypeInv, PoolInv, engine
    <2>2. /\ pool' \in Seq(Handlers) /\ Len(pool') = Len(pool) + 1
          /\ \A i \in 1..Len(pool) : pool'[i] = pool[i]
          /\ pool'[Len(pool) + 1] = x
      BY <1>1, <2>1
    <2>3. \A i \in 1..Len(pool) : pool[i] # x
      BY <1>5, <2>1 DEF Range
    <2>4. Range(pool') = Range(pool) \cup {x}
      <3>1. DOMAIN pool' = 1..(Len(pool) + 1) /\ DOMAIN pool = 1..Len(pool)
        BY <2>1, <2>2
      <3>2. 1..(Len(pool) + 1) = 1..Len(pool) \cup {Len(pool) + 1}
        BY <2>1
      <3> QED
        BY <2>2, <3>1, <3>2 DEF Range
    <2>5. \A i, j \in 1..Len(pool') : pool'[i] = pool'[j] => i = j
      BY <2>1, <2>2, <2>3
    <2>6. toVisit' <= Len(pool')
      BY <2>1, <2>2
    <2> QED
      BY <1>5, <2>1, <2>4, <2>5, <2>6 DEF PoolInv
  <1>7. InFlightIsExact'
    <2>1. Awaiting' = Awaiting
      BY <1>3, <1>5, NewHandlerOK DEF Awaiting, Open
    <2> QED
      BY <1>1, <1>2, <2>1, SameCount DEF engine
  <1>8. Kept(x)
    <2>1. gen \in Nat
      BY <1>2, GenType
    <2> QED
      BY <1>1, <1>3, <2>1, NewHandlerOK DEF Kept, EventsOK, Attended, IsCurrent, IsDirty
  <1>9. \A h \in Open : Kept(h)
    BY <1>1, <1>3, <1>5 DEF IInv, Kept, IsCurrent, EventsOK, Attended, Open
  <1> QED
    <2>1. IntervalIsKept
      BY <1>3, <1>5 DEF IntervalIsKept, Open
    <2> QED
      BY <1>4, <1>5, <1>6, <1>7, <1>8, <1>9, <2>1 DEF IInv, Kept

(* An answer: the handler starts again, and whoever waited for room is     *)
(* served.                                                                 *)
LEMMA OnStatusResponseStep ==
    ASSUME IInv, NEW x \in Handlers, OnStatusResponse(x) PROVE IInv' /\ IntervalIsKept
  <1> DEFINE r == handler[x]
             s == handler'[x]
  <1>1. /\ r.state = "await"
        /\ inFlight' = inFlight - 1
        /\ runScheduled' = (runScheduled \/ inFlight = MaxInFlight \/ Wants(s))
        /\ UNCHANGED <<pool, changes, lastEvent, running, toVisit, curIdx, unvisited, missed>>
        /\ gen' = gen
    BY DEF OnStatusResponse, gen
  <1>2. TypeInv /\ PoolInv /\ InFlightIsExact
    BY DEF IInv
  <1>3. x \in Open
    BY <1>1 DEF Open, Free
  <1>4. HandlerOK(r) /\ IsCurrent(r) /\ EventsOK(x)
    BY <1>3 DEF IInv
  <1>5. PICK m : /\ handler' = [handler EXCEPT ![x] = Restarted(m)]
                 /\ m = r \/ (r.priming /\ m = [r EXCEPT !.priming = FALSE, !.phase = "early"])
    BY DEF OnStatusResponse, ChunkAcknowledged, Established, ReportAcknowledged
  <1>6. /\ handler' = [h \in Handlers |-> handler'[h]]
        /\ s = Restarted(m)
        /\ \A h \in Handlers \ {x} : handler'[h] = handler[h]
    BY <1>2, <1>5 DEF TypeInv
  <1>7. IsHandler(m) /\ IsPhased(m) /\ SameProgress(r, m) /\ (IsDirty(m) <=> IsDirty(r))
    BY <1>4, <1>5 DEF HandlerOK, IsHandler, IsPhased, SameProgress, IsDirty, Fields, Phases
  <1>8. /\ HandlerOK(s) /\ SameProgress(m, s) /\ s.state = "start"
        /\ IsDirty(s) <=> IsDirty(m)
        /\ s.priming \/ s.due => Wants(s)
    BY <1>6, <1>7, RestartedOK
  <1> HIDE DEF r, s
  <1>9. Open' = Open
    BY <1>3, <1>6, <1>8, FreeIsNoHandler DEF Open, HandlerOK, s
  <1>10. Awaiting' = Awaiting \ {x} /\ x \in Awaiting
    BY <1>1, <1>3, <1>6, <1>8, <1>9 DEF Awaiting, Open, r, s
  <1>11. InFlightIsExact' /\ inFlight' \in Nat
    BY <1>1, <1>2, <1>10, OneLess DEF TypeInv
  <1>12. runScheduled' \in BOOLEAN
    BY <1>1
  <1>13. TypeInv'
    BY <1>1, <1>2, <1>6, <1>11, <1>12 DEF TypeInv
  <1>14. PoolInv'
    BY <1>1, <1>2, <1>9 DEF PoolInv
  <1>15. Kept(x)
    <2>1. IsCurrent(handler[x])' /\ EventsOK(x)'
      BY <1>1, <1>4, <1>7, <1>8 DEF IsCurrent, EventsOK, SameProgress, r, s
    <2>2. Attended(x)'
      BY <1>1, <1>8 DEF Attended, s
    <2> QED
      BY <1>8, <2>1, <2>2 DEF Kept, s
  <1>16. ASSUME NEW h \in Open \ {x} PROVE Kept(h)
    <2>1. handler'[h] = handler[h]
      BY <1>6 DEF Open
    <2>2. HandlerOK(handler[h]) /\ IsCurrent(handler[h]) /\ EventsOK(h) /\ Attended(h)
      BY DEF IInv
    <2>3. runScheduled \/ inFlight = MaxInFlight => runScheduled'
      BY <1>1
    <2> QED
      BY <1>1, <2>1, <2>2, <2>3 DEF Kept, IsCurrent, EventsOK, Attended
  <1> QED
    <2>1. IntervalIsKept
      BY <1>1, <1>6 DEF IntervalIsKept, Open, r
    <2> QED
      BY <1>9, <1>11, <1>13, <1>14, <1>15, <1>16, <2>1 DEF IInv, Kept

(* A handler is released: by its client's error, by eviction, or by the    *)
(* Run that visits it.                                                     *)
LEMMA Released ==
    ASSUME IInv, NEW x \in Open,
           handler' = [handler EXCEPT ![x] = Free], pool' = PoolWithout(x),
           toVisit' \in Nat, toVisit' <= Len(pool) - 1, curIdx' \in Nat,
           running' \in BOOLEAN, ~running' => toVisit' = 0,
           runScheduled' \in BOOLEAN, runScheduled => runScheduled',
           UNCHANGED <<changes, lastEvent>>,
           missed' = missed \ {x}, unvisited' = unvisited \ {x},
           IF handler[x].state = "await"
           THEN inFlight' = inFlight - 1 /\ (inFlight = MaxInFlight => runScheduled')
           ELSE inFlight' = inFlight
    PROVE  IInv' /\ IntervalIsKept
  <1>1. TypeInv /\ PoolInv /\ InFlightIsExact
    BY DEF IInv
  <1>2. /\ handler' = [h \in Handlers |-> handler'[h]]
        /\ handler'[x] = Free
        /\ \A h \in Handlers \ {x} : handler'[h] = handler[h]
    BY <1>1 DEF TypeInv, Open
  <1>3. Open' = Open \ {x}
    BY <1>2 DEF Open
  <1>4. /\ pool' \in Seq(Handlers) /\ Len(pool') = Len(pool) - 1
        /\ Range(pool') = Open \ {x}
        /\ \A i, j \in 1..Len(pool') : pool'[i] = pool'[j] => i = j
    BY <1>1, PoolWithoutOK
  <1>5. PoolInv'
    BY <1>3, <1>4 DEF PoolInv
  <1>6. Awaiting' = Awaiting \ {x}
    BY <1>2, <1>3 DEF Awaiting, Open
  <1>7. InFlightIsExact' /\ inFlight' \in Nat
    <2>1. CASE handler[x].state = "await"
      <3>1. x \in Awaiting
        BY <2>1 DEF Awaiting
      <3> QED
        BY <1>1, <1>6, <2>1, <3>1, OneLess DEF TypeInv
    <2>2. CASE handler[x].state # "await"
      <3>1. Awaiting' = Awaiting
        BY <1>6, <2>2 DEF Awaiting
      <3> QED
        BY <1>1, <2>2, <3>1, SameCount DEF TypeInv
    <2> QED
      BY <2>1, <2>2
  <1>8. TypeInv'
    BY <1>1, <1>2, <1>4, <1>7 DEF TypeInv
  <1>9. ASSUME NEW h \in Open \ {x} PROVE Kept(h)
    <2>1. handler'[h] = handler[h]
      BY <1>2 DEF Open
    <2>2. HandlerOK(handler[h]) /\ IsCurrent(handler[h]) /\ EventsOK(h) /\ Attended(h)
      BY DEF IInv
    <2>3. gen' = gen
      BY DEF gen
    <2>4. inFlight = MaxInFlight => runScheduled' \/ inFlight' = MaxInFlight
      OBVIOUS
    <2> QED
      BY <2>1, <2>2, <2>3, <2>4 DEF Kept, IsCurrent, EventsOK, Attended
  <1> QED
    <2>1. IntervalIsKept
      BY <1>2 DEF IntervalIsKept, Open, Free
    <2> QED
      BY <1>3, <1>5, <1>7, <1>8, <1>9, <2>1 DEF IInv, Kept

LEMMA CloseStep ==
    ASSUME IInv, ~running, NEW x \in Open, Close(x) PROVE IInv' /\ IntervalIsKept
  <1>1. /\ pool \in Seq(Handlers) /\ toVisit = 0 /\ running \in BOOLEAN
        /\ runScheduled \in BOOLEAN
    BY DEF IInv, TypeInv
  <1>2. /\ handler' = [handler EXCEPT ![x] = Free] /\ pool' = PoolWithout(x)
        /\ curIdx' = 0 /\ UNCHANGED <<changes, lastEvent, running, toVisit>>
        /\ missed' = missed \ {x} /\ unvisited' = unvisited \ {x}
    BY DEF Close
  <1>3. IF handler[x].state = "await"
        THEN inFlight' = inFlight - 1 /\ runScheduled' = (runScheduled \/ inFlight = MaxInFlight)
        ELSE inFlight' = inFlight /\ runScheduled' = runScheduled
    BY DEF Close, ReportConfirmed
  <1>4. runScheduled' \in BOOLEAN /\ (runScheduled => runScheduled')
    BY <1>1, <1>3
  <1>5. 0 <= Len(pool) - 1
    <2>1. x \in Range(pool)
      BY DEF IInv, PoolInv
    <2> QED
      BY <1>1, <2>1 DEF Range
  <1> QED
    BY <1>1, <1>2, <1>3, <1>4, <1>5, Released

(* The handler a Run has come to.                                          *)
LEMMA CurrentIsOpen ==
    ASSUME IInv, Visiting
    PROVE  /\ Current \in Open
           /\ toVisit - 1 \in Nat /\ toVisit - 1 <= Len(pool) - 1
  <1>1. /\ pool \in Seq(Handlers) /\ Range(pool) = Open /\ curIdx \in Nat
        /\ toVisit \in Nat /\ toVisit <= Len(pool) /\ toVisit > 0
    BY DEF IInv, TypeInv, PoolInv, Visiting
  <1>2. (curIdx % Len(pool)) + 1 \in 1..Len(pool)
    BY <1>1
  <1> QED
    BY <1>1, <1>2 DEF Current, Range

LEMMA SkipStep ==
    ASSUME IInv, Skip PROVE IInv' /\ IntervalIsKept
  <1>1. /\ UNCHANGED <<handler, pool, changes, lastEvent, runScheduled, running, inFlight, missed>>
        /\ unvisited' = unvisited \ {Current} /\ gen' = gen
        /\ toVisit' = toVisit - 1 /\ curIdx' = (curIdx + 1) % IndexModulus
        /\ ~Wants(handler[Current]) /\ Visiting
    BY DEF Skip, Advance, gen
  <1>2. Current \in Open /\ toVisit - 1 \in Nat /\ toVisit - 1 <= Len(pool) - 1
    BY <1>1, CurrentIsOpen
  <1>3. running /\ curIdx \in Nat /\ IndexModulus \in Nat \ {0} /\ pool \in Seq(Handlers)
    BY <1>1, ReportingAssumption DEF Visiting, IInv, TypeInv
  <1>4. curIdx' \in Nat
    BY <1>1, <1>3
  <1>5. TypeInv'
    BY <1>1, <1>2, <1>3, <1>4 DEF IInv, TypeInv
  <1>6. HandlerOK(handler[Current])
    BY <1>2 DEF IInv
  <1>7. CanStartReporting(handler[Current]) =>
            ~handler[Current].priming /\ ~handler[Current].due
    BY <1>1, <1>6 DEF Wants, ShouldReportUnscheduled, IsReportableNow, HandlerOK, IsPhased
  <1>8. ASSUME NEW h \in Open PROVE Kept(h)
    <2>1. HandlerOK(handler[h]) /\ IsCurrent(handler[h]) /\ EventsOK(h) /\ Attended(h)
      BY DEF IInv
    <2>2. Attended(h)'
      BY <1>1, <1>7, <2>1 DEF Attended
    <2> QED
      BY <1>1, <2>1, <2>2 DEF Kept, IsCurrent, EventsOK
  <1>9. toVisit' <= Len(pool)
    BY <1>1, <1>2, <1>3
  <1> QED
    BY <1>1, <1>5, <1>8, <1>9, SameStates

(* A chunk goes out.                                                       *)
LEMMA SendChunkStep ==
    ASSUME IInv, Visiting, NEW x, x = Current, Wants(handler[x]), NEW c \in Chunks(x),
           SendChunk(x, c), unvisited' = unvisited \ {x},
           UNCHANGED <<changes, lastEvent, running>>
    PROVE  IInv' /\ IntervalIsKept
  <1> DEFINE s == AfterChunk(x, c)
  <1>1. /\ handler' = [handler EXCEPT ![x] = s]
        /\ missed' = IF c.event > lastEvent THEN missed \ {x} ELSE missed
        /\ inFlight' = inFlight + 1 /\ inFlight < MaxInFlight /\ running
        /\ toVisit' = toVisit - 1 /\ curIdx' = (curIdx + 1) % IndexModulus
        /\ UNCHANGED <<pool, runScheduled>> /\ gen' = gen
    BY DEF SendChunk, Advance, gen, Visiting
  <1>2. x \in Open /\ x \in Handlers /\ toVisit - 1 \in Nat /\ toVisit - 1 <= Len(pool) - 1
    BY CurrentIsOpen DEF Open
  <1>3. TypeInv /\ PoolInv /\ InFlightIsExact
    BY DEF IInv
  <1>4. lastEvent \in Nat /\ gen \in Nat /\ curIdx \in Nat /\ IndexModulus \in Nat \ {0}
        /\ pool \in Seq(Handlers)
    BY <1>3, GenType, ReportingAssumption DEF TypeInv
  <1>5. /\ HandlerOK(handler[x]) /\ IsCurrent(handler[x]) /\ EventsOK(x)
        /\ handler[x].state = "start"
    BY <1>2 DEF IInv, Wants, ShouldReportUnscheduled, IsReportableNow, CanStartReporting
  <1>6. /\ HandlerOK(s) /\ s.state = "await" /\ IsCurrent(s)
        /\ x \in Listeners =>
              /\ s.eventMin <= lastEvent => IsDirty(s) \/ x \in missed'
              /\ s.chunked => x \in missed' \/ s.eventMin > lastEvent \/ s.eventSeen >= lastEvent
    BY <1>1, <1>2, <1>4, <1>5, AfterChunkOK
  <1> HIDE DEF s
  <1>7. /\ handler' = [h \in Handlers |-> handler'[h]]
        /\ handler'[x] = s
        /\ \A h \in Handlers \ {x} : handler'[h] = handler[h]
    BY <1>1, <1>2, <1>3 DEF TypeInv
  <1>8. Open' = Open
    BY <1>2, <1>6, <1>7, FreeIsNoHandler DEF Open, HandlerOK
  <1>9. Awaiting' = Awaiting \cup {x} /\ x \notin Awaiting
    BY <1>2, <1>5, <1>6, <1>7, <1>8 DEF Awaiting, Open
  <1>10. InFlightIsExact' /\ inFlight' \in Nat
    BY <1>1, <1>3, <1>9, OneMore DEF TypeInv
  <1>11. curIdx' \in Nat
    BY <1>1, <1>4
  <1>12. TypeInv'
    BY <1>1, <1>2, <1>3, <1>7, <1>10, <1>11 DEF TypeInv
  <1>13. toVisit' <= Len(pool')
    BY <1>1, <1>2, <1>4
  <1>14. PoolInv'
    BY <1>1, <1>3, <1>8, <1>13 DEF PoolInv
  <1>15. Kept(x)
    <2>1. EventsOK(x)'
      BY <1>6, <1>7 DEF EventsOK
    <2>2. Attended(x)'
      BY <1>6, <1>7 DEF Attended, CanStartReporting
    <2> QED
      BY <1>1, <1>6, <1>7, <2>1, <2>2 DEF Kept, IsCurrent
  <1>16. ASSUME NEW h \in Open \ {x} PROVE Kept(h)
    <2>1. handler'[h] = handler[h]
      BY <1>7 DEF Open
    <2>2. HandlerOK(handler[h]) /\ IsCurrent(handler[h]) /\ EventsOK(h) /\ Attended(h)
      BY DEF IInv
    <2>3. (h \in unvisited => h \in unvisited') /\ (h \in missed => h \in missed')
      BY <1>1
    <2>4. inFlight # MaxInFlight
      BY <1>1, <1>3, ReportingAssumption DEF TypeInv
    <2>5. Attended(h)'
      BY <1>1, <2>1, <2>2, <2>3, <2>4 DEF Attended
    <2>6. EventsOK(h)'
      BY <2>1, <2>2, <2>3 DEF EventsOK
    <2> QED
      BY <1>1, <2>1, <2>2, <2>5, <2>6 DEF Kept, IsCurrent
  <1> QED
    <2>1. ~handler[x].priming => handler[x].phase # "early" \/ handler[x].fired
      BY <1>5 DEF HandlerOK, IsPhased, Wants, ShouldReportUnscheduled, IsReportableNow
    <2>2. IntervalIsKept
      BY <1>7, <2>1 DEF IntervalIsKept, Open
    <2> QED
      BY <1>8, <1>10, <1>12, <1>14, <1>15, <1>16, <2>2 DEF IInv, Kept

LEMMA ReportStep ==
    ASSUME IInv, Report PROVE IInv' /\ IntervalIsKept
  <1>1. PICK x : x = Current
    OBVIOUS
  <1>2. /\ Visiting /\ Wants(handler[x]) /\ unvisited' = unvisited \ {x}
        /\ UNCHANGED <<changes, lastEvent, running>>
        /\ \E c \in Chunks(x) : GiveUp \/ SendChunk(x, c) \/ FinishRead(x, c)
    BY <1>1 DEF Report
  <1>3. PICK c \in Chunks(x) : GiveUp \/ SendChunk(x, c) \/ FinishRead(x, c)
    BY <1>2
  <1>4. CASE SendChunk(x, c)
    BY <1>1, <1>2, <1>3, <1>4, SendChunkStep
  <1>5. CASE GiveUp \/ FinishRead(x, c)
    <2>1. x \in Open /\ toVisit - 1 \in Nat /\ toVisit - 1 <= Len(pool) - 1
      BY <1>1, <1>2, CurrentIsOpen
    <2>2. /\ handler' = [handler EXCEPT ![x] = Free] /\ pool' = PoolWithout(x)
          /\ missed' = missed \ {x} /\ inFlight' = inFlight
          /\ toVisit' = toVisit - 1 /\ curIdx' = curIdx
      BY <1>1, <1>5 DEF GiveUp, FinishRead, ReleaseCurrent
    <2>3. runScheduled' = runScheduled
          \/ runScheduled' = (runScheduled \/ inFlight + 1 = MaxInFlight)
      BY <1>5 DEF GiveUp, FinishRead
    <2>4. /\ runScheduled \in BOOLEAN /\ running \in BOOLEAN /\ curIdx \in Nat
          /\ handler[x].state = "start" /\ running
      BY <1>2 DEF IInv, TypeInv, Visiting, Wants, ShouldReportUnscheduled, IsReportableNow,
                  CanStartReporting
    <2>5. runScheduled' \in BOOLEAN /\ (runScheduled => runScheduled')
      BY <2>3, <2>4
    <2> QED
      BY <1>2, <2>1, <2>2, <2>4, <2>5, Released
  <1> QED
    BY <1>3, <1>4, <1>5

LEMMA ReportErrorStep ==
    ASSUME IInv, ReportError PROVE IInv' /\ IntervalIsKept
  <1>1. PICK x : x = Current
    OBVIOUS
  <1>2. /\ Visiting /\ Wants(handler[x]) /\ unvisited' = unvisited \ {x}
        /\ UNCHANGED <<changes, lastEvent, runScheduled>>
        /\ handler' = [handler EXCEPT ![x] = Free] /\ pool' = PoolWithout(x)
        /\ missed' = missed \ {x} /\ inFlight' = inFlight
        /\ running' = FALSE /\ toVisit' = 0
        /\ curIdx' = (curIdx - 1) % IndexModulus
    BY <1>1 DEF ReportError, ReleaseCurrent
  <1>3. x \in Open /\ toVisit - 1 \in Nat /\ toVisit - 1 <= Len(pool) - 1
    BY <1>1, <1>2, CurrentIsOpen
  <1>4. /\ runScheduled \in BOOLEAN /\ curIdx \in Nat /\ IndexModulus \in Nat \ {0}
        /\ handler[x].state = "start" /\ pool \in Seq(Handlers)
    BY <1>2, ReportingAssumption
    DEF IInv, TypeInv, Wants, ShouldReportUnscheduled, IsReportableNow, CanStartReporting
  <1>5. curIdx' \in Nat
    BY <1>2, <1>4
  <1>6. 0 <= Len(pool) - 1
    BY <1>3, <1>4
  <1> QED
    BY <1>2, <1>3, <1>4, <1>5, <1>6, Released

LEMMA EndRunStep ==
    ASSUME IInv, EndRun PROVE IInv' /\ IntervalIsKept
  <1>1. /\ running' = FALSE /\ toVisit' = 0
        /\ curIdx' = IF curIdx >= Len(pool) THEN 0 ELSE curIdx
        /\ unvisited' = IF inFlight = MaxInFlight THEN {} ELSE unvisited
        /\ UNCHANGED <<handler, pool, changes, lastEvent, runScheduled, inFlight, missed>>
        /\ gen' = gen
    BY DEF EndRun, gen
  <1>2. TypeInv'
    BY <1>1 DEF IInv, TypeInv
  <1>3. ASSUME NEW h \in Open PROVE Kept(h)
    <2>1. HandlerOK(handler[h]) /\ IsCurrent(handler[h]) /\ EventsOK(h) /\ Attended(h)
      BY DEF IInv
    <2>2. inFlight = MaxInFlight \/ unvisited' = unvisited
      BY <1>1
    <2> QED
      BY <1>1, <2>1, <2>2 DEF Kept, IsCurrent, EventsOK, Attended
  <1>4. toVisit' <= Len(pool)
    BY <1>1 DEF IInv, TypeInv
  <1> QED
    BY <1>1, <1>2, <1>3, <1>4, SameStates

-----------------------------------------------------------------------------

LEMMA StutterStep ==
    ASSUME IInv, UNCHANGED vars PROVE IInv' /\ IntervalIsKept
  <1>1. /\ UNCHANGED <<handler, pool, changes, lastEvent, runScheduled, running, toVisit,
                       inFlight, curIdx, unvisited, missed>>
        /\ gen' = gen
    BY DEF vars, engine, gen
  <1>2. TypeInv'
    BY <1>1 DEF IInv, TypeInv
  <1>3. \A h \in Open : Kept(h)
    BY <1>1 DEF IInv, Kept, IsCurrent, EventsOK, Attended
  <1>4. toVisit' <= Len(pool)
    BY <1>1 DEF IInv, PoolInv
  <1> QED
    BY <1>1, <1>2, <1>3, <1>4, SameStates

LEMMA InitIInv == Init => IInv
  <1> SUFFICES ASSUME Init PROVE IInv
    OBVIOUS
  <1>1. Open = {}
    BY DEF Init, Open
  <1>2. TypeInv
    <2>1. handler = [h \in Handlers |-> handler[h]]
      BY DEF Init
    <2>2. pool \in Seq(Handlers) /\ changes \in Seq(Changes)
      BY DEF Init
    <2> QED
      BY <2>1, <2>2 DEF Init, TypeInv
  <1>3. PoolInv
    <2>1. Range(<<>>) = {}
      BY DEF Range
    <2> QED
      BY <1>1, <2>1 DEF Init, PoolInv
  <1>4. InFlightIsExact
    <2>1. {h \in Open : handler[h].state = "await"} = {}
      BY <1>1
    <2>2. MaxInFlight \in Nat
      BY ReportingAssumption
    <2>3. Cardinality({}) = 0
      BY FS_EmptySet
    <2>4. inFlight = 0
      BY DEF Init
    <2> QED
      BY <2>1, <2>2, <2>3, <2>4 DEF InFlightIsExact
  <1> QED
    BY <1>1, <1>2, <1>3, <1>4 DEF IInv

LEMMA StepIInv == IInv /\ [Next]_vars => IInv' /\ IntervalIsKept
  <1> SUFFICES ASSUME IInv, [Next]_vars PROVE IInv' /\ IntervalIsKept
    OBVIOUS
  <1>1. ASSUME NEW h \in Handlers, ReportFails(h) \/ EvictSubscription(h)
        PROVE  IInv' /\ IntervalIsKept
    <2>1. ~running /\ Close(h)
      BY <1>1 DEF ReportFails, EvictSubscription
    <2>2. h \in Open
      BY <1>1 DEF ReportFails, EvictSubscription, Open, Free
    <2> QED
      BY <2>1, <2>2, CloseStep
  <1> QED
    BY <1>1, OnInitialRequestStep, OnStatusResponseStep, TimePassesStep, TimerFiredStep,
       SetDirtyStep, NewEventStep, DeferReportsStep, UrgentDeliveryStep, RunStep, SkipStep,
       ReportStep, ReportErrorStep, EndRunStep, StutterStep DEF Next

LEMMA IInvHolds == Spec => []IInv
BY InitIInv, StepIInv, PTL DEF Spec

(* OnReportConfirm (Engine.cpp) never counts below zero and the limit on   *)
(* reports in flight is kept: exactly the handlers that wait for an answer *)
(* are counted, however requests, errors, evictions and Runs interleave.   *)
THEOREM InFlightCount == Spec => []InFlightIsExact
  <1>1. IInv => InFlightIsExact
    BY DEF IInv
  <1> QED
    BY <1>1, IInvHolds, PTL

(* Every subscription and read that may report has something that brings   *)
(* it to the engine: a scheduled Run, an answer that will schedule one, or *)
(* the timer of the right interval (ReportSchedulerImpl.cpp), unless the   *)
(* last Run left it out.                                                   *)
THEOREM NobodyForgotten == Spec => []NobodyIsForgotten
  <1>1. IInv => NobodyIsForgotten
    <2> SUFFICES ASSUME IInv, NEW h \in Open, CanStartReporting(handler[h])
                 PROVE  \/ runScheduled
                        \/ inFlight = MaxInFlight
                        \/ handler[h].timer = "min"
                        \/ handler[h].timer = "max" /\ ~IsDirty(handler[h])
                        \/ h \in unvisited
      BY DEF NobodyIsForgotten
    <2>1. HandlerOK(handler[h]) /\ Attended(h)
      BY DEF IInv
    <2> QED
      BY <2>1 DEF HandlerOK, IsArmed, Attended
  <1> QED
    BY <1>1, IInvHolds, PTL

(* An urgent event leaves every listener that has not sent it dirty, or on *)
(* record as having been in the middle of a report.                        *)
THEOREM UrgentEventsDue == Spec => []UrgentEventsAreDue
  <1>1. IInv => UrgentEventsAreDue
    BY DEF IInv, EventsOK, UrgentEventsAreDue
  <1> QED
    BY <1>1, IInvHolds, PTL

(* A subscription starts a report in the min interval after its last one   *)
(* only if the timer set since then has fired early: a Run reports only    *)
(* who is due or whose interval is open, the mark "due" of an earlier      *)
(* report is gone when the interval starts, and in the interval only the   *)
(* timer sets it.                                                          *)
THEOREM MinIntervalKept == Spec => MinIntervalIsKept
BY IInvHolds, StepIInv, PTL DEF Spec, MinIntervalIsKept, IntervalIsKept

-----------------------------------------------------------------------------
(* NothingIsLost.  The dirty set first: whatever is merged, what an entry  *)
(* stood for still has an entry, of no older generation.                   *)

Within(S, T) ==
    \A d \in S : \E e \in T :
        /\ d.gen <= e.gen
        /\ \A a : Covers(d.path, a) => Covers(e.path, a)

Has(T, p, g) ==
    \E e \in T : e.gen = g /\ \A a : Covers(p, a) => Covers(e.path, a)

LEMMA CoversIsTransitive ==
    ASSUME NEW p, NEW q, NEW a, Covers(p, q), Covers(q, a)
    PROVE  Covers(p, a)
BY DEF Covers

LEMMA MergeOverlappedOK ==
    ASSUME NEW g \in Nat, NEW S, DirtySetOK(S, g), NEW p, NEW T \in MergeOverlapped(S, p, g)
    PROVE  DirtySetOK(T, g) /\ Within(S, T) /\ Has(T, p, g)
  <1>1. PICK d \in S :
            /\ Covers(d.path, p) \/ Covers(p, d.path)
            /\ T = (S \ {d}) \cup {[path |-> IF Covers(d.path, p) THEN d.path ELSE p, gen |-> g]}
    BY DEF MergeOverlapped
  <1>2. PICK e : e = [path |-> IF Covers(d.path, p) THEN d.path ELSE p, gen |-> g]
    OBVIOUS
  <1>3. T = (S \ {d}) \cup {e} /\ e.gen = g
    BY <1>1, <1>2
  <1>4. /\ \A a : Covers(d.path, a) => Covers(e.path, a)
        /\ \A a : Covers(p, a) => Covers(e.path, a)
    <2>1. e.path = IF Covers(d.path, p) THEN d.path ELSE p
      BY <1>2
    <2> QED
      BY <1>1, <2>1, CoversIsTransitive
  <1>5. IsFiniteSet(S) /\ Cardinality(S) <= DirtyMax /\ d.gen <= g
        /\ \A x \in S : x.gen \in Nat /\ x.gen <= g
    BY DEF DirtySetOK
  <1>6. IsFiniteSet(T) /\ Cardinality(T) <= DirtyMax
    <2>1. IsFiniteSet(S \ {d}) /\ Cardinality(S \ {d}) = Cardinality(S) - 1
      BY <1>5, FS_RemoveElement
    <2>2. IsFiniteSet(T) /\ Cardinality(T) <= Cardinality(S \ {d}) + 1
          /\ Cardinality(S \ {d}) \in Nat
      <3> DEFINE R == S \ {d}
      <3>1. IsFiniteSet(R) /\ Cardinality(R) \in Nat
        BY <2>1, FS_CardinalityType
      <3> HIDE DEF R
      <3>2. /\ IsFiniteSet(R \cup {e})
            /\ Cardinality(R \cup {e}) = IF e \in R THEN Cardinality(R) ELSE Cardinality(R) + 1
        BY <3>1, FS_AddElement
      <3>3. Cardinality(R \cup {e}) <= Cardinality(R) + 1
        BY <3>1, <3>2
      <3> QED
        BY <1>3, <3>1, <3>2, <3>3 DEF R
    <2>3. Cardinality(S) \in Nat /\ Cardinality(T) \in Nat /\ DirtyMax \in Nat
      BY <1>5, <2>2, FS_CardinalityType, ReportingAssumption
    <2> QED
      BY <1>5, <2>1, <2>2, <2>3
  <1>7. DirtySetOK(T, g)
    BY <1>3, <1>5, <1>6 DEF DirtySetOK
  <1>8. Within(S, T)
    BY <1>3, <1>4, <1>5 DEF Within
  <1>9. Has(T, p, g)
    BY <1>3, <1>4 DEF Has
  <1> QED
    BY <1>7, <1>8, <1>9

(* An image of the set that covers it.                                     *)
Widens(d, e, g) ==
    /\ e.gen \in Nat /\ e.gen <= g /\ d.gen <= e.gen
    /\ \A a : Covers(d.path, a) => Covers(e.path, a)

LEMMA ImageOK ==
    ASSUME NEW g \in Nat, NEW S, IsFiniteSet(S), NEW T, NEW f \in [S -> T],
           \A d \in S : Widens(d, f[d], g),
           \A e \in T : \E d \in S : e = f[d]
    PROVE  IsFiniteSet(T) /\ Within(S, T) /\ \A e \in T : e.gen \in Nat /\ e.gen <= g
  <1>1. f \in Surjection(S, T)
    BY DEF Surjection
  <1>2. IsFiniteSet(T)
    BY <1>1, FS_Surjection
  <1> QED
    BY <1>2 DEF Within, Widens

(* The newest generation of a group.                                       *)
LEMMA NewestOf ==
    ASSUME NEW g \in Nat, NEW G, \A x \in G : x.gen \in Nat /\ x.gen <= g, NEW d \in G
    PROVE  LET m == Max({x.gen : x \in G}) IN m \in Nat /\ m <= g /\ d.gen <= m
  <1> DEFINE gens == {x.gen : x \in G}
  <1>1. gens \in SUBSET Nat /\ d.gen \in gens /\ \A y \in gens : y <= g
    OBVIOUS
  <1> HIDE DEF gens
  <1>2. Max(gens) \in gens /\ d.gen <= Max(gens)
    BY <1>1, MaxOfNaturals
  <1>3. Max(gens) \in Nat /\ Max(gens) <= g
    BY <1>1, <1>2
  <1> QED
    BY <1>2, <1>3 DEF gens

LEMMA MergeClusterOK ==
    ASSUME NEW g \in Nat, NEW S, IsFiniteSet(S), \A d \in S : d.gen \in Nat /\ d.gen <= g,
           NEW T, T = MergeDirtyPathsUnderSameCluster(S)
    PROVE  IsFiniteSet(T) /\ Within(S, T) /\ \A e \in T : e.gen \in Nat /\ e.gen <= g
  <1> DEFINE G(d) == IF d.path[2] = 0 THEN {d} ELSE {x \in S : SameCluster(x.path, d.path)}
             m(d) == Max({x.gen : x \in G(d)})
             j(d) == [path |-> <<d.path[1], d.path[2], 0>>, gen |-> m(d)]
             f == [d \in S |-> IF Cardinality(G(d)) < 2 THEN d ELSE j(d)]
  <1>1. T = {f[d] : d \in S}
    <2>1. T = {IF Cardinality(G(d)) < 2 THEN d ELSE j(d) : d \in S}
      BY DEF MergeDirtyPathsUnderSameCluster, MergeGroups
    <2> QED
      BY <2>1
  <1>2. ASSUME NEW d \in S
        PROVE  Widens(d, f[d], g)
    <2>1. d \in G(d) /\ \A x \in G(d) : x \in S
      BY DEF SameCluster
    <2>2. m(d) \in Nat /\ m(d) <= g /\ d.gen <= m(d)
      <3> HIDE DEF G
      <3> QED
        BY <2>1, NewestOf
    <2> HIDE DEF m
    <2>3. f[d] = d \/ f[d] = j(d)
      OBVIOUS
    <2>4. j(d).gen = m(d) /\ j(d).path = <<d.path[1], d.path[2], 0>>
      OBVIOUS
    <2>5. \A a : Covers(d.path, a) => Covers(j(d).path, a)
      BY <2>4 DEF Covers
    <2> HIDE DEF j, f
    <2> QED
      BY <2>2, <2>3, <2>4, <2>5 DEF Widens
  <1>3. f \in [S -> T] /\ \A e \in T : \E d \in S : e = f[d]
    <2>1. f = [d \in S |-> f[d]]
      OBVIOUS
    <2> HIDE DEF f
    <2> QED
      BY <1>1, <2>1
  <1> HIDE DEF f
  <1> QED
    BY <1>1, <1>2, <1>3, ImageOK

LEMMA MergeEndpointOK ==
    ASSUME NEW g \in Nat, NEW S, IsFiniteSet(S), \A d \in S : d.gen \in Nat /\ d.gen <= g,
           NEW T, T = MergeDirtyPathsUnderSameEndpoint(S)
    PROVE  IsFiniteSet(T) /\ Within(S, T) /\ \A e \in T : e.gen \in Nat /\ e.gen <= g
  <1> DEFINE G(d) == IF d.path[1] = 0 THEN {d} ELSE {x \in S : x.path[1] = d.path[1]}
             m(d) == Max({x.gen : x \in G(d)})
             j(d) == [path |-> <<d.path[1], 0, 0>>, gen |-> m(d)]
             f == [d \in S |-> IF Cardinality(G(d)) < 2 THEN d ELSE j(d)]
  <1>1. T = {f[d] : d \in S}
    <2>1. T = {IF Cardinality(G(d)) < 2 THEN d ELSE j(d) : d \in S}
      BY DEF MergeDirtyPathsUnderSameEndpoint, MergeGroups
    <2> QED
      BY <2>1
  <1>2. ASSUME NEW d \in S
        PROVE  Widens(d, f[d], g)
    <2>1. d \in G(d) /\ \A x \in G(d) : x \in S
      OBVIOUS
    <2>2. m(d) \in Nat /\ m(d) <= g /\ d.gen <= m(d)
      <3> HIDE DEF G
      <3> QED
        BY <2>1, NewestOf
    <2> HIDE DEF m
    <2>3. f[d] = d \/ f[d] = j(d)
      OBVIOUS
    <2>4. j(d).gen = m(d) /\ j(d).path = <<d.path[1], 0, 0>>
      OBVIOUS
    <2>5. \A a : Covers(d.path, a) => Covers(j(d).path, a)
      BY <2>4 DEF Covers
    <2> HIDE DEF j, f
    <2> QED
      BY <2>2, <2>3, <2>4, <2>5 DEF Widens
  <1>3. f \in [S -> T] /\ \A e \in T : \E d \in S : e = f[d]
    <2>1. f = [d \in S |-> f[d]]
      OBVIOUS
    <2> HIDE DEF f
    <2> QED
      BY <1>1, <2>1
  <1> HIDE DEF f
  <1> QED
    BY <1>1, <1>2, <1>3, ImageOK

LEMMA WithinIsTransitive ==
    ASSUME NEW S, NEW T, NEW U, Within(S, T), Within(T, U),
           \A d \in S : d.gen \in Nat, \A d \in T : d.gen \in Nat, \A d \in U : d.gen \in Nat
    PROVE  Within(S, U)
  <1> SUFFICES ASSUME NEW d \in S
               PROVE  \E e \in U : /\ d.gen <= e.gen
                                   /\ \A a : Covers(d.path, a) => Covers(e.path, a)
    BY DEF Within
  <1>1. PICK e \in T : d.gen <= e.gen /\ \A a : Covers(d.path, a) => Covers(e.path, a)
    BY DEF Within
  <1>2. PICK u \in U : e.gen <= u.gen /\ \A a : Covers(e.path, a) => Covers(u.path, a)
    BY DEF Within
  <1>3. d.gen <= u.gen
    BY <1>1, <1>2
  <1> QED
    BY <1>1, <1>2, <1>3

LEMMA MakeRoomOK ==
    ASSUME NEW g \in Nat, NEW S, DirtySetOK(S, g), NEW T, T = MakeRoom(S, g)
    PROVE  /\ DirtySetOK(T, g) /\ Within(S, T)
           /\ Cardinality(T) < DirtyMax \/ T = {[path |-> <<0, 0, 0>>, gen |-> g]}
  <1> DEFINE C == MergeDirtyPathsUnderSameCluster(S)
             E == MergeDirtyPathsUnderSameEndpoint(C)
             all == [path |-> <<0, 0, 0>>, gen |-> g]
  <1>1. /\ IsFiniteSet(S) /\ Cardinality(S) <= DirtyMax
        /\ \A d \in S : d.gen \in Nat /\ d.gen <= g
        /\ Cardinality(S) \in Nat /\ DirtyMax \in Nat /\ DirtyMax >= 1
    <2>1. IsFiniteSet(S)
      BY DEF DirtySetOK
    <2> QED
      BY <2>1, FS_CardinalityType, ReportingAssumption DEF DirtySetOK
  <1>2. \/ Cardinality(S) < DirtyMax /\ T = S
        \/ Cardinality(C) < Cardinality(S) /\ T = C
        \/ Cardinality(E) < Cardinality(S) /\ T = E
        \/ T = {all}
    BY DEF MakeRoom
  <1>3. IsFiniteSet(C) /\ Within(S, C) /\ \A e \in C : e.gen \in Nat /\ e.gen <= g
    BY <1>1, MergeClusterOK
  <1> HIDE DEF C
  <1>4. IsFiniteSet(E) /\ Within(C, E) /\ \A e \in E : e.gen \in Nat /\ e.gen <= g
    BY <1>3, MergeEndpointOK
  <1> HIDE DEF E
  <1>5. Within(S, E)
    BY <1>1, <1>3, <1>4, WithinIsTransitive
  <1>6. Cardinality(C) \in Nat /\ Cardinality(E) \in Nat
    BY <1>3, <1>4, FS_CardinalityType
  <1>7. CASE Cardinality(S) < DirtyMax /\ T = S
    BY <1>1, <1>7 DEF Within
  <1>8. CASE Cardinality(C) < Cardinality(S) /\ T = C
    BY <1>1, <1>3, <1>6, <1>8 DEF DirtySetOK
  <1>9. CASE Cardinality(E) < Cardinality(S) /\ T = E
    BY <1>1, <1>4, <1>5, <1>6, <1>9 DEF DirtySetOK
  <1>10. CASE T = {all}
    <2>1. all.gen = g /\ \A a : Covers(all.path, a)
      BY DEF Covers
    <2>2. IsFiniteSet(T) /\ Cardinality(T) = 1
      BY <1>10, FS_Singleton
    <2>3. DirtySetOK(T, g)
      <3> HIDE DEF all
      <3> QED
        BY <1>1, <1>10, <2>1, <2>2 DEF DirtySetOK
    <2>4. Within(S, T)
      <3> HIDE DEF all
      <3> QED
        BY <1>1, <1>10, <2>1 DEF Within
    <2> QED
      BY <1>10, <2>3, <2>4
  <1> QED
    BY <1>2, <1>7, <1>8, <1>9, <1>10

(* InsertPathIntoDirtySet never runs out of room: what is left after the   *)
(* merges has room for the path, or is the entry for everything.           *)
LEMMA InsertPathOK ==
    ASSUME NEW g \in Nat, NEW S, DirtySetOK(S, g), NEW p, NEW T \in InsertPath(S, p, g)
    PROVE  DirtySetOK(T, g) /\ Within(S, T) /\ Has(T, p, g)
  <1> DEFINE R == MakeRoom(S, g)
             new == [path |-> p, gen |-> g]
  <1>1. /\ DirtySetOK(R, g) /\ Within(S, R)
        /\ Cardinality(R) < DirtyMax \/ R = {[path |-> <<0, 0, 0>>, gen |-> g]}
    BY MakeRoomOK
  <1>2. \/ T \in MergeOverlapped(S, p, g)
        \/ T \in MergeOverlapped(R, p, g)
        \/ /\ MergeOverlapped(R, p, g) = {}
           /\ T = IF Cardinality(R) < DirtyMax THEN R \cup {new} ELSE R
    BY DEF InsertPath
  <1> HIDE DEF R
  <1>3. CASE T \in MergeOverlapped(S, p, g)
    BY <1>3, MergeOverlappedOK
  <1>4. CASE T \in MergeOverlapped(R, p, g)
    <2>1. DirtySetOK(T, g) /\ Within(R, T) /\ Has(T, p, g)
      BY <1>1, <1>4, MergeOverlappedOK
    <2>2. Within(S, T)
      BY <1>1, <2>1, WithinIsTransitive DEF DirtySetOK
    <2> QED
      BY <2>1, <2>2
  <1>5. CASE /\ MergeOverlapped(R, p, g) = {}
             /\ T = IF Cardinality(R) < DirtyMax THEN R \cup {new} ELSE R
    <2>1. Cardinality(R) < DirtyMax
      <3> SUFFICES ASSUME R = {[path |-> <<0, 0, 0>>, gen |-> g]} PROVE FALSE
        BY <1>1
      <3>1. PICK d \in R : d = [path |-> <<0, 0, 0>>, gen |-> g]
        OBVIOUS
      <3>2. Covers(d.path, p)
        BY <3>1 DEF Covers
      <3>3. MergeOverlapped(R, p, g) # {}
        BY <3>2 DEF MergeOverlapped
      <3> QED
        BY <1>5, <3>3
    <2>2. T = R \cup {new} /\ new.gen = g /\ new.path = p
      BY <1>5, <2>1
    <2> HIDE DEF new
    <2>3. IsFiniteSet(R) /\ Cardinality(R) \in Nat /\ DirtyMax \in Nat
          /\ \A d \in R : d.gen \in Nat /\ d.gen <= g
      BY <1>1, FS_CardinalityType, ReportingAssumption DEF DirtySetOK
    <2>4. /\ IsFiniteSet(R \cup {new})
          /\ Cardinality(R \cup {new}) = IF new \in R THEN Cardinality(R) ELSE Cardinality(R) + 1
      BY <2>3, FS_AddElement
    <2>5. Cardinality(T) <= DirtyMax
      BY <2>1, <2>2, <2>3, <2>4
    <2>6. DirtySetOK(T, g)
      BY <2>2, <2>3, <2>4, <2>5 DEF DirtySetOK
    <2>7. Within(R, T) /\ Has(T, p, g)
      BY <2>2, <2>3 DEF Within, Has
    <2>8. Within(S, T)
      <3>1. \A d \in S : d.gen \in Nat
        BY DEF DirtySetOK
      <3>2. \A d \in T : d.gen \in Nat
        BY <2>6 DEF DirtySetOK
      <3> QED
        BY <1>1, <2>3, <2>7, <3>1, <3>2, WithinIsTransitive
    <2> QED
      BY <2>6, <2>7, <2>8
  <1> QED
    BY <1>2, <1>3, <1>4, <1>5

-----------------------------------------------------------------------------
(* The walk of a request meets only attributes that it asks for.           *)

LEMMA PatternInRange ==
    ASSUME NEW R \in Nat, NEW L \in Nat \ {0}, NEW k \in 1..(R * L)
    PROVE  ((k - 1) \div L) + 1 \in 1..R
  <1> DEFINE q == (k - 1) \div L
  <1>1. k \in Int /\ R * L \in Int /\ k - 1 >= 0 /\ k - 1 < R * L
    OBVIOUS
  <1>2. q \in Int /\ q >= 0 /\ L * q <= k - 1
    BY <1>1
  <1>3. q < R
    <2> SUFFICES ASSUME q >= R PROVE FALSE
      BY <1>2
    <2>1. L * q >= L * R
      BY <1>2
    <2> QED
      BY <1>1, <1>2, <2>1
  <1> QED
    BY <1>2, <1>3

LEMMA RequestedOK ==
    ASSUME NEW h \in Handlers, NEW a \in Requested[h]
    PROVE  /\ a \in Range(Attributes)
           /\ \E i \in 1..Len(Request[h]) : Covers(Request[h][i], a)
           /\ \E k \in Steps[h] : AttrAt(k) = a
  <1>1. PICK k \in Steps[h] : a = AttrAt(k)
    BY DEF Requested
  <1>2. k \in 1..WalkLength(h) /\ Covers(Request[h][PatternAt(k)], AttrAt(k))
    BY <1>1 DEF Steps
  <1>3. Len(Request[h]) \in Nat /\ Len(Attributes) \in Nat
    BY ReportingAssumption
  <1>4. Len(Attributes) # 0
    BY <1>2, <1>3 DEF WalkLength
  <1>5. PatternAt(k) \in 1..Len(Request[h])
    BY <1>2, <1>3, <1>4, PatternInRange DEF WalkLength, PatternAt
  <1>6. ((k - 1) % Len(Attributes)) + 1 \in 1..Len(Attributes)
    BY <1>2, <1>3, <1>4
  <1>7. DOMAIN Attributes = 1..Len(Attributes)
    BY ReportingAssumption
  <1>8. a \in Range(Attributes)
    BY <1>1, <1>6, <1>7 DEF AttrAt, Range
  <1> QED
    BY <1>1, <1>2, <1>5, <1>8

-----------------------------------------------------------------------------
(* LossInv is kept by the steps that neither change an attribute nor send  *)
(* anything.                                                               *)

LEMMA ValueSame ==
    ASSUME UNCHANGED changes PROVE gen' = gen /\ \A a : Value(a)' = Value(a)
BY DEF Value, ValueAt, gen

LEMMA OwedSame ==
    ASSUME NEW h, OwedOK(h), UNCHANGED <<changes, dirtySet>>, sent'[h] = sent[h],
           SameProgress(handler[h], handler'[h]), GenerationsOK(handler'[h])
    PROVE  OwedOK(h)'
  <1> DEFINE r == handler[h]
             s == handler'[h]
  <1>1. s.chunked = r.chunked /\ s.previous = r.previous /\ s.begin = r.begin
        /\ s.dirty = r.dirty /\ s.pos = r.pos
    BY DEF SameProgress
  <1>2. \A a : Value(a)' = Value(a)
    BY ValueSame
  <1>3. ASSUME NEW a \in Requested[h] PROVE RecordOK(h, a)' /\ SentOK(h, a)'
    <2>1. RecordOK(h, a) /\ SentOK(h, a)
      BY DEF OwedOK
    <2>2. Marked(h, a) => Marked(h, a)'
      BY <1>1, <1>2 DEF Marked
    <2>3. ToCome(h, a) => ToCome(h, a)'
      BY <1>1 DEF ToCome
    <2>4. Floor(s) = Floor(r)
      BY <1>1 DEF Floor
    <2>5. RecordOK(h, a)'
      BY <1>1, <1>2, <2>1, <2>2, <2>4 DEF RecordOK
    <2>6. SentOK(h, a)'
      BY <1>1, <1>2, <2>1, <2>3 DEF SentOK
    <2> QED
      BY <2>5, <2>6
  <1> QED
    BY <1>3 DEF OwedOK

LEMMA LossKept ==
    ASSUME LossInv, UNCHANGED <<changes, dirtySet>>, SentInv',
           \A h \in Open' : /\ h \in Open /\ sent'[h] = sent[h]
                            /\ SameProgress(handler[h], handler'[h])
                            /\ GenerationsOK(handler'[h])
    PROVE  LossInv'
  <1>1. gen' = gen /\ \A a : Value(a)' = Value(a)
    BY ValueSame
  <1>2. ValuesInv'
    BY <1>1 DEF ValuesInv, LossInv
  <1>3. DirtySetOK(dirtySet, gen)'
    BY <1>1 DEF LossInv, DirtySetOK
  <1>4. ASSUME NEW h \in Open' PROVE OwedOK(h)'
    <2>1. OwedOK(h)
      BY DEF LossInv
    <2> QED
      BY <2>1, OwedSame
  <1> QED
    BY <1>2, <1>3, <1>4 DEF LossInv

LEMMA SameGenerations ==
    ASSUME NEW r, NEW s, GenerationsOK(r), SameProgress(r, s), s.priming = r.priming,
           s.state = r.state \/ s.state = "start"
    PROVE  GenerationsOK(s)
BY DEF GenerationsOK, SameProgress

(* A step in which every handler stays as it is but for its schedule.      *)
LEMMA SameHandlers ==
    ASSUME IInv, LossInv, UNCHANGED <<changes, dirtySet, sent>>, Open' = Open,
           \A h \in Open : /\ SameProgress(handler[h], handler'[h])
                           /\ handler'[h].priming = handler[h].priming
                           /\ handler'[h].state = handler[h].state \/ handler'[h].state = "start"
    PROVE  LossInv'
  <1>1. SentInv'
    BY DEF LossInv, SentInv
  <1>2. \A h \in Open : GenerationsOK(handler'[h])
    BY SameGenerations DEF LossInv, OwedOK
  <1> QED
    BY <1>1, <1>2, LossKept

LEMMA SameItself ==
    \A r : SameProgress(r, r)
BY DEF SameProgress

(* Open handlers, from what a step makes of each.                          *)
LEMMA OpenSame ==
    ASSUME \A h \in Handlers \ Open : handler'[h] = handler[h],
           \A h \in Open : IsHandler(handler'[h])
    PROVE  Open' = Open
BY FreeIsNoHandler DEF Open

LEMMA ClockLoss ==
    ASSUME IInv, LossInv, NEW x \in Handlers, TimePasses(x) \/ TimerFired(x)
    PROVE  LossInv'
  <1> DEFINE r == handler[x]
             s == handler'[x]
  <1>1. /\ UNCHANGED <<changes, dirtySet, sent>> /\ x \in Open /\ HandlerOK(r)
        /\ handler = [h \in Handlers |-> handler[h]]
    BY DEF TimePasses, TimerFired, Open, IInv, TypeInv
  <1>2. /\ \A h \in Handlers \ {x} : handler'[h] = handler[h]
        /\ \/ \E p \in {"open", "late"} : s = [r EXCEPT !.phase = p]
           \/ s = [r EXCEPT !.timer = "none", !.due = TRUE, !.fired = TRUE]
    BY <1>1 DEF TimePasses, TimerFired
  <1> HIDE DEF r, s
  <1>3. IsHandler(s) /\ SameProgress(r, s) /\ s.state = r.state /\ s.priming = r.priming
    BY <1>1, <1>2 DEF HandlerOK, IsHandler, Fields, Phases, SameProgress
  <1>4. \A h \in Open : IsHandler(handler'[h])
    BY <1>2, <1>3 DEF IInv, HandlerOK, Open, s
  <1>5. Open' = Open
    BY <1>1, <1>2, <1>4, OpenSame DEF Open
  <1>6. \A h \in Open : /\ SameProgress(handler[h], handler'[h])
                        /\ handler'[h].priming = handler[h].priming
                        /\ handler'[h].state = handler[h].state
    BY <1>2, <1>3, SameItself DEF Open, r, s
  <1> QED
    BY <1>1, <1>5, <1>6, SameHandlers

(* A step that schedules some of the handlers anew, or forces them.        *)
LEMMA ScheduleLoss ==
    ASSUME IInv, LossInv, UNCHANGED <<changes, dirtySet, sent>>,
           NEW told \in SUBSET Open, NEW F, 
           \A h \in told : /\ HandlerOK(F[h]) /\ SameProgress(handler[h], F[h])
                           /\ F[h].state = handler[h].state
                           /\ F[h].priming = handler[h].priming,
           handler' = [h \in Handlers |-> IF h \in told THEN F[h] ELSE handler[h]]
    PROVE  LossInv'
  <1>1. \A h \in Handlers \ told : handler'[h] = handler[h]
    OBVIOUS
  <1>2. \A h \in told : handler'[h] = F[h]
    BY DEF Open
  <1>3. \A h \in Open : /\ IsHandler(handler'[h]) /\ SameProgress(handler[h], handler'[h])
                        /\ handler'[h].priming = handler[h].priming
                        /\ handler'[h].state = handler[h].state
    BY <1>1, <1>2, SameItself DEF Open, IInv, HandlerOK
  <1>4. Open' = Open
    BY <1>1, <1>3, OpenSame
  <1> QED
    BY <1>3, <1>4, SameHandlers

LEMMA DeferLoss ==
    ASSUME IInv, LossInv, DeferReports PROVE LossInv'
  <1> DEFINE deferred(r) == IF r.phase = "open" THEN [r EXCEPT !.phase = "deferred"] ELSE r
             nodes == {h \in Open : handler[h].phase # "none"}
             F == [h \in Handlers |-> Scheduled(deferred(handler[h]))]
  <1>1. /\ handler' = [h \in Handlers |-> IF h \in nodes THEN Scheduled(deferred(handler[h]))
                                          ELSE handler[h]]
        /\ UNCHANGED <<changes, dirtySet, sent>>
    BY DEF DeferReports
  <1>2. handler' = [h \in Handlers |-> IF h \in nodes THEN F[h] ELSE handler[h]]
    BY <1>1
  <1>3. ASSUME NEW h \in nodes
        PROVE  /\ HandlerOK(F[h]) /\ SameProgress(handler[h], F[h])
               /\ F[h].state = handler[h].state
               /\ F[h].priming = handler[h].priming
    <2> DEFINE r == handler[h]
               s == deferred(r)
    <2>1. HandlerOK(r) /\ F[h] = Scheduled(s) /\ r.phase # "none"
      BY DEF IInv, Open
    <2>2. /\ IsHandler(s) /\ SameProgress(r, s) /\ s.state = r.state /\ s.priming = r.priming
          /\ s.due = r.due /\ s.fired = r.fired /\ s.timer = r.timer
          /\ s.phase = r.phase \/ (r.phase = "open" /\ s.phase = "deferred")
      <3> HIDE DEF r
      <3> QED
        BY <2>1 DEF HandlerOK, IsHandler, Fields, Phases, SameProgress
    <2> HIDE DEF s
    <2>3. IsPhased(s)
      BY <2>1, <2>2 DEF HandlerOK, IsPhased
    <2>4. HandlerOK(Scheduled(s)) /\ SameProgress(s, Scheduled(s))
          /\ Scheduled(s).state = s.state /\ Scheduled(s).priming = s.priming
      BY <2>2, <2>3, ScheduledOK
    <2> QED
      BY <2>1, <2>2, <2>4 DEF SameProgress
  <1>4. nodes \in SUBSET Open
    OBVIOUS
  <1> HIDE DEF F, nodes
  <1> QED
    BY <1>1, <1>2, <1>3, <1>4, ScheduleLoss

LEMMA ForceLoss ==
    ASSUME IInv, LossInv, NEW told \in SUBSET Open, UNCHANGED <<changes, dirtySet, sent>>,
           handler' = [h \in Handlers |-> IF h \in told THEN ForceDirtyState(handler[h])
                                          ELSE handler[h]]
    PROVE  LossInv'
  <1> DEFINE F == [h \in Handlers |-> ForceDirtyState(handler[h])]
  <1>1. handler' = [h \in Handlers |-> IF h \in told THEN F[h] ELSE handler[h]]
    OBVIOUS
  <1>2. ASSUME NEW h \in told
        PROVE  /\ HandlerOK(F[h]) /\ SameProgress(handler[h], F[h])
               /\ F[h].state = handler[h].state
               /\ F[h].priming = handler[h].priming
    <2>1. HandlerOK(handler[h]) /\ F[h] = ForceDirtyState(handler[h])
      BY DEF IInv, Open
    <2> QED
      BY <2>1, ForcedOK
  <1> HIDE DEF F
  <1> QED
    BY <1>1, <1>2, ScheduleLoss

LEMMA StatusResponseLoss ==
    ASSUME IInv, LossInv, NEW x \in Handlers, OnStatusResponse(x) PROVE LossInv'
  <1> DEFINE r == handler[x]
             s == handler'[x]
             t == [r EXCEPT !.priming = FALSE, !.phase = "early"]
  <1>1. /\ UNCHANGED <<changes, dirtySet, sent>> /\ r.state = "await"
        /\ handler = [h \in Handlers |-> handler[h]]
    BY DEF OnStatusResponse, IInv, TypeInv
  <1>2. x \in Open
    BY <1>1 DEF Open, Free
  <1>3. HandlerOK(r) /\ GenerationsOK(r)
    BY <1>2 DEF IInv, LossInv, OwedOK
  <1>4. /\ \A h \in Handlers \ {x} : handler'[h] = handler[h]
        /\ s = Restarted(r) \/ (~r.chunked /\ r.priming /\ s = Restarted(t))
    BY <1>1 DEF OnStatusResponse, ChunkAcknowledged, Established, ReportAcknowledged
  <1> HIDE DEF r, s
  <1>5. /\ IsHandler(t) /\ SameProgress(r, t) /\ ~t.priming /\ t.phase = "early"
        /\ t.due = r.due /\ t.fired = r.fired /\ t.timer = r.timer
    BY <1>3 DEF HandlerOK, IsHandler, Fields, Phases, SameProgress
  <1> HIDE DEF t
  <1>6. r.priming => IsPhased(t)
    BY <1>3, <1>5 DEF HandlerOK, IsPhased
  <1>7. CASE s = Restarted(r)
    <2>1. HandlerOK(s) /\ SameProgress(r, s) /\ s.state = "start" /\ s.priming = r.priming
      BY <1>3, <1>7, RestartedOK DEF HandlerOK
    <2>2. \A h \in Open : /\ IsHandler(handler'[h]) /\ SameProgress(handler[h], handler'[h])
                          /\ handler'[h].priming = handler[h].priming
                          /\ handler'[h].state = handler[h].state \/ handler'[h].state = "start"
      BY <1>4, <2>1, SameItself DEF Open, IInv, HandlerOK, r, s
    <2>3. Open' = Open
      BY <1>2, <1>4, <2>2, OpenSame DEF Open
    <2> QED
      BY <1>1, <2>2, <2>3, SameHandlers
  <1>8. CASE ~r.chunked /\ r.priming /\ s = Restarted(t)
    <2>1. HandlerOK(s) /\ SameProgress(t, s) /\ s.state = "start"
      BY <1>5, <1>6, <1>8, RestartedOK
    <2>2. SameProgress(r, s)
      BY <1>5, <2>1 DEF SameProgress
    <2>3. GenerationsOK(s)
      BY <1>1, <1>3, <1>8, <2>1, <2>2 DEF GenerationsOK, SameProgress, r
    <2>4. \A h \in Open : IsHandler(handler'[h])
      BY <1>4, <2>1 DEF Open, IInv, HandlerOK, s
    <2>5. Open' = Open
      BY <1>2, <1>4, <2>4, OpenSame DEF Open
    <2>6. ASSUME NEW h \in Open
          PROVE  SameProgress(handler[h], handler'[h]) /\ GenerationsOK(handler'[h])
      BY <1>4, <2>2, <2>3, SameItself DEF Open, LossInv, OwedOK, r, s
    <2>7. SentInv'
      BY <1>1 DEF SentInv, LossInv
    <2> QED
      BY <1>1, <2>5, <2>6, <2>7, LossKept
  <1> QED
    BY <1>4, <1>7, <1>8

LEMMA InitialRequestLoss ==
    ASSUME IInv, LossInv, NEW x \in Handlers, OnInitialRequest(x) PROVE LossInv'
  <1>1. /\ UNCHANGED <<changes, dirtySet, sent>> /\ handler'[x] = NewHandler
        /\ \A h \in Handlers \ {x} : handler'[h] = handler[h]
    BY DEF OnInitialRequest, IInv, TypeInv
  <1>2. gen' = gen /\ \A a : Value(a)' = Value(a)
    BY <1>1, ValueSame
  <1>3. ValuesInv' /\ SentInv' /\ DirtySetOK(dirtySet, gen)'
    BY <1>1, <1>2 DEF LossInv, ValuesInv, SentInv, DirtySetOK
  <1>4. OwedOK(x)'
    <2> DEFINE s == handler'[x]
    <2>1. s.previous = 0 /\ ~s.chunked /\ s.priming /\ s.state = "start"
      BY <1>1 DEF NewHandler
    <2> HIDE DEF s
    <2>2. \A a \in Requested[x] : Value(a)' > 0
      BY <1>2, GenType DEF LossInv, ValuesInv, IInv
    <2> QED
      BY <2>1, <2>2 DEF OwedOK, GenerationsOK, RecordOK, SentOK, s
  <1>5. ASSUME NEW h \in Open', h # x PROVE OwedOK(h)'
    <2>1. h \in Open /\ handler'[h] = handler[h]
      BY <1>1, <1>5 DEF Open
    <2>2. OwedOK(h) /\ GenerationsOK(handler'[h])
      BY <2>1 DEF LossInv, OwedOK
    <2> QED
      BY <1>1, <2>1, <2>2, SameItself, OwedSame
  <1> QED
    BY <1>3, <1>4, <1>5 DEF LossInv

(* A handler is released.                                                  *)
LEMMA ReleaseLoss ==
    ASSUME IInv, LossInv, NEW x \in Handlers, UNCHANGED <<changes, dirtySet>>,
           handler' = [handler EXCEPT ![x] = Free],
           sent' = [sent EXCEPT ![x] = NothingSent]
    PROVE  LossInv'
  <1>1. /\ handler = [h \in Handlers |-> handler[h]]
        /\ sent = [h \in Handlers |-> sent[h]]
        /\ \A h \in Handlers : DOMAIN sent[h] = Range(Attributes)
    BY DEF IInv, TypeInv, LossInv, SentInv
  <1>2. /\ handler'[x] = Free /\ sent'[x] = NothingSent
        /\ \A h \in Handlers \ {x} : handler'[h] = handler[h] /\ sent'[h] = sent[h]
        /\ sent' = [h \in Handlers |-> sent'[h]]
    BY <1>1
  <1>3. DOMAIN NothingSent = Range(Attributes)
    BY DEF NothingSent
  <1>4. SentInv'
    BY <1>1, <1>2, <1>3 DEF SentInv
  <1>5. ASSUME NEW h \in Open'
        PROVE  /\ h \in Open /\ sent'[h] = sent[h]
               /\ SameProgress(handler[h], handler'[h])
               /\ GenerationsOK(handler'[h])
    <2>1. h # x /\ h \in Handlers
      BY <1>2 DEF Open
    <2>2. h \in Open /\ handler'[h] = handler[h]
      BY <1>2, <2>1 DEF Open
    <2> QED
      BY <1>2, <2>1, <2>2, SameItself DEF LossInv, OwedOK
  <1> QED
    BY <1>4, <1>5, LossKept

(* EndRun forgets the dirty set only when no handler is dirty, and then    *)
(* nothing is on record.                                                   *)
LEMMA EndRunLoss ==
    ASSUME IInv, LossInv, EndRun PROVE LossInv'
  <1>1. /\ UNCHANGED <<handler, changes, sent>>
        /\ dirtySet' = IF \E h \in Open : IsDirty(handler[h]) THEN dirtySet ELSE {}
    BY DEF EndRun
  <1>2. Open' = Open
    BY <1>1 DEF Open
  <1>3. CASE dirtySet' = dirtySet
    BY <1>1, <1>2, <1>3, SameItself, SameHandlers
  <1>4. CASE /\ dirtySet' = {} /\ \A h \in Open : ~IsDirty(handler[h])
    <2>1. gen' = gen /\ \A a : Value(a)' = Value(a)
      BY <1>1, ValueSame
    <2>2. ValuesInv' /\ SentInv'
      BY <1>1, <2>1 DEF LossInv, ValuesInv, SentInv
    <2>3. DirtySetOK(dirtySet, gen)'
      <3>1. IsFiniteSet({}) /\ Cardinality({}) = 0 /\ DirtyMax \in Nat
        BY FS_EmptySet, ReportingAssumption
      <3> QED
        BY <1>4, <3>1 DEF DirtySetOK
    <2>4. ASSUME NEW h \in Open, NEW a \in Requested[h]
          PROVE  RecordOK(h, a)' /\ SentOK(h, a)'
      <3> DEFINE r == handler[h]
      <3>1. RecordOK(h, a) /\ SentOK(h, a) /\ GenerationsOK(r)
        BY DEF LossInv, OwedOK
      <3>2. h \in Handlers /\ IsHandler(r) /\ ~IsDirty(r)
        BY <1>4 DEF Open, IInv, HandlerOK
      <3>3. Value(a) \in Nat /\ Value(a) > 0
        BY <3>2, GenType DEF LossInv, ValuesInv, IInv
      <3>4. r.dirty \in Nat /\ r.previous \in Nat /\ r.dirty <= r.previous
        BY <3>2 DEF IsHandler, IsDirty
      <3>5. Marked(h, a) => Value(a) <= r.dirty
        BY DEF Marked
      <3> HIDE DEF r
      <3>6. ~((r.previous > 0 \/ r.chunked) /\ Value(a) > Floor(r))
        <4> SUFFICES ASSUME r.previous > 0 \/ r.chunked, Value(a) > Floor(r) PROVE FALSE
          OBVIOUS
        <4>1. Value(a) <= r.dirty
          BY <3>1, <3>5 DEF RecordOK, r
        <4>2. CASE r.previous > 0
          <5>1. Floor(r) = r.previous
            BY <4>2 DEF Floor
          <5> QED
            BY <3>3, <3>4, <4>1, <5>1
        <4>3. CASE r.previous = 0
          BY <3>3, <3>4, <4>1, <4>3
        <4> QED
          BY <3>4, <4>2, <4>3
      <3>7. RecordOK(h, a)'
        BY <1>1, <2>1, <3>6 DEF RecordOK, r
      <3>8. SentOK(h, a)'
        BY <1>1, <2>1, <3>1 DEF SentOK, ToCome
      <3> QED
        BY <3>7, <3>8
    <2> QED
      BY <1>1, <1>2, <2>2, <2>3, <2>4 DEF LossInv, OwedOK
  <1> QED
    BY <1>1, <1>3, <1>4

-----------------------------------------------------------------------------
(* A change.                                                               *)

LEMMA ValueAfterChange ==
    ASSUME changes \in Seq(Changes), NEW p \in Changes, changes' = Append(changes, p),
           NEW a, Value(a) \in 1..gen
    PROVE  Value(a)' = IF Covers(p, a) THEN gen + 1 ELSE Value(a)
  <1> DEFINE before == {1} \cup {i \in 2..gen : Covers(changes[i - 1], a)}
             after == {1} \cup {i \in 2..gen' : Covers(changes'[i - 1], a)}
  <1>1. Value(a) = Max(before) /\ Value(a)' = Max(after)
    BY DEF Value, ValueAt
  <1>2. /\ gen \in Nat /\ gen > 0 /\ gen' = gen + 1
        /\ \A i \in 2..gen : changes'[i - 1] = changes[i - 1]
        /\ changes'[gen] = p
    BY DEF gen
  <1>3. after = IF Covers(p, a) THEN before \cup {gen + 1} ELSE before
    <2>1. \A i : i \in 2..gen' <=> i \in 2..gen \/ i = gen + 1
      BY <1>2
    <2>2. (gen + 1) - 1 = gen
      BY <1>2
    <2> QED
      BY <1>2, <2>1, <2>2
  <1>4. CASE Covers(p, a)
    <2>1. after = before \cup {gen + 1}
      BY <1>3, <1>4
    <2>2. \A y \in before : y \in Int /\ y <= gen
      BY <1>2
    <2> HIDE DEF after, before
    <2>3. after \in SUBSET Int /\ gen + 1 \in after /\ \A y \in after : y <= gen + 1
      BY <1>2, <2>1, <2>2
    <2>4. Max(after) = gen + 1
      BY <2>3, MaxIs
    <2> QED
      BY <1>1, <1>4, <2>4
  <1>5. CASE ~Covers(p, a)
    BY <1>1, <1>3, <1>5
  <1> QED
    BY <1>4, <1>5

LEMMA SetDirtyLoss ==
    ASSUME IInv, LossInv, NEW p \in Changes, SetDirty(p) PROVE LossInv'
  <1> DEFINE g == gen + 1
             touched == {h \in Open : \E i \in 1..Len(Request[h]) : Intersects(Request[h][i], p)}
             marked(h) == AttributePathIsDirty(h, handler[h], p, g)
  <1>1. /\ handler' = [h \in Handlers |-> IF h \in touched THEN Scheduled(marked(h))
                                          ELSE handler[h]]
        /\ changes' = Append(changes, p) /\ sent' = sent
        /\ dirtySet' \in IF touched = {} THEN {dirtySet} ELSE InsertPath(dirtySet, p, g)
    BY DEF SetDirty
  <1>2. changes \in Seq(Changes) /\ gen \in Nat /\ gen' = g /\ g \in Nat
    <2>1. changes \in Seq(Changes)
      BY DEF IInv, TypeInv
    <2> QED
      BY <1>1, <2>1 DEF gen
  <1>3. ASSUME NEW h \in Handlers, NEW a \in Requested[h]
        PROVE  /\ Value(a) \in 1..gen
               /\ Value(a)' = IF Covers(p, a) THEN g ELSE Value(a)
    <2>1. Value(a) \in 1..gen
      BY DEF LossInv, ValuesInv
    <2> QED
      BY <1>1, <1>2, <2>1, ValueAfterChange
  <1>4. ValuesInv'
    BY <1>2, <1>3 DEF ValuesInv
  <1>5. SentInv'
    BY <1>1 DEF LossInv, SentInv
  <1>6. DirtySetOK(dirtySet, g)
    BY <1>2 DEF LossInv, DirtySetOK
  <1>7. /\ DirtySetOK(dirtySet', g) /\ Within(dirtySet, dirtySet')
        /\ touched # {} => Has(dirtySet', p, g)
    <2>1. CASE touched = {}
      <3>1. dirtySet' = dirtySet
        BY <1>1, <2>1
      <3> QED
        BY <1>6, <2>1, <3>1 DEF Within, DirtySetOK
    <2>2. CASE touched # {}
      <3>1. dirtySet' \in InsertPath(dirtySet, p, g)
        BY <1>1, <2>2
      <3> HIDE DEF g
      <3> QED
        BY <1>2, <1>6, <3>1, InsertPathOK
    <2> QED
      BY <2>1, <2>2
  <1>8. DirtySetOK(dirtySet, gen)'
    BY <1>2, <1>7
  <1>9. ASSUME NEW h \in Open
        PROVE  LET r == handler[h]
                   s == handler'[h]
               IN  /\ IsHandler(r) /\ IsHandler(s) /\ s.pos <= r.pos
                   /\ s.chunked = r.chunked /\ s.previous = r.previous /\ s.begin = r.begin
                   /\ s.state = r.state /\ s.priming = r.priming
                   /\ s.dirty = IF h \in touched THEN g ELSE r.dirty
    <2> DEFINE r == handler[h]
               d == marked(h)
    <2>1. HandlerOK(r) /\ IsHandler(r) /\ h \in Handlers
      BY DEF IInv, HandlerOK, Open
    <2>2. CASE h \in touched
      <3>1. handler'[h] = Scheduled(d)
        BY <1>1, <2>1, <2>2
      <3>2. /\ IsHandler(d) /\ d.dirty = g /\ d.pos <= r.pos
            /\ d.chunked = r.chunked /\ d.previous = r.previous /\ d.begin = r.begin
            /\ d.state = r.state /\ d.priming = r.priming
            /\ d.due = r.due /\ d.fired = r.fired /\ d.timer = r.timer /\ d.phase = r.phase
        <4> HIDE DEF r, g
        <4> QED
          BY <1>2, <2>1, PathIsDirtyOK DEF r
      <3> HIDE DEF d, r
      <3>3. IsPhased(d)
        BY <2>1, <3>2 DEF HandlerOK, IsPhased
      <3>4. /\ HandlerOK(Scheduled(d)) /\ SameProgress(d, Scheduled(d))
            /\ Scheduled(d).state = d.state /\ Scheduled(d).priming = d.priming
        BY <3>2, <3>3, ScheduledOK
      <3> QED
        BY <2>1, <2>2, <3>1, <3>2, <3>4 DEF SameProgress, HandlerOK, r
    <2>3. CASE h \notin touched
      <3>1. handler'[h] = handler[h]
        BY <1>1, <2>1, <2>3
      <3> QED
        BY <2>1, <2>3, <3>1 DEF IsHandler
    <2> QED
      BY <2>2, <2>3
  <1>10. Open' = Open
    <2>1. \A h \in Handlers \ Open : handler'[h] = handler[h]
      BY <1>1
    <2> QED
      BY <1>9, <2>1, OpenSame
  <1>11. ASSUME NEW h \in Open, NEW a \in Requested[h]
         PROVE  RecordOK(h, a)' /\ SentOK(h, a)'
    <2> DEFINE r == handler[h]
               s == handler'[h]
    <2>1. h \in Handlers /\ RecordOK(h, a) /\ SentOK(h, a) /\ IsCurrent(r)
      BY DEF Open, LossInv, OwedOK, IInv
    <2>2. /\ IsHandler(r) /\ IsHandler(s) /\ s.pos <= r.pos
          /\ s.chunked = r.chunked /\ s.previous = r.previous /\ s.begin = r.begin
          /\ s.dirty = IF h \in touched THEN g ELSE r.dirty
      BY <1>9
    <2>3. /\ r.previous \in Nat /\ r.begin \in Nat /\ r.dirty \in Nat /\ r.pos \in Int
          /\ s.pos \in Int /\ r.previous <= gen /\ r.begin <= gen
      BY <2>1, <2>2 DEF IsHandler, IsCurrent
    <2>4. /\ Value(a) \in Nat /\ Value(a) <= gen
          /\ Value(a)' = IF Covers(p, a) THEN g ELSE Value(a)
      BY <1>2, <1>3, <2>1
    <2>5. Floor(s) = Floor(r)
      BY <2>2 DEF Floor
    <2>6. CASE Covers(p, a)
      <3>1. PICK i \in 1..Len(Request[h]) : Covers(Request[h][i], a)
        BY <2>1, RequestedOK
      <3>2. Intersects(Request[h][i], p)
        BY <2>6, <3>1 DEF Covers, Intersects
      <3>3. h \in touched
        BY <3>1, <3>2
      <3>4. Value(a)' = g /\ s.dirty = g
        BY <2>2, <2>4, <2>6, <3>3
      <3>5. PICK e \in dirtySet' : e.gen = g /\ \A b : Covers(p, b) => Covers(e.path, b)
        BY <1>7, <3>3 DEF Has
      <3>6. Marked(h, a)'
        BY <1>2, <2>6, <3>4, <3>5 DEF Marked
      <3>7. SentOK(h, a)'
        <4>1. g > r.previous /\ g > r.begin
          BY <1>2, <2>3
        <4> QED
          BY <2>2, <3>4, <4>1 DEF SentOK
      <3> QED
        BY <3>6, <3>7 DEF RecordOK
    <2>7. CASE ~Covers(p, a)
      <3>1. Value(a)' = Value(a)
        BY <2>4, <2>7
      <3>2. Marked(h, a) => Marked(h, a)'
        <4> SUFFICES ASSUME Marked(h, a) PROVE Marked(h, a)'
          OBVIOUS
        <4>1. Value(a) <= s.dirty
          BY <1>2, <2>2, <2>3, <2>4 DEF Marked
        <4>2. PICK d \in dirtySet : Covers(d.path, a) /\ Value(a) <= d.gen
          BY DEF Marked
        <4>3. PICK e \in dirtySet' : d.gen <= e.gen
                                     /\ \A b : Covers(d.path, b) => Covers(e.path, b)
          BY <1>7, <4>2 DEF Within
        <4>4. d.gen \in Nat /\ e.gen \in Nat
          BY <1>6, <1>7 DEF DirtySetOK
        <4>5. Value(a) <= e.gen /\ Covers(e.path, a)
          BY <2>4, <4>2, <4>3, <4>4
        <4> QED
          BY <3>1, <4>1, <4>5 DEF Marked
      <3>3. ToCome(h, a) => ToCome(h, a)'
        <4>1. Steps[h] \in SUBSET Nat
          BY <2>1, StepsAreNaturals
        <4>2. \A k \in Steps[h] : k > r.pos => k > s.pos
          BY <2>2, <2>3, <4>1
        <4> QED
          BY <4>2 DEF ToCome
      <3>4. RecordOK(h, a)'
        BY <2>1, <2>2, <2>5, <3>1, <3>2 DEF RecordOK
      <3>5. SentOK(h, a)'
        BY <1>1, <2>1, <2>2, <3>1, <3>3 DEF SentOK
      <3> QED
        BY <3>4, <3>5
    <2> QED
      BY <2>6, <2>7
  <1>12. ASSUME NEW h \in Open PROVE GenerationsOK(handler'[h])
    <2>1. GenerationsOK(handler[h])
      BY DEF LossInv, OwedOK
    <2> QED
      BY <1>9, <2>1 DEF GenerationsOK
  <1> QED
    BY <1>4, <1>5, <1>8, <1>10, <1>11, <1>12 DEF LossInv, OwedOK

-----------------------------------------------------------------------------
(* A chunk.                                                                *)

(* What it does to the generations and the iterator of its handler.        *)
LEMMA AfterChunkProgress ==
    ASSUME NEW h \in Handlers, NEW c \in Chunks(h), HandlerOK(handler[h]),
           lastEvent \in Nat, gen \in Nat
    PROVE  LET r == handler[h]
               s == AfterChunk(h, c)
               begin == IF r.chunked THEN r.begin ELSE gen
           IN  /\ s.dirty = r.dirty /\ s.priming = r.priming /\ s.state = "await"
               /\ s.chunked = HasMore(h, c)
               /\ HasMore(h, c) =>
                     s.pos = c.stop - 1 /\ s.begin = begin /\ s.previous = r.previous
               /\ ~HasMore(h, c) => s.previous = begin
  <1> DEFINE r == handler[h]
             begin == IF r.chunked THEN r.begin ELSE gen
             goal == EventGoal(h)
             more == HasMore(h, c)
             rewound == r.chunked /\ r.rewound /\ c.stop = r.pos + 1
             place == c.stop - 1
             moved == [r EXCEPT !.state = "await", !.chunked = more, !.pos = place,
                                !.rewound = rewound, !.eventMin = c.event, !.begin = begin,
                                !.eventSeen = goal]
  <1>1. IsHandler(r) /\ IsPhased(r)
    BY DEF HandlerOK
  <1>2. c.event \in Nat
    BY <1>1, ChunkEvents DEF IsHandler
  <1>3. goal \in Nat /\ begin \in Nat /\ more \in BOOLEAN /\ place \in Int
    BY <1>1, ChunkStops DEF EventGoal, IsHandler, HasMore
  <1>4. AfterChunk(h, c) =
            IF moved.chunked THEN moved
            ELSE IF r.priming THEN Completed(moved, begin)
            ELSE Completed(OnSubscriptionReportSent(moved), begin)
    BY DEF AfterChunk
  <1>5. more = HasMore(h, c) /\ place = c.stop - 1
        /\ begin = IF r.chunked THEN r.begin ELSE gen
    OBVIOUS
  <1> HIDE DEF begin, goal, more, rewound, place
  <1>6. /\ IsHandler(moved) /\ moved.state = "await" /\ moved.chunked = more
        /\ moved.pos = place /\ moved.begin = begin /\ moved.dirty = r.dirty
        /\ moved.previous = r.previous /\ moved.priming = r.priming
        /\ moved.phase = r.phase
        /\ moved.due = r.due /\ moved.fired = r.fired /\ moved.timer = r.timer
    BY <1>1, <1>2, <1>3 DEF IsHandler, Fields
  <1> HIDE DEF moved
  <1>7. ASSUME NEW m, IsHandler(m)
        PROVE  LET s == Completed(m, begin)
               IN  /\ s.dirty = m.dirty /\ s.priming = m.priming /\ s.state = m.state
                   /\ s.chunked = m.chunked /\ s.previous = begin
    BY <1>7 DEF Completed, IsHandler, Fields
  <1>8. CASE more
    BY <1>4, <1>5, <1>6, <1>8
  <1>9. CASE ~more /\ r.priming
    <2>1. AfterChunk(h, c) = Completed(moved, begin)
      BY <1>4, <1>6, <1>9
    <2>2. LET s == Completed(moved, begin)
          IN  /\ s.dirty = r.dirty /\ s.priming = r.priming /\ s.state = "await"
              /\ s.chunked = more /\ s.previous = begin
      BY <1>6, <1>7
    <2>3. LET s == AfterChunk(h, c)
          IN  /\ s.dirty = r.dirty /\ s.priming = r.priming /\ s.state = "await"
              /\ s.chunked = more /\ s.previous = begin
      BY <2>1, <2>2
    <2> QED
      BY <1>5, <1>9, <2>3
  <1>10. CASE ~more /\ ~r.priming
    <2> DEFINE early == [moved EXCEPT !.phase = "early", !.due = FALSE, !.fired = FALSE]
               m == Scheduled(early)
    <2>1. AfterChunk(h, c) = Completed(m, begin)
      BY <1>4, <1>6, <1>10 DEF OnSubscriptionReportSent
    <2>2. /\ IsHandler(early) /\ early.state = "await" /\ early.phase = "early" /\ ~early.due
          /\ early.chunked = more /\ early.priming = r.priming /\ early.dirty = r.dirty
      BY <1>6 DEF IsHandler, Fields, Phases
    <2> HIDE DEF early
    <2>3. IsPhased(early)
      BY <1>10, <2>2 DEF IsPhased
    <2>4. /\ HandlerOK(m) /\ SameProgress(early, m) /\ m.state = early.state
          /\ m.priming = early.priming
      BY <2>2, <2>3, ScheduledOK
    <2> HIDE DEF m
    <2>5. /\ IsHandler(m) /\ m.state = "await" /\ m.chunked = more /\ m.priming = r.priming
          /\ m.dirty = r.dirty
      BY <2>2, <2>4 DEF HandlerOK, SameProgress
    <2> QED
      BY <1>5, <1>7, <1>10, <2>1, <2>5
  <1> QED
    BY <1>8, <1>9, <1>10

(* What a chunk does not bring up to date comes in a later one, or changed *)
(* after the report began: a step that differs and is still ahead is owed. *)
LEMMA SendChunkLoss ==
    ASSUME IInv, LossInv, NEW x \in Open, NEW c \in Chunks(x), SendChunk(x, c),
           UNCHANGED <<changes, dirtySet>>
    PROVE  LossInv'
  <1> DEFINE r == handler[x]
             s == handler'[x]
             begin == IF r.chunked THEN r.begin ELSE gen
             more == HasMore(x, c)
             out(a) == \E k \in Owed(x) : k < c.stop /\ AttrAt(k) = a
  <1>1. x \in Handlers /\ gen \in Nat /\ gen > 0 /\ lastEvent \in Nat
    BY DEF Open, IInv, TypeInv, gen
  <1>2. /\ handler' = [handler EXCEPT ![x] = AfterChunk(x, c)]
        /\ sent' = [sent EXCEPT ![x] = [a \in DOMAIN @ |-> IF out(a) THEN Value(a) ELSE @[a]]]
    BY DEF SendChunk, Deliver
  <1>3. /\ handler = [h \in Handlers |-> handler[h]]
        /\ sent = [h \in Handlers |-> sent[h]]
        /\ \A h \in Handlers : DOMAIN sent[h] = Range(Attributes)
    BY DEF IInv, TypeInv, LossInv, SentInv
  <1> HIDE DEF out
  <1>4. /\ s = AfterChunk(x, c)
        /\ \A h \in Handlers \ {x} : handler'[h] = handler[h] /\ sent'[h] = sent[h]
        /\ sent' = [h \in Handlers |-> sent'[h]]
        /\ sent'[x] = [a \in Range(Attributes) |-> IF out(a) THEN Value(a) ELSE sent[x][a]]
    BY <1>1, <1>2, <1>3
  <1>5. SentInv'
    <2>1. \A h \in Handlers : DOMAIN sent'[h] = Range(Attributes)
      BY <1>3, <1>4
    <2> QED
      BY <1>4, <2>1 DEF SentInv
  <1>6. gen' = gen /\ \A a : Value(a)' = Value(a)
    BY ValueSame
  <1>7. ValuesInv' /\ DirtySetOK(dirtySet, gen)'
    BY <1>6 DEF LossInv, ValuesInv, DirtySetOK
  <1>8. HandlerOK(r) /\ IsHandler(r) /\ IsCurrent(r) /\ GenerationsOK(r) /\ OwedOK(x)
    BY DEF IInv, HandlerOK, LossInv, OwedOK
  <1>9. /\ s.dirty = r.dirty /\ s.priming = r.priming /\ s.state = "await"
        /\ s.chunked = more
        /\ more => s.pos = c.stop - 1 /\ s.begin = begin /\ s.previous = r.previous
        /\ ~more => s.previous = begin
    BY <1>1, <1>4, <1>8, AfterChunkProgress
  <1>10. /\ r.previous \in Nat /\ r.begin \in Nat /\ r.pos \in Int
         /\ r.previous <= gen /\ r.begin <= gen
         /\ r.chunked \in BOOLEAN /\ r.priming \in BOOLEAN
    BY <1>8 DEF IsHandler, IsCurrent
  <1>11. begin \in Nat /\ begin > 0 /\ r.previous <= begin
    BY <1>1, <1>8, <1>10 DEF GenerationsOK
  <1>12. c.stop \in Int /\ (~more => c.stop > WalkLength(x))
    BY <1>1, ChunkStops, StepsAreNaturals DEF HasMore
  <1>13. /\ Steps[x] \in SUBSET Nat
         /\ \A k \in Steps[x] : k > 0 /\ k <= WalkLength(x)
         /\ WalkLength(x) \in Int
    BY <1>1, StepsAreNaturals
  <1>14. GenerationsOK(s)
    <2> HIDE DEF s, r, begin, more
    <2> QED
      BY <1>8, <1>9, <1>10, <1>11 DEF GenerationsOK
  <1>15. ASSUME NEW a \in Requested[x] PROVE RecordOK(x, a)' /\ SentOK(x, a)'
    <2>1. RecordOK(x, a) /\ SentOK(x, a)
      BY <1>8 DEF OwedOK
    <2>2. Value(a) \in Nat /\ Value(a) > 0 /\ Value(a) <= gen /\ Value(a)' = Value(a)
      BY <1>1, <1>6 DEF LossInv, ValuesInv
    <2>3. Marked(x, a) => Marked(x, a)'
      BY <1>9, <2>2 DEF Marked
    <2>4. RecordOK(x, a)'
      <3> SUFFICES ASSUME s.previous > 0 \/ s.chunked, Value(a) > Floor(s)
                   PROVE  Marked(x, a)
        BY <2>2, <2>3 DEF RecordOK
      <3>1. /\ Floor(s) = IF s.previous > 0 THEN s.previous ELSE s.begin
            /\ Floor(r) = IF r.previous > 0 THEN r.previous ELSE r.begin
        BY DEF Floor
      <3>2. (r.previous > 0 \/ r.chunked) /\ Value(a) > Floor(r) => Marked(x, a)
        BY <2>1 DEF RecordOK
      <3> HIDE DEF s, r, more
      <3> QED
        BY <1>1, <1>9, <1>10, <1>11, <2>2, <3>1, <3>2
    <2>5. SentOK(x, a)'
      <3> SUFFICES ASSUME sent'[x][a] # Value(a)
                   PROVE  /\ Value(a) > s.previous
                          /\ s.chunked => Value(a) > s.begin \/ ToCome(x, a)'
        BY <2>2 DEF SentOK
      <3>1. ~out(a) /\ sent[x][a] # Value(a)
        BY <1>1, <1>4, RequestedOK
      <3>2. Value(a) > r.previous /\ (r.chunked => Value(a) > r.begin \/ ToCome(x, a))
        BY <2>1, <3>1 DEF SentOK
      <3>3. ASSUME NEW k \in Steps[x], AttrAt(k) = a, r.chunked => k > r.pos
            PROVE  k >= c.stop
        <4>1. k > IF r.chunked THEN r.pos ELSE 0
          BY <1>10, <1>13, <3>3
        <4>2. r.priming \/ \E d \in dirtySet : Covers(d.path, a) /\ d.gen > r.previous
          <5> SUFFICES ASSUME ~r.priming
                       PROVE  \E d \in dirtySet : Covers(d.path, a) /\ d.gen > r.previous
            OBVIOUS
          <5>1. r.previous > 0
            BY <1>8, <1>10 DEF GenerationsOK
          <5>2. Marked(x, a)
            BY <2>1, <3>2, <5>1 DEF RecordOK, Floor
          <5>3. PICK d \in dirtySet : Covers(d.path, a) /\ Value(a) <= d.gen
            BY <5>2 DEF Marked
          <5>4. d.gen \in Nat
            BY DEF LossInv, DirtySetOK
          <5> QED
            BY <1>10, <2>2, <3>2, <5>3, <5>4
        <4>3. k \in Owed(x)
          BY <3>3, <4>1, <4>2 DEF Owed
        <4> QED
          BY <1>12, <1>13, <3>1, <3>3, <4>3 DEF out
      <3>4. PICK k \in Steps[x] : AttrAt(k) = a
        BY <1>1, RequestedOK
      <3>5. (r.chunked /\ Value(a) > r.begin)
            \/ \E j \in Steps[x] : AttrAt(j) = a /\ j >= c.stop
        BY <3>2, <3>3, <3>4 DEF ToCome
      <3>6. CASE r.chunked /\ Value(a) > r.begin
        <4> HIDE DEF s, r, more
        <4> QED
          BY <1>9, <3>2, <3>6
      <3>7. CASE \E j \in Steps[x] : AttrAt(j) = a /\ j >= c.stop
        <4>1. PICK j \in Steps[x] : AttrAt(j) = a /\ j >= c.stop
          BY <3>7
        <4>2. more
          BY <1>12, <1>13, <4>1
        <4>3. j > s.pos
          BY <1>9, <1>12, <1>13, <4>1, <4>2
        <4>4. ToCome(x, a)'
          BY <4>1, <4>3 DEF ToCome
        <4> QED
          BY <1>9, <3>2, <4>2, <4>4
      <3> QED
        BY <3>5, <3>6, <3>7
    <2> QED
      BY <2>4, <2>5
  <1>16. OwedOK(x)'
    BY <1>14, <1>15 DEF OwedOK
  <1>17. ASSUME NEW h \in Open', h # x PROVE OwedOK(h)'
    <2>1. h \in Open /\ handler'[h] = handler[h] /\ sent'[h] = sent[h]
      BY <1>4, <1>17 DEF Open
    <2>2. OwedOK(h) /\ GenerationsOK(handler'[h])
      BY <2>1 DEF LossInv, OwedOK
    <2> QED
      BY <2>1, <2>2, SameItself, OwedSame
  <1> QED
    BY <1>5, <1>7, <1>16, <1>17 DEF LossInv

LEMMA ReportLoss ==
    ASSUME IInv, LossInv, Report \/ ReportError PROVE LossInv'
  <1>1. PICK x : x = Current
    OBVIOUS
  <1>2. Visiting /\ UNCHANGED <<changes, dirtySet>>
    BY DEF Report, ReportError
  <1>3. x \in Open /\ x \in Handlers
    BY <1>1, <1>2, CurrentIsOpen DEF Open
  <1>4. CASE \E c \in Chunks(x) : SendChunk(x, c)
    BY <1>2, <1>3, <1>4, SendChunkLoss
  <1>5. CASE /\ handler' = [handler EXCEPT ![x] = Free]
             /\ sent' = [sent EXCEPT ![x] = NothingSent]
    BY <1>2, <1>3, <1>5, ReleaseLoss
  <1>6. ReleaseCurrent => /\ handler' = [handler EXCEPT ![x] = Free]
                          /\ sent' = [sent EXCEPT ![x] = NothingSent]
    BY <1>1 DEF ReleaseCurrent
  <1> QED
    BY <1>1, <1>4, <1>5, <1>6 DEF Report, ReportError, GiveUp, FinishRead

LEMMA InitLoss == Init => LossInv
  <1> SUFFICES ASSUME Init PROVE LossInv
    OBVIOUS
  <1>1. gen = 1 /\ \A a : Value(a) = 1
    <2>1. gen = 1
      BY DEF Init, gen
    <2>2. ASSUME NEW a PROVE Value(a) = 1
      <3> DEFINE S == {1} \cup {i \in 2..gen : Covers(changes[i - 1], a)}
      <3>1. S = {1}
        BY <2>1
      <3>2. Max({1}) = 1
        BY MaxIs
      <3> QED
        BY <3>1, <3>2 DEF Value, ValueAt
    <2> QED
      BY <2>1, <2>2
  <1>2. ValuesInv
    BY <1>1 DEF ValuesInv
  <1>3. DirtySetOK(dirtySet, gen)
    BY FS_EmptySet, ReportingAssumption DEF Init, DirtySetOK
  <1>4. SentInv
    BY DEF Init, SentInv, NothingSent
  <1>5. Open = {}
    BY DEF Init, Open
  <1> QED
    BY <1>2, <1>3, <1>4, <1>5 DEF LossInv

LEMMA StepLoss == IInv /\ LossInv /\ [Next]_vars => LossInv'
  <1> SUFFICES ASSUME IInv, LossInv, [Next]_vars PROVE LossInv'
    OBVIOUS
  <1>1. ASSUME NEW h \in Handlers, ReportFails(h) \/ EvictSubscription(h)
        PROVE  LossInv'
    BY <1>1, ReleaseLoss DEF ReportFails, EvictSubscription, Close
  <1>2. CASE NewEventGenerated
    <2>1. Open \cap Listeners \in SUBSET Open
      OBVIOUS
    <2> QED
      BY <1>2, <2>1, ForceLoss DEF NewEventGenerated
  <1>3. CASE ScheduleUrgentEventDeliverySync
    <2>1. Open \ Readers \in SUBSET Open
      OBVIOUS
    <2> QED
      BY <1>3, <2>1, ForceLoss DEF ScheduleUrgentEventDeliverySync, StartRun
  <1>4. CASE Run \/ Skip \/ UNCHANGED vars
    <2>1. UNCHANGED <<handler, changes, dirtySet, sent>>
      BY <1>4 DEF Run, StartRun, Skip, vars
    <2>2. Open' = Open
      BY <2>1 DEF Open
    <2> QED
      BY <2>1, <2>2, SameItself, SameHandlers
  <1> QED
    BY <1>1, <1>2, <1>3, <1>4, InitialRequestLoss, StatusResponseLoss, ClockLoss,
       SetDirtyLoss, DeferLoss, ReportLoss, EndRunLoss DEF Next

(* No change is lost on a client: a value that differs from what was sent  *)
(* comes later in the report under way, or the handler is dirty and the    *)
(* dirty set (Engine::InsertPathIntoDirtySet), however often it was merged *)
(* for want of room, has an entry for it newer than the handler's reports. *)
THEOREM NothingLost == Spec => []NothingIsLost
  <1>1. IInv /\ LossInv => NothingIsLost
    <2> SUFFICES ASSUME IInv, LossInv, NEW h \in Open, NEW a \in Requested[h],
                        sent[h][a] # Value(a)
                 PROVE  \/ /\ handler[h].priming
                           /\ \E k \in Steps[h] :
                                 AttrAt(k) = a /\ (handler[h].chunked => k > handler[h].pos)
                        \/ /\ IsDirty(handler[h])
                           /\ \E d \in dirtySet :
                                 Covers(d.path, a) /\ d.gen > handler[h].previous
      BY DEF NothingIsLost
    <2> DEFINE r == handler[h]
    <2>1. /\ RecordOK(h, a) /\ SentOK(h, a) /\ GenerationsOK(r) /\ IsHandler(r)
          /\ h \in Handlers
      BY DEF LossInv, OwedOK, IInv, HandlerOK, Open
    <2>2. /\ r.previous \in Nat /\ r.begin \in Nat /\ r.dirty \in Nat
          /\ Value(a) \in Nat
      BY <2>1, GenType DEF IsHandler, LossInv, ValuesInv, IInv
    <2>3. Value(a) > r.previous /\ (r.chunked => Value(a) > r.begin \/ ToCome(h, a))
      BY <2>1 DEF SentOK
    <2>4. ASSUME Marked(h, a)
          PROVE  IsDirty(r) /\ \E d \in dirtySet : Covers(d.path, a) /\ d.gen > r.previous
      <3>1. Value(a) <= r.dirty
        BY <2>4 DEF Marked
      <3>2. IsDirty(r)
        BY <2>2, <2>3, <3>1 DEF IsDirty
      <3>3. PICK d \in dirtySet : Covers(d.path, a) /\ Value(a) <= d.gen
        BY <2>4 DEF Marked
      <3>4. d.gen \in Nat
        BY DEF LossInv, DirtySetOK
      <3> QED
        BY <2>2, <2>3, <3>2, <3>3, <3>4
    <2>5. CASE r.previous > 0
      <3>1. Marked(h, a)
        BY <2>1, <2>3, <2>5 DEF RecordOK, Floor
      <3> QED
        BY <2>4, <3>1
    <2>6. CASE r.previous = 0
      <3>1. r.priming
        BY <2>1, <2>6 DEF GenerationsOK
      <3>2. CASE ~r.chunked \/ ToCome(h, a)
        BY <2>1, <3>1, <3>2, RequestedOK DEF ToCome
      <3>3. CASE r.chunked /\ Value(a) > r.begin
        <4>1. Marked(h, a)
          BY <2>1, <2>6, <3>3 DEF RecordOK, Floor
        <4> QED
          BY <2>4, <4>1
      <3> QED
        BY <2>3, <3>2, <3>3
    <2> QED
      BY <2>2, <2>5, <2>6
  <1>2. Spec => []LossInv
    BY IInvHolds, InitLoss, StepLoss, PTL DEF Spec
  <1> QED
    BY <1>1, <1>2, IInvHolds, PTL
==============================================================================
