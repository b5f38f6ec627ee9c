------------------------------ MODULE Exchange ------------------------------
(***************************************************************************)
(* Exchanges over the Message Reliability Protocol, between two nodes that *)
(* share one secure CASE session: src/messaging/ExchangeContext.cpp,       *)
(* ExchangeMgr.cpp, ExchangeMessageDispatch.cpp, ReliableMessageContext.cpp*)
(* and ReliableMessageMgr.cpp.                                             *)
(*                                                                         *)
(* Every handler of the code runs to completion on the one CHIP thread of  *)
(* its node, so an action is a whole handler.  A handler is a composition  *)
(* of the methods it calls, each written as an operator from a `frame' (the*)
(* context it works on, the node's session state, what it has put on the   *)
(* wire) to a frame.                                                       *)
(*                                                                         *)
(* The network is the set of all messages ever sent: any of them may       *)
(* arrive at any time, any number of times, or never.  Sending a retained  *)
(* buffer again therefore leaves the network as it is.  The receiver tells *)
(* duplicates by the set of counters it has received; module SecureUnicast *)
(* shows that PeerMessageCounter decides as that set does inside its       *)
(* window.  A standalone ack carries no counter here: the code never       *)
(* retransmits one, and handling one a second time finds nothing to clear. *)
(***************************************************************************)
EXTENDS Naturals, Integers, FiniteSets, FiniteSetsExt

CONSTANTS
    Node,           \* the two nodes
    Exchanges,      \* exchanges, each [initiator |-> node, id |-> Nat]
    MaxRetrans,     \* CHIP_CONFIG_RMP_DEFAULT_MAX_RETRANS
    MaxMsgs,        \* bound: application messages a node sends
    PoolSize,       \* CHIP_CONFIG_MAX_EXCHANGE_CONTEXTS of each node
    TableSize,      \* CHIP_CONFIG_RMP_RETRANS_TABLE_SIZE
    Outcomes,       \* what a send can return: a subset of AllOutcomes
    Reactions,      \* what an application may do with a message
    MayEvict        \* whether MarkForEviction may hit the session

(* "sent" covers the errors MapSendError calls transient.  "noncritical"   *)
(* is an error IsSendErrorNonCritical accepts for a standalone ack, "nobuf"*)
(* the failure to allocate the buffer of one.                              *)
AllOutcomes == {"sent", "failed", "noncritical", "nobuf"}
AllReactions ==
    {"none", "reply", "replyExpect", "willSend", "refuse", "abortOthers",
     "notPermitted"}

ASSUME ExchangeAssumption ==
    /\ \E a, b \in Node : a # b /\ Node = {a, b}
    /\ Exchanges \subseteq [initiator : Node, id : Nat]
    /\ {MaxRetrans, MaxMsgs, TableSize} \subseteq Nat
    /\ PoolSize \in [Node -> Nat]
    /\ "sent" \in Outcomes /\ Outcomes \subseteq AllOutcomes
    /\ "none" \in Reactions /\ Reactions \subseteq AllReactions
    /\ MayEvict \in BOOLEAN

VARIABLES
    live,       \* live[n]: exchanges for which n's mContextPool holds a context
    ctx,        \* ctx[n][x]: that context
    sess,       \* sess[n]: state of n's end of the session
    next,       \* next[n]: the message counter n uses next
    net,        \* messages sent
    received,   \* received[n]: counters n has committed
    delivered,  \* history: counters whose message n's application was given
    acked,      \* history: own counters n has got an acknowledgment for
    faults      \* history: what must never happen and did

vars == <<live, ctx, sess, next, net, received, delivered, acked, faults>>

Peer(n) == CHOOSE p \in Node : p # n
None == 0               \* no counter: real ones start at 1
Counters == 1..MaxMsgs

(* kind "sack": a SecureChannel StandaloneAck.  kind "app": any other      *)
(* message; over MRP it asks for an ack.                                   *)
Messages == [src : Node, ex : Exchanges, ctr : Counters \cup {None},
             ack : Counters \cup {None}, kind : {"app", "sack"}]

(* The flags of ReliableMessageContext::Flags, the entry of mRetransTable  *)
(* that refers to the context (retrans, its counter, and sendCount), the   *)
(* response timer and the reference the application holds.  An entry of    *)
(* the table exists iff kFlagWaitingForAck is set.                         *)
Contexts ==
    [refs     : Int,        \* references other than that of the entry
     closed   : BOOLEAN,    \* kFlagClosed; the delegate is null iff set
     respExp  : BOOLEAN,    \* kFlagResponseExpected
     timer    : BOOLEAN,    \* HandleResponseTimeout is scheduled
     waitRA   : BOOLEAN,    \* kFlagWaitingForResponseOrAck
     willSend : BOOLEAN,    \* kFlagWillSendMessage
     ackPend  : BOOLEAN,    \* kFlagAckPending
     ackCtr   : Counters \cup {None},   \* mPendingPeerAckMessageCounter;
                                        \* None: kFlagAckMessageCounterIsValid unset
     retrans  : Counters \cup {None},
     sendCount: 0..MaxRetrans,
     session  : BOOLEAN]    \* mSession is held

(* The constructor: an initiator that is not ephemeral will send.          *)
NewExchangeContext(initiator) ==
    [refs |-> 1, closed |-> FALSE, respExp |-> FALSE, timer |-> FALSE,
     waitRA |-> FALSE, willSend |-> initiator, ackPend |-> FALSE,
     ackCtr |-> None, retrans |-> None, sendCount |-> 0, session |-> TRUE]

NoContext == [NewExchangeContext(FALSE) EXCEPT !.refs = 0, !.session = FALSE]

SessionStates == {"active", "defunct", "evicted"}
Faults == {"open", "timer", "refs", "unackedDrop", "twice"}

TypeOK ==
    /\ live \in [Node -> SUBSET Exchanges]
    /\ ctx \in [Node -> [Exchanges -> Contexts]]
    /\ sess \in [Node -> SessionStates]
    /\ next \in [Node -> 1..(MaxMsgs + 1)]
    /\ net \subseteq Messages
    /\ received \in [Node -> SUBSET Counters]
    /\ delivered \in [Node -> SUBSET Counters]
    /\ acked \in [Node -> SUBSET Counters]
    /\ faults \subseteq Faults

Init ==
    /\ live = [n \in Node |-> {}]
    /\ ctx = [n \in Node |-> [x \in Exchanges |-> NoContext]]
    /\ sess = [n \in Node |-> "active"]
    /\ next = [n \in Node |-> 1]
    /\ net = {}
    /\ received = [n \in Node |-> {}]
    /\ delivered = [n \in Node |-> {}]
    /\ acked = [n \in Node |-> {}]
    /\ faults = {}

-----------------------------------------------------------------------------
(* The frame a handler of node n works in, and the methods it is made of.  *)
(* o is what the sends of the handler return.                              *)

Frame(n, x, c) ==
    [n |-> n, x |-> x, c |-> c, sess |-> sess[n], next |-> next[n], out |-> {},
     delivered |-> {}, acked |-> {}, faults |-> {}, release |-> FALSE]

(* Whether mRetransTable can take an entry of the frame's exchange, beside *)
(* those of the others; a handler that releases the session from these has *)
(* cleared theirs.                                                         *)
RetransTableHasRoom(f) ==
    Cardinality({x \in live[f.n] \ {f.x} :
                    /\ ctx[f.n][x].retrans # None
                    /\ ~(f.release /\ ctx[f.n][x].session)}) < TableSize

(* SecureSession::MarkAsDefunct: only an active session becomes defunct.   *)
MarkAsDefunct(f) ==
    IF f.sess = "active" THEN [f EXCEPT !.sess = "defunct"] ELSE f

(* SecureSession::MarkActiveRx: an authenticated message revives a defunct *)
(* session, never one pending eviction.                                    *)
MarkActiveRx(f) ==
    IF f.sess = "defunct" THEN [f EXCEPT !.sess = "active"] ELSE f

SetResponseExpected(f, expected) ==
    [f EXCEPT !.c.respExp = expected, !.c.waitRA = expected]

SetPendingPeerAckMessageCounter(f, ctr) ==
    [f EXCEPT !.c.ackCtr = ctr, !.c.ackPend = TRUE]

(* Mutant: taking the ack also forgets its counter.                        *)
TakePendingPeerAckForgets(f) == [f EXCEPT !.c.ackPend = FALSE, !.c.ackCtr = None]

(* The header of an outgoing message takes the pending ack.  The counter   *)
(* stays valid, so every later message of the exchange repeats it.         *)
TakePendingPeerAckMessageCounter(f) == [f EXCEPT !.c.ackPend = FALSE]

(* SendStandaloneAckMessage, with the SendMessage and PrepareAndSendNonMRP *)
(* it goes through: a failure past the header costs the pending ack and    *)
(* marks the session defunct.                                              *)
SendStandaloneAckMessage(f, o) ==
    IF o = "nobuf" \/ ~f.c.session
    THEN f
    ELSE LET taken == TakePendingPeerAckMessageCounter(f)
         IN  IF o # "sent"
             THEN MarkAsDefunct(taken)
             ELSE [taken EXCEPT !.out = @ \cup
                      {[src |-> f.n, ex |-> f.x, ctr |-> None,
                        ack |-> f.c.ackCtr, kind |-> "sack"]}]

SendStandaloneAckFails(f, o) == o \in {"failed", "nobuf"} \/ ~f.c.session

FlushAcks(f, o) ==
    IF f.c.ackPend THEN SendStandaloneAckMessage(f, o) ELSE f

ClearRetransTable(f) == [f EXCEPT !.c.retrans = None, !.c.sendCount = 0]

CancelResponseTimer(f) == [f EXCEPT !.c.timer = FALSE]

(* Mutant: the timer is left running when the exchange closes.             *)
DoCloseKeepsTimer(f, clearRetransTable, o) ==
    IF f.c.closed
    THEN f
    ELSE LET flushed == FlushAcks([f EXCEPT !.c.closed = TRUE], o)
         IN  IF clearRetransTable THEN ClearRetransTable(flushed) ELSE flushed

DoClose(f, clearRetransTable, o) ==
    IF f.c.closed
    THEN f
    ELSE LET flushed == FlushAcks([f EXCEPT !.c.closed = TRUE], o)
             cleared == IF clearRetransTable
                        THEN ClearRetransTable(flushed) ELSE flushed
         IN  IF f.c.respExp THEN CancelResponseTimer(cleared) ELSE cleared

ReleaseRef(f) == [f EXCEPT !.c.refs = @ - 1]

Close(f, o) == ReleaseRef(DoClose(f, FALSE, o))

Abort(f, o) == ReleaseRef(DoClose(f, TRUE, o))

MessageHandled(f, o) ==
    IF f.c.closed \/ f.c.respExp \/ f.c.willSend THEN f ELSE Close(f, o)

(* Mutant: the timer is left running when the send fails.                  *)
EndResponseWaitKeepsTimer(f, expect) == IF expect THEN SetResponseExpected(f, FALSE) ELSE f

(* A send that fails ends the wait for a response that it began.           *)
EndResponseWait(f, expect) ==
    IF expect THEN SetResponseExpected(CancelResponseTimer(f), FALSE) ELSE f

(* ExchangeContext::SendMessage and ExchangeMessageDispatch::SendMessage   *)
(* for an application message.  It takes the piggyback ack before it asks  *)
(* for an entry of mRetransTable; what fails after that costs the pending  *)
(* ack, and marks the session defunct.                                     *)
SendMessage(f, expect, o) ==
    IF ~f.c.session \/ (expect /\ f.c.respExp)
    THEN f
    ELSE LET armed == IF expect
                      THEN [SetResponseExpected(f, TRUE) EXCEPT !.c.timer = TRUE]
                      ELSE f
             taken == TakePendingPeerAckMessageCounter(armed)
             undone == EndResponseWait(taken, expect)
         IN  IF f.c.retrans # None \/ ~RetransTableHasRoom(f)
             THEN MarkAsDefunct(undone)
             ELSE IF o # "sent"
             THEN MarkAsDefunct([undone EXCEPT !.next = @ + 1])
             ELSE MessageHandled(
                     [taken EXCEPT
                        !.out = @ \cup {[src |-> f.n, ex |-> f.x, ctr |-> f.next,
                                         ack |-> f.c.ackCtr, kind |-> "app"]},
                        !.next = @ + 1,
                        !.c.retrans = f.next, !.c.sendCount = 0,
                        !.c.willSend = FALSE], o)

(* ReliableMessageMgr::CheckAndRemRetransTable: the entry goes if it holds *)
(* that very message; only then is kFlagWaitingForResponseOrAck cleared.   *)
HandleRcvdAck(f, ackCtr) ==
    LET noted == [f EXCEPT !.acked = @ \cup {ackCtr}]
    IN  IF f.c.retrans = ackCtr
        THEN [ClearRetransTable(noted) EXCEPT !.c.waitRA = FALSE]
        ELSE noted

(* Mutant: the counter a duplicate replaced is not put back.               *)
HandleNeedsAckNoRestore(f, ctr, isDuplicate, o) ==
    IF isDuplicate
    THEN SendStandaloneAckMessage(SetPendingPeerAckMessageCounter(f, ctr), o)
    ELSE LET flushed == FlushAcks(f, o)
         IN  IF f.c.ackPend /\ SendStandaloneAckFails(f, o)
             THEN flushed
             ELSE SetPendingPeerAckMessageCounter(flushed, ctr)

(* HandleNeedsAckInner: a duplicate is acked at once and the pending ack   *)
(* restored; a new message first pushes out the ack still pending, and is  *)
(* not itself put down for an ack when that fails.                         *)
HandleNeedsAck(f, ctr, isDuplicate, o) ==
    IF isDuplicate
    THEN LET wasAckPending == f.c.ackPend /\ f.c.ackCtr # ctr
             answered ==
                SendStandaloneAckMessage(SetPendingPeerAckMessageCounter(f, ctr), o)
         IN  IF wasAckPending
             THEN SetPendingPeerAckMessageCounter(answered, f.c.ackCtr)
             ELSE IF f.c.ackCtr # None
             THEN [answered EXCEPT !.c.ackCtr = f.c.ackCtr]
             ELSE answered
    ELSE LET flushed == FlushAcks(f, o)
         IN  IF f.c.ackPend /\ SendStandaloneAckFails(f, o)
             THEN flushed
             ELSE SetPendingPeerAckMessageCounter(flushed, ctr)

(* Mutant: nothing is done for a context that is already closed.           *)
OnSessionReleasedClosedStays(f) ==
    LET g == [f EXCEPT !.c.session = FALSE]
    IN  IF f.c.closed
        THEN g
        ELSE IF f.c.willSend
        THEN DoClose(g, TRUE, "failed")
        ELSE Abort(CancelResponseTimer(SetResponseExpected(g, FALSE)), "failed")

(* ExchangeContext::OnSessionReleased.  SessionHolder has let go of the    *)
(* session before the call, so nothing can be sent any more.  A context    *)
(* whose application announced a send is closed and left to it.            *)
OnSessionReleased(f) ==
    LET g == [f EXCEPT !.c.session = FALSE]
    IN  IF f.c.closed
        THEN ClearRetransTable(g)
        ELSE IF f.c.willSend
        THEN DoClose(g, TRUE, "failed")
        ELSE Abort(IF f.c.respExp
                   THEN SetResponseExpected(CancelResponseTimer(g), FALSE)
                   ELSE g, "failed")

(* AbortAllOtherCommunicationOnFabric, as far as the calling exchange goes:*)
(* its session is pending eviction from here on and it alone keeps it.     *)
AbortAllOtherCommunicationOnFabric(f) ==
    [f EXCEPT !.sess = "evicted", !.release = TRUE]

(* What an application may do from OnMessageReceived: nothing, answer,     *)
(* answer and expect an answer, announce an answer, or (RemoveFabric,      *)
(* UpdateNOC) end all other communication and answer.                      *)
OnMessageReceived(f, reaction, o) ==
    CASE reaction \in {"none", "refuse"} -> f
      [] reaction = "reply" -> SendMessage(f, FALSE, o)
      [] reaction = "replyExpect" -> SendMessage(f, TRUE, o)
      [] reaction = "willSend" -> [f EXCEPT !.c.willSend = TRUE]
      [] reaction = "abortOthers" ->
            SendMessage(AbortAllOtherCommunicationOnFabric(f), FALSE, o)

(* The part of HandleMessage past the MRP bookkeeping.  A message the      *)
(* dispatch does not permit is neither a response nor given to the delegate*)
HandleNewMessage(f, m, reaction, o) ==
    IF f.c.retrans # None
    THEN [f EXCEPT !.faults = @ \cup {"unackedDrop"}]
    ELSE IF reaction = "notPermitted"
    THEN f
    ELSE LET got == IF f.c.respExp
                    THEN SetResponseExpected(CancelResponseTimer(f), FALSE)
                    ELSE f
         IN  IF f.c.closed
             THEN got
             ELSE OnMessageReceived(
                     [got EXCEPT !.delivered = @ \cup {m.ctr},
                                 !.faults = @ \cup (IF m.ctr \in delivered[f.n]
                                                    THEN {"twice"} ELSE {})],
                     reaction, o)

(* Mutant: a duplicate goes up to the application.                         *)
HandleMessageForwardsDuplicates(f, m, isDuplicate, reaction, o) ==
    LET a == IF ~isDuplicate /\ m.ack # None THEN HandleRcvdAck(f, m.ack) ELSE f
        b == IF m.kind = "app" THEN HandleNeedsAck(a, m.ctr, isDuplicate, o) ELSE a
        d == IF b.c.closed THEN FlushAcks(b, o) ELSE b
    IN  MessageHandled(IF m.kind = "sack" THEN d
                       ELSE HandleNewMessage(d, m, reaction, o), o)

(* ExchangeContext::HandleMessage on a context that is not ephemeral.      *)
HandleMessage(f, m, isDuplicate, reaction, o) ==
    LET a == IF ~isDuplicate /\ m.ack # None THEN HandleRcvdAck(f, m.ack) ELSE f
        b == IF m.kind = "app" THEN HandleNeedsAck(a, m.ctr, isDuplicate, o) ELSE a
        flushes == b.c.ackPend /\ b.c.closed
        d == IF flushes THEN FlushAcks(b, o) ELSE b
        stops == \/ flushes /\ SendStandaloneAckFails(b, o)
                 \/ m.kind = "sack"
                 \/ isDuplicate
        e == IF stops THEN d ELSE HandleNewMessage(d, m, reaction, o)
    IN  IF (m.kind = "sack" \/ isDuplicate) /\ ~e.c.closed
        THEN e
        ELSE MessageHandled(e, o)

(* Mutant: the exchange is not closed after the application was told.      *)
NotifyResponseTimeoutStaysOpen(f, o) ==
    LET reset == SetResponseExpected(CancelResponseTimer(f), FALSE)
    IN  IF f.c.session /\ f.c.waitRA THEN MarkAsDefunct(reset) ELSE reset

(* NotifyResponseTimeout: whether an MRP ack came is read before the flags *)
(* are reset; the session is suspected only if none did.                   *)
NotifyResponseTimeout(f, o) ==
    LET reset == SetResponseExpected(CancelResponseTimer(f), FALSE)
    IN  MessageHandled(IF f.c.session /\ f.c.waitRA
                       THEN MarkAsDefunct(reset) ELSE reset, o)

-----------------------------------------------------------------------------
(* A handler of node n ends: the reference its ExchangeHandle held goes,   *)
(* and a context nobody refers to is destroyed.  ~ExchangeContext dies     *)
(* unless it is closed, Release dies below zero, and a timer still armed   *)
(* would fire on freed memory.                                             *)
Referenced(c) == c.refs > 0 \/ c.retrans # None

FreeFaults(c) ==
    (IF c.refs < 0 THEN {"refs"} ELSE {})
      \cup (IF Referenced(c) THEN {}
            ELSE (IF c.closed THEN {} ELSE {"open"})
                   \cup (IF c.timer THEN {"timer"} ELSE {}))

(* What OnSessionReleased leaves of the context of every other exchange.   *)
ReleasedContext(n, x) == OnSessionReleased(Frame(n, x, ctx[n][x])).c

Settle(n, contexts, alive) ==
    LET kept == {x \in alive : Referenced(contexts[x])}
    IN  /\ live' = [live EXCEPT ![n] = kept]
        /\ ctx' = [ctx EXCEPT ![n] =
                      [x \in Exchanges |-> IF x \in kept THEN contexts[x] ELSE NoContext]]

Finish(f) ==
    LET contexts == [x \in Exchanges |->
                        IF x = f.x THEN f.c
                        ELSE IF f.release /\ x \in live[f.n] /\ ctx[f.n][x].session
                        THEN ReleasedContext(f.n, x)
                        ELSE ctx[f.n][x]]
        alive == live[f.n] \cup {f.x}
    IN  /\ Settle(f.n, contexts, alive)
        /\ sess' = [sess EXCEPT ![f.n] = f.sess]
        /\ next' = [next EXCEPT ![f.n] = f.next]
        /\ net' = net \cup f.out
        /\ delivered' = [delivered EXCEPT ![f.n] = @ \cup f.delivered]
        /\ acked' = [acked EXCEPT ![f.n] = @ \cup f.acked]
        /\ faults' = faults \cup f.faults
                        \cup UNION {FreeFaults(contexts[x]) : x \in alive}

Now(n, x) == Frame(n, x, ctx[n][x])
HasCounter(n) == next[n] <= MaxMsgs
PoolHasRoom(n) == Cardinality(live[n]) < PoolSize[n]

-----------------------------------------------------------------------------
(* Application: a new exchange, which only an active session allows.       *)
NewContext(n, x) ==
    /\ x.initiator = n /\ x \notin live[n]
    /\ \A m \in net : m.ex # x          \* mNextExchangeId++: a fresh id
    /\ sess[n] = "active"
    /\ PoolHasRoom(n)
    /\ HasCounter(n)
    /\ Finish(Frame(n, x, NewExchangeContext(TRUE)))
    /\ UNCHANGED received

(* Application: the first message of the exchange it opened, or the one it *)
(* announced with WillSendMessage; once more if the send failed.           *)
SendAnnounced(n, x) ==
    /\ x \in live[n]
    /\ ctx[n][x].willSend /\ ctx[n][x].refs > 0
    /\ HasCounter(n)
    /\ \E expect \in BOOLEAN, o \in Outcomes \ {"nobuf"} :
          Finish(SendMessage(Now(n, x), expect, o))
    /\ UNCHANGED received

(* ExchangeHolder::Release.  The holder still points at the context if it  *)
(* is open, or if it was closed under an announced send.                   *)
HolderRelease(n, x) ==
    /\ x \in live[n]
    /\ ctx[n][x].refs > 0
    /\ ~ctx[n][x].closed \/ ctx[n][x].willSend
    /\ ctx[n][x].respExp \/ ctx[n][x].willSend
    /\ \E o \in Outcomes : Finish(Abort(Now(n, x), o))
    /\ UNCHANGED received

(* CloseAllContextsForDelegate, for a delegate that awaits a response (its *)
(* callers, TimedHandler and MessageCounterManager, announce no sends).    *)
CloseAllContextsForDelegate(n, x) ==
    /\ x \in live[n]
    /\ ~ctx[n][x].closed /\ ~ctx[n][x].willSend
    /\ \E o \in Outcomes : Finish(Close(Now(n, x), o))
    /\ UNCHANGED received

-----------------------------------------------------------------------------
(* Timers.                                                                 *)

ResponseTimeout(n, x) ==
    /\ x \in live[n]
    /\ ctx[n][x].timer
    /\ \E o \in Outcomes : Finish(NotifyResponseTimeout(Now(n, x), o))
    /\ UNCHANGED received

(* ExecuteActions, its first part: an ack nothing has carried in time.     *)
AckTimeout(n, x) ==
    /\ x \in live[n]
    /\ ctx[n][x].ackPend
    /\ \E o \in Outcomes : Finish(SendStandaloneAckMessage(Now(n, x), o))
    /\ UNCHANGED received

(* ExecuteActions, its second part, below the limit, and                   *)
(* SendFromRetransTable: the retained buffer goes out again; a send error  *)
(* that is not transient drops the entry.                                  *)
Retransmit(n, x) ==
    /\ x \in live[n]
    /\ ctx[n][x].retrans # None
    /\ ctx[n][x].sendCount < MaxRetrans
    /\ \E o \in Outcomes \ {"nobuf"} :
          Finish(IF o = "sent" /\ ctx[n][x].session
                 THEN [Now(n, x) EXCEPT !.c.sendCount = @ + 1]
                 ELSE ClearRetransTable(Now(n, x)))
    /\ UNCHANGED received

(* ExecuteActions, its second part, at the limit.                          *)
GiveUp(n, x) ==
    /\ x \in live[n]
    /\ ctx[n][x].retrans # None
    /\ ctx[n][x].sendCount = MaxRetrans
    /\ Finish(ClearRetransTable(IF ctx[n][x].respExp THEN Now(n, x)
                                ELSE MarkAsDefunct(Now(n, x))))
    /\ UNCHANGED received

-----------------------------------------------------------------------------
(* Messages.  A session pending eviction can still decrypt while some      *)
(* exchange keeps it.                                                      *)

SessionFound(n) == sess[n] # "evicted" \/ \E x \in live[n] : ctx[n][x].session

IsDuplicate(n, m) == m.kind = "app" /\ m.ctr \in received[n]

Commit(n, m) ==
    received' = [received EXCEPT ![n] = @ \cup ({m.ctr} \ {None})]

CanReact(n, reaction) ==
    reaction \in {"none", "willSend", "notPermitted"} \/ HasCounter(n)

(* Mutant: a message matches an exchange of its id in either role.         *)
MatchExchangeIgnoresRole(n, m, x) ==
    /\ x \in live[n]
    /\ x.id = m.ex.id
    /\ ctx[n][x].session

(* ExchangeContext::MatchExchange: the id, the session, and opposite roles.*)
(* Two exchanges, one opened by each node, may have the same id.           *)
MatchExchange(n, m, x) ==
    /\ x \in live[n]
    /\ x.id = m.ex.id
    /\ ctx[n][x].session
    /\ (m.src = m.ex.initiator) # (x.initiator = n)

NoMatch(n, m) == \A x \in Exchanges : ~MatchExchange(n, m, x)

(* ExchangeManager::OnMessageReceived with a matching exchange.            *)
Matched(n, m) ==
    /\ \E x \in Exchanges, o \in Outcomes, reaction \in Reactions \ {"refuse"} :
          /\ MatchExchange(n, m, x)
          /\ CanReact(n, reaction)
          /\ IsDuplicate(n, m) \/ m.kind = "sack" => reaction = "none"
          /\ Finish(HandleMessage(MarkActiveRx(Now(n, x)), m,
                                  IsDuplicate(n, m), reaction, o))
    /\ Commit(n, m)

(* Mutant: the test for a message of an initiator is the wrong way round.  *)
IsUnsolicitedOfResponder(n, m) ==
    m.src # m.ex.initiator /\ ~IsDuplicate(n, m) /\ m.kind = "app"

IsUnsolicited(n, m) == m.src = m.ex.initiator /\ ~IsDuplicate(n, m) /\ m.kind = "app"

(* ... a new message of an initiator, with no matching exchange: the       *)
(* unsolicited message handler supplies a delegate for a new context.      *)
Unsolicited(n, m) ==
    /\ NoMatch(n, m)
    /\ IsUnsolicited(n, m)
    /\ sess[n] # "evicted"              \* MarkActiveRx has made it active
    /\ PoolHasRoom(n)
    /\ \E o \in Outcomes, reaction \in Reactions \ {"refuse"} :
          /\ CanReact(n, reaction)
          /\ Finish(HandleMessage(MarkActiveRx(Frame(n, m.ex, NewExchangeContext(FALSE))),
                                  m, FALSE, reaction, o))
    /\ Commit(n, m)

(* ... the handler refuses it, or it is a duplicate, or a message of a     *)
(* responder: SendStandaloneAckIfNeeded answers through an ephemeral       *)
(* exchange.  HandleMessage on one sends the ack, tries again if that left *)
(* it pending, and closes it, which tries once more.                       *)
EphemeralAck(n, m) ==
    /\ NoMatch(n, m)
    /\ m.kind = "app"
    /\ ~IsUnsolicited(n, m) \/ "refuse" \in Reactions
    /\ sess[n] # "evicted"
    /\ PoolHasRoom(n)
    /\ \E o \in Outcomes :
          LET f == MarkActiveRx(Frame(n, m.ex, NewExchangeContext(FALSE)))
              g == HandleNeedsAck(f, m.ctr, IsDuplicate(n, m), o)
          IN  Finish(Close(FlushAcks(g, o), o))
    /\ Commit(n, m)

(* ... and what is dropped: any message of a session pending eviction, one *)
(* that finds the context pool full, and a standalone ack.  The counter is *)
(* committed all the same.                                                 *)
Dropped(n, m) ==
    /\ NoMatch(n, m)
    /\ \/ sess[n] = "evicted"
       \/ ~PoolHasRoom(n)
       \/ m.kind = "sack"
    /\ sess' = [sess EXCEPT ![n] = IF @ = "defunct" THEN "active" ELSE @]
    /\ Commit(n, m)
    /\ UNCHANGED <<live, ctx, next, net, delivered, acked, faults>>

Receive(n, m) ==
    /\ m.src # n
    /\ SessionFound(n)
    /\ Matched(n, m) \/ Unsolicited(n, m) \/ EphemeralAck(n, m) \/ Dropped(n, m)

(* SecureSession::MarkForEviction, from wherever it is called: every       *)
(* exchange on the session is told at once.                                *)
MarkForEviction(n) ==
    /\ MayEvict
    /\ sess[n] # "evicted"
    /\ LET contexts == [x \in Exchanges |->
                           IF x \in live[n] THEN ReleasedContext(n, x) ELSE ctx[n][x]]
       IN  /\ Settle(n, contexts, live[n])
           /\ faults' = faults \cup UNION {FreeFaults(contexts[x]) : x \in live[n]}
    /\ sess' = [sess EXCEPT ![n] = "evicted"]
    /\ UNCHANGED <<next, net, received, delivered, acked>>

Next ==
    \/ \E n \in Node, x \in Exchanges :
          \/ NewContext(n, x)
          \/ SendAnnounced(n, x)
          \/ HolderRelease(n, x)
          \/ CloseAllContextsForDelegate(n, x)
          \/ ResponseTimeout(n, x)
          \/ AckTimeout(n, x)
          \/ Retransmit(n, x)
          \/ GiveUp(n, x)
    \/ \E n \in Node, m \in net : Receive(n, m)
    \/ \E n \in Node : MarkForEviction(n)

Spec == Init /\ [][Next]_vars

(* Timers fire: the event loop runs what is due.  An application that has  *)
(* announced a send makes it or lets go of the exchange.  Nothing is       *)
(* assumed of the network, nor that an application ever gives up waiting.  *)
Fairness ==
    \A n \in Node, x \in Exchanges :
        /\ WF_vars(ResponseTimeout(n, x))
        /\ WF_vars(AckTimeout(n, x))
        /\ WF_vars(Retransmit(n, x) \/ GiveUp(n, x))
        /\ WF_vars(/\ ctx[n][x].willSend
                   /\ SendAnnounced(n, x) \/ HolderRelease(n, x))

FairSpec == Spec /\ Fairness

-----------------------------------------------------------------------------
(* Properties.                                                             *)

(* The life of a context never reaches a VerifyOrDie or a dangling timer:  *)
(* it is closed when its last reference goes (~ExchangeContext), no        *)
(* reference is returned twice (Close, Abort), and no response timer       *)
(* outlives it, whatever mix of replies, failed sends, timeouts, releases  *)
(* and evictions came before.                                              *)
LifetimeIsSound == faults \cap {"open", "timer", "refs"} = {}

(* The branch of HandleMessage that drops a message for not carrying the   *)
(* ack we wait for ("the only way we can get here is a spec violation on   *)
(* the other side") is never taken between two nodes that run this code.   *)
NoUnackedDrop == "unackedDrop" \notin faults

(* A message the network repeats reaches the application once at most.     *)
DeliveredOnce == "twice" \notin faults

(* An ack on the wire tells the truth: it names a message of the peer, of  *)
(* the same exchange, that the acknowledging node has received; also after *)
(* a duplicate has replaced the pending counter for a while.               *)
AcksAreTrue ==
    \A m \in net :
        m.ack # None =>
            /\ m.ack \in received[m.src]
            /\ \E k \in net : k.src # m.src /\ k.ex = m.ex /\ k.ctr = m.ack

(* ReliableMessageMgr.cpp:172: "the session must be valid if the entry     *)
(* exists", which ExecuteActions relies on to dereference it.              *)
RetransHasSession ==
    \A n \in Node : \A x \in live[n] :
        ctx[n][x].retrans # None => ctx[n][x].session

(* Every application message acknowledges the newest message its exchange  *)
(* has received from the peer, the one received in the same step included. *)
LatestReceived(n, x, counters) ==
    LET of == {m.ctr : m \in {k \in net : k.src # n /\ k.ex = x /\ k.ctr \in counters}}
    IN  IF of = {} THEN None ELSE Max(of)

AcksLatest ==
    [][\A m \in net' \ net :
          m.kind = "app" => m.ack = LatestReceived(m.src, m.ex, received'[m.src])]_vars

(* The message that opens an exchange is acknowledged only if it was given *)
(* to an application (pool not exhausted, message permitted, not refused). *)
OpenerAckedIsDelivered ==
    \A m \in net :
        m.kind = "app" /\ m.ack = None /\ m.ctr \in acked[m.src]
            => m.ctr \in delivered[Peer(m.src)]

(* Every context is returned to the pool in the end, with or without an    *)
(* answer from the peer.                                                   *)
ContextIsReleased ==
    \A n \in Node, x \in Exchanges : x \in live[n] ~> x \notin live[n]
=============================================================================
