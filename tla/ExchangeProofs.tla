--------------------------- MODULE ExchangeProofs ---------------------------
(***************************************************************************)
(* Proofs about exchanges and the Message Reliability Protocol, for any    *)
(* number of exchanges and messages, any limits, any outcome of the sends  *)
(* and any conduct of the applications.                                    *)
(*                                                                         *)
(* A handler is a composition of methods that take a frame to a frame, so  *)
(* the proof is one lemma per method: each keeps what an invariant says of *)
(* the context it works on (Life) and of what it has put on the wire       *)
(* (FrameShape).  FinishOK then carries a good frame over into the next    *)
(* state, and each action is a chain of the lemmas.                        *)
(*                                                                         *)
(* The second half is about the conversation: as long as a standalone ack  *)
(* finds a buffer, the two nodes take turns (TalkInv), whatever is lost,   *)
(* repeated, refused or fails.  It has the same layout: what a method      *)
(* leaves of a frame (Calm, Keeps, Talks), the end of a handler            *)
(* (FinishTalks), and each action.                                         *)
(***************************************************************************)
EXTENDS Exchange, TLAPS

ContextFields == {"refs", "closed", "respExp", "timer", "waitRA", "willSend", "ackPend",
                  "ackCtr", "retrans", "sendCount", "session"}

FrameFields == {"n", "x", "c", "sess", "next", "out", "delivered", "acked", "faults", "release"}

IsContext(c) ==
    /\ c = [k \in ContextFields |-> c[k]]
    /\ c.refs \in Int
    /\ c.closed \in BOOLEAN /\ c.respExp \in BOOLEAN /\ c.timer \in BOOLEAN
    /\ c.willSend \in BOOLEAN /\ c.ackPend \in BOOLEAN /\ c.session \in BOOLEAN

(* The references of a context.  It is open while its one reference is     *)
(* there; one that was closed under an announced send keeps it until the   *)
(* application lets go, and has lost its session.  The response timer runs *)
(* only in an open context, and MRP keeps a message only with a session.   *)
Life(c) ==
    /\ c.refs \in {0, 1}
    /\ ~c.closed => c.refs = 1
    /\ c.closed /\ c.refs = 1 => c.willSend /\ ~c.session
    /\ c.timer => c.respExp /\ ~c.closed
    /\ c.retrans # None => c.session

(* The counters among R that messages of exchange x to node n have had.    *)
Heard(n, x, R) == {k \in R : \E q \in net : q.src # n /\ q.ex = x /\ q.ctr = k}

ContextInv ==
    \A n \in Node : \A x \in live[n] :
        /\ IsContext(ctx[n][x]) /\ Life(ctx[n][x])
        /\ ctx[n][x].ackCtr \in Heard(n, x, received[n]) \cup {None}

NetInv ==
    \A m \in net :
        /\ m.src \in Node /\ m.ex \in Exchanges
        /\ m.kind \in {"app", "sack"} /\ (m.kind = "app" <=> m.ctr # None)
        /\ m.ack \in Heard(m.src, m.ex, received[m.src]) \cup {None}

TypeInv ==
    /\ live = [n \in Node |-> live[n]]
    /\ \A n \in Node : live[n] \subseteq Exchanges
    /\ ctx = [n \in Node |-> ctx[n]]
    /\ next \in [Node -> Nat \ {0}]
    /\ received = [n \in Node |-> received[n]]
    /\ delivered = [n \in Node |-> delivered[n]]

IInv ==
    /\ TypeInv
    /\ ContextInv
    /\ NetInv
    /\ \A n \in Node : delivered[n] \subseteq received[n]
    /\ faults \subseteq {"unackedDrop"}

-----------------------------------------------------------------------------
(* Frames.  H is the set of counters the handler may acknowledge.          *)

FrameShape(f, n, x, H) ==
    /\ f = [k \in FrameFields |-> f[k]]
    /\ f.n = n /\ f.x = x
    /\ IsContext(f.c) /\ f.c.ackCtr \in H \cup {None}
    /\ f.next \in Nat \ {0}
    /\ \A m \in f.out : /\ m.src = n /\ m.ex = x
                        /\ m.kind \in {"app", "sack"} /\ (m.kind = "app" <=> m.ctr # None)
                        /\ m.ack \in H \cup {None}
    /\ f.delivered \subseteq H
    /\ f.faults \subseteq {"unackedDrop"}
    /\ f.release \in BOOLEAN

FrameOK(f, n, x, H) == FrameShape(f, n, x, H) /\ Life(f.c)

(* The same context, but for the ack it owes.                              *)
SameLife(c, d) ==
    /\ d.refs = c.refs /\ d.closed = c.closed /\ d.respExp = c.respExp
    /\ d.timer = c.timer /\ d.willSend = c.willSend /\ d.session = c.session
    /\ d.retrans = c.retrans

LEMMA SameLifeOK ==
    ASSUME NEW c, NEW d, SameLife(c, d), Life(c)
    PROVE  Life(d)
BY DEF SameLife, Life

(* An update of the context of a frame, and one of anything else.          *)
LEMMA ContextUpdate ==
    ASSUME NEW n, NEW x, NEW H, NEW f, FrameShape(f, n, x, H),
           NEW d, IsContext(d), d.ackCtr \in H \cup {None}
    PROVE  /\ FrameShape([f EXCEPT !.c = d], n, x, H)
           /\ [f EXCEPT !.c = d].c = d
           /\ [f EXCEPT !.c = d].next = f.next
BY DEF FrameShape, FrameFields

LEMMA DefunctOK ==
    ASSUME NEW n, NEW x, NEW H, NEW f, FrameShape(f, n, x, H)
    PROVE  /\ FrameShape(MarkAsDefunct(f), n, x, H) /\ MarkAsDefunct(f).c = f.c
           /\ FrameShape(MarkActiveRx(f), n, x, H) /\ MarkActiveRx(f).c = f.c
BY DEF FrameShape, FrameFields, MarkAsDefunct, MarkActiveRx

LEMMA SetPendingOK ==
    ASSUME NEW n, NEW x, NEW H, NEW f, FrameShape(f, n, x, H), NEW k \in H \cup {None}
    PROVE  LET g == SetPendingPeerAckMessageCounter(f, k)
           IN  /\ FrameShape(g, n, x, H) /\ SameLife(f.c, g.c)
  <1> DEFINE d == [f.c EXCEPT !.ackCtr = k, !.ackPend = TRUE]
  <1>1. SetPendingPeerAckMessageCounter(f, k) = [f EXCEPT !.c = d]
    BY DEF SetPendingPeerAckMessageCounter, FrameShape, FrameFields, IsContext, ContextFields
  <1>2. IsContext(d) /\ d.ackCtr = k /\ SameLife(f.c, d)
    BY DEF FrameShape, IsContext, ContextFields, SameLife
  <1> HIDE DEF d
  <1> QED
    BY <1>1, <1>2, ContextUpdate

LEMMA TakePendingOK ==
    ASSUME NEW n, NEW x, NEW H, NEW f, FrameShape(f, n, x, H)
    PROVE  LET g == TakePendingPeerAckMessageCounter(f)
           IN  /\ FrameShape(g, n, x, H) /\ SameLife(f.c, g.c)
               /\ g.next = f.next /\ g.c.ackCtr = f.c.ackCtr /\ ~g.c.ackPend
  <1> DEFINE d == [f.c EXCEPT !.ackPend = FALSE]
  <1>1. TakePendingPeerAckMessageCounter(f) = [f EXCEPT !.c = d]
    BY DEF TakePendingPeerAckMessageCounter, FrameShape, FrameFields
  <1>2. IsContext(d) /\ d.ackCtr = f.c.ackCtr /\ SameLife(f.c, d) /\ ~d.ackPend
    BY DEF FrameShape, IsContext, ContextFields, SameLife
  <1>3. f.c.ackCtr \in H \cup {None}
    BY DEF FrameShape
  <1> HIDE DEF d
  <1> QED
    BY <1>1, <1>2, <1>3, ContextUpdate

LEMMA StandaloneAckOK ==
    ASSUME NEW n, NEW x, NEW H, NEW f, FrameShape(f, n, x, H), NEW o
    PROVE  LET g == SendStandaloneAckMessage(f, o)
           IN  /\ FrameShape(g, n, x, H) /\ SameLife(f.c, g.c)
               /\ g.c.ackCtr = f.c.ackCtr
  <1> DEFINE t == TakePendingPeerAckMessageCounter(f)
             a == [src |-> f.n, ex |-> f.x, ctr |-> None, ack |-> f.c.ackCtr, kind |-> "sack"]
             s == [t EXCEPT !.out = @ \cup {a}]
  <1>1. /\ FrameShape(t, n, x, H) /\ SameLife(f.c, t.c) /\ t.c.ackCtr = f.c.ackCtr
    BY TakePendingOK
  <1>2. SendStandaloneAckMessage(f, o) \in {f, MarkAsDefunct(t), s}
    BY DEF SendStandaloneAckMessage
  <1>3. a.src = n /\ a.ex = x /\ a.ctr = None /\ a.kind = "sack" /\ a.ack \in H \cup {None}
    BY DEF FrameShape
  <1> HIDE DEF t, a
  <1>4. FrameShape(s, n, x, H) /\ s.c = t.c
    <2> DEFINE w == t.out \cup {a}
    <2>1. \A m \in w : /\ m.src = n /\ m.ex = x
                       /\ m.kind \in {"app", "sack"} /\ (m.kind = "app" <=> m.ctr # None)
                       /\ m.ack \in H \cup {None}
      BY <1>1, <1>3 DEF FrameShape
    <2> HIDE DEF w
    <2>2. /\ s = [i \in FrameFields |-> s[i]] /\ s.n = t.n /\ s.x = t.x /\ s.c = t.c
          /\ s.next = t.next /\ s.out = w /\ s.delivered = t.delivered
          /\ s.faults = t.faults /\ s.release = t.release
      BY <1>1 DEF FrameShape, FrameFields, w
    <2> HIDE DEF s
    <2> QED
      BY <1>1, <2>1, <2>2 DEF FrameShape
  <1> HIDE DEF s
  <1>5. FrameShape(MarkAsDefunct(t), n, x, H) /\ MarkAsDefunct(t).c = t.c
    BY <1>1, DefunctOK
  <1>6. SameLife(f.c, f.c)
    BY DEF SameLife
  <1> QED
    BY <1>1, <1>2, <1>4, <1>5, <1>6

LEMMA FlushOK ==
    ASSUME NEW n, NEW x, NEW H, NEW f, FrameShape(f, n, x, H), NEW o
    PROVE  LET g == FlushAcks(f, o)
           IN  /\ FrameShape(g, n, x, H) /\ SameLife(f.c, g.c)
               /\ g.c.ackCtr = f.c.ackCtr
  <1>1. FlushAcks(f, o) \in {f, SendStandaloneAckMessage(f, o)}
    BY DEF FlushAcks
  <1>2. SameLife(f.c, f.c)
    BY DEF SameLife
  <1> QED
    BY <1>1, <1>2, StandaloneAckOK

(* A duplicate or a new message is put down for an ack.                    *)
LEMMA NeedsAckOK ==
    ASSUME NEW n, NEW x, NEW H, NEW f, FrameShape(f, n, x, H), NEW o, NEW k \in H, NEW dup
    PROVE  LET g == HandleNeedsAck(f, k, dup, o)
           IN  FrameShape(g, n, x, H) /\ SameLife(f.c, g.c)
  <1> DEFINE p == SetPendingPeerAckMessageCounter(f, k)
             answered == SendStandaloneAckMessage(p, o)
             restored == SetPendingPeerAckMessageCounter(answered, f.c.ackCtr)
             d == [answered.c EXCEPT !.ackCtr = f.c.ackCtr]
             kept == [answered EXCEPT !.c.ackCtr = f.c.ackCtr]
             flushed == FlushAcks(f, o)
  <1>1. FrameShape(p, n, x, H) /\ SameLife(f.c, p.c)
    BY SetPendingOK
  <1>2. FrameShape(answered, n, x, H) /\ SameLife(f.c, answered.c)
    <2> HIDE DEF p
    <2>1. FrameShape(answered, n, x, H) /\ SameLife(p.c, answered.c)
      BY <1>1, StandaloneAckOK
    <2> QED
      BY <1>1, <2>1 DEF SameLife
  <1>3. f.c.ackCtr \in H \cup {None}
    BY DEF FrameShape
  <1>4. FrameShape(restored, n, x, H) /\ SameLife(f.c, restored.c)
    <2> HIDE DEF answered
    <2>1. FrameShape(restored, n, x, H) /\ SameLife(answered.c, restored.c)
      BY <1>2, <1>3, SetPendingOK
    <2> HIDE DEF restored
    <2> QED
      BY <1>2, <2>1 DEF SameLife
  <1>5. FrameShape(kept, n, x, H) /\ SameLife(f.c, kept.c)
    <2> HIDE DEF answered
    <2>1. kept = [answered EXCEPT !.c = d]
      BY <1>2 DEF FrameShape, FrameFields
    <2>2. IsContext(d) /\ d.ackCtr = f.c.ackCtr /\ SameLife(f.c, d)
      BY <1>2 DEF FrameShape, IsContext, ContextFields, SameLife
    <2> HIDE DEF d, kept
    <2> QED
      BY <1>2, <1>3, <2>1, <2>2, ContextUpdate
  <1>6. FrameShape(flushed, n, x, H) /\ SameLife(f.c, flushed.c)
    BY FlushOK
  <1>7. FrameShape(SetPendingPeerAckMessageCounter(flushed, k), n, x, H)
        /\ SameLife(f.c, SetPendingPeerAckMessageCounter(flushed, k).c)
    <2> HIDE DEF flushed
    <2>1. FrameShape(SetPendingPeerAckMessageCounter(flushed, k), n, x, H)
          /\ SameLife(flushed.c, SetPendingPeerAckMessageCounter(flushed, k).c)
      BY <1>6, SetPendingOK
    <2> DEFINE q == SetPendingPeerAckMessageCounter(flushed, k)
    <2> HIDE DEF q
    <2> QED
      BY <1>6, <2>1 DEF SameLife
  <1>8. CASE dup
    <2>1. HandleNeedsAck(f, k, dup, o) =
             IF f.c.ackPend /\ f.c.ackCtr # k THEN restored
             ELSE IF f.c.ackCtr # None THEN kept ELSE answered
      BY <1>8 DEF HandleNeedsAck
    <2> HIDE DEF restored, kept, answered
    <2> QED
      BY <1>2, <1>4, <1>5, <2>1
  <1>9. CASE ~dup
    <2>1. HandleNeedsAck(f, k, dup, o) \in {flushed, SetPendingPeerAckMessageCounter(flushed, k)}
      BY <1>9 DEF HandleNeedsAck
    <2> HIDE DEF flushed
    <2> QED
      BY <1>6, <1>7, <2>1
  <1> QED
    BY <1>8, <1>9

LEMMA ClearRetransOK ==
    ASSUME NEW n, NEW x, NEW H, NEW f, FrameShape(f, n, x, H)
    PROVE  LET g == ClearRetransTable(f)
           IN  /\ FrameShape(g, n, x, H) /\ g.c.retrans = None
               /\ g.c.refs = f.c.refs /\ g.c.closed = f.c.closed /\ g.c.respExp = f.c.respExp
               /\ g.c.timer = f.c.timer /\ g.c.willSend = f.c.willSend
               /\ g.c.session = f.c.session
               /\ Life(f.c) => Life(g.c)
  <1> DEFINE d == [f.c EXCEPT !.retrans = None, !.sendCount = 0]
             g == ClearRetransTable(f)
  <1>1. g = [f EXCEPT !.c = d]
    BY DEF ClearRetransTable, FrameShape, FrameFields, IsContext, ContextFields
  <1>2. /\ IsContext(d) /\ d.ackCtr = f.c.ackCtr /\ d.retrans = None
        /\ d.refs = f.c.refs /\ d.closed = f.c.closed /\ d.respExp = f.c.respExp
        /\ d.timer = f.c.timer /\ d.willSend = f.c.willSend /\ d.session = f.c.session
    BY DEF FrameShape, IsContext, ContextFields
  <1>3. f.c.ackCtr \in H \cup {None}
    BY DEF FrameShape
  <1> HIDE DEF d, g
  <1>4. FrameShape(g, n, x, H) /\ g.c = d
    BY <1>1, <1>2, <1>3, ContextUpdate
  <1>5. Life(f.c) => Life(d)
    BY <1>2 DEF Life
  <1> QED
    BY <1>2, <1>4, <1>5 DEF g

LEMMA CancelTimerOK ==
    ASSUME NEW n, NEW x, NEW H, NEW f, FrameShape(f, n, x, H)
    PROVE  LET g == CancelResponseTimer(f)
           IN  /\ FrameShape(g, n, x, H) /\ ~g.c.timer
               /\ g.c.refs = f.c.refs /\ g.c.closed = f.c.closed /\ g.c.respExp = f.c.respExp
               /\ g.c.retrans = f.c.retrans /\ g.c.willSend = f.c.willSend
               /\ g.c.session = f.c.session
  <1> DEFINE d == [f.c EXCEPT !.timer = FALSE]
             g == CancelResponseTimer(f)
  <1>1. g = [f EXCEPT !.c = d]
    BY DEF CancelResponseTimer, FrameShape, FrameFields
  <1>2. /\ IsContext(d) /\ d.ackCtr = f.c.ackCtr /\ d.retrans = f.c.retrans
        /\ d.refs = f.c.refs /\ d.closed = f.c.closed /\ d.respExp = f.c.respExp
        /\ ~d.timer /\ d.willSend = f.c.willSend /\ d.session = f.c.session
    BY DEF FrameShape, IsContext, ContextFields
  <1>3. f.c.ackCtr \in H \cup {None}
    BY DEF FrameShape
  <1> HIDE DEF d, g
  <1>4. FrameShape(g, n, x, H) /\ g.c = d
    BY <1>1, <1>2, <1>3, ContextUpdate
  <1> QED
    BY <1>2, <1>4 DEF g

LEMMA SetResponseOK ==
    ASSUME NEW n, NEW x, NEW H, NEW f, FrameShape(f, n, x, H), NEW b \in BOOLEAN
    PROVE  LET g == SetResponseExpected(f, b)
           IN  /\ FrameShape(g, n, x, H) /\ g.c.respExp = b
               /\ g.c.refs = f.c.refs /\ g.c.closed = f.c.closed /\ g.c.timer = f.c.timer
               /\ g.c.retrans = f.c.retrans /\ g.c.willSend = f.c.willSend
               /\ g.c.session = f.c.session
               /\ g.next = f.next /\ g.c.ackCtr = f.c.ackCtr
  <1> DEFINE d == [f.c EXCEPT !.respExp = b, !.waitRA = b]
             g == SetResponseExpected(f, b)
  <1>1. g = [f EXCEPT !.c = d]
    BY DEF SetResponseExpected, FrameShape, FrameFields, IsContext, ContextFields
  <1>2. /\ IsContext(d) /\ d.ackCtr = f.c.ackCtr /\ d.retrans = f.c.retrans
        /\ d.refs = f.c.refs /\ d.closed = f.c.closed /\ d.respExp = b
        /\ d.timer = f.c.timer /\ d.willSend = f.c.willSend /\ d.session = f.c.session
    BY DEF FrameShape, IsContext, ContextFields
  <1>3. f.c.ackCtr \in H \cup {None}
    BY DEF FrameShape
  <1> HIDE DEF d, g
  <1>4. FrameShape(g, n, x, H) /\ g.c = d /\ g.next = f.next
    BY <1>1, <1>2, <1>3, ContextUpdate
  <1> QED
    BY <1>2, <1>4 DEF g

(* No response is expected any more, and the timer does not run.           *)
NoResponse(f) == SetResponseExpected(CancelResponseTimer(f), FALSE)

LEMMA NoResponseOK ==
    ASSUME NEW n, NEW x, NEW H, NEW f, FrameOK(f, n, x, H)
    PROVE  LET g == NoResponse(f)
           IN  /\ FrameOK(g, n, x, H) /\ ~g.c.respExp /\ ~g.c.timer
               /\ g.c.closed = f.c.closed /\ g.c.willSend = f.c.willSend
               /\ g.c.session = f.c.session /\ g.c.refs = f.c.refs
  <1>b. PICK b \in BOOLEAN : b = FALSE
    OBVIOUS
  <1> DEFINE e == CancelResponseTimer(f)
             g == SetResponseExpected(e, b)
  <1>1. /\ FrameShape(e, n, x, H) /\ ~e.c.timer
        /\ e.c.refs = f.c.refs /\ e.c.closed = f.c.closed
        /\ e.c.retrans = f.c.retrans /\ e.c.willSend = f.c.willSend
        /\ e.c.session = f.c.session
    BY CancelTimerOK DEF FrameOK
  <1> HIDE DEF e
  <1>e. FrameShape(e, n, x, H)
    BY <1>1
  <1>2. /\ FrameShape(g, n, x, H) /\ g.c.respExp = b
        /\ g.c.refs = e.c.refs /\ g.c.closed = e.c.closed /\ g.c.timer = e.c.timer
        /\ g.c.retrans = e.c.retrans /\ g.c.willSend = e.c.willSend
        /\ g.c.session = e.c.session
    BY <1>e, SetResponseOK
  <1> HIDE DEF g
  <1>3. Life(g.c)
    BY <1>b, <1>1, <1>2 DEF FrameOK, Life
  <1>4. g = NoResponse(f)
    BY <1>b DEF g, e, NoResponse
  <1> QED
    BY <1>b, <1>1, <1>2, <1>3, <1>4 DEF FrameOK

(* Closing an open context.                                                *)
LEMMA DoCloseOK ==
    ASSUME NEW n, NEW x, NEW H, NEW f, FrameShape(f, n, x, H), ~f.c.closed,
           f.c.timer => f.c.respExp, NEW clear \in BOOLEAN, NEW o
    PROVE  LET g == DoClose(f, clear, o)
           IN  /\ FrameShape(g, n, x, H) /\ g.c.closed /\ ~g.c.timer
               /\ g.c.refs = f.c.refs /\ g.c.willSend = f.c.willSend
               /\ g.c.session = f.c.session
               /\ g.c.retrans = IF clear THEN None ELSE f.c.retrans
  <1> DEFINE d == [f.c EXCEPT !.closed = TRUE]
             h == [f EXCEPT !.c.closed = TRUE]
             flushed == FlushAcks(h, o)
             cleared == IF clear THEN ClearRetransTable(flushed) ELSE flushed
             g == DoClose(f, clear, o)
  <1>0. f.c.ackCtr \in H \cup {None}
    BY DEF FrameShape
  <1>1. h = [f EXCEPT !.c = d]
    BY <1>0 DEF FrameShape, FrameFields
  <1>2. /\ IsContext(d) /\ d.ackCtr = f.c.ackCtr /\ d.retrans = f.c.retrans
        /\ d.refs = f.c.refs /\ d.closed /\ d.respExp = f.c.respExp
        /\ d.timer = f.c.timer /\ d.willSend = f.c.willSend /\ d.session = f.c.session
    BY <1>0 DEF FrameShape, IsContext, ContextFields
  <1>3. g = IF f.c.respExp THEN CancelResponseTimer(cleared) ELSE cleared
    BY DEF DoClose
  <1> HIDE DEF d, h, g
  <1>4. FrameShape(h, n, x, H) /\ h.c = d
    BY <1>0, <1>1, <1>2, ContextUpdate
  <1>5. FrameShape(flushed, n, x, H) /\ SameLife(d, flushed.c)
    BY <1>4, FlushOK
  <1> HIDE DEF flushed
  <1>6. /\ FrameShape(cleared, n, x, H) /\ cleared.c.closed
        /\ cleared.c.refs = f.c.refs /\ cleared.c.respExp = f.c.respExp
        /\ cleared.c.timer = f.c.timer /\ cleared.c.willSend = f.c.willSend
        /\ cleared.c.session = f.c.session
        /\ cleared.c.retrans = IF clear THEN None ELSE f.c.retrans
    <2>0. FrameShape(flushed, n, x, H)
      BY <1>5
    <2>1. CASE clear
      <3> DEFINE r == ClearRetransTable(flushed)
      <3>1. /\ FrameShape(r, n, x, H) /\ r.c.retrans = None
            /\ r.c.refs = flushed.c.refs /\ r.c.closed = flushed.c.closed
            /\ r.c.respExp = flushed.c.respExp /\ r.c.timer = flushed.c.timer
            /\ r.c.willSend = flushed.c.willSend /\ r.c.session = flushed.c.session
        BY <2>0, ClearRetransOK
      <3>2. cleared = r
        BY <2>1
      <3> HIDE DEF r, cleared
      <3> QED
        BY <1>2, <1>5, <2>1, <3>1, <3>2 DEF SameLife
    <2>2. CASE ~clear
      BY <1>2, <1>5, <2>2 DEF SameLife
    <2> QED
      BY <2>1, <2>2
  <1> HIDE DEF cleared
  <1>7. CASE f.c.respExp
    BY <1>3, <1>6, <1>7, CancelTimerOK DEF g
  <1>8. CASE ~f.c.respExp
    BY <1>3, <1>6, <1>8 DEF g
  <1> QED
    BY <1>7, <1>8

LEMMA ReleaseRefOK ==
    ASSUME NEW n, NEW x, NEW H, NEW f, FrameShape(f, n, x, H)
    PROVE  LET g == ReleaseRef(f)
           IN  /\ FrameShape(g, n, x, H) /\ g.c.refs = f.c.refs - 1
               /\ g.c.closed = f.c.closed /\ g.c.timer = f.c.timer
               /\ g.c.retrans = f.c.retrans /\ g.c.session = f.c.session
               /\ g.c.willSend = f.c.willSend /\ g.c.respExp = f.c.respExp
  <1> DEFINE d == [f.c EXCEPT !.refs = @ - 1]
             g == ReleaseRef(f)
  <1>1. g = [f EXCEPT !.c = d]
    BY DEF ReleaseRef, FrameShape, FrameFields
  <1>2. /\ IsContext(d) /\ d.ackCtr = f.c.ackCtr /\ d.retrans = f.c.retrans
        /\ d.refs = f.c.refs - 1 /\ d.closed = f.c.closed /\ d.respExp = f.c.respExp
        /\ d.timer = f.c.timer /\ d.willSend = f.c.willSend /\ d.session = f.c.session
    BY DEF FrameShape, IsContext, ContextFields
  <1>3. f.c.ackCtr \in H \cup {None}
    BY DEF FrameShape
  <1> HIDE DEF d, g
  <1>4. FrameShape(g, n, x, H) /\ g.c = d
    BY <1>1, <1>2, <1>3, ContextUpdate
  <1> QED
    BY <1>2, <1>4 DEF g

(* Close and Abort return the one reference.                               *)
LEMMA ClosedOK ==
    ASSUME NEW n, NEW x, NEW H, NEW f, FrameOK(f, n, x, H), NEW o,
           NEW clear \in BOOLEAN, ~f.c.closed \/ f.c.refs = 1
    PROVE  /\ FrameOK(ReleaseRef(DoClose(f, clear, o)), n, x, H)
           /\ ReleaseRef(DoClose(f, clear, o)).c.refs = 0
  <1> DEFINE e == DoClose(f, clear, o)
             g == ReleaseRef(e)
  <1>0. FrameShape(f, n, x, H) /\ Life(f.c)
    BY DEF FrameOK
  <1>1. /\ FrameShape(e, n, x, H) /\ e.c.closed /\ ~e.c.timer /\ e.c.refs = f.c.refs
        /\ e.c.session = f.c.session
        /\ e.c.retrans = None \/ e.c.retrans = f.c.retrans
    <2>1. CASE ~f.c.closed
      <3>1. f.c.timer => f.c.respExp
        BY <1>0 DEF Life
      <3> QED
        BY <1>0, <2>1, <3>1, DoCloseOK
    <2>2. CASE f.c.closed
      <3>1. e = f
        BY <2>2 DEF DoClose
      <3> QED
        BY <1>0, <2>2, <3>1 DEF Life
    <2> QED
      BY <2>1, <2>2
  <1>2. f.c.refs = 1
    BY <1>0 DEF Life
  <1> HIDE DEF e
  <1>e. FrameShape(e, n, x, H)
    BY <1>1
  <1>3. /\ FrameShape(g, n, x, H) /\ g.c.refs = e.c.refs - 1
        /\ g.c.closed = e.c.closed /\ g.c.timer = e.c.timer
        /\ g.c.retrans = e.c.retrans /\ g.c.session = e.c.session
    BY <1>e, ReleaseRefOK
  <1> HIDE DEF g
  <1>4. Life(g.c)
    BY <1>0, <1>1, <1>2, <1>3 DEF Life
  <1> QED
    BY <1>1, <1>2, <1>3, <1>4 DEF FrameOK, g, e

LEMMA HandledOK ==
    ASSUME NEW n, NEW x, NEW H, NEW f, FrameOK(f, n, x, H), NEW o
    PROVE  FrameOK(MessageHandled(f, o), n, x, H)
BY ClosedOK DEF MessageHandled, Close

(* Steps of SendMessage and HandleNewMessage that the code writes inline.  *)
Armed(f) == [SetResponseExpected(f, TRUE) EXCEPT !.c.timer = TRUE]

Kept(f, a, k) ==
    [f EXCEPT !.out = @ \cup {a}, !.next = @ + 1,
              !.c.retrans = k, !.c.sendCount = 0, !.c.willSend = FALSE]

(* A response is expected from here on, and the timer runs.                *)
LEMMA ArmOK ==
    ASSUME NEW n, NEW x, NEW H, NEW f, FrameOK(f, n, x, H), ~f.c.closed
    PROVE  LET g == Armed(f)
           IN  /\ FrameOK(g, n, x, H)
               /\ g.next = f.next /\ g.c.ackCtr = f.c.ackCtr
               /\ g.c.closed = f.c.closed /\ g.c.session = f.c.session
  <1>0. FrameShape(f, n, x, H) /\ Life(f.c) /\ f.c.ackCtr \in H \cup {None}
    BY DEF FrameOK, FrameShape
  <1> DEFINE d == [f.c EXCEPT !.respExp = TRUE, !.waitRA = TRUE, !.timer = TRUE]
             g == Armed(f)
  <1>1. g = [f EXCEPT !.c = d]
    BY <1>0 DEF Armed, SetResponseExpected, FrameShape, FrameFields, IsContext, ContextFields
  <1>2. /\ IsContext(d) /\ d.ackCtr = f.c.ackCtr /\ d.retrans = f.c.retrans
        /\ d.refs = f.c.refs /\ d.closed = f.c.closed /\ d.respExp
        /\ d.willSend = f.c.willSend /\ d.session = f.c.session
    BY <1>0 DEF FrameShape, IsContext, ContextFields
  <1> HIDE DEF d, g
  <1>3. FrameShape(g, n, x, H) /\ g.c = d /\ g.next = f.next
    BY <1>0, <1>1, <1>2, ContextUpdate
  <1>4. Life(d)
    BY <1>0, <1>2 DEF Life
  <1> QED
    BY <1>2, <1>3, <1>4 DEF g, FrameOK

(* A message goes out and is kept for retransmission.                      *)
LEMMA KeptOK ==
    ASSUME NEW n, NEW x, NEW H, NEW f, FrameOK(f, n, x, H), ~f.c.closed, f.c.session,
           NEW a, a.src = n, a.ex = x, a.ctr = f.next, a.ack \in H \cup {None},
           a.kind = "app",
           NEW k, k = f.next
    PROVE  FrameOK(Kept(f, a, k), n, x, H)
  <1> DEFINE g == Kept(f, a, k)
             d == [f.c EXCEPT !.retrans = k, !.sendCount = 0, !.willSend = FALSE]
             o == f.out \cup {a}
             p == f.next + 1
  <1>0. FrameShape(f, n, x, H) /\ Life(f.c)
    BY DEF FrameOK
  <1>1. g = [f EXCEPT !.out = o, !.next = p, !.c = d]
    BY <1>0 DEF Kept, FrameShape, FrameFields, IsContext, ContextFields
  <1>2. /\ IsContext(d) /\ d.ackCtr = f.c.ackCtr
        /\ d.refs = f.c.refs /\ d.closed = f.c.closed /\ d.respExp = f.c.respExp
        /\ d.timer = f.c.timer /\ d.session = f.c.session
    BY <1>0 DEF FrameShape, IsContext, ContextFields
  <1> HIDE DEF d, g
  <1>3. f.next \in Nat \ {0} /\ p \in Nat \ {0}
    BY <1>0 DEF FrameShape
  <1>4. a.ctr # None
    BY <1>3 DEF None
  <1>5. \A m \in o : /\ m.src = n /\ m.ex = x
                     /\ m.kind \in {"app", "sack"} /\ (m.kind = "app" <=> m.ctr # None)
                     /\ m.ack \in H \cup {None}
    BY <1>0, <1>4 DEF FrameShape
  <1> HIDE DEF o, p
  <1>6. /\ g = [i \in FrameFields |-> g[i]] /\ g.n = f.n /\ g.x = f.x /\ g.c = d
        /\ g.next = p /\ g.out = o /\ g.delivered = f.delivered /\ g.faults = f.faults
        /\ g.release = f.release
    BY <1>0, <1>1 DEF FrameShape, FrameFields
  <1>7. FrameShape(g, n, x, H)
    BY <1>0, <1>2, <1>3, <1>5, <1>6 DEF FrameShape
  <1>8. Life(d)
    BY <1>0, <1>2 DEF Life
  <1> QED
    BY <1>6, <1>7, <1>8 DEF FrameOK, g

LEMMA NextOK ==
    ASSUME NEW n, NEW x, NEW H, NEW f, FrameOK(f, n, x, H)
    PROVE  FrameOK([f EXCEPT !.next = @ + 1], n, x, H)
BY DEF FrameOK, FrameShape, FrameFields

(* SendMessage, from an open context or from one that has no session.      *)
LEMMA SendMessageOK ==
    ASSUME NEW n, NEW x, NEW H, NEW f, FrameOK(f, n, x, H), f.c.session => ~f.c.closed,
           NEW expect \in BOOLEAN, NEW o
    PROVE  FrameOK(SendMessage(f, expect, o), n, x, H)
  <1> DEFINE armed == IF expect THEN Armed(f) ELSE f
             taken == TakePendingPeerAckMessageCounter(armed)
             undone == IF expect
                       THEN NoResponse(taken)
                       ELSE taken
             a == [src |-> f.n, ex |-> f.x, ctr |-> f.next,
                   ack |-> f.c.ackCtr, kind |-> "app"]
             sent == Kept(taken, a, f.next)
  <1>1. SendMessage(f, expect, o)
           \in {f, MarkAsDefunct(undone), MarkAsDefunct([undone EXCEPT !.next = @ + 1]),
                MessageHandled(sent, o)}
    BY DEF SendMessage, EndResponseWait, Armed, Kept, NoResponse
  <1>2. CASE ~f.c.session
    <2>1. SendMessage(f, expect, o) = f
      BY <1>2 DEF SendMessage
    <2> QED
      BY <2>1
  <1>3. CASE f.c.session
    <2>0. FrameShape(f, n, x, H) /\ f.c.ackCtr \in H \cup {None} /\ f.n = n /\ f.x = x
      BY DEF FrameOK, FrameShape
    <2>1. /\ FrameOK(armed, n, x, H) /\ armed.next = f.next
          /\ ~armed.c.closed /\ armed.c.session
      <3>1. CASE expect
        BY <1>3, <3>1, ArmOK
      <3>2. CASE ~expect
        BY <1>3, <3>2
      <3> QED
        BY <3>1, <3>2
    <2>2. a.src = n /\ a.ex = x /\ a.ctr = f.next /\ a.ack \in H \cup {None}
          /\ a.kind = "app"
      BY <2>0
    <2> HIDE DEF armed, a
    <2>3. FrameOK(taken, n, x, H) /\ taken.next = f.next /\ ~taken.c.closed /\ taken.c.session
      <3>0. FrameShape(armed, n, x, H) /\ Life(armed.c)
        BY <2>1 DEF FrameOK
      <3>1. FrameShape(taken, n, x, H) /\ SameLife(armed.c, taken.c) /\ taken.next = armed.next
        BY <3>0, TakePendingOK
      <3> HIDE DEF taken
      <3>2. Life(taken.c)
        BY <3>0, <3>1, SameLifeOK
      <3> QED
        BY <2>1, <3>1, <3>2 DEF FrameOK, SameLife
    <2> HIDE DEF taken
    <2>4. FrameOK(sent, n, x, H)
      <3>1. a.ctr = taken.next
        BY <2>2, <2>3
      <3> QED
        BY <2>2, <2>3, <3>1, KeptOK
    <2> HIDE DEF sent
    <2>5. FrameOK(MessageHandled(sent, o), n, x, H)
      BY <2>4, HandledOK
    <2>6. FrameOK(undone, n, x, H)
      BY <2>3, NoResponseOK
    <2> HIDE DEF undone
    <2> DEFINE u == [undone EXCEPT !.next = @ + 1]
    <2>7. FrameOK(u, n, x, H)
      BY <2>6, NextOK
    <2> HIDE DEF u
    <2>8. FrameOK(MarkAsDefunct(undone), n, x, H)
      BY <2>6, DefunctOK DEF FrameOK
    <2>9. FrameOK(MarkAsDefunct(u), n, x, H)
      BY <2>7, DefunctOK DEF FrameOK
    <2> QED
      BY <1>1, <2>5, <2>8, <2>9 DEF u
  <1>4. f.c.session \in BOOLEAN
    BY DEF FrameOK, FrameShape, IsContext
  <1> QED
    BY <1>2, <1>3

LEMMA RcvdAckOK ==
    ASSUME NEW n, NEW x, NEW H, NEW f, FrameOK(f, n, x, H), NEW k
    PROVE  FrameOK(HandleRcvdAck(f, k), n, x, H)
  <1> DEFINE noted == [f EXCEPT !.acked = @ \cup {k}]
             r == ClearRetransTable(noted)
             d == [r.c EXCEPT !.waitRA = FALSE]
             w == [r EXCEPT !.c.waitRA = FALSE]
  <1>1. HandleRcvdAck(f, k) \in {noted, w}
    BY DEF HandleRcvdAck
  <1>2. FrameShape(noted, n, x, H) /\ Life(noted.c)
    BY DEF FrameOK, FrameShape, FrameFields
  <1> HIDE DEF noted
  <1>3. FrameShape(r, n, x, H) /\ Life(r.c)
    BY <1>2, ClearRetransOK
  <1> HIDE DEF r
  <1>4. w = [r EXCEPT !.c = d]
    BY <1>3 DEF FrameShape, FrameFields
  <1>5. IsContext(d) /\ d.ackCtr = r.c.ackCtr /\ SameLife(r.c, d)
    BY <1>3 DEF FrameShape, IsContext, ContextFields, SameLife
  <1>6. r.c.ackCtr \in H \cup {None}
    BY <1>3 DEF FrameShape
  <1> HIDE DEF d, w
  <1>7. FrameShape(w, n, x, H) /\ w.c = d
    BY <1>3, <1>4, <1>5, <1>6, ContextUpdate
  <1>8. Life(d)
    BY <1>3, <1>5, SameLifeOK
  <1> QED
    BY <1>1, <1>2, <1>7, <1>8 DEF FrameOK

(* The session is released under the exchange.                             *)
LEMMA OnSessionReleasedOK ==
    ASSUME NEW n, NEW x, NEW H, NEW f, FrameOK(f, n, x, H)
    PROVE  FrameOK(OnSessionReleased(f), n, x, H)
  <1> DEFINE d == [f.c EXCEPT !.session = FALSE]
             g == [f EXCEPT !.c.session = FALSE]
  <1>0. FrameShape(f, n, x, H) /\ Life(f.c) /\ f.c.ackCtr \in H \cup {None}
    BY DEF FrameOK, FrameShape
  <1>1. g = [f EXCEPT !.c = d]
    BY <1>0 DEF FrameShape, FrameFields
  <1>2. /\ IsContext(d) /\ d.ackCtr = f.c.ackCtr /\ d.retrans = f.c.retrans
        /\ d.refs = f.c.refs /\ d.closed = f.c.closed /\ d.respExp = f.c.respExp
        /\ d.timer = f.c.timer /\ d.willSend = f.c.willSend /\ ~d.session
    BY <1>0 DEF FrameShape, IsContext, ContextFields
  <1>3. OnSessionReleased(f) =
           IF f.c.closed THEN ClearRetransTable(g)
           ELSE IF f.c.willSend THEN DoClose(g, TRUE, "failed")
           ELSE Abort(IF f.c.respExp
                      THEN SetResponseExpected(CancelResponseTimer(g), FALSE)
                      ELSE g, "failed")
    BY DEF OnSessionReleased
  <1> HIDE DEF d, g
  <1>4. FrameShape(g, n, x, H) /\ g.c = d
    BY <1>0, <1>1, <1>2, ContextUpdate
  <1>5. /\ g.c.timer => g.c.respExp
        /\ g.c.closed = f.c.closed
    BY <1>0, <1>2, <1>4 DEF Life
  <1>6. CASE f.c.closed
    <2> DEFINE r == ClearRetransTable(g)
    <2>0. FrameShape(g, n, x, H)
      BY <1>4
    <2>1. /\ FrameShape(r, n, x, H) /\ r.c.retrans = None
          /\ r.c.refs = g.c.refs /\ r.c.closed = g.c.closed /\ r.c.respExp = g.c.respExp
          /\ r.c.timer = g.c.timer /\ r.c.willSend = g.c.willSend
          /\ r.c.session = g.c.session
      BY <2>0, ClearRetransOK
    <2> HIDE DEF r
    <2>2. Life(r.c)
      BY <1>0, <1>2, <1>4, <1>6, <2>1 DEF Life
    <2> QED
      BY <1>3, <1>6, <2>1, <2>2 DEF FrameOK, r
  <1>7. CASE ~f.c.closed
    <2>0. PICK t \in BOOLEAN : t = TRUE
      OBVIOUS
    <2>1. FrameShape(g, n, x, H) /\ ~g.c.closed /\ (g.c.timer => g.c.respExp)
      BY <1>4, <1>5, <1>7
    <2>2. CASE f.c.willSend
      <3> DEFINE r == DoClose(g, t, "failed")
      <3>1. /\ FrameShape(r, n, x, H) /\ r.c.closed /\ ~r.c.timer
            /\ r.c.refs = g.c.refs /\ r.c.willSend = g.c.willSend
            /\ r.c.session = g.c.session
            /\ r.c.retrans = IF t THEN None ELSE g.c.retrans
        BY <2>1, DoCloseOK
      <3>2. OnSessionReleased(f) = r
        BY <1>3, <1>7, <2>0, <2>2
      <3> HIDE DEF r
      <3>3. Life(r.c)
        BY <1>0, <1>2, <1>4, <1>7, <2>0, <2>2, <3>1 DEF Life
      <3> QED
        BY <3>1, <3>2, <3>3 DEF FrameOK
    <2>3. CASE ~f.c.willSend
      <3>a. PICK b \in BOOLEAN : b = FALSE
        OBVIOUS
      <3> DEFINE e == CancelResponseTimer(g)
                 s == SetResponseExpected(e, b)
                 q == IF f.c.respExp THEN s ELSE g
                 r == DoClose(q, t, "failed")
                 z == ReleaseRef(r)
      <3>1. /\ FrameShape(e, n, x, H) /\ ~e.c.timer
            /\ e.c.refs = g.c.refs /\ e.c.closed = g.c.closed /\ e.c.session = g.c.session
        BY <2>1, CancelTimerOK
      <3> HIDE DEF e
      <3>2. /\ FrameShape(s, n, x, H) /\ s.c.timer = e.c.timer
            /\ s.c.refs = e.c.refs /\ s.c.closed = e.c.closed /\ s.c.session = e.c.session
        <4>1. FrameShape(e, n, x, H)
          BY <3>1
        <4> QED
          BY <4>1, SetResponseOK
      <3>3. OnSessionReleased(f) = z
        BY <1>3, <1>7, <2>0, <2>3, <3>a DEF Abort, e
      <3> HIDE DEF s
      <3>4. /\ FrameShape(q, n, x, H) /\ ~q.c.closed /\ (q.c.timer => q.c.respExp)
            /\ q.c.refs = g.c.refs /\ q.c.session = g.c.session
        BY <2>1, <3>1, <3>2
      <3> HIDE DEF q
      <3>5. /\ FrameShape(r, n, x, H) /\ r.c.closed /\ ~r.c.timer
            /\ r.c.refs = q.c.refs /\ r.c.session = q.c.session
            /\ r.c.retrans = IF t THEN None ELSE q.c.retrans
        BY <3>4, DoCloseOK
      <3> HIDE DEF r
      <3>6. /\ FrameShape(z, n, x, H) /\ z.c.refs = r.c.refs - 1
            /\ z.c.closed = r.c.closed /\ z.c.timer = r.c.timer
            /\ z.c.retrans = r.c.retrans /\ z.c.session = r.c.session
        <4>1. FrameShape(r, n, x, H)
          BY <3>5
        <4> QED
          BY <4>1, ReleaseRefOK
      <3> HIDE DEF z
      <3>7. Life(z.c)
        BY <1>0, <1>2, <1>4, <1>7, <2>0, <3>4, <3>5, <3>6 DEF Life
      <3> QED
        BY <3>3, <3>6, <3>7 DEF FrameOK
    <2> QED
      BY <2>2, <2>3
  <1> QED
    BY <1>6, <1>7

LEMMA OnMessageReceivedOK ==
    ASSUME NEW n, NEW x, NEW H, NEW f, FrameOK(f, n, x, H), ~f.c.closed,
           NEW reaction \in AllReactions, reaction # "notPermitted", NEW o
    PROVE  FrameOK(OnMessageReceived(f, reaction, o), n, x, H)
  <1>t. PICK t \in BOOLEAN : t = TRUE
    OBVIOUS
  <1>f. PICK b \in BOOLEAN : b = FALSE
    OBVIOUS
  <1> DEFINE d == [f.c EXCEPT !.willSend = TRUE]
             w == [f EXCEPT !.c.willSend = TRUE]
             e == AbortAllOtherCommunicationOnFabric(f)
  <1>0. FrameShape(f, n, x, H) /\ Life(f.c) /\ f.c.ackCtr \in H \cup {None}
    BY DEF FrameOK, FrameShape
  <1>1. OnMessageReceived(f, reaction, o)
           \in {f, SendMessage(f, b, o), SendMessage(f, t, o), w,
                SendMessage(e, b, o)}
    BY <1>t, <1>f DEF OnMessageReceived, AllReactions
  <1>2. FrameOK(SendMessage(f, b, o), n, x, H)
    BY SendMessageOK
  <1>3. FrameOK(SendMessage(f, t, o), n, x, H)
    BY SendMessageOK
  <1>4. FrameOK(w, n, x, H)
    <2>1. w = [f EXCEPT !.c = d]
      BY <1>0 DEF FrameShape, FrameFields
    <2>2. /\ IsContext(d) /\ d.ackCtr = f.c.ackCtr /\ d.retrans = f.c.retrans
          /\ d.refs = f.c.refs /\ d.closed = f.c.closed /\ d.respExp = f.c.respExp
          /\ d.timer = f.c.timer /\ d.session = f.c.session /\ d.willSend
      BY <1>0 DEF FrameShape, IsContext, ContextFields
    <2> HIDE DEF d, w
    <2>3. FrameShape(w, n, x, H) /\ w.c = d
      BY <1>0, <2>1, <2>2, ContextUpdate
    <2>4. Life(d)
      BY <1>0, <2>2 DEF Life
    <2> QED
      BY <2>3, <2>4 DEF FrameOK
  <1>5. FrameOK(e, n, x, H) /\ e.c = f.c
    BY <1>0 DEF FrameOK, FrameShape, FrameFields, AbortAllOtherCommunicationOnFabric
  <1> HIDE DEF e, w
  <1>6. FrameOK(SendMessage(e, b, o), n, x, H)
    BY <1>5, SendMessageOK
  <1> QED
    BY <1>1, <1>2, <1>3, <1>4, <1>6

(* The part of HandleMessage that the application sees.  The message is    *)
(* among those the node has received, and none it was given before.        *)
Given(f, k, z) == [f EXCEPT !.delivered = @ \cup {k}, !.faults = @ \cup z]

LEMMA GivenOK ==
    ASSUME NEW n, NEW x, NEW H, NEW f, FrameOK(f, n, x, H), NEW k \in H
    PROVE  FrameOK(Given(f, k, {}), n, x, H) /\ Given(f, k, {}).c = f.c
  <1> DEFINE g == Given(f, k, {})
             w == f.delivered \cup {k}
  <1>1. FrameShape(f, n, x, H) /\ Life(f.c) /\ w \subseteq H
    BY DEF FrameOK, FrameShape
  <1> HIDE DEF w
  <1>2. /\ g = [i \in FrameFields |-> g[i]] /\ g.n = f.n /\ g.x = f.x /\ g.c = f.c
        /\ g.next = f.next /\ g.out = f.out /\ g.delivered = w
        /\ g.faults = f.faults /\ g.release = f.release
    BY <1>1 DEF FrameShape, FrameFields, w, Given
  <1> HIDE DEF g
  <1>3. FrameShape(g, n, x, H)
    BY <1>1, <1>2 DEF FrameShape
  <1> QED
    BY <1>1, <1>2, <1>3 DEF FrameOK, g

LEMMA HandleNewMessageOK ==
    ASSUME NEW n, NEW x, NEW H, NEW f, FrameOK(f, n, x, H),
           NEW m, m.ctr \in H, m.ctr \notin delivered[n],
           NEW reaction \in AllReactions, NEW o
    PROVE  FrameOK(HandleNewMessage(f, m, reaction, o), n, x, H)
  <1> DEFINE r == NoResponse(f)
             got == IF f.c.respExp THEN r ELSE f
             dropped == [f EXCEPT !.faults = @ \cup {"unackedDrop"}]
             given == Given(got, m.ctr, {})
  <1>0. FrameShape(f, n, x, H) /\ Life(f.c) /\ f.n = n
    BY DEF FrameOK, FrameShape
  <1>1. FrameOK(dropped, n, x, H)
    <2>1. /\ dropped = [i \in FrameFields |-> dropped[i]] /\ dropped.n = f.n
          /\ dropped.x = f.x /\ dropped.c = f.c /\ dropped.next = f.next
          /\ dropped.out = f.out /\ dropped.delivered = f.delivered
          /\ dropped.faults \subseteq {"unackedDrop"} /\ dropped.release = f.release
      BY <1>0 DEF FrameShape, FrameFields
    <2> HIDE DEF dropped
    <2> QED
      BY <1>0, <2>1 DEF FrameOK, FrameShape
  <1>2. FrameOK(r, n, x, H) /\ r.c.closed = f.c.closed
    BY NoResponseOK
  <1>3. HandleNewMessage(f, m, reaction, o) =
           IF f.c.retrans # None THEN dropped
           ELSE IF reaction = "notPermitted" THEN f
           ELSE IF f.c.closed THEN got
           ELSE OnMessageReceived(given, reaction, o)
    BY <1>0 DEF HandleNewMessage, Given, NoResponse
  <1> HIDE DEF r, dropped
  <1>4. FrameOK(got, n, x, H) /\ got.c.closed = f.c.closed
    BY <1>2
  <1> HIDE DEF got
  <1>5. FrameOK(given, n, x, H) /\ given.c = got.c
    BY <1>4, GivenOK
  <1> HIDE DEF given
  <1>6. CASE f.c.closed \/ f.c.retrans # None \/ reaction = "notPermitted"
    BY <1>1, <1>3, <1>4, <1>6
  <1>7. CASE ~f.c.closed /\ ~(f.c.retrans # None) /\ reaction # "notPermitted"
    <2>1. FrameOK(OnMessageReceived(given, reaction, o), n, x, H)
      BY <1>4, <1>5, <1>7, OnMessageReceivedOK
    <2> QED
      BY <1>3, <1>7, <2>1
  <1> QED
    BY <1>6, <1>7

(* HandleMessage, for a message that has reached the right exchange.       *)
LEMMA HandleMessageOK ==
    ASSUME NEW n, NEW x, NEW H, NEW f, FrameOK(f, n, x, H),
           NEW m, m.kind \in {"app", "sack"}, NEW dup \in BOOLEAN,
           m.kind = "app" => m.ctr \in H,
           m.kind = "app" /\ ~dup => m.ctr \notin delivered[n],
           NEW reaction \in AllReactions, NEW o
    PROVE  FrameOK(HandleMessage(f, m, dup, reaction, o), n, x, H)
  <1> DEFINE a == IF ~dup /\ m.ack # None THEN HandleRcvdAck(f, m.ack) ELSE f
             b == IF m.kind = "app" THEN HandleNeedsAck(a, m.ctr, dup, o) ELSE a
             flushes == b.c.ackPend /\ b.c.closed
             d == IF flushes THEN FlushAcks(b, o) ELSE b
             stops == \/ flushes /\ SendStandaloneAckFails(b, o)
                      \/ m.kind = "sack"
                      \/ dup
             e == IF stops THEN d ELSE HandleNewMessage(d, m, reaction, o)
  <1>1. HandleMessage(f, m, dup, reaction, o) \in {e, MessageHandled(e, o)}
    BY DEF HandleMessage
  <1>2. FrameOK(a, n, x, H)
    BY RcvdAckOK
  <1> HIDE DEF a
  <1>3. FrameOK(b, n, x, H)
    <2>1. CASE m.kind = "app"
      <3> DEFINE g == HandleNeedsAck(a, m.ctr, dup, o)
      <3>1. FrameShape(a, n, x, H) /\ Life(a.c) /\ m.ctr \in H
        BY <1>2, <2>1 DEF FrameOK
      <3>2. FrameShape(g, n, x, H) /\ SameLife(a.c, g.c)
        BY <3>1, NeedsAckOK
      <3>3. b = g
        BY <2>1
      <3> HIDE DEF g, b
      <3>4. Life(g.c)
        BY <3>1, <3>2, SameLifeOK
      <3> QED
        BY <3>2, <3>3, <3>4 DEF FrameOK
    <2>2. CASE m.kind # "app"
      BY <1>2, <2>2
    <2> QED
      BY <2>1, <2>2
  <1> HIDE DEF b
  <1>4. FrameOK(d, n, x, H)
    <2> DEFINE g == FlushAcks(b, o)
    <2>1. FrameShape(b, n, x, H) /\ Life(b.c)
      BY <1>3 DEF FrameOK
    <2>2. FrameShape(g, n, x, H) /\ SameLife(b.c, g.c)
      BY <2>1, FlushOK
    <2>3. d \in {b, g}
      OBVIOUS
    <2> HIDE DEF g, d
    <2>4. Life(g.c)
      BY <2>1, <2>2, SameLifeOK
    <2> QED
      BY <1>3, <2>2, <2>3, <2>4 DEF FrameOK
  <1> HIDE DEF d
  <1>5. FrameOK(e, n, x, H)
    <2>1. CASE stops
      BY <1>4, <2>1
    <2>2. CASE ~stops
      <3>1. m.ctr \in H /\ m.ctr \notin delivered[n]
        BY <2>2
      <3>2. e = HandleNewMessage(d, m, reaction, o)
        BY <2>2
      <3> HIDE DEF e, stops
      <3>3. FrameOK(HandleNewMessage(d, m, reaction, o), n, x, H)
        BY <1>4, <3>1, HandleNewMessageOK
      <3> QED
        BY <3>2, <3>3
    <2> HIDE DEF stops
    <2> QED
      BY <2>1, <2>2
  <1> HIDE DEF e
  <1> QED
    BY <1>1, <1>5, HandledOK

LEMMA ResponseTimeoutOK ==
    ASSUME NEW n, NEW x, NEW H, NEW f, FrameOK(f, n, x, H), NEW o
    PROVE  FrameOK(NotifyResponseTimeout(f, o), n, x, H)
  <1> DEFINE r == NoResponse(f)
  <1>1. FrameOK(r, n, x, H)
    BY NoResponseOK
  <1>2. NotifyResponseTimeout(f, o) \in {MessageHandled(r, o), MessageHandled(MarkAsDefunct(r), o)}
    BY DEF NotifyResponseTimeout, NoResponse
  <1> HIDE DEF r
  <1>3. FrameOK(MarkAsDefunct(r), n, x, H)
    BY <1>1, DefunctOK DEF FrameOK
  <1> QED
    BY <1>1, <1>2, <1>3, HandledOK

-----------------------------------------------------------------------------
(* From the frame at the end of a handler to the next state.               *)

LEMMA FrameIsOK ==
    ASSUME NEW n, NEW x, NEW H, NEW c, IsContext(c), Life(c), c.ackCtr \in H \cup {None},
           next[n] \in Nat \ {0}
    PROVE  FrameOK(Frame(n, x, c), n, x, H) /\ Frame(n, x, c).c = c
  <1> DEFINE f == Frame(n, x, c)
  <1>1. /\ f = [k \in FrameFields |-> f[k]]
        /\ f.n = n /\ f.x = x /\ f.c = c /\ f.next = next[n] /\ f.out = {}
        /\ f.delivered = {} /\ f.faults = {} /\ f.release = FALSE
    BY DEF Frame, FrameFields
  <1> HIDE DEF f
  <1>2. FrameShape(f, n, x, H)
    BY <1>1 DEF FrameShape
  <1> QED
    BY <1>1, <1>2 DEF FrameOK, f

LEMMA NewContextOK ==
    ASSUME NEW b \in BOOLEAN
    PROVE  /\ IsContext(NewExchangeContext(b)) /\ Life(NewExchangeContext(b))
           /\ NewExchangeContext(b).ackCtr = None
  <1> DEFINE c == NewExchangeContext(b)
  <1>1. /\ c = [k \in ContextFields |-> c[k]] /\ c.refs = 1
        /\ c.closed \in BOOLEAN /\ c.respExp \in BOOLEAN /\ c.timer \in BOOLEAN
        /\ c.willSend \in BOOLEAN /\ c.ackPend \in BOOLEAN /\ c.session \in BOOLEAN
        /\ ~c.closed /\ ~c.timer /\ c.session
        /\ c.ackCtr = None /\ c.retrans = None
    BY DEF NewExchangeContext, ContextFields
  <1> HIDE DEF c
  <1>2. IsContext(c) /\ Life(c)
    BY <1>1 DEF IsContext, Life
  <1> QED
    BY <1>1, <1>2 DEF c

(* A context that is good is never destroyed badly.                        *)
LEMMA NoFreeFaults ==
    ASSUME NEW c, Life(c)
    PROVE  FreeFaults(c) = {}
BY DEF Life, FreeFaults, Referenced, None

LEMMA HeardGrows ==
    ASSUME NEW n, NEW x, net \subseteq net', received[n] \subseteq received'[n]
    PROVE  Heard(n, x, received[n]) \subseteq Heard(n, x, received[n])'
BY DEF Heard

(* What Settle leaves, if the contexts it is given are good.               *)
LEMMA SettleOK ==
    ASSUME IInv, NEW n \in Node, NEW C, NEW alive, alive \subseteq Exchanges,
           \A z \in alive : /\ IsContext(C[z]) /\ Life(C[z])
                            /\ C[z].ackCtr \in Heard(n, z, received[n])' \cup {None},
           net \subseteq net', \A p \in Node : received[p] \subseteq received'[p],
           Settle(n, C, alive)
    PROVE  /\ ContextInv'
           /\ (live = [p \in Node |-> live[p]])'
           /\ (\A p \in Node : live[p] \subseteq Exchanges)'
           /\ (ctx = [p \in Node |-> ctx[p]])'
  <1> DEFINE kept == {z \in alive : Referenced(C[z])}
             new == [z \in Exchanges |-> IF z \in kept THEN C[z] ELSE NoContext]
  <1>1. /\ live' = [live EXCEPT ![n] = kept]
        /\ ctx' = [ctx EXCEPT ![n] = new]
    BY DEF Settle
  <1>2. kept \subseteq alive /\ \A z \in kept : new[z] = C[z]
    OBVIOUS
  <1>3. /\ live = [p \in Node |-> live[p]] /\ ctx = [p \in Node |-> ctx[p]]
        /\ \A p \in Node : live[p] \subseteq Exchanges
    BY DEF IInv, TypeInv
  <1> HIDE DEF kept, new
  <1>4. /\ live'[n] = kept /\ ctx'[n] = new
        /\ \A p \in Node \ {n} : live'[p] = live[p] /\ ctx'[p] = ctx[p]
        /\ live' = [p \in Node |-> live'[p]] /\ ctx' = [p \in Node |-> ctx'[p]]
    BY <1>1, <1>3
  <1>5. \A p \in Node : live'[p] \subseteq Exchanges
    BY <1>2, <1>3, <1>4
  <1>6. ASSUME NEW p \in Node, NEW z \in live'[p]
        PROVE  /\ IsContext(ctx'[p][z]) /\ Life(ctx'[p][z])
               /\ ctx'[p][z].ackCtr \in Heard(p, z, received[p])' \cup {None}
    <2>1. CASE p = n
      <3>1. z \in alive /\ ctx'[p][z] = C[z]
        BY <1>2, <1>4, <1>6, <2>1
      <3> QED
        BY <2>1, <3>1
    <2>2. CASE p # n
      <3>1. z \in live[p] /\ ctx'[p][z] = ctx[p][z]
        BY <1>4, <1>6, <2>2
      <3>2. /\ IsContext(ctx[p][z]) /\ Life(ctx[p][z])
            /\ ctx[p][z].ackCtr \in Heard(p, z, received[p]) \cup {None}
        BY <3>1 DEF IInv, ContextInv
      <3>3. Heard(p, z, received[p]) \subseteq Heard(p, z, received[p])'
        BY HeardGrows
      <3> QED
        BY <3>1, <3>2, <3>3
    <2> QED
      BY <2>1, <2>2
  <1>7. ContextInv'
    BY <1>6 DEF ContextInv
  <1> QED
    BY <1>4, <1>5, <1>7

LEMMA ReleasedOK ==
    ASSUME IInv, NEW n \in Node, NEW z \in live[n]
    PROVE  /\ IsContext(ReleasedContext(n, z)) /\ Life(ReleasedContext(n, z))
           /\ ReleasedContext(n, z).ackCtr \in Heard(n, z, received[n]) \cup {None}
  <1>0. PICK H : H = Heard(n, z, received[n])
    OBVIOUS
  <1>1. /\ IsContext(ctx[n][z]) /\ Life(ctx[n][z])
        /\ ctx[n][z].ackCtr \in H \cup {None}
    BY <1>0 DEF IInv, ContextInv
  <1>2. next[n] \in Nat \ {0}
    BY DEF IInv, TypeInv
  <1> DEFINE f == Frame(n, z, ctx[n][z])
  <1>3. FrameOK(f, n, z, H)
    BY <1>1, <1>2, FrameIsOK
  <1> HIDE DEF f
  <1>4. FrameOK(OnSessionReleased(f), n, z, H)
    BY <1>3, OnSessionReleasedOK
  <1> DEFINE g == OnSessionReleased(f)
  <1>5. ReleasedContext(n, z) = g.c
    BY DEF ReleasedContext, f
  <1> HIDE DEF g
  <1>6. IsContext(g.c) /\ Life(g.c) /\ g.c.ackCtr \in H \cup {None}
    BY <1>4 DEF FrameOK, FrameShape, g
  <1> QED
    BY <1>0, <1>5, <1>6

LEMMA FinishOK ==
    ASSUME IInv, NEW n \in Node, NEW x \in Exchanges, NEW H, NEW f, FrameOK(f, n, x, H),
           NEW R, received' = [received EXCEPT ![n] = R], received[n] \subseteq R,
           H = Heard(n, x, R), Finish(f)
    PROVE  IInv'
  <1> DEFINE C == [z \in Exchanges |->
                      IF z = f.x THEN f.c
                      ELSE IF f.release /\ z \in live[f.n] /\ ctx[f.n][z].session
                      THEN ReleasedContext(f.n, z)
                      ELSE ctx[f.n][z]]
             alive == live[f.n] \cup {f.x}
  <1>0. /\ f.n = n /\ f.x = x /\ IsContext(f.c) /\ Life(f.c)
        /\ f.c.ackCtr \in H \cup {None} /\ f.next \in Nat \ {0}
        /\ f.delivered \subseteq H /\ f.faults \subseteq {"unackedDrop"}
        /\ \A m \in f.out : /\ m.src = n /\ m.ex = x
                            /\ m.kind \in {"app", "sack"} /\ (m.kind = "app" <=> m.ctr # None)
                            /\ m.ack \in H \cup {None}
    BY DEF FrameOK, FrameShape
  <1>1. /\ TypeInv /\ ContextInv /\ NetInv /\ faults \subseteq {"unackedDrop"}
        /\ \A p \in Node : delivered[p] \subseteq received[p]
    BY DEF IInv
  <1>2. /\ Settle(f.n, C, alive)
        /\ next' = [next EXCEPT ![f.n] = f.next]
        /\ net' = net \cup f.out
        /\ delivered' = [delivered EXCEPT ![f.n] = @ \cup f.delivered]
        /\ faults' = faults \cup f.faults \cup UNION {FreeFaults(C[z]) : z \in alive}
    BY DEF Finish
  <1>3. /\ received' = [p \in Node |-> received'[p]] /\ received'[n] = R
        /\ \A p \in Node : received[p] \subseteq received'[p]
    BY <1>1 DEF TypeInv
  <1>4. net \subseteq net'
    BY <1>2
  <1>5. H \subseteq Heard(n, x, received[n])' /\ H \subseteq received'[n]
    BY <1>3, <1>4 DEF Heard
  <1>6. ASSUME NEW z \in alive
        PROVE  /\ IsContext(C[z]) /\ Life(C[z])
               /\ C[z].ackCtr \in Heard(n, z, received[n])' \cup {None}
    <2>0. z \in Exchanges
      BY <1>0, <1>1, <1>6 DEF TypeInv
    <2>1. CASE z = x
      <3>1. C[z] = f.c
        BY <1>0, <2>0, <2>1
      <3> HIDE DEF C
      <3> QED
        BY <1>0, <1>5, <2>1, <3>1
    <2>2. CASE z # x
      <3>1. z \in live[n] /\ C[z] \in {ReleasedContext(n, z), ctx[n][z]}
        BY <1>0, <1>6, <2>0, <2>2
      <3>2. Heard(n, z, received[n]) \subseteq Heard(n, z, received[n])'
        BY <1>3, <1>4, HeardGrows
      <3> HIDE DEF C
      <3>3. /\ IsContext(ctx[n][z]) /\ Life(ctx[n][z])
            /\ ctx[n][z].ackCtr \in Heard(n, z, received[n]) \cup {None}
        BY <1>1, <3>1 DEF ContextInv
      <3>4. /\ IsContext(ReleasedContext(n, z)) /\ Life(ReleasedContext(n, z))
            /\ ReleasedContext(n, z).ackCtr \in Heard(n, z, received[n]) \cup {None}
        BY <3>1, ReleasedOK
      <3> QED
        BY <3>1, <3>2, <3>3, <3>4
    <2> QED
      BY <2>1, <2>2
  <1>7. alive \subseteq Exchanges
    BY <1>0, <1>1 DEF TypeInv
  <1> HIDE DEF C, alive
  <1>8. /\ ContextInv'
        /\ (live = [p \in Node |-> live[p]])'
        /\ (\A p \in Node : live[p] \subseteq Exchanges)'
        /\ (ctx = [p \in Node |-> ctx[p]])'
    <2>1. Settle(n, C, alive)
      BY <1>0, <1>2
    <2> QED
      BY <1>3, <1>4, <1>6, <1>7, <2>1, SettleOK
  <1>9. faults' \subseteq {"unackedDrop"}
    <2>1. \A z \in alive : FreeFaults(C[z]) = {}
      BY <1>6, NoFreeFaults
    <2>2. PICK U : U = UNION {FreeFaults(C[z]) : z \in alive}
      OBVIOUS
    <2>3. U = {}
      BY <2>1, <2>2
    <2>4. faults' = faults \cup f.faults \cup U
      BY <1>2, <2>2
    <2> QED
      BY <1>0, <1>1, <2>3, <2>4
  <1>10. TypeInv'
    <2>1. next' \in [Node -> Nat \ {0}]
      BY <1>0, <1>1, <1>2 DEF TypeInv
    <2>2. delivered' = [p \in Node |-> delivered'[p]]
      BY <1>0, <1>1, <1>2 DEF TypeInv
    <2> QED
      BY <1>3, <1>8, <2>1, <2>2 DEF TypeInv
  <1>11. \A p \in Node : delivered'[p] \subseteq received'[p]
    BY <1>0, <1>1, <1>2, <1>3, <1>5 DEF TypeInv
  <1>12. NetInv'
    <2> SUFFICES ASSUME NEW m \in net'
                 PROVE  /\ m.src \in Node /\ m.ex \in Exchanges
                        /\ m.kind \in {"app", "sack"} /\ (m.kind = "app" <=> m.ctr # None)
                        /\ m.ack \in Heard(m.src, m.ex, received[m.src])' \cup {None}
      BY DEF NetInv
    <2>1. CASE m \in net
      <3>1. /\ m.src \in Node /\ m.ex \in Exchanges
            /\ m.kind \in {"app", "sack"} /\ (m.kind = "app" <=> m.ctr # None)
            /\ m.ack \in Heard(m.src, m.ex, received[m.src]) \cup {None}
        BY <1>1, <2>1 DEF NetInv
      <3>2. Heard(m.src, m.ex, received[m.src]) \subseteq Heard(m.src, m.ex, received[m.src])'
        <4>1. received[m.src] \subseteq received'[m.src]
          BY <1>3, <3>1
        <4> QED
          BY <1>4, <4>1 DEF Heard
      <3> QED
        BY <3>1, <3>2
    <2>2. CASE m \in f.out
      BY <1>0, <1>5, <2>2
    <2> QED
      BY <1>2, <2>1, <2>2
  <1> QED
    BY <1>8, <1>9, <1>10, <1>11, <1>12 DEF IInv

LEMMA NowIsOK ==
    ASSUME IInv, NEW n \in Node, NEW x \in live[n], NEW H,
           Heard(n, x, received[n]) \subseteq H
    PROVE  FrameOK(Now(n, x), n, x, H) /\ Now(n, x).c = ctx[n][x]
  <1>1. /\ IsContext(ctx[n][x]) /\ Life(ctx[n][x]) /\ ctx[n][x].ackCtr \in H \cup {None}
    BY DEF IInv, ContextInv
  <1>2. next[n] \in Nat \ {0}
    BY DEF IInv, TypeInv
  <1> QED
    BY <1>1, <1>2, FrameIsOK DEF Now

(* A handler that commits no counter.                                      *)
LEMMA FinishHereOK ==
    ASSUME IInv, NEW n \in Node, NEW x \in Exchanges, NEW H, H = Heard(n, x, received[n]),
           NEW f, FrameOK(f, n, x, H), Finish(f), UNCHANGED received
    PROVE  IInv'
  <1>1. PICK R : R = received[n]
    OBVIOUS
  <1>2. received' = [received EXCEPT ![n] = R] /\ received[n] \subseteq R
    BY <1>1 DEF IInv, TypeInv
  <1>3. H = Heard(n, x, R)
    BY <1>1
  <1> QED
    BY <1>2, <1>3, FinishOK

LEMMA NewContextStep ==
    ASSUME IInv, NEW n \in Node, NEW x \in Exchanges, NewContext(n, x)
    PROVE  IInv'
  <1>1. PICK H : H = Heard(n, x, received[n])
    OBVIOUS
  <1>2. PICK b \in BOOLEAN : b = TRUE
    OBVIOUS
  <1>3. /\ IsContext(NewExchangeContext(b)) /\ Life(NewExchangeContext(b))
        /\ NewExchangeContext(b).ackCtr = None
    BY NewContextOK
  <1>4. Finish(Frame(n, x, NewExchangeContext(b))) /\ UNCHANGED received
    BY <1>2 DEF NewContext
  <1>5. next[n] \in Nat \ {0}
    BY DEF IInv, TypeInv
  <1>6. FrameOK(Frame(n, x, NewExchangeContext(b)), n, x, H)
    BY <1>3, <1>5, FrameIsOK
  <1> QED
    BY <1>1, <1>4, <1>6, FinishHereOK

(* The steps of the application and of the timers, on a live exchange, and *)
(* what they make of its frame.                                            *)
Local(n, x) ==
    \/ SendAnnounced(n, x) \/ HolderRelease(n, x)
    \/ CloseAllContextsForDelegate(n, x)
    \/ ResponseTimeout(n, x) \/ AckTimeout(n, x) \/ Retransmit(n, x) \/ GiveUp(n, x)

LocalFrame(f, g) ==
    \/ /\ f.c.willSend
       /\ \E expect \in BOOLEAN, o \in Outcomes : g = SendMessage(f, expect, o)
    \/ \E o \in Outcomes : g \in {Abort(f, o), Close(f, o), NotifyResponseTimeout(f, o),
                                  SendStandaloneAckMessage(f, o)}
    \/ g \in {[f EXCEPT !.c.sendCount = @ + 1], ClearRetransTable(f),
              ClearRetransTable(MarkAsDefunct(f))}

LEMMA LocalIsOK ==
    ASSUME IInv, NEW n \in Node, NEW x \in Exchanges, Local(n, x),
           NEW H, H = Heard(n, x, received[n])
    PROVE  /\ x \in live[n] /\ UNCHANGED received
           /\ \E g : FrameOK(g, n, x, H) /\ LocalFrame(Now(n, x), g) /\ Finish(g)
  <1>2. x \in live[n] /\ UNCHANGED received
    BY DEF Local, SendAnnounced, HolderRelease, CloseAllContextsForDelegate, ResponseTimeout,
           AckTimeout, Retransmit, GiveUp
  <1> DEFINE f == Now(n, x)
  <1>3. FrameOK(f, n, x, H) /\ f.c = ctx[n][x]
    BY <1>2, NowIsOK
  <1>4. FrameShape(f, n, x, H) /\ Life(f.c) /\ IsContext(f.c)
    BY <1>3 DEF FrameOK, FrameShape
  <1> SUFFICES \E g : FrameOK(g, n, x, H) /\ LocalFrame(f, g) /\ Finish(g)
    BY <1>2
  <1>5. CASE SendAnnounced(n, x)
    <2>1. PICK expect \in BOOLEAN, o \in Outcomes \ {"nobuf"} :
             Finish(SendMessage(f, expect, o))
      BY <1>5 DEF SendAnnounced
    <2>2. f.c.refs > 0 /\ f.c.willSend
      BY <1>3, <1>5 DEF SendAnnounced
    <2> HIDE DEF f
    <2>3. f.c.session => ~f.c.closed
      BY <1>4, <2>2 DEF Life
    <2>4. FrameOK(SendMessage(f, expect, o), n, x, H)
      BY <1>3, <2>3, SendMessageOK
    <2> QED
      BY <2>1, <2>2, <2>4 DEF LocalFrame
  <1>6. CASE HolderRelease(n, x)
    <2>1. PICK o \in Outcomes : Finish(Abort(f, o))
      BY <1>6 DEF HolderRelease
    <2>2. f.c.refs > 0
      BY <1>3, <1>6 DEF HolderRelease
    <2> HIDE DEF f
    <2>3. f.c.refs = 1
      BY <1>4, <2>2 DEF Life
    <2>4. FrameOK(Abort(f, o), n, x, H)
      BY <1>3, <2>3, ClosedOK DEF Abort
    <2> QED
      BY <2>1, <2>4 DEF LocalFrame
  <1>7. CASE CloseAllContextsForDelegate(n, x)
    <2>1. PICK o \in Outcomes : Finish(Close(f, o))
      BY <1>7 DEF CloseAllContextsForDelegate
    <2>2. ~f.c.closed
      BY <1>3, <1>7 DEF CloseAllContextsForDelegate
    <2> HIDE DEF f
    <2>3. FrameOK(Close(f, o), n, x, H)
      BY <1>3, <2>2, ClosedOK DEF Close
    <2> QED
      BY <2>1, <2>3 DEF LocalFrame
  <1>8. CASE ResponseTimeout(n, x)
    <2>1. PICK o \in Outcomes : Finish(NotifyResponseTimeout(f, o))
      BY <1>8 DEF ResponseTimeout
    <2> HIDE DEF f
    <2> QED
      BY <1>3, <2>1, ResponseTimeoutOK DEF LocalFrame
  <1>9. CASE AckTimeout(n, x)
    <2>1. PICK o \in Outcomes : Finish(SendStandaloneAckMessage(f, o))
      BY <1>9 DEF AckTimeout
    <2> HIDE DEF f
    <2> DEFINE g == SendStandaloneAckMessage(f, o)
    <2>2. FrameShape(g, n, x, H) /\ SameLife(f.c, g.c)
      BY <1>4, StandaloneAckOK
    <2>3. FrameOK(g, n, x, H)
      <3> HIDE DEF g
      <3> QED
        BY <1>4, <2>2, SameLifeOK DEF FrameOK
    <2> QED
      BY <2>1, <2>3 DEF LocalFrame
  <1>10. FrameOK(ClearRetransTable(f), n, x, H)
    <2> HIDE DEF f
    <2> DEFINE g == ClearRetransTable(f)
    <2>1. FrameShape(g, n, x, H) /\ Life(g.c)
      BY <1>4, ClearRetransOK
    <2> QED
      BY <2>1 DEF FrameOK
  <1>11. CASE Retransmit(n, x)
    <2> DEFINE d == [f.c EXCEPT !.sendCount = @ + 1]
               g == [f EXCEPT !.c.sendCount = @ + 1]
    <2>1. /\ Finish(g) \/ Finish(ClearRetransTable(f))
          /\ LocalFrame(f, g) /\ LocalFrame(f, ClearRetransTable(f))
      BY <1>11 DEF Retransmit, LocalFrame
    <2> HIDE DEF f
    <2>2. g = [f EXCEPT !.c = d]
      BY <1>4 DEF FrameShape, FrameFields
    <2>3. IsContext(d) /\ d.ackCtr = f.c.ackCtr /\ SameLife(f.c, d)
      BY <1>4 DEF FrameShape, IsContext, ContextFields, SameLife
    <2>4. f.c.ackCtr \in H \cup {None}
      BY <1>4 DEF FrameShape
    <2> HIDE DEF d, g
    <2>5. FrameShape(g, n, x, H) /\ g.c = d
      BY <1>4, <2>2, <2>3, <2>4, ContextUpdate
    <2>6. Life(d)
      BY <1>4, <2>3, SameLifeOK
    <2>7. FrameOK(g, n, x, H)
      BY <2>5, <2>6 DEF FrameOK
    <2> QED
      BY <1>10, <2>1, <2>7
  <1>12. CASE GiveUp(n, x)
    <2> DEFINE e == MarkAsDefunct(f)
               g == ClearRetransTable(e)
    <2>1. /\ Finish(g) \/ Finish(ClearRetransTable(f))
          /\ LocalFrame(f, g) /\ LocalFrame(f, ClearRetransTable(f))
      BY <1>12 DEF GiveUp, LocalFrame
    <2> HIDE DEF f
    <2>2. FrameShape(e, n, x, H) /\ Life(e.c)
      BY <1>4, DefunctOK
    <2> HIDE DEF e
    <2>3. FrameShape(g, n, x, H) /\ Life(g.c)
      BY <2>2, ClearRetransOK
    <2> HIDE DEF g
    <2> QED
      BY <1>10, <2>1, <2>3 DEF FrameOK
  <1> QED
    BY <1>5, <1>6, <1>7, <1>8, <1>9, <1>11, <1>12 DEF Local

LEMMA LocalStep ==
    ASSUME IInv, NEW n \in Node, NEW x \in Exchanges, Local(n, x)
    PROVE  IInv'
  <1>1. PICK H : H = Heard(n, x, received[n])
    OBVIOUS
  <1> QED
    BY <1>1, LocalIsOK, FinishHereOK

-----------------------------------------------------------------------------
(* Messages.                                                               *)

(* The exchange MatchExchange finds is the one the message belongs to: the *)
(* id and the opposite role decide it between two nodes.                   *)
LEMMA MatchIsExact ==
    ASSUME NEW n \in Node, NEW m, m.src \in Node, m.src # n, m.ex \in Exchanges,
           NEW x \in Exchanges, MatchExchange(n, m, x)
    PROVE  x = m.ex
  <1> DEFINE e == m.ex
  <1>1. /\ x.initiator \in Node /\ e.initiator \in Node /\ x.id = e.id
        /\ x = [initiator |-> x.initiator, id |-> x.id]
        /\ e = [initiator |-> e.initiator, id |-> e.id]
    BY ExchangeAssumption DEF MatchExchange
  <1>2. \A p \in Node : p # n => p = m.src
    BY ExchangeAssumption
  <1>3. (m.src = e.initiator) # (x.initiator = n)
    BY DEF MatchExchange
  <1> HIDE DEF e
  <1>4. x.initiator = e.initiator
    BY <1>1, <1>2, <1>3
  <1> QED
    BY <1>1, <1>4 DEF e

(* What a message from the network brings: the counters that may be acked  *)
(* after it is committed.                                                  *)
Arrives(n, m, R, H) ==
    /\ received' = [received EXCEPT ![n] = R] /\ received[n] \subseteq R
    /\ R \subseteq received[n] \cup ({m.ctr} \ {None})
    /\ H = Heard(n, m.ex, R) /\ Heard(n, m.ex, received[n]) \subseteq H
    /\ m.kind = "app" => m.ctr \in H

LEMMA CommitOK ==
    ASSUME IInv, NEW n \in Node, NEW m \in net, m.src # n, Commit(n, m)
    PROVE  \E R, H : Arrives(n, m, R, H)
  <1> DEFINE R == received[n] \cup ({m.ctr} \ {None})
  <1>1. /\ received' = [received EXCEPT ![n] = R] /\ received[n] \subseteq R
        /\ R \subseteq received[n] \cup ({m.ctr} \ {None})
    BY DEF Commit
  <1>2. m.kind = "app" => m.ctr # None
    BY DEF IInv, NetInv
  <1>3. Heard(n, m.ex, received[n]) \subseteq Heard(n, m.ex, R)
    BY DEF Heard
  <1>4. m.kind = "app" => m.ctr \in Heard(n, m.ex, R)
    BY <1>2 DEF Heard
  <1> HIDE DEF R
  <1> QED
    BY <1>1, <1>3, <1>4 DEF Arrives

MatchedFrame(n, m, reaction, o) ==
    HandleMessage(MarkActiveRx(Now(n, m.ex)), m, IsDuplicate(n, m), reaction, o)

LEMMA MatchedIsOK ==
    ASSUME IInv, NEW n \in Node, NEW m \in net, m.src # n, Matched(n, m),
           NEW R, NEW H, Arrives(n, m, R, H)
    PROVE  /\ m.ex \in live[n] /\ ctx[n][m.ex].session
           /\ \E o \in Outcomes, reaction \in Reactions \ {"refuse"} :
                 /\ FrameOK(MatchedFrame(n, m, reaction, o), n, m.ex, H)
                 /\ Finish(MatchedFrame(n, m, reaction, o))
  <1>1. PICK x \in Exchanges, o \in Outcomes, reaction \in Reactions \ {"refuse"} :
           /\ MatchExchange(n, m, x)
           /\ Finish(HandleMessage(MarkActiveRx(Now(n, x)), m, IsDuplicate(n, m),
                                   reaction, o))
    BY DEF Matched
  <1>2. /\ m.src \in Node /\ m.ex \in Exchanges /\ m.kind \in {"app", "sack"}
        /\ delivered[n] \subseteq received[n]
    BY DEF IInv, NetInv
  <1>3. x = m.ex /\ x \in live[n] /\ ctx[n][x].session
    BY <1>1, <1>2, MatchIsExact DEF MatchExchange
  <1>5. /\ H = Heard(n, m.ex, R) /\ Heard(n, m.ex, received[n]) \subseteq H
        /\ m.kind = "app" => m.ctr \in H
    BY DEF Arrives
  <1> DEFINE f == Now(n, x)
             g == MarkActiveRx(f)
             dup == IsDuplicate(n, m)
             h == HandleMessage(g, m, dup, reaction, o)
  <1>6. FrameOK(f, n, x, H)
    BY <1>3, <1>5, NowIsOK
  <1>7. dup \in BOOLEAN /\ (m.kind = "app" /\ ~dup => m.ctr \notin delivered[n])
    BY <1>2 DEF IsDuplicate
  <1>8. reaction \in AllReactions
    BY ExchangeAssumption
  <1>9. Finish(h) /\ h = MatchedFrame(n, m, reaction, o)
    BY <1>1, <1>3 DEF MatchedFrame
  <1> HIDE DEF f, dup
  <1>10. FrameOK(g, n, x, H)
    BY <1>6, DefunctOK DEF FrameOK
  <1> HIDE DEF g
  <1>11. m.kind = "app" => m.ctr \in H
    BY <1>5
  <1>12. FrameOK(h, n, x, H)
    BY <1>2, <1>7, <1>8, <1>10, <1>11, HandleMessageOK
  <1> HIDE DEF h
  <1> QED
    BY <1>3, <1>9, <1>12

LEMMA MatchedStep ==
    ASSUME IInv, NEW n \in Node, NEW m \in net, m.src # n, Matched(n, m)
    PROVE  IInv'
  <1>1. PICK R, H : Arrives(n, m, R, H)
    BY CommitOK DEF Matched
  <1>2. PICK o \in Outcomes, reaction \in Reactions \ {"refuse"} :
                 /\ FrameOK(MatchedFrame(n, m, reaction, o), n, m.ex, H)
                 /\ Finish(MatchedFrame(n, m, reaction, o))
    BY <1>1, MatchedIsOK
  <1>3. m.ex \in Exchanges
    BY DEF IInv, NetInv
  <1> QED
    BY <1>1, <1>2, <1>3, FinishOK DEF Arrives

UnsolicitedFrame(n, m, reaction, o) ==
    HandleMessage(MarkActiveRx(Frame(n, m.ex, NewExchangeContext(FALSE))), m, FALSE,
                  reaction, o)

LEMMA UnsolicitedIsOK ==
    ASSUME IInv, NEW n \in Node, NEW m \in net, m.src # n, Unsolicited(n, m),
           NEW R, NEW H, Arrives(n, m, R, H)
    PROVE  \E o \in Outcomes, reaction \in Reactions \ {"refuse"} :
              /\ FrameOK(UnsolicitedFrame(n, m, reaction, o), n, m.ex, H)
              /\ Finish(UnsolicitedFrame(n, m, reaction, o))
  <1>0. PICK b \in BOOLEAN : b = FALSE
    OBVIOUS
  <1>1. PICK o \in Outcomes, reaction \in Reactions \ {"refuse"} :
           Finish(HandleMessage(MarkActiveRx(Frame(n, m.ex, NewExchangeContext(b))), m, b,
                                reaction, o))
    BY <1>0 DEF Unsolicited
  <1>2. /\ m.ex \in Exchanges /\ m.kind \in {"app", "sack"}
        /\ delivered[n] \subseteq received[n] /\ next[n] \in Nat \ {0}
    BY DEF IInv, NetInv, TypeInv
  <1>3. m.kind = "app" => m.ctr \notin delivered[n]
    BY <1>2 DEF Unsolicited, IsUnsolicited, IsDuplicate
  <1>5. /\ H = Heard(n, m.ex, R) /\ Heard(n, m.ex, received[n]) \subseteq H
        /\ m.kind = "app" => m.ctr \in H
    BY DEF Arrives
  <1> DEFINE x == m.ex
             c == NewExchangeContext(b)
             f == Frame(n, x, c)
             g == MarkActiveRx(f)
             h == HandleMessage(g, m, b, reaction, o)
  <1>6. IsContext(c) /\ Life(c) /\ c.ackCtr = None
    BY NewContextOK
  <1>9. Finish(h) /\ x \in Exchanges /\ h = UnsolicitedFrame(n, m, reaction, o)
    BY <1>0, <1>1, <1>2 DEF UnsolicitedFrame
  <1> HIDE DEF c, x
  <1>7. FrameOK(f, n, x, H)
    BY <1>2, <1>6, FrameIsOK
  <1>8. reaction \in AllReactions
    BY ExchangeAssumption
  <1> HIDE DEF f
  <1>10. FrameOK(g, n, x, H)
    BY <1>7, DefunctOK DEF FrameOK
  <1> HIDE DEF g
  <1>11. m.kind = "app" => m.ctr \in H
    BY <1>5
  <1>12. FrameOK(h, n, x, H)
    BY <1>2, <1>3, <1>8, <1>10, <1>11, HandleMessageOK
  <1> HIDE DEF h
  <1> QED
    BY <1>9, <1>12 DEF x

LEMMA UnsolicitedStep ==
    ASSUME IInv, NEW n \in Node, NEW m \in net, m.src # n, Unsolicited(n, m)
    PROVE  IInv'
  <1>1. PICK R, H : Arrives(n, m, R, H)
    BY CommitOK DEF Unsolicited
  <1>2. PICK o \in Outcomes, reaction \in Reactions \ {"refuse"} :
              /\ FrameOK(UnsolicitedFrame(n, m, reaction, o), n, m.ex, H)
              /\ Finish(UnsolicitedFrame(n, m, reaction, o))
    BY <1>1, UnsolicitedIsOK
  <1>3. m.ex \in Exchanges
    BY DEF IInv, NetInv
  <1> QED
    BY <1>1, <1>2, <1>3, FinishOK DEF Arrives

EphemeralFrame(n, m, o) ==
    Close(FlushAcks(HandleNeedsAck(MarkActiveRx(Frame(n, m.ex, NewExchangeContext(FALSE))),
                                   m.ctr, IsDuplicate(n, m), o), o), o)

LEMMA EphemeralIsOK ==
    ASSUME IInv, NEW n \in Node, NEW m \in net, m.src # n, EphemeralAck(n, m),
           NEW R, NEW H, Arrives(n, m, R, H)
    PROVE  \E o \in Outcomes : /\ FrameOK(EphemeralFrame(n, m, o), n, m.ex, H)
                              /\ Finish(EphemeralFrame(n, m, o))
                              /\ EphemeralFrame(n, m, o).c.refs = 0
  <1>0. PICK b \in BOOLEAN : b = FALSE
    OBVIOUS
  <1> DEFINE x == m.ex
             c == NewExchangeContext(b)
             f == MarkActiveRx(Frame(n, x, c))
  <1>1. PICK o \in Outcomes :
           Finish(Close(FlushAcks(HandleNeedsAck(f, m.ctr, IsDuplicate(n, m), o), o), o))
    BY <1>0 DEF EphemeralAck
  <1>2. m.ex \in Exchanges /\ m.kind = "app" /\ next[n] \in Nat \ {0}
    BY DEF IInv, NetInv, TypeInv, EphemeralAck
  <1>5. /\ H = Heard(n, m.ex, R) /\ Heard(n, m.ex, received[n]) \subseteq H
        /\ m.kind = "app" => m.ctr \in H
    BY DEF Arrives
  <1> DEFINE dup == IsDuplicate(n, m)
             k == m.ctr
             g == HandleNeedsAck(f, k, dup, o)
             h == FlushAcks(g, o)
             z == Close(h, o)
  <1>6. IsContext(c) /\ Life(c) /\ c.ackCtr = None
    BY NewContextOK
  <1>7. ~c.closed
    BY DEF NewExchangeContext
  <1>8. /\ Finish(z) /\ x \in Exchanges /\ k \in H
        /\ z = EphemeralFrame(n, m, o)
    BY <1>0, <1>1, <1>2, <1>5 DEF EphemeralFrame
  <1> HIDE DEF c, x, dup, k
  <1>9. FrameShape(f, n, x, H) /\ Life(f.c) /\ ~f.c.closed
    <2> DEFINE e == Frame(n, x, c)
    <2>1. FrameShape(e, n, x, H) /\ e.c = c
      BY <1>2, <1>6, FrameIsOK DEF FrameOK
    <2> HIDE DEF e
    <2>2. FrameShape(MarkActiveRx(e), n, x, H) /\ MarkActiveRx(e).c = c
      BY <2>1, DefunctOK
    <2> QED
      BY <1>6, <1>7, <2>2 DEF e
  <1> HIDE DEF f
  <1>10. FrameShape(g, n, x, H) /\ SameLife(f.c, g.c)
    BY <1>8, <1>9, NeedsAckOK
  <1> HIDE DEF g
  <1>11. FrameShape(h, n, x, H) /\ SameLife(g.c, h.c)
    BY <1>10, FlushOK
  <1> HIDE DEF h
  <1>12. Life(h.c) /\ ~h.c.closed
    BY <1>9, <1>10, <1>11, SameLifeOK DEF SameLife
  <1>13. FrameOK(z, n, x, H) /\ z.c.refs = 0
    BY <1>11, <1>12, ClosedOK DEF Close, FrameOK
  <1> HIDE DEF z
  <1> QED
    BY <1>8, <1>13 DEF x

LEMMA EphemeralAckStep ==
    ASSUME IInv, NEW n \in Node, NEW m \in net, m.src # n, EphemeralAck(n, m)
    PROVE  IInv'
  <1>1. PICK R, H : Arrives(n, m, R, H)
    BY CommitOK DEF EphemeralAck
  <1>2. PICK o \in Outcomes : /\ FrameOK(EphemeralFrame(n, m, o), n, m.ex, H)
                              /\ Finish(EphemeralFrame(n, m, o))
    BY <1>1, EphemeralIsOK
  <1>3. m.ex \in Exchanges
    BY DEF IInv, NetInv
  <1> QED
    BY <1>1, <1>2, <1>3, FinishOK DEF Arrives

LEMMA DroppedStep ==
    ASSUME IInv, NEW n \in Node, NEW m \in net, m.src # n, Dropped(n, m)
    PROVE  IInv'
  <1>1. /\ Commit(n, m) /\ UNCHANGED <<live, ctx, next, net, delivered, faults>>
    BY DEF Dropped
  <1>2. /\ received' = [p \in Node |-> received'[p]]
        /\ \A p \in Node : received[p] \subseteq received'[p]
    BY <1>1 DEF IInv, TypeInv, Commit
  <1>3. \A p \in Node : \A z : Heard(p, z, received[p]) \subseteq Heard(p, z, received[p])'
    BY <1>1, <1>2, HeardGrows
  <1>4. TypeInv'
    BY <1>1, <1>2 DEF IInv, TypeInv
  <1>5. ContextInv'
    BY <1>1, <1>3 DEF IInv, ContextInv
  <1>6. NetInv'
    BY <1>1, <1>3 DEF IInv, NetInv
  <1> QED
    BY <1>1, <1>2, <1>4, <1>5, <1>6 DEF IInv

LEMMA EvictionStep ==
    ASSUME IInv, NEW n \in Node, MarkForEviction(n)
    PROVE  IInv'
  <1> DEFINE C == [z \in Exchanges |-> IF z \in live[n] THEN ReleasedContext(n, z)
                                       ELSE ctx[n][z]]
  <1>1. /\ Settle(n, C, live[n]) /\ UNCHANGED <<next, net, received, delivered>>
        /\ faults' = faults \cup UNION {FreeFaults(C[z]) : z \in live[n]}
    BY DEF MarkForEviction
  <1>2. live[n] \subseteq Exchanges
    BY DEF IInv, TypeInv
  <1>3. ASSUME NEW z \in live[n]
        PROVE  /\ IsContext(C[z]) /\ Life(C[z])
               /\ C[z].ackCtr \in Heard(n, z, received[n])' \cup {None}
    <2>1. C[z] = ReleasedContext(n, z)
      BY <1>2
    <2> HIDE DEF C
    <2>2. Heard(n, z, received[n])' = Heard(n, z, received[n])
      BY <1>1 DEF Heard
    <2> QED
      BY <2>1, <2>2, ReleasedOK
  <1> HIDE DEF C
  <1>4. /\ ContextInv'
        /\ (live = [p \in Node |-> live[p]])'
        /\ (\A p \in Node : live[p] \subseteq Exchanges)'
        /\ (ctx = [p \in Node |-> ctx[p]])'
    <2>1. net \subseteq net' /\ \A p \in Node : received[p] \subseteq received'[p]
      BY <1>1
    <2> QED
      BY <1>1, <1>2, <1>3, <2>1, SettleOK
  <1>5. faults' \subseteq {"unackedDrop"}
    <2>1. \A z \in live[n] : FreeFaults(C[z]) = {}
      BY <1>3, NoFreeFaults
    <2> QED
      BY <1>1, <2>1 DEF IInv
  <1>6. TypeInv'
    BY <1>1, <1>4 DEF IInv, TypeInv
  <1>7. NetInv'
    BY <1>1 DEF IInv, NetInv, Heard
  <1> QED
    BY <1>1, <1>4, <1>5, <1>6, <1>7 DEF IInv

-----------------------------------------------------------------------------
(* The theorems.                                                           *)

LEMMA InitOK == Init => IInv
  <1> SUFFICES ASSUME Init PROVE IInv
    OBVIOUS
  <1>1. TypeInv
    BY DEF Init, TypeInv
  <1>2. ContextInv /\ NetInv
    BY DEF Init, ContextInv, NetInv
  <1> QED
    BY <1>1, <1>2 DEF Init, IInv

LEMMA NextStep ==
    ASSUME IInv, [Next]_vars
    PROVE  IInv'
  <1>1. ASSUME NEW n \in Node, NEW x \in Exchanges, NewContext(n, x)
        PROVE  IInv'
    BY <1>1, NewContextStep
  <1>2. ASSUME NEW n \in Node, NEW x \in Exchanges, Local(n, x)
        PROVE  IInv'
    BY <1>2, LocalStep
  <1>3. ASSUME NEW n \in Node, NEW m \in net, Receive(n, m)
        PROVE  IInv'
    <2>1. /\ m.src # n
          /\ Matched(n, m) \/ Unsolicited(n, m) \/ EphemeralAck(n, m) \/ Dropped(n, m)
      BY <1>3 DEF Receive
    <2> QED
      BY <2>1, MatchedStep, UnsolicitedStep, EphemeralAckStep, DroppedStep
  <1>4. ASSUME NEW n \in Node, MarkForEviction(n)
        PROVE  IInv'
    BY <1>4, EvictionStep
  <1>5. CASE UNCHANGED vars
    BY <1>5 DEF vars, IInv, TypeInv, ContextInv, NetInv, Heard
  <1> QED
    BY <1>1, <1>2, <1>3, <1>4, <1>5 DEF Next, Local

LEMMA Inductive == Spec => []IInv
  <1>1. Init => IInv
    BY InitOK
  <1>2. IInv /\ [Next]_vars => IInv'
    BY NextStep
  <1> QED
    BY <1>1, <1>2, PTL DEF Spec

(* No context is destroyed while it is open, with its response timer armed *)
(* or with a reference returned twice: ~ExchangeContext and Release meet   *)
(* none of their VerifyOrDie, for any limits, failures and applications.   *)
THEOREM LifetimeHolds == Spec => []LifetimeIsSound
  <1>1. IInv => LifetimeIsSound
    BY DEF IInv, LifetimeIsSound
  <1> QED
    BY <1>1, Inductive, PTL

(* ExecuteActions never follows an entry of mRetransTable to an exchange   *)
(* that has lost its session (ReliableMessageMgr.cpp:172).                 *)
THEOREM RetransmissionsHaveSession == Spec => []RetransHasSession
  <1>1. IInv => RetransHasSession
    BY DEF IInv, ContextInv, Life, RetransHasSession
  <1> QED
    BY <1>1, Inductive, PTL

(* No ack on the wire names a message its sender has not received on that  *)
(* very exchange, however HandleNeedsAckInner saved and restored the       *)
(* pending counter before.                                                 *)
THEOREM AcksTellTheTruth == Spec => []AcksAreTrue
  <1>1. IInv => AcksAreTrue
    BY DEF IInv, NetInv, Heard, AcksAreTrue
  <1> QED
    BY <1>1, Inductive, PTL

(* A message reaches an application once at most, whatever the network     *)
(* repeats and whichever exchange or ephemeral context takes it.           *)
THEOREM DeliveryIsOnce == Spec => []DeliveredOnce
  <1>1. IInv => DeliveredOnce
    BY DEF IInv, DeliveredOnce
  <1> QED
    BY <1>1, Inductive, PTL

-----------------------------------------------------------------------------
(* What the methods say to the peer.  All but two of them only stop the    *)
(* retransmission, or send a standalone ack: they are calm.                *)

IsFrame(f) ==
    /\ f = [k \in FrameFields |-> f[k]]
    /\ f.c = [k \in ContextFields |-> f.c[k]]

Sayings(f) == {m \in f.out : m.kind = "app"}

Calm(f, g) ==
    /\ IsFrame(g) /\ g.n = f.n /\ g.x = f.x
    /\ g.c.session = f.c.session /\ g.c.willSend = f.c.willSend
    /\ g.c.ackCtr = f.c.ackCtr /\ (g.c.ackPend => f.c.ackPend)
    /\ g.c.retrans \in {None, f.c.retrans}
    /\ g.next = f.next /\ Sayings(g) = Sayings(f)
    /\ g.faults = f.faults /\ g.delivered = f.delivered /\ g.acked = f.acked
    /\ f.sess = "evicted" => g.sess = "evicted"

LEMMA CalmItself ==
    ASSUME NEW f, IsFrame(f) PROVE Calm(f, f)
BY DEF Calm

LEMMA CalmTwice ==
    ASSUME NEW f, NEW g, NEW h, Calm(f, g), Calm(g, h) PROVE Calm(f, h)
BY DEF Calm

LEMMA CalmContext ==
    ASSUME NEW f, IsFrame(f), NEW d, d = [k \in ContextFields |-> d[k]],
           d.session = f.c.session, d.willSend = f.c.willSend, d.ackCtr = f.c.ackCtr,
           d.ackPend => f.c.ackPend, d.retrans \in {None, f.c.retrans}
    PROVE  Calm(f, [f EXCEPT !.c = d]) /\ [f EXCEPT !.c = d].c = d
  <1> DEFINE g == [f EXCEPT !.c = d]
  <1>1. /\ g = [k \in FrameFields |-> g[k]] /\ g.c = d /\ g.n = f.n /\ g.x = f.x
        /\ g.out = f.out /\ g.next = f.next /\ g.faults = f.faults
        /\ g.delivered = f.delivered /\ g.acked = f.acked /\ g.sess = f.sess
    BY DEF IsFrame, FrameFields
  <1> HIDE DEF g
  <1>2. Calm(f, g) /\ g.c = d
    BY <1>1 DEF Calm, IsFrame, Sayings
  <1> QED
    BY <1>2 DEF g

LEMMA CalmDefunct ==
    ASSUME NEW f, IsFrame(f)
    PROVE  /\ Calm(f, MarkAsDefunct(f)) /\ MarkAsDefunct(f).c = f.c
           /\ Calm(f, MarkActiveRx(f)) /\ MarkActiveRx(f).c = f.c
  <1>1. ASSUME NEW s, s = "evicted" \/ f.sess # "evicted"
        PROVE  Calm(f, [f EXCEPT !.sess = s]) /\ [f EXCEPT !.sess = s].c = f.c
    <2> DEFINE g == [f EXCEPT !.sess = s]
    <2>1. /\ g = [k \in FrameFields |-> g[k]] /\ g.c = f.c /\ g.n = f.n /\ g.x = f.x
          /\ g.out = f.out /\ g.next = f.next /\ g.faults = f.faults
          /\ g.delivered = f.delivered /\ g.acked = f.acked /\ g.sess = s
      BY DEF IsFrame, FrameFields
    <2> HIDE DEF g
    <2>2. Calm(f, g) /\ g.c = f.c
      BY <1>1, <2>1 DEF Calm, IsFrame, Sayings
    <2> QED
      BY <2>2 DEF g
  <1>2. CASE f.sess = "active"
    BY <1>1, <1>2, CalmItself DEF MarkAsDefunct, MarkActiveRx
  <1>3. CASE f.sess = "defunct"
    BY <1>1, <1>3, CalmItself DEF MarkAsDefunct, MarkActiveRx
  <1>4. CASE f.sess \notin {"active", "defunct"}
    BY <1>4, CalmItself DEF MarkAsDefunct, MarkActiveRx
  <1> QED
    BY <1>2, <1>3, <1>4

(* The methods that only set flags of the context.                         *)
LEMMA CalmFlags ==
    ASSUME NEW f, IsFrame(f), NEW b
    PROVE  /\ Calm(f, TakePendingPeerAckMessageCounter(f))
           /\ ~TakePendingPeerAckMessageCounter(f).c.ackPend
           /\ Calm(f, CancelResponseTimer(f))
           /\ Calm(f, SetResponseExpected(f, b))
           /\ Calm(f, ReleaseRef(f))
           /\ Calm(f, [f EXCEPT !.c.closed = TRUE])
           /\ Calm(f, ClearRetransTable(f)) /\ ClearRetransTable(f).c.retrans = None
  <1> DEFINE take == [f.c EXCEPT !.ackPend = FALSE]
             cancel == [f.c EXCEPT !.timer = FALSE]
             expect == [f.c EXCEPT !.respExp = b, !.waitRA = b]
             release == [f.c EXCEPT !.refs = @ - 1]
             close == [f.c EXCEPT !.closed = TRUE]
             clear == [f.c EXCEPT !.retrans = None, !.sendCount = 0]
             Like(d) == /\ d = [k \in ContextFields |-> d[k]]
                        /\ d.session = f.c.session /\ d.willSend = f.c.willSend
                        /\ d.ackCtr = f.c.ackCtr /\ (d.ackPend => f.c.ackPend)
                        /\ d.retrans \in {None, f.c.retrans}
  <1>1. /\ TakePendingPeerAckMessageCounter(f) = [f EXCEPT !.c = take]
        /\ CancelResponseTimer(f) = [f EXCEPT !.c = cancel]
        /\ [f EXCEPT !.c.closed = TRUE] = [f EXCEPT !.c = close]
        /\ ReleaseRef(f) = [f EXCEPT !.c = release]
    BY DEF TakePendingPeerAckMessageCounter, CancelResponseTimer, ReleaseRef, IsFrame, FrameFields
  <1>2. /\ SetResponseExpected(f, b) = [f EXCEPT !.c = expect]
        /\ ClearRetransTable(f) = [f EXCEPT !.c = clear]
    BY DEF SetResponseExpected, ClearRetransTable, IsFrame, FrameFields, ContextFields
  <1>3. Like(take) /\ ~take.ackPend
    BY DEF IsFrame, ContextFields
  <1>4. Like(cancel)
    BY DEF IsFrame, ContextFields
  <1>5. Like(expect)
    BY DEF IsFrame, ContextFields
  <1>6. Like(release)
    BY DEF IsFrame, ContextFields
  <1>7. Like(close)
    BY DEF IsFrame, ContextFields
  <1>8. Like(clear) /\ clear.retrans = None
    BY DEF IsFrame, ContextFields
  <1> HIDE DEF take, cancel, expect, release, close, clear
  <1>9. ASSUME NEW d, Like(d)
        PROVE  Calm(f, [f EXCEPT !.c = d]) /\ [f EXCEPT !.c = d].c = d
    BY <1>9, CalmContext
  <1> HIDE DEF Like
  <1> QED
    BY <1>1, <1>2, <1>3, <1>4, <1>5, <1>6, <1>7, <1>8, <1>9

LEMMA CalmStandaloneAck ==
    ASSUME NEW f, IsFrame(f), NEW o
    PROVE  /\ Calm(f, SendStandaloneAckMessage(f, o))
           /\ Calm(f, FlushAcks(f, o))
           /\ f.c.session /\ o # "nobuf" => /\ ~SendStandaloneAckMessage(f, o).c.ackPend
                                            /\ ~FlushAcks(f, o).c.ackPend
  <1> DEFINE t == TakePendingPeerAckMessageCounter(f)
             a == [src |-> f.n, ex |-> f.x, ctr |-> None, ack |-> f.c.ackCtr, kind |-> "sack"]
             s == [t EXCEPT !.out = @ \cup {a}]
  <1>1. Calm(f, t) /\ ~t.c.ackPend
    BY CalmFlags
  <1>2. /\ SendStandaloneAckMessage(f, o) \in {f, MarkAsDefunct(t), s}
        /\ f.c.session /\ o # "nobuf" => SendStandaloneAckMessage(f, o) \in {MarkAsDefunct(t), s}
    BY DEF SendStandaloneAckMessage
  <1>3. a.kind = "sack"
    OBVIOUS
  <1> HIDE DEF t, a
  <1>4. IsFrame(t)
    BY <1>1 DEF Calm
  <1>5. Calm(t, s)
    <2>1. /\ s = [k \in FrameFields |-> s[k]] /\ s.c = t.c /\ s.n = t.n /\ s.x = t.x
          /\ s.out = t.out \cup {a} /\ s.next = t.next /\ s.faults = t.faults
          /\ s.delivered = t.delivered /\ s.acked = t.acked /\ s.sess = t.sess
      BY <1>4 DEF IsFrame, FrameFields
    <2> HIDE DEF s
    <2>2. Sayings(s) = Sayings(t)
      BY <1>3, <2>1 DEF Sayings
    <2> QED
      BY <1>4, <2>1, <2>2 DEF Calm, IsFrame
  <1> HIDE DEF s
  <1>6. Calm(f, s) /\ Calm(f, MarkAsDefunct(t)) /\ Calm(f, f)
    BY <1>1, <1>4, <1>5, CalmDefunct, CalmTwice, CalmItself
  <1>7. Calm(f, SendStandaloneAckMessage(f, o))
    BY <1>2, <1>6
  <1>8. ~s.c.ackPend /\ ~MarkAsDefunct(t).c.ackPend
    BY <1>1, <1>4, <1>5, CalmDefunct DEF Calm
  <1>9. f.c.session /\ o # "nobuf" => ~SendStandaloneAckMessage(f, o).c.ackPend
    BY <1>2, <1>8
  <1> QED
    BY <1>6, <1>7, <1>9 DEF FlushAcks

LEMMA CalmClose ==
    ASSUME NEW f, IsFrame(f), NEW o, NEW clear \in BOOLEAN
    PROVE  /\ Calm(f, DoClose(f, clear, o))
           /\ Calm(f, ReleaseRef(DoClose(f, clear, o)))
           /\ Calm(f, MessageHandled(f, o))
  <1>1. ASSUME NEW b \in BOOLEAN
        PROVE  Calm(f, DoClose(f, b, o)) /\ Calm(f, ReleaseRef(DoClose(f, b, o)))
    <2> DEFINE e == [f EXCEPT !.c.closed = TRUE]
               flushed == FlushAcks(e, o)
               cleared == IF b THEN ClearRetransTable(flushed) ELSE flushed
               last == IF f.c.respExp THEN CancelResponseTimer(cleared) ELSE cleared
    <2>1. DoClose(f, b, o) = IF f.c.closed THEN f ELSE last
      BY DEF DoClose
    <2>2. Calm(f, e)
      BY CalmFlags
    <2> HIDE DEF e
    <2>3. Calm(f, flushed) /\ IsFrame(flushed)
      <3>1. IsFrame(e)
        BY <2>2 DEF Calm
      <3>2. Calm(e, flushed)
        BY <3>1, CalmStandaloneAck
      <3> QED
        BY <2>2, <3>2, CalmTwice DEF Calm
    <2> HIDE DEF flushed
    <2>4. Calm(f, cleared) /\ IsFrame(cleared)
      <3>1. Calm(flushed, ClearRetransTable(flushed))
        BY <2>3, CalmFlags
      <3>2. Calm(f, ClearRetransTable(flushed))
        BY <2>3, <3>1, CalmTwice
      <3>3. Calm(f, cleared)
        BY <2>3, <3>2
      <3> HIDE DEF cleared
      <3> QED
        BY <3>3 DEF Calm
    <2> HIDE DEF cleared
    <2>5. Calm(f, last) /\ Calm(f, f)
      <3>1. Calm(cleared, CancelResponseTimer(cleared))
        BY <2>4, CalmFlags
      <3>2. Calm(f, CancelResponseTimer(cleared))
        BY <2>4, <3>1, CalmTwice
      <3> QED
        BY <2>4, <3>2, CalmItself
    <2> HIDE DEF last
    <2>6. Calm(f, DoClose(f, b, o))
      BY <2>1, <2>5
    <2>7. IsFrame(DoClose(f, b, o))
      BY <2>6 DEF Calm
    <2>8. Calm(DoClose(f, b, o), ReleaseRef(DoClose(f, b, o)))
      BY <2>7, CalmFlags
    <2> QED
      BY <2>6, <2>8, CalmTwice
  <1>2. PICK b \in BOOLEAN : b = FALSE
    OBVIOUS
  <1>3. MessageHandled(f, o) \in {f, ReleaseRef(DoClose(f, b, o))}
    BY <1>2 DEF MessageHandled, Close
  <1>4. Calm(f, f) /\ Calm(f, ReleaseRef(DoClose(f, b, o)))
    BY <1>1, CalmItself
  <1>5. Calm(f, MessageHandled(f, o))
    BY <1>3, <1>4
  <1> QED
    BY <1>1, <1>5

(* What HandleMessage, NotifyResponseTimeout and SendMessage do inline.    *)
LEMMA CalmNoResponse ==
    ASSUME NEW f, IsFrame(f)
    PROVE  Calm(f, NoResponse(f))
  <1>1. PICK b : b = FALSE
    OBVIOUS
  <1> DEFINE e == CancelResponseTimer(f)
  <1>2. Calm(f, e)
    BY CalmFlags
  <1>3. NoResponse(f) = SetResponseExpected(e, b)
    BY <1>1 DEF NoResponse
  <1> HIDE DEF e
  <1>4. IsFrame(e)
    BY <1>2 DEF Calm
  <1>5. Calm(e, SetResponseExpected(e, b))
    BY <1>4, CalmFlags
  <1> QED
    BY <1>2, <1>3, <1>5, CalmTwice

LEMMA CalmArmed ==
    ASSUME NEW f, IsFrame(f)
    PROVE  Calm(f, Armed(f))
  <1>1. PICK b : b = TRUE
    OBVIOUS
  <1> DEFINE e == SetResponseExpected(f, b)
             d == [e.c EXCEPT !.timer = TRUE]
  <1>2. Calm(f, e)
    BY CalmFlags
  <1>3. Armed(f) = [e EXCEPT !.c.timer = TRUE]
    BY <1>1 DEF Armed
  <1> HIDE DEF e
  <1>4. IsFrame(e)
    BY <1>2 DEF Calm
  <1>5. /\ d = [k \in ContextFields |-> d[k]] /\ d.session = e.c.session
        /\ d.willSend = e.c.willSend /\ d.ackCtr = e.c.ackCtr /\ d.retrans = e.c.retrans
        /\ d.ackPend = e.c.ackPend
    BY <1>4 DEF IsFrame, ContextFields
  <1>6. Armed(f) = [e EXCEPT !.c = d]
    BY <1>3, <1>4 DEF IsFrame, FrameFields
  <1> HIDE DEF d
  <1>7. Calm(e, [e EXCEPT !.c = d])
    BY <1>4, <1>5, CalmContext
  <1> QED
    BY <1>2, <1>6, <1>7, CalmTwice



(* HandleRcvdAck clears the entry of that very message.                    *)
LEMMA CalmRcvdAck ==
    ASSUME NEW f, IsFrame(f), NEW k, k # None
    PROVE  LET g == HandleRcvdAck(f, k)
           IN  /\ Calm([f EXCEPT !.acked = @ \cup {k}], g)
               /\ g.c.retrans # k
  <1> DEFINE noted == [f EXCEPT !.acked = @ \cup {k}]
             r == ClearRetransTable(noted)
             d == [r.c EXCEPT !.waitRA = FALSE]
             q == [r EXCEPT !.c.waitRA = FALSE]
  <1>1. IsFrame(noted) /\ noted.c = f.c
    BY DEF IsFrame, FrameFields
  <1>2. HandleRcvdAck(f, k) = IF f.c.retrans = k THEN q ELSE noted
    BY DEF HandleRcvdAck
  <1> HIDE DEF noted
  <1>3. Calm(noted, r) /\ r.c.retrans = None
    BY <1>1, CalmFlags
  <1> HIDE DEF r
  <1>4. IsFrame(r)
    BY <1>3 DEF Calm
  <1>5. /\ d = [i \in ContextFields |-> d[i]] /\ d.session = r.c.session
        /\ d.willSend = r.c.willSend /\ d.ackCtr = r.c.ackCtr /\ d.retrans = r.c.retrans
        /\ d.ackPend = r.c.ackPend
    BY <1>4 DEF IsFrame, ContextFields
  <1>6. q = [r EXCEPT !.c = d]
    BY <1>4 DEF IsFrame, FrameFields
  <1> HIDE DEF d, q
  <1>7. Calm(r, q) /\ q.c = d
    BY <1>4, <1>5, <1>6, CalmContext
  <1>8. Calm(noted, q) /\ q.c.retrans # k /\ Calm(noted, noted)
    BY <1>1, <1>3, <1>5, <1>7, CalmTwice, CalmItself
  <1>9. Calm(noted, HandleRcvdAck(f, k)) /\ HandleRcvdAck(f, k).c.retrans # k
    BY <1>1, <1>2, <1>8
  <1> QED
    BY <1>9 DEF noted

(* The two that are not calm.  HandleNeedsAck notes which message is to be *)
(* acknowledged; of a duplicate it leaves no trace, unless nothing had     *)
(* been received before.                                                   *)
Keeps(f, g) ==
    /\ IsFrame(g) /\ g.n = f.n /\ g.x = f.x
    /\ g.c.session = f.c.session /\ g.c.willSend = f.c.willSend
    /\ g.c.retrans \in {None, f.c.retrans}
    /\ g.next = f.next /\ Sayings(g) = Sayings(f)
    /\ g.faults = f.faults /\ g.delivered = f.delivered /\ g.acked = f.acked
    /\ f.sess = "evicted" => g.sess = "evicted"

LEMMA CalmKeeps ==
    ASSUME NEW f, NEW g, Calm(f, g) PROVE Keeps(f, g)
BY DEF Calm, Keeps

LEMMA KeepsTwice ==
    ASSUME NEW f, NEW g, NEW h, Keeps(f, g), Keeps(g, h) PROVE Keeps(f, h)
BY DEF Keeps

LEMMA KeepsCalm ==
    ASSUME NEW f, NEW g, Keeps(f, g), g.c.ackCtr = f.c.ackCtr, g.c.ackPend => f.c.ackPend
    PROVE  Calm(f, g)
BY DEF Calm, Keeps

LEMMA NoteKeeps ==
    ASSUME NEW f, IsFrame(f), NEW k
    PROVE  /\ Keeps(f, SetPendingPeerAckMessageCounter(f, k))
           /\ SetPendingPeerAckMessageCounter(f, k).c.ackCtr = k
           /\ Keeps(f, [f EXCEPT !.c.ackCtr = k])
           /\ [f EXCEPT !.c.ackCtr = k].c.ackCtr = k
           /\ [f EXCEPT !.c.ackCtr = k].c.ackPend = f.c.ackPend
  <1>1. ASSUME NEW d, d = [i \in ContextFields |-> d[i]],
               d.session = f.c.session, d.willSend = f.c.willSend, d.retrans = f.c.retrans
        PROVE  Keeps(f, [f EXCEPT !.c = d]) /\ [f EXCEPT !.c = d].c = d
    <2> DEFINE g == [f EXCEPT !.c = d]
    <2>1. /\ g = [i \in FrameFields |-> g[i]] /\ g.c = d /\ g.n = f.n /\ g.x = f.x
          /\ g.out = f.out /\ g.next = f.next /\ g.faults = f.faults
          /\ g.delivered = f.delivered /\ g.acked = f.acked /\ g.sess = f.sess
      BY DEF IsFrame, FrameFields
    <2> HIDE DEF g
    <2>2. Keeps(f, g) /\ g.c = d
      BY <1>1, <2>1 DEF Keeps, IsFrame, Sayings
    <2> QED
      BY <2>2 DEF g
  <1> DEFINE d == [f.c EXCEPT !.ackCtr = k, !.ackPend = TRUE]
             e == [f.c EXCEPT !.ackCtr = k]
  <1>2. /\ SetPendingPeerAckMessageCounter(f, k) = [f EXCEPT !.c = d]
        /\ [f EXCEPT !.c.ackCtr = k] = [f EXCEPT !.c = e]
    BY DEF SetPendingPeerAckMessageCounter, IsFrame, FrameFields, ContextFields
  <1>3. /\ d = [i \in ContextFields |-> d[i]] /\ d.ackCtr = k
        /\ d.session = f.c.session /\ d.willSend = f.c.willSend /\ d.retrans = f.c.retrans
    BY DEF IsFrame, ContextFields
  <1>4. /\ e = [i \in ContextFields |-> e[i]] /\ e.ackCtr = k /\ e.ackPend = f.c.ackPend
        /\ e.session = f.c.session /\ e.willSend = f.c.willSend /\ e.retrans = f.c.retrans
    BY DEF IsFrame, ContextFields
  <1> HIDE DEF d, e
  <1> QED
    BY <1>1, <1>2, <1>3, <1>4

LEMMA NeedsAckDuplicate ==
    ASSUME NEW f, IsFrame(f), NEW k, NEW o
    PROVE  LET g == HandleNeedsAck(f, k, TRUE, o)
           IN  /\ Keeps(f, g)
               /\ f.c.ackCtr # None /\ f.c.session /\ o # "nobuf" => Calm(f, g)
  <1> DEFINE p == SetPendingPeerAckMessageCounter(f, k)
             answered == SendStandaloneAckMessage(p, o)
             j == f.c.ackCtr
             r == SetPendingPeerAckMessageCounter(answered, j)
             s == [answered EXCEPT !.c.ackCtr = j]
  <1>1. HandleNeedsAck(f, k, TRUE, o) =
           IF f.c.ackPend /\ j # k THEN r ELSE IF j # None THEN s ELSE answered
    BY DEF HandleNeedsAck
  <1>2. Keeps(f, p)
    BY NoteKeeps
  <1> HIDE DEF p
  <1>3. /\ Calm(p, answered)
        /\ f.c.session /\ o # "nobuf" => ~answered.c.ackPend
    BY <1>2, CalmStandaloneAck DEF Keeps
  <1> HIDE DEF answered
  <1>4. Keeps(f, answered) /\ IsFrame(answered)
    BY <1>2, <1>3, CalmKeeps, KeepsTwice DEF Keeps
  <1> HIDE DEF j
  <1>5. /\ Keeps(answered, r) /\ r.c.ackCtr = j /\ Keeps(answered, s) /\ s.c.ackCtr = j
        /\ s.c.ackPend = answered.c.ackPend
    BY <1>4, NoteKeeps
  <1> HIDE DEF r, s
  <1>6. Keeps(f, r) /\ Keeps(f, s)
    BY <1>4, <1>5, KeepsTwice
  <1>7. /\ f.c.ackPend => Calm(f, r)
        /\ f.c.session /\ o # "nobuf" => Calm(f, s)
    BY <1>3, <1>5, <1>6, KeepsCalm DEF j
  <1>8. Keeps(f, HandleNeedsAck(f, k, TRUE, o))
    BY <1>1, <1>4, <1>6
  <1>9. j # None /\ f.c.session /\ o # "nobuf" => Calm(f, HandleNeedsAck(f, k, TRUE, o))
    BY <1>1, <1>7
  <1> QED
    BY <1>8, <1>9 DEF j

LEMMA NeedsAckNew ==
    ASSUME NEW f, IsFrame(f), NEW k, NEW o
    PROVE  LET g == HandleNeedsAck(f, k, FALSE, o)
           IN  /\ Keeps(f, g)
               /\ ~f.c.ackPend => g.c.ackCtr = k
  <1> DEFINE flushed == FlushAcks(f, o)
             p == SetPendingPeerAckMessageCounter(flushed, k)
  <1>1. HandleNeedsAck(f, k, FALSE, o) =
           IF f.c.ackPend /\ SendStandaloneAckFails(f, o) THEN flushed ELSE p
    BY DEF HandleNeedsAck
  <1>2. Calm(f, flushed)
    BY CalmStandaloneAck
  <1> HIDE DEF flushed
  <1>3. Keeps(f, flushed) /\ IsFrame(flushed)
    BY <1>2, CalmKeeps DEF Calm
  <1>4. Keeps(flushed, p) /\ p.c.ackCtr = k
    BY <1>3, NoteKeeps
  <1> HIDE DEF p
  <1>5. Keeps(f, p)
    BY <1>3, <1>4, KeepsTwice
  <1>6. Keeps(f, HandleNeedsAck(f, k, FALSE, o))
    BY <1>1, <1>3, <1>5
  <1> QED
    BY <1>1, <1>4, <1>6

(* SendMessage puts one message on the wire, which carries the ack that    *)
(* was noted last, or none.                                                *)
Silent(f, g) ==
    /\ IsFrame(g) /\ g.n = f.n /\ g.x = f.x
    /\ g.c.session = f.c.session /\ g.c.willSend = f.c.willSend
    /\ g.c.ackCtr = f.c.ackCtr /\ (g.c.ackPend => f.c.ackPend)
    /\ g.c.retrans \in {None, f.c.retrans}
    /\ g.next \in {f.next, f.next + 1} /\ Sayings(g) = Sayings(f)
    /\ g.faults = f.faults /\ g.delivered = f.delivered /\ g.acked = f.acked
    /\ f.sess = "evicted" => g.sess = "evicted"

Said(f) == [src |-> f.n, ex |-> f.x, ctr |-> f.next, ack |-> f.c.ackCtr, kind |-> "app"]

Spoke(f, g) ==
    /\ IsFrame(g) /\ g.n = f.n /\ g.x = f.x
    /\ f.c.session /\ g.c.session /\ ~g.c.willSend /\ ~g.c.ackPend
    /\ g.c.ackCtr = f.c.ackCtr /\ g.c.retrans \in {None, f.next}
    /\ g.next = f.next + 1 /\ Sayings(g) = Sayings(f) \cup {Said(f)}
    /\ g.faults = f.faults /\ g.delivered = f.delivered /\ g.acked = f.acked
    /\ f.sess = "evicted" => g.sess = "evicted"

LEMMA SendMessageSays ==
    ASSUME NEW f, IsFrame(f), NEW expect \in BOOLEAN, NEW o
    PROVE  LET g == SendMessage(f, expect, o)
           IN  Silent(f, g) \/ Spoke(f, g)
  <1> DEFINE armed == IF expect THEN Armed(f) ELSE f
             taken == TakePendingPeerAckMessageCounter(armed)
             undone == IF expect THEN NoResponse(taken) ELSE taken
             a == Said(f)
             kept == Kept(taken, a, f.next)
             spent == [undone EXCEPT !.next = @ + 1]
  <1>1. \/ SendMessage(f, expect, o)
               \in {f, MarkAsDefunct(undone), MarkAsDefunct(spent)}
        \/ f.c.session /\ SendMessage(f, expect, o) = MessageHandled(kept, o)
    BY DEF SendMessage, EndResponseWait, Armed, NoResponse, Kept, Said
  <1>2. Calm(f, armed)
    BY CalmArmed, CalmItself
  <1> HIDE DEF armed
  <1>3. Calm(f, taken) /\ IsFrame(taken) /\ ~taken.c.ackPend
    <2>1. IsFrame(armed)
      BY <1>2 DEF Calm
    <2>2. Calm(armed, taken) /\ ~taken.c.ackPend
      BY <2>1, CalmFlags
    <2> QED
      BY <1>2, <2>2, CalmTwice DEF Calm
  <1> HIDE DEF taken
  <1>4. Calm(f, undone) /\ IsFrame(undone)
    <2>1. Calm(f, NoResponse(taken))
      BY <1>3, CalmNoResponse, CalmTwice
    <2>2. Calm(f, undone)
      BY <1>3, <2>1
    <2> HIDE DEF undone
    <2> QED
      BY <2>2 DEF Calm
  <1> HIDE DEF undone
  <1>5. IsFrame(spent) /\ Silent(f, spent)
    <2>1. /\ spent = [k \in FrameFields |-> spent[k]] /\ spent.c = undone.c
          /\ spent.n = undone.n /\ spent.x = undone.x
          /\ spent.out = undone.out /\ spent.next = undone.next + 1
          /\ spent.faults = undone.faults
          /\ spent.delivered = undone.delivered /\ spent.acked = undone.acked
          /\ spent.sess = undone.sess
      BY <1>4 DEF IsFrame, FrameFields
    <2> HIDE DEF spent
    <2> QED
      BY <1>4, <2>1 DEF Calm, Silent, IsFrame, Sayings
  <1> HIDE DEF spent
  <1>6. ASSUME NEW g, NEW h, Silent(f, g), Calm(g, h)
        PROVE  Silent(f, h)
    BY <1>6 DEF Silent, Calm
  <1>7. Silent(f, f) /\ Silent(f, undone)
    BY <1>4 DEF Silent, Calm
  <1>8. Silent(f, MarkAsDefunct(undone)) /\ Silent(f, MarkAsDefunct(spent))
    BY <1>4, <1>5, <1>6, <1>7, CalmDefunct
  <1>9. CASE f.c.session /\ SendMessage(f, expect, o) = MessageHandled(kept, o)
    <2> DEFINE d == [taken.c EXCEPT !.retrans = f.next, !.sendCount = 0, !.willSend = FALSE]
    <2>1. /\ d = [k \in ContextFields |-> d[k]] /\ d.session = taken.c.session /\ ~d.willSend
          /\ d.ackCtr = taken.c.ackCtr /\ d.retrans = f.next /\ ~d.ackPend
      BY <1>3 DEF IsFrame, ContextFields
    <2>2. a.kind = "app"
      BY DEF Said
    <2> HIDE DEF a
    <2>3. /\ kept = [k \in FrameFields |-> kept[k]] /\ kept.c = d
          /\ kept.n = taken.n /\ kept.x = taken.x
          /\ kept.out = taken.out \cup {a} /\ kept.next = taken.next + 1
          /\ kept.faults = taken.faults
          /\ kept.delivered = taken.delivered /\ kept.acked = taken.acked
          /\ kept.sess = taken.sess
      BY <1>3 DEF IsFrame, FrameFields, ContextFields, Kept
    <2> HIDE DEF kept, d
    <2>4. Sayings(kept) = Sayings(taken) \cup {a}
      BY <2>2, <2>3 DEF Sayings
    <2>5. Spoke(f, kept)
      BY <1>3, <1>9, <2>1, <2>3, <2>4 DEF Spoke, Calm, IsFrame, a
    <2>6. Calm(kept, MessageHandled(kept, o))
      <3>1. IsFrame(kept)
        BY <2>5 DEF Spoke
      <3> QED
        BY <3>1, CalmClose
    <2>7. Spoke(f, MessageHandled(kept, o))
      BY <2>5, <2>6 DEF Spoke, Calm
    <2> QED
      BY <1>9, <2>7
  <1> QED
    BY <1>1, <1>7, <1>8, <1>9

-----------------------------------------------------------------------------
(* The conversation on an exchange, as long as a standalone ack finds a    *)
(* buffer: without one a duplicate leaves an ack pending that is no longer *)
(* due, and if that happens again with the next message, HandleNeedsAck    *)
(* does not note it (ReliableMessageContext.cpp:165).  Sends may fail.     *)
(* Apps are the messages other than standalone acks, Own the counters of   *)
(* those node n has sent on exchange x, Tip the last one.  It is the turn  *)
(* of n when the last message it has received answers its last one, or     *)
(* when it has opened the exchange and said nothing.                       *)

AcksHaveBuffers == "nobuf" \notin Outcomes

Apps == {m \in net : m.kind = "app"}

Own(n, x) == {m.ctr : m \in {k \in Apps : k.src = n /\ k.ex = x}}

Tip(n, x, j) == j \in Own(n, x) \cup {None} /\ \A k \in Own(n, x) : k <= j

Turn(n, x, j) ==
    \/ j = None /\ x.initiator = n /\ Own(n, x) = {}
    \/ \E a \in Apps : a.src # n /\ a.ex = x /\ a.ctr = j /\ Tip(n, x, a.ack)

Acks(n) == {m.ack : m \in {k \in net : k.src # n}} \ {None}

(* A frame that has sent nothing, and one that has sent one message.       *)
Bearing(g, n, x, H) ==
    /\ IsFrame(g) /\ g.n = n /\ g.x = x
    /\ g.c.session => \A k \in H : k <= g.c.ackCtr
    /\ "unackedDrop" \notin g.faults
    /\ g.acked \subseteq Acks(n)
    /\ sess[n] = "evicted" => g.sess = "evicted"
    /\ g.next \in Nat

Quiet(g, n, x, H) ==
    /\ Bearing(g, n, x, H)
    /\ Sayings(g) = {} /\ g.next >= next[n]
    /\ g.c.session /\ (g.c.willSend \/ g.c.ackPend) => Turn(n, x, g.c.ackCtr)
    /\ g.c.retrans # None => Tip(n, x, g.c.retrans)

App(n, x, k, j) == [src |-> n, ex |-> x, ctr |-> k, ack |-> j, kind |-> "app"]

Loud(g, n, x, H) ==
    /\ Bearing(g, n, x, H)
    /\ g.c.session /\ ~g.c.willSend /\ ~g.c.ackPend /\ Turn(n, x, g.c.ackCtr)
    /\ \E k \in Nat : /\ next[n] <= k /\ k < g.next /\ g.c.retrans \in {None, k}
                      /\ Sayings(g) = {App(n, x, k, g.c.ackCtr)}

Talks(g, n, x, H) == Quiet(g, n, x, H) \/ Loud(g, n, x, H)

LEMMA BearingCalm ==
    ASSUME NEW n, NEW x, NEW H, NEW f, NEW g, Calm(f, g), Bearing(f, n, x, H)
    PROVE  Bearing(g, n, x, H)
BY DEF Calm, Bearing

LEMMA QuietCalm ==
    ASSUME NEW n, NEW x, NEW H, NEW f, NEW g, Calm(f, g), Quiet(f, n, x, H)
    PROVE  Quiet(g, n, x, H)
BY BearingCalm DEF Quiet, Calm

LEMMA LoudCalm ==
    ASSUME NEW n, NEW x, NEW H, NEW f, NEW g, Calm(f, g), Loud(f, n, x, H)
    PROVE  Loud(g, n, x, H)
  <1>1. PICK k \in Nat : /\ next[n] <= k /\ k < f.next /\ f.c.retrans \in {None, k}
                         /\ Sayings(f) = {App(n, x, k, f.c.ackCtr)}
    BY DEF Loud
  <1>2. /\ next[n] <= k /\ k < g.next /\ g.c.retrans \in {None, k}
        /\ Sayings(g) = {App(n, x, k, g.c.ackCtr)}
    BY <1>1 DEF Calm
  <1>3. g.c.session /\ ~g.c.willSend /\ ~g.c.ackPend /\ Turn(n, x, g.c.ackCtr)
    BY DEF Calm, Loud
  <1> QED
    BY <1>2, <1>3, BearingCalm DEF Loud

LEMMA TalksCalm ==
    ASSUME NEW n, NEW x, NEW H, NEW f, NEW g, Calm(f, g), Talks(f, n, x, H)
    PROVE  Talks(g, n, x, H)
BY QuietCalm, LoudCalm DEF Talks

(* SendMessage, when it is the node's turn.                                *)
LEMMA SendMessageTalks ==
    ASSUME NEW n, NEW x, NEW H, NEW f, Quiet(f, n, x, H), next[n] \in Nat,
           f.c.session => Turn(n, x, f.c.ackCtr),
           NEW expect \in BOOLEAN, NEW o
    PROVE  LET g == SendMessage(f, expect, o)
           IN  Talks(g, n, x, H) /\ g.delivered = f.delivered
  <1> DEFINE g == SendMessage(f, expect, o)
  <1>0. IsFrame(f)
    BY DEF Quiet, Bearing
  <1>1. Silent(f, g) \/ Spoke(f, g)
    BY <1>0, SendMessageSays
  <1> HIDE DEF g
  <1>2. CASE Silent(f, g)
    <2>1. Bearing(g, n, x, H) /\ g.next >= next[n]
      BY <1>2 DEF Silent, Bearing, Quiet
    <2> QED
      BY <1>2, <2>1 DEF Silent, Quiet, Talks, g
  <1>3. CASE Spoke(f, g)
    <2>1. Bearing(g, n, x, H)
      BY <1>3 DEF Spoke, Bearing, Quiet
    <2>2. f.next \in Nat /\ next[n] <= f.next /\ f.next < g.next
      BY <1>3 DEF Spoke, Bearing, Quiet
    <2>3. Sayings(g) = {App(n, x, f.next, g.c.ackCtr)}
      BY <1>3 DEF Spoke, Bearing, Quiet, Said, App
    <2>4. Loud(g, n, x, H)
      BY <1>3, <2>1, <2>2, <2>3 DEF Spoke, Loud
    <2> QED
      BY <1>3, <2>4 DEF Spoke, Talks, g
  <1> QED
    BY <1>1, <1>2, <1>3

LEMMA OnMessageReceivedTalks ==
    ASSUME NEW n, NEW x, NEW H, NEW f, Quiet(f, n, x, H), next[n] \in Nat,
           f.c.session => Turn(n, x, f.c.ackCtr),
           NEW reaction \in AllReactions, reaction # "notPermitted", NEW o
    PROVE  LET g == OnMessageReceived(f, reaction, o)
           IN  Talks(g, n, x, H) /\ g.delivered = f.delivered
  <1>t. PICK t \in BOOLEAN : t = TRUE
    OBVIOUS
  <1>f. PICK b \in BOOLEAN : b = FALSE
    OBVIOUS
  <1> DEFINE d == [f.c EXCEPT !.willSend = TRUE]
             w == [f EXCEPT !.c.willSend = TRUE]
             e == AbortAllOtherCommunicationOnFabric(f)
             Good(g) == Talks(g, n, x, H) /\ g.delivered = f.delivered
  <1>0. IsFrame(f) /\ Bearing(f, n, x, H)
    BY DEF Quiet, Bearing
  <1>1. OnMessageReceived(f, reaction, o)
           \in {f, SendMessage(f, b, o), SendMessage(f, t, o), w,
                SendMessage(e, b, o)}
    BY <1>t, <1>f DEF OnMessageReceived, AllReactions
  <1>2. Good(SendMessage(f, b, o)) /\ Good(SendMessage(f, t, o))
    BY SendMessageTalks
  <1>3. Good(w)
    <2>1. w = [f EXCEPT !.c = d]
      BY <1>0 DEF IsFrame, FrameFields
    <2>2. /\ d = [k \in ContextFields |-> d[k]] /\ d.session = f.c.session
          /\ d.ackCtr = f.c.ackCtr /\ d.retrans = f.c.retrans
      BY <1>0 DEF IsFrame, ContextFields
    <2> HIDE DEF d, w
    <2>3. /\ w = [k \in FrameFields |-> w[k]] /\ w.c = d /\ w.n = f.n /\ w.x = f.x
          /\ w.out = f.out /\ w.next = f.next /\ w.faults = f.faults
          /\ w.delivered = f.delivered /\ w.acked = f.acked /\ w.sess = f.sess
      BY <1>0, <2>1 DEF IsFrame, FrameFields
    <2>4. IsFrame(w)
      BY <2>2, <2>3 DEF IsFrame
    <2>5. Bearing(w, n, x, H)
      BY <1>0, <2>2, <2>3, <2>4 DEF Bearing
    <2>6. Quiet(w, n, x, H)
      BY <2>2, <2>3, <2>5 DEF Quiet, Sayings
    <2> QED
      BY <2>3, <2>6 DEF Talks
  <1>4. Calm(f, e) /\ e.c = f.c
    <2>1. /\ e = [k \in FrameFields |-> e[k]] /\ e.c = f.c /\ e.n = f.n /\ e.x = f.x
          /\ e.out = f.out /\ e.next = f.next /\ e.faults = f.faults
          /\ e.delivered = f.delivered /\ e.acked = f.acked /\ e.sess = "evicted"
      BY <1>0 DEF IsFrame, FrameFields, AbortAllOtherCommunicationOnFabric
    <2> HIDE DEF e
    <2> QED
      BY <1>0, <2>1 DEF Calm, IsFrame, Sayings
  <1> HIDE DEF e
  <1>5. Quiet(e, n, x, H) /\ e.delivered = f.delivered
    BY <1>4, QuietCalm DEF Calm
  <1>6. Good(SendMessage(e, b, o))
    BY <1>4, <1>5, SendMessageTalks
  <1>7. Good(f)
    BY DEF Talks
  <1> HIDE DEF Good, w
  <1>8. Good(OnMessageReceived(f, reaction, o))
    BY <1>1, <1>2, <1>3, <1>6, <1>7
  <1> QED
    BY <1>8 DEF Good

LEMMA HandleNewMessageTalks ==
    ASSUME NEW n, NEW x, NEW H, NEW f, Quiet(f, n, x, H), next[n] \in Nat,
           f.c.session => Turn(n, x, f.c.ackCtr), f.c.retrans = None,
           NEW m, NEW reaction \in AllReactions, NEW o
    PROVE  LET g == HandleNewMessage(f, m, reaction, o)
           IN  /\ Talks(g, n, x, H)
               /\ ~f.c.closed /\ reaction # "notPermitted" => m.ctr \in g.delivered
  <1> DEFINE r == NoResponse(f)
             got == IF f.c.respExp THEN r ELSE f
             z == IF m.ctr \in delivered[f.n] THEN {"twice"} ELSE {}
             given == Given(got, m.ctr, z)
  <1>0. IsFrame(f)
    BY DEF Quiet, Bearing
  <1>1. Calm(f, r) /\ Calm(f, f)
    BY <1>0, CalmNoResponse, CalmItself
  <1>2. HandleNewMessage(f, m, reaction, o) =
           IF reaction = "notPermitted" THEN f
           ELSE IF f.c.closed THEN got
           ELSE OnMessageReceived(given, reaction, o)
    <2>1. got.n = f.n
      BY <1>1 DEF Calm
    <2> QED
      BY <2>1 DEF HandleNewMessage, Given, NoResponse
  <1> HIDE DEF r
  <1>3. Calm(f, got)
    BY <1>1
  <1> HIDE DEF got
  <1>4. "unackedDrop" \notin z
    OBVIOUS
  <1> HIDE DEF z
  <1>5. Quiet(got, n, x, H) /\ got.c.ackCtr = f.c.ackCtr /\ got.c.session = f.c.session
    BY <1>3, QuietCalm DEF Calm
  <1>6. Quiet(given, n, x, H) /\ given.c = got.c /\ m.ctr \in given.delivered
    <2>0. IsFrame(got) /\ Bearing(got, n, x, H)
      BY <1>5 DEF Quiet, Bearing
    <2>1. /\ given = [k \in FrameFields |-> given[k]] /\ given.c = got.c
          /\ given.n = got.n /\ given.x = got.x
          /\ given.out = got.out /\ given.next = got.next /\ given.faults = got.faults \cup z
          /\ given.delivered = got.delivered \cup {m.ctr} /\ given.acked = got.acked
          /\ given.sess = got.sess
      BY <2>0 DEF IsFrame, FrameFields, Given
    <2> HIDE DEF given
    <2>2. Bearing(given, n, x, H)
      BY <1>4, <2>0, <2>1 DEF Bearing, IsFrame
    <2> QED
      BY <1>5, <2>1, <2>2 DEF Quiet, Sayings
  <1> HIDE DEF given
  <1>7. CASE reaction = "notPermitted" \/ f.c.closed
    BY <1>2, <1>5, <1>7 DEF Talks
  <1>8. CASE ~(reaction = "notPermitted") /\ ~f.c.closed
    <2> DEFINE g == OnMessageReceived(given, reaction, o)
    <2>1. given.c.session => Turn(n, x, given.c.ackCtr)
      BY <1>5, <1>6
    <2>2. Talks(g, n, x, H) /\ g.delivered = given.delivered
      BY <1>6, <1>8, <2>1, OnMessageReceivedTalks
    <2> HIDE DEF g
    <2> QED
      BY <1>2, <1>6, <1>8, <2>2 DEF g
  <1> QED
    BY <1>7, <1>8

(* An ack among those on the wire.                                         *)
LEMMA RcvdAckTalks ==
    ASSUME NEW n, NEW x, NEW H, NEW f, Quiet(f, n, x, H), NEW k \in Acks(n)
    PROVE  LET g == HandleRcvdAck(f, k)
           IN  /\ Quiet(g, n, x, H) /\ g.c.retrans \in {None, f.c.retrans} \ {k}
               /\ g.c.session = f.c.session /\ (g.c.ackPend => f.c.ackPend)
  <1> DEFINE noted == [f EXCEPT !.acked = @ \cup {k}]
             g == HandleRcvdAck(f, k)
  <1>0. IsFrame(f) /\ Bearing(f, n, x, H) /\ k # None
    BY DEF Quiet, Bearing, Acks
  <1>1. Calm(noted, g) /\ g.c.retrans # k
    BY <1>0, CalmRcvdAck
  <1> HIDE DEF g
  <1>2. /\ noted = [i \in FrameFields |-> noted[i]] /\ noted.c = f.c
        /\ noted.n = f.n /\ noted.x = f.x
        /\ noted.out = f.out /\ noted.next = f.next /\ noted.faults = f.faults
        /\ noted.delivered = f.delivered /\ noted.acked = f.acked \cup {k}
        /\ noted.sess = f.sess
    BY <1>0 DEF IsFrame, FrameFields
  <1> HIDE DEF noted
  <1>3. Bearing(noted, n, x, H)
    BY <1>0, <1>2 DEF Bearing, IsFrame
  <1>4. Quiet(noted, n, x, H)
    BY <1>2, <1>3 DEF Quiet, Sayings
  <1>5. Quiet(g, n, x, H)
    BY <1>1, <1>4, QuietCalm
  <1> QED
    BY <1>1, <1>2, <1>5 DEF Calm, g

(* HandleMessage, for a standalone ack or a duplicate.                     *)
LEMMA OldMessageTalks ==
    ASSUME NEW n, NEW x, NEW H, NEW f, Quiet(f, n, x, H),
           NEW m, m.ack \in Acks(n) \cup {None}, NEW dup,
           \/ m.kind = "sack" /\ dup = FALSE
           \/ m.kind = "app" /\ dup = TRUE /\ f.c.ackCtr # None /\ f.c.session,
           NEW reaction, NEW o, o # "nobuf"
    PROVE  Quiet(HandleMessage(f, m, dup, reaction, o), n, x, H)
  <1> DEFINE a == IF ~dup /\ m.ack # None THEN HandleRcvdAck(f, m.ack) ELSE f
             b == IF m.kind = "app" THEN HandleNeedsAck(a, m.ctr, dup, o) ELSE a
             d == IF b.c.ackPend /\ b.c.closed THEN FlushAcks(b, o) ELSE b
  <1>1. HandleMessage(f, m, dup, reaction, o) \in {d, MessageHandled(d, o)}
    BY DEF HandleMessage
  <1>2. Quiet(b, n, x, H)
    <2>1. CASE m.kind = "sack" /\ dup = FALSE
      BY <2>1, RcvdAckTalks
    <2>2. CASE m.kind = "app" /\ dup = TRUE /\ f.c.ackCtr # None /\ f.c.session
      <3> DEFINE g == HandleNeedsAck(f, m.ctr, TRUE, o)
      <3>1. IsFrame(f)
        BY DEF Quiet, Bearing
      <3>2. Calm(f, g)
        BY <2>2, <3>1, NeedsAckDuplicate
      <3>3. b = g
        BY <2>2
      <3> HIDE DEF g, b
      <3> QED
        BY <3>2, <3>3, QuietCalm
    <2> QED
      BY <2>1, <2>2
  <1> HIDE DEF b
  <1>3. Quiet(d, n, x, H)
    <2>1. IsFrame(b)
      BY <1>2 DEF Quiet, Bearing
    <2>2. Calm(b, d)
      BY <2>1, CalmStandaloneAck, CalmItself
    <2> HIDE DEF d
    <2> QED
      BY <1>2, <2>2, QuietCalm
  <1> HIDE DEF d
  <1>4. Calm(d, MessageHandled(d, o))
    <2>1. IsFrame(d)
      BY <1>3 DEF Quiet, Bearing
    <2> QED
      BY <2>1, CalmClose
  <1> QED
    BY <1>1, <1>3, <1>4, QuietCalm

(* HandleMessage, for a new message: it answers our last one, so nothing   *)
(* is retained any more when the application gets it.                      *)
LEMMA NewMessageTalks ==
    ASSUME NEW n, NEW x, NEW G, NEW H, NEW f, Quiet(f, n, x, G), f.c.session, ~f.c.ackPend,
           next[n] \in Nat, Own(n, x) \subseteq Nat,
           NEW m, m.kind = "app", m.ack \in Acks(n) \cup {None}, Tip(n, x, m.ack),
           \A k \in H : k <= m.ctr, Turn(n, x, m.ctr),
           NEW reaction \in AllReactions, NEW o
    PROVE  Talks(HandleMessage(f, m, FALSE, reaction, o), n, x, H)
  <1> DEFINE a == IF m.ack # None THEN HandleRcvdAck(f, m.ack) ELSE f
             b == HandleNeedsAck(a, m.ctr, FALSE, o)
             flushes == b.c.ackPend /\ b.c.closed
             d == IF flushes THEN FlushAcks(b, o) ELSE b
             stops == flushes /\ SendStandaloneAckFails(b, o)
             e == IF stops THEN d ELSE HandleNewMessage(d, m, reaction, o)
  <1>1. HandleMessage(f, m, FALSE, reaction, o) \in {e, MessageHandled(e, o)}
    BY DEF HandleMessage
  <1>2. Quiet(a, n, x, G) /\ a.c.session /\ ~a.c.ackPend /\ a.c.retrans = None
    <2>1. f.c.retrans # None => f.c.retrans = m.ack
      BY DEF Quiet, Tip, None
    <2>2. CASE m.ack = None
      BY <2>1, <2>2
    <2>3. CASE m.ack # None
      BY <2>1, <2>3, RcvdAckTalks
    <2> QED
      BY <2>2, <2>3
  <1> HIDE DEF a
  <1>3. /\ Quiet(b, n, x, H) /\ b.c.session /\ b.c.ackCtr = m.ctr /\ b.c.retrans = None
    <2>1. IsFrame(a) /\ Bearing(a, n, x, G)
      BY <1>2 DEF Quiet, Bearing
    <2>2. Keeps(a, b) /\ b.c.ackCtr = m.ctr
      <3>1. /\ Keeps(a, b)
            /\ ~a.c.ackPend => b.c.ackCtr = m.ctr
        BY <2>1, NeedsAckNew
      <3> HIDE DEF b
      <3> QED
        BY <1>2, <3>1
    <2> HIDE DEF b
    <2>3. Bearing(b, n, x, H)
      BY <2>1, <2>2 DEF Keeps, Bearing
    <2> QED
      BY <1>2, <2>2, <2>3 DEF Keeps, Quiet
  <1> HIDE DEF b
  <1>4. /\ Quiet(d, n, x, H) /\ d.c.session /\ d.c.ackCtr = m.ctr /\ d.c.retrans = None
    <2>1. IsFrame(b)
      BY <1>3 DEF Quiet, Bearing
    <2>2. Calm(b, d)
      BY <2>1, CalmStandaloneAck, CalmItself
    <2> HIDE DEF d
    <2> QED
      BY <1>3, <2>2, QuietCalm DEF Calm
  <1> HIDE DEF d
  <1>5. Talks(e, n, x, H)
    <2>1. Talks(d, n, x, H)
      BY <1>4 DEF Talks
    <2>2. Talks(HandleNewMessage(d, m, reaction, o), n, x, H)
      BY <1>4, HandleNewMessageTalks
    <2> QED
      BY <2>1, <2>2
  <1> HIDE DEF e
  <1>6. Calm(e, MessageHandled(e, o))
    <2>1. IsFrame(e)
      BY <1>5 DEF Talks, Quiet, Loud, Bearing
    <2> QED
      BY <2>1, CalmClose
  <1> QED
    BY <1>1, <1>5, <1>6, TalksCalm

(* The opener of an exchange is given to the application.                  *)
LEMMA OpenerDelivered ==
    ASSUME NEW n, NEW x, NEW H, NEW f, FrameShape(f, n, x, H), ~f.c.closed,
           f.c.retrans = None, NEW m, m.kind = "app", m.ack = None, m.ctr \in H,
           NEW reaction \in AllReactions, reaction # "notPermitted", NEW o
    PROVE  m.ctr \in HandleMessage(f, m, FALSE, reaction, o).delivered
  <1> DEFINE b == HandleNeedsAck(f, m.ctr, FALSE, o)
             e == HandleNewMessage(b, m, reaction, o)
  <1>1. FrameShape(b, n, x, H) /\ SameLife(f.c, b.c)
    <2>1. PICK u \in BOOLEAN : u = FALSE
      OBVIOUS
    <2>2. FrameShape(HandleNeedsAck(f, m.ctr, u, o), n, x, H)
          /\ SameLife(f.c, HandleNeedsAck(f, m.ctr, u, o).c)
      BY NeedsAckOK
    <2> QED
      BY <2>1, <2>2
  <1>2. ~b.c.closed /\ b.c.retrans = None /\ IsFrame(b)
    BY <1>1 DEF SameLife, FrameShape, IsContext, IsFrame
  <1>3. HandleMessage(f, m, FALSE, reaction, o) = MessageHandled(e, o)
    BY <1>2 DEF HandleMessage
  <1> HIDE DEF b
  <1> DEFINE got == IF b.c.respExp THEN NoResponse(b) ELSE b
             z == IF m.ctr \in delivered[b.n] THEN {"twice"} ELSE {}
             given == Given(got, m.ctr, z)
  <1>4. e = OnMessageReceived(given, reaction, o)
    BY <1>2 DEF HandleNewMessage, Given, NoResponse
  <1>5. IsFrame(got)
    BY <1>2, CalmNoResponse DEF Calm
  <1> HIDE DEF got, z
  <1>6. IsFrame(given) /\ m.ctr \in given.delivered
    BY <1>5 DEF IsFrame, FrameFields, Given
  <1> HIDE DEF given
  <1> DEFINE w == [given EXCEPT !.c.willSend = TRUE]
             s == AbortAllOtherCommunicationOnFabric(given)
  <1>t. PICK t \in BOOLEAN : t = TRUE
    OBVIOUS
  <1>f. PICK u \in BOOLEAN : u = FALSE
    OBVIOUS
  <1>7. e \in {given, SendMessage(given, u, o), SendMessage(given, t, o), w,
               SendMessage(s, u, o)}
    BY <1>4, <1>t, <1>f DEF OnMessageReceived, AllReactions
  <1>8. /\ IsFrame(w) /\ w.delivered = given.delivered
        /\ IsFrame(s) /\ s.delivered = given.delivered
    BY <1>6 DEF IsFrame, FrameFields, ContextFields, AbortAllOtherCommunicationOnFabric
  <1>9. ASSUME NEW g, IsFrame(g), NEW v \in BOOLEAN
        PROVE  /\ IsFrame(SendMessage(g, v, o))
               /\ SendMessage(g, v, o).delivered = g.delivered
    BY <1>9, SendMessageSays DEF Silent, Spoke
  <1> HIDE DEF w, s, e
  <1>10. IsFrame(e) /\ e.delivered = given.delivered
    BY <1>6, <1>7, <1>8, <1>9
  <1>11. MessageHandled(e, o).delivered = e.delivered
    BY <1>10, CalmClose DEF Calm
  <1> QED
    BY <1>3, <1>6, <1>10, <1>11 DEF e

-----------------------------------------------------------------------------
(* The invariant of the conversation.  The nodes take turns: a message is  *)
(* answered once at most (Single), an answer comes later than what it      *)
(* answers (Later), and a node that has gone on has had an answer to its   *)
(* earlier messages and has answered that (Settled).  A context announces  *)
(* a send, and has an ack pending, only when it is its turn; what it would *)
(* acknowledge is the newest it has heard (TurnOK).  An exchange has begun *)
(* when its opener, the message that acknowledges nothing, was received.   *)

Answers(a, m) == a.src # m.src /\ a.ex = m.ex /\ a.ack = m.ctr

Begun(x) ==
    \E m \in Apps : /\ m.ex = x /\ m.ack = None
                    /\ \A n \in Node \ {m.src} : m.ctr \in received[n]

CountersOK ==
    /\ \A m \in Apps : m.ctr \in Nat \ {0} /\ m.ctr < next[m.src]
    /\ \A m, k \in Apps : m.src = k.src /\ m.ctr = k.ctr => m = k
    /\ \A n \in Node : \A j \in received[n] : \E m \in Apps : m.src # n /\ m.ctr = j

Single == \A m, k \in Apps : m.src = k.src /\ m.ex = k.ex /\ m.ack = k.ack => m = k

Openers ==
    \A m \in Apps : IF m.ack = None THEN m.src = m.ex.initiator ELSE Begun(m.ex)

Later == \A m, a, k \in Apps : Answers(k, a) /\ Answers(a, m) => m.ctr < k.ctr

Settled ==
    \A m, k \in Apps :
        m.src = k.src /\ m.ex = k.ex /\ m.ctr < k.ctr =>
            \E a, b \in Apps : Answers(a, m) /\ Answers(b, a)

TurnOK(n, x) ==
    LET c == ctx[n][x] IN
    /\ c.session => \A k \in Heard(n, x, received[n]) : k <= c.ackCtr
    /\ c.session /\ (c.willSend \/ c.ackPend) => Turn(n, x, c.ackCtr)
    /\ c.retrans # None => Tip(n, x, c.retrans)
    /\ x.initiator # n => Begun(x)

TalkInv ==
    /\ CountersOK /\ Single /\ Openers /\ Later /\ Settled
    /\ \A n \in Node : \A x \in live[n] : TurnOK(n, x)
    /\ "unackedDrop" \notin faults
    /\ sess = [n \in Node |-> sess[n]]
    /\ acked = [n \in Node |-> acked[n]]
    /\ \A n \in Node : acked[n] \subseteq Acks(n)

LEMMA TwoNodes ==
    ASSUME NEW n \in Node, NEW p \in Node, NEW q \in Node, p # n, q # n
    PROVE  p = q
BY ExchangeAssumption

(* What an application message acknowledges is one of the peer's.          *)
LEMMA AckIsOwn ==
    ASSUME IInv, NEW m \in Apps, m.ack # None
    PROVE  /\ m.ack \in received[m.src]
           /\ \E q \in Apps : q.src # m.src /\ q.ex = m.ex /\ q.ctr = m.ack
  <1>1. m \in net
    BY DEF Apps
  <1>2. m.ack \in Heard(m.src, m.ex, received[m.src])
    BY <1>1 DEF IInv, NetInv
  <1>3. PICK q \in net : q.src # m.src /\ q.ex = m.ex /\ q.ctr = m.ack
    BY <1>2 DEF Heard
  <1>4. q.kind = "app"
    BY <1>3 DEF IInv, NetInv
  <1> QED
    BY <1>2, <1>3, <1>4 DEF Heard, Apps

(* A message that is new to node n answers the last one n has sent, and is *)
(* later than what n has received before.                                  *)
LEMMA NewAnswersTip ==
    ASSUME IInv, TalkInv, NEW n \in Node, NEW m \in Apps, m.src # n, m.ctr \notin received[n]
    PROVE  /\ Tip(n, m.ex, m.ack)
           /\ Turn(n, m.ex, m.ctr)
           /\ \A k \in Heard(n, m.ex, received[n]) : k < m.ctr
  <1> DEFINE x == m.ex
  <1>0. m.src \in Node /\ m \in net
    BY DEF Apps, IInv, NetInv
  <1>1. Tip(n, x, m.ack)
    <2>1. CASE m.ack = None
      <3>1. SUFFICES ASSUME NEW k \in Apps, k.src = n, k.ex = x PROVE FALSE
        BY <2>1 DEF Tip, Own
      <3>2. m.src = x.initiator
        BY <2>1 DEF TalkInv, Openers
      <3>3. Begun(x)
        BY <3>1, <3>2 DEF TalkInv, Openers
      <3>4. PICK q \in Apps : /\ q.ex = x /\ q.ack = None
                              /\ \A p \in Node \ {q.src} : q.ctr \in received[p]
        BY <3>3 DEF Begun
      <3>5. q = m
        BY <2>1, <3>2, <3>4 DEF TalkInv, Openers, Single
      <3> QED
        BY <3>4, <3>5
    <2>2. CASE m.ack # None
      <3>1. PICK q \in Apps : q.src # m.src /\ q.ex = x /\ q.ctr = m.ack
        BY <2>2, AckIsOwn
      <3>2. q.src = n
        BY <1>0, <3>1, TwoNodes DEF Apps, IInv, NetInv
      <3>3. m.ack \in Own(n, x)
        BY <3>1, <3>2 DEF Own
      <3>4. SUFFICES ASSUME NEW k \in Apps, k.src = n, k.ex = x, ~(k.ctr <= m.ack) PROVE FALSE
        BY <3>3 DEF Tip, Own
      <3>5. q.ctr < k.ctr
        BY <3>1, <3>4 DEF TalkInv, CountersOK
      <3>6. PICK a, b \in Apps : Answers(a, q) /\ Answers(b, a)
        BY <3>1, <3>2, <3>4, <3>5 DEF TalkInv, Settled
      <3>7. a.src = m.src /\ b.src = n
        <4>1. a.src \in Node /\ b.src \in Node
          BY DEF Apps, IInv, NetInv
        <4> QED
          BY <1>0, <3>2, <3>6, <4>1, TwoNodes DEF Answers
      <3>8. a = m
        BY <3>1, <3>6, <3>7 DEF Answers, TalkInv, Single
      <3>9. b.ack = m.ctr /\ m.ctr # None
        BY <1>0, <3>6, <3>8 DEF Answers, IInv, NetInv, Apps
      <3> QED
        BY <3>7, <3>9, AckIsOwn
    <2> QED
      BY <2>1, <2>2
  <1>2. Turn(n, x, m.ctr)
    BY <1>1 DEF Turn
  <1>3. ASSUME NEW k \in Heard(n, x, received[n]) PROVE k < m.ctr
    <2>1. PICK q \in net : q.src # n /\ q.ex = x /\ q.ctr = k
      BY DEF Heard
    <2>2. PICK r \in Apps : r.src # n /\ r.ctr = k
      BY DEF Heard, TalkInv, CountersOK
    <2>3. k \in Nat \ {0} /\ k \in received[n]
      BY <2>2 DEF TalkInv, CountersOK, Heard
    <2>4. q \in Apps
      BY <2>1, <2>3 DEF IInv, NetInv, Apps, None
    <2>5. q.src = m.src
      BY <1>0, <2>1, TwoNodes DEF IInv, NetInv
    <2>6. SUFFICES ASSUME m.ctr < q.ctr PROVE FALSE
      <3>1. m.ctr \in Nat /\ m.ctr # k
        BY <2>3 DEF TalkInv, CountersOK
      <3> QED
        BY <2>1, <2>3, <2>6, <3>1
    <2>7. PICK a, b \in Apps : Answers(a, m)
      BY <2>1, <2>4, <2>5, <2>6 DEF TalkInv, Settled
    <2>8. a.src = n /\ a.ack = m.ctr /\ m.ctr # None
      <3>1. a.src \in Node
        BY DEF Apps, IInv, NetInv
      <3>2. a.src = n
        BY <1>0, <2>7, <3>1, TwoNodes DEF Answers
      <3> QED
        BY <1>0, <2>7, <3>2 DEF Answers, IInv, NetInv, Apps
    <2> QED
      BY <2>8, AckIsOwn
  <1> QED
    BY <1>1, <1>2, <1>3

(* A step in which node n says nothing, or one thing when it is its turn.  *)
Says(n, x, k, j) ==
    /\ Apps' = Apps \cup {App(n, x, k, j)}
    /\ k \in Nat /\ next[n] <= k /\ k < next'[n]
    /\ Turn(n, x, j)

OrderlyStep(n) ==
    /\ net \subseteq net' /\ \A m \in net' : m \in net \/ m.src = n
    /\ \A p \in Node : /\ received[p] \subseteq received'[p]
                       /\ \A j \in received'[p] : \E m \in Apps : m.src # p /\ m.ctr = j
                       /\ next[p] <= next'[p]

LEMMA BegunStays ==
    ASSUME NEW n \in Node, OrderlyStep(n), NEW x, Begun(x)
    PROVE  Begun(x)'
  <1>1. PICK m \in Apps : /\ m.ex = x /\ m.ack = None
                          /\ \A p \in Node \ {m.src} : m.ctr \in received[p]
    BY DEF Begun
  <1>2. m \in Apps'
    BY DEF Apps, OrderlyStep
  <1>3. \A p \in Node \ {m.src} : m.ctr \in received'[p]
    BY <1>1 DEF OrderlyStep
  <1> QED
    BY <1>1, <1>2, <1>3 DEF Begun

(* Whoever has received anything of an exchange has received its opener.   *)
LEMMA HeardBegun ==
    ASSUME IInv, TalkInv, NEW n \in Node, OrderlyStep(n), NEW x,
           NEW j \in Heard(n, x, received[n])'
    PROVE  Begun(x)'
  <1>1. PICK q \in net' : q.src # n /\ q.ex = x /\ q.ctr = j
    BY DEF Heard
  <1>2. j \in received'[n]
    BY DEF Heard
  <1>3. q \in net /\ q.src \in Node
    BY <1>1 DEF OrderlyStep, IInv, NetInv
  <1>4. j # None
    BY <1>2 DEF OrderlyStep, TalkInv, CountersOK, None
  <1>5. q \in Apps
    BY <1>1, <1>3, <1>4 DEF IInv, NetInv, Apps
  <1>6. CASE q.ack # None
    BY <1>1, <1>5, <1>6, BegunStays DEF TalkInv, Openers
  <1>7. CASE q.ack = None
    <2>1. q \in Apps'
      BY <1>5 DEF Apps, OrderlyStep
    <2>2. \A p \in Node \ {q.src} : p = n
      BY <1>1, <1>3, TwoNodes
    <2> QED
      BY <1>1, <1>2, <1>7, <2>1, <2>2 DEF Begun
  <1> QED
    BY <1>6, <1>7

LEMMA CountersStep ==
    ASSUME IInv, TalkInv, NEW n \in Node, OrderlyStep(n), next' \in [Node -> Nat],
           NEW x, NEW k, NEW j, Apps' = Apps \/ Says(n, x, k, j)
    PROVE  CountersOK'
  <1>0. next \in [Node -> Nat] /\ \A m \in Apps : m.src \in Node
    BY DEF IInv, TypeInv, NetInv, Apps
  <1> DEFINE w == App(n, x, k, j)
  <1>1. w.src = n /\ w.ctr = k
    BY DEF App
  <1>2. Says(n, x, k, j) => k \in Nat \ {0} /\ next[n] <= k /\ k < next'[n]
    BY DEF Says, IInv, TypeInv
  <1>3. \A m \in Apps' : m \in Apps \/ (Says(n, x, k, j) /\ m = w)
    BY DEF Says
  <1> HIDE DEF w
  <1>4. ASSUME NEW m \in Apps'
        PROVE  m.ctr \in Nat \ {0} /\ m.ctr < next'[m.src]
    <2>1. CASE m \in Apps
      <3>1. m.ctr \in Nat \ {0} /\ m.ctr < next[m.src] /\ m.src \in Node
        BY <1>0, <2>1 DEF TalkInv, CountersOK
      <3>2. next[m.src] <= next'[m.src] /\ next[m.src] \in Nat /\ next'[m.src] \in Nat
        BY <1>0, <3>1 DEF OrderlyStep
      <3> QED
        BY <3>1, <3>2
    <2>2. CASE Says(n, x, k, j) /\ m = w
      BY <1>1, <1>2, <2>2
    <2> QED
      BY <1>3, <2>1, <2>2
  <1>5. ASSUME NEW m \in Apps, m.src = n, Says(n, x, k, j) PROVE m.ctr # k
    <2>1. m.ctr \in Nat /\ m.ctr < next[n]
      BY <1>5 DEF TalkInv, CountersOK
    <2> QED
      BY <1>0, <1>2, <1>5, <2>1
  <1>6. ASSUME NEW m \in Apps', NEW q \in Apps', m.src = q.src, m.ctr = q.ctr
        PROVE  m = q
    BY <1>1, <1>3, <1>5, <1>6 DEF TalkInv, CountersOK
  <1>7. \A p \in Node : \A i \in received'[p] : \E m \in Apps' : m.src # p /\ m.ctr = i
    <2>1. Apps \subseteq Apps'
      BY DEF Apps, OrderlyStep
    <2> QED
      BY <2>1 DEF OrderlyStep
  <1> QED
    BY <1>4, <1>6, <1>7 DEF CountersOK

(* Nobody has acknowledged a counter that is still to be used.             *)
LEMMA NotYetAcked ==
    ASSUME IInv, TalkInv, NEW n \in Node, NEW k \in Nat, next[n] <= k,
           NEW a \in Apps, a.src # n
    PROVE  a.ack # k
  <1>1. SUFFICES ASSUME a.ack = k PROVE FALSE
    OBVIOUS
  <1>2. next[n] \in Nat \ {0} /\ a.src \in Node
    BY DEF IInv, TypeInv, NetInv, Apps
  <1>3. a.ack # None
    BY <1>1, <1>2 DEF None
  <1>4. PICK q \in Apps : q.src # a.src /\ q.ctr = k
    BY <1>1, <1>3, AckIsOwn
  <1>5. q.src = n
    BY <1>2, <1>4, TwoNodes DEF IInv, NetInv, Apps
  <1>6. q.ctr \in Nat /\ q.ctr < next[n]
    BY <1>5 DEF TalkInv, CountersOK
  <1> QED
    BY <1>2, <1>4, <1>6

LEMMA AnswersStep ==
    ASSUME IInv, IInv', TalkInv, NEW n \in Node, OrderlyStep(n),
           NEW x, NEW k, NEW j, Says(n, x, k, j)
    PROVE  Single' /\ Openers' /\ Later' /\ Settled'
  <1> DEFINE w == App(n, x, k, j)
  <1>0. /\ \A m \in Apps : m.src \in Node /\ m.ctr \in Nat \ {0}
        /\ \A m \in Apps : m.src = n => m.ctr < k
        /\ k \in Nat \ {0}
    <2>1. next[n] \in Nat \ {0} /\ \A m \in Apps : m.src \in Node /\ m.ctr \in Nat \ {0}
      BY DEF IInv, TypeInv, NetInv, Apps, TalkInv, CountersOK
    <2>2. \A m \in Apps : m.src = n => m.ctr < next[n]
      BY DEF TalkInv, CountersOK
    <2> QED
      BY <2>1, <2>2 DEF Says
  <1>1. w.src = n /\ w.ex = x /\ w.ctr = k /\ w.ack = j /\ w.kind = "app"
    BY DEF App
  <1>2. Apps' = Apps \cup {w}
    BY DEF Says
  <1>3. \A a \in Apps : a.src # n => a.ack # k
    BY NotYetAcked DEF Says
  <1> HIDE DEF w
  <1>4. ASSUME NEW m \in Apps, m.src = n, m.ex = x
        PROVE  \E a \in Apps : /\ a.src # n /\ a.ex = x /\ a.ctr = j
                               /\ a.ack \in Own(n, x) /\ m.ctr <= a.ack
    <2>1. m.ctr \in Own(n, x)
      BY <1>4 DEF Own
    <2>2. PICK a \in Apps : a.src # n /\ a.ex = x /\ a.ctr = j /\ Tip(n, x, a.ack)
      BY <2>1 DEF Says, Turn
    <2>3. m.ctr <= a.ack /\ a.ack \in Own(n, x) \cup {None}
      BY <2>1, <2>2 DEF Tip
    <2>4. a.ack # None
      BY <1>0, <2>3 DEF None
    <2> QED
      BY <2>2, <2>3, <2>4
  <1>5. ASSUME NEW m \in Apps, m.src = n, m.ex = x PROVE m.ack # j
    <2>1. PICK a \in Apps : /\ a.src # n /\ a.ex = x /\ a.ctr = j
                            /\ a.ack \in Own(n, x) /\ m.ctr <= a.ack
      BY <1>4, <1>5
    <2>2. PICK c \in Apps : c.src = n /\ c.ex = x /\ c.ctr = a.ack
      BY <2>1 DEF Own
    <2>3. m.ack = j => c.ctr < m.ctr
      BY <1>5, <2>1, <2>2 DEF TalkInv, Later, Answers
    <2> QED
      BY <1>0, <2>1, <2>2, <2>3
  <1>6. Single'
    <2>1. SUFFICES ASSUME NEW m \in Apps', NEW q \in Apps',
                          m.src = q.src, m.ex = q.ex, m.ack = q.ack
                   PROVE  m = q
      BY DEF Single
    <2> QED
      BY <1>1, <1>2, <1>5, <2>1 DEF TalkInv, Single
  <1>7. Openers'
    <2>1. SUFFICES ASSUME NEW m \in Apps'
                   PROVE  IF m.ack = None THEN m.src = m.ex.initiator ELSE Begun(m.ex)'
      BY DEF Openers
    <2>2. CASE m \in Apps
      BY <2>2, BegunStays DEF TalkInv, Openers
    <2>3. CASE m = w /\ j = None
      <3>1. ~(\E a \in Apps : a.ctr = j)
        BY <1>0, <2>3 DEF None
      <3> QED
        BY <1>1, <2>3, <3>1 DEF Says, Turn
    <2>4. CASE m = w /\ j # None
      <3>1. m \in net' /\ m.ack \in Heard(n, x, received[n])'
        BY <1>1, <2>1, <2>4 DEF IInv, NetInv, Apps
      <3> QED
        BY <1>1, <2>4, <3>1, HeardBegun
    <2> QED
      BY <1>2, <2>2, <2>3, <2>4
  <1>8. Later'
    <2>1. SUFFICES ASSUME NEW m \in Apps', NEW a \in Apps', NEW q \in Apps',
                          Answers(q, a), Answers(a, m)
                   PROVE  m.ctr < q.ctr
      BY DEF Later, Answers
    <2>2. a # w
      BY <1>1, <1>2, <1>3, <2>1 DEF Answers
    <2>3. m # w
      BY <1>1, <1>2, <1>3, <2>1, <2>2 DEF Answers
    <2>4. CASE q \in Apps
      BY <1>2, <2>1, <2>2, <2>3, <2>4 DEF TalkInv, Later
    <2>5. CASE q = w
      <3>1. m.src = n
        BY <1>0, <1>1, <1>2, <2>1, <2>2, <2>3, <2>5, TwoNodes DEF Answers
      <3> QED
        BY <1>0, <1>1, <1>2, <2>3, <2>5, <3>1
    <2> QED
      BY <1>2, <2>4, <2>5
  <1>9. Settled'
    <2>1. SUFFICES ASSUME NEW m \in Apps', NEW q \in Apps',
                          m.src = q.src, m.ex = q.ex, m.ctr < q.ctr
                   PROVE  \E a, b \in Apps' : Answers(a, m) /\ Answers(b, a)
      BY DEF Settled, Answers
    <2>2. CASE m \in Apps /\ q \in Apps
      BY <1>2, <2>1, <2>2 DEF TalkInv, Settled
    <2>3. CASE m \in Apps /\ q = w
      <3>1. PICK a \in Apps : /\ a.src # n /\ a.ex = x /\ a.ctr = j
                              /\ a.ack \in Own(n, x) /\ m.ctr <= a.ack
        BY <1>1, <1>4, <2>1, <2>3
      <3>2. PICK c \in Apps : c.src = n /\ c.ex = x /\ c.ctr = a.ack
        BY <3>1 DEF Own
      <3>3. CASE m.ctr = a.ack
        BY <1>1, <1>2, <2>1, <2>3, <3>1, <3>3 DEF Answers
      <3>4. CASE m.ctr # a.ack
        <4>1. m.ctr < c.ctr
          BY <1>0, <2>3, <3>1, <3>2, <3>4
        <4> QED
          BY <1>1, <1>2, <2>1, <2>3, <3>2, <4>1 DEF TalkInv, Settled
      <3> QED
        BY <3>3, <3>4
    <2>4. CASE m = w /\ q \in Apps
      BY <1>0, <1>1, <2>1, <2>4
    <2>5. CASE m = w /\ q = w
      BY <1>0, <1>1, <2>1, <2>5
    <2> QED
      BY <1>2, <2>2, <2>3, <2>4, <2>5
  <1> QED
    BY <1>6, <1>7, <1>8, <1>9

LEMMA SameAnswers ==
    ASSUME TalkInv, NEW n \in Node, OrderlyStep(n), Apps' = Apps
    PROVE  Single' /\ Openers' /\ Later' /\ Settled'
  <1>1. Single' /\ Later' /\ Settled'
    BY DEF TalkInv, Single, Later, Settled, Answers
  <1>2. Openers'
    BY BegunStays DEF TalkInv, Openers
  <1> QED
    BY <1>1, <1>2

(* The contexts that a step of node n on exchange x does not touch.        *)
LEMMA OwnStays ==
    ASSUME NEW n, NEW x, NEW k, NEW j, Apps' = Apps \/ Says(n, x, k, j),
           NEW p, NEW y, p # n \/ y # x
    PROVE  /\ Own(p, y)' = Own(p, y)
           /\ \A i : Tip(p, y, i) => Tip(p, y, i)'
           /\ \A i : Turn(p, y, i) => Turn(p, y, i)'
  <1>1. App(n, x, k, j).src = n /\ App(n, x, k, j).ex = x
    BY DEF App
  <1>2. Own(p, y)' = Own(p, y)
    BY <1>1 DEF Own, Says
  <1>3. Apps \subseteq Apps'
    BY DEF Says
  <1>4. \A i : Tip(p, y, i) => Tip(p, y, i)'
    BY <1>2 DEF Tip
  <1>5. \A i : Turn(p, y, i) => Turn(p, y, i)'
    BY <1>2, <1>3, <1>4 DEF Turn
  <1> QED
    BY <1>2, <1>4, <1>5

LEMMA HeardOnly ==
    ASSUME IInv, IInv', TalkInv, NEW n \in Node, OrderlyStep(n),
           NEW x, NEW k, NEW j, Apps' = Apps \/ Says(n, x, k, j),
           NEW p \in Node, NEW y, NEW i \in Heard(p, y, received[p])'
    PROVE  /\ i \in received'[p]
           /\ \E q \in Apps : q.src # p /\ q.ex = y /\ q.ctr = i
  <1>1. i \in received'[p]
    BY DEF Heard
  <1>2. PICK q \in net' : q.src # p /\ q.ex = y /\ q.ctr = i
    BY DEF Heard
  <1>3. PICK m \in Apps : m.src # p /\ m.ctr = i
    BY <1>1 DEF OrderlyStep
  <1>4. i \in Nat \ {0} /\ m.ctr < next[m.src] /\ m.src \in Node /\ next[n] \in Nat
    BY <1>3 DEF TalkInv, CountersOK, IInv, NetInv, TypeInv, Apps
  <1>5. q \in Apps'
    BY <1>2, <1>4 DEF IInv, NetInv, Apps, None
  <1>6. CASE q \in Apps
    BY <1>1, <1>2, <1>6
  <1>7. CASE q \notin Apps
    <2>1. Says(n, x, k, j) /\ q = App(n, x, k, j)
      BY <1>5, <1>7 DEF Says
    <2>2. q.src = n /\ q.ctr = k
      BY <2>1 DEF App
    <2>3. m.src = n
      BY <1>2, <1>3, <1>4, <2>2, TwoNodes
    <2> QED
      BY <1>2, <1>3, <1>4, <2>1, <2>2, <2>3 DEF Says
  <1> QED
    BY <1>6, <1>7

LEMMA UntouchedTurn ==
    ASSUME IInv, IInv', TalkInv, NEW n \in Node, OrderlyStep(n),
           NEW x, NEW k, NEW j, Apps' = Apps \/ Says(n, x, k, j),
           NEW p \in Node, NEW y, p # n \/ y # x, TurnOK(p, y),
           ctx'[p][y] = ctx[p][y],
           ctx[p][y].session => Heard(p, y, received[p])' \subseteq Heard(p, y, received[p])
    PROVE  TurnOK(p, y)'
  <1>0. PICK c : c = ctx[p][y]
    OBVIOUS
  <1>1. ctx'[p][y] = c
    BY <1>0
  <1>2. c.session => \A i \in Heard(p, y, received[p])' : i <= c.ackCtr
    BY <1>0 DEF TurnOK
  <1>3. c.session /\ (c.willSend \/ c.ackPend) => Turn(p, y, c.ackCtr)'
    BY <1>0, OwnStays DEF TurnOK
  <1>4. c.retrans # None => Tip(p, y, c.retrans)'
    BY <1>0, OwnStays DEF TurnOK
  <1>5. y.initiator # p => Begun(y)'
    BY BegunStays DEF TurnOK
  <1> QED
    BY <1>1, <1>2, <1>3, <1>4, <1>5 DEF TurnOK

LEMMA TalkStep ==
    ASSUME IInv, IInv', TalkInv, NEW n \in Node, OrderlyStep(n), next' \in [Node -> Nat],
           NEW x, NEW k, NEW j, Apps' = Apps \/ Says(n, x, k, j),
           \A p \in Node \ {n} : /\ live'[p] = live[p] /\ ctx'[p] = ctx[p]
                                 /\ received'[p] = received[p],
           \A y \in live'[n] : TurnOK(n, y)',
           "unackedDrop" \notin faults',
           sess' = [p \in Node |-> sess'[p]], acked' = [p \in Node |-> acked'[p]],
           \A p \in Node : acked'[p] \subseteq Acks(p)'
    PROVE  TalkInv'
  <1>1. CountersOK'
    BY CountersStep
  <1>2. Single' /\ Openers' /\ Later' /\ Settled'
    BY AnswersStep, SameAnswers
  <1>3. ASSUME NEW p \in Node, NEW y \in live'[p] PROVE TurnOK(p, y)'
    <2>1. CASE p = n
      BY <2>1
    <2>2. CASE p # n
      <3>1. y \in live[p] /\ ctx'[p][y] = ctx[p][y] /\ received'[p] = received[p]
        BY <2>2
      <3>2. Heard(p, y, received[p])' \subseteq Heard(p, y, received[p])
        <4>1. ASSUME NEW i \in Heard(p, y, received[p])'
              PROVE  i \in received[p] /\ \E q \in Apps : q.src # p /\ q.ex = y /\ q.ctr = i
          BY <3>1, HeardOnly, SMTT(30)
        <4> QED
          BY <4>1 DEF Heard, Apps
      <3>3. TurnOK(p, y)
        BY <3>1 DEF TalkInv
      <3> QED
        BY <2>2, <3>1, <3>2, <3>3, UntouchedTurn
    <2> QED
      BY <2>1, <2>2
  <1> QED
    BY <1>1, <1>2, <1>3 DEF TalkInv

(* A context whose session was taken away can neither send nor repeat.     *)
LEMMA ReleasedTalks ==
    ASSUME IInv, NEW n \in Node, NEW z \in live[n]
    PROVE  ~ReleasedContext(n, z).session /\ ReleasedContext(n, z).retrans = None
  <1> DEFINE f == Frame(n, z, ctx[n][z])
             g == [f EXCEPT !.c.session = FALSE]
             e == IF f.c.respExp THEN NoResponse(g) ELSE g
             h == OnSessionReleased(f)
  <1>0. IsContext(ctx[n][z])
    BY DEF IInv, ContextInv
  <1>1. IsFrame(f)
    BY <1>0 DEF IsFrame, Frame, FrameFields, IsContext
  <1>2. ReleasedContext(n, z) = h.c
    BY DEF ReleasedContext
  <1> HIDE DEF f
  <1>3. IsFrame(g) /\ g.c.session = FALSE
    BY <1>1 DEF IsFrame, FrameFields, ContextFields
  <1>4. PICK t \in BOOLEAN : t = TRUE
    OBVIOUS
  <1>5. h \in {ClearRetransTable(g), DoClose(g, t, "failed"), ReleaseRef(DoClose(e, t, "failed"))}
    BY <1>4 DEF OnSessionReleased, Abort, NoResponse
  <1> HIDE DEF g, h
  <1>6. IsFrame(e) /\ e.c.session = FALSE
    <2>1. Calm(g, NoResponse(g))
      BY <1>3, CalmNoResponse
    <2> QED
      BY <1>3, <2>1 DEF Calm
  <1> HIDE DEF e
  <1>7. /\ ClearRetransTable(g).c.session = FALSE
        /\ DoClose(g, t, "failed").c.session = FALSE
        /\ ReleaseRef(DoClose(e, t, "failed")).c.session = FALSE
    <2>1. Calm(g, ClearRetransTable(g)) /\ Calm(g, DoClose(g, t, "failed"))
      BY <1>3, CalmFlags, CalmClose
    <2>2. Calm(e, ReleaseRef(DoClose(e, t, "failed")))
      BY <1>6, CalmClose
    <2> QED
      BY <1>3, <1>6, <2>1, <2>2 DEF Calm
  <1>8. h.c.session = FALSE
    BY <1>5, <1>7
  <1>9. Life(h.c)
    BY <1>2, ReleasedOK
  <1> QED
    BY <1>2, <1>8, <1>9 DEF Life

(* The counters R of node n grow by one of exchange x at most; and what is *)
(* known of the frame (G) covers all it has heard, if the context goes on. *)
OnlyOf(n, x, R) ==
    \A i \in R : i \in received[n] \/ \E m \in Apps : m.src # n /\ m.ctr = i /\ m.ex = x

GoesOn(f, n, x, G, H) ==
    Referenced(f.c) => G = H /\ (x.initiator = n \/ Begun(x) \/ H # {})

EvictedStays == \A p \in Node : sess[p] = "evicted" => sess'[p] = "evicted"

(* What the end of a handler leaves of the conversation.                   *)
LEMMA FinishTalks ==
    ASSUME IInv, IInv', TalkInv, NEW n \in Node, NEW x \in Exchanges, NEW H, NEW G,
           NEW f, FrameOK(f, n, x, H), Talks(f, n, x, G),
           NEW R, received' = [received EXCEPT ![n] = R], received[n] \subseteq R,
           H = Heard(n, x, R), OnlyOf(n, x, R), GoesOn(f, n, x, G, H), Finish(f)
    PROVE  TalkInv' /\ EvictedStays
  <1> DEFINE C == [z \in Exchanges |->
                      IF z = f.x THEN f.c
                      ELSE IF f.release /\ z \in live[f.n] /\ ctx[f.n][z].session
                      THEN ReleasedContext(f.n, z)
                      ELSE ctx[f.n][z]]
             alive == live[f.n] \cup {f.x}
             kept == {z \in alive : Referenced(C[z])}
             new == [z \in Exchanges |-> IF z \in kept THEN C[z] ELSE NoContext]
  <1>0. /\ f.n = n /\ f.x = x /\ Life(f.c) /\ f.next \in Nat \ {0}
        /\ \A m \in f.out : m.src = n /\ m.ex = x
    BY DEF FrameOK, FrameShape
  <1>1. /\ live' = [live EXCEPT ![n] = kept] /\ ctx' = [ctx EXCEPT ![n] = new]
        /\ sess' = [sess EXCEPT ![n] = f.sess]
        /\ next' = [next EXCEPT ![n] = f.next]
        /\ net' = net \cup f.out
        /\ acked' = [acked EXCEPT ![n] = @ \cup f.acked]
        /\ faults' = faults \cup f.faults \cup UNION {FreeFaults(C[z]) : z \in alive}
    BY <1>0 DEF Finish, Settle
  <1>2. /\ TypeInv /\ NetInv /\ CountersOK
        /\ \A z \in live[n] : TurnOK(n, z)
    BY DEF IInv, TalkInv
  <1>3. /\ received'[n] = R
        /\ \A p \in Node \ {n} : received'[p] = received[p] /\ next'[p] = next[p]
        /\ next'[n] = f.next
    BY <1>1, <1>2 DEF TypeInv
  <1>4. Bearing(f, n, x, G) /\ f.next >= next[n]
    <2>1. next[n] \in Nat
      BY <1>2 DEF TypeInv
    <2> QED
      BY <1>0, <2>1 DEF Talks, Quiet, Loud
  <1>5. OrderlyStep(n)
    <2>1. net \subseteq net' /\ \A m \in net' : m \in net \/ m.src = n
      BY <1>0, <1>1
    <2>2. ASSUME NEW p \in Node
          PROVE  /\ received[p] \subseteq received'[p]
                 /\ \A j \in received'[p] : \E m \in Apps : m.src # p /\ m.ctr = j
                 /\ next[p] <= next'[p]
      <3>1. next[p] \in Nat
        BY <1>2 DEF TypeInv
      <3>2. CASE p = n
        BY <1>2, <1>3, <1>4, <3>1, <3>2 DEF CountersOK, OnlyOf
      <3>3. CASE p # n
        BY <1>2, <1>3, <3>1, <3>3 DEF CountersOK
      <3> QED
        BY <3>2, <3>3
    <2> QED
      BY <2>1, <2>2 DEF OrderlyStep
  <1>6. Apps' = Apps \cup Sayings(f)
    BY <1>1 DEF Apps, Sayings
  <1>7. ASSUME Loud(f, n, x, G)
        PROVE  \E k \in Nat : f.c.retrans \in {None, k} /\ Says(n, x, k, f.c.ackCtr)
    <2>1. PICK k \in Nat : /\ next[n] <= k /\ k < f.next /\ f.c.retrans \in {None, k}
                           /\ Sayings(f) = {App(n, x, k, f.c.ackCtr)}
      BY <1>7 DEF Loud
    <2> QED
      BY <1>3, <1>6, <1>7, <2>1 DEF Loud, Says
  <1>8. PICK k, j : \/ Quiet(f, n, x, G) /\ Apps' = Apps
                    \/ /\ Loud(f, n, x, G) /\ j = f.c.ackCtr
                       /\ k \in Nat /\ f.c.retrans \in {None, k} /\ Says(n, x, k, j)
    <2>1. CASE Quiet(f, n, x, G)
      BY <1>6, <2>1 DEF Quiet
    <2>2. CASE Loud(f, n, x, G)
      BY <1>7, <2>2
    <2> QED
      BY <2>1, <2>2 DEF Talks
  <1>9. ASSUME NEW y, NEW i \in Heard(n, y, received[n])'
        PROVE  i \in Heard(n, y, R) /\ (y # x => i \in received[n])
    <2>1. i \in R /\ \E q \in Apps : q.src # n /\ q.ex = y /\ q.ctr = i
      BY <1>3, <1>5, <1>8, HeardOnly
    <2>2. PICK q \in Apps : q.src # n /\ q.ex = y /\ q.ctr = i
      BY <2>1
    <2>3. ASSUME NEW m \in Apps, m.src # n, m.ctr = i PROVE m.ex = y
      <3>1. m.src = q.src
        BY <2>2, <2>3, TwoNodes DEF IInv, NetInv, Apps
      <3> QED
        BY <1>2, <2>2, <2>3, <3>1 DEF CountersOK
    <2> QED
      BY <2>1, <2>2, <2>3 DEF Heard, Apps, OnlyOf
  <1>10. Apps' = Apps \/ Says(n, x, k, j)
    BY <1>8
  <1>11. kept \subseteq alive /\ \A z \in kept : new[z] = C[z] /\ Referenced(C[z])
    BY <1>0, <1>2 DEF TypeInv
  <1>12. ASSUME NEW z \in alive, z # x
         PROVE  /\ z \in live[n]
                /\ C[z] = ctx[n][z] \/ C[z] = ReleasedContext(n, z)
    BY <1>0, <1>2, <1>12 DEF TypeInv
  <1>13. C[x] = f.c
    BY <1>0
  <1>14. \A z \in alive : FreeFaults(C[z]) = {}
    <2> SUFFICES ASSUME NEW z \in alive PROVE Life(C[z])
      BY NoFreeFaults
    <2> HIDE DEF C
    <2>1. CASE z = x
      BY <1>0, <1>13, <2>1
    <2>2. CASE z # x
      <3>1. z \in live[n] /\ (C[z] = ctx[n][z] \/ C[z] = ReleasedContext(n, z))
        BY <1>12, <2>2
      <3> QED
        BY <3>1, ReleasedOK DEF IInv, ContextInv
    <2> QED
      BY <2>1, <2>2
  <1>15. live'[n] = kept /\ ctx'[n] = new
    BY <1>1, <1>2 DEF TypeInv
  <1> HIDE DEF C, kept, new, alive
  <1>16. ASSUME NEW y \in live'[n] PROVE TurnOK(n, y)'
    <2>1. y \in alive /\ ctx'[n][y] = C[y] /\ Referenced(C[y])
      BY <1>11, <1>15
    <2>2. CASE y # x
      <3>1. y \in live[n] /\ (C[y] = ctx[n][y] \/ C[y] = ReleasedContext(n, y))
        BY <1>12, <2>1, <2>2
      <3>2. TurnOK(n, y)
        BY <1>2, <3>1
      <3>3. CASE C[y] = ctx[n][y]
        <4>1. Heard(n, y, received[n])' \subseteq Heard(n, y, received[n])
          BY <1>9, <2>2 DEF Heard
        <4> QED
          BY <1>5, <1>10, <2>1, <2>2, <3>2, <3>3, <4>1, UntouchedTurn
      <3>4. CASE C[y] = ReleasedContext(n, y)
        <4>1. ~ctx'[n][y].session /\ ctx'[n][y].retrans = None
          BY <2>1, <3>1, <3>4, ReleasedTalks
        <4>2. y.initiator # n => Begun(y)'
          BY <1>5, <3>2, BegunStays DEF TurnOK
        <4> QED
          BY <4>1, <4>2 DEF TurnOK
      <3> QED
        BY <3>1, <3>3, <3>4
    <2>3. CASE y = x
      <3>0. PICK c : c = f.c
        OBVIOUS
      <3>1. ctx'[n][x] = c /\ G = H /\ (x.initiator = n \/ Begun(x) \/ H # {})
        BY <1>13, <2>1, <2>3, <3>0 DEF GoesOn
      <3>2. c.session => \A i \in Heard(n, x, received[n])' : i <= c.ackCtr
        BY <1>4, <1>9, <3>0, <3>1 DEF Bearing
      <3>3. x.initiator # n => Begun(x)'
        <4>1. H \subseteq Heard(n, x, received[n])'
          BY <1>1, <1>3 DEF Heard
        <4> QED
          BY <1>5, <3>1, <4>1, HeardBegun, BegunStays
      <3>4. CASE Quiet(f, n, x, G) /\ Apps' = Apps
        <4>1. \A i : Tip(n, x, i) => Tip(n, x, i)'
          BY <3>4 DEF Tip, Own
        <4>2. \A i : Turn(n, x, i) => Turn(n, x, i)'
          BY <3>4 DEF Turn, Tip, Own
        <4> QED
          BY <2>3, <3>0, <3>1, <3>2, <3>3, <3>4, <4>1, <4>2 DEF Quiet, TurnOK
      <3>5. CASE /\ Loud(f, n, x, G) /\ j = f.c.ackCtr
                 /\ k \in Nat /\ f.c.retrans \in {None, k} /\ Says(n, x, k, j)
        <4>1. ~c.willSend /\ ~c.ackPend
          BY <3>0, <3>5 DEF Loud
        <4>2. Own(n, x)' = Own(n, x) \cup {k}
          <5>1. /\ App(n, x, k, j).src = n /\ App(n, x, k, j).ex = x
                /\ App(n, x, k, j).ctr = k
            BY DEF App
          <5> QED
            BY <3>5, <5>1 DEF Own, Says
        <4>3. \A i \in Own(n, x) : i \in Nat /\ i < next[n]
          BY <1>2 DEF Own, CountersOK
        <4>4. next[n] \in Nat /\ next[n] <= k
          BY <1>2, <3>5 DEF TypeInv, Says
        <4>5. Tip(n, x, k)'
          BY <3>5, <4>2, <4>3, <4>4 DEF Tip
        <4> QED
          BY <2>3, <3>0, <3>1, <3>2, <3>3, <3>5, <4>1, <4>5 DEF TurnOK
      <3> QED
        BY <1>8, <3>4, <3>5
    <2> QED
      BY <2>2, <2>3
  <1>17. "unackedDrop" \notin faults'
    <2>1. PICK U : U = UNION {FreeFaults(C[z]) : z \in alive}
      OBVIOUS
    <2>2. U = {}
      BY <1>14, <2>1
    <2>3. faults' = faults \cup f.faults \cup U
      BY <1>1, <2>1
    <2> QED
      BY <1>4, <2>2, <2>3 DEF Bearing, TalkInv
  <1>18. /\ sess' = [p \in Node |-> sess'[p]] /\ acked' = [p \in Node |-> acked'[p]]
         /\ acked'[n] = acked[n] \cup f.acked
         /\ \A p \in Node \ {n} : acked'[p] = acked[p]
    BY <1>1 DEF TalkInv
  <1>19. \A p \in Node : acked'[p] \subseteq Acks(p)'
    <2>1. \A p \in Node : Acks(p) \subseteq Acks(p)'
      BY <1>1 DEF Acks
    <2> QED
      BY <1>4, <1>18, <2>1 DEF Bearing, TalkInv
  <1>20. \A p \in Node \ {n} : /\ live'[p] = live[p] /\ ctx'[p] = ctx[p]
                               /\ received'[p] = received[p]
    BY <1>1, <1>2, <1>3 DEF TypeInv
  <1>21. next' \in [Node -> Nat]
    BY DEF IInv, TypeInv
  <1>22. EvictedStays
    BY <1>1, <1>4 DEF EvictedStays, Bearing, TalkInv
  <1> QED
    BY <1>5, <1>10, <1>16, <1>17, <1>18, <1>19, <1>20, <1>21, <1>22, TalkStep

-----------------------------------------------------------------------------
(* The conversation, action by action.                                     *)

LEMMA NowTalks ==
    ASSUME IInv, TalkInv, NEW n \in Node, NEW x \in live[n]
    PROVE  /\ Quiet(Now(n, x), n, x, Heard(n, x, received[n]))
           /\ Now(n, x).c = ctx[n][x]
  <1> DEFINE f == Now(n, x)
  <1>0. PICK H : H = Heard(n, x, received[n])
    OBVIOUS
  <1>1. IsContext(ctx[n][x]) /\ next[n] \in Nat /\ TurnOK(n, x)
    BY DEF IInv, ContextInv, TypeInv, TalkInv
  <1>2. /\ f = [k \in FrameFields |-> f[k]] /\ f.n = n /\ f.x = x /\ f.c = ctx[n][x]
        /\ f.sess = sess[n] /\ f.next = next[n] /\ f.out = {} /\ f.acked = {} /\ f.faults = {}
    BY DEF Now, Frame, FrameFields
  <1> HIDE DEF f
  <1>3. IsFrame(f) /\ Sayings(f) = {}
    BY <1>1, <1>2 DEF IsFrame, IsContext, Sayings
  <1>4. Bearing(f, n, x, H)
    BY <1>0, <1>1, <1>2, <1>3 DEF Bearing, TurnOK
  <1>5. Quiet(f, n, x, H)
    BY <1>1, <1>2, <1>3, <1>4 DEF Quiet, TurnOK
  <1> QED
    BY <1>0, <1>2, <1>5 DEF f

(* The frame of a new context, for what the node has heard of it (G).      *)
LEMMA NewTalks ==
    ASSUME IInv, NEW n \in Node, NEW x, NEW b \in BOOLEAN, NEW G,
           G = {}, b => x.initiator = n /\ Own(n, x) = {}
    PROVE  LET f == Frame(n, x, NewExchangeContext(b))
           IN  Quiet(f, n, x, G) /\ f.c.session /\ ~f.c.ackPend /\ f.c.retrans = None
  <1> DEFINE f == Frame(n, x, NewExchangeContext(b))
  <1>1. next[n] \in Nat
    BY DEF IInv, TypeInv
  <1>2. /\ f = [k \in FrameFields |-> f[k]] /\ f.n = n /\ f.x = x
        /\ f.c = [k \in ContextFields |-> f.c[k]]
        /\ f.c.session /\ f.c.willSend = b /\ f.c.ackCtr = None /\ f.c.retrans = None
        /\ ~f.c.ackPend
        /\ f.sess = sess[n] /\ f.next = next[n] /\ f.out = {} /\ f.acked = {} /\ f.faults = {}
    BY DEF Frame, FrameFields, NewExchangeContext, ContextFields
  <1> HIDE DEF f
  <1>3. Bearing(f, n, x, G)
    BY <1>1, <1>2 DEF Bearing, IsFrame
  <1>4. b => Turn(n, x, None)
    BY DEF Turn
  <1>5. Quiet(f, n, x, G)
    BY <1>1, <1>2, <1>3, <1>4 DEF Quiet, Sayings
  <1> QED
    BY <1>2, <1>5 DEF f

(* A handler that commits no counter.                                      *)
LEMMA FinishHereTalks ==
    ASSUME IInv, IInv', TalkInv, NEW n \in Node, NEW x \in Exchanges,
           NEW H, H = Heard(n, x, received[n]), NEW f, FrameOK(f, n, x, H),
           Talks(f, n, x, H), x \in live[n] \/ x.initiator = n, Finish(f), UNCHANGED received
    PROVE  TalkInv' /\ EvictedStays
  <1>1. PICK R : R = received[n]
    OBVIOUS
  <1>2. received' = [received EXCEPT ![n] = R] /\ received[n] \subseteq R
    BY <1>1 DEF IInv, TypeInv
  <1>3. H = Heard(n, x, R) /\ \A i \in R : i \in received[n]
    BY <1>1
  <1>4. x.initiator = n \/ Begun(x)
    BY DEF TalkInv, TurnOK
  <1>5. PICK G : G = H
    OBVIOUS
  <1>6. Talks(f, n, x, G) /\ GoesOn(f, n, x, G, H) /\ OnlyOf(n, x, R)
    BY <1>3, <1>4, <1>5 DEF GoesOn, OnlyOf
  <1> QED
    BY <1>2, <1>3, <1>6, FinishTalks

LEMMA NewContextTalks ==
    ASSUME IInv, IInv', TalkInv, NEW n \in Node, NEW x \in Exchanges, NewContext(n, x)
    PROVE  TalkInv' /\ EvictedStays
  <1>1. PICK H : H = Heard(n, x, received[n])
    OBVIOUS
  <1>2. PICK b \in BOOLEAN : b = TRUE
    OBVIOUS
  <1>3. /\ Finish(Frame(n, x, NewExchangeContext(b))) /\ UNCHANGED received
        /\ x.initiator = n /\ \A m \in net : m.ex # x
    BY <1>2 DEF NewContext
  <1>4. Own(n, x) = {} /\ H = {}
    BY <1>1, <1>3 DEF Own, Apps, Heard
  <1> DEFINE f == Frame(n, x, NewExchangeContext(b))
  <1>5. FrameOK(f, n, x, H)
    <2>1. /\ IsContext(NewExchangeContext(b)) /\ Life(NewExchangeContext(b))
          /\ NewExchangeContext(b).ackCtr = None
      BY NewContextOK
    <2>2. next[n] \in Nat \ {0}
      BY DEF IInv, TypeInv
    <2> QED
      BY <2>1, <2>2, FrameIsOK
  <1>6. Talks(f, n, x, H)
    BY <1>3, <1>4, NewTalks DEF Talks
  <1> HIDE DEF f
  <1>7. Finish(f)
    BY <1>3 DEF f
  <1> QED
    BY <1>1, <1>3, <1>5, <1>6, <1>7, FinishHereTalks

LEMMA LocalTalks ==
    ASSUME IInv, IInv', TalkInv, NEW n \in Node, NEW x \in Exchanges, Local(n, x)
    PROVE  TalkInv' /\ EvictedStays
  <1>1. PICK H : H = Heard(n, x, received[n])
    OBVIOUS
  <1>2. /\ x \in live[n] /\ UNCHANGED received
        /\ \E g : FrameOK(g, n, x, H) /\ LocalFrame(Now(n, x), g) /\ Finish(g)
    BY <1>1, LocalIsOK
  <1>3. PICK f : f = Now(n, x)
    OBVIOUS
  <1>4. PICK g : FrameOK(g, n, x, H) /\ LocalFrame(f, g) /\ Finish(g)
    BY <1>2, <1>3
  <1>5. Quiet(f, n, x, H) /\ next[n] \in Nat
    BY <1>1, <1>2, <1>3, NowTalks DEF IInv, TypeInv
  <1>6. IsFrame(f)
    BY <1>5 DEF Quiet, Bearing
  <1> SUFFICES Talks(g, n, x, H)
    BY <1>1, <1>2, <1>4, FinishHereTalks
  <1>7. CASE f.c.willSend /\ \E expect \in BOOLEAN, o \in Outcomes : g = SendMessage(f, expect, o)
    <2>1. PICK expect \in BOOLEAN, o \in Outcomes : g = SendMessage(f, expect, o)
      BY <1>7
    <2>2. f.c.session => Turn(n, x, f.c.ackCtr)
      BY <1>5, <1>7 DEF Quiet
    <2> QED
      BY <1>5, <2>1, <2>2, SendMessageTalks
  <1>8. Calm(f, g) => Talks(g, n, x, H)
    BY <1>5, QuietCalm DEF Talks
  <1>9. ASSUME NEW o \in Outcomes,
               g \in {Abort(f, o), Close(f, o), NotifyResponseTimeout(f, o),
                      SendStandaloneAckMessage(f, o)}
        PROVE  Calm(f, g)
    <2>1. Calm(f, Abort(f, o)) /\ Calm(f, Close(f, o))
      BY <1>6, CalmClose DEF Abort, Close
    <2>2. Calm(f, SendStandaloneAckMessage(f, o))
      BY <1>6, CalmStandaloneAck
    <2>3. Calm(f, NotifyResponseTimeout(f, o))
      <3> DEFINE r == NoResponse(f)
                 s == IF f.c.session /\ f.c.waitRA THEN MarkAsDefunct(r) ELSE r
      <3>1. Calm(f, r) /\ IsFrame(r)
        BY <1>6, CalmNoResponse DEF Calm
      <3>2. NotifyResponseTimeout(f, o) = MessageHandled(s, o)
        BY DEF NotifyResponseTimeout, NoResponse
      <3> HIDE DEF r
      <3>3. Calm(f, s) /\ IsFrame(s)
        <4>1. Calm(r, MarkAsDefunct(r))
          BY <3>1, CalmDefunct
        <4>2. Calm(f, MarkAsDefunct(r))
          BY <3>1, <4>1, CalmTwice
        <4> QED
          BY <3>1, <4>2 DEF Calm
      <3> HIDE DEF s
      <3>4. Calm(s, MessageHandled(s, o))
        BY <3>3, CalmClose
      <3> QED
        BY <3>2, <3>3, <3>4, CalmTwice
    <2> QED
      BY <1>9, <2>1, <2>2, <2>3
  <1>10. ASSUME g \in {[f EXCEPT !.c.sendCount = @ + 1], ClearRetransTable(f),
                       ClearRetransTable(MarkAsDefunct(f))}
         PROVE  Calm(f, g)
    <2>1. Calm(f, ClearRetransTable(f))
      BY <1>6, CalmFlags
    <2>2. Calm(f, ClearRetransTable(MarkAsDefunct(f)))
      <3> DEFINE e == MarkAsDefunct(f)
      <3>1. Calm(f, e) /\ IsFrame(e)
        BY <1>6, CalmDefunct DEF Calm
      <3> HIDE DEF e
      <3>2. Calm(e, ClearRetransTable(e))
        BY <3>1, CalmFlags
      <3>3. Calm(f, ClearRetransTable(e))
        BY <3>1, <3>2, CalmTwice
      <3> QED
        BY <3>3 DEF e
    <2>3. Calm(f, [f EXCEPT !.c.sendCount = @ + 1])
      <3> DEFINE d == [f.c EXCEPT !.sendCount = @ + 1]
      <3>1. [f EXCEPT !.c.sendCount = @ + 1] = [f EXCEPT !.c = d]
        BY <1>6 DEF IsFrame, FrameFields
      <3>2. /\ d = [k \in ContextFields |-> d[k]] /\ d.session = f.c.session
            /\ d.willSend = f.c.willSend /\ d.ackCtr = f.c.ackCtr /\ d.retrans = f.c.retrans
            /\ d.ackPend = f.c.ackPend
        BY <1>6 DEF IsFrame, ContextFields
      <3> HIDE DEF d
      <3>3. Calm(f, [f EXCEPT !.c = d])
        BY <1>6, <3>2, CalmContext
      <3> QED
        BY <3>1, <3>3
    <2> QED
      BY <1>10, <2>1, <2>2, <2>3
  <1> QED
    BY <1>4, <1>7, <1>8, <1>9, <1>10 DEF LocalFrame

(* What a new message from the peer brings.                                *)
LEMMA NewsTalks ==
    ASSUME IInv, TalkInv, NEW n \in Node, NEW m \in Apps, m.src # n,
           m.ctr \notin received[n], NEW R, NEW H, Arrives(n, m, R, H)
    PROVE  /\ Tip(n, m.ex, m.ack) /\ Turn(n, m.ex, m.ctr)
           /\ m.ack \in Acks(n) \cup {None} /\ Own(n, m.ex) \subseteq Nat
           /\ \A k \in H : k <= m.ctr
           /\ OnlyOf(n, m.ex, R) /\ H # {}
  <1>1. m \in net /\ m.kind = "app" /\ m.ctr \in Nat
    BY DEF Apps, TalkInv, CountersOK
  <1>2. /\ Tip(n, m.ex, m.ack) /\ Turn(n, m.ex, m.ctr)
        /\ \A k \in Heard(n, m.ex, received[n]) : k < m.ctr
    BY NewAnswersTip
  <1>3. m.ack \in Acks(n) \cup {None} /\ Own(n, m.ex) \subseteq Nat
    BY <1>1 DEF Acks, Own, TalkInv, CountersOK
  <1>4. ASSUME NEW k \in H PROVE k <= m.ctr
    <2>1. k \in R /\ \E q \in net : q.src # n /\ q.ex = m.ex /\ q.ctr = k
      BY DEF Arrives, Heard
    <2>2. CASE k = m.ctr
      BY <1>1, <2>2
    <2>3. CASE k # m.ctr
      <3>1. k \in received[n]
        BY <2>1, <2>3 DEF Arrives
      <3>2. k \in Heard(n, m.ex, received[n]) /\ k \in Nat
        BY <2>1, <3>1 DEF Heard, TalkInv, CountersOK
      <3> QED
        BY <1>1, <1>2, <3>2
    <2> QED
      BY <2>2, <2>3
  <1>5. OnlyOf(n, m.ex, R) /\ H # {}
    BY <1>1 DEF Arrives, OnlyOf
  <1> QED
    BY <1>2, <1>3, <1>4, <1>5

(* It finds no ack pending: that would be of a message that answers the    *)
(* same one, and there is one answer only.                                 *)
LEMMA NewsFindsNonePending ==
    ASSUME IInv, TalkInv, NEW n \in Node, NEW m \in Apps, m.src # n,
           m.ctr \notin received[n], m.ex \in live[n], ctx[n][m.ex].session
    PROVE  ~ctx[n][m.ex].ackPend
  <1>1. PICK c : c = ctx[n][m.ex]
    OBVIOUS
  <1>2. SUFFICES ASSUME c.ackPend PROVE FALSE
    BY <1>1
  <1>3. Tip(n, m.ex, m.ack) /\ Own(n, m.ex) \subseteq Nat
    BY NewAnswersTip DEF Own, TalkInv, CountersOK
  <1>4. Turn(n, m.ex, c.ackCtr)
    BY <1>1, <1>2 DEF TalkInv, TurnOK
  <1>5. m.src \in Node /\ m.ctr # None
    BY DEF IInv, NetInv, Apps
  <1>6. CASE c.ackCtr = None /\ m.ex.initiator = n /\ Own(n, m.ex) = {}
    <2>1. m.ack = None
      BY <1>3, <1>6 DEF Tip
    <2> QED
      BY <1>6, <2>1 DEF TalkInv, Openers
  <1>7. CASE \E a \in Apps : a.src # n /\ a.ex = m.ex /\ a.ctr = c.ackCtr /\ Tip(n, m.ex, a.ack)
    <2>1. PICK a \in Apps : /\ a.src # n /\ a.ex = m.ex /\ a.ctr = c.ackCtr
                            /\ Tip(n, m.ex, a.ack)
      BY <1>7
    <2>2. a.ack = m.ack
      <3>1. /\ m.ack \in Own(n, m.ex) \cup {None} /\ a.ack \in Own(n, m.ex) \cup {None}
            /\ \A k \in Own(n, m.ex) : k <= m.ack /\ k <= a.ack
        BY <1>3, <2>1 DEF Tip
      <3>2. None = 0
        BY DEF None
      <3>3. None \notin Own(n, m.ex)
        BY <3>2 DEF Own, TalkInv, CountersOK
      <3> QED
        BY <1>3, <3>1, <3>2, <3>3
    <2>3. a.src = m.src
      BY <1>5, <2>1, TwoNodes DEF IInv, NetInv, Apps
    <2>4. a = m
      BY <2>1, <2>2, <2>3 DEF TalkInv, Single
    <2>5. c.ackCtr \in received[n]
      <3>1. c.ackCtr \in Heard(n, m.ex, received[n]) \cup {None}
        BY <1>1 DEF IInv, ContextInv
      <3> QED
        BY <1>5, <2>1, <2>4, <3>1 DEF Heard
    <2> QED
      BY <2>1, <2>4, <2>5
  <1> QED
    BY <1>4, <1>6, <1>7 DEF Turn

LEMMA MatchedTalks ==
    ASSUME AcksHaveBuffers, IInv, IInv', TalkInv, NEW n \in Node, NEW m \in net, m.src # n,
           Matched(n, m)
    PROVE  TalkInv' /\ EvictedStays
  <1>1. PICK R, H : Arrives(n, m, R, H)
    BY CommitOK DEF Matched
  <1>2. /\ m.ex \in live[n] /\ ctx[n][m.ex].session
        /\ \E o \in Outcomes, reaction \in Reactions \ {"refuse"} :
              /\ FrameOK(MatchedFrame(n, m, reaction, o), n, m.ex, H)
              /\ Finish(MatchedFrame(n, m, reaction, o))
    BY <1>1, MatchedIsOK
  <1>3. PICK o \in Outcomes, reaction \in Reactions \ {"refuse"} :
              /\ FrameOK(MatchedFrame(n, m, reaction, o), n, m.ex, H)
              /\ Finish(MatchedFrame(n, m, reaction, o))
    BY <1>2
  <1>4. /\ m.ex \in Exchanges /\ next[n] \in Nat
        /\ m.kind \in {"app", "sack"} /\ (m.kind = "app" <=> m.ctr # None)
    BY DEF IInv, NetInv, TypeInv
  <1>5. o # "nobuf" /\ reaction \in AllReactions
    BY ExchangeAssumption DEF AcksHaveBuffers
  <1> DEFINE f == MarkActiveRx(Now(n, m.ex))
             G == Heard(n, m.ex, received[n])
             h == HandleMessage(f, m, IsDuplicate(n, m), reaction, o)
  <1>6. Quiet(f, n, m.ex, G) /\ f.c = ctx[n][m.ex]
    <2> DEFINE e == Now(n, m.ex)
    <2>1. Quiet(e, n, m.ex, G) /\ e.c = ctx[n][m.ex]
      BY <1>2, NowTalks
    <2> HIDE DEF e, G
    <2>2. IsFrame(e)
      BY <2>1 DEF Quiet, Bearing
    <2>3. Calm(e, MarkActiveRx(e)) /\ MarkActiveRx(e).c = e.c
      BY <2>2, CalmDefunct
    <2>4. Quiet(MarkActiveRx(e), n, m.ex, G)
      BY <2>1, <2>3, QuietCalm
    <2> QED
      BY <2>1, <2>3, <2>4 DEF e
  <1>7. h = MatchedFrame(n, m, reaction, o)
    BY DEF MatchedFrame
  <1>8. f.c.session /\ m.ack \in Acks(n) \cup {None}
    BY <1>2, <1>6 DEF Acks
  <1>9. m.ex.initiator = n \/ Begun(m.ex)
    BY <1>2 DEF TalkInv, TurnOK
  <1> HIDE DEF f
  <1>10. CASE m.kind = "app" /\ m.ctr \notin received[n]
    <2>0. m \in Apps
      BY <1>10 DEF Apps
    <2>1. /\ Tip(n, m.ex, m.ack) /\ Turn(n, m.ex, m.ctr)
          /\ Own(n, m.ex) \subseteq Nat /\ \A k \in H : k <= m.ctr
          /\ OnlyOf(n, m.ex, R) /\ H # {}
      BY <1>1, <1>10, <2>0, NewsTalks
    <2>2. h = HandleMessage(f, m, FALSE, reaction, o)
      BY <1>10 DEF IsDuplicate
    <2> HIDE DEF h, G
    <2>3. ~f.c.ackPend
      BY <1>2, <1>6, <1>10, <2>0, NewsFindsNonePending
    <2>4. Talks(h, n, m.ex, H)
      <3>1. Talks(HandleMessage(f, m, FALSE, reaction, o), n, m.ex, H)
        BY <1>4, <1>5, <1>6, <1>8, <1>10, <2>1, <2>3, NewMessageTalks
      <3> QED
        BY <2>2, <3>1
    <2>5. GoesOn(h, n, m.ex, H, H)
      BY <1>9 DEF GoesOn
    <2> QED
      BY <1>1, <1>3, <1>4, <1>7, <2>1, <2>4, <2>5, FinishTalks DEF Arrives
  <1>11. CASE ~(m.kind = "app" /\ m.ctr \notin received[n])
    <2>1. R = received[n] /\ H = G
      <3>1. {m.ctr} \ {None} \subseteq received[n]
        BY <1>4, <1>11
      <3>2. R = received[n]
        BY <1>1, <3>1 DEF Arrives
      <3> QED
        BY <1>1, <3>2 DEF Arrives
    <2>4. m.kind = "app" => f.c.ackCtr # None
      <3>1. SUFFICES ASSUME m.kind = "app" PROVE f.c.ackCtr # None
        OBVIOUS
      <3>2. m.ctr \in Heard(n, m.ex, received[n]) /\ m.ctr \in Nat \ {0}
        BY <1>11, <3>1 DEF Heard, TalkInv, CountersOK, Apps
      <3>3. m.ctr <= ctx[n][m.ex].ackCtr
        BY <1>2, <3>2 DEF TalkInv, TurnOK
      <3> QED
        BY <1>6, <3>2, <3>3 DEF None
    <2>5. Quiet(f, n, m.ex, H)
      BY <1>6, <2>1
    <2>6. Talks(h, n, m.ex, H)
      <3>1. CASE m.kind = "app"
        <4>1. PICK t : t = TRUE
          OBVIOUS
        <4>2. h = HandleMessage(f, m, t, reaction, o)
          BY <1>11, <3>1, <4>1 DEF IsDuplicate
        <4>3. Quiet(HandleMessage(f, m, t, reaction, o), n, m.ex, H)
          BY <1>5, <1>8, <2>4, <2>5, <3>1, <4>1, OldMessageTalks
        <4> QED
          BY <4>2, <4>3 DEF Talks
      <3>2. CASE m.kind = "sack"
        <4>1. PICK u : u = FALSE
          OBVIOUS
        <4>2. h = HandleMessage(f, m, u, reaction, o)
          <5>1. IsDuplicate(n, m) = FALSE
            BY <3>2 DEF IsDuplicate
          <5>2. IsDuplicate(n, m) = u
            BY <4>1, <5>1
          <5> QED
            BY <5>2
        <4>3. Quiet(HandleMessage(f, m, u, reaction, o), n, m.ex, H)
          BY <1>5, <1>8, <2>5, <3>2, <4>1, OldMessageTalks
        <4> QED
          BY <4>2, <4>3 DEF Talks
      <3> QED
        BY <1>4, <3>1, <3>2
    <2> HIDE DEF h, G
    <2>7. GoesOn(h, n, m.ex, H, H) /\ OnlyOf(n, m.ex, R)
      BY <1>9, <2>1 DEF GoesOn, OnlyOf
    <2> QED
      BY <1>1, <1>3, <1>4, <1>7, <2>6, <2>7, FinishTalks DEF Arrives
  <1> QED
    BY <1>10, <1>11

LEMMA UnsolicitedTalks ==
    ASSUME IInv, IInv', TalkInv, NEW n \in Node, NEW m \in net, m.src # n, Unsolicited(n, m)
    PROVE  TalkInv' /\ EvictedStays
  <1>1. PICK R, H : Arrives(n, m, R, H)
    BY CommitOK DEF Unsolicited
  <1>2. PICK o \in Outcomes, reaction \in Reactions \ {"refuse"} :
              /\ FrameOK(UnsolicitedFrame(n, m, reaction, o), n, m.ex, H)
              /\ Finish(UnsolicitedFrame(n, m, reaction, o))
    BY <1>1, UnsolicitedIsOK
  <1>3. m.ex \in Exchanges /\ next[n] \in Nat
    BY DEF IInv, NetInv, TypeInv
  <1>4. m \in Apps /\ m.kind = "app" /\ m.ctr \notin received[n]
    BY DEF Unsolicited, IsUnsolicited, IsDuplicate, Apps
  <1>5. /\ Tip(n, m.ex, m.ack) /\ Turn(n, m.ex, m.ctr) /\ m.ack \in Acks(n) \cup {None}
        /\ Own(n, m.ex) \subseteq Nat /\ \A k \in H : k <= m.ctr
        /\ OnlyOf(n, m.ex, R) /\ H # {}
    BY <1>1, <1>4, NewsTalks
  <1>6. reaction \in AllReactions
    BY ExchangeAssumption
  <1>7. PICK b \in BOOLEAN : b = FALSE
    OBVIOUS
  <1> DEFINE e == Frame(n, m.ex, NewExchangeContext(b))
             f == MarkActiveRx(e)
             h == HandleMessage(f, m, FALSE, reaction, o)
  <1>8. h = UnsolicitedFrame(n, m, reaction, o)
    BY <1>7 DEF UnsolicitedFrame
  <1>9. PICK G : G = {}
    OBVIOUS
  <1>10. Quiet(f, n, m.ex, G) /\ f.c.session /\ ~f.c.ackPend
    <2>1. Quiet(e, n, m.ex, G) /\ e.c.session /\ ~e.c.ackPend
      BY <1>7, <1>9, NewTalks
    <2> HIDE DEF e
    <2>2. IsFrame(e)
      BY <2>1 DEF Quiet, Bearing
    <2>3. Calm(e, MarkActiveRx(e)) /\ MarkActiveRx(e).c = e.c
      BY <2>2, CalmDefunct
    <2> QED
      BY <2>1, <2>3, QuietCalm
  <1> HIDE DEF f
  <1>11. Talks(h, n, m.ex, H)
    BY <1>3, <1>4, <1>5, <1>6, <1>10, NewMessageTalks
  <1> HIDE DEF h
  <1>12. GoesOn(h, n, m.ex, H, H)
    BY <1>5 DEF GoesOn
  <1> QED
    BY <1>1, <1>2, <1>3, <1>5, <1>8, <1>11, <1>12, FinishTalks DEF Arrives

LEMMA EphemeralTalks ==
    ASSUME AcksHaveBuffers, IInv, IInv', TalkInv, NEW n \in Node, NEW m \in net, m.src # n,
           EphemeralAck(n, m)
    PROVE  TalkInv' /\ EvictedStays
  <1>1. PICK R, H : Arrives(n, m, R, H)
    BY CommitOK DEF EphemeralAck
  <1>2. PICK o \in Outcomes : /\ FrameOK(EphemeralFrame(n, m, o), n, m.ex, H)
                              /\ Finish(EphemeralFrame(n, m, o))
                              /\ EphemeralFrame(n, m, o).c.refs = 0
    BY <1>1, EphemeralIsOK
  <1>3. m.ex \in Exchanges /\ m \in Apps /\ o # "nobuf"
    BY DEF IInv, NetInv, EphemeralAck, Apps, AcksHaveBuffers
  <1>4. PICK b \in BOOLEAN : b = FALSE
    OBVIOUS
  <1>5. PICK G : G = {}
    OBVIOUS
  <1> DEFINE e == Frame(n, m.ex, NewExchangeContext(b))
             f == MarkActiveRx(e)
             g == HandleNeedsAck(f, m.ctr, IsDuplicate(n, m), o)
             h == FlushAcks(g, o)
             z == Close(h, o)
  <1>6. z = EphemeralFrame(n, m, o)
    BY <1>4 DEF EphemeralFrame
  <1>7. Quiet(e, n, m.ex, G) /\ e.c.session /\ e.c.retrans = None
    BY <1>4, <1>5, NewTalks
  <1>8. e.c.willSend = FALSE
    BY <1>4 DEF Frame, NewExchangeContext
  <1> HIDE DEF e
  <1>9. Keeps(e, z) /\ ~z.c.ackPend
    <2>1. IsFrame(e)
      BY <1>7 DEF Quiet, Bearing
    <2>2. Keeps(e, f) /\ IsFrame(f)
      BY <2>1, CalmDefunct, CalmKeeps DEF Calm
    <2> HIDE DEF f
    <2>3. Keeps(f, g) /\ IsFrame(g)
      <3>1. /\ Keeps(f, HandleNeedsAck(f, m.ctr, TRUE, o))
            /\ Keeps(f, HandleNeedsAck(f, m.ctr, FALSE, o))
        BY <2>2, NeedsAckDuplicate, NeedsAckNew
      <3>2. IsDuplicate(n, m) \in BOOLEAN
        BY DEF IsDuplicate
      <3> QED
        BY <3>1, <3>2 DEF Keeps
    <2> HIDE DEF g
    <2>4. Keeps(g, h) /\ IsFrame(h) /\ ~h.c.ackPend
      <3>1. g.c.session
        BY <1>7, <2>2, <2>3 DEF Keeps
      <3> QED
        BY <1>3, <2>3, <3>1, CalmStandaloneAck, CalmKeeps DEF Calm
    <2> HIDE DEF h
    <2>5. Keeps(h, z) /\ ~z.c.ackPend
      <3>1. PICK u \in BOOLEAN : u = FALSE
        OBVIOUS
      <3>2. z = ReleaseRef(DoClose(h, u, o))
        BY <3>1 DEF Close
      <3>3. Calm(h, ReleaseRef(DoClose(h, u, o)))
        BY <2>4, CalmClose
      <3>4. Calm(h, z)
        BY <3>2, <3>3
      <3> HIDE DEF z
      <3> QED
        BY <2>4, <3>4, CalmKeeps DEF Calm
    <2> HIDE DEF z
    <2> QED
      BY <2>2, <2>3, <2>4, <2>5, KeepsTwice
  <1> HIDE DEF z
  <1>10. Talks(z, n, m.ex, G)
    <2>1. Bearing(z, n, m.ex, G)
      BY <1>5, <1>7, <1>9 DEF Keeps, Bearing, Quiet
    <2> QED
      BY <1>7, <1>8, <1>9, <2>1 DEF Keeps, Quiet, Talks
  <1>11. ~Referenced(z.c)
    BY <1>2, <1>6, <1>7, <1>9 DEF Referenced, Keeps
  <1>12. GoesOn(z, n, m.ex, G, H) /\ OnlyOf(n, m.ex, R)
    BY <1>1, <1>3, <1>11 DEF GoesOn, OnlyOf, Arrives
  <1> QED
    BY <1>1, <1>2, <1>3, <1>6, <1>10, <1>12, FinishTalks DEF Arrives

LEMMA DroppedTalks ==
    ASSUME IInv, IInv', TalkInv, NEW n \in Node, NEW m \in net, m.src # n, Dropped(n, m)
    PROVE  TalkInv' /\ EvictedStays
  <1>1. PICK R, H : Arrives(n, m, R, H)
    BY CommitOK DEF Dropped
  <1>2. /\ UNCHANGED <<live, ctx, next, net, delivered, acked, faults>> /\ NoMatch(n, m)
        /\ sess' = [sess EXCEPT ![n] = IF @ = "defunct" THEN "active" ELSE @]
    BY DEF Dropped
  <1>3. /\ TypeInv /\ NetInv /\ CountersOK /\ sess = [p \in Node |-> sess[p]]
        /\ \A y \in live[n] : TurnOK(n, y)
    BY DEF IInv, TalkInv
  <1>4. /\ received'[n] = R /\ \A p \in Node \ {n} : received'[p] = received[p]
    BY <1>1, <1>3 DEF Arrives, TypeInv
  <1>5. \A i \in R : i \in received[n] \/ (m \in Apps /\ m.ctr = i)
    BY <1>1, <1>3 DEF Arrives, NetInv, Apps
  <1>6. Apps' = Apps /\ \A p : Acks(p)' = Acks(p)
    BY <1>2 DEF Apps, Acks
  <1>7. OrderlyStep(n)
    <2>1. net \subseteq net' /\ \A k \in net' : k \in net \/ k.src = n
      BY <1>2
    <2>2. ASSUME NEW p \in Node
          PROVE  /\ received[p] \subseteq received'[p]
                 /\ \A j \in received'[p] : \E k \in Apps : k.src # p /\ k.ctr = j
                 /\ next[p] <= next'[p]
      <3>1. next[p] \in Nat /\ next'[p] = next[p]
        BY <1>2, <1>3 DEF TypeInv
      <3>2. CASE p = n
        BY <1>1, <1>3, <1>4, <1>5, <3>1, <3>2 DEF CountersOK, Arrives
      <3>3. CASE p # n
        BY <1>3, <1>4, <3>1, <3>3 DEF CountersOK
      <3> QED
        BY <3>2, <3>3
    <2> QED
      BY <2>1, <2>2 DEF OrderlyStep
  <1>8. PICK x, k, j : x = m.ex
    OBVIOUS
  <1>9. ASSUME NEW y \in live'[n] PROVE TurnOK(n, y)'
    <2>1. y \in live[n] /\ ctx'[n][y] = ctx[n][y] /\ TurnOK(n, y) /\ y \in Exchanges
      BY <1>2, <1>3 DEF TypeInv
    <2>2. CASE y # x
      <3>1. ASSUME NEW i \in Heard(n, y, received[n])' PROVE i \in Heard(n, y, received[n])
        <4>1. i \in R /\ \E q \in Apps : q.src # n /\ q.ex = y /\ q.ctr = i
          BY <1>4, <1>6, <1>7, HeardOnly
        <4>2. PICK q \in Apps : q.src # n /\ q.ex = y /\ q.ctr = i
          BY <4>1
        <4>3. m \in Apps /\ m.ctr = i => m = q
          <5>1. m.src = q.src
            BY <4>2, TwoNodes DEF IInv, NetInv, Apps
          <5> QED
            BY <1>3, <4>2, <5>1 DEF CountersOK
        <4> QED
          BY <1>5, <1>8, <2>2, <4>1, <4>2, <4>3 DEF Heard, Apps
      <3> QED
        BY <1>6, <1>7, <2>1, <2>2, <3>1, UntouchedTurn
    <2>3. CASE y = x
      <3>1. ~ctx[n][y].session
        <4>1. y.id = m.ex.id /\ (m.src = m.ex.initiator) # (y.initiator = n)
          <5>1. m.src \in Node /\ m.ex.initiator \in Node
            BY <1>3, ExchangeAssumption DEF NetInv
          <5> QED
            BY <1>8, <2>3, <5>1, TwoNodes
        <4> QED
          BY <1>2, <2>1, <4>1 DEF NoMatch, MatchExchange
      <3>2. Life(ctx[n][y])
        BY <2>1 DEF IInv, ContextInv
      <3>3. ~ctx'[n][y].session /\ ctx'[n][y].retrans = None
        BY <2>1, <3>1, <3>2 DEF Life
      <3>4. y.initiator # n => Begun(y)'
        BY <1>7, <2>1, BegunStays DEF TurnOK
      <3> QED
        BY <3>3, <3>4 DEF TurnOK
    <2> QED
      BY <2>2, <2>3
  <1>10. /\ next' \in [Node -> Nat] /\ sess' = [p \in Node |-> sess'[p]]
         /\ acked' = [p \in Node |-> acked'[p]] /\ "unackedDrop" \notin faults'
         /\ \A p \in Node : acked'[p] \subseteq Acks(p)'
    BY <1>2, <1>3, <1>6 DEF TypeInv, TalkInv
  <1>11. \A p \in Node \ {n} : /\ live'[p] = live[p] /\ ctx'[p] = ctx[p]
                               /\ received'[p] = received[p]
    BY <1>2, <1>4
  <1>12. EvictedStays
    BY <1>2, <1>3 DEF EvictedStays
  <1> QED
    BY <1>6, <1>7, <1>9, <1>10, <1>11, <1>12, TalkStep

LEMMA EvictionTalks ==
    ASSUME IInv, IInv', TalkInv, NEW n \in Node, MarkForEviction(n)
    PROVE  TalkInv' /\ EvictedStays
  <1> DEFINE C == [z \in Exchanges |-> IF z \in live[n] THEN ReleasedContext(n, z)
                                       ELSE ctx[n][z]]
             kept == {z \in live[n] : Referenced(C[z])}
             new == [z \in Exchanges |-> IF z \in kept THEN C[z] ELSE NoContext]
  <1>1. /\ live' = [live EXCEPT ![n] = kept] /\ ctx' = [ctx EXCEPT ![n] = new]
        /\ UNCHANGED <<next, net, received, delivered, acked>>
        /\ faults' = faults \cup UNION {FreeFaults(C[z]) : z \in live[n]}
        /\ sess' = [sess EXCEPT ![n] = "evicted"]
    BY DEF MarkForEviction, Settle
  <1>2. /\ TypeInv /\ NetInv /\ CountersOK /\ sess = [p \in Node |-> sess[p]]
        /\ \A y \in live[n] : TurnOK(n, y)
    BY DEF IInv, TalkInv
  <1>3. /\ \A z \in live[n] : C[z] = ReleasedContext(n, z)
        /\ kept \subseteq live[n] /\ \A z \in kept : new[z] = C[z]
    BY <1>2 DEF TypeInv
  <1>4. live'[n] = kept /\ ctx'[n] = new
    BY <1>1, <1>2 DEF TypeInv
  <1>5. \A p \in Node \ {n} : live'[p] = live[p] /\ ctx'[p] = ctx[p] /\ received'[p] = received[p]
    BY <1>1, <1>2 DEF TypeInv
  <1> HIDE DEF C, kept, new
  <1>6. Apps' = Apps /\ \A p : Acks(p)' = Acks(p)
    BY <1>1 DEF Apps, Acks
  <1>7. OrderlyStep(n)
    <2>1. \A p \in Node : next[p] <= next'[p]
      BY <1>1, <1>2 DEF TypeInv
    <2> QED
      BY <1>1, <1>2, <2>1 DEF OrderlyStep, CountersOK
  <1>8. ASSUME NEW y \in live'[n] PROVE TurnOK(n, y)'
    <2>1. y \in live[n] /\ ctx'[n][y] = ReleasedContext(n, y)
      BY <1>3, <1>4
    <2>2. ~ctx'[n][y].session /\ ctx'[n][y].retrans = None
      BY <2>1, ReleasedTalks
    <2>3. y.initiator # n => Begun(y)'
      BY <1>2, <1>7, <2>1, BegunStays DEF TurnOK
    <2> QED
      BY <2>2, <2>3 DEF TurnOK
  <1>9. "unackedDrop" \notin faults'
    <2>1. \A z \in live[n] : FreeFaults(C[z]) = {}
      BY <1>3, ReleasedOK, NoFreeFaults
    <2> QED
      BY <1>1, <2>1 DEF TalkInv
  <1>10. /\ next' \in [Node -> Nat] /\ sess' = [p \in Node |-> sess'[p]]
         /\ acked' = [p \in Node |-> acked'[p]]
         /\ \A p \in Node : acked'[p] \subseteq Acks(p)'
    BY <1>1, <1>2, <1>6 DEF TypeInv, TalkInv
  <1>11. EvictedStays
    BY <1>1, <1>2 DEF EvictedStays
  <1>12. PICK x, k, j : TRUE
    OBVIOUS
  <1> QED
    BY <1>5, <1>6, <1>7, <1>8, <1>9, <1>10, <1>11, TalkStep

LEMMA TalkInit == Init => TalkInv
  <1> SUFFICES ASSUME Init PROVE TalkInv
    OBVIOUS
  <1>1. net = {} /\ \A n \in Node : live[n] = {} /\ received[n] = {} /\ acked[n] = {}
    BY DEF Init
  <1>2. Apps = {}
    BY <1>1 DEF Apps
  <1>3. CountersOK
    BY <1>1, <1>2 DEF CountersOK
  <1>4. Single /\ Openers /\ Later /\ Settled
    BY <1>2 DEF Single, Openers, Later, Settled
  <1> QED
    BY <1>1, <1>3, <1>4 DEF Init, TalkInv

LEMMA TalkNext ==
    ASSUME AcksHaveBuffers, IInv, IInv', TalkInv, [Next]_vars
    PROVE  TalkInv' /\ EvictedStays
  <1>1. ASSUME NEW n \in Node, NEW x \in Exchanges, NewContext(n, x) \/ Local(n, x)
        PROVE  TalkInv' /\ EvictedStays
    BY <1>1, NewContextTalks, LocalTalks
  <1>2. ASSUME NEW n \in Node, NEW m \in net, Receive(n, m)
        PROVE  TalkInv' /\ EvictedStays
    <2>1. /\ m.src # n
          /\ Matched(n, m) \/ Unsolicited(n, m) \/ EphemeralAck(n, m) \/ Dropped(n, m)
      BY <1>2 DEF Receive
    <2> QED
      BY <2>1, MatchedTalks, UnsolicitedTalks, EphemeralTalks, DroppedTalks
  <1>3. ASSUME NEW n \in Node, MarkForEviction(n)
        PROVE  TalkInv' /\ EvictedStays
    BY <1>3, EvictionTalks
  <1>4. CASE UNCHANGED vars
    <2>1. /\ live' = live /\ ctx' = ctx /\ net' = net /\ received' = received
          /\ next' = next /\ acked' = acked /\ sess' = sess /\ faults' = faults
      BY <1>4 DEF vars
    <2>2. Apps' = Apps /\ \A n : Acks(n)' = Acks(n)
      BY <2>1 DEF Apps, Acks
    <2>3. \A n, x : Own(n, x)' = Own(n, x) /\ Heard(n, x, received[n])' = Heard(n, x, received[n])
      BY <2>1, <2>2 DEF Own, Heard
    <2>4. \A x : Begun(x)' <=> Begun(x)
      BY <2>1, <2>2 DEF Begun
    <2>5. \A n, x, j : Tip(n, x, j)' <=> Tip(n, x, j)
      BY <2>3 DEF Tip
    <2>6. \A n, x, j : Turn(n, x, j)' <=> Turn(n, x, j)
      BY <2>2, <2>3, <2>5 DEF Turn
    <2>7. \A n, x : TurnOK(n, x)' <=> TurnOK(n, x)
      BY <2>1, <2>3, <2>4, <2>5, <2>6 DEF TurnOK
    <2>8. CountersOK' /\ Single' /\ Later' /\ Settled' /\ Openers'
      <3>1. CountersOK'
        BY <2>1, <2>2 DEF TalkInv, CountersOK
      <3>2. Single' /\ Later' /\ Settled'
        BY <2>2 DEF TalkInv, Single, Later, Settled, Answers
      <3>3. Openers'
        BY <2>2, <2>4 DEF TalkInv, Openers
      <3> QED
        BY <3>1, <3>2, <3>3
    <2> QED
      BY <2>1, <2>2, <2>7, <2>8 DEF TalkInv, EvictedStays
  <1> QED
    BY <1>1, <1>2, <1>3, <1>4 DEF Next, Local

LEMMA TalkInductive ==
    ASSUME AcksHaveBuffers
    PROVE  Spec => []TalkInv
  <1>1. Init => TalkInv
    BY TalkInit
  <1>2. IInv /\ IInv' /\ TalkInv /\ [Next]_vars => TalkInv'
    BY TalkNext
  <1> QED
    BY <1>1, <1>2, Inductive, PTL DEF Spec

(* Whatever is received in a step had been sent before it.                 *)
LEMMA OldOnly ==
    ASSUME IInv, TalkInv, [Next]_vars
    PROVE  /\ net \subseteq net'
           /\ \A p \in Node : \A j \in received'[p] : \E q \in Apps : q.src # p /\ q.ctr = j
  <1>1. /\ received = [p \in Node |-> received[p]] /\ NetInv
        /\ \A p \in Node : \A j \in received[p] : \E q \in Apps : q.src # p /\ q.ctr = j
    BY DEF IInv, TypeInv, TalkInv, CountersOK
  <1>2. net \subseteq net'
    <2>1. \A f : Finish(f) => net \subseteq net'
      BY DEF Finish
    <2>2. ASSUME NEW n \in Node, NEW x \in Exchanges, NewContext(n, x) \/ Local(n, x)
          PROVE  net \subseteq net'
      <3>1. CASE NewContext(n, x)
        BY <2>1, <3>1 DEF NewContext
      <3>2. CASE SendAnnounced(n, x)
        BY <2>1, <3>2 DEF SendAnnounced
      <3>3. CASE HolderRelease(n, x)
        BY <2>1, <3>3 DEF HolderRelease
      <3>4. CASE CloseAllContextsForDelegate(n, x)
        BY <2>1, <3>4 DEF CloseAllContextsForDelegate
      <3>5. CASE ResponseTimeout(n, x)
        BY <2>1, <3>5 DEF ResponseTimeout
      <3>6. CASE AckTimeout(n, x)
        BY <2>1, <3>6 DEF AckTimeout
      <3>7. CASE Retransmit(n, x)
        BY <2>1, <3>7 DEF Retransmit
      <3>8. CASE GiveUp(n, x)
        BY <2>1, <3>8 DEF GiveUp
      <3> QED
        BY <2>2, <3>1, <3>2, <3>3, <3>4, <3>5, <3>6, <3>7, <3>8 DEF Local
    <2>3. ASSUME NEW n \in Node, NEW m \in net, Receive(n, m)
          PROVE  net \subseteq net'
      <3>1. CASE Matched(n, m)
        BY <2>1, <3>1 DEF Matched
      <3>2. CASE Unsolicited(n, m)
        BY <2>1, <3>2 DEF Unsolicited
      <3>3. CASE EphemeralAck(n, m)
        BY <2>1, <3>3 DEF EphemeralAck
      <3>4. CASE Dropped(n, m)
        BY <3>4 DEF Dropped
      <3> QED
        BY <2>3, <3>1, <3>2, <3>3, <3>4 DEF Receive
    <2>4. ASSUME NEW n \in Node, MarkForEviction(n) PROVE net \subseteq net'
      BY <2>4 DEF MarkForEviction
    <2> QED
      BY <2>2, <2>3, <2>4 DEF Next, Local, vars
  <1>3. received' = received \/ \E n \in Node, m \in net : m.src # n /\ Commit(n, m)
    <2>1. ASSUME NEW n \in Node, NEW x \in Exchanges, NewContext(n, x) \/ Local(n, x)
          PROVE  received' = received
      BY <2>1, Zenon DEF Local, NewContext, SendAnnounced, HolderRelease,
                  CloseAllContextsForDelegate, ResponseTimeout, AckTimeout, Retransmit, GiveUp
    <2>2. ASSUME NEW n \in Node, NEW m \in net, Receive(n, m)
          PROVE  m.src # n /\ Commit(n, m)
      BY <2>2, Zenon DEF Receive, Matched, Unsolicited, EphemeralAck, Dropped
    <2>3. ASSUME NEW n \in Node, MarkForEviction(n) PROVE received' = received
      BY <2>3 DEF MarkForEviction
    <2> QED
      BY <2>1, <2>2, <2>3 DEF Next, Local, vars
  <1>4. ASSUME NEW n \in Node, NEW m \in net, m.src # n, Commit(n, m),
               NEW p \in Node, NEW j \in received'[p]
        PROVE  \E q \in Apps : q.src # p /\ q.ctr = j
    <2>1. j \in received[p] \/ (p = n /\ j = m.ctr /\ m.ctr # None)
      BY <1>1, <1>4 DEF Commit
    <2>2. m.ctr # None => m \in Apps
      BY <1>1 DEF NetInv, Apps
    <2> QED
      BY <1>1, <1>4, <2>1, <2>2
  <1> QED
    BY <1>1, <1>2, <1>3, <1>4

(* An application message acknowledges the newest message received.        *)
LEMMA AcksLatestStep ==
    ASSUME IInv, IInv', TalkInv, TalkInv', [Next]_vars,
           NEW m \in net' \ net, m.kind = "app"
    PROVE  m.ack = LatestReceived(m.src, m.ex, received'[m.src])
  <1>1. PICK n, x, j : n = m.src /\ x = m.ex /\ j = m.ack
    OBVIOUS
  <1>2. /\ n \in Node /\ m \in Apps' /\ m \notin Apps
        /\ j \in Heard(n, x, received[n])' \cup {None}
    BY <1>1 DEF IInv, NetInv, Apps
  <1>3. /\ net \subseteq net'
        /\ \A p \in Node : \A i \in received'[p] : \E q \in Apps : q.src # p /\ q.ctr = i
    BY OldOnly
  <1>4. Apps \subseteq Apps' /\ \A q \in Apps' : q.src \in Node
    BY <1>3 DEF Apps, IInv, NetInv
  <1> DEFINE of == {q.ctr : q \in {k \in net : k.src # n /\ k.ex = x /\ k.ctr \in received'[n]}}
  <1>5. LatestReceived(n, x, received'[n]) = IF of = {} THEN None ELSE Max(of)
    BY DEF LatestReceived
  <1>6. ASSUME NEW i \in of
        PROVE  \E b \in Apps : b.src # n /\ b.ex = x /\ b.ctr = i /\ i \in Nat \ {0}
    <2>1. PICK b \in net : b.src # n /\ b.ex = x /\ b.ctr = i /\ i \in received'[n]
      OBVIOUS
    <2>2. i \in Nat \ {0}
      BY <1>2, <1>3, <2>1 DEF TalkInv, CountersOK
    <2>3. b \in Apps
      BY <2>1, <2>2 DEF IInv, NetInv, Apps, None
    <2> QED
      BY <2>1, <2>2, <2>3
  <1>7. j # None => j \in of
    <2>1. SUFFICES ASSUME j # None PROVE j \in of
      OBVIOUS
    <2>2. j \in received'[n] /\ \E a \in net' : a.src # n /\ a.ex = x /\ a.ctr = j
      BY <1>2, <2>1 DEF Heard
    <2>3. PICK a \in net' : a.src # n /\ a.ex = x /\ a.ctr = j
      BY <2>2
    <2>4. PICK q \in Apps : q.src # n /\ q.ctr = j
      BY <1>2, <1>3, <2>2
    <2>5. a \in Apps' /\ q \in Apps' /\ a.src = q.src
      <3>1. a \in Apps'
        BY <2>1, <2>3 DEF Apps, IInv, NetInv
      <3> QED
        BY <1>2, <1>4, <2>3, <2>4, <3>1, TwoNodes
    <2>6. a = q
      BY <2>3, <2>4, <2>5 DEF TalkInv, CountersOK
    <2> QED
      BY <2>2, <2>3, <2>4, <2>6 DEF Apps
  <1>8. j = None => of = {}
    <2>1. SUFFICES ASSUME j = None, NEW i \in of PROVE FALSE
      OBVIOUS
    <2>2. PICK b \in Apps : b.src # n /\ b.ex = x
      BY <1>6
    <2>3. n = x.initiator
      BY <1>1, <1>2, <2>1 DEF TalkInv, Openers
    <2>4. Begun(x)
      BY <2>2, <2>3 DEF TalkInv, Openers
    <2>5. PICK q \in Apps : q.ex = x /\ q.ack = None
      BY <2>4 DEF Begun
    <2>6. q.src = n
      BY <2>3, <2>5 DEF TalkInv, Openers
    <2>7. q = m
      BY <1>1, <1>2, <1>4, <2>1, <2>5, <2>6 DEF TalkInv, Single
    <2> QED
      BY <1>2, <2>7
  <1>9. ASSUME j # None, NEW i \in of PROVE i <= j
    <2>1. PICK a \in Apps : a.src # n /\ a.ex = x /\ a.ctr = j /\ j \in Nat
      BY <1>6, <1>7, <1>9
    <2>2. PICK b \in Apps : b.src # n /\ b.ex = x /\ b.ctr = i /\ i \in Nat
      BY <1>6
    <2>3. SUFFICES ASSUME j < i PROVE FALSE
      BY <2>1, <2>2
    <2>4. a \in Apps' /\ b \in Apps' /\ a.src = b.src
      BY <1>2, <1>4, <2>1, <2>2, TwoNodes
    <2>5. PICK c, d \in Apps' : Answers(c, a) /\ Answers(d, c)
      BY <2>1, <2>2, <2>3, <2>4 DEF TalkInv, Settled, Answers
    <2>6. c.src = n
      BY <1>2, <1>4, <2>1, <2>4, <2>5, TwoNodes DEF Answers
    <2>7. c = m
      BY <1>1, <1>2, <2>1, <2>5, <2>6 DEF TalkInv, Single, Answers
    <2>8. m.ctr \in received'[d.src] /\ d.src \in Node /\ d.src # n
      <3>1. d.ack = m.ctr /\ m.ctr # None /\ d \in net' /\ m \in net'
        BY <1>2, <2>5, <2>7 DEF Answers, Apps, IInv, NetInv
      <3>2. d.ack \in Heard(d.src, d.ex, received[d.src])'
        BY <3>1 DEF IInv, NetInv
      <3> QED
        BY <1>1, <1>4, <2>5, <2>7, <3>1, <3>2 DEF Heard, Answers
    <2>9. PICK q \in Apps : q.src # d.src /\ q.ctr = m.ctr
      BY <1>3, <2>8
    <2>10. q = m
      <3>1. q.src = n
        BY <1>2, <1>4, <2>8, <2>9, TwoNodes
      <3> QED
        BY <1>1, <1>2, <1>4, <2>9, <3>1 DEF TalkInv, CountersOK
    <2> QED
      BY <1>2, <2>10
  <1> HIDE DEF of
  <1>10. CASE j = None
    BY <1>1, <1>5, <1>8, <1>10
  <1>11. CASE j # None
    <2>1. j \in of /\ of \subseteq Nat /\ \A i \in of : j >= i
      BY <1>6, <1>7, <1>9, <1>11
    <2>2. \A i \in of : (\A k \in of : i >= k) => i = j
      BY <2>1
    <2>3. Max(of) = j
      BY <2>1, <2>2 DEF Max
    <2> QED
      BY <1>1, <1>5, <2>1, <2>3
  <1> QED
    BY <1>10, <1>11

(* As long as standalone acks find a buffer, HandleMessage never drops a   *)
(* message for want of the ack it waits for, whichever sends fail: each    *)
(* message answers the last one of the other node.                         *)
THEOREM NothingIsUnacked == AcksHaveBuffers => (Spec => []NoUnackedDrop)
  <1> SUFFICES ASSUME AcksHaveBuffers PROVE Spec => []NoUnackedDrop
    OBVIOUS
  <1>1. TalkInv => NoUnackedDrop
    BY DEF TalkInv, NoUnackedDrop
  <1>2. Spec => []TalkInv
    BY TalkInductive
  <1> QED
    BY <1>1, <1>2, PTL

(* Under the same condition the ack that an application message carries is *)
(* of the newest message its exchange has received.                        *)
THEOREM AcksAreLatest == AcksHaveBuffers => (Spec => AcksLatest)
  <1> SUFFICES ASSUME AcksHaveBuffers PROVE Spec => AcksLatest
    OBVIOUS
  <1> DEFINE A == \A m \in net' \ net :
                     m.kind = "app" => m.ack = LatestReceived(m.src, m.ex, received'[m.src])
  <1>1. IInv /\ IInv' /\ TalkInv /\ TalkInv' /\ [Next]_vars => [A]_vars
    BY AcksLatestStep
  <1>2. Spec => []TalkInv
    BY TalkInductive
  <1> QED
    BY <1>1, <1>2, Inductive, PTL DEF Spec, AcksLatest

-----------------------------------------------------------------------------
(* Openers.  One that a node has received and not given to an application  *)
(* came when the session was pending eviction: there is no context for it, *)
(* and nothing has acknowledged it.                                        *)

Told ==
    \A m \in Apps : \A n \in Node \ {m.src} :
        m.ack = None /\ m.ctr \in received[n] /\ m.ctr \notin delivered[n] =>
            /\ sess[n] = "evicted" /\ m.ex \notin live[n]
            /\ \A k \in net : k.src = n => k.ack # m.ctr

(* The applications take every opener that is offered to them.             *)
OpenersAreTaken == Reactions \cap {"refuse", "notPermitted"} = {}

PoolsHaveRoom == \A n \in Node : PoolHasRoom(n)

(* An opener a node has not received yet has no context there.             *)
LEMMA OpenerIsNew ==
    ASSUME IInv, TalkInv, NEW n \in Node, NEW m \in Apps, m.src # n, m.ack = None,
           m.ctr \notin received[n]
    PROVE  m.ex \notin live[n] /\ m.src = m.ex.initiator
  <1>1. m.src = m.ex.initiator
    BY DEF TalkInv, Openers
  <1>2. SUFFICES ASSUME m.ex \in live[n] PROVE FALSE
    BY <1>1
  <1>3. Begun(m.ex)
    BY <1>1, <1>2 DEF TalkInv, TurnOK
  <1>4. PICK q \in Apps : /\ q.ex = m.ex /\ q.ack = None
                          /\ \A p \in Node \ {q.src} : q.ctr \in received[p]
    BY <1>3 DEF Begun
  <1>5. q = m
    BY <1>1, <1>4 DEF TalkInv, Openers, Single
  <1> QED
    BY <1>4, <1>5

(* The end of a handler, if it gives the opener it was about to its        *)
(* application.                                                            *)
LEMMA FinishTold ==
    ASSUME IInv, IInv', TalkInv, TalkInv', EvictedStays, Told, NEW n \in Node,
           NEW x \in Exchanges, NEW H, NEW f, FrameOK(f, n, x, H), Finish(f),
           NEW R, received' = [received EXCEPT ![n] = R], received[n] \subseteq R,
           OnlyOf(n, x, R), sess[n] = "evicted" => x \in live[n],
           \A m \in Apps : m.src # n /\ m.ack = None /\ m.ctr \in R /\ m.ctr \notin received[n]
                              => m.ctr \in f.delivered
    PROVE  Told'
  <1>0. f.n = n /\ f.x = x /\ \A k \in f.out : k.src = n /\ k.ex = x
    BY DEF FrameOK, FrameShape
  <1>1. /\ TypeInv /\ CountersOK /\ CountersOK'
        /\ \A m \in Apps' : m.src \in Node /\ m.ctr # None
    BY DEF IInv, TalkInv, NetInv, Apps
  <1>2. /\ net' = net \cup f.out
        /\ delivered' = [delivered EXCEPT ![n] = @ \cup f.delivered]
        /\ \E kept : live' = [live EXCEPT ![n] = kept] /\ kept \subseteq live[n] \cup {x}
    <2> DEFINE C == [z \in Exchanges |->
                        IF z = f.x THEN f.c
                        ELSE IF f.release /\ z \in live[f.n] /\ ctx[f.n][z].session
                        THEN ReleasedContext(f.n, z)
                        ELSE ctx[f.n][z]]
               alive == live[f.n] \cup {f.x}
               kept == {z \in alive : Referenced(C[z])}
    <2>1. /\ live' = [live EXCEPT ![f.n] = kept] /\ net' = net \cup f.out
          /\ delivered' = [delivered EXCEPT ![f.n] = @ \cup f.delivered]
      BY DEF Finish, Settle
    <2> HIDE DEF C
    <2>2. kept \subseteq live[n] \cup {x}
      BY <1>0
    <2> HIDE DEF kept
    <2> QED
      BY <1>0, <2>1, <2>2
  <1>3. /\ live'[n] \subseteq live[n] \cup {x} /\ \A p \in Node \ {n} : live'[p] = live[p]
        /\ delivered'[n] = delivered[n] \cup f.delivered
        /\ \A p \in Node \ {n} : delivered'[p] = delivered[p]
        /\ received'[n] = R /\ \A p \in Node \ {n} : received'[p] = received[p]
    BY <1>1, <1>2 DEF TypeInv
  <1>4. Apps \subseteq Apps'
    BY <1>2 DEF Apps
  <1>5. \A p \in Node : \A i \in received'[p] : \E q \in Apps : q.src # p /\ q.ctr = i
    BY <1>1, <1>3 DEF CountersOK, OnlyOf
  <1> SUFFICES ASSUME NEW m \in Apps', NEW p \in Node \ {m.src},
                      m.ack = None, m.ctr \in received'[p], m.ctr \notin delivered'[p]
               PROVE  /\ sess'[p] = "evicted" /\ m.ex \notin live'[p]
                      /\ \A k \in net' : k.src = p => k.ack # m.ctr
    BY DEF Told
  <1>6. m \in Apps
    <2>1. PICK q \in Apps : q.src # p /\ q.ctr = m.ctr
      BY <1>5
    <2>2. q \in Apps' /\ q.src = m.src
      BY <1>1, <1>4, <2>1, TwoNodes
    <2> QED
      BY <1>1, <2>1, <2>2 DEF CountersOK
  <1>7. m.ctr \in received[p] /\ m.ctr \notin delivered[p]
    BY <1>3, <1>6
  <1>8. /\ sess[p] = "evicted" /\ m.ex \notin live[p]
        /\ \A k \in net : k.src = p => k.ack # m.ctr
    BY <1>6, <1>7 DEF Told
  <1>9. sess'[p] = "evicted"
    BY <1>8 DEF EvictedStays
  <1>10. m.ex \notin live'[p] /\ (p = n => x # m.ex)
    BY <1>3, <1>8
  <1>11. ASSUME NEW k \in net', k.src = p, k.ack = m.ctr PROVE FALSE
    <2>1. k \in f.out /\ p = n /\ k.ex = x
      BY <1>0, <1>2, <1>8, <1>11
    <2>2. m.ctr \in Heard(n, x, received[n])'
      BY <1>1, <1>11, <2>1 DEF IInv, NetInv
    <2>3. PICK q \in net' : q.src # n /\ q.ex = x /\ q.ctr = m.ctr
      BY <2>2 DEF Heard
    <2>4. q \in Apps'
      BY <1>1, <2>3 DEF IInv, NetInv, Apps
    <2>5. q = m
      BY <1>1, <2>1, <2>3, <2>4, TwoNodes DEF CountersOK
    <2> QED
      BY <1>10, <2>1, <2>3, <2>5
  <1> QED
    BY <1>9, <1>10, <1>11

LEMMA FinishHereTold ==
    ASSUME IInv, IInv', TalkInv, TalkInv', EvictedStays, Told, NEW n \in Node,
           NEW x \in Exchanges, NEW H, NEW f, FrameOK(f, n, x, H), Finish(f),
           UNCHANGED received, sess[n] = "evicted" => x \in live[n]
    PROVE  Told'
  <1>1. PICK R : R = received[n]
    OBVIOUS
  <1>2. received' = [received EXCEPT ![n] = R] /\ received[n] \subseteq R
    BY <1>1 DEF IInv, TypeInv
  <1>3. OnlyOf(n, x, R)
    BY <1>1 DEF OnlyOf
  <1>4. \A m \in Apps : m.src # n /\ m.ack = None /\ m.ctr \in R /\ m.ctr \notin received[n]
                           => m.ctr \in f.delivered
    BY <1>1
  <1> QED
    BY <1>2, <1>3, <1>4, FinishTold

LEMMA NewContextTold ==
    ASSUME IInv, IInv', TalkInv, TalkInv', EvictedStays, Told, NEW n \in Node,
           NEW x \in Exchanges, NewContext(n, x)
    PROVE  Told'
  <1>1. PICK H : H = Heard(n, x, received[n])
    OBVIOUS
  <1>2. PICK b \in BOOLEAN : b = TRUE
    OBVIOUS
  <1>3. /\ Finish(Frame(n, x, NewExchangeContext(b))) /\ UNCHANGED received
        /\ sess[n] = "active"
    BY <1>2 DEF NewContext
  <1> DEFINE f == Frame(n, x, NewExchangeContext(b))
  <1>4. FrameOK(f, n, x, H)
    <2>1. /\ IsContext(NewExchangeContext(b)) /\ Life(NewExchangeContext(b))
          /\ NewExchangeContext(b).ackCtr = None
      BY NewContextOK
    <2>2. next[n] \in Nat \ {0}
      BY DEF IInv, TypeInv
    <2> QED
      BY <2>1, <2>2, FrameIsOK
  <1> HIDE DEF f
  <1>5. Finish(f)
    BY <1>3 DEF f
  <1> QED
    BY <1>3, <1>4, <1>5, FinishHereTold

LEMMA LocalTold ==
    ASSUME IInv, IInv', TalkInv, TalkInv', EvictedStays, Told, NEW n \in Node,
           NEW x \in Exchanges, Local(n, x)
    PROVE  Told'
  <1>1. PICK H : H = Heard(n, x, received[n])
    OBVIOUS
  <1> QED
    BY <1>1, LocalIsOK, FinishHereTold

(* A message that finds an exchange is not a new opener.                   *)
LEMMA MatchedTold ==
    ASSUME IInv, IInv', TalkInv, TalkInv', EvictedStays, Told, NEW n \in Node,
           NEW m \in net, m.src # n, Matched(n, m)
    PROVE  Told'
  <1>1. PICK R, H : Arrives(n, m, R, H)
    BY CommitOK DEF Matched
  <1>2. /\ m.ex \in live[n]
        /\ \E o \in Outcomes, reaction \in Reactions \ {"refuse"} :
              /\ FrameOK(MatchedFrame(n, m, reaction, o), n, m.ex, H)
              /\ Finish(MatchedFrame(n, m, reaction, o))
    BY <1>1, MatchedIsOK
  <1>3. PICK f : FrameOK(f, n, m.ex, H) /\ Finish(f)
    BY <1>2
  <1>4. /\ m.ex \in Exchanges /\ OnlyOf(n, m.ex, R)
        /\ \A i \in R : i \in received[n] \/ (m \in Apps /\ m.ctr = i)
    BY <1>1 DEF IInv, NetInv, Arrives, OnlyOf, Apps
  <1>5. ASSUME NEW q \in Apps, q.src # n, q.ack = None, q.ctr \in R, q.ctr \notin received[n]
        PROVE  q.ctr \in f.delivered
    <2>1. m \in Apps /\ m.ctr = q.ctr
      BY <1>4, <1>5
    <2>2. m.src = q.src
      BY <1>5, <2>1, TwoNodes DEF IInv, NetInv, Apps
    <2>3. m = q
      BY <2>1, <2>2 DEF TalkInv, CountersOK
    <2> QED
      BY <1>2, <1>5, <2>3, OpenerIsNew
  <1> QED
    BY <1>1, <1>2, <1>3, <1>4, <1>5, FinishTold DEF Arrives

LEMMA UnsolicitedTold ==
    ASSUME OpenersAreTaken, IInv, IInv', TalkInv, TalkInv', EvictedStays, Told,
           NEW n \in Node, NEW m \in net, m.src # n, Unsolicited(n, m)
    PROVE  Told'
  <1>1. PICK R, H : Arrives(n, m, R, H)
    BY CommitOK DEF Unsolicited
  <1>2. PICK o \in Outcomes, reaction \in Reactions \ {"refuse"} :
              /\ FrameOK(UnsolicitedFrame(n, m, reaction, o), n, m.ex, H)
              /\ Finish(UnsolicitedFrame(n, m, reaction, o))
    BY <1>1, UnsolicitedIsOK
  <1>3. /\ m.ex \in Exchanges /\ next[n] \in Nat \ {0} /\ m.kind = "app" /\ m \in Apps
        /\ sess[n] # "evicted" /\ m.ctr \in H
    BY <1>1 DEF IInv, NetInv, TypeInv, Unsolicited, IsUnsolicited, Apps, Arrives
  <1>4. reaction \in AllReactions /\ reaction # "notPermitted"
    BY ExchangeAssumption DEF OpenersAreTaken
  <1>5. PICK b \in BOOLEAN : b = FALSE
    OBVIOUS
  <1> DEFINE c == NewExchangeContext(b)
             e == Frame(n, m.ex, c)
             f == MarkActiveRx(e)
             h == HandleMessage(f, m, FALSE, reaction, o)
  <1>6. h = UnsolicitedFrame(n, m, reaction, o)
    BY <1>5 DEF UnsolicitedFrame
  <1>7. IsContext(c) /\ Life(c) /\ c.ackCtr = None /\ ~c.closed /\ c.retrans = None
    BY NewContextOK DEF NewExchangeContext
  <1> HIDE DEF c
  <1>8. FrameShape(f, n, m.ex, H) /\ f.c = c
    <2>1. FrameShape(e, n, m.ex, H) /\ e.c = c
      BY <1>3, <1>7, FrameIsOK DEF FrameOK
    <2> HIDE DEF e
    <2> QED
      BY <2>1, DefunctOK
  <1> HIDE DEF f
  <1>9. m.ack = None => m.ctr \in h.delivered
    BY <1>3, <1>4, <1>7, <1>8, OpenerDelivered
  <1> HIDE DEF h
  <1>10. /\ OnlyOf(n, m.ex, R)
         /\ \A i \in R : i \in received[n] \/ m.ctr = i
    BY <1>1, <1>3 DEF Arrives, OnlyOf
  <1>11. ASSUME NEW q \in Apps, q.src # n, q.ack = None, q.ctr \in R, q.ctr \notin received[n]
         PROVE  q.ctr \in h.delivered
    <2>1. m.ctr = q.ctr
      BY <1>10, <1>11
    <2>2. m.src = q.src
      BY <1>3, <1>11, TwoNodes DEF IInv, NetInv, Apps
    <2>3. m = q
      BY <1>3, <2>1, <2>2 DEF TalkInv, CountersOK
    <2> QED
      BY <1>9, <1>11, <2>3
  <1> QED
    BY <1>1, <1>2, <1>3, <1>6, <1>10, <1>11, FinishTold DEF Arrives

(* An ephemeral exchange answers what is no new opener, if none is refused.*)
LEMMA EphemeralTold ==
    ASSUME OpenersAreTaken, IInv, IInv', TalkInv, TalkInv', EvictedStays, Told,
           NEW n \in Node, NEW m \in net, m.src # n, EphemeralAck(n, m)
    PROVE  Told'
  <1>1. PICK R, H : Arrives(n, m, R, H)
    BY CommitOK DEF EphemeralAck
  <1>2. PICK o \in Outcomes : /\ FrameOK(EphemeralFrame(n, m, o), n, m.ex, H)
                              /\ Finish(EphemeralFrame(n, m, o))
    BY <1>1, EphemeralIsOK
  <1>3. PICK f : FrameOK(f, n, m.ex, H) /\ Finish(f)
    BY <1>2
  <1>4. /\ m.ex \in Exchanges /\ m \in Apps /\ m.kind = "app" /\ sess[n] # "evicted"
        /\ ~IsUnsolicited(n, m)
    BY DEF IInv, NetInv, EphemeralAck, Apps, OpenersAreTaken
  <1>5. OnlyOf(n, m.ex, R) /\ \A i \in R : i \in received[n] \/ m.ctr = i
    BY <1>1, <1>4 DEF Arrives, OnlyOf
  <1>6. ASSUME NEW q \in Apps, q.src # n, q.ack = None, q.ctr \in R, q.ctr \notin received[n]
        PROVE  q.ctr \in f.delivered
    <2>1. m.ctr = q.ctr
      BY <1>5, <1>6
    <2>2. m.src = q.src
      BY <1>4, <1>6, TwoNodes DEF IInv, NetInv, Apps
    <2>3. m = q
      BY <1>4, <2>1, <2>2 DEF TalkInv, CountersOK
    <2>4. m.src = m.ex.initiator
      BY <1>6, <2>3, OpenerIsNew
    <2> QED
      BY <1>4, <1>6, <2>3, <2>4 DEF IsUnsolicited, IsDuplicate
  <1> QED
    BY <1>1, <1>3, <1>4, <1>5, <1>6, FinishTold DEF Arrives

(* With room in the pool, only a session pending eviction drops an opener. *)
LEMMA DroppedTold ==
    ASSUME PoolsHaveRoom, IInv, IInv', TalkInv, TalkInv', EvictedStays, Told,
           NEW n \in Node, NEW m \in net, m.src # n, Dropped(n, m)
    PROVE  Told'
  <1>1. PICK R, H : Arrives(n, m, R, H)
    BY CommitOK DEF Dropped
  <1>2. /\ live' = live /\ net' = net /\ delivered' = delivered
        /\ sess[n] = "evicted" \/ m.kind = "sack"
    BY DEF Dropped, PoolsHaveRoom
  <1>3. /\ received'[n] = R /\ \A p \in Node \ {n} : received'[p] = received[p]
    BY <1>1 DEF Arrives, IInv, TypeInv
  <1>4. \A i \in R : i \in received[n] \/ (m \in Apps /\ m.kind = "app" /\ m.ctr = i)
    BY <1>1 DEF Arrives, IInv, NetInv, Apps
  <1>5. Apps' = Apps
    BY <1>2 DEF Apps
  <1> SUFFICES ASSUME NEW q \in Apps, NEW p \in Node \ {q.src}, q.ack = None,
                      q.ctr \in received'[p], q.ctr \notin delivered[p]
               PROVE  /\ sess'[p] = "evicted" /\ q.ex \notin live[p]
                      /\ \A k \in net : k.src = p => k.ack # q.ctr
    BY <1>2, <1>5 DEF Told
  <1>6. CASE q.ctr \in received[p]
    BY <1>6 DEF Told, EvictedStays
  <1>7. CASE q.ctr \notin received[p]
    <2>1. p = n /\ m.kind = "app" /\ sess[n] = "evicted"
      BY <1>2, <1>3, <1>4, <1>7
    <2>2. q.ex \notin live[p]
      BY <1>7, OpenerIsNew
    <2>3. ASSUME NEW k \in net, k.src = p PROVE k.ack # q.ctr
      <3>1. q.ctr # None
        BY DEF Apps, IInv, NetInv
      <3> QED
        BY <1>7, <2>3, <3>1 DEF IInv, NetInv, Heard
    <2> QED
      BY <2>1, <2>2, <2>3 DEF EvictedStays
  <1> QED
    BY <1>6, <1>7

LEMMA EvictionTold ==
    ASSUME IInv, EvictedStays, Told, NEW n \in Node, MarkForEviction(n)
    PROVE  Told'
  <1>1. /\ net' = net /\ received' = received /\ delivered' = delivered
        /\ \E kept : live' = [live EXCEPT ![n] = kept] /\ kept \subseteq live[n]
    BY DEF MarkForEviction, Settle
  <1>2. Apps' = Apps /\ \A p \in Node : live'[p] \subseteq live[p]
    BY <1>1 DEF Apps, IInv, TypeInv
  <1> QED
    BY <1>1, <1>2 DEF Told, EvictedStays

LEMMA ToldInit == Init => Told
BY DEF Init, Told, Apps

LEMMA ToldNext ==
    ASSUME OpenersAreTaken, PoolsHaveRoom, IInv, IInv', TalkInv, TalkInv', EvictedStays, Told,
           [Next]_vars
    PROVE  Told'
  <1>1. ASSUME NEW n \in Node, NEW x \in Exchanges, NewContext(n, x) \/ Local(n, x)
        PROVE  Told'
    BY <1>1, NewContextTold, LocalTold
  <1>2. ASSUME NEW n \in Node, NEW m \in net, Receive(n, m)
        PROVE  Told'
    <2>1. /\ m.src # n
          /\ Matched(n, m) \/ Unsolicited(n, m) \/ EphemeralAck(n, m) \/ Dropped(n, m)
      BY <1>2 DEF Receive
    <2> QED
      BY <2>1, MatchedTold, UnsolicitedTold, EphemeralTold, DroppedTold
  <1>3. ASSUME NEW n \in Node, MarkForEviction(n)
        PROVE  Told'
    BY <1>3, EvictionTold
  <1>4. CASE UNCHANGED vars
    BY <1>4 DEF vars, Told, Apps
  <1> QED
    BY <1>1, <1>2, <1>3, <1>4 DEF Next, Local

LEMMA ToldIsEnough ==
    ASSUME IInv, TalkInv, Told
    PROVE  OpenerAckedIsDelivered
  <1> SUFFICES ASSUME NEW m \in net, m.kind = "app", m.ack = None, m.ctr \in acked[m.src]
               PROVE  m.ctr \in delivered[Peer(m.src)]
    BY DEF OpenerAckedIsDelivered
  <1>1. m \in Apps /\ m.src \in Node /\ m.ctr # None
    BY DEF Apps, IInv, NetInv
  <1>2. PICK k \in net : k.src # m.src /\ k.ack = m.ctr
    BY <1>1 DEF TalkInv, Acks
  <1>3. k.src \in Node /\ m.ctr \in received[k.src]
    BY <1>1, <1>2 DEF IInv, NetInv, Heard
  <1>4. m.ctr \in delivered[k.src]
    BY <1>1, <1>2, <1>3 DEF Told
  <1>5. Peer(m.src) \in Node /\ Peer(m.src) # m.src
    BY <1>2, <1>3 DEF Peer
  <1>6. Peer(m.src) = k.src
    BY <1>1, <1>2, <1>3, <1>5, TwoNodes
  <1> QED
    BY <1>4, <1>6

(* While the context pools have room, if acks find buffers and no opener   *)
(* is refused, the acknowledgment of an opener means that the peer's       *)
(* application was given it: no ack stands for a message that was dropped  *)
(* on the way, at a session pending eviction for instance.                 *)
THEOREM OpenersAreDelivered ==
    AcksHaveBuffers /\ OpenersAreTaken => (Spec /\ []PoolsHaveRoom => []OpenerAckedIsDelivered)
  <1> SUFFICES ASSUME AcksHaveBuffers, OpenersAreTaken
               PROVE  Spec /\ []PoolsHaveRoom => []OpenerAckedIsDelivered
    OBVIOUS
  <1>1. Init => Told
    BY ToldInit
  <1>2. /\ PoolsHaveRoom /\ IInv /\ IInv' /\ TalkInv /\ TalkInv' /\ Told /\ [Next]_vars
        => Told'
    BY TalkNext, ToldNext
  <1>3. IInv /\ TalkInv /\ Told => OpenerAckedIsDelivered
    BY ToldIsEnough
  <1>4. Spec => []TalkInv
    BY TalkInductive
  <1> QED
    BY <1>1, <1>2, <1>3, <1>4, Inductive, PTL DEF Spec
=============================================================================
