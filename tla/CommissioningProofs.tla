------------------------ MODULE CommissioningProofs ------------------------
(***************************************************************************)
(* The safety of the commissioning window, for every set of fabrics, limit *)
(* on attempts and length of the event queue.                              *)
(*                                                                         *)
(* The argument is about the queue: what the window manager will learn     *)
(* later must make up for what it does not know now.                       *)
(***************************************************************************)
EXTENDS Commissioning, TLAPS

Events == [type : {"expired", "disarm", "complete", "error"},
           fabric : Fabrics \cup {0}, add : BOOLEAN]

Has(q, type) == \E n \in 1..Len(q) : q[n].type = type

(* An expiry and the work that disarms stay together, at most one pair at  *)
(* a time, and commissioning cannot complete behind them.                  *)
QueueOK(q) ==
    /\ q \in Seq(Events)
    /\ \A n \in 1..Len(q) : q[n].type = "expired" => n < Len(q) /\ q[n + 1].type = "disarm"
    /\ \A n \in 1..Len(q) : q[n].type = "disarm" => n = 1 \/ q[n - 1].type = "expired"
    /\ \A m, n \in 1..Len(q) : m < n /\ q[m].type = "disarm" => q[n].type \notin {"disarm", "complete"}
    /\ \A m, n \in 1..Len(q) : m < n /\ q[m].type = "error" => q[n].type # "error"

(* An error waits behind the completion of commissioning.                  *)
ErrorsBehind(q) ==
    \A n \in 1..Len(q) : q[n].type = "error" => \E m \in 1..(n - 1) : q[m].type = "complete"

(* The fail-safe is busy exactly while the work that disarms is queued.    *)
FailSafeInv ==
    /\ busy <=> Has(events, "disarm")
    /\ ~(armed /\ busy)

(* There is no PASE session but the one the manager holds and listens for; *)
(* when the work that disarms is next, that one has been evicted.          *)
SessionInv ==
    /\ held = 0 => sessions = {} /\ ~handler
    /\ held # 0 => sessions = {held} /\ handler
    /\ IsNext("disarm") => held = 0
    /\ held # 0 => ErrorsBehind(events)
    /\ held # 0 => armed \/ busy \/ Has(events, "complete")

(* Until commissioning completes, the fail-safe of a PASE session has its  *)
(* fabric, and an adopted fabric was added under this fail-safe.           *)
OwnerInv ==
    armed /\ held # 0 =>
        \/ Has(events, "complete")
        \/ fsIndex = paseFabric /\ (paseFabric # 0 => "addNoc" \in invoked)

Free == (~armed /\ held = 0) \/ (held # 0 /\ Has(events, "complete"))

(* The window's timer runs exactly while it is open, and an open window    *)
(* that may still reach a handshake finds the fail-safe free.              *)
WindowInv ==
    /\ win.timer <=> win.open
    /\ win.listening \/ win.pairing # "idle" \/ win.deadline => win.open
    /\ win.pairing = "started" => win.deadline
    /\ win.open /\ (win.pairing # "idle" \/ win.deadline \/ Has(events, "error")) => Free

(* Handshakes are paid for by failed attempts.                             *)
AttemptsInv ==
    /\ win.timer => win.attempts < MaxAttempts
    /\ held # 0 \/ Has(events, "error") => win.attempts <= MaxAttempts
    /\ win.pairing = "waiting" => handshakes <= win.attempts
    /\ win.timer => handshakes <= win.attempts + 1
    /\ handshakes <= MaxAttempts

IInv ==
    /\ TypeOK /\ QueueOK(events)
    /\ FailSafeInv /\ SessionInv /\ OwnerInv /\ WindowInv /\ AttemptsInv

-----------------------------------------------------------------------------
(* The queue.                                                              *)

LEMMA TailIndex ==
    ASSUME NEW q \in Seq(Events), q # <<>>
    PROVE  /\ Tail(q) \in Seq(Events) /\ Len(q) \in Nat \ {0}
           /\ Len(Tail(q)) = Len(q) - 1
           /\ \A n \in 1..Len(Tail(q)) : n + 1 \in 1..Len(q) /\ Tail(q)[n] = q[n + 1]
           /\ Head(q) = q[1] /\ Head(q) \in Events
OBVIOUS

LEMMA AppendIndex ==
    ASSUME NEW q \in Seq(Events), NEW e \in Events
    PROVE  /\ Append(q, e) \in Seq(Events) /\ Len(q) \in Nat
           /\ Len(Append(q, e)) = Len(q) + 1
           /\ Append(q, e)[Len(q) + 1] = e
           /\ \A n \in 1..Len(q) : Append(q, e)[n] = q[n]
OBVIOUS

LEMMA ConcatIndex ==
    ASSUME NEW q \in Seq(Events), NEW d \in Events, NEW e \in Events
    PROVE  /\ q \o <<d, e>> \in Seq(Events) /\ Len(q) \in Nat
           /\ Len(q \o <<d, e>>) = Len(q) + 2
           /\ (q \o <<d, e>>)[Len(q) + 1] = d
           /\ (q \o <<d, e>>)[Len(q) + 2] = e
           /\ \A n \in 1..Len(q) : (q \o <<d, e>>)[n] = q[n]
OBVIOUS

LEMMA ConcatEmpty ==
    ASSUME NEW q \in Seq(Events)
    PROVE  q \o <<>> = q
OBVIOUS

(* Handing out the first event.                                            *)
LEMMA TailQueue ==
    ASSUME NEW q, QueueOK(q), q # <<>>
    PROVE  /\ QueueOK(Tail(q))
           /\ \A t : Has(Tail(q), t) => Has(q, t)
           /\ \A t : Has(q, t) => Head(q).type = t \/ Has(Tail(q), t)
           /\ Head(q).type = "disarm" => ~Has(Tail(q), "disarm")
           /\ Head(q).type = "error" => ~Has(Tail(q), "error")
           /\ Tail(q) # <<>> /\ Head(Tail(q)).type = "disarm" => Head(q).type = "expired"
           /\ Head(q).type # "complete" /\ ErrorsBehind(q) => ErrorsBehind(Tail(q))
           /\ Head(q).type = "error" => ~ErrorsBehind(q)
           /\ Head(q).type = "expired" => Has(q, "disarm")
           /\ Head(q).type = "expired" /\ ErrorsBehind(q) => ~Has(Tail(q), "error")
           /\ Has(q, Head(q).type) /\ Head(q) \in Events
<1> DEFINE r == Tail(q)
<1>1. /\ q \in Seq(Events) /\ r \in Seq(Events) /\ Len(q) \in Nat \ {0}
      /\ Len(r) = Len(q) - 1
      /\ \A n \in 1..Len(r) : n + 1 \in 1..Len(q) /\ r[n] = q[n + 1]
      /\ Head(q) = q[1] /\ Head(q) \in Events
  BY TailIndex DEF QueueOK
<1>2. r # <<>> => Head(r) = r[1] /\ 1 \in 1..Len(r)
  BY <1>1, TailIndex
<1> HIDE DEF r
<1>3. \A n \in 1..Len(q) : n = 1 \/ (n - 1 \in 1..Len(r) /\ q[n] = r[n - 1])
  BY <1>1
<1>4. QueueOK(r)
  <2>1. ASSUME NEW n \in 1..Len(r), r[n].type = "expired"
        PROVE  n < Len(r) /\ r[n + 1].type = "disarm"
    <3>1. n + 1 < Len(q) /\ q[n + 2].type = "disarm"
      BY <1>1, <2>1 DEF QueueOK
    <3>2. n < Len(r) /\ n + 1 \in 1..Len(r)
      BY <1>1, <3>1
    <3> QED BY <1>1, <3>1, <3>2
  <2>2. ASSUME NEW n \in 1..Len(r), r[n].type = "disarm"
        PROVE  n = 1 \/ r[n - 1].type = "expired"
    <3>1. q[n].type = "expired"
      BY <1>1, <2>2 DEF QueueOK
    <3>2. n = 1 \/ n - 1 \in 1..Len(r)
      BY <1>1
    <3> QED BY <1>1, <3>1, <3>2
  <2>5. \A m, n \in 1..Len(r) : m < n =>
          /\ m + 1 \in 1..Len(q) /\ n + 1 \in 1..Len(q) /\ m + 1 < n + 1
          /\ r[m] = q[m + 1] /\ r[n] = q[n + 1]
    BY <1>1
  <2>3. \A m, n \in 1..Len(r) : m < n /\ r[m].type = "disarm" => r[n].type \notin {"disarm", "complete"}
    BY <2>5, SMTT(30) DEF QueueOK
  <2>4. \A m, n \in 1..Len(r) : m < n /\ r[m].type = "error" => r[n].type # "error"
    BY <2>5 DEF QueueOK
  <2> QED BY <1>1, <2>1, <2>2, <2>3, <2>4 DEF QueueOK
<1>5. \A t : Has(r, t) => Has(q, t)
  BY <1>1 DEF Has
<1>6. \A t : Has(q, t) => Head(q).type = t \/ Has(r, t)
  BY <1>1, <1>3, SMTT(30) DEF Has
<1>a. \A n \in 1..Len(r) : 1 \in 1..Len(q) /\ n + 1 \in 1..Len(q) /\ 1 < n + 1 /\ r[n] = q[n + 1]
  BY <1>1
<1>7. Head(q).type = "disarm" => ~Has(r, "disarm")
  <2> SUFFICES ASSUME q[1].type = "disarm", NEW n \in 1..Len(r), r[n].type = "disarm"
               PROVE  FALSE
    BY <1>1 DEF Has
  <2> QED BY <1>a DEF QueueOK
<1>8. Head(q).type = "error" => ~Has(r, "error")
  <2> SUFFICES ASSUME q[1].type = "error", NEW n \in 1..Len(r), r[n].type = "error"
               PROVE  FALSE
    BY <1>1 DEF Has
  <2> QED BY <1>a DEF QueueOK
<1>9. r # <<>> /\ Head(r).type = "disarm" => Head(q).type = "expired"
  <2> SUFFICES ASSUME r # <<>>, Head(r).type = "disarm" PROVE Head(q).type = "expired"
    OBVIOUS
  <2>1. 2 \in 1..Len(q) /\ q[2].type = "disarm"
    BY <1>1, <1>2
  <2> QED BY <1>1, <2>1 DEF QueueOK
<1>10. Head(q).type # "complete" /\ ErrorsBehind(q) => ErrorsBehind(r)
  <2> SUFFICES ASSUME Head(q).type # "complete", ErrorsBehind(q),
                      NEW n \in 1..Len(r), r[n].type = "error"
               PROVE  \E m \in 1..(n - 1) : r[m].type = "complete"
    BY DEF ErrorsBehind
  <2>1. PICK m \in 1..n : q[m].type = "complete"
    BY <1>1 DEF ErrorsBehind
  <2>2. m # 1
    BY <1>1, <2>1
  <2>3. m - 1 \in 1..(n - 1) /\ r[m - 1] = q[m]
    BY <1>1, <1>3, <2>1, <2>2
  <2> QED BY <2>1, <2>3
<1>11. Head(q).type = "error" => ~ErrorsBehind(q)
  BY <1>1 DEF ErrorsBehind
<1>12. Head(q).type = "expired" => 2 \in 1..Len(q) /\ q[2].type = "disarm"
  BY <1>1 DEF QueueOK
<1>13. Head(q).type = "expired" /\ ErrorsBehind(q) => ~Has(r, "error")
  <2> SUFFICES ASSUME Head(q).type = "expired", ErrorsBehind(q),
                      NEW n \in 1..Len(r), r[n].type = "error"
               PROVE  FALSE
    BY DEF Has
  <2>1. PICK m \in 1..n : q[m].type = "complete"
    BY <1>1 DEF ErrorsBehind
  <2>2. m # 1 /\ m # 2 /\ m \in 1..Len(q)
    BY <1>1, <1>12, <2>1
  <2> QED BY <1>1, <1>12, <2>1, <2>2 DEF QueueOK
<1>14. Head(q).type = "expired" => Has(q, "disarm")
  BY <1>12 DEF Has
<1>15. Has(q, Head(q).type)
  BY <1>1 DEF Has
<1> QED
  BY <1>1, <1>4, <1>5, <1>6, <1>7, <1>8, <1>9, <1>10, <1>11, <1>13, <1>14, <1>15 DEF r

(* Queueing the end of commissioning or a failed handshake.                *)
LEMMA AppendQueue ==
    ASSUME NEW q, QueueOK(q), NEW e \in Events,
           \/ e.type = "complete" /\ ~Has(q, "disarm")
           \/ e.type = "error" /\ ~Has(q, "error")
    PROVE  /\ QueueOK(Append(q, e))
           /\ \A t : Has(Append(q, e), t) <=> Has(q, t) \/ t = e.type
           /\ q # <<>> => Append(q, e) # <<>> /\ Head(Append(q, e)) = Head(q)
           /\ q = <<>> => Append(q, e) # <<>> /\ Head(Append(q, e)) = e
           /\ ErrorsBehind(q) /\ (e.type = "error" => Has(q, "complete"))
                => ErrorsBehind(Append(q, e))
<1> DEFINE r == Append(q, e)
<1>1. /\ q \in Seq(Events) /\ r \in Seq(Events) /\ Len(q) \in Nat
      /\ Len(r) = Len(q) + 1 /\ r[Len(q) + 1] = e
      /\ \A n \in 1..Len(q) : r[n] = q[n]
  BY AppendIndex DEF QueueOK
<1> HIDE DEF r
<1>2. r # <<>> /\ (q # <<>> => Head(r) = Head(q)) /\ (q = <<>> => Head(r) = e)
  <2>1. r # <<>> /\ Head(r) = r[1]
    BY <1>1
  <2>2. q # <<>> => 1 \in 1..Len(q) /\ Head(q) = q[1]
    BY <1>1
  <2>3. q = <<>> => Len(q) = 0
    OBVIOUS
  <2> QED BY <1>1, <2>1, <2>2, <2>3
<1>3. \A n \in 1..Len(r) : n \in 1..Len(q) \/ (n = Len(q) + 1 /\ r[n] = e)
  BY <1>1
<1>4. QueueOK(r)
  <2>1. \A n \in 1..Len(r) : r[n].type = "expired" => n < Len(r) /\ r[n + 1].type = "disarm"
    BY <1>1, <1>3 DEF QueueOK
  <2>2. \A n \in 1..Len(r) : r[n].type = "disarm" => n = 1 \/ r[n - 1].type = "expired"
    BY <1>1, <1>3 DEF QueueOK
  <2>3. \A m, n \in 1..Len(r) : m < n /\ r[m].type = "disarm" => r[n].type \notin {"disarm", "complete"}
    BY <1>1, <1>3 DEF QueueOK, Has
  <2>4. \A m, n \in 1..Len(r) : m < n /\ r[m].type = "error" => r[n].type # "error"
    BY <1>1, <1>3 DEF QueueOK, Has
  <2> QED BY <1>1, <2>1, <2>2, <2>3, <2>4 DEF QueueOK
<1>5. \A t : Has(r, t) <=> Has(q, t) \/ t = e.type
  BY <1>1, <1>3 DEF Has
<1>6. ErrorsBehind(q) /\ (e.type = "error" => Has(q, "complete")) => ErrorsBehind(r)
  <2> SUFFICES ASSUME ErrorsBehind(q), e.type = "error" => Has(q, "complete"),
                      NEW n \in 1..Len(r), r[n].type = "error"
               PROVE  \E m \in 1..(n - 1) : r[m].type = "complete"
    BY DEF ErrorsBehind
  <2>1. CASE n \in 1..Len(q)
    BY <1>1, <2>1 DEF ErrorsBehind
  <2>2. CASE n = Len(q) + 1 /\ r[n] = e
    BY <1>1, <2>2 DEF Has
  <2> QED BY <1>3, <2>1, <2>2
<1> QED BY <1>2, <1>4, <1>5, <1>6 DEF r

(* Queueing an expiry and the work that disarms.                           *)
LEMMA ExpireQueue ==
    ASSUME NEW q, QueueOK(q), ~Has(q, "disarm"),
           NEW d \in Events, d.type = "expired", NEW e \in Events, e.type = "disarm"
    PROVE  /\ QueueOK(q \o <<d, e>>)
           /\ \A t : Has(q \o <<d, e>>, t) <=> Has(q, t) \/ t \in {"expired", "disarm"}
           /\ q \o <<d, e>> # <<>> /\ Head(q \o <<d, e>>).type # "disarm"
           /\ ErrorsBehind(q) => ErrorsBehind(q \o <<d, e>>)
<1> DEFINE r == q \o <<d, e>>
<1>1. /\ q \in Seq(Events) /\ r \in Seq(Events) /\ Len(q) \in Nat
      /\ Len(r) = Len(q) + 2 /\ r[Len(q) + 1] = d /\ r[Len(q) + 2] = e
      /\ \A n \in 1..Len(q) : r[n] = q[n]
  BY ConcatIndex DEF QueueOK
<1> HIDE DEF r
<1>2. r # <<>> /\ Head(r) = r[1]
  BY <1>1
<1>3. \A n \in 1..Len(r) : \/ n \in 1..Len(q)
                           \/ n = Len(q) + 1 /\ r[n] = d
                           \/ n = Len(q) + 2 /\ r[n] = e
  BY <1>1
<1>4. QueueOK(r)
  <2>1. \A n \in 1..Len(r) : r[n].type = "expired" => n < Len(r) /\ r[n + 1].type = "disarm"
    BY <1>1, <1>3 DEF QueueOK
  <2>2. \A n \in 1..Len(r) : r[n].type = "disarm" => n = 1 \/ r[n - 1].type = "expired"
    BY <1>1, <1>3 DEF QueueOK
  <2>3. \A m, n \in 1..Len(r) : m < n /\ r[m].type = "disarm" => r[n].type \notin {"disarm", "complete"}
    BY <1>1, <1>3 DEF QueueOK, Has
  <2>4. \A m, n \in 1..Len(r) : m < n /\ r[m].type = "error" => r[n].type # "error"
    BY <1>1, <1>3 DEF QueueOK, Has
  <2> QED BY <1>1, <2>1, <2>2, <2>3, <2>4 DEF QueueOK
<1>5. \A t : Has(r, t) <=> Has(q, t) \/ t \in {"expired", "disarm"}
  <2>1. Has(r, "expired") /\ Has(r, "disarm")
    BY <1>1 DEF Has
  <2> QED BY <1>1, <1>3, <2>1 DEF Has
<1>6. Head(r).type # "disarm"
  <2>1. CASE Len(q) = 0
    BY <1>1, <1>2, <2>1
  <2>2. CASE Len(q) # 0
    BY <1>1, <1>2, <2>2 DEF Has
  <2> QED BY <2>1, <2>2
<1>7. ErrorsBehind(q) => ErrorsBehind(r)
  <2> SUFFICES ASSUME ErrorsBehind(q), NEW n \in 1..Len(r), r[n].type = "error"
               PROVE  \E m \in 1..(n - 1) : r[m].type = "complete"
    BY DEF ErrorsBehind
  <2>1. n \in 1..Len(q)
    BY <1>3
  <2> QED BY <1>1, <2>1 DEF ErrorsBehind
<1> QED BY <1>2, <1>4, <1>5, <1>6, <1>7 DEF r

-----------------------------------------------------------------------------
(* The window.                                                             *)

WindowRecords == [open : BOOLEAN, timer : BOOLEAN, listening : BOOLEAN,
                  pairing : {"idle", "waiting", "started"}, deadline : BOOLEAN,
                  attempts : Nat]

Closed(w) ==
    ~w.open /\ ~w.timer /\ ~w.listening /\ ~w.deadline /\ w.pairing = "idle"

LEMMA CleanupEffect ==
    ASSUME NEW w \in WindowRecords
    PROVE  Cleanup(w) \in WindowRecords /\ Closed(Cleanup(w)) /\ Cleanup(w).attempts = w.attempts
BY DEF WindowRecords, Cleanup, StopAdvertisement, Closed

LEMMA AdvertiseEffect ==
    ASSUME NEW w \in WindowRecords, NEW ok \in BOOLEAN, NEW v,
           v = AdvertiseAndListenForPASE(w, ok)
    PROVE  /\ v \in WindowRecords /\ v.attempts = w.attempts
           /\ \/ Closed(v)
              \/ /\ w.timer /\ v.timer /\ v.open /\ v.listening
                 /\ v.pairing = "waiting" /\ v.deadline = w.deadline
<1>1. CASE w.timer /\ ok
  BY <1>1 DEF WindowRecords, AdvertiseAndListenForPASE
<1>2. CASE ~(w.timer /\ ok)
  BY <1>2, CleanupEffect DEF AdvertiseAndListenForPASE
<1> QED BY <1>1, <1>2

(* After a failed attempt the manager listens again, within the limit and  *)
(* the window's time, or the window is closed.                             *)
LEMMA FailedAttemptEffect ==
    ASSUME NEW w \in WindowRecords, NEW ok \in BOOLEAN, NEW v,
           v = HandleFailedAttempt(w, ok)
    PROVE  /\ v \in WindowRecords /\ v.attempts = w.attempts + 1
           /\ \/ Closed(v)
              \/ /\ w.timer /\ v.timer /\ v.open /\ v.listening
                 /\ v.pairing = "waiting" /\ v.deadline = w.deadline
                 /\ v.attempts < MaxAttempts
<1> DEFINE failed == [w EXCEPT !.attempts = @ + 1]
<1>1. failed \in WindowRecords /\ failed.attempts = w.attempts + 1
      /\ failed.timer = w.timer /\ failed.deadline = w.deadline
  BY DEF WindowRecords
<1>2. v = IF failed.attempts < MaxAttempts
          THEN AdvertiseAndListenForPASE(failed, ok) ELSE Cleanup(failed)
  BY DEF HandleFailedAttempt
<1> HIDE DEF failed
<1>3. CASE failed.attempts < MaxAttempts
  BY <1>1, <1>2, <1>3, AdvertiseEffect
<1>4. CASE ~(failed.attempts < MaxAttempts)
  BY <1>1, <1>2, <1>4, CleanupEffect
<1> QED BY <1>3, <1>4

-----------------------------------------------------------------------------
(* The fail-safe.                                                          *)

(* An expiring fail-safe, with what remains of the queue.                  *)
LEMMA ExpireEffect ==
    ASSUME TypeOK, NEW q, QueueOK(q), armed => ~Has(q, "disarm"),
           ExpireFailSafeIfArmed(q)
    PROVE  /\ ~armed' /\ armed' \in BOOLEAN /\ busy' \in BOOLEAN
           /\ busy' <=> busy \/ armed
           /\ fsIndex' = fsIndex /\ invoked' = invoked
           /\ QueueOK(events')
           /\ \A t : Has(events', t) <=> Has(q, t) \/ (armed /\ t \in {"expired", "disarm"})
           /\ ErrorsBehind(q) => ErrorsBehind(events')
           /\ events' # <<>> /\ Head(events').type = "disarm" => q # <<>> /\ Head(q).type = "disarm"
<1>1. armed \in BOOLEAN /\ busy \in BOOLEAN
  BY DEF TypeOK
<1>2. /\ ~armed' /\ armed' \in BOOLEAN /\ busy' \in BOOLEAN
      /\ busy' <=> busy \/ armed
      /\ fsIndex' = fsIndex /\ invoked' = invoked
  BY <1>1 DEF ExpireFailSafeIfArmed
<1>3. CASE armed
  <2> DEFINE d == Expired(fsIndex, "addNoc" \in invoked)
  <2>1. d \in Events /\ d.type = "expired" /\ Disarm \in Events /\ Disarm.type = "disarm"
    BY DEF Expired, Disarm, Events, TypeOK
  <2>2. events' = q \o <<d, Disarm>>
    BY <1>3 DEF ExpireFailSafeIfArmed
  <2> HIDE DEF d
  <2> QED BY <1>2, <1>3, <2>1, <2>2, ExpireQueue
<1>4. CASE ~armed
  <2>1. events' = q
    BY <1>4, ConcatEmpty DEF ExpireFailSafeIfArmed, QueueOK
  <2> QED BY <1>2, <1>4, <2>1
<1> QED BY <1>1, <1>3, <1>4

LEMMA TimerIsExpiry ==
    ASSUME TypeOK, FailSafeTimerExpired
    PROVE  armed /\ ExpireFailSafeIfArmed(events)
BY DEF TypeOK, FailSafeTimerExpired, ScheduleFailSafeCleanup, ExpireFailSafeIfArmed

-----------------------------------------------------------------------------
(* The steps.                                                              *)

LEMMA WinType ==
    ASSUME TypeOK
    PROVE  /\ win \in WindowRecords /\ win.attempts \in 0..(MaxAttempts + 1)
           /\ MaxAttempts \in Nat \ {0} /\ handshakes \in Nat
           /\ armed \in BOOLEAN /\ busy \in BOOLEAN /\ handler \in BOOLEAN
BY CommissioningAssumption DEF TypeOK, Windows, WindowRecords

LEMMA WinTypeBack ==
    ASSUME NEW w \in WindowRecords, w.attempts <= MaxAttempts + 1
    PROVE  w \in Windows
<1>1. w.attempts \in 0..(MaxAttempts + 1)
  BY CommissioningAssumption DEF WindowRecords
<1> QED BY <1>1 DEF WindowRecords, Windows

(* A step of the window alone.                                             *)
LEMMA WindowStep ==
    ASSUME IInv, UNCHANGED <<failSafeVars, sessionVars, present>>,
           win' \in WindowRecords, win'.attempts <= MaxAttempts + 1, handshakes' \in Nat,
           WindowInv', AttemptsInv'
    PROVE  IInv'
<1>1. TypeOK'
  BY WinTypeBack DEF IInv, TypeOK, failSafeVars, sessionVars
<1>2. QueueOK(events)' /\ FailSafeInv' /\ SessionInv' /\ OwnerInv'
  BY DEF IInv, FailSafeInv, SessionInv, OwnerInv, failSafeVars, sessionVars, IsNext
<1> QED BY <1>1, <1>2 DEF IInv

LEMMA OpenWindowInv ==
    ASSUME IInv, NEW ok \in BOOLEAN, OpenWindow(ok)
    PROVE  IInv'
<1> DEFINE opening == [win EXCEPT !.attempts = 0]
<1> DEFINE timed == [opening EXCEPT !.timer = TRUE]
<1>1. /\ win \in WindowRecords /\ MaxAttempts \in Nat \ {0}
      /\ armed \in BOOLEAN /\ busy \in BOOLEAN
  BY WinType DEF IInv
<1>2. opening \in WindowRecords /\ opening.attempts = 0
  BY <1>1 DEF WindowRecords
<1>3. timed \in WindowRecords /\ timed.attempts = 0
  BY <1>1 DEF WindowRecords
<1>4. /\ win' = IF IsFailSafeFullyDisarmed
                THEN AdvertiseAndListenForPASE(timed, ok) ELSE Cleanup(opening)
      /\ handshakes' = 0 /\ UNCHANGED <<failSafeVars, sessionVars, present>>
  BY DEF OpenWindow
<1> HIDE DEF opening, timed
<1>5. /\ win' \in WindowRecords /\ win'.attempts = 0
      /\ \/ Closed(win')
         \/ /\ IsFailSafeFullyDisarmed /\ win'.timer /\ win'.open /\ win'.listening
            /\ win'.pairing = "waiting"
  <2>1. CASE IsFailSafeFullyDisarmed
    BY <1>3, <1>4, <2>1, AdvertiseEffect
  <2>2. CASE ~IsFailSafeFullyDisarmed
    BY <1>2, <1>4, <2>2, CleanupEffect
  <2> QED BY <2>1, <2>2
<1>6. IsFailSafeFullyDisarmed => Free'
  BY <1>4 DEF IInv, SessionInv, Free, IsFailSafeFullyDisarmed, failSafeVars, sessionVars
<1>7. WindowInv'
  BY <1>5, <1>6 DEF WindowInv, Closed
<1>8. AttemptsInv'
  BY <1>1, <1>4, <1>5 DEF AttemptsInv
<1> QED BY <1>1, <1>4, <1>5, <1>7, <1>8, WindowStep

LEMMA WindowTimeoutInv ==
    ASSUME IInv, WindowTimeout
    PROVE  IInv'
<1>1. /\ win \in WindowRecords /\ MaxAttempts \in Nat \ {0}
      /\ win.attempts <= MaxAttempts + 1 /\ handshakes \in Nat
  BY WinType DEF IInv
<1>2. win.open /\ UNCHANGED <<failSafeVars, sessionVars, present, handshakes>>
  BY DEF IInv, WindowInv, WindowTimeout
<1>3. [win EXCEPT !.timer = FALSE] \in WindowRecords
      /\ [win EXCEPT !.timer = FALSE].open /\ [win EXCEPT !.timer = FALSE].attempts = win.attempts
  BY <1>1, <1>2 DEF WindowRecords
<1>4. win' \in WindowRecords /\ Closed(win') /\ win'.attempts = win.attempts
  BY <1>3, CleanupEffect DEF WindowTimeout, CloseCommissioningWindow
<1>5. WindowInv'
  BY <1>4 DEF WindowInv, Closed
<1>6. AttemptsInv'
  BY <1>1, <1>2, <1>4 DEF AttemptsInv, Closed, IInv, failSafeVars, sessionVars
<1> QED BY <1>1, <1>2, <1>4, <1>5, <1>6, WindowStep

LEMMA PairingStartsInv ==
    ASSUME IInv, PairingStarts
    PROVE  IInv'
<1>1. /\ win \in WindowRecords /\ MaxAttempts \in Nat \ {0}
      /\ win.attempts <= MaxAttempts + 1 /\ handshakes \in Nat
  BY WinType DEF IInv
<1>2. /\ win.pairing = "waiting" /\ handshakes' = handshakes + 1
      /\ UNCHANGED <<failSafeVars, sessionVars, present>>
  BY DEF PairingStarts
<1>3. /\ win' \in WindowRecords /\ win'.attempts = win.attempts /\ win'.timer = win.timer
      /\ win'.open = win.open /\ win'.listening = win.listening
      /\ win'.pairing = "started" /\ win'.deadline
  BY <1>1 DEF PairingStarts, WindowRecords
<1>4. win.open /\ win.timer /\ Free
  BY <1>2 DEF IInv, WindowInv
<1>5. WindowInv'
  BY <1>2, <1>3, <1>4 DEF WindowInv, Free, failSafeVars, sessionVars
<1>6. AttemptsInv'
  BY <1>1, <1>2, <1>3, <1>4 DEF AttemptsInv, IInv, WindowRecords, failSafeVars, sessionVars
<1> QED BY <1>1, <1>2, <1>3, <1>5, <1>6, WindowStep

(* A handshake fails, or its sixty seconds are over.                       *)
LEMMA HandshakeFailsInv ==
    ASSUME IInv, NEW ok \in BOOLEAN, PairingFails(ok) \/ EstablishmentTimeout(ok)
    PROVE  IInv'
<1> DEFINE w == [win EXCEPT !.deadline = FALSE]
<1>1. /\ win \in WindowRecords /\ MaxAttempts \in Nat \ {0}
      /\ win.attempts \in Nat /\ handshakes \in Nat
  BY WinType DEF IInv
<1>2. /\ win.deadline
      /\ win' = HandleFailedAttempt(w, ok)
      /\ UNCHANGED <<failSafeVars, sessionVars, present, handshakes>>
  BY DEF PairingFails, EstablishmentTimeout, OnSessionEstablishmentError, IInv, WindowInv
<1>3. win.open /\ win.timer /\ Free
  BY <1>2 DEF IInv, WindowInv
<1>4. w \in WindowRecords /\ w.attempts = win.attempts /\ w.deadline = FALSE
  BY <1>1 DEF WindowRecords
<1> HIDE DEF w
<1>5. /\ win' \in WindowRecords /\ win'.attempts = win.attempts + 1
      /\ \/ Closed(win')
         \/ /\ win'.timer /\ win'.open /\ win'.listening
            /\ win'.pairing = "waiting" /\ win'.deadline = FALSE
            /\ win'.attempts < MaxAttempts
  BY <1>2, <1>4, FailedAttemptEffect
<1>6. win.attempts < MaxAttempts /\ handshakes <= win.attempts + 1 /\ handshakes <= MaxAttempts
  BY <1>3 DEF IInv, AttemptsInv
<1>7. WindowInv'
  BY <1>2, <1>3, <1>5 DEF WindowInv, Closed, Free, failSafeVars, sessionVars
<1>8. AttemptsInv'
  BY <1>1, <1>2, <1>5, <1>6 DEF AttemptsInv, Closed
<1>9. handshakes' \in Nat /\ win'.attempts <= MaxAttempts + 1
  BY <1>1, <1>2, <1>5, <1>6
<1> QED BY <1>2, <1>5, <1>7, <1>8, <1>9, WindowStep

LEMMA PairingEvictedInv ==
    ASSUME IInv, PairingEvicted
    PROVE  IInv'
<1>1. /\ win \in WindowRecords /\ MaxAttempts \in Nat \ {0}
      /\ win.attempts \in 0..(MaxAttempts + 1) /\ handshakes \in Nat
  BY WinType DEF IInv
<1>2. /\ win.pairing # "idle" /\ ~Has(events, "error")
      /\ events' = Append(events, EstablishmentError)
      /\ UNCHANGED <<armed, busy, fsIndex, invoked, sessionVars, present, handshakes>>
  BY DEF PairingEvicted, Queued, Has
<1>3. /\ win' \in WindowRecords /\ win'.attempts = win.attempts /\ win'.timer = win.timer
      /\ win'.open = win.open /\ win'.listening = win.listening
      /\ win'.pairing = "idle" /\ win'.deadline = win.deadline
  BY <1>1 DEF PairingEvicted, WindowRecords
<1>4. win.open /\ win.timer /\ Free
  BY <1>2 DEF IInv, WindowInv
<1>5. EstablishmentError \in Events /\ EstablishmentError.type = "error"
  BY DEF EstablishmentError, Events
<1>6. /\ QueueOK(events')
      /\ \A t : Has(events', t) <=> Has(events, t) \/ t = "error"
      /\ IsNext("disarm")' => IsNext("disarm")
      /\ ErrorsBehind(events) /\ Has(events, "complete") => ErrorsBehind(events')
  BY <1>2, <1>5, AppendQueue DEF IInv, IsNext
<1>7. TypeOK'
  BY <1>1, <1>2, <1>3, WinTypeBack DEF IInv, TypeOK, sessionVars
<1>8. FailSafeInv'
  BY <1>2, <1>6 DEF FailSafeInv, IInv
<1>9. SessionInv'
  <2>1. held # 0 => Has(events, "complete")
    BY <1>4 DEF Free
  <2> QED BY <1>2, <1>6, <2>1 DEF SessionInv, IInv, sessionVars
<1>10. OwnerInv'
  BY <1>2, <1>6 DEF OwnerInv, IInv, sessionVars
<1>11. WindowInv'
  BY <1>2, <1>3, <1>4, <1>6 DEF WindowInv, Free, IInv, sessionVars
<1>12. AttemptsInv'
  BY <1>1, <1>2, <1>3, <1>4, <1>6 DEF AttemptsInv, IInv, sessionVars
<1> QED BY <1>6, <1>7, <1>8, <1>9, <1>10, <1>11, <1>12 DEF IInv

LEMMA HandleEstablishmentErrorInv ==
    ASSUME IInv, NEW ok \in BOOLEAN, HandleEstablishmentError(ok)
    PROVE  IInv'
<1> DEFINE w == [win EXCEPT !.deadline = FALSE]
<1>1. /\ win \in WindowRecords /\ MaxAttempts \in Nat \ {0}
      /\ win.attempts \in 0..(MaxAttempts + 1) /\ handshakes \in Nat
  BY WinType DEF IInv
<1>2. /\ events # <<>> /\ Head(events).type = "error" /\ events' = Tail(events)
      /\ win' = HandleFailedAttempt(w, ok)
      /\ UNCHANGED <<armed, busy, fsIndex, invoked, sessionVars, present, handshakes>>
  BY DEF HandleEstablishmentError, HandOut, IsNext, OnSessionEstablishmentError
<1>3. w \in WindowRecords /\ w.attempts = win.attempts /\ w.deadline = FALSE /\ w.timer = win.timer
  BY <1>1 DEF WindowRecords
<1> HIDE DEF w
<1>4. /\ win' \in WindowRecords /\ win'.attempts = win.attempts + 1
      /\ \/ Closed(win')
         \/ /\ win.timer /\ win'.timer /\ win'.open /\ win'.listening
            /\ win'.pairing = "waiting" /\ win'.deadline = FALSE
            /\ win'.attempts < MaxAttempts
  BY <1>2, <1>3, FailedAttemptEffect
<1>5. /\ QueueOK(events')
      /\ \A t : Has(events', t) => Has(events, t)
      /\ \A t : Has(events, t) => t = "error" \/ Has(events', t)
      /\ ~Has(events', "error") /\ Has(events, "error")
      /\ ~IsNext("disarm")' /\ ~ErrorsBehind(events)
  BY <1>2, TailQueue DEF IInv, IsNext
<1>6. held = 0
  BY <1>5 DEF IInv, SessionInv
<1>7. win.attempts <= MaxAttempts /\ (win.timer => handshakes <= win.attempts + 1)
      /\ handshakes <= MaxAttempts
  BY <1>5 DEF IInv, AttemptsInv
<1>8. TypeOK'
  BY <1>1, <1>2, <1>4, <1>7, WinTypeBack DEF IInv, TypeOK, sessionVars
<1>9. FailSafeInv'
  BY <1>2, <1>5 DEF FailSafeInv, IInv
<1>10. SessionInv' /\ OwnerInv'
  BY <1>2, <1>5, <1>6 DEF SessionInv, OwnerInv, IInv, sessionVars
<1>11. WindowInv'
  <2>1. win.timer => Free
    BY <1>5 DEF IInv, WindowInv
  <2> QED BY <1>2, <1>4, <1>5, <1>6, <2>1 DEF WindowInv, Free, Closed, sessionVars
<1>12. AttemptsInv'
  BY <1>1, <1>2, <1>4, <1>5, <1>6, <1>7 DEF AttemptsInv, Closed, sessionVars
<1> QED BY <1>5, <1>8, <1>9, <1>10, <1>11, <1>12 DEF IInv

(* The claim of OnSessionEstablished, and that there is no other session.  *)
LEMMA HandshakeIsFree ==
    ASSUME IInv, win.pairing = "started", events = <<>>
    PROVE  ~armed /\ ~busy /\ held = 0 /\ sessions = {}
<1>1. Len(events) = 0
  OBVIOUS
<1>2. \A t : ~Has(events, t)
  BY <1>1 DEF Has
<1>3. Free
  BY DEF IInv, WindowInv
<1> QED BY <1>2, <1>3 DEF Free, IInv, FailSafeInv, SessionInv

LEMMA OnSessionEstablishedInv ==
    ASSUME IInv, NEW ok \in BOOLEAN, OnSessionEstablished(ok)
    PROVE  IInv'
<1>1. /\ win \in WindowRecords /\ MaxAttempts \in Nat \ {0}
      /\ win.attempts \in 0..(MaxAttempts + 1) /\ handshakes \in Nat
  BY WinType DEF IInv
<1>2. ~armed /\ ~busy /\ held = 0 /\ sessions = {}
  BY HandshakeIsFree DEF OnSessionEstablished
<1>3. PICK s \in PaseIds : sessions' = {s} /\ held' = s
  BY <1>2 DEF OnSessionEstablished
<1>4. /\ events = <<>> /\ win.pairing = "started"
      /\ armed' = TRUE /\ fsIndex' = 0 /\ UNCHANGED <<busy, invoked, events>>
      /\ win' = StopAdvertisement([win EXCEPT !.deadline = FALSE])
      /\ paseFabric' = 0 /\ handler' = TRUE
      /\ UNCHANGED <<present, handshakes>>
  BY <1>2 DEF OnSessionEstablished, Arm
<1>5. /\ win' \in WindowRecords /\ win'.attempts = win.attempts /\ win'.timer = win.timer
      /\ win'.open = win.open /\ ~win'.listening
      /\ win'.pairing = "idle" /\ ~win'.deadline
  BY <1>1, <1>4 DEF StopAdvertisement, WindowRecords
<1>6. s # 0
  BY DEF PaseIds
<1>7. Len(events') = 0 /\ QueueOK(events')
  BY <1>4 DEF IInv
<1>8. \A t : ~Has(events', t)
  BY <1>7 DEF Has
<1>9. win.open /\ win.timer
  BY <1>4 DEF IInv, WindowInv
<1>10. TypeOK'
  BY <1>1, <1>3, <1>4, <1>5, WinTypeBack DEF IInv, TypeOK
<1>11. FailSafeInv'
  BY <1>2, <1>4, <1>8 DEF FailSafeInv
<1>12. SessionInv'
  BY <1>3, <1>4, <1>6, <1>7 DEF SessionInv, ErrorsBehind, IsNext
<1>13. OwnerInv'
  BY <1>4 DEF OwnerInv
<1>14. WindowInv'
  BY <1>5, <1>8, <1>9 DEF WindowInv
<1>15. AttemptsInv'
  BY <1>1, <1>4, <1>5, <1>8, <1>9 DEF AttemptsInv, IInv
<1> QED BY <1>7, <1>10, <1>11, <1>12, <1>13, <1>14, <1>15 DEF IInv

(* The held session goes: the manager is left without a session and the    *)
(* fail-safe is on its way to be disarmed.                                 *)
LEMMA PaseReleasedInv ==
    ASSUME IInv, PaseReleased
    PROVE  IInv'
<1>1. held # 0 /\ sessions = {held}
  BY DEF PaseReleased, IInv, SessionInv
<1>2. /\ sessions' = {} /\ held' = 0 /\ paseFabric' = 0 /\ handler' = FALSE
      /\ ExpireFailSafeIfArmed(events) /\ UNCHANGED <<windowVars, present>>
  BY <1>1 DEF PaseReleased, Evict
<1>3. armed => ~Has(events, "disarm")
  BY DEF IInv, FailSafeInv
<1>4. /\ ~armed' /\ armed' \in BOOLEAN /\ busy' \in BOOLEAN
      /\ busy' <=> busy \/ armed
      /\ fsIndex' = fsIndex /\ invoked' = invoked /\ QueueOK(events')
      /\ \A t : Has(events', t) <=> Has(events, t) \/ (armed /\ t \in {"expired", "disarm"})
  BY <1>2, <1>3, ExpireEffect DEF IInv
<1>5. TypeOK'
  BY <1>2, <1>4 DEF IInv, TypeOK, windowVars
<1>6. FailSafeInv'
  BY <1>4 DEF FailSafeInv, IInv
<1>7. SessionInv' /\ OwnerInv'
  BY <1>2 DEF SessionInv, OwnerInv
<1>8. WindowInv'
  BY <1>2, <1>4 DEF WindowInv, Free, IInv, windowVars
<1>9. AttemptsInv'
  BY <1>2, <1>4 DEF AttemptsInv, IInv, windowVars
<1> QED BY <1>4, <1>5, <1>6, <1>7, <1>8, <1>9 DEF IInv

(* The fail-safe expires, by a timer or by command.                        *)
LEMMA ExpiryInv ==
    ASSUME IInv, ExpireFailSafeIfArmed(events),
           UNCHANGED <<windowVars, sessionVars, present>>
    PROVE  IInv'
<1>1. armed => ~Has(events, "disarm")
  BY DEF IInv, FailSafeInv
<1>2. /\ ~armed' /\ armed' \in BOOLEAN /\ busy' \in BOOLEAN
      /\ busy' <=> busy \/ armed
      /\ fsIndex' = fsIndex /\ invoked' = invoked /\ QueueOK(events')
      /\ \A t : Has(events', t) <=> Has(events, t) \/ (armed /\ t \in {"expired", "disarm"})
      /\ ErrorsBehind(events) => ErrorsBehind(events')
      /\ IsNext("disarm")' => IsNext("disarm")
  BY <1>1, ExpireEffect DEF IInv, IsNext
<1>3. TypeOK'
  BY <1>2 DEF IInv, TypeOK, windowVars, sessionVars
<1>4. FailSafeInv'
  BY <1>2 DEF FailSafeInv, IInv
<1>5. SessionInv'
  BY <1>2 DEF SessionInv, IInv, sessionVars
<1>6. OwnerInv'
  BY <1>2 DEF OwnerInv
<1>7. WindowInv'
  BY <1>2 DEF WindowInv, Free, IInv, windowVars, sessionVars
<1>8. AttemptsInv'
  BY <1>2 DEF AttemptsInv, IInv, windowVars, sessionVars
<1> QED BY <1>2, <1>3, <1>4, <1>5, <1>6, <1>7, <1>8 DEF IInv

LEMMA HandleArmFailSafeInv ==
    ASSUME IInv, NEW fabric \in Fabrics \cup {0}, NEW case \in BOOLEAN,
           HandleArmFailSafe(fabric, case)
    PROVE  IInv'
<1>1. CASE FailSafeTimerExpired
  BY <1>1, TimerIsExpiry, ExpiryInv DEF HandleArmFailSafe, IInv
<1>2. CASE Arm(fabric)
  <2>1. /\ ~busy /\ armed' = TRUE /\ fsIndex' = fabric
        /\ UNCHANGED <<busy, invoked, events, windowVars, sessionVars, present>>
        /\ armed => fsIndex = fabric
        /\ case \/ (held # 0 /\ fabric = paseFabric)
        /\ armed \/ ~win.open \/ ~case
    BY <1>2 DEF HandleArmFailSafe, Arm, MayArm
  <2>2. TypeOK'
    BY <2>1 DEF IInv, TypeOK, windowVars, sessionVars
  <2>3. FailSafeInv' /\ QueueOK(events)'
    BY <2>1 DEF FailSafeInv, IInv
  <2>4. SessionInv'
    BY <2>1 DEF SessionInv, IInv, IsNext, sessionVars
  <2>5. OwnerInv'
    <3>1. ASSUME held # 0, ~Has(events, "complete") PROVE armed
      BY <2>1, <3>1 DEF IInv, SessionInv
    <3> QED BY <2>1, <3>1 DEF OwnerInv, IInv, sessionVars
  <2>6. WindowInv'
    BY <2>1 DEF WindowInv, Free, IInv, windowVars, sessionVars, SessionInv
  <2>7. AttemptsInv'
    BY <2>1 DEF AttemptsInv, IInv, windowVars, sessionVars
  <2> QED BY <2>2, <2>3, <2>4, <2>5, <2>6, <2>7 DEF IInv
<1> QED BY <1>1, <1>2 DEF HandleArmFailSafe

LEMMA AddNOCInv ==
    ASSUME IInv, NEW fabric \in Fabrics, NEW case \in BOOLEAN, AddNOC(fabric, case)
    PROVE  IInv'
<1>1. /\ armed /\ "addNoc" \notin invoked
      /\ IF case THEN fsIndex \in present ELSE held # 0 /\ fsIndex = paseFabric
      /\ present' = present \cup {fabric} /\ fsIndex' = fabric
      /\ invoked' = invoked \cup {"addNoc"}
      /\ paseFabric' = IF case THEN paseFabric ELSE fabric
      /\ UNCHANGED <<armed, busy, events, windowVars, sessions, held, handler>>
  BY DEF AddNOC, NocCommandHasBeenInvoked, NocCommands
<1>2. TypeOK'
  BY <1>1 DEF IInv, TypeOK, windowVars, ContextFlags, NocCommands
<1>3. FailSafeInv' /\ QueueOK(events)' /\ SessionInv'
  BY <1>1 DEF FailSafeInv, SessionInv, IInv, IsNext
<1>4. OwnerInv'
  <2>1. CASE case
    <3>1. fsIndex # 0
      BY <1>1, <2>1, CommissioningAssumption DEF IInv, TypeOK
    <3>2. held # 0 => Has(events, "complete")
      BY <1>1, <3>1 DEF IInv, OwnerInv
    <3> QED BY <1>1, <3>2 DEF OwnerInv
  <2>2. CASE ~case
    BY <1>1, <2>2 DEF OwnerInv
  <2> QED BY <2>1, <2>2
<1>5. WindowInv' /\ AttemptsInv'
  BY <1>1 DEF WindowInv, AttemptsInv, Free, IInv, windowVars
<1> QED BY <1>2, <1>3, <1>4, <1>5 DEF IInv

LEMMA CommissioningCompleteInv ==
    ASSUME IInv, CommissioningComplete
    PROVE  IInv'
<1>1. /\ armed /\ armed' = FALSE /\ busy' = FALSE /\ invoked' = {} /\ fsIndex' = fsIndex
      /\ events' = Append(events, Complete)
      /\ UNCHANGED <<windowVars, sessionVars, present>>
  BY DEF CommissioningComplete, ResetState
<1>2. ~busy /\ ~Has(events, "disarm")
  BY <1>1 DEF IInv, FailSafeInv
<1>3. Complete \in Events /\ Complete.type = "complete"
  BY DEF Complete, Events
<1>4. /\ QueueOK(events')
      /\ \A t : Has(events', t) <=> Has(events, t) \/ t = "complete"
      /\ IsNext("disarm")' => IsNext("disarm")
      /\ ErrorsBehind(events) => ErrorsBehind(events')
  BY <1>1, <1>2, <1>3, AppendQueue DEF IInv, IsNext
<1>5. TypeOK'
  BY <1>1 DEF IInv, TypeOK, windowVars, sessionVars
<1>6. FailSafeInv' /\ OwnerInv'
  BY <1>1, <1>2, <1>4 DEF FailSafeInv, OwnerInv
<1>7. SessionInv'
  BY <1>1, <1>4 DEF SessionInv, IInv, sessionVars
<1>8. WindowInv'
  BY <1>1, <1>4 DEF WindowInv, Free, IInv, windowVars, sessionVars
<1>9. AttemptsInv'
  BY <1>1, <1>4 DEF AttemptsInv, IInv, windowVars, sessionVars
<1> QED BY <1>4, <1>5, <1>6, <1>7, <1>8, <1>9 DEF IInv

LEMMA RevokeCommissioningInv ==
    ASSUME IInv, RevokeCommissioning
    PROVE  IInv'
<1>1. /\ win \in WindowRecords /\ MaxAttempts \in Nat \ {0}
      /\ win.attempts \in 0..(MaxAttempts + 1) /\ handshakes \in Nat
  BY WinType DEF IInv
<1>2. /\ win' = CloseCommissioningWindow(win)
      /\ UNCHANGED <<sessionVars, present, handshakes>>
      /\ IF held # 0 THEN ExpireFailSafeIfArmed(events) ELSE UNCHANGED failSafeVars
  BY DEF RevokeCommissioning
<1>3. Closed(win') /\ win' \in WindowRecords /\ win'.attempts = win.attempts
  <2>1. CASE win.open
    BY <1>1, <1>2, <2>1, CleanupEffect DEF CloseCommissioningWindow
  <2>2. CASE ~win.open
    BY <1>1, <1>2, <2>2 DEF CloseCommissioningWindow, Closed, IInv, WindowInv, WindowRecords
  <2> QED BY <2>1, <2>2
<1>4. armed => ~Has(events, "disarm")
  BY DEF IInv, FailSafeInv
<1>5. /\ armed' \in BOOLEAN /\ busy' \in BOOLEAN
      /\ fsIndex' = fsIndex /\ invoked' = invoked /\ QueueOK(events')
      /\ busy' <=> Has(events', "disarm")
      /\ ~(armed' /\ busy')
      /\ Has(events, "complete") => Has(events', "complete")
      /\ Has(events', "error") => Has(events, "error")
      /\ ErrorsBehind(events) => ErrorsBehind(events')
      /\ IsNext("disarm")' => IsNext("disarm")
      /\ armed \/ busy => armed' \/ busy'
      /\ held # 0 => ~armed'
  <2>1. CASE held # 0
    BY <1>2, <1>4, <2>1, ExpireEffect DEF IInv, IsNext, FailSafeInv
  <2>2. CASE held = 0
    BY <1>2, <2>2, WinType DEF IInv, IsNext, FailSafeInv, failSafeVars
  <2> QED BY <2>1, <2>2
<1>6. TypeOK'
  BY <1>1, <1>2, <1>3, <1>5, WinTypeBack DEF IInv, TypeOK, sessionVars
<1>7. FailSafeInv' /\ OwnerInv'
  BY <1>2, <1>5 DEF FailSafeInv, OwnerInv, sessionVars
<1>8. SessionInv'
  BY <1>2, <1>5 DEF SessionInv, IInv, sessionVars
<1>9. WindowInv'
  BY <1>3 DEF WindowInv, Closed
<1>10. AttemptsInv'
  BY <1>1, <1>2, <1>3, <1>5 DEF AttemptsInv, Closed, IInv, sessionVars
<1> QED BY <1>5, <1>6, <1>7, <1>8, <1>9, <1>10 DEF IInv

(* An event is handed out while the manager holds no session.              *)
LEMMA UnheardInv ==
    ASSUME IInv, held = 0, NEW type \in {"complete", "expired"}, IsNext(type),
           events' = Tail(events), present' \subseteq present,
           UNCHANGED <<windowVars, sessionVars, armed, busy, fsIndex, invoked>>
    PROVE  IInv'
<1>1. /\ QueueOK(events')
      /\ \A t : Has(events', t) => Has(events, t)
      /\ \A t : Has(events, t) => t = type \/ Has(events', t)
  BY TailQueue DEF IInv, IsNext
<1>2. TypeOK'
  BY DEF IInv, TypeOK, windowVars, sessionVars
<1>3. FailSafeInv' /\ OwnerInv'
  BY <1>1 DEF FailSafeInv, OwnerInv, IInv, sessionVars
<1>4. SessionInv'
  BY <1>1 DEF SessionInv, IInv, sessionVars
<1>5. WindowInv' /\ AttemptsInv'
  BY <1>1 DEF WindowInv, AttemptsInv, Free, IInv, sessionVars, windowVars
<1> QED BY <1>1, <1>2, <1>3, <1>4, <1>5 DEF IInv

LEMMA HandleCompleteInv ==
    ASSUME IInv, HandleComplete
    PROVE  IInv'
<1>1. CASE held = 0
  <2>1. ~handler
    BY <1>1 DEF IInv, SessionInv
  <2> QED BY <1>1, <2>1, UnheardInv DEF HandleComplete, windowVars
<1>2. CASE held # 0
  <2>1. handler /\ sessions = {held}
    BY <1>2 DEF IInv, SessionInv
  <2>2. /\ sessions' = {} /\ held' = 0 /\ paseFabric' = 0 /\ handler' = FALSE
        /\ ExpireFailSafeIfArmed(Tail(events)) /\ win' = Cleanup(win)
        /\ UNCHANGED <<present, handshakes>>
        /\ events # <<>> /\ Head(events).type = "complete"
    BY <2>1 DEF HandleComplete, Evict, IsNext
  <2>3. /\ QueueOK(Tail(events))
        /\ \A t : Has(Tail(events), t) => Has(events, t)
        /\ \A t : Has(events, t) => t = "complete" \/ Has(Tail(events), t)
    BY <2>2, TailQueue DEF IInv
  <2>4. armed => ~Has(Tail(events), "disarm")
    BY <2>3 DEF IInv, FailSafeInv
  <2>5. /\ ~armed' /\ armed' \in BOOLEAN /\ busy' \in BOOLEAN
        /\ busy' <=> busy \/ armed
        /\ fsIndex' = fsIndex /\ invoked' = invoked /\ QueueOK(events')
        /\ \A t : Has(events', t) <=> Has(Tail(events), t) \/ (armed /\ t \in {"expired", "disarm"})
    BY <2>2, <2>3, <2>4, ExpireEffect DEF IInv
  <2>6. /\ win \in WindowRecords /\ MaxAttempts \in Nat \ {0}
        /\ win.attempts \in 0..(MaxAttempts + 1)
    BY WinType DEF IInv
  <2>7. win' \in WindowRecords /\ Closed(win') /\ win'.attempts = win.attempts
    BY <2>2, <2>6, CleanupEffect
  <2>8. TypeOK'
    <3>1. win' \in Windows
      BY <2>6, <2>7, WinTypeBack
    <3> QED BY <2>2, <2>5, <3>1 DEF IInv, TypeOK
  <2>9. FailSafeInv'
    BY <2>3, <2>5 DEF FailSafeInv, IInv
  <2>10. SessionInv' /\ OwnerInv'
    BY <2>2 DEF SessionInv, OwnerInv
  <2>11. WindowInv'
    BY <2>7 DEF WindowInv, Closed
  <2>12. AttemptsInv'
    BY <1>2, <2>2, <2>7 DEF AttemptsInv, Closed, IInv
  <2> QED BY <2>5, <2>8, <2>9, <2>10, <2>11, <2>12 DEF IInv
<1> QED BY <1>1, <1>2

LEMMA HandleExpiredInv ==
    ASSUME IInv, NEW ok \in BOOLEAN, HandleExpired(ok)
    PROVE  IInv'
<1>0. present' \subseteq present
  BY DEF HandleExpired
<1>1. CASE held = 0
  <2>1. ~handler
    BY <1>1 DEF IInv, SessionInv
  <2> QED BY <1>0, <1>1, <2>1, UnheardInv DEF HandleExpired, windowVars
<1>2. CASE held # 0
  <2>1. handler /\ sessions = {held} /\ ErrorsBehind(events)
    BY <1>2 DEF IInv, SessionInv
  <2>2. /\ sessions' = {} /\ held' = 0 /\ paseFabric' = 0 /\ handler' = FALSE
        /\ ExpireFailSafeIfArmed(Tail(events)) /\ win' = HandleFailedAttempt(win, ok)
        /\ handshakes' = handshakes
        /\ events # <<>> /\ Head(events).type = "expired"
    BY <2>1 DEF HandleExpired, Evict, IsNext
  <2>3. /\ QueueOK(Tail(events)) /\ Has(events, "disarm") /\ ~Has(Tail(events), "error")
        /\ \A t : Has(Tail(events), t) => Has(events, t)
        /\ \A t : Has(events, t) => t = "expired" \/ Has(Tail(events), t)
    BY <2>1, <2>2, TailQueue DEF IInv
  <2>4. ~armed /\ busy
    BY <2>3 DEF IInv, FailSafeInv
  <2>5. /\ ~armed' /\ armed' \in BOOLEAN /\ busy' \in BOOLEAN
        /\ busy' <=> busy \/ armed
        /\ fsIndex' = fsIndex /\ invoked' = invoked /\ QueueOK(events')
        /\ \A t : Has(events', t) <=> Has(Tail(events), t) \/ (armed /\ t \in {"expired", "disarm"})
    BY <2>2, <2>3, <2>4, ExpireEffect DEF IInv
  <2>6. /\ win \in WindowRecords /\ MaxAttempts \in Nat \ {0}
        /\ win.attempts \in 0..(MaxAttempts + 1) /\ handshakes \in Nat
    BY WinType DEF IInv
  <2>7. /\ win' \in WindowRecords /\ win'.attempts = win.attempts + 1
        /\ \/ Closed(win')
           \/ /\ win.timer /\ win'.timer /\ win'.open /\ win'.listening
              /\ win'.pairing = "waiting" /\ win'.deadline = win.deadline
              /\ win'.attempts < MaxAttempts
    BY <2>2, <2>6, FailedAttemptEffect
  <2>8. win.attempts <= MaxAttempts /\ handshakes <= MaxAttempts
        /\ (win.timer => handshakes <= win.attempts + 1)
    BY <1>2 DEF IInv, AttemptsInv
  <2>9. TypeOK'
    <3>1. win' \in Windows
      BY <2>6, <2>7, <2>8, WinTypeBack
    <3> QED BY <1>0, <2>2, <2>5, <2>6, <3>1 DEF IInv, TypeOK
  <2>10. FailSafeInv'
    BY <2>3, <2>4, <2>5 DEF FailSafeInv
  <2>11. SessionInv' /\ OwnerInv'
    BY <2>2 DEF SessionInv, OwnerInv
  <2>12. WindowInv'
    BY <2>2, <2>5, <2>7 DEF WindowInv, Closed, Free
  <2>13. AttemptsInv'
    BY <2>2, <2>3, <2>4, <2>5, <2>6, <2>7, <2>8 DEF AttemptsInv, Closed
  <2> QED BY <2>5, <2>9, <2>10, <2>11, <2>12, <2>13 DEF IInv
<1> QED BY <1>1, <1>2

LEMMA HandleDisarmInv ==
    ASSUME IInv, HandleDisarm
    PROVE  IInv'
<1>1. /\ events # <<>> /\ Head(events).type = "disarm" /\ events' = Tail(events)
      /\ armed' = FALSE /\ busy' = FALSE /\ invoked' = {} /\ fsIndex' = fsIndex
      /\ UNCHANGED <<windowVars, sessionVars, present>>
  BY DEF HandleDisarm, HandleDisarmFailSafe, HandOut, IsNext, ResetState
<1>2. held = 0
  BY <1>1 DEF IInv, SessionInv, IsNext
<1>3. /\ QueueOK(events') /\ ~Has(events', "disarm")
      /\ \A t : Has(events', t) => Has(events, t)
  BY <1>1, TailQueue DEF IInv
<1>4. TypeOK'
  BY <1>1 DEF IInv, TypeOK, windowVars, sessionVars
<1>5. FailSafeInv' /\ OwnerInv'
  BY <1>1, <1>3 DEF FailSafeInv, OwnerInv
<1>6. SessionInv'
  BY <1>1, <1>2 DEF SessionInv, IInv, sessionVars
<1>7. WindowInv' /\ AttemptsInv'
  BY <1>1, <1>2, <1>3 DEF WindowInv, AttemptsInv, Free, IInv, sessionVars, windowVars
<1> QED BY <1>3, <1>4, <1>5, <1>6, <1>7 DEF IInv

-----------------------------------------------------------------------------
LEMMA CommissioningInit == Init => IInv
<1> SUFFICES ASSUME Init PROVE IInv
  OBVIOUS
<1>1. Len(events) = 0 /\ QueueOK(events)
  BY DEF Init, FailSafeInit, QueueOK
<1>2. \A t : ~Has(events, t)
  BY <1>1 DEF Has
<1>3. TypeOK
  <2>1. win \in Windows
    BY CommissioningAssumption DEF Init, Windows
  <2> QED BY <2>1 DEF Init, FailSafeInit, TypeOK
<1>4. FailSafeInv /\ SessionInv /\ OwnerInv
  BY <1>2 DEF Init, FailSafeInit, FailSafeInv, SessionInv, OwnerInv, IsNext
<1>5. WindowInv /\ AttemptsInv
  BY <1>2, CommissioningAssumption DEF Init, WindowInv, AttemptsInv
<1> QED BY <1>1, <1>3, <1>4, <1>5 DEF IInv

LEMMA CommissioningNext == IInv /\ [Next]_vars => IInv'
<1> SUFFICES ASSUME IInv, [Next]_vars PROVE IInv'
  OBVIOUS
<1>1. CASE WindowTimeout
  BY <1>1, WindowTimeoutInv
<1>2. CASE PairingStarts
  BY <1>2, PairingStartsInv
<1>3. CASE PairingEvicted
  BY <1>3, PairingEvictedInv
<1>4. CASE PaseReleased
  BY <1>4, PaseReleasedInv
<1>5. CASE FailSafeTimeout
  BY <1>5, TimerIsExpiry, ExpiryInv DEF FailSafeTimeout, IInv
<1>6. CASE CommissioningComplete
  BY <1>6, CommissioningCompleteInv
<1>7. CASE RevokeCommissioning
  BY <1>7, RevokeCommissioningInv
<1>8. CASE HandleComplete
  BY <1>8, HandleCompleteInv
<1>9. CASE HandleDisarm
  BY <1>9, HandleDisarmInv
<1>10. ASSUME NEW ok \in BOOLEAN, OpenWindow(ok) \/ OpenCommissioningWindow(ok)
       PROVE  IInv'
  BY <1>10, OpenWindowInv DEF OpenCommissioningWindow
<1>11. ASSUME NEW ok \in BOOLEAN, PairingFails(ok) \/ EstablishmentTimeout(ok)
       PROVE  IInv'
  BY <1>11, HandshakeFailsInv
<1>12. ASSUME NEW ok \in BOOLEAN, HandleEstablishmentError(ok)
       PROVE  IInv'
  BY <1>12, HandleEstablishmentErrorInv
<1>13. ASSUME NEW ok \in BOOLEAN, OnSessionEstablished(ok)
       PROVE  IInv'
  BY <1>13, OnSessionEstablishedInv
<1>14. ASSUME NEW ok \in BOOLEAN, HandleExpired(ok)
       PROVE  IInv'
  BY <1>14, HandleExpiredInv
<1>15. ASSUME NEW fabric \in Fabrics \cup {0}, NEW case \in BOOLEAN,
              HandleArmFailSafe(fabric, case)
       PROVE  IInv'
  BY <1>15, HandleArmFailSafeInv
<1>16. ASSUME NEW fabric \in Fabrics, NEW case \in BOOLEAN, AddNOC(fabric, case)
       PROVE  IInv'
  BY <1>16, AddNOCInv
<1>17. CASE UNCHANGED vars
  BY <1>17 DEF vars, failSafeVars, windowVars, sessionVars, IInv, TypeOK, FailSafeInv,
               SessionInv, OwnerInv, WindowInv, AttemptsInv, Free, IsNext
<1> QED
  BY <1>1, <1>2, <1>3, <1>4, <1>5, <1>6, <1>7, <1>8, <1>9, <1>10, <1>11, <1>12,
     <1>13, <1>14, <1>15, <1>16, <1>17 DEF Next

LEMMA CommissioningInvariant == Spec => []IInv
BY CommissioningInit, CommissioningNext, PTL DEF Spec

-----------------------------------------------------------------------------
(* The manager's state stays in range: mFailedCommissioningAttempts, an    *)
(* eight-bit counter that goes on counting after the window is closed,     *)
(* never exceeds the limit by more than one.                               *)
THEOREM CommissioningTypeOK == Spec => []TypeOK
<1>1. IInv => TypeOK
  BY DEF IInv
<1> QED BY <1>1, CommissioningInvariant, PTL

(* Listening and handshakes of CommissioningWindowManager always have a    *)
(* running window timer, also when an attempt fails after its window       *)
(* closed.                                                                 *)
THEOREM WindowAlwaysEnds == Spec => []WindowHasDeadline
<1>1. IInv => WindowHasDeadline
  BY DEF IInv, WindowInv, WindowHasDeadline
<1> QED BY <1>1, CommissioningInvariant, PTL

(* A window allows no more handshakes than kMaxFailedCommissioningAttempts *)
(* however many of them are evicted, time out or succeed and then expire.  *)
THEOREM HandshakeLimit == Spec => []HandshakesAreBounded
<1>1. IInv => HandshakesAreBounded
  BY DEF IInv, AttemptsInv, HandshakesAreBounded
<1> QED BY <1>1, CommissioningInvariant, PTL

(* No PASE session hangs around without a fail-safe or a queued event that *)
(* ends it.                                                                *)
THEOREM PaseIsCovered == Spec => []PaseHasFailSafe
<1>1. IInv => PaseHasFailSafe
  BY DEF IInv, SessionInv, PaseHasFailSafe, Queued, Has
<1> QED BY <1>1, CommissioningInvariant, PTL

(* A handshake that succeeds finds the fail-safe neither armed nor busy,   *)
(* which OnSessionEstablished relies on and only logs otherwise.           *)
THEOREM FailSafeIsFree == Spec => []HandshakeFindsFailSafeFree
<1>1. IInv => HandshakeFindsFailSafeFree
  BY HandshakeIsFree DEF HandshakeFindsFailSafeFree
<1> QED BY <1>1, CommissioningInvariant, PTL

(* When OnSessionReleased expires the fail-safe, it is the PASE session's, *)
(* unless commissioning is complete and the event is still queued.         *)
THEOREM FailSafeOwner == Spec => []FailSafeIsPases
<1>1. IInv => FailSafeIsPases
  BY DEF IInv, OwnerInv, FailSafeIsPases, Queued, Has
<1> QED BY <1>1, CommissioningInvariant, PTL
=============================================================================
