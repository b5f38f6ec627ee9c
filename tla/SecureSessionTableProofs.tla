---------------------- MODULE SecureSessionTableProofs ----------------------
(***************************************************************************)
(* Proofs about the table of secure sessions, for any number of peers,     *)
(* initiators and holders, and any number of entries that exceeds by more  *)
(* than two that of the exchanges that may keep an expired session.        *)
(*                                                                         *)
(* A handler takes a record of the state to such a record, so the proof has*)
(* one lemma for each operator the handlers are composed of: it keeps what *)
(* the invariant says of a record (IsFrame, Sound, ServerOK), and moves    *)
(* holders only to sessions of the same peer (Moves).                      *)
(***************************************************************************)
EXTENDS SecureSessionTable, TLAPS, FiniteSetTheorems, WellFoundedInduction

Fields == {"table", "earlier", "holder", "pairing", "pinned", "scheduled", "died"}
SessionFields == {"type", "peer", "cats", "state"}
PairingFields == {"slot", "state", "peer"}

IsSession(r) ==
    /\ r = [k \in SessionFields |-> r[k]]
    /\ r.state \in {"free", "establishing", "active", "defunct", "pending"}
    /\ r.state = "free" => r = Free

IsPairing(r) ==
    /\ r = [k \in PairingFields |-> r[k]]
    /\ r.slot \in Slots \cup {None}
    /\ r.state \in {"off", "idle", "listening", "handshake"}
    /\ r.slot # None <=> r.state \in {"listening", "handshake"}

IsFrame(f) ==
    /\ f = [k \in Fields |-> f[k]]
    /\ f.table = [s \in Slots |-> f.table[s]]
    /\ \A s \in Slots : IsSession(f.table[s])
    /\ f.earlier = [s \in Slots |-> f.earlier[s]]
    /\ \A s \in Slots : f.earlier[s] \subseteq Slots
    /\ f.holder = [h \in Holders |-> f.holder[h]]
    /\ \A h \in Holders : f.holder[h] \in Slots \cup {None}
    /\ f.pairing = [p \in Pairings |-> f.pairing[p]]
    /\ \A p \in Pairings : IsPairing(f.pairing[p])
    /\ f.pinned \in Slots \cup {None}
    /\ f.scheduled \in BOOLEAN

(* An exchange that took its expired session back is alone with it.        *)
KeptAlone(f, h) ==
    /\ h \in Keepers /\ f.table[f.holder[h]].state = "pending"
    /\ \A g \in Holders \ {h} : f.holder[g] # f.holder[h]

(* Holders and pairing sessions hold what they may hold, and no two pairing*)
(* sessions the same session.                                              *)
HoldersOK(f) ==
    \A h \in Holders :
        f.holder[h] # None =>
            f.table[f.holder[h]].state \in {"active", "defunct"} \/ KeptAlone(f, h)

PairingsOK(f) ==
    /\ \A p \in Pairings :
         f.pairing[p].slot # None => f.table[f.pairing[p].slot].state = "establishing"
    /\ \A p, q \in Pairings :
         f.pairing[p].slot # None /\ f.pairing[p].slot = f.pairing[q].slot => p = q

Owned(f, s) == \E p \in Pairings : f.pairing[p].slot = s

(* A session that is being established has somebody to establish it.       *)
EstablishingOK(f) ==
    \A s \in Slots : f.table[s].state = "establishing" => Owned(f, s)

KeptSlots(f) == {f.holder[h] : h \in Keepers}

PendingOK(f, handles) ==
    \A s \in Slots :
        f.table[s].state = "pending" => s \in handles \cup {f.pinned} \cup KeptSlots(f)

(* The pin is the session the CASEServer waits with; once that session has *)
(* been evicted, the pin alone keeps what is left of it until the restart. *)
ServerOK(f) ==
    LET server == f.pairing["server"] IN
    /\ \A h \in Holders : f.holder[h] # None => f.holder[h] # f.pinned
    /\ server.state = "off" => f.pinned = None /\ ~f.scheduled
    /\ server.state \in {"listening", "handshake"} => f.pinned = server.slot
    /\ server.state = "idle" => /\ f.scheduled /\ f.pinned # None
                                /\ f.table[f.pinned].state = "pending"

Sound(f, handles) ==
    /\ IsFrame(f) /\ HoldersOK(f) /\ PairingsOK(f) /\ EstablishingOK(f)
    /\ PendingOK(f, handles)

Good(f) == Sound(f, {}) /\ ServerOK(f) /\ ~f.died

IInv == Good(Now)

(* A holder that holds a session after a step held one before, of the same *)
(* type and under the same CATs, and if it is a CASE session, of the same  *)
(* peer.                                                                   *)
SameOwner(r, q) ==
    /\ r.cats = q.cats /\ r.type = q.type
    /\ r.type = "CASE" => r.peer = q.peer

Moves(f, g) ==
    \A h \in Holders :
        g.holder[h] # None =>
            f.holder[h] # None /\ SameOwner(f.table[f.holder[h]], g.table[g.holder[h]])

LEMMA SameHolders ==
    ASSUME NEW f, HoldersOK(f), NEW g, g.holder = f.holder,
           \A h \in Holders : f.holder[h] # None =>
              /\ f.table[f.holder[h]].state \in {"active", "defunct"} =>
                    g.table[f.holder[h]].state \in {"active", "defunct"}
              /\ f.table[f.holder[h]].state = "pending" => g.table[f.holder[h]].state = "pending"
    PROVE  HoldersOK(g)
BY DEF HoldersOK, KeptAlone

LEMMA HeldStates ==
    ASSUME NEW f, HoldersOK(f), IsFrame(f), NEW h \in Holders, f.holder[h] # None
    PROVE  /\ f.holder[h] \in Slots
           /\ f.table[f.holder[h]].state \in {"active", "defunct", "pending"}
           /\ f.table[f.holder[h]].state = "pending" => h \in Keepers
BY DEF HoldersOK, KeptAlone, IsFrame

LEMMA MovesCompose ==
    ASSUME NEW f, NEW g, NEW h, Moves(f, g), Moves(g, h)
    PROVE  Moves(f, h)
BY DEF Moves, SameOwner

LEMMA FreeIsSession ==
    IsSession(Free) /\ Free.state = "free"
BY DEF IsSession, Free, NewSession, SessionFields

LEMMA StateUpdate ==
    ASSUME NEW r, IsSession(r), NEW x \in {"establishing", "active", "defunct", "pending"},
           NEW q, q = [r EXCEPT !.state = x]
    PROVE  /\ IsSession(q) /\ q.state = x
           /\ q.type = r.type /\ q.peer = r.peer /\ q.cats = r.cats
BY DEF IsSession, SessionFields

LEMMA IdleIsPairing ==
    IsPairing(Idle) /\ Idle.slot = None /\ Idle.state = "idle"
BY DEF IsPairing, Idle, PairingFields

-----------------------------------------------------------------------------
(* SecureSessionDeleter.                                                   *)

LEMMA ReleasedOK ==
    ASSUME NEW f, IsFrame(f), HoldersOK(f), PairingsOK(f), NEW handles,
           \A s \in Slots : s \in handles \cup {f.pinned} /\ f.table[s].state = "establishing"
                               => Owned(f, s),
           NEW g, g = Released(f, handles)
    PROVE  /\ Sound(g, handles)
           /\ g.holder = f.holder /\ g.pairing = f.pairing /\ g.pinned = f.pinned
           /\ g.scheduled = f.scheduled /\ g.died = f.died
           /\ \A s \in Slots : g.table[s] = IF s \in Referenced(f, handles)
                                            THEN f.table[s] ELSE Free
           /\ Moves(f, g)
  <1> DEFINE kept == Referenced(f, handles)
             T == [s \in Slots |-> IF s \in kept THEN f.table[s] ELSE Free]
             E == [s \in Slots |-> IF s \in kept THEN f.earlier[s] \cap kept ELSE {}]
  <1>1. g = [f EXCEPT !.table = T, !.earlier = E]
    BY DEF Released
  <1>2. /\ T = [s \in Slots |-> T[s]] /\ E = [s \in Slots |-> E[s]]
        /\ \A s \in Slots : T[s] = IF s \in kept THEN f.table[s] ELSE Free
        /\ \A s \in Slots : E[s] \subseteq Slots
    BY DEF IsFrame
  <1> HIDE DEF T, E
  <1>3. /\ g = [k \in Fields |-> g[k]] /\ g.table = T /\ g.earlier = E
        /\ g.holder = f.holder /\ g.pairing = f.pairing /\ g.pinned = f.pinned
        /\ g.scheduled = f.scheduled /\ g.died = f.died
    BY <1>1 DEF IsFrame, Fields
  <1>4. \A s \in Slots : IsSession(g.table[s])
    BY <1>2, <1>3, FreeIsSession DEF IsFrame
  <1>5. IsFrame(g)
    BY <1>2, <1>3, <1>4 DEF IsFrame
  <1>6. \A s \in Slots : /\ f.table[s].state \in {"active", "defunct"} => s \in kept
                         /\ Owned(f, s) /\ f.table[s].state = "establishing" => s \in kept
    BY DEF Referenced, Resident, Owned
  <1>7. \A s \in kept : /\ s \in Slots /\ f.table[s].state # "free"
                        /\ \/ f.table[s].state \in {"active", "defunct"}
                           \/ s \in handles \cup {f.pinned}
                           \/ \E h \in Holders : f.holder[h] = s
                           \/ Owned(f, s)
    BY DEF Referenced, Resident, Owned
  <1> HIDE DEF kept
  <1>8. ASSUME NEW h \in Holders, f.holder[h] # None
        PROVE  g.table[f.holder[h]] = f.table[f.holder[h]]
    <2>1. f.holder[h] \in Slots /\ f.table[f.holder[h]].state # "free"
      BY <1>8, HeldStates
    <2>2. f.holder[h] \in kept
      BY <2>1 DEF kept, Referenced, Resident
    <2> QED
      BY <1>2, <1>3, <2>1, <2>2
  <1>9. HoldersOK(g) /\ Moves(f, g)
    <2>1. HoldersOK(g)
      BY <1>3, <1>8, SameHolders
    <2>2. Moves(f, g)
      BY <1>3, <1>8, SMTT(30) DEF Moves, SameOwner
    <2> QED
      BY <2>1, <2>2
  <1>10. PairingsOK(g)
    <2>1. ASSUME NEW p \in Pairings, g.pairing[p].slot # None
          PROVE  g.table[g.pairing[p].slot].state = "establishing"
      <3>1. f.pairing[p].slot \in Slots /\ f.table[f.pairing[p].slot].state = "establishing"
        <4>1. IsPairing(f.pairing[p])
          BY DEF IsFrame
        <4>2. f.pairing[p].slot # None
          BY <1>3, <2>1
        <4>3. f.table[f.pairing[p].slot].state = "establishing"
          BY <4>2 DEF PairingsOK
        <4> QED
          BY <4>1, <4>2, <4>3 DEF IsPairing
      <3>2. f.pairing[p].slot \in kept
        BY <1>6, <3>1 DEF Owned
      <3> QED
        BY <1>2, <1>3, <3>1, <3>2, SMTT(30)
    <2> QED
      BY <1>3, <2>1 DEF PairingsOK
  <1>11. EstablishingOK(g)
    <2> SUFFICES ASSUME NEW s \in Slots, g.table[s].state = "establishing"
                 PROVE  Owned(g, s)
      BY DEF EstablishingOK
    <2>1. s \in kept /\ f.table[s].state = "establishing"
      BY <1>2, <1>3, FreeIsSession
    <2>2. ~ \E h \in Holders : f.holder[h] = s
      BY <2>1, TableAssumption, HeldStates
    <2>3. Owned(f, s)
      BY <1>7, <2>1, <2>2
    <2> QED
      BY <1>3, <2>3 DEF Owned
  <1>12. PendingOK(g, handles)
    <2> SUFFICES ASSUME NEW s \in Slots, g.table[s].state = "pending"
                 PROVE  s \in handles \cup {f.pinned} \cup KeptSlots(f)
      BY <1>3 DEF PendingOK, KeptSlots
    <2>1. s \in kept /\ f.table[s].state = "pending"
      BY <1>2, <1>3, FreeIsSession
    <2>2. (\E h \in Holders : f.holder[h] = s) => s \in KeptSlots(f)
      BY <2>1, TableAssumption, HeldStates DEF KeptSlots
    <2>3. ~ Owned(f, s)
      BY <2>1, TableAssumption DEF PairingsOK, Owned
    <2> QED
      BY <1>7, <2>1, <2>2, <2>3
  <1> QED
    BY <1>2, <1>3, <1>5, <1>9, <1>10, <1>11, <1>12 DEF Sound, kept

(* Everything in the table of a sound record is referenced.                *)
LEMMA NothingToRelease ==
    ASSUME NEW f, Sound(f, {})
    PROVE  Referenced(f, {}) = Resident(f)
  <1> SUFFICES ASSUME NEW s \in Slots, f.table[s].state # "free"
               PROVE  s \in Referenced(f, {})
    BY DEF Referenced, Resident
  <1>1. f.table[s].state \in {"establishing", "active", "defunct", "pending"}
    BY DEF Sound, IsFrame, IsSession
  <1>2. f.table[s].state = "establishing" => Owned(f, s)
    BY DEF Sound, EstablishingOK
  <1>3. f.table[s].state = "pending" => s = f.pinned \/ \E h \in Holders : f.holder[h] = s
    BY TableAssumption DEF Sound, PendingOK, KeptSlots
  <1> QED
    BY <1>1, <1>2, <1>3 DEF Referenced, Resident, Owned

-----------------------------------------------------------------------------
(* MarkForEviction.                                                        *)

Hit(f, S) == {s \in S \cap Resident(f) : f.table[s].state # "pending"}

LEMMA EvictionOK ==
    ASSUME NEW f, IsFrame(f), HoldersOK(f), PairingsOK(f), EstablishingOK(f), NEW S,
           NEW g, g = MarkForEviction(f, S)
    PROVE  /\ IsFrame(g) /\ HoldersOK(g) /\ PairingsOK(g) /\ EstablishingOK(g)
           /\ g.pinned = f.pinned /\ g.died = f.died
           /\ \A s \in Slots : s \in Hit(f, S) => g.table[s].state = "pending"
           /\ \A s \in Slots : s \notin Hit(f, S) => g.table[s] = f.table[s]
           /\ \A s \in Slots : SameOwner(f.table[s], g.table[s])
           /\ \A p \in Pairings : g.pairing[p] = IF f.pairing[p].slot \in Hit(f, S)
                                                 THEN Idle ELSE f.pairing[p]
           /\ \A h \in Holders : g.holder[h] \notin Hit(f, S)
           /\ ServerOK(f) => ServerOK(g)
           /\ Moves(f, g)
  <1> DEFINE hit == Hit(f, S)
             lost == {p \in Pairings : f.pairing[p].slot \in hit}
             T == [s \in Slots |-> IF s \in hit THEN [f.table[s] EXCEPT !.state = "pending"]
                                                ELSE f.table[s]]
             HH == [h \in Holders |-> IF f.holder[h] \in hit THEN None ELSE f.holder[h]]
             P == [p \in Pairings |-> IF p \in lost THEN Idle ELSE f.pairing[p]]
             W == f.scheduled \/ "server" \in lost
  <1>1. g = [f EXCEPT !.table = T, !.holder = HH, !.pairing = P, !.scheduled = W]
    BY DEF MarkForEviction, Hit
  <1>2. hit \subseteq Slots /\ None \notin hit
    BY TableAssumption DEF Hit, Resident
  <1>3. /\ T = [s \in Slots |-> T[s]] /\ HH = [h \in Holders |-> HH[h]]
        /\ P = [p \in Pairings |-> P[p]] /\ W \in BOOLEAN
    OBVIOUS
  <1>4. \A s \in Slots : /\ s \notin hit => T[s] = f.table[s]
                         /\ s \in hit => T[s].state = "pending"
                         /\ IsSession(T[s]) /\ SameOwner(f.table[s], T[s])
    <2> SUFFICES ASSUME NEW s \in Slots
                 PROVE  /\ s \notin hit => T[s] = f.table[s]
                        /\ s \in hit => T[s].state = "pending"
                        /\ IsSession(T[s]) /\ SameOwner(f.table[s], T[s])
      OBVIOUS
    <2>1. IsSession(f.table[s])
      BY DEF IsFrame
    <2>2. CASE s \in hit
      <3>1. T[s] = [f.table[s] EXCEPT !.state = "pending"]
        BY <2>2
      <3> HIDE DEF T
      <3> QED
        BY <2>1, <2>2, <3>1, StateUpdate DEF SameOwner
    <2>3. CASE s \notin hit
      BY <2>1, <2>3 DEF SameOwner
    <2> QED
      BY <2>2, <2>3
  <1>5. \A h \in Holders : /\ HH[h] = IF f.holder[h] \in hit THEN None ELSE f.holder[h]
                           /\ HH[h] \in Slots \cup {None}
    BY DEF IsFrame
  <1>6. \A p \in Pairings : /\ P[p] = IF f.pairing[p].slot \in hit THEN Idle ELSE f.pairing[p]
                            /\ IsPairing(P[p])
    BY IdleIsPairing DEF IsFrame
  <1>7. W <=> f.scheduled \/ f.pairing["server"].slot \in hit
    BY DEF Pairings
  <1> HIDE DEF T, HH, P, W, hit
  <1>8. /\ g = [k \in Fields |-> g[k]] /\ g.table = T /\ g.earlier = f.earlier
        /\ g.holder = HH /\ g.pairing = P /\ g.pinned = f.pinned
        /\ g.scheduled = W /\ g.died = f.died
    BY <1>1 DEF IsFrame, Fields
  <1>9. IsFrame(g)
    BY <1>3, <1>4, <1>5, <1>6, <1>8 DEF IsFrame
  <1>10. ASSUME NEW h \in Holders, HH[h] # None
         PROVE  /\ HH[h] = f.holder[h] /\ HH[h] \in Slots /\ HH[h] \notin hit
                /\ T[HH[h]] = f.table[HH[h]]
    <2>1. HH[h] = f.holder[h] /\ HH[h] \notin hit /\ HH[h] \in Slots
      BY <1>5, <1>10
    <2> QED
      BY <1>4, <2>1
  <1>11. HoldersOK(g)
    <2> SUFFICES ASSUME NEW h \in Holders, HH[h] # None
                 PROVE  T[HH[h]].state \in {"active", "defunct"} \/ KeptAlone(g, h)
      BY <1>8 DEF HoldersOK
    <2>1. /\ HH[h] = f.holder[h] /\ HH[h] \in Slots /\ HH[h] \notin hit
          /\ T[HH[h]] = f.table[f.holder[h]] /\ f.holder[h] # None
      BY <1>10
    <2>2. CASE f.table[f.holder[h]].state \in {"active", "defunct"}
      BY <2>1, <2>2
    <2>3. CASE KeptAlone(f, h)
      <3>1. \A k \in Holders \ {h} : HH[k] # HH[h]
        BY <1>5, <2>1, <2>3 DEF KeptAlone
      <3> QED
        BY <1>8, <2>1, <2>3, <3>1 DEF KeptAlone
    <2> QED
      BY <2>1, <2>2, <2>3 DEF HoldersOK
  <1>12. Moves(f, g)
    BY <1>8, <1>10 DEF Moves, SameOwner
  <1>13. ASSUME NEW p \in Pairings, P[p].slot # None
         PROVE  P[p] = f.pairing[p] /\ P[p].slot \in Slots \ hit
    BY <1>6, <1>13, IdleIsPairing DEF IsPairing
  <1>14. PairingsOK(g)
    BY <1>4, <1>8, <1>13, SMTT(30) DEF PairingsOK
  <1>15. EstablishingOK(g)
    <2> SUFFICES ASSUME NEW s \in Slots, T[s].state = "establishing"
                 PROVE  \E p \in Pairings : P[p].slot = s
      BY <1>8 DEF EstablishingOK, Owned
    <2>1. s \notin hit /\ f.table[s].state = "establishing"
      BY <1>4
    <2>2. PICK p \in Pairings : f.pairing[p].slot = s
      BY <2>1 DEF EstablishingOK, Owned
    <2> QED
      BY <1>6, <2>1, <2>2
  <1>16. \A h \in Holders : g.holder[h] \notin hit
    BY <1>2, <1>5, <1>8
  <1>17. ASSUME ServerOK(f)
         PROVE  ServerOK(g)
    <2> DEFINE x == f.pairing["server"]
               y == g.pairing["server"]
    <2>0. "server" \in Pairings
      BY DEF Pairings
    <2>1. y = IF x.slot \in hit THEN Idle ELSE x
      BY <1>6, <1>8, <2>0
    <2>2. /\ x.state = "off" => f.pinned = None /\ ~f.scheduled
          /\ x.state \in {"listening", "handshake"} => f.pinned = x.slot
          /\ x.state = "idle" => /\ f.scheduled /\ f.pinned # None
                                 /\ f.table[f.pinned].state = "pending"
      BY <1>17 DEF ServerOK
    <2>3. IsPairing(x) /\ f.pinned \in Slots \cup {None}
      BY <2>0 DEF IsFrame
    <2>4. g.scheduled <=> f.scheduled \/ x.slot \in hit
      BY <1>7, <1>8
    <2>0a. \A h \in Holders : g.holder[h] # None => g.holder[h] # g.pinned
      BY <1>5, <1>8, <1>17 DEF ServerOK
    <2> HIDE DEF x, y
    <2>5. CASE x.slot \in hit
      <3>1. x.state \in {"listening", "handshake"} /\ x.slot # None /\ x.slot \in Slots
        BY <1>2, <2>3, <2>5 DEF IsPairing
      <3>2. g.pinned = x.slot /\ g.table[g.pinned].state = "pending" /\ g.pinned # None
        BY <1>4, <1>8, <2>2, <2>5, <3>1
      <3>3. y.state = "idle" /\ g.scheduled
        BY <2>1, <2>4, <2>5, IdleIsPairing
      <3> QED
        BY <2>0a, <3>2, <3>3 DEF ServerOK, y
    <2>6. CASE x.slot \notin hit
      <3>1. y = x /\ g.pinned = f.pinned
        BY <1>8, <2>1, <2>6
      <3>2. x.state = "idle" => g.table[g.pinned].state = "pending"
        BY <1>4, <1>8, <2>2, <2>3
      <3>3. x.state = "off" => ~g.scheduled
        BY <2>2, <2>4, <2>6
      <3> QED
        BY <2>0a, <2>2, <2>4, <3>1, <3>2, <3>3 DEF ServerOK, y
    <2> QED
      BY <2>5, <2>6
  <1> QED
    BY <1>4, <1>6, <1>8, <1>9, <1>11, <1>12, <1>14, <1>15, <1>16, <1>17 DEF hit

-----------------------------------------------------------------------------
(* The eviction policy finds somebody to evict.                            *)

LEMMA Largest ==
    ASSUME NEW S, S # {}, NEW k \in [S -> Int], NEW N \in Int, \A s \in S : k[s] <= N
    PROVE  \E a \in S : \A b \in S : k[b] <= k[a]
  <1> DEFINE Less == {ss \in Nat \X Nat : ss[1] < ss[2]}
             D == {N - k[s] : s \in S}
  <1>1. IsWellFoundedOn(Less, Nat)
    BY NatLessThanWellFounded DEF OpToRel
  <1>2. \A a, b \in Nat : <<a, b>> \in Less <=> a < b
    OBVIOUS
  <1>3. D \subseteq Nat /\ D # {}
    OBVIOUS
  <1> HIDE DEF Less, D
  <1>4. PICK m \in D : \A y \in D : <<y, m>> \notin Less
    BY <1>1, <1>3, WFMin
  <1>5. ASSUME NEW y \in D PROVE m <= y
    <2>1. m \in Nat /\ y \in Nat
      BY <1>3
    <2>2. ~(y < m)
      BY <1>2, <1>4, <2>1, Zenon
    <2> QED
      BY <2>1, <2>2
  <1>6. PICK a \in S : m = N - k[a]
    BY DEF D
  <1>7. ASSUME NEW b \in S PROVE k[b] <= k[a]
    <2>1. N - k[b] \in D
      BY DEF D
    <2>2. N - k[a] <= N - k[b]
      BY <1>5, <1>6, <2>1
    <2>3. k[a] \in Int /\ k[b] \in Int
      OBVIOUS
    <2> QED
      BY <2>2, <2>3
  <1> QED
    BY <1>7

(* ... also by one key after the other.                                    *)
LEMMA LargestOf ==
    ASSUME NEW S, NEW T, T \subseteq S, T # {}, NEW K \in [S -> [1..6 -> Int]], NEW N \in Int,
           \A s \in S : \A i \in 1..6 : K[s][i] <= N, NEW i \in 1..6
    PROVE  \E a \in T : \A b \in T : K[b][i] <= K[a][i]
  <1> DEFINE k == [s \in T |-> K[s][i]]
  <1>1. k \in [T -> Int] /\ \A s \in T : k[s] <= N
    OBVIOUS
  <1>2. \A s \in T : k[s] = K[s][i]
    OBVIOUS
  <1> HIDE DEF k
  <1>3. PICK a \in T : \A b \in T : k[b] <= k[a]
    BY <1>1, Largest
  <1> QED
    BY <1>2, <1>3

Best(K, T, i) == {a \in T : \A b \in T : K[b][i] <= K[a][i]}

LEMMA LexLargest ==
    ASSUME NEW S, S # {}, NEW K \in [S -> [1..6 -> Int]], NEW N \in Int,
           \A s \in S : \A i \in 1..6 : K[s][i] <= N
    PROVE  \E a \in S : \A b \in S : ~Ahead(K[b], K[a])
  <1> DEFINE T1 == Best(K, S, 1)
             T2 == Best(K, T1, 2)
             T3 == Best(K, T2, 3)
             T4 == Best(K, T3, 4)
             T5 == Best(K, T4, 5)
             T6 == Best(K, T5, 6)
  <1>0. \A i \in 1..6 : \A T \in SUBSET S : T # {} => Best(K, T, i) # {} /\ Best(K, T, i) \subseteq T
    BY LargestOf DEF Best
  <1>1. T1 # {} /\ T1 \subseteq S
    BY <1>0
  <1> HIDE DEF T1
  <1>2. T2 # {} /\ T2 \subseteq T1
    BY <1>0, <1>1
  <1> HIDE DEF T2
  <1>3. T3 # {} /\ T3 \subseteq T2
    BY <1>0, <1>1, <1>2
  <1> HIDE DEF T3
  <1>4. T4 # {} /\ T4 \subseteq T3
    BY <1>0, <1>1, <1>2, <1>3
  <1> HIDE DEF T4
  <1>5. T5 # {} /\ T5 \subseteq T4
    BY <1>0, <1>1, <1>2, <1>3, <1>4
  <1> HIDE DEF T5
  <1>6. T6 # {} /\ T6 \subseteq T5
    BY <1>0, <1>1, <1>2, <1>3, <1>4, <1>5
  <1> HIDE DEF T6
  <1>7. PICK a : a \in T6
    BY <1>6
  <1>8. a \in T1 /\ a \in T2 /\ a \in T3 /\ a \in T4 /\ a \in T5 /\ a \in S
    BY <1>1, <1>2, <1>3, <1>4, <1>5, <1>6, <1>7
  <1>9. ASSUME NEW b \in S, Ahead(K[b], K[a])
        PROVE  FALSE
    <2>0. /\ K[a] \in [1..6 -> Int] /\ K[b] \in [1..6 -> Int] /\ DOMAIN K[b] = 1..6
      BY <1>8
    <2>1. PICK i \in 1..6 : K[b][i] > K[a][i] /\ \A j \in 1..(i - 1) : K[b][j] = K[a][j]
      BY <1>9, <2>0 DEF Ahead
    <2>2. \A j \in 1..6 : K[b][j] \in Int /\ K[a][j] \in Int
      BY <2>0
    <2>3. i > 1 => b \in T1
      BY <1>8, <2>1, <2>2 DEF T1, Best
    <2>4. i > 2 => b \in T2
      BY <1>8, <2>1, <2>2, <2>3 DEF T2, Best
    <2>5. i > 3 => b \in T3
      BY <1>8, <2>1, <2>2, <2>4 DEF T3, Best
    <2>6. i > 4 => b \in T4
      BY <1>8, <2>1, <2>2, <2>5 DEF T4, Best
    <2>7. i > 5 => b \in T5
      BY <1>8, <2>1, <2>2, <2>6 DEF T5, Best
    <2>8. i = 1 => K[b][i] <= K[a][i]
      BY <1>8 DEF T1, Best
    <2>9. i = 2 => K[b][i] <= K[a][i]
      BY <1>8, <2>3 DEF T2, Best
    <2>10. i = 3 => K[b][i] <= K[a][i]
      BY <1>8, <2>4 DEF T3, Best
    <2>11. i = 4 => K[b][i] <= K[a][i]
      BY <1>8, <2>5 DEF T4, Best
    <2>12. i = 5 => K[b][i] <= K[a][i]
      BY <1>8, <2>6 DEF T5, Best
    <2>13. i = 6 => K[b][i] <= K[a][i]
      BY <1>7, <2>7 DEF T6, Best
    <2>14. i = 1 \/ i = 2 \/ i = 3 \/ i = 4 \/ i = 5 \/ i = 6
      OBVIOUS
    <2>15. K[b][i] <= K[a][i]
      BY <2>8, <2>9, <2>10, <2>11, <2>12, <2>13, <2>14
    <2> QED
      BY <2>1, <2>2, <2>15
  <1> QED
    BY <1>8, <1>9

LEMMA KeysAreBounded ==
    ASSUME NEW f, IsFrame(f), NEW s \in Slots, NEW hint
    PROVE  /\ Keys(f, s, hint) \in [1..6 -> Int]
           /\ \A i \in 1..6 : Keys(f, s, hint)[i] <= Cardinality(Slots) + 2
  <1> DEFINE N == Cardinality(Slots)
             k1 == mNumMatchingOnFabric(f, s)
             k2 == Bit(Fabric(f, s) = hint.fabric)
             k3 == mNumMatchingOnPeer(f, s)
             k4 == Bit(SessionMatchesEvictionHint(f, s, hint))
             k5 == StateScore(f.table[s].state)
             k6 == Cardinality(f.earlier[s])
  <1>0. N \in Nat
    BY TableAssumption, FS_CardinalityType
  <1>1. \A T \in SUBSET Slots : Cardinality(T) \in Nat /\ Cardinality(T) <= N
    BY TableAssumption, FS_Subset, FS_CardinalityType
  <1>2. k1 \in Nat /\ k1 <= N
    BY <1>1 DEF mNumMatchingOnFabric, Resident
  <1>3. k3 \in Nat /\ k3 <= N
    BY <1>1 DEF mNumMatchingOnPeer, Resident
  <1>4. k2 \in {0, 1} /\ k4 \in {0, 1}
    BY DEF Bit
  <1>5. k5 \in {0, 1, 2}
    BY DEF StateScore
  <1>6. k6 \in Nat
    BY <1>1 DEF IsFrame
  <1>7. Keys(f, s, hint) = <<k1, k2, k3, k4, k5, 0 - k6>>
    BY DEF Keys
  <1> HIDE DEF k1, k2, k3, k4, k5, k6, N
  <1>8. <<k1, k2, k3, k4, k5, 0 - k6>> \in [1..6 -> Int]
    BY <1>0, <1>2, <1>3, <1>4, <1>5, <1>6
  <1>9. \A i \in 1..6 : <<k1, k2, k3, k4, k5, 0 - k6>>[i] <= N + 2
    BY <1>0, <1>2, <1>3, <1>4, <1>5, <1>6
  <1> QED
    BY <1>7, <1>8, <1>9 DEF N

(* EvictAndAllocate marks a session that nothing holds, if there is one.   *)
LEMMA MarkedOK ==
    ASSUME NEW f, IsFrame(f), NEW hint, NEW handles, Candidates(f) \ Held(f, handles) # {}
    PROVE  \E a \in Candidates(f) \ Held(f, handles) : a \in Marked(f, hint, handles)
  <1> DEFINE S == Candidates(f) \ Held(f, handles)
             K == [s \in S |-> Keys(f, s, hint)]
             N == Cardinality(Slots) + 2
  <1>1. S \subseteq Slots
    BY DEF Candidates, Resident
  <1>2. N \in Int
    BY TableAssumption, FS_CardinalityType
  <1>3. /\ K \in [S -> [1..6 -> Int]]
        /\ \A s \in S : \A i \in 1..6 : K[s][i] <= N
    BY <1>1, KeysAreBounded
  <1> HIDE DEF N
  <1>4. PICK a \in S : \A b \in S : ~Ahead(K[b], K[a])
    <2> HIDE DEF K, S
    <2> QED
      BY <1>2, <1>3, LexLargest DEF S
  <1>5. \A b \in S : ~Ahead(Keys(f, b, hint), Keys(f, a, hint))
    BY <1>4
  <1> HIDE DEF K
  <1>6. a \in Marked(f, hint, handles)
    <2> DEFINE sortable == {<<s, Keys(f, s, hint)>> : s \in Candidates(f)}
               evictable == {b \in sortable : b[1] \notin Held(f, handles)}
               best == {c \in sortable : \A b \in evictable : ~Ahead(b[2], c[2])}
               pair == <<a, Keys(f, a, hint)>>
    <2>1. pair \in sortable
      OBVIOUS
    <2>2. \A b \in evictable : \E s \in S : b[2] = Keys(f, s, hint)
      OBVIOUS
    <2>3. \A b \in evictable : ~Ahead(b[2], pair[2])
      BY <1>5, <2>2
    <2>4. pair \in best
      BY <2>1, <2>3
    <2>5. Marked(f, hint, handles) = {c[1] : c \in best}
      BY DEF Marked
    <2> HIDE DEF best
    <2> QED
      BY <2>4, <2>5
  <1> QED
    BY <1>6

-----------------------------------------------------------------------------
(* CreateNewSecureSession.                                                 *)

(* RoomAssumption, as a hypothesis of the lemmas that need it.             *)
EnoughSlots == Cardinality(Slots) > Cardinality(Keepers) + 2

(* A pigeonhole: pinned, on the stack and kept sessions leave one over.    *)
LEMMA OneToEvict ==
    ASSUME EnoughSlots, NEW f, NEW handles,
           handles = {} \/ \E s \in Slots : handles = {s}
    PROVE  \E u \in Slots : u \notin Held(f, handles) \cup KeptSlots(f)
  <1> DEFINE K == KeptSlots(f)
             P == {f.pinned}
             U == Held(f, handles) \cup K
  <1>1. IsFiniteSet(K) /\ Cardinality(K) <= Cardinality(Keepers)
    <2> DEFINE F == [h \in Keepers |-> f.holder[h]]
    <2>1. F \in Surjection(Keepers, K)
      BY DEF Surjection, KeptSlots
    <2> HIDE DEF F, K
    <2> QED
      BY <2>1, TableAssumption, FS_Surjection
  <1>2. IsFiniteSet(P) /\ Cardinality(P) = 1
    BY FS_Singleton
  <1>3. IsFiniteSet(handles) /\ Cardinality(handles) <= 1
    <2>1. CASE handles = {}
      BY <2>1, FS_EmptySet
    <2>2. CASE \E s \in Slots : handles = {s}
      <3>1. PICK s \in Slots : handles = {s}
        BY <2>2
      <3>2. IsFiniteSet({s}) /\ Cardinality({s}) = 1
        BY FS_Singleton
      <3> QED
        BY <3>1, <3>2
    <2> QED
      BY <2>1, <2>2
  <1>4. /\ Cardinality(K) \in Nat /\ Cardinality(P) \in Nat /\ Cardinality(handles) \in Nat
        /\ Cardinality(Slots) \in Nat /\ Cardinality(Keepers) \in Nat /\ IsFiniteSet(Slots)
    BY <1>1, <1>2, <1>3, TableAssumption, FS_CardinalityType
  <1> HIDE DEF K, P
  <1>5. IsFiniteSet(handles \cup P) /\ Cardinality(handles \cup P) <= 2
    <2>1. /\ IsFiniteSet(handles \cup P) /\ IsFiniteSet(handles \cap P)
          /\ Cardinality(handles \cup P)
               = Cardinality(handles) + Cardinality(P) - Cardinality(handles \cap P)
      BY <1>2, <1>3, FS_Union, FS_Intersection
    <2>2. Cardinality(handles \cap P) \in Nat
      BY <2>1, FS_CardinalityType
    <2> QED
      BY <1>2, <1>3, <1>4, <2>1, <2>2
  <1>6. /\ IsFiniteSet((handles \cup P) \cup K)
        /\ Cardinality((handles \cup P) \cup K) <= 2 + Cardinality(Keepers)
    <2>1. /\ IsFiniteSet((handles \cup P) \cup K) /\ IsFiniteSet((handles \cup P) \cap K)
          /\ Cardinality((handles \cup P) \cup K)
               = Cardinality(handles \cup P) + Cardinality(K)
                   - Cardinality((handles \cup P) \cap K)
      BY <1>1, <1>5, FS_Union, FS_Intersection
    <2>2. /\ Cardinality((handles \cup P) \cap K) \in Nat
          /\ Cardinality(handles \cup P) \in Nat
      BY <1>5, <2>1, FS_CardinalityType
    <2> QED
      BY <1>1, <1>4, <1>5, <2>1, <2>2
  <1>7. ~ (Slots \subseteq (handles \cup P) \cup K)
    <2> SUFFICES ASSUME Slots \subseteq (handles \cup P) \cup K
                 PROVE  FALSE
      OBVIOUS
    <2>1. Cardinality(Slots) <= Cardinality((handles \cup P) \cup K)
      BY <1>6, FS_Subset
    <2>2. Cardinality((handles \cup P) \cup K) \in Nat
      BY <1>6, FS_CardinalityType
    <2> QED
      BY <1>4, <1>6, <2>1, <2>2 DEF EnoughSlots
  <1> QED
    BY <1>7 DEF Held, K, P

LEMMA ReleasedServer ==
    ASSUME NEW f, IsFrame(f), HoldersOK(f), PairingsOK(f), ServerOK(f), NEW handles,
           \A s \in Slots : s \in handles \cup {f.pinned} /\ f.table[s].state = "establishing"
                               => Owned(f, s),
           NEW g, g = Released(f, handles)
    PROVE  ServerOK(g)
  <1>1. /\ g.pairing = f.pairing /\ g.pinned = f.pinned /\ g.scheduled = f.scheduled
        /\ g.holder = f.holder
        /\ \A s \in Slots : g.table[s] = IF s \in Referenced(f, handles)
                                         THEN f.table[s] ELSE Free
    BY ReleasedOK
  <1>2. f.pinned \in Slots \cup {None}
    BY DEF IsFrame
  <1>3. f.pinned \in Slots /\ f.table[f.pinned].state = "pending"
           => f.pinned \in Referenced(f, handles)
    BY DEF Referenced, Resident
  <1>4. f.pinned \in Slots /\ f.table[f.pinned].state = "pending"
           => g.table[g.pinned].state = "pending"
    BY <1>1, <1>3
  <1> QED
    BY <1>1, <1>2, <1>4 DEF ServerOK

(* What the table is like just before the new object goes into slot s.     *)
Room(f, g, handles, s) ==
    /\ Sound(g, handles) /\ Moves(f, g)
    /\ g.died = f.died /\ g.pinned = f.pinned
    /\ ServerOK(f) => ServerOK(g)
    /\ \A p \in Pairings : f.pairing[p].slot = None => g.pairing[p] = f.pairing[p]
    /\ s \in Slots /\ g.table[s].state = "free"
    /\ FreeSlots(f) # {} => g = f

LEMMA CreateOK ==
    ASSUME EnoughSlots, NEW f, NEW handles, Sound(f, handles),
           handles = {} \/ \E s \in Slots : handles = {s},
           NEW type, NEW hint, NEW r \in CreateNewSecureSession(f, type, hint, handles)
    PROVE  \E g : Room(f, g, handles, r.slot) /\ r.f = CreateObject(g, type, r.slot)
  <1> DEFINE S == Marked(f, hint, handles)
             e == MarkForEviction(f, S)
             d == Released(e, handles)
             g == IF FreeSlots(f) # {} THEN f ELSE d
  <1>0. IsFrame(f) /\ HoldersOK(f) /\ PairingsOK(f) /\ EstablishingOK(f) /\ PendingOK(f, handles)
    BY DEF Sound
  <1>1. FreeSlots(g) # {} => r.slot \in FreeSlots(g) /\ r.f = CreateObject(g, type, r.slot)
    BY DEF CreateNewSecureSession
  <1>2. CASE FreeSlots(f) # {}
    <2>1. g = f
      BY <1>2
    <2>2. r.slot \in FreeSlots(f) /\ r.f = CreateObject(f, type, r.slot)
      BY <1>1, <1>2, <2>1
    <2>3. r.slot \in Slots /\ f.table[r.slot].state = "free"
      BY <2>2 DEF FreeSlots, Resident
    <2>4. Moves(f, f)
      BY DEF Moves, SameOwner
    <2>5. Room(f, f, handles, r.slot)
      BY <2>3, <2>4 DEF Room
    <2> QED
      BY <2>2, <2>5
  <1>3. CASE FreeSlots(f) = {}
    <2>0. g = d
      BY <1>3
    <2>1. \A s \in Slots : f.table[s].state # "free"
      BY <1>3 DEF FreeSlots, Resident
    <2>2. PICK u \in Slots : u \notin Held(f, handles) \cup KeptSlots(f)
      BY OneToEvict
    <2>3. u \in Candidates(f) \ Held(f, handles)
      BY <1>0, <2>1, <2>2 DEF Candidates, Resident, PendingOK, Held
    <2>4. PICK a \in Candidates(f) \ Held(f, handles) : a \in S
      BY <1>0, <2>3, MarkedOK
    <2>5. a \in Hit(f, S) /\ a \in Slots
      BY <2>4 DEF Hit, Candidates, Resident
    <2>6. a \notin handles /\ a # f.pinned
      BY <2>4 DEF Held
    <2> HIDE DEF S, e
    <2>7. /\ IsFrame(e) /\ HoldersOK(e) /\ PairingsOK(e) /\ EstablishingOK(e)
          /\ e.pinned = f.pinned /\ e.died = f.died
          /\ e.table[a].state = "pending"
          /\ \A p \in Pairings : e.pairing[p] = IF f.pairing[p].slot \in Hit(f, S)
                                                THEN Idle ELSE f.pairing[p]
          /\ \A h \in Holders : e.holder[h] \notin Hit(f, S)
          /\ ServerOK(f) => ServerOK(e)
          /\ Moves(f, e)
      BY <1>0, <2>5, EvictionOK DEF e
    <2>8. \A s \in Slots : s \in handles \cup {e.pinned} /\ e.table[s].state = "establishing"
                              => Owned(e, s)
      BY <2>7 DEF EstablishingOK
    <2> HIDE DEF d, g
    <2>9. /\ Sound(d, handles) /\ d.pairing = e.pairing
          /\ d.pinned = e.pinned /\ d.died = e.died /\ Moves(e, d)
          /\ \A s \in Slots : d.table[s] = IF s \in Referenced(e, handles)
                                           THEN e.table[s] ELSE Free
      BY <2>7, <2>8, ReleasedOK DEF d
    <2>10. ServerOK(f) => ServerOK(d)
      BY <2>7, <2>8, ReleasedServer DEF d
    <2>11. \A p \in Pairings : e.pairing[p].slot # a
      BY <2>5, <2>7, TableAssumption, IdleIsPairing
    <2>12. a \notin Referenced(e, handles)
      BY <2>5, <2>6, <2>7, <2>11 DEF Referenced
    <2>13. d.table[a].state = "free"
      BY <2>5, <2>9, <2>12, FreeIsSession
    <2>14. FreeSlots(d) # {}
      BY <2>5, <2>13 DEF FreeSlots, Resident
    <2>15. r.slot \in FreeSlots(d) /\ r.f = CreateObject(d, type, r.slot)
      BY <1>1, <2>0, <2>14
    <2>16. r.slot \in Slots /\ d.table[r.slot].state = "free"
      BY <2>15 DEF FreeSlots, Resident
    <2>17. Moves(f, d)
      BY <2>7, <2>9, MovesCompose
    <2>18. \A p \in Pairings : f.pairing[p].slot = None => d.pairing[p] = f.pairing[p]
      <3>1. None \notin Hit(f, S)
        BY TableAssumption DEF Hit, Resident
      <3> QED
        BY <2>7, <2>9, <3>1
    <2>19. Room(f, d, handles, r.slot)
      BY <1>3, <2>7, <2>9, <2>10, <2>16, <2>17, <2>18 DEF Room
    <2> QED
      BY <2>15, <2>19
  <1> QED
    BY <1>2, <1>3

(* The new object with the pairing session that owns it.                   *)
Taken(f, p, x) == [f EXCEPT !.pairing[p] = x]

LEMMA TakenOK ==
    ASSUME NEW g, NEW handles, Sound(g, handles), NEW s \in Slots, g.table[s].state = "free",
           NEW type, NEW p \in Pairings, g.pairing[p].slot = None,
           NEW x, IsPairing(x), x.slot = s,
           NEW h, h = Taken(CreateObject(g, type, s), p, x)
    PROVE  /\ Sound(h, handles) /\ Moves(g, h)
           /\ h.pairing[p] = x /\ \A q \in Pairings \ {p} : h.pairing[q] = g.pairing[q]
           /\ h.pinned = g.pinned /\ h.died = g.died /\ h.scheduled = g.scheduled
           /\ h.holder = g.holder
           /\ \A t \in Slots \ {s} : h.table[t] = g.table[t]
           /\ h.table[s].state = "establishing"
  <1> DEFINE N == NewSession(type)
             T == [g.table EXCEPT ![s] = N]
             E == [g.earlier EXCEPT ![s] = Resident(g)]
             P == [g.pairing EXCEPT ![p] = x]
  <1>0. IsFrame(g) /\ HoldersOK(g) /\ PairingsOK(g) /\ EstablishingOK(g) /\ PendingOK(g, handles)
    BY DEF Sound
  <1>1. h = [g EXCEPT !.table = T, !.earlier = E, !.pairing = P]
    BY <1>0 DEF Taken, CreateObject, IsFrame, Fields
  <1>2. IsSession(N) /\ N.state = "establishing"
    BY DEF NewSession, IsSession, SessionFields
  <1> HIDE DEF N
  <1>3. /\ T = [t \in Slots |-> T[t]] /\ T[s] = N
        /\ \A t \in Slots \ {s} : T[t] = g.table[t]
    BY <1>0 DEF IsFrame
  <1>4. E = [t \in Slots |-> E[t]] /\ \A t \in Slots : E[t] \subseteq Slots
    BY <1>0 DEF IsFrame, Resident
  <1>5. /\ P = [q \in Pairings |-> P[q]] /\ P[p] = x
        /\ \A q \in Pairings \ {p} : P[q] = g.pairing[q]
    BY <1>0 DEF IsFrame
  <1> HIDE DEF T, E, P
  <1>6. /\ h = [k \in Fields |-> h[k]] /\ h.table = T /\ h.earlier = E
        /\ h.holder = g.holder /\ h.pairing = P /\ h.pinned = g.pinned
        /\ h.scheduled = g.scheduled /\ h.died = g.died
    BY <1>0, <1>1 DEF IsFrame, Fields
  <1>7. /\ \A t \in Slots : IsSession(T[t])
        /\ \A q \in Pairings : IsPairing(P[q])
    BY <1>0, <1>2, <1>3, <1>5 DEF IsFrame
  <1>8. IsFrame(h)
    BY <1>0, <1>3, <1>4, <1>5, <1>6, <1>7 DEF IsFrame
  <1>9. \A k \in Holders : g.holder[k] # None =>
            g.holder[k] \in Slots \ {s} /\ T[g.holder[k]] = g.table[g.holder[k]]
    BY <1>0, <1>3, HeldStates
  <1>10. HoldersOK(h) /\ Moves(g, h)
    <2>1. HoldersOK(h)
      BY <1>0, <1>6, <1>9, SameHolders
    <2> QED
      BY <1>6, <1>9, <2>1 DEF Moves, SameOwner
  <1>11. \A q \in Pairings \ {p} : P[q].slot # None =>
            P[q].slot \in Slots \ {s} /\ T[P[q].slot].state = "establishing"
    <2> SUFFICES ASSUME NEW q \in Pairings \ {p}, P[q].slot # None
                 PROVE  P[q].slot \in Slots \ {s} /\ T[P[q].slot].state = "establishing"
      OBVIOUS
    <2>1. P[q] = g.pairing[q] /\ g.pairing[q].slot \in Slots
      <3>1. P[q] = g.pairing[q]
        BY <1>5
      <3>2. IsPairing(g.pairing[q])
        BY <1>0 DEF IsFrame
      <3> QED
        BY <3>1, <3>2 DEF IsPairing
    <2>2. g.table[g.pairing[q].slot].state = "establishing"
      BY <1>0, <2>1 DEF PairingsOK
    <2>3. g.pairing[q].slot # s
      BY <2>2
    <2> QED
      BY <1>3, <2>1, <2>2, <2>3
  <1>12. PairingsOK(h)
    <2>1. \A q \in Pairings : P[q].slot # None => T[P[q].slot].state = "establishing"
      BY <1>2, <1>3, <1>5, <1>11
    <2>2. ASSUME NEW q \in Pairings, NEW v \in Pairings, P[q].slot # None,
                 P[q].slot = P[v].slot
          PROVE  q = v
      <3>1. CASE q = p \/ v = p
        BY <1>5, <1>11, <2>2, <3>1
      <3>2. CASE q # p /\ v # p
        BY <1>0, <1>5, <2>2, <3>2 DEF PairingsOK
      <3> QED
        BY <3>1, <3>2
    <2> QED
      BY <1>6, <2>1, <2>2 DEF PairingsOK
  <1>13. EstablishingOK(h)
    <2> SUFFICES ASSUME NEW t \in Slots, T[t].state = "establishing"
                 PROVE  \E q \in Pairings : P[q].slot = t
      BY <1>6 DEF EstablishingOK, Owned
    <2>1. CASE t = s
      BY <1>5, <2>1
    <2>2. CASE t # s
      <3>1. PICK q \in Pairings : g.pairing[q].slot = t
        BY <1>0, <1>3, <2>2 DEF EstablishingOK, Owned
      <3>2. q # p
        BY <3>1, TableAssumption
      <3> QED
        BY <1>5, <3>1, <3>2
    <2> QED
      BY <2>1, <2>2
  <1>14. PendingOK(h, handles)
    BY <1>0, <1>2, <1>3, <1>6 DEF PendingOK, KeptSlots
  <1> QED
    BY <1>2, <1>3, <1>5, <1>6, <1>8, <1>10, <1>12, <1>13, <1>14 DEF Sound

-----------------------------------------------------------------------------
(* The CASEServer prepares for the next handshake.                         *)

(* The server has let go of its session and of the pin.                    *)
Unserved(f) == [f EXCEPT !.pairing["server"] = Idle, !.pinned = None]

Listening(f, s) ==
    [f EXCEPT !.pairing["server"] = [slot |-> s, state |-> "listening", peer |-> NoPeer],
              !.pinned = s]

LEMMA ListeningOK ==
    ASSUME NEW g, NEW handles, Sound(g, handles), g.pinned = None,
           NEW s \in Slots, g.table[s].state = "free",
           NEW type, g.pairing["server"].slot = None,
           NEW h, h = Listening(CreateObject(g, type, s), s)
    PROVE  /\ Sound(h, handles) /\ Moves(g, h) /\ ServerOK(h) /\ h.died = g.died
           /\ \A t \in Slots \ {s} : h.table[t] = g.table[t]
  <1> DEFINE x == [slot |-> s, state |-> "listening", peer |-> NoPeer]
             c == CreateObject(g, type, s)
             t == Taken(c, "server", x)
  <1>1. IsPairing(x) /\ x.slot = s /\ x.state = "listening"
    BY TableAssumption DEF IsPairing, PairingFields
  <1>2. "server" \in Pairings
    BY DEF Pairings
  <1>3. h = [t EXCEPT !.pinned = s]
    <2>1. g = [k \in Fields |-> g[k]]
      BY DEF Sound, IsFrame
    <2>2. c = [k \in Fields |-> c[k]]
      BY <2>1 DEF CreateObject, Fields
    <2> HIDE DEF c, x
    <2> QED
      BY <2>2 DEF Listening, Taken, Fields, c, x
  <1> HIDE DEF x
  <1>4. /\ Sound(t, handles) /\ Moves(g, t) /\ t.pairing["server"] = x
        /\ t.pinned = g.pinned /\ t.died = g.died
        /\ \A u \in Slots \ {s} : t.table[u] = g.table[u]
    BY <1>1, <1>2, TakenOK
  <1> HIDE DEF t
  <1>5. IsFrame(t) /\ HoldersOK(t) /\ PairingsOK(t) /\ EstablishingOK(t) /\ PendingOK(t, handles)
    BY <1>4 DEF Sound
  <1>6. /\ h = [k \in Fields |-> h[k]] /\ h.table = t.table /\ h.earlier = t.earlier
        /\ h.holder = t.holder /\ h.pairing = t.pairing /\ h.pinned = s
        /\ h.scheduled = t.scheduled /\ h.died = t.died
    BY <1>3, <1>5 DEF IsFrame, Fields
  <1>7. IsFrame(h)
    BY <1>5, <1>6 DEF IsFrame
  <1>8. HoldersOK(h) /\ PairingsOK(h) /\ EstablishingOK(h) /\ Moves(g, h)
    <2>1. HoldersOK(h)
      BY <1>5, <1>6, SameHolders
    <2>2. PairingsOK(h)
      BY <1>5, <1>6 DEF PairingsOK
    <2>3. EstablishingOK(h)
      BY <1>5, <1>6 DEF EstablishingOK, Owned
    <2>4. Moves(g, h)
      BY <1>4, <1>6 DEF Moves
    <2> QED
      BY <2>1, <2>2, <2>3, <2>4
  <1>9. PendingOK(h, handles)
    BY <1>4, <1>5, <1>6, TableAssumption DEF PendingOK, KeptSlots
  <1>10. ServerOK(h)
    <2>1. \A k \in Holders : h.holder[k] # None => h.holder[k] # s
      <3>1. t.table[s].state = "establishing"
        BY <1>1, <1>2, TakenOK DEF t
      <3> QED
        BY <1>5, <1>6, <3>1, HeldStates
    <2> QED
      BY <1>1, <1>4, <1>6, <2>1 DEF ServerOK
  <1> QED
    BY <1>4, <1>6, <1>7, <1>8, <1>9, <1>10 DEF Sound

LEMMA PrepareOK ==
    ASSUME EnoughSlots, NEW f, NEW u, u = Unserved(f), ~f.died,
           IsFrame(f), IsFrame(u), HoldersOK(u), PairingsOK(u),
           NEW handles, handles = {} \/ \E s \in Slots : handles = {s},
           \A s \in Slots \cap handles : u.table[s].state # "establishing",
           NEW hint, NEW g \in PrepareForSessionEstablishment(f, hint, handles)
    PROVE  /\ Sound(g, handles) /\ Moves(u, g) /\ ServerOK(g) /\ ~g.died
           /\ FreeSlots(Released(u, handles)) # {} =>
                 \A t \in Slots : t \in Referenced(u, handles) => g.table[t] = u.table[t]
  <1> DEFINE v == Released(u, handles)
  <1>1. /\ u.pinned = None /\ u.pairing["server"] = Idle /\ u.died = f.died
    BY DEF Unserved, IsFrame, Fields, Pairings
  <1>2. \A s \in Slots : s \in handles \cup {u.pinned} /\ u.table[s].state = "establishing"
                            => Owned(u, s)
    BY <1>1, TableAssumption
  <1>3. /\ Sound(v, handles) /\ Moves(u, v)
        /\ v.pairing = u.pairing /\ v.pinned = u.pinned /\ v.died = u.died
        /\ \A s \in Slots : v.table[s] = IF s \in Referenced(u, handles)
                                         THEN u.table[s] ELSE Free
    BY <1>2, ReleasedOK
  <1>4. PICK r \in CreateNewSecureSession(v, "CASE", hint, handles) :
           g = IF r.f.died THEN r.f ELSE Listening(r.f, r.slot)
    BY DEF PrepareForSessionEstablishment, Unserved, Listening
  <1> HIDE DEF v
  <1>5. PICK w : Room(v, w, handles, r.slot) /\ r.f = CreateObject(w, "CASE", r.slot)
    BY <1>3, CreateOK
  <1>6. /\ Sound(w, handles) /\ Moves(v, w) /\ w.died = v.died /\ w.pinned = v.pinned
        /\ w.pairing["server"].slot = None
        /\ r.slot \in Slots /\ w.table[r.slot].state = "free"
        /\ FreeSlots(v) # {} => w = v
    BY <1>1, <1>3, <1>5, IdleIsPairing DEF Room, Pairings
  <1>7. ~r.f.died
    <2>1. w = [k \in Fields |-> w[k]]
      BY <1>6 DEF Sound, IsFrame
    <2>2. r.f.died = w.died
      BY <1>5, <2>1 DEF CreateObject, Fields
    <2> QED
      BY <1>1, <1>3, <1>6, <2>2
  <1>8. g = Listening(CreateObject(w, "CASE", r.slot), r.slot)
    BY <1>4, <1>5, <1>7
  <1>9. /\ Sound(g, handles) /\ Moves(w, g) /\ ServerOK(g) /\ g.died = w.died
        /\ \A t \in Slots \ {r.slot} : g.table[t] = w.table[t]
    BY <1>1, <1>3, <1>6, <1>8, ListeningOK
  <1>10. Moves(u, g)
    BY <1>3, <1>6, <1>9, MovesCompose
  <1>11. ~g.died
    BY <1>1, <1>3, <1>6, <1>9
  <1>12. ASSUME FreeSlots(v) # {}, NEW t \in Slots, t \in Referenced(u, handles)
         PROVE  g.table[t] = u.table[t]
    <2>1. w = v /\ v.table[t] = u.table[t]
      BY <1>3, <1>6, <1>12
    <2>2. u.table[t].state # "free"
      BY <1>12 DEF Referenced, Resident
    <2>3. t # r.slot
      BY <1>6, <2>1, <2>2
    <2> QED
      BY <1>9, <2>1, <2>3
  <1> QED
    BY <1>9, <1>10, <1>11, <1>12 DEF v

(* The end of a handler: no SessionHandle is left on the stack.            *)
LEMMA EndOK ==
    ASSUME NEW f, NEW handles, Sound(f, handles), ServerOK(f), ~f.died,
           NEW g, g = Released(f, {})
    PROVE  Good(g) /\ Moves(f, g)
  <1>1. IsFrame(f) /\ HoldersOK(f) /\ PairingsOK(f) /\ EstablishingOK(f)
    BY DEF Sound
  <1>2. \A s \in Slots : s \in {} \cup {f.pinned} /\ f.table[s].state = "establishing"
                            => Owned(f, s)
    BY <1>1 DEF EstablishingOK
  <1>3. Sound(g, {}) /\ g.died = f.died /\ Moves(f, g)
    BY <1>1, <1>2, ReleasedOK
  <1>4. ServerOK(g)
    BY <1>1, <1>2, ReleasedServer
  <1> QED
    BY <1>3, <1>4 DEF Good

-----------------------------------------------------------------------------
(* Steps that only mark sessions.                                          *)

Usable(r) == r.state \in {"active", "defunct"}

LEMMA TableUpdate ==
    ASSUME NEW f, Good(f), NEW T, NEW E,
           T = [s \in Slots |-> T[s]], \A s \in Slots : IsSession(T[s]),
           E = [s \in Slots |-> E[s]], \A s \in Slots : E[s] \subseteq Slots,
           \A s \in Slots : SameOwner(f.table[s], T[s]),
           \A s \in Slots : \/ T[s].state = f.table[s].state
                            \/ Usable(T[s]) /\ Usable(f.table[s]),
           NEW g, g = [f EXCEPT !.table = T, !.earlier = E]
    PROVE  Good(g) /\ Moves(f, g)
  <1>0. /\ IsFrame(f) /\ HoldersOK(f) /\ PairingsOK(f) /\ EstablishingOK(f) /\ PendingOK(f, {})
        /\ ServerOK(f) /\ ~f.died
    BY DEF Good, Sound
  <1>1. /\ g = [k \in Fields |-> g[k]] /\ g.table = T /\ g.earlier = E
        /\ g.holder = f.holder /\ g.pairing = f.pairing /\ g.pinned = f.pinned
        /\ g.scheduled = f.scheduled /\ g.died = f.died
    BY <1>0 DEF IsFrame, Fields
  <1>2. IsFrame(g)
    BY <1>0, <1>1 DEF IsFrame
  <1>3. HoldersOK(g) /\ Moves(f, g)
    <2>1. ASSUME NEW h \in Holders, f.holder[h] # None
          PROVE  f.holder[h] \in Slots
      BY <1>0, <2>1, HeldStates
    <2>2. HoldersOK(g)
      <3>1. ASSUME NEW h \in Holders, f.holder[h] # None
            PROVE  /\ f.table[f.holder[h]].state \in {"active", "defunct"} =>
                         g.table[f.holder[h]].state \in {"active", "defunct"}
                   /\ f.table[f.holder[h]].state = "pending" =>
                         g.table[f.holder[h]].state = "pending"
        BY <1>1, <2>1, <3>1 DEF Usable
      <3> QED
        BY <1>0, <1>1, <3>1, SameHolders
    <2>3. Moves(f, g)
      BY <1>0, <1>1, <2>1, ZenonT(60) DEF Moves, Usable
    <2> QED
      BY <2>2, <2>3
  <1>4. PairingsOK(g)
    <2>1. ASSUME NEW p \in Pairings, f.pairing[p].slot # None
          PROVE  T[f.pairing[p].slot].state = "establishing"
      <3>1. IsPairing(f.pairing[p])
        BY <1>0 DEF IsFrame
      <3>2. f.pairing[p].slot \in Slots
        BY <2>1, <3>1 DEF IsPairing
      <3>3. f.table[f.pairing[p].slot].state = "establishing"
        BY <1>0, <2>1 DEF PairingsOK
      <3> QED
        BY <3>2, <3>3 DEF Usable
    <2> QED
      BY <1>0, <1>1, <2>1 DEF PairingsOK
  <1>5. EstablishingOK(g) /\ PendingOK(g, {})
    <2>1. EstablishingOK(g)
      BY <1>0, <1>1 DEF EstablishingOK, Owned, Usable
    <2>2. PendingOK(g, {})
      BY <1>0, <1>1 DEF PendingOK, KeptSlots, Usable
    <2> QED
      BY <2>1, <2>2
  <1>6. ServerOK(g)
    <2>1. f.pinned \in Slots /\ f.table[f.pinned].state = "pending"
             => T[f.pinned].state = "pending"
      BY DEF Usable
    <2>2. f.pinned \in Slots \cup {None}
      BY <1>0 DEF IsFrame
    <2> QED
      BY <1>0, <1>1, <2>1, <2>2 DEF ServerOK
  <1> QED
    BY <1>0, <1>1, <1>2, <1>3, <1>4, <1>5, <1>6 DEF Good, Sound

(* One session is marked anew, and the order of activity may change.       *)
LEMMA OneUpdate ==
    ASSUME NEW f, Good(f), NEW s \in Slots, NEW q, IsSession(q), SameOwner(f.table[s], q),
           q.state = f.table[s].state \/ (Usable(q) /\ Usable(f.table[s])),
           NEW E, E = [t \in Slots |-> E[t]], \A t \in Slots : E[t] \subseteq Slots,
           NEW g, g = [f EXCEPT !.table = [f.table EXCEPT ![s] = q], !.earlier = E]
    PROVE  Good(g) /\ Moves(f, g)
  <1> DEFINE T == [f.table EXCEPT ![s] = q]
  <1>1. /\ f.table = [t \in Slots |-> f.table[t]] /\ \A t \in Slots : IsSession(f.table[t])
    BY DEF Good, Sound, IsFrame
  <1>2. /\ T = [t \in Slots |-> T[t]] /\ T[s] = q
        /\ \A t \in Slots \ {s} : T[t] = f.table[t]
    BY <1>1
  <1>3. \A t \in Slots : SameOwner(f.table[t], f.table[t])
    BY DEF SameOwner
  <1>4. g = [f EXCEPT !.table = T, !.earlier = E]
    OBVIOUS
  <1> HIDE DEF T
  <1>5. \A t \in Slots : IsSession(T[t]) /\ SameOwner(f.table[t], T[t])
    BY <1>1, <1>2, <1>3
  <1>6. \A t \in Slots : \/ T[t].state = f.table[t].state
                         \/ Usable(T[t]) /\ Usable(f.table[t])
    BY <1>2
  <1> QED
    BY <1>2, <1>4, <1>5, <1>6, TableUpdate

LEMMA MarkActiveOK ==
    ASSUME NEW f, Good(f), NEW s \in Slots
    PROVE  /\ Good(MarkActive(f, s)) /\ Moves(f, MarkActive(f, s))
           /\ Good(MarkActiveRx(f, s)) /\ Moves(f, MarkActiveRx(f, s))
  <1> DEFINE E == [t \in Slots |-> IF t = s THEN Resident(f) \ {s} ELSE f.earlier[t] \ {s}]
             x == IF f.table[s].state = "defunct" THEN "active" ELSE f.table[s].state
             q == [f.table[s] EXCEPT !.state = x]
             r == f.table[s]
  <1>0. IsFrame(f) /\ IsSession(r)
    BY DEF Good, Sound, IsFrame
  <1>1. E = [t \in Slots |-> E[t]] /\ \A t \in Slots : E[t] \subseteq Slots
    BY <1>0 DEF IsFrame, Resident
  <1>2. MarkActive(f, s) = [f EXCEPT !.table = [f.table EXCEPT ![s] = r], !.earlier = E]
    <2>1. [f.table EXCEPT ![s] = r] = f.table
      BY <1>0 DEF IsFrame
    <2>2. MarkActive(f, s) = [f EXCEPT !.earlier = E]
      BY DEF MarkActive
    <2> HIDE DEF E
    <2>3. [f EXCEPT !.earlier = E] = [f EXCEPT !.table = f.table, !.earlier = E]
      BY <1>0 DEF IsFrame, Fields
    <2> QED
      BY <2>1, <2>2, <2>3
  <1>3. MarkActiveRx(f, s) = [f EXCEPT !.table = [f.table EXCEPT ![s] = q], !.earlier = E]
    <2> DEFINE m == [f EXCEPT !.earlier = E]
    <2>1. MarkActive(f, s) = m
      BY DEF MarkActive
    <2>2. MarkActiveRx(f, s) =
             [m EXCEPT !.table[s].state = IF m.table[s].state = "defunct" THEN "active"
                                          ELSE m.table[s].state]
      BY <2>1 DEF MarkActiveRx
    <2> HIDE DEF E
    <2>3. m = [k \in Fields |-> m[k]] /\ m.table = f.table /\ m.earlier = E
      BY <1>0 DEF IsFrame, Fields
    <2>4. [m EXCEPT !.table[s].state = x] = [m EXCEPT !.table = [m.table EXCEPT ![s] = q]]
      BY <2>3
    <2>5. MarkActiveRx(f, s) = [m EXCEPT !.table = [f.table EXCEPT ![s] = q]]
      BY <2>2, <2>3, <2>4
    <2> DEFINE T == [f.table EXCEPT ![s] = q]
    <2> HIDE DEF T
    <2>6. [m EXCEPT !.table = T] = [f EXCEPT !.table = T, !.earlier = E]
      BY <1>0 DEF IsFrame, Fields
    <2> QED
      BY <2>5, <2>6 DEF T
  <1> HIDE DEF E
  <1>4. SameOwner(r, r)
    BY DEF SameOwner
  <1>5. Good(MarkActive(f, s)) /\ Moves(f, MarkActive(f, s))
    <2>1. PICK o : o = r
      OBVIOUS
    <2>2. IsSession(o) /\ SameOwner(f.table[s], o) /\ o.state = f.table[s].state
      BY <1>0, <1>4, <2>1
    <2>3. MarkActive(f, s) = [f EXCEPT !.table = [f.table EXCEPT ![s] = o], !.earlier = E]
      BY <1>2, <2>1
    <2> QED
      BY <1>1, <2>2, <2>3, OneUpdate
  <1>6. r.state = "free" => x = "free"
    OBVIOUS
  <1>7. IsSession(q) /\ q.state = x /\ SameOwner(r, q)
    BY <1>0 DEF IsSession, SessionFields, SameOwner
  <1>8. x = r.state \/ (Usable(q) /\ Usable(r))
    BY <1>7 DEF Usable
  <1> HIDE DEF q, x
  <1>9. Good(MarkActiveRx(f, s)) /\ Moves(f, MarkActiveRx(f, s))
    BY <1>1, <1>3, <1>7, <1>8, OneUpdate
  <1> QED
    BY <1>5, <1>9

(* What MarkActiveRx leaves as it was.                                     *)
LEMMA RxFields ==
    ASSUME NEW f, IsFrame(f), NEW s \in Slots, NEW g, g = MarkActiveRx(f, s)
    PROVE  /\ g = [k \in Fields |-> g[k]]
           /\ g.table = [t \in Slots |-> g.table[t]]
           /\ \A t \in Slots \ {s} : g.table[t] = f.table[t]
           /\ g.table[s] = [k \in SessionFields |-> g.table[s][k]]
           /\ g.table[s].type = f.table[s].type
           /\ g.earlier = [t \in Slots |-> g.earlier[t]]
           /\ \A t \in Slots : g.earlier[t] \subseteq Slots
           /\ g.holder = f.holder /\ g.pairing = f.pairing /\ g.pinned = f.pinned
           /\ g.scheduled = f.scheduled /\ g.died = f.died
  <1> DEFINE E == [t \in Slots |-> IF t = s THEN Resident(f) \ {s} ELSE f.earlier[t] \ {s}]
             m == [f EXCEPT !.earlier = E]
             x == IF m.table[s].state = "defunct" THEN "active" ELSE m.table[s].state
  <1>1. E = [t \in Slots |-> E[t]] /\ \A t \in Slots : E[t] \subseteq Slots
    BY DEF IsFrame, Resident
  <1>2. g = [m EXCEPT !.table[s].state = x]
    BY DEF MarkActiveRx, MarkActive
  <1>3. IsSession(f.table[s]) /\ f.table = [t \in Slots |-> f.table[t]]
    BY DEF IsFrame
  <1> HIDE DEF E, x
  <1>4. /\ m = [k \in Fields |-> m[k]] /\ m.table = f.table /\ m.earlier = E
        /\ m.holder = f.holder /\ m.pairing = f.pairing /\ m.pinned = f.pinned
        /\ m.scheduled = f.scheduled /\ m.died = f.died
    BY DEF IsFrame, Fields
  <1> DEFINE q == [f.table[s] EXCEPT !.state = x]
  <1>5. q = [k \in SessionFields |-> q[k]] /\ q.type = f.table[s].type
    BY <1>3 DEF IsSession, SessionFields
  <1> HIDE DEF m
  <1>6. g = [m EXCEPT !.table = [f.table EXCEPT ![s] = q]]
    BY <1>2, <1>4
  <1> HIDE DEF q
  <1> DEFINE T == [f.table EXCEPT ![s] = q]
  <1>7. T = [t \in Slots |-> T[t]] /\ T[s] = q /\ \A t \in Slots \ {s} : T[t] = f.table[t]
    BY <1>3
  <1>8. g = [m EXCEPT !.table = T]
    BY <1>6
  <1> HIDE DEF T
  <1>9. /\ g = [k \in Fields |-> g[k]] /\ g.table = T /\ g.earlier = m.earlier
        /\ g.holder = m.holder /\ g.pairing = m.pairing /\ g.pinned = m.pinned
        /\ g.scheduled = m.scheduled /\ g.died = m.died
    BY <1>4, <1>8 DEF Fields
  <1> QED
    BY <1>1, <1>4, <1>5, <1>7, <1>9

(* SecureSession::Activate on the session of a pairing session.            *)
LEMMA ActivateOK ==
    ASSUME NEW f, IsFrame(f), HoldersOK(f), NEW s \in Slots, f.table[s].state = "establishing",
           NEW peer, NEW cats, NEW h, h = Activate(f, s, peer, cats)
    PROVE  /\ IsFrame(h) /\ HoldersOK(h) /\ Moves(f, h)
           /\ h.pairing = f.pairing /\ h.pinned = f.pinned
           /\ h.scheduled = f.scheduled /\ h.died = f.died
           /\ h.table[s].state = "active"
           /\ \A t \in Slots \ {s} : h.table[t] = f.table[t]
           /\ \A k \in Holders : h.holder[k] = f.holder[k] \/ (k \notin Keepers /\ h.holder[k] = s)
  <1> DEFINE g == MarkActiveRx(f, s)
             older == {t \in Resident(f) \ {s} :
                         /\ f.table[t].type = "CASE" /\ f.table[t].peer = peer
                         /\ f.table[t].cats = cats}
             isCASE == f.table[s].type = "CASE"
             HH == [k \in Holders |-> IF isCASE /\ k \in Shifters /\ f.holder[k] \in older
                                      THEN s ELSE f.holder[k]]
             q == [g.table[s] EXCEPT !.peer = peer, !.cats = cats, !.state = "active"]
             T == [g.table EXCEPT ![s] = q]
  <1>1. h = [g EXCEPT !.table[s] = q, !.holder = HH]
    BY DEF Activate
  <1>2. /\ g = [k \in Fields |-> g[k]]
        /\ g.table = [t \in Slots |-> g.table[t]]
        /\ \A t \in Slots \ {s} : g.table[t] = f.table[t]
        /\ g.table[s] = [k \in SessionFields |-> g.table[s][k]]
        /\ g.table[s].type = f.table[s].type
        /\ g.earlier = [t \in Slots |-> g.earlier[t]]
        /\ \A t \in Slots : g.earlier[t] \subseteq Slots
        /\ g.holder = f.holder /\ g.pairing = f.pairing /\ g.pinned = f.pinned
        /\ g.scheduled = f.scheduled /\ g.died = f.died
    <2> HIDE DEF g
    <2>1. PICK b : b = g
      OBVIOUS
    <2>2. b = MarkActiveRx(f, s)
      BY <2>1 DEF g
    <2> QED
      BY <2>1, <2>2, RxFields
  <1> HIDE DEF g
  <1>3. /\ q = [k \in SessionFields |-> q[k]] /\ q.type = f.table[s].type
        /\ q.peer = peer /\ q.cats = cats /\ q.state = "active"
    BY <1>2 DEF SessionFields
  <1>4. h = [g EXCEPT !.table = T, !.holder = HH]
    BY <1>1
  <1>5. /\ HH = [k \in Holders |-> HH[k]]
        /\ \A k \in Holders : HH[k] = IF isCASE /\ k \in Shifters /\ f.holder[k] \in older
                                      THEN s ELSE f.holder[k]
    OBVIOUS
  <1> HIDE DEF q, HH
  <1>6. T = [t \in Slots |-> T[t]] /\ T[s] = q /\ \A t \in Slots \ {s} : T[t] = f.table[t]
    BY <1>2
  <1> HIDE DEF T
  <1>7. /\ h = [k \in Fields |-> h[k]] /\ h.table = T /\ h.earlier = g.earlier
        /\ h.holder = HH /\ h.pairing = f.pairing /\ h.pinned = f.pinned
        /\ h.scheduled = f.scheduled /\ h.died = f.died
    BY <1>2, <1>4 DEF Fields
  <1>8. IsSession(q)
    BY <1>3 DEF IsSession
  <1>9. \A t \in Slots : IsSession(T[t])
    BY <1>6, <1>8 DEF IsFrame
  <1>10. \A k \in Holders : HH[k] \in Slots \cup {None}
    BY <1>5 DEF IsFrame
  <1>11. IsFrame(h)
    BY <1>2, <1>5, <1>6, <1>7, <1>9, <1>10 DEF IsFrame
  <1>12. ASSUME NEW k \in Holders, HH[k] # None
         PROVE  /\ f.holder[k] # None /\ SameOwner(f.table[f.holder[k]], T[HH[k]])
                /\ \/ T[HH[k]].state \in {"active", "defunct"}
                   \/ /\ HH[k] = f.holder[k] /\ f.holder[k] # s
                      /\ T[HH[k]].state = "pending" /\ KeptAlone(f, k)
    <2>1. CASE isCASE /\ k \in Shifters /\ f.holder[k] \in older
      <3>1. HH[k] = s
        BY <1>5, <2>1
      <3>2. f.holder[k] \in Slots /\ f.holder[k] # None
        BY <2>1, TableAssumption DEF Resident
      <3>3. /\ f.table[f.holder[k]].type = "CASE" /\ f.table[f.holder[k]].peer = peer
            /\ f.table[f.holder[k]].cats = cats
        BY <2>1
      <3>4. q.type = "CASE"
        BY <1>3, <2>1
      <3> QED
        BY <1>3, <1>6, <3>1, <3>2, <3>3, <3>4 DEF SameOwner
    <2>2. CASE ~(isCASE /\ k \in Shifters /\ f.holder[k] \in older)
      <3>1. HH[k] = f.holder[k]
        BY <1>5, <2>2
      <3>2. /\ f.holder[k] \in Slots
            /\ f.table[f.holder[k]].state \in {"active", "defunct", "pending"}
        BY <1>12, <3>1, HeldStates
      <3>3. f.holder[k] # s
        BY <3>2
      <3>4. T[HH[k]] = f.table[f.holder[k]]
        BY <1>6, <3>1, <3>2, <3>3
      <3>5. \/ f.table[f.holder[k]].state \in {"active", "defunct"}
            \/ KeptAlone(f, k) /\ f.table[f.holder[k]].state = "pending"
        BY <1>12, <3>1 DEF HoldersOK, KeptAlone
      <3> QED
        BY <1>12, <3>1, <3>3, <3>4, <3>5 DEF SameOwner
    <2> QED
      BY <2>1, <2>2
  <1>13. \A k \in Holders : HH[k] = f.holder[k] \/ (k \notin Keepers /\ HH[k] = s)
    BY <1>5, TableAssumption
  <1>14. HoldersOK(h)
    <2> SUFFICES ASSUME NEW k \in Holders, HH[k] # None
                 PROVE  T[HH[k]].state \in {"active", "defunct"} \/ KeptAlone(h, k)
      BY <1>7 DEF HoldersOK
    <2>1. CASE T[HH[k]].state \in {"active", "defunct"}
      BY <2>1
    <2>2. CASE /\ HH[k] = f.holder[k] /\ f.holder[k] # s
               /\ T[HH[k]].state = "pending" /\ KeptAlone(f, k)
      BY <1>7, <1>13, <2>2 DEF KeptAlone
    <2> QED
      BY <1>12, <2>1, <2>2
  <1>15. Moves(f, h)
    BY <1>7, <1>12 DEF Moves
  <1> QED
    BY <1>3, <1>6, <1>7, <1>11, <1>13, <1>14, <1>15

-----------------------------------------------------------------------------
(* The CASEServer.                                                         *)

(* What a handler of the CASEServer needs of the other pairing sessions    *)
(* before it prepares for the next handshake.                              *)
OthersOK(f) ==
    \A p \in Pairings \ {"server"} : f.pairing[p].slot # None =>
        /\ f.table[f.pairing[p].slot].state = "establishing"
        /\ \A q \in Pairings \ {"server"} : f.pairing[p].slot = f.pairing[q].slot => p = q

LEMMA UnservedOK ==
    ASSUME NEW f, IsFrame(f), HoldersOK(f), OthersOK(f), NEW u, u = Unserved(f)
    PROVE  /\ IsFrame(u) /\ HoldersOK(u) /\ PairingsOK(u) /\ Moves(f, u)
           /\ u.table = f.table /\ u.holder = f.holder /\ u.pinned = None
           /\ u.pairing["server"] = Idle
           /\ \A p \in Pairings \ {"server"} : u.pairing[p] = f.pairing[p]
  <1> DEFINE P == [f.pairing EXCEPT !["server"] = Idle]
  <1>1. u = [f EXCEPT !.pairing = P, !.pinned = None]
    BY DEF Unserved
  <1>2. f.pairing = [p \in Pairings |-> f.pairing[p]] /\ "server" \in Pairings
    BY DEF IsFrame, Pairings
  <1>3. /\ P = [p \in Pairings |-> P[p]] /\ P["server"] = Idle
        /\ \A p \in Pairings \ {"server"} : P[p] = f.pairing[p]
    BY <1>2
  <1> HIDE DEF P
  <1>4. /\ u = [k \in Fields |-> u[k]] /\ u.table = f.table /\ u.earlier = f.earlier
        /\ u.holder = f.holder /\ u.pairing = P /\ u.pinned = None
        /\ u.scheduled = f.scheduled /\ u.died = f.died
    BY <1>1 DEF IsFrame, Fields
  <1>5. \A p \in Pairings : IsPairing(P[p])
    BY <1>3, IdleIsPairing DEF IsFrame
  <1>6. IsFrame(u)
    BY <1>3, <1>4, <1>5 DEF IsFrame
  <1>7. HoldersOK(u) /\ Moves(f, u)
    BY <1>4, SameHolders DEF Moves, SameOwner
  <1>8. \A p \in Pairings : P[p].slot # None => p # "server" /\ P[p] = f.pairing[p]
    BY <1>3, IdleIsPairing
  <1>9. PairingsOK(u)
    BY <1>4, <1>8 DEF PairingsOK, OthersOK
  <1> QED
    BY <1>3, <1>4, <1>6, <1>7, <1>9

LEMMA ServerStepOK ==
    ASSUME EnoughSlots, NEW f, IsFrame(f), HoldersOK(f), OthersOK(f), ~f.died,
           NEW handles, handles = {} \/ \E s \in Slots : handles = {s},
           \A s \in Slots \cap handles : f.table[s].state # "establishing",
           NEW hint, NEW e \in PrepareForSessionEstablishment(f, hint, handles),
           NEW g, g = Released(e, {})
    PROVE  Good(g) /\ Moves(f, g)
  <1>1. PICK u : u = Unserved(f)
    OBVIOUS
  <1>2. /\ IsFrame(u) /\ HoldersOK(u) /\ PairingsOK(u) /\ Moves(f, u)
        /\ u.table = f.table
    BY <1>1, UnservedOK
  <1>3. \A s \in Slots \cap handles : u.table[s].state # "establishing"
    BY <1>2
  <1>4. Sound(e, handles) /\ Moves(u, e) /\ ServerOK(e) /\ ~e.died
    <2>1. IsFrame(u) /\ HoldersOK(u) /\ PairingsOK(u)
      BY <1>2
    <2>2. /\ EnoughSlots /\ u = Unserved(f) /\ ~f.died /\ IsFrame(f)
          /\ handles = {} \/ \E s \in Slots : handles = {s}
      BY <1>1
    <2>3. e \in PrepareForSessionEstablishment(f, hint, handles)
      OBVIOUS
    <2> QED
      BY <1>1, <1>3, <2>1, <2>2, <2>3, PrepareOK
  <1>5. Good(g) /\ Moves(e, g)
    BY <1>4, EndOK
  <1> QED
    BY <1>2, <1>4, <1>5, MovesCompose

(* The pinned session is free to be used again when the CASEServer prepares*)
(* after a failure, and every other session stays.                         *)
LEMMA RestartOK ==
    ASSUME EnoughSlots, NEW n, Good(n), n.pairing["server"].state # "off",
           NEW f, IsFrame(f), ~f.died, f.table = n.table, f.holder = n.holder,
           f.pinned = n.pinned,
           \A p \in Pairings \ {"server"} : f.pairing[p] = n.pairing[p],
           NEW e \in PrepareForSessionEstablishment(f, NoPeer, {}),
           NEW g, g = Released(e, {})
    PROVE  /\ Good(g) /\ Moves(n, g)
           /\ \A s \in Slots \ {n.pinned} : n.table[s] # Free => g.table[s] = n.table[s]
  <1>1. /\ Sound(n, {}) /\ IsFrame(n) /\ HoldersOK(n) /\ PairingsOK(n) /\ EstablishingOK(n)
        /\ PendingOK(n, {}) /\ ServerOK(n)
    BY DEF Good, Sound
  <1>2. HoldersOK(f) /\ Moves(n, f)
    BY <1>1, SameHolders DEF Moves, SameOwner
  <1>3. OthersOK(f)
    BY <1>1 DEF PairingsOK, OthersOK
  <1>4. Good(g) /\ Moves(f, g)
    <2>1. \A s \in Slots \cap {} : f.table[s].state # "establishing"
      OBVIOUS
    <2> QED
      BY <1>2, <1>3, <2>1, ServerStepOK
  <1>5. PICK u : u = Unserved(f)
    OBVIOUS
  <1>6. /\ IsFrame(u) /\ HoldersOK(u) /\ PairingsOK(u)
        /\ u.table = n.table /\ u.holder = n.holder /\ u.pinned = None
        /\ u.pairing["server"] = Idle
        /\ \A p \in Pairings \ {"server"} : u.pairing[p] = n.pairing[p]
    BY <1>2, <1>3, <1>5, UnservedOK
  <1> DEFINE server == n.pairing["server"]
  <1>7. "server" \in Pairings /\ IsPairing(server)
    BY <1>1 DEF IsFrame, Pairings
  <1>8. \/ /\ server.slot = n.pinned /\ n.pinned \in Slots
           /\ n.table[n.pinned].state = "establishing"
        \/ /\ server.slot = None /\ n.pinned \in Slots
           /\ n.table[n.pinned].state = "pending"
    <2>1. server.state = "idle" \/ server.state \in {"listening", "handshake"}
      BY <1>7 DEF IsPairing
    <2>2. CASE server.state = "idle"
      <3>1. server.slot = None
        BY <1>7, <2>2 DEF IsPairing
      <3>2. n.pinned # None /\ n.table[n.pinned].state = "pending"
        BY <1>1, <2>2 DEF ServerOK
      <3> QED
        BY <1>1, <3>1, <3>2 DEF IsFrame
    <2>3. CASE server.state \in {"listening", "handshake"}
      <3>1. server.slot \in Slots /\ server.slot # None
        BY <1>7, <2>3, TableAssumption DEF IsPairing
      <3>2. n.pinned = server.slot
        BY <1>1, <2>3 DEF ServerOK
      <3>3. n.table[server.slot].state = "establishing"
        BY <1>1, <1>7, <3>1 DEF PairingsOK
      <3> QED
        BY <3>1, <3>2, <3>3
    <2> QED
      BY <2>1, <2>2, <2>3
  <1>9. n.pinned # None
    BY <1>8, TableAssumption
  <1>10. \A h \in Holders : n.holder[h] # n.pinned
    BY <1>1, <1>9 DEF ServerOK
  <1>11. \A p \in Pairings \ {"server"} : n.pairing[p].slot # n.pinned
    BY <1>1, <1>7, <1>8, <1>9 DEF PairingsOK
  <1>12. \A p \in Pairings : u.pairing[p].slot # n.pinned
    BY <1>6, <1>9, <1>11, IdleIsPairing
  <1>13. n.pinned \notin Referenced(u, {})
    BY <1>6, <1>8, <1>9, <1>10, <1>12 DEF Referenced
  <1>14. FreeSlots(Released(u, {})) # {}
    <2>1. PICK v : v = Released(u, {})
      OBVIOUS
    <2>2. \A s \in Slots : s \in {} \cup {u.pinned} /\ u.table[s].state = "establishing"
                              => Owned(u, s)
      BY <1>6, TableAssumption
    <2>3. \A s \in Slots : v.table[s] = IF s \in Referenced(u, {}) THEN u.table[s] ELSE Free
      BY <1>6, <2>1, <2>2, ReleasedOK
    <2>4. v.table[n.pinned].state = "free"
      BY <1>8, <1>13, <2>3, FreeIsSession
    <2> QED
      BY <1>8, <2>1, <2>4 DEF FreeSlots, Resident
  <1>15. /\ Sound(e, {})
         /\ \A t \in Slots : t \in Referenced(u, {}) => e.table[t] = u.table[t]
    <2>1. \A s \in Slots \cap {} : u.table[s].state # "establishing"
      OBVIOUS
    <2> QED
      BY <1>5, <1>6, <1>14, <2>1, PrepareOK
  <1>16. ASSUME NEW s \in Slots \ {n.pinned}, n.table[s] # Free
         PROVE  g.table[s] = n.table[s]
    <2>1. n.table[s].state # "free"
      BY <1>1, <1>16 DEF IsFrame, IsSession
    <2>2. s \in Referenced(n, {})
      BY <1>1, <2>1, NothingToRelease DEF Resident
    <2>3. \/ n.table[s].state \in {"active", "defunct"}
          \/ \E h \in Holders : n.holder[h] = s
          \/ \E p \in Pairings : n.pairing[p].slot = s
      BY <1>16, <2>2 DEF Referenced
    <2>4. server.slot # s
      BY <1>8, TableAssumption
    <2>5. \/ u.table[s].state \in {"active", "defunct"}
          \/ \E h \in Holders : u.holder[h] = s
          \/ \E p \in Pairings : u.pairing[p].slot = s
      BY <1>6, <2>3, <2>4
    <2>6. s \in Referenced(u, {})
      BY <1>6, <2>1, <2>5 DEF Referenced, Resident
    <2>7. e.table[s] = n.table[s]
      BY <1>6, <1>15, <2>6
    <2>8. s \in Referenced(e, {})
      BY <1>15, <2>1, <2>7, NothingToRelease DEF Resident
    <2>9. \A t \in Slots : t \in {} \cup {e.pinned} /\ e.table[t].state = "establishing"
                              => Owned(e, t)
      BY <1>15 DEF Sound, EstablishingOK
    <2>10. IsFrame(e) /\ HoldersOK(e) /\ PairingsOK(e)
      BY <1>15 DEF Sound
    <2>11. \A t \in Slots : g.table[t] = IF t \in Referenced(e, {}) THEN e.table[t] ELSE Free
      BY <2>9, <2>10, ReleasedOK
    <2> QED
      BY <2>7, <2>8, <2>11
  <1> QED
    BY <1>2, <1>4, <1>16, MovesCompose

-----------------------------------------------------------------------------
(* The actions.                                                            *)

(* A handler ends in a good record, with every holder where it was or moved*)
(* within its peer.                                                        *)
Kept == \E g : Good(g) /\ Moves(Now, g) /\ Become(g)

LEMMA NowIs ==
    ASSUME IInv
    PROVE  /\ Good(Now) /\ Sound(Now, {}) /\ IsFrame(Now) /\ HoldersOK(Now) /\ PairingsOK(Now)
           /\ EstablishingOK(Now) /\ PendingOK(Now, {}) /\ ServerOK(Now) /\ ~Now.died
           /\ Now.table = table /\ Now.earlier = earlier /\ Now.holder = holder
           /\ Now.pairing = pairing /\ Now.pinned = pinned /\ Now.scheduled = scheduled
           /\ Now.died = died
BY DEF IInv, Good, Sound, Now

LEMMA BecomeIs ==
    ASSUME NEW g, IsFrame(g), Become(g)
    PROVE  Now' = g
  <1>1. g = [k \in Fields |-> g[k]]
    BY DEF IsFrame
  <1>2. Now' = [table |-> g.table, earlier |-> g.earlier, holder |-> g.holder,
                pairing |-> g.pairing, pinned |-> g.pinned, scheduled |-> g.scheduled,
                died |-> g.died]
    BY DEF Become, Now
  <1> QED
    BY <1>1, <1>2 DEF Fields

LEMMA MovesItself ==
    ASSUME NEW f, NEW g, g.holder = f.holder, g.table = f.table
    PROVE  Moves(f, g)
BY DEF Moves, SameOwner

(* A pairing session is given another state.                               *)
LEMMA SetPairing ==
    ASSUME NEW f, IsFrame(f), NEW p \in Pairings, NEW x, IsPairing(x), NEW g, g = Taken(f, p, x)
    PROVE  /\ IsFrame(g) /\ Moves(f, g)
           /\ g.pairing[p] = x /\ \A q \in Pairings \ {p} : g.pairing[q] = f.pairing[q]
           /\ g.table = f.table /\ g.holder = f.holder /\ g.pinned = f.pinned
           /\ g.scheduled = f.scheduled /\ g.died = f.died
  <1> DEFINE P == [f.pairing EXCEPT ![p] = x]
  <1>1. g = [f EXCEPT !.pairing = P]
    BY DEF Taken
  <1>2. f.pairing = [q \in Pairings |-> f.pairing[q]]
    BY DEF IsFrame
  <1>3. /\ P = [q \in Pairings |-> P[q]] /\ P[p] = x
        /\ \A q \in Pairings \ {p} : P[q] = f.pairing[q]
    BY <1>2
  <1> HIDE DEF P
  <1>4. /\ g = [k \in Fields |-> g[k]] /\ g.table = f.table /\ g.earlier = f.earlier
        /\ g.holder = f.holder /\ g.pairing = P /\ g.pinned = f.pinned
        /\ g.scheduled = f.scheduled /\ g.died = f.died
    BY <1>1 DEF IsFrame, Fields
  <1>5. \A q \in Pairings : IsPairing(P[q])
    BY <1>3 DEF IsFrame
  <1>6. IsFrame(g)
    BY <1>3, <1>4, <1>5 DEF IsFrame
  <1>7. Moves(f, g)
    BY <1>4, MovesItself
  <1> QED
    BY <1>3, <1>4, <1>6, <1>7

(* A pairing session has let its session go.                               *)
LEMMA SetIdle ==
    ASSUME NEW f, IsFrame(f), HoldersOK(f), PairingsOK(f), NEW p \in Pairings,
           NEW g, g = Taken(f, p, Idle)
    PROVE  /\ IsFrame(g) /\ HoldersOK(g) /\ PairingsOK(g) /\ Moves(f, g)
           /\ g.pairing[p] = Idle /\ \A q \in Pairings \ {p} : g.pairing[q] = f.pairing[q]
           /\ g.table = f.table /\ g.holder = f.holder /\ g.pinned = f.pinned
           /\ g.scheduled = f.scheduled /\ g.died = f.died
  <1>0. PICK x : x = Idle
    OBVIOUS
  <1>1. /\ IsFrame(g) /\ Moves(f, g)
        /\ g.pairing[p] = Idle /\ \A q \in Pairings \ {p} : g.pairing[q] = f.pairing[q]
        /\ g.table = f.table /\ g.holder = f.holder /\ g.pinned = f.pinned
        /\ g.scheduled = f.scheduled /\ g.died = f.died
    <2>1. IsPairing(x) /\ g = Taken(f, p, x)
      BY <1>0, IdleIsPairing
    <2> QED
      BY <1>0, <2>1, SetPairing
  <1>2. HoldersOK(g)
    BY <1>1, SameHolders
  <1>3. \A q \in Pairings : g.pairing[q].slot # None => g.pairing[q] = f.pairing[q]
    BY <1>1, IdleIsPairing
  <1>4. PairingsOK(g)
    BY <1>1, <1>3 DEF PairingsOK
  <1> QED
    BY <1>1, <1>2, <1>4

(* Letting the sessions without references go ends a handler well.         *)
LEMMA ReleaseEnds ==
    ASSUME NEW f, IsFrame(f), HoldersOK(f), PairingsOK(f), ServerOK(f), ~f.died,
           NEW g, g = Released(f, {})
    PROVE  Good(g) /\ Moves(f, g)
  <1>1. \A s \in Slots : s \in {} \cup {f.pinned} /\ f.table[s].state = "establishing"
                            => Owned(f, s)
    <2> SUFFICES ASSUME f.pinned \in Slots, f.table[f.pinned].state = "establishing"
                 PROVE  Owned(f, f.pinned)
      OBVIOUS
    <2> DEFINE server == f.pairing["server"]
    <2>1. "server" \in Pairings /\ IsPairing(server)
      BY DEF IsFrame, Pairings
    <2>2. f.pinned # None
      BY TableAssumption
    <2>3. server.state \in {"listening", "handshake"}
      BY <2>1, <2>2 DEF ServerOK, IsPairing
    <2>4. server.slot = f.pinned
      BY <2>3 DEF ServerOK
    <2> QED
      BY <2>1, <2>4 DEF Owned
  <1>2. /\ Sound(g, {}) /\ Moves(f, g) /\ g.died = f.died
    BY <1>1, ReleasedOK
  <1>3. ServerOK(g)
    BY <1>1, ReleasedServer
  <1> QED
    BY <1>2, <1>3 DEF Good

LEMMA Listen ==
    ASSUME EnoughSlots, IInv, ListenForSessionEstablishment
    PROVE  Kept
  <1>1. PICK e \in PrepareForSessionEstablishment(Now, NoPeer, {}) : Become(Released(e, {}))
    BY DEF ListenForSessionEstablishment
  <1>2. PICK f : f = Now
    OBVIOUS
  <1>3. PICK g : g = Released(e, {})
    OBVIOUS
  <1>4. IsFrame(f) /\ HoldersOK(f) /\ ~f.died /\ PairingsOK(f)
    BY <1>2, NowIs
  <1>5. OthersOK(f)
    BY <1>4 DEF OthersOK, PairingsOK
  <1>6. \A s \in Slots \cap {} : f.table[s].state # "establishing"
    OBVIOUS
  <1>7. e \in PrepareForSessionEstablishment(f, NoPeer, {})
    BY <1>1, <1>2
  <1>8. Good(g) /\ Moves(f, g)
    BY <1>3, <1>4, <1>5, <1>6, <1>7, ServerStepOK
  <1> QED
    BY <1>1, <1>2, <1>3, <1>8 DEF Kept

LEMMA Sigma1 ==
    ASSUME IInv, HandleSigma1
    PROVE  Kept
  <1>1. PICK f : f = Now
    OBVIOUS
  <1>2. PICK x : x = [f.pairing["server"] EXCEPT !.state = "handshake"]
    OBVIOUS
  <1>3. PICK g : g = Taken(f, "server", x)
    OBVIOUS
  <1>4. /\ IsFrame(f) /\ HoldersOK(f) /\ PairingsOK(f) /\ EstablishingOK(f)
        /\ PendingOK(f, {}) /\ ServerOK(f) /\ ~f.died /\ f.pairing = pairing
    BY <1>1, NowIs
  <1>5. /\ "server" \in Pairings /\ IsPairing(f.pairing["server"])
        /\ f.pairing["server"].state = "listening"
    BY <1>4 DEF IsFrame, Pairings, HandleSigma1
  <1>6. IsPairing(x) /\ x.slot = f.pairing["server"].slot /\ x.state = "handshake"
    BY <1>2, <1>5 DEF IsPairing, PairingFields
  <1>7. /\ IsFrame(g) /\ Moves(f, g)
        /\ g.pairing["server"] = x
        /\ \A q \in Pairings \ {"server"} : g.pairing[q] = f.pairing[q]
        /\ g.table = f.table /\ g.holder = f.holder /\ g.pinned = f.pinned
        /\ g.scheduled = f.scheduled /\ g.died = f.died
    BY <1>3, <1>4, <1>5, <1>6, SetPairing
  <1>8. \A q \in Pairings : g.pairing[q].slot = f.pairing[q].slot
    BY <1>6, <1>7
  <1>9. HoldersOK(g) /\ PairingsOK(g) /\ EstablishingOK(g) /\ PendingOK(g, {})
    <2>1. HoldersOK(g)
      BY <1>4, <1>7, SameHolders
    <2>2. PendingOK(g, {})
      BY <1>4, <1>7 DEF PendingOK, KeptSlots
    <2> QED
      BY <1>4, <1>7, <1>8, <2>1, <2>2 DEF PairingsOK, EstablishingOK, Owned
  <1>10. ServerOK(g)
    BY <1>4, <1>5, <1>6, <1>7 DEF ServerOK
  <1>11. Good(g)
    BY <1>4, <1>7, <1>9, <1>10 DEF Good, Sound
  <1>12. Become(g)
    BY <1>1, <1>2, <1>3 DEF HandleSigma1, Taken
  <1> QED
    BY <1>1, <1>7, <1>11, <1>12 DEF Kept

(* A failed handshake costs no other session.                              *)
OthersStay == \A s \in Slots \ {pinned} : table[s] # Free => table'[s] = table[s]

LEMMA ServerFailure ==
    ASSUME EnoughSlots, IInv, ServerFails
    PROVE  Kept /\ OthersStay
  <1>1. PICK n : n = Now
    OBVIOUS
  <1>2. PICK f : f = Taken(n, "server", Idle)
    OBVIOUS
  <1>3. PICK e \in PrepareForSessionEstablishment(f, NoPeer, {}) : Become(Released(e, {}))
    BY <1>1, <1>2 DEF ServerFails, Taken
  <1>4. PICK g : g = Released(e, {})
    OBVIOUS
  <1>5. /\ Good(n) /\ IsFrame(n) /\ HoldersOK(n) /\ PairingsOK(n) /\ ~n.died
        /\ n.table = table /\ n.pairing = pairing /\ n.pinned = pinned
    BY <1>1, NowIs
  <1>6. n.pairing["server"].state # "off"
    BY <1>5 DEF ServerFails
  <1>7. /\ IsFrame(f) /\ ~f.died /\ f.table = n.table /\ f.holder = n.holder
        /\ f.pinned = n.pinned
        /\ \A p \in Pairings \ {"server"} : f.pairing[p] = n.pairing[p]
    <2>1. "server" \in Pairings
      BY DEF Pairings
    <2> QED
      BY <1>2, <1>5, <2>1, SetIdle
  <1>8. /\ Good(g) /\ Moves(n, g)
        /\ \A s \in Slots \ {n.pinned} : n.table[s] # Free => g.table[s] = n.table[s]
    BY <1>4, <1>5, <1>6, <1>7, RestartOK
  <1>9. OthersStay
    BY <1>3, <1>4, <1>5, <1>8 DEF OthersStay, Become
  <1> QED
    BY <1>1, <1>3, <1>4, <1>8, <1>9 DEF Kept

LEMMA ServerRestarts ==
    ASSUME EnoughSlots, IInv, RunScheduled
    PROVE  Kept /\ OthersStay
  <1>1. PICK n : n = Now
    OBVIOUS
  <1>2. PICK f : f = [n EXCEPT !.scheduled = FALSE]
    OBVIOUS
  <1>3. PICK e \in PrepareForSessionEstablishment(f, NoPeer, {}) : Become(Released(e, {}))
    BY <1>1, <1>2 DEF RunScheduled
  <1>4. PICK g : g = Released(e, {})
    OBVIOUS
  <1>5. /\ Good(n) /\ IsFrame(n) /\ ServerOK(n) /\ ~n.died /\ n.scheduled = scheduled
        /\ n.table = table /\ n.pinned = pinned
    BY <1>1, NowIs
  <1>6. n.pairing["server"].state # "off"
    BY <1>5 DEF RunScheduled, ServerOK
  <1>7. /\ f = [k \in Fields |-> f[k]] /\ f.table = n.table /\ f.earlier = n.earlier
        /\ f.holder = n.holder /\ f.pairing = n.pairing /\ f.pinned = n.pinned
        /\ f.scheduled = FALSE /\ f.died = n.died
    BY <1>2, <1>5 DEF IsFrame, Fields
  <1>8. IsFrame(f)
    BY <1>5, <1>7 DEF IsFrame
  <1>9. /\ Good(g) /\ Moves(n, g)
        /\ \A s \in Slots \ {n.pinned} : n.table[s] # Free => g.table[s] = n.table[s]
    BY <1>4, <1>5, <1>6, <1>7, <1>8, RestartOK
  <1>10. OthersStay
    BY <1>3, <1>4, <1>5, <1>9 DEF OthersStay, Become
  <1> QED
    BY <1>1, <1>3, <1>4, <1>9, <1>10 DEF Kept

LEMMA ServerSuccess ==
    ASSUME EnoughSlots, IInv, NEW peer, NEW cats, ServerFinishes(peer, cats)
    PROVE  Kept
  <1>1. PICK n : n = Now
    OBVIOUS
  <1>2. PICK s : s = pairing["server"].slot
    OBVIOUS
  <1>3. PICK f : f = Activate(n, s, peer, cats)
    OBVIOUS
  <1>4. PICK e \in PrepareForSessionEstablishment(f, peer, {s}) : Become(Released(e, {}))
    BY <1>1, <1>2, <1>3 DEF ServerFinishes
  <1>5. PICK g : g = Released(e, {})
    OBVIOUS
  <1>6. /\ IsFrame(n) /\ HoldersOK(n) /\ PairingsOK(n) /\ ~n.died /\ n.pairing = pairing
    BY <1>1, NowIs
  <1>7. "server" \in Pairings /\ IsPairing(n.pairing["server"])
    BY <1>6 DEF IsFrame, Pairings
  <1>8. s \in Slots /\ s # None
    BY <1>2, <1>6, <1>7, TableAssumption DEF ServerFinishes, IsPairing
  <1>9. n.table[s].state = "establishing"
    BY <1>2, <1>6, <1>7, <1>8 DEF PairingsOK
  <1>10. /\ IsFrame(f) /\ HoldersOK(f) /\ Moves(n, f) /\ f.pairing = n.pairing
         /\ f.died = n.died /\ f.table[s].state = "active"
         /\ \A t \in Slots \ {s} : f.table[t] = n.table[t]
    BY <1>3, <1>6, <1>8, <1>9, ActivateOK
  <1>11. OthersOK(f)
    <2> SUFFICES ASSUME NEW p \in Pairings \ {"server"}, n.pairing[p].slot # None
                 PROVE  /\ f.table[n.pairing[p].slot].state = "establishing"
                        /\ \A q \in Pairings \ {"server"} :
                             n.pairing[p].slot = n.pairing[q].slot => p = q
      BY <1>10 DEF OthersOK
    <2>1. IsPairing(n.pairing[p])
      BY <1>6 DEF IsFrame
    <2>2. n.pairing[p].slot \in Slots
      BY <2>1 DEF IsPairing
    <2>3. n.pairing[p].slot # s
      BY <1>2, <1>6, <1>7 DEF PairingsOK
    <2>4. f.table[n.pairing[p].slot] = n.table[n.pairing[p].slot]
      BY <1>10, <2>2, <2>3
    <2> QED
      BY <1>6, <2>4 DEF PairingsOK
  <1>12. \A t \in Slots \cap {s} : f.table[t].state # "establishing"
    BY <1>10
  <1>13. {s} = {} \/ \E t \in Slots : {s} = {t}
    BY <1>8
  <1>14. PICK handles : handles = {s}
    OBVIOUS
  <1>15. Good(g) /\ Moves(f, g)
    <2>1. /\ handles = {} \/ \E t \in Slots : handles = {t}
          /\ \A t \in Slots \cap handles : f.table[t].state # "establishing"
          /\ e \in PrepareForSessionEstablishment(f, peer, handles)
          /\ ~f.died
      BY <1>4, <1>6, <1>10, <1>12, <1>13, <1>14
    <2>2. IsFrame(f) /\ HoldersOK(f)
      BY <1>10
    <2> QED
      BY <1>5, <1>11, <2>1, <2>2, ServerStepOK
  <1>16. Moves(n, g)
    BY <1>10, <1>15, MovesCompose
  <1> QED
    BY <1>1, <1>4, <1>5, <1>15, <1>16 DEF Kept

LEMMA InitiatorSuccess ==
    ASSUME IInv, NEW i \in Initiators, NEW cats, InitiatorFinishes(i, cats)
    PROVE  Kept
  <1>1. PICK n : n = Now
    OBVIOUS
  <1>2. PICK s : s = pairing[i].slot
    OBVIOUS
  <1>3. PICK c : c = IF i \in PASEInitiators THEN NoCATs ELSE cats
    OBVIOUS
  <1>4. PICK f : f = Activate(n, s, pairing[i].peer, c)
    OBVIOUS
  <1>5. PICK g : g = Taken(f, i, Idle)
    OBVIOUS
  <1>6. Become(g)
    BY <1>1, <1>2, <1>3, <1>4, <1>5 DEF InitiatorFinishes, Taken
  <1>7. /\ IsFrame(n) /\ HoldersOK(n) /\ PairingsOK(n) /\ EstablishingOK(n)
        /\ PendingOK(n, {}) /\ ServerOK(n) /\ ~n.died /\ n.pairing = pairing
    BY <1>1, NowIs
  <1>8. /\ i \in Pairings /\ i # "server" /\ "server" \in Pairings
        /\ IsPairing(n.pairing[i])
    BY <1>7, TableAssumption DEF IsFrame, Pairings
  <1>9. s \in Slots /\ s # None
    BY <1>2, <1>7, <1>8, TableAssumption DEF InitiatorFinishes, IsPairing
  <1>10. n.table[s].state = "establishing"
    BY <1>2, <1>7, <1>8, <1>9 DEF PairingsOK
  <1>11. /\ IsFrame(f) /\ HoldersOK(f) /\ Moves(n, f) /\ f.pairing = n.pairing
         /\ f.pinned = n.pinned /\ f.scheduled = n.scheduled
         /\ f.died = n.died /\ f.table[s].state = "active"
         /\ \A t \in Slots \ {s} : f.table[t] = n.table[t]
         /\ \A k \in Holders : \/ f.holder[k] = n.holder[k]
                               \/ k \notin Keepers /\ f.holder[k] = s
    BY <1>4, <1>7, <1>9, <1>10, ActivateOK
  <1>12. /\ IsFrame(g) /\ Moves(f, g)
         /\ g.pairing[i] = Idle /\ \A q \in Pairings \ {i} : g.pairing[q] = f.pairing[q]
         /\ g.table = f.table /\ g.holder = f.holder /\ g.pinned = f.pinned
         /\ g.scheduled = f.scheduled /\ g.died = f.died
    <2>1. PICK x : x = Idle
      OBVIOUS
    <2>2. IsPairing(x) /\ g = Taken(f, i, x) /\ IsFrame(f)
      BY <1>5, <1>11, <2>1, IdleIsPairing
    <2>3. i \in Pairings
      BY <1>8
    <2>4. /\ IsFrame(g) /\ Moves(f, g)
          /\ g.pairing[i] = x /\ \A q \in Pairings \ {i} : g.pairing[q] = f.pairing[q]
          /\ g.table = f.table /\ g.holder = f.holder /\ g.pinned = f.pinned
          /\ g.scheduled = f.scheduled /\ g.died = f.died
      BY <2>2, <2>3, SetPairing
    <2> QED
      BY <2>1, <2>4
  <1>13. HoldersOK(g)
    BY <1>11, <1>12, SameHolders
  <1>14. ASSUME NEW p \in Pairings, g.pairing[p].slot # None
         PROVE  /\ p # i /\ g.pairing[p] = n.pairing[p] /\ n.pairing[p].slot \in Slots \ {s}
                /\ g.table[n.pairing[p].slot] = n.table[n.pairing[p].slot]
    <2>1. p # i /\ g.pairing[p] = n.pairing[p]
      BY <1>11, <1>12, <1>14, IdleIsPairing
    <2>2. IsPairing(n.pairing[p])
      BY <1>7 DEF IsFrame
    <2>3. n.pairing[p].slot \in Slots
      BY <1>14, <2>1, <2>2 DEF IsPairing
    <2>4. n.pairing[p].slot # s
      BY <1>2, <1>7, <1>8, <1>14, <2>1 DEF PairingsOK
    <2> QED
      BY <1>11, <1>12, <2>1, <2>3, <2>4
  <1>15. PairingsOK(g)
    BY <1>7, <1>14 DEF PairingsOK
  <1>16. EstablishingOK(g)
    <2> SUFFICES ASSUME NEW t \in Slots, g.table[t].state = "establishing"
                 PROVE  Owned(g, t)
      BY DEF EstablishingOK
    <2>1. t # s /\ n.table[t].state = "establishing"
      BY <1>11, <1>12
    <2>2. PICK p \in Pairings : n.pairing[p].slot = t
      BY <1>7, <2>1 DEF EstablishingOK, Owned
    <2>3. p # i
      BY <1>2, <1>7, <2>1, <2>2
    <2> QED
      BY <1>11, <1>12, <2>2, <2>3 DEF Owned
  <1>17. PendingOK(g, {})
    <2> SUFFICES ASSUME NEW t \in Slots, g.table[t].state = "pending"
                 PROVE  t \in {} \cup {g.pinned} \cup KeptSlots(g)
      BY DEF PendingOK
    <2>1. n.table[t].state = "pending"
      BY <1>11, <1>12
    <2>2. KeptSlots(g) = KeptSlots(n)
      BY <1>11, <1>12, TableAssumption DEF KeptSlots
    <2> QED
      BY <1>7, <1>11, <1>12, <2>1, <2>2 DEF PendingOK
  <1>18. ServerOK(g)
    <2>1. g.pairing["server"] = n.pairing["server"]
      BY <1>8, <1>11, <1>12
    <2>2. n.pinned # None /\ n.table[n.pinned].state = "pending" =>
             g.table[n.pinned].state = "pending"
      <3> SUFFICES ASSUME n.pinned # None, n.table[n.pinned].state = "pending"
                   PROVE  g.table[n.pinned].state = "pending"
        OBVIOUS
      <3>1. n.pinned \in Slots
        BY <1>7 DEF IsFrame
      <3>2. n.pinned # s
        BY <1>10
      <3> QED
        BY <1>11, <1>12, <3>1, <3>2
    <2>3. n.pinned # s
      <3>1. n.pairing["server"].slot # s
        BY <1>2, <1>7, <1>8, <1>9 DEF PairingsOK
      <3>2. IsPairing(n.pairing["server"])
        BY <1>7, <1>8 DEF IsFrame
      <3> QED
        BY <1>7, <1>9, <1>10, <3>1, <3>2 DEF ServerOK, IsPairing
    <2>4. \A k \in Holders : g.holder[k] # None => g.holder[k] # g.pinned
      BY <1>7, <1>11, <1>12, <2>3 DEF ServerOK
    <2> QED
      BY <1>7, <1>11, <1>12, <2>1, <2>2, <2>4 DEF ServerOK
  <1>19. Good(g)
    BY <1>7, <1>11, <1>12, <1>13, <1>15, <1>16, <1>17, <1>18 DEF Good, Sound
  <1>20. Moves(n, g)
    BY <1>11, <1>12, MovesCompose
  <1> QED
    BY <1>1, <1>6, <1>19, <1>20 DEF Kept

LEMMA InitiatorFailure ==
    ASSUME IInv, NEW i \in Initiators, InitiatorFails(i)
    PROVE  Kept
  <1>1. PICK n : n = Now
    OBVIOUS
  <1>2. PICK f : f = Taken(n, i, Idle)
    OBVIOUS
  <1>3. PICK g : g = Released(f, {})
    OBVIOUS
  <1>4. Become(g)
    BY <1>1, <1>2, <1>3 DEF InitiatorFails, Taken
  <1>5. /\ IsFrame(n) /\ HoldersOK(n) /\ PairingsOK(n) /\ ServerOK(n) /\ ~n.died
    BY <1>1, NowIs
  <1>6. i \in Pairings /\ i # "server" /\ "server" \in Pairings
    BY TableAssumption DEF Pairings
  <1>7. /\ IsFrame(f) /\ HoldersOK(f) /\ PairingsOK(f) /\ Moves(n, f)
        /\ \A q \in Pairings \ {i} : f.pairing[q] = n.pairing[q]
        /\ f.table = n.table /\ f.holder = n.holder /\ f.pinned = n.pinned
        /\ f.scheduled = n.scheduled /\ f.died = n.died
    BY <1>2, <1>5, <1>6, SetIdle, SMTT(30)
  <1>8. ServerOK(f) /\ ~f.died
    BY <1>5, <1>6, <1>7 DEF ServerOK
  <1>9. Good(g) /\ Moves(f, g)
    BY <1>3, <1>7, <1>8, ReleaseEnds
  <1>10. Moves(n, g)
    BY <1>7, <1>9, MovesCompose
  <1> QED
    BY <1>1, <1>4, <1>9, <1>10 DEF Kept

LEMMA Establish ==
    ASSUME EnoughSlots, IInv, NEW i \in Initiators, NEW peer, NEW on \in OnStack,
           EstablishSession(i, peer, on)
    PROVE  Kept
  <1>1. PICK n : n = Now
    OBVIOUS
  <1>2. PICK type, hint :
           /\ type = IF i \in PASEInitiators THEN "PASE" ELSE "CASE"
           /\ hint = IF i \in PASEInitiators THEN NoPeer ELSE peer
    OBVIOUS
  <1>3. PICK r \in CreateNewSecureSession(n, type, hint, on) :
           Become(Released([r.f EXCEPT !.pairing[i] =
                              IF r.f.died THEN r.f.pairing[i]
                              ELSE [slot |-> r.slot, state |-> "handshake", peer |-> peer]], {}))
    BY <1>1, <1>2 DEF EstablishSession
  <1>4. /\ Sound(n, {}) /\ IsFrame(n) /\ ServerOK(n) /\ ~n.died /\ n.pairing = pairing
    BY <1>1, NowIs
  <1>5. on = {} \/ \E s \in Slots : on = {s}
    BY DEF OnStack
  <1>6. Sound(n, on)
    BY <1>4 DEF Sound, PendingOK
  <1>7. PICK g : Room(n, g, on, r.slot) /\ r.f = CreateObject(g, type, r.slot)
    BY <1>5, <1>6, CreateOK
  <1>8. /\ Sound(g, on) /\ Moves(n, g) /\ g.died = n.died /\ g.pinned = n.pinned
        /\ ServerOK(g) /\ r.slot \in Slots /\ g.table[r.slot].state = "free"
        /\ \A p \in Pairings : n.pairing[p].slot = None => g.pairing[p] = n.pairing[p]
    BY <1>4, <1>7 DEF Room
  <1>9. /\ i \in Pairings /\ i # "server" /\ "server" \in Pairings
        /\ IsPairing(n.pairing[i]) /\ IsFrame(g)
    BY <1>4, <1>8, TableAssumption DEF IsFrame, Pairings, Sound
  <1>10. g.pairing[i].slot = None
    <2>1. n.pairing[i].slot = None
      BY <1>4, <1>9 DEF EstablishSession, IsPairing
    <2> QED
      BY <1>8, <1>9, <2>1
  <1>11. PICK x : x = [slot |-> r.slot, state |-> "handshake", peer |-> peer]
    OBVIOUS
  <1>12. IsPairing(x) /\ x.slot = r.slot
    BY <1>8, <1>11, TableAssumption DEF IsPairing, PairingFields
  <1>13. PICK h : h = Taken(CreateObject(g, type, r.slot), i, x)
    OBVIOUS
  <1>14. ~r.f.died
    BY <1>4, <1>7, <1>8, <1>9 DEF CreateObject, IsFrame, Fields
  <1>15. Become(Released(h, {}))
    BY <1>3, <1>7, <1>11, <1>13, <1>14 DEF Taken
  <1>16. /\ Sound(h, on) /\ Moves(g, h)
         /\ h.pairing[i] = x /\ \A q \in Pairings \ {i} : h.pairing[q] = g.pairing[q]
         /\ h.pinned = g.pinned /\ h.died = g.died /\ h.scheduled = g.scheduled
         /\ h.holder = g.holder
         /\ \A t \in Slots \ {r.slot} : h.table[t] = g.table[t]
    <2>1. PICK s \in Slots : s = r.slot
      BY <1>8
    <2>2. /\ Sound(g, on) /\ g.table[s].state = "free" /\ i \in Pairings /\ x.slot = s
          /\ h = Taken(CreateObject(g, type, s), i, x)
      BY <1>8, <1>9, <1>12, <1>13, <2>1
    <2>3. /\ Sound(h, on) /\ Moves(g, h)
          /\ h.pairing[i] = x /\ \A q \in Pairings \ {i} : h.pairing[q] = g.pairing[q]
          /\ h.pinned = g.pinned /\ h.died = g.died /\ h.scheduled = g.scheduled
          /\ h.holder = g.holder
          /\ \A t \in Slots \ {s} : h.table[t] = g.table[t]
      BY <1>10, <1>12, <2>2, TakenOK
    <2> QED
      BY <2>1, <2>3
  <1>17. ServerOK(h)
    <2>1. h.pairing["server"] = g.pairing["server"]
      BY <1>9, <1>16
    <2>2. g.pinned # None /\ g.table[g.pinned].state = "pending" =>
             h.table[g.pinned].state = "pending"
      <3> SUFFICES ASSUME g.pinned # None, g.table[g.pinned].state = "pending"
                   PROVE  h.table[g.pinned].state = "pending"
        OBVIOUS
      <3>1. g.pinned \in Slots
        BY <1>9 DEF IsFrame
      <3>2. g.pinned # r.slot
        BY <1>8
      <3> QED
        BY <1>16, <3>1, <3>2
    <2> QED
      BY <1>8, <1>16, <2>1, <2>2 DEF ServerOK
  <1>18. PICK e : e = Released(h, {})
    OBVIOUS
  <1>19. Good(e) /\ Moves(h, e)
    <2>1. ~h.died /\ Sound(h, on)
      BY <1>4, <1>8, <1>16
    <2> QED
      BY <1>17, <1>18, <2>1, EndOK
  <1>20. Moves(n, e)
    BY <1>8, <1>16, <1>19, MovesCompose
  <1> QED
    BY <1>1, <1>15, <1>18, <1>19, <1>20 DEF Kept

LEMMA PinnedStates ==
    ASSUME NEW f, IsFrame(f), PairingsOK(f), ServerOK(f), f.pinned \in Slots
    PROVE  f.table[f.pinned].state \in {"establishing", "pending"}
  <1>1. "server" \in Pairings /\ IsPairing(f.pairing["server"])
    BY DEF IsFrame, Pairings
  <1>2. f.pinned # None
    BY TableAssumption
  <1>3. f.pairing["server"].slot # None =>
           f.table[f.pairing["server"].slot].state = "establishing"
    BY <1>1 DEF PairingsOK
  <1> QED
    BY <1>1, <1>2, <1>3 DEF ServerOK, IsPairing

(* A SessionHolder takes a session, or lets it go.                         *)
SetHolder(f, h, x) == [f EXCEPT !.holder[h] = x]

MayTake(f, h, x) ==
    \/ f.table[x].state \in {"active", "defunct"}
    \/ /\ h \in Keepers /\ f.table[x].state = "pending"
       /\ \A k \in Holders : f.holder[k] # x

LEMMA SetHolderOK ==
    ASSUME NEW f, IsFrame(f), HoldersOK(f), PairingsOK(f), ServerOK(f), NEW h \in Holders,
           NEW x \in Slots \cup {None}, x # None => MayTake(f, h, x) /\ x # f.pinned,
           NEW g, g = SetHolder(f, h, x)
    PROVE  /\ IsFrame(g) /\ HoldersOK(g) /\ PairingsOK(g) /\ ServerOK(g)
           /\ g.holder[h] = x /\ \A k \in Holders \ {h} : g.holder[k] = f.holder[k]
           /\ g.table = f.table /\ g.pairing = f.pairing /\ g.pinned = f.pinned
           /\ g.died = f.died
  <1> DEFINE HH == [f.holder EXCEPT ![h] = x]
  <1>1. g = [f EXCEPT !.holder = HH]
    BY DEF SetHolder
  <1>2. f.holder = [k \in Holders |-> f.holder[k]]
    BY DEF IsFrame
  <1>3. /\ HH = [k \in Holders |-> HH[k]] /\ HH[h] = x
        /\ \A k \in Holders \ {h} : HH[k] = f.holder[k]
    BY <1>2
  <1> HIDE DEF HH
  <1>4. /\ g = [k \in Fields |-> g[k]] /\ g.table = f.table /\ g.earlier = f.earlier
        /\ g.holder = HH /\ g.pairing = f.pairing /\ g.pinned = f.pinned
        /\ g.scheduled = f.scheduled /\ g.died = f.died
    BY <1>1 DEF IsFrame, Fields
  <1>5. \A k \in Holders : HH[k] \in Slots \cup {None}
    BY <1>3 DEF IsFrame
  <1>6. IsFrame(g)
    BY <1>3, <1>4, <1>5 DEF IsFrame
  <1>7. HoldersOK(g)
    <2> SUFFICES ASSUME NEW k \in Holders, HH[k] # None
                 PROVE  f.table[HH[k]].state \in {"active", "defunct"} \/ KeptAlone(g, k)
      BY <1>4 DEF HoldersOK
    <2>1. CASE k = h
      BY <1>3, <1>4, <2>1 DEF KeptAlone, MayTake
    <2>2. CASE k # h
      <3>1. HH[k] = f.holder[k] /\ f.holder[k] # None
        BY <1>3, <2>2
      <3>2. CASE f.table[f.holder[k]].state \in {"active", "defunct"}
        BY <3>1, <3>2
      <3>3. CASE KeptAlone(f, k)
        <4>1. x # f.holder[k]
          BY <3>1, <3>3 DEF KeptAlone, MayTake
        <4> QED
          BY <1>3, <1>4, <3>1, <3>3, <4>1 DEF KeptAlone
      <3> QED
        BY <3>1, <3>2, <3>3 DEF HoldersOK
    <2> QED
      BY <2>1, <2>2
  <1>8. PairingsOK(g) /\ ServerOK(g)
    <2>1. \A k \in Holders : HH[k] # None => HH[k] # f.pinned
      BY <1>3 DEF ServerOK
    <2> QED
      BY <1>4, <2>1 DEF PairingsOK, ServerOK
  <1> QED
    BY <1>3, <1>4, <1>6, <1>7, <1>8

LEMMA HolderReleased ==
    ASSUME IInv, NEW h \in Holders, ReleaseHolder(h)
    PROVE  Kept
  <1>1. PICK n : n = Now
    OBVIOUS
  <1>2. PICK f, x : x = None /\ f = SetHolder(n, h, x)
    OBVIOUS
  <1>3. PICK g : g = Released(f, {})
    OBVIOUS
  <1>4. Become(g)
    BY <1>1, <1>2, <1>3 DEF ReleaseHolder, SetHolder
  <1>5. IsFrame(n) /\ HoldersOK(n) /\ PairingsOK(n) /\ ServerOK(n) /\ ~n.died
    BY <1>1, NowIs
  <1>6. /\ IsFrame(f) /\ HoldersOK(f) /\ PairingsOK(f) /\ ServerOK(f)
        /\ f.holder[h] = x /\ \A k \in Holders \ {h} : f.holder[k] = n.holder[k]
        /\ f.table = n.table /\ f.died = n.died
    <2>1. x \in Slots \cup {None} /\ x = None
      BY <1>2
    <2> QED
      BY <1>2, <1>5, <2>1, SetHolderOK
  <1>7. Good(g) /\ Moves(f, g)
    BY <1>3, <1>5, <1>6, ReleaseEnds
  <1>8. Moves(n, f)
    BY <1>2, <1>6 DEF Moves, SameOwner
  <1>9. Moves(n, g)
    BY <1>7, <1>8, MovesCompose
  <1> QED
    BY <1>1, <1>4, <1>7, <1>9 DEF Kept

(* The one step after which a holder holds a session that held none.       *)
LEMMA HolderGrabs ==
    ASSUME IInv, NEW h \in Holders, NEW s \in Slots, Grab(h, s)
    PROVE  \E g : /\ Good(g) /\ Become(g) /\ holder[h] = None /\ g.table = table
                  /\ \A k \in Holders \ {h} : g.holder[k] = holder[k]
  <1>1. PICK n : n = Now
    OBVIOUS
  <1>2. PICK g : g = SetHolder(n, h, s)
    OBVIOUS
  <1>3. Become(g)
    BY <1>1, <1>2 DEF Grab, SetHolder
  <1>4. /\ IsFrame(n) /\ HoldersOK(n) /\ PairingsOK(n) /\ EstablishingOK(n)
        /\ PendingOK(n, {}) /\ ServerOK(n) /\ ~n.died /\ n.table = table /\ n.holder = holder
    BY <1>1, NowIs
  <1>5. /\ IsFrame(g) /\ HoldersOK(g) /\ PairingsOK(g) /\ ServerOK(g)
        /\ \A k \in Holders \ {h} : g.holder[k] = n.holder[k]
        /\ g.table = n.table /\ g.pairing = n.pairing /\ g.pinned = n.pinned
        /\ g.died = n.died
    <2>1. s \in Slots \cup {None} /\ MayTake(n, h, s)
      BY <1>4 DEF Grab, MayTake
    <2>2. s # n.pinned
      BY <1>4, PinnedStates DEF Grab
    <2> QED
      BY <1>2, <1>4, <2>1, <2>2, SetHolderOK
  <1>6. EstablishingOK(g) /\ PendingOK(g, {})
    <2>1. KeptSlots(n) \cap Slots \subseteq KeptSlots(g)
      <3> SUFFICES ASSUME NEW k \in Keepers, n.holder[k] \in Slots
                   PROVE  n.holder[k] \in KeptSlots(g)
        BY DEF KeptSlots
      <3>1. k # h /\ k \in Holders
        BY <1>4, TableAssumption DEF Grab
      <3> QED
        BY <1>5, <3>1 DEF KeptSlots
    <2>2. PendingOK(g, {})
      BY <1>4, <1>5, <2>1 DEF PendingOK
    <2> QED
      BY <1>4, <1>5, <2>2 DEF EstablishingOK, Owned
  <1>7. Good(g)
    BY <1>4, <1>5, <1>6 DEF Good, Sound
  <1> QED
    BY <1>3, <1>4, <1>5, <1>7 DEF Grab

LEMMA OneSession ==
    ASSUME NEW f, Good(f), NEW s \in Slots, NEW q, IsSession(q), SameOwner(f.table[s], q),
           q.state = f.table[s].state \/ (Usable(q) /\ Usable(f.table[s])),
           NEW g, g = [f EXCEPT !.table = [f.table EXCEPT ![s] = q]]
    PROVE  Good(g) /\ Moves(f, g)
  <1>1. IsFrame(f)
    BY DEF Good, Sound
  <1>2. PICK E : E = f.earlier
    OBVIOUS
  <1>3. E = [t \in Slots |-> E[t]] /\ \A t \in Slots : E[t] \subseteq Slots
    BY <1>1, <1>2 DEF IsFrame
  <1> DEFINE T == [f.table EXCEPT ![s] = q]
  <1> HIDE DEF T
  <1>4. [f EXCEPT !.table = T] = [f EXCEPT !.table = T, !.earlier = E]
    BY <1>1, <1>2 DEF IsFrame, Fields
  <1>5. g = [f EXCEPT !.table = [f.table EXCEPT ![s] = q], !.earlier = E]
    BY <1>4 DEF T
  <1> QED
    BY <1>3, <1>5, OneUpdate

LEMMA Received ==
    ASSUME IInv, NEW s \in Slots, MessageReceived(s) \/ MessageSent(s)
    PROVE  Kept
  <1>1. PICK n : n = Now
    OBVIOUS
  <1>2. Good(n)
    BY <1>1, NowIs
  <1>3. /\ Good(MarkActive(n, s)) /\ Moves(n, MarkActive(n, s))
        /\ Good(MarkActiveRx(n, s)) /\ Moves(n, MarkActiveRx(n, s))
    BY <1>2, MarkActiveOK
  <1>4. Become(MarkActive(n, s)) \/ Become(MarkActiveRx(n, s))
    BY <1>1 DEF MessageReceived, MessageSent
  <1> QED
    BY <1>1, <1>3, <1>4 DEF Kept

LEMMA Defunct ==
    ASSUME IInv, NEW s \in Slots, MarkAsDefunct(s)
    PROVE  Kept
  <1>1. PICK n : n = Now
    OBVIOUS
  <1>2. Good(n) /\ IsFrame(n) /\ n.table = table
    BY <1>1, NowIs
  <1>3. PICK q : q = [n.table[s] EXCEPT !.state = "defunct"]
    OBVIOUS
  <1>4. PICK g : g = [n EXCEPT !.table = [n.table EXCEPT ![s] = q]]
    OBVIOUS
  <1>5. Become(g)
    BY <1>1, <1>3, <1>4 DEF MarkAsDefunct
  <1>6. IsSession(n.table[s]) /\ n.table[s].state = "active"
    BY <1>2 DEF IsFrame, MarkAsDefunct
  <1>7. IsSession(q) /\ q.state = "defunct" /\ SameOwner(n.table[s], q)
    BY <1>3, <1>6 DEF IsSession, SessionFields, SameOwner
  <1>8. Usable(q) /\ Usable(n.table[s])
    BY <1>6, <1>7 DEF Usable
  <1>9. Good(g) /\ Moves(n, g)
    BY <1>2, <1>4, <1>7, <1>8, OneSession
  <1> QED
    BY <1>1, <1>5, <1>9 DEF Kept

LEMMA Adopt ==
    ASSUME IInv, NEW s \in Slots, NEW fabric, AdoptFabricIndex(s, fabric)
    PROVE  Kept
  <1>1. PICK n : n = Now
    OBVIOUS
  <1>2. Good(n) /\ IsFrame(n) /\ n.table = table
    BY <1>1, NowIs
  <1>3. PICK q : q = [n.table[s] EXCEPT !.peer = [n.table[s].peer EXCEPT !.fabric = fabric]]
    OBVIOUS
  <1>4. PICK g : g = [n EXCEPT !.table = [n.table EXCEPT ![s] = q]]
    OBVIOUS
  <1>5. Become(g)
    BY <1>1, <1>3, <1>4 DEF AdoptFabricIndex
  <1>6. /\ IsSession(n.table[s]) /\ n.table[s].state = "active"
        /\ n.table[s].type = "PASE"
    BY <1>2 DEF IsFrame, AdoptFabricIndex
  <1>7. IsSession(q) /\ q.state = "active" /\ SameOwner(n.table[s], q)
    <2>1. PICK o : o = [n.table[s].peer EXCEPT !.fabric = fabric]
      OBVIOUS
    <2>2. q = [n.table[s] EXCEPT !.peer = o]
      BY <1>3, <2>1
    <2> QED
      BY <1>6, <2>2 DEF IsSession, SessionFields, SameOwner
  <1>8. Good(g) /\ Moves(n, g)
    BY <1>2, <1>4, <1>6, <1>7, OneSession
  <1> QED
    BY <1>1, <1>5, <1>8 DEF Kept

LEMMA Expired ==
    ASSUME IInv, NEW S, Expire(S)
    PROVE  Kept
  <1>1. PICK n : n = Now
    OBVIOUS
  <1>2. PICK f : f = MarkForEviction(n, S)
    OBVIOUS
  <1>3. PICK g : g = Released(f, {})
    OBVIOUS
  <1>4. Become(g)
    BY <1>1, <1>2, <1>3 DEF Expire
  <1>5. /\ IsFrame(n) /\ HoldersOK(n) /\ PairingsOK(n) /\ EstablishingOK(n)
        /\ ServerOK(n) /\ ~n.died
    BY <1>1, NowIs
  <1>6. /\ IsFrame(f) /\ HoldersOK(f) /\ PairingsOK(f) /\ f.died = n.died
        /\ (ServerOK(n) => ServerOK(f)) /\ Moves(n, f)
    BY <1>2, <1>5, EvictionOK
  <1>7. Good(g) /\ Moves(f, g)
    BY <1>3, <1>5, <1>6, ReleaseEnds
  <1>8. Moves(n, g)
    BY <1>6, <1>7, MovesCompose
  <1> QED
    BY <1>1, <1>4, <1>7, <1>8 DEF Kept

(* The fabric's sessions expire and the exchange takes its own one back.   *)
LEMMA OthersAborted ==
    ASSUME IInv, NEW h \in Keepers, AbortAllOtherCommunicationOnFabric(h)
    PROVE  Kept
  <1>1. PICK n : n = Now
    OBVIOUS
  <1>2. PICK s : s = holder[h]
    OBVIOUS
  <1>3. PICK S : S = {t \in Resident(n) : Fabric(n, t) = Fabric(n, s)}
    OBVIOUS
  <1>4. PICK f : f = MarkForEviction(n, S)
    OBVIOUS
  <1>5. PICK e : e = SetHolder(f, h, s)
    OBVIOUS
  <1>6. PICK g : g = Released(e, {})
    OBVIOUS
  <1>7. Become(g)
    BY <1>1, <1>2, <1>3, <1>4, <1>5, <1>6
       DEF AbortAllOtherCommunicationOnFabric, SetHolder
  <1>8. /\ IsFrame(n) /\ HoldersOK(n) /\ PairingsOK(n) /\ EstablishingOK(n)
        /\ ServerOK(n) /\ ~n.died /\ n.holder = holder /\ n.table = table
    BY <1>1, NowIs
  <1>9. h \in Holders /\ s \in Slots /\ s # None /\ n.table[s].state = "active"
    BY <1>2, <1>8, TableAssumption DEF AbortAllOtherCommunicationOnFabric, IsFrame
  <1>10. s \in Hit(n, S)
    BY <1>3, <1>9 DEF Hit, Resident
  <1>11. /\ IsFrame(f) /\ HoldersOK(f) /\ PairingsOK(f)
         /\ f.pinned = n.pinned /\ f.died = n.died /\ f.table[s].state = "pending"
         /\ SameOwner(n.table[s], f.table[s])
         /\ \A k \in Holders : f.holder[k] # s
         /\ (ServerOK(n) => ServerOK(f)) /\ Moves(n, f)
    BY <1>4, <1>8, <1>9, <1>10, EvictionOK
  <1>12. s # f.pinned
    BY <1>8, <1>9, <1>11, PinnedStates
  <1>13. MayTake(f, h, s)
    BY <1>11 DEF MayTake
  <1>14. /\ IsFrame(e) /\ HoldersOK(e) /\ PairingsOK(e) /\ ServerOK(e)
         /\ e.holder[h] = s /\ \A k \in Holders \ {h} : e.holder[k] = f.holder[k]
         /\ e.table = f.table /\ e.died = f.died
    BY <1>5, <1>8, <1>9, <1>11, <1>12, <1>13, SetHolderOK
  <1>15. Moves(n, e)
    <2> SUFFICES ASSUME NEW k \in Holders, e.holder[k] # None
                 PROVE  /\ n.holder[k] # None
                        /\ SameOwner(n.table[n.holder[k]], e.table[e.holder[k]])
      BY DEF Moves
    <2>1. CASE k = h
      BY <1>2, <1>8, <1>9, <1>11, <1>14, <2>1
    <2>2. CASE k # h
      BY <1>11, <1>14, <2>2 DEF Moves
    <2> QED
      BY <2>1, <2>2
  <1>16. Good(g) /\ Moves(e, g)
    BY <1>6, <1>8, <1>11, <1>14, ReleaseEnds
  <1>17. Moves(n, g)
    BY <1>15, <1>16, MovesCompose
  <1> QED
    BY <1>1, <1>7, <1>16, <1>17 DEF Kept

-----------------------------------------------------------------------------
(* The theorems.                                                           *)

LEMMA InitOK ==
    ASSUME Init
    PROVE  IInv
  <1>1. PICK n : n = Now
    OBVIOUS
  <1>2. /\ n = [k \in Fields |-> n[k]]
        /\ n.table = [s \in Slots |-> Free] /\ n.earlier = [s \in Slots |-> {}]
        /\ n.holder = [h \in Holders |-> None]
        /\ n.pairing = [p \in Pairings |-> IF p = "server" THEN [Idle EXCEPT !.state = "off"]
                                           ELSE Idle]
        /\ n.pinned = None /\ n.scheduled = FALSE /\ n.died = FALSE
    BY <1>1 DEF Init, Now, Fields
  <1>3. PICK x : x = [Idle EXCEPT !.state = "off"]
    OBVIOUS
  <1>4. IsPairing(x) /\ x.slot = None /\ x.state = "off"
    BY <1>3 DEF IsPairing, PairingFields, Idle
  <1>5. /\ \A p \in Pairings : n.pairing[p] = IF p = "server" THEN x ELSE Idle
        /\ n.pairing = [p \in Pairings |-> n.pairing[p]]
    BY <1>2, <1>3
  <1>6. \A p \in Pairings : IsPairing(n.pairing[p]) /\ n.pairing[p].slot = None
    BY <1>4, <1>5, IdleIsPairing
  <1>7. \A s \in Slots : n.table[s] = Free
    BY <1>2
  <1>8. IsFrame(n)
    BY <1>2, <1>5, <1>6, <1>7, FreeIsSession DEF IsFrame
  <1>9. HoldersOK(n)
    BY <1>2 DEF HoldersOK
  <1>10. PairingsOK(n)
    BY <1>6 DEF PairingsOK
  <1>11. EstablishingOK(n) /\ PendingOK(n, {})
    BY <1>7, FreeIsSession DEF EstablishingOK, PendingOK
  <1>12. ServerOK(n)
    <2>1. n.pairing["server"] = x
      BY <1>5 DEF Pairings
    <2> QED
      BY <1>2, <1>4, <2>1 DEF ServerOK
  <1>13. Good(n)
    BY <1>2, <1>8, <1>9, <1>10, <1>11, <1>12 DEF Good, Sound
  <1> QED
    BY <1>1, <1>13 DEF IInv

LEMMA KeptHolds ==
    ASSUME Kept
    PROVE  IInv' /\ Moves(Now, Now')
  <1>1. PICK g : Good(g) /\ Moves(Now, g) /\ Become(g)
    BY DEF Kept
  <1>2. Now' = g
    BY <1>1, BecomeIs DEF Good, Sound
  <1> QED
    BY <1>1, <1>2 DEF IInv

(* What HolderKeepsPeer says of a step.                                    *)
PeerKept ==
    \A h \in Holders : holder[h] # None /\ holder'[h] # None =>
         LET old == table[holder[h]]
             new == table'[holder'[h]] IN
         /\ old.cats = new.cats
         /\ old.type = "CASE" => old.peer = new.peer

LEMMA KeptIsPeerKept ==
    ASSUME Kept
    PROVE  IInv' /\ PeerKept
  <1>1. IInv' /\ Moves(Now, Now')
    BY KeptHolds
  <1>2. /\ Now.holder = holder /\ Now.table = table
        /\ Now'.holder = holder' /\ Now'.table = table'
    BY DEF Now
  <1> QED
    BY <1>1, <1>2 DEF PeerKept, Moves, SameOwner

LEMMA GrabIsPeerKept ==
    ASSUME IInv, NEW h \in Holders, NEW s \in Slots, Grab(h, s)
    PROVE  IInv' /\ PeerKept
  <1>1. PICK g : /\ Good(g) /\ Become(g) /\ holder[h] = None /\ g.table = table
                 /\ \A k \in Holders \ {h} : g.holder[k] = holder[k]
    BY HolderGrabs
  <1>2. Now' = g
    BY <1>1, BecomeIs DEF Good, Sound
  <1>3. IInv'
    BY <1>1, <1>2 DEF IInv
  <1>4. table' = table /\ \A k \in Holders \ {h} : holder'[k] = holder[k]
    BY <1>1 DEF Become
  <1> QED
    BY <1>1, <1>3, <1>4 DEF PeerKept

LEMMA StepOK ==
    ASSUME EnoughSlots, IInv, Next
    PROVE  IInv' /\ PeerKept
  <1>1. CASE ServerStep
    BY <1>1, Listen, Sigma1, ServerFailure, ServerSuccess, ServerRestarts, KeptIsPeerKept
       DEF ServerStep
  <1>2. CASE InitiatorStep
    BY <1>2, Establish, InitiatorSuccess, InitiatorFailure, KeptIsPeerKept DEF InitiatorStep
  <1>3. CASE SessionStep
    <2>1. ASSUME NEW s \in Slots,
                 MessageReceived(s) \/ MessageSent(s) \/ MarkAsDefunct(s) \/ CloseSession(s)
          PROVE  IInv' /\ PeerKept
      BY <2>1, Received, Defunct, Expired, KeptIsPeerKept DEF CloseSession
    <2>2. ASSUME NEW s \in Slots, NEW fabric \in Fabrics, AdoptFabricIndex(s, fabric)
          PROVE  IInv' /\ PeerKept
      BY <2>2, Adopt, KeptIsPeerKept
    <2>3. ASSUME NEW h \in Holders, ReleaseHolder(h)
          PROVE  IInv' /\ PeerKept
      BY <2>3, HolderReleased, KeptIsPeerKept
    <2>4. ASSUME NEW h \in Holders, NEW s \in Slots, Grab(h, s)
          PROVE  IInv' /\ PeerKept
      BY <2>4, GrabIsPeerKept
    <2>5. ASSUME \/ \E fabric \in Fabrics : ExpireAllSessionsForFabric(fabric)
                 \/ \E peer \in Peers : ExpireAllSessions(peer)
                 \/ ExpireAllPASESessions
          PROVE  IInv' /\ PeerKept
      BY <2>5, Expired, KeptIsPeerKept
         DEF ExpireAllSessionsForFabric, ExpireAllSessions, ExpireAllPASESessions
    <2>6. ASSUME NEW h \in Keepers, AbortAllOtherCommunicationOnFabric(h)
          PROVE  IInv' /\ PeerKept
      BY <2>6, OthersAborted, KeptIsPeerKept
    <2> QED
      BY <1>3, <2>1, <2>2, <2>3, <2>4, <2>5, <2>6 DEF SessionStep
  <1> QED
    BY <1>1, <1>2, <1>3 DEF Next

LEMMA StutterOK ==
    ASSUME IInv, UNCHANGED vars
    PROVE  IInv' /\ PeerKept
  <1>1. Now' = Now
    BY DEF vars, Now
  <1>2. holder' = holder /\ table' = table
    BY DEF vars
  <1> QED
    BY <1>1, <1>2 DEF IInv, PeerKept

LEMMA Invariance ==
    Spec => []IInv
  <1>1. EnoughSlots
    BY RoomAssumption DEF EnoughSlots
  <1>2. IInv /\ [Next]_vars => IInv'
    BY <1>1, StepOK, StutterOK
  <1> QED
    BY <1>2, InitOK, PTL DEF Spec

(* Nothing dangles and nothing leaks, in a table of any size: holders hold *)
(* established sessions, or alone one that AbortAllOtherCommunicationOn-   *)
(* Fabric took back; pairing sessions hold sessions being established; and *)
(* nothing stays in the table that nobody uses.                            *)
THEOREM ReferencesSound ==
    Spec => []ReferencesAreSound
  <1>1. IInv => ReferencesAreSound
    <2> SUFFICES ASSUME IInv
                 PROVE  ReferencesAreSound
      OBVIOUS
    <2>1. /\ HoldersOK(Now) /\ PairingsOK(Now) /\ EstablishingOK(Now) /\ PendingOK(Now, {})
          /\ Now.table = table /\ Now.holder = holder
          /\ Now.pairing = pairing /\ Now.pinned = pinned
      BY NowIs
    <2>2. \A h \in Holders : holder[h] # None =>
            \/ table[holder[h]].state \in {"active", "defunct"}
            \/ /\ h \in Keepers /\ table[holder[h]].state = "pending"
               /\ \A g \in Holders \ {h} : holder[g] # holder[h]
      BY <2>1 DEF HoldersOK, KeptAlone
    <2>3. \A s \in Slots :
            table[s].state = "pending" => s = pinned \/ \E h \in Keepers : holder[h] = s
      BY <2>1 DEF PendingOK, KeptSlots
    <2> QED
      BY <2>1, <2>2, <2>3 DEF ReferencesAreSound, PairingsOK, EstablishingOK, Owned
  <1> QED
    BY <1>1, Invariance, PTL

(* EvictAndAllocate always finds a session to evict, whatever is pinned, on*)
(* the stack or kept for an answer, so the VerifyOrDie of                  *)
(* CreateNewSecureSession never fails in a table with room for these.      *)
THEOREM AllocationSucceeds ==
    Spec => []NeverDies
  <1>1. IInv => NeverDies
    BY NowIs DEF NeverDies
  <1> QED
    BY <1>1, Invariance, PTL

(* A CASEServer whose session was evicted under it has its restart queued. *)
THEOREM ServerRestartIsQueued ==
    Spec => []ServerWillRestart
  <1>1. IInv => ServerWillRestart
    BY NowIs DEF ServerWillRestart, ServerOK
  <1> QED
    BY <1>1, Invariance, PTL

(* NewerSessionAvailable moves a holder only to a session with the same    *)
(* peer and the same CATs, and no other step moves one.                    *)
THEOREM HoldersKeepTheirPeer ==
    Spec => HolderKeepsPeer
  <1>1. EnoughSlots
    BY RoomAssumption DEF EnoughSlots
  <1>2. IInv /\ [Next]_vars => [PeerKept]_vars
    BY <1>1, StepOK
  <1>3. [PeerKept]_vars =>
          [\A h \in Holders : holder[h] # None /\ holder'[h] # None =>
             LET old == table[holder[h]]
                 new == table'[holder'[h]] IN
             /\ old.cats = new.cats
             /\ old.type = "CASE" => old.peer = new.peer]_vars
    BY DEF PeerKept
  <1> QED
    BY <1>2, <1>3, Invariance, PTL DEF Spec, HolderKeepsPeer

(* The CASEServer prepares again, after a handshake that failed or was     *)
(* evicted, in the entry it had pinned: no other session pays for it.      *)
THEOREM FailedHandshakesAreFree ==
    Spec => FailureCostsNothing
  <1>1. EnoughSlots
    BY RoomAssumption DEF EnoughSlots
  <1>2. IInv /\ [Next]_vars =>
          [ServerFails \/ RunScheduled =>
             \A s \in Slots \ {pinned} : table[s] # Free => table'[s] = table[s]]_vars
    BY <1>1, ServerFailure, ServerRestarts DEF OthersStay
  <1> QED
    BY <1>2, Invariance, PTL DEF Spec, FailureCostsNothing
=============================================================================
