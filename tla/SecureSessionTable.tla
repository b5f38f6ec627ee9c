------------------------- MODULE SecureSessionTable -------------------------
(***************************************************************************)
(* The secure sessions of a node: transport/SecureSessionTable,            *)
(* SecureSession, SessionHolder, and the pairing sessions that fill the    *)
(* table: the CASEServer, which always keeps one session pinned for the    *)
(* next Sigma1, and initiators of CASE and PASE.                           *)
(*                                                                         *)
(* A session is freed when its last reference goes.  A SessionHolder is a  *)
(* reference that MarkForEviction takes away; a SessionHandle is one that  *)
(* it cannot: the CASEServer's mPinnedSecureSession and the handles on the *)
(* stack of the running handler.  Everything runs on one thread, so an     *)
(* action is a whole handler, and handles on the stack live for one step.  *)
(*                                                                         *)
(* Activity times are a strict order (the clock always advances between    *)
(* two of them).  Session ids are in module SessionIds.                    *)
(***************************************************************************)
EXTENDS Integers, FiniteSets

CONSTANTS
    Slots,              \* the entries of mEntries
    Peers,              \* operational peers, [fabric : 1.., node : ...]
    CATs,               \* CASE authenticated tags a peer may show
    Initiators,         \* pairing sessions in the initiator role
    PASEInitiators,     \* those of them that run PASE
    Holders,            \* SessionHolders of applications and exchanges
    Shifters,           \* those that are kShiftToNewSession
    Keepers,            \* the exchanges an UpdateNOC or RemoveFabric comes on
    None

ASSUME TableAssumption ==
    /\ IsFiniteSet(Slots) /\ Slots # {}
    /\ \A p \in Peers : p.fabric \in Nat \ {0}
    /\ PASEInitiators \subseteq Initiators
    /\ IsFiniteSet(Keepers) /\ Keepers \subseteq Holders \ Shifters
    /\ "server" \notin Initiators /\ None \notin Slots

(* Room for more than can be held on to: the session pinned for the next   *)
(* Sigma1, the one whose message is being handled, those that exchanges    *)
(* keep until their response is delivered, and one to evict.               *)
(* CHIP_CONFIG_SECURE_SESSION_POOL_SIZE is three for each fabric, and two; *)
(* nothing in the code limits how many exchanges keep a session at a time. *)
ASSUME RoomAssumption == Cardinality(Slots) > Cardinality(Keepers) + 2

VARIABLES
    table,      \* the session in each slot
    earlier,    \* by mLastActivityTime: earlier[s], the sessions less recently
                \* active than the one in s
    holder,     \* the slot each SessionHolder holds
    pairing,    \* pairing sessions: their mSecureSessionHolder and progress
    pinned,     \* CASEServer::mPinnedSecureSession
    scheduled,  \* the lambda of PairingSession::OnSessionReleased is queued
    died        \* a VerifyOrDie failed

vars == <<table, earlier, holder, pairing, pinned, scheduled, died>>

Pairings == Initiators \cup {"server"}
Fabrics == {p.fabric : p \in Peers}

NoFabric == 0                                   \* kUndefinedFabricIndex
NoPeer == [fabric |-> NoFabric, node |-> "undefined"]
PakePeer == [fabric |-> NoFabric, node |-> "pake"]
PakePeers == [fabric : Fabrics \cup {NoFabric}, node : {"pake"}]
NoCATs == "noCATs"

Sessions ==
    [type : {"CASE", "PASE"}, peer : Peers \cup PakePeers \cup {NoPeer},
     cats : CATs \cup {NoCATs},
     state : {"free", "establishing", "active", "defunct", "pending"}]

NewSession(type) ==
    [type |-> type, peer |-> NoPeer, cats |-> NoCATs, state |-> "establishing"]
Free == [NewSession("CASE") EXCEPT !.state = "free"]

(* "off": ListenForSessionEstablishment has not been called.  "idle": no   *)
(* secure session, no delegate.                                            *)
Idle == [slot |-> None, state |-> "idle", peer |-> NoPeer]

TypeOK ==
    /\ table \in [Slots -> Sessions]
    /\ earlier \in [Slots -> SUBSET Slots]
    /\ holder \in [Holders -> Slots \cup {None}]
    /\ pairing \in [Pairings -> [slot : Slots \cup {None},
                                 state : {"off", "idle", "listening", "handshake"},
                                 peer : Peers \cup {NoPeer, PakePeer}]]
    /\ pinned \in Slots \cup {None}
    /\ scheduled \in BOOLEAN
    /\ died \in BOOLEAN

Init ==
    /\ table = [s \in Slots |-> Free]
    /\ earlier = [s \in Slots |-> {}]
    /\ holder = [h \in Holders |-> None]
    /\ pairing = [p \in Pairings |->
                    IF p = "server" THEN [Idle EXCEPT !.state = "off"] ELSE Idle]
    /\ pinned = None
    /\ scheduled = FALSE
    /\ died = FALSE

-----------------------------------------------------------------------------
(* Handlers are composed of operators from a record of the state to such a *)
(* record; `handles' are the sessions with a SessionHandle on the stack.   *)
Now == [table |-> table, earlier |-> earlier, holder |-> holder, pairing |-> pairing,
        pinned |-> pinned, scheduled |-> scheduled, died |-> died]

(* The handler ends in f.  A node that died does nothing any more.         *)
Become(f) ==
    /\ ~died
    /\ table' = f.table /\ earlier' = f.earlier /\ holder' = f.holder
    /\ pairing' = f.pairing /\ pinned' = f.pinned
    /\ scheduled' = f.scheduled /\ died' = f.died

Resident(f) == {s \in Slots : f.table[s].state # "free"}
FreeSlots(f) == Slots \ Resident(f)

(* A session marked for eviction that an exchange took back.               *)
Lingers(f, s) == f.table[s].state = "pending" /\ \E h \in Keepers : f.holder[h] = s

(* The sessions whose reference count is not zero.  The reference taken in *)
(* Activate stays until MarkForEviction.                                   *)
Referenced(f, handles) ==
    {s \in Resident(f) :
        \/ f.table[s].state \in {"active", "defunct"}
        \/ s \in handles \cup {f.pinned}
        \/ \E h \in Holders : f.holder[h] = s
        \/ \E p \in Pairings : f.pairing[p].slot = s}

(* SecureSessionDeleter: sessions without references leave the table.      *)
Released(f, handles) ==
    LET kept == Referenced(f, handles) IN
    [f EXCEPT !.table = [s \in Slots |-> IF s \in kept THEN f.table[s] ELSE Free],
              !.earlier = [s \in Slots |-> IF s \in kept THEN f.earlier[s] \cap kept ELSE {}]]

(* MarkActive: the session is now the most recently active.                *)
MarkActive(f, s) ==
    [f EXCEPT !.earlier = [t \in Slots |-> IF t = s THEN Resident(f) \ {s}
                                         ELSE f.earlier[t] \ {s}]]

(* MarkActiveRx: a message from the peer ends the defunct state.           *)
MarkActiveRx(f, s) ==
    [MarkActive(f, s) EXCEPT !.table[s].state = IF @ = "defunct" THEN "active" ELSE @]

(* Mutant: the CASEServer is not told that its session went.               *)
MarkForEvictionUntold(f, S) ==
    LET hit == {s \in S \cap Resident(f) : f.table[s].state # "pending"}
        lost == {p \in Pairings : f.pairing[p].slot \in hit} IN
    [f EXCEPT !.table = [s \in Slots |->
                           IF s \in hit THEN [f.table[s] EXCEPT !.state = "pending"]
                                        ELSE f.table[s]],
              !.pairing = [p \in Pairings |-> IF p \in lost THEN Idle ELSE f.pairing[p]]]

(* MarkForEviction on each session of S, with NotifySessionReleased: the   *)
(* holders let go.  A pairing session that loses its session clears        *)
(* itself; an initiator tells its delegate at once, the CASEServer is told *)
(* by a lambda queued for later (the queue is taken to have room: the      *)
(* result of ScheduleLambda is ignored).                                   *)
MarkForEviction(f, S) ==
    LET hit == {s \in S \cap Resident(f) : f.table[s].state # "pending"}
        lost == {p \in Pairings : f.pairing[p].slot \in hit} IN
    [f EXCEPT !.table = [s \in Slots |->
                           IF s \in hit THEN [f.table[s] EXCEPT !.state = "pending"]
                                        ELSE f.table[s]],
              !.holder = [h \in Holders |-> IF f.holder[h] \in hit THEN None ELSE f.holder[h]],
              !.pairing = [p \in Pairings |-> IF p \in lost THEN Idle ELSE f.pairing[p]],
              !.scheduled = f.scheduled \/ "server" \in lost]

-----------------------------------------------------------------------------
(* The eviction policy.  Sessions being established, and PASE sessions     *)
(* before AddNOC, are on fabric 0 and compare equal in peer.               *)
Fabric(f, s) == f.table[s].peer.fabric

mNumMatchingOnFabric(f, s) ==
    Cardinality({t \in Resident(f) \ {s} : Fabric(f, t) = Fabric(f, s)})

mNumMatchingOnPeer(f, s) ==
    Cardinality({t \in Resident(f) \ {s} : f.table[t].peer = f.table[s].peer})

IsOnlyActiveSessionToPeer(f, s) ==
    f.table[s].state = "active" /\ mNumMatchingOnPeer(f, s) = 0

SessionMatchesEvictionHint(f, s, hint) ==
    f.table[s].peer = hint /\ ~IsOnlyActiveSessionToPeer(f, s)

StateScore(state) ==
    CASE state = "defunct" -> 2 [] state = "active" -> 1 [] OTHER -> 0

Bit(b) == IF b THEN 1 ELSE 0

(* Mutant: the least active come last.                                     *)
KeysMostRecentFirst(f, s, hint) ==
    <<mNumMatchingOnFabric(f, s), Bit(Fabric(f, s) = hint.fabric),
      mNumMatchingOnPeer(f, s), Bit(SessionMatchesEvictionHint(f, s, hint)),
      StateScore(f.table[s].state), Cardinality(f.earlier[s])>>

(* Key1 to Key6 of DefaultEvictionPolicy: the larger goes first.           *)
Keys(f, s, hint) ==
    <<mNumMatchingOnFabric(f, s), Bit(Fabric(f, s) = hint.fabric),
      mNumMatchingOnPeer(f, s), Bit(SessionMatchesEvictionHint(f, s, hint)),
      StateScore(f.table[s].state), 0 - Cardinality(f.earlier[s])>>

(* The comparison of DefaultEvictionPolicy: the first key that differs.    *)
Ahead(ka, kb) ==
    \E i \in DOMAIN ka : ka[i] > kb[i] /\ \A j \in 1..(i - 1) : ka[j] = kb[j]

Candidates(f) == {s \in Resident(f) : f.table[s].state # "pending"}
Held(f, handles) == handles \cup {f.pinned}

(* Mutant: only the best candidate is tried.                               *)
MarkedBestOnly(f, hint, handles) ==
    LET sortable == {<<s, Keys(f, s, hint)>> : s \in Candidates(f)} IN
    {a[1] : a \in {a \in sortable : \A b \in sortable : ~Ahead(b[2], a[2])}}

(* The candidates EvictAndAllocate marks: it goes down the sorted list and *)
(* stops after the first that nothing holds.                               *)
Marked(f, hint, handles) ==
    LET sortable == {<<s, Keys(f, s, hint)>> : s \in Candidates(f)}
        evictable == {b \in sortable : b[1] \notin Held(f, handles)} IN
    {a[1] : a \in {a \in sortable : \A b \in evictable : ~Ahead(b[2], a[2])}}

CreateObject(f, type, s) ==
    [f EXCEPT !.table[s] = NewSession(type), !.earlier[s] = Resident(f)]

(* CreateNewSecureSession: the outcomes, one for each slot the pool may    *)
(* pick.  When nothing can be freed, the node dies.                        *)
CreateNewSecureSession(f, type, hint, handles) ==
    LET g == IF FreeSlots(f) # {} THEN f
             ELSE Released(MarkForEviction(f, Marked(f, hint, handles)), handles) IN
    IF FreeSlots(g) = {} THEN {[f |-> [g EXCEPT !.died = TRUE], slot |-> None]}
    ELSE {[f |-> CreateObject(g, type, s), slot |-> s] : s \in FreeSlots(g)}

-----------------------------------------------------------------------------
(* Mutant: the CATs are not compared.                                      *)
ActivateIgnoresCATs(f, s, peer, cats) ==
    LET g == MarkActiveRx(f, s)
        older == {t \in Resident(f) \ {s} :
                    f.table[t].type = "CASE" /\ f.table[t].peer = peer} IN
    [g EXCEPT !.table[s] = [@ EXCEPT !.peer = peer, !.cats = cats, !.state = "active"],
              !.holder = [h \in Holders |->
                            IF h \in Shifters /\ f.holder[h] \in older
                              THEN s ELSE f.holder[h]]]

(* SecureSession::Activate.  NewerSessionAvailable moves the shifting      *)
(* holders of the peer's other CASE sessions to the new one.               *)
Activate(f, s, peer, cats) ==
    LET g == MarkActiveRx(f, s)
        older == {t \in Resident(f) \ {s} :
                    /\ f.table[t].type = "CASE" /\ f.table[t].peer = peer
                    /\ f.table[t].cats = cats}
        isCASE == f.table[s].type = "CASE" IN
    [g EXCEPT !.table[s] = [@ EXCEPT !.peer = peer, !.cats = cats, !.state = "active"],
              !.holder = [h \in Holders |->
                            IF isCASE /\ h \in Shifters /\ f.holder[h] \in older
                              THEN s ELSE f.holder[h]]]

(* Mutant: the pin is dropped only after the allocation.                   *)
PrepareUnpinsLate(f, hint, handles) ==
    {IF r.f.died THEN r.f
     ELSE Released([r.f EXCEPT !.pairing["server"] =
                                 [slot |-> r.slot, state |-> "listening", peer |-> NoPeer],
                               !.pinned = r.slot], handles) :
        r \in CreateNewSecureSession(
                Released([f EXCEPT !.pairing["server"] = Idle], handles),
                "CASE", hint, handles)}

(* CASEServer::PrepareForSessionEstablishment: clear the CASESession, drop *)
(* the pin, allocate and pin the session of the next handshake.            *)
PrepareForSessionEstablishment(f, hint, handles) ==
    {IF r.f.died THEN r.f
     ELSE [r.f EXCEPT !.pairing["server"] =
                        [slot |-> r.slot, state |-> "listening", peer |-> NoPeer],
                      !.pinned = r.slot] :
        r \in CreateNewSecureSession(
                Released([f EXCEPT !.pairing["server"] = Idle, !.pinned = None], handles),
                "CASE", hint, handles)}

ListenForSessionEstablishment ==
    /\ pairing["server"].state = "off"
    /\ \E f \in PrepareForSessionEstablishment(Now, NoPeer, {}) : Become(Released(f, {}))

(* A Sigma1 is accepted only by a CASESession that waits for one; while    *)
(* the server has no session HandleSigma1 fails and nobody is told.        *)
HandleSigma1 ==
    /\ pairing["server"].state = "listening"
    /\ Become([Now EXCEPT !.pairing["server"].state = "handshake"])

(* AbortPendingEstablish on an error, a timeout or the watchdog, and       *)
(* CASEServer::OnSessionEstablishmentError.                                *)
ServerFails ==
    /\ pairing["server"].state \in {"listening", "handshake"}
    /\ \E f \in PrepareForSessionEstablishment(
                  [Now EXCEPT !.pairing["server"] = Idle], NoPeer, {}) :
         Become(Released(f, {}))

(* PairingSession::Finish: Activate, and CASEServer::OnSessionEstablished  *)
(* with a SessionHandle to the session just established.                   *)
ServerFinishes(peer, cats) ==
    LET s == pairing["server"].slot IN
    /\ pairing["server"].state = "handshake"
    /\ \E f \in PrepareForSessionEstablishment(Activate(Now, s, peer, cats), peer, {s}) :
         Become(Released(f, {}))

(* The lambda of PairingSession::OnSessionReleased runs.                   *)
RunScheduled ==
    /\ scheduled
    /\ \E f \in PrepareForSessionEstablishment(
                  [Now EXCEPT !.scheduled = FALSE], NoPeer, {}) :
         Become(Released(f, {}))

(* EstablishSession of a CASESession, or Pair of a PASESession, possibly   *)
(* from a handler of a message received on session `on'.  CASE passes the  *)
(* peer as the eviction hint, PASE passes none.                            *)
EstablishSession(i, peer, on) ==
    LET type == IF i \in PASEInitiators THEN "PASE" ELSE "CASE"
        hint == IF i \in PASEInitiators THEN NoPeer ELSE peer IN
    /\ pairing[i].state = "idle"
    /\ \A s \in on : table[s].state = "active" \/ Lingers(Now, s)
    /\ \E r \in CreateNewSecureSession(Now, type, hint, on) :
         Become(Released([r.f EXCEPT !.pairing[i] =
                            IF r.f.died THEN @
                            ELSE [slot |-> r.slot, state |-> "handshake", peer |-> peer]], {}))

InitiatorFinishes(i, cats) ==
    LET c == IF i \in PASEInitiators THEN NoCATs ELSE cats IN
    /\ pairing[i].state = "handshake"
    /\ Become([Activate(Now, pairing[i].slot, pairing[i].peer, c) EXCEPT !.pairing[i] = Idle])

(* The handshake fails or its owner gives it up: Clear.                    *)
InitiatorFails(i) ==
    /\ pairing[i].state = "handshake"
    /\ Become(Released([Now EXCEPT !.pairing[i] = Idle], {}))

(* Mutant: a session marked for eviction is taken too.                     *)
GrabUnchecked(h, s) ==
    /\ holder[h] = None
    /\ table[s].state \in {"active", "pending"}
    /\ Become([Now EXCEPT !.holder[h] = s])

(* SessionHolder::Grab refuses a session that is not active.               *)
Grab(h, s) ==
    /\ holder[h] = None
    /\ table[s].state = "active"
    /\ Become([Now EXCEPT !.holder[h] = s])

ReleaseHolder(h) ==
    /\ holder[h] # None
    /\ Become(Released([Now EXCEPT !.holder[h] = None], {}))

(* SecureUnicastMessageDispatch takes messages in these states, "because   *)
(* for some cases (UpdateNOC, RemoveFabric, etc) there can be a single     *)
(* exchange alive on the session waiting for a MRP ack".  The pinned       *)
(* session has no keys when it is evicted: nothing can be decrypted.       *)
MessageReceived(s) ==
    /\ table[s].state \in {"active", "defunct"} \/ Lingers(Now, s)
    /\ Become(MarkActiveRx(Now, s))

(* PrepareMessage / SendPreparedMessage on a session an exchange holds.    *)
MessageSent(s) ==
    /\ table[s].state \in {"active", "defunct"} \/ Lingers(Now, s)
    /\ Become(MarkActive(Now, s))

(* MarkAsDefunct dies on a session that is being established; its callers  *)
(* have a session that was active.                                         *)
MarkAsDefunct(s) ==
    /\ table[s].state = "active"
    /\ Become([Now EXCEPT !.table[s].state = "defunct"])

(* AddNOC over a PASE session.                                             *)
AdoptFabricIndex(s, fabric) ==
    /\ table[s].type = "PASE" /\ table[s].state = "active"
    /\ Fabric(Now, s) = NoFabric
    /\ Become([Now EXCEPT !.table[s].peer.fabric = fabric])

Expire(S) ==
    /\ \E s \in S : table[s].state # "pending"
    /\ Become(Released(MarkForEviction(Now, S), {}))

ExpireAllSessionsForFabric(fabric) == Expire({s \in Resident(Now) : Fabric(Now, s) = fabric})
ExpireAllSessions(peer) == Expire({s \in Resident(Now) : table[s].peer = peer})
ExpireAllPASESessions == Expire({s \in Resident(Now) : table[s].type = "PASE"})

(* ExchangeContext::AbortAllOtherCommunicationOnFabric, for the exchange   *)
(* whose UpdateNOC, or RemoveFabric of its own fabric, has just succeeded: *)
(* every session of the fabric expires, and GrabExpiredSession takes the   *)
(* exchange's own back, marked for eviction as it is, so that the response *)
(* can be sent.  It is let go, by ReleaseHolder, when the response is      *)
(* acknowledged or given up.                                               *)
AbortAllOtherCommunicationOnFabric(h) ==
    LET s == holder[h] IN
    /\ s # None /\ table[s].state = "active" /\ Fabric(Now, s) # NoFabric
    /\ Become(Released(
         [MarkForEviction(Now, {t \in Resident(Now) : Fabric(Now, t) = Fabric(Now, s)})
            EXCEPT !.holder[h] = s], {}))

(* A CloseSession status report, or its owner, ends one session.           *)
CloseSession(s) == table[s].state \in {"active", "defunct"} /\ Expire({s})

-----------------------------------------------------------------------------
ServerStep ==
    \/ ListenForSessionEstablishment
    \/ HandleSigma1
    \/ ServerFails
    \/ \E peer \in Peers, cats \in CATs : ServerFinishes(peer, cats)
    \/ RunScheduled

Target(i) == IF i \in PASEInitiators THEN {PakePeer} ELSE Peers
(* What a handler holds: nothing, or the session its message came on.      *)
OnStack == {{}} \cup {{s} : s \in Slots}

InitiatorStep ==
    \E i \in Initiators :
        \/ \E peer \in Target(i), on \in OnStack : EstablishSession(i, peer, on)
        \/ \E cats \in CATs : InitiatorFinishes(i, cats)
        \/ InitiatorFails(i)

SessionStep ==
    \/ \E s \in Slots : MessageReceived(s) \/ MessageSent(s) \/ MarkAsDefunct(s) \/ CloseSession(s)
    \/ \E s \in Slots, fabric \in Fabrics : AdoptFabricIndex(s, fabric)
    \/ \E h \in Holders : ReleaseHolder(h) \/ \E s \in Slots : Grab(h, s)
    \/ \E h \in Keepers : AbortAllOtherCommunicationOnFabric(h)
    \/ \E fabric \in Fabrics : ExpireAllSessionsForFabric(fabric)
    \/ \E peer \in Peers : ExpireAllSessions(peer)
    \/ ExpireAllPASESessions

Next == ServerStep \/ InitiatorStep \/ SessionStep

Spec == Init /\ [][Next]_vars

-----------------------------------------------------------------------------
(* Nothing dangles and nothing leaks: holders hold established sessions,   *)
(* never one marked for eviction, except the exchange that took its        *)
(* session back to answer an UpdateNOC or RemoveFabric, and then it is the *)
(* "single exchange alive on the session"; a pairing session holds one     *)
(* that is still being established; and a session stays in the table only  *)
(* while it is usable, being established by somebody, pinned, or kept for  *)
(* an answer.                                                              *)
ReferencesAreSound ==
    /\ \A h \in Holders : holder[h] # None =>
         \/ table[holder[h]].state \in {"active", "defunct"}
         \/ /\ h \in Keepers /\ table[holder[h]].state = "pending"
            /\ \A g \in Holders \ {h} : holder[g] # holder[h]
    /\ \A p \in Pairings :
         pairing[p].slot # None => table[pairing[p].slot].state = "establishing"
    /\ \A s \in Slots :
         /\ table[s].state = "establishing" => \E p \in Pairings : pairing[p].slot = s
         /\ table[s].state = "pending" => s = pinned \/ \E h \in Keepers : holder[h] = s

(* "We shall ALWAYS be guaranteed to evict an existing session": with room *)
(* for more than the sessions that can be held on to, those that linger    *)
(* for an answer included, no allocation kills the node.                   *)
NeverDies == ~died

(* A holder that is moved to a newer session stays with its peer, on its   *)
(* fabric and under the same CATs, so what is sent over it keeps the       *)
(* privileges it was opened with.                                          *)
HolderKeepsPeer ==
    [][\A h \in Holders : holder[h] # None /\ holder'[h] # None =>
         LET old == table[holder[h]]
             new == table'[holder'[h]] IN
         /\ old.cats = new.cats
         /\ old.type = "CASE" => old.peer = new.peer]_vars

(* "In case 1 [...] we don't want to pick that one for eviction, because   *)
(* we just established it": the CASEServer's search for room does not cost *)
(* the session whose handshake has just succeeded, unless a session of its *)
(* fabric lingers for an answer: one of the same peer counts in Key3, and  *)
(* the new one is then not the "only session to our peer" in Key4.  (In a  *)
(* table with fewer entries than fabrics it would fail: Key2 would put the *)
(* new session first.)                                                     *)
KeptUnlessOneLingers ==
    [][(/\ pairing["server"].state = "handshake" /\ pairing'["server"].state # "handshake"
        /\ table'[pairing["server"].slot].state # "active") =>
         \A peer \in Peers, cats \in CATs : ServerFinishes(peer, cats) =>
            \E t \in Slots : Lingers(Now, t) /\ Fabric(Now, t) = peer.fabric]_vars

(* "releasing the pinned session here will actually result in it being     *)
(* de-allocated [...] and [we] won't need to evict an arbitrary session": a*)
(* handshake that fails, whenever it does, costs no other session.         *)
FailureCostsNothing ==
    [][ServerFails \/ RunScheduled =>
         \A s \in Slots \ {pinned} : table[s] # Free => table'[s] = table[s]]_vars

(* A server that has lost its session, and with it its delegate, is always *)
(* about to be restarted: the node does not stay deaf to handshakes.       *)
ServerWillRestart == pairing["server"].state = "idle" => scheduled
=============================================================================
