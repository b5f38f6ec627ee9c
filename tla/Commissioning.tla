--------------------------- MODULE Commissioning ---------------------------
(***************************************************************************)
(* CommissioningWindowManager (src/src/app/server) together with the       *)
(* fail-safe: the window during which a commissioner may set up a PASE     *)
(* session, the attempts it may make, and the fail-safe that session is    *)
(* tied to.                                                                *)
(*                                                                         *)
(* Three things share the fail-safe without knowing of each other: the     *)
(* window, the PASE session and the administrators that use CASE.  What    *)
(* one of them does reaches the others through events that the platform's  *)
(* loop hands out later, and the window manager only hears of them while   *)
(* its event handler is registered.                                        *)
(*                                                                         *)
(* A commissioner needs two round trips for a PASE handshake, during which *)
(* the event loop runs dry of what was queued before it; CASE commands and *)
(* timers may come between any two events.  Left out: the parameters of    *)
(* the window (discriminator, verifier, opener), BLE and DNS-SD            *)
(* advertising, shutdown.                                                  *)
(***************************************************************************)
EXTENDS FailSafeContext, FiniteSets

CONSTANTS
    Fabrics,        \* the fabric indices in use
    MaxAttempts,    \* kMaxFailedCommissioningAttempts
    MaxEvents       \* bounds how far the event loop may fall behind

ASSUME CommissioningAssumption ==
    /\ Fabrics \subseteq Nat \ {0}
    /\ MaxAttempts \in Nat \ {0}
    /\ MaxEvents \in Nat

VARIABLES
    win,            \* the window manager's own state
    sessions,       \* the PASE sessions that exist, of PaseIds
    held,           \* mPASESession, 0 when it holds none
    paseFabric,     \* the fabric the held session has adopted, 0 for none
    handler,        \* whether OnPlatformEventWrapper is registered
    present,        \* the fabrics on the device, pending ones included
    handshakes      \* handshakes begun since the window was opened

windowVars == <<win, handshakes>>
sessionVars == <<sessions, held, paseFabric, handler>>
vars == <<failSafeVars, windowVars, sessionVars, present>>

(* PASE sessions are told apart by one of these.                           *)
PaseIds == 1..2

(* open: mWindowStatus.  timer: mCommissioningTimeoutTimerArmed.           *)
(* listening: mListeningForPASE.  pairing: mPairingSession.  deadline: the *)
(* sixty seconds for a handshake.  attempts: mFailedCommissioningAttempts. *)
Windows == [open : BOOLEAN, timer : BOOLEAN, listening : BOOLEAN,
            pairing : {"idle", "waiting", "started"}, deadline : BOOLEAN,
            attempts : 0..MaxAttempts + 1]

Complete == [type |-> "complete", fabric |-> 0, add |-> FALSE]

EstablishmentError == [type |-> "error", fabric |-> 0, add |-> FALSE]

Queued(type) == \E n \in 1..Len(events) : events[n].type = type

Init ==
    /\ FailSafeInit
    /\ win = [open |-> FALSE, timer |-> FALSE, listening |-> FALSE,
              pairing |-> "idle", deadline |-> FALSE, attempts |-> 0]
    /\ sessions = {} /\ held = 0 /\ paseFabric = 0 /\ handler = FALSE
    /\ present \in SUBSET Fabrics
    /\ handshakes = 0

-----------------------------------------------------------------------------
(* The window.                                                             *)

StopAdvertisement(w) == [w EXCEPT !.listening = FALSE, !.pairing = "idle"]

(* Cleanup, with ResetState.                                               *)
Cleanup(w) ==
    [StopAdvertisement(w) EXCEPT !.open = FALSE, !.timer = FALSE,
                                 !.deadline = FALSE]

(* Mutant: the window is not asked whether its time is over.               *)
AdvertiseAlways(w, ok) ==
    IF ok
    THEN [w EXCEPT !.open = TRUE, !.listening = TRUE, !.pairing = "waiting"]
    ELSE Cleanup(w)

(* AdvertiseAndListenForPASE, and the Cleanup with which both its callers  *)
(* answer an error.                                                        *)
AdvertiseAndListenForPASE(w, ok) ==
    IF w.timer /\ ok
    THEN [w EXCEPT !.open = TRUE, !.listening = TRUE, !.pairing = "waiting"]
    ELSE Cleanup(w)

(* Mutant: the limit is one too high.                                      *)
HandleFailedAttemptOneMore(w, ok) ==
    LET failed == [w EXCEPT !.attempts = @ + 1] IN
    IF failed.attempts <= MaxAttempts
    THEN AdvertiseAndListenForPASE(failed, ok) ELSE Cleanup(failed)

HandleFailedAttempt(w, ok) ==
    LET failed == [w EXCEPT !.attempts = @ + 1] IN
    IF failed.attempts < MaxAttempts
    THEN AdvertiseAndListenForPASE(failed, ok) ELSE Cleanup(failed)

OnSessionEstablishmentError(w, ok) ==
    HandleFailedAttempt([w EXCEPT !.deadline = FALSE], ok)

CloseCommissioningWindow(w) == IF w.open THEN Cleanup(w) ELSE w

(* OpenBasicCommissioningWindow and OpenEnhancedCommissioningWindow, which *)
(* applications also call while a window is open.                          *)
OpenWindow(ok) ==
    LET opening == [win EXCEPT !.attempts = 0] IN
    /\ win' = IF IsFailSafeFullyDisarmed
              THEN AdvertiseAndListenForPASE([opening EXCEPT !.timer = TRUE], ok)
              ELSE Cleanup(opening)
    /\ handshakes' = 0
    /\ UNCHANGED <<failSafeVars, sessionVars, present>>

(* The commands of the Administrator Commissioning cluster.                *)
OpenCommissioningWindow(ok) ==
    /\ present # {}
    /\ IsFailSafeFullyDisarmed
    /\ ~win.open
    /\ OpenWindow(ok)

(* HandleCommissioningWindowTimeout.                                       *)
WindowTimeout ==
    /\ win.timer
    /\ win' = CloseCommissioningWindow([win EXCEPT !.timer = FALSE])
    /\ UNCHANGED <<failSafeVars, sessionVars, present, handshakes>>

-----------------------------------------------------------------------------
(* PASE sessions.                                                          *)

(* OnUnsolicitedMessageReceived and, from the handshake's first message,   *)
(* OnSessionEstablishmentStarted.                                          *)
PairingStarts ==
    /\ win.listening /\ win.pairing = "waiting"
    /\ win' = [win EXCEPT !.pairing = "started", !.deadline = TRUE]
    /\ handshakes' = handshakes + 1
    /\ UNCHANGED <<failSafeVars, sessionVars, present>>

(* The handshake fails or is not answered.                                 *)
PairingFails(ok) ==
    /\ win.pairing = "started"
    /\ win' = OnSessionEstablishmentError(win, ok)
    /\ UNCHANGED <<failSafeVars, sessionVars, present, handshakes>>

(* HandleSessionEstablishmentTimeout.                                      *)
EstablishmentTimeout(ok) ==
    /\ win.deadline
    /\ win' = OnSessionEstablishmentError(win, ok)
    /\ UNCHANGED <<failSafeVars, sessionVars, present, handshakes>>

(* The session table evicts the session of the handshake: the error is     *)
(* reported later (PairingSession::OnSessionReleased).                     *)
PairingEvicted ==
    /\ win.pairing # "idle" /\ ~Queued("error")
    /\ win' = [win EXCEPT !.pairing = "idle"]
    /\ events' = Append(events, EstablishmentError)
    /\ UNCHANGED <<armed, busy, fsIndex, invoked, sessionVars, present, handshakes>>

HandleEstablishmentError(ok) ==
    /\ HandOut("error")
    /\ win' = OnSessionEstablishmentError(win, ok)
    /\ UNCHANGED <<armed, busy, fsIndex, invoked, sessionVars, present, handshakes>>

(* Mutant: the manager holds the session but does not register for events. *)
OnSessionEstablishedUnregistered(ok) ==
    /\ win.pairing = "started" /\ events = <<>> /\ ~busy
    /\ IF armed THEN UNCHANGED failSafeVars ELSE Arm(0)
    /\ win' = StopAdvertisement([win EXCEPT !.deadline = FALSE])
    /\ \E s \in PaseIds \ sessions : sessions' = sessions \cup {s} /\ held' = s
    /\ paseFabric' = 0
    /\ UNCHANGED <<handler, present, handshakes>>

(* OnSessionEstablished.  A fail-safe that is armed already is only        *)
(* logged; one that cannot be armed costs the session.                     *)
OnSessionEstablished(ok) ==
    LET established == StopAdvertisement([win EXCEPT !.deadline = FALSE]) IN
    /\ win.pairing = "started" /\ events = <<>>
    /\ IF busy
       THEN /\ win' = HandleFailedAttempt(established, ok)
            /\ UNCHANGED <<failSafeVars, sessionVars>>
       ELSE /\ IF armed THEN UNCHANGED failSafeVars ELSE Arm(0)
            /\ win' = established
            /\ \E s \in PaseIds \ sessions : sessions' = sessions \cup {s} /\ held' = s
            /\ paseFabric' = 0
            /\ handler' = TRUE
    /\ UNCHANGED <<present, handshakes>>

(* ExpireFailSafeIfArmed, with what is still queued.                       *)
ExpireFailSafeIfArmed(queue) ==
    /\ armed' = FALSE
    /\ busy' = (busy \/ armed)
    /\ events' = queue \o (IF armed THEN <<Expired(fsIndex, "addNoc" \in invoked), Disarm>>
                                    ELSE <<>>)
    /\ UNCHANGED <<fsIndex, invoked>>

(* MarkForEviction of these sessions.  When the held one is among them,    *)
(* OnSessionReleased runs: it expires the fail-safe, whosever that is, and *)
(* withdraws the event handler.                                            *)
Evict(gone, queue) ==
    /\ sessions' = sessions \ gone
    /\ IF held \in gone
       THEN held' = 0 /\ paseFabric' = 0 /\ handler' = FALSE /\ ExpireFailSafeIfArmed(queue)
       ELSE /\ events' = queue
            /\ UNCHANGED <<held, paseFabric, handler, armed, busy, fsIndex, invoked>>

(* The peer closes the session, or the session table evicts it.            *)
PaseReleased ==
    /\ \E s \in sessions : Evict({s}, events)
    /\ UNCHANGED <<windowVars, present>>

-----------------------------------------------------------------------------
(* Commands that arm, use and disarm the fail-safe.                        *)

(* Mutant: an administrator may arm it while the window is open.           *)
HandleArmFailSafeInWindow(fabric, case) ==
    /\ case \/ held # 0
    /\ fabric \in (IF case THEN present ELSE {paseFabric})
    /\ MayArm(fabric)
    /\ Arm(fabric) \/ FailSafeTimerExpired
    /\ UNCHANGED <<windowVars, sessionVars, present>>

(* HandleArmFailSafe over CASE or over the PASE session, which has the     *)
(* fabric it adopted; with zero seconds it expires the fail-safe.          *)
HandleArmFailSafe(fabric, case) ==
    /\ case \/ held # 0
    /\ fabric \in (IF case THEN present ELSE {paseFabric})
    /\ MayArm(fabric)
    /\ ~(~armed /\ win.open /\ case)
    /\ Arm(fabric) \/ FailSafeTimerExpired
    /\ UNCHANGED <<windowVars, sessionVars, present>>

(* Either timer of the fail-safe.                                          *)
FailSafeTimeout ==
    /\ FailSafeTimerExpired
    /\ UNCHANGED <<windowVars, sessionVars, present>>

(* HandleAddNOC by whoever armed the fail-safe: a PASE session adopts the  *)
(* new fabric, and the fail-safe goes over to it.                          *)
AddNOC(fabric, case) ==
    /\ fabric \notin present
    /\ armed /\ ~NocCommandHasBeenInvoked
    /\ IF case THEN fsIndex \in present ELSE held # 0 /\ fsIndex = paseFabric
    /\ present' = present \cup {fabric}
    /\ fsIndex' = fabric
    /\ invoked' = invoked \cup {"addNoc"}
    /\ paseFabric' = IF case THEN paseFabric ELSE fabric
    /\ UNCHANGED <<armed, busy, events, windowVars, sessions, held, handler>>

(* HandleCommissioningComplete, always over CASE: the fail-safe is free at *)
(* once, the window manager hears of it later.                             *)
CommissioningComplete ==
    /\ armed /\ fsIndex \in present
    /\ Len(events) < MaxEvents
    /\ ResetState
    /\ events' = Append(events, Complete)
    /\ UNCHANGED <<windowVars, sessionVars, present>>

(* RevokeCommissioning.  The fail-safe goes first, also without a window.  *)
RevokeCommissioning ==
    /\ present # {}
    /\ held # 0 \/ win.open
    /\ IF held # 0 THEN ExpireFailSafeIfArmed(events) ELSE UNCHANGED failSafeVars
    /\ win' = CloseCommissioningWindow(win)
    /\ UNCHANGED <<sessionVars, present, handshakes>>

-----------------------------------------------------------------------------
(* Events.                                                                 *)

(* Mutant: the window closes and the session of its commissioner stays.    *)
HandleCompleteKeepsPase ==
    /\ HandOut("complete")
    /\ win' = IF handler THEN Cleanup(win) ELSE win
    /\ UNCHANGED <<sessionVars, armed, busy, fsIndex, invoked, present, handshakes>>

(* kCommissioningComplete.                                                 *)
HandleComplete ==
    /\ IsNext("complete")
    /\ IF handler
       THEN win' = Cleanup(win) /\ Evict(sessions, Tail(events))
       ELSE /\ events' = Tail(events)
            /\ UNCHANGED <<win, sessionVars, armed, busy, fsIndex, invoked>>
    /\ UNCHANGED <<present, handshakes>>

(* kFailSafeTimerExpired: the window manager, registered last, is told     *)
(* first; then the fabric a commissioner added is removed.                 *)
HandleExpired(ok) ==
    /\ IsNext("expired")
    /\ IF handler
       THEN /\ Evict({held} \cap sessions, Tail(events))
            /\ win' = HandleFailedAttempt(win, ok)
       ELSE /\ events' = Tail(events)
            /\ UNCHANGED <<win, sessionVars, armed, busy, fsIndex, invoked>>
    /\ present' = IF Head(events).add THEN present \ {Head(events).fabric} ELSE present
    /\ UNCHANGED handshakes

HandleDisarm ==
    /\ HandleDisarmFailSafe
    /\ UNCHANGED <<windowVars, sessionVars, present>>

Next ==
    \/ WindowTimeout \/ PairingStarts \/ PairingEvicted \/ PaseReleased
    \/ FailSafeTimeout \/ CommissioningComplete \/ RevokeCommissioning
    \/ HandleComplete \/ HandleDisarm
    \/ \E ok \in BOOLEAN :
          \/ OpenWindow(ok) \/ OpenCommissioningWindow(ok) \/ PairingFails(ok)
          \/ EstablishmentTimeout(ok) \/ HandleEstablishmentError(ok)
          \/ OnSessionEstablished(ok) \/ HandleExpired(ok)
    \/ \E fabric \in Fabrics \cup {0}, case \in BOOLEAN : HandleArmFailSafe(fabric, case)
    \/ \E fabric \in Fabrics, case \in BOOLEAN : AddNOC(fabric, case)

Spec == Init /\ [][Next]_vars

(* The event loop hands out what is queued, and the fail-safe ends: the    *)
(* timer of its first arming is not extended by later ones.                *)
Fairness ==
    /\ WF_vars(FailSafeTimeout)
    /\ WF_vars(HandleComplete) /\ WF_vars(HandleDisarm)
    /\ WF_vars(\E ok \in BOOLEAN : HandleExpired(ok))
    /\ WF_vars(\E ok \in BOOLEAN : HandleEstablishmentError(ok))

FairSpec == Spec /\ Fairness

-----------------------------------------------------------------------------
TypeOK ==
    /\ {armed, busy, handler} \subseteq BOOLEAN
    /\ fsIndex \in Fabrics \cup {0} /\ paseFabric \in Fabrics \cup {0}
    /\ invoked \subseteq ContextFlags
    /\ win \in Windows
    /\ sessions \subseteq PaseIds /\ held \in sessions \cup {0}
    /\ present \subseteq Fabrics
    /\ handshakes \in Nat

(* A window and all it allows end: whoever listens, or is in the middle of *)
(* a handshake, does so under the window's running timer, also when the    *)
(* fail-safe of an earlier attempt expires long after the window closed.   *)
WindowHasDeadline ==
    /\ win.open \/ win.listening \/ win.pairing # "idle" => win.open /\ win.timer
    /\ win.pairing = "started" => win.deadline

(* One window is good for no more handshakes than the limit on failed      *)
(* attempts allows, however they end: "Nodes SHALL exit commissioning mode *)
(* after 20 failed commission attempts."                                   *)
HandshakesAreBounded == handshakes <= MaxAttempts

(* A PASE session does not "hang around without a fail-safe": it is        *)
(* covered by one, or the event that will end it is on its way.            *)
PaseHasFailSafe ==
    sessions # {} => armed \/ busy \/ Queued("complete")

(* The claim of OnSessionEstablished: a handshake that succeeds finds the  *)
(* fail-safe free, because CASE may not arm it while the window is open    *)
(* and the window does not open while it is armed.                         *)
HandshakeFindsFailSafeFree ==
    win.pairing = "started" /\ events = <<>> => ~armed /\ ~busy /\ sessions = {}

(* The claim of OnSessionReleased, as far as it holds: an armed fail-safe  *)
(* belongs to the PASE session, if there is one, unless commissioning is   *)
(* complete and the event that says so is still queued.                    *)
FailSafeIsPases ==
    armed /\ held # 0 => fsIndex = paseFabric \/ Queued("complete")

(* Whatever the commissioner does or fails to do, its PASE session ends.   *)
PaseIsTemporary == sessions # {} ~> sessions = {}

=============================================================================
