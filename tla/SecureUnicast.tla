--------------------------- MODULE SecureUnicast ---------------------------
(***************************************************************************)
(* The message counters of one direction of a secure unicast session: the  *)
(* sender's LocalSessionMessageCounter (MessageCounter.h), a network that  *)
(* loses, delays, reorders and duplicates, and the receiver's              *)
(* SessionManager::SecureUnicastMessageDispatch with its                   *)
(* PeerMessageCounter.                                                     *)
(*                                                                         *)
(* Every message ever sent may arrive at any time, any number of times,    *)
(* from any address: MRP retransmits the encrypted buffer as it is, and    *)
(* the network may replay it.  Messages that fail to authenticate are      *)
(* dropped before the counter is looked at and are left out.               *)
(***************************************************************************)
EXTENDS PeerMessageCounter

CONSTANTS
    InitialPredecessors,    \* GetDefaultInitialValuePredecessor: random, 28 bits
    Addresses               \* peer addresses messages may come from

ASSUME SessionAssumption ==
    /\ InitialPredecessors \subseteq Counters
    /\ Addresses # {}

VARIABLES
    mLastUsedValue,     \* sender: LocalSessionMessageCounter
    sent,               \* network: messages that may arrive
    peer,               \* receiver: PeerMessageCounter of the session
    mPeerAddress,       \* receiver: where the session's own messages go
    handled,            \* history: counters given to mCB as new messages
    upcall              \* the last message given to mCB

vars == <<mLastUsedValue, sent, peer, mPeerAddress, handled, upcall>>

Messages == [counter : Counters, needsAck : BOOLEAN]

None == [counter |-> 0, isDuplicate |-> FALSE]

TypeOK ==
    /\ mLastUsedValue \in Counters
    /\ sent \subseteq Messages
    /\ peer \in SyncState /\ peer.sync = "Synced"
    /\ mPeerAddress \in Addresses
    /\ handled \subseteq Counters
    /\ upcall \in [counter : Counters, isDuplicate : BOOLEAN]

-----------------------------------------------------------------------------
(* A session just activated: PairingSession::ActivateSecureSession sets    *)
(* the peer counter to kInitialSyncValue.                                  *)
Init ==
    /\ mLastUsedValue \in InitialPredecessors
    /\ sent = {}
    /\ peer = SetCounter(kInitialSyncValue)
    /\ mPeerAddress \in Addresses
    /\ handled = {}
    /\ upcall = None

kMessageCounterMax == Mod - 1

(* SessionManager::PrepareMessage on a secure session.  AdvanceAndConsume  *)
(* refuses when the counter is exhausted, and nothing is sent.             *)
PrepareMessage(needsAck) ==
    /\ mLastUsedValue # kMessageCounterMax
    /\ mLastUsedValue' = mLastUsedValue + 1
    /\ sent' = sent \cup {[counter |-> mLastUsedValue', needsAck |-> needsAck]}
    /\ UNCHANGED <<peer, mPeerAddress, handled, upcall>>

(* Mutant: the peer address is taken over before the duplicate check.      *)
DispatchMovesAddressFirst(msg, peerAddress) ==
    /\ mPeerAddress' = peerAddress
    /\ UNCHANGED <<mLastUsedValue, sent>>
    /\ IF VerifyEncryptedUnicast(peer, msg.counter)
         THEN /\ peer' = CommitEncryptedUnicast(peer, msg.counter)
              /\ handled' = handled \cup {msg.counter}
              /\ upcall' = [counter |-> msg.counter, isDuplicate |-> FALSE]
         ELSE /\ upcall' = IF msg.needsAck THEN [counter |-> msg.counter, isDuplicate |-> TRUE]
                                           ELSE upcall
              /\ UNCHANGED <<peer, handled>>

(* SecureUnicastMessageDispatch once the message has been authenticated.   *)
(* A duplicate goes up, to be acknowledged again, only if it asks for an   *)
(* acknowledgement.  A new message commits its counter and moves the peer  *)
(* address.                                                                *)
SecureUnicastMessageDispatch(msg, peerAddress) ==
    IF VerifyEncryptedUnicast(peer, msg.counter)
      THEN /\ peer' = CommitEncryptedUnicast(peer, msg.counter)
           /\ mPeerAddress' = peerAddress
           /\ handled' = handled \cup {msg.counter}
           /\ upcall' = [counter |-> msg.counter, isDuplicate |-> FALSE]
           /\ UNCHANGED <<mLastUsedValue, sent>>
      ELSE /\ upcall' = IF msg.needsAck THEN [counter |-> msg.counter, isDuplicate |-> TRUE]
                                        ELSE upcall
           /\ UNCHANGED <<mLastUsedValue, sent, peer, mPeerAddress, handled>>

Next ==
    \/ \E needsAck \in BOOLEAN : PrepareMessage(needsAck)
    \/ \E msg \in sent, peerAddress \in Addresses :
           SecureUnicastMessageDispatch(msg, peerAddress)

Spec == Init /\ [][Next]_vars

-----------------------------------------------------------------------------
(* Each bit of the window, and the maximum, is exactly what was received:  *)
(* the receiver neither forgets a counter inside the window nor marks one  *)
(* it never saw, whatever the order of arrival and the size of the jumps.  *)
(* (Counter 0 is never sent; it is where the session starts.)              *)
WindowIsExact ==
    /\ \A o \in Bits : o \in peer.window <=> peer.max - 1 - o \in handled \cup {kInitialSyncValue}
    /\ \A c \in handled : c <= peer.max
    /\ peer.max \in handled \cup {kInitialSyncValue}

(* A message is given to the upper layer as new at most once.              *)
NoReplay ==
    [][peer' # peer => /\ upcall'.counter \notin handled
                       /\ handled' = handled \cup {upcall'.counter}]_vars

(* A message that the upper layer is told is a duplicate was handled       *)
(* before, unless it fell out of the window (it is then acknowledged but   *)
(* never handled).                                                         *)
DuplicateWasHandled ==
    upcall.isDuplicate =>
        \/ upcall.counter \in handled
        \/ peer.max - upcall.counter > WindowSize

(* Only a message never handled before moves the session's peer address:   *)
(* a replay cannot redirect the session's traffic (SessionManager.cpp,     *)
(* "Only a message with a new message counter may change the peer          *)
(* address").                                                              *)
ReplayKeepsPeerAddress ==
    [][mPeerAddress' # mPeerAddress => handled' # handled]_vars

(* No two messages of a session are sent under the same counter, hence the *)
(* same nonce, and counter 0 is never used: the counter stops instead of   *)
(* rolling over.                                                           *)
NoNonceReuse ==
    [][sent' # sent => /\ mLastUsedValue' # kInitialSyncValue
                       /\ \A msg \in sent : msg.counter # mLastUsedValue']_vars
=============================================================================
