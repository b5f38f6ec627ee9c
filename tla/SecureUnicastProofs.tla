------------------------ MODULE SecureUnicastProofs ------------------------
(***************************************************************************)
(* For every counter width, window size and arrival order: the receiver of *)
(* a secure unicast session never handles a message twice, never takes a   *)
(* message inside the window for a duplicate unless it was handled, and    *)
(* the sender never uses a counter twice.                                  *)
(***************************************************************************)
EXTENDS SecureUnicast, TLAPS

(* The sender's counters are the ones it has passed.                       *)
SentIsPast == \A msg \in sent : msg.counter \in 1..mLastUsedValue

IInv ==
    /\ TypeOK
    /\ WindowIsExact
    /\ DuplicateWasHandled
    /\ SentIsPast

-----------------------------------------------------------------------------
(* What the receiver's verdict means, in plain arithmetic: no subtraction  *)
(* of the unicast path wraps.                                              *)
LEMMA VerdictMeaning ==
    ASSUME NEW p \in SyncState, NEW c \in Counters
    PROVE  /\ VerifyEncryptedUnicast(p, c) <=>
                  \/ c > p.max
                  \/ /\ c < p.max
                     /\ p.max - c <= WindowSize
                     /\ p.max - c - 1 \notin p.window
           /\ c > p.max =>
                  CommitEncryptedUnicast(p, c) =
                      [p EXCEPT !.max = c,
                                !.window = IF c - p.max > WindowSize THEN {}
                                           ELSE ShiftWindow(p.window, c - p.max)]
           /\ (c < p.max /\ p.max - c <= WindowSize) =>
                  CommitEncryptedUnicast(p, c) =
                      [p EXCEPT !.window = p.window \cup {p.max - c - 1}]
<1>1. p.max \in Int /\ c \in Int /\ WindowSize \in Int /\ Mod \in Int
  BY WindowAssumption DEF SyncState, Counters
<1>2. CASE c > p.max
  <2>1. ClassifyWithoutRollover(p, c) = "FutureCounter" /\ Minus(c, p.max) = c - p.max
    BY <1>1, <1>2 DEF ClassifyWithoutRollover, Minus
  <2>2. VerifyEncryptedUnicast(p, c)
    BY <2>1 DEF VerifyEncryptedUnicast, VerifyPositionEncrypted
  <2>3. CommitEncryptedUnicast(p, c) =
            [p EXCEPT !.max = c,
                      !.window = IF c - p.max > WindowSize THEN {}
                                 ELSE ShiftWindow(p.window, c - p.max)]
    BY <2>1 DEF CommitEncryptedUnicast, CommitWithPosition
  <2> QED BY <1>1, <1>2, <2>2, <2>3
<1>3. CASE c <= p.max
  BY <1>1, <1>3 DEF VerifyEncryptedUnicast, CommitEncryptedUnicast, VerifyPositionEncrypted,
     ClassifyWithoutRollover, ClassifyNonFutureCounter, CommitWithPosition, Minus, WindowTest
<1> QED BY <1>1, <1>2, <1>3

(* A committed state is again a synchronized state.                        *)
LEMMA CommitType ==
    ASSUME NEW p \in SyncState, p.sync = "Synced", NEW c \in Counters,
           VerifyEncryptedUnicast(p, c)
    PROVE  /\ CommitEncryptedUnicast(p, c) \in SyncState
           /\ CommitEncryptedUnicast(p, c).sync = "Synced"
<1>1. p.max \in Int /\ c \in Int /\ WindowSize \in Nat \ {0} /\ Mod \in Int
  BY WindowAssumption DEF SyncState, Counters
<1>2. CASE c > p.max
  <2>1. CommitEncryptedUnicast(p, c) =
            [p EXCEPT !.max = c,
                      !.window = IF c - p.max > WindowSize THEN {}
                                 ELSE ShiftWindow(p.window, c - p.max)]
    BY <1>2, VerdictMeaning
  <2>2. (IF c - p.max > WindowSize THEN {} ELSE ShiftWindow(p.window, c - p.max)) \subseteq Bits
    BY <1>1, <1>2 DEF ShiftWindow, Bits
  <2> QED BY <2>1, <2>2 DEF SyncState
<1>3. CASE c < p.max /\ p.max - c <= WindowSize
  <2>1. CommitEncryptedUnicast(p, c) = [p EXCEPT !.window = p.window \cup {p.max - c - 1}]
    BY <1>3, VerdictMeaning
  <2>2. p.max - c - 1 \in Bits
    BY <1>1, <1>3 DEF Bits
  <2> QED BY <2>1, <2>2 DEF SyncState
<1> QED BY <1>2, <1>3, VerdictMeaning

-----------------------------------------------------------------------------
LEMMA InitInv == Init => IInv
<1> SUFFICES ASSUME Init PROVE IInv
  OBVIOUS
<1>1. 0 \in Counters /\ WindowSize \in Nat \ {0} /\ Mod \in Nat
  BY WindowAssumption DEF Counters
<1>2. TypeOK
  BY <1>1, SessionAssumption DEF Init, TypeOK, SetCounter, kInitialSyncValue, SyncState, None
<1>3. WindowIsExact
  BY <1>1 DEF Init, WindowIsExact, SetCounter, kInitialSyncValue, Bits
<1>4. DuplicateWasHandled /\ SentIsPast
  BY DEF Init, DuplicateWasHandled, None, SentIsPast
<1> QED BY <1>2, <1>3, <1>4 DEF IInv

LEMMA SendInv ==
    ASSUME IInv, NEW needsAck \in BOOLEAN, PrepareMessage(needsAck)
    PROVE  IInv' /\ \A msg \in sent : msg.counter # mLastUsedValue'
<1>1. mLastUsedValue \in Nat /\ mLastUsedValue' = mLastUsedValue + 1 /\ mLastUsedValue' \in Counters
  BY WindowAssumption DEF IInv, TypeOK, PrepareMessage, Counters, kMessageCounterMax
<1>2. sent' = sent \cup {[counter |-> mLastUsedValue', needsAck |-> needsAck]}
  BY DEF PrepareMessage
<1>3. TypeOK'
  BY <1>1, <1>2 DEF IInv, TypeOK, PrepareMessage, Messages
<1>4. SentIsPast' /\ \A msg \in sent : msg.counter # mLastUsedValue'
  <2>1. \A msg \in sent : msg.counter \in 1..mLastUsedValue
    BY DEF IInv, SentIsPast
  <2> QED BY <1>1, <1>2, <2>1 DEF SentIsPast
<1>5. WindowIsExact' /\ DuplicateWasHandled'
  BY DEF IInv, WindowIsExact, DuplicateWasHandled, PrepareMessage
<1> QED BY <1>3, <1>4, <1>5 DEF IInv

(* The heart of the argument: a new message keeps the window exact.        *)
LEMMA NewMessageInv ==
    ASSUME IInv, NEW msg \in sent, NEW a \in Addresses,
           SecureUnicastMessageDispatch(msg, a),
           VerifyEncryptedUnicast(peer, msg.counter)
    PROVE  /\ IInv'
           /\ upcall'.counter = msg.counter
           /\ msg.counter \notin handled
           /\ handled' = handled \cup {msg.counter}
<1> DEFINE c == msg.counter
<1>1. /\ c \in Counters /\ peer \in SyncState /\ peer.sync = "Synced" /\ handled \subseteq Counters
      /\ WindowSize \in Nat \ {0} /\ Mod \in Nat /\ peer.max \in Nat /\ c \in Nat
      /\ peer.window \subseteq Bits /\ c \in 1..mLastUsedValue
  BY WindowAssumption DEF IInv, TypeOK, Messages, SyncState, Counters, SentIsPast
<1>2. /\ peer' = CommitEncryptedUnicast(peer, c)
      /\ mPeerAddress' = a
      /\ handled' = handled \cup {c}
      /\ upcall' = [counter |-> c, isDuplicate |-> FALSE]
      /\ UNCHANGED <<mLastUsedValue, sent>>
  BY DEF SecureUnicastMessageDispatch
<1>3. WindowIsExact
  BY DEF IInv
<1>4. TypeOK'
  BY <1>1, <1>2, CommitType DEF IInv, TypeOK
<1>5. DuplicateWasHandled' /\ SentIsPast'
  BY <1>2 DEF IInv, DuplicateWasHandled, SentIsPast
<1>6. CASE c > peer.max
  <2>1. c \notin handled
    BY <1>1, <1>3, <1>6 DEF WindowIsExact, Counters
  <2>0. peer' = [peer EXCEPT !.max = c,
                             !.window = IF c - peer.max > WindowSize THEN {}
                                        ELSE ShiftWindow(peer.window, c - peer.max)]
    BY <1>1, <1>2, <1>6, VerdictMeaning
  <2>2. peer'.max = c
    BY <1>1, <2>0 DEF SyncState
  <2>3. peer'.window = IF c - peer.max > WindowSize THEN {}
                       ELSE ShiftWindow(peer.window, c - peer.max)
    BY <1>1, <2>0 DEF SyncState
  <2>4. \A x \in handled' : x <= peer'.max
    BY <1>1, <1>2, <1>3, <1>6, <2>2 DEF WindowIsExact, Counters
  <2>5. ASSUME NEW o \in Bits
        PROVE  o \in peer'.window <=> peer'.max - 1 - o \in handled' \cup {kInitialSyncValue}
    <3>1. o \in Nat /\ o < WindowSize
      BY <1>1 DEF Bits
    <3>2. CASE o < c - peer.max - 1
      <4>1. c - 1 - o > peer.max /\ c - 1 - o # c /\ c - 1 - o \notin handled
        BY <1>1, <1>3, <3>1, <3>2 DEF WindowIsExact, Counters
      <4>2. o \notin peer'.window
        BY <1>1, <2>3, <3>1, <3>2 DEF ShiftWindow, Bits
      <4> QED BY <1>1, <1>2, <2>2, <4>1, <4>2 DEF kInitialSyncValue
    <3>3. CASE o = c - peer.max - 1
      <4>1. o \in peer'.window
        BY <1>1, <2>3, <3>1, <3>3 DEF ShiftWindow, Bits
      <4>2. c - 1 - o = peer.max
        BY <1>1, <3>1, <3>3
      <4> QED BY <1>2, <1>3, <2>2, <4>1, <4>2 DEF WindowIsExact
    <3>4. CASE o > c - peer.max - 1
      <4>1. o - (c - peer.max) \in Bits /\ ~(c - peer.max > WindowSize)
        BY <1>1, <1>6, <3>1, <3>4 DEF Bits
      <4>2. o \in peer'.window <=> o - (c - peer.max) \in peer.window
        BY <1>1, <2>3, <3>1, <3>4, <4>1 DEF ShiftWindow, Bits
      <4>3. o - (c - peer.max) \in peer.window <=>
                peer.max - 1 - (o - (c - peer.max)) \in handled \cup {kInitialSyncValue}
        BY <1>3, <4>1 DEF WindowIsExact
      <4>4. peer.max - 1 - (o - (c - peer.max)) = c - 1 - o /\ c - 1 - o # c
        BY <1>1, <3>1
      <4> QED BY <1>2, <2>2, <4>2, <4>3, <4>4
    <3> QED BY <1>1, <3>1, <3>2, <3>3, <3>4
  <2> QED BY <1>2, <1>4, <1>5, <2>1, <2>2, <2>4, <2>5 DEF IInv, WindowIsExact
<1>7. CASE /\ c < peer.max
           /\ peer.max - c <= WindowSize
           /\ peer.max - c - 1 \notin peer.window
  <2>1. peer.max - c - 1 \in Bits /\ peer.max - 1 - (peer.max - c - 1) = c
    BY <1>1, <1>7 DEF Bits
  <2>2. c \notin handled
    BY <1>3, <1>7, <2>1 DEF WindowIsExact
  <2>0. peer' = [peer EXCEPT !.window = peer.window \cup {peer.max - c - 1}]
    BY <1>1, <1>2, <1>7, VerdictMeaning
  <2>3. peer'.max = peer.max /\ peer'.window = peer.window \cup {peer.max - c - 1}
    BY <1>1, <2>0 DEF SyncState
  <2>4. \A x \in handled' : x <= peer'.max
    BY <1>1, <1>2, <1>3, <1>7, <2>3 DEF WindowIsExact
  <2>5. ASSUME NEW o \in Bits
        PROVE  o \in peer'.window <=> peer'.max - 1 - o \in handled' \cup {kInitialSyncValue}
    <3>1. o = peer.max - c - 1 <=> peer.max - 1 - o = c
      BY <1>1 DEF Bits
    <3> QED BY <1>2, <1>3, <2>3, <3>1 DEF WindowIsExact
  <2> QED BY <1>2, <1>3, <1>4, <1>5, <2>2, <2>3, <2>4, <2>5 DEF IInv, WindowIsExact
<1> QED BY <1>1, <1>6, <1>7, VerdictMeaning

LEMMA DuplicateInv ==
    ASSUME IInv, NEW msg \in sent, NEW a \in Addresses,
           SecureUnicastMessageDispatch(msg, a),
           ~VerifyEncryptedUnicast(peer, msg.counter)
    PROVE  IInv'
<1> DEFINE c == msg.counter
<1>1. /\ c \in Counters /\ peer \in SyncState /\ c \in 1..mLastUsedValue
      /\ WindowSize \in Nat \ {0} /\ Mod \in Nat /\ peer.max \in Nat /\ c \in Nat \ {0}
  BY WindowAssumption DEF IInv, TypeOK, Messages, SyncState, Counters, SentIsPast
<1>2. /\ upcall' \in {upcall, [counter |-> c, isDuplicate |-> TRUE]}
      /\ UNCHANGED <<mLastUsedValue, sent, peer, mPeerAddress, handled>>
  BY DEF SecureUnicastMessageDispatch
<1>3. c \in handled \/ peer.max - c > WindowSize
  <2>1. CASE c = peer.max
    BY <1>1, <2>1 DEF IInv, WindowIsExact, kInitialSyncValue
  <2>2. CASE c < peer.max /\ peer.max - c <= WindowSize
    <3>1. peer.max - c - 1 \in peer.window
      BY <1>1, <2>2, VerdictMeaning
    <3>2. peer.max - c - 1 \in Bits /\ peer.max - 1 - (peer.max - c - 1) = c
      BY <1>1, <2>2 DEF Bits
    <3> QED BY <1>1, <3>1, <3>2 DEF IInv, WindowIsExact, kInitialSyncValue
  <2>3. ~(c > peer.max)
    BY <1>1, VerdictMeaning
  <2> QED BY <1>1, <2>1, <2>2, <2>3
<1>4. DuplicateWasHandled'
  BY <1>1, <1>2, <1>3 DEF IInv, DuplicateWasHandled
<1>5. TypeOK'
  <2>1. upcall' \in [counter : Counters, isDuplicate : BOOLEAN]
    <3>1. upcall \in [counter : Counters, isDuplicate : BOOLEAN]
      BY DEF IInv, TypeOK
    <3>2. [counter |-> c, isDuplicate |-> TRUE] \in [counter : Counters, isDuplicate : BOOLEAN]
      BY <1>1
    <3> QED BY <1>2, <3>1, <3>2
  <2> QED BY <1>2, <2>1 DEF IInv, TypeOK
<1>6. WindowIsExact' /\ SentIsPast'
  BY <1>2 DEF IInv, WindowIsExact, SentIsPast
<1> QED BY <1>4, <1>5, <1>6 DEF IInv

LEMMA NextInv == IInv /\ [Next]_vars => IInv'
<1> SUFFICES ASSUME IInv, [Next]_vars PROVE IInv'
  OBVIOUS
<1>1. CASE \E needsAck \in BOOLEAN : PrepareMessage(needsAck)
  BY <1>1, SendInv
<1>2. ASSUME NEW msg \in sent, NEW a \in Addresses, SecureUnicastMessageDispatch(msg, a)
      PROVE  IInv'
  BY <1>2, NewMessageInv, DuplicateInv
<1>3. CASE UNCHANGED vars
  BY <1>3 DEF vars, IInv, TypeOK, WindowIsExact, DuplicateWasHandled, SentIsPast
<1> QED BY <1>1, <1>2, <1>3 DEF Next

-----------------------------------------------------------------------------
(* The window of SecureUnicastMessageDispatch is exact in every reachable  *)
(* state, and a message reported as a duplicate was handled or had fallen  *)
(* out of the window.                                                      *)
THEOREM ReceiverIsExact == Spec => [](TypeOK /\ WindowIsExact /\ DuplicateWasHandled)
<1>1. IInv => TypeOK /\ WindowIsExact /\ DuplicateWasHandled
  BY DEF IInv
<1> QED BY <1>1, InitInv, NextInv, PTL DEF Spec

(* No message of a secure unicast session is handled twice.                *)
THEOREM UnicastNoReplay == Spec => NoReplay
<1>1. ASSUME IInv, [Next]_vars
      PROVE  [peer' # peer => /\ upcall'.counter \notin handled
                              /\ handled' = handled \cup {upcall'.counter}]_vars
  <2>1. ASSUME NEW needsAck \in BOOLEAN, PrepareMessage(needsAck) PROVE peer' = peer
    BY <2>1 DEF PrepareMessage
  <2>2. ASSUME NEW msg \in sent, NEW a \in Addresses, SecureUnicastMessageDispatch(msg, a)
        PROVE  peer' # peer => /\ upcall'.counter \notin handled
                               /\ handled' = handled \cup {upcall'.counter}
    <3>1. CASE VerifyEncryptedUnicast(peer, msg.counter)
      BY <1>1, <2>2, <3>1, NewMessageInv
    <3>2. CASE ~VerifyEncryptedUnicast(peer, msg.counter)
      BY <2>2, <3>2 DEF SecureUnicastMessageDispatch
    <3> QED BY <3>1, <3>2
  <2> QED BY <1>1, <2>1, <2>2 DEF Next
<1> QED BY <1>1, InitInv, NextInv, PTL DEF Spec, NoReplay

(* Only a message never handled before moves the address replies go to:    *)
(* what is delayed or replayed leaves SetPeerAddress alone.                *)
THEOREM ReplayCannotRedirect == Spec => ReplayKeepsPeerAddress
<1>1. ASSUME IInv, [Next]_vars
      PROVE  [mPeerAddress' # mPeerAddress => handled' # handled]_vars
  <2>1. ASSUME NEW needsAck \in BOOLEAN, PrepareMessage(needsAck)
        PROVE  mPeerAddress' = mPeerAddress
    BY <2>1 DEF PrepareMessage
  <2>2. ASSUME NEW msg \in sent, NEW a \in Addresses, SecureUnicastMessageDispatch(msg, a)
        PROVE  mPeerAddress' # mPeerAddress => handled' # handled
    <3>1. CASE VerifyEncryptedUnicast(peer, msg.counter)
      <4>1. upcall'.counter \notin handled /\ handled' = handled \cup {upcall'.counter}
        BY <1>1, <2>2, <3>1, NewMessageInv
      <4> QED BY <4>1
    <3>2. CASE ~VerifyEncryptedUnicast(peer, msg.counter)
      BY <2>2, <3>2 DEF SecureUnicastMessageDispatch
    <3> QED BY <3>1, <3>2
  <2> QED BY <1>1, <2>1, <2>2 DEF Next
<1> QED BY <1>1, InitInv, NextInv, PTL DEF Spec, ReplayKeepsPeerAddress

(* LocalSessionMessageCounter never hands out a counter twice.             *)
THEOREM UnicastNoNonceReuse == Spec => NoNonceReuse
<1>1. ASSUME IInv, [Next]_vars
      PROVE  [sent' # sent => /\ mLastUsedValue' # kInitialSyncValue
                              /\ \A msg \in sent : msg.counter # mLastUsedValue']_vars
  <2>1. ASSUME NEW needsAck \in BOOLEAN, PrepareMessage(needsAck)
        PROVE  /\ mLastUsedValue' # kInitialSyncValue
               /\ \A msg \in sent : msg.counter # mLastUsedValue'
    <3>1. mLastUsedValue \in Nat /\ mLastUsedValue' = mLastUsedValue + 1
      BY <1>1, <2>1, WindowAssumption DEF PrepareMessage, IInv, TypeOK, Counters
    <3> QED BY <1>1, <2>1, <3>1, SendInv DEF kInitialSyncValue
  <2>2. ASSUME NEW msg \in sent, NEW a \in Addresses, SecureUnicastMessageDispatch(msg, a)
        PROVE  sent' = sent
    BY <2>2 DEF SecureUnicastMessageDispatch
  <2> QED BY <1>1, <2>1, <2>2 DEF Next
<1> QED BY <1>1, InitInv, NextInv, PTL DEF Spec, NoNonceReuse
=============================================================================
