------------------------ MODULE PeerMessageCounter ------------------------
(***************************************************************************)
(* PeerMessageCounter (src/src/transport/PeerMessageCounter.h): what a     *)
(* receiver remembers of the message counters of one peer, and how it      *)
(* tells a new message from one it has already seen.                       *)
(*                                                                         *)
(* mSyncState is a record: sync is the variant's alternative, max is       *)
(* mMaxCounter, window is the set of the bits set in mWindow (bit o stands *)
(* for the counter max - 1 - o).  The third alternative, SyncInProcess, is *)
(* entered only through MessageCounterManager::StartSync, which no code of *)
(* the stack calls (message counter synchronization is not implemented).   *)
(* The operations are those of secure unicast sessions; those of group and *)
(* unencrypted messages, which roll over, are left out.                    *)
(***************************************************************************)
EXTENDS Integers

CONSTANTS
    Mod,            \* 2^32, the number of counter values
    WindowSize      \* CHIP_CONFIG_MESSAGE_COUNTER_WINDOW_SIZE

ASSUME WindowAssumption ==
    /\ Mod \in Nat /\ WindowSize \in Nat \ {0}
    /\ Mod % 2 = 0 /\ 2 * WindowSize < Mod

Counters == 0..(Mod - 1)
Bits == 0..(WindowSize - 1)

SyncState == [sync : {"NotSynced", "Synced"}, max : Counters, window : SUBSET Bits]

kInitialSyncValue == 0

(* SetCounter(value).                                                      *)
SetCounter(value) == [sync |-> "Synced", max |-> value, window |-> {}]

-----------------------------------------------------------------------------
(* x - y in uint32_t.                                                      *)
Minus(x, y) == IF x >= y THEN x - y ELSE x - y + Mod

ClassifyNonFutureCounter(peer, counter) ==
    CASE counter = peer.max -> "MaxCounter"
      [] counter # peer.max /\ Minus(peer.max, counter) <= WindowSize -> "InWindow"
      [] OTHER -> "BeforeWindow"

ClassifyWithoutRollover(peer, counter) ==
    IF counter > peer.max THEN "FutureCounter" ELSE ClassifyNonFutureCounter(peer, counter)

(* mWindow.test(offset - 1).                                               *)
WindowTest(peer, counter) == Minus(peer.max, counter) - 1 \in peer.window

(* Is the message accepted as a new one?                                   *)
VerifyPositionEncrypted(peer, position, counter) ==
    \/ position = "FutureCounter"
    \/ position = "InWindow" /\ ~WindowTest(peer, counter)

(* Mutant: the old maximum is not marked.                                  *)
ShiftWindowNoMark(window, shift) == {o \in Bits : o - shift \in window}

(* mWindow <<= shift; mWindow.set(shift - 1).                              *)
ShiftWindow(window, shift) == {o \in Bits : o - shift \in window} \cup {shift - 1}

(* Mutant: a jump of exactly WindowSize already clears the window.         *)
CommitResetsEarly(peer, position, counter) ==
    CASE position = "InWindow" ->
             [peer EXCEPT !.window = @ \cup {Minus(peer.max, counter) - 1}]
      [] position = "MaxCounter" -> peer
      [] OTHER ->
             LET shift == Minus(counter, peer.max) IN
             [peer EXCEPT !.max = counter,
                          !.window = IF shift >= WindowSize THEN {}
                                     ELSE ShiftWindow(@, shift)]

CommitWithPosition(peer, position, counter) ==
    CASE position = "InWindow" ->
             [peer EXCEPT !.window = @ \cup {Minus(peer.max, counter) - 1}]
      [] position = "MaxCounter" -> peer
      [] OTHER ->
             LET shift == Minus(counter, peer.max) IN
             [peer EXCEPT !.max = counter,
                          !.window = IF shift > WindowSize THEN {}
                                     ELSE ShiftWindow(@, shift)]

-----------------------------------------------------------------------------
(* Secure unicast: VerifyEncryptedUnicast and CommitEncryptedUnicast.      *)
VerifyEncryptedUnicast(peer, counter) ==
    VerifyPositionEncrypted(peer, ClassifyWithoutRollover(peer, counter), counter)

CommitEncryptedUnicast(peer, counter) ==
    CommitWithPosition(peer, ClassifyWithoutRollover(peer, counter), counter)
=============================================================================
