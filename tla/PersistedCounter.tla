------------------------- MODULE PersistedCounter -------------------------
(***************************************************************************)
(* PersistedCounter<T> (src/src/lib/support/PersistedCounter.h): a counter *)
(* whose values must not repeat across reboots although only one write in  *)
(* Epoch steps reaches persistent storage.  What is stored is the value    *)
(* the NEXT boot will start from.                                          *)
(*                                                                         *)
(* Its owners are the event log (uint64_t, starts at 0) and the ICD        *)
(* Check-In counter (uint32_t, random start, allowed to roll over).  An    *)
(* operation may be cut short by a failing write; the device may restart   *)
(* between any two operations.                                             *)
(***************************************************************************)
EXTENDS Integers

CONSTANTS
    Mod,            \* numeric_limits<T>::max() + 1
    Epoch,          \* aEpoch of Init
    InitialValues,  \* what GetInitialCounterValue may return
    Increments,     \* arguments given to AdvanceBy
    NotFound,       \* storage holds no value yet
    WritesMayFail   \* whether SyncSetKeyValue may return an error

ASSUME CounterAssumption ==
    /\ Mod \in Nat /\ Epoch \in 1..(Mod - 1)
    /\ InitialValues \subseteq 0..(Mod - 1)
    /\ Increments \subseteq 1..(Mod - 1)
    /\ NotFound \notin 0..(Mod - 1)
    /\ WritesMayFail \in BOOLEAN

(* 0x10000 of 64 bits for events, 100 of 32 bits for Check-In messages.    *)
ASSUME EpochIsSmall == Epoch * Epoch < Mod

VARIABLES
    stored,         \* persistent storage: the start value of the next boot
    running,        \* Init has succeeded since the last restart
    mCounterValue,
    mNextEpoch,
    err,            \* what the last operation returned
    vended,         \* history: the values shown to the owner before a rollover
    lost,           \* history: a write of PersistNextEpochStart has failed
    rolled          \* history: a sum of the counter arithmetic has wrapped

vars == <<stored, running, mCounterValue, mNextEpoch, err, vended, lost, rolled>>

Values == 0..(Mod - 1)

Errors == {"none", "storage", "internal"}

TypeOK ==
    /\ stored \in Values \cup {NotFound}
    /\ running \in BOOLEAN
    /\ mCounterValue \in Values
    /\ mNextEpoch \in Values
    /\ err \in Errors
    /\ vended \subseteq Values
    /\ lost \in BOOLEAN
    /\ rolled \in BOOLEAN

-----------------------------------------------------------------------------
(* The history of values ends at the first rollover.                       *)
Show(value) == vended' = IF rolled' THEN {} ELSE vended \cup {value}

(* static_cast<T>(x + y) for x and y in range.                             *)
Wrap(sum) == IF sum >= Mod THEN sum - Mod ELSE sum

(* ReadStartValue: the stored value, or GetInitialCounterValue().          *)
ReadStartValue(start) ==
    start \in IF stored = NotFound THEN InitialValues ELSE {stored}

(* PersistNextEpochStart: the member is assigned before the write, whose   *)
(* result is ok.                                                           *)
PersistNextEpochStart(next, ok) ==
    /\ mNextEpoch' = Wrap(next)
    /\ ok \/ WritesMayFail
    /\ stored' = IF ok THEN Wrap(next) ELSE stored
    /\ lost' = (lost \/ ~ok)

(* PersistAndVerifyNextEpochStart(refEpoch), for the new counter value     *)
(* value: the check follows the write and compares modulo 2^w.             *)
PersistAndVerifyNextEpochStart(refEpoch, value, ok) ==
    /\ PersistNextEpochStart(refEpoch + Epoch, ok)
    /\ err' = CASE ~ok                                          -> "storage"
                [] ok /\ Wrap(value + Epoch) = Wrap(refEpoch + Epoch) -> "none"
                [] OTHER                                        -> "internal"

-----------------------------------------------------------------------------
Init ==
    /\ stored = NotFound
    /\ running = FALSE
    /\ mCounterValue = 0
    /\ mNextEpoch = 0
    /\ err = "none"
    /\ vended = {}
    /\ lost = FALSE
    /\ rolled = FALSE

(* Init(): read the start value, store the start of the boot after this    *)
(* one, and only then adopt the start value.  The owner reads it at once   *)
(* (EventManagement::Init).                                                *)
Boot(start) ==
    /\ ~running
    /\ ReadStartValue(start)
    /\ PersistNextEpochStart(start + Epoch, TRUE)
    /\ mCounterValue' = start
    /\ running' = TRUE
    /\ rolled' = (rolled \/ start + Epoch >= Mod)
    /\ Show(start)
    /\ err' = "none"

(* Init() fails: the read did, or the write did after mNextEpoch was       *)
(* assigned.  The owners then give up the boot (Server::Init exits,        *)
(* ICDManager::Init dies), so no value is used before another Init.        *)
BootFails(start) ==
    /\ ~running
    /\ WritesMayFail
    /\ ReadStartValue(start)
    /\ mNextEpoch' \in {mNextEpoch, Wrap(start + Epoch)}
    /\ err' = "storage"
    /\ UNCHANGED <<stored, running, mCounterValue, vended, lost, rolled>>

(* Mutant: the epoch is taken to last one value longer than it does.       *)
AdvanceOffByOne(ok) ==
    LET value == Wrap(mCounterValue + 1) IN
    /\ running
    /\ mCounterValue' = value
    /\ IF value > mNextEpoch
         THEN /\ PersistAndVerifyNextEpochStart(mNextEpoch, value, ok)
              /\ rolled' = (rolled \/ mCounterValue + 1 >= Mod \/ mNextEpoch + Epoch >= Mod)
         ELSE /\ ok
              /\ rolled' = (rolled \/ mCounterValue + 1 >= Mod)
              /\ err' = "none"
              /\ UNCHANGED <<mNextEpoch, stored, lost>>
    /\ Show(value)
    /\ UNCHANGED running

(* Advance(): VendEventNumber and SendCheckInMsgs use the new value even   *)
(* when Advance returns an error.                                          *)
Advance(ok) ==
    LET value == Wrap(mCounterValue + 1) IN
    /\ running
    /\ mCounterValue' = value
    /\ IF value >= mNextEpoch
         THEN /\ PersistAndVerifyNextEpochStart(mNextEpoch, value, ok)
              /\ rolled' = (rolled \/ mCounterValue + 1 >= Mod \/ mNextEpoch + Epoch >= Mod)
         ELSE /\ ok
              /\ rolled' = (rolled \/ mCounterValue + 1 >= Mod)
              /\ err' = "none"
              /\ UNCHANGED <<mNextEpoch, stored, lost>>
    /\ Show(value)
    /\ UNCHANGED running

(* Mutant: no epoch update when the sum rolls over below mNextEpoch.       *)
AdvanceByIgnoresRollover(n, ok) ==
    LET value == Wrap(mCounterValue + n) IN
    /\ running
    /\ mCounterValue' = value
    /\ IF value >= mNextEpoch
         THEN /\ PersistAndVerifyNextEpochStart(value, value, ok)
              /\ rolled' = (rolled \/ mCounterValue + n >= Mod \/ value + Epoch >= Mod)
         ELSE /\ ok
              /\ rolled' = (rolled \/ mCounterValue + n >= Mod)
              /\ err' = "none"
              /\ UNCHANGED <<mNextEpoch, stored, lost>>
    /\ Show(value)
    /\ UNCHANGED running

(* AdvanceBy(n), through InvalidateHalf/AllCheckInCounterValues.           *)
AdvanceBy(n, ok) ==
    LET value == Wrap(mCounterValue + n)
        shouldDoEpochUpdate == value >= mNextEpoch \/ mCounterValue > (Mod - 1) - n
    IN
    /\ running
    /\ mCounterValue' = value
    /\ IF shouldDoEpochUpdate
         THEN /\ PersistAndVerifyNextEpochStart(value, value, ok)
              /\ rolled' = (rolled \/ mCounterValue + n >= Mod \/ value + Epoch >= Mod)
         ELSE /\ ok
              /\ rolled' = (rolled \/ mCounterValue + n >= Mod)
              /\ err' = "none"
              /\ UNCHANGED <<mNextEpoch, stored, lost>>
    /\ Show(value)
    /\ UNCHANGED running

(* A restart loses the members (they are zero-initialized) and keeps the   *)
(* storage.                                                                *)
Restart ==
    /\ running
    /\ running' = FALSE
    /\ mCounterValue' = 0
    /\ mNextEpoch' = 0
    /\ err' = "none"
    /\ UNCHANGED <<stored, vended, lost, rolled>>

Next ==
    \/ \E start \in Values : Boot(start)
    \/ \E start \in Values : BootFails(start)
    \/ \E ok \in BOOLEAN : Advance(ok)
    \/ \E n \in Increments, ok \in BOOLEAN : AdvanceBy(n, ok)
    \/ Restart

Spec == Init /\ [][Next]_vars

-----------------------------------------------------------------------------
(* No value is shown to the owner twice, over any number of restarts, as   *)
(* long as the arithmetic has not wrapped and no write was lost: what an   *)
(* operation makes the current value was never current before.             *)
Fresh(value) == value \notin vended

NoReuse ==
    [][(mCounterValue' # mCounterValue \/ running' # running) /\ running'
         => rolled' \/ lost' \/ Fresh(mCounterValue')]_vars

(* The start value the next boot will use is ahead of the current value by *)
(* at most the distance the epochs written at a rollover can add, also     *)
(* while the counter rolls over: a restart never lands behind.             *)
Ahead(x) == Wrap(x - mCounterValue + Mod)

StoredIsAhead ==
    running /\ ~lost => Ahead(stored) \in 1..(Epoch * Epoch)

(* The epoch check of PersistAndVerifyNextEpochStart fails only at a       *)
(* rollover or after a lost write.                                         *)
InternalErrorOnlyAtRollover == err = "internal" => rolled \/ lost

=============================================================================
