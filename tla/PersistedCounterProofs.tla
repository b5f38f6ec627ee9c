---------------------- MODULE PersistedCounterProofs ----------------------
(***************************************************************************)
(* PersistedCounter never shows a value twice, over any number of          *)
(* restarts, for every width and epoch, until its arithmetic wraps or a    *)
(* write to storage is lost; and while it wraps, a restart still lands     *)
(* ahead of it.                                                            *)
(***************************************************************************)
EXTENDS PersistedCounter, TLAPS

(* Every value shown lies behind the stored start of the next boot, and    *)
(* behind the current value while the counter runs; the member mNextEpoch  *)
(* mirrors the storage.                                                    *)
ShownIsPast ==
    ~rolled /\ ~lost =>
        /\ vended # {} => stored \in Values /\ \A v \in vended : v < stored
        /\ running => /\ stored = mNextEpoch
                      /\ mCounterValue < mNextEpoch
                      /\ \A v \in vended : v <= mCounterValue

IInv == TypeOK /\ ShownIsPast /\ InternalErrorOnlyAtRollover

-----------------------------------------------------------------------------
LEMMA ValuesAreInt == Values \subseteq Nat /\ Mod \in Nat /\ Epoch \in Nat \ {0}
BY CounterAssumption DEF Values

LEMMA WrapType ==
    ASSUME NEW x \in Values, NEW n \in 0..(Mod - 1)
    PROVE  Wrap(x + n) \in Values /\ (x + n < Mod => Wrap(x + n) = x + n)
BY CounterAssumption DEF Wrap, Values

LEMMA InitInv == Init => IInv
<1>1. 0 \in Values
  BY CounterAssumption DEF Values
<1>2. Init => TypeOK
  BY <1>1 DEF Init, TypeOK, Errors
<1>3. Init => ShownIsPast /\ InternalErrorOnlyAtRollover
  BY DEF Init, ShownIsPast, InternalErrorOnlyAtRollover
<1> QED BY <1>2, <1>3 DEF IInv

(* What PersistNextEpochStart leaves behind.                               *)
LEMMA PersistEffect ==
    ASSUME TypeOK, NEW ref \in Values, NEW ok \in BOOLEAN,
           PersistNextEpochStart(ref + Epoch, ok)
    PROVE  /\ mNextEpoch' \in Values
           /\ stored' \in Values \cup {NotFound}
           /\ lost' \in BOOLEAN
           /\ ~lost' => ~lost /\ stored' = mNextEpoch'
           /\ ref + Epoch < Mod => mNextEpoch' = ref + Epoch
<1>1. Epoch \in 0..(Mod - 1)
  BY CounterAssumption
<1>2. Wrap(ref + Epoch) \in Values /\ (ref + Epoch < Mod => Wrap(ref + Epoch) = ref + Epoch)
  BY <1>1, WrapType
<1>3. ok = TRUE \/ ok = FALSE
  OBVIOUS
<1> QED BY <1>2, <1>3 DEF PersistNextEpochStart, TypeOK

LEMMA BootInv ==
    ASSUME IInv, NEW start \in Values, Boot(start)
    PROVE  IInv' /\ (~rolled' /\ ~lost' => start \notin vended)
<1>1. start \in Nat /\ Epoch \in Nat \ {0} /\ Mod \in Nat
  BY ValuesAreInt
<1>2. /\ mNextEpoch' \in Values /\ stored' \in Values \cup {NotFound} /\ lost' \in BOOLEAN
      /\ ~lost' => ~lost /\ stored' = mNextEpoch'
      /\ start + Epoch < Mod => mNextEpoch' = start + Epoch
  BY PersistEffect DEF IInv, Boot
<1>3. rolled' = (rolled \/ start + Epoch >= Mod) /\ running' = TRUE /\ mCounterValue' = start
      /\ err' = "none" /\ vended' = IF rolled' THEN {} ELSE vended \cup {start}
  BY DEF Boot, Show
<1>4. rolled \in BOOLEAN /\ vended \subseteq Values
  BY DEF IInv, TypeOK
<1>5. TypeOK'
  BY <1>2, <1>3, <1>4 DEF TypeOK, Errors
<1>6. ~rolled' /\ ~lost' => \A v \in vended : v < start
  <2> SUFFICES ASSUME ~rolled', ~lost', NEW v \in vended PROVE v < start
    OBVIOUS
  <2>1. ~rolled /\ ~lost
    BY <1>2, <1>3
  <2>2. stored \in Values /\ v < stored
    BY <2>1 DEF IInv, ShownIsPast
  <2>3. start = stored
    BY <2>2, CounterAssumption DEF Boot, ReadStartValue, Values
  <2> QED BY <2>2, <2>3
<1>7. ShownIsPast'
  <2> SUFFICES ASSUME ~rolled', ~lost'
               PROVE  /\ stored' \in Values /\ \A v \in vended' : v < stored'
                      /\ stored' = mNextEpoch' /\ mCounterValue' < mNextEpoch'
                      /\ \A v \in vended' : v <= mCounterValue'
    BY DEF ShownIsPast
  <2>0. ~(start + Epoch >= Mod) /\ vended' = vended \cup {start}
    BY <1>3, Zenon
  <2>1. mNextEpoch' = start + Epoch /\ stored' = start + Epoch
    BY <1>1, <1>2, <2>0
  <2>2. \A v \in vended' : v \in Nat /\ v <= start
    BY <1>1, <1>4, <1>6, <2>0, ValuesAreInt
  <2> QED BY <1>1, <1>2, <1>3, <2>1, <2>2
<1>8. InternalErrorOnlyAtRollover'
  BY <1>3 DEF InternalErrorOnlyAtRollover
<1>9. ~rolled' /\ ~lost' => start \notin vended
  BY <1>1, <1>6
<1> QED BY <1>5, <1>7, <1>8, <1>9 DEF IInv

(* Advance and AdvanceBy in one: a step of n that writes from ref when it  *)
(* crosses the epoch.                                                      *)
LEMMA StepInv ==
    ASSUME IInv, running, NEW n \in 1..(Mod - 1), NEW ok \in BOOLEAN,
           NEW value, value = Wrap(mCounterValue + n), mCounterValue' = value,
           NEW crosses \in BOOLEAN, NEW ref \in Values,
           value >= mNextEpoch => crosses,
           crosses /\ mCounterValue + n < Mod /\ ~rolled /\ ~lost => ref = value,
           crosses => /\ PersistAndVerifyNextEpochStart(ref, value, ok)
                      /\ rolled' = (rolled \/ mCounterValue + n >= Mod \/ ref + Epoch >= Mod),
           ~crosses => /\ rolled' = (rolled \/ mCounterValue + n >= Mod)
                       /\ err' = "none"
                       /\ UNCHANGED <<mNextEpoch, stored, lost>>,
           Show(value), UNCHANGED running
    PROVE  IInv' /\ (~rolled' /\ ~lost' => value \notin vended)
<1>1. /\ mCounterValue \in Nat /\ mNextEpoch \in Nat /\ Epoch \in Nat \ {0} /\ Mod \in Nat
      /\ n \in Nat \ {0} /\ ref \in Nat
  BY ValuesAreInt DEF IInv, TypeOK
<1>2. value \in Values /\ (mCounterValue + n < Mod => value = mCounterValue + n)
  BY WrapType DEF IInv, TypeOK
<1>3. value \in Nat
  BY <1>2, ValuesAreInt
<1>4. /\ mNextEpoch' \in Values /\ stored' \in Values \cup {NotFound} /\ lost' \in BOOLEAN
      /\ ~lost' => ~lost
      /\ crosses /\ ~lost' => stored' = mNextEpoch'
      /\ crosses /\ ref + Epoch < Mod => mNextEpoch' = ref + Epoch
  <2>1. CASE crosses
    BY <2>1, PersistEffect DEF IInv, PersistAndVerifyNextEpochStart
  <2>2. CASE ~crosses
    BY <2>2 DEF IInv, TypeOK
  <2> QED BY <2>1, <2>2
<1>5. rolled' \in BOOLEAN /\ err' \in Errors
  <2>1. CASE crosses
    BY <2>1 DEF PersistAndVerifyNextEpochStart, Errors, IInv, TypeOK
  <2>2. CASE ~crosses
    BY <2>2 DEF Errors, IInv, TypeOK
  <2> QED BY <2>1, <2>2
<1>6. vended' = IF rolled' THEN {} ELSE vended \cup {value}
  BY DEF Show
<1>7. TypeOK'
  BY <1>2, <1>4, <1>5, <1>6 DEF IInv, TypeOK
<1>8. ASSUME ~rolled', ~lost'
      PROVE  /\ stored' \in Values /\ \A v \in vended' : v < stored'
             /\ stored' = mNextEpoch' /\ value < mNextEpoch'
             /\ \A v \in vended' : v <= value
             /\ value \notin vended
             /\ err' # "internal"
  <2>1. ~rolled /\ ~lost
    BY <1>4, <1>8
  <2>0. ~(mCounterValue + n >= Mod) /\ vended' = vended \cup {value}
    <3>1. CASE crosses
      BY <1>6, <1>8, <3>1, Zenon
    <3>2. CASE ~crosses
      BY <1>6, <1>8, <3>2, Zenon
    <3> QED BY <3>1, <3>2
  <2>2. mCounterValue + n < Mod
    BY <1>1, <2>0
  <2>3. stored = mNextEpoch /\ mCounterValue < mNextEpoch /\ \A v \in vended : v <= mCounterValue
    BY <2>1 DEF IInv, ShownIsPast
  <2>4. vended \subseteq Nat
    BY ValuesAreInt DEF IInv, TypeOK
  <2>5. value \notin vended /\ \A v \in vended : v <= value
    BY <1>1, <1>2, <2>2, <2>3, <2>4
  <2>6. \A v \in vended' : v \in Nat /\ v <= value
    BY <1>3, <2>0, <2>4, <2>5
  <2>7. CASE crosses
    <3>0. ~(ref + Epoch >= Mod)
      BY <1>8, <2>7, Zenon
    <3>1. ref = value /\ ref + Epoch < Mod
      BY <1>1, <2>1, <2>2, <2>7, <3>0
    <3>2. mNextEpoch' = value + Epoch /\ stored' = value + Epoch /\ stored' \in Values
      BY <1>4, <1>8, <2>7, <3>1
    <3>3. err' # "internal"
      BY <2>7, <3>1 DEF PersistAndVerifyNextEpochStart
    <3> QED BY <1>1, <1>3, <2>5, <2>6, <3>2, <3>3
  <2>8. CASE ~crosses
    <3>1. value < mNextEpoch /\ mNextEpoch' = mNextEpoch /\ stored' = mNextEpoch /\ err' = "none"
      BY <1>1, <1>3, <2>3, <2>8
    <3> QED BY <1>1, <1>3, <1>4, <2>5, <2>6, <3>1
  <2> QED BY <2>7, <2>8
<1>9. ShownIsPast' /\ InternalErrorOnlyAtRollover'
  BY <1>8 DEF ShownIsPast, InternalErrorOnlyAtRollover
<1> QED BY <1>7, <1>8, <1>9 DEF IInv

LEMMA AdvanceInv ==
    ASSUME IInv, NEW ok \in BOOLEAN, Advance(ok)
    PROVE  IInv' /\ (~rolled' /\ ~lost' => mCounterValue' \notin vended)
<1> DEFINE value == Wrap(mCounterValue + 1)
<1> DEFINE crosses == value >= mNextEpoch
<1>1. 1 \in 1..(Mod - 1) /\ mNextEpoch \in Values /\ mCounterValue \in Values
  BY CounterAssumption DEF IInv, TypeOK
<1>2. crosses /\ mCounterValue + 1 < Mod /\ ~rolled /\ ~lost => mNextEpoch = value
  <2>1. mCounterValue + 1 < Mod => value = mCounterValue + 1
    BY <1>1, WrapType
  <2>2. ~rolled /\ ~lost => mCounterValue < mNextEpoch
    BY DEF IInv, ShownIsPast, Advance
  <2> QED BY <1>1, <2>1, <2>2, ValuesAreInt
<1>3. /\ running /\ mCounterValue' = value /\ Show(value) /\ UNCHANGED running
      /\ crosses => /\ PersistAndVerifyNextEpochStart(mNextEpoch, value, ok)
                    /\ rolled' = (rolled \/ mCounterValue + 1 >= Mod \/ mNextEpoch + Epoch >= Mod)
      /\ ~crosses => /\ rolled' = (rolled \/ mCounterValue + 1 >= Mod)
                     /\ err' = "none"
                     /\ UNCHANGED <<mNextEpoch, stored, lost>>
  BY DEF Advance
<1>4. crosses \in BOOLEAN
  OBVIOUS
<1> HIDE DEF value, crosses
<1>5. value = Wrap(mCounterValue + 1) /\ (value >= mNextEpoch => crosses)
  BY DEF value, crosses
<1> QED BY <1>1, <1>2, <1>3, <1>4, <1>5, StepInv

LEMMA AdvanceByInv ==
    ASSUME IInv, NEW n \in Increments, NEW ok \in BOOLEAN, AdvanceBy(n, ok)
    PROVE  IInv' /\ (~rolled' /\ ~lost' => mCounterValue' \notin vended)
<1> DEFINE value == Wrap(mCounterValue + n)
<1> DEFINE crosses == value >= mNextEpoch \/ mCounterValue > (Mod - 1) - n
<1>1. n \in 1..(Mod - 1) /\ n \in 0..(Mod - 1) /\ mCounterValue \in Values
  BY CounterAssumption DEF IInv, TypeOK
<1>2. value \in Values
  BY <1>1, WrapType
<1>3. /\ running /\ mCounterValue' = value /\ Show(value) /\ UNCHANGED running
      /\ crosses => /\ PersistAndVerifyNextEpochStart(value, value, ok)
                    /\ rolled' = (rolled \/ mCounterValue + n >= Mod \/ value + Epoch >= Mod)
      /\ ~crosses => /\ rolled' = (rolled \/ mCounterValue + n >= Mod)
                     /\ err' = "none"
                     /\ UNCHANGED <<mNextEpoch, stored, lost>>
  BY DEF AdvanceBy
<1>4. crosses \in BOOLEAN
  OBVIOUS
<1> HIDE DEF value, crosses
<1>5. value = Wrap(mCounterValue + n) /\ (value >= mNextEpoch => crosses)
  BY DEF value, crosses
<1> QED BY <1>1, <1>2, <1>3, <1>4, <1>5, StepInv

LEMMA QuietInv ==
    ASSUME IInv,
           \/ \E start \in Values : BootFails(start)
           \/ Restart
           \/ UNCHANGED vars
    PROVE  IInv' /\ (running' => running /\ mCounterValue' = mCounterValue)
<1>1. ASSUME NEW start \in Values, BootFails(start)
      PROVE  IInv' /\ ~running'
  <2>1. Epoch \in 0..(Mod - 1)
    BY CounterAssumption
  <2>2. mNextEpoch' \in Values
    BY <1>1, <2>1, WrapType DEF BootFails, IInv, TypeOK
  <2> QED BY <1>1, <2>2 DEF BootFails, IInv, TypeOK, Errors, ShownIsPast, InternalErrorOnlyAtRollover
<1>2. CASE Restart
  <2>1. 0 \in Values
    BY CounterAssumption DEF Values
  <2>2. TypeOK'
    BY <1>2, <2>1 DEF Restart, IInv, TypeOK, Errors
  <2>3. ShownIsPast' /\ InternalErrorOnlyAtRollover'
    BY <1>2 DEF Restart, IInv, ShownIsPast, InternalErrorOnlyAtRollover
  <2> QED BY <1>2, <2>2, <2>3 DEF IInv, Restart
<1>3. CASE UNCHANGED vars
  BY <1>3 DEF vars, IInv, TypeOK, ShownIsPast, InternalErrorOnlyAtRollover
<1> QED BY <1>1, <1>2, <1>3 DEF Restart

LEMMA NextInv ==
    ASSUME IInv, [Next]_vars
    PROVE  /\ IInv'
           /\ (mCounterValue' # mCounterValue \/ running' # running) /\ running'
                => rolled' \/ lost' \/ Fresh(mCounterValue')
<1>1. ASSUME NEW start \in Values, Boot(start)
      PROVE  IInv' /\ (rolled' \/ lost' \/ Fresh(mCounterValue'))
  BY <1>1, BootInv DEF Boot, Fresh
<1>2. ASSUME NEW ok \in BOOLEAN, Advance(ok)
      PROVE  IInv' /\ (rolled' \/ lost' \/ Fresh(mCounterValue'))
  BY <1>2, AdvanceInv DEF Fresh
<1>3. ASSUME NEW n \in Increments, NEW ok \in BOOLEAN, AdvanceBy(n, ok)
      PROVE  IInv' /\ (rolled' \/ lost' \/ Fresh(mCounterValue'))
  BY <1>3, AdvanceByInv DEF Fresh
<1>4. CASE \/ \E start \in Values : BootFails(start)
           \/ Restart
           \/ UNCHANGED vars
  BY <1>4, QuietInv DEF IInv, TypeOK
<1> QED BY <1>1, <1>2, <1>3, <1>4 DEF Next

-----------------------------------------------------------------------------
(* The counter's members stay in range, and the epoch check of             *)
(* PersistAndVerifyNextEpochStart fails only at a rollover or after a lost *)
(* write.                                                                  *)
THEOREM CounterSafety == Spec => [](TypeOK /\ InternalErrorOnlyAtRollover)
<1>1. IInv => TypeOK /\ InternalErrorOnlyAtRollover
  BY DEF IInv
<1>2. IInv /\ [Next]_vars => IInv'
  BY NextInv
<1> QED BY <1>1, <1>2, InitInv, PTL DEF Spec

(* A value shown by PersistedCounter was never shown before, whenever the  *)
(* device restarts, until a rollover or a lost write.                      *)
THEOREM CounterNoReuse == Spec => NoReuse
<1>1. IInv /\ [Next]_vars => IInv'
  BY NextInv
<1>2. IInv /\ [Next]_vars =>
        [(mCounterValue' # mCounterValue \/ running' # running) /\ running'
           => rolled' \/ lost' \/ Fresh(mCounterValue')]_vars
  BY NextInv
<1> QED BY <1>1, <1>2, InitInv, PTL DEF Spec, NoReuse

-----------------------------------------------------------------------------
(* Between the wrap of mNextEpoch and the wrap of the counter every step   *)
(* adds an epoch (mCounterValue >= mNextEpoch holds all along); with k     *)
(* values to go before the counter wraps, what was added is at most this.  *)
Added(k) == (Epoch - k) * Epoch

AheadInv ==
    running /\ ~lost =>
        /\ stored = mNextEpoch
        /\ \/ /\ mCounterValue < mNextEpoch
              /\ mNextEpoch - mCounterValue <= Epoch * Epoch
           \/ /\ mNextEpoch <= mCounterValue
              /\ Mod - mCounterValue <= Epoch
              /\ mNextEpoch + (Mod - mCounterValue) <= Epoch + Added(Mod - mCounterValue)

LEMMA AddedFacts ==
    /\ Epoch * Epoch \in Nat /\ Epoch <= Epoch * Epoch
    /\ \A k \in 1..Epoch : Added(k) \in Nat /\ Epoch + Added(k) <= Epoch * Epoch
    /\ \A k \in 2..Epoch : Added(k - 1) = Added(k) + Epoch
<1>1. Epoch \in Nat \ {0}
  BY ValuesAreInt
<1>2. Epoch * Epoch \in Nat /\ Epoch <= Epoch * Epoch
  BY <1>1
<1>3. ASSUME NEW k \in 1..Epoch
      PROVE  Added(k) \in Nat /\ Epoch + Added(k) <= Epoch * Epoch
  <2>1. PICK d \in Nat : d = Epoch - k
    BY <1>1
  <2>2. d * Epoch \in Nat /\ (d + 1) * Epoch = d * Epoch + Epoch
    BY <1>1
  <2>3. PICK r \in Nat : Epoch = (d + 1) + r
    BY <1>1, <2>1
  <2>4. ((d + 1) + r) * Epoch = (d + 1) * Epoch + r * Epoch /\ r * Epoch \in Nat
    BY <1>1
  <2>5. Epoch * Epoch = (d + 1) * Epoch + r * Epoch
    BY <2>3, <2>4
  <2> QED BY <1>1, <2>1, <2>2, <2>4, <2>5 DEF Added
<1>4. ASSUME NEW k \in 2..Epoch
      PROVE  Added(k - 1) = Added(k) + Epoch
  <2>1. PICK d \in Nat : d = Epoch - k
    BY <1>1
  <2>2. (d + 1) * Epoch = d * Epoch + Epoch
    BY <1>1
  <2> QED BY <1>1, <2>1, <2>2 DEF Added
<1> QED BY <1>2, <1>3, <1>4

(* A write that starts from the new value leaves the storage ahead of it.  *)
LEMMA WrittenAhead ==
    ASSUME NEW value \in Values, mCounterValue' = value,
           mNextEpoch' = Wrap(value + Epoch), ~lost' => stored' = mNextEpoch'
    PROVE  AheadInv'
<1>1. value \in Nat /\ value < Mod /\ Mod \in Nat /\ Epoch \in Nat \ {0} /\ Epoch < Mod
  BY CounterAssumption DEF Values
<1>2. CASE value + Epoch < Mod
  <2>1. mNextEpoch' = value + Epoch
    BY <1>1, <1>2 DEF Wrap
  <2> QED BY <1>1, <2>1, AddedFacts DEF AheadInv
<1>3. CASE value + Epoch >= Mod
  <2>1. mNextEpoch' = value + Epoch - Mod
    BY <1>1, <1>3 DEF Wrap
  <2>2. Mod - value \in 1..Epoch
    BY <1>1, <1>3
  <2>3. mNextEpoch' <= value /\ mNextEpoch' + (Mod - value) = Epoch
    BY <1>1, <2>1
  <2> QED BY <1>1, <2>2, <2>3, AddedFacts DEF AheadInv
<1> QED BY <1>1, <1>2, <1>3

LEMMA AdvanceAhead ==
    ASSUME TypeOK, AheadInv, NEW ok \in BOOLEAN, Advance(ok)
    PROVE  AheadInv'
<1> DEFINE value == Wrap(mCounterValue + 1)
<1>1. /\ mCounterValue \in Nat /\ mCounterValue < Mod /\ mNextEpoch \in Nat /\ mNextEpoch < Mod
      /\ Mod \in Nat /\ Epoch \in Nat \ {0} /\ Epoch < Mod /\ Epoch * Epoch < Mod
  BY CounterAssumption, EpochIsSmall DEF TypeOK, Values
<1>2. /\ running /\ running' = running /\ mCounterValue' = value
      /\ value >= mNextEpoch => /\ mNextEpoch' = Wrap(mNextEpoch + Epoch)
                                /\ ~lost' => ~lost /\ stored' = mNextEpoch'
      /\ ~(value >= mNextEpoch) => UNCHANGED <<mNextEpoch, stored, lost>>
  BY DEF Advance, PersistAndVerifyNextEpochStart, PersistNextEpochStart
<1>3. SUFFICES ASSUME ~lost' PROVE AheadInv'
  BY DEF AheadInv
<1>4. ~lost /\ stored' = mNextEpoch' /\ stored = mNextEpoch
  BY <1>2, <1>3 DEF AheadInv
<1>5. value \in Nat /\ value \in Values
  BY <1>1 DEF Wrap, Values
<1>6. /\ mCounterValue + 1 < Mod => value = mCounterValue + 1
      /\ mCounterValue + 1 = Mod => value = 0
  BY <1>1 DEF Wrap
<1> HIDE DEF value
<1>7. CASE /\ mCounterValue < mNextEpoch
           /\ mNextEpoch - mCounterValue <= Epoch * Epoch
  <2>1. value = mCounterValue + 1
    BY <1>1, <1>6, <1>7
  <2>2. CASE value >= mNextEpoch
    <3>1. value = mNextEpoch
      BY <1>1, <1>7, <2>1, <2>2
    <3> QED BY <1>2, <1>4, <1>5, <2>2, <3>1, WrittenAhead
  <2>3. CASE ~(value >= mNextEpoch)
    <3>1. mNextEpoch' = mNextEpoch
      BY <1>2, <2>3
    <3> QED BY <1>1, <1>2, <1>4, <1>7, <2>1, <2>3, <3>1, AddedFacts DEF AheadInv
  <2> QED BY <2>2, <2>3
<1>8. CASE /\ mNextEpoch <= mCounterValue
           /\ Mod - mCounterValue <= Epoch
           /\ mNextEpoch + (Mod - mCounterValue) <= Epoch + Added(Mod - mCounterValue)
  <2> DEFINE k == Mod - mCounterValue
  <2>1. k \in 1..Epoch /\ Added(k) \in Nat /\ Epoch + Added(k) <= Epoch * Epoch
    BY <1>1, <1>8, AddedFacts
  <2>2. CASE k = 1
    <3>1. value = 0
      BY <1>1, <1>6, <2>2
    <3>2. CASE mNextEpoch = 0
      BY <1>1, <1>2, <1>4, <1>5, <3>1, <3>2, WrittenAhead
    <3>3. CASE mNextEpoch # 0
      <4>1. mNextEpoch' = mNextEpoch
        BY <1>1, <1>2, <3>1, <3>3
      <4> QED BY <1>1, <1>2, <1>4, <1>8, <2>1, <3>1, <3>3, <4>1, AddedFacts DEF AheadInv
    <3> QED BY <3>2, <3>3
  <2>3. CASE k # 1
    <3>1. k \in 2..Epoch /\ value = mCounterValue + 1 /\ value >= mNextEpoch
      BY <1>1, <1>6, <1>8, <2>1, <2>3
    <3>2. Mod - value = k - 1 /\ k - 1 \in 1..Epoch
      BY <1>1, <3>1
    <3>3. Added(k - 1) = Added(k) + Epoch /\ Epoch + Added(k - 1) <= Epoch * Epoch
      BY <3>1, <3>2, AddedFacts
    <3>4. mNextEpoch + Epoch + (k - 1) <= Epoch + Added(k - 1)
      BY <1>1, <1>8, <2>1, <3>3
    <3>5. mNextEpoch + Epoch < Mod
      BY <1>1, <2>1, <3>1, <3>3, <3>4, AddedFacts
    <3>6. mNextEpoch' = mNextEpoch + Epoch
      BY <1>1, <1>2, <3>1, <3>5 DEF Wrap
    <3>7. mNextEpoch' <= value
      BY <1>1, <1>5, <3>1, <3>2, <3>3, <3>4, <3>6, AddedFacts
    <3>8. mCounterValue' = value /\ Mod - value <= Epoch
          /\ mNextEpoch' + (Mod - value) <= Epoch + Added(Mod - value)
      BY <1>1, <1>2, <3>1, <3>2, <3>4, <3>6
    <3> QED BY <1>4, <3>7, <3>8 DEF AheadInv
  <2> QED BY <2>2, <2>3
<1> QED BY <1>2, <1>4, <1>7, <1>8 DEF AheadInv

LEMMA AdvanceByAhead ==
    ASSUME TypeOK, AheadInv, NEW n \in Increments, NEW ok \in BOOLEAN, AdvanceBy(n, ok)
    PROVE  AheadInv'
<1> DEFINE value == Wrap(mCounterValue + n)
<1> DEFINE crosses == value >= mNextEpoch \/ mCounterValue > (Mod - 1) - n
<1>1. /\ mCounterValue \in Nat /\ mCounterValue < Mod /\ mNextEpoch \in Nat /\ mNextEpoch < Mod
      /\ Mod \in Nat /\ Epoch \in Nat \ {0} /\ n \in Nat \ {0} /\ n < Mod
  BY CounterAssumption DEF TypeOK, Values
<1>2. /\ running /\ running' = running /\ mCounterValue' = value
      /\ crosses => /\ mNextEpoch' = Wrap(value + Epoch)
                    /\ ~lost' => stored' = mNextEpoch'
      /\ ~crosses => UNCHANGED <<mNextEpoch, stored, lost>>
  BY DEF AdvanceBy, PersistAndVerifyNextEpochStart, PersistNextEpochStart
<1>3. value \in Values
  BY <1>1 DEF Wrap, Values
<1>4. CASE crosses
  <2> HIDE DEF value, crosses
  <2> QED BY <1>2, <1>3, <1>4, WrittenAhead
<1>5. CASE ~crosses
  <2>1. value = mCounterValue + n /\ value < mNextEpoch
    BY <1>1, <1>5 DEF Wrap
  <2>2. mNextEpoch' = mNextEpoch /\ stored' = stored /\ lost' = lost /\ mCounterValue' = value
    BY <1>2, <1>5
  <2> HIDE DEF value, crosses
  <2> QED BY <1>1, <1>2, <2>1, <2>2, AddedFacts DEF AheadInv
<1> QED BY <1>4, <1>5

LEMMA NextAhead == TypeOK /\ AheadInv /\ [Next]_vars => AheadInv'
<1> SUFFICES ASSUME TypeOK, AheadInv, [Next]_vars PROVE AheadInv'
  OBVIOUS
<1>1. ASSUME NEW start \in Values, Boot(start) PROVE AheadInv'
  BY <1>1, WrittenAhead DEF Boot, PersistNextEpochStart
<1>2. ASSUME NEW start \in Values, BootFails(start) PROVE AheadInv'
  BY <1>2 DEF BootFails, AheadInv
<1>3. CASE Restart
  BY <1>3 DEF Restart, AheadInv
<1>4. CASE UNCHANGED vars
  BY <1>4 DEF vars, AheadInv
<1> QED BY <1>1, <1>2, <1>3, <1>4, AdvanceAhead, AdvanceByAhead DEF Next

(* While PersistedCounter runs and no write was lost, a restart would land *)
(* ahead of the current value, by at most Epoch * Epoch, also during a     *)
(* rollover; it never repeats or falls behind what was just shown.         *)
THEOREM RestartLandsAhead == Spec => []StoredIsAhead
<1>1. Init => AheadInv
  BY DEF Init, AheadInv
<1>2. TypeOK /\ AheadInv => StoredIsAhead
  <2> SUFFICES ASSUME TypeOK, AheadInv, running, ~lost
               PROVE  Ahead(mNextEpoch) \in 1..(Epoch * Epoch) /\ stored = mNextEpoch
    BY DEF StoredIsAhead
  <2>1. /\ mCounterValue \in Nat /\ mCounterValue < Mod /\ mNextEpoch \in Nat /\ mNextEpoch < Mod
        /\ Mod \in Nat /\ Epoch \in Nat \ {0} /\ Epoch * Epoch < Mod
    BY CounterAssumption, EpochIsSmall DEF TypeOK, Values
  <2>2. CASE mCounterValue < mNextEpoch
    <3>1. Ahead(mNextEpoch) = mNextEpoch - mCounterValue
      BY <2>1, <2>2 DEF Ahead, Wrap
    <3> QED BY <2>1, <2>2, <3>1, AddedFacts DEF AheadInv
  <2>3. CASE ~(mCounterValue < mNextEpoch)
    <3>1. Mod - mCounterValue \in 1..Epoch
      BY <2>1, <2>3 DEF AheadInv
    <3>2. mNextEpoch + (Mod - mCounterValue) <= Epoch * Epoch
      BY <2>1, <2>3, <3>1, AddedFacts DEF AheadInv
    <3>3. Ahead(mNextEpoch) = mNextEpoch + (Mod - mCounterValue)
      BY <2>1, <3>2 DEF Ahead, Wrap
    <3> QED BY <2>1, <3>1, <3>2, <3>3 DEF AheadInv
  <2> QED BY <2>2, <2>3
<1> QED BY <1>1, <1>2, NextAhead, CounterSafety, PTL DEF Spec
=============================================================================
