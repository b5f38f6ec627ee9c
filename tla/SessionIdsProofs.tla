-------------------------- MODULE SessionIdsProofs --------------------------
(***************************************************************************)
(* The bucketed search for a local session id is the search one id at a    *)
(* time, for every id space, bucket that divides it and set of sessions.   *)
(***************************************************************************)
EXTENDS SessionIds, WellFoundedInduction, TLAPS

(* The id at a distance from the clue, going round past the top.           *)
At(d) == (mNextSessionId + d) % IdSpace

Taken == used \cup {kUnsecuredSessionId}

LEMMA SmallestNat ==
    ASSUME NEW S, S \subseteq Nat, S # {}
    PROVE  Min(S) \in S /\ \A x \in S : Min(S) <= x
<1> DEFINE Less == {ss \in Nat \X Nat : ss[1] < ss[2]}
<1>1. IsWellFoundedOn(Less, Nat)
  BY NatLessThanWellFounded DEF OpToRel
<1>2. \A a, b \in Nat : <<a, b>> \in Less <=> a < b
  OBVIOUS
<1> HIDE DEF Less
<1>3. PICK m \in S : \A y \in S : <<y, m>> \notin Less
  BY <1>1, WFMin
<1>4. ASSUME NEW y \in S PROVE m <= y
  <2>1. m \in Nat /\ y \in Nat
    OBVIOUS
  <2>2. ~(y < m)
    BY <1>2, <1>3, <2>1, Zenon
  <2> QED BY <2>1, <2>2
<1> QED BY <1>4 DEF Min

LEMMA SizesAreNat ==
    IdSpace \in Nat \ {0} /\ Bucket \in Nat \ {0} /\ PoolSize \in Nat \ {0}
BY IdsAssumption

(* A sum or a difference of two ids, taken modulo the id space.            *)
LEMMA Modulo ==
    ASSUME NEW a \in 0..(IdSpace - 1)
    PROVE  /\ a % IdSpace = a
           /\ (a + IdSpace) % IdSpace = a
           /\ (a - IdSpace) % IdSpace = a
<1>1. IdSpace \in Nat \ {0}
  BY SizesAreNat
<1>2. a % IdSpace = a
  BY <1>1
<1>3. (a + IdSpace) % IdSpace = a
  BY <1>1
<1>4. (a - IdSpace) % IdSpace = a
  BY <1>1
<1> QED BY <1>2, <1>3, <1>4

(* The bucket and the bit of a distance.                                   *)
LEMMA BucketAndBit ==
    /\ Buckets \subseteq Nat /\ Bits \subseteq Nat
    /\ \A i \in Buckets : i * Bucket \in Nat /\ i * Bucket + Bucket <= IdSpace
    /\ \A i, k \in Buckets : i < k => i * Bucket + Bucket <= k * Bucket
    /\ \A d \in 0..(IdSpace - 1) : \E i \in Buckets, j \in Bits : d = i * Bucket + j
<1>1. IdSpace \in Nat \ {0} /\ Bucket \in Nat \ {0}
  BY SizesAreNat
<1>2. PICK K \in Nat : K = IdSpace \div Bucket /\ IdSpace = K * Bucket
  BY <1>1, IdsAssumption
<1>3. Buckets = 0..(K - 1) /\ Bits = 0..(Bucket - 1)
  BY <1>2 DEF Buckets, Bits
<1>4. ASSUME NEW i \in Nat, NEW k \in Nat, i < k
      PROVE  i * Bucket \in Nat /\ i * Bucket + Bucket <= k * Bucket
  <2>1. PICK r \in Nat : k = (i + 1) + r
    BY <1>4
  <2>2. ((i + 1) + r) * Bucket = i * Bucket + Bucket + r * Bucket
        /\ r * Bucket \in Nat /\ i * Bucket \in Nat
    BY <1>1
  <2> QED BY <1>1, <2>1, <2>2
<1>5. ASSUME NEW i \in Buckets
      PROVE  i * Bucket \in Nat /\ i * Bucket + Bucket <= IdSpace
  <2>1. i \in Nat /\ i < K
    BY <1>3
  <2> QED BY <1>2, <1>4, <2>1
<1>6. ASSUME NEW d \in 0..(IdSpace - 1)
      PROVE  \E i \in Buckets, j \in Bits : d = i * Bucket + j
  <2>1. PICK i \in Nat, j \in 0..(Bucket - 1) : d = i * Bucket + j
    <3>1. d \div Bucket \in Nat /\ d % Bucket \in 0..(Bucket - 1)
          /\ d = (d \div Bucket) * Bucket + (d % Bucket)
      BY <1>1
    <3> QED BY <3>1
  <2>2. i < K
    <3> SUFFICES ASSUME i >= K PROVE FALSE
      BY <2>1, <1>2
    <3>1. i = K \/ K * Bucket + Bucket <= i * Bucket
      BY <1>2, <1>4, <2>1
    <3> QED BY <1>1, <1>2, <2>1, <3>1
  <2>3. i \in Buckets /\ j \in Bits
    BY <1>3, <2>2
  <2> QED BY <2>1, <2>3
<1>7. Buckets \subseteq Nat /\ Bits \subseteq Nat
  BY <1>1, <1>2, <1>3
<1> QED BY <1>4, <1>5, <1>6, <1>7

(* Every id is at one distance from the clue.                              *)
LEMMA AtAndDistance ==
    ASSUME TypeOK
    PROVE  /\ \A d \in 0..(IdSpace - 1) : At(d) \in Ids /\ Distance(At(d)) = d
           /\ \A id \in Ids : Distance(id) \in 0..(IdSpace - 1) /\ At(Distance(id)) = id
<1>1. IdSpace \in Nat \ {0} /\ mNextSessionId \in 0..(IdSpace - 1) /\ Ids = 0..(IdSpace - 1)
  BY SizesAreNat DEF TypeOK, Ids, kMaxSessionID
<1>2. ASSUME NEW d \in 0..(IdSpace - 1)
      PROVE  At(d) \in Ids /\ Distance(At(d)) = d
  <2>1. CASE mNextSessionId + d < IdSpace
    <3>1. At(d) = mNextSessionId + d
      BY <1>1, <2>1, Modulo DEF At
    <3>2. Distance(At(d)) = d
      BY <1>1, <3>1, Modulo DEF Distance
    <3> QED BY <1>1, <2>1, <3>1, <3>2
  <2>2. CASE mNextSessionId + d >= IdSpace
    <3>1. /\ mNextSessionId + d - IdSpace \in 0..(IdSpace - 1)
          /\ (mNextSessionId + d - IdSpace) + IdSpace = mNextSessionId + d
      BY <1>1, <2>2
    <3>2. At(d) = mNextSessionId + d - IdSpace
      BY <3>1, Modulo DEF At
    <3>3. At(d) - mNextSessionId = d - IdSpace
      BY <1>1, <3>2
    <3>4. Distance(At(d)) = d
      BY <3>3, Modulo DEF Distance
    <3> QED BY <1>1, <3>1, <3>2, <3>4
  <2> QED BY <1>1, <2>1, <2>2
<1>3. ASSUME NEW id \in Ids
      PROVE  Distance(id) \in 0..(IdSpace - 1) /\ At(Distance(id)) = id
  <2>1. CASE id >= mNextSessionId
    <3>1. id - mNextSessionId \in 0..(IdSpace - 1) /\ id \in 0..(IdSpace - 1)
      BY <1>1, <2>1
    <3>2. Distance(id) = id - mNextSessionId
      BY <3>1, Modulo DEF Distance
    <3>3. mNextSessionId + Distance(id) = id
      BY <1>1, <3>2
    <3> QED BY <3>1, <3>2, <3>3, Modulo DEF At
  <2>2. CASE id < mNextSessionId
    <3>1. /\ id - mNextSessionId + IdSpace \in 0..(IdSpace - 1) /\ id \in 0..(IdSpace - 1)
          /\ (id - mNextSessionId + IdSpace) - IdSpace = id - mNextSessionId
      BY <1>1, <2>2
    <3>2. Distance(id) = id - mNextSessionId + IdSpace
      BY <3>1, Modulo DEF Distance
    <3>3. mNextSessionId + Distance(id) = id + IdSpace
      BY <1>1, <3>2
    <3> QED BY <3>1, <3>2, <3>3, Modulo DEF At
  <2> QED BY <1>1, <2>1, <2>2
<1> QED BY <1>2, <1>3

(* An id seen from the base of a bucket.                                   *)
LEMMA FromBase ==
    ASSUME TypeOK, NEW i \in Buckets
    PROVE  /\ \A j \in Bits : (candidate_base(i) + j) % IdSpace = At(i * Bucket + j)
           /\ \A id \in Ids : \A j \in Bits :
                 (id - candidate_base(i)) % IdSpace = j <=> id = At(i * Bucket + j)
<1> DEFINE b == i * Bucket
<1>1. IdSpace \in Nat \ {0} /\ mNextSessionId \in 0..(IdSpace - 1) /\ Ids = 0..(IdSpace - 1)
      /\ Bucket \in Nat \ {0} /\ Bits = 0..(Bucket - 1)
  BY SizesAreNat DEF TypeOK, Ids, kMaxSessionID, Bits
<1>2. b \in Nat /\ b + Bucket <= IdSpace
  BY BucketAndBit
<1>3. candidate_base(i) = At(b)
  BY <1>1, <1>2 DEF candidate_base, At
<1> HIDE DEF b
<1>4. /\ mNextSessionId + b < IdSpace => At(b) = mNextSessionId + b
      /\ mNextSessionId + b >= IdSpace => At(b) = mNextSessionId + b - IdSpace
  <2>1. CASE mNextSessionId + b < IdSpace
    BY <1>1, <1>2, <2>1, Modulo DEF At
  <2>2. CASE mNextSessionId + b >= IdSpace
    <3>1. /\ mNextSessionId + b - IdSpace \in 0..(IdSpace - 1)
          /\ (mNextSessionId + b - IdSpace) + IdSpace = mNextSessionId + b
      BY <1>1, <1>2, <2>2
    <3> QED BY <1>1, <1>2, <2>2, <3>1, Modulo DEF At
  <2> QED BY <2>1, <2>2
<1>5. ASSUME NEW j \in Bits
      PROVE  /\ (At(b) + j) % IdSpace = At(b + j)
             /\ \A id \in Ids : (id - At(b)) % IdSpace = j <=> id = At(b + j)
  <2> DEFINE s == At(b) + j
  <2>1. At(b) \in 0..(IdSpace - 1) /\ j \in 0..(IdSpace - 1) /\ b + j \in 0..(IdSpace - 1)
    BY <1>1, <1>2, <1>4
  <2>2. (At(b) + j) % IdSpace = At(b + j)
    <3>1. CASE mNextSessionId + b < IdSpace
      BY <1>1, <1>2, <1>4, <3>1 DEF At
    <3>2. CASE mNextSessionId + b >= IdSpace
      <4>1. PICK t \in 0..(IdSpace - 1) : t = mNextSessionId + b - IdSpace + j
        BY <1>1, <1>2, <2>1, <3>2
      <4>2. At(b) + j = t /\ mNextSessionId + (b + j) = t + IdSpace
        BY <1>1, <1>2, <1>4, <3>2, <4>1
      <4> QED BY <4>2, Modulo DEF At
    <3> QED BY <1>1, <1>2, <3>1, <3>2
  <2>3. ASSUME NEW id \in Ids, (id - At(b)) % IdSpace = j
        PROVE  id = At(b + j)
    <3>1. CASE id >= At(b)
      <4>1. id - At(b) \in 0..(IdSpace - 1)
        BY <1>1, <2>1, <3>1
      <4>2. id - At(b) = j
        BY <2>3, <4>1, Modulo
      <4>3. id = At(b) + j /\ id \in 0..(IdSpace - 1)
        BY <1>1, <2>1, <4>2
      <4> QED BY <2>2, <4>3, Modulo
    <3>2. CASE id < At(b)
      <4>1. /\ id - At(b) + IdSpace \in 0..(IdSpace - 1)
            /\ (id - At(b) + IdSpace) - IdSpace = id - At(b)
        BY <1>1, <2>1, <3>2
      <4>2. id - At(b) + IdSpace = j
        BY <2>3, <4>1, Modulo
      <4>3. At(b) + j = id + IdSpace /\ id \in 0..(IdSpace - 1)
        BY <1>1, <2>1, <4>2
      <4> QED BY <2>2, <4>3, Modulo
    <3> QED BY <1>1, <2>1, <3>1, <3>2
  <2>4. ASSUME NEW id \in Ids, id = At(b + j)
        PROVE  (id - At(b)) % IdSpace = j
    <3>1. CASE At(b) + j < IdSpace
      <4>1. id = At(b) + j
        BY <2>1, <2>2, <2>4, <3>1, Modulo, <1>1
      <4>2. id - At(b) = j
        BY <2>1, <4>1
      <4> QED BY <2>1, <4>2, Modulo
    <3>2. CASE At(b) + j >= IdSpace
      <4>1. /\ At(b) + j - IdSpace \in 0..(IdSpace - 1)
            /\ (At(b) + j - IdSpace) + IdSpace = At(b) + j
        BY <1>1, <2>1, <3>2
      <4>2. id = At(b) + j - IdSpace
        BY <2>2, <2>4, <4>1, Modulo
      <4>3. id - At(b) = j - IdSpace
        BY <1>1, <2>1, <4>2
      <4> QED BY <2>1, <4>3, Modulo
    <3> QED BY <1>1, <2>1, <3>1, <3>2
  <2> QED BY <2>2, <2>3, <2>4
<1> QED BY <1>3, <1>5 DEF b

(* The mask of a bucket has the bits of the ids that are taken.            *)
LEMMA MaskIsTaken ==
    ASSUME TypeOK, NEW i \in Buckets
    PROVE  candidate_mask(i) = {j \in Bits : At(i * Bucket + j) \in Taken}
<1>1. Taken \subseteq Ids
  BY SizesAreNat DEF TypeOK, Taken, kUnsecuredSessionId, Ids, kMaxSessionID
<1>2. ASSUME NEW j \in candidate_mask(i)
      PROVE  j \in Bits /\ At(i * Bucket + j) \in Taken
  <2>1. PICK id \in Taken : j = (id - candidate_base(i)) % IdSpace
    BY <1>2 DEF candidate_mask, Taken
  <2>2. j \in Bits
    BY <1>2 DEF candidate_mask
  <2> QED BY <1>1, <2>1, <2>2, FromBase
<1>3. ASSUME NEW j \in Bits, At(i * Bucket + j) \in Taken
      PROVE  j \in candidate_mask(i)
  <2>1. (At(i * Bucket + j) - candidate_base(i)) % IdSpace = j
    BY <1>1, <1>3, FromBase
  <2> QED BY <1>3, <2>1 DEF candidate_mask, Taken
<1> QED BY <1>2, <1>3

(* The search returns the id at the least distance that is not taken.      *)
LEMMA SearchFindsFirst ==
    ASSUME TypeOK
    PROVE  SearchIsExact
<1> DEFINE open == {i \in Buckets : candidate_mask(i) # Bits}
<1>1. IdSpace \in Nat \ {0} /\ Bucket \in Nat \ {0} /\ Bits = 0..(Bucket - 1)
      /\ Unused = Ids \ Taken
  BY SizesAreNat DEF Bits, Unused, Taken
<1>2. FindUnusedSessionId =
        IF open = {} THEN None
        ELSE (candidate_base(Min(open)) + Min(Bits \ candidate_mask(Min(open)))) % IdSpace
  BY DEF FindUnusedSessionId
<1>3. ASSUME NEW id \in Unused
      PROVE  \E i \in open : \E j \in Bits \ candidate_mask(i) : Distance(id) = i * Bucket + j
  <2>1. Distance(id) \in 0..(IdSpace - 1) /\ At(Distance(id)) = id
    BY <1>1, AtAndDistance
  <2>2. PICK i \in Buckets, j \in Bits : Distance(id) = i * Bucket + j
    BY <2>1, BucketAndBit
  <2>3. j \notin candidate_mask(i)
    BY <1>1, <2>1, <2>2, MaskIsTaken
  <2> QED BY <2>2, <2>3
<1>4. CASE open = {}
  <2>1. Unused = {}
    BY <1>3, <1>4
  <2> QED BY <1>2, <1>4, <2>1 DEF SearchIsExact
<1>5. CASE open # {}
  <2> DEFINE fst == Min(open)
  <2> DEFINE bit == Min(Bits \ candidate_mask(fst))
  <2>1. fst \in open /\ \A k \in open : fst <= k
    BY <1>5, BucketAndBit, SmallestNat
  <2>2. fst \in Buckets /\ candidate_mask(fst) # Bits
    BY <2>1
  <2>3. candidate_mask(fst) \subseteq Bits
    BY <2>2, MaskIsTaken
  <2>4. bit \in Bits \ candidate_mask(fst) /\ \A k \in Bits \ candidate_mask(fst) : bit <= k
    BY <2>2, <2>3, BucketAndBit, SmallestNat
  <2>5. FindUnusedSessionId = (candidate_base(fst) + bit) % IdSpace
    BY <1>2, <1>5
  <2> HIDE DEF fst, bit, open
  <2>6. FindUnusedSessionId = At(fst * Bucket + bit) /\ At(fst * Bucket + bit) \notin Taken
    BY <2>2, <2>4, <2>5, FromBase, MaskIsTaken
  <2>7. fst * Bucket + bit \in 0..(IdSpace - 1)
    BY <1>1, <2>2, <2>4, BucketAndBit
  <2>8. FindUnusedSessionId \in Unused /\ Distance(FindUnusedSessionId) = fst * Bucket + bit
    BY <1>1, <2>6, <2>7, AtAndDistance
  <2>9. ASSUME NEW id \in Unused
        PROVE  fst * Bucket + bit <= Distance(id)
    <3>1. PICK k \in open : \E l \in Bits \ candidate_mask(k) : Distance(id) = k * Bucket + l
      BY <1>3
    <3>5. PICK l \in Bits \ candidate_mask(k) : Distance(id) = k * Bucket + l
      BY <3>1
    <3>2. fst <= k /\ k \in Buckets /\ k \in Nat /\ fst \in Nat
      BY <2>1, <2>2, BucketAndBit DEF open
    <3>3. CASE fst = k
      BY <1>1, <2>2, <2>4, <3>5, <3>3, BucketAndBit
    <3>4. CASE fst < k
      <4>1. fst * Bucket + Bucket <= k * Bucket /\ fst * Bucket \in Nat /\ k * Bucket \in Nat
        BY <2>2, <3>2, <3>4, BucketAndBit
      <4> QED BY <1>1, <2>4, <3>5, <4>1
    <3> QED BY <3>2, <3>3, <3>4
  <2> QED BY <2>8, <2>9 DEF SearchIsExact
<1> QED BY <1>4, <1>5

-----------------------------------------------------------------------------
LEMMA IdsType == Spec => []TypeOK
<1>1. Init => TypeOK
  BY SizesAreNat DEF Init, TypeOK
<1>2. TypeOK /\ [Next]_vars => TypeOK'
  <2> SUFFICES ASSUME TypeOK, [Next]_vars PROVE TypeOK'
    OBVIOUS
  <2>1. CASE CreateNewSecureSession
    <3> DEFINE id == FindUnusedSessionId
    <3>1. id \in Ids /\ id # kUnsecuredSessionId
      BY <2>1, SearchFindsFirst DEF CreateNewSecureSession, SearchIsExact, Unused
    <3>2. used' \subseteq Ids /\ mNextSessionId' = NextAfter(id) /\ since' = Aged(id)
      BY <2>1, <3>1 DEF CreateNewSecureSession, TypeOK
    <3> HIDE DEF id
    <3>3. NextAfter(id) \in Ids
      BY <3>1, SizesAreNat DEF NextAfter, Ids, kMaxSessionID, kUnsecuredSessionId
    <3>4. Aged(id) \in [Ids -> 0..IdSpace]
      BY SizesAreNat DEF Aged, TypeOK
    <3> QED BY <3>2, <3>3, <3>4 DEF TypeOK
  <2>2. ASSUME NEW id \in used, ReleaseSession(id) PROVE TypeOK'
    BY <2>2 DEF ReleaseSession, TypeOK
  <2>3. CASE UNCHANGED vars
    BY <2>3 DEF vars, TypeOK
  <2> QED BY <2>1, <2>2, <2>3 DEF Next
<1> QED BY <1>1, <1>2, PTL DEF Spec

(* FindUnusedSessionId, which looks at the table once per bucket of ids,   *)
(* finds exactly what a search one id at a time from the clue would, for   *)
(* every id space and every bucket that divides it.                        *)
THEOREM SearchIsAlwaysExact == Spec => [](TypeOK /\ SearchIsExact)
BY SearchFindsFirst, IdsType, PTL
=============================================================================
