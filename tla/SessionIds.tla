----------------------------- MODULE SessionIds -----------------------------
(***************************************************************************)
(* How SecureSessionTable.cpp gives out local session ids: the bucketed    *)
(* search of FindUnusedSessionId and the clue mNextSessionId.  The id of a *)
(* message is all that finds its session (FindSecureSessionByLocalKey), so *)
(* an id must belong to one session, and a packet still on its way to a    *)
(* released session should not find a new one.                             *)
(***************************************************************************)
EXTENDS Integers, FiniteSets, FiniteSetsExt

CONSTANTS
    IdSpace,    \* 2^16: ids are 16 bits wide
    Bucket,     \* 64: ids looked at in one pass over the table
    PoolSize    \* GetMaxSessionTableSize

ASSUME IdsAssumption ==
    /\ {IdSpace, Bucket, PoolSize} \subseteq Nat \ {0}
    /\ IdSpace % Bucket = 0

VARIABLES
    used,               \* local ids of the sessions of the table
    mNextSessionId,     \* where the next search starts
    since               \* history: allocations since an id was given out

vars == <<used, mNextSessionId, since>>

kUnsecuredSessionId == 0
kMaxSessionID == IdSpace - 1
Ids == 0..kMaxSessionID
None == -1              \* NullOptional

TypeOK ==
    /\ used \subseteq Ids
    /\ mNextSessionId \in Ids
    /\ since \in [Ids -> 0..IdSpace]

(* Init: the first clue is random.                                         *)
Init ==
    /\ used = {}
    /\ mNextSessionId \in Ids
    /\ since = [id \in Ids |-> IdSpace]

-----------------------------------------------------------------------------
Buckets == 0..(IdSpace \div Bucket - 1)
Bits == 0..(Bucket - 1)

candidate_base(i) == (i * Bucket + mNextSessionId) % IdSpace

(* Mutant: the unsecured session's id is not masked out.                   *)
MaskForgetsUnsecured(i) ==
    {(id - candidate_base(i)) % IdSpace : id \in used} \cap Bits

(* The bits set in the mask of bucket i: `shift' is a 16-bit difference.   *)
candidate_mask(i) ==
    {(id - candidate_base(i)) % IdSpace : id \in used \cup {kUnsecuredSessionId}} \cap Bits

(* The lowest clear bit of the first bucket that has one.                  *)
FindUnusedSessionId ==
    LET open == {i \in Buckets : candidate_mask(i) # Bits} IN
    IF open = {} THEN None
    ELSE LET i == Min(open) IN
         (candidate_base(i) + Min(Bits \ candidate_mask(i))) % IdSpace

(* Mutant: the clue stays where it is, so the search starts over.          *)
NextStays(id) == mNextSessionId

NextAfter(id) == IF id = kMaxSessionID THEN kUnsecuredSessionId + 1 ELSE id + 1

Aged(id) ==
    [j \in Ids |-> IF j = id THEN 0
                   ELSE IF since[j] = IdSpace THEN IdSpace ELSE since[j] + 1]

(* CreateNewSecureSession.  The id is looked for before a full table makes *)
(* room, so the id of the session evicted is not a candidate.              *)
CreateNewSecureSession ==
    LET id == FindUnusedSessionId IN
    /\ id # None
    /\ IF Cardinality(used) < PoolSize
         THEN used' = used \cup {id}
         ELSE \E evicted \in used : used' = (used \ {evicted}) \cup {id}
    /\ mNextSessionId' = NextAfter(id)
    /\ since' = Aged(id)

ReleaseSession(id) ==
    /\ used' = used \ {id}
    /\ UNCHANGED <<mNextSessionId, since>>

Next ==
    \/ CreateNewSecureSession
    \/ \E id \in used : ReleaseSession(id)

Spec == Init /\ [][Next]_vars

-----------------------------------------------------------------------------
Unused == Ids \ (used \cup {kUnsecuredSessionId})
Distance(id) == (id - mNextSessionId) % IdSpace

(* The search by buckets finds what a search one id at a time would: the   *)
(* first id from the clue on, going round past the top of the id space,    *)
(* that no session has and that is not the unsecured session's; and it     *)
(* finds one whenever there is one.                                        *)
SearchIsExact ==
    IF Unused = {} THEN FindUnusedSessionId = None
    ELSE /\ FindUnusedSessionId \in Unused
         /\ \A id \in Unused : Distance(FindUnusedSessionId) <= Distance(id)

(* An id comes back only after the rest of the id space has been gone      *)
(* through: between two sessions with the same id there are as many others *)
(* as there are ids, less those that sessions kept busy.                   *)
ReuseIsLate ==
    [][used' \ used # {} =>
         \A id \in used' \ used : since[id] >= kMaxSessionID - PoolSize]_vars
=============================================================================
