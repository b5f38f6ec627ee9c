---------------------------- MODULE FabricTable ----------------------------
(***************************************************************************)
(* FabricTable (src/src/credentials/FabricTable.cpp) with the operational  *)
(* key store, the operational certificate store and the commands of the    *)
(* Operational Credentials and General Commissioning clusters that drive   *)
(* it: credentials are staged in memory while the fail-safe is armed,      *)
(* written to storage one key after the other by CommissioningComplete,    *)
(* and thrown away when the fail-safe expires.                             *)
(*                                                                         *)
(* Commands, timer callbacks and events run to completion on one thread,   *)
(* so in-memory effects of an operation are one step.  Its storage         *)
(* operations are steps of their own (todo), because the device can lose   *)
(* power, or a write can fail, between any two of them.  Deleting is       *)
(* assumed to succeed, and deleting what is not there is no step.          *)
(*                                                                         *)
(* A generation of credentials is a number: the operational key is         *)
(* generated with a number, and the NOC and ICAC issued for it carry the   *)
(* same one.  0 stands for absent.  Every chain has an ICAC.  Left out are *)
(* the last known good time and the VID verification elements.             *)
(***************************************************************************)
EXTENDS FailSafeContext, FiniteSetsExt

CONSTANTS
    MaxIndex,       \* kMaxValidFabricIndex
    MaxFabrics,     \* CHIP_CONFIG_MAX_FABRICS, the slots of mStates
    Versions,       \* generations of credentials
    Labels,         \* fabric labels; EmptyLabel is the one of a new fabric
    MayAbandon,     \* see CommissioningComplete
    MaxFailures,    \* bound on the writes that fail
    MaxCrashes      \* bound on the restarts

ASSUME FabricTableAssumption ==
    /\ MaxIndex \in Nat \ {0}
    /\ MaxFabrics \in 1..MaxIndex
    /\ Versions \subseteq Nat \ {0}
    /\ Labels \subseteq Nat \ {0} /\ 1 \in Labels
    /\ MayAbandon \in BOOLEAN
    /\ MaxFailures \in Nat /\ MaxCrashes \in Nat

Index == 1..MaxIndex

EmptyLabel == 1

VARIABLES
    mem,        \* the members of the table and of the two stores
    stored,     \* storage, by fabric index: metadata, key, certificates
    indexInfo,  \* storage: next available index and list of fabrics
    marker,     \* storage: index of the commit marker, or 0
    todo,       \* storage operations left of the running operation
    failed,     \* writes of the running commit that have failed
    faults,     \* failures and crashes so far
    tainted     \* history: see Crash and WriteFails

vars == <<failSafeVars, mem, stored, indexInfo, marker, todo, failed, faults, tainted>>

Absent == [ver |-> 0, label |-> 0]

NoShadow == [index |-> 0, ver |-> 0, label |-> 0]

NoKey == [index |-> 0, ver |-> 0]

NoCerts == [index |-> 0, rcac |-> FALSE, noc |-> 0]

NothingStored == [meta |-> 0, key |-> 0, noc |-> 0, icac |-> 0, rcac |-> 0]

StateFlags == {"present", "root", "update", "add", "key", "keyForUpdate"}

TypeOK ==
    /\ armed \in BOOLEAN /\ busy \in BOOLEAN
    /\ fsIndex \in 0..MaxIndex
    /\ invoked \subseteq ContextFlags
    /\ \A n \in DOMAIN events : events[n].fabric \in 0..MaxIndex
    /\ mem.fabrics \in [Index -> [ver : Versions, label : Labels] \cup {Absent}]
    /\ mem.shadow.index \in 0..MaxIndex
    /\ mem.flags \subseteq StateFlags
    /\ mem.pending \in 0..MaxIndex
    /\ mem.next \in 0..MaxIndex
    /\ mem.count \in 0..MaxFabrics
    /\ mem.key \in [index : Index, ver : Versions] \cup {NoKey}
    /\ mem.certs.index \in 0..MaxIndex
    /\ indexInfo.next \in 0..MaxIndex /\ indexInfo.list \subseteq Index
    /\ marker \in 0..MaxIndex
    /\ tainted \subseteq Index

-----------------------------------------------------------------------------
(* The members, as values: each operator takes them and returns them.      *)

Live(m) == {i \in Index : m.fabrics[i] # Absent}

(* HasPendingFabricUpdate, for index i: the shadow entry hides the real.   *)
Shadowed(m, i) == {"present", "update"} \subseteq m.flags /\ m.shadow.index = i

(* FindFabricWithIndex and GetMutableFabricByIndex.                        *)
FindFabric(m, i) ==
    IF Shadowed(m, i) THEN [ver |-> m.shadow.ver, label |-> m.shadow.label]
                      ELSE m.fabrics[i]

(* NextFabricIndex, applied n - 1 times to the first index.                *)
Cyclic(n) == ((n - 1) % MaxIndex) + 1

(* Mutant: the next index is taken without looking.                        *)
UpdateNextUnchecked(m) == [m EXCEPT !.next = Cyclic(m.next + 1)]

(* UpdateNextAvailableFabricIndex.                                         *)
UpdateNextAvailableFabricIndex(m) ==
    LET free == {k \in 1..(MaxIndex - 1) : Cyclic(m.next + k) \notin Live(m)}
    IN [m EXCEPT !.next = IF free = {} THEN 0 ELSE Cyclic(m.next + Min(free))]

(* EnsureNextAvailableFabricIndexUpdated.                                  *)
EnsureNextAvailableFabricIndexUpdated(m) ==
    IF m.next # 0 \/ m.count >= MaxIndex THEN m
    ELSE LET first == [m EXCEPT !.next = 1]
         IN IF 1 \in Live(m) THEN UpdateNextAvailableFabricIndex(first) ELSE first

(* SetPendingDataFabricIndex: whether it is legal.                         *)
PendingIndexIsLegal(m, i) == m.pending \in {0, i}

(* Mutant: the pending certificates go whatever index they are for.        *)
DeleteEntryAndAllCerts(m, i) ==
    LET stores == [m EXCEPT !.key   = IF @.index = i THEN NoKey ELSE @,
                            !.certs = NoCerts]
    IN IF i \notin Live(m) THEN stores
       ELSE [stores EXCEPT !.fabrics[i] = Absent,
                           !.next = IF @ = 0 THEN i ELSE @,
                           !.count = IF @ = 0 THEN 0 ELSE @ - 1]

(* Delete, once a pending update of the same fabric is out of the way: the *)
(* key store and the certificate store drop what is pending for the index, *)
(* the root certificate too.                                               *)
DeleteEntry(m, i) ==
    LET stores == [m EXCEPT !.key   = IF @.index = i THEN NoKey ELSE @,
                            !.certs = IF @.index = i THEN NoCerts ELSE @]
    IN IF i \notin Live(m) THEN stores
       ELSE [stores EXCEPT !.fabrics[i] = Absent,
                           !.next = IF @ = 0 THEN i ELSE @,
                           !.count = IF @ = 0 THEN 0 ELSE @ - 1]

(* RevertPendingOpCertsExceptRoot.                                         *)
RevertPendingOpCertsExceptRoot(m) ==
    LET certs == [m EXCEPT !.shadow = NoShadow,
                           !.certs = IF @.rcac THEN [@ EXCEPT !.noc = 0] ELSE NoCerts]
        entry == IF "add" \in m.flags THEN DeleteEntry(certs, m.pending) ELSE certs
    IN [entry EXCEPT !.flags = @ \ {"add", "update"},
                     !.pending = IF "root" \in m.flags THEN @ ELSE 0]

(* What Commit and Revert leave behind in the members.                     *)
Clear(m) ==
    [m EXCEPT !.shadow = NoShadow, !.flags = {}, !.pending = 0,
              !.key = NoKey, !.certs = NoCerts]

(* RevertPendingFabricData.                                                *)
RevertPendingFabricData(m) == Clear(RevertPendingOpCertsExceptRoot(m))

(* Delete: a fabric with a pending update is reverted first.               *)
Delete(m, i) ==
    DeleteEntry(IF Shadowed(m, i) THEN RevertPendingFabricData(m) ELSE m, i)

-----------------------------------------------------------------------------
(* Storage operations.                                                     *)

Put(part, i, value) == [part |-> part, index |-> i, value |-> value, list |-> {}]

(* StoreFabricIndexInfo: every initialized entry, pending ones too.        *)
StoreFabricIndexInfo(m) ==
    <<[part |-> "index", index |-> m.next, value |-> 1, list |-> Live(m)]>>

(* Deleting one key of storage, if it is there.                            *)
Erase(part, i) == IF stored[i][part] = 0 THEN <<>> ELSE <<Put(part, i, 0)>>

(* RemoveOpCertsForFabric.                                                 *)
EraseCerts(i) == Erase("noc", i) \o Erase("icac", i) \o Erase("rcac", i)

(* DeleteMetadataFromStorage, RemoveOpKeypairForFabric and                 *)
(* RemoveOpCertsForFabric, in the order of Delete.                         *)
DeleteParts(i) == Erase("meta", i) \o Erase("key", i) \o EraseCerts(i)

(* The storage operations of Delete(m, i).                                 *)
DeleteOps(m, i) ==
    DeleteParts(i) \o IF i \in Live(m) THEN StoreFabricIndexInfo(Delete(m, i)) ELSE <<>>

(* Those of RevertPendingOpCertsExceptRoot and RevertPendingFabricData.    *)
RevertOps(m) == IF "add" \in m.flags THEN DeleteOps(m, m.pending) ELSE <<>>

(* Whether todo is the rest of a commit.                                   *)
Committing == {n \in DOMAIN todo : todo[n].part = "finish"}

Idle == todo = <<>>

(* An operation: its members afterwards, and its storage operations.       *)
Operate(m, ops) ==
    /\ mem' = m
    /\ todo' = ops
    /\ UNCHANGED <<stored, indexInfo, marker, failed, faults, tainted>>

-----------------------------------------------------------------------------
(* FabricTable::Init and LoadFromStorage: fabrics whose metadata, NOC or   *)
(* root is missing are skipped.                                            *)
Loadable(i) ==
    i \in indexInfo.list /\ 0 \notin {stored[i].meta, stored[i].noc, stored[i].rcac}

LoadedMem ==
    LET loaded == {i \in Index : Loadable(i)} IN
    EnsureNextAvailableFabricIndexUpdated(
        [fabrics |-> [i \in Index |-> IF i \in loaded
                                        THEN [ver |-> stored[i].noc, label |-> stored[i].meta]
                                        ELSE Absent],
         shadow |-> NoShadow, flags |-> {}, pending |-> 0, next |-> indexInfo.next,
         count |-> Cardinality(loaded), key |-> NoKey, certs |-> NoCerts])

ClearMarker == [type |-> "clearMarker", fabric |-> 0, add |-> FALSE]

Init ==
    /\ FailSafeInit
    /\ stored = [i \in Index |-> NothingStored]
    /\ indexInfo = [next |-> 1, list |-> {}]
    /\ marker = 0
    /\ mem = LoadedMem
    /\ todo = <<>>
    /\ failed = {}
    /\ faults = [failures |-> 0, crashes |-> 0]
    /\ tainted = {}

-----------------------------------------------------------------------------
(* Commands.  accessor is the fabric of the session a command came over, 0 *)
(* for a PASE session; the sessions of a fabric end with it.               *)

Accessors == {0} \cup Live(mem)

(* GeneralCommissioning ArmFailSafe.                                       *)
ArmFailSafe(accessor) ==
    /\ Idle
    /\ accessor \in Accessors
    /\ MayArm(accessor)
    /\ Arm(accessor)
    /\ UNCHANGED <<mem, stored, indexInfo, marker, todo, failed, faults, tainted>>

(* The timer, or ArmFailSafe with an expiry of 0.                          *)
ExpireFailSafe ==
    /\ Idle
    /\ FailSafeTimerExpired
    /\ UNCHANGED <<mem, stored, indexInfo, marker, todo, failed, faults, tainted>>

(* AllocatePendingOperationalKey for index i, the generation of the new    *)
(* key being ver: a request that is refused for its index has already      *)
(* changed what the pending key is taken to be for, and one that the key   *)
(* store refuses (it holds a key of another index) the pending index too.  *)
AllocatePendingOperationalKey(i, forUpdate, ver) ==
    LET m == EnsureNextAvailableFabricIndexUpdated(mem)
        flagged == [m EXCEPT !.flags = IF forUpdate THEN @ \cup {"keyForUpdate"}
                                                    ELSE @ \ {"keyForUpdate"}]
        indexed == IF PendingIndexIsLegal(m, i) THEN [flagged EXCEPT !.pending = i] ELSE flagged
    IN
    /\ "present" \notin m.flags
    /\ forUpdate => "root" \notin m.flags
    /\ ~forUpdate => i = m.next
    /\ Operate(IF PendingIndexIsLegal(m, i) /\ m.key.index \in {0, i}
                 THEN [indexed EXCEPT !.key = [index |-> i, ver |-> ver], !.flags = @ \cup {"key"}]
                 ELSE indexed, <<>>)

(* HandleCSRRequest.                                                       *)
CSRRequest(accessor, i, forUpdate, ver) ==
    /\ Idle
    /\ accessor \in Accessors
    /\ IsFailSafeArmedFor(accessor)
    /\ ~NocCommandHasBeenInvoked
    /\ forUpdate => i = accessor
    /\ ver # stored[i].key
    /\ AllocatePendingOperationalKey(i, forUpdate, ver)
    /\ UNCHANGED failSafeVars

(* HandleAddTrustedRootCertificate and AddNewPendingTrustedRootCert: the   *)
(* certificate store refuses a root when certificates are pending or one   *)
(* is stored for the index, which is then the pending one all the same.    *)
AddTrustedRootCertificate(accessor) ==
    LET m == EnsureNextAvailableFabricIndexUpdated(mem)
        indexed == [m EXCEPT !.pending = m.next]
    IN
    /\ Idle
    /\ accessor \in Accessors
    /\ IsFailSafeArmedFor(accessor)
    /\ "addRoot" \notin invoked /\ ~NocCommandHasBeenInvoked
    /\ m.flags \cap {"root", "update", "add"} = {}
    /\ m.next # 0
    /\ PendingIndexIsLegal(m, m.next)
    /\ IF m.certs = NoCerts /\ stored[m.next].rcac = 0
         THEN /\ Operate([indexed EXCEPT !.certs = [index |-> m.next, rcac |-> TRUE, noc |-> 0],
                                         !.flags = @ \cup {"present", "root"}], <<>>)
              /\ invoked' = invoked \cup {"addRoot"}
         ELSE /\ Operate(indexed, <<>>)
              /\ UNCHANGED invoked
    /\ UNCHANGED <<armed, busy, fsIndex, events>>

(* AddOrUpdateInner accepts the staged chain of generation noc for index   *)
(* i: the key store activates the pending key it was issued for, or there  *)
(* is none pending and one is stored.                                      *)
ChainIsAccepted(m, i, noc) ==
    IF m.key = NoKey THEN stored[i].key # 0 ELSE m.key = [index |-> i, ver |-> noc]

(* AddNewPendingFabricCommon: the conditions that leave all as it was.     *)
(* The check of the pending index comes after the chain is staged; it can  *)
(* not fail, since only the next index can be pending along with a root.   *)
MayAddFabric(m, noc) ==
    /\ "root" \in m.flags /\ "update" \notin m.flags
    /\ m.next # 0
    /\ m.key # NoKey \/ stored[m.next].key # 0
    /\ m.certs.rcac /\ m.certs.noc = 0 /\ m.certs.index = m.next
    /\ stored[m.next].noc = 0 /\ stored[m.next].icac = 0
    /\ PendingIndexIsLegal(m, m.next)

(* HandleAddNOC.  The chain of generation noc is staged, and the fabric    *)
(* with it; later steps of the command (the IPK, the first ACL entry) may  *)
(* fail, and then what was staged is reverted.                             *)
AddNOC(accessor, noc, laterStepsSucceed) ==
    LET m == EnsureNextAvailableFabricIndexUpdated(mem)
        i == m.next
        staged == [m EXCEPT !.certs.noc = noc, !.pending = i]
        inner == Cardinality(Live(m)) < MaxFabrics /\ ChainIsAccepted(m, i, noc)
        added == [staged EXCEPT !.fabrics[i] = [ver |-> noc, label |-> EmptyLabel],
                                !.count = @ + 1,
                                !.flags = @ \cup {"add", "present"}]
    IN
    /\ Idle
    /\ accessor \in Accessors
    /\ IsFailSafeArmedFor(accessor)
    /\ ~NocCommandHasBeenInvoked
    /\ "key" \in m.flags /\ "keyForUpdate" \notin m.flags
    /\ "addRoot" \in invoked
    /\ MayAddFabric(m, noc)
    /\ \/ /\ ~inner /\ ~laterStepsSucceed
          /\ Operate(RevertPendingOpCertsExceptRoot(staged), <<>>)
          /\ UNCHANGED <<fsIndex, invoked>>
       \/ /\ inner /\ ~laterStepsSucceed
          /\ Operate(RevertPendingOpCertsExceptRoot(added), RevertOps(added))
          /\ UNCHANGED <<fsIndex, invoked>>
       \/ /\ inner /\ laterStepsSucceed
          /\ Operate(added, <<>>)
          /\ fsIndex' = i
          /\ invoked' = invoked \cup {"addNoc"}
    /\ UNCHANGED <<armed, busy, events>>

(* HandleUpdateNOC and UpdatePendingFabricCommon: the new credentials go   *)
(* into the shadow entry, with the label of the fabric.  The certificates  *)
(* are staged before the pending index is looked at, and stay if it is of  *)
(* another fabric.                                                         *)
UpdateNOC(accessor, noc) ==
    LET i == accessor
        certified == [mem EXCEPT !.certs = [index |-> i, rcac |-> FALSE, noc |-> noc]]
        staged == [certified EXCEPT !.pending = i]
        shadow == [index |-> i, ver |-> noc, label |-> FindFabric(mem, i).label]
    IN
    /\ Idle
    /\ accessor \in Live(mem)
    /\ IsFailSafeArmedFor(accessor)
    /\ ~NocCommandHasBeenInvoked
    /\ {"key", "keyForUpdate"} \subseteq mem.flags
    /\ mem.flags \cap {"root", "add"} = {}
    /\ mem.key # NoKey \/ stored[i].key # 0
    /\ mem.certs = NoCerts
    /\ stored[i].rcac # 0 /\ stored[i].noc # 0
    /\ IF PendingIndexIsLegal(mem, i) /\ ChainIsAccepted(mem, i, noc)
         THEN /\ Operate([staged EXCEPT !.shadow = shadow,
                                        !.flags = @ \cup {"update", "present"}], <<>>)
              /\ invoked' = invoked \cup {"updateNoc"}
         ELSE /\ Operate(IF PendingIndexIsLegal(mem, i)
                           THEN RevertPendingOpCertsExceptRoot(staged) ELSE certified, <<>>)
              /\ UNCHANGED invoked
    /\ UNCHANGED <<armed, busy, fsIndex, events>>

(* HandleUpdateFabricLabel and SetFabricLabel: the label goes to storage   *)
(* at once only when no fabric has a pending add or update.                *)
UpdateFabricLabel(accessor, label) ==
    /\ Idle
    /\ accessor \in Live(mem)
    /\ \A i \in Live(mem) \ {accessor} : FindFabric(mem, i).label # label
    /\ IF Shadowed(mem, accessor)
         THEN Operate([mem EXCEPT !.shadow.label = label], <<>>)
         ELSE Operate([mem EXCEPT !.fabrics[accessor].label = label],
                      IF mem.flags \cap {"add", "update"} = {}
                        THEN <<Put("meta", accessor, label)>> ELSE <<>>)
    /\ UNCHANGED failSafeVars

(* HandleRemoveFabric, by an administrator of any fabric and for any valid *)
(* index: Delete removes what it finds there, fabric or not.               *)
RemoveFabric(i) ==
    /\ Idle
    /\ Operate(Delete(mem, i), DeleteOps(mem, i))
    /\ UNCHANGED failSafeVars

-----------------------------------------------------------------------------
(* CommitPendingFabricData.                                                *)

(* The pre-flight checks of a commit.                                      *)
CommitIsConsistent(m) ==
    LET i == m.pending IN
    /\ i # 0
    /\ {"add", "update"} \cap m.flags # {}
    /\ "add" \in m.flags => /\ {"root", "update"} \cap m.flags = {"root"}
                            /\ \/ m.certs.rcac /\ m.certs.index = i
                               \/ stored[i].rcac # 0
    /\ "update" \in m.flags => m.shadow.index = i /\ i \in Live(m)
    /\ m.key.index = i \/ stored[i].key # 0

CommitIsReady == "present" \in mem.flags /\ CommitIsConsistent(mem)

(* The members once the transaction has started: nothing is pending any    *)
(* more, and the shadow of an update has replaced its fabric.              *)
Committed(m) ==
    LET i == m.pending
        entry == IF "update" \in m.flags
                   THEN [m EXCEPT !.fabrics[i] = FindFabric(m, i)] ELSE m
    IN Clear(IF "add" \in m.flags THEN UpdateNextAvailableFabricIndex(entry) ELSE entry)

(* Mutant: no commit marker.                                               *)
CommitOpsUnmarked(m) ==
    LET i == m.pending
        add == "add" \in m.flags
        done == Committed(m)
    IN <<Put("meta", i, done.fabrics[i].label)>>
       \o (IF m.key # NoKey THEN <<Put("key", i, m.key.ver)>> ELSE <<>>)
       \o <<Put("noc", i, m.certs.noc), Put("icac", i, m.certs.noc)>>
       \o (IF m.certs.rcac THEN <<Put("rcac", i, 1)>> ELSE <<>>)
       \o <<Put("certs", i, IF add THEN 1 ELSE 0)>>
       \o (IF add THEN StoreFabricIndexInfo(done) ELSE <<>>)
       \o <<Put("finish", i, 0)>>

(* Its storage operations.  "certs" is the end of CommitOpCertsForFabric,  *)
(* "finish" the end of the transaction.                                    *)
CommitOps(m) ==
    LET i == m.pending
        add == "add" \in m.flags
        done == Committed(m)
    IN <<Put("marker", i, 1), Put("meta", i, done.fabrics[i].label)>>
       \o (IF m.key # NoKey THEN <<Put("key", i, m.key.ver)>> ELSE <<>>)
       \o <<Put("noc", i, m.certs.noc), Put("icac", i, m.certs.noc)>>
       \o (IF m.certs.rcac THEN <<Put("rcac", i, 1)>> ELSE <<>>)
       \o <<Put("certs", i, IF add THEN 1 ELSE 0)>>
       \o (IF add THEN StoreFabricIndexInfo(done) ELSE <<>>)
       \o <<Put("finish", i, 0)>>

(* HandleCommissioningComplete, over a CASE session.  A commit that fails  *)
(* its pre-flight checks throws everything pending away and leaves the     *)
(* fail-safe armed, unless there was nothing pending; one that fails later *)
(* leaves it armed too (CommitFinished).                                   *)
(* Without a NOC command (the fail-safe is also used to change the network *)
(* configuration) the fail-safe is disarmed and the table not told: a key  *)
(* or root an administrator has staged and abandoned stays, if MayAbandon. *)
CommissioningComplete(accessor) ==
    /\ Idle
    /\ accessor \in Live(mem)
    /\ IsFailSafeArmedFor(accessor)
    /\ \/ /\ ~NocCommandHasBeenInvoked
          /\ MayAbandon \/ mem.flags = {}
          /\ ResetState
          /\ UNCHANGED <<events, mem, stored, indexInfo, marker, todo, failed, faults, tainted>>
       \/ /\ NocCommandHasBeenInvoked
          /\ IF CommitIsReady
               THEN Operate(Committed(mem), CommitOps(mem))
               ELSE Operate(Clear(mem), <<>>)
          /\ IF "present" \in mem.flags
               THEN UNCHANGED failSafeVars
               ELSE ResetState /\ UNCHANGED events

(* The end of CommitOpCertsForFabric: when a certificate of a new fabric   *)
(* could not be stored, those that were are deleted.                       *)
CertsStored ==
    LET i == Head(todo).index
        undo == Head(todo).value = 1 /\ failed \cap {"noc", "icac", "rcac"} # {}
    IN
    /\ ~Idle /\ Head(todo).part = "certs"
    /\ todo' = (IF undo THEN EraseCerts(i) ELSE <<>>) \o Tail(todo)
    /\ UNCHANGED <<failSafeVars, mem, stored, indexInfo, marker, failed, faults, tainted>>

(* Mutant: a failed write does not undo the commit.                        *)
CommitFinishedIgnoringErrors ==
    LET i == Head(todo).index IN
    /\ ~Idle /\ Head(todo).part = "finish"
    /\ todo' = <<Put("marker", i, 0)>>
    /\ ResetState
    /\ UNCHANGED <<events, mem>>
    /\ failed' = {}
    /\ UNCHANGED <<stored, indexInfo, marker, faults, tainted>>

(* The end of the transaction: any failed write and the fabric is deleted, *)
(* even on an update.  The marker is cleared last in either case.  Success *)
(* disarms the fail-safe.                                                  *)
CommitFinished ==
    LET i == Head(todo).index IN
    /\ ~Idle /\ Head(todo).part = "finish"
    /\ IF failed = {}
         THEN /\ todo' = <<Put("marker", i, 0)>>
              /\ ResetState
              /\ UNCHANGED <<events, mem>>
         ELSE /\ mem' = Delete(mem, i)
              /\ todo' = DeleteOps(mem, i) \o <<Put("marker", i, 0)>>
              /\ UNCHANGED failSafeVars
    /\ failed' = {}
    /\ UNCHANGED <<stored, indexInfo, marker, faults, tainted>>

-----------------------------------------------------------------------------
(* Storage.                                                                *)

Parts == DOMAIN NothingStored

(* The next storage operation succeeds.  An index is no longer tainted     *)
(* once nothing is stored for it.                                          *)
Write ==
    LET op == Head(todo) IN
    /\ ~Idle /\ op.part \notin {"certs", "finish"}
    /\ todo' = Tail(todo)
    /\ stored' = IF op.part \in Parts THEN [stored EXCEPT ![op.index][op.part] = op.value] ELSE stored
    /\ indexInfo' = IF op.part = "index" THEN [next |-> op.index, list |-> op.list] ELSE indexInfo
    /\ marker' = IF op.part = "marker" THEN op.index * op.value ELSE marker
    /\ tainted' = {i \in tainted : stored'[i] # NothingStored}
    /\ UNCHANGED <<failSafeVars, mem, failed, faults>>

(* It fails; only a commit looks at the result.  A commit whose marker     *)
(* could not be stored goes on without its protection: the code says so,   *)
(* and the index is tainted until nothing is stored for it.                *)
WriteFails ==
    LET op == Head(todo) IN
    /\ ~Idle /\ op.part \notin {"certs", "finish"} /\ op.value # 0
    /\ faults.failures < MaxFailures
    /\ faults' = [faults EXCEPT !.failures = @ + 1]
    /\ todo' = Tail(todo)
    /\ failed' = IF Committing # {} THEN failed \cup {op.part} ELSE failed
    /\ tainted' = IF op.part = "marker" THEN tainted \cup {op.index} ELSE tainted
    /\ UNCHANGED <<failSafeVars, mem, stored, indexInfo, marker>>

(* Mutant: what the marker names is left alone at the next start.          *)
CrashIgnoringMarker ==
    /\ faults.crashes < MaxCrashes
    /\ faults' = [faults EXCEPT !.crashes = @ + 1]
    /\ failed' = {}
    /\ armed' = FALSE /\ invoked' = {} /\ fsIndex' = 0
    /\ mem' = LoadedMem
    /\ UNCHANGED tainted
    /\ busy' = FALSE /\ events' = <<>> /\ todo' = <<>> /\ marker' = 0
    /\ UNCHANGED <<stored, indexInfo>>

(* Power is lost at any moment, and the device starts again: Init loads    *)
(* the table and deletes what a commit marker names; Server::Init then     *)
(* queues a clean-up that pretends the commit was of a new fabric, and the *)
(* clearing of the marker behind it.  A Delete outside of a commit has no  *)
(* marker: what it had not yet deleted stays, which taints the index.      *)
Crash ==
    /\ faults.crashes < MaxCrashes
    /\ faults' = [faults EXCEPT !.crashes = @ + 1]
    /\ failed' = {}
    /\ armed' = FALSE /\ invoked' = {} /\ fsIndex' = 0
    /\ LET halfDeleted == {i \in Index : /\ ~Idle /\ Head(todo).index = i /\ Head(todo).value = 0
                                         /\ Head(todo).part \in Parts \ {"meta"} /\ marker # i}
       IN tainted' = tainted \cup halfDeleted
    /\ IF marker = 0
         THEN /\ mem' = LoadedMem
              /\ todo' = <<>>
              /\ busy' = FALSE
              /\ events' = <<>>
         ELSE /\ mem' = Delete(LoadedMem, marker)
              /\ todo' = DeleteOps(LoadedMem, marker)
              /\ busy' = TRUE
              /\ events' = <<Expired(marker, TRUE), Disarm, ClearMarker>>
    /\ UNCHANGED <<stored, indexInfo, marker>>

-----------------------------------------------------------------------------
(* Events.                                                                 *)

(* OperationalCredentialsCluster::FailSafeCleanup.  When the fabric it is  *)
(* to delete is the one that was being added, reverting has deleted it.    *)
FailSafeCleanup ==
    LET event == Head(events)
        m == RevertPendingFabricData(mem)
    IN
    /\ Idle
    /\ HandOut("expired")
    /\ IF event.add /\ event.fabric \in Index
         THEN Operate(Delete(m, event.fabric),
                      IF "add" \in mem.flags /\ mem.pending = event.fabric
                        THEN RevertOps(mem) ELSE RevertOps(mem) \o DeleteOps(m, event.fabric))
         ELSE Operate(m, RevertOps(mem))
    /\ UNCHANGED <<armed, busy, fsIndex, invoked>>

FailSafeDisarmed ==
    /\ Idle
    /\ HandleDisarmFailSafe
    /\ UNCHANGED <<mem, stored, indexInfo, marker, todo, failed, faults, tainted>>

(* The work Server::Init queued.                                           *)
MarkerCleared ==
    /\ Idle
    /\ HandOut("clearMarker")
    /\ marker' = 0
    /\ UNCHANGED <<armed, busy, fsIndex, invoked>>
    /\ UNCHANGED <<mem, stored, indexInfo, todo, failed, faults, tainted>>

Next ==
    \/ \E a \in 0..MaxIndex : ArmFailSafe(a)
    \/ ExpireFailSafe
    \/ \E a \in 0..MaxIndex, i \in Index, forUpdate \in BOOLEAN, ver \in Versions :
          CSRRequest(a, i, forUpdate, ver)
    \/ \E a \in 0..MaxIndex : AddTrustedRootCertificate(a)
    \/ \E a \in 0..MaxIndex, noc \in Versions, ok \in BOOLEAN : AddNOC(a, noc, ok)
    \/ \E a \in Index, noc \in Versions : UpdateNOC(a, noc)
    \/ \E a \in Index, label \in Labels : UpdateFabricLabel(a, label)
    \/ \E i \in Index : RemoveFabric(i)
    \/ \E a \in Index : CommissioningComplete(a)
    \/ CertsStored
    \/ CommitFinished
    \/ Write
    \/ WriteFails
    \/ Crash
    \/ FailSafeCleanup
    \/ FailSafeDisarmed
    \/ MarkerCleared

Spec == Init /\ [][Next]_vars

-----------------------------------------------------------------------------
(* Properties.                                                             *)

(* What a device that starts now would find for index i.                   *)
Durable ==
    [i \in Index |->
       IF marker = i \/ i \in tainted \/ ~Loadable(i)
         THEN [ver |-> 0, whole |-> TRUE, label |-> 0]
         ELSE [ver |-> stored[i].noc, label |-> stored[i].meta,
               whole |-> {stored[i].key, stored[i].icac} = {stored[i].noc}]]

Store == INSTANCE FabricStore WITH committed <- Durable

(* CommitPendingFabricData, Delete and Init together: at every moment,     *)
(* between any two writes, with a write failing, power lost and the        *)
(* recovery interrupted again, storage holds for each index a whole set of *)
(* credentials or nothing, and changes as FabricStore allows.              *)
ImplementsFabricStore == Store!Spec

(* Nothing is left in storage of a fabric the table does not know, once    *)
(* the operation that removed it (a failed commit, RemoveFabric, the       *)
(* clean-up after a restart) has finished.                                 *)
NoLeftovers ==
    Idle => \A i \in Index \ (tainted \cup {marker}) :
               i \notin Live(mem) => stored[i] = NothingStored

(* When nothing is pending and no operation is running, the fabrics in     *)
(* memory are those the next start would load, with the same credentials.  *)
MemoryMatchesStorage ==
    Idle /\ mem.flags = {} =>
      \A i \in Index \ (tainted \cup {marker}) : mem.fabrics[i].ver = Durable[i].ver

(* The clean-up of an expired AddNOC deletes a fabric index given by the   *)
(* fail-safe context.  It never names a fabric that has been committed,    *)
(* neither in an event already queued nor in one an expiry would queue.    *)
CleanupTargets ==
    {events[n].fabric : n \in {k \in DOMAIN events : events[k].add}}
      \cup {i \in {fsIndex} : armed /\ "addNoc" \in invoked /\ Idle}

CleanupNamesUncommitted ==
    \A i \in CleanupTargets \cap Index : Durable[i].ver = 0

(* mNextAvailableFabricIndex is free, unless by the fabric being added     *)
(* there, and mFabricCount counts the fabrics.                             *)
TableIsConsistent ==
    /\ mem.count = Cardinality(Live(mem))
    /\ mem.next \in Live(mem) \ tainted => "add" \in mem.flags /\ mem.pending = mem.next
    /\ mem.next = 0 => Live(mem) = Index

(* The "internally inconsistent state" that CommitPendingFabricData checks *)
(* for is never met: whenever an administrator can complete a NOC command, *)
(* whatever other administrators have removed or relabelled since, what    *)
(* the commit needs is there.                                              *)
CommitIsNeverInconsistent ==
    Idle /\ armed /\ NocCommandHasBeenInvoked /\ fsIndex \in Live(mem) => CommitIsReady

(* FabricTable.h:919, of the NOC given to UpdateNOC: "Must match an        *)
(* existing or pending operational keypair in the mOperationalKeystore."   *)
(* A fabric that is stored outside of a commit has the key of its NOC.     *)
NocMatchesKey == Idle => \A i \in Index : Durable[i].whole

=============================================================================
