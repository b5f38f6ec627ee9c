------------------------- MODULE FabricTableProofs -------------------------
(***************************************************************************)
(* Proofs about FabricTable, for any number of indices, slots, generations *)
(* and labels, any number of failing writes and of restarts.               *)
(*                                                                         *)
(* An operation changes the members in one step and storage in many, so    *)
(* the invariant says of every suffix of its storage operations what is    *)
(* stored and what is still to come.  At most one index is being worked on *)
(* (Work): its label is being stored (Relabelling), it is being deleted    *)
(* (Deleting), a commit is under way (Commit), or has been stored and only *)
(* its marker is left (Concluding).  Every other index is Settled: memory  *)
(* and storage agree about it.  The rest of the invariant is about the     *)
(* members (TableInv, PendingInv, ReadyInv) and about what the fail-safe   *)
(* and its queued clean-up may name (QueueInv, CleanupInv).                *)
(*                                                                         *)
(* All theorems assume ~MayAbandon: the run FabricTable_abandoned shows    *)
(* what happens without it.                                                *)
(***************************************************************************)
EXTENDS FabricTable, FiniteSetTheorems, WellFoundedInduction, TLAPS

(* Storage operations.                                                     *)

Op == [part : Parts \cup {"index", "marker", "certs", "finish"},
       index : 0..MaxIndex, value : Nat, list : SUBSET Index]

Ops(s) == {s[n] : n \in DOMAIN s}

IsPut(o) == o.part \in Parts /\ o.value # 0

IsErase(o) == o.part \in Parts /\ o.value = 0

IsMark(o) == o.part = "marker" /\ o.value = 1

IsUnmark(o) == o.part = "marker" /\ o.value = 0

(* The order in which the storage operations of any one operation come.    *)
Stage(o) ==
    IF o.part = "marker" THEN (IF o.value = 0 THEN 8 ELSE 1)
    ELSE IF o.part = "certs" THEN 3
    ELSE IF o.part = "index" THEN 6
    ELSE IF o.part = "finish" THEN 7
    ELSE IF o.value # 0 THEN 2
    ELSE IF o.part = "meta" THEN 4 ELSE 5

Before(x, y) == Stage(x) < Stage(y) \/ (Stage(x) = Stage(y) /\ Stage(x) \in {2, 5})

Ordered(s) == \A a, b \in DOMAIN s : a < b => Before(s[a], s[b])

-----------------------------------------------------------------------------
(* Storage, by index.                                                      *)

(* Something is left of a commit whose marker could not be stored, or of a *)
(* deletion that power loss interrupted.                                   *)
Foul(j) == j \in tainted /\ stored[j] # NothingStored

(* Credentials that belong together.                                       *)
IsWhole(r) ==
    /\ r.meta \in Labels /\ r.noc \in Versions
    /\ r.key = r.noc /\ r.icac = r.noc /\ r.rcac = 1

(* They will be loaded by the next start, and the index not given away.    *)
Installed(j) ==
    IsWhole(stored[j]) /\ j \in indexInfo.list /\ j # indexInfo.next

StoreOK(j) == marker = j \/ Foul(j) \/ stored[j] = NothingStored \/ Installed(j)

(* The next start will load nothing for it.                                *)
Uncommitted(j) == marker = j \/ Foul(j) \/ stored[j] = NothingStored

AddPending(j) == "add" \in mem.flags /\ mem.pending = j

(* No operation is working on j: memory and storage agree about it.        *)
Settled(j) ==
    /\ marker = j => stored[j] = NothingStored
    /\ \/ Foul(j) \/ stored[j] = NothingStored
       \/ Installed(j) /\ mem.fabrics[j].ver = stored[j].noc
    /\ j \in Live(mem) => AddPending(j) \/ stored[j].noc # 0

(* Nothing is pending, an index that a refused command left apart.         *)
Bare(m) == m.shadow = NoShadow /\ m.key = NoKey /\ m.certs = NoCerts

Clean(m) == m.flags = {} /\ Bare(m)

(* What a commit of index i stores as part p.                              *)
Target(i, p) ==
    IF p = "rcac" THEN 1 ELSE IF p = "meta" THEN mem.fabrics[i].label ELSE mem.fabrics[i].ver

PutLeft(p) == \E o \in Ops(todo) : o.part = p /\ o.value # 0

EraseLeft(p) == \E o \in Ops(todo) : o.part = p /\ o.value = 0

Left(p) == \E o \in Ops(todo) : o.part = p

MarkLeft == \E o \in Ops(todo) : IsMark(o)

-----------------------------------------------------------------------------
(* The phases of an operation on the storage of index i.                   *)

(* UpdateFabricLabel of a committed fabric.                                *)
Relabelling(i) ==
    /\ \E l \in Labels : todo = <<Put("meta", i, l)>>
    /\ Settled(i)
    /\ stored[i].noc # 0
    /\ failed = {}

(* Delete, also when it undoes a commit or follows a restart: whatever is  *)
(* stored will be erased, and the metadata go first, so that what is left  *)
(* after power loss is not loaded.                                         *)
Deleting(i) ==
    /\ i \notin Live(mem)
    /\ \A o \in Ops(todo) : IsErase(o) \/ o.part = "index" \/ IsUnmark(o)
    /\ \A p \in Parts : stored[i][p] # 0 => EraseLeft(p)
    /\ EraseLeft("meta") => stored[i].meta # 0
    /\ stored[i].meta # 0 => StoreOK(i)
    /\ failed = {}

(* What a commit may still have to do.  It erases only after a failure.    *)
CommitOp(i, o) ==
    \/ o.part \in {"index", "finish"}
    \/ IsMark(o)
    \/ o.part = "certs" /\ (o.value = 0 \/ mem.next # i)
    \/ IsPut(o) /\ o.value = Target(i, o.part)
    \/ IsErase(o) /\ o.part # "meta" /\ failed # {} /\ mem.next # i

(* Before the marker is stored, storage is as the operation found it.      *)
Unmarked(i) ==
    /\ marker = i => stored[i] = NothingStored
    /\ Foul(i) \/ stored[i] = NothingStored \/ Installed(i)

(* From then on the next start would load nothing for i: there is the      *)
(* marker, or it could not be stored and the index is tainted, or what had *)
(* been stored has been erased.                                            *)
Marked(i) ==
    \/ marker = i
    \/ failed # {} /\ i \in tainted
    \/ failed # {} /\ stored[i] = NothingStored /\ \A p \in Parts : ~PutLeft(p)

(* Unless a write has failed, each part is stored or still to be stored.   *)
Commit(i) ==
    /\ i \in Live(mem) /\ Clean(mem) /\ armed /\ fsIndex = i
    /\ Left("finish")
    /\ \A o \in Ops(todo) : CommitOp(i, o)
    /\ IF MarkLeft THEN Unmarked(i) ELSE Marked(i)
    /\ failed = {} => PutLeft("noc") \/ stored[i].noc = Target(i, "noc")
    /\ failed = {} /\ ~Foul(i) =>
          /\ \A p \in Parts : PutLeft(p) \/ stored[i][p] = Target(i, p)
          /\ Left("index") \/ (i \in indexInfo.list /\ i # indexInfo.next)

(* All is stored and the fail-safe disarmed; the marker is left.           *)
Concluding(i) ==
    /\ todo = <<Put("marker", i, 0)>>
    /\ marker = i /\ ~armed /\ ~busy /\ Clean(mem) /\ failed = {}
    /\ stored[i].noc # 0
    /\ Foul(i) \/ (Installed(i) /\ mem.fabrics[i].ver = stored[i].noc)

(* An operation on the storage of index i is under way.                    *)
Work(i) ==
    /\ ~Idle
    /\ \A o \in Ops(todo) : o.part # "index" => o.index = i
    /\ \A j \in Index \ {i} : Settled(j)
    /\ Relabelling(i) \/ Deleting(i) \/ Commit(i) \/ Concluding(i)

(* The storage operations left come in order, and an index write stores    *)
(* what the table holds.                                                   *)
TodoOK ==
    /\ todo \in Seq(Op)
    /\ Ordered(todo)
    /\ \A o \in Ops(todo) : o.part = "index" => o.index = mem.next /\ o.list = Live(mem) /\ o.value = 1

(* At most one index is being worked on.                                   *)
Storage ==
    \/ Idle /\ failed = {} /\ \A j \in Index : Settled(j)
    \/ \E i \in Index : Work(i)

-----------------------------------------------------------------------------
(* Types.                                                                  *)

StoredRecord ==
    [meta : Labels \cup {0}, key : Versions \cup {0}, noc : Versions \cup {0},
     icac : Versions \cup {0}, rcac : {0, 1}]

MemFields == {"fabrics", "shadow", "flags", "pending", "next", "count", "key", "certs"}

Entry == [ver : Versions, label : Labels]

Fabrics == [Index -> Entry \cup {Absent}]

Shadow == [index : Index, ver : Versions, label : Labels]

Key == [index : Index, ver : Versions]

Certs == [index : Index, rcac : BOOLEAN, noc : Versions \cup {0}]

IsMem(m) ==
    /\ m = [f \in MemFields |-> m[f]]
    /\ m.fabrics \in Fabrics
    /\ m.shadow \in Shadow \cup {NoShadow}
    /\ m.flags \subseteq StateFlags
    /\ m.pending \in 0..MaxIndex
    /\ m.next \in 0..MaxIndex
    /\ m.count \in Nat
    /\ m.key \in Key \cup {NoKey}
    /\ m.certs \in Certs \cup {NoCerts}

Event == [type : {"expired", "disarm", "clearMarker"}, fabric : 0..MaxIndex, add : BOOLEAN]

TypeInv ==
    /\ armed \in BOOLEAN /\ busy \in BOOLEAN
    /\ fsIndex \in 0..MaxIndex
    /\ invoked \subseteq ContextFlags
    /\ events \in Seq(Event)
    /\ IsMem(mem)
    /\ stored \in [Index -> StoredRecord]
    /\ indexInfo \in [next : 0..MaxIndex, list : SUBSET Index]
    /\ marker \in 0..MaxIndex
    /\ tainted \subseteq Index

(* mFabricCount counts the fabrics, and there is a next index if any is    *)
(* free.                                                                   *)
Tabled(m) ==
    /\ m.count = Cardinality(Live(m))
    /\ m.next = 0 => Live(m) = Index

TableInv ==
    /\ Tabled(mem)
    /\ mem.next \in Live(mem) => Foul(mem.next) \/ AddPending(mem.next)

(* The queue: at most one expiry, followed by its disarm; the fail-safe is *)
(* busy as long as either is there.                                        *)
QueueInv ==
    /\ \A a, b \in DOMAIN events :
          a < b /\ {events[a].type, events[b].type} \subseteq {"expired", "disarm"} =>
             events[a].type = "expired" /\ events[b].type = "disarm"
    /\ ~busy => \A n \in DOMAIN events : events[n].type = "clearMarker"
    /\ \A n \in DOMAIN events : events[n].add => events[n].type = "expired"
    /\ armed => ~busy
    /\ ~armed /\ ~busy => invoked = {}

(* Something is pending only while the fail-safe is armed or its clean-up  *)
(* queued, and what the clean-up will delete has not been committed.       *)
CleanupInv ==
    /\ ~armed => Clean(mem) \/ \E n \in DOMAIN events : events[n].type = "expired"
    /\ \A n \in DOMAIN events :
         /\ events[n].add /\ events[n].fabric \in Index => Uncommitted(events[n].fabric)
         /\ events[n].type = "expired" /\ "add" \in mem.flags =>
               events[n].add /\ events[n].fabric = mem.pending
    /\ armed /\ "addNoc" \in invoked => fsIndex \in Index /\ Uncommitted(fsIndex)
    /\ armed /\ "add" \in mem.flags => "addNoc" \in invoked /\ mem.pending = fsIndex

(* A fabric is added at the next index; flags go with what they are for.   *)
PendingInv ==
    /\ "add" \in mem.flags => mem.pending \in Index /\ mem.next = mem.pending /\ "update" \notin mem.flags
    /\ mem.flags \cap {"key", "root"} = {} => Bare(mem)

(* Everything a commit of the new fabric i needs is there.                 *)
ReadyToAdd(i) ==
    /\ {"present", "root", "add"} \subseteq mem.flags
    /\ mem.pending = i
    /\ \E v \in Versions :
         /\ mem.certs = [index |-> i, rcac |-> TRUE, noc |-> v]
         /\ mem.fabrics[i].ver = v
         /\ \/ mem.key = [index |-> i, ver |-> v]
            \/ mem.key = NoKey /\ Foul(i) /\ stored[i].key # 0

(* Everything a commit of new credentials for fabric i needs is there.     *)
ReadyToUpdate(i) ==
    /\ {"present", "update"} \subseteq mem.flags
    /\ mem.flags \cap {"root", "add"} = {}
    /\ mem.pending = i /\ mem.shadow.index = i
    /\ mem.certs = [index |-> i, rcac |-> FALSE, noc |-> mem.shadow.ver]
    /\ mem.key = [index |-> i, ver |-> mem.shadow.ver]

(* A pending key is for the fabric the fail-safe is armed for or for the   *)
(* pending one; it was dropped only with a fabric that is gone.            *)
KeyInv ==
    IF mem.key = NoKey THEN fsIndex \in Index \ Live(mem) \/ mem.pending \in Index \ Live(mem)
                       ELSE mem.key.index \in {fsIndex, mem.pending}

(* A NOC command that was accepted can be completed, as long as the fabric *)
(* is there and its commit has not begun.                                  *)
ReadyInv ==
    /\ armed /\ "addNoc" \in invoked /\ fsIndex \in Live(mem) /\ ~Left("finish") =>
          ReadyToAdd(fsIndex)
    /\ armed /\ "updateNoc" \in invoked /\ fsIndex \in Live(mem) /\ ~Left("finish") =>
          ReadyToUpdate(fsIndex)
    /\ armed /\ ~NocCommandHasBeenInvoked /\ "key" \in mem.flags => KeyInv

(* The inductive invariant.                                                *)
IInv ==
    /\ TypeInv /\ TodoOK /\ Storage
    /\ TableInv /\ QueueInv /\ CleanupInv /\ PendingInv /\ ReadyInv

-----------------------------------------------------------------------------
(* The constants.                                                          *)

LEMMA Constants ==
    /\ MaxIndex \in Nat \ {0}
    /\ Index = 1..MaxIndex /\ Index \subseteq Nat /\ 0 \notin Index
    /\ Versions \subseteq Nat /\ 0 \notin Versions
    /\ Labels \subseteq Nat /\ 0 \notin Labels /\ EmptyLabel \in Labels
    /\ Parts = {"meta", "key", "noc", "icac", "rcac"}
<1>1. DOMAIN NothingStored = {"meta", "key", "noc", "icac", "rcac"}
  BY DEF NothingStored
<1>2. /\ MaxIndex \in Nat \ {0}
      /\ Index = 1..MaxIndex /\ Index \subseteq Nat /\ 0 \notin Index
  BY FabricTableAssumption DEF Index
<1>3. /\ Versions \subseteq Nat /\ 0 \notin Versions
      /\ Labels \subseteq Nat /\ 0 \notin Labels /\ EmptyLabel \in Labels
  BY FabricTableAssumption DEF EmptyLabel
<1> QED BY <1>1, <1>2, <1>3 DEF Parts

-----------------------------------------------------------------------------
(* Sequences of storage operations.                                        *)

LEMMA OpsOfEmpty == Ops(<<>>) = {} /\ Ordered(<<>>)
BY DEF Ops, Ordered

LEMMA OpsOfOne ==
    ASSUME NEW o, o \in Op
    PROVE  <<o>> \in Seq(Op) /\ Ops(<<o>>) = {o} /\ Ordered(<<o>>) /\ <<o>> # <<>>
<1>1. <<o>> \in Seq(Op) /\ DOMAIN <<o>> = {1} /\ <<o>>[1] = o /\ <<o>> # <<>>
  OBVIOUS
<1>2. Ops(<<o>>) = {o}
  BY <1>1 DEF Ops
<1>3. Ordered(<<o>>)
  BY <1>1 DEF Ordered
<1> QED BY <1>1, <1>2, <1>3

LEMMA OpsOfConcat ==
    ASSUME NEW s \in Seq(Op), NEW t \in Seq(Op)
    PROVE  /\ s \o t \in Seq(Op)
           /\ Ops(s \o t) = Ops(s) \cup Ops(t)
           /\ s \o t = <<>> <=> s = <<>> /\ t = <<>>
           /\ Ordered(s) /\ Ordered(t) /\ (\A x \in Ops(s), y \in Ops(t) : Before(x, y))
                => Ordered(s \o t)
<1> PICK m \in Nat, n \in Nat : m = Len(s) /\ n = Len(t)
  OBVIOUS
<1>1. /\ DOMAIN s = 1..m /\ DOMAIN t = 1..n
      /\ s \o t \in Seq(Op) /\ DOMAIN (s \o t) = 1..(m + n)
      /\ \A k \in 1..m : (s \o t)[k] = s[k]
      /\ \A k \in (m + 1)..(m + n) : (s \o t)[k] = t[k - m]
  OBVIOUS
<1>2. \A k \in 1..n : (s \o t)[m + k] = t[k] /\ m + k \in 1..(m + n)
  BY <1>1
<1>3. \A k \in 1..(m + n) : k \in 1..m \/ (k \in (m + 1)..(m + n) /\ k - m \in 1..n)
  OBVIOUS
<1>4. PICK c : c = s \o t
  OBVIOUS
<1>5. Ops(c) = Ops(s) \cup Ops(t)
  <2>1. ASSUME NEW k \in 1..(m + n) PROVE c[k] \in Ops(s) \cup Ops(t)
    BY <1>1, <1>3, <1>4 DEF Ops
  <2>2. ASSUME NEW k \in 1..m PROVE s[k] \in Ops(c)
    <3>1. c[k] = s[k] /\ k \in DOMAIN c
      BY <1>1, <1>4
    <3> QED BY <3>1 DEF Ops
  <2>3. ASSUME NEW k \in 1..n PROVE t[k] \in Ops(c)
    <3>1. c[m + k] = t[k] /\ m + k \in DOMAIN c
      BY <1>1, <1>2, <1>4
    <3> QED BY <3>1 DEF Ops
  <2>4. DOMAIN c = 1..(m + n)
    BY <1>1, <1>4
  <2>5. Ops(c) \subseteq Ops(s) \cup Ops(t)
    BY <2>1, <2>4 DEF Ops
  <2>6. Ops(s) \subseteq Ops(c) /\ Ops(t) \subseteq Ops(c)
    BY <1>1, <2>2, <2>3 DEF Ops
  <2> QED BY <2>5, <2>6
<1>6. ASSUME Ordered(s), Ordered(t), \A x \in Ops(s), y \in Ops(t) : Before(x, y)
      PROVE  Ordered(c)
  <2>1. SUFFICES ASSUME NEW a \in 1..(m + n), NEW b \in 1..(m + n), a < b
                 PROVE  Before(c[a], c[b])
    BY <1>1, <1>4 DEF Ordered
  <2>2. CASE a \in 1..m /\ b \in 1..m
    BY <1>1, <1>4, <1>6, <2>1, <2>2 DEF Ordered
  <2>3. CASE a \in 1..m /\ b \in (m + 1)..(m + n)
    <3>1. c[a] = s[a] /\ c[b] = t[b - m] /\ a \in DOMAIN s /\ b - m \in DOMAIN t
      BY <1>1, <1>3, <1>4, <2>3
    <3>2. s[a] \in Ops(s) /\ t[b - m] \in Ops(t)
      BY <3>1 DEF Ops
    <3> QED BY <1>6, <3>1, <3>2
  <2>4. CASE a \in (m + 1)..(m + n) /\ b \in (m + 1)..(m + n)
    <3>1. /\ c[a] = t[a - m] /\ c[b] = t[b - m]
          /\ a - m \in DOMAIN t /\ b - m \in DOMAIN t /\ a - m < b - m
      BY <1>1, <1>3, <1>4, <2>1, <2>4
    <3> QED BY <1>6, <3>1 DEF Ordered
  <2> QED BY <2>1, <2>2, <2>3, <2>4
<1>7. c = <<>> <=> s = <<>> /\ t = <<>>
  <2>1. c = <<>> <=> m + n = 0
    BY <1>1, <1>4
  <2> QED BY <2>1
<1> QED BY <1>1, <1>4, <1>5, <1>6, <1>7

LEMMA OpsOfTail ==
    ASSUME NEW s \in Seq(Op), s # <<>>
    PROVE  /\ Head(s) \in Op /\ Tail(s) \in Seq(Op)
           /\ Ops(s) = {Head(s)} \cup Ops(Tail(s))
           /\ Ordered(s) => /\ Ordered(Tail(s))
                            /\ \A o \in Ops(Tail(s)) : Before(Head(s), o)
<1> PICK n \in Nat : n = Len(s)
  OBVIOUS
<1>0. n > 0 /\ DOMAIN s = 1..n
  OBVIOUS
<1>1. /\ Head(s) = s[1] /\ Head(s) \in Op /\ Tail(s) \in Seq(Op)
      /\ DOMAIN Tail(s) = 1..(n - 1)
      /\ \A k \in 1..(n - 1) : Tail(s)[k] = s[k + 1]
  OBVIOUS
<1>2. PICK t : t = Tail(s)
  OBVIOUS
<1>3. Ops(s) = {s[1]} \cup Ops(t)
  <2>1. ASSUME NEW k \in 1..n PROVE s[k] \in {s[1]} \cup Ops(t)
    <3>1. CASE k = 1
      BY <3>1
    <3>2. CASE k # 1
      <4>1. k - 1 \in 1..(n - 1) /\ (k - 1) + 1 = k
        BY <1>0, <3>2
      <4>2. t[k - 1] = s[k] /\ k - 1 \in DOMAIN t
        BY <1>1, <1>2, <4>1
      <4> QED BY <4>2 DEF Ops
    <3> QED BY <3>1, <3>2
  <2>2. ASSUME NEW k \in 1..(n - 1) PROVE t[k] \in Ops(s)
    <3>1. t[k] = s[k + 1] /\ k + 1 \in DOMAIN s
      BY <1>0, <1>1, <1>2
    <3> QED BY <3>1 DEF Ops
  <2>3. s[1] \in Ops(s)
    BY <1>0 DEF Ops
  <2> QED BY <1>0, <1>1, <1>2, <2>1, <2>2, <2>3 DEF Ops
<1>4. ASSUME Ordered(s) PROVE Ordered(t) /\ \A o \in Ops(t) : Before(s[1], o)
  <2>1. ASSUME NEW a \in 1..(n - 1), NEW b \in 1..(n - 1), a < b PROVE Before(t[a], t[b])
    <3>1. t[a] = s[a + 1] /\ t[b] = s[b + 1] /\ a + 1 \in 1..n /\ b + 1 \in 1..n /\ a + 1 < b + 1
      BY <1>0, <1>1, <1>2, <2>1
    <3> QED BY <1>0, <1>4, <3>1 DEF Ordered
  <2>2. ASSUME NEW b \in 1..(n - 1) PROVE Before(s[1], t[b])
    <3>1. t[b] = s[b + 1] /\ 1 \in 1..n /\ b + 1 \in 1..n /\ 1 < b + 1
      BY <1>0, <1>1, <1>2
    <3> QED BY <1>0, <1>4, <3>1 DEF Ordered
  <2> QED BY <1>1, <1>2, <2>1, <2>2 DEF Ordered, Ops
<1> QED BY <1>1, <1>2, <1>3, <1>4

-----------------------------------------------------------------------------
(* The operators on the members.                                           *)

LEMMA LiveIsFinite ==
    ASSUME NEW m
    PROVE  Live(m) \subseteq Index /\ IsFiniteSet(Live(m)) /\ Cardinality(Live(m)) \in Nat
<1>1. IsFiniteSet(Index)
  <2>1. 1 \in Int /\ MaxIndex \in Int
    BY Constants
  <2> QED BY <2>1, Constants, FS_Interval
<1>2. Live(m) \subseteq Index
  BY DEF Live
<1>3. IsFiniteSet(Live(m))
  BY <1>1, <1>2, FS_Subset
<1> QED BY <1>2, <1>3, FS_CardinalityType

LEMMA DeleteEntryIs ==
    ASSUME NEW m, IsMem(m), NEW i \in Index, NEW g, g = DeleteEntry(m, i)
    PROVE  /\ IsMem(g)
           /\ g.fabrics = [m.fabrics EXCEPT ![i] = Absent]
           /\ g.shadow = m.shadow /\ g.flags = m.flags /\ g.pending = m.pending
           /\ g.next = IF i \in Live(m) /\ m.next = 0 THEN i ELSE m.next
           /\ g.count = IF i \in Live(m) /\ m.count # 0 THEN m.count - 1 ELSE m.count
           /\ g.key = IF m.key.index = i THEN NoKey ELSE m.key
           /\ g.certs = IF m.certs.index = i THEN NoCerts ELSE m.certs
           /\ Live(g) = Live(m) \ {i}
           /\ Tabled(m) => Tabled(g)
<1>1. /\ g = [f \in MemFields |-> g[f]]
      /\ g.fabrics = [m.fabrics EXCEPT ![i] = Absent]
      /\ g.shadow = m.shadow /\ g.flags = m.flags /\ g.pending = m.pending
      /\ g.next = IF i \in Live(m) /\ m.next = 0 THEN i ELSE m.next
      /\ g.count = IF i \in Live(m) /\ m.count # 0 THEN m.count - 1 ELSE m.count
      /\ g.key = IF m.key.index = i THEN NoKey ELSE m.key
      /\ g.certs = IF m.certs.index = i THEN NoCerts ELSE m.certs
  <2>1. CASE i \in Live(m)
    BY <2>1 DEF DeleteEntry, IsMem, MemFields
  <2>2. CASE i \notin Live(m)
    <3>1. m.fabrics = [m.fabrics EXCEPT ![i] = Absent]
      BY <2>2 DEF Live, IsMem, Fabrics
    <3> QED BY <2>2, <3>1 DEF DeleteEntry, IsMem, MemFields
  <2> QED BY <2>1, <2>2
<1>2. /\ m.fabrics \in Fabrics
      /\ m.next \in 0..MaxIndex /\ m.count \in Nat
  BY DEF IsMem
<1>3. IsMem(g)
  <2>1. g.fabrics \in Fabrics
    BY <1>1, <1>2 DEF Fabrics
  <2>2. g.next \in 0..MaxIndex /\ g.count \in Nat
    BY <1>1, <1>2, Constants
  <2> QED BY <1>1, <2>1, <2>2 DEF IsMem
<1>4. Live(g) = Live(m) \ {i}
  BY <1>1, <1>2 DEF Live, Fabrics
<1>5. ASSUME Tabled(m) PROVE Tabled(g)
  <2>1. g.next = 0 => Live(g) = Index
    BY <1>1, <1>2, <1>4, <1>5, Constants DEF Tabled
  <2>2. CASE i \in Live(m)
    <3>1. Cardinality(Live(m) \ {i}) = Cardinality(Live(m)) - 1
      BY <2>2, LiveIsFinite, FS_RemoveElement
    <3>2. Cardinality(Live(m)) # 0
      BY <2>2, LiveIsFinite, FS_EmptySet
    <3> QED BY <1>1, <1>4, <1>5, <2>1, <2>2, <3>1, <3>2 DEF Tabled
  <2>3. CASE i \notin Live(m)
    <3>1. Live(m) \ {i} = Live(m)
      BY <2>3
    <3> QED BY <1>1, <1>4, <1>5, <2>1, <2>3, <3>1 DEF Tabled
  <2> QED BY <2>2, <2>3
<1> QED BY <1>1, <1>3, <1>4, <1>5

LEMMA ClearIs ==
    ASSUME NEW m, IsMem(m), NEW g, g = Clear(m)
    PROVE  /\ IsMem(g) /\ Clean(g)
           /\ g.fabrics = m.fabrics /\ g.next = m.next /\ g.count = m.count
           /\ Live(g) = Live(m)
           /\ Tabled(m) => Tabled(g)
<1>1. /\ g = [f \in MemFields |-> g[f]]
      /\ g.shadow = NoShadow /\ g.flags = {} /\ g.pending = 0
      /\ g.key = NoKey /\ g.certs = NoCerts
      /\ g.fabrics = m.fabrics /\ g.next = m.next /\ g.count = m.count
  BY DEF Clear, IsMem, MemFields
<1>2. IsMem(g)
  <2>1. 0 \in 0..MaxIndex
    BY Constants
  <2> QED BY <1>1, <2>1 DEF IsMem
<1>3. Live(g) = Live(m)
  BY <1>1 DEF Live
<1> QED BY <1>1, <1>2, <1>3 DEF Clean, Bare, Tabled

LEMMA RevertCertsIs ==
    ASSUME NEW m, IsMem(m), "add" \in m.flags => m.pending \in Index,
           NEW g, g = RevertPendingOpCertsExceptRoot(m)
    PROVE  /\ IsMem(g)
           /\ g.shadow = NoShadow
           /\ g.flags = m.flags \ {"add", "update"}
           /\ g.pending = IF "root" \in m.flags THEN m.pending ELSE 0
           /\ "add" \notin m.flags =>
                 g.fabrics = m.fabrics /\ g.next = m.next /\ g.key = m.key
           /\ "add" \in m.flags =>
                 /\ g.fabrics = [m.fabrics EXCEPT ![m.pending] = Absent]
                 /\ g.next = IF m.pending \in Live(m) /\ m.next = 0 THEN m.pending ELSE m.next
                 /\ g.key = IF m.key.index = m.pending THEN NoKey ELSE m.key
           /\ Live(g) = IF "add" \in m.flags THEN Live(m) \ {m.pending} ELSE Live(m)
           /\ Tabled(m) => Tabled(g)
<1> DEFINE c == [m EXCEPT !.shadow = NoShadow,
                          !.certs = IF @.rcac THEN [@ EXCEPT !.noc = 0] ELSE NoCerts]
           e == IF "add" \in m.flags THEN DeleteEntry(c, m.pending) ELSE c
<1>1. /\ c = [f \in MemFields |-> c[f]]
      /\ c.shadow = NoShadow
      /\ c.certs = IF m.certs.rcac THEN [m.certs EXCEPT !.noc = 0] ELSE NoCerts
      /\ c.fabrics = m.fabrics /\ c.flags = m.flags /\ c.pending = m.pending
      /\ c.next = m.next /\ c.count = m.count /\ c.key = m.key
  BY DEF IsMem, MemFields
<1>2. c.certs \in Certs \cup {NoCerts}
  <2>1. m.certs \in Certs \cup {NoCerts}
    BY DEF IsMem
  <2>2. CASE m.certs \in Certs
    BY <1>1, <2>2 DEF Certs
  <2>3. CASE m.certs = NoCerts
    BY <1>1, <2>3 DEF NoCerts
  <2> QED BY <2>1, <2>2, <2>3
<1>3. g = [e EXCEPT !.flags = @ \ {"add", "update"},
                    !.pending = IF "root" \in m.flags THEN @ ELSE 0]
  BY DEF RevertPendingOpCertsExceptRoot
<1> HIDE DEF c
<1>4. IsMem(c) /\ Live(c) = Live(m) /\ (Tabled(m) => Tabled(c))
  BY <1>1, <1>2 DEF IsMem, Live, Tabled
<1>5. /\ IsMem(e) /\ e.shadow = NoShadow /\ e.flags = m.flags /\ e.pending = m.pending
      /\ "add" \notin m.flags =>
            e.fabrics = m.fabrics /\ e.next = m.next /\ e.key = m.key
      /\ "add" \in m.flags =>
            /\ e.fabrics = [m.fabrics EXCEPT ![m.pending] = Absent]
            /\ e.next = IF m.pending \in Live(m) /\ m.next = 0 THEN m.pending ELSE m.next
            /\ e.key = IF m.key.index = m.pending THEN NoKey ELSE m.key
      /\ Live(e) = IF "add" \in m.flags THEN Live(m) \ {m.pending} ELSE Live(m)
      /\ Tabled(m) => Tabled(e)
  <2>1. CASE "add" \in m.flags
    <3>1. m.pending \in Index /\ e = DeleteEntry(c, m.pending)
      BY <2>1
    <3> HIDE DEF e
    <3> QED BY <1>1, <1>4, <2>1, <3>1, DeleteEntryIs
  <2>2. CASE "add" \notin m.flags
    BY <1>1, <1>4, <2>2
  <2> QED BY <2>1, <2>2
<1> HIDE DEF e
<1>6. /\ g = [f \in MemFields |-> g[f]]
      /\ g.shadow = e.shadow /\ g.fabrics = e.fabrics /\ g.next = e.next
      /\ g.count = e.count /\ g.key = e.key /\ g.certs = e.certs
      /\ g.flags = e.flags \ {"add", "update"}
      /\ g.pending = IF "root" \in m.flags THEN e.pending ELSE 0
  <2>1. e = [f \in MemFields |-> e[f]]
    BY <1>5 DEF IsMem
  <2> QED BY <1>3, <2>1 DEF MemFields
<1>7. IsMem(g)
  <2>1. 0 \in 0..MaxIndex
    BY Constants
  <2> QED BY <1>5, <1>6, <2>1 DEF IsMem
<1>8. Live(g) = Live(e) /\ (Tabled(e) => Tabled(g))
  BY <1>6 DEF Live, Tabled
<1> QED BY <1>5, <1>6, <1>7, <1>8

LEMMA RevertIs ==
    ASSUME NEW m, IsMem(m), "add" \in m.flags => m.pending \in Index,
           NEW g, g = RevertPendingFabricData(m)
    PROVE  /\ IsMem(g) /\ Clean(g)
           /\ "add" \notin m.flags => g.fabrics = m.fabrics /\ g.next = m.next
           /\ "add" \in m.flags =>
                 /\ g.fabrics = [m.fabrics EXCEPT ![m.pending] = Absent]
                 /\ g.next = IF m.pending \in Live(m) /\ m.next = 0 THEN m.pending ELSE m.next
           /\ Live(g) = IF "add" \in m.flags THEN Live(m) \ {m.pending} ELSE Live(m)
           /\ Tabled(m) => Tabled(g)
<1>1. PICK r : r = RevertPendingOpCertsExceptRoot(m)
  OBVIOUS
<1>2. g = Clear(r)
  BY <1>1 DEF RevertPendingFabricData
<1>3. /\ IsMem(r)
      /\ "add" \notin m.flags => r.fabrics = m.fabrics /\ r.next = m.next
      /\ "add" \in m.flags =>
            /\ r.fabrics = [m.fabrics EXCEPT ![m.pending] = Absent]
            /\ r.next = IF m.pending \in Live(m) /\ m.next = 0 THEN m.pending ELSE m.next
      /\ Live(r) = IF "add" \in m.flags THEN Live(m) \ {m.pending} ELSE Live(m)
      /\ Tabled(m) => Tabled(r)
  BY <1>1, RevertCertsIs
<1>4. /\ IsMem(g) /\ Clean(g)
      /\ g.fabrics = r.fabrics /\ g.next = r.next
      /\ Live(g) = Live(r) /\ (Tabled(r) => Tabled(g))
  BY <1>2, <1>3, ClearIs
<1> QED BY <1>3, <1>4

LEMMA DeleteIs ==
    ASSUME NEW m, IsMem(m), ~({"add", "update"} \subseteq m.flags), NEW i \in Index,
           NEW g, g = Delete(m, i)
    PROVE  /\ IsMem(g)
           /\ g.fabrics = [m.fabrics EXCEPT ![i] = Absent]
           /\ g.next = IF i \in Live(m) /\ m.next = 0 THEN i ELSE m.next
           /\ Live(g) = Live(m) \ {i}
           /\ Tabled(m) => Tabled(g)
           /\ Shadowed(m, i) => Clean(g)
           /\ Clean(m) => Clean(g)
           /\ ~Shadowed(m, i) =>
                 /\ g.shadow = m.shadow /\ g.flags = m.flags /\ g.pending = m.pending
                 /\ g.key = IF m.key.index = i THEN NoKey ELSE m.key
                 /\ g.certs = IF m.certs.index = i THEN NoCerts ELSE m.certs
<1>1. NoKey.index # i /\ NoCerts.index # i
  BY Constants DEF NoKey, NoCerts
<1>2. CASE Shadowed(m, i)
  <2>1. "add" \notin m.flags
    BY <1>2 DEF Shadowed
  <2>2. PICK h : h = RevertPendingFabricData(m)
    OBVIOUS
  <2>3. g = DeleteEntry(h, i)
    BY <1>2, <2>2 DEF Delete
  <2>4. /\ IsMem(h) /\ Clean(h) /\ h.fabrics = m.fabrics /\ h.next = m.next
        /\ Live(h) = Live(m) /\ (Tabled(m) => Tabled(h))
    BY <2>1, <2>2, RevertIs
  <2>5. /\ IsMem(g) /\ g.fabrics = [h.fabrics EXCEPT ![i] = Absent]
        /\ g.shadow = h.shadow /\ g.flags = h.flags /\ g.pending = h.pending
        /\ g.next = IF i \in Live(h) /\ h.next = 0 THEN i ELSE h.next
        /\ g.key = IF h.key.index = i THEN NoKey ELSE h.key
        /\ g.certs = IF h.certs.index = i THEN NoCerts ELSE h.certs
        /\ Live(g) = Live(h) \ {i} /\ (Tabled(h) => Tabled(g))
    BY <2>3, <2>4, DeleteEntryIs
  <2>6. Clean(g)
    BY <1>1, <2>4, <2>5 DEF Clean, Bare
  <2> QED BY <1>2, <2>4, <2>5, <2>6
<1>3. CASE ~Shadowed(m, i)
  <2>1. g = DeleteEntry(m, i)
    BY <1>3 DEF Delete
  <2>2. /\ IsMem(g) /\ g.fabrics = [m.fabrics EXCEPT ![i] = Absent]
        /\ g.shadow = m.shadow /\ g.flags = m.flags /\ g.pending = m.pending
        /\ g.next = IF i \in Live(m) /\ m.next = 0 THEN i ELSE m.next
        /\ g.key = IF m.key.index = i THEN NoKey ELSE m.key
        /\ g.certs = IF m.certs.index = i THEN NoCerts ELSE m.certs
        /\ Live(g) = Live(m) \ {i} /\ (Tabled(m) => Tabled(g))
    BY <2>1, DeleteEntryIs
  <2>3. Clean(m) => Clean(g)
    BY <1>1, <2>2 DEF Clean, Bare
  <2> QED BY <1>3, <2>2, <2>3
<1> QED BY <1>2, <1>3

(* UpdateNextAvailableFabricIndex visits every index but the current one.  *)
LEMMA CyclicVisitsAll ==
    ASSUME NEW n \in Index
    PROVE  /\ \A k \in 1..(MaxIndex - 1) : Cyclic(n + k) \in Index \ {n}
           /\ \A j \in Index \ {n} : \E k \in 1..(MaxIndex - 1) : Cyclic(n + k) = j
<1>1. MaxIndex \in Nat \ {0} /\ n \in 1..MaxIndex /\ Index = 1..MaxIndex
  BY Constants
<1>2. ASSUME NEW a \in 0..(MaxIndex - 1)
      PROVE  a % MaxIndex = a /\ (a + MaxIndex) % MaxIndex = a
  BY <1>1
<1>3. ASSUME NEW k \in 1..(MaxIndex - 1) PROVE Cyclic(n + k) \in Index \ {n}
  <2>1. CASE n + k <= MaxIndex
    <3>1. (n + k) - 1 \in 0..(MaxIndex - 1)
      BY <1>1, <2>1
    <3>2. Cyclic(n + k) = n + k
      BY <1>1, <1>2, <3>1 DEF Cyclic
    <3> QED BY <1>1, <2>1, <3>2
  <2>2. CASE n + k > MaxIndex
    <3>1. /\ (n + k) - 1 - MaxIndex \in 0..(MaxIndex - 1)
          /\ (n + k) - 1 = ((n + k) - 1 - MaxIndex) + MaxIndex
      BY <1>1, <2>2
    <3>2. ((n + k) - 1) % MaxIndex = (n + k) - 1 - MaxIndex
      BY <1>2, <3>1
    <3>3. Cyclic(n + k) = (n + k) - MaxIndex
      BY <1>1, <3>2 DEF Cyclic
    <3> QED BY <1>1, <2>2, <3>3
  <2> QED BY <1>1, <2>1, <2>2
<1>4. ASSUME NEW j \in Index \ {n}
      PROVE  \E k \in 1..(MaxIndex - 1) : Cyclic(n + k) = j
  <2>1. CASE j > n
    <3>1. j - n \in 1..(MaxIndex - 1) /\ n + (j - n) = j /\ j - 1 \in 0..(MaxIndex - 1)
      BY <1>1, <1>4, <2>1
    <3>2. Cyclic(n + (j - n)) = j
      BY <1>1, <1>2, <3>1 DEF Cyclic
    <3> QED BY <3>1, <3>2
  <2>2. CASE j < n
    <3>1. /\ j - n + MaxIndex \in 1..(MaxIndex - 1)
          /\ (n + (j - n + MaxIndex)) - 1 = (j - 1) + MaxIndex
          /\ j - 1 \in 0..(MaxIndex - 1)
      BY <1>1, <1>4, <2>2
    <3>2. Cyclic(n + (j - n + MaxIndex)) = j
      <4>1. ((n + (j - n + MaxIndex)) - 1) % MaxIndex = j - 1
        BY <1>2, <3>1
      <4> QED BY <1>1, <1>4, <4>1 DEF Cyclic
    <3> QED BY <3>1, <3>2
  <2> QED BY <1>1, <1>4, <2>1, <2>2
<1> QED BY <1>3, <1>4

LEMMA SmallestIsIn ==
    ASSUME NEW S, S \subseteq Nat, S # {}
    PROVE  Min(S) \in S
<1> DEFINE Less == {ss \in Nat \X Nat : ss[1] < ss[2]}
<1>1. IsWellFoundedOn(Less, Nat)
  BY NatLessThanWellFounded DEF OpToRel
<1>2. \A a, b \in Nat : <<a, b>> \in Less <=> a < b
  OBVIOUS
<1> HIDE DEF Less
<1>3. PICK m \in S : \A y \in S : <<y, m>> \notin Less
  BY <1>1, WFMin
<1>4. ASSUME NEW y \in S PROVE m <= y
  <2>1. m \in Nat /\ y \in Nat
    OBVIOUS
  <2>2. ~(y < m)
    BY <1>2, <1>3, <2>1, Zenon
  <2> QED BY <2>1, <2>2
<1> QED BY <1>4 DEF Min

LEMMA UpdateNextIs ==
    ASSUME NEW m, IsMem(m), m.next \in Index,
           NEW g, g = UpdateNextAvailableFabricIndex(m)
    PROVE  /\ IsMem(g)
           /\ g.fabrics = m.fabrics /\ g.count = m.count
           /\ Live(g) = Live(m)
           /\ g.next # m.next /\ g.next \notin Live(m)
           /\ g.next = 0 => Index \ {m.next} \subseteq Live(m)
<1> DEFINE free == {k \in 1..(MaxIndex - 1) : Cyclic(m.next + k) \notin Live(m)}
<1>1. PICK n : n = IF free = {} THEN 0 ELSE Cyclic(m.next + Min(free))
  OBVIOUS
<1>2. g = [m EXCEPT !.next = n]
  BY <1>1 DEF UpdateNextAvailableFabricIndex
<1>3. /\ \A k \in 1..(MaxIndex - 1) : Cyclic(m.next + k) \in Index \ {m.next}
      /\ \A j \in Index \ {m.next} : \E k \in 1..(MaxIndex - 1) : Cyclic(m.next + k) = j
  BY CyclicVisitsAll
<1>4. /\ n \in 0..MaxIndex /\ n # m.next /\ n \notin Live(m)
      /\ n = 0 => Index \ {m.next} \subseteq Live(m)
  <2>1. CASE free = {}
    <3>1. n = 0
      BY <1>1, <2>1
    <3>2. \A k \in 1..(MaxIndex - 1) : Cyclic(m.next + k) \in Live(m)
      BY <2>1
    <3>3. Index \ {m.next} \subseteq Live(m)
      BY <1>3, <3>2
    <3>4. 0 \notin Live(m) /\ 0 # m.next /\ 0 \in 0..MaxIndex
      BY LiveIsFinite, Constants
    <3> QED BY <3>1, <3>3, <3>4
  <2>2. CASE free # {}
    <3>1. free \subseteq Nat
      OBVIOUS
    <3> PICK k : k = Min(free)
      OBVIOUS
    <3>2. k \in free
      BY <2>2, <3>1, SmallestIsIn
    <3>3. n = Cyclic(m.next + k) /\ k \in 1..(MaxIndex - 1) /\ n \notin Live(m)
      BY <1>1, <2>2, <3>2
    <3> HIDE DEF free
    <3>4. n \in Index \ {m.next}
      BY <1>3, <3>3
    <3> QED BY <3>3, <3>4, Constants
  <2> QED BY <2>1, <2>2
<1>5. /\ g = [f \in MemFields |-> g[f]]
      /\ g.shadow = m.shadow /\ g.flags = m.flags /\ g.pending = m.pending
      /\ g.key = m.key /\ g.certs = m.certs
      /\ g.fabrics = m.fabrics /\ g.next = n /\ g.count = m.count
  BY <1>2 DEF IsMem, MemFields
<1>6. IsMem(g) /\ Live(g) = Live(m)
  BY <1>4, <1>5 DEF IsMem, Live
<1> QED BY <1>4, <1>5, <1>6

LEMMA CountOfAll == Cardinality(Index) = MaxIndex /\ IsFiniteSet(Index)
<1>1. 1 \in Int /\ MaxIndex \in Int /\ ~(1 > MaxIndex) /\ MaxIndex - 1 + 1 = MaxIndex
  BY Constants
<1> QED BY <1>1, Constants, FS_Interval

(* Only at the start of the device is there an index still to be found.    *)
LEMMA EnsureIsIdle ==
    ASSUME NEW m, Tabled(m)
    PROVE  EnsureNextAvailableFabricIndexUpdated(m) = m
<1>1. CASE m.next # 0
  BY <1>1 DEF EnsureNextAvailableFabricIndexUpdated
<1>2. CASE m.next = 0
  <2>1. m.count >= MaxIndex
    BY <1>2, CountOfAll, Constants DEF Tabled
  <2> QED BY <2>1 DEF EnsureNextAvailableFabricIndexUpdated
<1> QED BY <1>1, <1>2

LEMMA EnsureIs ==
    ASSUME NEW m, IsMem(m), m.count = Cardinality(Live(m)), Clean(m),
           NEW g, g = EnsureNextAvailableFabricIndexUpdated(m)
    PROVE  /\ IsMem(g) /\ Clean(g) /\ Tabled(g)
           /\ g.fabrics = m.fabrics /\ Live(g) = Live(m)
           /\ g.next = m.next \/ g.next \notin Live(m)
<1>1. CASE m.next # 0 \/ m.count >= MaxIndex
  <2>1. g = m
    BY <1>1 DEF EnsureNextAvailableFabricIndexUpdated
  <2>2. ASSUME m.count >= MaxIndex PROVE Live(m) = Index
    <3>1. Live(m) \in SUBSET Index /\ Cardinality(Live(m)) \in Nat
      BY LiveIsFinite
    <3>2. Cardinality(Live(m)) <= Cardinality(Index)
          /\ (Cardinality(Index) = Cardinality(Live(m)) => Index = Live(m))
      BY <3>1, CountOfAll, FS_Subset
    <3> QED BY <2>2, <3>1, <3>2, CountOfAll, Constants
  <2> QED BY <1>1, <2>1, <2>2 DEF Tabled
<1>2. CASE ~(m.next # 0 \/ m.count >= MaxIndex)
  <2>1. PICK r : r = [m EXCEPT !.next = 1]
    OBVIOUS
  <2>2. g = IF 1 \in Live(m) THEN UpdateNextAvailableFabricIndex(r) ELSE r
    BY <1>2, <2>1 DEF EnsureNextAvailableFabricIndexUpdated
  <2>3. /\ r = [f \in MemFields |-> r[f]]
        /\ r.shadow = m.shadow /\ r.flags = m.flags /\ r.pending = m.pending
        /\ r.key = m.key /\ r.certs = m.certs
        /\ r.fabrics = m.fabrics /\ r.next = 1 /\ r.count = m.count
    BY <2>1 DEF IsMem, MemFields
  <2>4. 1 \in Index /\ 1 \in 0..MaxIndex
    BY Constants
  <2>5. IsMem(r) /\ Live(r) = Live(m) /\ Clean(r)
    BY <2>3, <2>4 DEF IsMem, Live, Clean, Bare
  <2>6. CASE 1 \in Live(m)
    <3>1. g = UpdateNextAvailableFabricIndex(r)
      BY <2>2, <2>6
    <3>2. /\ IsMem(g) /\ g.fabrics = r.fabrics /\ g.count = r.count /\ Live(g) = Live(r)
          /\ g.next \notin Live(r) /\ (g.next = 0 => Index \ {1} \subseteq Live(r))
      BY <2>3, <2>4, <2>5, <3>1, UpdateNextIs
    <3>3. Clean(g)
      <4>1. /\ g.shadow = r.shadow /\ g.flags = r.flags /\ g.pending = r.pending
            /\ g.key = r.key /\ g.certs = r.certs
        BY <2>3, <3>1 DEF UpdateNextAvailableFabricIndex, MemFields
      <4> QED BY <2>5, <4>1 DEF Clean, Bare
    <3>4. g.next = 0 => Live(m) = Index
      BY <2>5, <2>6, <3>2, LiveIsFinite
    <3> QED BY <2>3, <2>5, <3>2, <3>3, <3>4 DEF Tabled
  <2>7. CASE 1 \notin Live(m)
    BY <2>2, <2>3, <2>5, <2>7 DEF Tabled
  <2> QED BY <2>6, <2>7
<1> QED BY <1>1, <1>2

LEMMA CommittedAdd ==
    ASSUME NEW m, IsMem(m), Tabled(m), "add" \in m.flags, "update" \notin m.flags,
           m.next \in Live(m), NEW g, g = Committed(m)
    PROVE  /\ IsMem(g) /\ Clean(g) /\ Tabled(g)
           /\ g.fabrics = m.fabrics /\ Live(g) = Live(m)
           /\ g.next # m.next /\ g.next \notin Live(m)
<1>1. PICK u : u = UpdateNextAvailableFabricIndex(m)
  OBVIOUS
<1>2. g = Clear(u)
  BY <1>1 DEF Committed
<1>3. m.next \in Index
  BY LiveIsFinite
<1>4. /\ IsMem(u) /\ u.fabrics = m.fabrics /\ u.count = m.count /\ Live(u) = Live(m)
      /\ u.next # m.next /\ u.next \notin Live(m)
      /\ u.next = 0 => Index \ {m.next} \subseteq Live(m)
  BY <1>1, <1>3, UpdateNextIs
<1>5. Tabled(u)
  BY <1>4, LiveIsFinite DEF Tabled
<1>6. /\ IsMem(g) /\ Clean(g) /\ g.fabrics = u.fabrics /\ g.next = u.next
      /\ Live(g) = Live(u) /\ Tabled(g)
  BY <1>2, <1>4, <1>5, ClearIs
<1> QED BY <1>4, <1>6

LEMMA CommittedUpdate ==
    ASSUME NEW m, IsMem(m), Tabled(m), "update" \in m.flags, "add" \notin m.flags,
           m.pending \in Live(m), Shadowed(m, m.pending), NEW g, g = Committed(m)
    PROVE  /\ IsMem(g) /\ Clean(g) /\ Tabled(g)
           /\ g.fabrics = [m.fabrics EXCEPT ![m.pending] =
                             [ver |-> m.shadow.ver, label |-> m.shadow.label]]
           /\ m.shadow \in Shadow
           /\ Live(g) = Live(m) /\ g.next = m.next
<1> DEFINE new == [ver |-> m.shadow.ver, label |-> m.shadow.label]
<1>1. PICK e : e = [m EXCEPT !.fabrics[m.pending] = new]
  OBVIOUS
<1>2. g = Clear(e)
  BY <1>1 DEF Committed, FindFabric
<1>3. m.pending \in Index /\ m.fabrics \in Fabrics
  BY LiveIsFinite DEF IsMem
<1>4. m.shadow \in Shadow /\ new \in Entry
  <2>1. m.shadow \in Shadow \cup {NoShadow} /\ m.shadow.index = m.pending
    BY DEF IsMem, Shadowed
  <2>2. m.shadow \in Shadow
    BY <1>3, <2>1, Constants DEF NoShadow
  <2> QED BY <2>2 DEF Shadow, Entry
<1>5. new # Absent
  BY <1>4, Constants DEF Entry, Absent
<1> HIDE DEF new
<1>6. /\ e = [f \in MemFields |-> e[f]]
      /\ e.shadow = m.shadow /\ e.flags = m.flags /\ e.pending = m.pending
      /\ e.key = m.key /\ e.certs = m.certs
      /\ e.fabrics = [m.fabrics EXCEPT ![m.pending] = new]
      /\ e.next = m.next /\ e.count = m.count
  BY <1>1 DEF IsMem, MemFields
<1>7. e.fabrics \in Fabrics
  BY <1>3, <1>4, <1>6 DEF Fabrics
<1>8. IsMem(e)
  BY <1>6, <1>7 DEF IsMem
<1>9. Live(e) = Live(m)
  BY <1>3, <1>5, <1>6 DEF Live, Fabrics
<1>10. Tabled(e)
  BY <1>6, <1>9 DEF Tabled
<1>11. /\ IsMem(g) /\ Clean(g) /\ g.fabrics = e.fabrics /\ g.next = e.next
       /\ Live(g) = Live(e) /\ Tabled(g)
  BY <1>2, <1>8, <1>10, ClearIs
<1> QED BY <1>4, <1>6, <1>9, <1>11 DEF new

LEMMA LoadedMemIs ==
    ASSUME stored \in [Index -> StoredRecord],
           indexInfo \in [next : 0..MaxIndex, list : SUBSET Index],
           NEW g, g = LoadedMem
    PROVE  /\ IsMem(g) /\ Clean(g) /\ Tabled(g)
           /\ Live(g) = {i \in Index : Loadable(i)}
           /\ \A i \in Index : Loadable(i) => g.fabrics[i].ver = stored[i].noc
           /\ g.next = indexInfo.next \/ g.next \notin Live(g)
<1> DEFINE loaded == {i \in Index : Loadable(i)}
           fabrics == [i \in Index |-> IF i \in loaded
                                         THEN [ver |-> stored[i].noc, label |-> stored[i].meta]
                                         ELSE Absent]
           m == [fabrics |-> fabrics,
                 shadow |-> NoShadow, flags |-> {}, pending |-> 0, next |-> indexInfo.next,
                 count |-> Cardinality(loaded), key |-> NoKey, certs |-> NoCerts]
<1>1. g = EnsureNextAvailableFabricIndexUpdated(m)
  BY DEF LoadedMem
<1>2. ASSUME NEW i \in loaded
      PROVE  /\ [ver |-> stored[i].noc, label |-> stored[i].meta] \in Entry
             /\ [ver |-> stored[i].noc, label |-> stored[i].meta] # Absent
  <2>1. /\ stored[i].noc \in Versions \cup {0} /\ stored[i].meta \in Labels \cup {0}
        /\ stored[i].noc # 0 /\ stored[i].meta # 0
    BY <1>2 DEF StoredRecord, Loadable
  <2> QED BY <2>1 DEF Entry, Absent
<1>3. fabrics \in Fabrics
  BY <1>2 DEF Fabrics
<1>4. {i \in Index : fabrics[i] # Absent} = loaded
  BY <1>2
<1>5. /\ m = [f \in MemFields |-> m[f]]
      /\ m.shadow = NoShadow /\ m.flags = {} /\ m.pending = 0 /\ m.key = NoKey
      /\ m.certs = NoCerts /\ m.fabrics = fabrics /\ m.next = indexInfo.next
      /\ m.count = Cardinality(loaded)
  BY DEF MemFields
<1>6. \A i \in loaded : fabrics[i].ver = stored[i].noc
  OBVIOUS
<1> HIDE DEF m, fabrics, loaded
<1>7. Live(m) = loaded
  BY <1>4, <1>5 DEF Live
<1>8. Cardinality(loaded) \in Nat
  BY <1>7, LiveIsFinite
<1>9. IsMem(m) /\ Clean(m)
  <2>1. 0 \in 0..MaxIndex /\ indexInfo.next \in 0..MaxIndex
    BY Constants
  <2> QED BY <1>3, <1>5, <1>8, <2>1 DEF IsMem, Clean, Bare
<1>10. /\ IsMem(g) /\ Clean(g) /\ Tabled(g)
       /\ g.fabrics = m.fabrics /\ Live(g) = Live(m)
       /\ g.next = m.next \/ g.next \notin Live(m)
  BY <1>1, <1>5, <1>7, <1>9, EnsureIs
<1>11. \A i \in Index : Loadable(i) => i \in loaded
  BY DEF loaded
<1>12. Live(g) = {i \in Index : Loadable(i)}
  BY <1>7, <1>10 DEF loaded
<1> QED BY <1>5, <1>6, <1>7, <1>10, <1>11, <1>12

-----------------------------------------------------------------------------
(* The storage operations of Delete and of a commit.                       *)

IndexOp(m) == [part |-> "index", index |-> m.next, value |-> 1, list |-> Live(m)]

(* A sequence in order, whose operations come in the given stages.         *)
Within(s, a, b) ==
    s \in Seq(Op) /\ Ordered(s) /\ \A o \in Ops(s) : Stage(o) \in a..b

LEMMA StageOfPut ==
    ASSUME NEW p, NEW i, NEW v
    PROVE  /\ Put(p, i, v).part = p /\ Put(p, i, v).index = i /\ Put(p, i, v).value = v
           /\ p = "marker" => Stage(Put(p, i, v)) = IF v = 0 THEN 8 ELSE 1
           /\ p = "certs" => Stage(Put(p, i, v)) = 3
           /\ p = "finish" => Stage(Put(p, i, v)) = 7
           /\ p \in Parts /\ v # 0 => Stage(Put(p, i, v)) = 2
           /\ p \in Parts /\ v = 0 => Stage(Put(p, i, v)) = IF p = "meta" THEN 4 ELSE 5
BY Constants DEF Put, Stage

LEMMA PutIsOp ==
    ASSUME NEW p, p \in Parts \cup {"marker", "certs", "finish"}, NEW i \in Index, NEW v \in Nat
    PROVE  Put(p, i, v) \in Op
<1>1. i \in 0..MaxIndex
  BY Constants
<1> QED BY <1>1 DEF Put, Op

LEMMA IndexOpIsOp ==
    ASSUME NEW m, IsMem(m)
    PROVE  IndexOp(m) \in Op /\ StoreFabricIndexInfo(m) = <<IndexOp(m)>>
           /\ IndexOp(m).part = "index" /\ Stage(IndexOp(m)) = 6
<1>1. m.next \in 0..MaxIndex /\ Live(m) \in SUBSET Index
  BY LiveIsFinite DEF IsMem
<1> QED BY <1>1 DEF IndexOp, Op, StoreFabricIndexInfo, Stage

LEMMA WithinNone ==
    ASSUME NEW a, NEW b
    PROVE  Within(<<>>, a, b)
BY OpsOfEmpty DEF Within

LEMMA WithinOne ==
    ASSUME NEW o \in Op, NEW a \in Nat, NEW b \in Nat, Stage(o) \in a..b
    PROVE  Within(<<o>>, a, b) /\ Ops(<<o>>) = {o}
BY OpsOfOne DEF Within

LEMMA WithinJoined ==
    ASSUME NEW s, NEW t, NEW a \in Nat, NEW b \in Nat, NEW c \in Nat, NEW d \in Nat,
           Within(s, a, b), Within(t, c, d), a <= b, c <= d, b < c \/ (b = c /\ b \in {2, 5})
    PROVE  /\ Within(s \o t, a, d)
           /\ Ops(s \o t) = Ops(s) \cup Ops(t)
<1>1. s \in Seq(Op) /\ t \in Seq(Op) /\ Ordered(s) /\ Ordered(t)
  BY DEF Within
<1>2. \A o \in Ops(s) : Stage(o) \in a..b
  BY DEF Within
<1>3. \A o \in Ops(t) : Stage(o) \in c..d
  BY DEF Within
<1>4. \A x \in Ops(s), y \in Ops(t) : Before(x, y)
  BY <1>2, <1>3 DEF Before
<1>5. \A o \in Ops(s) \cup Ops(t) : Stage(o) \in a..d
  BY <1>2, <1>3
<1> QED BY <1>1, <1>4, <1>5, OpsOfConcat DEF Within

LEMMA EraseIs ==
    ASSUME NEW p \in Parts, NEW i \in Index, NEW k, k = IF p = "meta" THEN 4 ELSE 5
    PROVE  /\ Within(Erase(p, i), k, k)
           /\ Ops(Erase(p, i)) = IF stored[i][p] = 0 THEN {} ELSE {Put(p, i, 0)}
<1>1. CASE stored[i][p] = 0
  BY <1>1, WithinNone, OpsOfEmpty DEF Erase
<1>2. CASE stored[i][p] # 0
  <2>1. Put(p, i, 0) \in Op /\ Stage(Put(p, i, 0)) = k
    BY PutIsOp, StageOfPut
  <2>2. k \in Nat /\ k \in k..k
    OBVIOUS
  <2>3. Erase(p, i) = <<Put(p, i, 0)>>
    BY <1>2 DEF Erase
  <2> QED BY <1>2, <2>1, <2>2, <2>3, WithinOne
<1> QED BY <1>1, <1>2

Erasures(ps, i) == {Put(p, i, 0) : p \in {q \in ps : stored[i][q] # 0}}

LEMMA EraseCertsIs ==
    ASSUME NEW i \in Index
    PROVE  /\ Within(EraseCerts(i), 5, 5)
           /\ Ops(EraseCerts(i)) = Erasures({"noc", "icac", "rcac"}, i)
<1>1. \A p \in {"noc", "icac", "rcac"} :
         /\ Within(Erase(p, i), 5, 5)
         /\ Ops(Erase(p, i)) = IF stored[i][p] = 0 THEN {} ELSE {Put(p, i, 0)}
  BY EraseIs, Constants
<1> DEFINE s == Erase("noc", i) \o Erase("icac", i)
<1>2. Within(s, 5, 5) /\ Ops(s) = Ops(Erase("noc", i)) \cup Ops(Erase("icac", i))
  BY <1>1, WithinJoined
<1> HIDE DEF s
<1>3. Within(s \o Erase("rcac", i), 5, 5) /\ Ops(s \o Erase("rcac", i)) = Ops(s) \cup Ops(Erase("rcac", i))
  BY <1>1, <1>2, WithinJoined
<1>4. EraseCerts(i) = s \o Erase("rcac", i)
  BY DEF EraseCerts, s
<1>5. Ops(Erase("noc", i)) \cup Ops(Erase("icac", i)) \cup Ops(Erase("rcac", i)) = Erasures({"noc", "icac", "rcac"}, i)
  BY <1>1 DEF Erasures
<1> QED BY <1>2, <1>3, <1>4, <1>5

LEMMA DeletePartsIs ==
    ASSUME NEW i \in Index
    PROVE  Within(DeleteParts(i), 4, 5) /\ Ops(DeleteParts(i)) = Erasures(Parts, i)
<1>1. /\ Within(Erase("meta", i), 4, 4) /\ Within(Erase("key", i), 5, 5)
      /\ Ops(Erase("meta", i)) = IF stored[i]["meta"] = 0 THEN {} ELSE {Put("meta", i, 0)}
      /\ Ops(Erase("key", i)) = IF stored[i]["key"] = 0 THEN {} ELSE {Put("key", i, 0)}
  BY EraseIs, Constants
<1> DEFINE s == Erase("meta", i) \o Erase("key", i)
<1>2. Within(s, 4, 5) /\ Ops(s) = Ops(Erase("meta", i)) \cup Ops(Erase("key", i))
  BY <1>1, WithinJoined
<1> HIDE DEF s
<1>3. /\ Within(s \o EraseCerts(i), 4, 5)
      /\ Ops(s \o EraseCerts(i)) = Ops(s) \cup Erasures({"noc", "icac", "rcac"}, i)
  BY <1>2, EraseCertsIs, WithinJoined
<1>4. DeleteParts(i) = s \o EraseCerts(i)
  BY DEF DeleteParts, s
<1>5. Ops(s) \cup Erasures({"noc", "icac", "rcac"}, i) = Erasures(Parts, i)
  BY <1>1, <1>2, Constants DEF Erasures
<1> QED BY <1>3, <1>4, <1>5

LEMMA DeleteOpsAre ==
    ASSUME NEW m, NEW i \in Index, NEW g, g = Delete(m, i), IsMem(g), NEW s, s = DeleteOps(m, i)
    PROVE  /\ Within(s, 4, 6)
           /\ Ops(s) = Erasures(Parts, i) \cup (IF i \in Live(m) THEN {IndexOp(g)} ELSE {})
<1>1. Within(DeleteParts(i), 4, 5) /\ Ops(DeleteParts(i)) = Erasures(Parts, i)
  BY DeletePartsIs
<1> PICK r : r = IF i \in Live(m) THEN StoreFabricIndexInfo(g) ELSE <<>>
  OBVIOUS
<1>2. Within(r, 6, 6) /\ Ops(r) = IF i \in Live(m) THEN {IndexOp(g)} ELSE {}
  <2>1. CASE i \in Live(m)
    <3>1. r = <<IndexOp(g)>> /\ IndexOp(g) \in Op /\ Stage(IndexOp(g)) = 6
      BY <2>1, IndexOpIsOp
    <3>2. 6 \in Nat /\ 6 \in 6..6
      OBVIOUS
    <3> QED BY <2>1, <3>1, <3>2, WithinOne
  <2>2. CASE i \notin Live(m)
    BY <2>2, WithinNone, OpsOfEmpty
  <2> QED BY <2>1, <2>2
<1>3. s = DeleteParts(i) \o r
  BY DEF DeleteOps
<1> QED BY <1>1, <1>2, <1>3, WithinJoined

LEMMA WithinTwo ==
    ASSUME NEW x \in Op, NEW y \in Op, NEW a \in 1..2, Stage(x) = a, Stage(y) = 2
    PROVE  Within(<<x, y>>, a, 2) /\ Ops(<<x, y>>) = {x, y}
<1>1. <<x, y>> \in Seq(Op) /\ DOMAIN <<x, y>> = 1..2 /\ <<x, y>>[1] = x /\ <<x, y>>[2] = y
  OBVIOUS
<1>2. PICK s : s = <<x, y>>
  OBVIOUS
<1>3. s \in Seq(Op) /\ DOMAIN s = 1..2 /\ s[1] = x /\ s[2] = y
  BY <1>1, <1>2
<1>4. Ops(s) = {x, y}
  BY <1>3 DEF Ops
<1>5. Before(x, y)
  BY DEF Before
<1>6. Ordered(s)
  BY <1>3, <1>5 DEF Ordered
<1>7. \A o \in Ops(s) : Stage(o) \in a..2
  BY <1>4
<1> QED BY <1>2, <1>3, <1>4, <1>6, <1>7 DEF Within

LEMMA CommitOpsAre ==
    ASSUME NEW m, NEW i \in Index, i = m.pending, NEW g, g = Committed(m), IsMem(g),
           NEW l \in Labels, l = g.fabrics[i].label, NEW v \in Versions, v = m.certs.noc,
           m.key = NoKey \/ m.key.ver \in Versions, NEW s, s = CommitOps(m)
    PROVE  /\ Within(s, 1, 7)
           /\ Ops(s) = {Put("marker", i, 1), Put("meta", i, l), Put("noc", i, v), Put("icac", i, v),
                        Put("certs", i, IF "add" \in m.flags THEN 1 ELSE 0), Put("finish", i, 0)}
                       \cup (IF m.key = NoKey THEN {} ELSE {Put("key", i, m.key.ver)})
                       \cup (IF m.certs.rcac THEN {Put("rcac", i, 1)} ELSE {})
                       \cup (IF "add" \in m.flags THEN {IndexOp(g)} ELSE {})
<1>1. PICK c \in {0, 1} : c = IF "add" \in m.flags THEN 1 ELSE 0
  OBVIOUS
<1> DEFINE p1 == <<Put("marker", i, 1), Put("meta", i, l)>>
           p2 == IF m.key # NoKey THEN <<Put("key", i, m.key.ver)>> ELSE <<>>
           p3 == <<Put("noc", i, v), Put("icac", i, v)>>
           p4 == IF m.certs.rcac THEN <<Put("rcac", i, 1)>> ELSE <<>>
           p5 == <<Put("certs", i, c)>>
           p6 == IF "add" \in m.flags THEN StoreFabricIndexInfo(g) ELSE <<>>
           p7 == <<Put("finish", i, 0)>>
<1>2. s = (((((p1 \o p2) \o p3) \o p4) \o p5) \o p6) \o p7
  BY <1>1 DEF CommitOps
<1>3. /\ 0 \notin Versions /\ 0 \notin Labels /\ Versions \subseteq Nat /\ Labels \subseteq Nat
      /\ Parts = {"meta", "key", "noc", "icac", "rcac"}
  BY Constants
<1>4. Within(p1, 1, 2) /\ Ops(p1) = {Put("marker", i, 1), Put("meta", i, l)}
  <2>1. /\ Put("marker", i, 1) \in Op /\ Put("meta", i, l) \in Op
        /\ Stage(Put("marker", i, 1)) = 1 /\ Stage(Put("meta", i, l)) = 2
    BY <1>3, PutIsOp, StageOfPut
  <2>2. 1 \in 1..2
    OBVIOUS
  <2> QED BY <2>1, <2>2, WithinTwo
<1>5. Within(p2, 2, 2) /\ Ops(p2) = IF m.key = NoKey THEN {} ELSE {Put("key", i, m.key.ver)}
  <2>1. CASE m.key = NoKey
    BY <2>1, WithinNone, OpsOfEmpty
  <2>2. CASE m.key # NoKey
    <3>1. Put("key", i, m.key.ver) \in Op /\ Stage(Put("key", i, m.key.ver)) = 2
      BY <1>3, <2>2, PutIsOp, StageOfPut
    <3>2. 2 \in Nat /\ 2 \in 2..2 /\ p2 = <<Put("key", i, m.key.ver)>>
      BY <2>2
    <3> QED BY <2>2, <3>1, <3>2, WithinOne
  <2> QED BY <2>1, <2>2
<1>6. Within(p3, 2, 2) /\ Ops(p3) = {Put("noc", i, v), Put("icac", i, v)}
  <2>1. /\ Put("noc", i, v) \in Op /\ Put("icac", i, v) \in Op
        /\ Stage(Put("noc", i, v)) = 2 /\ Stage(Put("icac", i, v)) = 2
    BY <1>3, PutIsOp, StageOfPut
  <2>2. 2 \in 1..2
    OBVIOUS
  <2> QED BY <2>1, <2>2, WithinTwo
<1>7. Within(p4, 2, 2) /\ Ops(p4) = IF m.certs.rcac THEN {Put("rcac", i, 1)} ELSE {}
  <2>1. CASE ~m.certs.rcac
    BY <2>1, WithinNone, OpsOfEmpty
  <2>2. CASE m.certs.rcac
    <3>1. Put("rcac", i, 1) \in Op /\ Stage(Put("rcac", i, 1)) = 2
      BY <1>3, PutIsOp, StageOfPut
    <3>2. 2 \in Nat /\ 2 \in 2..2 /\ p4 = <<Put("rcac", i, 1)>>
      BY <2>2
    <3> QED BY <2>2, <3>1, <3>2, WithinOne
  <2> QED BY <2>1, <2>2
<1>8. Within(p5, 3, 3) /\ Ops(p5) = {Put("certs", i, c)}
  <2>1. Put("certs", i, c) \in Op /\ Stage(Put("certs", i, c)) = 3
    BY <1>3, PutIsOp, StageOfPut
  <2>2. 3 \in Nat /\ 3 \in 3..3
    OBVIOUS
  <2> QED BY <2>1, <2>2, WithinOne
<1>9. Within(p6, 6, 6) /\ Ops(p6) = IF "add" \in m.flags THEN {IndexOp(g)} ELSE {}
  <2>1. CASE "add" \in m.flags
    <3>1. p6 = <<IndexOp(g)>> /\ IndexOp(g) \in Op /\ Stage(IndexOp(g)) = 6
      BY <2>1, IndexOpIsOp
    <3>2. 6 \in Nat /\ 6 \in 6..6
      OBVIOUS
    <3> QED BY <2>1, <3>1, <3>2, WithinOne
  <2>2. CASE "add" \notin m.flags
    BY <2>2, WithinNone, OpsOfEmpty
  <2> QED BY <2>1, <2>2
<1>10. Within(p7, 7, 7) /\ Ops(p7) = {Put("finish", i, 0)}
  <2>1. Put("finish", i, 0) \in Op /\ Stage(Put("finish", i, 0)) = 7
    BY <1>3, PutIsOp, StageOfPut
  <2>2. 7 \in Nat /\ 7 \in 7..7
    OBVIOUS
  <2> QED BY <2>1, <2>2, WithinOne
<1> HIDE DEF p1, p2, p3, p4, p5, p6, p7
<1> PICK s2 : s2 = p1 \o p2
  OBVIOUS
<1>11. Within(s2, 1, 2) /\ Ops(s2) = Ops(p1) \cup Ops(p2)
  <2>1. 1 \in Nat /\ 2 \in Nat /\ 1 <= 2 /\ 2 <= 2 /\ 2 = 2 /\ 2 \in {2, 5}
    OBVIOUS
  <2> QED BY <1>4, <1>5, <2>1, WithinJoined
<1> PICK s3 : s3 = s2 \o p3
  OBVIOUS
<1>12. Within(s3, 1, 2) /\ Ops(s3) = Ops(s2) \cup Ops(p3)
  <2>1. 1 \in Nat /\ 2 \in Nat /\ 1 <= 2 /\ 2 <= 2 /\ 2 = 2 /\ 2 \in {2, 5}
    OBVIOUS
  <2> QED BY <1>6, <1>11, <2>1, WithinJoined
<1> PICK s4 : s4 = s3 \o p4
  OBVIOUS
<1>13. Within(s4, 1, 2) /\ Ops(s4) = Ops(s3) \cup Ops(p4)
  BY <1>7, <1>12, WithinJoined
<1> PICK s5 : s5 = s4 \o p5
  OBVIOUS
<1>14. Within(s5, 1, 3) /\ Ops(s5) = Ops(s4) \cup Ops(p5)
  BY <1>8, <1>13, WithinJoined
<1> PICK s6 : s6 = s5 \o p6
  OBVIOUS
<1>15. Within(s6, 1, 6) /\ Ops(s6) = Ops(s5) \cup Ops(p6)
  BY <1>9, <1>14, WithinJoined
<1>16. Within(s, 1, 7) /\ Ops(s) = Ops(s6) \cup Ops(p7)
  <2>1. s = s6 \o p7
    BY <1>2
  <2> QED BY <1>10, <1>15, <2>1, WithinJoined
<1>17. Ops(s) = Ops(p1) \cup Ops(p2) \cup Ops(p3) \cup Ops(p4) \cup Ops(p5) \cup Ops(p6) \cup Ops(p7)
  BY <1>11, <1>12, <1>13, <1>14, <1>15, <1>16
<1> QED BY <1>1, <1>4, <1>5, <1>6, <1>7, <1>8, <1>9, <1>10, <1>16, <1>17

-----------------------------------------------------------------------------
(* Steps between storage operations.                                       *)

LEMMA WhenIdle ==
    ASSUME IInv, Idle
    PROVE  failed = {} /\ \A j \in Index : Settled(j)
BY DEF IInv, Storage, Work

LEMMA SameStorage ==
    ASSUME UNCHANGED <<stored, indexInfo, marker, tainted>>, NEW j
    PROVE  /\ Foul(j)' <=> Foul(j)
           /\ Installed(j)' <=> Installed(j)
           /\ StoreOK(j)' <=> StoreOK(j)
           /\ Uncommitted(j)' <=> Uncommitted(j)
BY DEF Foul, Installed, StoreOK, Uncommitted

(* A fabric is not pending any more only when it is gone, and what is      *)
(* stored keeps its entry.                                                 *)
KeepsAt(m, g, j) ==
    /\ g.fabrics[j].ver = m.fabrics[j].ver \/ Foul(j) \/ stored[j] = NothingStored
    /\ j \in Live(g) => \/ "add" \in g.flags /\ g.pending = j
                        \/ j \in Live(m) /\ ~("add" \in m.flags /\ m.pending = j)

Keeps(m, g) == \A j \in Index : KeepsAt(m, g, j)

LEMMA SettledStays ==
    ASSUME NEW j \in Index, Settled(j), KeepsAt(mem, mem', j),
           UNCHANGED <<stored, indexInfo, marker, tainted>>
    PROVE  Settled(j)'
<1>1. marker' = j => stored'[j] = NothingStored
  BY DEF Settled
<1>2. \/ Foul(j)' \/ stored'[j] = NothingStored
      \/ Installed(j)' /\ mem'.fabrics[j].ver = stored'[j].noc
  BY SameStorage DEF Settled, KeepsAt
<1>3. j \in Live(mem') => AddPending(j)' \/ stored'[j].noc # 0
  BY DEF Settled, KeepsAt, AddPending
<1> QED BY <1>1, <1>2, <1>3 DEF Settled

LEMMA QuietStep ==
    ASSUME IInv, Idle, todo' = <<>>, Keeps(mem, mem'),
           UNCHANGED <<stored, indexInfo, marker, tainted, failed>>
    PROVE  TodoOK' /\ Storage'
<1>1. failed' = {} /\ \A j \in Index : Settled(j)'
  BY WhenIdle, SettledStays DEF Keeps
<1>2. Ops(todo') = {} /\ Ordered(todo') /\ todo' \in Seq(Op)
  BY OpsOfEmpty
<1> QED BY <1>1, <1>2 DEF TodoOK, Storage, Idle

LEMMA KeepsItself == ASSUME NEW m PROVE Keeps(m, m)
BY DEF Keeps, KeepsAt

(* Steps that change neither the members nor the storage.                  *)
LEMMA SameTable ==
    ASSUME IInv, UNCHANGED <<mem, stored, indexInfo, marker, tainted>>
    PROVE  TableInv' /\ PendingInv'
<1>1. TableInv /\ PendingInv
  BY DEF IInv
<1>2. TableInv'
  BY <1>1, SameStorage DEF TableInv, AddPending
<1> QED BY <1>1, <1>2 DEF PendingInv

LEMMA ArmFailSafeInv ==
    ASSUME IInv, NEW a \in 0..MaxIndex, ArmFailSafe(a)
    PROVE  IInv'
<1>1. /\ Idle /\ ~busy /\ (armed => fsIndex = a) /\ armed' = TRUE /\ fsIndex' = a
      /\ UNCHANGED <<busy, invoked, events>>
      /\ UNCHANGED <<mem, stored, indexInfo, marker, todo, failed, tainted>>
  BY DEF ArmFailSafe, MayArm, Arm
<1> USE <1>1
<1>2. TypeInv /\ QueueInv /\ CleanupInv /\ ReadyInv
  BY DEF IInv
<1>3. TypeInv'
  BY <1>2 DEF TypeInv
<1>4. TodoOK' /\ Storage'
  BY QuietStep, KeepsItself DEF Idle
<1>5. TableInv' /\ PendingInv'
  BY SameTable
<1>6. QueueInv'
  BY <1>2 DEF QueueInv
<1>7. ~armed => Clean(mem) /\ invoked = {}
  BY <1>2 DEF QueueInv, CleanupInv
<1>8. \A n \in DOMAIN events : Uncommitted(events[n].fabric)' <=> Uncommitted(events[n].fabric)
  BY SameStorage
<1>9. CleanupInv'
  <2>1. CASE armed
    BY <1>2, <1>8, <2>1, SameStorage DEF CleanupInv
  <2>2. CASE ~armed
    BY <1>2, <1>7, <1>8, <2>2 DEF CleanupInv, Clean
  <2> QED BY <2>1, <2>2
<1>10. ReadyInv'
  <2>1. CASE armed
    <3>1. (ReadyToAdd(fsIndex) => ReadyToAdd(fsIndex)') /\ (ReadyToUpdate(fsIndex) => ReadyToUpdate(fsIndex)')
      BY <2>1, SameStorage DEF ReadyToAdd, ReadyToUpdate
    <3>2. KeyInv => KeyInv'
      BY <2>1 DEF KeyInv
    <3>3. (Left("finish"))' <=> Left("finish")
      BY DEF Left
    <3> QED BY <1>2, <2>1, <3>1, <3>2, <3>3 DEF ReadyInv, NocCommandHasBeenInvoked
  <2>2. CASE ~armed
    BY <1>7, <2>2 DEF ReadyInv, Clean
  <2> QED BY <2>1, <2>2
<1> QED BY <1>3, <1>4, <1>5, <1>6, <1>9, <1>10 DEF IInv

LEMMA ExpireFailSafeInv ==
    ASSUME IInv, ExpireFailSafe
    PROVE  IInv'
<1> DEFINE add == "addNoc" \in invoked
<1>1. /\ Idle /\ armed /\ armed' = FALSE /\ busy' = TRUE
      /\ events' = events \o <<Expired(fsIndex, add), Disarm>>
      /\ UNCHANGED <<fsIndex, invoked>>
      /\ UNCHANGED <<mem, stored, indexInfo, marker, todo, failed, tainted>>
  BY DEF ExpireFailSafe, FailSafeTimerExpired, ScheduleFailSafeCleanup
<1>2. TypeInv /\ QueueInv /\ CleanupInv
  BY DEF IInv
<1>3. fsIndex \in 0..MaxIndex /\ events \in Seq(Event) /\ add \in BOOLEAN /\ 0 \in 0..MaxIndex
  BY <1>2, Constants DEF TypeInv
<1> HIDE DEF add
<1>4. Expired(fsIndex, add) \in Event /\ Disarm \in Event
  BY <1>3 DEF Event, Expired, Disarm
<1> PICK n \in Nat : n = Len(events)
  BY <1>3
<1>5. /\ events' \in Seq(Event) /\ DOMAIN events' = 1..(n + 2) /\ DOMAIN events = 1..n
      /\ \A k \in 1..n : events'[k] = events[k]
      /\ events'[n + 1] = Expired(fsIndex, add) /\ events'[n + 2] = Disarm
  BY <1>1, <1>3, <1>4
<1>6. \A k \in 1..n : events[k].type = "clearMarker" /\ ~events[k].add
  <2>1. \A k \in 1..n : events[k].type = "clearMarker"
    BY <1>1, <1>2, <1>5 DEF QueueInv
  <2> QED BY <1>2, <1>5, <2>1 DEF QueueInv
<1>7. /\ events'[n + 1].type = "expired" /\ events'[n + 1].fabric = fsIndex
      /\ events'[n + 1].add = add
      /\ events'[n + 2].type = "disarm" /\ events'[n + 2].add = FALSE
  BY <1>5 DEF Expired, Disarm
<1>8. \A k \in 1..(n + 2) : k \in 1..n \/ k = n + 1 \/ k = n + 2
  OBVIOUS
<1>9. \A k \in 1..n : events'[k].type = "clearMarker" /\ ~events'[k].add
  BY <1>5, <1>6
<1>10. TypeInv'
  BY <1>1, <1>2, <1>5 DEF TypeInv
<1>11. TodoOK' /\ Storage'
  BY <1>1, QuietStep, KeepsItself DEF Idle
<1>12. TableInv' /\ PendingInv'
  BY <1>1, SameTable
<1>13. QueueInv'
  <2>1. ASSUME NEW a \in 1..(n + 2), NEW b \in 1..(n + 2), a < b,
               {events'[a].type, events'[b].type} \subseteq {"expired", "disarm"}
        PROVE  events'[a].type = "expired" /\ events'[b].type = "disarm"
    <3>1. a \notin 1..n /\ b \notin 1..n
      BY <1>9, <2>1
    <3> QED BY <1>7, <1>8, <2>1, <3>1
  <2>2. \A k \in 1..(n + 2) : events'[k].add => events'[k].type = "expired"
    BY <1>7, <1>8, <1>9
  <2> QED BY <1>1, <1>5, <2>1, <2>2 DEF QueueInv
<1>14. CleanupInv'
  <2>1. n + 1 \in DOMAIN events' /\ events'[n + 1].type = "expired"
    BY <1>5, <1>7
  <2>2. /\ add => Uncommitted(fsIndex)'
        /\ "add" \in mem.flags => add /\ mem.pending = fsIndex
    BY <1>1, <1>2, SameStorage DEF CleanupInv, add
  <2>3. ASSUME NEW k \in 1..(n + 2)
        PROVE  /\ events'[k].add /\ events'[k].fabric \in Index => Uncommitted(events[k].fabric)'
               /\ events'[k].type = "expired" /\ "add" \in mem'.flags =>
                     events'[k].add /\ events'[k].fabric = mem'.pending
    <3>1. k # n + 1 => ~events'[k].add /\ events'[k].type # "expired"
      BY <1>7, <1>8, <1>9
    <3>2. k = n + 1 => events'[k].fabric = fsIndex' /\ events'[k].add = add
      BY <1>1, <1>7
    <3> QED BY <1>1, <2>2, <3>1, <3>2 DEF Uncommitted, Foul
  <2> QED BY <1>1, <1>5, <2>1, <2>3 DEF CleanupInv
<1>15. ReadyInv'
  BY <1>1 DEF ReadyInv
<1> QED BY <1>10, <1>11, <1>12, <1>13, <1>14, <1>15 DEF IInv

(* The event loop hands out the first event.                               *)
LEMMA EventsOfTail ==
    ASSUME events \in Seq(Event), events # <<>>, events' = Tail(events), QueueInv
    PROVE  /\ events' \in Seq(Event) /\ Head(events) \in Event
           /\ \A k \in DOMAIN events' : k + 1 \in DOMAIN events /\ events'[k] = events[k + 1]
           /\ \A k \in DOMAIN events : k = 1 \/ (k - 1 \in DOMAIN events' /\ events'[k - 1] = events[k])
           /\ Head(events) = events[1] /\ 1 \in DOMAIN events
           /\ \A a, b \in DOMAIN events' :
                a < b /\ {events'[a].type, events'[b].type} \subseteq {"expired", "disarm"} =>
                   events'[a].type = "expired" /\ events'[b].type = "disarm"
           /\ \A k \in DOMAIN events' : events'[k].add => events'[k].type = "expired"
           /\ Head(events).type \in {"expired", "disarm"} =>
                \A k \in DOMAIN events' : events'[k].type # "expired"
           /\ Head(events).type = "disarm" =>
                \A k \in DOMAIN events' : events'[k].type = "clearMarker"
<1> PICK n \in Nat : n = Len(events)
  OBVIOUS
<1>1. /\ n > 0 /\ DOMAIN events = 1..n /\ Head(events) = events[1] /\ Head(events) \in Event
      /\ events' \in Seq(Event) /\ DOMAIN events' = 1..(n - 1)
      /\ \A k \in 1..(n - 1) : events'[k] = events[k + 1]
  OBVIOUS
<1>2. \A k \in 1..(n - 1) : k + 1 \in 1..n /\ 1 < k + 1 /\ events'[k] = events[k + 1]
  BY <1>1
<1>3. \A k \in 1..n : k = 1 \/ (k - 1 \in 1..(n - 1) /\ events'[k - 1] = events[k])
  BY <1>1
<1>4. ASSUME NEW a \in 1..(n - 1), NEW b \in 1..(n - 1), a < b,
             {events'[a].type, events'[b].type} \subseteq {"expired", "disarm"}
      PROVE  events'[a].type = "expired" /\ events'[b].type = "disarm"
  <2>1. a + 1 \in DOMAIN events /\ b + 1 \in DOMAIN events /\ a + 1 < b + 1
    BY <1>1, <1>4
  <2> QED BY <1>2, <1>4, <2>1 DEF QueueInv
<1>5. \A k \in 1..(n - 1) : events'[k].add => events'[k].type = "expired"
  BY <1>1, <1>2 DEF QueueInv
<1>6. ASSUME events[1].type \in {"expired", "disarm"}, NEW k \in 1..(n - 1)
      PROVE  events'[k].type # "expired" /\ (events[1].type = "disarm" => events'[k].type = "clearMarker")
  <2>1. 1 \in DOMAIN events /\ k + 1 \in DOMAIN events /\ 1 < k + 1 /\ events'[k] = events[k + 1]
    BY <1>1, <1>2
  <2>2. events[k + 1].type \in {"expired", "disarm"} => events[1].type = "expired" /\ events[k + 1].type = "disarm"
    BY <1>6, <2>1 DEF QueueInv
  <2>3. events'[k].type \in {"expired", "disarm", "clearMarker"}
    <3>1. events'[k] \in Event
      BY <1>1
    <3> QED BY <3>1 DEF Event
  <2> QED BY <1>6, <2>1, <2>2, <2>3
<1>7. 1 \in DOMAIN events
  BY <1>1
<1>8. \A k \in DOMAIN events' : k + 1 \in DOMAIN events /\ events'[k] = events[k + 1]
  BY <1>1, <1>2
<1>9. \A k \in DOMAIN events : k = 1 \/ (k - 1 \in DOMAIN events' /\ events'[k - 1] = events[k])
  BY <1>1, <1>3
<1>10. Head(events).type \in {"expired", "disarm"} =>
          \A k \in DOMAIN events' : events'[k].type # "expired"
  BY <1>1, <1>6
<1>11. Head(events).type = "disarm" =>
          \A k \in DOMAIN events' : events'[k].type = "clearMarker"
  BY <1>1, <1>6
<1>12. \A a, b \in DOMAIN events' :
         a < b /\ {events'[a].type, events'[b].type} \subseteq {"expired", "disarm"} =>
            events'[a].type = "expired" /\ events'[b].type = "disarm"
  BY <1>1, <1>4
<1>13. \A k \in DOMAIN events' : events'[k].add => events'[k].type = "expired"
  BY <1>1, <1>5
<1> QED BY <1>1, <1>7, <1>8, <1>9, <1>10, <1>11, <1>12, <1>13, Zenon

LEMMA FailSafeDisarmedInv ==
    ASSUME IInv, FailSafeDisarmed
    PROVE  IInv'
<1>1. /\ Idle /\ events # <<>> /\ Head(events).type = "disarm" /\ events' = Tail(events)
      /\ armed' = FALSE /\ busy' = FALSE /\ invoked' = {} /\ fsIndex' = fsIndex
      /\ UNCHANGED <<mem, stored, indexInfo, marker, todo, failed, tainted>>
  BY DEF FailSafeDisarmed, HandleDisarmFailSafe, HandOut, IsNext, ResetState
<1>2. TypeInv /\ QueueInv /\ CleanupInv /\ events \in Seq(Event)
  BY DEF IInv, TypeInv
<1>3. /\ events' \in Seq(Event)
      /\ \A k \in DOMAIN events' : k + 1 \in DOMAIN events /\ events'[k] = events[k + 1]
      /\ \A k \in DOMAIN events : k = 1 \/ (k - 1 \in DOMAIN events' /\ events'[k - 1] = events[k])
      /\ Head(events) = events[1] /\ 1 \in DOMAIN events
      /\ \A k \in DOMAIN events' : events'[k].add => events'[k].type = "expired"
      /\ \A k \in DOMAIN events' : events'[k].type = "clearMarker"
  BY <1>1, <1>2, EventsOfTail
<1>4. Clean(mem)
  <2>1. ~armed
    BY <1>1, <1>2, <1>3 DEF QueueInv
  <2>2. \A k \in DOMAIN events : events[k].type # "expired"
    BY <1>1, <1>3
  <2> QED BY <1>2, <2>1, <2>2 DEF CleanupInv
<1>5. TypeInv'
  BY <1>1, <1>2, <1>3 DEF TypeInv
<1>6. TodoOK' /\ Storage'
  BY <1>1, QuietStep, KeepsItself DEF Idle
<1>7. TableInv' /\ PendingInv'
  BY <1>1, SameTable
<1>8. QueueInv'
  BY <1>1, <1>3 DEF QueueInv
<1>9. CleanupInv'
  BY <1>1, <1>3, <1>4 DEF CleanupInv
<1>10. ReadyInv'
  BY <1>1 DEF ReadyInv
<1> QED BY <1>5, <1>6, <1>7, <1>8, <1>9, <1>10 DEF IInv

LEMMA MarkerClearedInv ==
    ASSUME IInv, MarkerCleared
    PROVE  IInv'
<1>1. /\ Idle /\ events # <<>> /\ Head(events).type = "clearMarker" /\ events' = Tail(events)
      /\ marker' = 0
      /\ UNCHANGED <<armed, busy, fsIndex, invoked>>
      /\ UNCHANGED <<mem, stored, indexInfo, todo, failed, tainted>>
  BY DEF MarkerCleared, HandOut, IsNext
<1>2. TypeInv /\ QueueInv /\ CleanupInv /\ TableInv /\ PendingInv /\ ReadyInv /\ TodoOK /\ events \in Seq(Event)
  BY DEF IInv, TypeInv
<1>3. /\ events' \in Seq(Event)
      /\ \A k \in DOMAIN events' : k + 1 \in DOMAIN events /\ events'[k] = events[k + 1]
      /\ \A k \in DOMAIN events : k = 1 \/ (k - 1 \in DOMAIN events' /\ events'[k - 1] = events[k])
      /\ Head(events) = events[1] /\ 1 \in DOMAIN events
      /\ \A k \in DOMAIN events' : events'[k].add => events'[k].type = "expired"
      /\ \A a, b \in DOMAIN events' :
            a < b /\ {events'[a].type, events'[b].type} \subseteq {"expired", "disarm"} =>
               events'[a].type = "expired" /\ events'[b].type = "disarm"
  BY <1>1, <1>2, EventsOfTail
<1>4. failed = {} /\ \A j \in Index : Settled(j)
  BY <1>1, WhenIdle
<1>5. ASSUME NEW j \in Index PROVE Settled(j)' /\ (Uncommitted(j) => Uncommitted(j)')
  <2>1. (Foul(j)' <=> Foul(j)) /\ (Installed(j)' <=> Installed(j)) /\ (AddPending(j)' <=> AddPending(j)) /\ marker' # j
    BY <1>1, Constants DEF Foul, Installed, AddPending
  <2> QED BY <1>1, <1>4, <2>1 DEF Settled, Uncommitted
<1>6. \A j : Foul(j)' <=> Foul(j)
  BY <1>1 DEF Foul
<1>7. TypeInv'
  <2>1. 0 \in 0..MaxIndex
    BY Constants
  <2> QED BY <1>1, <1>2, <1>3, <2>1 DEF TypeInv
<1>8. TodoOK' /\ Storage'
  BY <1>1, <1>2, <1>4, <1>5 DEF TodoOK, Storage, Idle
<1>9. TableInv' /\ PendingInv'
  BY <1>1, <1>2, <1>6 DEF TableInv, PendingInv, AddPending
<1>10. QueueInv'
  <2>1. ~busy => \A k \in DOMAIN events' : events'[k].type = "clearMarker"
    BY <1>2, <1>3 DEF QueueInv
  <2> QED BY <1>1, <1>2, <1>3, <2>1 DEF QueueInv
<1>11. CleanupInv'
  <2>1. (\E n \in DOMAIN events : events[n].type = "expired") => \E n \in DOMAIN events' : events'[n].type = "expired"
    BY <1>1, <1>3, ZenonT(60)
  <2>2. ASSUME NEW n \in DOMAIN events'
        PROVE  /\ events'[n].add /\ events'[n].fabric \in Index => Uncommitted(events[n].fabric)'
               /\ events'[n].type = "expired" /\ "add" \in mem'.flags =>
                     events'[n].add /\ events'[n].fabric = mem'.pending
    <3>1. PICK e : e = events'[n]
      OBVIOUS
    <3>2. n + 1 \in DOMAIN events /\ events[n + 1] = e
      BY <1>3, <3>1
    <3>3. e.fabric \in Index /\ Uncommitted(e.fabric) => Uncommitted(e.fabric)'
      BY <1>5
    <3> QED BY <1>1, <1>2, <3>1, <3>2, <3>3 DEF CleanupInv
  <2>3. armed /\ "addNoc" \in invoked => fsIndex \in Index /\ Uncommitted(fsIndex)'
    BY <1>1, <1>2, <1>5 DEF CleanupInv, Uncommitted, Foul
  <2> QED BY <1>1, <1>2, <2>1, <2>2, <2>3 DEF CleanupInv
<1>12. ReadyInv'
  <2>1. (ReadyToAdd(fsIndex) => ReadyToAdd(fsIndex)') /\ (ReadyToUpdate(fsIndex) => ReadyToUpdate(fsIndex)')
    BY <1>1, <1>6 DEF ReadyToAdd, ReadyToUpdate
  <2>2. (KeyInv => KeyInv') /\ ((Left("finish"))' <=> Left("finish"))
    BY <1>1 DEF KeyInv, Left
  <2> QED BY <1>1, <1>2, <2>1, <2>2 DEF ReadyInv, NocCommandHasBeenInvoked
<1> QED BY <1>7, <1>8, <1>9, <1>10, <1>11, <1>12 DEF IInv

(* Before a NOC command has succeeded, no fabric is pending.               *)
LEMMA NoAddYet ==
    ASSUME IInv, armed, ~NocCommandHasBeenInvoked
    PROVE  /\ "add" \notin mem.flags
           /\ EnsureNextAvailableFabricIndexUpdated(mem) = mem
           /\ \A n \in DOMAIN events : events[n].type = "clearMarker" /\ ~events[n].add
           /\ ~busy
<1>1. TypeInv /\ QueueInv /\ CleanupInv /\ TableInv
  BY DEF IInv
<1>2. "add" \notin mem.flags
  BY <1>1 DEF CleanupInv, NocCommandHasBeenInvoked, NocCommands
<1>3. \A n \in DOMAIN events : events[n].type = "clearMarker" /\ ~events[n].add
  BY <1>1 DEF QueueInv
<1> QED BY <1>1, <1>2, <1>3, EnsureIsIdle DEF TableInv, QueueInv

(* A command that stages a key or certificates, or fails to.               *)
LEMMA StagingStep ==
    ASSUME IInv, Idle, armed, ~NocCommandHasBeenInvoked,
           todo' = <<>>,
           UNCHANGED <<stored, indexInfo, marker, tainted, failed, armed, busy, fsIndex, events>>,
           IsMem(mem'), "add" \notin mem'.flags,
           mem'.fabrics = mem.fabrics, mem'.next = mem.next, mem'.count = mem.count,
           mem'.flags \cap {"key", "root"} = {} => Bare(mem'),
           invoked' \subseteq ContextFlags, "addNoc" \notin invoked',
           "updateNoc" \in invoked' => ReadyToUpdate(fsIndex)',
           "updateNoc" \notin invoked' /\ "key" \in mem'.flags => KeyInv'
    PROVE  IInv'
<1>1. TypeInv /\ QueueInv /\ CleanupInv /\ TableInv
  BY DEF IInv
<1>2. "add" \notin mem.flags /\ ~busy /\ \A n \in DOMAIN events : events[n].type = "clearMarker" /\ ~events[n].add
  BY NoAddYet
<1>3. Live(mem') = Live(mem)
  BY DEF Live
<1>4. TypeInv'
  BY <1>1 DEF TypeInv
<1>5. TodoOK' /\ Storage'
  <2>1. Keeps(mem, mem')
    BY <1>2, <1>3 DEF Keeps, KeepsAt
  <2> QED BY <2>1, QuietStep
<1>6. TableInv'
  <2>1. Tabled(mem')
    BY <1>1, <1>3 DEF TableInv, Tabled
  <2>2. mem'.next \in Live(mem') => Foul(mem.next)'
    BY <1>1, <1>2, <1>3, SameStorage DEF TableInv, AddPending, Foul
  <2> QED BY <2>1, <2>2 DEF TableInv
<1>7. QueueInv'
  BY <1>1 DEF QueueInv
<1>8. CleanupInv'
  BY <1>2 DEF CleanupInv
<1>9. PendingInv'
  BY DEF PendingInv
<1>10. ReadyInv'
  BY DEF ReadyInv, NocCommandHasBeenInvoked, NocCommands
<1> QED BY <1>4, <1>5, <1>6, <1>7, <1>8, <1>9, <1>10 DEF IInv

LEMMA CSRRequestInv ==
    ASSUME IInv, NEW a \in 0..MaxIndex, NEW i \in Index, NEW forUpdate \in BOOLEAN,
           NEW ver \in Versions, CSRRequest(a, i, forUpdate, ver)
    PROVE  IInv'
<1>1. /\ Idle /\ armed /\ ~NocCommandHasBeenInvoked
      /\ AllocatePendingOperationalKey(i, forUpdate, ver)
      /\ UNCHANGED <<armed, busy, fsIndex, invoked, events>>
  BY DEF CSRRequest, IsFailSafeArmedFor, failSafeVars
<1>2. "add" \notin mem.flags /\ EnsureNextAvailableFabricIndexUpdated(mem) = mem
  BY <1>1, NoAddYet
<1> DEFINE flagged == [mem EXCEPT !.flags = IF forUpdate THEN @ \cup {"keyForUpdate"}
                                                       ELSE @ \ {"keyForUpdate"}]
           legal == PendingIndexIsLegal(mem, i) /\ mem.key.index \in {0, i}
           indexed == [flagged EXCEPT !.pending = i]
           named == [indexed EXCEPT !.key = [index |-> i, ver |-> ver], !.flags = @ \cup {"key"}]
           refused == ~legal /\ PendingIndexIsLegal(mem, i)
<1>3. /\ mem' = (IF legal THEN named ELSE IF refused THEN indexed ELSE flagged) /\ todo' = <<>>
      /\ UNCHANGED <<stored, indexInfo, marker, failed, tainted>>
  BY <1>1, <1>2 DEF AllocatePendingOperationalKey, Operate
<1>4. TypeInv /\ PendingInv /\ ReadyInv /\ IsMem(mem)
  BY DEF IInv, TypeInv
<1>5. /\ flagged = [f \in MemFields |-> flagged[f]]
      /\ flagged.fabrics = mem.fabrics /\ flagged.shadow = mem.shadow /\ flagged.next = mem.next
      /\ flagged.count = mem.count /\ flagged.certs = mem.certs /\ flagged.key = mem.key
      /\ flagged.pending = mem.pending
      /\ flagged.flags \subseteq StateFlags
      /\ "add" \notin flagged.flags
      /\ flagged.flags \cap {"key", "root"} = mem.flags \cap {"key", "root"}
  BY <1>2, <1>4 DEF IsMem, MemFields, StateFlags
<1> HIDE DEF flagged
<1>5a. /\ indexed = [f \in MemFields |-> indexed[f]]
       /\ indexed.fabrics = mem.fabrics /\ indexed.shadow = mem.shadow /\ indexed.next = mem.next
       /\ indexed.count = mem.count /\ indexed.certs = mem.certs /\ indexed.key = mem.key
       /\ indexed.pending = i /\ indexed.flags = flagged.flags
  BY <1>5 DEF MemFields
<1> HIDE DEF indexed
<1>6. /\ named = [f \in MemFields |-> named[f]]
      /\ named.fabrics = mem.fabrics /\ named.shadow = mem.shadow /\ named.next = mem.next
      /\ named.count = mem.count /\ named.certs = mem.certs
      /\ named.key = [index |-> i, ver |-> ver] /\ named.pending = i
      /\ named.flags = flagged.flags \cup {"key"}
  BY <1>5a DEF MemFields
<1>6a. refused => mem.pending \in {0, i} /\ mem.key.index \notin {0, i}
  BY DEF PendingIndexIsLegal
<1> HIDE DEF named, legal, refused
<1>7. IsMem(mem')
  <2>1. IsMem(flagged)
    BY <1>4, <1>5 DEF IsMem
  <2>3. IsMem(indexed)
    <3>1. i \in 0..MaxIndex
      BY Constants
    <3> QED BY <1>4, <1>5, <1>5a, <3>1 DEF IsMem
  <2>2. IsMem(named)
    <3>1. [index |-> i, ver |-> ver] \in Key /\ i \in 0..MaxIndex
      BY Constants DEF Key
    <3> QED BY <1>4, <1>5, <1>6, <3>1 DEF IsMem, StateFlags
  <2> QED BY <1>3, <2>1, <2>2, <2>3
<1>8. /\ "add" \notin mem'.flags
      /\ mem'.fabrics = mem.fabrics /\ mem'.next = mem.next /\ mem'.count = mem.count
  BY <1>3, <1>5, <1>5a, <1>6
<1>9. mem'.flags \cap {"key", "root"} = {} => Bare(mem')
  <2>1. CASE legal
    BY <1>3, <1>6, <2>1
  <2>2. CASE ~legal
    BY <1>3, <1>4, <1>5, <1>5a, <2>2 DEF PendingInv, Bare
  <2> QED BY <2>1, <2>2
<1>10. "key" \in mem'.flags => KeyInv'
  <2>1. CASE legal
    BY <1>3, <1>6, <2>1, Constants DEF KeyInv, NoKey
  <2>2. CASE ~legal
    <3>1. "key" \in mem'.flags => KeyInv
      BY <1>1, <1>3, <1>4, <1>5, <1>5a, <2>2 DEF ReadyInv
    <3>2. mem'.key = mem.key /\ Live(mem') = Live(mem)
      BY <1>3, <1>5, <1>5a, <2>2 DEF Live
    <3>3. CASE refused
      <4>1. mem.key # NoKey /\ (KeyInv => mem.key.index = fsIndex)
        BY <1>4, <1>6a, <3>3, Constants DEF KeyInv, NoKey, IsMem, Key
      <4> QED BY <1>1, <3>1, <3>2, <4>1 DEF KeyInv
    <3>4. CASE ~refused
      <4>1. mem'.pending = mem.pending
        BY <1>3, <1>5, <2>2, <3>4
      <4> QED BY <1>1, <3>1, <3>2, <4>1 DEF KeyInv
    <3> QED BY <3>3, <3>4
  <2> QED BY <2>1, <2>2
<1>11. invoked' \subseteq ContextFlags /\ "addNoc" \notin invoked' /\ "updateNoc" \notin invoked'
  BY <1>1, <1>4 DEF TypeInv, NocCommandHasBeenInvoked, NocCommands
<1> QED BY <1>1, <1>3, <1>7, <1>8, <1>9, <1>10, <1>11, StagingStep

LEMMA AddTrustedRootCertificateInv ==
    ASSUME IInv, NEW a \in 0..MaxIndex, AddTrustedRootCertificate(a)
    PROVE  IInv'
<1>1. /\ Idle /\ armed /\ ~NocCommandHasBeenInvoked
      /\ invoked' \in {invoked, invoked \cup {"addRoot"}}
      /\ UNCHANGED <<armed, busy, fsIndex, events>>
  BY DEF AddTrustedRootCertificate, IsFailSafeArmedFor
<1>2. "add" \notin mem.flags /\ EnsureNextAvailableFabricIndexUpdated(mem) = mem
  BY <1>1, NoAddYet
<1> DEFINE n == mem.next
           indexed == [mem EXCEPT !.pending = n]
           g == [indexed EXCEPT !.certs = [index |-> n, rcac |-> TRUE, noc |-> 0],
                                !.flags = @ \cup {"present", "root"}]
<1>3. /\ n # 0 /\ mem.pending \in {0, n} /\ mem' \in {g, indexed} /\ todo' = <<>>
      /\ UNCHANGED <<stored, indexInfo, marker, failed, tainted>>
  BY <1>1, <1>2 DEF AddTrustedRootCertificate, PendingIndexIsLegal, Operate
<1>4. TypeInv /\ PendingInv /\ ReadyInv /\ IsMem(mem)
  BY DEF IInv, TypeInv
<1>4a. /\ indexed = [f \in MemFields |-> indexed[f]]
       /\ indexed.fabrics = mem.fabrics /\ indexed.shadow = mem.shadow /\ indexed.next = mem.next
       /\ indexed.count = mem.count /\ indexed.certs = mem.certs
       /\ indexed.key = mem.key /\ indexed.pending = n /\ indexed.flags = mem.flags
  BY <1>4 DEF IsMem, MemFields
<1> HIDE DEF indexed
<1>5. /\ g = [f \in MemFields |-> g[f]]
      /\ g.fabrics = mem.fabrics /\ g.shadow = mem.shadow /\ g.next = mem.next
      /\ g.count = mem.count /\ g.certs = [index |-> n, rcac |-> TRUE, noc |-> 0]
      /\ g.key = mem.key /\ g.pending = n
      /\ g.flags = mem.flags \cup {"present", "root"}
  BY <1>4a DEF MemFields
<1> HIDE DEF g
<1>6. n \in Index /\ n \in 0..MaxIndex
  BY <1>3, <1>4, Constants DEF IsMem
<1>7. IsMem(mem')
  <2>1. [index |-> n, rcac |-> TRUE, noc |-> 0] \in Certs
    BY <1>6 DEF Certs
  <2>2. IsMem(g)
    BY <1>4, <1>5, <1>6, <2>1 DEF IsMem, StateFlags
  <2>3. IsMem(indexed)
    BY <1>4, <1>4a, <1>6 DEF IsMem
  <2> QED BY <1>3, <2>2, <2>3
<1>8. /\ "add" \notin mem'.flags
      /\ mem'.fabrics = mem.fabrics /\ mem'.next = mem.next /\ mem'.count = mem.count
      /\ "key" \in mem'.flags => "key" \in mem.flags
  <2>1. "key" \notin {"present", "root"} /\ "add" \notin {"present", "root"}
    OBVIOUS
  <2>2. CASE mem' = g
    BY <1>2, <1>5, <2>1, <2>2
  <2>3. CASE mem' = indexed
    BY <1>2, <1>4a, <2>3
  <2> QED BY <1>3, <2>2, <2>3
<1>8a. mem'.flags \cap {"key", "root"} = {} => Bare(mem')
  BY <1>3, <1>4, <1>4a, <1>5 DEF PendingInv, Bare
<1>9. "key" \in mem'.flags => KeyInv'
  <2>1. "key" \in mem'.flags => KeyInv
    BY <1>1, <1>4, <1>8 DEF ReadyInv
  <2>2. mem'.key = mem.key /\ mem'.pending = n /\ Live(mem') = Live(mem)
    BY <1>3, <1>4a, <1>5 DEF Live
  <2>3. mem.key # NoKey => mem.key.index \in Index
    BY <1>4 DEF IsMem, Key
  <2> QED BY <1>1, <1>3, <2>1, <2>2, <2>3, Constants DEF KeyInv
<1>10. invoked' \subseteq ContextFlags /\ "addNoc" \notin invoked' /\ "updateNoc" \notin invoked'
  BY <1>1, <1>4 DEF TypeInv, NocCommandHasBeenInvoked, NocCommands, ContextFlags
<1> QED BY <1>1, <1>3, <1>7, <1>8, <1>8a, <1>9, <1>10, StagingStep

LEMMA UpdateNOCInv ==
    ASSUME IInv, NEW i \in Index, NEW noc \in Versions, UpdateNOC(i, noc)
    PROVE  IInv'
<1> DEFINE certs == [index |-> i, rcac |-> FALSE, noc |-> noc]
           shadow == [index |-> i, ver |-> noc, label |-> FindFabric(mem, i).label]
           certified == [mem EXCEPT !.certs = certs]
           staged == [certified EXCEPT !.pending = i]
           updated == [staged EXCEPT !.shadow = shadow, !.flags = @ \cup {"update", "present"}]
           reverted == RevertPendingOpCertsExceptRoot(staged)
<1>1. /\ Idle /\ armed /\ fsIndex = i /\ i \in Live(mem) /\ ~NocCommandHasBeenInvoked
      /\ {"key", "keyForUpdate"} \subseteq mem.flags
      /\ mem.flags \cap {"root", "add"} = {}
      /\ UNCHANGED <<armed, busy, fsIndex, events>>
  BY DEF UpdateNOC, IsFailSafeArmedFor
<1>2. /\ todo' = <<>> /\ UNCHANGED <<stored, indexInfo, marker, failed, tainted>>
      /\ \/ /\ mem.pending \in {0, i} /\ ChainIsAccepted(mem, i, noc)
            /\ mem' = updated /\ invoked' = invoked \cup {"updateNoc"}
         \/ mem.pending \in {0, i} /\ mem' = reverted /\ invoked' = invoked
         \/ mem' = certified /\ invoked' = invoked
  BY DEF UpdateNOC, Operate, PendingIndexIsLegal
<1>3. TypeInv /\ ReadyInv /\ IsMem(mem)
  BY DEF IInv, TypeInv
<1>3a. KeyInv
  BY <1>1, <1>3 DEF ReadyInv
<1>4. ASSUME mem.pending \in {0, i} PROVE mem.key \in Key /\ mem.key # NoKey /\ mem.key.index = i
  <2>1. KeyInv
    BY <1>3a
  <2>2. mem.key # NoKey
    BY <1>1, <1>4, <2>1, Constants DEF KeyInv
  <2>3. mem.key \in Key
    BY <1>3, <2>2 DEF IsMem
  <2>4. mem.key.index \in Index /\ 0 \notin Index
    BY <2>3, Constants DEF Key
  <2> QED BY <1>1, <1>4, <2>1, <2>2, <2>3, <2>4 DEF KeyInv
<1>5. shadow \in Shadow
  <2>1. CASE Shadowed(mem, i)
    <3>1. mem.shadow \in Shadow
      BY <1>3, <2>1, Constants DEF IsMem, Shadowed, NoShadow
    <3>2. mem.shadow.label \in Labels
      BY <3>1 DEF Shadow
    <3> QED BY <2>1, <3>2 DEF FindFabric, Shadow
  <2>2. CASE ~Shadowed(mem, i)
    <3>1. mem.fabrics[i] \in Entry
      BY <1>1, <1>3 DEF IsMem, Fabrics, Live
    <3>2. mem.fabrics[i].label \in Labels
      BY <3>1 DEF Entry
    <3> QED BY <2>2, <3>2 DEF FindFabric, Shadow
  <2> QED BY <2>1, <2>2
<1>6. certs \in Certs /\ i \in 0..MaxIndex
  BY Constants DEF Certs
<1>7. shadow.index = i /\ shadow.ver = noc
  OBVIOUS
<1>7a. /\ certified = [f \in MemFields |-> certified[f]]
       /\ certified.fabrics = mem.fabrics /\ certified.shadow = mem.shadow
       /\ certified.next = mem.next /\ certified.count = mem.count /\ certified.certs = certs
       /\ certified.key = mem.key /\ certified.pending = mem.pending /\ certified.flags = mem.flags
  BY <1>3 DEF IsMem, MemFields
<1> HIDE DEF certified
<1>8. /\ staged = [f \in MemFields |-> staged[f]]
      /\ staged.fabrics = mem.fabrics /\ staged.shadow = mem.shadow /\ staged.next = mem.next
      /\ staged.count = mem.count /\ staged.certs = certs /\ staged.key = mem.key
      /\ staged.pending = i /\ staged.flags = mem.flags
  BY <1>7a DEF MemFields
<1> HIDE DEF staged
<1>9. IsMem(staged)
  BY <1>3, <1>6, <1>8 DEF IsMem
<1>10. CASE /\ mem.pending \in {0, i} /\ ChainIsAccepted(mem, i, noc)
            /\ mem' = updated /\ invoked' = invoked \cup {"updateNoc"}
  <2>1. /\ updated = [f \in MemFields |-> updated[f]]
        /\ updated.fabrics = mem.fabrics /\ updated.shadow = shadow /\ updated.next = mem.next
        /\ updated.count = mem.count /\ updated.certs = certs /\ updated.key = mem.key
        /\ updated.pending = i /\ updated.flags = mem.flags \cup {"update", "present"}
    BY <1>8 DEF MemFields
  <2> HIDE DEF updated, shadow
  <2>2. IsMem(updated)
    BY <1>3, <1>5, <1>6, <2>1 DEF IsMem, StateFlags
  <2>3. mem.key = [index |-> i, ver |-> noc]
    BY <1>4, <1>10 DEF ChainIsAccepted
  <2>4. ReadyToUpdate(fsIndex)'
    BY <1>1, <1>7, <1>10, <2>1, <2>3 DEF ReadyToUpdate
  <2>5. invoked' \subseteq ContextFlags /\ "addNoc" \notin invoked' /\ "updateNoc" \in invoked'
    BY <1>1, <1>3, <1>10 DEF TypeInv, NocCommandHasBeenInvoked, NocCommands, ContextFlags
  <2>6. "add" \notin mem'.flags /\ "key" \in mem'.flags
    BY <1>1, <1>10, <2>1
  <2> QED BY <1>1, <1>2, <1>10, <2>1, <2>2, <2>4, <2>5, <2>6, StagingStep
<1>11. CASE mem.pending \in {0, i} /\ mem' = reverted /\ invoked' = invoked
  <2>1. "add" \notin staged.flags /\ "root" \notin staged.flags
    BY <1>1, <1>8
  <2>2. /\ IsMem(mem') /\ mem'.flags = staged.flags \ {"add", "update"} /\ mem'.pending = 0
        /\ mem'.fabrics = staged.fabrics /\ mem'.next = staged.next /\ mem'.key = staged.key
    BY <1>9, <1>11, <2>1, RevertCertsIs
  <2>3. mem'.count = mem.count
    <3>1. Tabled(mem) /\ Tabled(staged)
      BY <1>8 DEF IInv, TableInv, Tabled, Live
    <3>2. Tabled(mem')
      BY <1>9, <1>11, <2>1, <3>1, RevertCertsIs
    <3> QED BY <1>8, <2>2, <3>1, <3>2 DEF Tabled, Live
  <2>4. KeyInv'
    BY <1>1, <1>4, <1>8, <1>11, <2>2 DEF KeyInv
  <2>5. invoked' \subseteq ContextFlags /\ "addNoc" \notin invoked' /\ "updateNoc" \notin invoked'
    BY <1>1, <1>3, <1>11 DEF TypeInv, NocCommandHasBeenInvoked, NocCommands
  <2>6. /\ "add" \notin mem'.flags /\ "key" \in mem'.flags
        /\ mem'.fabrics = mem.fabrics /\ mem'.next = mem.next
    BY <1>1, <1>8, <2>2
  <2> QED BY <1>1, <1>2, <2>2, <2>3, <2>4, <2>5, <2>6, StagingStep
<1>12. CASE mem' = certified /\ invoked' = invoked
  <2>1. IsMem(mem')
    BY <1>3, <1>6, <1>7a, <1>12 DEF IsMem
  <2>2. KeyInv'
    BY <1>1, <1>3a, <1>7a, <1>12 DEF KeyInv, Live
  <2>3. invoked' \subseteq ContextFlags /\ "addNoc" \notin invoked' /\ "updateNoc" \notin invoked'
    BY <1>1, <1>3, <1>12 DEF TypeInv, NocCommandHasBeenInvoked, NocCommands
  <2>4. /\ "add" \notin mem'.flags /\ "key" \in mem'.flags
        /\ mem'.fabrics = mem.fabrics /\ mem'.next = mem.next /\ mem'.count = mem.count
    BY <1>1, <1>7a, <1>12
  <2> QED BY <1>1, <1>2, <2>1, <2>2, <2>3, <2>4, StagingStep
<1> QED BY <1>2, <1>10, <1>11, <1>12

LEMMA NothingIsAllZero ==
    ASSUME NEW r \in StoredRecord
    PROVE  (\A p \in Parts : r[p] = 0) <=> r = NothingStored
<1>1. r = [meta |-> r.meta, key |-> r.key, noc |-> r.noc, icac |-> r.icac, rcac |-> r.rcac]
  BY DEF StoredRecord
<1>2. ASSUME \A p \in Parts : r[p] = 0 PROVE r = NothingStored
  <2>1. r.meta = 0 /\ r.key = 0 /\ r.noc = 0 /\ r.icac = 0 /\ r.rcac = 0
    BY <1>2, Constants
  <2> QED BY <1>1, <2>1 DEF NothingStored
<1>3. ASSUME r = NothingStored PROVE \A p \in Parts : r[p] = 0
  BY <1>3, Constants DEF NothingStored
<1> QED BY <1>2, <1>3

(* Deleting index i begins, possibly with nothing to delete.               *)
LEMMA DeletionStarts ==
    ASSUME NEW i \in Index, TypeInv', todo' \in Seq(Op), Ordered(todo'),
           (Erasures(Parts, i))' \subseteq Ops(todo'),
           Ops(todo') \subseteq (Erasures(Parts, i))' \cup {IndexOp(mem'), Put("marker", i, 0)},
           i \notin Live(mem'), \A j \in Index \ {i} : Settled(j)', StoreOK(i)', failed' = {}
    PROVE  TodoOK' /\ Storage' /\ ~(Left("finish"))'
<1>1. \A o \in (Erasures(Parts, i))' :
         \E p \in Parts : o = Put(p, i, 0) /\ stored'[i][p] # 0
  BY DEF Erasures
<1>2. \A p \in Parts : stored'[i][p] # 0 => Put(p, i, 0) \in Ops(todo')
  BY DEF Erasures
<1>3. \A p, v : Put(p, i, v).part = p /\ Put(p, i, v).index = i /\ Put(p, i, v).value = v
  BY DEF Put
<1>4. /\ IndexOp(mem').part = "index" /\ IndexOp(mem').index = mem'.next
      /\ IndexOp(mem').value = 1 /\ IndexOp(mem').list = Live(mem')
  BY DEF IndexOp
<1>5. "index" \notin Parts /\ "marker" \notin Parts /\ "finish" \notin Parts /\ "meta" \in Parts
  BY Constants
<1>6. ASSUME NEW o \in Ops(todo')
      PROVE  /\ o.part = "index" => o.index = mem'.next /\ o.list = Live(mem') /\ o.value = 1
             /\ o.part # "index" => o.index = i
             /\ o.part # "finish"
             /\ IsErase(o) \/ o.part = "index" \/ IsUnmark(o)
             /\ o.part = "meta" => stored'[i].meta # 0
  <2>1. CASE o \in (Erasures(Parts, i))'
    BY <1>1, <1>3, <1>5, <2>1 DEF IsErase
  <2>2. CASE o = IndexOp(mem')
    BY <1>4, <2>2
  <2>3. CASE o = Put("marker", i, 0)
    BY <1>3, <2>3 DEF IsUnmark
  <2> QED BY <2>1, <2>2, <2>3
<1>7. TodoOK' /\ ~(Left("finish"))'
  BY <1>6 DEF TodoOK, Left
<1>8. CASE todo' = <<>>
  <2>1. \A p \in Parts : stored'[i][p] = 0
    BY <1>2, <1>8, OpsOfEmpty
  <2>2. stored'[i] \in StoredRecord
    BY DEF TypeInv
  <2>3. stored'[i] = NothingStored
    BY <2>1, <2>2, NothingIsAllZero
  <2>4. Settled(i)'
    BY <2>3 DEF Settled
  <2> QED BY <1>7, <1>8, <2>4 DEF Storage, Idle
<1>9. CASE todo' # <<>>
  <2>1. \A p \in Parts : stored'[i][p] # 0 => (EraseLeft(p))'
    BY <1>2, <1>3 DEF EraseLeft
  <2>2. (EraseLeft("meta"))' => stored'[i].meta # 0
    BY <1>6 DEF EraseLeft
  <2>3. Deleting(i)'
    BY <1>6, <2>1, <2>2 DEF Deleting
  <2>4. Work(i)'
    BY <1>6, <1>9, <2>3 DEF Work, Idle
  <2> QED BY <1>7, <2>4 DEF Storage
<1> QED BY <1>8, <1>9

LEMMA RemoveFabricInv ==
    ASSUME IInv, NEW i \in Index, RemoveFabric(i)
    PROVE  IInv'
<1>1. /\ Idle /\ mem' = Delete(mem, i) /\ todo' = DeleteOps(mem, i)
      /\ UNCHANGED <<stored, indexInfo, marker, failed, tainted>>
      /\ UNCHANGED <<armed, busy, fsIndex, invoked, events>>
  BY DEF RemoveFabric, Operate, failSafeVars
<1>2. /\ TypeInv /\ QueueInv /\ CleanupInv /\ TableInv /\ PendingInv /\ ReadyInv
      /\ IsMem(mem) /\ Tabled(mem) /\ ~({"add", "update"} \subseteq mem.flags)
  BY DEF IInv, TypeInv, TableInv, PendingInv
<1>3. failed = {} /\ \A j \in Index : Settled(j)
  BY <1>1, WhenIdle
<1>4. /\ IsMem(mem')
      /\ mem'.fabrics = [mem.fabrics EXCEPT ![i] = Absent]
      /\ mem'.next = IF i \in Live(mem) /\ mem.next = 0 THEN i ELSE mem.next
      /\ Live(mem') = Live(mem) \ {i}
      /\ Tabled(mem')
      /\ Shadowed(mem, i) => Clean(mem')
      /\ Clean(mem) => Clean(mem')
      /\ ~Shadowed(mem, i) =>
            /\ mem'.shadow = mem.shadow /\ mem'.flags = mem.flags /\ mem'.pending = mem.pending
            /\ mem'.key = IF mem.key.index = i THEN NoKey ELSE mem.key
            /\ mem'.certs = IF mem.certs.index = i THEN NoCerts ELSE mem.certs
  BY <1>1, <1>2, DeleteIs
<1>5. Within(todo', 4, 6)
      /\ Ops(todo') = Erasures(Parts, i) \cup (IF i \in Live(mem) THEN {IndexOp(mem')} ELSE {})
  BY <1>1, <1>4, DeleteOpsAre
<1>6. (Erasures(Parts, i))' = Erasures(Parts, i)
  BY <1>1 DEF Erasures
<1>7. mem.fabrics \in Fabrics
  BY <1>2 DEF IsMem
<1>8. \A j \in Index \ {i} : mem'.fabrics[j] = mem.fabrics[j]
  BY <1>4, <1>7 DEF Fabrics
<1>9. Shadowed(mem, i) => "add" \notin mem.flags
  BY <1>2 DEF Shadowed
<1>10. "add" \in mem'.flags => ~Shadowed(mem, i)
  BY <1>4 DEF Clean
<1>11. TypeInv'
  BY <1>1, <1>2, <1>4 DEF TypeInv
<1>12. TodoOK' /\ Storage' /\ ~(Left("finish"))'
  <2>1. ASSUME NEW j \in Index \ {i} PROVE Settled(j)'
    <3>1. KeepsAt(mem, mem', j)
      BY <1>4, <1>8, <1>9 DEF KeepsAt
    <3> QED BY <1>1, <1>3, <3>1, SettledStays
  <2>2. StoreOK(i)'
    <3>1. StoreOK(i)
      BY <1>3 DEF Settled, StoreOK
    <3> QED BY <1>1, <3>1, SameStorage
  <2>3. i \notin Live(mem') /\ failed' = {}
    BY <1>1, <1>3, <1>4
  <2>4. todo' \in Seq(Op) /\ Ordered(todo')
    BY <1>5 DEF Within
  <2> QED BY <1>5, <1>6, <1>11, <2>1, <2>2, <2>3, <2>4, DeletionStarts
<1>13. TableInv'
  <2>1. ASSUME mem'.next \in Live(mem') PROVE Foul(mem.next)' \/ AddPending(mem.next)'
    <3>1. mem'.next = mem.next /\ mem.next \in Live(mem) /\ mem.next # i
      BY <1>4, <2>1
    <3>2. Foul(mem.next) \/ AddPending(mem.next)
      BY <1>2, <3>1 DEF TableInv
    <3> QED BY <1>1, <1>4, <1>9, <3>1, <3>2 DEF Foul, AddPending
  <2> QED BY <1>4, <2>1 DEF TableInv
<1>14. QueueInv'
  BY <1>1, <1>2 DEF QueueInv
<1>15. PendingInv'
  <2>1. CASE Shadowed(mem, i)
    BY <1>4, <2>1 DEF PendingInv, Clean
  <2>2. CASE ~Shadowed(mem, i)
    <3>1. "add" \in mem'.flags => mem'.pending \in Index /\ mem'.next = mem'.pending /\ "update" \notin mem'.flags
      BY <1>2, <1>4, <2>2, Constants DEF PendingInv
    <3>2. mem'.flags \cap {"key", "root"} = {} => Bare(mem')
      BY <1>2, <1>4, <2>2 DEF PendingInv, Bare
    <3> QED BY <3>1, <3>2 DEF PendingInv
  <2> QED BY <2>1, <2>2
<1>16. CleanupInv'
  <2>1. \A j : Uncommitted(j)' <=> Uncommitted(j)
    BY <1>1, SameStorage
  <2>2. ~armed' => Clean(mem') \/ \E n \in DOMAIN events' : events'[n].type = "expired"
    BY <1>1, <1>2, <1>4 DEF CleanupInv
  <2>3. "add" \in mem'.flags => "add" \in mem.flags /\ mem'.pending = mem.pending
    BY <1>4, <1>10
  <2>4. ASSUME NEW n \in DOMAIN events'
        PROVE  /\ events'[n].add /\ events'[n].fabric \in Index => Uncommitted(events[n].fabric)'
               /\ events'[n].type = "expired" /\ "add" \in mem'.flags =>
                     events'[n].add /\ events'[n].fabric = mem'.pending
    BY <1>1, <1>2, <2>3 DEF CleanupInv, Uncommitted, Foul
  <2>5. armed' /\ "addNoc" \in invoked' => fsIndex' \in Index /\ Uncommitted(fsIndex)'
    BY <1>1, <1>2 DEF CleanupInv, Uncommitted, Foul
  <2>6. armed' /\ "add" \in mem'.flags => "addNoc" \in invoked' /\ mem'.pending = fsIndex'
    BY <1>1, <1>2, <2>3 DEF CleanupInv
  <2> QED BY <2>2, <2>4, <2>5, <2>6 DEF CleanupInv
<1>17. ReadyInv'
  <2>1. ~Left("finish")
    BY <1>1, OpsOfEmpty DEF Idle, Left
  <2>2. ASSUME armed, "addNoc" \in invoked, fsIndex \in Live(mem') PROVE ReadyToAdd(fsIndex)'
    <3>1. ReadyToAdd(fsIndex) /\ fsIndex # i /\ fsIndex \in Index
      BY <1>2, <1>4, <2>1, <2>2, LiveIsFinite DEF ReadyInv
    <3>2. ~Shadowed(mem, i)
      BY <1>9, <3>1 DEF ReadyToAdd
    <3>3. NoKey.index # i
      BY Constants DEF NoKey
    <3>4. PICK v \in Versions :
             /\ mem.certs = [index |-> fsIndex, rcac |-> TRUE, noc |-> v]
             /\ mem.fabrics[fsIndex].ver = v
             /\ \/ mem.key = [index |-> fsIndex, ver |-> v]
                \/ mem.key = NoKey /\ Foul(fsIndex) /\ stored[fsIndex].key # 0
      BY <3>1 DEF ReadyToAdd
    <3>5. mem'.key = mem.key /\ mem'.certs = mem.certs /\ mem'.fabrics[fsIndex] = mem.fabrics[fsIndex]
          /\ mem'.flags = mem.flags /\ mem'.pending = mem.pending
      BY <1>4, <1>8, <3>1, <3>2, <3>3, <3>4
    <3> QED BY <1>1, <3>1, <3>4, <3>5 DEF ReadyToAdd, Foul
  <2>3. ASSUME armed, "updateNoc" \in invoked, fsIndex \in Live(mem') PROVE ReadyToUpdate(fsIndex)'
    <3>1. ReadyToUpdate(fsIndex) /\ fsIndex # i
      BY <1>2, <1>4, <2>1, <2>3 DEF ReadyInv
    <3>2. ~Shadowed(mem, i)
      BY <3>1 DEF ReadyToUpdate, Shadowed
    <3>3. /\ mem.certs = [index |-> fsIndex, rcac |-> FALSE, noc |-> mem.shadow.ver]
          /\ mem.key = [index |-> fsIndex, ver |-> mem.shadow.ver]
      BY <3>1 DEF ReadyToUpdate
    <3>4. mem.certs.index # i /\ mem.key.index # i
      BY <3>1, <3>3
    <3>5. /\ mem'.key = mem.key /\ mem'.certs = mem.certs /\ mem'.shadow = mem.shadow
          /\ mem'.flags = mem.flags /\ mem'.pending = mem.pending
      BY <1>4, <3>2, <3>4
    <3> QED BY <1>1, <3>1, <3>5 DEF ReadyToUpdate
  <2>4. ASSUME armed, ~NocCommandHasBeenInvoked, "key" \in mem'.flags PROVE KeyInv'
    <3>1. ~Shadowed(mem, i)
      BY <1>4, <2>4 DEF Clean
    <3>2. KeyInv
      BY <1>2, <1>4, <2>4, <3>1 DEF ReadyInv
    <3> QED BY <1>1, <1>4, <3>1, <3>2 DEF KeyInv
  <2> QED BY <1>1, <2>2, <2>3, <2>4 DEF ReadyInv, NocCommandHasBeenInvoked
<1> QED BY <1>11, <1>12, <1>13, <1>14, <1>15, <1>16, <1>17 DEF IInv

LEMMA AddNOCInv ==
    ASSUME IInv, NEW a \in 0..MaxIndex, NEW noc \in Versions, NEW ok \in BOOLEAN,
           AddNOC(a, noc, ok)
    PROVE  IInv'
<1>i. PICK i : i = mem.next
  OBVIOUS
<1> DEFINE staged == [mem EXCEPT !.certs.noc = noc, !.pending = i]
           inner == Cardinality(Live(mem)) < MaxFabrics /\ ChainIsAccepted(mem, i, noc)
           entry == [ver |-> noc, label |-> EmptyLabel]
<1>0. PICK added : added = [staged EXCEPT !.fabrics[i] = entry,
                                          !.count = @ + 1,
                                          !.flags = @ \cup {"add", "present"}]
  OBVIOUS
<1>1. /\ Idle /\ armed /\ fsIndex = a /\ a \in {0} \cup Live(mem) /\ ~NocCommandHasBeenInvoked
      /\ UNCHANGED <<armed, busy, events>>
  BY DEF AddNOC, IsFailSafeArmedFor, Accessors
<1>2. /\ "add" \notin mem.flags /\ EnsureNextAvailableFabricIndexUpdated(mem) = mem /\ ~busy
      /\ \A n \in DOMAIN events : events[n].type = "clearMarker" /\ ~events[n].add
  BY <1>1, NoAddYet
<1>3. /\ "key" \in mem.flags /\ MayAddFabric(mem, noc)
      /\ \/ /\ mem' = RevertPendingOpCertsExceptRoot(staged) /\ todo' = <<>>
            /\ UNCHANGED <<fsIndex, invoked>>
         \/ /\ inner
            /\ mem' = RevertPendingOpCertsExceptRoot(added) /\ todo' = RevertOps(added)
            /\ UNCHANGED <<fsIndex, invoked>>
         \/ /\ inner
            /\ mem' = added /\ todo' = <<>>
            /\ fsIndex' = i /\ invoked' = invoked \cup {"addNoc"}
      /\ UNCHANGED <<stored, indexInfo, marker, failed, tainted>>
  BY <1>i, <1>0, <1>2 DEF AddNOC, Operate
<1>4. /\ "root" \in mem.flags /\ "update" \notin mem.flags /\ i # 0
      /\ mem.certs.rcac /\ mem.certs.index = i /\ stored[i].noc = 0 /\ mem.pending \in {0, i}
  BY <1>i, <1>3 DEF MayAddFabric, PendingIndexIsLegal
<1>5. TypeInv /\ QueueInv /\ ReadyInv /\ TableInv /\ IsMem(mem) /\ Tabled(mem)
  BY DEF IInv, TypeInv, TableInv
<1>6. i \in Index /\ i \in 0..MaxIndex
  BY <1>i, <1>4, <1>5, Constants DEF IsMem
<1>7. failed = {} /\ \A j \in Index : Settled(j)
  BY <1>1, WhenIdle
<1>8. i \notin Live(mem) /\ mem.fabrics[i] = Absent
  <2>1. i \notin Live(mem)
    BY <1>2, <1>4, <1>6, <1>7 DEF Settled, AddPending
  <2> QED BY <1>6, <2>1 DEF Live
<1>9. Foul(i) \/ stored[i] = NothingStored
  <2>1. ~Installed(i)
    BY <1>4, Constants DEF Installed, IsWhole
  <2> QED BY <1>6, <1>7, <2>1 DEF Settled
<1>10. mem.certs \in Certs /\ mem.fabrics \in Fabrics
  BY <1>4, <1>5, <1>6, Constants DEF IsMem, NoCerts
<1>11. /\ [mem.certs EXCEPT !.noc = noc] = [index |-> i, rcac |-> TRUE, noc |-> noc]
       /\ [index |-> i, rcac |-> TRUE, noc |-> noc] \in Certs
  <2>1. PICK c : c = mem.certs
    OBVIOUS
  <2>2. c \in Certs /\ c.index = i /\ c.rcac = TRUE
    BY <1>4, <1>10, <2>1 DEF Certs
  <2>3. [c EXCEPT !.noc = noc] = [index |-> c.index, rcac |-> c.rcac, noc |-> noc]
    BY <2>2 DEF Certs
  <2>4. [c EXCEPT !.noc = noc] = [index |-> i, rcac |-> TRUE, noc |-> noc]
    BY <2>2, <2>3
  <2> QED BY <1>6, <2>1, <2>4 DEF Certs
<1>12. /\ staged = [f \in MemFields |-> staged[f]]
       /\ staged.fabrics = mem.fabrics /\ staged.shadow = mem.shadow /\ staged.next = mem.next
       /\ staged.count = mem.count /\ staged.key = mem.key
       /\ staged.certs = [mem.certs EXCEPT !.noc = noc]
       /\ staged.pending = i /\ staged.flags = mem.flags
  BY <1>5 DEF IsMem, MemFields
<1> HIDE DEF staged
<1>13. IsMem(staged) /\ Tabled(staged)
  BY <1>5, <1>6, <1>11, <1>12, SMTT(30) DEF IsMem, Tabled, Live
<1>14. entry \in Entry /\ entry # Absent /\ entry.ver = noc
  BY Constants DEF Entry, Absent
<1> HIDE DEF entry
<1>15. /\ added = [f \in MemFields |-> added[f]]
       /\ added.fabrics = [mem.fabrics EXCEPT ![i] = entry]
       /\ added.shadow = mem.shadow /\ added.next = i
       /\ added.count = mem.count + 1 /\ added.key = mem.key
       /\ added.certs = [index |-> i, rcac |-> TRUE, noc |-> noc]
       /\ added.pending = i /\ added.flags = mem.flags \cup {"add", "present"}
  BY <1>i, <1>0, <1>11, <1>12 DEF MemFields
<1>16. added.fabrics \in Fabrics /\ added.fabrics[i] = entry /\ \A j \in Index \ {i} : added.fabrics[j] = mem.fabrics[j]
  BY <1>6, <1>10, <1>14, <1>15 DEF Fabrics
<1>17. Live(added) = Live(mem) \cup {i}
  BY <1>6, <1>14, <1>16 DEF Live
<1>18. IsMem(added) /\ Tabled(added)
  <2>1. added.count \in Nat
    BY <1>5, <1>15 DEF IsMem
  <2>2. IsMem(added)
    BY <1>5, <1>6, <1>11, <1>15, <1>16, <2>1 DEF IsMem, StateFlags
  <2>3. Cardinality(Live(mem) \cup {i}) = Cardinality(Live(mem)) + 1
    BY <1>8, LiveIsFinite, FS_AddElement
  <2> QED BY <1>4, <1>5, <1>15, <1>17, <2>2, <2>3 DEF Tabled
<1>19. inner => mem.key = [index |-> i, ver |-> noc] \/ (mem.key = NoKey /\ stored[i].key # 0)
  BY DEF ChainIsAccepted
<1>20. invoked \subseteq ContextFlags /\ "addNoc" \notin invoked /\ "updateNoc" \notin invoked
  BY <1>1, <1>5 DEF TypeInv, NocCommandHasBeenInvoked, NocCommands
<1>21. CASE /\ mem' = RevertPendingOpCertsExceptRoot(staged) /\ todo' = <<>>
            /\ UNCHANGED <<fsIndex, invoked>>
  <2>1. "add" \notin staged.flags /\ "root" \in staged.flags
    BY <1>2, <1>4, <1>12
  <2>2. /\ IsMem(mem') /\ mem'.flags = staged.flags \ {"add", "update"} /\ mem'.pending = i
        /\ mem'.fabrics = staged.fabrics /\ mem'.next = staged.next /\ mem'.key = staged.key
        /\ Tabled(mem')
    BY <1>12, <1>13, <1>21, <2>1, RevertCertsIs
  <2>3. mem'.count = mem.count
    BY <1>5, <1>12, <2>2 DEF Tabled, Live
  <2>4. KeyInv'
    <3>1. KeyInv
      BY <1>1, <1>3, <1>5 DEF ReadyInv
    <3>2. mem'.key = mem.key /\ Live(mem') = Live(mem)
      BY <1>12, <2>2 DEF Live
    <3>3. mem.key # NoKey => mem.key.index \in Index
      BY <1>5 DEF IsMem, Key
    <3>4. fsIndex \notin Index \ Live(mem)
      BY <1>1, Constants
    <3> QED BY <1>4, <1>21, <2>2, <3>1, <3>2, <3>3, <3>4, Constants DEF KeyInv
  <2>5. /\ "add" \notin mem'.flags /\ "root" \in mem'.flags
        /\ mem'.fabrics = mem.fabrics /\ mem'.next = mem.next
    BY <1>4, <1>12, <2>2
  <2> QED BY <1>1, <1>3, <1>20, <1>21, <2>2, <2>3, <2>4, <2>5, StagingStep
<1>22. CASE /\ inner /\ mem' = added /\ todo' = <<>>
            /\ fsIndex' = i /\ invoked' = invoked \cup {"addNoc"}
  <2>1. TypeInv'
    BY <1>1, <1>3, <1>5, <1>6, <1>18, <1>20, <1>22 DEF TypeInv, ContextFlags, NocCommands
  <2>2. TodoOK' /\ Storage'
    <3>1. ASSUME NEW j \in Index PROVE KeepsAt(mem, mem', j)
      BY <1>2, <1>9, <1>15, <1>16, <1>17, <1>22 DEF KeepsAt
    <3> QED BY <1>1, <1>3, <1>22, <3>1, QuietStep DEF Keeps
  <2>3. "add" \in mem'.flags /\ mem'.pending = i /\ mem'.next = i
    BY <1>15, <1>22
  <2>4. TableInv'
    BY <1>18, <1>22, <2>3 DEF TableInv, AddPending
  <2>5. QueueInv'
    BY <1>1, <1>5, <1>2 DEF QueueInv
  <2>6. CleanupInv'
    <3>1. Uncommitted(fsIndex)'
      BY <1>3, <1>9, <1>22 DEF Uncommitted, Foul
    <3> QED BY <1>1, <1>2, <1>6, <1>22, <2>3, <3>1 DEF CleanupInv
  <2>7. PendingInv'
    BY <1>4, <1>6, <1>15, <1>22 DEF PendingInv
  <2>8. ReadyInv'
    <3>1. mem.key = NoKey /\ stored[i].key # 0 => Foul(i)
      BY <1>9 DEF NothingStored
    <3>2. ReadyToAdd(fsIndex)'
      <4>1. {"present", "root", "add"} \subseteq mem'.flags /\ mem'.pending = fsIndex'
        BY <1>4, <1>15, <1>22
      <4>2. /\ mem'.certs = [index |-> fsIndex', rcac |-> TRUE, noc |-> noc]
            /\ mem'.fabrics[fsIndex'].ver = noc
        BY <1>14, <1>15, <1>16, <1>22
      <4>3. \/ mem'.key = [index |-> fsIndex', ver |-> noc]
            \/ mem'.key = NoKey /\ Foul(fsIndex)' /\ stored'[fsIndex'].key # 0
        BY <1>3, <1>15, <1>19, <1>22, <3>1 DEF Foul
      <4> QED BY <4>1, <4>2, <4>3 DEF ReadyToAdd
    <3> QED BY <1>20, <1>22, <3>2 DEF ReadyInv, NocCommandHasBeenInvoked, NocCommands
  <2> QED BY <2>1, <2>2, <2>4, <2>5, <2>6, <2>7, <2>8 DEF IInv
<1>23. CASE /\ inner /\ mem' = RevertPendingOpCertsExceptRoot(added)
            /\ todo' = RevertOps(added) /\ UNCHANGED <<fsIndex, invoked>>
  <2>1. "add" \in added.flags /\ "root" \in added.flags /\ "update" \notin added.flags /\ added.pending \in Index
    BY <1>4, <1>6, <1>15
  <2>2. /\ IsMem(mem') /\ Tabled(mem')
        /\ mem'.flags = added.flags \ {"add", "update"} /\ mem'.pending = i
        /\ mem'.fabrics = [added.fabrics EXCEPT ![i] = Absent]
        /\ mem'.next = IF i \in Live(added) /\ added.next = 0 THEN i ELSE added.next
        /\ mem'.key = IF added.key.index = i THEN NoKey ELSE added.key
        /\ Live(mem') = Live(added) \ {i}
    <3>1. added.pending = i
      BY <1>15
    <3>2. /\ IsMem(mem')
          /\ mem'.shadow = NoShadow
          /\ mem'.flags = added.flags \ {"add", "update"}
          /\ mem'.pending = IF "root" \in added.flags THEN added.pending ELSE 0
          /\ mem'.fabrics = [added.fabrics EXCEPT ![added.pending] = Absent]
          /\ mem'.next = IF added.pending \in Live(added) /\ added.next = 0 THEN added.pending ELSE added.next
          /\ mem'.key = IF added.key.index = added.pending THEN NoKey ELSE added.key
          /\ Live(mem') = IF "add" \in added.flags THEN Live(added) \ {added.pending} ELSE Live(added)
          /\ Tabled(mem')
      BY <1>18, <1>23, <2>1, RevertCertsIs
    <3> QED BY <2>1, <3>1, <3>2
  <2>3. /\ mem'.next = i /\ Live(mem') = Live(mem) /\ mem'.key = NoKey
        /\ "add" \notin mem'.flags /\ "root" \in mem'.flags
        /\ \A j \in Index : mem'.fabrics[j] = mem.fabrics[j]
    <3>1. mem'.key = NoKey
      BY <1>15, <1>19, <1>23, <2>2 DEF NoKey
    <3>2. \A j \in Index : mem'.fabrics[j] = mem.fabrics[j]
      BY <1>8, <1>16, <2>2 DEF Fabrics
    <3>3. mem'.next = i
      BY <1>4, <1>15, <2>2
    <3>4. Live(mem') = Live(mem)
      BY <1>8, <1>17, <2>2
    <3>5. "add" \notin mem'.flags /\ "root" \in mem'.flags
      BY <2>1, <2>2
    <3> QED BY <3>1, <3>2, <3>3, <3>4, <3>5
  <2>4. PICK d : d = Delete(added, i)
    OBVIOUS
  <2>5. IsMem(d) /\ d.next = i /\ Live(d) = Live(mem')
    <3>1. /\ IsMem(d)
          /\ d.fabrics = [added.fabrics EXCEPT ![i] = Absent]
          /\ d.next = IF i \in Live(added) /\ added.next = 0 THEN i ELSE added.next
          /\ Live(d) = Live(added) \ {i}
      <4>1. ~({"add", "update"} \subseteq added.flags)
        BY <2>1
      <4>2. i \in Index /\ IsMem(added)
        BY <1>6, <1>18
      <4> QED BY <2>4, <4>1, <4>2, DeleteIs
    <3> QED BY <1>15, <2>2, <3>1
  <2>6. IndexOp(d) = IndexOp(mem')
    BY <2>3, <2>5 DEF IndexOp
  <2>7. todo' = DeleteOps(added, i)
    BY <1>15, <1>23, <2>1 DEF RevertOps
  <2>8. /\ Within(todo', 4, 6)
        /\ Ops(todo') = Erasures(Parts, i) \cup (IF i \in Live(added) THEN {IndexOp(d)} ELSE {})
    BY <1>6, <2>4, <2>5, <2>7, DeleteOpsAre
  <2>9. TypeInv'
    BY <1>1, <1>3, <1>5, <1>23, <2>2 DEF TypeInv
  <2>10. TodoOK' /\ Storage'
    <3>1. ASSUME NEW j \in Index \ {i} PROVE Settled(j)'
      <4>1. KeepsAt(mem, mem', j)
        BY <1>2, <2>3 DEF KeepsAt
      <4> QED BY <1>3, <1>7, <4>1, SettledStays
    <3>2. StoreOK(i)'
      BY <1>3, <1>9 DEF StoreOK, Foul
    <3>3. i \notin Live(mem') /\ failed' = {}
      BY <1>3, <1>7, <1>8, <2>3
    <3>4. todo' \in Seq(Op) /\ Ordered(todo')
      BY <2>8 DEF Within
    <3>5. (Erasures(Parts, i))' = Erasures(Parts, i)
      BY <1>3, <1>15, <2>3 DEF Erasures
    <3> QED BY <1>6, <2>6, <2>8, <2>9, <3>1, <3>2, <3>3, <3>4, <3>5, DeletionStarts
  <2>11. TableInv'
    BY <1>8, <2>2, <2>3 DEF TableInv
  <2>12. QueueInv'
    BY <1>1, <1>5, <1>23 DEF QueueInv
  <2>13. CleanupInv'
    BY <1>1, <1>2, <1>20, <1>23, <2>3 DEF CleanupInv
  <2>14. PendingInv'
    BY <2>3 DEF PendingInv
  <2>15. ReadyInv'
    <3>1. KeyInv'
      BY <1>6, <1>8, <2>2, <2>3 DEF KeyInv
    <3> QED BY <1>20, <1>23, <3>1 DEF ReadyInv
  <2> QED BY <2>9, <2>10, <2>11, <2>12, <2>13, <2>14, <2>15 DEF IInv
<1> QED BY <1>3, <1>21, <1>22, <1>23

(* A relabelling, of a fabric or of its shadow.                            *)
LEMMA LabelStep ==
    ASSUME IInv, Idle, UNCHANGED <<stored, indexInfo, marker, tainted>>,
           UNCHANGED <<armed, busy, fsIndex, invoked, events>>,
           IsMem(mem'), Live(mem') = Live(mem),
           mem'.flags = mem.flags, mem'.pending = mem.pending, mem'.next = mem.next,
           mem'.count = mem.count, mem'.key = mem.key, mem'.certs = mem.certs,
           mem'.shadow.index = mem.shadow.index, mem'.shadow.ver = mem.shadow.ver,
           mem.shadow = NoShadow => mem'.shadow = NoShadow,
           \A j \in Index : mem'.fabrics[j].ver = mem.fabrics[j].ver,
           TodoOK', Storage'
    PROVE  IInv'
<1>1. TypeInv /\ QueueInv /\ CleanupInv /\ TableInv /\ PendingInv /\ ReadyInv
  BY DEF IInv
<1>2. ~Left("finish")
  BY OpsOfEmpty DEF Idle, Left
<1>3. \A j : (Foul(j)' <=> Foul(j)) /\ (Uncommitted(j)' <=> Uncommitted(j))
  BY SameStorage
<1>4. TypeInv'
  BY <1>1 DEF TypeInv
<1>5. TableInv'
  BY <1>1, <1>3 DEF TableInv, Tabled, AddPending
<1>6. QueueInv'
  BY <1>1 DEF QueueInv
<1>7. Bare(mem) => Bare(mem')
  BY DEF Bare
<1>8. CleanupInv'
  <2>1. ~armed => Clean(mem') \/ \E n \in DOMAIN events : events[n].type = "expired"
    BY <1>1, <1>7 DEF CleanupInv, Clean
  <2>2. armed /\ "addNoc" \in invoked => fsIndex \in Index /\ Uncommitted(fsIndex)'
    BY <1>1, <1>3 DEF CleanupInv, Uncommitted, Foul
  <2>3. ASSUME NEW n \in DOMAIN events
        PROVE  /\ events[n].add /\ events[n].fabric \in Index => Uncommitted(events[n].fabric)'
               /\ events[n].type = "expired" /\ "add" \in mem.flags =>
                     events[n].add /\ events[n].fabric = mem.pending
    BY <1>1 DEF CleanupInv, Uncommitted, Foul
  <2> QED BY <1>1, <2>1, <2>2, <2>3 DEF CleanupInv
<1>9. PendingInv'
  BY <1>1, <1>7 DEF PendingInv
<1>10. ReadyInv'
  <2>1. fsIndex \in Live(mem) /\ ReadyToAdd(fsIndex) => ReadyToAdd(fsIndex)'
    BY <1>3, LiveIsFinite DEF ReadyToAdd, Foul
  <2>2. ReadyToUpdate(fsIndex) => ReadyToUpdate(fsIndex)'
    BY DEF ReadyToUpdate
  <2>3. KeyInv => KeyInv'
    BY DEF KeyInv
  <2> QED BY <1>1, <1>2, <2>1, <2>2, <2>3 DEF ReadyInv, NocCommandHasBeenInvoked
<1> QED BY <1>4, <1>5, <1>6, <1>8, <1>9, <1>10 DEF IInv

LEMMA UpdateFabricLabelInv ==
    ASSUME IInv, NEW i \in Index, NEW label \in Labels, UpdateFabricLabel(i, label)
    PROVE  IInv'
<1>1. /\ Idle /\ i \in Live(mem)
      /\ UNCHANGED <<stored, indexInfo, marker, failed, tainted>>
      /\ UNCHANGED <<armed, busy, fsIndex, invoked, events>>
  BY DEF UpdateFabricLabel, Operate, failSafeVars
<1>2. IsMem(mem) /\ PendingInv /\ mem.fabrics \in Fabrics /\ mem.shadow \in Shadow \cup {NoShadow}
  BY DEF IInv, TypeInv, IsMem
<1>3. failed = {} /\ \A j \in Index : Settled(j)
  BY <1>1, WhenIdle
<1>4. CASE Shadowed(mem, i)
  <2>1. mem' = [mem EXCEPT !.shadow.label = label] /\ todo' = <<>>
    BY <1>4 DEF UpdateFabricLabel, Operate
  <2>2. mem.shadow \in Shadow /\ mem.shadow # NoShadow
    BY <1>2, <1>4, Constants DEF Shadowed, NoShadow
  <2>3. /\ mem' = [f \in MemFields |-> mem'[f]]
        /\ mem'.shadow = [mem.shadow EXCEPT !.label = label]
        /\ mem'.fabrics = mem.fabrics /\ mem'.flags = mem.flags /\ mem'.pending = mem.pending
        /\ mem'.next = mem.next /\ mem'.count = mem.count /\ mem'.key = mem.key
        /\ mem'.certs = mem.certs
    BY <1>2, <2>1 DEF IsMem, MemFields
  <2>4. mem'.shadow \in Shadow /\ mem'.shadow.index = mem.shadow.index /\ mem'.shadow.ver = mem.shadow.ver
    BY <2>2, <2>3 DEF Shadow
  <2>5. IsMem(mem')
    BY <1>2, <2>3, <2>4 DEF IsMem
  <2>6. Live(mem') = Live(mem)
    BY <2>3 DEF Live
  <2>7. TodoOK' /\ Storage'
    <3>2. Keeps(mem, mem')
      BY <2>3, <2>6, KeepsItself DEF Keeps, KeepsAt
    <3> QED BY <1>1, <2>1, <3>2, QuietStep
  <2> QED BY <1>1, <2>2, <2>3, <2>4, <2>5, <2>6, <2>7, LabelStep
<1>5. CASE ~Shadowed(mem, i)
  <2>1. /\ mem' = [mem EXCEPT !.fabrics[i].label = label]
        /\ todo' = IF mem.flags \cap {"add", "update"} = {} THEN <<Put("meta", i, label)>> ELSE <<>>
    BY <1>5 DEF UpdateFabricLabel, Operate
  <2>2. mem.fabrics[i] \in Entry
    BY <1>1, <1>2 DEF Fabrics, Live
  <2>3. PICK e : e = [mem.fabrics[i] EXCEPT !.label = label]
    OBVIOUS
  <2>4. e \in Entry /\ e.ver = mem.fabrics[i].ver /\ e # Absent
    BY <2>2, <2>3, Constants DEF Entry, Absent
  <2>5. /\ mem' = [f \in MemFields |-> mem'[f]]
        /\ mem'.fabrics = [mem.fabrics EXCEPT ![i] = e]
        /\ mem'.shadow = mem.shadow /\ mem'.flags = mem.flags /\ mem'.pending = mem.pending
        /\ mem'.next = mem.next /\ mem'.count = mem.count /\ mem'.key = mem.key
        /\ mem'.certs = mem.certs
    BY <1>2, <2>1, <2>3 DEF IsMem, MemFields, Fabrics
  <2>6. /\ mem'.fabrics \in Fabrics /\ mem'.fabrics[i] = e
        /\ \A j \in Index \ {i} : mem'.fabrics[j] = mem.fabrics[j]
    BY <1>2, <2>4, <2>5 DEF Fabrics
  <2>7. IsMem(mem')
    BY <1>2, <2>5, <2>6 DEF IsMem
  <2>8. \A j \in Index : mem'.fabrics[j].ver = mem.fabrics[j].ver
    BY <2>4, <2>6
  <2>9. Live(mem') = Live(mem)
    BY <1>1, <2>4, <2>6 DEF Live
  <2>10. Keeps(mem, mem')
    BY <2>5, <2>8, <2>9 DEF Keeps, KeepsAt
  <2>11. TodoOK' /\ Storage'
    <3>1. CASE mem.flags \cap {"add", "update"} = {}
      <4>1. todo' = <<Put("meta", i, label)>> /\ Put("meta", i, label) \in Op
        BY <2>1, <3>1, Constants, PutIsOp
      <4>2. todo' \in Seq(Op) /\ Ops(todo') = {Put("meta", i, label)} /\ Ordered(todo') /\ todo' # <<>>
        BY <4>1, OpsOfOne
      <4>3. TodoOK'
        BY <4>2, StageOfPut DEF TodoOK
      <4>4. \A j \in Index : Settled(j)'
        BY <1>1, <1>3, <2>10, SettledStays DEF Keeps
      <4>5. stored[i].noc # 0
        BY <1>1, <1>3, <3>1 DEF Settled, AddPending
      <4>6. Relabelling(i)'
        BY <1>1, <1>3, <4>1, <4>4, <4>5 DEF Relabelling
      <4>7. Work(i)'
        BY <4>2, <4>4, <4>6, StageOfPut DEF Work, Idle
      <4> QED BY <4>3, <4>7 DEF Storage
    <3>2. CASE mem.flags \cap {"add", "update"} # {}
      BY <1>1, <2>1, <2>10, <3>2, QuietStep
    <3> QED BY <3>1, <3>2
  <2> QED BY <1>1, <2>5, <2>7, <2>8, <2>9, <2>11, LabelStep
<1> QED BY <1>4, <1>5

(* What ReadyInv is for: a NOC command that was accepted can be committed. *)
LEMMA CommitIsPrepared ==
    ASSUME IInv, Idle, armed, NocCommandHasBeenInvoked, fsIndex \in Live(mem)
    PROVE  /\ ReadyToAdd(fsIndex) \/ ReadyToUpdate(fsIndex)
           /\ CommitIsReady
<1>1. TypeInv /\ PendingInv /\ ReadyInv /\ fsIndex \in Index
  BY LiveIsFinite DEF IInv
<1>2. ~Left("finish")
  BY OpsOfEmpty DEF Idle, Left
<1>3. ReadyToAdd(fsIndex) \/ ReadyToUpdate(fsIndex)
  BY <1>1, <1>2 DEF ReadyInv, NocCommandHasBeenInvoked, NocCommands
<1>4. fsIndex # 0
  BY <1>1, Constants
<1>5. CASE ReadyToAdd(fsIndex)
  <2>1. /\ {"present", "root", "add"} \subseteq mem.flags /\ "update" \notin mem.flags
        /\ mem.pending = fsIndex
    BY <1>1, <1>5 DEF ReadyToAdd, PendingInv
  <2>2. PICK v \in Versions :
           /\ mem.certs = [index |-> fsIndex, rcac |-> TRUE, noc |-> v]
           /\ \/ mem.key = [index |-> fsIndex, ver |-> v]
              \/ mem.key = NoKey /\ stored[fsIndex].key # 0
    BY <1>5 DEF ReadyToAdd
  <2>3. mem.certs.rcac /\ mem.certs.index = fsIndex
    BY <2>2
  <2>4. mem.key.index = fsIndex \/ stored[fsIndex].key # 0
    BY <2>2
  <2>5. {"root", "update"} \cap mem.flags = {"root"} /\ {"add", "update"} \cap mem.flags # {}
    BY <2>1
  <2> QED BY <1>3, <1>4, <2>1, <2>3, <2>4, <2>5 DEF CommitIsReady, CommitIsConsistent
<1>6. CASE ReadyToUpdate(fsIndex)
  <2>1. /\ {"present", "update"} \subseteq mem.flags /\ "add" \notin mem.flags
        /\ mem.pending = fsIndex /\ mem.shadow.index = fsIndex /\ mem.key.index = fsIndex
    BY <1>6 DEF ReadyToUpdate
  <2>2. {"add", "update"} \cap mem.flags # {}
    BY <2>1
  <2> QED BY <1>3, <1>4, <2>1, <2>2 DEF CommitIsReady, CommitIsConsistent
<1> QED BY <1>3, <1>5, <1>6

(* A commit begins: mem' are the members afterwards.                       *)
LEMMA CommitStarts ==
    ASSUME IInv, Idle, armed, NEW i \in Index, fsIndex = i, i \in Live(mem),
           UNCHANGED <<stored, indexInfo, marker, failed, tainted>>,
           UNCHANGED <<armed, busy, fsIndex, invoked, events>>, NocCommandHasBeenInvoked,
           IsMem(mem'), Clean(mem'), Tabled(mem'), Live(mem') = Live(mem),
           \A j \in Index \ {i} : mem'.fabrics[j] = mem.fabrics[j],
           "add" \in mem.flags => mem.pending = i,
           mem'.next \in Live(mem') => mem'.next = mem.next /\ "add" \notin mem.flags,
           NEW l \in Labels, NEW v \in Versions, mem'.fabrics[i].label = l, mem'.fabrics[i].ver = v,
           Within(todo', 1, 7),
           \A o \in Ops(todo') :
             \/ o \in {Put("marker", i, 1), Put("meta", i, l), Put("noc", i, v), Put("icac", i, v),
                       Put("key", i, v), Put("rcac", i, 1), Put("certs", i, 0), Put("finish", i, 0)}
             \/ o = Put("certs", i, 1) /\ mem'.next # i
             \/ o = IndexOp(mem'),
           {Put("marker", i, 1), Put("meta", i, l), Put("noc", i, v), Put("icac", i, v),
            Put("finish", i, 0)} \subseteq Ops(todo'),
           Put("key", i, v) \in Ops(todo') \/ Foul(i),
           Put("rcac", i, 1) \in Ops(todo') \/ stored[i].noc # 0,
           IndexOp(mem') \in Ops(todo') \/ stored[i].noc # 0
    PROVE  IInv'
<1>1. TypeInv /\ QueueInv /\ CleanupInv /\ TableInv
  BY DEF IInv
<1>2. failed = {} /\ \A j \in Index : Settled(j)
  BY WhenIdle
<1>3. \A p, w : Put(p, i, w).part = p /\ Put(p, i, w).index = i /\ Put(p, i, w).value = w
  BY DEF Put
<1>4. /\ IndexOp(mem').part = "index" /\ IndexOp(mem').index = mem'.next
      /\ IndexOp(mem').value = 1 /\ IndexOp(mem').list = Live(mem')
  BY DEF IndexOp
<1>5. l # 0 /\ v # 0
  BY Constants
<1>6. TypeInv'
  BY <1>1 DEF TypeInv
<1>7. ASSUME NEW o \in Ops(todo')
      PROVE  /\ o.part = "index" => o.index = mem'.next /\ o.list = Live(mem') /\ o.value = 1
             /\ o.part # "index" => o.index = i
             /\ CommitOp(i, o)'
  <2>1. CASE o = IndexOp(mem')
    BY <1>4, <2>1 DEF CommitOp
  <2>2. CASE o = Put("marker", i, 1)
    BY <1>3, <2>2 DEF CommitOp, IsMark
  <2>3. CASE o = Put("finish", i, 0)
    BY <1>3, <2>3 DEF CommitOp
  <2>4. CASE o = Put("certs", i, 0) \/ (o = Put("certs", i, 1) /\ mem'.next # i)
    BY <1>3, <2>4 DEF CommitOp
  <2>5. CASE o = Put("meta", i, l)
    BY <1>3, <1>5, <2>5, Constants DEF CommitOp, IsPut, Target
  <2>6. CASE o = Put("noc", i, v)
    BY <1>3, <1>5, <2>6, Constants DEF CommitOp, IsPut, Target
  <2>7. CASE o = Put("icac", i, v)
    BY <1>3, <1>5, <2>7, Constants DEF CommitOp, IsPut, Target
  <2>8. CASE o = Put("key", i, v)
    BY <1>3, <1>5, <2>8, Constants DEF CommitOp, IsPut, Target
  <2>9. CASE o = Put("rcac", i, 1)
    BY <1>3, <1>5, <2>9, Constants DEF CommitOp, IsPut, Target
  <2> QED BY <2>1, <2>2, <2>3, <2>4, <2>5, <2>6, <2>7, <2>8, <2>9
<1>8. todo' \in Seq(Op) /\ Ordered(todo') /\ Put("finish", i, 0) \in Ops(todo') /\ todo' # <<>>
  BY OpsOfEmpty DEF Within
<1>9. TodoOK'
  BY <1>7, <1>8 DEF TodoOK
<1>10. \A j \in Index \ {i} : Settled(j)'
  <2>1. ASSUME NEW j \in Index \ {i} PROVE KeepsAt(mem, mem', j)
    BY <2>1 DEF KeepsAt
  <2> QED BY <1>2, <2>1, SettledStays
<1>11. Left("finish")' /\ MarkLeft'
  BY <1>3, <1>8 DEF Left, MarkLeft, IsMark
<1>12. /\ \A p \in {"meta", "noc", "icac"} : (PutLeft(p))'
       /\ (PutLeft("key"))' \/ Foul(i)
       /\ (PutLeft("rcac"))' \/ stored[i].noc # 0
       /\ (Left("index"))' \/ stored[i].noc # 0
  <2>1. (PutLeft("meta"))' /\ (PutLeft("noc"))' /\ (PutLeft("icac"))'
    BY <1>3, <1>5 DEF PutLeft
  <2>2. (PutLeft("key"))' \/ Foul(i)
    BY <1>3, <1>5 DEF PutLeft
  <2>3. (PutLeft("rcac"))' \/ stored[i].noc # 0
    BY <1>3 DEF PutLeft
  <2>4. (Left("index"))' \/ stored[i].noc # 0
    BY <1>4 DEF Left
  <2> QED BY <2>1, <2>2, <2>3, <2>4
<1>13. stored[i].noc # 0 /\ ~Foul(i) => Installed(i)
  BY <1>2 DEF Settled, NothingStored
<1>14. Commit(i)'
  <2>1. Unmarked(i)'
    <3>1. /\ marker = i => stored[i] = NothingStored
          /\ Foul(i) \/ stored[i] = NothingStored \/ Installed(i)
      BY <1>2 DEF Settled
    <3> QED BY <3>1, SameStorage DEF Unmarked
  <2>2. ASSUME ~Foul(i)'
        PROVE  /\ \A p \in Parts : (PutLeft(p))' \/ stored'[i][p] = Target(i, p)'
               /\ Left("index")' \/ (i \in indexInfo'.list /\ i # indexInfo'.next)
    <3>1. ~Foul(i) /\ (stored[i].noc # 0 => Installed(i))
      BY <1>13, <2>2, SameStorage
    <3>2. (PutLeft("rcac"))' \/ stored'[i].rcac = Target(i, "rcac")'
      BY <1>12, <3>1 DEF Installed, IsWhole, Target
    <3>3. Left("index")' \/ (i \in indexInfo'.list /\ i # indexInfo'.next)
      BY <1>12, <3>1 DEF Installed
    <3> QED BY <1>12, <3>1, <3>2, <3>3, Constants
  <2> QED BY <1>2, <1>7, <1>11, <1>12, <2>1, <2>2 DEF Commit
<1>15. Storage'
  BY <1>7, <1>8, <1>10, <1>14 DEF Storage, Work, Idle
<1>16. TableInv'
  BY <1>1, SameStorage DEF TableInv, AddPending, Foul
<1>17. QueueInv'
  BY <1>1 DEF QueueInv
<1>18. "add" \notin mem'.flags
  BY DEF Clean
<1>19. CleanupInv'
  BY <1>1, <1>18 DEF CleanupInv, Uncommitted, Foul
<1>20. PendingInv'
  BY <1>18 DEF PendingInv, Clean
<1>21. ReadyInv'
  BY <1>11 DEF ReadyInv, NocCommandHasBeenInvoked
<1> QED BY <1>6, <1>9, <1>15, <1>16, <1>17, <1>19, <1>20, <1>21 DEF IInv

LEMMA CommissioningCompleteInv ==
    ASSUME IInv, ~MayAbandon, NEW i \in Index, CommissioningComplete(i)
    PROVE  IInv'
<1>1. Idle /\ i \in Live(mem) /\ armed /\ fsIndex = i
  BY DEF CommissioningComplete, IsFailSafeArmedFor
<1>2. /\ TypeInv /\ QueueInv /\ CleanupInv /\ TableInv /\ PendingInv /\ ReadyInv
      /\ IsMem(mem) /\ Tabled(mem)
  BY DEF IInv, TypeInv, TableInv
<1>3. CASE ~NocCommandHasBeenInvoked
  <2>1. /\ mem.flags = {} /\ armed' = FALSE /\ busy' = FALSE /\ invoked' = {} /\ fsIndex' = fsIndex
        /\ UNCHANGED <<events, mem, stored, indexInfo, marker, todo, failed, tainted>>
    BY <1>3 DEF CommissioningComplete, ResetState
  <2>2. Clean(mem) /\ ~busy
    BY <1>1, <1>2, <2>1 DEF PendingInv, Clean, QueueInv
  <2>3. TypeInv'
    BY <1>2, <2>1 DEF TypeInv
  <2>4. TodoOK' /\ Storage'
    BY <1>1, <2>1, QuietStep, KeepsItself DEF Idle
  <2>5. TableInv' /\ PendingInv'
    BY <2>1, SameTable
  <2>6. QueueInv'
    BY <1>2, <2>1, <2>2 DEF QueueInv
  <2>7. CleanupInv'
    BY <1>2, <2>1, <2>2 DEF CleanupInv, Uncommitted, Foul
  <2>8. ReadyInv'
    BY <2>1 DEF ReadyInv
  <2> QED BY <2>3, <2>4, <2>5, <2>6, <2>7, <2>8 DEF IInv
<1>4. CASE NocCommandHasBeenInvoked
  <2>1. CommitIsReady /\ (ReadyToAdd(i) \/ ReadyToUpdate(i))
    BY <1>1, <1>4, CommitIsPrepared
  <2>2. /\ mem' = Committed(mem) /\ todo' = CommitOps(mem)
        /\ UNCHANGED <<stored, indexInfo, marker, failed, tainted>>
        /\ UNCHANGED <<armed, busy, fsIndex, invoked, events>>
    BY <1>4, <2>1 DEF CommissioningComplete, CommitIsReady, Operate, failSafeVars
  <2>3. failed = {} /\ \A j \in Index : Settled(j)
    BY <1>1, WhenIdle
  <2>4. mem.fabrics \in Fabrics /\ mem.fabrics[i] \in Entry
    BY <1>1, <1>2 DEF IsMem, Fabrics, Live
  <2>5. CASE ReadyToAdd(i)
    <3>1. "add" \in mem.flags /\ "update" \notin mem.flags /\ mem.pending = i /\ mem.next = i
      BY <1>2, <2>5 DEF ReadyToAdd, PendingInv
    <3>2. PICK v \in Versions :
             /\ mem.certs = [index |-> i, rcac |-> TRUE, noc |-> v]
             /\ mem.fabrics[i].ver = v
             /\ mem.key = [index |-> i, ver |-> v] \/ (mem.key = NoKey /\ Foul(i))
      BY <2>5 DEF ReadyToAdd
    <3>3. /\ IsMem(mem') /\ Clean(mem') /\ Tabled(mem')
          /\ mem'.fabrics = mem.fabrics /\ Live(mem') = Live(mem)
          /\ mem'.next # mem.next /\ mem'.next \notin Live(mem)
      BY <1>1, <1>2, <2>2, <3>1, CommittedAdd
    <3>4. PICK l \in Labels : l = mem.fabrics[i].label
      BY <2>4 DEF Entry
    <3>5. [index |-> i, ver |-> v] # NoKey /\ mem.certs.noc = v /\ mem.certs.rcac
      BY <3>2, Constants DEF NoKey
    <3>6. mem.key # NoKey => mem.key.ver = v
      BY <3>2
    <3>7. mem.key = NoKey => Foul(i)
      BY <3>2, <3>5
    <3>8. /\ Within(todo', 1, 7)
          /\ Ops(todo') = {Put("marker", i, 1), Put("meta", i, l), Put("noc", i, v), Put("icac", i, v),
                           Put("certs", i, IF "add" \in mem.flags THEN 1 ELSE 0), Put("finish", i, 0)}
                          \cup (IF mem.key = NoKey THEN {} ELSE {Put("key", i, mem.key.ver)})
                          \cup (IF mem.certs.rcac THEN {Put("rcac", i, 1)} ELSE {})
                          \cup (IF "add" \in mem.flags THEN {IndexOp(mem')} ELSE {})
      <4>1. mem.key = NoKey \/ mem.key.ver \in Versions
        BY <3>2
      <4>2. i = mem.pending /\ l = mem'.fabrics[i].label /\ v = mem.certs.noc
        BY <3>1, <3>3, <3>4, <3>5
      <4> QED BY <2>2, <3>3, <4>1, <4>2, CommitOpsAre
    <3>9. /\ \A o \in Ops(todo') :
               \/ o \in {Put("marker", i, 1), Put("meta", i, l), Put("noc", i, v), Put("icac", i, v),
                         Put("key", i, v), Put("rcac", i, 1), Put("certs", i, 0), Put("finish", i, 0)}
               \/ o = Put("certs", i, 1)
               \/ o = IndexOp(mem')
          /\ {Put("marker", i, 1), Put("meta", i, l), Put("noc", i, v), Put("icac", i, v),
              Put("finish", i, 0)} \subseteq Ops(todo')
          /\ Put("key", i, v) \in Ops(todo') \/ Foul(i)
          /\ Put("rcac", i, 1) \in Ops(todo') /\ IndexOp(mem') \in Ops(todo')
      BY <3>1, <3>5, <3>6, <3>7, <3>8
    <3>10. \A j \in Index \ {i} : mem'.fabrics[j] = mem.fabrics[j]
      BY <3>3
    <3>11. mem'.fabrics[i].label = l /\ mem'.fabrics[i].ver = v /\ mem'.next # i /\ mem'.next \notin Live(mem')
      BY <3>1, <3>2, <3>3, <3>4
    <3> QED BY <1>1, <1>4, <2>2, <3>1, <3>3, <3>8, <3>9, <3>10, <3>11, CommitStarts
  <2>6. CASE ReadyToUpdate(i)
    <3>1. /\ "add" \notin mem.flags /\ "update" \in mem.flags /\ mem.pending = i
          /\ Shadowed(mem, mem.pending)
          /\ mem.certs = [index |-> i, rcac |-> FALSE, noc |-> mem.shadow.ver]
          /\ mem.key = [index |-> i, ver |-> mem.shadow.ver]
      BY <2>6 DEF ReadyToUpdate, Shadowed
    <3>2. /\ IsMem(mem') /\ Clean(mem') /\ Tabled(mem')
          /\ mem'.fabrics = [mem.fabrics EXCEPT ![mem.pending] =
                               [ver |-> mem.shadow.ver, label |-> mem.shadow.label]]
          /\ mem.shadow \in Shadow
          /\ Live(mem') = Live(mem) /\ mem'.next = mem.next
      BY <1>1, <1>2, <2>2, <3>1, CommittedUpdate
    <3>3. PICK v \in Versions, l \in Labels : v = mem.shadow.ver /\ l = mem.shadow.label
      BY <3>2 DEF Shadow
    <3>4. mem'.fabrics[i].label = l /\ mem'.fabrics[i].ver = v
      BY <2>4, <3>1, <3>2, <3>3 DEF Fabrics
    <3>5. \A j \in Index \ {i} : mem'.fabrics[j] = mem.fabrics[j]
      BY <2>4, <3>1, <3>2 DEF Fabrics
    <3>6. mem.key # NoKey /\ mem.key.ver = v /\ mem.certs.noc = v /\ mem.certs.rcac = FALSE
      BY <3>1, <3>3, Constants DEF NoKey
    <3>7. /\ Within(todo', 1, 7)
          /\ Ops(todo') = {Put("marker", i, 1), Put("meta", i, l), Put("noc", i, v), Put("icac", i, v),
                           Put("certs", i, IF "add" \in mem.flags THEN 1 ELSE 0), Put("finish", i, 0)}
                          \cup (IF mem.key = NoKey THEN {} ELSE {Put("key", i, mem.key.ver)})
                          \cup (IF mem.certs.rcac THEN {Put("rcac", i, 1)} ELSE {})
                          \cup (IF "add" \in mem.flags THEN {IndexOp(mem')} ELSE {})
      <4>1. mem.key = NoKey \/ mem.key.ver \in Versions
        BY <3>6
      <4>2. i = mem.pending /\ l = mem'.fabrics[i].label /\ v = mem.certs.noc
        BY <3>1, <3>4, <3>6
      <4>3. IsMem(mem')
        BY <3>2
      <4> QED BY <2>2, <4>1, <4>2, <4>3, CommitOpsAre
    <3>8. /\ \A o \in Ops(todo') :
               o \in {Put("marker", i, 1), Put("meta", i, l), Put("noc", i, v), Put("icac", i, v),
                      Put("key", i, v), Put("rcac", i, 1), Put("certs", i, 0), Put("finish", i, 0)}
          /\ {Put("marker", i, 1), Put("meta", i, l), Put("noc", i, v), Put("icac", i, v),
              Put("finish", i, 0)} \subseteq Ops(todo')
          /\ Put("key", i, v) \in Ops(todo')
      BY <3>1, <3>6, <3>7
    <3>9. stored[i].noc # 0
      BY <1>1, <2>3, <3>1 DEF Settled, AddPending
    <3>10. mem'.next \in Live(mem') => mem'.next = mem.next /\ "add" \notin mem.flags
      BY <3>1, <3>2
    <3>11. IsMem(mem') /\ Clean(mem') /\ Tabled(mem') /\ Live(mem') = Live(mem)
      BY <3>2
    <3> QED BY <1>1, <1>4, <2>2, <3>1, <3>4, <3>5, <3>7, <3>8, <3>9, <3>10, <3>11, CommitStarts
  <2> QED BY <2>1, <2>5, <2>6
<1> QED BY <1>3, <1>4

-----------------------------------------------------------------------------
(* Steps of storage.                                                       *)

(* One storage operation is done or fails: what is left of the invariant   *)
(* when the parts about storage have been shown.                           *)
LEMMA StorageStep ==
    ASSUME IInv, UNCHANGED <<armed, busy, fsIndex, invoked, events, mem>>,
           stored' \in [Index -> StoredRecord],
           indexInfo' \in [next : 0..MaxIndex, list : SUBSET Index],
           marker' \in 0..MaxIndex, tainted' \subseteq Index,
           TodoOK', Storage', (Left("finish"))' <=> Left("finish"),
           \A j \in Index : /\ Uncommitted(j) => Uncommitted(j)' \/ (~armed /\ ~busy)
                            /\ Foul(j) => Foul(j)' \/ j \notin Live(mem) \/ (mem.next # j /\ Left("finish"))
                            /\ Foul(j) /\ stored[j].key # 0 =>
                                  stored'[j].key # 0 \/ j \notin Live(mem) \/ Left("finish")
    PROVE  IInv'
<1>1. TypeInv /\ QueueInv /\ CleanupInv /\ TableInv /\ PendingInv /\ ReadyInv
  BY DEF IInv
<1>2. TypeInv'
  BY <1>1 DEF TypeInv
<1>3. TableInv'
  <2>1. Tabled(mem) /\ Live(mem) \subseteq Index
    BY <1>1, LiveIsFinite DEF TableInv
  <2>2. ASSUME mem.next \in Live(mem) PROVE Foul(mem.next)' \/ AddPending(mem.next)
    <3>1. Foul(mem.next) \/ AddPending(mem.next)
      BY <1>1, <2>2 DEF TableInv
    <3>2. PICK n \in Index : n = mem.next
      BY <2>1, <2>2
    <3>3. Foul(n) => Foul(n)'
      BY <2>2, <3>2
    <3>4. Foul(n)' <=> n \in tainted' /\ stored'[n] # NothingStored
      BY DEF Foul
    <3> QED BY <3>1, <3>2, <3>3, <3>4 DEF Foul
  <2> QED BY <2>1, <2>2 DEF TableInv, AddPending, Foul
<1>4. QueueInv'
  BY <1>1 DEF QueueInv
<1>5. CleanupInv'
  <2>1. ASSUME NEW n \in DOMAIN events, events[n].add, events[n].fabric \in Index
        PROVE  Uncommitted(events[n].fabric)'
    <3>1. PICK j \in Index : j = events[n].fabric
      BY <2>1
    <3>2. Uncommitted(j) /\ (~armed /\ ~busy => FALSE)
      BY <1>1, <2>1, <3>1 DEF CleanupInv, QueueInv
    <3>3. Uncommitted(j)'
      BY <3>2
    <3> QED BY <3>1, <3>3 DEF Uncommitted, Foul
  <2>2. ASSUME armed, "addNoc" \in invoked PROVE fsIndex \in Index /\ Uncommitted(fsIndex)'
    <3>1. PICK j \in Index : j = fsIndex /\ Uncommitted(j)
      BY <1>1, <2>2 DEF CleanupInv
    <3>2. Uncommitted(j)'
      BY <2>2, <3>1
    <3> QED BY <3>1, <3>2 DEF Uncommitted, Foul
  <2> QED BY <1>1, <2>1, <2>2 DEF CleanupInv
<1>6. PendingInv'
  BY <1>1 DEF PendingInv
<1>7. ReadyInv'
  <2>1. ASSUME ~Left("finish"), fsIndex \in Live(mem), ReadyToAdd(fsIndex) PROVE ReadyToAdd(fsIndex)'
    <3>1. PICK j \in Index : j = fsIndex
      BY <2>1, LiveIsFinite
    <3>2. Foul(j) /\ stored[j].key # 0 => Foul(j)' /\ stored'[j].key # 0
      BY <2>1, <3>1
    <3> QED BY <2>1, <3>1, <3>2 DEF ReadyToAdd, Foul
  <2>2. ReadyToUpdate(fsIndex) => ReadyToUpdate(fsIndex)'
    BY DEF ReadyToUpdate
  <2>3. KeyInv => KeyInv'
    BY DEF KeyInv
  <2> QED BY <1>1, <2>1, <2>2, <2>3 DEF ReadyInv, NocCommandHasBeenInvoked
<1> QED BY <1>2, <1>3, <1>4, <1>5, <1>6, <1>7 DEF IInv

(* The operation at the head of todo, and those behind it.                 *)
LEMMA NextOperation ==
    ASSUME IInv, ~Idle
    PROVE  /\ Head(todo) \in Op /\ Tail(todo) \in Seq(Op) /\ Ordered(Tail(todo))
           /\ Ops(todo) = {Head(todo)} \cup Ops(Tail(todo))
           /\ \A o \in Ops(Tail(todo)) : Before(Head(todo), o) /\ o \in Op
           /\ \E i \in Index : Work(i)
<1>1. todo \in Seq(Op) /\ Ordered(todo) /\ todo # <<>>
  BY DEF IInv, TodoOK, Idle
<1>2. /\ Head(todo) \in Op /\ Tail(todo) \in Seq(Op)
      /\ Ops(todo) = {Head(todo)} \cup Ops(Tail(todo))
      /\ Ordered(Tail(todo)) /\ \A o \in Ops(Tail(todo)) : Before(Head(todo), o)
  BY <1>1, OpsOfTail
<1>3. \A o \in Ops(Tail(todo)) : o \in Op
  BY <1>2 DEF Ops
<1> QED BY <1>2, <1>3 DEF IInv, Storage

(* Which operation belongs to which phase.                                 *)
LEMMA StageOf ==
    ASSUME NEW o \in Op
    PROVE  /\ o.part \in Parts \cup {"index", "marker", "certs", "finish"}
           /\ o.index \in 0..MaxIndex /\ o.value \in Nat
           /\ Stage(o) \in 1..8
           /\ Stage(o) = 1 <=> o.part = "marker" /\ o.value # 0
           /\ Stage(o) = 2 <=> IsPut(o)
           /\ Stage(o) = 3 <=> o.part = "certs"
           /\ Stage(o) = 4 <=> IsErase(o) /\ o.part = "meta"
           /\ Stage(o) = 5 <=> IsErase(o) /\ o.part # "meta"
           /\ Stage(o) = 6 <=> o.part = "index"
           /\ Stage(o) = 7 <=> o.part = "finish"
           /\ Stage(o) = 8 <=> IsUnmark(o)
<1>1. /\ o.part \in {"meta", "key", "noc", "icac", "rcac", "index", "marker", "certs", "finish"}
      /\ o.index \in 0..MaxIndex /\ o.value \in Nat
  BY Constants DEF Op
<1>2. /\ IsPut(o) <=> o.part \in {"meta", "key", "noc", "icac", "rcac"} /\ o.value # 0
      /\ IsErase(o) <=> o.part \in {"meta", "key", "noc", "icac", "rcac"} /\ o.value = 0
  BY Constants DEF IsPut, IsErase
<1>3. CASE o.part = "marker"
  BY <1>1, <1>2, <1>3, Constants DEF Stage, IsUnmark
<1>4. CASE o.part \in {"certs", "index", "finish"}
  BY <1>1, <1>2, <1>4, Constants DEF Stage, IsUnmark
<1>5. CASE o.part \in {"meta", "key", "noc", "icac", "rcac"}
  <2>1. CASE o.value # 0
    BY <1>1, <1>2, <1>5, <2>1, Constants DEF Stage, IsUnmark
  <2>2. CASE o.value = 0
    BY <1>1, <1>2, <1>5, <2>2, Constants DEF Stage, IsUnmark
  <2> QED BY <2>1, <2>2
<1> QED BY <1>1, <1>3, <1>4, <1>5

(* The operations that only a commit has.                                  *)
LEMMA OnlyACommit ==
    ASSUME IInv, ~Idle, NEW i \in Index, Work(i), Head(todo).part \in {"certs", "finish"}
    PROVE  /\ Commit(i) /\ Head(todo).index = i
           /\ ~MarkLeft
           /\ \A p \in Parts : ~PutLeft(p)
           /\ Within(Tail(todo), 5, 7)
           /\ Head(todo).part = "finish" => Tail(todo) = <<>>
<1> DEFINE op == Head(todo)
           rest == Tail(todo)
<1>1. /\ op \in Op /\ rest \in Seq(Op) /\ Ordered(rest) /\ Ops(todo) = {op} \cup Ops(rest)
      /\ \A o \in Ops(rest) : Before(op, o) /\ o \in Op
  BY NextOperation
<1> HIDE DEF op, rest
<1>2. op.part \in {"certs", "finish"} /\ op.part # "index"
  BY DEF op
<1>3. op.index = i
  BY <1>1, <1>2 DEF Work
<1>4. op \notin {Put("marker", i, 0)} /\ \A l : op # Put("meta", i, l)
  BY <1>2 DEF Put
<1>5. ~IsErase(op) /\ ~IsUnmark(op)
  BY <1>2, Constants DEF IsErase, IsUnmark
<1>6. Commit(i)
  <2>1. ~Relabelling(i) /\ ~Concluding(i)
    BY <1>4 DEF Relabelling, Concluding, op
  <2>2. ~Deleting(i)
    BY <1>1, <1>2, <1>5 DEF Deleting
  <2> QED BY <2>1, <2>2 DEF Work
<1>7. Stage(op) = IF op.part = "certs" THEN 3 ELSE 7
  BY <1>1, <1>2, StageOf
<1>8. \A o \in Ops(rest) : Stage(o) > Stage(op)
  BY <1>1, <1>7 DEF Before
<1>9. ASSUME NEW o \in Ops(rest) PROVE Stage(o) \in 5..7
  <2>1. o \in Op /\ CommitOp(i, o)
    BY <1>1, <1>6 DEF Commit
  <2>2. Stage(o) # 4 /\ Stage(o) # 8
    BY <2>1, StageOf DEF CommitOp, IsErase, IsUnmark, IsMark, IsPut
  <2>3. Stage(o) \in 1..8
    BY <2>1, StageOf
  <2>4. Stage(o) > 3
    BY <1>2, <1>7, <1>8, <2>3
  <2> QED BY <2>2, <2>3, <2>4
<1>10. Within(rest, 5, 7)
  BY <1>1, <1>9 DEF Within
<1>11. \A o \in Ops(todo) : Stage(o) > 2
  BY <1>1, <1>7, <1>9
<1>12. \A o \in Ops(todo) : o \in Op
  BY <1>1
<1>13. ~MarkLeft
  <2>1. \A o \in Op : IsMark(o) => Stage(o) = 1
    BY StageOf DEF IsMark
  <2> QED BY <1>11, <1>12, <2>1 DEF MarkLeft
<1>14. \A p \in Parts : ~PutLeft(p)
  <2>1. \A o \in Op : IsPut(o) => Stage(o) = 2
    BY StageOf
  <2> QED BY <1>11, <1>12, <2>1 DEF PutLeft, IsPut
<1>15. op.part = "finish" => rest = <<>>
  <2>1. SUFFICES ASSUME op.part = "finish", rest # <<>> PROVE FALSE
    OBVIOUS
  <2>2. 1 \in DOMAIN rest
    BY <1>1, <2>1
  <2>3. rest[1] \in Ops(rest)
    BY <2>2 DEF Ops
  <2> QED BY <1>7, <1>8, <1>9, <2>1, <2>3
<1> QED BY <1>3, <1>6, <1>10, <1>13, <1>14, <1>15 DEF op, rest

LEMMA CertsStoredInv ==
    ASSUME IInv, CertsStored
    PROVE  IInv'
<1> DEFINE op == Head(todo)
           undo == op.value = 1 /\ failed \cap {"noc", "icac", "rcac"} # {}
<1>1. /\ ~Idle /\ op.part = "certs"
      /\ todo' = (IF undo THEN EraseCerts(op.index) ELSE <<>>) \o Tail(todo)
      /\ UNCHANGED <<mem, stored, indexInfo, marker, failed, tainted>>
      /\ UNCHANGED <<armed, busy, fsIndex, invoked, events>>
  BY DEF CertsStored, failSafeVars
<1>2. PICK i \in Index : Work(i)
  BY <1>1, NextOperation
<1>3. /\ Commit(i) /\ op.index = i /\ ~MarkLeft
      /\ \A p \in Parts : ~PutLeft(p)
      /\ Within(Tail(todo), 5, 7)
  BY <1>1, <1>2, OnlyACommit
<1>4. Ops(todo) = {op} \cup Ops(Tail(todo)) /\ Tail(todo) \in Seq(Op) /\ op \in Op
  BY <1>1, NextOperation
<1> HIDE DEF op
<1>5. /\ TypeInv /\ TodoOK
      /\ \A o \in Ops(todo) : o.part # "index" => o.index = i
      /\ \A j \in Index \ {i} : Settled(j)
  BY <1>2 DEF IInv, Work
<1>6. /\ i \in Live(mem) /\ Clean(mem) /\ armed /\ fsIndex = i
      /\ Left("finish")
      /\ \A o \in Ops(todo) : CommitOp(i, o)
      /\ Marked(i)
      /\ failed = {} => stored[i].noc = Target(i, "noc")
      /\ failed = {} /\ ~Foul(i) =>
           /\ \A p \in Parts : stored[i][p] = Target(i, p)
           /\ Left("index") \/ (i \in indexInfo.list /\ i # indexInfo.next)
  BY <1>3, Constants DEF Commit
<1>7. PICK u : u = IF undo THEN EraseCerts(i) ELSE <<>>
  OBVIOUS
<1>8. /\ Within(u, 5, 5)
      /\ \A o \in Ops(u) : /\ undo
                           /\ \E p \in {"noc", "icac", "rcac"} : o = Put(p, i, 0)
  <2>1. CASE undo
    <3>1. Within(u, 5, 5) /\ Ops(u) = Erasures({"noc", "icac", "rcac"}, i)
      BY <1>7, <2>1, EraseCertsIs
    <3> QED BY <2>1, <3>1 DEF Erasures
  <2>2. CASE ~undo
    BY <1>7, <2>2, WithinNone, OpsOfEmpty
  <2> QED BY <2>1, <2>2
<1>9. Within(todo', 5, 7) /\ Ops(todo') = Ops(u) \cup Ops(Tail(todo))
  <2>1. todo' = u \o Tail(todo)
    BY <1>1, <1>3, <1>7
  <2>2. 5 \in Nat /\ 7 \in Nat /\ 5 <= 5 /\ 5 <= 7 /\ 5 \in {2, 5}
    OBVIOUS
  <2> QED BY <1>3, <1>8, <2>1, <2>2, WithinJoined
<1>10. ASSUME NEW o \in Ops(u)
       PROVE  /\ IsErase(o) /\ o.part # "meta" /\ o.part \in Parts /\ o.index = i /\ o.value = 0
              /\ failed # {} /\ mem.next # i
  <2>1. PICK p \in {"noc", "icac", "rcac"} : o = Put(p, i, 0)
    BY <1>8
  <2>2. o.part = p /\ o.index = i /\ o.value = 0
    BY <2>1 DEF Put
  <2>3. undo
    BY <1>8
  <2>4. CommitOp(i, op)
    BY <1>4, <1>6
  <2>5. mem.next # i
    BY <1>1, <2>3, <2>4, Constants DEF CommitOp, IsMark, IsPut, IsErase
  <2> QED BY <2>2, <2>3, <2>5, Constants DEF IsErase
<1>11. \A o \in Ops(todo') : o \in Ops(u) \/ o \in Ops(todo)
  BY <1>4, <1>9
<1>12. TodoOK'
  <2>1. ASSUME NEW o \in Ops(todo'), o.part = "index"
        PROVE  o.index = mem.next /\ o.list = Live(mem) /\ o.value = 1
    BY <1>5, <1>10, <1>11, <2>1, Constants DEF TodoOK
  <2> QED BY <1>1, <1>9, <2>1 DEF TodoOK, Within
<1>13. (Left("finish"))' /\ (Left("index") => (Left("index"))')
  <2>1. \A o \in Ops(todo) : o.part # "certs" => o \in Ops(todo')
    BY <1>1, <1>4, <1>9
  <2> QED BY <1>6, <2>1 DEF Left
<1>14. (\A p \in Parts : ~(PutLeft(p))') /\ ~MarkLeft'
  <2>1. \A o \in Ops(u) : o.value = 0 /\ ~IsMark(o)
    BY <1>10 DEF IsMark
  <2>2. \A p \in Parts : ~(PutLeft(p))'
    BY <1>3, <1>11, <2>1 DEF PutLeft
  <2>3. ~MarkLeft'
    BY <1>3, <1>11, <2>1 DEF MarkLeft
  <2> QED BY <2>2, <2>3
<1>15. ASSUME NEW o \in Ops(todo')
       PROVE  CommitOp(i, o)' /\ (o.part # "index" => o.index = i)
  <2>1. CASE o \in Ops(u)
    BY <1>1, <1>10, <2>1 DEF CommitOp
  <2>2. CASE o \in Ops(todo)
    BY <1>1, <1>5, <1>6, <2>2 DEF CommitOp, Target
  <2> QED BY <1>11, <2>1, <2>2
<1>16. \A j : /\ Foul(j)' <=> Foul(j)
              /\ Uncommitted(j)' <=> Uncommitted(j)
  BY <1>1, SameStorage
<1>17. Marked(i)'
  BY <1>1, <1>6, <1>14 DEF Marked
<1>18. Commit(i)'
  <2>1. \A p \in Parts : Target(i, p)' = Target(i, p)
    BY <1>1 DEF Target
  <2>2. failed' = {} => stored'[i].noc = Target(i, "noc")'
    BY <1>1, <1>6, <2>1, Constants
  <2>3. failed' = {} /\ ~Foul(i)' =>
          /\ \A p \in Parts : stored'[i][p] = Target(i, p)'
          /\ (Left("index"))' \/ (i \in indexInfo'.list /\ i # indexInfo'.next)
    BY <1>1, <1>6, <1>13, <1>16, <2>1
  <2>4. i \in Live(mem') /\ Clean(mem') /\ armed' /\ fsIndex' = i
    BY <1>1, <1>6
  <2> QED BY <1>13, <1>14, <1>15, <1>17, <2>2, <2>3, <2>4 DEF Commit
<1>19. Storage'
  <2>1. \A j \in Index \ {i} : Settled(j)'
    BY <1>1, <1>5, SettledStays, KeepsItself DEF Keeps
  <2>2. todo' # <<>>
    BY <1>13, OpsOfEmpty DEF Left
  <2> QED BY <1>15, <1>18, <2>1, <2>2 DEF Storage, Work, Idle
<1> QED BY <1>1, <1>5, <1>6, <1>12, <1>13, <1>16, <1>19, StorageStep DEF TypeInv

LEMMA CommitFinishedInv ==
    ASSUME IInv, CommitFinished
    PROVE  IInv'
<1> DEFINE op == Head(todo)
<1>1. ~Idle /\ op.part = "finish" /\ failed' = {} /\ UNCHANGED <<stored, indexInfo, marker, tainted>>
  BY DEF CommitFinished
<1>2. PICK i \in Index : Work(i)
  BY <1>1, NextOperation
<1>3. /\ Commit(i) /\ op.index = i /\ ~MarkLeft
      /\ \A p \in Parts : ~PutLeft(p)
      /\ Tail(todo) = <<>>
  BY <1>1, <1>2, OnlyACommit
<1>4. Ops(todo) = {op}
  <2>1. Ops(todo) = {op} \cup Ops(Tail(todo))
    BY <1>1, NextOperation
  <2> QED BY <1>3, <2>1, OpsOfEmpty
<1>5. \/ /\ failed = {} /\ todo' = <<Put("marker", i, 0)>> /\ mem' = mem /\ events' = events
         /\ armed' = FALSE /\ busy' = FALSE /\ invoked' = {} /\ fsIndex' = fsIndex
      \/ /\ failed # {} /\ mem' = Delete(mem, i) /\ todo' = DeleteOps(mem, i) \o <<Put("marker", i, 0)>>
         /\ UNCHANGED <<armed, busy, fsIndex, invoked, events>>
  BY <1>3 DEF CommitFinished, ResetState, failSafeVars
<1>6. /\ TypeInv /\ QueueInv /\ CleanupInv /\ TableInv /\ PendingInv /\ IsMem(mem) /\ Tabled(mem)
      /\ \A j \in Index \ {i} : Settled(j)
  BY <1>2 DEF IInv, TypeInv, TableInv, Work
<1>7. ~Left("index")
  BY <1>1, <1>4 DEF Left
<1>8. /\ i \in Live(mem) /\ Clean(mem) /\ armed /\ fsIndex = i
      /\ Marked(i)
      /\ failed = {} => stored[i].noc = Target(i, "noc")
      /\ failed = {} /\ ~Foul(i) =>
           /\ \A p \in Parts : stored[i][p] = Target(i, p)
           /\ i \in indexInfo.list /\ i # indexInfo.next
  BY <1>3, <1>7, Constants DEF Commit
<1> HIDE DEF op
<1>9. Put("marker", i, 0) \in Op /\ Stage(Put("marker", i, 0)) = 8
  BY PutIsOp, StageOfPut
<1>10. /\ Put("marker", i, 0).part = "marker" /\ Put("marker", i, 0).index = i
       /\ Put("marker", i, 0).value = 0
  BY DEF Put
<1>11. \A j : Uncommitted(j)' <=> Uncommitted(j)
  BY <1>1, SameStorage
<1>12. CASE /\ failed = {} /\ todo' = <<Put("marker", i, 0)>> /\ mem' = mem /\ events' = events
            /\ armed' = FALSE /\ busy' = FALSE /\ invoked' = {} /\ fsIndex' = fsIndex
  <2>1. todo' \in Seq(Op) /\ Ops(todo') = {Put("marker", i, 0)} /\ Ordered(todo') /\ todo' # <<>>
    BY <1>9, <1>12, OpsOfOne
  <2>2. TypeInv'
    BY <1>1, <1>6, <1>12 DEF TypeInv
  <2>3. TodoOK'
    BY <1>10, <2>1 DEF TodoOK
  <2>4. mem.fabrics[i] \in Entry
    BY <1>6, <1>8 DEF IsMem, Fabrics, Live
  <2>5. /\ mem.fabrics[i].ver \in Versions /\ mem.fabrics[i].label \in Labels
        /\ stored[i].noc = mem.fabrics[i].ver /\ stored[i].noc # 0
    BY <1>8, <1>12, <2>4, Constants DEF Entry, Target
  <2>6. ASSUME ~Foul(i) PROVE Installed(i)
    <3>1. \A p \in Parts : stored[i][p] = Target(i, p)
      BY <1>8, <1>12, <2>6
    <3>2. /\ stored[i].rcac = 1 /\ stored[i].meta = mem.fabrics[i].label
          /\ stored[i].key = mem.fabrics[i].ver /\ stored[i].icac = mem.fabrics[i].ver
      BY <3>1, Constants DEF Target
    <3> QED BY <1>8, <1>12, <2>5, <2>6, <3>2 DEF Installed, IsWhole
  <2>7. marker = i
    BY <1>8, <1>12 DEF Marked
  <2>8. Foul(i)' \/ Installed(i)'
    BY <1>1, <2>6, SameStorage
  <2>9. Concluding(i)'
    BY <1>1, <1>8, <1>12, <2>5, <2>7, <2>8 DEF Concluding
  <2>10. \A j \in Index \ {i} : Settled(j)'
    BY <1>1, <1>6, <1>12, SettledStays, KeepsItself DEF Keeps
  <2>11. Storage'
    BY <1>10, <2>1, <2>9, <2>10 DEF Storage, Work, Idle
  <2>12. TableInv' /\ PendingInv'
    BY <1>1, <1>12, SameTable
  <2>13. QueueInv'
    BY <1>6, <1>8, <1>12 DEF QueueInv
  <2>14. CleanupInv'
    BY <1>1, <1>6, <1>8, <1>12 DEF CleanupInv, Uncommitted, Foul
  <2>15. ReadyInv'
    BY <1>12 DEF ReadyInv
  <2> QED BY <2>2, <2>3, <2>11, <2>12, <2>13, <2>14, <2>15 DEF IInv
<1>13. CASE /\ failed # {} /\ mem' = Delete(mem, i) /\ todo' = DeleteOps(mem, i) \o <<Put("marker", i, 0)>>
            /\ UNCHANGED <<armed, busy, fsIndex, invoked, events>>
  <2>1. ~({"add", "update"} \subseteq mem.flags) /\ ~Shadowed(mem, i) /\ "add" \notin mem.flags
    BY <1>8 DEF Clean, Shadowed
  <2>2. /\ IsMem(mem')
        /\ mem'.fabrics = [mem.fabrics EXCEPT ![i] = Absent]
        /\ mem'.next = IF i \in Live(mem) /\ mem.next = 0 THEN i ELSE mem.next
        /\ Live(mem') = Live(mem) \ {i}
        /\ Tabled(mem')
        /\ Clean(mem')
    <3>1. IsMem(mem) /\ Tabled(mem) /\ Clean(mem) /\ mem' = Delete(mem, i)
      BY <1>6, <1>8, <1>13
    <3>2. ~({"add", "update"} \subseteq mem.flags)
      BY <2>1
    <3> QED BY <3>1, <3>2, DeleteIs
  <2>3. PICK s : s = DeleteOps(mem, i)
    OBVIOUS
  <2>4. /\ Within(s, 4, 6)
        /\ Ops(s) = Erasures(Parts, i) \cup (IF i \in Live(mem) THEN {IndexOp(mem')} ELSE {})
    BY <1>13, <2>2, <2>3, DeleteOpsAre
  <2>5. Within(<<Put("marker", i, 0)>>, 8, 8) /\ Ops(<<Put("marker", i, 0)>>) = {Put("marker", i, 0)}
    <3>1. 8 \in Nat /\ Stage(Put("marker", i, 0)) \in 8..8
      BY <1>9
    <3> QED BY <1>9, <3>1, WithinOne
  <2>6. Within(todo', 4, 8) /\ Ops(todo') = Ops(s) \cup {Put("marker", i, 0)}
    <3>1. 4 \in Nat /\ 6 \in Nat /\ 8 \in Nat /\ 4 <= 6 /\ 8 <= 8 /\ 6 < 8
      OBVIOUS
    <3>2. todo' = s \o <<Put("marker", i, 0)>>
      BY <1>13, <2>3
    <3> QED BY <2>4, <2>5, <3>1, <3>2, WithinJoined
  <2>7. (Erasures(Parts, i))' = Erasures(Parts, i)
    BY <1>1 DEF Erasures
  <2>8. mem.fabrics \in Fabrics
    BY <1>6 DEF IsMem
  <2>9. \A j \in Index \ {i} : mem'.fabrics[j] = mem.fabrics[j]
    BY <2>2, <2>8 DEF Fabrics
  <2>10. TypeInv'
    BY <1>1, <1>6, <1>13, <2>2 DEF TypeInv
  <2>11. TodoOK' /\ Storage' /\ ~(Left("finish"))'
    <3>1. ASSUME NEW j \in Index \ {i} PROVE Settled(j)'
      <4>1. KeepsAt(mem, mem', j)
        BY <2>1, <2>2, <2>9 DEF KeepsAt
      <4> QED BY <1>1, <1>6, <4>1, SettledStays
    <3>2. StoreOK(i)'
      BY <1>1, <1>8 DEF Marked, StoreOK, Foul
    <3>3. i \notin Live(mem') /\ failed' = {}
      BY <1>1, <2>2
    <3>4. todo' \in Seq(Op) /\ Ordered(todo')
      BY <2>6 DEF Within
    <3>5. /\ (Erasures(Parts, i))' \subseteq Ops(todo')
          /\ Ops(todo') \subseteq (Erasures(Parts, i))' \cup {IndexOp(mem'), Put("marker", i, 0)}
      BY <2>4, <2>6, <2>7
    <3> QED BY <2>10, <3>1, <3>2, <3>3, <3>4, <3>5, DeletionStarts
  <2>12. TableInv'
    <3>1. ASSUME mem'.next \in Live(mem') PROVE Foul(mem.next)'
      <4>1. mem'.next = mem.next /\ mem.next \in Live(mem)
        BY <2>2, <3>1
      <4>2. Foul(mem.next)
        BY <1>6, <2>1, <4>1 DEF TableInv, AddPending
      <4> QED BY <1>1, <4>1, <4>2 DEF Foul
    <3> QED BY <2>2, <3>1 DEF TableInv
  <2>13. QueueInv'
    BY <1>6, <1>13 DEF QueueInv
  <2>14. "add" \notin mem'.flags /\ "key" \notin mem'.flags
    BY <2>2 DEF Clean
  <2>15. CleanupInv'
    BY <1>1, <1>6, <1>13, <2>2, <2>14 DEF CleanupInv, Uncommitted, Foul
  <2>16. PendingInv'
    BY <2>2, <2>14 DEF PendingInv, Clean
  <2>17. ReadyInv'
    <3>1. fsIndex' \notin Live(mem')
      BY <1>8, <1>13, <2>2
    <3> QED BY <2>14, <3>1 DEF ReadyInv
  <2> QED BY <2>10, <2>11, <2>12, <2>13, <2>15, <2>16, <2>17 DEF IInv
<1> QED BY <1>5, <1>12, <1>13

LEMMA FailSafeCleanupInv ==
    ASSUME IInv, FailSafeCleanup
    PROVE  IInv'
<1>0. PICK e, m : e = Head(events) /\ m = RevertPendingFabricData(mem)
  OBVIOUS
<1>1. /\ Idle /\ events # <<>> /\ e.type = "expired" /\ events' = Tail(events)
      /\ UNCHANGED <<armed, busy, fsIndex, invoked, stored, indexInfo, marker, failed, tainted>>
      /\ IF e.add /\ e.fabric \in Index
           THEN /\ mem' = Delete(m, e.fabric)
                /\ todo' = IF "add" \in mem.flags /\ mem.pending = e.fabric
                             THEN RevertOps(mem) ELSE RevertOps(mem) \o DeleteOps(m, e.fabric)
           ELSE mem' = m /\ todo' = RevertOps(mem)
  BY <1>0 DEF FailSafeCleanup, HandOut, IsNext, Operate
<1>2. /\ TypeInv /\ QueueInv /\ CleanupInv /\ TableInv /\ PendingInv /\ events \in Seq(Event)
      /\ IsMem(mem) /\ Tabled(mem) /\ mem.fabrics \in Fabrics
  BY DEF IInv, TypeInv, TableInv, IsMem
<1>3. /\ events' \in Seq(Event)
      /\ \A k \in DOMAIN events' : k + 1 \in DOMAIN events /\ events'[k] = events[k + 1]
      /\ Head(events) = events[1] /\ 1 \in DOMAIN events
      /\ \A k \in DOMAIN events' : events'[k].add => events'[k].type = "expired"
      /\ \A a, b \in DOMAIN events' :
            a < b /\ {events'[a].type, events'[b].type} \subseteq {"expired", "disarm"} =>
               events'[a].type = "expired" /\ events'[b].type = "disarm"
      /\ \A k \in DOMAIN events' : events'[k].type # "expired"
  BY <1>0, <1>1, <1>2, EventsOfTail
<1>4. failed = {} /\ \A j \in Index : Settled(j)
  BY <1>1, WhenIdle
<1>5. ~armed /\ busy
  <2>1. busy
    BY <1>0, <1>1, <1>2, <1>3 DEF QueueInv
  <2> QED BY <1>2, <2>1 DEF QueueInv
<1>6. "add" \in mem.flags => /\ e.add /\ e.fabric = mem.pending /\ mem.pending \in Index
                             /\ mem.next = mem.pending /\ "update" \notin mem.flags
  BY <1>0, <1>1, <1>2, <1>3 DEF CleanupInv, PendingInv
<1>7. /\ IsMem(m) /\ Clean(m)
      /\ "add" \notin mem.flags => m.fabrics = mem.fabrics /\ m.next = mem.next
      /\ "add" \in mem.flags =>
            /\ m.fabrics = [mem.fabrics EXCEPT ![mem.pending] = Absent]
            /\ m.next = IF mem.pending \in Live(mem) /\ mem.next = 0 THEN mem.pending ELSE mem.next
      /\ Live(m) = IF "add" \in mem.flags THEN Live(mem) \ {mem.pending} ELSE Live(mem)
      /\ Tabled(mem) => Tabled(m)
  BY <1>0, <1>2, <1>6, RevertIs
<1>8. \A j : Uncommitted(j)' <=> Uncommitted(j)
  BY <1>1, SameStorage
(* What remains, once the parts about storage and the table are shown.     *)
<1>9. ASSUME IsMem(mem'), Clean(mem'), Tabled(mem'), TodoOK', Storage',
             mem'.next \in Live(mem') => mem'.next = mem.next /\ mem.next \in Live(mem) /\ ~AddPending(mem.next)
      PROVE  IInv'
  <2>1. TypeInv'
    BY <1>1, <1>2, <1>3, <1>9 DEF TypeInv
  <2>2. TableInv'
    BY <1>1, <1>2, <1>9 DEF TableInv, Foul
  <2>3. QueueInv'
    BY <1>1, <1>2, <1>3, <1>5 DEF QueueInv
  <2>4. CleanupInv'
    BY <1>1, <1>3, <1>5, <1>9 DEF CleanupInv
  <2>5. PendingInv'
    BY <1>9 DEF PendingInv, Clean
  <2>6. ReadyInv'
    BY <1>1, <1>5 DEF ReadyInv
  <2> QED BY <1>9, <2>1, <2>2, <2>3, <2>4, <2>5, <2>6 DEF IInv
<1>10. CASE "add" \in mem.flags
  <2>1. PICK i \in Index : i = mem.pending
    BY <1>6, <1>10
  <2>2. mem' = Delete(m, i) /\ todo' = DeleteOps(mem, i)
    BY <1>1, <1>6, <1>10, <2>1 DEF RevertOps
  <2>3. ~({"add", "update"} \subseteq m.flags) /\ ~({"add", "update"} \subseteq mem.flags) /\ Clean(m)
    BY <1>6, <1>7, <1>10 DEF Clean
  <2>4. /\ IsMem(mem')
        /\ mem'.fabrics = [m.fabrics EXCEPT ![i] = Absent]
        /\ mem'.next = IF i \in Live(m) /\ m.next = 0 THEN i ELSE m.next
        /\ Live(mem') = Live(m) \ {i}
        /\ Tabled(m) => Tabled(mem')
        /\ Clean(m) => Clean(mem')
    BY <1>7, <2>2, <2>3, DeleteIs
  <2>5. PICK d : d = Delete(mem, i)
    OBVIOUS
  <2>6. /\ IsMem(d)
        /\ d.fabrics = [mem.fabrics EXCEPT ![i] = Absent]
        /\ d.next = IF i \in Live(mem) /\ mem.next = 0 THEN i ELSE mem.next
        /\ Live(d) = Live(mem) \ {i}
    <3>1. IsMem(mem) /\ ~({"add", "update"} \subseteq mem.flags)
      BY <1>2, <2>3
    <3> QED BY <2>5, <3>1, DeleteIs
  <2>7. i # 0
    BY Constants
  <2>8. m.next = i /\ d.next = i /\ mem'.next = i
    BY <1>6, <1>7, <1>10, <2>1, <2>4, <2>6, <2>7
  <2>9. Live(mem') = Live(mem) \ {i} /\ Live(d) = Live(mem')
    BY <1>7, <1>10, <2>1, <2>4, <2>6
  <2>10. IndexOp(d) = IndexOp(mem')
    BY <2>8, <2>9 DEF IndexOp
  <2>11. /\ Within(todo', 4, 6)
         /\ Ops(todo') = Erasures(Parts, i) \cup (IF i \in Live(mem) THEN {IndexOp(d)} ELSE {})
    BY <2>2, <2>5, <2>6, DeleteOpsAre
  <2>12. \A j \in Index \ {i} : mem'.fabrics[j] = mem.fabrics[j]
    BY <1>2, <1>7, <1>10, <2>1, <2>4 DEF Fabrics
  <2>13. TypeInv'
    BY <1>1, <1>2, <1>3, <2>4 DEF TypeInv
  <2>14. TodoOK' /\ Storage'
    <3>1. ASSUME NEW j \in Index \ {i} PROVE Settled(j)'
      <4>1. KeepsAt(mem, mem', j)
        BY <2>1, <2>9, <2>12 DEF KeepsAt
      <4> QED BY <1>1, <1>4, <4>1, SettledStays
    <3>2. StoreOK(i)'
      <4>1. StoreOK(i)
        BY <1>4 DEF Settled, StoreOK
      <4> QED BY <1>1, <4>1, SameStorage
    <3>3. i \notin Live(mem') /\ failed' = {}
      BY <1>1, <1>4, <2>9
    <3>4. todo' \in Seq(Op) /\ Ordered(todo')
      BY <2>11 DEF Within
    <3>5. (Erasures(Parts, i))' = Erasures(Parts, i)
      BY <1>1 DEF Erasures
    <3>6. /\ (Erasures(Parts, i))' \subseteq Ops(todo')
          /\ Ops(todo') \subseteq (Erasures(Parts, i))' \cup {IndexOp(mem'), Put("marker", i, 0)}
      BY <2>10, <2>11, <3>5
    <3> QED BY <2>13, <3>1, <3>2, <3>3, <3>4, <3>6, DeletionStarts
  <2>15. mem'.next \notin Live(mem')
    BY <2>8, <2>9
  <2> QED BY <1>2, <1>7, <1>9, <2>4, <2>14, <2>15
<1>11. CASE "add" \notin mem.flags /\ e.add /\ e.fabric \in Index
  <2>1. PICK i \in Index : i = e.fabric
    BY <1>11
  <2>2. mem' = Delete(m, i) /\ todo' = <<>> \o DeleteOps(m, i)
    BY <1>1, <1>11, <2>1 DEF RevertOps
  <2>3. ~({"add", "update"} \subseteq m.flags) /\ Clean(m)
    BY <1>7 DEF Clean
  <2>4. /\ IsMem(mem')
        /\ mem'.fabrics = [m.fabrics EXCEPT ![i] = Absent]
        /\ mem'.next = IF i \in Live(m) /\ m.next = 0 THEN i ELSE m.next
        /\ Live(mem') = Live(m) \ {i}
        /\ Tabled(m) => Tabled(mem')
        /\ Clean(m) => Clean(mem')
    BY <1>7, <2>2, <2>3, DeleteIs
  <2>5. PICK s : s = DeleteOps(m, i)
    OBVIOUS
  <2>6. /\ Within(s, 4, 6)
        /\ Ops(s) = Erasures(Parts, i) \cup (IF i \in Live(m) THEN {IndexOp(mem')} ELSE {})
    BY <2>2, <2>4, <2>5, DeleteOpsAre
  <2>7. todo' = s
    BY <2>2, <2>5, <2>6 DEF Within
  <2>8. \A j \in Index \ {i} : mem'.fabrics[j] = mem.fabrics[j]
    BY <1>2, <1>7, <1>11, <2>4 DEF Fabrics
  <2>9. Live(mem') = Live(mem) \ {i} /\ m.next = mem.next
    BY <1>7, <1>11, <2>4
  <2>10. TypeInv'
    BY <1>1, <1>2, <1>3, <2>4 DEF TypeInv
  <2>11. TodoOK' /\ Storage'
    <3>1. ASSUME NEW j \in Index \ {i} PROVE Settled(j)'
      <4>1. KeepsAt(mem, mem', j)
        BY <1>11, <2>8, <2>9 DEF KeepsAt
      <4> QED BY <1>1, <1>4, <4>1, SettledStays
    <3>2. StoreOK(i)'
      <4>1. StoreOK(i)
        BY <1>4 DEF Settled, StoreOK
      <4> QED BY <1>1, <4>1, SameStorage
    <3>3. i \notin Live(mem') /\ failed' = {}
      BY <1>1, <1>4, <2>9
    <3>4. todo' \in Seq(Op) /\ Ordered(todo')
      BY <2>6, <2>7 DEF Within
    <3>5. (Erasures(Parts, i))' = Erasures(Parts, i)
      BY <1>1 DEF Erasures
    <3>6. /\ (Erasures(Parts, i))' \subseteq Ops(todo')
          /\ Ops(todo') \subseteq (Erasures(Parts, i))' \cup {IndexOp(mem'), Put("marker", i, 0)}
      BY <2>6, <2>7, <3>5
    <3> QED BY <2>10, <3>1, <3>2, <3>3, <3>4, <3>6, DeletionStarts
  <2>12. mem'.next \in Live(mem') => mem'.next = mem.next /\ mem.next \in Live(mem) /\ ~AddPending(mem.next)
    BY <1>11, <2>4, <2>9 DEF AddPending
  <2> QED BY <1>2, <1>7, <1>9, <2>3, <2>4, <2>11, <2>12
<1>12. CASE "add" \notin mem.flags /\ ~(e.add /\ e.fabric \in Index)
  <2>1. mem' = m /\ todo' = <<>>
    BY <1>1, <1>12 DEF RevertOps
  <2>2. mem'.fabrics = mem.fabrics /\ mem'.next = mem.next /\ Live(mem') = Live(mem)
    BY <1>7, <1>12, <2>1
  <2>3. Keeps(mem, mem')
    BY <1>12, <2>2 DEF Keeps, KeepsAt
  <2>4. TodoOK' /\ Storage'
    BY <1>1, <2>1, <2>3, QuietStep
  <2> QED BY <1>2, <1>7, <1>9, <1>12, <2>1, <2>2, <2>4 DEF AddPending
<1> QED BY <1>10, <1>11, <1>12

-----------------------------------------------------------------------------
(* Restarts.                                                               *)

(* The index a deletion without a marker is being interrupted at.          *)
HalfDeleted ==
    {i \in Index : /\ ~Idle /\ Head(todo).index = i /\ Head(todo).value = 0
                   /\ Head(todo).part \in Parts \ {"meta"} /\ marker # i}

(* What storage may hold for an index when power is lost.                  *)
LEMMA WhatSurvives ==
    ASSUME IInv, NEW j \in Index
    PROVE  \/ marker = j
           \/ j \in tainted \cup HalfDeleted
           \/ stored[j] = NothingStored
           \/ Installed(j)
<1>1. ASSUME Settled(j) PROVE Foul(j) \/ stored[j] = NothingStored \/ Installed(j)
  BY <1>1 DEF Settled
<1>2. CASE Idle
  BY <1>1, <1>2, WhenIdle DEF Foul
<1>3. CASE ~Idle
  <2>1. PICK i \in Index : Work(i)
    BY <1>3, NextOperation
  <2>2. CASE j # i
    BY <1>1, <2>1, <2>2 DEF Work, Foul
  <2>3. CASE j = i /\ Relabelling(i)
    BY <1>1, <2>3 DEF Relabelling, Foul
  <2>4. CASE j = i /\ Commit(i)
    BY <2>4 DEF Commit, Unmarked, Marked, Foul
  <2>5. CASE j = i /\ Concluding(i)
    BY <2>5 DEF Concluding
  <2>6. CASE j = i /\ Deleting(i)
    <3>1. CASE stored[i].meta # 0
      BY <2>6, <3>1 DEF Deleting, StoreOK, Foul
    <3>2. CASE stored[i].meta = 0 /\ stored[i] # NothingStored
      <4>1. stored[i] \in StoredRecord
        BY DEF IInv, TypeInv
      <4>2. PICK p \in Parts : stored[i][p] # 0
        BY <3>2, <4>1, NothingIsAllZero
      <4>3. EraseLeft(p) /\ ~EraseLeft("meta")
        BY <2>6, <3>2, <4>2 DEF Deleting
      <4>4. PICK o \in Ops(todo) : o.part = p /\ o.value = 0
        BY <4>3 DEF EraseLeft
      <4>5. PICK op : op = Head(todo)
        OBVIOUS
      <4>6. /\ op \in Op /\ Ops(todo) = {op} \cup Ops(Tail(todo)) /\ o \in Op
            /\ o = op \/ Before(op, o)
        BY <1>3, <4>4, <4>5, NextOperation
      <4>7. Stage(o) = 5
        <5>1. p # "meta" /\ IsErase(o)
          BY <3>2, <4>2, <4>4 DEF IsErase
        <5> QED BY <4>4, <4>6, <5>1, StageOf
      <4>8. Stage(op) \in 1..5
        <5>1. Stage(op) \in 1..8
          BY <4>6, StageOf
        <5> QED BY <4>6, <4>7, <5>1 DEF Before
      <4>9. IsErase(op) \/ op.part = "index" \/ IsUnmark(op)
        BY <2>6, <4>6 DEF Deleting
      <4>10. IsErase(op)
        BY <4>6, <4>8, <4>9, StageOf
      <4>11. op.part # "meta"
        BY <4>3, <4>6, <4>10 DEF EraseLeft, IsErase
      <4>12. op.index = i
        BY <2>1, <4>6, <4>10, Constants DEF Work, IsErase
      <4> QED BY <1>3, <2>6, <4>5, <4>10, <4>11, <4>12 DEF HalfDeleted, IsErase
    <3> QED BY <2>6, <3>1, <3>2
  <2> QED BY <2>1, <2>2, <2>3, <2>4, <2>5, <2>6 DEF Work
<1> QED BY <1>2, <1>3

LEMMA CrashInv ==
    ASSUME IInv, Crash
    PROVE  IInv'
<1>1. /\ armed' = FALSE /\ invoked' = {} /\ fsIndex' = 0 /\ failed' = {}
      /\ tainted' = tainted \cup HalfDeleted
      /\ UNCHANGED <<stored, indexInfo, marker>>
      /\ IF marker = 0
           THEN mem' = LoadedMem /\ todo' = <<>> /\ busy' = FALSE /\ events' = <<>>
           ELSE /\ mem' = Delete(LoadedMem, marker) /\ todo' = DeleteOps(LoadedMem, marker)
                /\ busy' = TRUE /\ events' = <<Expired(marker, TRUE), Disarm, ClearMarker>>
  BY DEF Crash, HalfDeleted
<1>2. PICK m : m = LoadedMem
  OBVIOUS
<1>3. /\ TypeInv /\ stored \in [Index -> StoredRecord] /\ marker \in 0..MaxIndex
      /\ indexInfo \in [next : 0..MaxIndex, list : SUBSET Index]
  BY DEF IInv, TypeInv
<1>4. /\ IsMem(m) /\ Clean(m) /\ Tabled(m)
      /\ Live(m) = {i \in Index : Loadable(i)}
      /\ \A i \in Index : Loadable(i) => m.fabrics[i].ver = stored[i].noc
      /\ m.next = indexInfo.next \/ m.next \notin Live(m)
  BY <1>2, <1>3, LoadedMemIs
<1>5. ASSUME NEW j \in Index
      PROVE  /\ marker' = j \/ Foul(j)' \/ stored'[j] = NothingStored \/ Installed(j)'
             /\ Installed(j)' => /\ m.fabrics[j].ver = stored'[j].noc
                                 /\ j # indexInfo.next
             /\ j \in Live(m) => stored'[j].noc # 0 /\ stored'[j] # NothingStored
  <2>1. marker = j \/ j \in tainted \cup HalfDeleted \/ stored[j] = NothingStored \/ Installed(j)
    BY WhatSurvives
  <2>2. Installed(j)' <=> Installed(j)
    BY <1>1 DEF Installed
  <2>3. Installed(j) => Loadable(j) /\ j # indexInfo.next
    BY Constants DEF Installed, IsWhole, Loadable
  <2>4. j \in Live(m) => stored[j].noc # 0 /\ stored[j] # NothingStored
    BY <1>4 DEF Loadable, NothingStored
  <2> QED BY <1>1, <1>4, <2>1, <2>2, <2>3, <2>4 DEF Foul
<1>6. tainted' \subseteq Index
  BY <1>1, <1>3 DEF TypeInv, HalfDeleted
(* What remains, once the members and the storage operations are known.    *)
<1>7. ASSUME IsMem(mem'), Clean(mem'), Tabled(mem'), TodoOK', Storage', events' \in Seq(Event), QueueInv',
             \A n \in DOMAIN events' : events'[n].add => events'[n].fabric = marker,
             mem'.next \in Live(mem') => Foul(mem.next)'
      PROVE  IInv'
  <2>1. busy' \in BOOLEAN /\ 0 \in 0..MaxIndex
    <3>1. busy' = FALSE \/ busy' = TRUE
      BY <1>1
    <3>2. busy' \in BOOLEAN
      BY <3>1
    <3>3. 0 \in 0..MaxIndex
      BY Constants
    <3> QED BY <3>2, <3>3
  <2>2. TypeInv'
    BY <1>1, <1>3, <1>6, <1>7, <2>1 DEF TypeInv
  <2>3. TableInv'
    BY <1>7 DEF TableInv
  <2>4. "add" \notin mem'.flags
    BY <1>7 DEF Clean
  <2>5. CleanupInv'
    BY <1>1, <1>7, <2>4 DEF CleanupInv, Uncommitted
  <2>6. PendingInv'
    BY <1>7, <2>4 DEF PendingInv, Clean
  <2>7. ReadyInv'
    BY <1>1 DEF ReadyInv
  <2> QED BY <1>7, <2>2, <2>3, <2>5, <2>6, <2>7 DEF IInv
<1>8. CASE marker = 0
  <2>1. mem' = m /\ todo' = <<>> /\ busy' = FALSE /\ events' = <<>>
    BY <1>1, <1>2, <1>8
  <2>2. ASSUME NEW j \in Index PROVE Settled(j)' /\ (j = indexInfo.next /\ j \in Live(m) => Foul(j)')
    <3>1. marker' # j
      BY <1>1, <1>8, Constants
    <3> QED BY <1>5, <2>1, <3>1 DEF Settled
  <2>3. TodoOK' /\ Storage'
    BY <1>1, <2>1, <2>2, OpsOfEmpty DEF TodoOK, Storage, Idle
  <2>4. mem'.next \in Live(mem') => Foul(mem.next)'
    <3>1. ASSUME m.next \in Live(m) PROVE m.next = indexInfo.next /\ m.next \in Index
      BY <1>4, <3>1
    <3> QED BY <2>1, <2>2, <3>1 DEF Foul
  <2>5. QueueInv'
    BY <1>1, <2>1 DEF QueueInv
  <2>6. events' \in Seq(Event) /\ DOMAIN events' = {}
    BY <2>1
  <2> QED BY <1>4, <1>7, <2>1, <2>3, <2>4, <2>5, <2>6
<1>9. CASE marker # 0
  <2>1. PICK k \in Index : k = marker
    BY <1>3, <1>9, Constants
  <2>2. /\ mem' = Delete(m, k) /\ todo' = DeleteOps(m, k)
        /\ busy' = TRUE /\ events' = <<Expired(k, TRUE), Disarm, ClearMarker>>
    BY <1>1, <1>2, <1>9, <2>1
  <2>3. ~({"add", "update"} \subseteq m.flags)
    BY <1>4 DEF Clean
  <2>4. /\ IsMem(mem')
        /\ mem'.fabrics = [m.fabrics EXCEPT ![k] = Absent]
        /\ mem'.next = IF k \in Live(m) /\ m.next = 0 THEN k ELSE m.next
        /\ Live(mem') = Live(m) \ {k}
        /\ Tabled(m) => Tabled(mem')
        /\ Clean(m) => Clean(mem')
    <3>1. IsMem(m)
      BY <1>4
    <3> QED BY <2>2, <2>3, <3>1, DeleteIs
  <2>5. /\ Within(todo', 4, 6)
        /\ Ops(todo') = Erasures(Parts, k) \cup (IF k \in Live(m) THEN {IndexOp(mem')} ELSE {})
    BY <2>2, <2>4, DeleteOpsAre
  <2>6. m.fabrics \in Fabrics
    BY <1>4 DEF IsMem
  <2>7. \A j \in Index \ {k} : mem'.fabrics[j] = m.fabrics[j]
    BY <2>4, <2>6 DEF Fabrics
  <2>8. /\ events' \in Seq(Event) /\ DOMAIN events' = {1, 2, 3}
        /\ events'[1].type = "expired" /\ events'[2].type = "disarm" /\ events'[3].type = "clearMarker"
        /\ events'[1].fabric = k /\ ~events'[2].add /\ ~events'[3].add
    <3>1. k \in 0..MaxIndex /\ 0 \in 0..MaxIndex
      BY Constants
    <3>2. Expired(k, TRUE) \in Event /\ Disarm \in Event /\ ClearMarker \in Event
      BY <3>1 DEF Expired, Disarm, ClearMarker, Event
    <3>3. /\ Expired(k, TRUE).type = "expired" /\ Expired(k, TRUE).fabric = k
          /\ Disarm.type = "disarm" /\ ~Disarm.add
          /\ ClearMarker.type = "clearMarker" /\ ~ClearMarker.add
      BY DEF Expired, Disarm, ClearMarker
    <3>4. PICK e1 \in Event, e2 \in Event, e3 \in Event :
             e1 = Expired(k, TRUE) /\ e2 = Disarm /\ e3 = ClearMarker
      BY <3>2
    <3>5. events' = <<e1, e2, e3>>
      BY <2>2, <3>4
    <3>6. /\ events' \in Seq(Event) /\ DOMAIN events' = 1..3
          /\ events'[1] = e1 /\ events'[2] = e2 /\ events'[3] = e3
      BY <3>5
    <3>7. 1..3 = {1, 2, 3}
      OBVIOUS
    <3>8. /\ e1.type = "expired" /\ e2.type = "disarm" /\ e3.type = "clearMarker"
          /\ e1.fabric = k /\ ~e2.add /\ ~e3.add
      BY <3>3, <3>4
    <3> QED BY <3>6, <3>7, <3>8
  <2>9. QueueInv'
    <3>1. ASSUME NEW a \in {1, 2, 3}, NEW b \in {1, 2, 3}, a < b,
                 {events'[a].type, events'[b].type} \subseteq {"expired", "disarm"}
          PROVE  events'[a].type = "expired" /\ events'[b].type = "disarm"
      <4>1. (a = 1 /\ b = 2) \/ b = 3
        BY <3>1
      <4> QED BY <2>8, <3>1, <4>1
    <3>2. \A n \in {1, 2, 3} : events'[n].add => events'[n].type = "expired"
      BY <2>8
    <3>3. DOMAIN events' = {1, 2, 3} /\ armed' = FALSE /\ busy' = TRUE
      BY <1>1, <2>2, <2>8
    <3> QED BY <3>1, <3>2, <3>3 DEF QueueInv
  <2>10. TypeInv'
    <3>1. busy' \in BOOLEAN /\ 0 \in 0..MaxIndex
      BY <2>2, Constants
    <3> QED BY <1>1, <1>3, <1>6, <2>4, <2>8, <3>1 DEF TypeInv
  <2>11. TodoOK' /\ Storage'
    <3>1. ASSUME NEW j \in Index \ {k} PROVE Settled(j)'
      <4>1. marker' # j
        BY <1>1, <2>1
      <4> QED BY <1>5, <2>4, <2>7, <4>1 DEF Settled
    <3>2. StoreOK(k)'
      BY <1>1, <2>1 DEF StoreOK
    <3>3. k \notin Live(mem')
      BY <2>4
    <3>4. todo' \in Seq(Op) /\ Ordered(todo')
      BY <2>5 DEF Within
    <3>5. (Erasures(Parts, k))' = Erasures(Parts, k)
      BY <1>1 DEF Erasures
    <3>6. /\ (Erasures(Parts, k))' \subseteq Ops(todo')
          /\ Ops(todo') \subseteq (Erasures(Parts, k))' \cup {IndexOp(mem'), Put("marker", k, 0)}
      BY <2>5, <3>5
    <3> QED BY <1>1, <2>10, <3>1, <3>2, <3>3, <3>4, <3>6, DeletionStarts
  <2>12. mem'.next \in Live(mem') => Foul(mem.next)'
    <3>1. SUFFICES ASSUME mem'.next \in Live(mem') PROVE Foul(mem.next)'
      OBVIOUS
    <3>2. PICK n \in Index : n = mem'.next /\ n # k /\ n \in Live(m) /\ n = m.next
      BY <1>4, <2>4, <3>1
    <3>3. n = indexInfo.next /\ marker' # n
      BY <1>1, <1>4, <2>1, <3>2
    <3>4. Foul(n)'
      BY <1>5, <3>2, <3>3
    <3> QED BY <3>2, <3>4 DEF Foul
  <2>13. \A n \in DOMAIN events' : events'[n].add => events'[n].fabric = marker
    BY <2>1, <2>8
  <2> QED BY <1>4, <1>7, <2>4, <2>8, <2>9, <2>11, <2>12, <2>13
<1> QED BY <1>8, <1>9

-----------------------------------------------------------------------------
(* A write that fails.                                                     *)

LEMMA WriteFailsInv ==
    ASSUME IInv, WriteFails
    PROVE  IInv'
<1>0. PICK op, rest : op = Head(todo) /\ rest = Tail(todo)
  OBVIOUS
<1>1. /\ ~Idle /\ op.part \notin {"certs", "finish"} /\ op.value # 0 /\ todo' = rest
      /\ failed' = IF Committing # {} THEN failed \cup {op.part} ELSE failed
      /\ tainted' = IF op.part = "marker" THEN tainted \cup {op.index} ELSE tainted
      /\ UNCHANGED <<mem, stored, indexInfo, marker>>
      /\ UNCHANGED <<armed, busy, fsIndex, invoked, events>>
  BY <1>0 DEF WriteFails, failSafeVars
<1>2. PICK i \in Index : Work(i)
  BY <1>1, NextOperation
<1>3. /\ op \in Op /\ rest \in Seq(Op) /\ Ordered(rest)
      /\ Ops(todo) = {op} \cup Ops(rest)
      /\ \A o \in Ops(rest) : Before(op, o) /\ o \in Op
  BY <1>0, <1>1, NextOperation
<1>4. Committing # {} <=> Left("finish")
  BY DEF Committing, Left, Ops
<1>5. /\ TypeInv /\ TodoOK
      /\ \A o \in Ops(todo) : o.part # "index" => o.index = i
      /\ \A j \in Index \ {i} : Settled(j)
  BY <1>2 DEF IInv, Work
<1>6. op.part = "marker" => op.index = i
  BY <1>3, <1>5
<1>7. TodoOK'
  BY <1>1, <1>3, <1>5 DEF TodoOK
<1>8. (Left("finish"))' <=> Left("finish")
  BY <1>1, <1>3 DEF Left
<1>9. tainted \subseteq tainted' /\ tainted' \subseteq tainted \cup {i} /\ tainted' \subseteq Index
  BY <1>1, <1>5, <1>6 DEF TypeInv
<1>10. \A j : /\ Foul(j) => Foul(j)'
              /\ Installed(j)' <=> Installed(j)
              /\ Uncommitted(j) => Uncommitted(j)'
              /\ StoreOK(j) => StoreOK(j)'
  BY <1>1, <1>9 DEF Foul, Installed, Uncommitted, StoreOK
<1>11. \A j \in Index : Settled(j) => Settled(j)'
  <2>1. \A j : AddPending(j)' <=> AddPending(j)
    BY <1>1 DEF AddPending
  <2> QED BY <1>1, <1>10, <2>1 DEF Settled
<1>12. Storage'
  <2>1. CASE Relabelling(i)
    <3>1. PICK l \in Labels : todo = <<Put("meta", i, l)>>
      BY <2>1 DEF Relabelling
    <3>2. op = Put("meta", i, l) /\ rest = <<>>
      BY <1>0, <3>1
    <3>3. op.part = "meta"
      BY <3>2 DEF Put
    <3>4. ~Left("finish")
      BY <1>3, <3>2, <3>3, OpsOfEmpty DEF Left
    <3>5. failed' = {}
      BY <1>1, <1>4, <2>1, <3>4 DEF Relabelling
    <3>6. \A j \in Index : Settled(j)'
      BY <1>5, <1>11, <2>1 DEF Relabelling
    <3> QED BY <1>1, <3>2, <3>5, <3>6 DEF Storage, Idle
  <2>2. CASE Deleting(i)
    <3>1. IsErase(op) \/ op.part = "index" \/ IsUnmark(op)
      BY <1>3, <2>2 DEF Deleting
    <3>2. op.part = "index"
      BY <1>1, <3>1 DEF IsErase, IsUnmark
    <3>3. ~Left("finish")
      BY <2>2, Constants DEF Deleting, Left, IsErase, IsUnmark
    <3>4. failed' = {}
      BY <1>1, <1>4, <2>2, <3>3 DEF Deleting
    <3>5. \A o \in Ops(rest) : Stage(o) > 6
      BY <1>3, <3>2, StageOf DEF Before
    <3>6. ~EraseLeft("meta") /\ \A p \in Parts : ~EraseLeft(p)
      <4>1. ASSUME NEW p \in Parts, NEW o \in Ops(todo), o.part = p, o.value = 0 PROVE FALSE
        <5>1. IsErase(o) /\ o.part # "index"
          BY <4>1, Constants DEF IsErase
        <5>2. o \in Ops(rest)
          BY <1>3, <3>2, <4>1, <5>1
        <5> QED BY <1>3, <3>5, <5>1, <5>2, StageOf
      <4> QED BY <4>1, Constants DEF EraseLeft
    <3>7. \A p \in Parts : stored[i][p] = 0
      BY <2>2, <3>6 DEF Deleting
    <3>8. stored[i].meta = 0
      BY <3>7, Constants
    <3>9. CASE rest = <<>>
      <4>1. stored[i] = NothingStored
        <5>1. stored[i] \in StoredRecord
          BY <1>5 DEF TypeInv
        <5> QED BY <3>7, <5>1, NothingIsAllZero
      <4>2. Settled(i)'
        BY <1>1, <2>2, <4>1 DEF Settled, Deleting
      <4> QED BY <1>1, <1>5, <1>11, <3>4, <3>9, <4>2 DEF Storage, Idle
    <3>10. CASE rest # <<>>
      <4>1. ~(EraseLeft("meta"))'
        BY <1>1, <1>3, <3>6 DEF EraseLeft
      <4>2. Deleting(i)'
        BY <1>1, <1>3, <2>2, <3>4, <3>7, <3>8, <4>1 DEF Deleting
      <4>3. Work(i)'
        BY <1>1, <1>3, <1>5, <1>11, <3>10, <4>2 DEF Work, Idle
      <4> QED BY <4>3 DEF Storage
    <3> QED BY <3>9, <3>10
  <2>3. CASE Commit(i)
    <3>1. /\ i \in Live(mem) /\ Clean(mem) /\ armed /\ fsIndex = i
          /\ Left("finish")
          /\ \A o \in Ops(todo) : CommitOp(i, o)
          /\ IF MarkLeft THEN Unmarked(i) ELSE Marked(i)
      BY <2>3 DEF Commit
    <3>2. failed' = failed \cup {op.part} /\ failed' # {}
      BY <1>1, <1>4, <3>1
    <3>3. \A p \in Parts : (PutLeft(p))' => PutLeft(p)
      BY <1>1, <1>3 DEF PutLeft
    <3>4. IF MarkLeft' THEN Unmarked(i)' ELSE Marked(i)'
      <4>1. CASE IsMark(op)
        <5>1. Stage(op) = 1 /\ i \in tainted'
          BY <1>1, <1>3, <1>6, <4>1, StageOf DEF IsMark
        <5>2. ~MarkLeft'
          <6>1. \A o \in Op : IsMark(o) => Stage(o) = 1
            BY StageOf DEF IsMark
          <6>2. \A o \in Ops(rest) : ~IsMark(o)
            BY <1>3, <5>1, <6>1 DEF Before
          <6> QED BY <1>1, <6>2 DEF MarkLeft
        <5> QED BY <3>2, <5>1, <5>2 DEF Marked
      <4>2. CASE ~IsMark(op)
        <5>1. MarkLeft' <=> MarkLeft
          BY <1>1, <1>3, <4>2 DEF MarkLeft
        <5>2. Unmarked(i) => Unmarked(i)'
          BY <1>1, <1>10 DEF Unmarked
        <5>3. Marked(i) => Marked(i)'
          BY <1>1, <1>9, <3>2, <3>3 DEF Marked
        <5> QED BY <3>1, <5>1, <5>2, <5>3
      <4> QED BY <4>1, <4>2
    <3>5. \A o \in Ops(todo') : CommitOp(i, o)'
      <4>1. ASSUME NEW o \in Ops(rest) PROVE CommitOp(i, o)'
        <5>1. CommitOp(i, o)
          BY <1>3, <3>1
        <5> QED BY <1>1, <3>2, <5>1 DEF CommitOp, Target
      <4> QED BY <1>1, <4>1
    <3>6. i \in Live(mem') /\ Clean(mem') /\ armed' /\ fsIndex' = i /\ (Left("finish"))'
      BY <1>1, <1>8, <3>1
    <3>7. Commit(i)'
      BY <3>2, <3>4, <3>5, <3>6 DEF Commit
    <3>8. todo' # <<>>
      BY <3>6, OpsOfEmpty DEF Left
    <3>9. Work(i)'
      BY <1>1, <1>3, <1>5, <1>11, <3>7, <3>8 DEF Work, Idle
    <3> QED BY <3>9 DEF Storage
  <2>4. CASE Concluding(i)
    <3>1. op = Put("marker", i, 0)
      BY <1>0, <2>4 DEF Concluding
    <3> QED BY <1>1, <3>1 DEF Put
  <2> QED BY <1>2, <2>1, <2>2, <2>3, <2>4 DEF Work
<1>13. /\ stored' \in [Index -> StoredRecord]
       /\ indexInfo' \in [next : 0..MaxIndex, list : SUBSET Index]
       /\ marker' \in 0..MaxIndex
  BY <1>1, <1>5 DEF TypeInv
<1> QED BY <1>1, <1>7, <1>8, <1>9, <1>10, <1>12, <1>13, StorageStep

-----------------------------------------------------------------------------
(* A write that succeeds.                                                  *)

(* A fabric being added is not a committed one.                            *)
LEMMA AddIsUncommitted ==
    ASSUME IInv, NEW j \in Index, AddPending(j)
    PROVE  Uncommitted(j)
<1>1. CleanupInv /\ "add" \in mem.flags /\ mem.pending = j
  BY DEF IInv, AddPending
<1>2. CASE armed
  BY <1>1, <1>2 DEF CleanupInv
<1>3. CASE ~armed
  <2>1. ~Clean(mem)
    BY <1>1 DEF Clean
  <2>2. PICK n \in DOMAIN events : events[n].type = "expired"
    BY <1>1, <1>3, <2>1 DEF CleanupInv
  <2> QED BY <1>1, <2>2 DEF CleanupInv
<1> QED BY <1>2, <1>3

(* What is put fits its place.                                             *)
LEMMA ValueFits ==
    ASSUME IInv, NEW i \in Index, Work(i), NEW o \in Ops(todo), NEW p \in Parts, p = o.part,
           NEW v, v = o.value
    PROVE  /\ p = "meta" => v \in Labels \cup {0}
           /\ p \in {"key", "noc", "icac"} => v \in Versions \cup {0}
           /\ p = "rcac" => v \in {0, 1}
<1>1. CASE v = 0
  BY <1>1
<1>2. CASE v # 0
  <2>1. ~IsErase(o) /\ o.part \notin {"index", "finish", "marker", "certs"}
    BY <1>2, Constants DEF IsErase
  <2>2. CASE Relabelling(i)
    <3>1. PICK l \in Labels : todo = <<Put("meta", i, l)>>
      BY <2>2 DEF Relabelling
    <3>2. Put("meta", i, l) \in Op
      BY Constants, PutIsOp
    <3>3. o = Put("meta", i, l)
      BY <3>1, <3>2, OpsOfOne
    <3> QED BY <3>3 DEF Put
  <2>3. CASE Deleting(i)
    BY <2>1, <2>3 DEF Deleting, IsUnmark
  <2>4. CASE Commit(i)
    <3>1. CommitOp(i, o) /\ i \in Live(mem)
      BY <2>4 DEF Commit
    <3>2. v = Target(i, p)
      BY <2>1, <3>1 DEF CommitOp, IsMark
    <3>3. mem.fabrics[i] \in Entry
      BY <3>1 DEF IInv, TypeInv, IsMem, Fabrics, Live
    <3>4. mem.fabrics[i].label \in Labels /\ mem.fabrics[i].ver \in Versions
      BY <3>3 DEF Entry
    <3> QED BY <3>2, <3>4 DEF Target
  <2>5. CASE Concluding(i)
    <3>1. todo = <<Put("marker", i, 0)>> /\ Put("marker", i, 0) \in Op
      BY <2>5, PutIsOp DEF Concluding
    <3>2. o = Put("marker", i, 0)
      BY <3>1, OpsOfOne
    <3> QED BY <2>1, <3>2 DEF Put
  <2> QED BY <2>2, <2>3, <2>4, <2>5 DEF Work
<1> QED BY <1>1, <1>2

(* One part of a record is replaced.                                       *)
LEMMA ReplacedPart ==
    ASSUME NEW s \in StoredRecord, NEW p \in Parts, NEW v,
           p = "meta" => v \in Labels \cup {0},
           p \in {"key", "noc", "icac"} => v \in Versions \cup {0},
           p = "rcac" => v \in {0, 1},
           NEW r, r = [q \in Parts |-> r[q]], r[p] = v, \A q \in Parts \ {p} : r[q] = s[q]
    PROVE  r \in StoredRecord
<1>1. p \in {"meta", "key", "noc", "icac", "rcac"}
  BY Constants
<1>2. r = [meta |-> r.meta, key |-> r.key, noc |-> r.noc, icac |-> r.icac, rcac |-> r.rcac]
  BY Constants
<1>3. \A q \in {"meta", "key", "noc", "icac", "rcac"} : q # p => r[q] = s[q]
  BY Constants
<1>4. r \in StoredRecord
  <2>1. CASE p = "meta"
    BY <1>2, <1>3, <2>1 DEF StoredRecord
  <2>2. CASE p = "key"
    BY <1>2, <1>3, <2>2 DEF StoredRecord
  <2>3. CASE p = "noc"
    BY <1>2, <1>3, <2>3 DEF StoredRecord
  <2>4. CASE p = "icac"
    BY <1>2, <1>3, <2>4 DEF StoredRecord
  <2>5. CASE p = "rcac"
    BY <1>2, <1>3, <2>5 DEF StoredRecord
  <2> QED BY <1>1, <2>1, <2>2, <2>3, <2>4, <2>5, SMTT(30)
<1> QED BY <1>4

(* The effect of a write.                                                  *)
LEMMA WriteIs ==
    ASSUME IInv, Write, NEW i \in Index, Work(i), NEW op, op = Head(todo), NEW rest, rest = Tail(todo)
    PROVE  /\ ~Idle /\ op.part \notin {"certs", "finish"} /\ todo' = rest
           /\ UNCHANGED <<mem, failed, armed, busy, fsIndex, invoked, events>>
           /\ op \in Op /\ rest \in Seq(Op) /\ Ordered(rest)
           /\ Ops(todo) = {op} \cup Ops(rest)
           /\ \A o \in Ops(rest) : Before(op, o) /\ o \in Op
           /\ op.part \in Parts =>
                /\ indexInfo' = indexInfo /\ marker' = marker
                /\ stored'[i][op.part] = op.value
                /\ \A p \in Parts \ {op.part} : stored'[i][p] = stored[i][p]
           /\ op.part = "index" =>
                /\ marker' = marker /\ stored' = stored
                /\ indexInfo' = [next |-> mem.next, list |-> Live(mem)]
           /\ op.part = "marker" =>
                /\ stored' = stored /\ indexInfo' = indexInfo
                /\ marker' = IF op.value = 0 THEN 0 ELSE i
           /\ \A j \in Index \ {i} : stored'[j] = stored[j]
           /\ stored' \in [Index -> StoredRecord]
           /\ indexInfo' \in [next : 0..MaxIndex, list : SUBSET Index]
           /\ marker' \in 0..MaxIndex /\ tainted' \subseteq Index
           /\ \A j : Foul(j)' <=> j \in tainted /\ stored'[j] # NothingStored
<1>1. /\ ~Idle /\ op.part \notin {"certs", "finish"} /\ todo' = rest
      /\ stored' = IF op.part \in Parts THEN [stored EXCEPT ![op.index][op.part] = op.value] ELSE stored
      /\ indexInfo' = IF op.part = "index" THEN [next |-> op.index, list |-> op.list] ELSE indexInfo
      /\ marker' = IF op.part = "marker" THEN op.index * op.value ELSE marker
      /\ tainted' = {k \in tainted : stored'[k] # NothingStored}
      /\ UNCHANGED <<mem, failed, armed, busy, fsIndex, invoked, events>>
  BY DEF Write, failSafeVars
<1>2. /\ op \in Op /\ rest \in Seq(Op) /\ Ordered(rest)
      /\ Ops(todo) = {op} \cup Ops(rest)
      /\ \A o \in Ops(rest) : Before(op, o) /\ o \in Op
  BY <1>1, NextOperation
<1>3. /\ TypeInv /\ TodoOK /\ stored \in [Index -> StoredRecord]
      /\ op.part # "index" => op.index = i
  BY <1>2 DEF IInv, Work, TypeInv
<1>4. \A j : Foul(j)' <=> j \in tainted /\ stored'[j] # NothingStored
  BY <1>1 DEF Foul
<1>5. "index" \notin Parts /\ "marker" \notin Parts /\ "index" # "marker"
  BY Constants
<1>6. tainted' \subseteq Index
  BY <1>1, <1>3 DEF TypeInv
<1>7. CASE op.part \in Parts
  <2>1. PICK s, p, v, r : s = stored[i] /\ p = op.part /\ v = op.value /\ r = [s EXCEPT ![p] = v]
    OBVIOUS
  <2>2. /\ r \in StoredRecord /\ r[op.part] = op.value
        /\ \A q \in Parts \ {op.part} : r[q] = s[q]
    <3>1. op \in Ops(todo) /\ p \in Parts /\ s \in StoredRecord
      BY <1>2, <1>3, <1>7, <2>1
    <3>2. /\ p = "meta" => v \in Labels \cup {0}
          /\ p \in {"key", "noc", "icac"} => v \in Versions \cup {0}
          /\ p = "rcac" => v \in {0, 1}
      BY <2>1, <3>1, ValueFits
    <3>3. DOMAIN s = Parts
      BY <3>1, Constants DEF StoredRecord
    <3>4. r[p] = v /\ (\A q \in Parts \ {p} : r[q] = s[q]) /\ r = [q \in Parts |-> r[q]]
      BY <2>1, <3>1, <3>3
    <3>5. r \in StoredRecord
      BY <3>1, <3>2, <3>4, ReplacedPart
    <3> QED BY <2>1, <3>4, <3>5
  <2>3. stored' = [stored EXCEPT ![i] = r]
    BY <1>1, <1>3, <1>5, <1>7, <2>1
  <2>4. stored'[i] = r /\ (\A j \in Index \ {i} : stored'[j] = stored[j]) /\ stored' \in [Index -> StoredRecord]
        /\ s = stored[i]
    BY <1>3, <2>1, <2>2, <2>3
  <2>5. indexInfo' = indexInfo /\ marker' = marker
    BY <1>1, <1>5, <1>7
  <2>6. /\ indexInfo' \in [next : 0..MaxIndex, list : SUBSET Index]
        /\ marker' \in 0..MaxIndex
    BY <1>3, <2>5 DEF TypeInv
  <2> QED BY <1>1, <1>2, <1>4, <1>5, <1>6, <1>7, <2>2, <2>4, <2>5, <2>6
<1>8. CASE op.part = "index"
  <2>1. stored' = stored /\ marker' = marker /\ indexInfo' = [next |-> op.index, list |-> op.list]
    BY <1>1, <1>5, <1>8
  <2>2. op.index = mem.next /\ op.list = Live(mem)
    BY <1>2, <1>3, <1>8 DEF TodoOK
  <2>3. mem.next \in 0..MaxIndex /\ Live(mem) \in SUBSET Index
    BY <1>3, LiveIsFinite DEF TypeInv, IsMem
  <2>4. indexInfo' \in [next : 0..MaxIndex, list : SUBSET Index]
    BY <2>1, <2>2, <2>3
  <2> QED BY <1>1, <1>2, <1>3, <1>4, <1>5, <1>6, <1>8, <2>1, <2>2, <2>4 DEF TypeInv
<1>9. CASE op.part = "marker"
  <2>1. stored' = stored /\ indexInfo' = indexInfo /\ marker' = i * op.value
    BY <1>1, <1>3, <1>5, <1>9
  <2>2. IsMark(op) \/ IsUnmark(op)
    <3>1. CASE Relabelling(i)
      <4>1. PICK l \in Labels : todo = <<Put("meta", i, l)>>
        BY <3>1 DEF Relabelling
      <4>2. op = Put("meta", i, l)
        BY <4>1
      <4> QED BY <1>9, <4>2 DEF Put
    <3>2. CASE Deleting(i)
      BY <1>2, <1>5, <1>9, <3>2 DEF Deleting, IsErase
    <3>3. CASE Commit(i)
      <4>1. CommitOp(i, op)
        BY <1>2, <3>3 DEF Commit
      <4> QED BY <1>5, <1>9, <4>1 DEF CommitOp, IsErase, IsPut
    <3>4. CASE Concluding(i)
      <4>1. op = Put("marker", i, 0)
        BY <3>4 DEF Concluding
      <4> QED BY <4>1 DEF Put, IsUnmark
    <3> QED BY <3>1, <3>2, <3>3, <3>4 DEF Work
  <2>3. marker' = IF op.value = 0 THEN 0 ELSE i
    <3>1. op.value = 0 \/ op.value = 1
      BY <2>2 DEF IsMark, IsUnmark
    <3>2. i * 0 = 0 /\ i * 1 = i
      BY Constants
    <3> QED BY <2>1, <3>1, <3>2
  <2>4. marker' \in 0..MaxIndex
    <3>1. i \in 0..MaxIndex /\ 0 \in 0..MaxIndex
      BY Constants
    <3> QED BY <2>3, <3>1
  <2> QED BY <1>1, <1>2, <1>3, <1>4, <1>5, <1>6, <1>9, <2>1, <2>3, <2>4 DEF TypeInv
<1> QED BY <1>1, <1>2, <1>7, <1>8, <1>9, StageOf


(* What is stored for a settled index is listed by the next index write.   *)
LEMMA StoredIsListed ==
    ASSUME IInv, NEW j \in Index, Settled(j), ~Foul(j), stored[j] # NothingStored
    PROVE  j \in Live(mem) /\ j # mem.next
<1>1. Installed(j) /\ mem.fabrics[j].ver = stored[j].noc /\ marker # j
  BY DEF Settled
<1>2. j \in Live(mem)
  <2>1. mem.fabrics[j].ver \in Versions
    BY <1>1 DEF Installed, IsWhole
  <2>2. mem.fabrics[j] # Absent
    BY <2>1, Constants DEF Absent
  <2> QED BY <2>2 DEF Live
<1>3. ~AddPending(j)
  BY <1>1, AddIsUncommitted DEF Uncommitted
<1> QED BY <1>2, <1>3 DEF IInv, TableInv

(* The other indices are not touched.                                      *)
LEMMA OthersStay ==
    ASSUME IInv, Write, NEW i \in Index, Work(i), NEW j \in Index \ {i}
    PROVE  /\ Settled(j)' /\ stored'[j] = stored[j]
           /\ Uncommitted(j) => Uncommitted(j)'
           /\ Foul(j) => Foul(j)'
<1>0. PICK op, rest : op = Head(todo) /\ rest = Tail(todo)
  OBVIOUS
<1>1. /\ stored'[j] = stored[j] /\ mem' = mem
      /\ op.part \in Parts => indexInfo' = indexInfo /\ marker' = marker
      /\ op.part = "index" => /\ marker' = marker
                              /\ indexInfo' = [next |-> mem.next, list |-> Live(mem)]
      /\ op.part = "marker" => indexInfo' = indexInfo /\ marker' \in {0, i}
      /\ \A k : Foul(k)' <=> k \in tainted /\ stored'[k] # NothingStored
      /\ op \in Op /\ op.part \notin {"certs", "finish"}
  BY <1>0, WriteIs
<1>2. op.part \in Parts \/ op.part = "index" \/ op.part = "marker"
  BY <1>1 DEF Op
<1>3. Settled(j) /\ j # 0
  BY Constants DEF Work
<1>4. Foul(j) <=> Foul(j)'
  BY <1>1 DEF Foul
<1>5. marker' = j => marker = j
  BY <1>1, <1>2, <1>3
<1>6. Uncommitted(j) => Uncommitted(j)'
  BY <1>1, <1>3, <1>4 DEF Uncommitted, Settled
<1>7. ASSUME ~Foul(j), stored[j] # NothingStored PROVE Installed(j)'
  <2>1. Installed(j) /\ j \in Live(mem) /\ j # mem.next
    BY <1>3, <1>7, StoredIsListed DEF Settled
  <2>2. IsWhole(stored'[j])
    BY <1>1, <2>1 DEF Installed
  <2>3. j \in indexInfo'.list /\ j # indexInfo'.next
    BY <1>1, <1>2, <2>1 DEF Installed
  <2> QED BY <2>2, <2>3 DEF Installed
<1>8. AddPending(j)' <=> AddPending(j)
  BY <1>1 DEF AddPending
<1>9. Settled(j)'
  BY <1>1, <1>3, <1>4, <1>5, <1>7, <1>8 DEF Settled
<1> QED BY <1>1, <1>4, <1>6, <1>9

(* The label of a fabric is stored.                                        *)
LEMMA WriteRelabels ==
    ASSUME IInv, Write, NEW i \in Index, Work(i), Relabelling(i)
    PROVE  /\ Storage' /\ Settled(i)'
           /\ Uncommitted(i) => Uncommitted(i)'
           /\ Foul(i) => Foul(i)'
           /\ stored'[i].key = stored[i].key /\ stored'[i].noc = stored[i].noc
           /\ stored'[i].meta \in Labels
<1>0. PICK op, rest : op = Head(todo) /\ rest = Tail(todo)
  OBVIOUS
<1>1. PICK l \in Labels : todo = <<Put("meta", i, l)>>
  BY DEF Relabelling
<1>2. op = Put("meta", i, l) /\ rest = <<>>
  BY <1>0, <1>1
<1>3. op.part = "meta" /\ op.value = l /\ "meta" \in Parts
  BY <1>2, Constants DEF Put
<1>4. /\ todo' = rest /\ mem' = mem /\ failed' = failed
      /\ indexInfo' = indexInfo /\ marker' = marker
      /\ stored'[i].meta = l
      /\ \A p \in Parts \ {"meta"} : stored'[i][p] = stored[i][p]
      /\ \A k : Foul(k)' <=> k \in tainted /\ stored'[k] # NothingStored
  BY <1>0, <1>3, WriteIs
<1>5. /\ stored'[i].key = stored[i].key /\ stored'[i].noc = stored[i].noc
      /\ stored'[i].icac = stored[i].icac /\ stored'[i].rcac = stored[i].rcac
  BY <1>4, Constants
<1>6. stored[i].noc # 0 /\ Settled(i) /\ failed = {}
  BY DEF Relabelling
<1>7. stored[i] # NothingStored /\ stored'[i] # NothingStored /\ marker # i
  BY <1>5, <1>6 DEF NothingStored, Settled
<1>8. Foul(i) => Foul(i)'
  BY <1>4, <1>7 DEF Foul
<1>9. Uncommitted(i) => Uncommitted(i)'
  BY <1>7, <1>8 DEF Uncommitted
<1>10. Installed(i) => Installed(i)'
  BY <1>4, <1>5 DEF Installed, IsWhole
<1>11. Settled(i)'
  BY <1>4, <1>5, <1>6, <1>7, <1>8, <1>10 DEF Settled
<1>12. \A j \in Index : Settled(j)'
  BY <1>11, OthersStay
<1>13. Storage'
  BY <1>2, <1>4, <1>6, <1>12 DEF Storage, Idle
<1> QED BY <1>4, <1>5, <1>8, <1>9, <1>11, <1>13

(* The marker of a commit that has been stored is cleared.                 *)
LEMMA WriteConcludes ==
    ASSUME IInv, Write, NEW i \in Index, Work(i), Concluding(i)
    PROVE  /\ Storage' /\ Settled(i)' /\ ~armed /\ ~busy
           /\ Foul(i) => Foul(i)'
           /\ stored'[i].key = stored[i].key
           /\ marker' = 0
<1>0. PICK op, rest : op = Head(todo) /\ rest = Tail(todo)
  OBVIOUS
<1>1. todo = <<Put("marker", i, 0)>>
  BY DEF Concluding
<1>2. op = Put("marker", i, 0) /\ rest = <<>>
  BY <1>0, <1>1
<1>3. op.part = "marker" /\ op.value = 0
  BY <1>2 DEF Put
<1>4. /\ todo' = rest /\ mem' = mem /\ failed' = failed
      /\ indexInfo' = indexInfo /\ stored' = stored /\ marker' = 0
      /\ \A k : Foul(k)' <=> k \in tainted /\ stored'[k] # NothingStored
  BY <1>0, <1>3, WriteIs
<1>5. /\ ~armed /\ ~busy /\ failed = {} /\ stored[i].noc # 0
      /\ Foul(i) \/ (Installed(i) /\ mem.fabrics[i].ver = stored[i].noc)
  BY DEF Concluding
<1>6. Foul(i) => Foul(i)'
  BY <1>4 DEF Foul
<1>7. Installed(i) => Installed(i)'
  BY <1>4 DEF Installed
<1>8. Settled(i)'
  BY <1>4, <1>5, <1>6, <1>7, Constants DEF Settled
<1>9. \A j \in Index : Settled(j)'
  BY <1>8, OthersStay
<1>10. Storage'
  BY <1>2, <1>4, <1>5, <1>9 DEF Storage, Idle
<1> QED BY <1>4, <1>5, <1>6, <1>8, <1>10

(* One of the operations that delete an index is done.                     *)
LEMMA WriteDeletes ==
    ASSUME IInv, Write, NEW i \in Index, Work(i), Deleting(i)
    PROVE  /\ Storage' /\ i \notin Live(mem)
           /\ Uncommitted(i) => Uncommitted(i)'
           /\ stored'[i].meta = 0
           /\ Head(todo).part = "index" => stored[i] = NothingStored
           /\ IsUnmark(Head(todo)) => stored[i] = NothingStored
<1>0. PICK op, rest : op = Head(todo) /\ rest = Tail(todo)
  OBVIOUS
<1>1. /\ todo' = rest /\ mem' = mem /\ failed' = failed
      /\ op \in Op /\ Ops(todo) = {op} \cup Ops(rest) /\ rest \in Seq(Op)
      /\ \A o \in Ops(rest) : Before(op, o) /\ o \in Op
      /\ op.part \in Parts =>
           /\ indexInfo' = indexInfo /\ marker' = marker
           /\ stored'[i][op.part] = op.value
           /\ \A p \in Parts \ {op.part} : stored'[i][p] = stored[i][p]
      /\ op.part = "index" => marker' = marker /\ stored' = stored
      /\ op.part = "marker" => stored' = stored
      /\ stored' \in [Index -> StoredRecord]
      /\ \A k : Foul(k)' <=> k \in tainted /\ stored'[k] # NothingStored
  BY <1>0, WriteIs
<1>2. /\ i \notin Live(mem) /\ failed = {}
      /\ \A o \in Ops(todo) : IsErase(o) \/ o.part = "index" \/ IsUnmark(o)
      /\ \A p \in Parts : stored[i][p] # 0 => EraseLeft(p)
      /\ \A o \in Ops(todo) : o.part # "index" => o.index = i
  BY DEF Deleting, Work
<1>3. IsErase(op) \/ op.part = "index" \/ IsUnmark(op)
  BY <1>1, <1>2
<1>4. "index" \notin Parts /\ "marker" \notin Parts /\ "meta" \in Parts
  BY Constants
<1>5. Stage(op) \in 4..8 /\ (op.part = "index" => Stage(op) = 6) /\ (IsUnmark(op) => Stage(op) = 8)
  BY <1>1, <1>3, StageOf
<1>6. ASSUME NEW o \in Ops(rest) PROVE Stage(o) \in 5..8 /\ (Stage(op) \in 6..8 => Stage(o) > 6)
  <2>1. Stage(o) \in 1..8 /\ Before(op, o)
    BY <1>1, StageOf
  <2> QED BY <1>5, <2>1 DEF Before
<1>7. ASSUME NEW p \in Parts, stored'[i][p] # 0 PROVE (EraseLeft(p))' /\ op.part \in Parts
  <2>1. stored[i][p] # 0 /\ ~(op.part = p /\ op.value = 0)
    <3>1. CASE op.part \in Parts
      <4>1. op.value = 0
        BY <1>3, <1>4, <3>1 DEF IsErase, IsUnmark
      <4> QED BY <1>1, <1>7, <3>1, <4>1
    <3>2. CASE op.part \notin Parts
      BY <1>1, <1>3, <1>7, <3>2 DEF IsErase, IsUnmark
    <3> QED BY <3>1, <3>2
  <2>2. PICK o \in Ops(todo) : o.part = p /\ o.value = 0
    BY <1>2, <2>1 DEF EraseLeft
  <2>3. o \in Ops(rest)
    BY <1>1, <2>1, <2>2
  <2>4. Stage(o) \in {4, 5}
    <3>1. IsErase(o)
      BY <2>2 DEF IsErase
    <3> QED BY <1>1, <2>3, <3>1, StageOf
  <2>5. Stage(op) \notin 6..8
    BY <1>6, <2>3, <2>4
  <2>6. op.part \in Parts
    BY <1>3, <1>5, <2>5 DEF IsErase
  <2> QED BY <1>1, <2>2, <2>3, <2>6 DEF EraseLeft
<1>8. ~(EraseLeft("meta"))'
  <2>1. ASSUME NEW o \in Ops(rest), o.part = "meta", o.value = 0 PROVE FALSE
    <3>1. Stage(o) = 4
      BY <1>1, <1>4, <2>1, StageOf DEF IsErase
    <3> QED BY <1>6, <3>1
  <2> QED BY <1>1, <2>1 DEF EraseLeft
<1>9. stored'[i].meta = 0
  BY <1>4, <1>7, <1>8
<1>10. ASSUME op.part \notin Parts PROVE stored[i] = NothingStored /\ stored'[i] = NothingStored
  <2>1. \A p \in Parts : stored'[i][p] = 0
    BY <1>7, <1>10
  <2>2. stored'[i] = NothingStored
    BY <1>1, <2>1, NothingIsAllZero
  <2> QED BY <1>1, <1>3, <1>10, <2>2 DEF IsErase, IsUnmark
<1>11. stored[i] = NothingStored => stored'[i] = NothingStored
  <2>1. SUFFICES ASSUME stored[i] = NothingStored, op.part \in Parts PROVE stored'[i] = NothingStored
    BY <1>10
  <2>2. op.value = 0
    BY <1>3, <1>4, <2>1 DEF IsErase, IsUnmark
  <2>3. \A p \in Parts : NothingStored[p] = 0
    BY Constants DEF NothingStored
  <2>4. \A p \in Parts : stored'[i][p] = 0
    BY <1>1, <2>1, <2>2, <2>3
  <2> QED BY <1>1, <2>4, NothingIsAllZero
<1>12. Uncommitted(i) => Uncommitted(i)'
  BY <1>1, <1>10, <1>11 DEF Uncommitted, Foul
<1>13. \A j \in Index \ {i} : Settled(j)'
  BY OthersStay
<1>14. Storage'
  <2>1. CASE rest = <<>>
    <3>1. \A p \in Parts : stored'[i][p] = 0
      BY <1>1, <1>7, <2>1, OpsOfEmpty DEF EraseLeft
    <3>2. stored'[i] = NothingStored
      BY <1>1, <3>1, NothingIsAllZero
    <3>3. Settled(i)'
      BY <1>1, <1>2, <3>2 DEF Settled
    <3> QED BY <1>1, <1>2, <1>13, <2>1, <3>3 DEF Storage, Idle
  <2>2. CASE rest # <<>>
    <3>1. Deleting(i)'
      BY <1>1, <1>2, <1>7, <1>8, <1>9 DEF Deleting
    <3>2. Work(i)'
      BY <1>1, <1>2, <1>13, <2>2, <3>1 DEF Work, Idle
    <3> QED BY <3>2 DEF Storage
  <2> QED BY <2>1, <2>2
<1> QED BY <1>0, <1>2, <1>4, <1>9, <1>10, <1>12, <1>14 DEF IsUnmark

(* One of the operations of a commit is done.                              *)
LEMMA WriteCommits ==
    ASSUME IInv, Write, NEW i \in Index, Work(i), Commit(i)
    PROVE  /\ Storage' /\ Left("finish")
           /\ Uncommitted(i) => Uncommitted(i)'
           /\ Foul(i) => Foul(i)' \/ mem.next # i
           /\ IsMark(Head(todo)) \/ (~MarkLeft /\ Uncommitted(i))
           /\ Uncommitted(i)'
<1>0. PICK op, rest : op = Head(todo) /\ rest = Tail(todo)
  OBVIOUS
<1>1. /\ todo' = rest /\ UNCHANGED <<mem, failed, armed, fsIndex>>
      /\ op \in Op /\ Ops(todo) = {op} \cup Ops(rest) /\ rest \in Seq(Op)
      /\ op.part \notin {"certs", "finish"}
      /\ \A o \in Ops(rest) : Before(op, o) /\ o \in Op
      /\ op.part \in Parts =>
           /\ indexInfo' = indexInfo /\ marker' = marker
           /\ stored'[i][op.part] = op.value
           /\ \A p \in Parts \ {op.part} : stored'[i][p] = stored[i][p]
      /\ op.part = "index" => /\ marker' = marker /\ stored' = stored
                              /\ indexInfo' = [next |-> mem.next, list |-> Live(mem)]
      /\ op.part = "marker" => /\ stored' = stored /\ indexInfo' = indexInfo
                               /\ marker' = IF op.value = 0 THEN 0 ELSE i
      /\ stored' \in [Index -> StoredRecord]
      /\ \A k : Foul(k)' <=> k \in tainted /\ stored'[k] # NothingStored
      /\ tainted' = {k \in tainted : stored'[k] # NothingStored}
  <2>1. tainted' = {k \in tainted : stored'[k] # NothingStored}
    BY DEF Write
  <2> QED BY <1>0, <2>1, WriteIs
<1>2. /\ i \in Live(mem) /\ Clean(mem) /\ armed /\ fsIndex = i /\ Left("finish")
      /\ \A o \in Ops(todo) : CommitOp(i, o)
      /\ IF MarkLeft THEN Unmarked(i) ELSE Marked(i)
      /\ failed = {} => PutLeft("noc") \/ stored[i].noc = Target(i, "noc")
      /\ failed = {} /\ ~Foul(i) =>
            /\ \A p \in Parts : PutLeft(p) \/ stored[i][p] = Target(i, p)
            /\ Left("index") \/ (i \in indexInfo.list /\ i # indexInfo.next)
      /\ \A o \in Ops(todo) : o.part # "index" => o.index = i
  BY DEF Commit, Work
<1>3. /\ "index" \notin Parts /\ "marker" \notin Parts /\ "certs" \notin Parts
      /\ "finish" \notin Parts /\ "noc" \in Parts
  BY Constants
<1>4. \/ op.part = "index" \/ IsMark(op)
      \/ IsPut(op) /\ op.value = Target(i, op.part)
      \/ IsErase(op) /\ op.part # "meta" /\ failed # {} /\ mem.next # i
  <2>1. CommitOp(i, op)
    BY <1>1, <1>2
  <2> QED BY <1>1, <2>1 DEF CommitOp
<1>5. mem.next = i => Foul(i)
  <2>1. ~AddPending(i)
    BY <1>2 DEF Clean, AddPending
  <2> QED BY <1>2, <2>1 DEF IInv, TableInv
<1>6. /\ IsMark(op) => Stage(op) = 1
      /\ IsPut(op) => Stage(op) = 2
      /\ IsErase(op) => Stage(op) \in {4, 5}
      /\ op.part = "index" => Stage(op) = 6
      /\ Stage(op) \in 1..8
  BY <1>1, StageOf DEF IsMark
<1>7. \A o \in Ops(rest) : Stage(o) \in 1..8 /\ (Stage(op) < Stage(o) \/ (Stage(op) = Stage(o) /\ Stage(op) \in {2, 5}))
  BY <1>1, StageOf DEF Before
<1>8. ~MarkLeft'
  <2>1. ASSUME NEW o \in Ops(rest), IsMark(o) PROVE FALSE
    <3>1. Stage(o) = 1
      BY <1>1, <2>1, StageOf DEF IsMark
    <3> QED BY <1>6, <1>7, <3>1
  <2> QED BY <1>1, <2>1 DEF MarkLeft
<1>9. ASSUME ~IsMark(op) PROVE ~MarkLeft /\ Marked(i)
  <2>1. ~MarkLeft
    BY <1>1, <1>8, <1>9 DEF MarkLeft
  <2> QED BY <1>2, <2>1
<1>10. ASSUME IsErase(op) \/ op.part = "index" PROVE \A p \in Parts : ~(PutLeft(p))'
  <2>1. ASSUME NEW p \in Parts, NEW o \in Ops(rest), o.part = p, o.value # 0 PROVE FALSE
    <3>1. Stage(o) = 2
      BY <1>1, <2>1, StageOf DEF IsPut
    <3> QED BY <1>6, <1>7, <1>10, <3>1
  <2> QED BY <1>1, <2>1 DEF PutLeft
<1>11. IsPut(op) => stored'[i] # NothingStored
  <2>1. \A p \in Parts : NothingStored[p] = 0
    BY Constants DEF NothingStored
  <2> QED BY <1>1, <2>1 DEF IsPut
<1>12. stored[i] = NothingStored /\ ~IsPut(op) => stored'[i] = NothingStored
  <2>1. SUFFICES ASSUME stored[i] = NothingStored, IsErase(op) PROVE stored'[i] = NothingStored
    BY <1>1, <1>4 DEF IsMark
  <2>3. \A p \in Parts : NothingStored[p] = 0
    BY Constants DEF NothingStored
  <2>4. \A p \in Parts : stored'[i][p] = 0
    BY <1>1, <2>1, <2>3 DEF IsErase
  <2> QED BY <1>1, <2>4, NothingIsAllZero
<1>13. Foul(i) => Foul(i)' \/ IsErase(op)
  BY <1>1, <1>4, <1>11 DEF Foul, IsMark
<1>14. \/ op.part \in Parts /\ marker' = marker
       \/ op.part = "index" /\ marker' = marker
       \/ IsMark(op) /\ marker' = i
  BY <1>1, <1>4 DEF IsPut, IsErase, IsMark
<1>15. ASSUME ~IsMark(op) PROVE Marked(i)'
  <2>1. marker' = marker /\ failed' = failed
    BY <1>1, <1>14, <1>15
  <2>2. CASE marker = i
    BY <2>1, <2>2 DEF Marked
  <2>3. CASE failed # {} /\ i \in tainted
    <3>1. CASE stored'[i] # NothingStored
      BY <1>1, <2>1, <2>3, <3>1 DEF Marked
    <3>2. CASE stored'[i] = NothingStored
      <4>1. IsErase(op) \/ op.part = "index"
        BY <1>4, <1>11, <1>15, <3>2
      <4> QED BY <1>10, <2>1, <2>3, <3>2, <4>1 DEF Marked
    <3> QED BY <3>1, <3>2
  <2>4. CASE failed # {} /\ stored[i] = NothingStored /\ \A p \in Parts : ~PutLeft(p)
    <3>1. ~IsPut(op)
      BY <1>1, <2>4 DEF PutLeft, IsPut
    <3>2. \A p \in Parts : ~(PutLeft(p))'
      BY <1>4, <1>10, <1>15, <3>1
    <3> QED BY <1>12, <2>1, <2>4, <3>1, <3>2 DEF Marked
  <2> QED BY <1>9, <1>15, <2>2, <2>3, <2>4 DEF Marked
<1>16. Marked(i)'
  <2>1. IsMark(op) => Marked(i)'
    BY <1>3, <1>14 DEF Marked, IsMark
  <2> QED BY <1>15, <2>1
<1>17. Uncommitted(i)'
  <2>1. i \in tainted' => Foul(i)'
    BY <1>1
  <2> QED BY <1>16, <2>1 DEF Marked, Uncommitted
<1>18. ASSUME ~IsMark(op) PROVE Uncommitted(i)
  BY <1>9, <1>18 DEF Marked, Uncommitted, Foul
<1>19. ASSUME NEW p \in Parts, failed = {}, PutLeft(p) \/ stored[i][p] = Target(i, p)
       PROVE  (PutLeft(p))' \/ stored'[i][p] = Target(i, p)
  <2>1. ~IsErase(op)
    BY <1>3, <1>4, <1>19 DEF IsErase, IsPut, IsMark
  <2>2. CASE op.part = p
    <3>1. op.value = Target(i, p)
      BY <1>3, <1>4, <1>19, <2>1, <2>2 DEF IsMark
    <3> QED BY <1>1, <2>2, <3>1
  <2>3. CASE op.part # p
    <3>1. stored'[i][p] = stored[i][p]
      BY <1>1, <1>14, <2>3 DEF IsMark
    <3>2. PutLeft(p) => (PutLeft(p))'
      BY <1>1, <2>3 DEF PutLeft
    <3> QED BY <1>19, <3>1, <3>2
  <2> QED BY <2>2, <2>3
<1>20. \A p : Target(i, p)' = Target(i, p)
  BY <1>1 DEF Target
<1>21. ASSUME failed = {}, ~Foul(i)'
       PROVE  (Left("index"))' \/ (i \in indexInfo'.list /\ i # indexInfo'.next)
  <2>1. ~IsErase(op) /\ ~Foul(i)
    BY <1>3, <1>4, <1>13, <1>21 DEF IsErase, IsPut, IsMark
  <2>2. CASE op.part = "index"
    BY <1>1, <1>2, <1>5, <2>1, <2>2
  <2>3. CASE op.part # "index"
    <3>1. indexInfo' = indexInfo
      BY <1>1, <1>14, <2>3 DEF IsMark
    <3>2. Left("index") => (Left("index"))'
      BY <1>1, <2>3 DEF Left
    <3> QED BY <1>2, <1>21, <2>1, <3>1, <3>2
  <2> QED BY <2>2, <2>3
<1>22. ASSUME failed = {}, ~Foul(i)', NEW p \in Parts
       PROVE  (PutLeft(p))' \/ stored'[i][p] = Target(i, p)
  <2>1. ~IsErase(op) /\ ~Foul(i)
    BY <1>3, <1>4, <1>13, <1>22 DEF IsErase, IsPut, IsMark
  <2> QED BY <1>2, <1>19, <1>22, <2>1
<1>23. failed = {} => (PutLeft("noc"))' \/ stored'[i].noc = Target(i, "noc")
  BY <1>2, <1>3, <1>19
<1>24. (Left("finish"))'
  BY <1>1, <1>2 DEF Left
<1>25. \A o \in Ops(todo') : CommitOp(i, o)'
  <2>1. ASSUME NEW o \in Ops(rest) PROVE CommitOp(i, o)'
    <3>1. CommitOp(i, o)
      BY <1>1, <1>2
    <3> QED BY <1>1, <1>20, <3>1 DEF CommitOp
  <2> QED BY <1>1, <2>1
<1>26. Commit(i)'
  <2>1. i \in Live(mem') /\ Clean(mem') /\ armed' /\ fsIndex' = i /\ failed' = failed
    BY <1>1, <1>2
  <2> QED BY <1>8, <1>16, <1>20, <1>21, <1>22, <1>23, <1>24, <1>25, <2>1 DEF Commit
<1>27. Storage'
  <2>1. todo' # <<>>
    BY <1>24, OpsOfEmpty DEF Left
  <2>2. \A j \in Index \ {i} : Settled(j)'
    BY OthersStay
  <2>3. Work(i)'
    BY <1>1, <1>2, <1>26, <2>1, <2>2 DEF Work, Idle
  <2> QED BY <2>3 DEF Storage
<1>28. Foul(i) => Foul(i)' \/ mem.next # i
  BY <1>3, <1>4, <1>13 DEF IsErase, IsPut, IsMark
<1> QED BY <1>0, <1>2, <1>9, <1>17, <1>18, <1>27, <1>28

LEMMA WriteInv ==
    ASSUME IInv, Write
    PROVE  IInv'
<1>0. PICK op, rest : op = Head(todo) /\ rest = Tail(todo)
  OBVIOUS
<1>1. ~Idle
  BY DEF Write
<1>2. PICK i \in Index : Work(i)
  BY <1>1, NextOperation
<1>3. /\ op.part \notin {"certs", "finish"} /\ todo' = rest
      /\ UNCHANGED <<mem, armed, busy, fsIndex, invoked, events>>
      /\ rest \in Seq(Op) /\ Ordered(rest) /\ Ops(todo) = {op} \cup Ops(rest)
      /\ stored' \in [Index -> StoredRecord]
      /\ indexInfo' \in [next : 0..MaxIndex, list : SUBSET Index]
      /\ marker' \in 0..MaxIndex /\ tainted' \subseteq Index
  BY <1>0, <1>2, WriteIs
<1>4. TodoOK'
  BY <1>3 DEF IInv, TodoOK
<1>5. (Left("finish"))' <=> Left("finish")
  BY <1>3 DEF Left
<1>6. /\ Storage'
      /\ Uncommitted(i) => Uncommitted(i)' \/ (~armed /\ ~busy)
      /\ Foul(i) => Foul(i)' \/ i \notin Live(mem) \/ (mem.next # i /\ Left("finish"))
      /\ stored'[i].key = stored[i].key \/ i \notin Live(mem) \/ Left("finish")
  <2>1. CASE Relabelling(i)
    BY <1>2, <2>1, WriteRelabels
  <2>2. CASE Deleting(i)
    BY <1>2, <2>2, WriteDeletes
  <2>3. CASE Commit(i)
    BY <1>2, <2>3, WriteCommits
  <2>4. CASE Concluding(i)
    BY <1>2, <2>4, WriteConcludes
  <2> QED BY <1>2, <2>1, <2>2, <2>3, <2>4 DEF Work
<1>7. ASSUME NEW j \in Index
      PROVE  /\ Uncommitted(j) => Uncommitted(j)' \/ (~armed /\ ~busy)
             /\ Foul(j) => Foul(j)' \/ j \notin Live(mem) \/ (mem.next # j /\ Left("finish"))
             /\ Foul(j) /\ stored[j].key # 0 =>
                   stored'[j].key # 0 \/ j \notin Live(mem) \/ Left("finish")
  <2>1. CASE j = i
    BY <1>6, <2>1
  <2>2. CASE j # i
    <3>1. /\ stored'[j] = stored[j]
          /\ Uncommitted(j) => Uncommitted(j)'
          /\ Foul(j) => Foul(j)'
      BY <1>2, <2>2, OthersStay
    <3> QED BY <3>1
  <2> QED BY <2>1, <2>2
<1> QED BY <1>3, <1>4, <1>5, <1>6, <1>7, StorageStep

-----------------------------------------------------------------------------
(* The invariant.                                                          *)

LEMMA InitInv == Init => IInv
<1> SUFFICES ASSUME Init PROVE IInv
  OBVIOUS
<1>1. /\ armed = FALSE /\ busy = FALSE /\ fsIndex = 0 /\ invoked = {} /\ events = <<>>
      /\ stored = [i \in Index |-> NothingStored] /\ indexInfo = [next |-> 1, list |-> {}]
      /\ marker = 0 /\ mem = LoadedMem /\ todo = <<>> /\ failed = {} /\ tainted = {}
  BY DEF Init, FailSafeInit
<1>2. NothingStored \in StoredRecord
  BY DEF NothingStored, StoredRecord
<1>3. /\ stored \in [Index -> StoredRecord]
      /\ indexInfo \in [next : 0..MaxIndex, list : SUBSET Index]
  <2>1. 1 \in 0..MaxIndex
    BY Constants
  <2>2. stored \in [Index -> StoredRecord]
    BY <1>1, <1>2
  <2>3. indexInfo \in [next : 0..MaxIndex, list : SUBSET Index]
    BY <1>1, <2>1
  <2> QED BY <2>2, <2>3
<1>4. /\ IsMem(mem) /\ Clean(mem) /\ Tabled(mem)
      /\ Live(mem) = {i \in Index : Loadable(i)}
  BY <1>1, <1>3, LoadedMemIs
<1>5. Live(mem) = {}
  BY <1>1, <1>4 DEF Loadable
<1>6. \A j \in Index : stored[j] = NothingStored
  BY <1>1
<1>7. TypeInv
  <2>1. 0 \in 0..MaxIndex
    BY Constants
  <2>2. armed \in BOOLEAN /\ busy \in BOOLEAN
    BY <1>1
  <2>3. /\ fsIndex \in 0..MaxIndex /\ invoked \subseteq ContextFlags
        /\ events \in Seq(Event) /\ marker \in 0..MaxIndex /\ tainted \subseteq Index
    BY <1>1, <2>1
  <2> QED BY <1>3, <1>4, <2>2, <2>3 DEF TypeInv
<1>8. TodoOK
  BY <1>1, OpsOfEmpty DEF TodoOK
<1>9. Storage
  <2>1. \A j \in Index : Settled(j)
    BY <1>5, <1>6 DEF Settled
  <2> QED BY <1>1, <2>1 DEF Storage, Idle
<1>10. TableInv
  BY <1>4, <1>5 DEF TableInv
<1>11. QueueInv
  BY <1>1 DEF QueueInv
<1>12. CleanupInv
  BY <1>1, <1>4 DEF CleanupInv
<1>13. PendingInv
  BY <1>4 DEF PendingInv, Clean
<1>14. ReadyInv
  BY <1>1 DEF ReadyInv
<1> QED BY <1>7, <1>8, <1>9, <1>10, <1>11, <1>12, <1>13, <1>14 DEF IInv

LEMMA NextInv ==
    ASSUME ~MayAbandon
    PROVE  IInv /\ [Next]_vars => IInv'
<1> SUFFICES ASSUME IInv, [Next]_vars PROVE IInv'
  OBVIOUS
<1>1. CASE \E a \in 0..MaxIndex : ArmFailSafe(a)
  BY <1>1, ArmFailSafeInv
<1>2. CASE ExpireFailSafe
  BY <1>2, ExpireFailSafeInv
<1>3. CASE \E a \in 0..MaxIndex, i \in Index, forUpdate \in BOOLEAN, ver \in Versions :
              CSRRequest(a, i, forUpdate, ver)
  BY <1>3, CSRRequestInv
<1>4. CASE \E a \in 0..MaxIndex : AddTrustedRootCertificate(a)
  BY <1>4, AddTrustedRootCertificateInv
<1>5. CASE \E a \in 0..MaxIndex, noc \in Versions, ok \in BOOLEAN : AddNOC(a, noc, ok)
  BY <1>5, AddNOCInv
<1>6. CASE \E a \in Index, noc \in Versions : UpdateNOC(a, noc)
  BY <1>6, UpdateNOCInv
<1>7. CASE \E a \in Index, label \in Labels : UpdateFabricLabel(a, label)
  BY <1>7, UpdateFabricLabelInv
<1>8. CASE \E i \in Index : RemoveFabric(i)
  BY <1>8, RemoveFabricInv
<1>9. CASE \E a \in Index : CommissioningComplete(a)
  BY <1>9, CommissioningCompleteInv
<1>10. CASE CertsStored
  BY <1>10, CertsStoredInv
<1>11. CASE CommitFinished
  BY <1>11, CommitFinishedInv
<1>12. CASE Write
  BY <1>12, WriteInv
<1>13. CASE WriteFails
  BY <1>13, WriteFailsInv
<1>14. CASE Crash
  BY <1>14, CrashInv
<1>15. CASE FailSafeCleanup
  BY <1>15, FailSafeCleanupInv
<1>16. CASE FailSafeDisarmed
  BY <1>16, FailSafeDisarmedInv
<1>17. CASE MarkerCleared
  BY <1>17, MarkerClearedInv
<1>18. CASE UNCHANGED vars
  <2>1. /\ UNCHANGED <<armed, busy, fsIndex, invoked, events, mem>>
        /\ UNCHANGED <<stored, indexInfo, marker, tainted>>
        /\ UNCHANGED <<todo, failed>>
    BY <1>18 DEF vars, failSafeVars
  <2>2. TypeInv /\ TodoOK /\ Storage
    BY DEF IInv
  <2>3. TodoOK'
    BY <2>1, <2>2 DEF TodoOK
  <2>4. (Left("finish"))' <=> Left("finish")
    BY <2>1 DEF Left
  <2>5. /\ stored' \in [Index -> StoredRecord]
        /\ indexInfo' \in [next : 0..MaxIndex, list : SUBSET Index]
        /\ marker' \in 0..MaxIndex /\ tainted' \subseteq Index
    BY <2>1, <2>2 DEF TypeInv
  <2>6. \A j : /\ Foul(j)' <=> Foul(j)
               /\ Installed(j)' <=> Installed(j)
               /\ StoreOK(j)' <=> StoreOK(j)
               /\ Uncommitted(j)' <=> Uncommitted(j)
    BY <2>1, SameStorage
  <2>7. \A j \in Index : Settled(j) => Settled(j)'
    BY <2>1, <2>6 DEF Settled, AddPending
  <2>8. Storage'
    <3>1. CASE Idle
      BY <2>1, <2>7, <3>1, WhenIdle DEF Storage, Idle
    <3>2. CASE ~Idle
      <4>1. PICK i \in Index : Work(i)
        BY <3>2, NextOperation
      <4>2. Relabelling(i) => Relabelling(i)'
        BY <2>1, <2>7 DEF Relabelling
      <4>3. Deleting(i) => Deleting(i)'
        BY <2>1, <2>6 DEF Deleting, EraseLeft
      <4>4. Commit(i) => Commit(i)'
        BY <2>1, <2>6 DEF Commit, CommitOp, Unmarked, Marked, MarkLeft, PutLeft, Left, Target
      <4>5. Concluding(i) => Concluding(i)'
        BY <2>1, <2>6 DEF Concluding
      <4>6. Work(i)'
        BY <2>1, <2>7, <4>1, <4>2, <4>3, <4>4, <4>5 DEF Work, Idle
      <4> QED BY <4>6 DEF Storage
    <3> QED BY <3>1, <3>2
  <2> QED BY <2>1, <2>3, <2>4, <2>5, <2>6, <2>8, StorageStep
<1> QED
  BY <1>1, <1>2, <1>3, <1>4, <1>5, <1>6, <1>7, <1>8, <1>9, <1>10, <1>11, <1>12, <1>13,
     <1>14, <1>15, <1>16, <1>17, <1>18 DEF Next

(* The invariant holds as long as no pending key or root is abandoned by a *)
(* CommissioningComplete without a NOC command.                            *)
THEOREM FabricTableInvariant ==
    ASSUME ~MayAbandon
    PROVE  Spec => []IInv
<1>1. IInv /\ [Next]_vars => IInv'
  BY NextInv
<1> QED BY <1>1, InitInv, PTL DEF Spec

-----------------------------------------------------------------------------
(* The properties.                                                         *)

(* Nothing is left in storage of a fabric that a failed commit,            *)
(* RemoveFabric or the clean-up after a restart has removed.               *)
THEOREM NothingIsLeftOver ==
    ASSUME ~MayAbandon
    PROVE  Spec => []NoLeftovers
<1>1. IInv => NoLeftovers
  <2>1. SUFFICES ASSUME IInv, Idle, NEW i \in Index \ (tainted \cup {marker}), i \notin Live(mem)
                 PROVE  stored[i] = NothingStored
    BY DEF NoLeftovers
  <2>2. Settled(i) /\ ~Foul(i)
    BY <2>1, WhenIdle DEF Foul
  <2> QED BY <2>1, <2>2, StoredIsListed
<1> QED BY <1>1, FabricTableInvariant, PTL

(* What a restart would find for an index.                                 *)
Nothing == [ver |-> 0, whole |-> TRUE, label |-> 0]

Credentials(r) == [ver |-> r.noc, label |-> r.meta, whole |-> TRUE]

LEMMA DurableAt ==
    ASSUME NEW j \in Index
    PROVE  /\ Uncommitted(j) => Durable[j] = Nothing
           /\ stored[j].meta = 0 => Durable[j] = Nothing
           /\ j \in tainted => Durable[j] = Nothing
           /\ Installed(j) /\ marker # j /\ j \notin tainted => Durable[j] = Credentials(stored[j])
<1>1. Durable[j] = IF marker = j \/ j \in tainted \/ ~Loadable(j)
                     THEN [ver |-> 0, whole |-> TRUE, label |-> 0]
                     ELSE [ver |-> stored[j].noc, label |-> stored[j].meta,
                           whole |-> {stored[j].key, stored[j].icac} = {stored[j].noc}]
  BY DEF Durable
<1>2. stored[j] = NothingStored => stored[j].meta = 0
  BY DEF NothingStored
<1>3. stored[j].meta = 0 => ~Loadable(j)
  BY DEF Loadable
<1>4. ASSUME Installed(j), marker # j, j \notin tainted
      PROVE  Durable[j] = Credentials(stored[j])
  <2>1. Loadable(j)
    BY <1>4, Constants DEF Installed, IsWhole, Loadable
  <2>2. ({stored[j].key, stored[j].icac} = {stored[j].noc}) = TRUE
    BY <1>4 DEF Installed, IsWhole
  <2> QED BY <1>1, <1>4, <2>1, <2>2 DEF Credentials
<1> QED BY <1>1, <1>2, <1>3, <1>4 DEF Uncommitted, Foul, Nothing

(* The fabrics in memory are those a restart would load, when nothing is   *)
(* pending and no operation is running.                                    *)
THEOREM MemoryIsDurable ==
    ASSUME ~MayAbandon
    PROVE  Spec => []MemoryMatchesStorage
<1>1. IInv => MemoryMatchesStorage
  <2>1. SUFFICES ASSUME IInv, Idle, mem.flags = {}, NEW i \in Index \ (tainted \cup {marker})
                 PROVE  mem.fabrics[i].ver = Durable[i].ver
    BY DEF MemoryMatchesStorage
  <2>2. Settled(i) /\ ~Foul(i) /\ ~AddPending(i)
    BY <2>1, WhenIdle DEF Foul, AddPending
  <2>3. CASE stored[i] = NothingStored
    <3>1. i \notin Live(mem)
      BY <2>2, <2>3 DEF Settled, NothingStored
    <3>2. mem.fabrics[i].ver = 0
      BY <3>1 DEF Live, Absent
    <3>3. Durable[i] = Nothing
      BY <2>3, DurableAt DEF Uncommitted
    <3> QED BY <3>2, <3>3 DEF Nothing
  <2>4. CASE stored[i] # NothingStored
    <3>1. Installed(i) /\ mem.fabrics[i].ver = stored[i].noc
      BY <2>2, <2>4 DEF Settled
    <3>2. Durable[i] = Credentials(stored[i])
      BY <3>1, DurableAt
    <3> QED BY <3>1, <3>2 DEF Credentials
  <2> QED BY <2>3, <2>4
<1> QED BY <1>1, FabricTableInvariant, PTL

(* The clean-up of an expired AddNOC never names a committed fabric.       *)
THEOREM CleanupIsSafe ==
    ASSUME ~MayAbandon
    PROVE  Spec => []CleanupNamesUncommitted
<1>1. IInv => CleanupNamesUncommitted
  <2>1. SUFFICES ASSUME IInv, NEW i \in CleanupTargets \cap Index PROVE Durable[i].ver = 0
    BY DEF CleanupNamesUncommitted
  <2>2. CASE i \in {fsIndex} /\ armed /\ "addNoc" \in invoked
    BY <2>1, <2>2, DurableAt DEF IInv, CleanupInv, Nothing
  <2>3. CASE \E n \in DOMAIN events : events[n].add /\ events[n].fabric = i
    BY <2>1, <2>3, DurableAt DEF IInv, CleanupInv, Nothing
  <2> QED BY <2>1, <2>2, <2>3 DEF CleanupTargets
<1> QED BY <1>1, FabricTableInvariant, PTL

(* The next fabric index is free unless by the fabric being added there,   *)
(* and the count of fabrics is right.                                      *)
THEOREM TableStaysConsistent ==
    ASSUME ~MayAbandon
    PROVE  Spec => []TableIsConsistent
<1>1. IInv => TableIsConsistent
  BY DEF IInv, TableInv, Tabled, TableIsConsistent, Foul, AddPending
<1> QED BY <1>1, FabricTableInvariant, PTL

(* The pre-flight checks of CommitPendingFabricData never fail: whatever   *)
(* other administrators have done since, what an accepted NOC command      *)
(* needs is there.                                                         *)
THEOREM CommitFindsWhatItNeeds ==
    ASSUME ~MayAbandon
    PROVE  Spec => []CommitIsNeverInconsistent
<1>1. IInv => CommitIsNeverInconsistent
  BY CommitIsPrepared DEF CommitIsNeverInconsistent
<1> QED BY <1>1, FabricTableInvariant, PTL

-----------------------------------------------------------------------------
(* The refinement.                                                         *)

(* How FabricStore lets one entry change: stay, be withdrawn, be installed *)
(* or be relabelled.                                                       *)
EntryStep(a, b) ==
    \/ b = a
    \/ b = Nothing
    \/ a = Nothing /\ \E v \in Versions, l \in Labels :
                         b = [ver |-> v, label |-> l, whole |-> TRUE]
    \/ a # Nothing /\ \E l, v, k, w :
                         /\ l \in Labels
                         /\ a = [ver |-> v, label |-> k, whole |-> w]
                         /\ b = [ver |-> v, label |-> l, whole |-> w]

(* At most the entry of index i changes, and as FabricStore allows.        *)
LEMMA StoreStep ==
    ASSUME NEW i \in Index, NEW d, d = Durable, NEW e, e = Durable',
           \A j \in Index \ {i} : e[j] = d[j],
           EntryStep(d[i], e[i])
    PROVE  [Store!Next]_Durable
<1>1. /\ d = [j \in Index |-> d[j]] /\ e = [j \in Index |-> e[j]]
  BY DEF Durable
<1>2. e = [d EXCEPT ![i] = e[i]]
  BY <1>1
<1>3. Store!Nothing = Nothing
  BY DEF Store!Nothing, Nothing
<1>4. CASE e[i] = d[i]
  <2>1. e = d
    BY <1>1, <1>4
  <2> QED BY <2>1
<1>5. CASE e[i] = Nothing /\ d[i] # Nothing
  <2>1. Store!Withdraw(i)
    BY <1>2, <1>3, <1>5 DEF Store!Withdraw
  <2> QED BY <2>1 DEF Store!Next
<1>6. CASE d[i] = Nothing /\ \E v \in Versions, l \in Labels :
                                e[i] = [ver |-> v, label |-> l, whole |-> TRUE]
  <2>1. e[i] \in Store!Whole
    BY <1>6 DEF Store!Whole
  <2>2. Store!Install(i)
    BY <1>2, <1>3, <1>6, <2>1 DEF Store!Install
  <2> QED BY <2>2 DEF Store!Next
<1>7. CASE d[i] # Nothing /\ \E l, v, k, w :
                                /\ l \in Labels
                                /\ d[i] = [ver |-> v, label |-> k, whole |-> w]
                                /\ e[i] = [ver |-> v, label |-> l, whole |-> w]
  <2>0. PICK l, v, k, w : /\ l \in Labels
                          /\ d[i] = [ver |-> v, label |-> k, whole |-> w]
                          /\ e[i] = [ver |-> v, label |-> l, whole |-> w]
    BY <1>7
  <2>1. e[i] = [d[i] EXCEPT !.label = l]
    BY <2>0
  <2>2. e = [d EXCEPT ![i].label = l]
    BY <1>1, <1>2, <2>1
  <2>3. Store!Relabel(i)
    <3>1. l \in Labels
      BY <2>0
    <3> QED BY <1>3, <1>7, <2>2, <3>1 DEF Store!Relabel
  <2> QED BY <2>3 DEF Store!Next
<1> QED BY <1>4, <1>5, <1>6, <1>7 DEF EntryStep

(* What a restart would find for an index that no operation is busy with.  *)
LEMMA DurableWhenSettled ==
    ASSUME NEW j \in Index
    PROVE  /\ Settled(j) =>
                Durable[j] = IF Foul(j) \/ stored[j] = NothingStored THEN Nothing
                                                                     ELSE Credentials(stored[j])
           /\ (Settled(j) =>
                Durable[j] = IF Foul(j) \/ stored[j] = NothingStored THEN Nothing
                                                                     ELSE Credentials(stored[j]))'
<1>1. \A k \in Index :
        /\ Durable[k] = IF marker = k \/ k \in tainted \/ ~Loadable(k)
                          THEN [ver |-> 0, whole |-> TRUE, label |-> 0]
                          ELSE [ver |-> stored[k].noc, label |-> stored[k].meta,
                                whole |-> {stored[k].key, stored[k].icac} = {stored[k].noc}]
        /\ (Durable[k])' = IF marker' = k \/ k \in tainted' \/ ~Loadable(k)'
                          THEN [ver |-> 0, whole |-> TRUE, label |-> 0]
                          ELSE [ver |-> stored'[k].noc, label |-> stored'[k].meta,
                                whole |-> {stored'[k].key, stored'[k].icac} = {stored'[k].noc}]
  BY DEF Durable
<1>2. ASSUME Settled(j)
      PROVE  Durable[j] = IF Foul(j) \/ stored[j] = NothingStored THEN Nothing
                                                                  ELSE Credentials(stored[j])
  <2>1. CASE Foul(j) \/ stored[j] = NothingStored
    BY <2>1, DurableAt DEF Uncommitted
  <2>2. CASE ~Foul(j) /\ stored[j] # NothingStored
    BY <1>2, <2>2, DurableAt DEF Settled, Foul
  <2> QED BY <2>1, <2>2
<1>3. ASSUME Settled(j)'
      PROVE  (Durable[j] = IF Foul(j) \/ stored[j] = NothingStored THEN Nothing
                                                                   ELSE Credentials(stored[j]))'
  <2>1. CASE Foul(j)' \/ stored'[j] = NothingStored
    <3>1. j \in tainted' \/ ~Loadable(j)'
      BY <2>1 DEF Foul, Loadable, NothingStored
    <3> QED BY <1>1, <2>1, <3>1 DEF Nothing
  <2>2. CASE ~Foul(j)' /\ stored'[j] # NothingStored
    <3>1. marker' # j /\ j \notin tainted' /\ Installed(j)'
      BY <1>3, <2>2 DEF Settled, Foul
    <3>2. Loadable(j)'
      BY <3>1, Constants DEF Installed, IsWhole, Loadable
    <3>3. ({stored'[j].key, stored'[j].icac} = {stored'[j].noc}) = TRUE
      BY <3>1 DEF Installed, IsWhole
    <3>4. (Durable[j])' = Credentials(stored'[j])
      BY <1>1, <3>1, <3>2, <3>3 DEF Credentials
    <3> QED BY <2>2, <3>4
  <2> QED BY <2>1, <2>2
<1> QED BY <1>2, <1>3

(* What a restart would find after the step, for an index with a marker or *)
(* a taint, or nothing to load.                                            *)
LEMMA NothingDurable ==
    ASSUME NEW j \in Index,
           marker' = j \/ j \in tainted' \/ stored'[j].meta = 0 \/ stored'[j] = NothingStored
    PROVE  (Durable[j])' = Nothing
<1>1. marker' = j \/ j \in tainted' \/ ~Loadable(j)'
  BY DEF Loadable, NothingStored
<1> QED BY <1>1 DEF Durable, Nothing

(* An index whose storage and marks stay keeps what a restart would find.  *)
LEMMA SameDurable ==
    ASSUME NEW j \in Index, stored'[j] = stored[j], indexInfo' = indexInfo,
           marker' = j <=> marker = j, j \in tainted' <=> j \in tainted
    PROVE  (Durable[j])' = Durable[j]
<1>1. Loadable(j)' <=> Loadable(j)
  BY DEF Loadable
<1> QED BY <1>1 DEF Durable

LEMMA WriteRefines ==
    ASSUME IInv, Write
    PROVE  [Store!Next]_Durable
<1>1. PICK d, e : d = Durable /\ e = Durable'
  OBVIOUS
<1>2. PICK i \in Index : Work(i)
  BY NextOperation DEF Write
<1>3. ASSUME NEW j \in Index \ {i} PROVE e[j] = d[j]
  <2>1. /\ Settled(j) /\ Settled(j)' /\ stored'[j] = stored[j]
        /\ Foul(j) => Foul(j)'
    BY <1>2, OthersStay DEF Work
  <2>2. tainted' \subseteq tainted
    BY DEF Write
  <2>3. Foul(j) <=> Foul(j)'
    BY <2>1, <2>2 DEF Foul
  <2> QED BY <1>1, <2>1, <2>3, DurableWhenSettled
<1>4. EntryStep(d[i], e[i])
  <2>1. CASE Deleting(i)
    BY <1>1, <1>2, <2>1, WriteDeletes, NothingDurable DEF EntryStep
  <2>2. CASE Commit(i)
    <3>1. Uncommitted(i)'
      BY <1>2, <2>2, WriteCommits
    <3> QED BY <1>1, <3>1, NothingDurable DEF Uncommitted, Foul, EntryStep
  <2>3. CASE Concluding(i)
    <3>1. d[i] = Nothing
      BY <1>1, <2>3, DurableAt DEF Concluding, Uncommitted
    <3>2. Settled(i)'
      BY <1>2, <2>3, WriteConcludes
    <3>3. CASE Foul(i)' \/ stored'[i] = NothingStored
      BY <1>1, <3>2, <3>3, DurableWhenSettled DEF EntryStep
    <3>4. CASE ~Foul(i)' /\ stored'[i] # NothingStored
      <4>1. e[i] = [ver |-> stored'[i].noc, label |-> stored'[i].meta, whole |-> TRUE]
        BY <1>1, <3>2, <3>4, DurableWhenSettled DEF Credentials
      <4>2. stored'[i].noc \in Versions /\ stored'[i].meta \in Labels
        BY <3>2, <3>4 DEF Settled, Installed, IsWhole
      <4> QED BY <3>1, <4>1, <4>2 DEF EntryStep
    <3> QED BY <3>3, <3>4
  <2>4. CASE Relabelling(i)
    <3>3. Settled(i) /\ Settled(i)' /\ (Foul(i) => Foul(i)') /\ stored[i].noc # 0
          /\ stored'[i].meta \in Labels /\ stored'[i].noc = stored[i].noc
      BY <1>2, <2>4, WriteRelabels DEF Relabelling
    <3>4. CASE Foul(i)'
      BY <1>1, <3>3, <3>4, DurableWhenSettled DEF EntryStep
    <3>5. CASE ~Foul(i)'
      <4>1. stored[i] # NothingStored /\ stored'[i] # NothingStored
        BY <3>3 DEF NothingStored
      <4>2. d[i] = Credentials(stored[i]) /\ e[i] = Credentials(stored'[i])
        BY <1>1, <3>3, <3>5, <4>1, DurableWhenSettled
      <4>3. PICK l, v, k, w :
               /\ l \in Labels
               /\ d[i] = [ver |-> v, label |-> k, whole |-> w] /\ v # 0
               /\ e[i] = [ver |-> v, label |-> l, whole |-> w]
        <5>1. PICK l, v, k : l = stored'[i].meta /\ v = stored[i].noc /\ k = stored[i].meta
          OBVIOUS
        <5>2. /\ d[i] = [ver |-> v, label |-> k, whole |-> TRUE]
              /\ e[i] = [ver |-> v, label |-> l, whole |-> TRUE]
          BY <3>3, <4>2, <5>1 DEF Credentials
        <5>3. l \in Labels /\ v # 0
          BY <3>3, <5>1
        <5> QED BY <5>2, <5>3
      <4>4. d[i] # Nothing
        <5>1. d[i].ver = v
          BY <4>3
        <5>2. Nothing.ver = 0
          BY DEF Nothing
        <5> QED BY <4>3, <5>1, <5>2
      <4> QED BY <4>3, <4>4 DEF EntryStep
    <3> QED BY <3>4, <3>5
  <2> QED BY <1>2, <2>1, <2>2, <2>3, <2>4 DEF Work
<1> QED BY <1>1, <1>3, <1>4, StoreStep

LEMMA WriteFailsRefines ==
    ASSUME IInv, WriteFails
    PROVE  [Store!Next]_Durable
<1>1. PICK d, e : d = Durable /\ e = Durable'
  OBVIOUS
<1>2. PICK i \in Index : Work(i)
  BY NextOperation DEF WriteFails
<1>3. /\ UNCHANGED <<stored, indexInfo, marker>>
      /\ tainted' = tainted \/ tainted' = tainted \cup {i}
  <2>1. Head(todo) \in Ops(todo)
    BY NextOperation DEF WriteFails
  <2>2. Head(todo).part = "marker" => Head(todo).index = i
    BY <1>2, <2>1 DEF Work
  <2> QED BY <2>2 DEF WriteFails
<1>4. \A j \in Index \ {i} : e[j] = d[j]
  BY <1>1, <1>3, SameDurable
<1>5. EntryStep(d[i], e[i])
  BY <1>1, <1>3, SameDurable, NothingDurable DEF EntryStep
<1> QED BY <1>1, <1>4, <1>5, StoreStep

(* A restart taints only what it would not have loaded anyway.             *)
LEMMA CrashRefines ==
    ASSUME IInv, Crash
    PROVE  UNCHANGED Durable
<1>1. UNCHANGED <<stored, indexInfo, marker>> /\ tainted' = tainted \cup HalfDeleted
  BY DEF Crash, HalfDeleted
<1>2. ASSUME NEW j \in HalfDeleted PROVE Durable[j] = Nothing
  <2>1. PICK op : op = Head(todo)
    OBVIOUS
  <2>2. /\ j \in Index /\ ~Idle /\ op.index = j /\ op.value = 0
        /\ op.part \in Parts \ {"meta"} /\ marker # j
    BY <1>2, <2>1 DEF HalfDeleted
  <2>3. /\ op \in Op /\ Ops(todo) = {op} \cup Ops(Tail(todo))
        /\ \A o \in Ops(Tail(todo)) : Before(op, o) /\ o \in Op
    BY <2>1, <2>2, NextOperation
  <2>4. Work(j)
    <3>1. PICK i \in Index : Work(i)
      BY <2>2, NextOperation
    <3>2. op.part # "index"
      BY <2>2, Constants
    <3>3. i = j
      BY <2>2, <2>3, <3>1, <3>2 DEF Work
    <3> QED BY <3>1, <3>3
  <2>5. IsErase(op) /\ Stage(op) = 5
    BY <2>2, <2>3, StageOf DEF IsErase
  <2>6. \A o \in Ops(Tail(todo)) : Stage(o) \in 5..8
    <3>1. \A o \in Ops(Tail(todo)) : Stage(o) \in 1..8
      BY <2>3, StageOf
    <3> QED BY <2>3, <2>5, <3>1 DEF Before
  <2>7. CASE Relabelling(j)
    <3>1. PICK l \in Labels : todo = <<Put("meta", j, l)>>
      BY <2>7 DEF Relabelling
    <3>2. op = Put("meta", j, l)
      BY <2>1, <3>1
    <3> QED BY <2>2, <3>2 DEF Put
  <2>8. CASE Deleting(j)
    <3>1. ASSUME NEW o \in Ops(todo), o.part = "meta", o.value = 0 PROVE FALSE
      <4>1. o \in Ops(Tail(todo)) /\ o \in Op
        BY <2>2, <2>3, <3>1
      <4>2. Stage(o) = 4
        BY <3>1, <4>1, StageOf, Constants DEF IsErase
      <4> QED BY <2>6, <4>1, <4>2
    <3>2. stored[j].meta = 0
      BY <2>8, <3>1, Constants DEF Deleting, EraseLeft
    <3> QED BY <2>2, <3>2, DurableAt
  <2>9. CASE Commit(j)
    <3>1. ASSUME NEW o \in Ops(todo), IsMark(o) PROVE FALSE
      <4>1. o \in Ops(Tail(todo)) /\ o \in Op
        BY <2>2, <2>3, <3>1 DEF IsMark
      <4>2. Stage(o) = 1
        BY <3>1, <4>1, StageOf DEF IsMark
      <4> QED BY <2>6, <4>1, <4>2
    <3>2. Marked(j)
      BY <2>9, <3>1 DEF Commit, MarkLeft
    <3> QED BY <2>2, <3>2, DurableAt DEF Marked, Uncommitted
  <2>10. CASE Concluding(j)
    BY <2>2, <2>10 DEF Concluding
  <2> QED BY <2>4, <2>7, <2>8, <2>9, <2>10 DEF Work
<1>3. ASSUME NEW j \in Index PROVE (Durable[j])' = Durable[j]
  <2>1. CASE j \in HalfDeleted
    BY <1>1, <1>2, <1>3, <2>1, NothingDurable
  <2>2. CASE j \notin HalfDeleted
    BY <1>1, <1>3, <2>2, SameDurable
  <2> QED BY <2>1, <2>2
<1>4. PICK d, e : d = Durable /\ e = Durable'
  OBVIOUS
<1>5. d = [j \in Index |-> d[j]] /\ e = [j \in Index |-> e[j]]
  BY <1>4 DEF Durable
<1>6. \A j \in Index : e[j] = d[j]
  BY <1>3, <1>4
<1> QED BY <1>4, <1>5, <1>6

(* The marker is cleared once nothing is stored for the index it names.    *)
LEMMA MarkerClearedRefines ==
    ASSUME IInv, MarkerCleared
    PROVE  UNCHANGED Durable
<1>1. Idle /\ UNCHANGED <<stored, indexInfo, tainted>> /\ marker' = 0
  BY DEF MarkerCleared
<1>2. ASSUME NEW j \in Index PROVE (Durable[j])' = Durable[j]
  <2>1. CASE marker = j
    <3>1. stored[j] = NothingStored
      BY <1>1, <2>1, WhenIdle DEF Settled
    <3> QED BY <1>1, <3>1, DurableAt, NothingDurable DEF Uncommitted
  <2>2. CASE marker # j
    <3>1. marker' # j
      BY <1>1, Constants
    <3> QED BY <1>1, <2>2, <3>1, SameDurable
  <2> QED BY <2>1, <2>2
<1>3. PICK d, e : d = Durable /\ e = Durable'
  OBVIOUS
<1>4. d = [j \in Index |-> d[j]] /\ e = [j \in Index |-> e[j]]
  BY <1>3 DEF Durable
<1>5. \A j \in Index : e[j] = d[j]
  BY <1>2, <1>3
<1> QED BY <1>3, <1>4, <1>5

LEMMA OthersRefine ==
    ASSUME UNCHANGED <<stored, indexInfo, marker, tainted>>
    PROVE  UNCHANGED Durable
<1>1. \A i \in Index : Loadable(i)' <=> Loadable(i)
  BY DEF Loadable
<1> QED BY <1>1 DEF Durable

LEMMA NextRefines ==
    ASSUME IInv, [Next]_vars
    PROVE  [Store!Next]_Durable
<1>1. CASE Write
  BY <1>1, WriteRefines
<1>2. CASE WriteFails
  BY <1>2, WriteFailsRefines
<1>3. CASE Crash
  BY <1>3, CrashRefines
<1>4. CASE MarkerCleared
  BY <1>4, MarkerClearedRefines
<1>5. CASE UNCHANGED <<stored, indexInfo, marker, tainted>>
  BY <1>5, OthersRefine
<1>6. ASSUME NEW m, NEW ops, Operate(m, ops) PROVE UNCHANGED <<stored, indexInfo, marker, tainted>>
  BY <1>6 DEF Operate
<1>7. ASSUME \/ \E a \in 0..MaxIndex : ArmFailSafe(a)
             \/ ExpireFailSafe
             \/ CertsStored
             \/ CommitFinished
             \/ FailSafeDisarmed
             \/ UNCHANGED vars
      PROVE  UNCHANGED <<stored, indexInfo, marker, tainted>>
  BY <1>7 DEF ArmFailSafe, ExpireFailSafe, CertsStored, CommitFinished, FailSafeDisarmed, vars
<1>8. ASSUME NEW a \in 0..MaxIndex, NEW i \in Index, NEW forUpdate \in BOOLEAN, NEW ver \in Versions,
             CSRRequest(a, i, forUpdate, ver)
      PROVE  UNCHANGED <<stored, indexInfo, marker, tainted>>
  BY <1>6, <1>8 DEF CSRRequest, AllocatePendingOperationalKey
<1>9. ASSUME NEW a \in 0..MaxIndex, AddTrustedRootCertificate(a)
      PROVE  UNCHANGED <<stored, indexInfo, marker, tainted>>
  BY <1>6, <1>9 DEF AddTrustedRootCertificate
<1>10. ASSUME NEW a \in 0..MaxIndex, NEW noc \in Versions, NEW ok \in BOOLEAN, AddNOC(a, noc, ok)
       PROVE  UNCHANGED <<stored, indexInfo, marker, tainted>>
  BY <1>6, <1>10 DEF AddNOC
<1>11. ASSUME NEW a \in Index, NEW noc \in Versions, UpdateNOC(a, noc)
       PROVE  UNCHANGED <<stored, indexInfo, marker, tainted>>
  BY <1>6, <1>11 DEF UpdateNOC
<1>12. ASSUME NEW a \in Index, NEW label \in Labels, UpdateFabricLabel(a, label)
       PROVE  UNCHANGED <<stored, indexInfo, marker, tainted>>
  BY <1>6, <1>12 DEF UpdateFabricLabel
<1>13. ASSUME NEW i \in Index, RemoveFabric(i)
       PROVE  UNCHANGED <<stored, indexInfo, marker, tainted>>
  BY <1>6, <1>13 DEF RemoveFabric
<1>14. ASSUME NEW a \in Index, CommissioningComplete(a)
       PROVE  UNCHANGED <<stored, indexInfo, marker, tainted>>
  BY <1>6, <1>14 DEF CommissioningComplete
<1>15. ASSUME FailSafeCleanup
       PROVE  UNCHANGED <<stored, indexInfo, marker, tainted>>
  BY <1>6, <1>15 DEF FailSafeCleanup
<1> QED
  BY <1>1, <1>2, <1>3, <1>4, <1>5, <1>7, <1>8, <1>9, <1>10, <1>11, <1>12, <1>13, <1>14, <1>15
  DEF Next

(* CommitPendingFabricData, Delete and Init together implement FabricStore: *)
(* with writes failing and power lost between any two of them, and again   *)
(* during the recovery, a restart finds for each index a whole set of      *)
(* credentials or nothing, and sets appear and disappear one at a time.    *)
THEOREM FabricTableRefinement ==
    ASSUME ~MayAbandon
    PROVE  Spec => ImplementsFabricStore
<1>1. Init => Store!Init
  <2>1. SUFFICES ASSUME Init PROVE Durable = [i \in Index |-> Store!Nothing]
    BY DEF Store!Init
  <2>2. indexInfo.list = {}
    BY <2>1 DEF Init
  <2>3. \A i \in Index : ~Loadable(i)
    BY <2>2 DEF Loadable
  <2> QED BY <2>3 DEF Durable, Store!Nothing
<1>2. IInv /\ [Next]_vars => [Store!Next]_Durable
  BY NextRefines
<1> QED BY <1>1, <1>2, FabricTableInvariant, PTL DEF Spec, ImplementsFabricStore, Store!Spec
=============================================================================
