---------------------------- MODULE RequestCache ----------------------------
(***************************************************************************)
(* The request-addressed artifact cache shared by provider processes       *)
(* (pj_base/src/source/request_cache.cpp): lookup, read leases, write      *)
(* transactions and the LRU cleanup, over the per-identity advisory lock   *)
(* of file_lock.cpp and the fsync discipline of fs_durability.cpp.         *)
(*                                                                         *)
(* An Actor is one thread of one process working on the cache; it runs one *)
(* operation at a time and may keep one lease between operations.  A file  *)
(* lock belongs to an open file, so two actors contend for it even inside  *)
(* one process, and so does an actor with its own lease.  Who holds which  *)
(* lock follows from where the holder is (HoldsExclusive, HoldsShared):    *)
(* FileLock is RAII, and a crash closes the file.                          *)
(*                                                                         *)
(* Everything the code does between two lock operations or two file system *)
(* calls that another actor could observe is a step of its own.            *)
(***************************************************************************)
EXTENDS Integers, FiniteSets, FiniteSetsExt

CONSTANTS
  Actors,      \* threads or processes that use the cache
  Readers, Writers, Cleaners,   \* which operations an actor performs
  Ids,         \* request identities
  NoId,        \* no identity
  Sizes,       \* sizes an artifact can have, in budget units
  MaxTotal,    \* CleanupPolicy::max_total_bytes
  MinFree,     \* CleanupPolicy::min_free_bytes (0: not enforced)
  Capacity,    \* what the file system offers
  OrphanAge,   \* CleanupPolicy::orphan_partial_age
  MaxNow,      \* bound: the clock
  Failures,    \* TRUE when operating system calls may fail
  Mortal,      \* the actors whose process may crash
  PowerFails   \* TRUE when the machine may lose its power

ASSUME CacheAssumption ==
  /\ Readers \cup Writers \cup Cleaners \cup Mortal \subseteq Actors
  /\ NoId \notin Ids
  /\ Sizes \subseteq Nat /\ IsFiniteSet(Ids)
  /\ MaxTotal \in Nat /\ MinFree \in Nat /\ Capacity \in Int
  /\ OrphanAge \in Nat /\ MaxNow \in Nat
  /\ Failures \in BOOLEAN /\ PowerFails \in BOOLEAN

VARIABLES
  art,        \* art[i]: the artifact file of identity i, as the processes see it
  disk,       \* disk[i]: its directory entry as last synced
  touch,      \* touch[i]: the .touch stamp, or NoStamp
  partial,    \* partial[a][i]: the .partial file of actor a
  now,        \* the clock
  pc, arg,    \* where an actor is in its operation, and on which identity
  lease,      \* lease[a]: the ReadLease or Hit actor a keeps
  reply,      \* reply[a]: what the last operation of a returned
  todo, stale, cand, total, avail,   \* locals of cleanup()
  outdated    \* history: the cleaners whose scan is not what the cache holds: an artifact
              \* was published since, or its size could not be read (had_errors)

files    == <<art, disk, touch, partial>>
cleaning == <<todo, stale, cand, total, avail>>
vars     == <<files, now, pc, arg, lease, reply, cleaning, outdated>>

NoStamp == -1
Times   == 0..MaxNow

Absent  == [kind |-> "absent", size |-> 0, mtime |-> 0, synced |-> TRUE]
Foreign == [kind |-> "foreign", size |-> 0, mtime |-> 0, synced |-> TRUE]
Kinds   == {"absent", "valid", "foreign", "torn"}   \* the validator accepts "valid" only
Files   == [kind : Kinds, size : Sizes \cup {0}, mtime : Times, synced : BOOLEAN]

NoLease == [id |-> NoId, via |-> "none"]
Leases  == [id : Ids, via : {"lookup", "downgrade", "relock", "pin"}] \cup {NoLease}

PCs == {"idle", "dead", "lookLock", "lookValidate", "lookTouch", "writing", "written",
        "sync", "rename", "stamp", "downgrade", "convert", "relock",
        "scan", "stale", "staleRemove", "space", "evict", "evictRemove"}

Candidates == [id : Ids, size : Nat, stamp : Int]

Replies    == {"none", "hit", "miss", "leased", "retry", "error", "met", "over"}

FilesOK ==
  /\ art \in [Ids -> Files] /\ disk \in [Ids -> Files]
  /\ touch \in [Ids -> Times \cup {NoStamp}]
  /\ partial \in [Actors -> [Ids -> Files]]
  /\ now \in Times

ControlOK ==
  /\ pc \in [Actors -> PCs]
  /\ arg \in [Actors -> Ids \cup {NoId}]
  /\ lease \in [Actors -> Leases]
  /\ reply \in [Actors -> Replies]
  /\ outdated \in SUBSET Actors

CleaningOK ==
  /\ todo \in [Actors -> SUBSET Ids]
  /\ stale \in [Actors -> SUBSET (Actors \X Ids)]
  /\ cand \in [Actors -> SUBSET Candidates]
  /\ total \in [Actors -> Int] /\ avail \in [Actors -> Int]

TypeOK == FilesOK /\ ControlOK /\ CleaningOK

\* A file that is no artifact of this cache may already sit at its path.
Init ==
  /\ art \in [Ids -> {Absent, Foreign}]
  /\ disk = art
  /\ touch = [i \in Ids |-> NoStamp]
  /\ partial = [a \in Actors |-> [i \in Ids |-> Absent]]
  /\ now = 0
  /\ pc = [a \in Actors |-> "idle"]
  /\ arg = [a \in Actors |-> NoId]
  /\ lease = [a \in Actors |-> NoLease]
  /\ reply = [a \in Actors |-> "none"]
  /\ todo = [a \in Actors |-> {}]
  /\ stale = [a \in Actors |-> {}]
  /\ cand = [a \in Actors |-> {}]
  /\ total = [a \in Actors |-> 0]
  /\ avail = [a \in Actors |-> 0]
  /\ outdated = {}

-----------------------------------------------------------------------------
(* FileLock.                                                               *)

ExclusivePCs == {"writing", "written", "sync", "rename", "stamp", "downgrade",
                 "staleRemove", "evictRemove"}

HoldsExclusive(a, i) == arg[a] = i /\ pc[a] \in ExclusivePCs
HoldsShared(a, i)    == \/ arg[a] = i /\ pc[a] \in {"lookValidate", "lookTouch"}
                        \/ lease[a].id = i

LockHeld(i)     == \E a \in Actors : HoldsExclusive(a, i) \/ HoldsShared(a, i)
TryExclusive(i) == ~LockHeld(i)
TryShared(i)    == \A a \in Actors : ~HoldsExclusive(a, i)

\* The operation of a ends with this reply and keeps no lock but its lease.
Return(a, r) ==
  /\ pc' = [pc EXCEPT ![a] = "idle"]
  /\ arg' = [arg EXCEPT ![a] = NoId]
  /\ reply' = [reply EXCEPT ![a] = r]

Step(a, s) ==
  /\ pc' = [pc EXCEPT ![a] = s]
  /\ UNCHANGED <<arg, reply>>

Begin(a, i, s) ==
  /\ pc[a] = "idle"
  /\ pc' = [pc EXCEPT ![a] = s]
  /\ arg' = [arg EXCEPT ![a] = i]
  /\ reply' = [reply EXCEPT ![a] = "none"]

\* A Hit travels with its lease.
ReturnHit(a, i, via) ==
  /\ Return(a, "hit")
  /\ lease' = [lease EXCEPT ![a] = [id |-> i, via |-> via]]

touchStamp(i) == touch' = [touch EXCEPT ![i] = now]

-----------------------------------------------------------------------------
(* lookup() and leases.                                                    *)

Lookup(a, i) ==
  /\ a \in Readers /\ lease[a] = NoLease
  /\ pc[a] = "idle"
  /\ IF art[i].kind = "absent" THEN Return(a, "miss") ELSE Begin(a, i, "lookLock")
  /\ UNCHANGED <<files, now, lease, cleaning, outdated>>

LookupLock(a) ==
  /\ pc[a] = "lookLock"
  /\ \/ TryShared(arg[a]) /\ Step(a, "lookValidate")
     \/ (~TryShared(arg[a]) \/ Failures) /\ Return(a, "miss")
  /\ UNCHANGED <<files, now, lease, cleaning, outdated>>

\* The validator runs under the lease; a rejected file is left alone.
LookupValidate(a) ==
  /\ pc[a] = "lookValidate"
  /\ IF art[arg[a]].kind = "valid" THEN Step(a, "lookTouch") ELSE Return(a, "miss")
  /\ UNCHANGED <<files, now, lease, cleaning, outdated>>

LookupTouch(a) ==
  /\ pc[a] = "lookTouch"
  /\ touchStamp(arg[a])
  /\ ReturnHit(a, arg[a], "lookup")
  /\ UNCHANGED <<art, disk, partial, now, cleaning, outdated>>

\* Pins an identity whether or not its file exists.  Any failure to lock is
\* reported as retryable.
AcquireReadLease(a, i) ==
  /\ a \in Readers /\ pc[a] = "idle" /\ lease[a] = NoLease
  /\ \/ /\ TryShared(i)
        /\ Return(a, "leased")
        /\ lease' = [lease EXCEPT ![a] = [id |-> i, via |-> "pin"]]
     \/ /\ ~TryShared(i) \/ Failures
        /\ Return(a, "retry")
        /\ UNCHANGED lease
  /\ UNCHANGED <<files, now, cleaning, outdated>>

ReleaseLease(a) ==
  /\ pc[a] # "dead" /\ lease[a] # NoLease
  /\ lease' = [lease EXCEPT ![a] = NoLease]
  /\ UNCHANGED <<files, now, pc, arg, reply, cleaning, outdated>>

-----------------------------------------------------------------------------
(* WriteTransaction.                                                       *)

\* Retryable only when the lock is contended, not when it cannot be opened.
BeginWrite(a, i) ==
  /\ a \in Writers /\ pc[a] = "idle" /\ lease[a].id \in {i, NoId}
  /\ \/ TryExclusive(i) /\ Begin(a, i, "writing")
     \/ ~TryExclusive(i) /\ Return(a, "retry")
     \/ Failures /\ Return(a, "error")
  /\ UNCHANGED <<files, now, lease, cleaning, outdated>>

SetPartial(a, i, f) == partial' = [partial EXCEPT ![a][i] = f]

\* The provider writes the file at partialPath(), well or badly.
WritePartial(a) ==
  /\ pc[a] = "writing"
  /\ \E k \in {"valid", "torn"}, s \in Sizes :
       SetPartial(a, arg[a], [kind |-> k, size |-> s, mtime |-> now, synced |-> FALSE])
  /\ Step(a, "written")
  /\ UNCHANGED <<art, disk, touch, now, lease, cleaning, outdated>>

\* abort() and every failure of commit() remove the partial, then unlock.
Abandon(a) ==
  /\ SetPartial(a, arg[a], Absent)
  /\ Return(a, "error")
  /\ UNCHANGED <<art, disk, touch, now, lease, cleaning, outdated>>

Abort(a) == pc[a] \in {"writing", "written"} /\ Abandon(a)

\* Mutant: the partial is published unseen.
CommitUnvalidated(a) ==
  /\ pc[a] = "written"
  /\ Step(a, "sync")
  /\ UNCHANGED <<files, now, lease, cleaning, outdated>>

\* A commit without a partial is rejected like a bad one.
CommitValidate(a) ==
  /\ pc[a] \in {"writing", "written"}
  /\ IF partial[a][arg[a]].kind = "valid"
     THEN Step(a, "sync") /\ UNCHANGED <<files, now, lease, cleaning, outdated>>
     ELSE Abandon(a)

\* Mutant: no fsync before the rename.
CommitUnsynced(a) ==
  /\ pc[a] = "sync"
  /\ Step(a, "rename")
  /\ UNCHANGED <<files, now, lease, cleaning, outdated>>

CommitSync(a) ==
  /\ pc[a] = "sync"
  /\ \/ /\ SetPartial(a, arg[a], [partial[a][arg[a]] EXCEPT !.synced = TRUE])
        /\ Step(a, "rename")
        /\ UNCHANGED <<art, disk, touch, now, lease, cleaning, outdated>>
     \/ Failures /\ Abandon(a)

CommitRename(a) ==
  /\ pc[a] = "rename"
  /\ \/ /\ art' = [art EXCEPT ![arg[a]] = partial[a][arg[a]]]
        /\ SetPartial(a, arg[a], Absent)
        /\ Step(a, "stamp")
        /\ outdated' = Cleaners
        /\ UNCHANGED <<disk, touch, now, lease, cleaning>>
     \/ Failures /\ Abandon(a)

\* The directory is synced and the LRU stamp set, still under the lock.
CommitStamp(a) ==
  /\ pc[a] = "stamp"
  /\ disk' = [disk EXCEPT ![arg[a]] = art[arg[a]]]
  /\ touchStamp(arg[a])
  /\ Step(a, "downgrade")
  /\ UNCHANGED <<art, partial, now, lease, cleaning, outdated>>

\* downgradeToShared() first drops the exclusive lock ...
CommitDowngrade(a) ==
  /\ pc[a] = "downgrade"
  /\ Step(a, "convert")
  /\ UNCHANGED <<files, now, lease, cleaning, outdated>>

\* ... and then asks for the shared one.
CommitConvert(a) ==
  /\ pc[a] = "convert"
  /\ \/ TryShared(arg[a]) /\ ReturnHit(a, arg[a], "downgrade")
     \/ (~TryShared(arg[a]) \/ Failures) /\ Step(a, "relock") /\ UNCHANGED lease
  /\ UNCHANGED <<files, now, cleaning, outdated>>

\* Only this path looks again whether the file is still there.
CommitRelock(a) ==
  /\ pc[a] = "relock"
  /\ \/ /\ TryShared(arg[a])
        /\ IF art[arg[a]].kind # "absent"
           THEN ReturnHit(a, arg[a], "relock")
           ELSE Return(a, "error") /\ UNCHANGED lease
     \/ (~TryShared(arg[a]) \/ Failures) /\ Return(a, "retry") /\ UNCHANGED lease
  /\ UNCHANGED <<files, now, cleaning, outdated>>

-----------------------------------------------------------------------------
(* cleanup().                                                              *)

Old(f) == f.kind # "absent" /\ now - f.mtime >= OrphanAge

\* The sidecar's time, or the artifact's own when there is no sidecar.
LruStamp(i) == IF touch[i] # NoStamp THEN touch[i] ELSE art[i].mtime

Present     == {i \in Ids : art[i].kind # "absent"}
ActualTotal == MapThenSumSet(LAMBDA i : art[i].size, Present)

bytesOverTarget(a) ==
  LET size_excess  == IF total[a] > MaxTotal THEN total[a] - MaxTotal ELSE 0
      free_deficit == IF MinFree # 0 /\ avail[a] < MinFree THEN MinFree - avail[a] ELSE 0
  IN  IF size_excess > free_deficit THEN size_excess ELSE free_deficit

\* cleanup() returns and its locals are gone.
EndCleanup(a, met) ==
  /\ Return(a, IF met THEN "met" ELSE "over")
  /\ todo' = [todo EXCEPT ![a] = {}]
  /\ stale' = [stale EXCEPT ![a] = {}]
  /\ cand' = [cand EXCEPT ![a] = {}]
  /\ total' = [total EXCEPT ![a] = 0]
  /\ avail' = [avail EXCEPT ![a] = 0]

\* The directory pass starts; its entries are met in any order.
ScanRoot(a) ==
  /\ a \in Cleaners /\ Begin(a, NoId, "scan")
  /\ todo' = [todo EXCEPT ![a] = Ids]
  /\ total' = [total EXCEPT ![a] = 0]
  /\ outdated' = outdated \ {a}
  /\ UNCHANGED <<files, now, lease, stale, cand, avail>>

\* The files of one identity: its old partials, and its artifact as a candidate
\* whose size counts.  An artifact whose size cannot be read is passed over, which
\* had_errors tells; a partial passed over so is one that StaleLock skips.
ScanEntry(a) ==
  /\ pc[a] = "scan"
  /\ \E i \in todo[a] :
       /\ todo' = [todo EXCEPT ![a] = @ \ {i}]
       /\ stale' = [stale EXCEPT ![a] = @ \cup {<<b, i>> : b \in {c \in Actors : Old(partial[c][i])}}]
       /\ \/ /\ cand' = [cand EXCEPT ![a] = @ \cup {[id |-> j, size |-> art[j].size, stamp |-> LruStamp(j)]
                                                  : j \in Present \cap {i}}]
             /\ total' = [total EXCEPT ![a] = @ + art[i].size]
             /\ UNCHANGED outdated
          \/ /\ Failures /\ i \in Present
             /\ outdated' = outdated \cup {a}
             /\ UNCHANGED <<cand, total>>
  /\ UNCHANGED <<files, now, pc, arg, lease, reply, avail>>

\* The pass is over, or failed: then nothing is removed.
ScanDone(a) ==
  /\ pc[a] = "scan"
  /\ \/ todo[a] = {} /\ Step(a, "stale") /\ UNCHANGED cleaning
     \/ Failures /\ EndCleanup(a, FALSE)
  /\ UNCHANGED <<files, now, lease, outdated>>

\* Mutant: age alone decides, the lock is not asked.
StaleUnlocked(a) ==
  /\ pc[a] = "stale"
  /\ \E x \in stale[a] : arg' = [arg EXCEPT ![a] = x[2]]
  /\ pc' = [pc EXCEPT ![a] = "staleRemove"]
  /\ UNCHANGED <<files, now, lease, reply, cleaning, outdated>>

\* removeStalePartials: the identity's lock first; a held lock skips the file.
StaleLock(a) ==
  /\ pc[a] = "stale"
  /\ \E x \in stale[a] :
       \/ /\ TryExclusive(x[2])
          /\ pc' = [pc EXCEPT ![a] = "staleRemove"]
          /\ arg' = [arg EXCEPT ![a] = x[2]]
          /\ UNCHANGED stale
       \/ /\ ~TryExclusive(x[2]) \/ Failures
          /\ stale' = [stale EXCEPT ![a] = @ \ {x}]
          /\ UNCHANGED <<pc, arg>>
  /\ UNCHANGED <<files, now, lease, reply, todo, cand, total, avail, outdated>>

\* Under the lock the file is looked at again; a young one is spared.
StaleRemove(a) ==
  /\ pc[a] = "staleRemove"
  /\ \E x \in stale[a] :
       /\ x[2] = arg[a]
       /\ partial' = [partial EXCEPT ![x[1]][x[2]] = IF Old(@) THEN Absent ELSE @]
       /\ stale' = [stale EXCEPT ![a] = @ \ {x}]
  /\ pc' = [pc EXCEPT ![a] = "stale"]
  /\ arg' = [arg EXCEPT ![a] = NoId]
  /\ UNCHANGED <<art, disk, touch, now, lease, reply, todo, cand, total, avail, outdated>>

\* evictUntilUnderBudget: the free space is queried once, if it matters.
EvictSpace(a) ==
  /\ pc[a] = "stale" /\ stale[a] = {}
  /\ \/ /\ avail' = [avail EXCEPT ![a] = Capacity - ActualTotal]
        /\ Step(a, "evict")
        /\ UNCHANGED <<todo, stale, cand, total>>
     \/ MinFree # 0 /\ Failures /\ EndCleanup(a, FALSE)
  /\ UNCHANGED <<files, now, lease, outdated>>

\* Mutant: a victim is taken without its lock.
EvictUnlocked(a) ==
  /\ pc[a] = "evict" /\ bytesOverTarget(a) # 0
  /\ \E v \in cand[a] : arg' = [arg EXCEPT ![a] = v.id]
  /\ pc' = [pc EXCEPT ![a] = "evictRemove"]
  /\ UNCHANGED <<files, now, lease, reply, cleaning, outdated>>

\* The candidates in the order of their scanned stamps; a busy one is skipped.
EvictLock(a) ==
  /\ pc[a] = "evict" /\ bytesOverTarget(a) # 0
  /\ \E v \in cand[a] :
       /\ \A w \in cand[a] : v.stamp <= w.stamp
       /\ \/ /\ TryExclusive(v.id)
             /\ pc' = [pc EXCEPT ![a] = "evictRemove"]
             /\ arg' = [arg EXCEPT ![a] = v.id]
             /\ UNCHANGED cand
          \/ /\ ~TryExclusive(v.id) \/ Failures
             /\ cand' = [cand EXCEPT ![a] = @ \ {v}]
             /\ UNCHANGED <<pc, arg>>
  /\ UNCHANGED <<files, now, lease, reply, todo, stale, total, avail, outdated>>

\* Nothing happened to the victim since the scan: same size, same stamp.
Unchanged(v) == art[v.id].kind # "absent" /\ art[v.id].size = v.size /\ LruStamp(v.id) = v.stamp

\* Mutants: a skipped victim is credited as well; a removed one is not.
EvictCrediting(a, skipped, removed) ==
  /\ pc[a] = "evictRemove"
  /\ \E v \in cand[a] :
       /\ v.id = arg[a]
       /\ art' = [art EXCEPT ![v.id] = IF Unchanged(v) THEN Absent ELSE @]
       /\ touch' = [touch EXCEPT ![v.id] = IF Unchanged(v) THEN NoStamp ELSE @]
       /\ LET freed == IF Unchanged(v) THEN removed * v.size ELSE skipped * v.size
          IN  /\ total' = [total EXCEPT ![a] = @ - freed]
              /\ avail' = [avail EXCEPT ![a] = @ + freed]
       /\ cand' = [cand EXCEPT ![a] = @ \ {v}]
  /\ pc' = [pc EXCEPT ![a] = "evict"]
  /\ arg' = [arg EXCEPT ![a] = NoId]
  /\ UNCHANGED <<disk, partial, now, lease, reply, todo, stale, outdated>>

EvictCreditsSkipped(a)  == EvictCrediting(a, 1, 1)
EvictForgetsRemoved(a) == EvictCrediting(a, 0, 0)

EvictRemove(a) ==
  /\ pc[a] = "evictRemove"
  /\ \E v \in cand[a] :
       /\ v.id = arg[a]
       /\ \/ /\ Unchanged(v)
             /\ art' = [art EXCEPT ![v.id] = Absent]
             /\ \/ touch' = [touch EXCEPT ![v.id] = NoStamp]
                \/ Failures /\ UNCHANGED touch
             /\ total' = [total EXCEPT ![a] = @ - v.size]
             /\ avail' = [avail EXCEPT ![a] = @ + v.size]
          \/ /\ ~Unchanged(v) \/ Failures
             /\ UNCHANGED <<art, touch, total, avail>>
       /\ cand' = [cand EXCEPT ![a] = @ \ {v}]
  /\ pc' = [pc EXCEPT ![a] = "evict"]
  /\ arg' = [arg EXCEPT ![a] = NoId]
  /\ UNCHANGED <<disk, partial, now, lease, reply, todo, stale, outdated>>

CleanupDone(a) ==
  /\ pc[a] = "evict"
  /\ bytesOverTarget(a) = 0 \/ cand[a] = {}
  /\ EndCleanup(a, bytesOverTarget(a) = 0)
  /\ UNCHANGED <<files, now, lease, outdated>>

-----------------------------------------------------------------------------
(* The environment.                                                        *)

Tick ==
  /\ now < MaxNow
  /\ now' = now + 1
  /\ UNCHANGED <<files, pc, arg, lease, reply, cleaning, outdated>>

\* A process dies anywhere: its locks go with it, its partial stays.
Crash(a) ==
  /\ a \in Mortal /\ pc[a] # "dead"
  /\ pc' = [pc EXCEPT ![a] = "dead"]
  /\ arg' = [arg EXCEPT ![a] = NoId]
  /\ lease' = [lease EXCEPT ![a] = NoLease]
  /\ reply' = [reply EXCEPT ![a] = "none"]
  /\ todo' = [todo EXCEPT ![a] = {}]
  /\ stale' = [stale EXCEPT ![a] = {}]
  /\ cand' = [cand EXCEPT ![a] = {}]
  /\ total' = [total EXCEPT ![a] = 0]
  /\ avail' = [avail EXCEPT ![a] = 0]
  /\ UNCHANGED <<files, now, outdated>>

\* What an unsynced file is worth after the power failed.
AfterPowerLoss(f) == IF f.kind = "valid" /\ ~f.synced THEN [f EXCEPT !.kind = "torn"] ELSE f

\* The power fails: every process is gone, each directory entry is the synced
\* one or the one last written, unsynced contents are lost.  The machine boots
\* and processes, perhaps with the old process ids, use the cache again.
PowerLoss ==
  /\ PowerFails
  /\ \E synced \in SUBSET Ids :
       art' = [i \in Ids |-> AfterPowerLoss(IF i \in synced THEN disk[i] ELSE art[i])]
  /\ disk' = art'
  /\ partial' = [a \in Actors |-> [i \in Ids |-> AfterPowerLoss(partial[a][i])]]
  /\ pc' = [a \in Actors |-> "idle"]
  /\ arg' = [a \in Actors |-> NoId]
  /\ lease' = [a \in Actors |-> NoLease]
  /\ reply' = [a \in Actors |-> "none"]
  /\ todo' = [a \in Actors |-> {}]
  /\ stale' = [a \in Actors |-> {}]
  /\ cand' = [a \in Actors |-> {}]
  /\ total' = [a \in Actors |-> 0]
  /\ avail' = [a \in Actors |-> 0]
  /\ UNCHANGED <<touch, now, outdated>>

Reader(a)  == \/ \E i \in Ids : Lookup(a, i) \/ AcquireReadLease(a, i)
              \/ LookupLock(a) \/ LookupValidate(a) \/ LookupTouch(a) \/ ReleaseLease(a)
Writer(a)  == \/ \E i \in Ids : BeginWrite(a, i)
              \/ WritePartial(a) \/ Abort(a) \/ CommitValidate(a) \/ CommitSync(a)
              \/ CommitRename(a) \/ CommitStamp(a) \/ CommitDowngrade(a)
              \/ CommitConvert(a) \/ CommitRelock(a)
Cleaner(a) == \/ ScanRoot(a) \/ ScanEntry(a) \/ ScanDone(a) \/ StaleLock(a) \/ StaleRemove(a) \/ EvictSpace(a)
              \/ EvictLock(a) \/ EvictRemove(a) \/ CleanupDone(a)

Next == \/ \E a \in Actors : Reader(a) \/ Writer(a) \/ Cleaner(a) \/ Crash(a)
        \/ Tick
        \/ PowerLoss

Spec == Init /\ [][Next]_vars

-----------------------------------------------------------------------------
(* Properties.                                                             *)

(* The inductive invariant.                                                *)

\* Between the steps of an operation its identity is fixed.
Working == {"lookLock", "lookValidate", "lookTouch", "convert", "relock"} \cup ExclusivePCs

WorksOnId == \A a \in Actors : pc[a] \in Working => arg[a] \in Ids

\* What flock promises: an exclusive holder is alone.
ExclusiveAlone ==
  \A a, b \in Actors, i \in Ids :
    HoldsExclusive(a, i) => ~HoldsShared(b, i) /\ (HoldsExclusive(b, i) => a = b)

\* What is at an artifact's path was synced before it came there.
PublishedIsDurable ==
  \A i \in Ids : \A f \in {art[i], disk[i]} : f.kind # "torn" /\ (f.kind = "valid" => f.synced)

\* commit() works on a partial that passed the validator, then on a synced one,
\* and its artifact can only vanish once the exclusive lock is gone.
CommitProgress ==
  \A a \in Actors :
    LET p == partial[a][arg[a]]
    IN  /\ pc[a] = "written" => p.kind # "absent"
        /\ pc[a] = "sync" => p.kind = "valid"
        /\ pc[a] = "rename" => p.kind = "valid" /\ p.synced
        /\ pc[a] \in {"stamp", "downgrade"} => art[arg[a]].kind = "valid"
        /\ pc[a] \in {"convert", "relock"} => art[arg[a]].kind \in {"valid", "absent"}

\* A lookup past its validator holds a valid file.
LookupProgress ==
  \A a \in Actors : pc[a] = "lookTouch" => art[arg[a]].kind = "valid"

\* A Hit whose lease was taken before the artifact was looked at (lookup(), and
\* commit() after a lost conversion) names a file that is there and valid for as
\* long as the Hit is kept, whatever writers, evictors and crashes do.
LeaseProtectsHit ==
  \A a \in Actors : lease[a].via \in {"lookup", "relock"} => art[lease[a].id].kind = "valid"

\* The inductive invariant of the cache: its types, the exclusion the locks give,
\* and what each step of lookup() and commit() has established about the files.
CacheInv ==
  /\ TypeOK
  /\ WorksOnId
  /\ ExclusiveAlone
  /\ PublishedIsDurable
  /\ CommitProgress
  /\ LookupProgress
  /\ LeaseProtectsHit

Pinned ==
  \A a \in Actors, i \in Ids : lease[a].id = i /\ lease'[a].id = i => art'[i] = art[i]

\* While a lease of any origin is kept, nobody replaces or removes the file of its
\* identity: not a commit, not an eviction, not a cleanup after a crash.
LeasePinsFile == [][Pinned]_vars

\* No file a writer has not finished, and no file the power failure tore, is
\* ever found at an artifact's path: commit() validates, syncs, then renames.
NeverTorn == \A i \in Ids : art[i].kind # "torn" /\ disk[i].kind # "torn"

\* removeStalePartials() never deletes the partial of a live transaction, however
\* old that file is: the writer holds the identity's lock until it is done.
LivePartialKept ==
  \A a \in Actors : pc[a] \in {"written", "sync", "rename"} => partial[a][arg[a]].kind # "absent"

\* A file is whole from its first byte to its publication, or it is not there.
FilesStayWhole == NeverTorn /\ LivePartialKept

UnderBudget ==
  ActualTotal <= MaxTotal /\ (MinFree # 0 => Capacity - ActualTotal >= MinFree)

\* cleanup() that says its target is met has brought the cache under both of its
\* budgets, provided its scan read every artifact and none was published since: what
\* the estimate of evictUntilUnderBudget() credits is really gone.
MetMeansUnderBudget ==
  \A a \in Actors : pc[a] = "idle" /\ reply[a] = "met" /\ a \notin outdated => UnderBudget

\* request_cache.hpp: cleanup() evicts until max_total_bytes and min_free_bytes
\* both hold, so it removes nothing once they do, if nobody publishes meanwhile.
EvictsOnlyOverBudget ==
  [][\A a \in Actors :
        pc[a] = "evictRemove" /\ pc'[a] = "evict" /\ art' # art /\ a \notin outdated
        => ~UnderBudget]_vars

\* cleanup() stops exactly at its budgets: it neither says they are met when they
\* are not nor evicts when they are, with writers and readers at work meanwhile.
StopsAtBudget == []MetMeansUnderBudget /\ EvictsOnlyOverBudget

\* request_cache.hpp: the Hit that commit() returns always names a file that
\* existed under its held lease.
CommitHitExists ==
  \A a \in Actors : lease[a].via = "downgrade" => art[lease[a].id].kind = "valid"

=============================================================================
