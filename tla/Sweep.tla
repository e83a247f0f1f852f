------------------------------- MODULE Sweep --------------------------------
(***************************************************************************)
(* sweepByIfindex: one sweep of one pinned hash map, walked with batch     *)
(* lookups while packets of other endpoints insert entries and the kernel  *)
(* evicts some.  A key is a model value; those of the ifindex being swept  *)
(* are Matching.  None of these is inserted meanwhile: Gwlb's RunsOK.      *)
(***************************************************************************)
EXTENDS Naturals, FiniteSets

CONSTANTS
    Key,
    Matching,      \* keys of the ifindex being swept
    Buckets,       \* number of buckets of the hash map
    Hash,          \* key to bucket
    MaxEntries,    \* capacity of the map
    BatchSize,     \* sweepBatchSize
    MayFail        \* whether what the kernel is asked for may fail

ASSUME SweepAssumption ==
    /\ Matching \subseteq Key
    /\ Buckets \in Nat
    /\ Hash \in [Key -> 0..(Buckets - 1)]
    /\ MaxEntries \in Nat /\ BatchSize \in Nat \ {0}
    /\ MayFail \in BOOLEAN

VARIABLES
    map,        \* the keys that are in the map
    pc,         \* it returns nil at "done" and "skipped", an error at "error" and "aborted"
    cursor,     \* the bucket the batch lookup goes on with
    batch,      \* room for this many keys
    keys,       \* keys the call in progress has copied out
    toDelete,
    failed      \* keys whose deletion failed

locals == <<cursor, batch, keys, toDelete, failed>>
sweepVars == <<map, pc, cursor, batch, keys, toDelete, failed>>

SweepInit ==
    /\ map \in {m \in SUBSET Key : IsFiniteSet(m) /\ Cardinality(m) <= MaxEntries}
    /\ pc = "open"
    /\ cursor = 0
    /\ batch = BatchSize
    /\ keys = {}
    /\ toDelete = {}
    /\ failed = {}

\* A packet of another endpoint, when the map has room.
Insert(k) ==
    /\ k \notin map \cup Matching
    /\ Cardinality(map) < MaxEntries
    /\ map' = map \cup {k}
    /\ UNCHANGED <<pc, locals>>

\* The LRU takes an entry, of whichever endpoint.
Evict(k) ==
    /\ k \in map
    /\ map' = map \ {k}
    /\ UNCHANGED <<pc, locals>>

Churn == \E k \in Key : Insert(k) \/ Evict(k)

-----------------------------------------------------------------------------
Bucket(b) == {k \in map : Hash[k] = b}
Fits(b) == Cardinality(keys) + Cardinality(Bucket(b)) <= batch

\* Mutants: everything is deleted; the keys that come with the end of the map are
\* dropped; each call starts at the first bucket, or skips the one that did not fit;
\* the batch may not outgrow the map.
Everything(S) == S
NoneAtEnd(S) == {}
FirstBucket(b) == 0
NextBucket(b) == b + 1
DoubleFits(n) == n * 2 <= MaxEntries

\* keyIfindex(k) == ifindex.
Selected(S) == S \cap Matching
\* The call that reaches the end returns its last keys along with ErrKeyNotExist.
AtEnd(S) == Selected(S)
Resume(b) == b
MayDouble(n) == n < MaxEntries

\* LoadPinnedMap: whatever its error, there is nothing to sweep.  PossibleCPU may fail.
Open ==
    /\ pc = "open"
    /\ \/ pc' = "walk"
       \/ pc' = "skipped"
       \/ MayFail /\ pc' = "aborted"
    /\ UNCHANGED <<map, locals>>

\* Within one BPF_MAP_LOOKUP_BATCH, buckets are copied one at a time.
CopyBucket ==
    /\ pc = "walk"
    /\ cursor < Buckets
    /\ Fits(cursor)
    /\ keys' = keys \cup Bucket(cursor)
    /\ cursor' = cursor + 1
    /\ UNCHANGED <<map, pc, batch, toDelete, failed>>

\* The next bucket does not fit any more: the call returns what it has.
BatchFull ==
    /\ pc = "walk"
    /\ cursor < Buckets
    /\ keys # {} /\ ~Fits(cursor)
    /\ toDelete' = toDelete \cup Selected(keys)
    /\ keys' = {}
    /\ cursor' = Resume(cursor)
    /\ UNCHANGED <<map, pc, batch, failed>>

\* ENOSPC: not even one bucket fits.
BucketTooBig ==
    /\ pc = "walk"
    /\ cursor < Buckets
    /\ keys = {} /\ ~Fits(cursor)
    /\ \/ MayDouble(batch) /\ batch' = batch * 2 /\ UNCHANGED pc
       \/ ~MayDouble(batch) /\ pc' = "error" /\ UNCHANGED batch
    /\ UNCHANGED <<map, cursor, keys, toDelete, failed>>

\* Any other error of BatchLookup: what was collected is not deleted either.
LookupFails ==
    /\ pc = "walk"
    /\ MayFail
    /\ pc' = "aborted"
    /\ UNCHANGED <<map, locals>>

\* ErrKeyNotExist: the end of the map.
EndOfMap ==
    /\ pc = "walk"
    /\ cursor = Buckets
    /\ toDelete' = toDelete \cup AtEnd(keys)
    /\ keys' = {}
    /\ pc' = "delete"
    /\ UNCHANGED <<map, cursor, batch, failed>>

\* One that is gone already is as good as deleted.
Delete(k) ==
    /\ pc = "delete"
    /\ k \in toDelete
    /\ toDelete' = toDelete \ {k}
    /\ \/ map' = map \ {k} /\ UNCHANGED failed
       \/ MayFail /\ k \in map /\ failed' = failed \cup {k} /\ UNCHANGED map
    /\ UNCHANGED <<pc, cursor, batch, keys>>

Return ==
    /\ pc = "delete"
    /\ toDelete = {}
    /\ pc' = IF failed = {} THEN "done" ELSE "error"
    /\ UNCHANGED <<map, locals>>

SweepStep ==
    \/ Open \/ CopyBucket \/ BatchFull \/ BucketTooBig \/ LookupFails \/ EndOfMap
    \/ \E k \in Key : Delete(k)
    \/ Return

SweepNext == SweepStep \/ Churn

SweepSpec == SweepInit /\ [][SweepNext]_sweepVars

\* The command keeps running; packets keep coming or not.
FairSweepSpec == SweepSpec /\ WF_sweepVars(SweepStep)

-----------------------------------------------------------------------------
SweepTypeOK ==
    /\ map \in SUBSET Key /\ IsFiniteSet(map) /\ Cardinality(map) <= MaxEntries
    /\ pc \in {"open", "walk", "delete", "done", "skipped", "error", "aborted"}
    /\ cursor \in 0..Buckets
    /\ batch \in Nat
    /\ keys \subseteq Key /\ toDelete \subseteq Matching /\ failed \subseteq Matching

\* A sweep that walked the map and reports success has left no entry of its
\* ifindex there, however the map churned (maps.go sweepByIfindex).
NothingSurvives == pc = "done" => map \cap Matching = {}

\* No sweep gives up for want of room (ENOSPC): the batch grows to whatever the map
\* can put into one bucket, so that other than by a failing call, which aborts it, a
\* sweep ends in an error only if deleting an entry failed (maps.go sweepByIfindex).
BatchGrowsEnough == pc = "error" => failed # {}

\* No other endpoint's entry is deleted (maps.go sweepByIfindex).
OthersSpared == [][SweepStep => map \ Matching \subseteq map']_sweepVars

\* A walk finishes however much the map churns meanwhile (maps.go
\* sweepByIfindex): its cursor is a bucket, and each call that works gets further.
WalkFinishes == pc = "walk" ~> pc \in {"done", "error", "aborted"}

-----------------------------------------------------------------------------
\* Why nothing is left: what matches is in a bucket the walk has not reached, or
\* collected, or could not be deleted.
NothingEscapes ==
    \A k \in map \cap Matching :
        /\ pc = "walk" => Hash[k] >= cursor \/ k \in keys \cup toDelete
        /\ pc = "delete" => k \in toDelete \cup failed
        /\ pc # "done"

SweepInv ==
    /\ SweepTypeOK
    /\ pc = "open" => cursor = 0
    /\ pc \in {"open", "walk"} => failed = {}
    /\ BatchGrowsEnough
    /\ NothingEscapes
=============================================================================
