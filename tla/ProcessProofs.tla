--------------------------- MODULE ProcessProofs ----------------------------
(***************************************************************************)
(* The parts of the Go process: a sweep of a map of any size, however its  *)
(* keys hash, under any number of insertions and evictions; netns switches *)
(* of any number of threads and calls; serve with any number of requests   *)
(* and changes of the host; the datagrams packLines makes of any lines.    *)
(***************************************************************************)
EXTENDS MCProcess, SequenceTheorems, SumProofs, TLAPS

-----------------------------------------------------------------------------
(* Sweep.                                                                  *)

\* A bucket never holds more than the map does.
LEMMA BucketBounded ==
    ASSUME SweepTypeOK, NEW b
    PROVE  Cardinality(Bucket(b)) \in Nat /\ Cardinality(Bucket(b)) <= MaxEntries
<1>1. Bucket(b) \subseteq map
    BY DEF Bucket
<1>2. /\ IsFiniteSet(Bucket(b))
      /\ Cardinality(Bucket(b)) <= Cardinality(map)
    BY <1>1, FS_Subset DEF SweepTypeOK
<1>3. Cardinality(Bucket(b)) \in Nat /\ Cardinality(map) \in Nat
    BY <1>2, FS_CardinalityType DEF SweepTypeOK
<1> QED
    BY <1>2, <1>3, SweepAssumption DEF SweepTypeOK

\* Packets of other endpoints, and the LRU, keep the invariant.
LEMMA ChurnStep ==
    ASSUME SweepInv, Churn
    PROVE  SweepInv'
<1>1. /\ UNCHANGED <<pc, locals>>
      /\ map' \cap Matching \subseteq map
    BY DEF Churn, Insert, Evict
<1>2. map' \in SUBSET Key /\ IsFiniteSet(map') /\ Cardinality(map') <= MaxEntries
    <2>0. map \subseteq Key /\ IsFiniteSet(map) /\ Cardinality(map) <= MaxEntries
          /\ Cardinality(map) \in Nat
        BY FS_CardinalityType DEF SweepInv, SweepTypeOK
    <2>1. CASE \E k \in Key : Insert(k)
        <3>1. PICK k \in Key : Insert(k)
            BY <2>1
        <3>2. IsFiniteSet(map') /\ Cardinality(map') = Cardinality(map) + 1
            BY <2>0, <3>1, FS_AddElement DEF Insert
        <3> QED
            BY <2>0, <3>1, <3>2, SweepAssumption DEF Insert
    <2>2. CASE \E k \in Key : Evict(k)
        <3>1. PICK k \in Key : Evict(k)
            BY <2>2
        <3>2. IsFiniteSet(map') /\ Cardinality(map') <= Cardinality(map)
            BY <2>0, <3>1, FS_Subset DEF Evict
        <3>3. Cardinality(map') \in Nat
            BY <3>2, FS_CardinalityType
        <3> QED
            BY <2>0, <3>1, <3>2, <3>3, SweepAssumption DEF Evict
    <2> QED
        BY <2>1, <2>2 DEF Churn
<1>3. SweepTypeOK'
    BY <1>1, <1>2 DEF SweepInv, SweepTypeOK, locals
<1> QED
    BY <1>1, <1>3 DEF SweepInv, NothingEscapes, BatchGrowsEnough, locals

\* So does the walk.
LEMMA WalkStep ==
    ASSUME SweepInv,
           Open \/ CopyBucket \/ BatchFull \/ BucketTooBig \/ LookupFails \/ EndOfMap
    PROVE  SweepInv'
<1> USE SweepAssumption
<1>0. map' = map
    BY DEF Open, CopyBucket, BatchFull, BucketTooBig, LookupFails, EndOfMap, locals
<1>1. CASE Open
    <2>1. SweepTypeOK'
        BY <1>0, <1>1 DEF Open, SweepInv, SweepTypeOK, locals
    <2>2. \A k \in map : Hash[k] >= cursor
        BY <1>1 DEF Open, SweepInv, SweepTypeOK
    <2> QED
        BY <1>0, <1>1, <2>1, <2>2
        DEF Open, SweepInv, NothingEscapes, BatchGrowsEnough, locals
<1>2. CASE CopyBucket
    <2>1. SweepTypeOK'
        BY <1>0, <1>2 DEF CopyBucket, Bucket, SweepInv, SweepTypeOK
    <2>2. ASSUME NEW k \in map \cap Matching
          PROVE  Hash[k] >= cursor + 1 \/ k \in keys' \cup toDelete
        <3>1. Hash[k] \in Nat /\ cursor \in Nat
            BY DEF SweepInv, SweepTypeOK
        <3>2. Hash[k] >= cursor \/ k \in keys \cup toDelete
            BY <1>2 DEF CopyBucket, SweepInv, NothingEscapes
        <3>3. Hash[k] = cursor => k \in keys'
            BY <1>2 DEF CopyBucket, Bucket
        <3> QED
            BY <1>2, <3>1, <3>2, <3>3 DEF CopyBucket
    <2> QED
        BY <1>0, <1>2, <2>1, <2>2
        DEF CopyBucket, SweepInv, NothingEscapes, BatchGrowsEnough
<1>3. CASE BatchFull
    <2>1. SweepTypeOK'
        BY <1>0, <1>3 DEF BatchFull, Selected, Resume, SweepInv, SweepTypeOK
    <2> QED
        BY <1>0, <1>3, <2>1
        DEF BatchFull, Selected, Resume, SweepInv, NothingEscapes, BatchGrowsEnough
<1>4. CASE BucketTooBig
    <2>1. MayDouble(batch)
        <3>1. SUFFICES ASSUME batch >= MaxEntries PROVE FALSE
            BY DEF MayDouble, SweepInv, SweepTypeOK
        <3>2. Cardinality(keys) = 0
            BY <1>4, FS_EmptySet DEF BucketTooBig
        <3>3. Cardinality(Bucket(cursor)) \in Nat /\ Cardinality(Bucket(cursor)) <= MaxEntries
            BY BucketBounded DEF SweepInv
        <3>4. batch \in Nat
            BY DEF SweepInv, SweepTypeOK
        <3> QED
            BY <1>4, <3>1, <3>2, <3>3, <3>4 DEF BucketTooBig, Fits
    <2>2. SweepTypeOK'
        BY <1>0, <1>4, <2>1 DEF BucketTooBig, SweepInv, SweepTypeOK
    <2> QED
        BY <1>0, <1>4, <2>1, <2>2
        DEF BucketTooBig, SweepInv, NothingEscapes, BatchGrowsEnough
<1>5. CASE EndOfMap
    <2>1. SweepTypeOK'
        BY <1>0, <1>5 DEF EndOfMap, AtEnd, Selected, SweepInv, SweepTypeOK
    <2>2. \A k \in map \cap Matching : k \in toDelete'
        <3>1. \A k \in map : Hash[k] < Buckets
            BY DEF SweepInv, SweepTypeOK
        <3> QED
            BY <1>5, <3>1 DEF EndOfMap, AtEnd, Selected, SweepInv, NothingEscapes
    <2> QED
        BY <1>0, <1>5, <2>1, <2>2
        DEF EndOfMap, SweepInv, NothingEscapes, BatchGrowsEnough
<1>6. CASE LookupFails
    BY <1>0, <1>6
    DEF LookupFails, SweepInv, SweepTypeOK, NothingEscapes, BatchGrowsEnough, locals
<1> QED
    BY <1>1, <1>2, <1>3, <1>4, <1>5, <1>6

\* And the deletions.
LEMMA DeleteStep ==
    ASSUME SweepInv, NEW k \in Key, Delete(k)
    PROVE  SweepInv'
<1>1. map' \subseteq map /\ IsFiniteSet(map') /\ Cardinality(map') <= MaxEntries
    <2>1. map' \subseteq map
        BY DEF Delete
    <2>2. IsFiniteSet(map') /\ Cardinality(map') <= Cardinality(map)
        BY <2>1, FS_Subset DEF SweepInv, SweepTypeOK
    <2>3. Cardinality(map') \in Nat /\ Cardinality(map) \in Nat
        BY <2>2, FS_CardinalityType DEF SweepInv, SweepTypeOK
    <2> QED
        BY <2>1, <2>2, <2>3, SweepAssumption DEF SweepInv, SweepTypeOK
<1>2. SweepTypeOK'
    BY <1>1 DEF Delete, SweepInv, SweepTypeOK
<1> QED
    BY <1>1, <1>2 DEF Delete, SweepInv, NothingEscapes, BatchGrowsEnough

\* The sweep returns once it has tried every key it collected.
LEMMA SweepReturnStep ==
    ASSUME SweepInv, Return
    PROVE  SweepInv'
<1>1. SweepTypeOK'
    BY DEF Return, SweepInv, SweepTypeOK, locals
<1> QED
    BY <1>1 DEF Return, SweepInv, NothingEscapes, BatchGrowsEnough, locals

\* No walk has begun.
LEMMA SweepInitInv == SweepInit => SweepInv
BY SweepAssumption DEF SweepInit, SweepInv, SweepTypeOK, NothingEscapes, BatchGrowsEnough

\* Every step, of the sweep or of packets.
LEMMA SweepNextInv ==
    ASSUME SweepInv, [SweepNext]_sweepVars
    PROVE  SweepInv'
<1>1. CASE UNCHANGED sweepVars
    BY <1>1 DEF sweepVars, SweepInv, SweepTypeOK, NothingEscapes, BatchGrowsEnough
<1> QED
    BY <1>1, ChurnStep, WalkStep, DeleteStep, SweepReturnStep DEF SweepNext, SweepStep

\* The sweep's inductive invariant.
THEOREM SweepInvariance == SweepSpec => []SweepInv
BY SweepInitInv, SweepNextInv, PTL DEF SweepSpec

\* A sweep that reports success after its walk leaves nothing of its ifindex
\* (maps.go sweepByIfindex).
THEOREM SweepComplete == SweepSpec => []NothingSurvives
<1>1. SweepInv => NothingSurvives
    BY DEF SweepInv, NothingEscapes, NothingSurvives
<1> QED
    BY <1>1, SweepInvariance, PTL

\* No sweep gives up for want of room in its batch (maps.go sweepByIfindex, ENOSPC):
\* one that no failing call aborted ends in an error only where a deletion failed.
THEOREM BatchSuffices == SweepSpec => []BatchGrowsEnough
<1>1. SweepInv => BatchGrowsEnough
    BY DEF SweepInv
<1> QED
    BY <1>1, SweepInvariance, PTL

\* No other endpoint's entry is deleted (maps.go sweepByIfindex).
THEOREM SparesOthers == SweepSpec => OthersSpared
<1>1. SweepInv /\ [SweepNext]_sweepVars => [SweepStep => map \ Matching \subseteq map']_sweepVars
    <2>1. SUFFICES ASSUME SweepInv, SweepStep PROVE map \ Matching \subseteq map'
        OBVIOUS
    <2>2. toDelete \subseteq Matching
        BY <2>1 DEF SweepInv, SweepTypeOK
    <2> QED
        BY <2>1, <2>2
        DEF SweepStep, Open, CopyBucket, BatchFull, BucketTooBig, LookupFails, EndOfMap, Delete,
            Return
<1> QED
    BY <1>1, SweepInvariance, PTL DEF SweepSpec, OthersSpared

-----------------------------------------------------------------------------
(* Netns.                                                                  *)

\* Before the add every thread is in the root netns.
LEMMA NetnsInitInv == NetnsInit => NetnsInv
<1> SUFFICES ASSUME NetnsInit PROVE NetnsInv
    OBVIOUS
<1>1. ns \in [Thread -> {"root", "endpoint"}] /\ PoolInRoot
    BY DEF NetnsInit, PoolInRoot
<1>2. calls \in 0..MaxCalls
    BY NetnsAssumption DEF NetnsInit
<1>3. NetnsTypeOK
    BY <1>1, <1>2 DEF NetnsInit, NetnsTypeOK
<1>4. named # "own"
    BY NetnsAssumption DEF NetnsInit
<1> QED
    BY <1>1, <1>3, <1>4 DEF NetnsInit, NetnsInv

\* Locking the thread, and finding out which netns it is in.
LEMMA LockStep ==
    ASSUME NetnsInv, Reschedule \/ LockOSThread \/ Get
    PROVE  NetnsInv'
<1>1. CASE Reschedule
    BY <1>1 DEF Reschedule, NetnsInv, NetnsTypeOK, PoolInRoot
<1>2. CASE LockOSThread
    BY <1>2 DEF LockOSThread, NetnsInv, NetnsTypeOK, PoolInRoot
<1>3. CASE Get
    BY <1>3 DEF Get, NetnsInv, NetnsTypeOK, PoolInRoot
<1> QED
    BY <1>1, <1>2, <1>3

\* What fn does to the thread, which is locked.
LEMMA FnStep ==
    ASSUME NetnsInv, NewNamed \/ Enter
    PROVE  NetnsInv'
<1>1. CASE NewNamed
    BY <1>1, NetnsAssumption DEF NewNamed, NetnsInv, NetnsTypeOK, PoolInRoot
<1>2. CASE Enter
    BY <1>2 DEF Enter, NetnsInv, NetnsTypeOK, PoolInRoot
<1> QED
    BY <1>1, <1>2

\* The thread is unlocked only in the netns it came from.
LEMMA RestoreStep ==
    ASSUME NetnsInv, Restore
    PROVE  NetnsInv'
<1>1. NetnsTypeOK' /\ PoolInRoot'
    BY DEF Restore, Abandoned, RestoreErr, NetnsInv, NetnsTypeOK, PoolInRoot
<1> QED
    BY <1>1 DEF Restore, Abandoned, RestoreErr, NetnsInv, NetnsTypeOK

\* CreateNamedNetns and WithNetns return, and add goes on or fails.
LEMMA NetnsReturnStep ==
    ASSUME NetnsInv, CreateReturns \/ EnterReturns \/ CallEnter
    PROVE  NetnsInv'
<1>1. CASE CreateReturns
    BY <1>1, NetnsAssumption
    DEF CreateReturns, UndoesCreate, IsOpen, NetnsInv, NetnsTypeOK, PoolInRoot
<1>2. CASE EnterReturns
    BY <1>2 DEF EnterReturns, NetnsInv, NetnsTypeOK, PoolInRoot
<1>3. CASE CallEnter
    BY <1>3, NetnsAssumption DEF CallEnter, NetnsInv, NetnsTypeOK, PoolInRoot
<1> QED
    BY <1>1, <1>2, <1>3

\* Every step of an add's thread, and of the scheduler.
LEMMA NetnsNextInv ==
    ASSUME NetnsInv, [NetnsNext]_netnsVars
    PROVE  NetnsInv'
<1>1. CASE UNCHANGED netnsVars
    BY <1>1 DEF netnsVars, NetnsInv, NetnsTypeOK, PoolInRoot
<1> QED
    BY <1>1, LockStep, FnStep, RestoreStep, NetnsReturnStep DEF NetnsNext

\* The netns switches' inductive invariant.
THEOREM NetnsInvariance == NetnsSpec => []NetnsInv
BY NetnsInitInv, NetnsNextInv, PTL DEF NetnsSpec

\* No goroutine ever runs in an endpoint's netns by accident (utils.go
\* withLockedOSThread).
THEOREM PoolClean == NetnsSpec => []PoolInRoot
<1>1. NetnsInv => PoolInRoot
    BY DEF NetnsInv
<1> QED
    BY <1>1, NetnsInvariance, PTL

\* add goes on only in the root netns (utils.go withLockedOSThread).
THEOREM NeverStuckUnreported == NetnsSpec => []StuckIsReported
<1>1. NetnsInv => StuckIsReported
    BY DEF NetnsInv, StuckIsReported
<1> QED
    BY <1>1, NetnsInvariance, PTL

\* CreateNamedNetns creates its netns or leaves nothing behind (utils.go
\* CreateNamedNetns).
THEOREM CreateAllOrNothing == NetnsSpec => []CreatedOrNothing
<1>1. NetnsInv => CreatedOrNothing
    BY DEF NetnsInv, CreatedOrNothing
<1> QED
    BY <1>1, NetnsInvariance, PTL

-----------------------------------------------------------------------------
(* Daemon.                                                                 *)

\* DaemonInv of serve itself, and of its clients.
ServingOK ==
    /\ signalled \in BOOLEAN /\ interval \in BOOLEAN /\ tick \in BOOLEAN
    /\ loop \in {"dial", "select", "flush", "shutdown", "returned"}
    /\ expired \in BOOLEAN
    /\ result \in {"none", "dial", "nil", "deadline", "error"}
    /\ result # "none" <=> loop = "returned"
    /\ server \in {"new", "listening", "failed", "closed"}
    /\ goroutine \in {"none", "serve", "send", "done"}
    /\ srvErr \in {"none", "nil", "error"}
    /\ result = "error" => server = "failed"
    /\ server = "closed" => loop \in {"shutdown", "returned"}
    /\ goroutine = "send" \/ srvErr # "none" => server \in {"failed", "closed"}

Seen == BOOLEAN \X SUBSET Flags

ClientOK(r, now) ==
    /\ req[r] \in {"none", "link", "state", "200", "503"}
    /\ seen[r] \in SUBSET Seen
    /\ req[r] \in {"link", "state"} => now \in seen[r]
    /\ req[r] = "state" => \E s \in seen[r] : s[1]
    /\ req[r] = "200" => (\E s \in seen[r] : s[1]) /\ (\E s \in seen[r] : s[2] = Flags)
    /\ req[r] = "503" => \E s \in seen[r] : s # <<TRUE, Flags>>

ClientsOK ==
    /\ req = [r \in Request |-> req[r]] /\ seen = [r \in Request |-> seen[r]]
    /\ decap \in BOOLEAN /\ uplink \in SUBSET Flags /\ changes \in Nat
    /\ \A r \in Request : ClientOK(r, <<decap, uplink>>)

\* The invariant is the two.
LEMMA DaemonParts == DaemonInv <=> ServingOK /\ ClientsOK
<1>1. ASSUME DaemonInv PROVE ServingOK /\ ClientsOK
    <2>1. ServingOK
        BY <1>1 DEF DaemonInv, DaemonTypeOK, ServeTruthful, ServingOK
    <2>2. req = [r \in Request |-> req[r]] /\ seen = [r \in Request |-> seen[r]]
        BY <1>1 DEF DaemonInv, DaemonTypeOK
    <2>3. decap \in BOOLEAN /\ uplink \in SUBSET Flags /\ changes \in Nat
        BY <1>1 DEF DaemonInv, DaemonTypeOK
    <2>4. ASSUME NEW r \in Request PROVE ClientOK(r, <<decap, uplink>>)
        <3>1. req[r] \in {"none", "link", "state", "200", "503"} /\ seen[r] \in SUBSET Seen
            BY <1>1 DEF DaemonInv, DaemonTypeOK, Seen
        <3> HIDE DEF Seen
        <3> QED BY <1>1, <3>1 DEF DaemonInv, ServeTruthful, InProgress, ClientOK
    <2> QED BY <2>1, <2>2, <2>3, <2>4 DEF ClientsOK
<1>2. ASSUME ServingOK, ClientsOK PROVE DaemonInv
    <2>1. /\ req \in [Request -> {"none", "link", "state", "200", "503"}]
          /\ seen \in [Request -> SUBSET Seen]
        BY <1>2 DEF ClientsOK, ClientOK
    <2>2. DaemonTypeOK
        BY <1>2, <2>1 DEF DaemonTypeOK, ServingOK, ClientsOK, Seen
    <2>3. ServeTruthful
        BY <1>2 DEF ServeTruthful, ServingOK, ClientsOK, ClientOK
    <2> QED BY <1>2, <2>2, <2>3 DEF DaemonInv, ServingOK, ClientsOK, ClientOK, InProgress
<1> QED BY <1>1, <1>2

\* And after a step.
LEMMA DaemonPartsNext == DaemonInv' <=> ServingOK' /\ ClientsOK'
BY DaemonParts, PTL

\* serve starts without a server or a request.
LEMMA DaemonInitInv == DaemonInit => DaemonInv
<1> SUFFICES ASSUME DaemonInit PROVE ServingOK /\ ClientsOK
    BY DaemonParts
<1>1. ServingOK
    BY DEF DaemonInit, ServingOK
<1>2. ClientsOK
    BY DEF DaemonInit, ClientsOK, ClientOK
<1> QED BY <1>1, <1>2

\* Clients that wait see nothing happen.
LEMMA ClientsWait ==
    ASSUME ClientsOK, UNCHANGED <<requestVars, hostVars>>
    PROVE  ClientsOK'
BY DEF ClientsOK, ClientOK, requestVars, hostVars

\* RunServe's loop takes for a failure only what a failed server sent.
LEMMA LoopInv ==
    ASSUME DaemonInv, Signal \/ Ticker \/ LoopStep
    PROVE  DaemonInv'
<1>1. ServingOK /\ ClientsOK
    BY DaemonParts
<1>2. UNCHANGED <<requestVars, hostVars>>
    BY DEF Signal, Ticker, LoopStep, Dial, Flush, Flushed, Shutdown, Expire, ShutdownReturns,
           ServerErr
<1> SUFFICES ServingOK'
    BY <1>1, <1>2, ClientsWait, DaemonPartsNext
<1>3. CASE Signal \/ Ticker
    BY <1>1, <1>3 DEF ServingOK, serverVars, Signal, Ticker
<1>4. CASE Dial
    BY <1>1, <1>4 DEF ServingOK, Dial
<1>5. CASE Flush \/ Flushed \/ Expire
    BY <1>1, <1>5 DEF ServingOK, serverVars, Flush, Flushed, Expire
<1>6. CASE Shutdown \/ ShutdownReturns \/ ServerErr
    BY <1>1, <1>6
    DEF ServingOK, serverVars, Shutdown, ShutdownReturns, AfterShutdown, ServerErr
<1> QED BY <1>3, <1>4, <1>5, <1>6 DEF LoopStep

\* The server's goroutine sends once it has ended.
LEMMA GoroutineInv ==
    ASSUME DaemonInv, GoroutineStep
    PROVE  DaemonInv'
<1>1. ServingOK /\ ClientsOK
    BY DaemonParts
<1>2. UNCHANGED <<loopVars, requestVars, hostVars>>
    BY DEF GoroutineStep, Listen, ServerFails, ServerCloses, Send
<1>3. ServingOK'
    BY <1>1, <1>2
    DEF ServingOK, loopVars, GoroutineStep, Listen, ServerFails, ServerCloses, Send, SentErr
<1> QED BY <1>1, <1>2, <1>3, ClientsWait, DaemonPartsNext

\* A request arrives, and reads the host as it is.
LEMMA RequestInv ==
    ASSUME DaemonInv, NEW r \in Request, Arrive(r) \/ ReadLink(r) \/ ReadState(r)
    PROVE  DaemonInv'
<1> DEFINE now == <<decap, uplink>>
<1>1. ServingOK /\ ClientsOK /\ ClientOK(r, now) /\ now \in Seen
    BY DaemonParts DEF ClientsOK, Seen
<1>2. UNCHANGED <<loopVars, serverVars, hostVars>>
    BY DEF Arrive, ReadLink, ReadState
<1>3. ServingOK'
    BY <1>1, <1>2 DEF ServingOK, loopVars, serverVars
<1>4. /\ req' = [req EXCEPT ![r] = req'[r]] /\ seen' = [seen EXCEPT ![r] = seen'[r]]
    BY <1>1 DEF Arrive, ReadLink, ReadState, Moves, ClientsOK
<1>5. ClientOK(r, now)'
    <2>1. now' = now /\ now[1] = decap /\ now[2] = uplink
        BY <1>2 DEF hostVars
    <2>2. CASE Arrive(r)
        <3>1. req'[r] = "link" /\ seen'[r] = {now}
            BY <1>1, <2>2 DEF Arrive, Moves, ClientsOK
        <3> QED BY <1>1, <2>1, <3>1 DEF ClientOK
    <2>3. CASE ReadLink(r)
        <3>1. /\ req[r] = "link" /\ req'[r] = (IF decap THEN "state" ELSE "503")
              /\ seen'[r] = seen[r]
            BY <1>1, <2>3 DEF ReadLink, Moves, ClientsOK
        <3>2. ~decap => now # <<TRUE, Flags>>
            OBVIOUS
        <3> QED BY <1>1, <2>1, <3>1, <3>2 DEF ClientOK
    <2>4. CASE ReadState(r)
        <3>1. /\ req[r] = "state" /\ req'[r] = (IF uplink = Flags THEN "200" ELSE "503")
              /\ seen'[r] = seen[r]
            BY <1>1, <2>4 DEF ReadState, IsUp, Moves, ClientsOK
        <3>2. uplink # Flags => now # <<TRUE, Flags>>
            OBVIOUS
        <3> QED BY <1>1, <2>1, <3>1, <3>2 DEF ClientOK
    <2> QED BY <2>2, <2>3, <2>4
<1>6. ClientsOK'
    BY <1>1, <1>2, <1>4, <1>5 DEF ClientsOK, ClientOK, hostVars
<1> QED BY <1>3, <1>6, DaemonPartsNext

\* Every request in progress sees the host change.
LEMMA HostInv ==
    ASSUME DaemonInv, HostChanges
    PROVE  DaemonInv'
<1> DEFINE now == <<decap, uplink>>
<1>1. ServingOK /\ ClientsOK
    BY DaemonParts
<1>2. /\ UNCHANGED <<loopVars, serverVars, req>>
      /\ seen' = [r \in Request |->
                    IF r \in InProgress THEN seen[r] \cup {now'} ELSE seen[r]]
    BY DEF HostChanges
<1>3. decap' \in BOOLEAN /\ uplink' \in SUBSET Flags /\ changes' \in Nat
    <2>1. decap' \in BOOLEAN
        BY <1>1 DEF HostChanges, ClientsOK
    <2>2. uplink' \in SUBSET Flags
        BY <1>1 DEF HostChanges, ClientsOK
    <2> QED BY <1>1, <2>1, <2>2 DEF HostChanges, ClientsOK
<1>4. ServingOK'
    BY <1>1, <1>2 DEF ServingOK, loopVars, serverVars
<1>5. ASSUME NEW r \in Request PROVE ClientOK(r, now)'
    <2>1. ClientOK(r, now) /\ req'[r] = req[r] /\ now' \in Seen
        BY <1>1, <1>2, <1>3 DEF ClientsOK, Seen
    <2>2. IF req[r] \in {"link", "state"} THEN seen'[r] = seen[r] \cup {now'}
          ELSE seen'[r] = seen[r]
        BY <1>2 DEF InProgress
    <2> HIDE DEF now
    <2> QED BY <2>1, <2>2 DEF ClientOK
<1>6. ClientsOK'
    BY <1>1, <1>2, <1>3, <1>5 DEF ClientsOK
<1> QED BY <1>4, <1>6, DaemonPartsNext

\* Every step of serve, its server, its clients and the host.
LEMMA DaemonNextInv ==
    ASSUME DaemonInv, [DaemonNext]_daemonVars
    PROVE  DaemonInv'
<1>1. CASE UNCHANGED daemonVars
    BY <1>1, ClientsWait, DaemonParts, DaemonPartsNext
    DEF daemonVars, requestVars, hostVars, ServingOK
<1> QED
    BY <1>1, LoopInv, GoroutineInv, RequestInv, HostInv DEF DaemonNext

\* serve's inductive invariant.
THEOREM DaemonInvariance == DaemonSpec => []DaemonInv
BY DaemonInitInv, DaemonNextInv, PTL DEF DaemonSpec

\* serve takes no orderly end for a failure, and a health answer held at some moment of
\* its request (serve.go RunServe, checkHealth).
THEOREM AnswersTrue == DaemonSpec => []ServeTruthful
<1>1. DaemonInv => ServeTruthful
    BY DEF DaemonInv
<1> QED BY <1>1, DaemonInvariance, PTL

-----------------------------------------------------------------------------
(* The parts together, as TLC runs them.                                   *)

\* Each part keeps its invariant whatever the others do.
THEOREM ProcessInvariance == FairSpec => []ProcessInv
<1>1. Init => ProcessInv
    BY SweepInitInv, NetnsInitInv, DaemonInitInv DEF Init, ProcessInv
<1>2. ProcessInv /\ [Next]_vars => ProcessInv'
    <2>1. [Next]_vars => [SweepNext]_sweepVars /\ [NetnsNext]_netnsVars /\ [DaemonNext]_daemonVars
        BY DEF vars, Next, InSweep, InNetns, InDaemon, InPack
    <2> QED BY <2>1, SweepNextInv, NetnsNextInv, DaemonNextInv DEF ProcessInv
<1> QED BY <1>1, <1>2, PTL DEF FairSpec

-----------------------------------------------------------------------------
(* Datagrams: the invariant.                                               *)

\* Lines a to b, as a datagram.
LinesFrom(a, b) == [i \in 1..(b - a + 1) |-> a + i - 1]

\* The bytes of the first k lines, without newlines.
Before(k) == SumFunctionOnSet(lines, 1..k)

\* The last line the loop has dealt with.
LastLine == IF line > Len(lines) THEN Len(lines) ELSE line - 1

PackTypeOK ==
    /\ Len(lines) \in Nat /\ DOMAIN lines = 1..Len(lines)
    /\ \A i \in 1..Len(lines) : lines[i] \in Nat /\ lines[i] > 0
    /\ line \in 1..Len(lines) + 2

\* Where the datagrams end: e[k] is the last line of the k-th.  Each had no room for the
\* next line, and is over the limit only with a single one.
Ends(e) ==
    LET m == Len(datagrams) IN
    /\ e \in [0..m -> 0..Len(lines)] /\ e[0] = 0
    /\ \A j, k \in 0..m : j < k => e[j] < e[k]
    /\ \A k \in 1..m :
        /\ datagrams[k] = LinesFrom(e[k - 1] + 1, e[k])
        /\ Size(LinesFrom(e[k - 1] + 1, e[k])) > Limit => e[k] = e[k - 1] + 1
        /\ e[k] < Len(lines) => Size(LinesFrom(e[k - 1] + 1, e[k] + 1)) > Limit
    /\ e[m] <= LastLine
    /\ cur = LinesFrom(e[m] + 1, LastLine)
    /\ Size(cur) > Limit => LastLine = e[m] + 1

\* Sequences of numbers: lines by their numbers.
Numbers == Seq(Nat)

PackInv ==
    /\ PackTypeOK
    /\ datagrams \in Seq(Numbers) /\ cur \in Numbers
    /\ \E e \in [0..Len(datagrams) -> 0..Len(lines)] : Ends(e)

-----------------------------------------------------------------------------
(* Datagrams: sizes.                                                       *)

\* LinesFrom is a sequence.
LEMMA LinesSeq ==
    \A a, b \in Nat : b + 1 >= a /\ a > 0 =>
        /\ LinesFrom(a, b) \in Numbers
        /\ Len(LinesFrom(a, b)) = b - a + 1
        /\ DOMAIN LinesFrom(a, b) = 1..(b - a + 1)
        /\ \A i \in 1..(b - a + 1) : LinesFrom(a, b)[i] = a + i - 1
<1> SUFFICES ASSUME NEW a \in Nat, NEW b \in Nat, b + 1 >= a, a > 0
             PROVE  /\ LinesFrom(a, b) \in Numbers
                    /\ Len(LinesFrom(a, b)) = b - a + 1
                    /\ DOMAIN LinesFrom(a, b) = 1..(b - a + 1)
                    /\ \A i \in 1..(b - a + 1) : LinesFrom(a, b)[i] = a + i - 1
  OBVIOUS
<1>1. b - a + 1 \in Nat /\ \A i \in 1..(b - a + 1) : a + i - 1 \in Nat
  OBVIOUS
<1> QED BY <1>1 DEF LinesFrom, Numbers

\* What the first lines take grows with them.
LEMMA BeforeGrows ==
    ASSUME PackTypeOK
    PROVE  /\ \A k \in 0..Len(lines) : Before(k) \in Nat
           /\ \A k \in 1..Len(lines) : Before(k) = Before(k - 1) + lines[k]
           /\ \A j, k \in 0..Len(lines) : j <= k => Before(j) <= Before(k)
<1> DEFINE n == Len(lines)
<1>1. n \in Nat /\ \A i \in 1..n : lines[i] \in Nat
  BY DEF PackTypeOK
<1>2. /\ \A k \in 0..n : Before(k) \in Nat
      /\ \A k \in 1..n : Before(k) = Before(k - 1) + lines[k]
  <2> HIDE DEF n
  <2> QED BY <1>1, SumToNext DEF Before
<1>3. ASSUME NEW j \in 0..n PROVE \A k \in 0..n : j <= k => Before(j) <= Before(k)
  <2> DEFINE G == {k \in 0..n : j <= k => Before(j) <= Before(k)}
  <2> HIDE DEF n
  <2>1. 0 \in G
    BY <1>1, <1>2, <1>3 DEF G
  <2>2. ASSUME NEW k \in 0..n, k < n, k \in G PROVE k + 1 \in G
    <3>1. k + 1 \in 1..n /\ (k + 1) - 1 = k /\ k + 1 \in 0..n
      BY <1>1, <2>2
    <3>2. Before(k + 1) = Before(k) + lines[k + 1] /\ lines[k + 1] \in Nat
      BY <1>1, <1>2, <3>1
    <3>3. Before(k) \in Nat /\ Before(k + 1) \in Nat /\ Before(j) \in Nat
      BY <1>2, <1>3, <3>1
    <3>4. CASE j <= k
      <4>1. Before(j) <= Before(k)
        BY <2>2, <3>4
      <4> QED BY <3>1, <3>2, <3>3, <4>1
    <3>5. CASE ~(j <= k)
      <4>1. j <= k + 1 => j = k + 1
        BY <1>1, <1>3, <3>5
      <4> QED BY <3>1, <3>3, <4>1
    <3> QED BY <3>4, <3>5
  <2> HIDE DEF G
  <2>3. \A k \in 0..n : k \in G
    BY <1>1, <2>1, <2>2, StepByStep
  <2> QED BY <2>3 DEF G
<1> QED BY <1>2, <1>3

\* A datagram of lines a to b takes what they take, and a newline between each two.
LEMMA SizeOfLines ==
    ASSUME PackTypeOK, NEW a \in 1..Len(lines), NEW b \in a..Len(lines)
    PROVE  /\ Size(LinesFrom(a, b)) = Before(b) - Before(a - 1) + (b - a)
           /\ Size(LinesFrom(a, b)) \in Nat /\ Size(LinesFrom(a, b)) > 0
<1> DEFINE n == Len(lines)
           c == b - a + 1
           d == LinesFrom(a, b)
           f == [i \in DOMAIN d |-> lines[d[i]]]
<1>1. n \in Nat /\ a \in Nat /\ b \in Nat /\ a >= 1 /\ a <= b /\ b <= n /\ c \in Nat /\ c >= 1
  BY DEF PackTypeOK
<1>2. Len(d) = c /\ DOMAIN d = 1..c /\ \A i \in 1..c : d[i] = a + i - 1
  <2>1. b + 1 >= a /\ a > 0
    BY <1>1
  <2> HIDE DEF d
  <2> QED BY ONLY <1>1, <2>1, LinesSeq DEF d, c
<1> HIDE DEF d
<1>3. DOMAIN f = 1..c /\ \A i \in 1..c : f[i] = lines[a + i - 1] /\ f[i] \in Nat /\ f[i] > 0
  <2>1. \A i \in 1..c : a + i - 1 \in 1..n
    BY <1>1
  <2> QED BY <1>2, <2>1 DEF PackTypeOK
<1> HIDE DEF f, c, n
<1>4. /\ SumFunctionOnSet(f, 1..0) = 0
      /\ \A k \in 0..c : SumFunctionOnSet(f, 1..k) \in Nat
      /\ \A k \in 1..c : SumFunctionOnSet(f, 1..k) = SumFunctionOnSet(f, 1..k - 1) + f[k]
  BY <1>1, <1>3, SumToNext
<1> DEFINE S(k) == SumFunctionOnSet(f, 1..k)
           G == {k \in 0..c : S(k) + Before(a - 1) = Before(a - 1 + k)}
<1>5. /\ \A k \in 0..n : Before(k) \in Nat
      /\ \A k \in 1..n : Before(k) = Before(k - 1) + lines[k]
      /\ \A j, k \in 0..n : j <= k => Before(j) <= Before(k)
  BY BeforeGrows DEF n
<1>6. 0 \in G
  <2>1. a - 1 + 0 = a - 1 /\ a - 1 \in 0..n /\ 0 \in 0..c
    BY <1>1
  <2>2. Before(a - 1) \in Nat
    BY <1>5, <2>1
  <2> QED BY <1>4, <2>1, <2>2
<1>7. ASSUME NEW k \in 0..c, k < c, k \in G PROVE k + 1 \in G
  <2>1. k + 1 \in 1..c /\ k + 1 \in 0..c /\ (k + 1) - 1 = k /\ a + (k + 1) - 1 = a + k
    BY <1>1, <1>7
  <2>2. a + k \in 1..n /\ (a + k) - 1 = a - 1 + k /\ a - 1 + (k + 1) = a + k /\ a - 1 \in 0..n
        /\ a - 1 + k \in 0..n
    BY <1>1, <1>7 DEF c
  <2>3. S(k + 1) = S(k) + lines[a + k] /\ S(k) \in Nat /\ S(k + 1) \in Nat
    <3>1. S(k + 1) = S((k + 1) - 1) + f[k + 1]
      BY <1>4, <2>1
    <3>2. f[k + 1] = lines[a + k]
      BY <1>3, <2>1
    <3> QED BY <1>4, <2>1, <3>1, <3>2
  <2>4. Before(a + k) = Before(a - 1 + k) + lines[a + k]
    BY <1>5, <2>2
  <2>5. /\ lines[a + k] \in Nat /\ Before(a - 1) \in Nat
        /\ Before(a + k) \in Nat /\ Before(a - 1 + k) \in Nat
    <3>1. lines[a + k] \in Nat
      BY <2>2 DEF n, PackTypeOK
    <3>2. a + k \in 0..n
      BY <1>1, <2>2
    <3> QED BY <1>5, <2>2, <3>1, <3>2
  <2>6. S(k) + Before(a - 1) = Before(a - 1 + k)
    BY <1>7
  <2>7. S(k + 1) + Before(a - 1) = Before(a + k)
    <3> DEFINE p == S(k)
               q == S(k + 1)
               r == Before(a - 1)
               s == Before(a - 1 + k)
               t == Before(a + k)
               u == lines[a + k]
    <3>1. /\ p \in Nat /\ q \in Nat /\ r \in Nat /\ s \in Nat /\ t \in Nat /\ u \in Nat
          /\ q = p + u /\ p + r = s /\ t = s + u
      BY <2>3, <2>4, <2>5, <2>6
    <3> HIDE DEF p, q, r, s, t, u
    <3>2. q + r = t
      BY ONLY <3>1
    <3> QED BY <3>2 DEF q, r, t
  <2> QED BY <2>1, <2>2, <2>7
<1>8. c \in G
  <2> HIDE DEF G
  <2>1. \A k \in 0..c : k \in G
    BY <1>1, <1>6, <1>7, StepByStep
  <2> QED BY <1>1, <2>1
<1>9. S(c) + Before(a - 1) = Before(b) /\ S(c) \in Nat
  <2>1. a - 1 + c = b /\ c \in 0..c
    BY <1>1 DEF c
  <2> QED BY <1>4, <1>8, <2>1
<1>10. S(c) > 0
  <2>1. S(c) = S(c - 1) + f[c] /\ S(c - 1) \in Nat /\ f[c] \in Nat /\ f[c] > 0
    <3>1. c \in 1..c /\ c - 1 \in 0..c
      BY <1>1
    <3> QED BY <1>3, <1>4, <3>1
  <2> HIDE DEF S
  <2> QED BY <2>1
<1>11. Size(d) = S(c) + c - 1
  <2>1. d # <<>>
    BY <1>1, <1>2
  <2>2. SumFunction(f) = S(c)
    BY <1>3 DEF SumFunction
  <2> QED BY <1>2, <2>1, <2>2 DEF Size, f
<1>12. Before(b) \in Nat /\ Before(a - 1) \in Nat
  <2>1. b \in 0..n /\ a - 1 \in 0..n
    BY <1>1
  <2> QED BY <1>5, <2>1
<1> HIDE DEF S
<1>13. Size(d) = Before(b) - Before(a - 1) + (b - a) /\ Size(d) \in Nat /\ Size(d) > 0
  BY ONLY <1>1, <1>9, <1>10, <1>11, <1>12 DEF c
<1> QED BY <1>13 DEF d

-----------------------------------------------------------------------------
(* Datagrams: the steps.                                                   *)

\* Lines that follow each other are one datagram's.
LEMMA LinesJoined ==
    ASSUME NEW a \in Nat \ {0}, NEW b \in Nat, NEW c \in Nat, a <= b + 1, b <= c
    PROVE  LinesFrom(a, b) \o LinesFrom(b + 1, c) = LinesFrom(a, c)
<1> DEFINE s == LinesFrom(a, b)
           t == LinesFrom(b + 1, c)
           u == LinesFrom(a, c)
<1>1. /\ s \in Numbers /\ Len(s) = b - a + 1 /\ \A i \in 1..(b - a + 1) : s[i] = a + i - 1
      /\ t \in Numbers /\ Len(t) = c - b /\ \A i \in 1..(c - b) : t[i] = b + i
      /\ u \in Numbers /\ Len(u) = c - a + 1 /\ \A i \in 1..(c - a + 1) : u[i] = a + i - 1
  <2>1. /\ a \in Nat /\ b + 1 \in Nat /\ b + 1 >= a /\ c + 1 >= b + 1 /\ c + 1 >= a /\ a > 0 /\ b + 1 > 0
        /\ c - (b + 1) + 1 = c - b /\ \A i \in 1..(c - b) : (b + 1) + i - 1 = b + i
    OBVIOUS
  <2> HIDE DEF s, t, u
  <2>2. s \in Numbers /\ Len(s) = b - a + 1 /\ \A i \in 1..(b - a + 1) : s[i] = a + i - 1
    BY <2>1, LinesSeq DEF s
  <2>3. t \in Numbers /\ Len(t) = c - b /\ \A i \in 1..(c - b) : t[i] = b + i
    <3>1. t \in Numbers /\ Len(t) = c - (b + 1) + 1 /\ \A i \in 1..(c - (b + 1) + 1) : t[i] = (b + 1) + i - 1
      BY ONLY <2>1, LinesSeq, c \in Nat DEF t
    <3> QED BY <2>1, <3>1
  <2>4. u \in Numbers /\ Len(u) = c - a + 1 /\ \A i \in 1..(c - a + 1) : u[i] = a + i - 1
    BY <2>1, LinesSeq DEF u
  <2> QED BY <2>2, <2>3, <2>4
<1> HIDE DEF s, t, u
<1> DEFINE v == s \o t
<1>2. /\ v \in Numbers /\ Len(v) = Len(s) + Len(t)
      /\ \A i \in 1..Len(s) + Len(t) : v[i] = IF i <= Len(s) THEN s[i] ELSE t[i - Len(s)]
  BY <1>1, ConcatProperties DEF Numbers
<1> HIDE DEF v
<1>3. Len(v) = Len(u)
  BY <1>1, <1>2
<1>4. ASSUME NEW i \in 1..Len(u) PROVE v[i] = u[i]
  <2>1. i \in 1..(c - a + 1) /\ i \in 1..Len(s) + Len(t)
    BY <1>1
  <2>2. CASE i <= b - a + 1
    <3>1. i \in 1..(b - a + 1)
      BY <2>1, <2>2
    <3> QED BY <1>1, <1>2, <2>1, <2>2, <3>1
  <2>3. CASE i > b - a + 1
    <3>1. i - (b - a + 1) \in 1..(c - b) /\ b + (i - (b - a + 1)) = a + i - 1 /\ ~(i <= b - a + 1)
      BY <2>1, <2>3
    <3> QED BY <1>1, <1>2, <2>1, <3>1
  <2> QED BY <2>1, <2>2, <2>3
<1>5. v = u
  BY <1>1, <1>2, <1>3, <1>4, SeqEqual DEF Numbers
<1> QED BY <1>5 DEF s, t, u, v

\* A line is a datagram, or one more of one.
LEMMA OneMoreLine ==
    ASSUME NEW a \in Nat \ {0}, NEW b \in Nat, a <= b + 1
    PROVE  /\ Append(LinesFrom(a, b), b + 1) = LinesFrom(a, b + 1)
           /\ <<b + 1>> = LinesFrom(b + 1, b + 1)
<1>1. <<b + 1>> = LinesFrom(b + 1, b + 1)
  <2>1. (b + 1) - (b + 1) + 1 = 1 /\ (b + 1) + 1 - 1 = b + 1
    OBVIOUS
  <2>2. /\ LinesFrom(b + 1, b + 1) \in Numbers /\ Len(LinesFrom(b + 1, b + 1)) = 1
        /\ LinesFrom(b + 1, b + 1)[1] = b + 1
    <3>1. b + 1 \in Nat /\ (b + 1) + 1 >= b + 1 /\ b + 1 > 0 /\ 1 \in 1..1
      OBVIOUS
    <3> QED BY <2>1, <3>1, LinesSeq
  <2>3. <<b + 1>> \in Numbers /\ Len(<<b + 1>>) = 1 /\ <<b + 1>>[1] = b + 1
    BY DEF Numbers
  <2> DEFINE s == LinesFrom(b + 1, b + 1)
             t == <<b + 1>>
  <2> HIDE DEF s, t
  <2>4. s = t
    BY <2>2, <2>3, SeqEqual DEF Numbers, s, t
  <2> QED BY <2>4 DEF s, t
<1>2. LinesFrom(a, b) \in Numbers
  BY LinesSeq
<1>3. Append(LinesFrom(a, b), b + 1) = LinesFrom(a, b) \o <<b + 1>>
  <2> DEFINE s == LinesFrom(a, b)
  <2>1. s \in Seq(Nat) /\ b + 1 \in Nat
    BY <1>2 DEF Numbers
  <2> HIDE DEF s
  <2>2. Append(s, b + 1) = s \o <<b + 1>>
    BY <2>1, AppendIsConcat
  <2> QED BY <2>2 DEF s
<1>4. LinesFrom(a, b) \o LinesFrom(b + 1, b + 1) = LinesFrom(a, b + 1)
  <2>1. b + 1 \in Nat /\ b <= b + 1
    OBVIOUS
  <2> QED BY <2>1, LinesJoined
<1> QED BY <1>1, <1>3, <1>4

\* A line more is as many bytes more, and a newline.
LEMMA SizeOneMore ==
    ASSUME PackTypeOK, NEW a \in 1..Len(lines), NEW b \in a..Len(lines), b < Len(lines)
    PROVE  /\ b + 1 \in 1..Len(lines) /\ lines[b + 1] \in Nat
           /\ Size(LinesFrom(a, b + 1)) = Size(LinesFrom(a, b)) + 1 + lines[b + 1]
<1> DEFINE n == Len(lines)
<1>1. n \in Nat /\ b \in Nat /\ a \in Nat /\ b + 1 \in 1..n /\ b + 1 \in a..n /\ (b + 1) - 1 = b
      /\ a - 1 \in 0..n /\ b \in 0..n /\ b + 1 \in 0..n
  BY DEF PackTypeOK
<1>2. lines[b + 1] \in Nat
  BY <1>1 DEF PackTypeOK
<1>3. /\ Size(LinesFrom(a, b)) = Before(b) - Before(a - 1) + (b - a)
      /\ Size(LinesFrom(a, b + 1)) = Before(b + 1) - Before(a - 1) + ((b + 1) - a)
  BY <1>1, SizeOfLines
<1>4. Before(b + 1) = Before(b) + lines[b + 1]
  BY <1>1, BeforeGrows
<1>5. Before(b) \in Nat /\ Before(a - 1) \in Nat /\ Before(b + 1) \in Nat
  BY <1>1, BeforeGrows
<1> DEFINE s == Size(LinesFrom(a, b))
           t == Size(LinesFrom(a, b + 1))
           x == Before(b)
           y == Before(b + 1)
           z == Before(a - 1)
           w == lines[b + 1]
<1>6. /\ s = x - z + (b - a) /\ t = y - z + ((b + 1) - a) /\ y = x + w
      /\ x \in Nat /\ y \in Nat /\ z \in Nat /\ w \in Nat /\ a \in Nat /\ b \in Nat
  BY <1>1, <1>2, <1>3, <1>4, <1>5
<1> HIDE DEF s, t, x, y, z, w
<1>7. t = s + 1 + w
  BY ONLY <1>6
<1> QED BY <1>1, <1>2, <1>7 DEF s, t, w

\* A datagram of no lines is empty.
LEMMA NoLines ==
    ASSUME PackTypeOK, NEW a \in 1..Len(lines) + 1, NEW b \in 0..Len(lines), a <= b + 1
    PROVE  /\ a = b + 1 <=> LinesFrom(a, b) = <<>>
           /\ Size(LinesFrom(a, b)) > 0 <=> a <= b
<1>1. a \in Nat /\ b \in Nat /\ Len(lines) \in Nat /\ a > 0
  BY DEF PackTypeOK
<1>2. LinesFrom(a, b) \in Numbers /\ Len(LinesFrom(a, b)) = b - a + 1
  BY <1>1, LinesSeq
<1>3. Len(LinesFrom(a, b)) = 0 <=> LinesFrom(a, b) = <<>>
  <2> DEFINE s == LinesFrom(a, b)
  <2>1. s \in Seq(Nat)
    BY <1>2 DEF Numbers
  <2> HIDE DEF s
  <2>2. Len(s) = 0 <=> s = <<>>
    BY <2>1, EmptySeq
  <2> QED BY <2>2 DEF s
<1>4. a <= b => Size(LinesFrom(a, b)) > 0
  <2>1. a <= b => a \in 1..Len(lines) /\ b \in a..Len(lines)
    BY <1>1
  <2> QED BY <2>1, SizeOfLines
<1>5. LinesFrom(a, b) = <<>> => ~(Size(LinesFrom(a, b)) > 0)
  BY DEF Size
<1>6. a <= b \/ a = b + 1
  BY <1>1
<1> QED BY <1>1, <1>2, <1>3, <1>4, <1>5, <1>6

\* Nothing has been packed yet.
LEMMA PackInitInv ==
    ASSUME PackInit PROVE PackInv
<1>1. PICK n \in 0..MaxLines : lines \in [1..n -> 1..MaxLength]
  BY DEF PackInit, BoundedSeq, SeqOf
<1>2. n \in Nat /\ 1..MaxLength \subseteq Nat
  BY PackAssumption
<1>3. Len(lines) = n /\ DOMAIN lines = 1..n /\ \A i \in 1..n : lines[i] \in Nat /\ lines[i] > 0
  <2>1. DOMAIN lines = 1..n
    BY <1>1
  <2>2. Len(lines) = n
    BY <1>2, <2>1
  <2> QED BY <1>1, <1>2, <2>1, <2>2
<1>4. PackTypeOK
  BY <1>2, <1>3 DEF PackTypeOK, PackInit
<1>5. datagrams = <<>> /\ cur = <<>> /\ datagrams \in Seq(Numbers) /\ cur \in Numbers /\ Len(datagrams) = 0
  <2>1. \A S : <<>> \in Seq(S)
    OBVIOUS
  <2> QED BY <2>1 DEF PackInit, Numbers
<1> DEFINE e == [k \in 0..0 |-> 0]
<1>6. e \in [0..0 -> 0..n] /\ e[0] = 0
  BY <1>2
<1> HIDE DEF e
<1>7. LastLine = 0
  BY <1>2, <1>3 DEF LastLine, PackInit
<1>8. LinesFrom(0 + 1, 0) = <<>>
  <2>1. 1 \in 1..n + 1 /\ 0 \in 0..n /\ 1 <= 0 + 1
    BY <1>2
  <2> QED BY <1>3, <1>4, <2>1, NoLines
<1>9. Ends(e)
  <2>1. \A j, k \in 0..0 : ~(j < k)
    OBVIOUS
  <2>2. 1..0 = {}
    OBVIOUS
  <2>3. ~(Size(cur) > Limit)
    BY <1>5, PackAssumption DEF Size
  <2> QED BY <1>3, <1>5, <1>6, <1>7, <1>8, <2>1, <2>2, <2>3 DEF Ends
<1> QED BY <1>3, <1>4, <1>5, <1>6, <1>9 DEF PackInv

\* Sizes do not change.
LEMMA SizesStay ==
    ASSUME lines' = lines
    PROVE  \A d : Size(d)' = Size(d)
BY DEF Size

\* A line that has room joins the datagram being built.
LEMMA JoinStep ==
    ASSUME PackInv, PackLine, ~Full
    PROVE  PackInv'
<1> DEFINE n == Len(lines)
           m == Len(datagrams)
<1>1. n \in Nat /\ line \in 1..n /\ PackTypeOK /\ lines' = lines /\ line' = line + 1
  BY DEF PackInv, PackTypeOK, PackLine
<1>2. m \in Nat
  BY DEF PackInv
<1>3. PICK e \in [0..m -> 0..n] : Ends(e)
  BY DEF PackInv
<1> DEFINE a == e[m] + 1
<1>4. /\ LastLine = line - 1 /\ LastLine' = line
      /\ e[m] \in 0..line - 1 /\ cur = LinesFrom(a, line - 1) /\ a \in 1..n /\ a <= (line - 1) + 1
  <2>1. LastLine = line - 1
    BY <1>1 DEF LastLine
  <2>2. LastLine' = line
    BY <1>1 DEF LastLine
  <2>3. e[m] \in 0..n /\ e[m] <= line - 1 /\ cur = LinesFrom(a, line - 1)
    BY <1>2, <1>3, <2>1 DEF Ends
  <2> HIDE DEF n, m
  <2> QED BY <1>1, <2>1, <2>2, <2>3
<1>5. datagrams' = datagrams /\ cur' = LinesFrom(a, line)
  <2>1. (line - 1) + 1 = line /\ line - 1 \in Nat /\ a \in Nat \ {0}
    BY <1>1, <1>4
  <2>2. Append(LinesFrom(a, line - 1), line) = LinesFrom(a, line)
    <3>1. Append(LinesFrom(a, line - 1), (line - 1) + 1) = LinesFrom(a, (line - 1) + 1)
      BY <1>4, <2>1, OneMoreLine
    <3> QED BY <2>1, <3>1
  <2>3. cur' = Append(cur, line) /\ datagrams' = datagrams
    BY DEF PackLine, WithLine
  <2> QED BY <1>4, <2>2, <2>3
<1>6. Size(LinesFrom(a, line)) > Limit => line = e[m] + 1
  <2>1. CASE a = line
    BY <2>1
  <2>2. CASE a # line
    <3>1. a \in 1..n /\ line - 1 \in a..n /\ line - 1 < n /\ (line - 1) + 1 = line
      BY <1>1, <1>4, <2>2
    <3>2. /\ lines[line] \in Nat
          /\ Size(LinesFrom(a, line)) = Size(LinesFrom(a, line - 1)) + 1 + lines[line]
      <4>1. /\ lines[(line - 1) + 1] \in Nat
            /\ Size(LinesFrom(a, (line - 1) + 1)) = Size(LinesFrom(a, line - 1)) + 1 + lines[(line - 1) + 1]
        BY <1>1, <3>1, SizeOneMore
      <4> QED BY <3>1, <4>1
    <3>3. Size(cur) \in Nat /\ Size(cur) > 0
      BY <1>1, <1>4, <3>1, SizeOfLines
    <3>4. ~(Size(cur) + 1 + lines[line] > Limit)
      BY <3>3 DEF Full
    <3> QED BY <1>4, <3>2, <3>4
  <2> QED BY <2>1, <2>2
<1>7. Ends(e)'
  <2>1. \A d : Size(d)' = Size(d)
    BY <1>1, SizesStay
  <2>2. e[m] <= line
    BY <1>1, <1>4
  <2> HIDE DEF a
  <2> QED BY <1>1, <1>3, <1>4, <1>5, <1>6, <2>1, <2>2 DEF Ends, a
<1>8. PackTypeOK'
  BY <1>1 DEF PackTypeOK
<1>9. cur' \in Numbers
  <2>1. a \in Nat /\ line \in Nat /\ line + 1 >= a /\ a > 0
    BY <1>1, <1>4
  <2> HIDE DEF a
  <2> QED BY <1>5, <2>1, LinesSeq
<1> QED BY <1>1, <1>3, <1>5, <1>7, <1>8, <1>9 DEF PackInv

\* A datagram that is sent ends where the next one begins.
LEMMA SendStep ==
    ASSUME PackInv, lines' = lines, line \in 1..Len(lines) + 1, line' = line + 1,
           Size(cur) > 0, line <= Len(lines) => Size(cur) + 1 + lines[line] > Limit,
           datagrams' = Append(datagrams, cur), cur' = LinesFrom(line, LastLine')
    PROVE  PackInv'
<1> DEFINE n == Len(lines)
           m == Len(datagrams)
<1>1. n \in Nat /\ line \in Nat /\ PackTypeOK
  BY DEF PackInv, PackTypeOK
<1>2. m \in Nat
  BY DEF PackInv
<1>3. PICK e \in [0..m -> 0..n] : Ends(e)
  BY DEF PackInv
<1>4. /\ LastLine = line - 1
      /\ LastLine' = IF line <= n THEN line ELSE n
  BY <1>1 DEF LastLine
<1>5. e[m] \in 0..n /\ e[m] <= line - 1 /\ cur = LinesFrom(e[m] + 1, line - 1)
  BY <1>2, <1>3, <1>4 DEF Ends
<1>6. e[m] < line - 1
  <2>1. e[m] + 1 \in 1..n + 1 /\ line - 1 \in 0..n /\ e[m] + 1 <= (line - 1) + 1
    <3> HIDE DEF n, m
    <3> QED BY <1>1, <1>5 DEF n
  <2>2. e[m] + 1 <= line - 1
    <3> HIDE DEF m
    <3> QED BY <1>1, <1>5, <2>1, NoLines
  <2> HIDE DEF m
  <2> QED BY <1>1, <1>5, <2>2
<1>7. PICK g \in [0..m + 1 -> 0..n] : (\A k \in 0..m : g[k] = e[k]) /\ g[m + 1] = line - 1
  <2> DEFINE x == line - 1
  <2>1. n \in Nat /\ m \in Nat /\ e \in [0..m -> 0..n] /\ x \in 0..n
    BY <1>1, <1>2
  <2> HIDE DEF n, m, x
  <2>2. \E g \in [0..m + 1 -> 0..n] : (\A k \in 0..m : g[k] = e[k]) /\ g[m + 1] = x
    <3> DEFINE h == [k \in 0..m + 1 |-> IF k = m + 1 THEN x ELSE e[k]]
    <3>1. h \in [0..m + 1 -> 0..n] /\ h[m + 1] = x /\ \A k \in 0..m : h[k] = e[k]
      BY ONLY <2>1
    <3> QED BY <3>1
  <2> QED BY <2>2 DEF x
<1>8. /\ Len(datagrams') = m + 1 /\ datagrams' \in Seq(Numbers)
      /\ \A k \in 1..m : datagrams'[k] = datagrams[k]
      /\ datagrams'[m + 1] = cur
  <2>1. datagrams \in Seq(Numbers) /\ cur \in Numbers
    BY DEF PackInv
  <2> QED BY ONLY <2>1, AppendProperties, datagrams' = Append(datagrams, cur)
<1>9. \A d : Size(d)' = Size(d)
  BY SizesStay
<1> HIDE DEF n, m
<1>10. g[0] = 0 /\ \A j, k \in 0..m + 1 : j < k => g[j] < g[k]
  <2>1. g[0] = 0 /\ \A j, k \in 0..m : j < k => g[j] < g[k]
    BY <1>2, <1>3, <1>7 DEF Ends, m
  <2>2. ASSUME NEW j \in 0..m PROVE g[j] < g[m + 1]
    <3>1. g[j] \in 0..n /\ e[j] = g[j] /\ (j < m => e[j] < e[m])
      BY <1>2, <1>3, <1>7, <2>2 DEF Ends, m
    <3> QED BY <1>1, <1>2, <1>5, <1>6, <1>7, <2>2, <3>1
  <2>3. ASSUME NEW j \in 0..m + 1, NEW k \in 0..m + 1, j < k PROVE g[j] < g[k]
    <3>1. j \in 0..m /\ (k \in 0..m \/ k = m + 1)
      BY ONLY <1>2, <2>3
    <3> QED BY <2>1, <2>2, <2>3, <3>1
  <2> QED BY <2>1, <2>3
<1>11. ASSUME NEW k \in 1..m + 1
       PROVE  /\ datagrams'[k] = LinesFrom(g[k - 1] + 1, g[k])
              /\ Size(LinesFrom(g[k - 1] + 1, g[k])) > Limit => g[k] = g[k - 1] + 1
              /\ g[k] < n => Size(LinesFrom(g[k - 1] + 1, g[k] + 1)) > Limit
  <2>1. CASE k \in 1..m
    <3>1. g[k] = e[k] /\ g[k - 1] = e[k - 1] /\ datagrams'[k] = datagrams[k]
      BY <1>2, <1>7, <1>8, <2>1
    <3> QED BY <1>3, <2>1, <3>1 DEF Ends, m, n
  <2>2. CASE k = m + 1
    <3>1. g[k] = line - 1 /\ g[k - 1] = e[m] /\ datagrams'[k] = cur
      BY <1>2, <1>7, <1>8, <2>2
    <3>2. Size(cur) > Limit => line - 1 = e[m] + 1
      BY <1>3, <1>4 DEF Ends, m
    <3>3. ASSUME line - 1 < n PROVE Size(LinesFrom(e[m] + 1, (line - 1) + 1)) > Limit
      <4>1. e[m] + 1 \in 1..n /\ line - 1 \in e[m] + 1..n /\ (line - 1) + 1 = line /\ line <= n
        BY <1>1, <1>5, <1>6, <3>3
      <4>2. Size(LinesFrom(e[m] + 1, (line - 1) + 1)) = Size(cur) + 1 + lines[(line - 1) + 1]
        BY <1>1, <1>5, <3>3, <4>1, SizeOneMore DEF n
      <4> QED BY <4>1, <4>2 DEF n
    <3> QED BY <1>5, <3>1, <3>2, <3>3
  <2>3. k \in 1..m \/ k = m + 1
    BY ONLY <1>2, <1>11
  <2> QED BY <2>1, <2>2, <2>3
<1>12. g[m + 1] <= LastLine' /\ cur' = LinesFrom(g[m + 1] + 1, LastLine')
  <2>1. g[m + 1] + 1 = line
    BY <1>1, <1>7
  <2> QED BY <1>1, <1>4, <1>7, <2>1 DEF n
<1>13. Size(cur') > Limit => LastLine' = g[m + 1] + 1
  <2>1. CASE line <= n
    BY <1>1, <1>4, <1>7, <2>1
  <2>2. CASE ~(line <= n)
    <3>1. line \in 1..n + 1 /\ n \in 0..n /\ line = n + 1 /\ line <= n + 1
      BY <1>1, <2>2 DEF n
    <3>2. cur' = LinesFrom(line, n)
      BY <1>4, <2>2
    <3>3. cur' = <<>>
      BY <1>1, <3>1, <3>2, NoLines DEF n
    <3> QED BY <3>3, PackAssumption DEF Size
  <2> QED BY <2>1, <2>2
<1>14. Ends(g)'
  <2>1. Size(cur)' = Size(cur')
    BY DEF Size
  <2> QED BY <1>2, <1>7, <1>8, <1>9, <1>10, <1>11, <1>12, <1>13, <2>1 DEF Ends, n
<1>15. PackTypeOK'
  BY <1>1 DEF PackTypeOK
<1>16. cur' \in Numbers
  <2>1. LastLine' \in Nat /\ line > 0 /\ LastLine' + 1 >= line
    BY <1>1, <1>4 DEF n
  <2> QED BY <1>1, <2>1, LinesSeq
<1> QED BY <1>7, <1>8, <1>14, <1>15, <1>16 DEF PackInv, n

\* What is left at the end is sent, if it is anything.
LEMMA RestStep ==
    ASSUME PackInv, PackRest
    PROVE  PackInv'
<1> DEFINE n == Len(lines)
<1>1. n \in Nat /\ PackTypeOK /\ lines' = lines /\ line = n + 1 /\ line' = line + 1 /\ cur' = <<>>
  BY DEF PackInv, PackTypeOK, PackRest
<1>2. LastLine = n /\ LastLine' = n
  BY <1>1 DEF LastLine
<1>3. LinesFrom(n + 1, n) = <<>>
  <2>1. n + 1 \in 1..n + 1 /\ n \in 0..n /\ n + 1 <= n + 1
    BY <1>1
  <2> QED BY <1>1, <2>1, NoLines
<1>4. CASE Size(cur) > 0
  <2>1. datagrams' = Append(datagrams, cur)
    BY <1>4 DEF PackRest
  <2>2. line \in 1..Len(lines) + 1 /\ ~(line <= Len(lines)) /\ cur' = LinesFrom(line, LastLine')
    BY <1>1, <1>2, <1>3
  <2> QED BY <1>1, <1>4, <2>1, <2>2, SendStep
<1>5. CASE ~(Size(cur) > 0)
  <2>1. PICK e \in [0..Len(datagrams) -> 0..Len(lines)] : Ends(e)
    BY DEF PackInv
  <2> DEFINE m == Len(datagrams)
  <2>2. m \in Nat /\ e[m] \in 0..n /\ cur = LinesFrom(e[m] + 1, n)
    <3>1. m \in Nat
      BY DEF PackInv
    <3> QED BY <1>2, <2>1, <3>1 DEF Ends
  <2>3. cur = <<>>
    <3>1. e[m] + 1 \in 1..n + 1 /\ n \in 0..n /\ e[m] + 1 <= n + 1
      BY <1>1, <2>2
    <3> HIDE DEF m
    <3>2. e[m] + 1 = n + 1
      BY <1>1, <1>5, <2>2, <3>1, NoLines
    <3> QED BY <1>3, <2>2, <3>2
  <2>4. datagrams' = datagrams /\ cur' = cur
    BY <1>1, <1>5, <2>3 DEF PackRest
  <2>5. Size(cur)' = Size(cur) /\ \A d : Size(d)' = Size(d)
    <3>1. \A d : Size(d)' = Size(d)
      BY <1>1, SizesStay
    <3> QED BY <1>1, <2>4, <3>1 DEF Size
  <2>6. Ends(e)'
    BY <1>1, <1>2, <2>1, <2>4, <2>5 DEF Ends
  <2>7. PackTypeOK'
    BY <1>1 DEF PackTypeOK
  <2> QED BY <1>1, <2>1, <2>4, <2>6, <2>7 DEF PackInv
<1> QED BY <1>4, <1>5

\* Every step keeps the datagrams in order.
LEMMA PackNextInv ==
    ASSUME PackInv, [PackNext]_packVars
    PROVE  PackInv'
<1>1. CASE PackLine /\ Full
  <2> DEFINE n == Len(lines)
  <2>1. n \in Nat /\ line \in 1..n /\ lines' = lines /\ line' = line + 1
    BY <1>1 DEF PackInv, PackTypeOK, PackLine
  <2>2. LastLine' = line
    BY <2>1 DEF LastLine
  <2>3. cur' = LinesFrom(line, LastLine')
    <3>1. line - 1 \in Nat /\ (line - 1) + 1 = line /\ 1 \in Nat \ {0} /\ 1 <= (line - 1) + 1
      BY <2>1
    <3>2. <<(line - 1) + 1>> = LinesFrom((line - 1) + 1, (line - 1) + 1)
      BY <3>1, OneMoreLine
    <3>3. cur' = <<line>>
      BY <1>1 DEF PackLine, WithLine
    <3> QED BY <2>2, <3>1, <3>2, <3>3
  <2>4. datagrams' = Append(datagrams, cur) /\ Size(cur) > 0 /\ Size(cur) + 1 + lines[line] > Limit
    BY <1>1 DEF PackLine, Full
  <2>5. line \in 1..Len(lines) + 1
    BY <2>1
  <2> QED BY <2>1, <2>3, <2>4, <2>5, SendStep
<1>2. CASE UNCHANGED packVars
  <2>1. UNCHANGED <<lines, line, cur, datagrams>>
    BY <1>2 DEF packVars
  <2>2. PackTypeOK' = PackTypeOK /\ \A e : Ends(e)' = Ends(e)
    BY <2>1 DEF PackTypeOK, Ends, Size, LastLine
  <2> QED BY <2>1, <2>2 DEF PackInv
<1> QED BY <1>1, <1>2, JoinStep, RestStep DEF PackNext, PackDone

-----------------------------------------------------------------------------
(* Datagrams: what holds.                                                  *)

\* The datagrams, the one being built included.
Sent == Append(datagrams, cur)

Flattens(f) == f = [i \in 1..Len(Sent) |-> IF i = 1 THEN Sent[i] ELSE f[i - 1] \o Sent[i]]

\* FlattenSeq by the library's definition, of a sequence that is not empty.
Flattened == (CHOOSE f : Flattens(f))[Len(Sent)]

\* Datagrams one after the other are all their lines.
LEMMA FlattenLines ==
    ASSUME NEW L \in Nat \ {0}, Len(Sent) = L, NEW e \in [0..L -> Nat], e[0] = 0,
           \A k \in 1..L : e[k - 1] <= e[k] /\ Sent[k] = LinesFrom(e[k - 1] + 1, e[k])
    PROVE  Flattened = LinesFrom(1, e[L])
<1> DEFINE h == [i \in 1..L |-> LinesFrom(1, e[i])]
           f == CHOOSE f : Flattens(f)
<1>1. ASSUME NEW i \in 1..L, i # 1 PROVE LinesFrom(1, e[i]) = LinesFrom(1, e[i - 1]) \o Sent[i]
  <2>1. i - 1 \in 0..L /\ i \in 0..L
    OBVIOUS
  <2>2. e[i - 1] \in Nat /\ e[i] \in Nat /\ e[i - 1] <= e[i] /\ Sent[i] = LinesFrom(e[i - 1] + 1, e[i])
    BY <2>1
  <2> DEFINE p == e[i - 1]
             q == e[i]
  <2>3. p \in Nat /\ q \in Nat /\ p <= q /\ 1 \in Nat \ {0} /\ 1 <= p + 1
    BY <2>2
  <2> HIDE DEF p, q
  <2>4. LinesFrom(1, p) \o LinesFrom(p + 1, q) = LinesFrom(1, q)
    BY ONLY <2>3, LinesJoined
  <2> QED BY <2>2, <2>4 DEF p, q
<1>2. Sent[1] = LinesFrom(1, e[1])
  <2>1. 1 \in 1..L /\ 1 - 1 = 0 /\ 0 + 1 = 1
    OBVIOUS
  <2> QED BY <2>1
<1>3. Flattens(h)
  <2>1. ASSUME NEW i \in 1..L
        PROVE  h[i] = IF i = 1 THEN Sent[i] ELSE h[i - 1] \o Sent[i]
    <3>1. CASE i = 1
      BY <1>2, <3>1
    <3>2. CASE i # 1
      <4>1. i - 1 \in 1..L
        BY <3>2
      <4>2. h[i] = LinesFrom(1, e[i]) /\ h[i - 1] = LinesFrom(1, e[i - 1])
        BY <4>1
      <4> QED BY <1>1, <3>2, <4>2
    <3> QED BY <3>1, <3>2
  <2>2. h = [i \in 1..L |-> h[i]]
    OBVIOUS
  <2> HIDE DEF h
  <2>3. [i \in 1..L |-> h[i]] = [i \in 1..L |-> IF i = 1 THEN Sent[i] ELSE h[i - 1] \o Sent[i]]
    BY ONLY <2>1, Zenon
  <2> QED BY ONLY <2>2, <2>3, Len(Sent) = L DEF Flattens
<1>4. Flattens(f)
  BY <1>3
<1> HIDE DEF h, f
<1> DEFINE G == {k \in 0..L : k # 0 => f[k] = h[k]}
<1>5. 0 \in G
  OBVIOUS
<1>6. ASSUME NEW k \in 0..L, k < L, k \in G PROVE k + 1 \in G
  <2>1. k + 1 \in 1..L /\ (k + 1) - 1 = k
    BY ONLY <1>6, L \in Nat
  <2>2. /\ f[k + 1] = IF k + 1 = 1 THEN Sent[k + 1] ELSE f[k] \o Sent[k + 1]
        /\ h[k + 1] = IF k + 1 = 1 THEN Sent[k + 1] ELSE h[k] \o Sent[k + 1]
    BY <1>3, <1>4, <2>1 DEF Flattens
  <2>3. k + 1 # 1 => f[k] = h[k]
    BY <1>6
  <2> QED BY <2>1, <2>2, <2>3
<1>7. f[L] = h[L]
  <2> HIDE DEF G
  <2>1. \A k \in 0..L : k \in G
    BY <1>5, <1>6, StepByStep
  <2>2. L \in G
    BY <2>1
  <2> QED BY <2>2 DEF G
<1>8. h[L] = LinesFrom(1, e[L])
  BY DEF h
<1> QED BY <1>7, <1>8 DEF f, Flattened

\* Every line so far is in one datagram, in its place.
LEMMA LinesInPlace ==
    ASSUME PackInv
    PROVE  /\ FlattenSeq(Append(datagrams, cur)) = [i \in 1..Min({line - 1, Len(lines)}) |-> i]
           /\ \A d \in Range(Append(datagrams, cur)) : Size(d) > Limit => Len(d) = 1
<1> DEFINE n == Len(lines)
           m == Len(datagrams)
           s == Sent
           last == LastLine
<1>1. n \in Nat /\ m \in Nat /\ line \in 1..n + 2 /\ PackTypeOK
  BY DEF PackInv, PackTypeOK
<1>2. PICK e \in [0..m -> 0..n] : Ends(e)
  BY DEF PackInv
<1>3. s \in Seq(Numbers) /\ Len(s) = m + 1 /\ (\A k \in 1..m : s[k] = datagrams[k]) /\ s[m + 1] = cur
  <2>1. datagrams \in Seq(Numbers) /\ cur \in Numbers
    BY DEF PackInv
  <2> QED BY ONLY <2>1, AppendProperties DEF Sent
<1>4. last \in 0..n /\ Min({line - 1, n}) = last
  <2>1. last = IF line > n THEN n ELSE line - 1
    BY DEF LastLine
  <2>2. last \in {line - 1, n} /\ \A y \in {line - 1, n} : last <= y
    BY <1>1, <2>1
  <2>3. \A x \in {line - 1, n} : (\A y \in {line - 1, n} : x <= y) => x = last
    BY <1>1, <2>1
  <2>4. Min({line - 1, n}) = last
    <3> HIDE DEF last, n
    <3> QED BY <2>2, <2>3 DEF Min
  <2> QED BY <1>1, <2>1, <2>4
<1>5. e[m] \in 0..n /\ e[m] <= last /\ cur = LinesFrom(e[m] + 1, last)
      /\ (Size(cur) > Limit => last = e[m] + 1)
  BY <1>1, <1>2 DEF Ends
<1>6. e[0] = 0 /\ (\A j, k \in 0..m : j < k => e[j] < e[k])
      /\ \A k \in 1..m : /\ datagrams[k] = LinesFrom(e[k - 1] + 1, e[k])
                         /\ Size(LinesFrom(e[k - 1] + 1, e[k])) > Limit => e[k] = e[k - 1] + 1
  BY <1>2 DEF Ends
<1> HIDE DEF n, m, s, last
<1>7. PICK g \in [0..m + 1 -> Nat] : (\A k \in 0..m : g[k] = e[k]) /\ g[m + 1] = last
  <2> DEFINE h == [k \in 0..m + 1 |-> IF k = m + 1 THEN last ELSE e[k]]
  <2>1. e \in [0..m -> 0..n]
    BY <1>2
  <2>2. h \in [0..m + 1 -> Nat] /\ h[m + 1] = last /\ \A k \in 0..m : h[k] = e[k]
    BY ONLY <1>1, <1>4, <2>1
  <2> QED BY <2>2
<1>8. ASSUME NEW k \in 1..m + 1
      PROVE  /\ g[k - 1] <= g[k] /\ s[k] = LinesFrom(g[k - 1] + 1, g[k])
             /\ Size(s[k]) > Limit => g[k] = g[k - 1] + 1
  <2>1. k \in 1..m \/ k = m + 1
    BY <1>1
  <2>2. CASE k \in 1..m
    <3>1. k \in 0..m /\ k - 1 \in 0..m /\ k - 1 < k
      BY <1>1, <2>2
    <3>2. g[k] = e[k] /\ g[k - 1] = e[k - 1] /\ e[k - 1] < e[k] /\ s[k] = datagrams[k]
      BY <1>3, <1>6, <1>7, <2>2, <3>1
    <3>3. e[k] \in 0..n /\ e[k - 1] \in 0..n
      BY <1>2, <3>1 DEF m, n
    <3>4. s[k] = LinesFrom(e[k - 1] + 1, e[k]) /\ (Size(s[k]) > Limit => e[k] = e[k - 1] + 1)
      BY <1>6, <2>2, <3>2
    <3>5. g[k - 1] <= g[k]
      BY <1>1, <3>2, <3>3
    <3> QED BY <3>2, <3>4, <3>5
  <2>3. CASE k = m + 1
    <3>1. m \in 0..m /\ k - 1 = m
      BY <1>1, <2>3
    <3>2. g[k] = last /\ g[k - 1] = e[m] /\ s[k] = cur
      BY <1>3, <1>7, <2>3, <3>1
    <3> QED BY <1>5, <3>2
  <2> QED BY <2>1, <2>2, <2>3
<1>9. FlattenSeq(s) = LinesFrom(1, last)
  <2> DEFINE L == m + 1
  <2>1. L \in Nat \ {0} /\ Len(s) = L /\ g \in [0..L -> Nat] /\ g[0] = 0 /\ g[L] = last
        /\ \A k \in 1..L : g[k - 1] <= g[k] /\ s[k] = LinesFrom(g[k - 1] + 1, g[k])
    BY <1>1, <1>3, <1>6, <1>7, <1>8
  <2> HIDE DEF L
  <2>2. Flattened = LinesFrom(1, g[L])
    BY ONLY <2>1, FlattenLines DEF s
  <2>3. FlattenSeq(s) = Flattened
    BY <1>1, <1>3 DEF FlattenSeq, Flattened, Flattens, s
  <2> QED BY <2>1, <2>2, <2>3
<1>10. LinesFrom(1, last) = [i \in 1..last |-> i]
  <2>1. last - 1 + 1 = last /\ \A i \in 1..last : 1 + i - 1 = i
    BY <1>1, <1>4
  <2> QED BY <2>1 DEF LinesFrom
<1>11. ASSUME NEW d \in Range(s), Size(d) > Limit PROVE Len(d) = 1
  <2>1. DOMAIN s = 1..m + 1
    BY <1>1, <1>3
  <2>2. PICK k \in 1..m + 1 : d = s[k]
    BY <2>1 DEF Range
  <2> DEFINE p == g[k - 1]
  <2>3. d = LinesFrom(p + 1, p + 1)
    BY <1>8, <1>11, <2>2
  <2>4. p \in Nat
    <3>1. k - 1 \in 0..m + 1
      BY <1>1
    <3> QED BY <1>7, <3>1
  <2> HIDE DEF p
  <2>5. p + 1 \in Nat /\ (p + 1) + 1 >= p + 1 /\ p + 1 > 0 /\ (p + 1) - (p + 1) + 1 = 1
    BY <2>4
  <2>6. Len(LinesFrom(p + 1, p + 1)) = (p + 1) - (p + 1) + 1
    BY ONLY <2>5, LinesSeq
  <2> QED BY <2>3, <2>5, <2>6
<1> QED BY <1>4, <1>9, <1>10, <1>11 DEF s, n, Sent

\* Where no datagram of a way to cut ends from one line to another, they are in one.
LEMMA UncutPiece ==
    ASSUME PackTypeOK, NEW cuts \in SUBSET (1..Len(lines) - 1),
           NEW a \in 1..Len(lines), NEW b \in a..Len(lines) - 1, \A k \in a..b : k \notin cuts
    PROVE  \E lo \in 1..a, hi \in b + 1..Len(lines) : Datagram(cuts, a) = LinesFrom(lo, hi)
<1> DEFINE n == Len(lines)
           from == {j \in 1..a : \A k \in j..(a - 1) : k \notin cuts}
           to == {j \in a..n : \A k \in a..(j - 1) : k \notin cuts}
<1>1. n \in Nat /\ a \in Nat /\ b \in Nat /\ 1 <= a /\ a <= b /\ b + 1 <= n
  BY DEF PackTypeOK
<1>2. PICK lo \in 1..a : from = lo..a
  <2>1. a \in from /\ from \in SUBSET Nat
    <3>1. a..(a - 1) = {}
      BY <1>1
    <3> QED BY <1>1, <3>1
  <2>2. PICK lo \in from : \A j \in from : lo <= j
    <3> HIDE DEF from
    <3> QED BY <2>1, LeastExists
  <2>3. lo \in 1..a /\ \A k \in lo..(a - 1) : k \notin cuts
    OBVIOUS
  <2>4. ASSUME NEW j \in lo..a PROVE j \in from
    <3>1. j \in 1..a /\ j..(a - 1) \subseteq lo..(a - 1)
      BY <1>1, <2>3
    <3> QED BY <2>3, <3>1
  <2>5. ASSUME NEW j \in from PROVE j \in lo..a
    BY <1>1, <2>2, <2>3
  <2> HIDE DEF from
  <2>6. from = lo..a
    BY <2>4, <2>5
  <2> QED BY <2>3, <2>6
<1>3. PICK hi \in b + 1..n : to = a..hi
  <2> DEFINE left == {n - j : j \in to}
  <2>1. b + 1 \in to
    <3>1. b + 1 \in a..n /\ (b + 1) - 1 = b
      BY <1>1
    <3> QED BY <3>1
  <2>2. left \in SUBSET Nat /\ left # {}
    BY <1>1, <2>1
  <2>3. PICK l \in left : \A j \in left : l <= j
    <3> HIDE DEF left
    <3> QED BY <2>2, LeastExists
  <2>4. PICK hi \in to : l = n - hi
    OBVIOUS
  <2>5. hi \in a..n /\ \A k \in a..(hi - 1) : k \notin cuts
    OBVIOUS
  <2>6. ASSUME NEW j \in to PROVE j \in a..hi
    <3>1. n - j \in left /\ j \in a..n
      OBVIOUS
    <3>2. n - hi <= n - j
      BY <2>3, <2>4, <3>1
    <3> QED BY ONLY <1>1, <2>5, <3>1, <3>2
  <2>7. ASSUME NEW j \in a..hi PROVE j \in to
    <3>1. j \in a..n /\ a..(j - 1) \subseteq a..(hi - 1)
      BY <1>1, <2>5
    <3> QED BY <2>5, <3>1
  <2>8. hi \in b + 1..n
    BY <1>1, <2>1, <2>5, <2>6
  <2> HIDE DEF to
  <2>9. to = a..hi
    BY <2>6, <2>7
  <2> QED BY <2>8, <2>9
<1>4. Cardinality(from) = a - lo + 1
  <2>1. Cardinality(lo..a) = a - lo + 1
    BY <1>1, FS_Interval
  <2> QED BY <1>2, <2>1
<1>5. Cardinality(to) = hi - a + 1
  <2>1. hi \in Nat /\ a <= hi
    BY <1>1
  <2>2. Cardinality(a..hi) = hi - a + 1
    BY <1>1, <2>1, FS_Interval
  <2> QED BY <1>3, <2>2
<1>6. Min(from) = lo
  <2> HIDE DEF from
  <2>1. lo \in from /\ \A y \in from : lo <= y
    BY <1>1, <1>2
  <2>2. \A x \in from : (\A y \in from : x <= y) => x = lo
    BY <1>1, <1>2
  <2> QED BY <2>1, <2>2 DEF Min
<1>7. Datagram(cuts, a) = LinesFrom(lo, hi)
  <2>1. (a - lo + 1) + (hi - a + 1) - 1 = hi - lo + 1
    BY <1>1
  <2>2. Datagram(cuts, a) = [x \in 1..(Cardinality(from) + Cardinality(to) - 1) |-> Min(from) + x - 1]
    BY DEF Datagram
  <2> HIDE DEF from, to
  <2> QED BY <1>4, <1>5, <1>6, <2>1, <2>2 DEF LinesFrom
<1> QED BY <1>7

\* Any way to cut the lines that keeps to the limit ends a datagram in each of those that
\* packLines sends, but for the last.
LEMMA CutInEach ==
    ASSUME PackTypeOK, NEW cuts \in SUBSET (1..Len(lines) - 1), Allowed(cuts),
           NEW a \in 1..Len(lines), NEW b \in a..Len(lines) - 1, Size(LinesFrom(a, b + 1)) > Limit
    PROVE  \E k \in a..b : k \in cuts
<1> SUFFICES ASSUME \A k \in a..b : k \notin cuts PROVE FALSE
  OBVIOUS
<1> DEFINE n == Len(lines)
<1>1. n \in Nat /\ a \in Nat /\ b \in Nat /\ 1 <= a /\ a <= b /\ b + 1 <= n
  BY DEF PackTypeOK
<1>2. PICK lo \in 1..a, hi \in b + 1..n : Datagram(cuts, a) = LinesFrom(lo, hi)
  BY UncutPiece
<1>3. /\ lo \in 1..n /\ hi \in lo..n /\ a \in 1..n /\ b + 1 \in a..n
      /\ lo - 1 \in 0..n /\ hi \in 0..n /\ a - 1 \in 0..n /\ b + 1 \in 0..n
      /\ lo - 1 <= a - 1 /\ b + 1 <= hi
  BY <1>1
<1> DEFINE s == Size(LinesFrom(lo, hi))
           t == Size(LinesFrom(a, b + 1))
           w == Before(lo - 1)
           x == Before(a - 1)
           y == Before(b + 1)
           z == Before(hi)
<1>4. s = z - w + (hi - lo) /\ s \in Nat
  BY <1>3, SizeOfLines
<1>5. t = y - x + (b + 1 - a) /\ t \in Nat
  BY <1>3, SizeOfLines
<1>6. w \in Nat /\ x \in Nat /\ y \in Nat /\ z \in Nat /\ w <= x /\ y <= z
  BY <1>3, BeforeGrows
<1>7. t > Limit
  OBVIOUS
<1>8. Size(Datagram(cuts, a)) <= Limit \/ Len(Datagram(cuts, a)) = 1
  <2>1. a \in DOMAIN lines
    BY DEF PackTypeOK
  <2> QED BY <2>1 DEF Allowed
<1>9. Len(LinesFrom(lo, hi)) = hi - lo + 1
  <2>1. lo \in Nat /\ hi \in Nat /\ hi + 1 >= lo /\ lo > 0
    BY <1>1
  <2> QED BY ONLY <2>1, LinesSeq
<1>10. s <= Limit
  BY <1>1, <1>2, <1>8, <1>9
<1> HIDE DEF s, t, w, x, y, z, n
<1>11. lo \in Nat /\ hi \in Nat /\ lo <= a /\ b + 1 <= hi
  BY <1>1, <1>3
<1>12. t <= s
  BY ONLY <1>1, <1>4, <1>5, <1>6, <1>11
<1> QED BY ONLY <1>4, <1>5, <1>7, <1>10, <1>12, PackAssumption

\* No way to cut the lines makes fewer datagrams.
LEMMA FewestDatagrams ==
    ASSUME PackInv, line = Len(lines) + 2, NEW cuts \in SUBSET (1..Len(lines) - 1), Allowed(cuts)
    PROVE  Len(datagrams) <= Cardinality(cuts) + (IF lines = <<>> THEN 0 ELSE 1)
<1> DEFINE n == Len(lines)
           m == Len(datagrams)
<1>1. n \in Nat /\ m \in Nat /\ PackTypeOK /\ (lines = <<>> <=> n = 0)
  <2>1. m \in Nat /\ n \in Nat /\ PackTypeOK
    BY DEF PackInv, PackTypeOK
  <2>2. n = 0 => lines = <<>>
    BY <2>1 DEF PackTypeOK
  <2>3. lines = <<>> => n = 0
    OBVIOUS
  <2> QED BY <2>1, <2>2, <2>3
<1>2. PICK e \in [0..m -> 0..n] : Ends(e)
  BY DEF PackInv
<1>3. /\ \A j, k \in 0..m : j < k => e[j] < e[k]
      /\ \A k \in 1..m : e[k] < n => Size(LinesFrom(e[k - 1] + 1, e[k] + 1)) > Limit
  BY <1>2 DEF Ends
<1>4. IsFiniteSet(cuts) /\ Cardinality(cuts) \in Nat
  <2>1. IsFiniteSet(1..n - 1)
    BY <1>1, FS_Interval
  <2>2. IsFiniteSet(cuts)
    BY <2>1, FS_Subset
  <2> QED BY <2>2, FS_CardinalityType
<1>5. CASE n = 0
  <2>1. m = 0
    <3>1. \A k \in 0..m : e[k] = 0
      BY <1>1, <1>5
    <3>2. m > 0 => 0 \in 0..m /\ 1 \in 0..m /\ 0 < 1
      BY <1>1
    <3> HIDE DEF m
    <3> QED BY <1>1, <1>3, <3>1, <3>2
  <2> QED BY <1>1, <1>4, <1>5, <2>1
<1>6. CASE n # 0 /\ m <= 1
  BY <1>1, <1>4, <1>6
<1>7. CASE n # 0 /\ m > 1
  <2> HIDE DEF n, m
  <2>1. ASSUME NEW k \in 1..m - 1 PROVE \E c \in e[k - 1] + 1..e[k] : c \in cuts
    <3>1. k \in 1..m /\ k \in 0..m /\ k - 1 \in 0..m /\ m \in 0..m /\ k - 1 < k /\ k < m
      BY <1>1
    <3>2. /\ e[k - 1] < e[k] /\ e[k] < e[m]
          /\ e[k - 1] \in 0..n /\ e[k] \in 0..n /\ e[m] \in 0..n
      BY <1>2, <1>3, <3>1 DEF m, n
    <3>3. e[k - 1] + 1 \in 1..n /\ e[k] \in e[k - 1] + 1..n - 1 /\ e[k] < n
      BY <1>1, <3>2
    <3>4. Size(LinesFrom(e[k - 1] + 1, e[k] + 1)) > Limit
      BY <1>3, <3>1, <3>3
    <3> DEFINE a == e[k - 1] + 1
               b == e[k]
    <3> HIDE DEF a, b
    <3>5. a \in 1..n /\ b \in a..n - 1 /\ Size(LinesFrom(a, b + 1)) > Limit
      BY <3>3, <3>4 DEF a, b
    <3>6. \E c \in a..b : c \in cuts
      BY <1>1, <3>5, CutInEach DEF n
    <3> QED BY <3>6 DEF a, b
  <2> DEFINE f == [k \in 1..m - 1 |-> CHOOSE c \in e[k - 1] + 1..e[k] : c \in cuts]
  <2>2. ASSUME NEW k \in 1..m - 1
        PROVE  f[k] \in e[k - 1] + 1..e[k] /\ f[k] \in cuts
    BY <2>1
  <2> HIDE DEF f
  <2>3. ASSUME NEW j \in 1..m - 1, NEW k \in 1..m - 1, j < k PROVE f[j] # f[k]
    <3>1. j \in 0..m /\ k - 1 \in 0..m /\ (j < k - 1 \/ j = k - 1)
      BY <1>1, <2>3
    <3>2. e[j] <= e[k - 1] /\ e[j] \in 0..n /\ e[k - 1] \in 0..n
      <4>1. e[j] \in 0..n /\ e[k - 1] \in 0..n
        BY <1>2, <3>1 DEF m, n
      <4>2. j < k - 1 => e[j] < e[k - 1]
        BY <1>3, <3>1 DEF m
      <4>3. j = k - 1 => e[j] = e[k - 1]
        OBVIOUS
      <4> QED BY <1>1, <3>1, <4>1, <4>2, <4>3
    <3>3. f[j] <= e[j] /\ f[k] >= e[k - 1] + 1 /\ f[j] \in Int /\ f[k] \in Int
      BY <2>2, <2>3
    <3> QED BY <1>1, <3>2, <3>3
  <2>4. f \in Injection(1..m - 1, cuts)
    <3>1. f \in [1..m - 1 -> cuts]
      BY <2>2 DEF f
    <3>2. \A j, k \in 1..m - 1 : f[j] = f[k] => j = k
      <4>1. \A j, k \in 1..m - 1 : j < k \/ k < j \/ j = k
        BY <1>1
      <4> QED BY <2>3, <4>1
    <3> QED BY <3>1, <3>2 DEF Injection, IsInjective
  <2>5. Cardinality(1..m - 1) <= Cardinality(cuts)
    BY <1>4, <2>4, FS_Injection
  <2>6. Cardinality(1..m - 1) = m - 1
    BY <1>1, <1>7, FS_Interval
  <2>7. m <= Cardinality(cuts) + 1
    BY <1>1, <1>4, <2>5, <2>6
  <2> QED BY <1>1, <1>7, <2>7 DEF m
<1> QED BY <1>1, <1>5, <1>6, <1>7

\* packLines loses no line, keeps to the limit where a line allows it, and sends as few
\* datagrams as can be, for lines of any number and lengths and any limit (serve.go:206-208).
THEOREM NoDatagramWasted == PackSpec => []PackedTightly
<1>1. PackInit => PackInv
  BY PackInitInv
<1>2. PackInv /\ [PackNext]_packVars => PackInv'
  BY PackNextInv
<1>3. PackInv => PackedTightly
  BY LinesInPlace, FewestDatagrams DEF PackedTightly
<1> QED BY <1>1, <1>2, <1>3, PTL DEF PackSpec
=============================================================================
