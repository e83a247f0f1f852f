------------------------------- MODULE Netns --------------------------------
(***************************************************************************)
(* Switching network namespaces: a network namespace belongs to an OS      *)
(* thread, and the Go runtime runs goroutines on whichever thread is free. *)
(* One add creates its endpoint's netns with CreateNamedNetns and then     *)
(* enters it with WithNetns, both through withLockedOSThread; any system   *)
(* call on the way may fail.                                               *)
(***************************************************************************)
EXTENDS Naturals

CONSTANTS
    Thread,        \* OS threads of the process
    MaxCalls       \* bound on the calls of WithNetns

ASSUME NetnsAssumption ==
    MaxCalls \in Nat

VARIABLES
    ns,         \* the network namespace each thread is in
    locked,     \* threads with a goroutine locked to them
    thread,     \* the thread add's goroutine runs on
    at,
    fn,         \* what the call in progress does: "create" or "enter"
    fnErr,      \* whether fn returned an error
    err,        \* whether withLockedOSThread returned one
    newns,      \* the NsHandle: "zero", "none" or "open"
    named,      \* whose netns /run/netns/<vpce> is: "nobody", "other" or "own"
    calls,
    \* Ghosts.
    before,     \* named when add began
    leaked      \* whether DeleteNamed failed

netnsVars == <<ns, locked, thread, at, fn, fnErr, err, newns, named, calls, before, leaked>>

NetnsInit ==
    /\ ns = [t \in Thread |-> "root"]
    /\ locked = {}
    /\ thread \in Thread
    /\ at = "begin" /\ fn = "create" /\ fnErr = FALSE /\ err = FALSE
    /\ newns = "zero"
    /\ named \in {"nobody", "other"} /\ before = named
    /\ calls = 0 /\ leaked = FALSE

\* The runtime moves a goroutine that is not locked to its thread to any other
\* thread that no goroutine is locked to.
Reschedule ==
    /\ thread \notin locked
    /\ thread' \in Thread \ locked
    /\ UNCHANGED <<ns, locked, at, fn, fnErr, err, newns, named, calls, before, leaked>>

-----------------------------------------------------------------------------
(* withLockedOSThread.                                                     *)

LockOSThread ==
    /\ at = "begin"
    /\ locked' = locked \cup {thread}
    /\ at' = "get"
    /\ UNCHANGED <<ns, thread, fn, fnErr, err, newns, named, calls, before, leaked>>

\* netns.Get fails: fn never runs.
Get ==
    /\ at = "get"
    /\ \/ at' = "fn" /\ UNCHANGED <<locked, err>>
       \/ at' = "end" /\ err' = TRUE /\ locked' = locked \ {thread}
    /\ UNCHANGED <<ns, thread, fn, fnErr, newns, named, calls, before, leaked>>

\* netns.NewNamed unshares and then takes the name, which fails if it is taken:
\* an error may leave the thread in the unnamed netns.
NewNamed ==
    /\ at = "fn" /\ fn = "create"
    /\ \/ /\ named = "nobody"
          /\ ns' = [ns EXCEPT ![thread] = "endpoint"]
          /\ named' = "own" /\ newns' = "open" /\ fnErr' = FALSE
       \/ /\ \/ ns' = [ns EXCEPT ![thread] = "endpoint"]
             \/ UNCHANGED ns
          /\ newns' = "none" /\ fnErr' = TRUE
          /\ UNCHANGED named
    /\ at' = "restore"
    /\ UNCHANGED <<locked, thread, fn, err, calls, before, leaked>>

\* WithNetns: netns.Set, then what the caller wants done there.
Enter ==
    /\ at = "fn" /\ fn = "enter"
    /\ \/ ns' = [ns EXCEPT ![thread] = "endpoint"] /\ fnErr' \in BOOLEAN
       \/ UNCHANGED ns /\ fnErr' = TRUE
    /\ at' = "restore"
    /\ UNCHANGED <<locked, thread, fn, err, newns, named, calls, before, leaked>>

\* Mutants: the thread is unlocked, or only fn's error returned, whether or not
\* its netns was restored.
Kept == {}
Swallowed == fnErr
Abandoned == {thread}
RestoreErr == TRUE

\* netns.Set(orig): a thread that cannot be restored stays locked, and is destroyed
\* with its goroutine.
Restore ==
    /\ at = "restore"
    /\ \/ /\ ns' = [ns EXCEPT ![thread] = "root"]
          /\ locked' = locked \ {thread}
          /\ err' = fnErr
       \/ /\ locked' = (locked \ {thread}) \cup Abandoned
          /\ err' = RestoreErr
          /\ UNCHANGED ns
    /\ at' = "end"
    /\ UNCHANGED <<thread, fn, fnErr, newns, named, calls, before, leaked>>

-----------------------------------------------------------------------------
(* What is done with the error.                                            *)

\* NsHandle.IsOpen: any value but that of netns.None().
IsOpen == newns # "none"

\* Mutant: the netns is left to whoever calls.
NothingToUndo == FALSE
UndoesCreate == err /\ IsOpen

\* DeleteNamed succeeds, or fails.
CreateReturns ==
    /\ at = "end" /\ fn = "create"
    /\ \/ UndoesCreate /\ named' = "nobody" /\ UNCHANGED leaked
       \/ UndoesCreate /\ leaked' = TRUE /\ UNCHANGED named
       \/ ~UndoesCreate /\ UNCHANGED <<named, leaked>>
    /\ at' = IF err THEN "failed" ELSE "ready"
    /\ UNCHANGED <<ns, locked, thread, fn, fnErr, err, newns, calls, before>>

EnterReturns ==
    /\ at = "end" /\ fn = "enter"
    /\ at' = IF err THEN "failed" ELSE "ready"
    /\ UNCHANGED <<ns, locked, thread, fn, fnErr, err, newns, named, calls, before, leaked>>

\* The next WithNetns of RunAdd.
CallEnter ==
    /\ at = "ready" /\ calls < MaxCalls
    /\ calls' = calls + 1
    /\ at' = "begin" /\ fn' = "enter"
    /\ UNCHANGED <<ns, locked, thread, fnErr, err, newns, named, before, leaked>>

NetnsNext ==
    \/ Reschedule \/ LockOSThread \/ Get \/ NewNamed \/ Enter \/ Restore
    \/ CreateReturns \/ EnterReturns \/ CallEnter

NetnsSpec == NetnsInit /\ [][NetnsNext]_netnsVars

-----------------------------------------------------------------------------
NetnsTypeOK ==
    /\ ns \in [Thread -> {"root", "endpoint"}]
    /\ locked \subseteq Thread /\ thread \in Thread
    /\ at \in {"begin", "get", "fn", "restore", "end", "ready", "failed"}
    /\ fn \in {"create", "enter"} /\ fnErr \in BOOLEAN /\ err \in BOOLEAN
    /\ newns \in {"zero", "none", "open"}
    /\ named \in {"nobody", "other", "own"} /\ before \in {"nobody", "other"}
    /\ calls \in 0..MaxCalls /\ leaked \in BOOLEAN

\* No goroutine ever runs on a thread that was left in an endpoint's netns: the
\* threads none is locked to are in the root netns (utils.go withLockedOSThread).
PoolInRoot == \A t \in Thread \ locked : ns[t] = "root"

\* add goes on only in the root netns: a thread stuck in another one is an error,
\* even where fn succeeded (utils.go withLockedOSThread).
StuckIsReported == at = "ready" => ns[thread] = "root" /\ thread \notin locked

\* CreateNamedNetns makes a named netns or leaves none behind, even where the netns
\* was made and the thread could not leave it (utils.go CreateNamedNetns).
CreatedOrNothing ==
    /\ at = "ready" => named = "own"
    /\ at = "failed" /\ fn = "create" /\ ~leaked => named # "own"

\* A netns by the endpoint's name that was there before is left alone (add.go
\* RunAdd, on its rollback).
ExistingNetnsSpared == before = "other" => named = "other"

\* Why no thread is lost: outside a call, and until fn runs, add's thread is in the
\* root netns, unless the call failed and left it locked.
NetnsInv ==
    /\ NetnsTypeOK
    /\ PoolInRoot
    /\ at \in {"get", "fn", "restore"} => thread \in locked
    /\ at \in {"get", "fn"} => ns[thread] = "root"
    /\ at \in {"begin", "ready"} \/ (at = "end" /\ ~err) =>
           thread \notin locked /\ ns[thread] = "root"
    /\ fn = "enter" \/ at = "ready" => named = "own"
    /\ at = "restore" /\ fn = "create" =>
           IF fnErr THEN named # "own" ELSE named = "own" /\ newns = "open"
    /\ at = "end" /\ fn = "create" =>
           IF err THEN named = "own" => newns = "open" ELSE named = "own"
    /\ at \in {"begin", "get", "fn"} /\ fn = "create" => named # "own"
    /\ at = "failed" /\ fn = "create" /\ ~leaked => named # "own"
=============================================================================
