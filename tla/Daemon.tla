------------------------------- MODULE Daemon -------------------------------
(***************************************************************************)
(* serve as a process: RunServe's loop, the goroutine of its HTTP server,  *)
(* the ticker, the signal, and health requests answered while commands set *)
(* decap up and tear it down.  What a tick samples is Serve.tla's.         *)
(***************************************************************************)
EXTENDS Naturals

CONSTANTS
    Request,       \* health requests
    MaxChanges     \* bound on changes of decap's link and of the uplink

ASSUME DaemonAssumption == MaxChanges \in Nat

VARIABLES
    signalled,  \* ctx is cancelled
    interval,   \* --interval > 0
    tick,       \* whether the ticker's channel, of capacity 1, holds a tick
    loop,       \* where RunServe is
    expired,    \* whether Shutdown's five seconds are over
    result,     \* what RunServe returned
    server,     \* "new", "listening", "failed", "closed"
    goroutine,  \* "serve", "send", "done"
    srvErr,     \* the channel: "none", "nil" or "error"
    req,        \* where each request is, and at last its answer
    decap,      \* whether decap's link is pinned and attached
    uplink,     \* which of "up" and "carrier" hold of the interface
    changes,
    seen        \* Ghost, by request: the <<decap, uplink>> it was in progress in

loopVars == <<signalled, interval, tick, loop, expired, result>>
serverVars == <<server, goroutine, srvErr>>
requestVars == <<req, seen>>
hostVars == <<decap, uplink, changes>>
daemonVars == <<signalled, interval, tick, loop, expired, result, server, goroutine, srvErr,
          req, seen, decap, uplink, changes>>

Flags == {"up", "carrier"}

DaemonInit ==
    /\ signalled = FALSE /\ interval \in BOOLEAN /\ tick = FALSE
    /\ loop = "dial" /\ expired = FALSE /\ result = "none"
    /\ server = "new" /\ goroutine = "none" /\ srvErr = "none"
    /\ req = [r \in Request |-> "none"] /\ seen = [r \in Request |-> {}]
    /\ decap \in BOOLEAN /\ uplink \in SUBSET Flags /\ changes = 0

-----------------------------------------------------------------------------
(* The loop.                                                               *)

Signal ==
    /\ ~signalled /\ signalled' = TRUE
    /\ UNCHANGED <<interval, tick, loop, expired, result, serverVars, requestVars, hostVars>>

\* statsd is dialled only with an interval.
Dial ==
    /\ loop = "dial"
    /\ \/ loop' = "select" /\ goroutine' = "serve" /\ UNCHANGED result
       \/ interval /\ loop' = "returned" /\ result' = "dial" /\ UNCHANGED goroutine
    /\ UNCHANGED <<signalled, interval, tick, expired, server, srvErr, requestVars, hostVars>>

\* A tick that finds the channel full is dropped.
Ticker ==
    /\ interval /\ ~tick /\ loop \in {"select", "flush", "shutdown"}
    /\ tick' = TRUE
    /\ UNCHANGED <<signalled, interval, loop, expired, result, serverVars, requestVars, hostVars>>

\* flushCounters; its error is only logged.
Flush ==
    /\ loop = "select" /\ tick
    /\ tick' = FALSE /\ loop' = "flush"
    /\ UNCHANGED <<signalled, interval, expired, result, serverVars, requestVars, hostVars>>

Flushed ==
    /\ loop = "flush" /\ loop' = "select"
    /\ UNCHANGED <<signalled, interval, tick, expired, result, serverVars, requestVars, hostVars>>

\* Shutdown closes the listener and waits for the requests in progress.
Shutdown ==
    /\ loop = "select" /\ signalled
    /\ loop' = "shutdown"
    /\ server' = IF server = "failed" THEN server ELSE "closed"
    /\ UNCHANGED <<signalled, interval, tick, expired, result, goroutine, srvErr,
                   requestVars, hostVars>>

Expire ==
    /\ loop = "shutdown" /\ ~expired
    /\ expired' = TRUE
    /\ UNCHANGED <<signalled, interval, tick, loop, result, serverVars, requestVars, hostVars>>

InProgress == {r \in Request : req[r] \in {"link", "state"}}

\* Mutants: Shutdown has no deadline; the loop goes on after it.
NoDeadline == FALSE
Deadline == expired
SelectAgain == "select"
AfterShutdown == "returned"

ShutdownReturns ==
    /\ loop = "shutdown"
    /\ \/ InProgress = {} /\ result' = "nil"
       \/ Deadline /\ result' = "deadline"
    /\ loop' = AfterShutdown
    /\ UNCHANGED <<signalled, interval, tick, expired, serverVars, requestVars, hostVars>>

ServerErr ==
    /\ loop = "select" /\ srvErr # "none"
    /\ srvErr' = "none"
    /\ loop' = "returned" /\ result' = "error"
    /\ UNCHANGED <<signalled, interval, tick, expired, server, goroutine, requestVars, hostVars>>

LoopStep ==
    \/ Dial \/ Flush \/ Flushed \/ Shutdown \/ Expire \/ ShutdownReturns \/ ServerErr

-----------------------------------------------------------------------------
(* The server's goroutine.                                                 *)

Listen ==
    /\ goroutine = "serve" /\ server = "new"
    /\ server' = "listening"
    /\ UNCHANGED <<loopVars, goroutine, srvErr, requestVars, hostVars>>

\* The address is taken, or accepting fails.
ServerFails ==
    /\ goroutine = "serve" /\ server \in {"new", "listening"}
    /\ server' = "failed" /\ goroutine' = "send"
    /\ UNCHANGED <<loopVars, srvErr, requestVars, hostVars>>

\* ErrServerClosed, whether Shutdown came before or after Listen.
ServerCloses ==
    /\ goroutine = "serve" /\ server = "closed"
    /\ goroutine' = "send"
    /\ UNCHANGED <<loopVars, server, srvErr, requestVars, hostVars>>

\* Mutant: the channel has no buffer.
Unbuffered == loop = "select"
HasRoom == srvErr = "none"
SentErr == IF server = "closed" THEN "nil" ELSE "error"

Send ==
    /\ goroutine = "send"
    /\ HasRoom
    /\ srvErr' = SentErr
    /\ goroutine' = "done"
    /\ UNCHANGED <<loopVars, server, requestVars, hostVars>>

GoroutineStep == Listen \/ ServerFails \/ ServerCloses \/ Send

-----------------------------------------------------------------------------
(* Health requests: checkHealth.                                           *)

Moves(r, from, to) ==
    /\ req[r] = from
    /\ req' = [req EXCEPT ![r] = to]

Arrive(r) ==
    /\ server = "listening" /\ loop # "returned"
    /\ Moves(r, "none", "link")
    /\ seen' = [seen EXCEPT ![r] = {<<decap, uplink>>}]
    /\ UNCHANGED <<loopVars, serverVars, hostVars>>

\* UplinkIfindex: decap's pinned link.
ReadLink(r) ==
    /\ Moves(r, "link", IF decap THEN "state" ELSE "503")
    /\ UNCHANGED <<loopVars, serverVars, seen, hostVars>>

\* Mutant: carrier is not looked at.
UpOnly == "up" \in uplink
IsUp == uplink = Flags

\* LinkByIndex: the interface's flags.
ReadState(r) ==
    /\ Moves(r, "state", IF IsUp THEN "200" ELSE "503")
    /\ UNCHANGED <<loopVars, serverVars, seen, hostVars>>

\* setup and teardown attach and detach decap, and the uplink goes up and down.
HostChanges ==
    /\ changes < MaxChanges /\ changes' = changes + 1
    /\ \/ decap' = ~decap /\ UNCHANGED uplink
       \/ uplink' \in SUBSET Flags \ {uplink} /\ UNCHANGED decap
    /\ seen' = [r \in Request |->
                    IF r \in InProgress THEN seen[r] \cup {<<decap', uplink'>>} ELSE seen[r]]
    /\ UNCHANGED <<loopVars, serverVars, req>>

-----------------------------------------------------------------------------
DaemonNext ==
    \/ Signal \/ Ticker \/ LoopStep \/ GoroutineStep \/ HostChanges
    \/ \E r \in Request : Arrive(r) \/ ReadLink(r) \/ ReadState(r)

\* select picks among the ready cases at random, so none is passed over for ever;
\* goroutines run; clients may take for ever.
Fairness ==
    /\ WF_daemonVars(LoopStep) /\ SF_daemonVars(Shutdown) /\ SF_daemonVars(ServerErr)
    /\ WF_daemonVars(ServerCloses) /\ WF_daemonVars(Send)

DaemonSpec == DaemonInit /\ [][DaemonNext]_daemonVars
FairDaemonSpec == DaemonSpec /\ Fairness

-----------------------------------------------------------------------------
DaemonTypeOK ==
    /\ signalled \in BOOLEAN /\ interval \in BOOLEAN /\ tick \in BOOLEAN
    /\ loop \in {"dial", "select", "flush", "shutdown", "returned"}
    /\ expired \in BOOLEAN
    /\ result \in {"none", "dial", "nil", "deadline", "error"}
    /\ result # "none" <=> loop = "returned"
    /\ server \in {"new", "listening", "failed", "closed"}
    /\ goroutine \in {"none", "serve", "send", "done"}
    /\ srvErr \in {"none", "nil", "error"}
    /\ req \in [Request -> {"none", "link", "state", "200", "503"}]
    /\ seen \in [Request -> SUBSET (BOOLEAN \X SUBSET Flags)]
    /\ decap \in BOOLEAN /\ uplink \subseteq Flags /\ changes \in Nat

\* What serve says is true.  It returns that its server failed only if it did: the nil
\* that the closed server's goroutine sends is never taken for a failure (RunServe).
\* A health answer holds of the time the request took: 200 only if decap was attached
\* and the uplink was up with carrier at some moment of it, 503 only if one of them
\* was not (checkHealth).
ServeTruthful ==
    /\ result = "error" => server = "failed"
    /\ \A r \in Request :
        /\ req[r] = "200" => /\ \E s \in seen[r] : s[1]
                             /\ \E s \in seen[r] : s[2] = Flags
        /\ req[r] = "503" => \E s \in seen[r] : s # <<TRUE, Flags>>

\* The inductive invariant: Shutdown is RunServe's last wait, a server sends only when it
\* has ended, and a request in progress has seen the host as it is.
DaemonInv ==
    /\ DaemonTypeOK /\ ServeTruthful
    /\ server = "closed" => loop \in {"shutdown", "returned"}
    /\ goroutine = "send" \/ srvErr # "none" => server \in {"failed", "closed"}
    /\ \A r \in InProgress :
        /\ <<decap, uplink>> \in seen[r]
        /\ req[r] = "state" => \E s \in seen[r] : s[1]

\* A signal ends serve, and so does a server that fails, whatever ticks and clients
\* do (serve.go RunServe).
ServeEnds == signalled \/ server = "failed" ~> loop = "returned"

\* The goroutine ends even when nobody waits for its error any more.
GoroutineEnds == server \in {"failed", "closed"} ~> goroutine = "done"
=============================================================================
