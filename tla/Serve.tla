------------------------------- MODULE Serve --------------------------------
(***************************************************************************)
(* serve's metrics push: every interval flushCounters samples the metrics  *)
(* map by key iteration, while packets are counted into it and removes     *)
(* sweep it, and pushes what each row grew since the last sample.          *)
(***************************************************************************)
EXTENDS Counters, Integers

CONSTANTS
    MaxSteps,      \* keys after which the iterator gives up: the entries metrics has
                   \* room for, of all counters, many of which have no row
    MaxFailures    \* bound on failed samples

ASSUME ServeAssumption ==
    /\ MaxSteps \in Nat /\ MaxFailures \in Nat /\ Capacity <= MaxSteps
    /\ None \notin [Ifindex -> Nat]

VARIABLES
    pc,         \* where serve is
    prev,       \* the previous sample, None before the first
    cur,        \* the sample being taken
    cursor,     \* the key the iterator is at, None before the first
    steps,      \* keys the iterator has been given
    labels,     \* ifindex to tags
    failures,
    \* Ghosts.
    pushed,     \* growth put into datagrams, sent or not, by tag
    base,       \* the uplink's packets in the first sample
    overlapped  \* whether a row was swept while a sample was taken

serveVars == <<pc, prev, cur, cursor, steps, labels, failures, pushed, base,
               overlapped>>
vars == <<counterVars, serveVars>>

Nothing == [i \in Ifindex |-> 0]
NoLabels == [i \in Ifindex |-> None]

Init ==
    /\ CountersInit
    /\ pc = "select"
    /\ prev = None
    /\ cur = Nothing
    /\ cursor = None
    /\ steps = 0
    /\ labels = NoLabels
    /\ failures = 0
    /\ pushed = [n \in Name |-> 0]
    /\ base = 0
    /\ overlapped = FALSE

First(S) == CHOOSE i \in S : \A j \in S : i <= j

\* Get-next-key of a hash map: from a key that has been deleted since, it starts
\* over at the first bucket.
After(k) ==
    IF k # None /\ rows[k] # None THEN {i \in Rows(rows) : i > k} ELSE Rows(rows)

\* Mutants: a failed sample is kept; the next one is a first one again.
CurAsPrev == cur
NilPrev == None

\* prev stays when a sample fails, so that the next one covers the gap.
KeptPrev == prev

Idle == /\ pc' = "select" /\ cur' = Nothing /\ cursor' = None /\ steps' = 0 /\ labels' = NoLabels

Fail ==
    /\ failures < MaxFailures
    /\ failures' = failures + 1
    /\ prev' = KeptPrev
    /\ Idle
    /\ UNCHANGED <<counterVars, pushed, base, overlapped>>

-----------------------------------------------------------------------------
\* The ticker fires, and Metrics() opens the map.
Tick ==
    /\ pc = "select"
    /\ pc' = "next"
    /\ UNCHANGED <<counterVars, prev, cur, cursor, steps, labels, failures, pushed, base, overlapped>>

\* The iterator gives up after more keys than the map can hold.
SampleAborted ==
    /\ pc = "next"
    /\ steps > MaxSteps
    /\ prev' = KeptPrev
    /\ Idle
    /\ UNCHANGED <<counterVars, failures, pushed, base, overlapped>>

SampleNext ==
    /\ pc = "next"
    /\ steps <= MaxSteps
    /\ After(cursor) # {}
    /\ cursor' = First(After(cursor))
    /\ steps' = steps + 1
    /\ pc' = "read"
    /\ UNCHANGED <<counterVars, prev, cur, labels, failures, pushed, base, overlapped>>

\* A row deleted since get-next-key returned it is passed over.
SampleRead ==
    /\ pc = "read"
    /\ cur' = [cur EXCEPT ![cursor] = @ + Total(rows, cursor)]
    /\ pc' = "next"
    /\ UNCHANGED <<counterVars, prev, cursor, steps, labels, failures, pushed,
                   base, overlapped>>

\* The first sample is only the baseline.
SampleEnd ==
    /\ pc = "next"
    /\ steps <= MaxSteps
    /\ After(cursor) = {}
    /\ \/ /\ prev = None
          /\ prev' = cur /\ base' = cur[Uplink]
          /\ Idle
       \/ /\ prev # None
          /\ pc' = "label"
          /\ UNCHANGED <<prev, cur, cursor, steps, labels, base>>
    /\ UNCHANGED <<counterVars, failures, pushed, overlapped>>

SampleFails == pc \in {"next", "read", "label"} /\ Fail

\* interfaceTags: the interfaces of this moment.
Label ==
    /\ pc = "label"
    /\ labels' = iface
    /\ pc' = "push"
    /\ UNCHANGED <<counterVars, prev, cur, cursor, steps, failures, pushed,
                   base, overlapped>>

\* Mutant: the total is pushed.
WholeValue(i) == cur[i]

\* What the row grew; a row that went down is new, and all of it is growth.
Growth(i) == IF cur[i] >= prev[i] THEN cur[i] - prev[i] ELSE cur[i]

PushedGrowth ==
    [n \in Name |-> pushed[n] + SumFunctionOnSet([i \in Ifindex |-> Growth(i)],
                                                 {i \in Ifindex : labels[i] = n})]

\* Rows without an interface are skipped.  A datagram that cannot be written is
\* noted, and the sample stands all the same.
Push ==
    /\ pc = "push"
    /\ pushed' = PushedGrowth
    /\ prev' = cur
    /\ Idle
    /\ UNCHANGED <<counterVars, failures, base, overlapped>>

-----------------------------------------------------------------------------
Sampling == pc # "select"

ServeStep ==
    \/ Tick \/ SampleAborted \/ SampleNext \/ SampleRead \/ SampleEnd \/ SampleFails
    \/ Label \/ Push

HostStep ==
    /\ Packets \/ Endpoints
    /\ overlapped' = (overlapped \/ (Sampling /\ ~(Rows(rows) \subseteq Rows(rows'))))
    /\ UNCHANGED <<pc, prev, cur, cursor, steps, labels, failures, pushed, base>>

Next == ServeStep \/ HostStep

Spec == Init /\ [][Next]_vars

\* The ticker keeps firing, and a run of a BPF program ends.
FairSpec == Spec /\ WF_vars(ServeStep)

-----------------------------------------------------------------------------
\* What is pushed under an interface's tag was counted on that interface, and is
\* pushed once, through failed samples, rows swept and made again between samples
\* and ifindexes that change owner; as long as no sweep overlapped a sample, and
\* no sweep was missed (serve.go flushCounters).
NothingOverReported ==
    ~overlapped /\ ~missed => \A n \in Name : pushed[n] <= counted[n]

\* For an interface that stays, every packet since the first sample is put into
\* a datagram: a failed sample loses nothing (serve.go flushCounters).
UplinkExact ==
    ~overlapped /\ prev # None =>
        base + pushed["uplink"] = prev[Uplink]

\* Once packets stop, all of the uplink's get pushed, unless a sweep fell into a sample
\* (serve.go flushCounters).
EventuallyPushed ==
    <>[](overlapped \/ base + pushed["uplink"] = counted["uplink"])
=============================================================================
