----------------------------- MODULE PackLines -----------------------------
(***************************************************************************)
(* packLines (cmd/serve.go): serve's counter lines, joined with newlines   *)
(* into datagrams of at most max bytes.  A line is its length; a datagram  *)
(* is the sequence of the numbers of its lines.                            *)
(***************************************************************************)
EXTENDS Naturals, Sequences, SequencesExt, Functions

CONSTANTS
    MaxLines,   \* how many lines one interface's counters make, at most
    MaxLength,  \* of a line
    Limit       \* of a datagram (maxStatsdDatagram)

ASSUME PackAssumption == MaxLines \in Nat /\ MaxLength \in Nat /\ Limit \in Nat

VARIABLES
    lines,      \* the lengths of the lines
    line,       \* the number of the line the loop is at
    cur,        \* the datagram being built
    datagrams   \* the ones that are complete

packVars == <<lines, line, cur, datagrams>>

\* The bytes of a datagram: its lines and a newline between each two.
Size(datagram) ==
    IF datagram = <<>> THEN 0
    ELSE SumFunction([i \in DOMAIN datagram |-> lines[datagram[i]]]) + Len(datagram) - 1

PackInit ==
    /\ lines \in BoundedSeq(1..MaxLength, MaxLines)
    /\ line = 1
    /\ cur = <<>>
    /\ datagrams = <<>>

\* A mutant: a datagram of exactly the limit is not sent.
OffByOne == Size(cur) > 0 /\ Size(cur) + 1 + lines[line] >= Limit

Full == Size(cur) > 0 /\ Size(cur) + 1 + lines[line] > Limit

WithLine == IF Full THEN <<line>> ELSE Append(cur, line)

\* One iteration of the loop.
PackLine ==
    /\ line <= Len(lines)
    /\ datagrams' = IF Full THEN Append(datagrams, cur) ELSE datagrams
    /\ cur' = WithLine
    /\ line' = line + 1
    /\ UNCHANGED lines

\* What is left after the loop goes out as well.
PackRest ==
    /\ line = Len(lines) + 1
    /\ datagrams' = IF Size(cur) > 0 THEN Append(datagrams, cur) ELSE datagrams
    /\ cur' = <<>>
    /\ line' = line + 1
    /\ UNCHANGED lines

PackDone == line = Len(lines) + 2 /\ UNCHANGED packVars

PackNext == PackLine \/ PackRest \/ PackDone
PackSpec == PackInit /\ [][PackNext]_packVars

----------------------------------------------------------------------------
(* Properties                                                              *)

\* A way to cut the lines: the set of the lines after which a datagram ends.
Datagram(cuts, i) ==
    LET last == Len(lines)
        from == {j \in 1..i : \A k \in j..(i - 1) : k \notin cuts}
        to == {j \in i..last : \A k \in i..(j - 1) : k \notin cuts}
    IN  [n \in 1..(Cardinality(from) + Cardinality(to) - 1) |-> Min(from) + n - 1]
Allowed(cuts) ==
    \A i \in DOMAIN lines :
        LET d == Datagram(cuts, i) IN Size(d) <= Limit \/ Len(d) = 1

\* Every line goes out once and in its place, a datagram over the limit is a single
\* line that is over it by itself, and there are as few datagrams as any way of
\* cutting the same lines makes (serve.go:206-208).
PackedTightly ==
    /\ FlattenSeq(Append(datagrams, cur)) = [i \in 1..Min({line - 1, Len(lines)}) |-> i]
    /\ \A d \in Range(Append(datagrams, cur)) : Size(d) > Limit => Len(d) = 1
    /\ line = Len(lines) + 2 =>
        \A cuts \in SUBSET (1..Len(lines) - 1) :
            Allowed(cuts) => Len(datagrams) <= Cardinality(cuts) + (IF lines = <<>> THEN 0 ELSE 1)

============================================================================
