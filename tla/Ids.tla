-------------------------------- MODULE Ids --------------------------------
(***************************************************************************)
(* A VPC endpoint ID on its way through the program (cmd/utils.go): typed  *)
(* on a command line, parsed into 64 bits, rendered as the netns' name and *)
(* encoded into the names and MACs of the endpoint's veth pair.  Later     *)
(* serve finds the veths among the host's interfaces and turns their names *)
(* back into a tag, and teardown turns the 64 bits from vpce_to_ifindex    *)
(* back into the argument of remove.                                       *)
(*                                                                         *)
(* A 64-bit ID is the sequence of its eight bytes, so that everything is   *)
(* at its real width.  A hex digit is a number, as is a base58 character   *)
(* (58 stands for any character outside the alphabet).  The all-zero ID is *)
(* left out: what base58 makes of it is the library's business.            *)
(***************************************************************************)
EXTENDS Naturals, Sequences, SequencesExt

CONSTANTS
    Bytes,          \* the values the bytes of the IDs take
    Spellings,      \* what else is typed after "vpce-"
    ForeignNames    \* the names of interfaces the program did not make, a sequence

ASSUME IdsAssumption ==
    /\ Bytes \subseteq 0..255 /\ Spellings \subseteq Seq(Nat)
    /\ ForeignNames \in Seq([prefix : STRING, suffix : Seq(Nat)])

IFNAMSIZ == 16
NoID == <<>>

VARIABLES
    stage,         \* what happens next to the ID
    typed,      \* the digits typed after "vpce-", in either case
    gwlbID,     \* what ParseVPCEID returned
    vpceID,     \* the canonical spelling: netns name, remove's argument
    names,      \* the interface names of the host
    tags,       \* the gwlb_id tag serve gives each of them
    again       \* the ID remove parses when teardown calls it

idsVars == <<stage, typed, gwlbID, vpceID, names, tags, again>>

----------------------------------------------------------------------------
(* Positional notation, most significant digit first.                      *)

\* ds * m + a, in the same number of digits; what overflows is lost.
MulAdd(ds, m, base, a) ==
    LET n == Len(ds)
        carry[i \in 1..n + 1] ==
            IF i = n + 1 THEN a ELSE (ds[i] * m + carry[i + 1]) \div base
    IN  [i \in 1..n |-> (ds[i] * m + carry[i + 1]) % base]

Rebase(ds, from, to, width) ==
    LET acc[k \in 0..Len(ds)] ==
            IF k = 0 THEN [i \in 1..width |-> 0] ELSE MulAdd(acc[k - 1], from, to, ds[k])
    IN  acc[Len(ds)]

LeadingZeros(ds) ==
    LET nonzero == {i \in DOMAIN ds : ds[i] # 0}
    IN  IF nonzero = {} THEN Len(ds) ELSE Min(nonzero) - 1

WithoutZeros(ds) == SubSeq(ds, LeadingZeros(ds) + 1, Len(ds))
Zeros(n) == [i \in 1..n |-> 0]

\* base58: a leading zero byte is a leading zero character, the rest a number.
Base58Encode(bytes) ==
    Zeros(LeadingZeros(bytes)) \o WithoutZeros(Rebase(bytes, 256, 58, 11))

Base58Decode(chars) ==
    Zeros(LeadingZeros(chars)) \o WithoutZeros(Rebase(chars, 58, 256, Len(chars)))

HexDigits(bytes) ==
    [i \in 1..2 * Len(bytes) |->
        IF i % 2 = 1 THEN bytes[(i + 1) \div 2] \div 16 ELSE bytes[i \div 2] % 16]

HexBytes(digits) ==
    [i \in 1..Len(digits) \div 2 |-> 16 * digits[2 * i - 1] + digits[2 * i]]

----------------------------------------------------------------------------
(* cmd/utils.go                                                            *)

\* strconv.ParseUint(hex, 16, 64): every digit a hex digit, no overflow.
ParsesAsUint64(digits) ==
    /\ \A i \in DOMAIN digits : digits[i] < 16
    /\ \A i \in 1..Len(digits) - 16 : digits[i] = 0

\* The ID, or NoID for an error.  The case of the digits does not matter.
ParseVPCEID(digits) ==
    IF Len(digits) \in {8, 17} /\ ParsesAsUint64(digits)
    THEN HexBytes(SubSeq(Zeros(16) \o digits, Len(digits) + 1, Len(digits) + 16))
    ELSE NoID

FitsIn32Bits(id) == \A i \in 1..4 : id[i] = 0

\* A mutant: %x without a width.
Unpadded(id) == WithoutZeros(HexDigits(id))

FormatVPCEID(id) ==
    IF FitsIn32Bits(id) THEN HexDigits(SubSeq(id, 5, 8)) ELSE <<0>> \o HexDigits(id)

FormatInterfaceName(id, inner) ==
    [prefix |-> IF inner THEN "gwlb" ELSE "gxdp", suffix |-> Base58Encode(id)]

\* A mutant: off by one byte.
HigherBytes(id, inner) == <<IF inner THEN 6 ELSE 2>> \o SubSeq(id, 3, 7)

FormatInterfaceMAC(id, inner) == <<IF inner THEN 6 ELSE 2>> \o SubSeq(id, 4, 8)

\* A mutant: the length of what base58 yields is not looked at.
AnyLength(name) ==
    IF name.prefix \in {"gwlb", "gxdp"} /\ \A i \in DOMAIN name.suffix : name.suffix[i] < 58
    THEN LET buf == Zeros(8) \o Base58Decode(name.suffix)
         IN  SubSeq(buf, Len(buf) - 7, Len(buf))
    ELSE NoID

\* The ID, or NoID where ok is false.
ParseInterfaceName(name) ==
    LET buf == Base58Decode(name.suffix)
    IN  IF /\ name.prefix \in {"gwlb", "gxdp"}
           /\ \A i \in DOMAIN name.suffix : name.suffix[i] < 58
           /\ Len(buf) = 8
        THEN buf
        ELSE NoID

NameLength(name) == 4 + Len(name.suffix)

----------------------------------------------------------------------------
AllIDs == [1..8 -> Bytes] \ {Zeros(8)}
LongSpelling(id) == <<0>> \o HexDigits(id)

IdsInit ==
    /\ stage = "parse"
    /\ typed \in {LongSpelling(id) : id \in AllIDs} \cup Spellings
    /\ gwlbID = NoID /\ vpceID = NoID /\ tags = <<>> /\ again = NoID
    /\ names = ForeignNames

\* RunAdd parses its argument and goes by the canonical spelling from there.
ParseArgument ==
    /\ stage = "parse"
    /\ gwlbID' = ParseVPCEID(typed)
    /\ IF gwlbID' = NoID
       THEN stage' = "rejected" /\ UNCHANGED <<vpceID, names>>
       ELSE /\ stage' = "added"
            /\ vpceID' = FormatVPCEID(gwlbID')
            /\ names' = names \o <<FormatInterfaceName(gwlbID', FALSE),
                                   FormatInterfaceName(gwlbID', TRUE)>>
    /\ UNCHANGED <<typed, tags, again>>

\* interfaceTags: one label for each interface, gwlb_id where the name has one.
TagInterfaces ==
    /\ stage = "added"
    /\ stage' = "served"
    /\ tags' = [i \in DOMAIN names |->
                    LET id == ParseInterfaceName(names[i])
                    IN  IF id = NoID THEN NoID ELSE FormatVPCEID(id)]
    /\ UNCHANGED <<typed, gwlbID, vpceID, names, again>>

\* RunTeardown spells the map's key for RunRemove, which parses it.
ParseAgain ==
    /\ stage = "served"
    /\ stage' = "done"
    /\ again' = ParseVPCEID(FormatVPCEID(gwlbID))
    /\ UNCHANGED <<typed, gwlbID, vpceID, names, tags>>

IdsDone == stage \in {"rejected", "done"} /\ UNCHANGED idsVars

IdsNext == ParseArgument \/ TagInterfaces \/ ParseAgain \/ IdsDone
IdsSpec == IdsInit /\ [][IdsNext]_idsVars

----------------------------------------------------------------------------
(* Properties                                                              *)

OwnNames == {FormatInterfaceName(gwlbID, inner) : inner \in BOOLEAN}
LastDigits(digits, n) ==
    LET padded == Zeros(n) \o digits
    IN  SubSeq(padded, Len(digits) + 1, Len(digits) + n)

\* Whatever spelling was typed, teardown removes the same endpoint, by the same
\* netns name, and serve tags both ends of its veth pair with that name
\* (add.go:65-67, teardown.go:42, serve.go:281); the kernel accepts their names, which
\* never exceed IFNAMSIZ-1 bytes (utils.go:87-89).
SameEndpoint ==
    /\ vpceID # NoID => \A n \in OwnNames : NameLength(n) < IFNAMSIZ
    /\ stage \in {"served", "done"} =>
        \A i \in DOMAIN names : names[i] \in OwnNames => tags[i] = vpceID
    /\ stage = "done" => again = gwlbID

\* serve tags an interface with an endpoint only if its name is, to the last
\* character, the one the program gives that endpoint's veth (utils.go:140-142):
\* no two names stand for one ID.
OnlyOwnNamesTagged ==
    stage \in {"served", "done"} =>
        \A i \in DOMAIN names : tags[i] # NoID =>
            \E inner \in BOOLEAN :
                names[i] = FormatInterfaceName(ParseVPCEID(tags[i]), inner)

\* The ID is the one whose digits were typed, a spelling AWS issues comes out as it
\* went in (utils.go:72-76; a current one has a digit other than zero before its
\* last eight), and the MACs end with its last ten digits (utils.go:114-119).
DigitsKept ==
    vpceID # NoID =>
        /\ LastDigits(HexDigits(gwlbID), 17) = LastDigits(typed, 17)
        /\ (Len(typed) = 8 \/ \E i \in 1..9 : typed[i] # 0) => vpceID = typed
        /\ \A inner \in BOOLEAN :
            HexDigits(Tail(FormatInterfaceMAC(gwlbID, inner))) = LastDigits(typed, 10)

============================================================================
