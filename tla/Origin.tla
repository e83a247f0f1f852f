------------------------------- MODULE Origin -------------------------------
(***************************************************************************)
(* --allowed-origin-cidr from the command line to the packet: ParseIPv4CIDR *)
(* zeroes the prefix's host bits (cmd/utils.go), decap.Load makes an address *)
(* and a mask of it (bpf/decap/decap.go), and decap compares every packet's  *)
(* outer source with them (bpf/decap/_decap.c).  Without the flag decap keeps  *)
(* the zeros it was compiled with.                                           *)
(*                                                                           *)
(* An address, and the word that becomes the mask, is Width bits, most         *)
(* significant first.                                                        *)
(***************************************************************************)
EXTENDS Naturals

CONSTANTS
    Width,      \* of an address and of the mask, 32 in the program
    Families    \* what is typed: "v4", "v6" or other text, or "none" for no flag
ASSUME AddressAssumption == Width \in Nat \ {0}

VARIABLES
    flag,       \* --allowed-origin-cidr: family, address, prefix length
    result,     \* of setup: "none" while it runs, "error" or "ok"
    allowed,    \* allowed_origin_addr and allowed_origin_mask in decap's .rodata
    source,     \* the outer source address of the packet decap looks at
    verdict     \* whether decap lets it through

originVars == <<flag, result, allowed, source, verdict>>

Address == [1..Width -> 0..1]
ZeroAddress == [i \in 1..Width |-> 0]
NoPacket == <<>>
And(a, b) == [i \in 1..Width |-> a[i] * b[i]]

\* What is shifted out is lost, and zeros come in.
ShiftLeft(a, n) == [i \in 1..Width |-> IF i + n <= Width THEN a[i + n] ELSE 0]

OriginInit ==
    /\ flag \in [family : Families, addr : Address, bits : 0..Width + 1]
    /\ result = "none"
    /\ allowed = [addr |-> ZeroAddress, mask |-> ZeroAddress]
    /\ source = NoPacket
    /\ verdict = FALSE

----------------------------------------------------------------------------
\* netip.ParsePrefix fails, or the prefix is not IPv4.
Rejected == flag.family \notin {"none", "v4"} \/ flag.bits > Width

\* A mutant: the address as it was typed, host bits and all.
Unmasked == flag.addr

\* (netip.Prefix).Masked: the host bits are zeroed.
Masked == [i \in 1..Width |-> IF i <= flag.bits THEN flag.addr[i] ELSE 0]

\* ^uint32(0) << (32 - bits), stored big-endian; 0 if bits is 0.
Mask ==
    IF flag.bits > 0 THEN ShiftLeft([i \in 1..Width |-> 1], Width - flag.bits) ELSE ZeroAddress

ApplyFlag ==
    /\ result = "none"
    /\ IF Rejected
       THEN result' = "error" /\ UNCHANGED allowed
       ELSE /\ result' = "ok"
            /\ allowed' = IF flag.family = "none" THEN allowed  \* the compiled-in zeros
                          ELSE [addr |-> Masked, mask |-> Mask]
    /\ UNCHANGED <<flag, source, verdict>>

Passes(src) == And(src, allowed.mask) = allowed.addr

\* decap's look at one packet.
Filter ==
    /\ result = "ok"
    /\ source = NoPacket
    /\ \E src \in Address : source' = src /\ verdict' = Passes(src)
    /\ UNCHANGED <<flag, result, allowed>>

OriginDone == (result = "error" \/ source # NoPacket) /\ UNCHANGED originVars

OriginNext == ApplyFlag \/ Filter \/ OriginDone
OriginSpec == OriginInit /\ [][OriginNext]_originVars

----------------------------------------------------------------------------
(* Properties                                                              *)

\* setup refuses what is not an IPv4 prefix, and decap lets exactly the prefix's
\* addresses through, host bits typed or not: every one for 0.0.0.0/0 or without the
\* flag, one for a /32 (decap.go:36-40, setup.go:40-43).
PrefixEnforced ==
    /\ result = "ok" => flag.family \in {"none", "v4"} /\ flag.bits \in 0..Width
    /\ source # NoPacket =>
        (verdict <=> \/ flag.family = "none"
                     \/ \A i \in 1..flag.bits : source[i] = flag.addr[i])

============================================================================
