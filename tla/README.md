# gwlb-xdp: specification and proofs

TLA+ modules of [gwlb-xdp](../src/README.md), an AWS Gateway Load Balancer
backend in XDP: the decap program on the uplink delivers GENEVE packets to the
veth of the VPC endpoint they belong to, the encap program on each veth puts a
reply back into the GENEVE header its flow arrived with, the commands `setup`,
`add`, `remove` and `teardown` provision all of it, and `serve` reports health and
counters. What makes the program correct is that endpoints stay apart although
they share one set of BPF maps keyed by an ifindex the kernel gives out again,
and although the commands cannot stop the XDP programs running beside them.

## Inventory

| Component | Source | State it keeps | Operations | Correct when |
|---|---|---|---|---|
| decap | `bpf/decap/_decap.c`, `bpf/maps.h` | `vpce_to_ifindex` (reads), `flow_state`, `metrics` | one run per packet: parse, filter by origin, look up the endpoint, cache the reordered header, count, redirect | a packet goes to its own endpoint's veth; a header is cached under its own endpoint's key |
| encap | `bpf/encap/_encap.c`, `bpf/maps.h` | `flow_state` (reads), `frag_state`, `metrics` | one run per frame of a veth: parse, find the cached header (by tuple, quoted tuple or fragment id), record a first fragment, replay, redirect | the header replayed belongs to the endpoint, and the flow, of the reply |
| Parsing and keys | `bpf/geneve_defs.h`, `bpf/net_hdrs.h` | none | `parse_ipv4/6`, `parse_l4`, `build_flow_key`, `outer_hdr_stable_eq` | decap's and encap's keys of one flow agree |
| Counters | `bpf/maps.h`, `bpf/maps.go` | `metrics`, per CPU | `increment_metric`, `MetricsRemove`, `Metrics()` | every packet is counted once, in the row of its interface |
| Maps, links, pins | `bpf/maps.go`, `bpf/xdp.go`, `bpf/decap/decap.go`, `bpf/encap/encap.go` | everything pinned under `/sys/fs/bpf/gwlb-xdp` | `Load`, `Attach`, `Detach`, `Pin`, `AddEndpoint`, `LookupEndpoint`, `RemoveEndpoint`, `ProvisionedEndpoints`, `SweepEndpoint`, `RemovePinDir` | a sweep leaves nothing under its ifindex; a stale pin blocks no one |
| `setup` | `cmd/setup.go` | maps, decap link, encap program | load, attach, load, pin; rollback by `RunTeardown` | failing on a live host it does not harm it |
| `add` | `cmd/add.go` | netns, veth, entry, encap link | check, netns, veth, configure, `--script`, insert, attach; rollback by three flags | all or nothing; the rollback undoes its own work only |
| `remove` | `cmd/remove.go` | the same | delete entry, detach, delete veth, sweep, delete netns; goes on after errors | nothing of the endpoint is left, whatever state it was in |
| `teardown` | `cmd/teardown.go` | all of it | `RunRemove` for every endpoint listed, detach decap, remove pins | nothing is left |
| State lock | `cmd/utils.go` | flock on `/run/gwlb-xdp.lock` | `withStateLock` | commands run one after another; the lock comes back |
| `serve`: counters | `cmd/serve.go`, `bpf/maps.go` | the previous sample | sample, label, push; datagrams of lines | what is pushed was counted, once, on the interface it is tagged with |
| `serve`: daemon | `cmd/serve.go` | the loop, the HTTP server's goroutine and its channel | ticks, signal, shutdown, health requests | it ends when told; health answers hold of the time they took |
| Netns switching | `cmd/utils.go` | which netns each OS thread is in | `withLockedOSThread`, `WithNetns`, `CreateNamedNetns` | no goroutine runs in an endpoint's netns unawares |
| Names, MACs, IDs | `cmd/utils.go` | none | parse and format IDs, interface names, MACs | one ID means one endpoint all the way |
| Origin filter | `cmd/utils.go`, `bpf/decap` | two words of decap's `.rodata` | `ParseIPv4CIDR`, address and mask, comparison | exactly the prefix is let through |
| Sizes | `cmd/add.go`, `bpf/maps.go`, `bpf/decap/decap.go`, both programs | `max_inner_len`, map capacities, veth MTU | `MaxInnerLen`, `uplinkVethMTU`, length checks | nothing is truncated; a reply is lost only for a known reason |
| Generated bindings, build, tests | `bpf/*/bpf_*_bpfel.go`, `Makefile`, `test/e2e` | | | |

**How they interact.** The commands are processes that serialise on the flock
and talk to the kernel: netlink for netns and veths, bpffs for maps and links.
XDP runs are started by packets, on every CPU, and take no lock. The two meet
in the BPF maps and in two kernel guarantees the code relies on: deleting a
veth detaches encap, and `LinkDel` returns only after every XDP run then in
progress has ended (the RCU grace period that `decap.go:232-236` describes).
`serve` takes no lock either: it reads `metrics`, the interfaces and decap's pin
while commands and packets change them.

**What is hard.** A run reads `info->ifindex` and then uses it to publish, to
count and to redirect, while a command may remove the endpoint and another add
may get the same ifindex. A command may fail at any kernel call, may be killed
between any two, and is then repeated from whatever was left. The rollback of
`add` must not touch what was there before. A grace period must end although
packets keep coming. `teardown` unpins maps that runs are still using. A sweep
walks a hash map that churns under it, and `serve` samples rows that come and go.
An error on the way back from a netns must not leave a thread there. The
hazards, each at its line and with the properties about it, are in
`PROJECT.json`.

## Modules

| Module | What it models |
|---|---|
| `Host` | variables and types of the host; maps as functions, `LruUpdate` (an update that may evict any other entry), `Increment` |
| `Xdp` | decap and encap: one action per access to a shared map |
| `Cli` | the four commands and the lock: one action per kernel call another party can see, each with its ways to fail |
| `Gwlb` | composes them: `Init`, `Next`, fairness, the properties, and the inductive invariant `IInv` |
| `Tunnels` | the abstract specification: each endpoint has a tunnel and a cache of its own |
| `GwlbTunnels` | the refinement mapping from `Gwlb` to `Tunnels` |
| `FailedRemove` | `Gwlb` and one failure more, which the isolation does not survive |
| `MCGwlb` | symmetry for TLC |
| `Counters` | `increment_metric` on several CPUs, rows swept and made again |
| `Serve` | composes `Counters` with serve's sampling, labelling and pushing |
| `MCServe` | `Serve` on a host that has an endpoint when it starts |
| `Sweep` | `sweepByIfindex`, bucket by bucket, under churn |
| `Netns` | netns switches on OS threads the Go runtime shares out |
| `Daemon` | `RunServe`'s loop, the HTTP server's goroutine, ticks, signal, health |
| `PackLines` | counter lines joined into datagrams |
| `MCProcess` | the previous four for TLC |
| `Ids` | IDs, interface names, MACs, at their real widths |
| `Origin` | `--allowed-origin-cidr` from the command line to the packet |
| `Sizes` | MTUs, map capacities, lengths |
| `Datapath` | one endpoint's packets: parsing, keys, modes, fragments, quoted errors |
| `MCArguments` | the previous four for TLC |
| `GwlbProofs`, `CommandProofs`, `TunnelProofs` | theorems about `Gwlb` and `GwlbTunnels` |
| `PacketProofs` | theorems about `Datapath`, `Origin` and `Sizes` |
| `SumProofs` | lemmas about sums over finite sets, and about functions made one step after the other |
| `ServeProofs` | theorems about `Counters` and `Serve` |
| `ProcessProofs` | theorems about `Sweep`, `Netns`, `Daemon`, their combination in `MCProcess`, and `PackLines` |
| `IdsProofs` | theorems about `Ids`, with the arithmetic of base58 |

`MCProcess` and `MCArguments` each combine parts that share no state: a variable
`part` says which one a behaviour is of, and the others rest at one initial
state, so that the states add up and do not multiply.

### State and code: the host

| Variable | Code |
|---|---|
| `lock` | the flock of `withStateLock` |
| `job[p]` | an invocation's program counter and locals: the endpoint (`vpce`), the ifindex it works on (`idx`), the flags of `RunAdd` (`createdNetns`, `inserted`; `outerIfindex` is `idx`), teardown's list (`todo`), and two for properties only: whether a cleanup step could not do its work (`faulty`), which most report and a discarded error of `LinkByName` or `LinkByIndex` hides, and whether `netns.Get` failed in `CreateNamedNetns` (`getFailed`) |
| `veth[i]`, `netns`, `attached` | kernel devices: the endpoint veth `i` was made for, named netns, veths encap is attached to |
| `grace` | the XDP runs that the `LinkDel` in progress waits for |
| `pinned`, `encap_pin` | pin files: maps, decap link, encap program, `link_encap_<ifindex>` |
| `vpce_to_ifindex`, `flow_state`, `frag_state`, `metrics` | the BPF maps. A header is the endpoint it belongs to; `metrics[i]` is the set of endpoints whose packets were counted under `i` |
| `run[c]` | the XDP run in progress on CPU `c`, with the ifindex and header it has read |
| `found`, `faults`, `dirty` | history, read by properties: the host as the running command found it; commands killed or failing to clean up so far; ifindexes whose veth went without a completed sweep |

`Xdp`: `DecapReceive` ends at the lookup of the endpoint, `DecapPublish` and
`DecapSkipCache` at the write to `flow_state` or without one, `DecapDeliver` counts
and redirects. A packet dropped after the endpoint lookup takes the path
`DecapSkipCache`, `DecapDeliver`: like a delivered one it counts under the
endpoint's ifindex. `EncapReceive`, `EncapLookupFlow` or `EncapLookupFrag`, `EncapRecord`
for a first fragment that matched, `EncapSend`. A run whose maps have been
unpinned is a `stray`: all it can still do is end.

`Cli`: the actions are named for the command and the step, in source order;
`JobStep` lists them. `AddNetns` has `CreateNamedNetns`'s outcomes: the netns is made;
the call fails and nothing changed; `netns.Get` failed, and the netns that had the
name goes; or the netns was made, could not be left, and could not be deleted
again. `AddVeth` has the veth that stays where `LinkByName` fails and deleting it by
name fails silently. `AddClearPin` and `AddAttach` are the two halves of
`encap.Attach`: a remove whose `Detach` failed may have left a pin, which the
first clears and which would make the second fail. `Crash` may end a command anywhere but inside `LinkDel`,
whose wait in the kernel is not interrupted. `remove` and teardown's loop share
their actions, as `RunRemove` is shared, and setup's rollback enters
teardown's at `list`, as `RunSetup` calls `RunTeardown`.

`FailedRemove` adds `RemoveEntryFails` and `UndoEntryFails`: `RemoveEndpoint` returns an
error with the entry still there, and `RunRemove`, or the rollback of `RunAdd`, goes
on. `Gwlb` itself leaves them out because isolation ends there (a finding,
below); everything else is stated of a host where this call works.

### The abstract specification

In `Tunnels` there are no ifindexes, shared maps, commands or programs. A tunnel
is `none`, `shut` or `open`; it caches entries of its own flows and fragments,
forgets any of them at any time, and loses them when it goes; a packet is in
one tunnel, and a reply gets a header only if its own tunnel has one cached. A
tunnel made on what a killed command left is `suspect`, and only its replies may
carry another's header.

`GwlbTunnels` maps `Gwlb` to it: a tunnel is the veth of its endpoint, open while
`vpce_to_ifindex` names it; what it has cached is what the maps hold under the
veth's ifindex; a packet is in the tunnel of whoever has, at that moment, the
ifindex its run carries; a veth with a `dirty` ifindex is a suspect tunnel. So a
run left over on a reused ifindex, or an entry left in a shared map, shows as a
packet or an entry in a tunnel it never entered.

### State and code: the other modules

| Module | State | Steps |
|---|---|---|
| `Counters` | `rows`, the metrics map, with one value per CPU; `run[c]`, where `increment_metric` is; `iface`, who has an ifindex; `removing`, a veth deleted and not swept | `CountLookup`, `CountCreate` (`BPF_NOEXIST`), `CountRelookup`, `CountAdd`; `Plug`, `Unplug`, `SweepRow` stand for `add`, `LinkDel`, `MetricsRemove`, with the guarantees that `Gwlb` shows |
| `Serve` | `prev`, `cur`: the samples of `flushCounters`; `cursor`, `steps`: the map iterator; `labels` | `Tick`, `SampleNext` and `SampleRead` (next key, then its value), `SampleEnd`, `SampleAborted`, `SampleFails`, `Label` (`interfaceTags`), `Push` |
| `Sweep` | `map`, the keys there; `cursor`, `keys`, `batch`, `toDelete`: the batch lookup | `Open`, `CopyBucket`, `BatchFull`, `BucketTooBig` (`ENOSPC`), `EndOfMap` (`ErrKeyNotExist`), `LookupFails` (any other error), `Delete`; `Insert` and `Evict` are other endpoints' packets and the LRU |
| `Netns` | `ns[t]`, `locked`: each OS thread's netns, and whether a goroutine is locked to it; `newns`, `named` | `Reschedule` (the Go runtime), `LockOSThread`, `Get`, `NewNamed` or `Enter`, `Restore`, `CreateReturns`, `EnterReturns` |
| `Daemon` | `loop`, `goroutine`, `srvErr` (the channel of capacity 1), `tick` (the ticker's), `req` | `RunServe`'s select and what it leads to; `Listen`, `ServerFails`, `ServerCloses`, `Send`; `ReadLink` and `ReadState` of `checkHealth` |
| `PackLines` | `line`, `cur`, `datagrams`: the locals of `packLines` | one iteration of its loop, and what follows it |
| `Ids` | `typed`, then `gwlbID`, `vpceID`, `names`, `tags`, `again` | parsing in `RunAdd`, `interfaceTags` in `serve`, parsing again in `RunTeardown`; the conversions are functions on sequences of bytes and digits |
| `Origin` | `flag`, `allowed`, `source`, `verdict` | `ApplyFlag`, `Filter` |
| `Sizes` | `mtu` of the uplink, `pins`, `inner` (`max_inner_len`), `veth` | each command as one step, `ChangeMtu` between any two, `Decap` and `Encap` of a packet of some length |
| `Datapath` | `flow_state`, `frag_state` of one endpoint; `delivered`, what is in its netns; `vpce_mode`; ghosts `current` and `heads`, what a reply and a later fragment must meet | `DecapPacket`, from parsing to the redirect; `EncapFirst`, a first fragment that matches (no other frame changes a map); `Verdict` and `Replayed`, what becomes of any frame; `EvictFlow`, `EvictFragment` |

## Properties and runs

| Run | Module, states | Question | Properties |
|---|---|---|---|
| `isolation` | `MCGwlb`, 1.46 M | Do endpoints that reuse each other's ifindexes stay apart? | `EntriesBelongToOwner` (in the maps), `DeliveredToOwner` (decap's redirect), `ReplyCarriesOwnHeader` (encap's replay), `IInv` |
| `commands` | `MCGwlb`, 0.49 M | Does every command keep its promise, with two racing, any setting up failing, and one killed? | `FailedAddRestores`, `RemoveCompletes`, `FailedSetupSparesHost`, `OnlyOwnEndpointTouched`, `ImplementsTunnels` |
| `no_faults` | `MCGwlb`, 0.31 M | What holds as long as no command is killed? | `NoInheritance`, `EndpointsWhole`, `TeardownLeavesNothing` |
| `liveness` | `MCGwlb`, 0.32 M | Does every command end? | `LockReleased` |
| `serve` | `MCServe`, 1.14 M | Are packets counted and pushed once, and in the end? | `CountsExact`, `EveryPacketCounted`, `NothingOverReported`, `UplinkExact`, `EventuallyPushed` |
| `process` | `MCProcess`, 103 k | Does a sweep miss nothing and end; is no thread left in a netns; does serve end, and tell the truth? | `ProcessInv`; `NothingSurvives`, `BatchGrowsEnough`, `OthersSpared`, `WalkFinishes`; `PoolInRoot`, `StuckIsReported`, `CreatedOrNothing`; `ServeTruthful`, `ServeEnds`, `GoroutineEnds`; `PackedTightly` |
| `arguments` | `MCArguments`, 93 k | Do arguments mean what they say, to the last bit; does a reply leave in its own flow's tunnel? | `SameEndpoint`, `OnlyOwnNamesTagged`, `DigitsKept`; `PrefixEnforced`; `LengthsTrue`, `RoomForEveryCounter`, `LostOnlyIfShrunk`, `OversizeOnlyIfGrown`; `ReplyInOwnFlow`, `AnsweredUnlessForgotten` |
| `killed_remove` | `MCGwlb` | | `NoInheritance` is violated |
| `killed_add` | `MCGwlb` | | `TeardownLeavesNothing` is violated |
| `rerun_setup` | `MCGwlb` | | `SetupRerunnable` is violated |
| `netns_get` | `Netns` | | `ExistingNetnsSpared` is violated |
| `failed_remove` | `FailedRemove` | | `ReplyCarriesOwnHeader` is violated |

Every property is stated with its meaning where it is defined, and for each
property of a passing run `PROJECT.json` has a mutant of the code's model that
breaks it.

**Bounds.** *The host.* Two ifindexes and two endpoints are what reuse takes: an
endpoint goes, its ifindex is given to the other, and a third party's is there
to be spared. One tuple is the worst case, since the same tuple behind every
endpoint makes keys differ in the ifindex alone. Two CPUs let a run begin
before and another after a deletion, which tells a grace period (the runs of
that moment) from quiet (no run at all). In `commands` one CPU is enough, as its
properties are about the commands' order, and two invocations are what a race
takes. `MaxEndpoints = 1` with two endpoints fills `vpce_to_ifindex`; `no_faults`
and the violation runs allow two. `liveness` needs the second endpoint: its
rollback waits out a `LinkDel` while packets of the first keep arriving.
`MaxFaults` bounds the commands that are killed or whose cleanup fails.
Symmetry is used for safety only.

*`serve`.* Three ifindexes are the uplink's and two that an endpoint may move
between; with `Capacity = 2` the map is full when the uplink and the one endpoint
have rows, as the code's sizes make it. Two changes take the endpoint away and
bring one back, under the same or the other ifindex; three packets make a row grow,
go and grow past its old value; one failed sample is followed by one that must cover the
gap. `MaxSteps` is what the iterator allows, above `Capacity` because `metrics`
has room for twenty counters of each interface and few are in use. The host has
an endpoint when it starts, always the same one (`MCServe`).

*`process`.* Six keys in three buckets, two of them of the ifindex being swept,
five fit the map, and one bucket can hold them all although a batch has room
for one: it must double three times. Three threads: one stuck, one running,
one to move to. One request and two changes of the host during it. Up to five
lines of up to five bytes, datagrams of eight.

*`arguments`.* `Ids` is at its real widths, every byte 0 or 255, with the spellings
the tests try and interface names that come close. `Origin` has every address and prefix
length of five bits. `Sizes` has real MTUs (135, one below what setup accepts;
1500, 8000, 9001 and the largest, 65535) and the packet lengths around each limit; the 32 bits of `MaxEntries`
are scaled to 20 together with the kernel's limit on a hash map, so that the
product wraps at inputs TLC reaches. `Datapath` has two addresses, the same bits
in both families, and between them flows that differ in a port, in direction,
in protocol; of these, and of packets with other headers, errors and truncated ones,
pairs (`MCPlays`), since one flow's entry can only be mistaken for another's.
Two nodes let a flow move from one to the other. Of datagrams GWLB sends in
fragments there are two, of one identification or, with IPv6, of two that differ
in their upper 16 bits alone.

**Fairness.**

* *Commands*: weak fairness of `JobStep(p)`, since a command that holds the lock
  is a running process whose kernel calls return; it assumes that `--script`
  returns, which nothing in the code enforces. Weak fairness of `RunStep(c)`:
  the BPF verifier admits only programs that end. No fairness makes a command
  start or a packet arrive, and none stops packets from arriving:
  `LockReleased` holds because a grace period waits for the runs of one moment,
  and the mutant that waits for quiet CPUs starves.
* *Sampling*: weak fairness of `ServeStep`: the ticker keeps firing.
* *Sweep*: weak fairness of `SweepStep`; none of the churn, which may go on for
  ever.
* *Daemon*: weak fairness of the loop and of the goroutine's sends; strong
  fairness of `Shutdown` and `ServerErr`, because Go's select picks among the ready cases at
  random, so ticks that are ready again and again do not keep the others from being
  taken. None for clients: `ServeEnds` rests on the five-second deadline, whose
  timer is part of the loop's steps.

### Where the code does otherwise than its documents say

* `killed_remove`: after a `remove` killed between `LinkDel` and `SweepEndpoint`
  nothing names the ifindex any more, so it is never swept, and the next
  endpoint that gets it inherits headers and counters (README: "doesn't inherit
  them").
* `killed_add`: `teardown` lists endpoints from `vpce_to_ifindex`, where `add`
  inserts last, so the veth of an `add` killed earlier survives ("a
  partially-initialized [...] box is still fully cleaned"). A `remove` of that
  endpoint does clean it up: `RemoveCompletes`.
* `rerun_setup`: `add.go` and the README tell the operator to re-run `setup` after
  an MTU change; on a host that is set up it fails at attaching decap.
* `netns_get`: `newns` is the zero `NsHandle`, which counts as open. When `netns.Get`
  fails, before anything was made, `CreateNamedNetns` closes file descriptor 0
  and deletes the netns by the endpoint's name, whoever's it is (`add.go:97-99`:
  it "is left alone").
* `failed_remove`: when `RemoveEndpoint` fails, `remove` and `add`'s rollback note the
  error and go on to delete the veth and sweep. The entry stays, decap keeps
  caching that endpoint's headers under the ifindex, and the next endpoint that
  gets it replies with them (`remove.go:35-38`: the order "lets nothing repopulate
  what the endpoint cached"; `add.go:110-113`: "First stop decap delivering"). The
  run's trace is the rollback's.

Limits that the properties state as exemptions rather than as findings of their
own, since no document promises otherwise, the first apart:

* The netns that `netns_get` is about goes in the commands' model as well:
  `FailedAddRestores` states that an add whose `netns.Get` failed (`getFailed`) takes a
  netns of its endpoint's name with it, and leaves everything else as it was.

* Packets without ports (other protocols, an IPv6 header `parse_ipv6` does not walk)
  share one entry per pair of hosts and protocol, so a reply may carry another such flow's
  cookie. A later fragment that comes before its first one is dropped, or goes
  with the datagram of another flow that has the same addresses, protocol and
  identification (`ReplyInOwnFlow`).
* A sweep that falls into a sample of `serve` makes the key iteration start over,
  and rows read twice are added up (`overlapped` in `Serve`).
* Rows are sampled before interfaces are listed: an ifindex that changes owner
  in between is pushed under the new owner's tag (also `overlapped`).
* After a missed sweep `metrics` holds rows nobody deletes, and a full map leaves
  packets uncounted (`missed` in `Counters`).
* A pin that is there and fails to load makes a sweep report success without
  having looked (`"skipped"` in `Sweep`).
* `PossibleCPU`, or `BatchLookup` with an error that is neither the end of the map nor
  `ENOSPC`, ends a sweep with that error and nothing deleted (`"aborted"` in `Sweep`).
  `BatchGrowsEnough` is about `ENOSPC`: for want of room no sweep gives up.
* An uplink MTU raised after `setup` lets `add` size veths beyond `max_inner_len`,
  and encap drops what they let through (`OversizeOnlyIfGrown`); a lowered one
  loses replies at the uplink (`LostOnlyIfShrunk`).

## Proofs

TLAPS checks the theorems for all values of the constants, without the bounds
of the runs and without symmetry. What each module assumes of its constants is
a named `ASSUME` there: mostly that `None` is none of the other values and that
bounds are numbers; CPUs and ifindexes are finite in `Counters`; `Ids` has bytes
that are bytes, and interface names that are a prefix and characters; `PackLines` has lengths and limits that are numbers; `Sizes` has the widths and that the kernel refuses a hash map
long before the product of its sizes overflows. `Datapath` assumes of the packets
GWLB sends (`GWLBPacket`) that a packet's addresses, protocol and ports are its
flow's, that extension headers come in RFC 8200's order, that an error quotes a
packet of a flow, and that link control does not come through the tunnel.

| Module | Theorems | Properties |
|---|---|---|
| `GwlbProofs` | `Invariance`, `TypeCorrect`, `Isolation`, `Delivery`, `Replies`, `OwnEndpoint`, `StalePinsCleared` | `IInv`, `TypeOK`, `EntriesBelongToOwner`, `DeliveredToOwner`, `ReplyCarriesOwnHeader`, `OnlyOwnEndpointTouched` |
| `CommandProofs` | `Promises`, `SetupSpares`, `AddRestores`, `RemoveLeavesNothing` | `FailedSetupSparesHost`, `FailedAddRestores`, `RemoveCompletes` |
| The same, if `MaxFaults = 0` | `NothingInherited`, `AllWhole`, `TeardownCleans` | `NoInheritance`, `EndpointsWhole`, `TeardownLeavesNothing` |
| `TunnelProofs` | `Implementation` | `ImplementsTunnels` |
| `PacketProofs`: `Datapath` | `DatapathInvariance`, `RepliesInOwnFlow`, `AnsweredIfKept` | `ReplyInOwnFlow`, `AnsweredUnlessForgotten` |
| `ServeProofs` | `RoomForEveryRow` (if `MaxEndpoints < Capacity`), `NoCountLost`, `SampleInvariance`, `NeverOverReported`, `UplinkAllPushed` | `EveryPacketCounted`, `CountsExact`, `NothingOverReported`, `UplinkExact` |
| `ProcessProofs`: `Sweep` | `SweepInvariance`, `SweepComplete`, `BatchSuffices`, `SparesOthers` | `NothingSurvives`, `BatchGrowsEnough`, `OthersSpared` |
| `Netns` | `NetnsInvariance`, `PoolClean`, `NeverStuckUnreported`, `CreateAllOrNothing` | `PoolInRoot`, `StuckIsReported`, `CreatedOrNothing` |
| `Daemon`, `MCProcess` | `DaemonInvariance`, `AnswersTrue`, `ProcessInvariance` | `ServeTruthful`, `ProcessInv` |
| `PackLines` | `NoDatagramWasted` | `PackedTightly` |
| `PacketProofs`: `Sizes` | `SizesInvariance`, `NoTruncation`, `CountersFit`, `LostExplained`, `OversizeExplainedByGrowth` | `LengthsTrue`, `RoomForEveryCounter`, `LostOnlyIfShrunk`, `OversizeOnlyIfGrown` |
| `Origin` | `ExactlyThePrefix` | `PrefixEnforced` |
| `IdsProofs` | `IdsInvariance`, `CanonicalSpelling`, `OneEndpoint`, `OwnNamesOnly` | `DigitsKept`, `SameEndpoint`, `OnlyOwnNamesTagged` |

**Isolation.** `EntriesBelongToOwner` is not inductive: it says nothing of an
ifindex in no use, nor of the runs that may still write there. `IInv` adds
`EntriesOK` (under an ifindex in no use nothing is left, unless dirty), `RunsOK` (a
run in flight is on its own endpoint's live veth, or on a deleted one that
is dirty and whose `LinkDel` still waits for this very run), `DevicesOK` (entries
and attachments are of live veths; a grace period runs only while the holder
of the lock is at a waiting step) and `JobsOK` (what a command knows of the veth
it works on; in particular that a veth not yet reachable is `Untouched`, and that
no stale pin is in the way when encap is attached, `NoPinInTheWay`). The
argument: when a command is past its wait, `grace` is empty, so by `RunsOK` no run
in flight is on the deleted ifindex, and nothing can start one; so the sweep
that follows is the last word (`SweepStep`), and the ifindex is clean when it is
given out again (`AddVethStep`). `Moves` says what a step makes of the four fields
of a job the invariant reads; one lemma per action of `Cli` on top of a frame
lemma for its kind (`ControlStep`, `EntryStep`, `AttachmentStep`, `LinkDelStep`,
`SweepStep`); `RunMoves`, `Writes` and `Counts` say the same of XDP runs.

**Promises of the commands.** Relative to `IInv`, `PromisesOK` has one conjunct per
command: `VethUnique` (no two veths are one endpoint's), `SetupOK` (on a host that
is set up, setup does not get past attaching decap), `AddOK` (while an add goes on
or is rolled back, the host differs from what it found by what its flags and
`getFailed` say, and by nothing else, which `NetnsChanged`, `VethChanged`,
`EntryChanged` and `AttachedChanged` say of a kind of object each; at `failed` only what
`getFailed` says is left) and `RemoveOK` (what each step of remove has made sure of). XDP runs cannot disturb it, and no other command moves
while one holds the lock.

**Without faults.** `NoFaultsOK` is about the one command under way (`Doing`): a
dirty ifindex is the one it will sweep (`Swept`), an entry that is not wired is
the one it is adding (`Wired`), a veth that is not listed is the one it is making
or deleting (`Listed`), and teardown's list misses nothing that is provisioned
(`TornDown`).

**Refinement.** `TunnelInv` is `IInv`, `VethUnique` and that a frame has no header
before encap has looked for one. Each action maps to one of `Tunnels` or to a
stutter: `LinkDel` destroys a tunnel with its packets, a sweep is invisible
(nothing under the ifindex is in any tunnel by then), an add's veth makes a
tunnel that is empty (by `EntriesOK`) or suspect, teardown's last step is `Reset`.

**Datapath.** What decap files a packet under and what encap looks a frame up by
are computed from different packets, often of different protocols, so the
invariant says of every entry whose it is. `DatapathInv`: an entry's cookie names
a flow between the hosts of its key, and a flow of the whole tuple wherever the
key has one (`EntriesOK`, `TuplesOK`); `flow_state` holds, for each flow in
`current`, an entry to the node it last came from (`CurrentOK`); each fragment
entry has a datagram in `heads` it was made for, and each of those its entry
(`HeadsOK`, `FragmentsOK`). The rest is about the operators: a key is one flow's
(`LiteralKeyInjective`), an identification of 32 bits is the two ports it is
filed under (`DatagramKeyFields`), a reply's swapped key is the key of what it answers
(`ReplyFrame`), and only a packet whose tuple was read is cached under a key with a
transport protocol (`CacheableTells`).

**Counters.** `CountersInv`: rows are those of the uplink, of the live endpoints and
of the one being removed (`RowsHaveOwners`), which are at most `MaxEndpoints` and
the uplink (`RoomForOwners`). That `MaxEndpoints < Capacity` is what
`RoomForEveryCounter`, proved in `PacketProofs`, says of the code's sizes.
`NoCountLost` needs no room: each of `increment_metric`'s four steps adds to a
row's total what it adds to the count, or neither.

**Sums.** A row's total is a fold over the CPUs, whose value the library gives no
theorem about. `SumProofs` proves what is needed from the definition, by
induction over the subsets of a finite set as a set (`SubsetInduction`, from the
well-founded order of strict subsets): the sum is the one element's and the
rest's (`SumRecursion`), whichever element the fold picks first; so incrementing
one CPU's value increments the total (`SumIncremented`), and a sum over `1..k` is
made line by line (`SumToNext`).

**Samples.** `SampleInv` relates the sample under way to the map it is read from. Without
a sweep in it the iterator never starts over (`SampleOK`), so a key has been
read iff the cursor has passed it. `Unpushed` is the account of one interface: what
is counted and not pushed is at least what its row has grown by since the last
sample, or, if the row was swept and made anew since then, all of it; and once
interfaces are labelled, pushing a line keeps `pushed` below `counted`, also for
an interface that has gone meanwhile (`LabelStale`). For the uplink, whose row nobody
sweeps, the account is an equation (`UplinkExact`, with `UplinkGrows`). TLC found
`SampleInv` to hold in all states of the run `serve` before it was proved.

**Sweep.** `NothingEscapes`: a matching key that is in the map hashes to a bucket
the walk has not reached, or was collected, or could not be deleted. Inserts do
not break it since none of them matches (`RunsOK` of `Gwlb`).

**Netns.** `NetnsInv`: outside a call, and until the function runs, add's thread is
in the root netns, unless the call failed and left the thread locked.

**Daemon.** `DaemonInv`: the goroutine sends only after the server has ended, and
the server is closed only once the loop has decided to return, so the `nil` of a
closed server meets no select that could take it for a failure; a request in
progress has seen the host as it is now, and one that has passed its first check
has seen decap attached. `ProcessInv` is these three invariants of the run `process`.

**Datagrams.** `PackInv` names where each datagram ends: `e[k]`, the last line of the
`k`-th, with the lines between two ends in place and in order, and no room in any
datagram but the last for the line that follows it. So the lines of a datagram
and the next line after it, together, exceed the limit, and any allowed way to
cut the lines must cut among them (`CutInEach`); those places are distinct, which
maps the datagrams sent injectively to the cuts of any other way
(`FewestDatagrams`). That no line is lost comes from the definition of
`FlattenSeq`, a function by recursion on the length (`FlattenLines`). TLC found
`PackInv` to hold in all states of `PackLines` before it was proved.

**Sizes.** `MetricsEntries` wraps twice, but never where the kernel accepts both
sizes; the outer lengths fit 16 bits because `max_inner_len` came from some MTU.

**Origin.** A mask shifted into place and the prefix's own masking agree bit by bit,
for any width (`ExactlyThePrefix`).

**Ids.** `IdsInv`: whatever an ID is rendered as, on its way through the commands, it
is rendered from the ID parsed from what was typed. The properties then follow
from what the conversions do. For hex, the lemmas say which digit of the spelling each
digit typed becomes, through bytes and back, for 8 and for 17 digits; the
canonical spelling of any eight bytes is parsed as those bytes (`FormatParsed`).
For base58, `Rebase` is arithmetic of many digits in a recursive function:

* A function defined by recursion is what its steps make of its base
  (`Recursion`, by induction over sets of naturals, like the sums); so digits have a
  number (`Value`), and in a given length one number has one row of digits
  (`ValueUnique`).
* One step of `Rebase`, schoolbook multiplication with carries, makes `v * m + a` of a
  number `v`, less what is carried out of the first place (`MulAddSteps`), and
  nothing is where the result fits the width (`NoneLost`). It does:
  eight bytes fit eleven base58 characters, since `256^k <= 58^(k+3)` up to `k = 8`
  (`RoomForBytes`), and `n` characters fit `n` bytes. So the number stays the same
  (`RebaseValue`).
* Both directions keep how many zeros lead (`RecodedKeeps`), and the number and its
  leading zeros determine the digits (`SameNumber`, `RecodedBack`). So decoding gives
  back any ID that was encoded (`DecodeEncoded`), and what decodes to eight
  bytes is, to the last character, what these are encoded as (`EncodeDecoded`).
* An ID with `z` leading zero bytes takes at most `11 - z` characters after its `z`
  zeros (`EncodedLength`), so the names stay below `IFNAMSIZ`.

TLC found `IdsInv` to hold in all states of the run `arguments` before it was proved.
The theorems cover all IDs of eight bytes, base58 being what the model says the library
does; for the all-zero ID that has not been compared with the library.

**Model-checked only.** Liveness (`LockReleased`, `EventuallyPushed`, `WalkFinishes`,
`ServeEnds`, `GoroutineEnds`) is out of the prover's reach. Every invariant and every
action property that a passing run checks is a theorem.

## Not modelled

* The checks of the outer and GENEVE headers before decap knows the endpoint
  (`_decap.c:114-252`, the origin filter apart): each passes or drops the packet,
  counts it under the uplink's ifindex and changes nothing else. The layout of
  headers in a frame and the bounds checks, which the e2e tests exercise as
  compiled. In `Host` a `Tuple` stands for a flow and for a datagram alike;
  `Datapath` tells them apart, for one endpoint.
* `Datapath` has one run at a time: `Host` has their interleaving. Each run's effect
  is one update of a map, and an entry another CPU replaces meanwhile is
  replaced by a new node, so a run goes on with the header it found.
* `encap` reads the header in the step that looks it up; the code copies it at
  `_encap.c:211`, by when the LRU may have given the node to another key. decap
  compares and rewrites an entry in one step (`_decap.c:406-411`), which writes
  the same value either way.
* `AttachXDP` attaches and pins in one step: between the two the link is held by the
  command's descriptor, which goes with the command, as `AddAttach` failing leaves it.
  A pin that `os.Stat` fails to see is not told from a `Pin` that fails.
* The kernel deleting a veth whose inner end is in a netns that goes away: what the
  backend runs there is taken to keep the netns until the veth is deleted.
* `RemovePinDir` removes all pins or none. Pins are not reloaded under a running
  `serve`.
* Other programs changing veths, netns or pins; reboots (which clear everything
  but nothing else of the model); a `--script` that never returns.
* Each of the library's parts as the code uses it: the batch lookup and the map
  iterator of cilium/ebpf and the kernel (the order of keys that share a bucket
  is that of their ifindexes), `net/http`'s server and shutdown, the netns
  library, base58 (the all-zero ID is left out).
* The warnings `setup` prints; logging; the wording of errors and of health
  answers.
* Generated bindings and compiled objects; build files; tests, which were read
  for what they expect.

## What is left

1. The LRU's node pool: a header copied out after its node was given to another
   key (`_encap.c:211`).
2. Out-of-band deletion of veths and of pins in `Gwlb`.
