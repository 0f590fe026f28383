# Hamara Tunnel: a TLA+ verification project

Hamara Tunnel pairs two Ubuntu servers, an *outside gateway* and an *Iran
edge*, over a link (WireGuard, WireGuard in a TLS WebSocket, "ARA", IPIP, or an
SSH SOCKS proxy), and makes sure that the traffic Xray sends to the link never
leaves the edge by its ordinary WAN route. The Go program is a command line
tool that writes files and calls other programs. What it builds then runs
without it: shell scripts, systemd units, kernel routing rules.

This directory models the parts where the order of steps decides whether the
system is right: the **strict egress guard** of the edge, the **pairing** of the
hosts, the **gateway** as a host that is taken over and given back, and the
**configuration file** that several processes share. A fourth group of
definitions, the **rules of an offer**, says what the two ends make of the same
options. TLC checks them on small instances, two of them against an abstract
specification; TLAPS proves the safety and action properties that those runs
check, and both refinements, for every value of the constants under the
conditions named in Proofs.

## Files

| File | What it is |
| --- | --- |
| `EgressGuard.tla` | the routed edge: kernel, scripts, systemd units, commands; its properties |
| `FailClosed.tla` | what the guard promises, without kernel, scripts, units or commands |
| `EgressGuardProofs.tla` | theorems about the guard and the link, and that `EgressGuard` implements `FailClosed` |
| `EgressGuardCommands.tla` | theorems about repair, leak test and uninstall |
| `Pairing.tla` | gateway and edges: configuration, keys, tokens, peers; its properties |
| `Trust.tla` | what pairing promises, without tokens, files, commands or hosts |
| `PairingProofs.tla` | what a command of `Pairing` has left to do, and types |
| `PairingImplements.tla` | who is admitted; that `Pairing` implements `Trust` |
| `PairingKeys.tla` | theorems about keys, links, tokens and accept |
| `OfferRules.tla` | options, defaults, offer, its validation, and both ends' files, as operators |
| `OfferRulesProofs.tla` | that an offer is valid and that the ends agree, for all options |
| `Gateway.tla` | the gateway host: configuration, sysctls, units, firewall; EXTENDS `OfferRules` |
| `GatewayProofs.tla` | its theorems, for all options, original values and faults |
| `ConfigStore.tla` | `config.json` and its temporary file, call by call |
| `ConfigStoreProofs.tla` | its theorems, for any number of processes |
| `MCEgressGuard.tla`, `MCPairing.tla`, `MCGateway.tla`, `*.cfg` | instances for TLC |
| `PROJECT.json` | components, runs, mutants, the map from definitions to source lines, findings, hazards, theorems |

    tlc -workers 2 -config EgressGuard_ara.cfg MCEgressGuard
    tlapm EgressGuardProofs.tla

## Inventory

Line numbers are of `src/internal/app/app.go` unless another file is named.

| Component | State it keeps | Operations | Interacts with | Modelled in |
| --- | --- | --- | --- | --- |
| Guard script and unit (`render.go` 188-264) | ip rules 109 and 110, the unreachable default of the table, three OUTPUT rejects | `guard up`, `guard down` | systemd runs it; `repair` runs it again beside systemd | `EgressGuard` |
| Routed link on the edge (`render.go` 13-56, 266-325) | `hamara0`, its default route in the table | wg-quick or `ipip up`/`down`; ARA client before it | Requires= and After= the guard | `EgressGuard` |
| Edge commands | unit files, enabled units | `join`, `start`, `stop`, `restart`, `repair`, `leak-test`, `uninstall` | systemctl calls that wait for jobs | `EgressGuard` |
| Pairing (219-609) | `config.json`, keys, mTLS files, `offer.token`/`response.token`, the link file, `authorized_keys` | `init outside` (`--force`), `join`, `accept`, `pairing-token`, `doctor`, `uninstall` | tokens carried by the operator; systemd | `Pairing` |
| Validation and defaults (`model.go` 117-299, 1154-1189, 1415-1445) | none | `ValidateOffer`, `ValidateResponse`, `makeOffer`, `defaults` | init, join, accept | `OfferRules`; the instance check in `Pairing` |
| Token envelope (`token.go`) | none | `Encode`, `Decode` | join, accept | as a record of kind and payload |
| File store (`platform.go` 96-151) | files, and one `.tmp` name for each | `WriteFile`, `SaveConfig`, `LoadConfig`, `RemoveAll` | every command | `ConfigStore` |
| Sysctl capture and restore (1504-1524) | previous values in `config.json`, a drop-in | init, join, uninstall | kernel | `Gateway` |
| Outside firewall and NAT (`render.go` 115-184) | INPUT, FORWARD and NAT rules | `firewall up`, `firewall down` | systemd, `repair` | `Gateway` |
| Gateway's units (772-793, 999-1022) | unit files, enabled units, their states | `init`, `accept`, `start`, `stop`, `restart`, `uninstall` | systemctl | `Gateway`; one link per host in `Pairing` |
| TLS and wstunnel set-up (1191-1322) | certificates, a binary | init, join | certbot, openssl, curl | which mode suits which endpoint in `OfferRules`, mTLS files in `Pairing`; the rest no |
| Xray outbound (`render.go` 351-378) | none | `xray` | the operator's Xray | `OfferRules`, `EgressGuard` |
| Menu, flags, status, logs, paths, installers, release scripts | none | dispatch and printing | | no |

What is hard here:

* **Interleaving.** Nothing locks out a second `hamara`. Two commands' systemd
  jobs replace each other, and `repair` runs the guard's script beside the unit
  whose script it is.
* **Atomicity.** The scripts edit the kernel a rule at a time. Traffic, other
  scripts and kills fall between any two lines.
* **Failure.** A script under `set -e` may stop at a line; some calls' errors
  end a command, others are ignored; a unit whose start failed gets no
  `ExecStop`.
* **Crash and restart.** Commands are killed between two writes. A reboot
  empties the kernel and starts whatever is enabled.
* **Delivery.** Tokens are carried by hand: late, twice, to another host,
  never, or from an instance that has since been replaced.
* **Stale state.** Doctor and the leak test act on what they read before a
  probe of several seconds. Uninstall and init --force read back what an
  earlier command, perhaps a killed one, has left.
* **Shared names.** All processes write the same `.tmp` of the same file.
* **Two paths for one value.** A port goes to the gateway's files directly, and
  to the edge's through the offer.

What makes the components correct: no packet for the link leaves by the WAN
while the guard is active; the link never runs without the guard; nothing but
uninstalling takes the guard down; repair, leak test and uninstall leave what
they say they leave; every command returns; only hosts that answered the
present instance are let in; keys and tokens on disk belong together; what the
gateway took over it can give back, and no rule outlives its configuration; an
offer is one that an edge accepts and can connect with; `config.json` is never
torn. `hazards`
in `PROJECT.json` lists where each of these could go wrong, by line.

## EgressGuard

The kernel is the set `kernel` of Hamara's entries that exist: the two policy
rules, the unreachable default, the link's default, the interface, the three
rejects. `RouteOf` and `Verdict` say what becomes of a packet that carries mark
72, one from the edge address, and an IPv6 one with the mark: sent through the
`link`, `blocked`, or let out through the `wan`. These three kinds are all that
the generated Xray outbound can produce (`render.go` 361-377).

A **script** is a sequence of lines (`GuardUp`, `GuardDown`, `LinkUp`,
`LinkDown`), each an addition or a removal of entries. `Accepts` says when a
line is refused (`ip rule add` of a rule that exists; `wg-quick down` without
an interface), `MayFail` when it may fail. `RunLine`, `FailLine` and `SkipLine`
execute one, for a unit or for the session that runs `hamara repair`. A `while
... del` loop is one line. `SkipLine` is an `iptables -C` that gives up on the
xtables lock in a loop's condition, which the script takes for "no such rule".

**systemd** is a state and at most one job for each unit, with the rules that
matter here: requesting the link's start requests the guard's; stopping the
guard stops the link first; jobs wait for their turn (`InTurn`, from After=,
Before= and Requires=); a new job replaces a conflicting one, whose waiters are
told that it failed; a failed `ExecStart` fails the unit without an `ExecStop`,
and a failed `ExecStop` still ends the stop. These definitions are external, modelled as the unit files and
the calls in `src/` use systemd.

A **command** is a sequence of calls (`Program`). Each call names what follows
its success and its failure, so that the early returns of `ManageLink`,
`RepairGuards` and `Join`, the ignored errors of `Uninstall` and the deferred
start of `LeakTest` are data. `sess` is where each process is; `torn` and
`reloaded` remember for the properties that a repair was cut short and that
another program flushed the filter.

Left out: IPv6 routing (Hamara adds no IPv6 policy rules), a host without
`ip6tables` (the `iptables` package that join installs brings it), the ARA client's
`Restart=always` (it has no kernel state that the properties see), `daemon-reload`
(the two sets of files stand for what systemd knows), the order among files
written or removed together, which `EditFiles` treats as one step, and the
content of the files, which join writes once. The only state
of the link's far end is that a probe may fail for reasons of its own.

| Property | Kind | Says |
| --- | --- | --- |
| `TypeOK` | invariant | types |
| `NoLeak` | invariant | an active guard lets nothing out through the WAN. The exceptions are stated: IPv6 once another program has flushed the filter, IPv4 only if a repair is, or was cut short, between removing and adding rules at the same time |
| `LinkNeedsGuard` | invariant | a link that is starting, up or stopping has an active guard under it |
| `DisarmedOnlyByDisable` | action | the guard leaves `active` only when disabled or by a reboot |
| `RepairRestores` | action | a repair that ends well has put back every policy rule, those of an earlier torn repair included |
| `CriticalIsReal` | action | a CRITICAL of the leak test always has a hole behind it (wg-quick links only, see Proofs) |
| `LeakTestRestores` | action | a leak test that stopped the link does not return before the link is up or its start has failed |
| `UninstallCleans` | action | a finished uninstall leaves no file, no enabled unit and no policy entry or device of units that did not fail |
| `EveryCommandReturns` | liveness | no command waits for ever |
| `EveryJobEnds` | liveness | no job stays queued, at boot or later |
| `FailsClosed` | refinement | all of this is `FailClosed!Spec` |

`FailClosed` has six variables: the guard is `wanted` and `armed`, the link is
`running`, packets are `exposed`, a layer was `flushed`, the other may have a
`gap`. It says what the table above says only in pieces: a link runs only over
an armed guard and never through its disarming, an armed guard is disarmed only
when it is not wanted, and each packet that gets out past an armed guard has
lost every layer that holds it. The mapping is `enabled`, the guard's and the
link's unit states (`LinkRuns`), `Verdict` over the packets (`Exposed`), and the
history of flushes and torn repairs.

## Pairing

One gateway and the hosts on which an operator may run `hamara join`. Each host
runs one command at a time. A command is the list of steps it has left
(`InitSteps`, `JoinSteps`, `AcceptSteps`, `UninstallSteps`, one list per mode, in
the order of the code) with the configuration it holds in memory and the
secrets it is about to write. A step is one action: `GenerateKeys`, `WriteLink`,
`SaveConfig`, `StartLink`, and so on, each one write or one call, so a command
may fail (`FailStep`) or be killed (`Kill`) between any two and the host may
reboot. `tokens` is everything an operator was ever shown: a token is used late,
twice, elsewhere or never because nothing removes it from there.

Keys, pre-shared keys and instance IDs are the number of the command that
generated them. A WireGuard host is identified to its peer by its key; under
IPIP by its address, and an SSH gateway by the system's own host key, both of
which survive an uninstall (`Identity`). `link` is the file, `up` the file as
the running link read it: they differ between a write and a restart, which is
where `systemctl restart` and `systemctl enable --now` part ways.

`RemoveAll` takes its entries one at a time in any order. `TakeDown` and
`RevokePeers` may fail with their errors ignored, as in the code. Left out are
certificates' content, ports, package installation, and the outside firewall
(the last in `Gateway`). One host runs one command at a time: what two at once
do to `config.json` is `ConfigStore`. `Modes` is what the operator may choose
from and `mode` the choice, the same for every `init outside` of a behaviour;
re-initialisation to another mode is in `Gateway`.

| Property | Kind | Says |
| --- | --- | --- |
| `TypeOK` | invariant | types; no token is printed before it is written |
| `LinkedSameInstance` | invariant | packets pass only between hosts configured for the same instance |
| `AdmitsOnlyAnswers` | invariant | whoever the gateway admits, now or after a restart, has answered the offer of its present instance |
| `ReadyEdgeAnswered` | invariant | an edge that calls itself ready, and has its link file, has had its response printed: its link cannot work before |
| `AcceptTakesEffect` | action | an accept that reports success has its peer in the running link |
| `SecretsHandedOver` | invariant | once its offer is answered, the gateway holds neither the CA key nor the client key |
| `TokenIsCurrent` | invariant | the token a host would show again is of its configuration and keys |
| `OnePeer` | invariant | no two edges get through at once |
| `KeepsTrust` | refinement | the gateway is `Trust!Spec` |

`Trust` has an `instance`, the `answers` given so far, and the peers that are
`admitted`. Instances begin and end only while nobody is admitted, and whoever
is admitted answered the instance there is: `AdmitsOnlyAnswers`, and the order of
`Uninstall` and `InitOutside` that keeps it so over re-initialisations.

## OfferRules

Operators only, from the options of `init outside` to what each end renders.
`Screened` and `Prepared` are what init refuses, early and late; `ConfigFor` is
the configuration it builds (`Defaults`, `DefaultPort`, the ports of the mode);
`MakeOffer`, `ValidateOffer` and `JoinConfig` carry it to the edge; `GatewayLink`,
`EdgeLink`, `ARAServer`, `ARAClient`, `SSHClient`, `XrayOutbound` and
`GuardMatches` are what the renderers put into files. `EndsAgree` says that the
results fit. A host is one of the six kinds that some check tells apart. Keys,
certificates, paths and identities are made by external programs and
checked for their form only: left out, as is the listener that init looks for
on an SSH gateway.

## Gateway

The host of the outside gateway with one command at a time. A command is a
sequence of steps (`InitSteps`, `AcceptSteps`, `StartSteps`, `StopSteps`,
`RepairSteps`, `UninstallSteps`); `proc` has those that are left and the
configuration in memory. `--force` uninstalls before the options are looked at,
so `ReadOptions` chooses them after that. The variable `script` is the
configuration that the firewall script on disk was rendered from: systemd runs
the script on disk when it stops the unit, whichever it started with. `UpRun` and
`DownRun` are its lines, and `at` where the two possible runs of it are, the
unit's and that of `repair`, which goes on beside whatever systemd does.

`sysctl` is what is in force, `original` what the host would have without
Hamara; a reboot applies the drop-in or else the original values. `Capture` reads
the values in force, `Restore` writes one back only if the value in force is
still Hamara's and the saved one was read, as in the code.

Faults: kill (a killed command takes its script with it, systemd's work goes
on), reboot, a failing step (unless its error is ignored), a flush by another
program, and the xtables lock, which the script does not wait for.
What the properties need to know of these is kept in `missed` (a run of the unit
ended early or skipped a rule) and `stale` (a flush has overtaken the rules or
a run). Bounds and abstractions: at most one missed run a boot; one set of
original values, one sysctl off, one stricter and one as Hamara wants it; eight
sets of options; link units start and stop in one step; a `sysctl -w` or a
`systemctl disable` that fails, whose errors uninstall ignores, is left out, as
is the server's Restart=always. The edge's join takes over the sysctls with the
same functions in the same order. The SSH gateway is a configuration only.

| Property | Kind | Says |
| --- | --- | --- |
| `TypeOK` | invariant | types; only installed units are enabled |
| `SysctlsRecoverable` | invariant | while a sysctl of Hamara's is in force or in the drop-in, the values to give back are in `config.json` |
| `NothingWithoutConfig` | invariant | without a configuration, nothing of Hamara's runs, is enabled or in force |
| `OnlyConfigured` | invariant | no rule outlives the configuration it was made for, unless a run missed it |
| `FirewallInPlace` | invariant | while the unit is active the rules of the configuration are in place, unless flushed |
| `OfferSound` | invariant | init does not refuse its own offer with the gateway already running |
| `LinkEndsAgree` | invariant | the edge's end fits what the gateway is configured for, at any time |

## ConfigStore

`config.json` with any number of processes. A file is an inode, a name may be
moved or removed while a process has the inode open, and `WriteFile` is its
four calls: `Open` (which truncates), `Write`, `Chmod`, `Rename`. `Update` is a
command that loads, works and saves what it loaded (accept, doctor); `Create` a
new instance (init, join); `Uninstall` and `Remove` the removal of the directory,
in any order, alone or before a new instance. What is written over another
process's text may be shorter and leave its tail (`Mixed`). `overlapped` and
`crossed` remember that two saves ran at once, and that the file was removed
between another command's load and its save: the two races that the missing lock
leaves. The properties say that they are the only ones.

| Property | Kind | Says |
| --- | --- | --- |
| `TypeOK` | invariant | types; two names never name one inode |
| `ConfigWhole` | invariant | the file can be parsed, unless saves have overlapped |
| `RemovedStaysRemoved` | invariant | a removed instance does not come back, unless removal crossed an update or saves overlapped |
| `SavesItsOwn` | action | a successful `WriteFile` publishes its own caller's data, unless saves have overlapped |

`CHECK_DEADLOCK FALSE` is there because the system really may stop: two inits at
once, one of them killed, may leave an empty `config.json`, and from then on
`init` (the file exists), `init --force`, `uninstall` (it cannot be parsed), and
every other command refuse.

## Runs

| Run | Question | States |
| --- | --- | --- |
| `EgressGuard_ara` | one operator, all seven commands, all six faults, three units | 1.7 million |
| `EgressGuard_ipip` | the same where the link's scripts are the IPIP ones | 0.4 million |
| `EgressGuard_liveness` | two processes, failing lines and reboots, with fairness; also that the guard fails closed | 0.14 million |
| `EgressGuard_window` | finding | |
| `EgressGuard_leftovers` | finding | |
| `Pairing_wireguard` | one edge, four identities, kills, reboots and failing steps | 1.6 million |
| `Pairing_ara` | one edge, all four faults, but no wipe cut short and no key left behind | 0.8 million |
| `Pairing_two_edges` | two edges and a gateway, all in SSH or all in IPIP mode, kills | 3.8 million |
| `Pairing_reaccept` | finding | |
| `Pairing_revoke` | finding | |
| `Gateway` | one gateway, eight sets of options, all faults | 3.0 million |
| `ConfigStore` | two processes, three instances, kills and failing calls | 3.4 million |

Every property of a passing run has a mutant in `PROJECT.json`: a plausible bug
in a definition (a dropped After=, a script without its fallback route, a leak
test without its deferred start, keys deleted after the token is shown, ...)
with which TLC finds it violated.

**Bounds.** `EgressGuard` has none but the number of sessions: its state is
finite, and histories of commands, reboots and faults are of any length. Two
sessions are enough for a script to meet another, a job to replace another, and
a check to be overtaken. Kills, repairs and flushes are left out of the run with
two sessions for the size of its state space; `TypeOK`, `NoLeak`,
`LinkNeedsGuard`, `DisarmedOnlyByDisable` and `FailsClosed` are proved with them,
for any number of sessions. `MaxMinted` in `Pairing` is the number of
`init` and `join` commands: three are an init, a join and a second of either,
so an old token can meet a new instance; four let both hosts be replaced. The
theorems have any number of edges and of `init`s and `join`s.
Symmetry is over sessions and edges, which nothing distinguishes, and only in
runs without liveness properties. The `Gateway` needs no bound on histories: its
state is finite but for the options, which are one of each kind that init
treats differently, three of them refused; the theorems have all options. `ConfigStore` has three instances: one
on disk, one in memory and one that was removed. Its four inodes are more than
two processes can hold with the two names; the proofs have any number.

**Fairness** (`Fairness`, liveness run only). A started command goes on: weak
fairness for each session's own steps. systemd takes its jobs in turn: strong
fairness for each unit, since a job goes back to the run queue whenever the one
it waited for ends, and another session's requests may disable and enable it
again. No fairness is assumed of operators, kills, reboots, faults, or a line
failing. `EveryJobEnds` excludes a host that reboots without end.

Deadlock is checked in every run but `ConfigStore` (see there): an operator may
always begin another command.

## Findings

* `EgressGuard_window`. `README.md:60` says that Linux cannot fall through to
  the WAN route. `guard up`, run on an active guard by `hamara repair`, removes
  both policy rules before it adds them (`render.go` 224-226). If the reason for
  the repair is the documented one, a rebuilt iptables (`docs/OPERATIONS.md:53`),
  the rejects are gone as well, and for those lines nothing holds the traffic.
* `EgressGuard_leftovers`. `README.md:840` says that uninstall removes the
  firewall rules. They are removed by `ExecStop`, which does not run for a guard
  whose start failed half-way.
* `Pairing_reaccept`. After a second accept on an IPIP gateway, "The Hamara link
  is now enabled" (588) is printed while the running tunnel keeps the old peer:
  `enable --now` (575) does not restart an active unit.
* `Pairing_revoke`. `README.md:840` says that uninstall removes the SSH account.
  `userdel` refuses while a process of the account runs, and its error is
  ignored (968).

## Proofs

`EgressGuardProofs` proves, for every mode, any set of sessions, any set of
commands and any faults, under the four assumptions of `EgressGuard` (which TLC
evaluates in each run):

* `TypeCorrect`: `Spec => []TypeOK`. The invariant is `TypeInv`. It adds that a
  session is at a call of its command, that it runs a script only while it waits
  at the call that runs one, and that a unit has a place in its script exactly
  while it starts or stops. Without these the steps' successors are not typed.
* `LinkNeverAlone`: `Spec => []LinkNeedsGuard`. Not inductive: that the link is
  not started early depends on the jobs. `JobsInv` says that a queued start of
  the link has a guard that is active, or whose own start is still queued; the
  link's turn then comes only after the guard's job has ended well.
* `NothingLeaks`: `Spec => []NoLeak`. The invariant `LeakInv` is `TypeInv`,
  `PolicyInv` (which policy entries an active or starting guard has, unless a
  repair is between removing and adding them or was torn) and `FilterInv` (which
  rejects, unless the filter was flushed). Both speak of `Raised`, the line that
  the guard's start has come to, and so grow line by line with `GuardUp`. The proof goes by
  actor: a line of the link's scripts keeps the policy (`LineKeeps`), a line of
  the guard's start adds its own (`LeakGuardLine`), a line of a repair removes
  rules only in the window (`LeakRepairLine`), and the remaining actions change
  neither kernel nor window (`LeakQuiet`). Scripts are sequences of given length,
  so no induction over data is needed.

* `Implements`: `Spec => FailsClosed`. Every step of the edge is a step of
  `FailClosed` or a stutter. What the refinement adds to the two invariants is
  how the guard is disarmed: not under a link, and not while enabled (`StopInv`:
  no program stops the guard but with a disable, and an enable replaces a queued
  stop). `FailingClosedIsSafe` proves that `FailClosed` is enough for `NoLeak`
  and `LinkNeedsGuard`.
* `StaysArmed`: `Spec => DisarmedOnlyByDisable`, from `StopInv` and from
  `UnitEffect`, which says what a unit's step can do to the states and jobs.

`EgressGuardCommands` proves the four properties of single commands, for every
mode, all commands, all faults and any number of sessions. Commands may have been
killed anywhere, units may have failed, the host may have been rebooted, systemd
may be at work on jobs that nobody waits for, and other commands may run beside
the one in question, but for those that undo what it does. `NoneBeside(c, D)`
says that beside a session that runs `c` none runs a command of `D`:

| theorem | command | not beside it | may run beside it |
|---|---|---|---|
| `RepairsRestore` | repair | repair, uninstall | start, stop, restart, join, leak test |
| `CriticalsAreReal` | leak test | `Starters`: join, start, restart, repair, leak test | stop, uninstall |
| `LeakTestsRestore` | leak test | `Stoppers`: stop, restart, leak test, uninstall | start, join, repair |
| `UninstallsClean` | uninstall | `Starters` | stop, another uninstall |

Each entry of the third column is needed: without it TLC finds the property
violated, with two sessions in WireGuard mode, faults `kill`, `reboot` and
`lineFails`. An uninstall disarms the guard under a repair's script, a second
repair removes the rules that the first has added, a start gives the probe a
link, and a stop replaces the deferred start, whose caller then returns with the
link down. Nothing in the code keeps an operator from running two at once.

Each property rests on an invariant about what the command has done when it has
come to a call. `Answered` says what a call's success or failure tells of the
unit it was about; `OthersEffect`, `Asks` and `Asked` say what a session can do
to the others: replace a request by its opposite, if its command makes such.

* `RepairsRestore`. `RepairInv`: the script runs on an active guard that nobody
  has asked to stop, so no unit edits the policy; `PutBackInv` follows its lines.
* `CriticalsAreReal`. `ProbesInv`: while the probes are sent the link is down
  and nobody has asked for its start. `DeviceInv`: the link's route is there only
  with its device, and the device only while the unit has it. So no probe finds
  the link's route, and the policy of `LeakInv` blocks it. `DeviceInv` needs
  wg-quick, which removes the device itself when it is cut short, and the theorem
  excludes IPIP: there the property is false. `hamara-ipip up`, killed by a stop
  after its route was added, leaves the route; the unit is failed, for which
  `systemctl stop` runs no ExecStop; the leak test's `ip route get` then answers
  with `hamara0` and the test reports CRITICAL although nothing leaves by the WAN.
* `LeakTestsRestore`. `RestartInv`: the units that the deferred start needs are
  installed from the moment the stop was asked for, so the last call is answered
  by systemd, and no request replaces it.
* `UninstallsClean`. `GuardGone` and `LinkGone`: a stop has removed what its
  lines have come to, and an inactive unit has nothing left. `UninstallInv`: the
  units that uninstall has gone past are down, disabled and without a queued
  start (`Over`), so no job or boot brings them back, and without unit files all
  of them are. `UninstallBeside`: other sessions leave this as it is.

The three pairing modules build on one another. A host's command is the list of
its steps that are left, and `Typed` (`PairingProofs`, `TypeCorrect`) says that
the list has only the command's own steps in the order of their rank, so the
step at the head tells which are done and which are ahead. The safety invariants
are about the set of those steps (`Left`), and each is proved action by action.

* `AdmitsAnswers`: `[]AdmitsOnlyAnswers`. `Trusted` adds that nobody is admitted
  once the steps that dismiss peers are done (`Cleared`), that an instance which
  is being made has not been heard of yet (`Starting`), and that an accept that is
  under way goes by an answer to the instance on disk (`Accepting`).
  `PairingImplementsTrust`, `Spec => KeepsTrust`, follows from it.
* `LinksSameInstance`, `AdmitsOnePeer`, `ReadyWasAnswered`. `Paired` adds who may
  hold a key (`Claims`): an edge's link file, running link, configuration, command
  and response go by one identity and one instance. `Single`: an SSH gateway has
  one entry in `authorized_keys`, and an IPIP link is named by its host's address.
* `ShowsCurrentToken`. `CurrentAt`, for each host by itself: the token on disk is
  of the configuration and keys, but while a wipe is under way; a command that
  makes an instance writes its token after both and over no other.
* `HandsSecretsOver`. `Handed`: secrets that must go are gone, or there is no
  token of their instance to show, or init has written it and deletes them next
  (`Withholds`). `Fresh`: until then a token that a wipe has left is of an older
  instance, so to show it tells nobody of this one.
* `AcceptApplies`: an accept that is about to save has restarted the link it
  wrote (`Applied`).

Their hypotheses are conditions on the faults, not on the code. The first three
groups suppose that no error is ignored: when `systemctl disable` or `userdel`
fails unnoticed, the link or account of a removed instance lives on
(`Pairing_revoke`). `ReadyWasAnswered` speaks of the modes that make keys: an
IPIP edge is known by its address, whichever instance it joined. `ShowsCurrentToken`
and `HandsSecretsOver` have every fault and exclude a single step each: a kill or
a reboot in a wipe that has not come to the token (`CutShort`), and one of the
gateway between the token and the deletion of the keys (`LeftBehind`). With that
step each property is false, as TLC shows, and `hazards` lists the two places;
`UncutSpec` of `MCPairing` is the specification without either. `AcceptApplies`
has every fault but only WireGuard and ARA gateways, because of the finding
`Pairing_reaccept`. The runs check each property within these conditions.

`GatewayProofs` proves all seven properties of `Gateway` for every set of
options, all original values and all faults, under the three assumptions of
`Gateway`. They are not inductive, because a command may end anywhere. `Owed`
says, of each step that is left in the command's list, what must hold by the
time the step comes, or which step before it will bring that about. Before
`config.json` is wiped, for instance, each sysctl is the host's own or has a
restore ahead (`OwedToSysctls`), and before the unit files are unlinked each
unit is off or has a disable ahead (`OwedToUnits`). A command begins with
nothing owed, a step does what is owed after it, and the step at the head has
nothing before it. `Files`, `Sysctls` and `UnitsUp` tie configuration, drop-in,
script and units together; `Runs` and `Rules` follow the two runs of the script
line by line: a rule is there or still ahead of the run that adds it, unless a
flush has overtaken it (`stale`) or a run missed it. `SysctlsComeBack`,
`NothingLeft`, `NoOtherRules` and `FirewallStaysInPlace` follow from them;
`OfferIsSound` and `LinkAgrees` from `Files` with the theorems on the rules of
an offer.

`ConfigStoreProofs` proves all four properties of `ConfigStore` for any set of
processes, inodes, and any number of instances. The invariant is `IInv`. `Alone`
says why one temporary name is enough as long as saves do not overlap: the only
process that is saving has the inode that the name stands for, if it still
stands for one, nobody else has it, and it is not that of `config.json`. `Kept`
says why a removed instance stays away: whatever is in memory to be saved has an
identity that was not removed, and a new one is nobody else's. The two are
disjuncts with `overlapped` and `crossed`, and proved action by action.

`OfferRulesProofs` proves for every mode, endpoint, port and TLS mode that init
does not refuse, that `ValidateOffer` accepts the offer (`OfferIsValid`) and that
the two ends agree (`EndsAlwaysAgree`). There is no state: the proof is a case per
mode. `GatewayProofs` takes them to the invariants `OfferSound` and
`LinkEndsAgree`, which TLC checks with the eight sets of options of its run.

Only model-checked: liveness (`EveryCommandReturns`, `EveryJobEnds`), which is out
of the prover's reach, as are ENABLED and induction over data; and the four
findings, which are counterexamples.

## Not modelled

* The content of keys, certificates, host names and tokens: external programs
  make it, and the code checks its form only.
* Loss of cached writes at a power cut (`WriteFile` does not fsync), and clocks
  (`validMTLSMaterial` compares the certificate's dates with the edge's).
* Pairing across modes: after a wipe that was cut short with `config.json` gone,
  `init` in another mode uninstalls nothing, and the mutual-TLS keys stay.
* The gateway's firewall at boot: it is not ordered before wg-quick, and
  `FirewallInPlace` speaks only of the time its unit is active.
* The SSH account's own set-up: sshd's drop-in, its syntax check and reload, the
  moment at which authorized_keys belongs to root (1409-1412), and an account
  that is left when init fails after creating it and before it has saved a
  configuration that would tell uninstall of it (323-332, 967).
* The menu, flags, status, logs, paths and installers, which print, dispatch or
  copy files; package installation, WAN detection and the root check.

## Plan

1. *Pairing across modes.* A mode in each host's configuration instead of one for
   the behaviour: `init --force` to another mode then also finds what a wipe that
   was cut short has left of the old one, the mutual-TLS keys among it.
2. *Extend.* A failing `sysctl -w` at uninstall, the sshd drop-in with its
   syntax check and reload, and the edge's sysctls beside its guard.
