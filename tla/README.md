# A TLA+ verification of oc-daemon

oc-daemon runs `openconnect` on behalf of D-Bus clients, configures the system
for the VPN tunnel, and polices traffic while there is no VPN and the network is
not trusted. It is a Go program of a dozen goroutines that talk over channels, most
of them unbuffered, and to processes, sockets and the kernel. What makes it
correct is mostly the order in which these parties act. This project models
that: TLA+ modules translated from the source, TLC runs on small instances, and
TLAPS proofs for instances of any size.

`PROJECT.json` lists components, runs, mutants (code changes each property
detects), the lines every definition models, findings, hazards and theorems.

## Inventory

| Component (source) | State | Operations | Interaction | Correct when |
|---|---|---|---|---|
| daemon main loop (`internal/daemon/daemon.go`, `vpnconfigupdate.go`) | VPN status, server address and whether policing lets it through, `disableTrafPol`, profile, `trafpol`, `tnd`, active VPN configuration | one handler per `select` case; deferred shutdown | receives from socket server, D-Bus, TND, runner, sleep and profile monitor, captive portal detection; calls TrafPol, TND, VPNSetup and the runner | the reported status, traffic policing and the VPN configuration agree with each other and with openconnect |
| OpenConnect runner (`internal/ocrunner`) | command, its process, PID file, goroutine in `Wait` | connect, disconnect, exit, stop | commands, exits and events on unbuffered channels | no process lost, no exit swallowed or doubled, Stop returns |
| socket server (`internal/api`) | listener, connection being served | accept, read, forward, reply, shutdown, stop | scripts connect, requests go to the main loop | every request is answered or closed |
| vpncscript (`internal/vpncscript`) | – | one request per run | started by openconnect, which waits for it | sends what openconnect told it |
| VPN setup (`internal/vpnsetup`) | goroutine, `ensureConfig`, nftables set, DNS settings | setup, teardown, set excludes, ensure | called by the daemon; starts split routing and the DNS proxy; runs commands | active after setup, kept active, gone after teardown |
| split routing (`internal/splitrt`) | static and dynamic excludes, devices, addresses | start, device and address updates, DNS reports, timer, stop | two monitors, DNS proxy reports, prefixes to VPNSetup | excludes complete, disjoint, current; TTLs respected |
| DNS proxy (`internal/dnsproxy`) | watch list with temporary names, remotes, open reports | query, report, set remotes and watches, timer, stop | reports to VPNSetup and waits; handlers share the watch list | every query answered, its address excluded first, also when aliases lead to it |
| traffic policing (`internal/trafpol`), captive portal detection (`internal/cpd`) | allowed addresses, names, devices; resolver; detection | start, update, resolve, detect, stop | monitors; status to the daemon | exactly the allowed traffic passes |
| D-Bus service (`internal/dbusapi`) | properties, requests | connect, disconnect, dump, set property, stop | clients, main loop | requests are completed, properties current |
| clients (`internal/client`, `pkg/client`) | a command's progress; status of a subscription | connect, disconnect, reconnect, dump-state; subscribe, close | D-Bus calls and signals | every command ends, a subscriber's status is the daemon's |
| daemon command (`internal/daemon/cmd.go`) | the process | start, stop, exit | the daemon | a start repairs what a crash left |
| monitors (`devmon`, `addrmon`, `dnsmon`, `profilemon`, `sleepmon`) | subscription | forward events, stop | kernel, files, D-Bus | no event lost, stop returns |
| command templates, configuration | data | – | – | – |

What is hard to test here, in the order of importance:

- two goroutines that send to each other on unbuffered channels (daemon and
  runner, VPNSetup and split routing, server and main loop);
- openconnect waits for its script, the script for the server, the server for
  the main loop, the main loop for the runner, the runner for openconnect;
- openconnect exits or is killed at any point, with scripts still running;
- a component whose start fails is stopped later;
- several handlers change traffic policing; its status, its allowed addresses
  and the current server must stay together through every order of them;
- overlapping networks that come and go; timers that meet young entries; an
  update on its way while the next one is computed;
- the daemon dies between two commands of a handler, while openconnect, the
  configuration of the host and the subscribers live on;
- DNS handlers that share temporary watches with each other, with a timer and
  with a change of the configuration;
- clients that check a status and act on it later, and signals that are lost or
  overtake each other.

The list with lines is in `PROJECT.json` under `hazards`.

## Modules

| Module | Models | Properties proved in |
|---|---|---|
| `Runner` | the runner's goroutine, its process, the waiting goroutine and the PID file, with the most general user | `OCDaemonProofs` |
| `Daemon` | all handlers of the main loop as operators on the daemon's record `d`, and the deferred shutdown, with the most general environment | `DaemonProofs` |
| `DaemonLife` | `Daemon` over several lives of its process: `Start` with its error labels and clean-up, crashes inside handlers, what is left on the host, surviving openconnect processes, PID file and token | `DaemonLifeProofs` |
| `OCDaemon` | composition: `Runner` and `Daemon` joined at their channels, openconnect's phases, its scripts, the socket server | `OCDaemonProofs` |
| `VPNSession` | abstract: the life cycle of a VPN connection as a user may rely on it | – |
| `OCSession` | the refinement mapping from `OCDaemon` to `VPNSession` | `OCSessionProofs` |
| `DBusAPI` | the D-Bus service: its goroutine, properties and methods, and the status updates of the main loop | `ClientProofs` |
| `Client` | composition: `DBusAPI` with the commands of oc-client and a subscriber of the client library | `ClientProofs` |
| `DNSProxy` | handlers, watch list, its timer, remotes | `DNSProxyProofs` |
| `SplitRouting` | excludes, local networks and the goroutine of split routing | `VPNSetupProofs` |
| `VPNSetup` | composition: `SplitRouting` with VPNSetup's goroutine, `ensureConfig`, DNS queries, commands | `VPNSetupProofs` |
| `CPD` | the captive portal detection's goroutine and its probes | `TrafPolProofs` |
| `Resolver` | the resolver's goroutine, its updates and their workers | `TrafPolProofs` |
| `TrafPol` | composition: `CPD` and `Resolver` with the main loop of traffic policing, its start and stop, and the filter in nftables | `TrafPolProofs` |
| `MCDaemon`, `MCOCDaemon`, `MCVPNSetup`, `MCDNSProxy` | constants for TLC, and the statements of docs and comments that the violation runs refute | – |

### How the code appears in them

**Goroutines.** Each has a program counter: `rpc` (runner), `dpc` (main loop),
`srv` (server), `vpc` (VPNSetup), `ensure` (`ensureConfig`), `spc` (split
routing), `query[q].pc` (a DNS handler), `tpc` (traffic policing), `cpc` and
`ppc` (detection and probe), in `Resolver` `rpc`, `upc` and `job[n]` (resolver,
update, the worker that has a name), in `DBusAPI` and `Client` `lpc` (main loop), `spc`
(service), `meth[c].pc` (a method), `op[c].pc` (a command), `mpc` and `gpc`
(Subscribe or Close, and the goroutine of the subscription), in `DNSProxy`
`h[g].pc` (a handler) and `vpc`. An action is what a goroutine does from
one blocking operation to the next. A send on an unbuffered channel is one
action of both parties: `Runner` has the runner's halves (`RecvConnect`,
`EventReceived`, ...), `OCDaemon` conjoins them with the daemon's; in the same
way `TrafPol` conjoins its handlers with `ResolveRequested`, `ProbeRequested`,
`ReportSent` and `UpdateTaken`. A party that
arrives first waits in its own program counter, so waiting in a circle is
visible.

**Handlers.** A handler of the main loop that blocks nowhere is one operator
from the old record to the new one, named as in the code (`UpdateVPNConfigUp`,
`CheckTrafPol`, `StopTND`). Handlers that send a command to the runner leave
their remainder in `dcmd` and continue at `CommandSent`. A handler that returns
an error ends the main loop (`Handled`): the deferred functions follow, and they
hang (`dpc = "hung"`) where the code waits for a loop that never ran. A nil
request, from a closed channel of a failed listener, is dereferenced:
`dpc = "panic"`.

**Lives.** In `DaemonLife` the host is a set of the things the commands add
(link, tables, routes, rules, DNS, filter). A crash leaves any state that a
prefix of a handler's commands can leave; the clean-up of the next start can be
interrupted as well. The token that `initToken` draws is the number of the life;
two lives never draw the same one. In `DBusAPI` a crash takes the name off the
bus, which answers the callers, and nothing resets the properties then.

**Requests of other clients.** `OtherRequest` calls methods without checking
anything before, as any D-Bus client can. In `Client` the sends of the main loop
to the runner are taken to be received; `OCDaemon` and the run `stalemate` are
about when they are not.

**Aliases.** `DNSProxy` takes a request through the critical sections of the
code: one per question to the watch list and one per change of it. Questions for
records of a type that the current pass does not look for have no effect and are
left out. Time passes in units (`Tick`), seconds in the code. The timer of the
temporary watches goes off when at least `Interval` units have passed since it was
last set; it may be late, by any time, and never early. `known`, `used`,
`crossed` and three fields of a handler are histories for the properties: how long
the host may still use an alias record, counted from `WriteMsg`, when it gets the
reply with its full TTL; which records have been seen since a flush; whether a
handler was overtaken by a flush; which aliases of a reply the list has to cover
(`links`) and how long ago the reply came (`age`).

**Failures.** Starts of traffic policing and TND fail (`StartFails`), openconnect
is killed (`OCCrashes`), requests are unreadable (`ReadFails`), the listener fails
(`ListenerFails`), commands fail (`CmdsFail`), monitors fail to start
(`MonitorsFail`), DNS settings are lost (`Drifts`).

**Data.** Hosts are model values. A VPN configuration is the process it came
from and its flag. A prefix is a host address with the set of addresses of
its network, which keeps what `netip.Prefix` tells apart (two different
prefixes can denote one network) and what `Overlaps`, `Contains` and `Bits`
compute. A TTL is counted in periods of the excludes timer, rounded up the way
the code's subtraction in periods behaves; the lifetime of a resolved name in
periods of the resolver's timer. The names in an update are a function from
names to what their worker is doing, and the number of workers limits how many
are being looked up. A domain name is a model value with the set of domains it
is in, a reply a sequence of records, a TTL there a number
of units of time.
Of the 16 D-Bus properties the four that clients act upon are kept, of a
signal of another one its place in the channel. A lookup fails, finds nothing or returns one of a set of
answers; a probe reports a portal or none. `hosts`, `devs` and `ports` are the
sets in nftables, next to `allowAddrs`, `allowNames` and `allowDevs` of the main
loop, so that they can differ; `fails` names the command lists whose last
command failed.

**External.** openconnect, the operating system's processes, `nft` and
`resolvectl`, TND: modelled from how the code uses them.

## Runs

`tlc -config <cfg> <module>`; the largest, `setup`, `trafpol` and `dnsproxy`, take one to three minutes on two workers.

| Run | Question | Result |
|---|---|---|
| `daemon` | Over three lives, with failing starts and crashes anywhere: do allowed addresses, status, configuration and policing stay consistent through any order of handlers; does a start, a failed start and a shutdown leave exactly what the daemon knows of; is a surviving openconnect with a saved PID interrupted; are its scripts ignored? | yes |
| `faults` | Two sessions with kills of openconnect and a failing listener: can the runner lose a process, can a connect meet a busy runner, can the daemon believe that openconnect is gone when it is not, is the PID right, does a stopped daemon leave a process, is Connected always configured for the current session, does the composition implement `VPNSession`? | no, no, no, yes, no, yes, yes |
| `client` | Does a subscriber's status converge to the daemon's over stops, crashes and restarts; is a connect ignored because of the client's own earlier one; do commands and Close return? | yes, no, yes |
| `dnsproxy` | Is every address of a watched name reported, over aliases that other handlers saw before; is a watch of an earlier configuration left? | yes, no |
| `liveness` | Does a stopped daemon terminate, is an exit cleaned up, does a disconnect end the session? | yes, except in the states below |
| `setup` | Overlapping local networks, DNS answers and timers, commands and monitors that fail: are static excludes disjoint and local ones current, does nftables get every exclude, does an entry live as long as its TTL, is nothing left after a teardown? | yes |
| `setup_liveness` | Does a teardown return, is every query answered, are lost DNS servers and domains restored? | yes |
| `trafpol` | Main loop, resolver, workers, detection and daemon in any order, with failing commands and monitors: does nftables have the hosts and devices that were recorded, do the portal's ports follow the detection, does the daemon know the status, is a resolve request lost, is anything left after a stop? | yes, yes, yes, no, no |
| `trafpol_liveness` | Does Stop return, does a DNS update lead to new lookups and a new probe, does a change of the portal reach the daemon? | yes |

The violation runs show where the code differs from what its documentation or
its comments say; `findings` quotes the lines.

| Run | What the code does |
|---|---|
| `stalemate` | a disconnect request is handled while the runner offers the disconnect event: the main loop blocks on the command, the runner on the event, for good |
| `hang` | `TrafPol.Start` fails, the loop ends with the error, and the deferred `stopTrafPol` waits for a loop that was never started |
| `local_networks` | two local addresses in one network: when the first is removed, the network is not excluded any more |

Other behaviour the models have that a reader of the documentation may not expect,
without a run of its own:

- openconnect is killed while its script runs, and the next session is started
  before the script's request is handled: it gets the old configuration, even over
  one that is already set up, since a request does not say which process it
  belongs to (`SessionConfigured` and `VPNSession!Configure` name the case).
- `Start()` that fails in `checkTrafPol` or `checkTND` runs through two labels
  that both stop the socket server: the second closes a closed channel and the
  process panics (phase `panicked`; daemon.go:1054-1070). Nothing is left on the host.
- An openconnect that was started but whose PID was not saved, because the
  daemon died in between or the file could not be written, is not found by the
  next daemon. `src_valid_mark` is set by the setup and never reset.
- A status change between `Query` and `AddMatch` in `Subscribe` is lost, and the
  subscriber keeps an old status until the next change (client.go:347-364).
- `Subscribe` that fails leaves the client flagged as subscribed, and `Close`
  waits for a goroutine that was never started: `oc-client monitor` hangs when
  the daemon is not there (client.go:341-361, 602-614).
- The channel of signals holds 10; the service emits 16 at its start. Signals
  that do not fit wait in goroutines of the D-Bus library and can overtake each
  other, so that an old value can be the last one.
- `reconnect` fails when the VPN ends between its own query and that of
  `disconnectVPN` (internal/client/client.go:118-122). A connect request that
  comes second is ignored and answered with success.
- DNS proxy: aliases in a reply are followed in the order of the reply; a chain
  in another order, or an alias the host had got before the name became watched,
  is missed. A temporary watch ends at the earliest `Interval - TTL % Interval`
  seconds after the TTL of its record, which is one second for a TTL of 9
  (watches.go:84-94), while the host counts the TTL from when it gets the reply,
  and that waits for the reports of its addresses: a reply held back for more than a second
  may outlive its watch. A record of another alias with a smaller TTL shortens
  the watch of their common target; the decreasing TTLs of a caching resolver do
  not, for the record the host already has ends at the same time. `NoAddressMissed`
  names both exceptions, and they are tight: with a reply held back for two units, or a
  replaced watch that is one unit shorter, TLC finds a missed address. Names are compared with their case. A handler that asked the list just before a flush
  adds its watch after it, and requests that come while there are no remotes
  get no reply.
- DNSMon that fails closes its channel, and traffic policing then handles DNS
  updates without pause (dnsmon.go:60).
- A monitor of split routing fails to start: teardown waits for a goroutine that
  was never started (`TeardownReturns` fails with `MonitorsFail = TRUE`).
- A VPN configuration with the exception flag does not stop traffic policing that
  is running, since `updateVPNConfigUp` does not call `checkTrafPol`; and the next
  configuration without the flag enables it again without a restart
  (docs/development/traffic-policing.md:6-8).
- A DNS answer is released when VPNSetup has received the new prefixes, before
  `nft` has run: the first packet to the address can be faster than its exclude
  (splitrt.go:176; dnsproxy/report.go:24 and docs/development/split-routing.md:55
  describe what is to be avoided).
- `ensureConfig` finds a lost default route and sets it with
  `{{.VPNConfig.Device}}`, which is not the device's name (command.go:520; the setup
  uses `{{.VPNConfig.Device.Name}}`, command.go:467): with
  `Drifts = {"defaultRoute"}` it is never repaired.
- `AddAllowedAddr` returns true although `nft` failed. The filter is complete
  again with the next command that succeeds, since each sets the whole set.
- A probe may outlive `cpd.Stop`: nobody waits for it. It sends nothing any more.
- A profile update that removes TND keeps its last result: after a trusted
  network, traffic policing stays off on every network (`stopTND`).
- Expired dynamic excludes stay in nftables until something else changes, since
  the result of `cleanup()` is not used (docs/development/split-routing.md:60).

### Bounds

- `MaxSessions = 2` (processes ever started; the bound is in the guard of
  `handleConnect`). The hazards between sessions need an old process or script
  and a new one, never a third. The safety properties are proved for every
  value.
- One or two hosts, one of them always allowed: a current server that is also a
  configured host, and one that is not. Proved for any sets.
- `MaxLives = 3`: a crash, a start that fails or dies in its clean-up, and one
  that succeeds; two processes.
- Clients: one active at a time against requests of others, so that it can be
  overtaken but not by itself; two lives; a channel of one signal and one that
  waits, so that signals overtake each other; the property followed is the VPN
  configuration, one of those that a handler sets together with others.
- DNS proxy: two handlers, a watched domain that is an alias (DNAME) of another
  one with two names, of which one is an alias (CNAME) of a third, one
  configuration that comes and goes. An interval of two units and TTLs of 0, 1
  and 3: below the interval, above it, the largest in its interval (so that the
  watch has no reserve but the one unit), and, for the DNAME, two different ones, so
  that an answer shortens the watch of another. Replies are in the order of a recursive
  server.
- Two addresses with their common network: equal, nested, disjoint and equal
  networks under different addresses. A real and a virtual device, of which only
  the virtual one's networks are excluded (`VirtualOnly`). Proved for any devices
  and any laminar family of networks, which is what CIDR blocks are.
- `MaxTTL = 1` period, so that an entry is young, old and expired; one query.
- Traffic policing: one name, two answers, of which one is also the address that the
  daemon adds and removes, so that an address has two reasons to be allowed;
  `ResolveTTL` of two periods, so that a periodic update finds the name young and
  old; failing commands for the hosts and the rules; the loopback device and one
  other. The liveness run has one answer, no
  failures and no address commands. Proved for any of these.
- The liveness runs use one session, one device, one query, and no failing
  commands: with commands that fail for ever nothing is repaired.
- There is no state constraint. `dnsproxy` is symmetric in its handlers, which
  only an action's parameter and a function's domain name; it has no liveness property.

`CHECK_DEADLOCK FALSE` is set because the system stops: a daemon that was stopped
has no step left, nor has one that hangs or crashed. What must not stop is stated
as a liveness property instead.

### Fairness

Weak fairness for goroutines and scripts that can go on; strong fairness for
cases of a `select` that compete with others, since Go chooses at random among
the ready ones. In traffic policing these are the cases for reports, status,
resolver updates and the end of its main loop; the daemon, whose main loop never
waits for traffic policing except in `Stop` and address commands, takes the
status. Lookups and probes end (both have timeouts). openconnect terminates once it was interrupted or has run its
last script. The commands `ip`, `nft` and `resolvectl` are assumed to terminate: the code
runs them without a timeout (`context.Background()` in trafpol.go:286,
vpnsetup.go:391 and daemon.go:988). Nothing is
assumed of users, networks, timers, profile changes, TND, suspend and resume.
In `Client` a command that has been given goes on, the D-Bus library delivers what
it has, and a daemon that was stopped stops; the main loop's case for a request is
strongly fair, as it competes with the others. Nothing is assumed of a daemon's
start or crash. The user of a subscription reads its updates until he closes it.
The liveness properties exclude, by name, the stalemate, the hang and the panic
that the violation runs exhibit.

## Refinement

`OCSession` maps the composition to `VPNSession`: `open` is that the main loop is
running, `config` the active configuration, and `stage` follows from the
processes and from what the daemon believes: off, asked for, live, dead and not
yet noticed, or left behind by a stopped daemon. `ImplementsSession` says that
every step of the twenty-odd actions of daemon, runner, openconnect, scripts and
server is one of seven abstract steps or none: a connect only from off with
nothing configured, a configuration only in a live or not yet noticed dead
connection, an end that removes it. It is the strongest statement about
sessions here; a teardown that is missing anywhere, or a setup handled at the
wrong time, makes a step that is none of the seven.

## Proofs

`tlapm <module>` checks them. Each goes through an inductive invariant.

- `OCDaemonProofs`, first part: the runner with a user who may send any command
  at any time, from `MaxSessions` being a positive number. `RunnerInv` is the type
  invariant with `NoProcessLost`, `EveryCommandWatched`,
  `ReportedMeansGone` and where the waiting goroutine may be relative to the
  process. `NoProcessLost` alone is not inductive: that a command is cleared only
  after its process died is a fact about the waiter.
- `DaemonProofs`, from the sets of hosts and profiles being what their names say.
  `DaemonInv` joins the properties and adds which fields go together
  (`serverIPAllowed` with running policing, PID with OCRunning). One lemma per
  handler says what it keeps and establishes, so that the proof of the step is
  one case per handler.
- `OCDaemonProofs`, second part. `OCDaemonInv == RunnerInv /\ DaemonInv /\ Requests /\ Link`.
  Every step of the composition is a step of the runner with its most general
  user and of the daemon with its most general environment, or leaves them
  alone: theorems `ImplementsRunner` and `ImplementsDaemon`. So all theorems of
  the two modules hold in it. `Link` relates what the daemon believes
  (OCRunning, OCPID, a command it is about to send) to the runner's state, which
  neither component can know alone; `Requests` relates scripts, backlog and
  server.
- `VPNSetupProofs`, from the networks being laminar and MaxTTL a number.
  `SetupInv` joins types, `StaticDisjoint`, `NothingLeft` and three parts:
  `Pipeline` (an exclude is in nftables, or in an update on its way that will
  bring it), `Locals` (an interrupted update of the local networks, plus what is
  left to add and to remove, gives the wanted ones) and `Phases` (which
  goroutines are there in which phase of setup and teardown). `TTLInv` ties an
  entry's counter and its `updated` mark to the time that has passed since its
  answer; without the mark, the timer that comes right after an answer would
  count as a whole period.

- `TrafPolProofs`, from the set of names being finite and the numbers positive.
  `TInv` joins the types with `Phases` (who is running in which phase of the
  main loop), `UpdateInv` (the resolver's `updating` means that there is an
  update, and only then do workers have names), `NamesInSync` (the main loop's
  addresses of a name are the resolver's, unless a worker is sending them),
  `HostsInv`, `DevsInv`, `PortalInv` and `RulesInv`. `FilterExact` is not inductive: a worker
  that gives up sending after a stop leaves main loop and resolver different for
  good, which is harmless only because by `Phases` the main loop has ended
  then.
- `DaemonLifeProofs`, from the numbers of lives and processes being positive. A
  step inside a life is one of the daemon in its most general environment, so
  `DaemonInv` and with it every property of `DaemonProofs` holds in every life
  (`LifeDaemonInvariants`). `LifeInv` adds that without a process of the daemon
  there is no state of it (`Down`), in which order openconnect processes were born
  (`Ordered`), and `PIDFileNewest`: the PID file names the youngest process that
  was saved, and all older ones have been interrupted or are gone.
  `LeftoverInterrupted` rests on the last one, since a start interrupts only the
  process in the file. For `RestartIsClean` there is one lemma per command list: a
  prefix of a setup or teardown adds nothing that a clean-up does not remove, and
  a clean-up that died half-way leaves less than before.
- `OCSessionProofs`: the composition implements `VPNSession`
  (`SessionIsImplemented`), one case per action, each mapped to one abstract step
  or a stutter. `SessionInv` adds to `OCDaemonInv` how far a process has come
  (`Phases`), that the server refuses requests only when the main loop has ended
  (`Refuses`), and that an active configuration is that of the current process
  unless a connected openconnect was killed (`Own`). Without these, a script that
  is still on its way could configure a connection that the mapping calls off.
  `ConnectedIsConfigured` assumes `~ReadFails`, as does the run `faults`: when the
  server cannot read a connect request, it is lost, and the script of a later
  reconnect reports Connected with nothing configured. `ConfigurationIsCurrent` holds
  with lost requests too.
- `ClientProofs`, from the assumptions about clients and the followed property that
  `Client` states. It has two inductive invariants over `APIInv` (which places main
  loop and service can be in together, what `setInitialProps` has left, who waits
  for a reply). `SubscriberInv`: the status of the subscriber, after all signals in
  the channel, is the exported value (`Agrees`), or the daemon died and the next
  one has not come to the property yet. `SettledStatusExact` alone says nothing of
  the states in which a signal is on its way. `ConnectInv`: OCRunning is
  exported, or the handler that will export it is still at work and the client
  waits for its reply (`Exported`, `Exporting`), and the client that started
  openconnect is not about to connect again (`NotAgain`). That the reply comes
  after the export is why no client overtakes itself.
- `DNSProxyProofs`, for all names, replies, configurations and handlers.
  `StrangerInv` adds to `NoStrangerWatched` that an alias a handler is about to add
  leads away from a watched domain (`Justified`): between the question to the
  list and the change of it other handlers and the timer run. Being linked is the
  least fixed point of following aliases, so that the argument is that it is
  monotone in the records, and no induction over chains is needed. `AddressInv`:
  a temporary watch stays at least as long as the host may use the records that
  need it. `Life(w, t)` is how long a watch is going to stay at least when the last
  cleaning was `t` units ago. For a record in the host's cache `Life` covers what
  is left of its TTL (`KnownOK`); for one of a reply being handled it covers the whole TTL,
  as that starts only when the reply is forwarded, and one unit less for each unit the
  reply has waited (`LinkOK`), where the watch must not have been through two
  cleanings yet.
  `AddressesAreNotMissed` has one hypothesis about the replies, since the code does
  not guarantee the property without it: `InOrder` (a record that leads to
  another one is searched before it; each type is searched once, in the order of
  the reply). TTLs are arbitrary. `MCDNSProxy` assumes `InOrder` of its replies, and
  TLC evaluates this.

Only model-checked: the liveness properties (`StopTerminates`, `ExitCleanedUp`,
`DisconnectEnds`, `CommandReturns`, `CloseReturns` and those of the runs
`setup_liveness` and `trafpol_liveness`), since fairness is outside of the prover's
reach. Every invariant that a run checks is proved.

## Not modelled

- Parsing, copying and comparing of configuration, profile and status, the
  translation of the script's environment, text of templates, messages and logs:
  data without state.
- Ownership and permissions of sockets and files, the message format, output and
  configuration files of the clients: I/O.
- The monitors: their events are inputs of the models at any time. They forward
  what netlink, inotify and D-Bus deliver and keep no state of their own.
- The HTTP requests of the detection, TND, the DNS and D-Bus libraries: external,
  with any outcome their users can see.
- `GetState` and `DumpState` only read.

## Plan

Done: all modules above with their runs, and proofs of every invariant they check and of
the refinement.

Next:

1. The step properties behind the liveness runs that do not need fairness, such as
   what a goroutine that has been told to stop may still do.
2. Lemmas shared by the proofs of `ClientProofs` and `DNSProxyProofs` in a form that
   a change of the handlers leaves alone.
