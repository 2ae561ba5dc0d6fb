# Kamal Proxy: specifications

TLA+ specifications of the proxy's own logic: the commands that deploy, roll out,
pause, stop and remove services, the load balancers and targets behind them, the
way of a request through routing, buffers and error pages, the state file, and the
UDP and WebRTC side. They are translated from
`src/internal/server`; `PROJECT.json` says for every definition which lines it
stands for.

## The system

Kamal Proxy is one process. Operators talk to it over an RPC socket; every RPC runs
in a goroutine of its own, as does every HTTP request, every UDP packet and every
health check. State is shared under several small locks.

| Part | State | Operations | Hard because |
|---|---|---|---|
| Pause controller (`pause_controller.go`) | State, message, channel | Pause, Resume, Stop, Wait, JSON | requests wait on a channel that other calls replace and close; it is saved without its lock |
| Target, health check (`target.go`, `health_check.go`) | state, requests in flight | StartRequest, SendRequest, HealthCheckCompleted, Drain | drains, checks and requests overlap |
| Load balancer (`load_balancer.go`) | pools, indexes | WaitUntilHealthy, MarkAllHealthy, TargetStateChanged, claimTarget, DrainAll, Dispose | the pools are a copy of the targets' states |
| Service (`service.go`), rollout controller | options, active and rollout slot, split, pause | UpdateOptions, UpdateLoadBalancer, Pause, Stop, Resume, JSON | options change before they are known to be good |
| Service map (`service_map.go`) | services, bindings host/path to service | Set, Remove, CheckAvailability, ServiceForRequest | bindings and TLS settings are derived, in the random order of a Go map |
| Router, commands (`router.go`, `commands.go`, `cmd/run.go`) | service map, state file | every command, save, restore | commands wait for health without the lock and save without mutual exclusion |
| UDP service map, target, server (`udp_*.go`) | services, targets, sockets | Deploy (plain, zero-downtime), ServeUDP, Start, Stop, ForwardPacket, check | three kinds of lock, held over waits; one socket with one pair of deadlines for packets, responses and checks |
| Session manager, session store (`session_manager.go`) | sessions, a file for each | RoutePacket, expiry, save, delete, load | sessions outlive services; goroutines save and delete them in any order |
| Port allocator (`port_allocator.go`) | allocations, listeners | Allocate, DeallocatePort, DeallocateService | freed by number or by name, by several owners |
| UDP deployment manager (`udp_deployment.go`) | deployments | health check, switch, drain, clean-up | runs beside other deployments |
| Buffers, error pages (`buffer.go`, `*_buffer_middleware.go`, `error_page_middleware.go`) | per request: memory, spill file, response writer, error | Write, Send, Close, WriteHeader, SetErrorResponse | bodies come in pieces around two limits, and each step may fail with a file open and a response half sent |
| Server, certificates, metrics, command line | | | thin layers over libraries |

Interaction: a command goes router → load balancer (created, waited for) → service
(slot swapped under the router's lock) → old load balancer (disposed of, drained) →
state file. A request goes service map → TLS → pause controller → load balancer →
request buffer → response buffer → target, and back through the error pages. A packet
goes UDP service map → session manager → target.

What makes each part correct is stated by the properties below; the hazards they
answer to are listed in `PROJECT.json`, each at its line.

## Modules

`LoadBalancer` EXTENDS `Target`; `HTTPRequest` EXTENDS `ServiceMap` and `Buffer`, and
`ServiceMap` instantiates `RoutingTable`, which it implements. The others stand alone. An `MC...` module gives a specification its constants; a
definition called `X_Something` under a comment "Mutant" is a plausible bug in X,
used to see that the properties notice it. No specification uses one.

**PauseController.** The state, its channel and the channels of before (open, closed,
or nil after a restore), and each request's place in `Wait`. `Wait` is one step up to
its select; being released and reading the state again, and the stop message after
that, are steps of their own, because the lock is released between them. Hence a
request may be let through by a gate that was paused, stopped and paused again and
never ran; `AnswersJustified` says that nothing else lets one through (`PausedAgain`).
The encoder
reads State and StopMessage in two steps without the lock. `Restart` decodes what
was read. Time is abstracted: a timer may fire while a request waits.

**Target, LoadBalancer.** One load balancer from creation (deployed or restored) to
the end of the deployment that replaces it. `Drain` is five steps (mark, copy the
requests in flight, wait, cancel, restore), and drains of a pause and of a deployment
overlap. A check is begun, answered, recorded and notified in separate steps;
`updateHealthyTargets` holds the load balancer's lock and asks target by target.
`claimTarget` is one step, as in the code, under its lock.

**Router.** Every command from its issue to the write of the state file: the service
is looked up, the load balancer is waited for, installation takes the lock, then the
snapshot is collected, the file truncated, the services encoded one by one
(`EncodeService`) and the file written, each a step others may come between. Creating
and writing the file may fail, of which the command takes no notice. A rollout copies
the options of its service when its targets are healthy and has the copy checked once
it has the lock (`want`), as in the code. `Restart` may come at any step and
restores from the file as it is: when one service does not initialize, nothing is
restored, and the load balancers decoded by then run on (`DecodedInVain`). Services
keep options, two slots, split and pause;
a load balancer is a name with its liveness, since `LoadBalancer` has the rest, and
every service is at the root path, since `ServiceMap` has the rest of that. History
variables remember that a rollout put back a removed service (`revived`), that
commands overlapped, which load balancers were started and dropped by an installation or a
restore that failed (`abandoned`), what a restart would have restored `before` the
last command, that the last save was cut short (`unsaved`), and that a service came
into the map with its hosts unchecked (`clashed`): put back by a rollout under other
options than it had checked, or restored beside another one of its host.

The properties of the router are stated around what it does not guarantee, and their
comments name each exception. `OneServiceIfAccepted` and `RoutesMatchOptions` are
about services whose options were accepted, and hold of them also while another
service has options that were refused; `RestartKeepsServices` and `CrashKeepsWhole`
are about commands that come one at a time, and say when nothing is restored.

**ServiceMap, RoutingTable.** `ServiceMap` is the code's: options by name, bindings by
host in the order `SortFunc` left them (any order of prefixes of one length), lookup
by host, wildcard and empty host, first match, and the copying of TLS settings from
the root of a service's first host. `RoutingTable` says the same without bindings or
order: the route of each request and the settings of each service are functions of
the deployed services. The refinement mapping (`Table`) takes `route` to be what
`serviceFor` finds. Hosts and paths are sequences of labels and segments; the length
the code sorts by, that of the string, is a constant about which only this is
assumed: a path that extends another has a longer string.

**Buffer, HTTPRequest.** One request from its arrival to the end of its handler.
`Buffer` has the operations of a buffer as operators that give the set of possible
outcomes, failures of the disk included. The bytes of a body are numbered, so that
order and loss show. What the pause gate and the load balancer decide is open here.
The map may change while a request is on its way: it keeps its service, whose TLS
settings may change under it. `net/http` and `httputil.ReverseProxy` are external:
the response writer ignores informational statuses and all but the first other one,
the proxy writes the header and the pieces as they come, closes the request's body
when it returns, and panics when it cannot go on, after which only deferred calls run.
A target without response buffering writes to the client directly. With it, an event
stream is passed on as it comes, unless an informational response came first: the
writer has then decided by the wrong header, and `StreamsPassOn` says that it holds the
stream back whole. `handleProxyError` has an answer for a body that exceeds an
`http.MaxBytesReader`; the program has none, so that no round trip fails so.

**SessionStore.** The sessions in memory, the goroutines that save them (marshalling
in two steps through the pointer, opening, writing), those that delete, and the
files. A save that finds its session gone from the map still has its pointer. Two
writes at a time may leave a record, or something that is not JSON. A crash loses
memory and goroutines; `Restart` loads what parses and is not too old. Which target
is healthy is open: `UDPService` has that.

**UDPSocket.** One target with its socket: packets that are written, a goroutine for
each that reads one datagram, and the health check, which writes and reads as well.
Time passes in units (`Tick`); deadlines are times left. The target and the network
answer, lose, delay and send unasked. `faulty` remembers that something else happened
than every datagram being answered before time passed, `dropped` that a packet was not
written to a healthy target.

**UDPService.** Deployments hold the map's lock throughout; `Stop` holds the target's
lock while it waits for the checker; `RoutePacket` holds the session manager's lock
while it asks targets for their health, one by one. Each of these is explicit, and
everything else that takes one of the locks is a step that needs it free. `ServeUDP`
reads the targets without a lock while `Stop` sets them to nil: the read may return
the old slice, an empty one or one of nil pointers, and the last crashes the process
when it is used. Sessions are active until they expire. A zero-downtime deployment
starts and checks targets and puts them nowhere, as in the code: `CurrentTargets` is
copied from deployment to deployment and never assigned. `SessionsStick` is about the
targets of one service; that sessions should move when a deployment replaces the
service, and do not, is `DeployTakesOver`.

**PortAllocator.** The allocator with the WebRTC deployments that call it and the
clean-up of failed zero-downtime ones, which runs without the map's lock. Where a
deployment stops targets it waits, and may wait for ever, with the map's lock
(`Hung` in `UDPService`); clean-ups of others go on meanwhile. Other
programs may hold any port at any moment, so that which pair is found first, and
whether one is found, is left open.

## Runs

| Run | Checks | Bounds |
|---|---|---|
| `pause` | `NoStrandedWaiter`, `NoDoubleClose`, `AnswersJustified`, `MessageOnlyWhenStopped`; `ResumeReleasesWaiters`, `WaitReturns` (liveness) | 2 requests, 3 channels, 1 restart |
| `drain` | `NoTargetLeftDraining`, `DrainedUnlessOverlapped`, `SoleTargetStaysPooled`; `ReplacedIsDeployed` (liveness) | 1 target, 2 requests, 2 drains |
| `pool` | `PoolFollowsHealth`, `AllHealthyTogether`, `WritesStayOffReaders` | a writer, a reader, 2 reads, one with a write cookie; no hijacked connection (`NoHijacks`), which concerns drains only |
| `router` | `OneServiceIfAccepted`, `RoutesMatchOptions`, `LiveUnlessRevived`, `UnreachableAreDisposed`, `RestartKeepsServices`, `CrashKeepsWhole` | 3 commands, 2 at a time, 2 names, 2 hosts, some options refused, failing saves, 1 crash; no `stop`, which to the router is another `pause` |
| `http_request` | `BuffersBounded`, `NoSpillFileLeft`, `ForwardedWhole`, `WholeOrNothing`, `StreamsPassOn`, `ErrorsReachClient`; `RoutesByTable` (refinement) | 3 names, 3 hosts with a wildcard, 4 prefixes, 5 kinds of deployment; bodies of 4 bytes in pieces of 1 and 2, 1 byte of memory, limit 3 |
| `session_store` | `NoneResurrected`, `StoredAtRest`; `IdleSessionsEnd` (liveness) | 1 session, 2 targets, 2 saves and 2 deletes at a time, 5 units of time with a timeout of 1, 2 crashes |
| `udp_socket` | `AnsweringStaysHealthy` (a step property); `ChecksEnd`, `SilentFoundOut` (liveness) | 2 packets at a time, interval 3, probe timeout 1, response timeout 3 |
| `udp_sessions` | `ReplacedAreStopped`, `SessionsStick` (a step property), `NothingWaitsForEver` (liveness) | a deployment of 2 targets and one of 1, in either order, 2 packets of one client; one target is checked again and again (`Ticking`), the others once |
| `udp_ports` | `PairsWhole`, `FailedLeavesNoPair`, `ServicesKeepPairs` | 4 deployments of 2 targets, 2 names, 3 pairs and an odd port |

The bounds are the smallest with every conflict the properties are about: two
requests so that one is released while another arrives, two drains because there are
two callers of `Drain`, three commands so that a third acts between the steps of two,
two packets so that one holds the lock another waits for, four deployments so that a
port changes hands twice, pieces that end before, at and after each limit of a buffer,
two saves because a third adds no new order of two writes, two packets so that
readers compete with each other and with the check. `udp_socket` keeps the code's
order of its times (5, 2 and 5 seconds) scaled down; it also passes with 5, 2 and 5.
In `http_request` the map has up to three services while no request is there, two
when one has just been routed, and one beyond the pause gate, where nothing looks at the map
any more (`FewServicesInFlight`); a request is buffered or its response is, the proofs
cover both at once. In `udp_sessions` one of the two targets a session can be on
comes and goes while the other stays as its first check left it; the proofs have
every target checked again. In `router` three commands do not reach the rollout that
puts a service back on another's host, which takes five; the proof of
`OneServiceIfAccepted` covers any number. Type invariants are checked in `router` and `udp_sessions` and proved
for every module. Deadlock is checked where
the system cannot stop (`session_store`, `udp_socket`) and not
elsewhere: the commands, requests and packets of an instance are used up, and the
process may die. Symmetry is used only where no liveness is checked.

Fairness. `pause`: a released request goes on; timers fire (`TimersFire`) is a
hypothesis of `WaitReturns` alone. `drain`: the deployment's goroutine goes on and
its drain's deadline comes; requests and probes may last for ever. `udp_sessions`:
goroutines of deployments, packets and stopped checkers go on; the end of a probe is
not assumed there. `session_store`: the ticker of `startCleanup`, which is never
stopped, and goroutines that save or delete go on. `udp_socket`: time passes, and the
health check and the readers go on when they can; nothing is assumed of packets, the
target or the network. There the end of a probe (`ChecksEnd`) is a result: each
packet moves the read deadline on, but the write deadline the check leaves behind
stops packets.

### What the code does otherwise than documented

These runs end in a counterexample; each quotes its line in `PROJECT.json`.

- `pause_restore`: a controller restored as paused has a nil channel, and `Resume` or
  `Stop` of it panics.
- `udp_takes_over`: sessions stay on the stopped target of the replaced service, since
  `Stop` leaves it healthy, and each lost packet keeps the session alive.
- `udp_forward`: a health check sets a write deadline on the socket that nothing
  clears. From two seconds after each check until the next, three seconds later,
  every packet for the target is dropped, although it is healthy.

Seen with the same models in other instances, and recorded with the hazards:

- a deploy that overlaps the drain of a pause returns before requests on the old
  target have ended, although the README has it wait for them;
- a refused deploy leaves its options in the running service, which the next change of
  the map binds by them, perhaps beside another service of the host;
- a rollout checks its service's options in a copy made before it has the lock: if the
  service is moved to another host and removed meanwhile, and that host given to a new
  one, the rollout puts it back beside that one (`clashed`);
- a rollout that began before a removal puts the service back, with a load balancer
  that was disposed of (`LiveLoadBalancers`);
- a load balancer whose installation is refused is never disposed of, nor are those that
  were decoded before a restore failed: their health checks go on;
- a command whose save fails succeeds all the same, with the old state in the file or
  none;
- a request held by a pause is let through if the gate is stopped and paused again
  before it looks (`PausedAgain`);
- while a command saves, a service it has collected may be removed and another one
  moved to its host before that one is encoded: the file then has two services of one
  host, and `RestoreLastSavedState`, which does not check availability, binds the host
  to both (`clashed`);
- a crash between the truncation and the write of the state file loses every service;
- of a buffered response that follows an informational one, the client gets the
  status 200, whatever the target sent, and an event stream is held back to its end;
- a busy session is not restored after a crash, since packets do not save it, and the
  files of old sessions are never removed;
- answers of a UDP target go to whichever reader comes first, also to other clients or
  to the health check, which takes any datagram for its answer (the README speaks of
  TCP health checks; the code probes by UDP);
- with three targets, `markHealthy` can be called though they were never healthy
  together;
- a restored sole target can leave the pool;
- of two saves at once the older may be written last;
- options that were refused are saved, and a restart with them restores no service at
  all, after a single refused deploy;
- `UDPTarget.Stop` and a check under way wait for each other for ever (`Hung`), and all
  UDP traffic with them;
- a torn read of a service's targets crashes the process;
- a UDP deployment that fails at its second target leaves the first one running, and
  its ports allocated, until the name is deployed again;
- `MaxSessions` is never looked at, and files of sessions that are too old are never
  deleted;
- a WebRTC redeployment frees its own new ports, and after that a late clean-up can
  free the ports of another service.

## Proofs

For every value of the constants that satisfies the named assumptions:

- `PauseControllerProofs`: `TypeOK`, `NoStrandedWaiter`, `NoDoubleClose`,
  `AnswersJustified`, `MessageOnlyWhenStopped`. The invariant `PauseInv` adds how the
  current channel, the closed ones and the waiting requests are related; the answers
  of requests in flight need what was true of the gate while they waited, with
  `PausedAgain` as the case in which a request passes a gate that did not run.
- `LoadBalancerProofs`: `TypeOK`, `NoTargetLeftDraining`, `DrainedUnlessOverlapped`,
  `WritesStayOffReaders`, `PoolFollowsHealth`, `AllHealthyTogether`,
  `SoleTargetStaysPooled`, for any number of targets, requests and drains. The
  invariant `LoadBalancerInv` adds that a drain in progress knows a state to go
  back to, that what a finished drain copied is done, and that the copy of the
  deployment's drain is complete because nothing is claimed any more from a load
  balancer that was swapped out. `PoolInv` is about the pools: it follows
  `updateHealthyTargets` target by target, says of each one asked that the pool being
  built has it if it was healthy, or that its change is still to be notified, and uses
  that the state of a target whose notification holds the lock cannot change
  until it is answered. A sole target's checks have been stopped, so that nothing
  takes it out.
- `RouterProofs`: all seven invariants of `router`, `TypeOK` among them, for any
  commands, names, hosts and number of crashes. `RouterInv` says of a command in
  progress what it has looked up and brought (`CommandsFormed`,
  `BroughtAccounted`), that no load balancer is in two slots (`SlotsApart`), that the
  bindings are those of the options (`BindingsFormed`), that accepted options are apart
  unless something `clashed` (`AcceptedApart`), and what the file and the saves on their
  way hold of the services when commands come one at a time (`SavesFormed`,
  `FileFollows`), a file that was `CutShort` apart. Between two commands the file
  restores what is there (`Settled`): every service, or none while one has refused
  options. That is what a command finds, and what a crash in it falls back to.
- `PortAllocatorProofs`: `TypeOK`, `PairsWhole`, `FailedLeavesNoPair`, `ServicesKeepPairs`,
  for any range, step, number of targets and set of deployments. `PairsWhole` is
  inductive with the types: a pair is allocated on ports of no other pair, and freed
  with both. `FailedLeavesNoPair` is not; `CleanUpInv` adds that the pairs of a
  zero-downtime deployment are among those it holds, and that one that fails early
  holds none. `ServicesKeepPairs` needs `KeepInv`: what a deployment holds is allocated
  to it, in the order of its targets, until its name is deployed again.
- `UDPServiceProofs`: `TypeOK`, `ReplacedAreStopped` and the step property
  `SessionsStick`, for any deployments, targets, clients, packets and hashes.
  `ReplaceInv` follows a deployment under the map's lock: what it has started runs, the
  service's targets are stopped in turn, and nobody else starts or stops any.
  `StickInv` says that only the holder of the session manager's lock selects, that a
  session's target was healthy when it was chosen, and that a packet selects anew only
  after that target has failed a check. That gives more than `SessionsStick`, which is
  only about moves within a service: as the code is, the same holds of all moves.
- `HTTPRequestProofs`, on the map: the refinement, `MapSpec => RoutesByTable`, and with it
  `Spec => RoutesByTable` for requests on their way. `MapInv` says that the
  bindings of a host are those of the services that have it, in an order by length,
  and that two services never share a host and a prefix. From that the first match
  in the list is the longest one (`ServiceForIsChosen`): prefixes that match one path
  are prefixes of each other, so that those of one length are equal. `SyncSettings`
  shows that copying the TLS settings changes no host and no prefix and gives every
  service the settings of the table: only services at the root are copied from, and
  only others are copied to. That a set of numbers has a least one comes from the
  library of induction theorems, which is instantiated at the end of the module; the
  lemmas before carry it as a hypothesis (`Counting`).
- `HTTPRequestProofs`, on a request: all six invariants of `http_request`, for
  bodies, pieces and limits of any size. `WriteBounded` is about one `Write`: the
  buffer stays within its limits and, unless an error is returned, holds what it held
  and the new piece. `RequestInv` says stage by stage where a spill file may be, that
  the request's buffer holds exactly what was read, that a buffered response has not
  reached the client before `Send` (nor an event stream after an informational
  response) while an unbuffered one has, and that an error that
  was set is on its way until a middleware has dealt with it, with nothing sent
  before. One lemma per action shows that it is kept.
- `SessionStoreProofs`: `TypeOK`, `NoneResurrected`, `StoredAtRest`. `StoreInv` orders the moments: what
  is in a file, and what a save has read, is no later than the session it is about, or
  so old that it has expired, if that session is gone. `RestInv` says of a session that
  no overlapping save or delete has touched that at most one save of it is on its way,
  and that it has read, or will read, what the session is now.
- `UDPSocketProofs`: `TypeOK`, `AnsweringStaysHealthy`. `SocketInv` counts: as long as
  nothing was faulty there are at least as many datagrams, on their way or in the
  socket, as there are readers, and a check that waits has time left, so that no
  check fails.

Assumptions: `PauseConstants`, `NoTargetIsNone`, `LoadBalancerConstants`,
`RouterConstants`, `PortConstants`, `ServiceMapConstants`, `RequestConstants`,
`StoreConstants`, `SocketConstants`, `UDPConstants` (sets disjoint from their null values,
targets listed once or more, those of different UDP deployments different, a path that
extends another has a longer string, numbers natural and timeouts positive). TLC
evaluates them.

Every invariant of the passing runs is proved, and both step properties. Only
model-checked: liveness (fairness is out of the prover's reach), that is
`ResumeReleasesWaiters`, `WaitReturns`, `ReplacedIsDeployed`, `IdleSessionsEnd`,
`ChecksEnd`, `SilentFoundOut` and `NothingWaitsForEver`.

## Not modelled

- Logging, metrics, request ids, configuration and buffer pools hold no state the logic
  depends on.
- Certificates: a key pair that is loaded, or `autocert`, which decides. Whether options
  initialize is therefore open in `Router`.
- Command line: flags and one RPC for each command. `cmd/run.go` is part of `Router`.
- Server: listeners that are started and stopped around the router; `Stop` ends the
  process, which is `Restart` in the models.
- Rollout split: which requests the rollout gets is a comparison of a hash with a
  floating-point number, for which TLA+ has no type. That the split is set, saved and
  restored is in `Router`.
- Headers, cookies and the text of pages.
- Code without a caller: `RemoveService` and `Stop` of the UDP service map, `Stop` of the
  session manager, `DrainTargetWithPolicy`, single ports and separate ranges of the
  allocator, the expiry of allocations (nothing clears `InUse`).
