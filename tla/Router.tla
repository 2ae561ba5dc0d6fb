------------------------------- MODULE Router -------------------------------
(***************************************************************************)
(* The router's commands, the services they work on and the saved state    *)
(* (router.go, service.go, commands.go).                                   *)
(*                                                                         *)
(* net/rpc runs every command in a goroutine of its own.  A command is     *)
(* several steps: what it does under the router's lock is one, and waiting *)
(* for health, draining and the parts of saveStateSnapshot are others, all *)
(* of which interleave.  A Service is an object of its own: a command that *)
(* looked it up keeps it, whatever happens to the name meanwhile.          *)
(*                                                                         *)
(* A load balancer is named after the command that brought its targets;    *)
(* what happens inside it is LoadBalancer's subject.  Path prefixes are    *)
(* ServiceMap's, so every service here serves the root path.               *)
(***************************************************************************)
EXTENDS Naturals, FiniteSets

CONSTANTS
  Commands,       \* the commands, each issued at most once
  Names,          \* the service names
  Hosts,          \* the hosts
  Options,        \* the ServiceOptions a deployment may ask for
  Kinds,          \* the kinds of command that are issued
  None,
  MaxConcurrent,  \* bound: how many commands run at a time
  MaxCrashes      \* bound: how often the process dies

AllKinds == {"deploy", "rollout", "split", "endrollout", "remove", "pause", "stop", "resume"}

ASSUME RouterConstants ==
  /\ Options \subseteq [hosts : SUBSET Hosts, valid : BOOLEAN]
  /\ Kinds \subseteq AllKinds
  /\ Commands \cap Names = {}
  /\ None \notin Commands \cup Names \cup Options
  /\ MaxConcurrent \in Nat /\ MaxCrashes \in Nat

\* A service made by a deployment is named after it, a restored one after its
\* name in the saved state.
Objects == Commands \cup Names

VARIABLES
  services,   \* ServiceMap.services: the object of each name
  bound,      \* ServiceMap.requestServiceMap: the objects bound to each host
  name, options, active, rollout, split, paused,  \* the fields of each Service
  kind, arg, pc,  \* of each command: what it is, its name, where it is
  want,       \* the options it installs by: a deployment's own, a rollout's copy of its service's
  found,      \* the service a command works on
  replaced,   \* the load balancer a deployment took out
  listed,     \* the services saveStateSnapshot has collected
  image,      \* what its encoder has made of them
  disposed,   \* the load balancers whose health checks were stopped
  file,       \* the state file: whether it is absent, truncated or saved, and what was encoded
  crashes,    \* how often the process has died
  revived,    \* history: whether a rollout put back a service that had left the map
  overlapped, \* history: whether a command was issued while another one ran
  clashed,    \* history: whether a service came into the map with its hosts unchecked: put
              \* back by a rollout under options other than it had checked, or restored, after
              \* commands overlapped, beside another with a host in common
  abandoned,  \* history: the load balancers left running when an installation or a restore failed
  before,     \* history: what a restart would have restored when the last command was issued
  unsaved     \* history: whether the last save was cut short, by an error or a crash

mapVars == <<services, bound>>
serviceVars == <<name, options, active, rollout, split, paused>>
commandVars == <<kind, arg, want, found, replaced>>
saveVars == <<listed, image>>
history == <<revived, overlapped, clashed, abandoned, before, unsaved>>
vars == <<mapVars, serviceVars, commandVars, pc, saveVars, disposed, file, crashes, history>>

PauseStates == {"running", "paused", "stopped"}
NoOptions == [hosts |-> {}, valid |-> FALSE]

Marshalled == [name : Names, options : Options, active : Commands,
               rollout : Commands \cup {None}, split : BOOLEAN, paused : PauseStates]

Steps == {"idle", "waiting", "installing", "changing", "draining", "listing", "creating",
          "encoding", "disposing", "done"}

\* Type correctness of the router, its services, its commands and its file.
TypeOK ==
  /\ services \in [Names -> Objects \cup {None}]
  /\ bound \in [Hosts -> SUBSET Objects]
  /\ name \in [Objects -> Names \cup {None}]
  /\ options \in [Objects -> Options \cup {NoOptions}]
  /\ active \in [Objects -> Commands \cup {None}]
  /\ rollout \in [Objects -> Commands \cup {None}]
  /\ split \in [Objects -> BOOLEAN]
  /\ paused \in [Objects -> PauseStates]
  /\ kind \in [Commands -> AllKinds \cup {None}]
  /\ arg \in [Commands -> Names \cup {None}]
  /\ want \in [Commands -> Options \cup {NoOptions}]
  /\ pc \in [Commands -> Steps]
  /\ found \in [Commands -> Objects \cup {None}]
  /\ replaced \in [Commands -> Commands \cup {None}]
  /\ listed \in [Commands -> SUBSET Objects]
  /\ image \in [Commands -> SUBSET Marshalled]
  /\ disposed \subseteq Commands
  /\ file \in {"absent", "truncated", "saved"} \X SUBSET Marshalled
  /\ crashes \in 0..MaxCrashes
  /\ revived \in BOOLEAN /\ overlapped \in BOOLEAN /\ clashed \in BOOLEAN
  /\ abandoned \subseteq Commands
  /\ before \subseteq Marshalled
  /\ unsaved \in BOOLEAN

NoServices ==
  /\ name = [o \in Objects |-> None]
  /\ options = [o \in Objects |-> NoOptions]
  /\ active = [o \in Objects |-> None]
  /\ rollout = [o \in Objects |-> None]
  /\ split = [o \in Objects |-> FALSE]
  /\ paused = [o \in Objects |-> "running"]

\* NewRouter, with no saved state to restore.
Init ==
  /\ services = [n \in Names |-> None]
  /\ bound = [h \in Hosts |-> {}]
  /\ NoServices
  /\ kind = [c \in Commands |-> None]
  /\ arg = [c \in Commands |-> None]
  /\ want = [c \in Commands |-> NoOptions]
  /\ pc = [c \in Commands |-> "idle"]
  /\ found = [c \in Commands |-> None]
  /\ replaced = [c \in Commands |-> None]
  /\ listed = [c \in Commands |-> {}]
  /\ image = [c \in Commands |-> {}]
  /\ disposed = {}
  /\ file = <<"absent", {}>>
  /\ crashes = 0
  /\ revived = FALSE /\ overlapped = FALSE /\ clashed = FALSE
  /\ abandoned = {}
  /\ before = {}
  /\ unsaved = FALSE

Running == {c \in Commands : pc[c] \notin {"idle", "done"}}
Installed == {services[n] : n \in Names} \ {None}
Goto(c, step) == pc' = [pc EXCEPT ![c] = step]

\* Mutant: the slots are swapped, which makes an empty slot the active one.
MarshalJSON_SwapsSlots(o) ==
  [name |-> name[o], options |-> options[o], active |-> rollout[o], rollout |-> active[o],
   split |-> split[o], paused |-> paused[o]]

MarshalJSON(o) ==
  [name |-> name[o], options |-> options[o], active |-> active[o], rollout |-> rollout[o],
   split |-> split[o], paused |-> paused[o]]

Snapshot == {MarshalJSON(o) : o \in Installed}

\* Mutant: a restored service runs, whatever its pause state was.
UnmarshalJSON_Running(m) ==
  [name |-> m.name, options |-> m.options, active |-> m.active, rollout |-> m.rollout,
   split |-> m.split, paused |-> "running"]

\* Service.UnmarshalJSON: new load balancers for the saved targets.
UnmarshalJSON(m) ==
  [name |-> m.name, options |-> m.options, active |-> m.active, rollout |-> m.rollout,
   split |-> m.split, paused |-> m.paused]

\* RestoreLastSavedState: a file that does not decode, or a service that does
\* not initialize, leaves the router empty, and run goes on all the same.
RestoreLastSavedState ==
  IF file[1] = "saved" /\ \A m \in file[2] : m.options.valid
  THEN {UnmarshalJSON(m) : m \in file[2]}
  ELSE {}

-----------------------------------------------------------------------------
\* The service map.

\* updateRequestServiceMap
BindingsOf(svcs, opts) ==
  [h \in Hosts |-> {svcs[n] : n \in {m \in Names : svcs[m] # None /\ h \in opts[svcs[m]].hosts}}]

\* Set and Remove, both of which bind anew.
SetService(o) ==
  /\ services' = [services EXCEPT ![name'[o]] = o]
  /\ bound' = BindingsOf(services', options')

\* Mutant: Remove leaves the bindings as they were.
RemoveFromMap_KeepsBindings(n) ==
  /\ services' = [services EXCEPT ![n] = None]
  /\ UNCHANGED bound

RemoveFromMap(n) ==
  /\ services' = [services EXCEPT ![n] = None]
  /\ bound' = BindingsOf(services', options)

\* Mutant: a service of the same name is in its own way, others are not.
Conflict_Own(n, opts) == \E h \in opts.hosts : \E o \in bound[h] : name[o] = n

\* CheckAvailability: some host asked for is bound by a service of another name.
Conflict(n, opts) == \E h \in opts.hosts : \E o \in bound[h] : name[o] # n

-----------------------------------------------------------------------------
\* Issuing a command, with serviceForName where it begins with that.  A command
\* that finds no service fails: a rollout at once, the others after saving.
FirstStep(k, o) ==
  CASE k = "deploy" -> "waiting"
    [] k = "remove" -> "changing"
    [] k = "rollout" -> IF o = None THEN "done" ELSE "waiting"
    [] OTHER -> IF o = None THEN "listing" ELSE "changing"

Issue(c, k, n, opts) ==
  /\ pc[c] = "idle"
  /\ Cardinality(Running) < MaxConcurrent
  /\ kind' = [kind EXCEPT ![c] = k]
  /\ arg' = [arg EXCEPT ![c] = n]
  /\ want' = [want EXCEPT ![c] = IF k = "deploy" THEN opts ELSE NoOptions]
  /\ found' = [found EXCEPT ![c] = services[n]]
  /\ Goto(c, FirstStep(k, services[n]))
  /\ overlapped' = (overlapped \/ Running # {})
  /\ before' = IF overlapped' THEN {} ELSE RestoreLastSavedState
  /\ UNCHANGED <<mapVars, serviceVars, replaced, saveVars, disposed, file, crashes,
                 revived, clashed, abandoned, unsaved>>

\* createLoadBalancer: WaitUntilHealthy succeeds, or times out and disposes.  Before
\* it waits for the lock, SetRolloutTargets copies the options of the service it
\* found, for installLoadBalancer to check.
BecameHealthy(c) ==
  /\ pc[c] = "waiting"
  /\ want' = [want EXCEPT ![c] = IF kind[c] = "rollout" THEN options[found[c]] ELSE @]
  /\ Goto(c, "installing")
  /\ UNCHANGED <<mapVars, serviceVars, kind, arg, found, replaced, saveVars, disposed, file,
                 crashes, history>>

HealthTimeout(c) ==
  /\ pc[c] = "waiting"
  /\ Goto(c, "done")
  /\ disposed' = disposed \cup {c}
  /\ UNCHANGED <<mapVars, serviceVars, commandVars, saveVars, file, crashes, history>>

-----------------------------------------------------------------------------
\* installLoadBalancer, under the router's write lock.

\* The host is taken: nothing changes, and the load balancer is dropped.
InstallConflict(c) ==
  /\ pc[c] = "installing"
  /\ Conflict(arg[c], want[c])
  /\ abandoned' = abandoned \cup {c}
  /\ Goto(c, "listing")
  /\ UNCHANGED <<mapVars, serviceVars, commandVars, saveVars, disposed, file, crashes,
                 revived, overlapped, clashed, before, unsaved>>

\* initialize fails.  NewService's object is dropped, but UpdateOptions has
\* already written the options into the service that is installed.
InstallInvalid(c) ==
  /\ pc[c] = "installing" /\ kind[c] = "deploy"
  /\ ~Conflict(arg[c], want[c])
  /\ ~want[c].valid
  /\ options' = IF services[arg[c]] = None THEN options
                ELSE [options EXCEPT ![services[arg[c]]] = want[c]]
  /\ abandoned' = abandoned \cup {c}
  /\ Goto(c, "listing")
  /\ UNCHANGED <<mapVars, name, active, rollout, split, paused, commandVars, saveVars,
                 disposed, file, crashes, revived, overlapped, clashed, before, unsaved>>

\* createOrUpdateService: the service a deployment installs.
createOrUpdateService(c) == IF services[arg[c]] = None THEN c ELSE services[arg[c]]

\* UpdateLoadBalancer and Set for the active slot.
InstallActive(c) ==
  LET o == createOrUpdateService(c) IN
  /\ pc[c] = "installing" /\ kind[c] = "deploy"
  /\ ~Conflict(arg[c], want[c])
  /\ want[c].valid
  /\ name' = [name EXCEPT ![o] = arg[c]]
  /\ options' = [options EXCEPT ![o] = want[c]]
  /\ active' = [active EXCEPT ![o] = c]
  /\ replaced' = [replaced EXCEPT ![c] = active[o]]
  /\ SetService(o)
  /\ Goto(c, "listing")
  /\ UNCHANGED <<rollout, split, paused, kind, arg, want, found, saveVars, disposed, file, crashes, history>>

\* Mutant: UpdateLoadBalancer returns the active load balancer for either slot.
ReplacedRollout_Active(c) == active[found[c]]

\* What UpdateLoadBalancer returns for the rollout slot.
ReplacedRollout(c) == rollout[found[c]]

\* SetRolloutTargets puts back the service it found when it began, with the options
\* that service has by now.
InstallRollout(c) ==
  /\ pc[c] = "installing" /\ kind[c] = "rollout"
  /\ ~Conflict(arg[c], want[c])
  /\ rollout' = [rollout EXCEPT ![found[c]] = c]
  /\ replaced' = [replaced EXCEPT ![c] = ReplacedRollout(c)]
  /\ revived' = (revived \/ services[arg[c]] # found[c])
  /\ clashed' = (clashed \/ (services[arg[c]] # found[c] /\ want[c] # options[found[c]]))
  /\ UNCHANGED <<name, options, active, split, paused>>
  /\ SetService(found[c])
  /\ Goto(c, "listing")
  /\ UNCHANGED <<kind, arg, want, found, saveVars, disposed, file, crashes,
                 overlapped, abandoned, before, unsaved>>

-----------------------------------------------------------------------------
\* The other commands.

\* Service.SetRolloutSplit and Service.StopRollout
ChangeSplit(c) ==
  /\ pc[c] = "changing" /\ kind[c] \in {"split", "endrollout"}
  /\ split' = [split EXCEPT ![found[c]] =
                 IF kind[c] = "endrollout" THEN FALSE ELSE @ \/ rollout[found[c]] # None]
  /\ Goto(c, "listing")
  /\ UNCHANGED <<mapVars, name, options, active, rollout, paused, commandVars, saveVars,
                 disposed, file, crashes, history>>

\* Service.Pause and Service.Stop, which then drain, and Service.Resume.
ChangePause(c) ==
  /\ pc[c] = "changing" /\ kind[c] \in {"pause", "stop", "resume"}
  /\ paused' = [paused EXCEPT ![found[c]] =
                  CASE kind[c] = "pause" -> "paused" [] kind[c] = "stop" -> "stopped"
                    [] kind[c] = "resume" -> "running"]
  /\ Goto(c, IF kind[c] = "resume" THEN "listing" ELSE "draining")
  /\ UNCHANGED <<mapVars, name, options, active, rollout, split, commandVars, saveVars,
                 disposed, file, crashes, history>>

DrainDone(c) ==
  /\ pc[c] = "draining"
  /\ Goto(c, "listing")
  /\ UNCHANGED <<mapVars, serviceVars, commandVars, saveVars, disposed, file, crashes, history>>

\* RemoveService, under the router's write lock.
RemoveService(c) ==
  LET o == services[arg[c]] IN
  /\ pc[c] = "changing" /\ kind[c] = "remove"
  /\ IF o = None
     THEN UNCHANGED <<mapVars, disposed>>
     ELSE /\ disposed' = disposed \cup ({active[o], rollout[o]} \ {None})
          /\ RemoveFromMap(arg[c])
  /\ Goto(c, "listing")
  /\ UNCHANGED <<serviceVars, commandVars, saveVars, file, crashes, history>>

-----------------------------------------------------------------------------
\* saveStateSnapshot.  The services are collected under the read lock and
\* encoded later, without it.

CollectServices(c) ==
  /\ pc[c] = "listing"
  /\ listed' = [listed EXCEPT ![c] = Installed]
  /\ Goto(c, "creating")
  /\ UNCHANGED <<mapVars, serviceVars, commandVars, image, disposed, file, crashes, history>>

\* Mutant: the file holds an empty list until the services are written.
CreateFile_EmptyList(c) ==
  /\ pc[c] = "creating"
  /\ file' = <<"saved", {}>>
  /\ Goto(c, "encoding")
  /\ UNCHANGED <<mapVars, serviceVars, commandVars, saveVars, disposed, crashes, history>>

\* os.Create truncates what the last command saved ...
CreateFile(c) ==
  /\ pc[c] = "creating"
  /\ file' = <<"truncated", {}>>
  /\ Goto(c, "encoding")
  /\ UNCHANGED <<mapVars, serviceVars, commandVars, saveVars, disposed, crashes, history>>

\* The save is over, and the command goes on whether it succeeded or not.
EndSave(c) == Goto(c, IF replaced[c] = None THEN "done" ELSE "disposing")

\* ... or fails and leaves it.
CreateFails(c) ==
  /\ pc[c] = "creating"
  /\ unsaved' = TRUE
  /\ EndSave(c)
  /\ UNCHANGED <<mapVars, serviceVars, commandVars, saveVars, disposed, file, crashes,
                 revived, overlapped, clashed, abandoned, before>>

\* Encode marshals one service after another into a buffer.
EncodeService(c, o) ==
  /\ pc[c] = "encoding" /\ o \in listed[c]
  /\ image' = [image EXCEPT ![c] = @ \cup {MarshalJSON(o)}]
  /\ listed' = [listed EXCEPT ![c] = @ \ {o}]
  /\ UNCHANGED <<mapVars, serviceVars, commandVars, pc, disposed, file, crashes, history>>

\* The buffer is written at once.  Every command writes from the start of the
\* file, and the decoder reads one JSON value: what was written last is read.
WriteFile(c) ==
  /\ pc[c] = "encoding" /\ listed[c] = {}
  /\ file' = <<"saved", image[c]>>
  /\ unsaved' = FALSE
  /\ image' = [image EXCEPT ![c] = {}]
  /\ EndSave(c)
  /\ UNCHANGED <<mapVars, serviceVars, commandVars, listed, disposed, crashes,
                 revived, overlapped, clashed, abandoned, before>>

\* Encode fails: nothing is written, or a part that does not decode.
WriteFails(c) ==
  /\ pc[c] = "encoding" /\ listed[c] = {}
  /\ file' \in {file, <<"truncated", {}>>}
  /\ unsaved' = TRUE
  /\ image' = [image EXCEPT ![c] = {}]
  /\ EndSave(c)
  /\ UNCHANGED <<mapVars, serviceVars, commandVars, listed, disposed, crashes,
                 revived, overlapped, clashed, abandoned, before>>

\* Mutant: the load balancer that was replaced is left alone.
DisposeReplaced_Forgets(c) ==
  /\ pc[c] = "disposing"
  /\ Goto(c, "done")
  /\ UNCHANGED <<mapVars, serviceVars, commandVars, saveVars, disposed, file, crashes, history>>

\* Dispose and DrainAll of the load balancer that was replaced.
DisposeReplaced(c) ==
  /\ pc[c] = "disposing"
  /\ disposed' = disposed \cup {replaced[c]}
  /\ Goto(c, "done")
  /\ UNCHANGED <<mapVars, serviceVars, commandVars, saveVars, file, crashes, history>>

-----------------------------------------------------------------------------
\* No two of the services have a host in common.
HostsApart(saved) == \A m, k \in saved : m # k => m.options.hosts \cap k.options.hosts = {}

\* What Decode has unmarshalled when a service does not initialize: that one and
\* those before it, in whatever order they were saved.
DecodedInVain ==
  IF file[1] = "saved" /\ \E m \in file[2] : ~m.options.valid
  THEN {read \in SUBSET file[2] :
          \E m \in read : ~m.options.valid /\ \A k \in read \ {m} : k.options.valid}
  ELSE {{}}

Slots(saved) == (UNION {{m.active, m.rollout} : m \in saved}) \ {None}

\* The process dies, and every health check with it, and is started again; the
\* commands in progress are lost.  A restore that fails drops the load balancers
\* that UnmarshalJSON has made, whose health checks have begun.
Restart ==
  LET restored == RestoreLastSavedState
      Of(o) == CHOOSE m \in restored : m.name = o
      In(o) == \E m \in restored : m.name = o IN
  /\ crashes < MaxCrashes
  /\ crashes' = crashes + 1
  /\ services' = [n \in Names |-> IF In(n) THEN n ELSE None]
  /\ name' = [o \in Objects |-> IF In(o) THEN o ELSE None]
  /\ options' = [o \in Objects |-> IF In(o) THEN Of(o).options ELSE NoOptions]
  /\ active' = [o \in Objects |-> IF In(o) THEN Of(o).active ELSE None]
  /\ rollout' = [o \in Objects |-> IF In(o) THEN Of(o).rollout ELSE None]
  /\ split' = [o \in Objects |-> IF In(o) THEN Of(o).split ELSE FALSE]
  /\ paused' = [o \in Objects |-> IF In(o) THEN Of(o).paused ELSE "running"]
  /\ bound' = BindingsOf(services', options')
  /\ pc' = [c \in Commands |-> IF c \in Running THEN "done" ELSE pc[c]]
  /\ found' = [c \in Commands |-> None]
  /\ replaced' = [c \in Commands |-> None]
  /\ listed' = [c \in Commands |-> {}]
  /\ image' = [c \in Commands |-> {}]
  /\ \E read \in DecodedInVain :
       /\ disposed' = {c \in Commands : pc[c] # "idle"} \ (Slots(restored) \cup Slots(read))
       /\ abandoned' = Slots(read)
  /\ revived' = FALSE /\ overlapped' = FALSE
  /\ clashed' = (clashed \/ (overlapped /\ ~HostsApart(restored)))
  /\ before' = restored
  /\ unsaved' = (file[1] = "truncated")
  /\ UNCHANGED <<kind, arg, want, file>>

Next ==
  \/ \E c \in Commands, k \in Kinds, n \in Names, opts \in Options : Issue(c, k, n, opts)
  \/ \E c \in Commands :
       \/ BecameHealthy(c) \/ HealthTimeout(c)
       \/ InstallConflict(c) \/ InstallInvalid(c) \/ InstallActive(c) \/ InstallRollout(c)
       \/ ChangeSplit(c) \/ ChangePause(c) \/ DrainDone(c) \/ RemoveService(c)
       \/ CollectServices(c) \/ CreateFile(c) \/ CreateFails(c) \/ (\E o \in Objects : EncodeService(c, o))
       \/ WriteFile(c) \/ WriteFails(c) \/ DisposeReplaced(c)
  \/ Restart

Spec == Init /\ [][Next]_vars

-----------------------------------------------------------------------------
\* Properties.

LoadBalancersOf(o) == {active[o], rollout[o]} \ {None}

\* No deployment that failed has left its options in a service of the map.
OptionsAccepted == \A o \in Installed : options[o].valid

\* Every service in the map has an active load balancer, and Dispose (service.go)
\* has not stopped the health checks of its load balancers: no command stops the
\* targets that requests are sent to.
LiveLoadBalancers ==
  \A o \in Installed : active[o] # None /\ LoadBalancersOf(o) \cap disposed = {}

\* The same, as long as no SetRolloutTargets (router.go) has put back a service
\* that was removed while it waited.
LiveUnlessRevived == ~revived => LiveLoadBalancers

\* As long as no SetRolloutTargets has put back a service that was removed, a load
\* balancer that requests cannot reach has its health checks stopped: those of a
\* service that left the map at once, and by the time a deployment or a rollout
\* returns, its own unless it is in the map, and the one it replaced.  The other
\* exceptions are those that are started and then dropped, and that nothing stops:
\* one that installLoadBalancer (router.go) refused, and the ones UnmarshalJSON
\* (service.go) made before the restore failed.
UnreachableAreDisposed ==
  LET inUse == UNION {LoadBalancersOf(o) : o \in Installed}
      toDispose == {replaced[c] : c \in Running}
      brought == {c \in Commands : pc[c] = "done" /\ (kind[c] = "deploy" \/ (kind[c] = "rollout" /\ found[c] # None))}
  IN ~revived =>
       /\ \A o \in Objects \ Installed : LoadBalancersOf(o) \subseteq disposed
       /\ brought \subseteq inUse \cup toDispose \cup disposed \cup abandoned

\* README: only one service at a time can route a specific host.  No host is bound
\* to two services whose options were accepted, also while a third holds options
\* that UpdateOptions (service.go) kept though initialize refused them.  There are
\* two exceptions.  CheckAvailability (service_map.go) is given the options a rollout
\* copied before it had the lock, and Set then binds the service by those it has
\* now; and RestoreLastSavedState (router.go) checks no availability, when commands
\* that overlapped have saved two services for a host.
OneServiceIfAccepted ==
  ~clashed => \A h \in Hosts : \A o, p \in bound[h] :
    options[o].valid /\ options[p].valid => o = p

\* Requests are routed to no service that has left the map, and to each one whose
\* options were accepted by just the hosts in them (updateRequestServiceMap).  An
\* UpdateOptions that fails leaves no trace in the routes of the other services,
\* only in those of its own: by the refused options it is bound with the next Set.
RoutesMatchOptions ==
  \A h \in Hosts :
    /\ bound[h] \subseteq Installed
    /\ \A o \in Installed : options[o].valid => (o \in bound[h] <=> h \in options[o].hosts)

\* When no command is in progress, the commands came one at a time and the last
\* save did not fail, restarting the proxy (RestoreLastSavedState) brings back every
\* service with its targets, its options, its rollout and its pause state.  It
\* brings back every one or none, and none only if UpdateOptions has left options
\* that initialize refuses in one of them.
RestartKeepsServices ==
  Running = {} /\ ~overlapped /\ ~unsaved =>
    RestoreLastSavedState = Snapshot \/ (~OptionsAccepted /\ RestoreLastSavedState = {})

\* As long as commands come one at a time, a crash loses the command in progress or
\* keeps it, for all services together: what is restored is what would have been
\* before the command, or the services as they are, or, while one of these has
\* options that were refused, nothing.  saveStateSnapshot (router.go) leaves a file
\* that does not decode, which also restores nothing, only while it encodes and
\* when its last write failed or was cut short by a crash.
CrashKeepsWhole ==
  /\ ~overlapped =>
       \/ file[1] = "truncated"
       \/ RestoreLastSavedState \in {before, Snapshot}
       \/ ~OptionsAccepted /\ RestoreLastSavedState = {}
  /\ file[1] = "truncated" => unsaved \/ \E c \in Commands : pc[c] = "encoding"
=============================================================================
