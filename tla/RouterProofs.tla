---------------------------- MODULE RouterProofs ----------------------------
(***************************************************************************)
(* Proofs about Router, for any commands, names, hosts and options, any    *)
(* number of commands at a time and any number of crashes.                 *)
(***************************************************************************)
EXTENDS Router, TLAPS

\* The steps of a command before it has changed anything.
Early == {"idle", "waiting", "installing"}

\* Every command that was issued has a name, and its service has that name; a
\* command that is going to work on a service has found one.
CommandsFormed ==
  \A c \in Commands :
    /\ pc[c] # "idle" => arg[c] \in Names /\ kind[c] \in AllKinds
    /\ pc[c] \in {"waiting", "installing"} =>
         \/ kind[c] = "deploy" /\ want[c] \in Options
         \/ kind[c] = "rollout" /\ found[c] # None
    /\ pc[c] = "changing" /\ kind[c] # "remove" => found[c] # None
    /\ found[c] # None => name[found[c]] = arg[c] /\ arg[c] \in Names

\* A service that was made has its options and its active load balancer, and one
\* that was not has nothing; a service is in the map under its own name.
ServicesFormed ==
  /\ \A o \in Objects :
       IF name[o] = None THEN active[o] = None /\ rollout[o] = None
                         ELSE options[o] \in Options /\ active[o] # None
  /\ \A n \in Names : services[n] # None => name[services[n]] = n
  /\ \A c \in Commands : pc[c] \in Early => name[c] = None

\* A load balancer that a command of this kind brought for this service.
BroughtBy(lb, k, n) == lb \in Commands /\ pc[lb] \notin Early /\ kind[lb] = k /\ arg[lb] = n

\* The load balancers of a service were brought by deployments and rollouts of it.
SlotsFormed ==
  \A o \in Objects :
    /\ active[o] # None => BroughtBy(active[o], "deploy", name[o])
    /\ rollout[o] # None => BroughtBy(rollout[o], "rollout", name[o])

RecordFormed(m) ==
  BroughtBy(m.active, "deploy", m.name) /\ (m.rollout # None => BroughtBy(m.rollout, "rollout", m.name))

OnePerName(saved) == \A m, k \in saved : m.name = k.name => m = k

\* A save holds one entry for a name, in its list, in its buffer and in the file.
SavesFormed ==
  /\ \A c \in Commands :
       /\ \A o \in listed[c] : name[o] # None
       /\ \A o, p \in listed[c] : name[o] = name[p] => o = p
       /\ \A m \in image[c] : RecordFormed(m) /\ \A o \in listed[c] : m.name # name[o]
       /\ OnePerName(image[c])
       /\ pc[c] # "encoding" => image[c] = {}
  /\ \A m \in file[2] : RecordFormed(m)
  /\ OnePerName(file[2])

\* No load balancer is in two slots, and one that was replaced is in none.
SlotsApart ==
  /\ \A o, p \in Objects : o # p /\ active[o] # None => active[o] # active[p]
  /\ \A o, p \in Objects : o # p /\ rollout[o] # None => rollout[o] # rollout[p]
  /\ \A c \in Commands :
       replaced[c] # None =>
         /\ pc[c] \notin Early /\ pc[replaced[c]] \notin Early
         /\ \A o \in Objects : active[o] # replaced[c] /\ rollout[o] # replaced[c]
  /\ \A c \in Commands : pc[c] = "disposing" => replaced[c] # None
  /\ \A c \in Commands : pc[c] \in Early => c \notin disposed

\* A load balancer that was brought is in use, about to be disposed of, disposed
\* of or dropped.
Accounted(c) ==
  \/ \E n \in Names : services[n] # None /\ c \in LoadBalancersOf(services[n])
  \/ \E d \in Running : replaced[d] = c
  \/ c \in disposed \cup abandoned

BroughtAccounted ==
  ~revived => \A c \in Commands :
    pc[c] \notin Early /\ (kind[c] = "deploy" \/ (kind[c] = "rollout" /\ found[c] # None)) => Accounted(c)

OthersDisposed == ~revived => \A o \in Objects \ Installed : LoadBalancersOf(o) \subseteq disposed

\* A service whose options were accepted is bound to its hosts, whatever became
\* of the others, and nothing else is bound.
BindingsFormed ==
  /\ \A h \in Hosts : bound[h] \subseteq Installed
  /\ \A n \in Names : services[n] # None /\ options[services[n]].valid =>
       \A h \in Hosts : services[n] \in bound[h] <=> h \in options[services[n]].hosts

\* Services whose options were accepted share no host.
AcceptedApart ==
  ~clashed => \A n, k \in Names :
    services[n] # None /\ services[k] # None /\ n # k
    /\ options[services[n]].valid /\ options[services[k]].valid =>
      options[services[n]].hosts \cap options[services[k]].hosts = {}

ValidApart(saved) ==
  \A m, k \in saved : m # k /\ m.options.valid /\ k.options.valid => m.options.hosts \cap k.options.hosts = {}

\* What a restart brings back of services that were saved.
Decoded(saved) == IF \A m \in saved : m.options.valid THEN saved ELSE {}

\* What the file holds once a command is over: the services as they are, if their
\* save did not fail, and otherwise what it held before, unless it was cut short.
Settled ==
  /\ ~unsaved => RestoreLastSavedState = Decoded(Snapshot)
  /\ file[1] = "truncated" \/ RestoreLastSavedState \in {before, Decoded(Snapshot)}

\* What the file holds at each step of a command that runs alone.
FileAt(c) ==
  /\ pc[c] \in {"waiting", "installing", "changing"} /\ ~unsaved =>
       RestoreLastSavedState = Decoded(Snapshot)
  /\ pc[c] \in {"waiting", "installing", "changing", "draining", "listing", "creating"} =>
       RestoreLastSavedState = before
  /\ pc[c] = "creating" => listed[c] = Installed
  /\ pc[c] = "encoding" =>
       file = <<"truncated", {}>> /\ image[c] \cup {MarshalJSON(o) : o \in listed[c]} = Snapshot
  /\ pc[c] = "disposing" => Settled

\* A file that does not decode is being written, or its save was cut short.
CutShort == file[1] = "truncated" => unsaved \/ \E c \in Commands : pc[c] = "encoding"

\* While commands come one at a time, the file follows them.
FileFollows ==
  /\ CutShort
  /\ ~overlapped =>
       /\ \A c, d \in Running : c = d
       /\ Running = {} => Settled
       /\ ~clashed => ValidApart(RestoreLastSavedState)
       /\ \A c \in Running : FileAt(c)

\* The inductive invariant.
RouterInv ==
  /\ TypeOK
  /\ CommandsFormed /\ ServicesFormed /\ SlotsFormed /\ SavesFormed /\ SlotsApart
  /\ BindingsFormed /\ AcceptedApart
  /\ LiveUnlessRevived /\ OthersDisposed /\ BroughtAccounted
  /\ FileFollows

-----------------------------------------------------------------------------
\* The type invariant in parts.
MapTyped == services \in [Names -> Objects \cup {None}] /\ bound \in [Hosts -> SUBSET Objects]

NamesTyped == name \in [Objects -> Names \cup {None}]

OptionsTyped == options \in [Objects -> Options \cup {NoOptions}]

SlotsTyped ==
  active \in [Objects -> Commands \cup {None}] /\ rollout \in [Objects -> Commands \cup {None}]

StatesTyped == split \in [Objects -> BOOLEAN] /\ paused \in [Objects -> PauseStates]

CommandsTyped ==
  /\ kind \in [Commands -> AllKinds \cup {None}]
  /\ arg \in [Commands -> Names \cup {None}]
  /\ want \in [Commands -> Options \cup {NoOptions}]
  /\ found \in [Commands -> Objects \cup {None}]

PcTyped == pc \in [Commands -> Steps]

ReplacedTyped == replaced \in [Commands -> Commands \cup {None}]

SavesTyped ==
  /\ listed \in [Commands -> SUBSET Objects]
  /\ image \in [Commands -> SUBSET Marshalled]
  /\ file \in {"absent", "truncated", "saved"} \X SUBSET Marshalled

HistoryTyped ==
  /\ disposed \subseteq Commands
  /\ crashes \in 0..MaxCrashes
  /\ revived \in BOOLEAN /\ overlapped \in BOOLEAN /\ clashed \in BOOLEAN
  /\ abandoned \subseteq Commands
  /\ before \subseteq Marshalled
  /\ unsaved \in BOOLEAN

LEMMA TypeParts ==
  TypeOK <=> /\ MapTyped /\ NamesTyped /\ OptionsTyped /\ SlotsTyped /\ StatesTyped
             /\ CommandsTyped /\ PcTyped /\ ReplacedTyped /\ SavesTyped /\ HistoryTyped
  BY Zenon DEF TypeOK, MapTyped, NamesTyped, OptionsTyped, SlotsTyped, StatesTyped, CommandsTyped,
         PcTyped, ReplacedTyped, SavesTyped, HistoryTyped

\* None is no command, no name, no service and no options.
LEMMA NoneApart ==
  /\ None \notin Objects /\ None \notin Names /\ None \notin Commands
  /\ \A c \in Commands : c \in Objects /\ c \notin Names
  /\ \A n \in Names : n \in Objects
  BY Zenon, RouterConstants DEF Objects

\* The hosts of any options are hosts.
LEMMA OptionsHosts ==
  \A opts \in Options \cup {NoOptions} : opts.hosts \subseteq Hosts /\ opts.valid \in BOOLEAN
<1>1. ASSUME NEW opts \in Options
      PROVE  opts.hosts \subseteq Hosts /\ opts.valid \in BOOLEAN
  <2>1. opts \in [hosts : SUBSET Hosts, valid : BOOLEAN]
    BY Zenon, RouterConstants
  <2> QED
    BY Zenon, <2>1
<1>2. NoOptions.hosts \subseteq Hosts /\ NoOptions.valid \in BOOLEAN
  BY Zenon DEF NoOptions
<1> QED
  BY Zenon, <1>1, <1>2

-----------------------------------------------------------------------------
\* What the steps have in common.

\* Commands go forward, and what they are asked to do stays.
Forward ==
  \A d \in Commands :
    /\ pc[d] \notin Early => pc'[d] \notin Early
    /\ pc[d] # "idle" => pc'[d] # "idle" /\ kind'[d] = kind[d] /\ arg'[d] = arg[d]

\* One command goes to its next step; a rollout may copy options.
Advance(c, step) ==
  /\ pc[c] \notin {"idle", "done"}
  /\ step \in Steps \ {"idle", "waiting", "changing"}
  /\ step = "installing" => pc[c] = "waiting"
  /\ pc' = [pc EXCEPT ![c] = step]
  /\ UNCHANGED <<kind, arg, found>>
  /\ \/ UNCHANGED want
     \/ kind[c] = "rollout" /\ \E opts \in Options \cup {NoOptions} : want' = [want EXCEPT ![c] = opts]

NamesStay == \A o \in Objects : name[o] # None => name'[o] = name[o]

LEMMA AdvanceForward ==
  ASSUME PcTyped, NEW c \in Commands, NEW step, Advance(c, step)
  PROVE  Forward /\ PcTyped'
  BY Zenon DEF PcTyped, Advance, Forward, Early, Steps

\* Who brought a load balancer does not change.
LEMMA BroughtStays ==
  ASSUME PcTyped, Forward, NEW lb, NEW k, NEW n, BroughtBy(lb, k, n)
  PROVE  BroughtBy(lb, k, n)'
  BY Zenon DEF PcTyped, Forward, BroughtBy, Early

LEMMA RecordStays ==
  ASSUME PcTyped, Forward, NEW m, RecordFormed(m)
  PROVE  RecordFormed(m)'
  BY Zenon, BroughtStays DEF RecordFormed

LEMMA CommandsStep ==
  ASSUME CommandsTyped, PcTyped, CommandsFormed, NamesStay,
         NEW c \in Commands, NEW step, Advance(c, step)
  PROVE  CommandsFormed' /\ CommandsTyped'
<1>1. CommandsTyped' /\ \A d \in Commands : kind[d] = "deploy" => want'[d] = want[d]
  BY Zenon DEF CommandsTyped, Advance
<1>2. ASSUME NEW d \in Commands
      PROVE  found[d] # None => name'[found[d]] = arg[d] /\ arg[d] \in Names
  BY NoneApart DEF CommandsFormed, NamesStay, CommandsTyped
<1>3. ASSUME NEW d \in Commands
      PROVE  /\ pc'[d] # "idle" => pc[d] # "idle"
             /\ pc'[d] \in {"waiting", "installing"} => pc[d] \in {"waiting", "installing"}
             /\ pc'[d] = "changing" => pc[d] = "changing"
  BY Zenon DEF Advance, PcTyped
<1>4. kind' = kind /\ arg' = arg /\ found' = found
  BY Zenon DEF Advance
<1> QED
  BY Zenon, <1>1, <1>2, <1>3, <1>4 DEF CommandsFormed

\* A step that leaves the saves alone, and whose command has not begun to encode
\* unless it had.
LEMMA SavesStep ==
  ASSUME PcTyped, NamesTyped, SavesTyped, SavesFormed, Forward, NamesStay,
         UNCHANGED <<listed, image, file>>,
         \A d \in Commands : image[d] # {} => pc'[d] = "encoding"
  PROVE  SavesFormed' /\ SavesTyped'
<1>1. SavesTyped'
  BY Zenon DEF SavesTyped
<1>2. ASSUME NEW c \in Commands, NEW o \in listed[c]
      PROVE  name'[o] = name[o] /\ name[o] # None
  BY Zenon DEF SavesFormed, SavesTyped, NamesStay
<1>3. ASSUME NEW c \in Commands, NEW m \in image[c]
      PROVE  RecordFormed(m)' /\ \A o \in listed[c] : m.name # name[o]
  BY Zenon, RecordStays DEF SavesFormed
<1>4. \A m \in file[2] : RecordFormed(m)'
  BY Zenon, RecordStays DEF SavesFormed
<1>5. listed' = listed /\ image' = image /\ file' = file
  OBVIOUS
<1> QED
  BY <1>1, <1>2, <1>3, <1>4, <1>5 DEF SavesFormed, OnePerName

LEMMA ServicesStep ==
  ASSUME Forward, ServicesFormed, UNCHANGED <<services, name, active, rollout>>,
         \A o \in Objects : options[o] \in Options => options'[o] \in Options
  PROVE  ServicesFormed'
  BY Zenon DEF ServicesFormed, Forward

\* A step that moves no load balancer, and stops only those that were brought.
LEMMA SlotsStep ==
  ASSUME PcTyped, ReplacedTyped, Forward, SlotsApart, UNCHANGED <<active, rollout, replaced>>,
         \A d \in disposed' : d \in disposed \/ pc'[d] \notin Early,
         \A d \in Commands : pc'[d] = "disposing" => pc[d] = "disposing" \/ replaced[d] # None
  PROVE  SlotsApart' /\ ReplacedTyped'
<1>1. ReplacedTyped'
  BY Zenon DEF ReplacedTyped
<1>2. \A c \in Commands : replaced[c] # None => pc'[c] \notin Early /\ pc'[replaced[c]] \notin Early
  BY DEF SlotsApart, Forward, ReplacedTyped
<1>3. /\ \A c \in Commands : pc'[c] \in Early => c \notin disposed'
      /\ \A c \in Commands : pc'[c] = "disposing" => replaced[c] # None
  BY Zenon DEF SlotsApart, Forward
<1> QED
  BY Zenon, <1>1, <1>2, <1>3 DEF SlotsApart

LEMMA BindingsStep ==
  ASSUME BindingsFormed, AcceptedApart, UNCHANGED <<services, bound, options, clashed>>
  PROVE  BindingsFormed' /\ AcceptedApart'
<1>1. Installed' = Installed
  BY Zenon DEF Installed
<1> QED
  BY Zenon, <1>1 DEF BindingsFormed, AcceptedApart

\* A step that moves no load balancer, and stops none that is in the map.
LEMMA DisposalStep ==
  ASSUME LiveUnlessRevived, OthersDisposed, UNCHANGED <<services, active, rollout, revived>>,
         disposed \subseteq disposed',
         \A d \in disposed' \ disposed : \A o \in Objects : active[o] # d /\ rollout[o] # d,
         Installed \subseteq Objects
  PROVE  LiveUnlessRevived' /\ OthersDisposed'
<1>1. Installed' = Installed
  BY Zenon DEF Installed
<1>2. \A o \in Objects : LoadBalancersOf(o)' = LoadBalancersOf(o)
  BY Zenon DEF LoadBalancersOf
<1>3. OthersDisposed'
  BY Zenon, <1>1, <1>2 DEF OthersDisposed
<1>4. ASSUME NEW o \in Installed, ~revived
      PROVE  active[o] # None /\ LoadBalancersOf(o) \cap disposed' = {}
  <2>1. active[o] # None /\ LoadBalancersOf(o) \cap disposed = {}
    BY Zenon, <1>4 DEF LiveUnlessRevived, LiveLoadBalancers
  <2> QED
    BY Zenon, <2>1 DEF LoadBalancersOf
<1> QED
  BY Zenon, <1>1, <1>2, <1>3, <1>4 DEF LiveUnlessRevived, LiveLoadBalancers

\* A step that moves no load balancer accounts for the one of a command that
\* fails and for the one that a command replaced.
LEMMA AccountedStep ==
  ASSUME BroughtAccounted, UNCHANGED <<services, active, rollout, replaced, found, kind, revived>>,
         disposed \subseteq disposed', abandoned \subseteq abandoned',
         \A d \in Commands : pc[d] \in Early /\ pc'[d] \notin Early => d \in disposed' \cup abandoned',
         \A d \in Running : d \in Running' \/ replaced[d] = None \/ replaced[d] \in disposed'
  PROVE  BroughtAccounted'
<1>1. ASSUME NEW c \in Commands, Accounted(c)
      PROVE  Accounted(c)'
  BY Zenon, <1>1, NoneApart DEF Accounted, LoadBalancersOf
<1>2. ASSUME NEW c \in Commands, c \in disposed' \cup abandoned'
      PROVE  Accounted(c)'
  BY Zenon, <1>2 DEF Accounted
<1> QED
  BY Zenon, <1>1, <1>2 DEF BroughtAccounted

-----------------------------------------------------------------------------
\* The file.

\* What a save would hold depends on the services only.
LEMMA SnapshotStays ==
  ASSUME UNCHANGED services, UNCHANGED serviceVars
  PROVE  /\ Snapshot' = Snapshot /\ Installed' = Installed
         /\ \A o : MarshalJSON(o)' = MarshalJSON(o)
<1>1. Installed' = Installed
  BY Zenon DEF Installed
<1>2. \A o : MarshalJSON(o)' = MarshalJSON(o)
  BY Zenon DEF MarshalJSON, serviceVars
<1> QED
  BY Zenon, <1>1, <1>2 DEF Snapshot

LEMMA RestoredStays ==
  ASSUME UNCHANGED file
  PROVE  RestoreLastSavedState' = RestoreLastSavedState
  BY Zenon DEF RestoreLastSavedState, UnmarshalJSON

\* Every field of a saved service is read back.
LEMMA ReadBack ==
  ASSUME NEW saved, saved \subseteq Marshalled
  PROVE  {UnmarshalJSON(m) : m \in saved} = saved
<1>1. \A m \in Marshalled : UnmarshalJSON(m) = m
  BY DEF Marshalled, UnmarshalJSON
<1> QED
  BY Zenon, <1>1

\* A command that runs alone.
LEMMA Alone ==
  ASSUME FileFollows, ~overlapped, NEW c \in Running
  PROVE  FileAt(c) /\ Running = {c} /\ (~clashed => ValidApart(RestoreLastSavedState))
  BY Zenon DEF FileFollows

\* It is enough to look at the command that takes the step.
LEMMA FileStep ==
  ASSUME PcTyped, FileFollows, NEW c \in Running, NEW step \in Steps \ {"idle"},
         pc' = [pc EXCEPT ![c] = step],
         UNCHANGED overlapped, clashed => clashed', CutShort',
         ~overlapped /\ ~clashed => ValidApart(RestoreLastSavedState)',
         ~overlapped => IF step = "done" THEN Settled' ELSE FileAt(c)'
  PROVE  FileFollows'
<1> SUFFICES ASSUME ~overlapped
             PROVE  FileFollows'
  BY Zenon DEF FileFollows
<1>1. Running = {c}
  BY Zenon, Alone
<1>2. Running' = IF step = "done" THEN {} ELSE {c}
  BY Zenon, <1>1 DEF Running, PcTyped
<1> QED
  BY Zenon, <1>2 DEF FileFollows

\* The same, for a step that leaves the file as it is.
LEMMA FileStays ==
  ASSUME PcTyped, FileFollows, NEW c \in Running, pc[c] # "encoding", NEW step \in Steps \ {"idle"},
         pc' = [pc EXCEPT ![c] = step],
         UNCHANGED <<overlapped, file, unsaved>>, clashed => clashed',
         ~overlapped => IF step = "done" THEN Settled' ELSE FileAt(c)'
  PROVE  FileFollows'
<1>1. CutShort'
  <2>1. \A d \in Commands : pc[d] = "encoding" => pc'[d] = "encoding"
    BY Zenon DEF PcTyped
  <2> QED
    BY Zenon, <2>1 DEF FileFollows, CutShort
<1>2. ~overlapped /\ ~clashed => ValidApart(RestoreLastSavedState)'
  BY Zenon, Alone, RestoredStays DEF ValidApart
<1> QED
  BY Zenon, <1>1, <1>2, FileStep

-----------------------------------------------------------------------------
\* The steps that leave the services as they are.

LEMMA Parts ==
  RouterInv <=>
    /\ MapTyped /\ NamesTyped /\ OptionsTyped /\ SlotsTyped /\ StatesTyped
    /\ CommandsTyped /\ PcTyped /\ ReplacedTyped /\ SavesTyped /\ HistoryTyped
    /\ CommandsFormed /\ ServicesFormed /\ SlotsFormed /\ SavesFormed /\ SlotsApart
    /\ BindingsFormed /\ AcceptedApart
    /\ LiveUnlessRevived /\ OthersDisposed /\ BroughtAccounted /\ FileFollows
  BY Zenon, TypeParts DEF RouterInv

LEMMA PartsNext ==
  ASSUME MapTyped', NamesTyped', OptionsTyped', SlotsTyped', StatesTyped',
         CommandsTyped', PcTyped', ReplacedTyped', SavesTyped', HistoryTyped',
         CommandsFormed', ServicesFormed', SlotsFormed', SavesFormed', SlotsApart',
         BindingsFormed', AcceptedApart',
         LiveUnlessRevived', OthersDisposed', BroughtAccounted', FileFollows'
  PROVE  RouterInv'
<1>1. TypeOK'
  BY Zenon DEF TypeOK, MapTyped, NamesTyped, OptionsTyped, SlotsTyped, StatesTyped, CommandsTyped,
         PcTyped, ReplacedTyped, SavesTyped, HistoryTyped
<1> QED
  BY Zenon, <1>1 DEF RouterInv

LEMMA InstalledObjects ==
  ASSUME MapTyped
  PROVE  Installed \subseteq Objects
  BY Zenon DEF MapTyped, Installed

\* A step of one command that leaves the map and the slots as they are.
LEMMA SettledStep ==
  ASSUME RouterInv, NEW c \in Commands, NEW step, Advance(c, step),
         UNCHANGED <<services, bound, name, active, rollout, replaced, revived>>,
         OptionsTyped', StatesTyped', ServicesFormed', BindingsFormed', AcceptedApart',
         SavesFormed', SavesTyped', HistoryTyped', FileFollows',
         disposed \subseteq disposed', abandoned \subseteq abandoned',
         \A d \in disposed' \ disposed :
           pc'[d] \notin Early /\ \A o \in Objects : active[o] # d /\ rollout[o] # d,
         pc[c] \in Early /\ step \notin Early => c \in disposed' \cup abandoned',
         step = "done" => replaced[c] = None \/ replaced[c] \in disposed',
         step = "disposing" => replaced[c] # None
  PROVE  RouterInv'
<1>1. /\ MapTyped /\ NamesTyped /\ SlotsTyped
      /\ CommandsTyped /\ PcTyped /\ ReplacedTyped
      /\ CommandsFormed /\ SlotsFormed /\ SlotsApart
      /\ LiveUnlessRevived /\ OthersDisposed /\ BroughtAccounted
  BY Zenon, Parts
<1>2. MapTyped' /\ NamesTyped' /\ SlotsTyped' /\ NamesStay
  BY Zenon, <1>1 DEF MapTyped, NamesTyped, SlotsTyped, NamesStay
<1>3. Forward /\ PcTyped'
  BY Zenon, <1>1, AdvanceForward
<1>4. SlotsFormed'
  BY Zenon, <1>1, <1>3, BroughtStays DEF SlotsFormed
<1>5. CommandsFormed' /\ CommandsTyped'
  BY Zenon, <1>1, <1>2, CommandsStep
<1>6. SlotsApart' /\ ReplacedTyped'
  <2>1. \A d \in Commands : pc'[d] = "disposing" => pc[d] = "disposing" \/ replaced[d] # None
    BY Zenon, <1>1 DEF Advance, PcTyped
  <2> QED
    BY Zenon, <1>1, <1>3, <2>1, SlotsStep
<1>7. LiveUnlessRevived' /\ OthersDisposed'
  BY Zenon, <1>1, DisposalStep, InstalledObjects
<1>8. BroughtAccounted'
  <2>1. found' = found /\ kind' = kind
    BY Zenon DEF Advance
  <2>2. \A d \in Commands : pc[d] \in Early /\ pc'[d] \notin Early => d \in disposed' \cup abandoned'
    BY Zenon, <1>1 DEF Advance, PcTyped
  <2>3. \A d \in Running : d \in Running' \/ replaced[d] = None \/ replaced[d] \in disposed'
    BY Zenon, <1>1 DEF Advance, PcTyped, Running
  <2> QED
    BY Zenon, <1>1, <2>1, <2>2, <2>3, AccountedStep
<1> QED
  BY Zenon, PartsNext, <1>2, <1>3, <1>4, <1>5, <1>6, <1>7, <1>8

\* The same, for a step that leaves the services as they are.
LEMMA QuietStep ==
  ASSUME RouterInv, NEW c \in Commands, NEW step, Advance(c, step),
         UNCHANGED <<mapVars, serviceVars, replaced, revived, clashed>>,
         SavesFormed', SavesTyped', HistoryTyped', FileFollows',
         disposed \subseteq disposed', abandoned \subseteq abandoned',
         \A d \in disposed' \ disposed :
           pc'[d] \notin Early /\ \A o \in Objects : active[o] # d /\ rollout[o] # d,
         pc[c] \in Early /\ step \notin Early => c \in disposed' \cup abandoned',
         step = "done" => replaced[c] = None \/ replaced[c] \in disposed',
         step = "disposing" => replaced[c] # None
  PROVE  RouterInv'
<1>1. /\ OptionsTyped /\ StatesTyped /\ PcTyped /\ ServicesFormed /\ BindingsFormed /\ AcceptedApart
  BY Zenon, Parts
<1>2. /\ services' = services /\ bound' = bound /\ name' = name /\ options' = options
      /\ active' = active /\ rollout' = rollout /\ split' = split /\ paused' = paused
  BY Zenon DEF mapVars, serviceVars
<1>3. OptionsTyped' /\ StatesTyped'
  BY Zenon, <1>1, <1>2 DEF OptionsTyped, StatesTyped
<1>4. ServicesFormed'
  BY Zenon, <1>1, <1>2, AdvanceForward, ServicesStep
<1>5. BindingsFormed' /\ AcceptedApart'
  BY Zenon, <1>1, <1>2, BindingsStep
<1> QED
  BY Zenon, <1>2, <1>3, <1>4, <1>5, SettledStep

\* A running command whose saves stay as they are.
LEMMA QuietSaves ==
  ASSUME RouterInv, NEW c \in Commands, NEW step, Advance(c, step),
         UNCHANGED <<name, listed, image, file>>,
         pc[c] = "encoding" => step = "encoding"
  PROVE  SavesFormed' /\ SavesTyped'
<1>1. PcTyped /\ NamesTyped /\ SavesTyped /\ SavesFormed
  BY Zenon, Parts
<1>2. Forward
  BY Zenon, <1>1, AdvanceForward
<1>3. \A d \in Commands : image[d] # {} => pc'[d] = "encoding"
  <2>1. \A d \in Commands : image[d] # {} => pc[d] = "encoding"
    BY Zenon, <1>1 DEF SavesFormed
  <2> QED
    BY Zenon, <1>1, <2>1 DEF Advance, PcTyped
<1> QED
  BY Zenon, <1>1, <1>2, <1>3, SavesStep DEF NamesStay

LEMMA FileUnmoved ==
  ASSUME UNCHANGED <<services, serviceVars, file, before, unsaved>>
  PROVE  /\ Snapshot' = Snapshot /\ Installed' = Installed
         /\ \A o : MarshalJSON(o)' = MarshalJSON(o)
         /\ RestoreLastSavedState' = RestoreLastSavedState
         /\ Decoded(Snapshot)' = Decoded(Snapshot)
         /\ Settled => Settled'
<1>1. /\ Snapshot' = Snapshot /\ Installed' = Installed
      /\ \A o : MarshalJSON(o)' = MarshalJSON(o)
  BY Zenon, SnapshotStays
<1>2. RestoreLastSavedState' = RestoreLastSavedState
  BY Zenon, RestoredStays
<1>3. Decoded(Snapshot)' = Decoded(Snapshot)
  BY Zenon, <1>1 DEF Decoded
<1> QED
  BY Zenon, <1>1, <1>2, <1>3 DEF Settled

LEMMA BecameHealthyStep ==
  ASSUME RouterInv, NEW c \in Commands, BecameHealthy(c)
  PROVE  RouterInv'
<1>1. PcTyped /\ FileFollows /\ HistoryTyped /\ CommandsTyped /\ CommandsFormed /\ OptionsTyped
  BY Zenon, Parts
<1>2. pc[c] = "waiting" /\ c \in Running /\ pc' = [pc EXCEPT ![c] = "installing"]
  BY Zenon DEF BecameHealthy, Goto, Running
<1>2a. Advance(c, "installing")
  <2>1. kind[c] \in {"deploy", "rollout"} /\ (kind[c] = "rollout" => found[c] \in Objects)
    BY Zenon, <1>1, <1>2 DEF CommandsFormed, CommandsTyped
  <2>2. CASE kind[c] = "deploy"
    <3>1. want' = [want EXCEPT ![c] = want[c]]
      BY <2>2 DEF BecameHealthy
    <3>2. want' = want
      BY Zenon, <1>1, <3>1 DEF CommandsTyped
    <3> QED
      BY Zenon, <1>2, <3>2 DEF BecameHealthy, Advance, Steps
  <2>3. CASE kind[c] = "rollout"
    <3>1. want' = [want EXCEPT ![c] = options[found[c]]]
      BY Zenon, <2>3 DEF BecameHealthy
    <3>2. options[found[c]] \in Options \cup {NoOptions}
      BY Zenon, <1>1, <2>1, <2>3 DEF OptionsTyped
    <3> QED
      BY Zenon, <1>2, <2>3, <3>1, <3>2 DEF BecameHealthy, Advance, Steps
  <2> QED
    BY Zenon, <2>1, <2>2, <2>3
<1>3. UNCHANGED <<mapVars, serviceVars, replaced, listed, image, file, disposed, crashes, history>>
  BY Zenon DEF BecameHealthy, saveVars
<1>4. UNCHANGED <<services, name, revived, overlapped, clashed, abandoned, before, unsaved>>
  BY Zenon, <1>3 DEF history, mapVars, serviceVars
<1>5. SavesFormed' /\ SavesTyped'
  BY Zenon, <1>2, <1>2a, <1>3, <1>4, QuietSaves
<1>6. HistoryTyped'
  BY Zenon, <1>1, <1>3, <1>4 DEF HistoryTyped
<1>7. FileFollows'
  <2>1. ~overlapped => FileAt(c)'
    BY Zenon, <1>1, <1>2, <1>3, <1>4, Alone, FileUnmoved DEF FileAt, PcTyped
  <2> QED
    BY Zenon, <1>1, <1>2, <1>3, <1>4, <2>1, FileStays DEF Steps
<1> QED
  BY Zenon, <1>2, <1>2a, <1>3, <1>4, <1>5, <1>6, <1>7, QuietStep DEF Early

LEMMA DrainDoneStep ==
  ASSUME RouterInv, NEW c \in Commands, DrainDone(c)
  PROVE  RouterInv'
<1>1. PcTyped /\ FileFollows /\ HistoryTyped
  BY Zenon, Parts
<1>2. pc[c] = "draining" /\ Advance(c, "listing") /\ c \in Running
  BY Zenon DEF DrainDone, Advance, Goto, commandVars, Steps, Running
<1>3. UNCHANGED <<mapVars, serviceVars, replaced, listed, image, file, disposed, crashes, history>>
  BY Zenon DEF DrainDone, commandVars, saveVars
<1>4. UNCHANGED <<services, name, revived, overlapped, clashed, abandoned, before, unsaved>>
  BY Zenon, <1>3 DEF history, mapVars, serviceVars
<1>5. SavesFormed' /\ SavesTyped'
  BY Zenon, <1>2, <1>3, <1>4, QuietSaves
<1>6. HistoryTyped'
  BY Zenon, <1>1, <1>3, <1>4 DEF HistoryTyped
<1>7. FileFollows'
  <2>1. ~overlapped => FileAt(c)'
    BY Zenon, <1>1, <1>2, <1>3, <1>4, Alone, FileUnmoved DEF FileAt, Advance, PcTyped
  <2> QED
    BY Zenon, <1>1, <1>2, <1>3, <1>4, <2>1, FileStays DEF Advance, Steps
<1> QED
  BY Zenon, <1>2, <1>3, <1>4, <1>5, <1>6, <1>7, QuietStep DEF Early

\* The deployment's load balancer is stopped before anything refers to it.
LEMMA HealthTimeoutStep ==
  ASSUME RouterInv, NEW c \in Commands, HealthTimeout(c)
  PROVE  RouterInv'
<1>1. PcTyped /\ FileFollows /\ HistoryTyped /\ SlotsFormed /\ SlotsApart
  BY Zenon, Parts
<1>2. pc[c] = "waiting" /\ Advance(c, "done") /\ c \in Running
  BY Zenon DEF HealthTimeout, Advance, Goto, commandVars, Steps, Running
<1>3. /\ UNCHANGED <<mapVars, serviceVars, replaced, listed, image, file, crashes, history>>
      /\ disposed' = disposed \cup {c}
  BY Zenon DEF HealthTimeout, commandVars, saveVars
<1>4. UNCHANGED <<services, name, revived, overlapped, clashed, abandoned, before, unsaved>>
  BY Zenon, <1>3 DEF history, mapVars, serviceVars
<1>5. SavesFormed' /\ SavesTyped'
  BY Zenon, <1>2, <1>3, <1>4, QuietSaves
<1>6. HistoryTyped'
  BY Zenon, <1>1, <1>3, <1>4 DEF HistoryTyped
<1>7. FileFollows'
  <2>1. ~overlapped => Settled'
    BY Zenon, <1>1, <1>2, <1>3, <1>4, Alone, FileUnmoved DEF FileAt, Settled
  <2> QED
    BY Zenon, <1>1, <1>2, <1>3, <1>4, <2>1, FileStays DEF Advance, Steps
<1>8. \A o \in Objects : active[o] # c /\ rollout[o] # c
  BY <1>1, <1>2, NoneApart DEF SlotsFormed, BroughtBy, Early
<1>9. pc'[c] \notin Early
  BY Zenon, <1>1, <1>2 DEF Advance, PcTyped, Early
<1>10. replaced[c] = None
  BY Zenon, <1>1, <1>2 DEF SlotsApart, Early
<1> QED
  BY Zenon, <1>2, <1>3, <1>4, <1>5, <1>6, <1>7, <1>8, <1>9, <1>10, QuietStep

LEMMA InstallConflictStep ==
  ASSUME RouterInv, NEW c \in Commands, InstallConflict(c)
  PROVE  RouterInv'
<1>1. PcTyped /\ FileFollows /\ HistoryTyped
  BY Zenon, Parts
<1>2. pc[c] = "installing" /\ Advance(c, "listing") /\ c \in Running
  BY Zenon DEF InstallConflict, Advance, Goto, commandVars, Steps, Running
<1>3. /\ UNCHANGED <<mapVars, serviceVars, replaced, listed, image, file, crashes, disposed>>
      /\ abandoned' = abandoned \cup {c}
  BY Zenon DEF InstallConflict, commandVars, saveVars
<1>4. UNCHANGED <<services, name, revived, overlapped, clashed, before, unsaved>>
  BY Zenon, <1>3 DEF InstallConflict, mapVars, serviceVars
<1>5. SavesFormed' /\ SavesTyped'
  BY Zenon, <1>2, <1>3, <1>4, QuietSaves
<1>6. HistoryTyped'
  BY Zenon, <1>1, <1>3, <1>4 DEF HistoryTyped
<1>7. FileFollows'
  <2>1. ~overlapped => FileAt(c)'
    BY Zenon, <1>1, <1>2, <1>3, <1>4, Alone, FileUnmoved DEF FileAt, Advance, PcTyped
  <2> QED
    BY Zenon, <1>1, <1>2, <1>3, <1>4, <2>1, FileStays DEF Advance, Steps
<1> QED
  BY Zenon, <1>2, <1>3, <1>4, <1>5, <1>6, <1>7, QuietStep

\* The services of the map have names of their own.
LEMMA InstalledNames ==
  ASSUME MapTyped, ServicesFormed
  PROVE  /\ \A o \in Installed : name[o] \in Names /\ services[name[o]] = o
         /\ \A o, p \in Installed : name[o] = name[p] => o = p
  BY NoneApart DEF MapTyped, ServicesFormed, Installed

LEMMA CollectServicesStep ==
  ASSUME RouterInv, NEW c \in Commands, CollectServices(c)
  PROVE  RouterInv'
<1>1. PcTyped /\ FileFollows /\ HistoryTyped /\ MapTyped /\ SavesTyped /\ SavesFormed /\ ServicesFormed
  BY Zenon, Parts
<1>2. pc[c] = "listing" /\ Advance(c, "creating") /\ c \in Running
  BY Zenon DEF CollectServices, Advance, Goto, commandVars, Steps, Running
<1>3. /\ UNCHANGED <<mapVars, serviceVars, replaced, image, file, disposed, crashes, history>>
      /\ listed' = [listed EXCEPT ![c] = Installed]
  BY Zenon DEF CollectServices, commandVars
<1>4. UNCHANGED <<services, name, revived, overlapped, clashed, abandoned, before, unsaved>>
  BY Zenon, <1>3 DEF history, mapVars, serviceVars
<1>5. SavesTyped'
  BY Zenon, <1>1, <1>3, InstalledObjects DEF SavesTyped
<1>6. SavesFormed'
  <2>1. Forward
    BY Zenon, <1>1, <1>2, AdvanceForward
  <2>2. /\ \A m \in file[2] : RecordFormed(m)'
        /\ \A d \in Commands : \A m \in image[d] : RecordFormed(m)'
    BY Zenon, <1>1, <2>1, RecordStays DEF SavesFormed
  <2>3. image[c] = {}
    BY Zenon, <1>1, <1>2 DEF SavesFormed
  <2>4. ASSUME NEW d \in Commands
        PROVE  /\ \A o \in listed'[d] : name[o] # None
               /\ \A o, p \in listed'[d] : name[o] = name[p] => o = p
               /\ \A m \in image[d] : \A o \in listed'[d] : m.name # name[o]
               /\ pc'[d] # "encoding" => image[d] = {}
    <3>1. CASE d = c
      <4>1. listed'[d] = Installed
        BY Zenon, <1>1, <1>3, <3>1 DEF SavesTyped
      <4> QED
        BY <1>1, <2>3, <3>1, <4>1, InstalledNames, NoneApart
    <3>2. CASE d # c
      <4>1. listed'[d] = listed[d] /\ pc'[d] = pc[d]
        BY Zenon, <1>1, <1>2, <1>3, <3>2 DEF SavesTyped, PcTyped, Advance
      <4> QED
        BY Zenon, <1>1, <4>1 DEF SavesFormed
    <3> QED
      BY Zenon, <3>1, <3>2
  <2> QED
    BY <1>1, <1>3, <1>4, <2>2, <2>4 DEF SavesFormed, OnePerName
<1>7. HistoryTyped'
  BY Zenon, <1>1, <1>3, <1>4 DEF HistoryTyped
<1>8. FileFollows'
  <2>1. listed'[c] = Installed /\ pc'[c] = "creating"
    BY Zenon, <1>1, <1>2, <1>3 DEF SavesTyped, PcTyped, Advance
  <2>2. ~overlapped => FileAt(c)'
    BY Zenon, <1>1, <1>2, <1>3, <1>4, <2>1, Alone, FileUnmoved DEF FileAt
  <2> QED
    BY Zenon, <1>1, <1>2, <1>3, <1>4, <2>2, FileStays DEF Advance, Steps
<1> QED
  BY Zenon, <1>2, <1>3, <1>4, <1>5, <1>6, <1>7, <1>8, QuietStep DEF Early

LEMMA CreateFileStep ==
  ASSUME RouterInv, NEW c \in Commands, CreateFile(c)
  PROVE  RouterInv'
<1>1. PcTyped /\ FileFollows /\ HistoryTyped /\ SavesTyped /\ SavesFormed
  BY Zenon, Parts
<1>2. pc[c] = "creating" /\ Advance(c, "encoding") /\ c \in Running
  BY Zenon DEF CreateFile, Advance, Goto, commandVars, Steps, Running
<1>3. /\ UNCHANGED <<mapVars, serviceVars, replaced, listed, image, disposed, crashes, history>>
      /\ file' = <<"truncated", {}>>
  BY Zenon DEF CreateFile, commandVars, saveVars
<1>4. UNCHANGED <<services, name, revived, overlapped, clashed, abandoned, before, unsaved>>
  BY Zenon, <1>3 DEF history, mapVars, serviceVars
<1>5. SavesTyped'
  BY Zenon, <1>1, <1>3 DEF SavesTyped
<1>6. SavesFormed'
  <2>1. Forward
    BY Zenon, <1>1, <1>2, AdvanceForward
  <2>2. \A d \in Commands : \A m \in image[d] : RecordFormed(m)'
    BY Zenon, <1>1, <2>1, RecordStays DEF SavesFormed
  <2>3. \A d \in Commands : pc'[d] # "encoding" => image[d] = {}
    BY Zenon, <1>1, <1>2 DEF SavesFormed, PcTyped, Advance
  <2> QED
    BY <1>1, <1>3, <1>4, <2>2, <2>3 DEF SavesFormed, OnePerName
<1>7. HistoryTyped'
  BY Zenon, <1>1, <1>3, <1>4 DEF HistoryTyped
<1>8. FileFollows'
  <2>1. Snapshot' = Snapshot /\ \A o : MarshalJSON(o)' = MarshalJSON(o)
    BY Zenon, <1>3, <1>4, SnapshotStays
  <2>2. pc'[c] = "encoding" /\ image[c] = {}
    BY Zenon, <1>1, <1>2 DEF PcTyped, Advance, SavesFormed
  <2>3. ~overlapped => listed[c] = Installed
    BY Zenon, <1>1, <1>2, Alone DEF FileAt
  <2>4. ~overlapped => FileAt(c)'
    BY Zenon, <1>3, <2>1, <2>2, <2>3 DEF FileAt, Snapshot
  <2>5. RestoreLastSavedState' = {}
    BY <1>3 DEF RestoreLastSavedState
  <2>6. CutShort' /\ ValidApart(RestoreLastSavedState)'
    BY Zenon, <2>2, <2>5 DEF CutShort, ValidApart
  <2> QED
    BY Zenon, <1>1, <1>2, <1>4, <2>4, <2>5, <2>6, FileStep DEF Advance, Steps
<1> QED
  BY Zenon, <1>2, <1>3, <1>4, <1>5, <1>6, <1>7, <1>8, QuietStep DEF Early

\* What is saved of a service that was made.
LEMMA MarshalMade ==
  ASSUME NamesTyped, OptionsTyped, SlotsTyped, StatesTyped, ServicesFormed, SlotsFormed,
         NEW o \in Objects, name[o] # None
  PROVE  MarshalJSON(o) \in Marshalled /\ MarshalJSON(o).name = name[o] /\ RecordFormed(MarshalJSON(o))
<1>1. name[o] \in Names /\ options[o] \in Options /\ active[o] \in Commands
  BY Zenon DEF NamesTyped, SlotsTyped, ServicesFormed
<1>2. rollout[o] \in Commands \cup {None} /\ split[o] \in BOOLEAN /\ paused[o] \in PauseStates
  BY Zenon DEF SlotsTyped, StatesTyped
<1>3. BroughtBy(active[o], "deploy", name[o]) /\ (rollout[o] # None => BroughtBy(rollout[o], "rollout", name[o]))
  BY Zenon, <1>1, NoneApart DEF SlotsFormed
<1>4. MarshalJSON(o) \in Marshalled
  BY Zenon, <1>1, <1>2 DEF MarshalJSON, Marshalled
<1>5. /\ MarshalJSON(o).name = name[o] /\ MarshalJSON(o).active = active[o]
      /\ MarshalJSON(o).rollout = rollout[o]
  BY Zenon DEF MarshalJSON
<1> QED
  BY Zenon, <1>3, <1>4, <1>5 DEF RecordFormed

\* What a save would hold now.
LEMMA SnapshotFormed ==
  ASSUME RouterInv
  PROVE  Snapshot \subseteq Marshalled /\ (~clashed => ValidApart(Snapshot))
<1>1. /\ MapTyped /\ NamesTyped /\ OptionsTyped /\ SlotsTyped /\ StatesTyped
      /\ ServicesFormed /\ SlotsFormed /\ AcceptedApart
  BY Zenon, Parts
<1>2. \A o \in Installed : o \in Objects /\ name[o] \in Names /\ services[name[o]] = o
  BY Zenon, <1>1, InstalledObjects, InstalledNames
<1>3. \A o \in Installed : MarshalJSON(o) \in Marshalled
  BY <1>1, <1>2, MarshalMade, NoneApart
<1>4. ASSUME ~clashed, NEW o \in Installed, NEW p \in Installed, MarshalJSON(o) # MarshalJSON(p),
             options[o].valid, options[p].valid
      PROVE  options[o].hosts \cap options[p].hosts = {}
  <2>1. name[o] # name[p]
    BY Zenon, <1>2, <1>4
  <2>2. services[name[o]] # None /\ services[name[p]] # None
    BY <1>2, NoneApart
  <2> QED
    BY <1>1, <1>2, <1>4, <2>1, <2>2 DEF AcceptedApart
<1>5. \A o : MarshalJSON(o).options = options[o]
  BY Zenon DEF MarshalJSON
<1> QED
  BY Zenon, <1>3, <1>4, <1>5 DEF Snapshot, ValidApart

\* The entries of a buffer, as one service is added.
LEMMA EncodeSaves ==
  ASSUME RouterInv, NEW c \in Commands, NEW o \in Objects, EncodeService(c, o)
  PROVE  SavesTyped' /\ SavesFormed'
<1>1. /\ PcTyped /\ SavesTyped /\ SavesFormed /\ NamesTyped /\ OptionsTyped /\ SlotsTyped /\ StatesTyped
      /\ ServicesFormed /\ SlotsFormed
  BY Zenon, Parts
<1>2. /\ pc[c] = "encoding" /\ o \in listed[c]
      /\ image' = [image EXCEPT ![c] = image[c] \cup {MarshalJSON(o)}]
      /\ listed' = [listed EXCEPT ![c] = listed[c] \ {o}]
      /\ UNCHANGED <<name, pc, kind, arg, file>>
  BY Zenon DEF EncodeService, serviceVars, commandVars
<1>3. name[o] # None
  BY Zenon, <1>1, <1>2 DEF SavesFormed
<1>4. PICK r : r = MarshalJSON(o) /\ r \in Marshalled /\ r.name = name[o] /\ RecordFormed(r)
  BY Zenon, <1>1, <1>3, MarshalMade
<1>5. \A m : RecordFormed(m)' <=> RecordFormed(m)
  BY Zenon, <1>2 DEF RecordFormed, BroughtBy
<1>6. ASSUME NEW d \in Commands
      PROVE  /\ listed'[d] \subseteq listed[d]
             /\ d # c => image'[d] = image[d]
             /\ d = c => listed'[d] = listed[d] \ {o}
  BY Zenon, <1>1, <1>2 DEF SavesTyped
<1>7. ASSUME NEW d \in Commands
      PROVE  /\ image'[d] \subseteq Marshalled
             /\ \A m \in image'[d] : RecordFormed(m)' /\ \A p \in listed'[d] : m.name # name[p]
             /\ OnePerName(image'[d])
             /\ pc[d] # "encoding" => image'[d] = {}
  <2>1. /\ image[d] \subseteq Marshalled
        /\ \A m \in image[d] : RecordFormed(m)' /\ \A p \in listed[d] : m.name # name[p]
        /\ OnePerName(image[d])
        /\ pc[d] # "encoding" => image[d] = {}
    BY Zenon, <1>1, <1>5 DEF SavesTyped, SavesFormed
  <2>2. CASE d # c
    BY Zenon, <1>6, <2>1, <2>2
  <2>3. CASE d = c
    <3>1. image'[c] = image[c] \cup {r}
      BY Zenon, <1>1, <1>2, <1>4 DEF SavesTyped
    <3>2. RecordFormed(r)'
      BY Zenon, <1>4, <1>5
    <3>3. \A p \in listed'[c] : r.name # name[p]
      BY <1>1, <1>2, <1>4, <1>6 DEF SavesFormed
    <3>4. \A m \in image[c] : m.name # r.name
      BY <1>1, <1>2, <1>4 DEF SavesFormed
    <3>5. OnePerName(image'[c])
      BY Zenon, <2>1, <2>3, <3>1, <3>4 DEF OnePerName
    <3> QED
      BY <1>2, <1>4, <1>6, <2>1, <2>3, <3>1, <3>2, <3>3, <3>5
  <2> QED
    BY Zenon, <2>2, <2>3
<1>8. SavesTyped'
  BY Zenon, <1>1, <1>2, <1>7 DEF SavesTyped
<1>9. \A d \in Commands : /\ \A p \in listed'[d] : name'[p] # None
                          /\ \A p, q \in listed'[d] : name'[p] = name'[q] => p = q
  BY <1>1, <1>2, <1>6 DEF SavesFormed
<1>10. (\A m \in file'[2] : RecordFormed(m)') /\ OnePerName(file'[2])
  BY Zenon, <1>1, <1>2, <1>5 DEF SavesFormed
<1> QED
  BY <1>2, <1>7, <1>8, <1>9, <1>10 DEF SavesFormed, OnePerName

LEMMA EncodeServiceStep ==
  ASSUME RouterInv, NEW c \in Commands, NEW o \in Objects, EncodeService(c, o)
  PROVE  RouterInv'
<1>1. PcTyped /\ FileFollows /\ HistoryTyped /\ SavesTyped
  BY Zenon, Parts
<1>2. pc[c] = "encoding" /\ o \in listed[c] /\ pc' = [pc EXCEPT ![c] = "encoding"] /\ c \in Running
  BY Zenon, <1>1 DEF EncodeService, PcTyped, Running
<1>3. Advance(c, "encoding")
  BY Zenon, <1>2 DEF EncodeService, Advance, commandVars, Steps
<1>4. UNCHANGED <<mapVars, serviceVars, replaced, file, disposed, crashes, history>>
  BY Zenon DEF EncodeService, commandVars
<1>5. UNCHANGED <<services, revived, overlapped, clashed, abandoned, before, unsaved>>
  BY Zenon, <1>4 DEF history, mapVars
<1>6. SavesTyped' /\ SavesFormed'
  BY Zenon, EncodeSaves
<1>7. HistoryTyped'
  BY Zenon, <1>1, <1>4, <1>5 DEF HistoryTyped
<1>8. FileFollows'
  <2>1. Snapshot' = Snapshot /\ \A p : MarshalJSON(p)' = MarshalJSON(p)
    BY Zenon, <1>4, <1>5, SnapshotStays
  <2>2. image'[c] = image[c] \cup {MarshalJSON(o)} /\ listed'[c] = listed[c] \ {o}
    BY Zenon, <1>1 DEF EncodeService, SavesTyped
  <2>3. image'[c] \cup {MarshalJSON(p) : p \in listed'[c]} = image[c] \cup {MarshalJSON(p) : p \in listed[c]}
    BY Zenon, <1>2, <2>2
  <2>4. pc'[c] = "encoding"
    BY Zenon, <1>1, <1>2 DEF PcTyped
  <2>5. ~overlapped => FileAt(c)'
    BY <1>1, <1>2, <1>4, <2>1, <2>3, <2>4, Alone DEF FileAt
  <2>6. CutShort'
    BY Zenon, <2>4 DEF CutShort
  <2>7. ~overlapped /\ ~clashed => ValidApart(RestoreLastSavedState)'
    BY Zenon, <1>1, <1>2, <1>4, Alone, RestoredStays DEF ValidApart
  <2> QED
    BY Zenon, <1>1, <1>2, <1>5, <2>5, <2>6, <2>7, FileStep DEF Steps
<1> QED
  BY Zenon, <1>2, <1>3, <1>4, <1>5, <1>6, <1>7, <1>8, QuietStep DEF Early

\* The buffer of a save that is over, and what may be in the file then.
LEMMA EndedSaves ==
  ASSUME RouterInv, NEW c \in Commands, NEW step, Advance(c, step), pc[c] = "encoding",
         image' = [image EXCEPT ![c] = {}], UNCHANGED <<name, listed>>,
         file' \in {file, <<"truncated", {}>>, <<"saved", image[c]>>}
  PROVE  SavesTyped' /\ SavesFormed'
<1>1. PcTyped /\ SavesTyped /\ SavesFormed
  BY Zenon, Parts
<1>2. Forward
  BY Zenon, <1>1, AdvanceForward
<1>3. /\ image' \in [Commands -> SUBSET Marshalled]
      /\ \A d \in Commands : image'[d] = IF d = c THEN {} ELSE image[d]
  BY Zenon, <1>1 DEF SavesTyped
<1>4. /\ file' \in {"absent", "truncated", "saved"} \X SUBSET Marshalled
      /\ file'[2] \in {file[2], {}, image[c]}
  BY <1>1 DEF SavesTyped
<1>5. SavesTyped'
  BY Zenon, <1>1, <1>3, <1>4 DEF SavesTyped
<1>6. /\ \A d \in Commands : \A m \in image[d] : RecordFormed(m)'
      /\ \A m \in file[2] : RecordFormed(m)'
  BY Zenon, <1>1, <1>2, RecordStays DEF SavesFormed
<1>7. (\A m \in file'[2] : RecordFormed(m)') /\ OnePerName(file'[2])
  BY Zenon, <1>1, <1>4, <1>6 DEF SavesFormed, OnePerName
<1>8. \A d \in Commands : pc'[d] # "encoding" => image'[d] = {}
  BY Zenon, <1>1, <1>3 DEF SavesFormed, PcTyped, Advance
<1>9. ASSUME NEW d \in Commands
      PROVE  /\ \A m \in image'[d] : RecordFormed(m)' /\ \A o \in listed[d] : m.name # name[o]
             /\ OnePerName(image'[d])
  BY Zenon, <1>1, <1>3, <1>6 DEF SavesFormed, OnePerName
<1> QED
  BY <1>1, <1>5, <1>7, <1>8, <1>9 DEF SavesFormed, OnePerName

\* The step after a save.
LEMMA EndSaveAdvance ==
  ASSUME NEW c \in Commands, pc[c] \in {"creating", "encoding"}, EndSave(c), UNCHANGED commandVars
  PROVE  \E step \in {"done", "disposing"} :
           (step = "done" <=> replaced[c] = None) /\ Advance(c, step) /\ c \in Running
<1> DEFINE step == IF replaced[c] = None THEN "done" ELSE "disposing"
<1>1. step \in {"done", "disposing"} /\ (step = "done" <=> replaced[c] = None)
  OBVIOUS
<1>2. pc' = [pc EXCEPT ![c] = step]
  BY Zenon DEF EndSave, Goto
<1> HIDE DEF step
<1>3. Advance(c, step) /\ c \in Running
  BY Zenon, <1>1, <1>2 DEF Advance, commandVars, Steps, Running
<1> QED
  BY Zenon, <1>1, <1>3

\* A command that ran alone has saved the services as they are.
LEMMA WriteFileStep ==
  ASSUME RouterInv, NEW c \in Commands, WriteFile(c)
  PROVE  RouterInv'
<1>1. PcTyped /\ FileFollows /\ HistoryTyped /\ SavesTyped
  BY Zenon, Parts
<1>2. PICK step \in {"done", "disposing"} :
        (step = "done" <=> replaced[c] = None) /\ Advance(c, step) /\ c \in Running
  BY Zenon, EndSaveAdvance DEF WriteFile
<1>3. /\ UNCHANGED <<mapVars, serviceVars, replaced, disposed, crashes, listed>>
      /\ UNCHANGED <<revived, overlapped, clashed, abandoned, before>>
      /\ pc[c] = "encoding" /\ listed[c] = {} /\ unsaved' = FALSE
      /\ file' = <<"saved", image[c]>> /\ image' = [image EXCEPT ![c] = {}]
  BY Zenon DEF WriteFile, commandVars
<1>4. UNCHANGED <<services, name>>
  BY Zenon, <1>3 DEF mapVars, serviceVars
<1>5. SavesTyped' /\ SavesFormed'
  BY Zenon, <1>2, <1>3, <1>4, EndedSaves
<1>6. HistoryTyped'
  BY Zenon, <1>1, <1>3 DEF HistoryTyped
<1>7. FileFollows'
  <2>1. Snapshot' = Snapshot
    BY Zenon, <1>3, <1>4, SnapshotStays
  <2>2. ~overlapped => image[c] = Snapshot
    BY <1>1, <1>2, <1>3, Alone DEF FileAt
  <2>3. RestoreLastSavedState' = Decoded(image[c])
    <3>1. {UnmarshalJSON(m) : m \in image[c]} = image[c]
      BY Zenon, <1>1, ReadBack DEF SavesTyped
    <3>2. file'[1] = "saved" /\ file'[2] = image[c]
      BY Zenon, <1>3
    <3>3. RestoreLastSavedState' = IF \A m \in image[c] : m.options.valid
                                   THEN {UnmarshalJSON(m) : m \in image[c]} ELSE {}
      BY Zenon, <3>2 DEF RestoreLastSavedState, UnmarshalJSON
    <3> QED
      BY Zenon, <3>1, <3>3 DEF Decoded
  <2>4. Decoded(Snapshot)' = Decoded(Snapshot)
    BY Zenon, <2>1 DEF Decoded
  <2>5. ~overlapped => Settled'
    BY Zenon, <2>2, <2>3, <2>4 DEF Settled
  <2>6. pc'[c] = step
    BY Zenon, <1>1, <1>2 DEF PcTyped, Advance
  <2>7. ~overlapped => IF step = "done" THEN Settled' ELSE FileAt(c)'
    BY Zenon, <1>2, <2>5, <2>6 DEF FileAt
  <2>8. CutShort'
    BY Zenon, <1>3 DEF CutShort
  <2>9. ~overlapped /\ ~clashed => ValidApart(RestoreLastSavedState)'
    BY Zenon, <2>2, <2>3, SnapshotFormed DEF Decoded, ValidApart
  <2> QED
    BY Zenon, <1>1, <1>2, <1>3, <2>7, <2>8, <2>9, FileStep DEF Advance, Steps
<1> QED
  BY Zenon, <1>2, <1>3, <1>5, <1>6, <1>7, QuietStep DEF Early

\* The file is left as it was, and the command goes on.
LEMMA CreateFailsStep ==
  ASSUME RouterInv, NEW c \in Commands, CreateFails(c)
  PROVE  RouterInv'
<1>1. PcTyped /\ FileFollows /\ HistoryTyped
  BY Zenon, Parts
<1>2. PICK step \in {"done", "disposing"} :
        (step = "done" <=> replaced[c] = None) /\ Advance(c, step) /\ c \in Running
  BY Zenon, EndSaveAdvance DEF CreateFails
<1>3. /\ UNCHANGED <<mapVars, serviceVars, replaced, disposed, crashes, listed, image, file>>
      /\ UNCHANGED <<revived, overlapped, clashed, abandoned, before>>
      /\ pc[c] = "creating" /\ unsaved' = TRUE
  BY Zenon DEF CreateFails, commandVars, saveVars
<1>4. UNCHANGED <<services, name>>
  BY Zenon, <1>3 DEF mapVars, serviceVars
<1>5. SavesTyped' /\ SavesFormed'
  BY Zenon, <1>2, <1>3, <1>4, QuietSaves
<1>6. HistoryTyped'
  BY Zenon, <1>1, <1>3 DEF HistoryTyped
<1>7. FileFollows'
  <2>1. RestoreLastSavedState' = RestoreLastSavedState
    BY Zenon, <1>3, RestoredStays
  <2>2. ~overlapped => Settled'
    BY Zenon, <1>1, <1>2, <1>3, <2>1, Alone DEF FileAt, Settled
  <2>3. pc'[c] = step
    BY Zenon, <1>1, <1>2 DEF PcTyped, Advance
  <2>4. ~overlapped => IF step = "done" THEN Settled' ELSE FileAt(c)'
    BY Zenon, <1>2, <2>2, <2>3 DEF FileAt
  <2>5. CutShort'
    BY Zenon, <1>3 DEF CutShort
  <2>6. ~overlapped /\ ~clashed => ValidApart(RestoreLastSavedState)'
    BY Zenon, <1>1, <1>2, <2>1, Alone DEF ValidApart
  <2> QED
    BY Zenon, <1>1, <1>2, <1>3, <2>4, <2>5, <2>6, FileStep DEF Advance, Steps
<1> QED
  BY Zenon, <1>2, <1>3, <1>5, <1>6, <1>7, QuietStep DEF Early

\* A command that ran alone leaves the file truncated.
LEMMA WriteFailsStep ==
  ASSUME RouterInv, NEW c \in Commands, WriteFails(c)
  PROVE  RouterInv'
<1>1. PcTyped /\ FileFollows /\ HistoryTyped
  BY Zenon, Parts
<1>2. PICK step \in {"done", "disposing"} :
        (step = "done" <=> replaced[c] = None) /\ Advance(c, step) /\ c \in Running
  BY Zenon, EndSaveAdvance DEF WriteFails
<1>3. /\ UNCHANGED <<mapVars, serviceVars, replaced, disposed, crashes, listed>>
      /\ UNCHANGED <<revived, overlapped, clashed, abandoned, before>>
      /\ pc[c] = "encoding" /\ unsaved' = TRUE
      /\ file' \in {file, <<"truncated", {}>>} /\ image' = [image EXCEPT ![c] = {}]
  BY Zenon DEF WriteFails, commandVars
<1>4. UNCHANGED <<services, name>>
  BY Zenon, <1>3 DEF mapVars, serviceVars
<1>5. SavesTyped' /\ SavesFormed'
  BY Zenon, <1>2, <1>3, <1>4, EndedSaves
<1>6. HistoryTyped'
  BY Zenon, <1>1, <1>3 DEF HistoryTyped
<1>7. FileFollows'
  <2>1. ~overlapped => file' = <<"truncated", {}>>
    BY Zenon, <1>1, <1>2, <1>3, Alone DEF FileAt
  <2>2. ~overlapped => file'[1] = "truncated" /\ RestoreLastSavedState' = {}
    BY <2>1 DEF RestoreLastSavedState
  <2>3. ~overlapped => Settled'
    BY Zenon, <1>3, <2>2 DEF Settled
  <2>4. pc'[c] = step
    BY Zenon, <1>1, <1>2 DEF PcTyped, Advance
  <2>5. ~overlapped => IF step = "done" THEN Settled' ELSE FileAt(c)'
    BY Zenon, <1>2, <2>3, <2>4 DEF FileAt
  <2>6. CutShort'
    BY Zenon, <1>3 DEF CutShort
  <2>7. ~overlapped /\ ~clashed => ValidApart(RestoreLastSavedState)'
    BY Zenon, <2>2 DEF ValidApart
  <2> QED
    BY Zenon, <1>1, <1>2, <1>3, <2>5, <2>6, <2>7, FileStep DEF Advance, Steps
<1> QED
  BY Zenon, <1>2, <1>3, <1>5, <1>6, <1>7, QuietStep DEF Early

\* The load balancer that was replaced is in no slot any more.
LEMMA DisposeReplacedStep ==
  ASSUME RouterInv, NEW c \in Commands, DisposeReplaced(c)
  PROVE  RouterInv'
<1>1. PcTyped /\ FileFollows /\ HistoryTyped /\ SlotsApart /\ ReplacedTyped
  BY Zenon, Parts
<1>2. pc[c] = "disposing" /\ Advance(c, "done") /\ c \in Running
  BY Zenon DEF DisposeReplaced, Advance, Goto, commandVars, Steps, Running
<1>3. /\ UNCHANGED <<mapVars, serviceVars, replaced, listed, image, file, crashes, history>>
      /\ disposed' = disposed \cup {replaced[c]}
  BY Zenon DEF DisposeReplaced, commandVars, saveVars
<1>4. UNCHANGED <<services, name, revived, overlapped, clashed, abandoned, before, unsaved>>
  BY Zenon, <1>3 DEF history, mapVars, serviceVars
<1>5. SavesFormed' /\ SavesTyped'
  BY Zenon, <1>2, <1>3, <1>4, QuietSaves
<1>6. replaced[c] # None /\ replaced[c] \in Commands
  BY Zenon, <1>1, <1>2 DEF ReplacedTyped, SlotsApart
<1>7. HistoryTyped'
  BY Zenon, <1>1, <1>3, <1>4, <1>6 DEF HistoryTyped
<1>8. FileFollows'
  <2>1. ~overlapped => Settled'
    BY Zenon, <1>1, <1>2, <1>3, <1>4, Alone, FileUnmoved DEF FileAt
  <2> QED
    BY Zenon, <1>1, <1>2, <1>3, <1>4, <2>1, FileStays DEF Advance, Steps
<1>9. pc'[replaced[c]] \notin Early /\ \A o \in Objects : active[o] # replaced[c] /\ rollout[o] # replaced[c]
  BY Zenon, <1>1, <1>2, <1>6, AdvanceForward DEF SlotsApart, Forward
<1> QED
  BY Zenon, <1>2, <1>3, <1>4, <1>5, <1>7, <1>8, <1>9, QuietStep DEF Early

-----------------------------------------------------------------------------
\* The steps that change the fields of a service.

\* The options of the service that is installed become invalid, which takes it
\* out of what BindingsFormed and AcceptedApart speak of.
LEMMA InstallInvalidStep ==
  ASSUME RouterInv, NEW c \in Commands, InstallInvalid(c)
  PROVE  RouterInv'
<1>1. /\ PcTyped /\ FileFollows /\ HistoryTyped /\ OptionsTyped /\ StatesTyped /\ MapTyped /\ CommandsTyped
      /\ CommandsFormed /\ ServicesFormed /\ BindingsFormed /\ AcceptedApart
  BY Zenon, Parts
<1>2. /\ pc[c] = "installing" /\ kind[c] = "deploy" /\ Advance(c, "listing") /\ c \in Running
      /\ ~want[c].valid
  BY Zenon DEF InstallInvalid, Advance, Goto, commandVars, Steps, Running
<1>3. /\ UNCHANGED <<services, bound, name, active, rollout, split, paused, replaced, listed, image, file>>
      /\ UNCHANGED <<disposed, crashes, revived, overlapped, clashed, before, unsaved>>
      /\ abandoned' = abandoned \cup {c}
  BY Zenon DEF InstallInvalid, commandVars, saveVars, mapVars
<1>4. want[c] \in Options
  BY Zenon, <1>1, <1>2 DEF CommandsFormed
<1>5. /\ options' \in [Objects -> Options \cup {NoOptions}]
      /\ \A o \in Objects : options'[o] = options[o] \/ (options'[o] = want[c] /\ ~options'[o].valid)
  BY Zenon, <1>1, <1>2, <1>4 DEF InstallInvalid, OptionsTyped
<1>6. OptionsTyped' /\ StatesTyped'
  BY Zenon, <1>1, <1>3, <1>5 DEF OptionsTyped, StatesTyped
<1>7. ServicesFormed'
  <2>1. Forward
    BY Zenon, <1>1, <1>2, AdvanceForward
  <2>2. \A o \in Objects : options[o] \in Options => options'[o] \in Options
    BY Zenon, <1>4, <1>5
  <2> QED
    BY Zenon, <1>1, <1>3, <2>1, <2>2, ServicesStep
<1>8. \A n \in Names : services[n] # None /\ options'[services[n]].valid =>
                         options'[services[n]] = options[services[n]]
  BY Zenon, <1>1, <1>5 DEF MapTyped
<1>9. BindingsFormed'
  <2>1. Installed' = Installed
    BY Zenon, <1>3 DEF Installed
  <2> QED
    BY Zenon, <1>1, <1>3, <1>8, <2>1 DEF BindingsFormed
<1>10. AcceptedApart'
  BY Zenon, <1>1, <1>3, <1>8 DEF AcceptedApart
<1>11. SavesFormed' /\ SavesTyped'
  BY Zenon, <1>2, <1>3, QuietSaves
<1>12. HistoryTyped'
  BY Zenon, <1>1, <1>3 DEF HistoryTyped
<1>13. FileFollows'
  <2>1. pc'[c] = "listing"
    BY Zenon, <1>1, <1>2 DEF PcTyped, Advance
  <2>2. ~overlapped => RestoreLastSavedState = before
    BY Zenon, <1>1, <1>2, Alone DEF FileAt
  <2>3. ~overlapped => FileAt(c)'
    BY Zenon, <1>3, <2>1, <2>2, RestoredStays DEF FileAt
  <2> QED
    BY Zenon, <1>1, <1>2, <1>3, <2>3, FileStays DEF Advance, Steps
<1> QED
  BY Zenon, <1>2, <1>3, <1>6, <1>7, <1>9, <1>10, <1>11, <1>12, <1>13, SettledStep

\* ChangeSplit and ChangePause, whatever they write.
LEMMA ChangeStep ==
  ASSUME RouterInv, NEW c \in Commands, NEW step \in {"listing", "draining"}, pc[c] = "changing",
         Goto(c, step), StatesTyped',
         UNCHANGED <<mapVars, name, options, active, rollout, commandVars, saveVars,
                     disposed, file, crashes, history>>
  PROVE  RouterInv'
<1>1. /\ PcTyped /\ FileFollows /\ HistoryTyped /\ OptionsTyped
      /\ ServicesFormed /\ BindingsFormed /\ AcceptedApart
  BY Zenon, Parts
<1>2. Advance(c, step) /\ c \in Running
  BY Zenon DEF Advance, Goto, commandVars, Steps, Running
<1>3. /\ UNCHANGED <<services, bound, name, options, active, rollout, replaced, listed, image, file>>
      /\ UNCHANGED <<disposed, crashes, revived, overlapped, clashed, abandoned, before, unsaved>>
  BY Zenon DEF commandVars, saveVars, mapVars, history
<1>4. OptionsTyped'
  BY Zenon, <1>1, <1>3 DEF OptionsTyped
<1>5. ServicesFormed'
  BY Zenon, <1>1, <1>2, <1>3, AdvanceForward, ServicesStep
<1>6. BindingsFormed' /\ AcceptedApart'
  BY Zenon, <1>1, <1>3, BindingsStep
<1>7. SavesFormed' /\ SavesTyped'
  BY Zenon, <1>2, <1>3, QuietSaves
<1>8. HistoryTyped'
  BY Zenon, <1>1, <1>3 DEF HistoryTyped
<1>9. FileFollows'
  <2>1. pc'[c] \in {"listing", "draining"}
    BY Zenon, <1>1, <1>2 DEF PcTyped, Advance
  <2>2. ~overlapped => RestoreLastSavedState = before
    BY Zenon, <1>1, <1>2, Alone DEF FileAt
  <2>3. ~overlapped => FileAt(c)'
    BY Zenon, <1>3, <2>1, <2>2, RestoredStays DEF FileAt
  <2> QED
    BY Zenon, <1>1, <1>2, <1>3, <2>3, FileStays DEF Advance, Steps
<1> QED
  BY Zenon, <1>2, <1>3, <1>4, <1>5, <1>6, <1>7, <1>8, <1>9, SettledStep DEF Early

LEMMA ChangeSplitStep ==
  ASSUME RouterInv, NEW c \in Commands, ChangeSplit(c)
  PROVE  RouterInv'
<1>1. StatesTyped
  BY Zenon, Parts
<1>2. StatesTyped'
  BY Zenon, <1>1 DEF StatesTyped, ChangeSplit
<1> QED
  BY Zenon, <1>2, ChangeStep DEF ChangeSplit

LEMMA ChangePauseStep ==
  ASSUME RouterInv, NEW c \in Commands, ChangePause(c)
  PROVE  RouterInv'
<1>1. StatesTyped
  BY Zenon, Parts
<1>2. StatesTyped'
  BY Zenon, <1>1 DEF StatesTyped, ChangePause, PauseStates
<1> QED
  BY Zenon, <1>2, ChangeStep DEF ChangePause

-----------------------------------------------------------------------------
\* The steps that change the map.

\* Binding anew binds every service to its hosts.
LEMMA Rebind ==
  ASSUME services' \in [Names -> Objects \cup {None}], bound' = BindingsOf(services', options')
  PROVE  MapTyped' /\ BindingsFormed'
<1>1. bound' = [h \in Hosts |-> {services'[n] : n \in {m \in Names : services'[m] # None
                                                       /\ h \in options'[services'[m]].hosts}}]
  BY Zenon DEF BindingsOf
<1>2. \A h \in Hosts : \A o : o \in bound'[h] <=>
         \E m \in Names : o = services'[m] /\ services'[m] # None /\ h \in options'[services'[m]].hosts
  BY <1>1
<1>3. MapTyped'
  BY <1>1, <1>2 DEF MapTyped
<1>4. \A h \in Hosts : bound'[h] \subseteq Installed'
  BY <1>2 DEF Installed
<1> QED
  BY <1>2, <1>3, <1>4 DEF BindingsFormed

\* A service leaves the map, with its load balancers stopped: they are in no
\* other service.
LEMMA RemoveStep ==
  ASSUME RouterInv, NEW c \in Commands, RemoveService(c), services[arg[c]] # None
  PROVE  RouterInv'
<1> DEFINE o == services[arg[c]]
<1>1. /\ MapTyped /\ NamesTyped /\ OptionsTyped /\ SlotsTyped /\ StatesTyped
      /\ CommandsTyped /\ PcTyped /\ ReplacedTyped /\ HistoryTyped
      /\ CommandsFormed /\ ServicesFormed /\ SlotsFormed /\ SlotsApart
      /\ BindingsFormed /\ AcceptedApart
      /\ LiveUnlessRevived /\ OthersDisposed /\ BroughtAccounted /\ FileFollows
  BY Zenon, Parts
<1>2. pc[c] = "changing" /\ Advance(c, "listing") /\ c \in Running
  BY Zenon DEF RemoveService, Advance, Goto, commandVars, Steps, Running
<1>3. /\ UNCHANGED <<name, options, active, rollout, split, paused, replaced, listed, image, file>>
      /\ UNCHANGED <<crashes, revived, overlapped, clashed, abandoned, before, unsaved>>
  BY Zenon DEF RemoveService, commandVars, saveVars, serviceVars, history
<1>4. /\ disposed' = disposed \cup ({active[o], rollout[o]} \ {None})
      /\ services' = [services EXCEPT ![arg[c]] = None] /\ bound' = BindingsOf(services', options)
  BY Zenon DEF RemoveService, RemoveFromMap
<1>5. arg[c] \in Names /\ o \in Objects /\ name[o] = arg[c]
  BY <1>1, <1>2 DEF MapTyped, CommandsFormed, ServicesFormed
<1> HIDE DEF o
<1>6. services' \in [Names -> Objects \cup {None}]
      /\ \A n \in Names : services'[n] = IF n = arg[c] THEN None ELSE services[n]
  BY Zenon, <1>1, <1>4, <1>5 DEF MapTyped
<1>7. MapTyped' /\ BindingsFormed'
  BY Zenon, <1>3, <1>4, <1>6, Rebind
<1>8. NamesTyped' /\ OptionsTyped' /\ SlotsTyped' /\ StatesTyped' /\ NamesStay
  BY Zenon, <1>1, <1>3 DEF NamesTyped, OptionsTyped, SlotsTyped, StatesTyped, NamesStay
<1>9. Forward /\ PcTyped'
  BY Zenon, <1>1, <1>2, AdvanceForward
<1>10. CommandsFormed' /\ CommandsTyped'
  BY Zenon, <1>1, <1>2, <1>8, CommandsStep
<1>11. ServicesFormed'
  BY <1>1, <1>3, <1>6, <1>9 DEF ServicesFormed, Forward
<1>12. SlotsFormed'
  BY Zenon, <1>1, <1>3, <1>9, BroughtStays DEF SlotsFormed
<1>13. SavesFormed' /\ SavesTyped'
  BY Zenon, <1>2, <1>3, QuietSaves
<1>14. SlotsApart' /\ ReplacedTyped'
  <2>1. \A d \in disposed' : d \in disposed \/ pc'[d] \notin Early
    BY Zenon, <1>1, <1>4, <1>5, <1>9 DEF SlotsFormed, BroughtBy, Forward
  <2>2. \A d \in Commands : pc'[d] = "disposing" => pc[d] = "disposing"
    BY Zenon, <1>1, <1>2 DEF Advance, PcTyped
  <2> QED
    BY Zenon, <1>1, <1>3, <1>9, <2>1, <2>2, SlotsStep
<1>15. AcceptedApart'
  BY Zenon, <1>1, <1>3, <1>6 DEF AcceptedApart
<1>16. Installed' = Installed \ {o}
  <2>1. \A n \in Names : services[n] = o => n = arg[c]
    BY Zenon, <1>1, <1>5, NoneApart DEF ServicesFormed
  <2>2. o = services[arg[c]]
    BY Zenon DEF o
  <2> QED
    BY <1>5, <1>6, <2>1, <2>2 DEF Installed
<1>17. LiveUnlessRevived'
  <2> SUFFICES ASSUME ~revived, NEW p \in Installed \ {o}
               PROVE  active[p] # None /\ LoadBalancersOf(p) \cap disposed' = {}
    BY Zenon, <1>3, <1>16 DEF LiveUnlessRevived, LiveLoadBalancers, LoadBalancersOf
  <2>1. p \in Objects /\ active[p] # None /\ LoadBalancersOf(p) \cap disposed = {}
    BY Zenon, <1>1, InstalledObjects DEF LiveUnlessRevived, LiveLoadBalancers
  <2>2. /\ active[p] \notin {active[o], rollout[o]} \ {None}
        /\ rollout[p] # None => rollout[p] \notin {active[o], rollout[o]} \ {None}
    BY <1>1, <1>5, <2>1 DEF SlotsApart, SlotsFormed, BroughtBy
  <2> QED
    BY Zenon, <1>4, <2>1, <2>2 DEF LoadBalancersOf
<1>18. OthersDisposed'
  BY Zenon, <1>1, <1>3, <1>4, <1>5, <1>16 DEF OthersDisposed, LoadBalancersOf
<1>19. BroughtAccounted'
  <2>1. \A d \in Commands : Accounted(d) => Accounted(d)'
    <3>1. Running' = Running
      BY Zenon, <1>1, <1>2 DEF Running, Advance, PcTyped
    <3>2. o = services[arg[c]]
      BY Zenon DEF o
    <3> QED
      BY Zenon, <1>3, <1>4, <1>6, <3>1, <3>2 DEF Accounted, LoadBalancersOf
  <2>2. \A d \in Commands : pc'[d] \notin Early => pc[d] \notin Early
    BY Zenon, <1>1, <1>2 DEF Advance, PcTyped, Early
  <2>3. kind' = kind /\ found' = found
    BY Zenon, <1>2 DEF Advance
  <2> QED
    BY Zenon, <1>1, <1>3, <2>1, <2>2, <2>3 DEF BroughtAccounted
<1>20. HistoryTyped'
  BY Zenon, <1>1, <1>3, <1>4, <1>5 DEF HistoryTyped, SlotsTyped
<1>21. FileFollows'
  <2>1. pc'[c] = "listing"
    BY Zenon, <1>1, <1>2 DEF PcTyped, Advance
  <2>2. ~overlapped => RestoreLastSavedState = before
    BY Zenon, <1>1, <1>2, Alone DEF FileAt
  <2>3. ~overlapped => FileAt(c)'
    BY Zenon, <1>3, <2>1, <2>2, RestoredStays DEF FileAt
  <2> QED
    BY Zenon, <1>1, <1>2, <1>3, <2>3, FileStays DEF Advance, Steps
<1> QED
  BY Zenon, PartsNext, <1>7, <1>8, <1>9, <1>10, <1>11, <1>12, <1>13, <1>14, <1>15, <1>17, <1>18,
     <1>19, <1>20, <1>21

LEMMA RemoveServiceStep ==
  ASSUME RouterInv, NEW c \in Commands, RemoveService(c)
  PROVE  RouterInv'
<1>1. CASE services[arg[c]] # None
  BY Zenon, <1>1, RemoveStep
<1>2. CASE services[arg[c]] = None
  <2>1. PcTyped /\ StatesTyped
    BY Zenon, Parts
  <2>2. /\ UNCHANGED <<mapVars, name, options, active, rollout, commandVars, saveVars>>
        /\ UNCHANGED <<disposed, file, crashes, history, split, paused>>
        /\ pc[c] = "changing" /\ Goto(c, "listing")
    BY Zenon, <1>2 DEF RemoveService, serviceVars
  <2>3. StatesTyped'
    BY Zenon, <2>1, <2>2 DEF StatesTyped
  <2> QED
    BY Zenon, <2>2, <2>3, ChangeStep
<1> QED
  BY Zenon, <1>1, <1>2

\* A service that is available shares no host with the others whose options were
\* accepted: CheckAvailability sees their bindings.
LEMMA AvailableApart ==
  ASSUME MapTyped, OptionsTyped, ServicesFormed, BindingsFormed, AcceptedApart,
         NEW n \in Names, NEW o \in Objects, NEW opts \in Options, name[o] \in {n, None},
         ~Conflict(n, opts), services' = [services EXCEPT ![n] = o],
         options' = [options EXCEPT ![o] = opts], clashed => clashed'
  PROVE  AcceptedApart'
<1>1. \A k \in Names : services'[k] = IF k = n THEN o ELSE services[k]
  BY Zenon DEF MapTyped
<1>2. options'[o] = opts
  BY Zenon DEF OptionsTyped
<1>3. \A k \in Names \ {n} : services[k] # None => services[k] # o /\ services[k] \in Objects
  BY Zenon, NoneApart DEF MapTyped, ServicesFormed
<1>4. \A k \in Names \ {n} : services[k] # None => options'[services[k]] = options[services[k]]
  BY Zenon, <1>3 DEF OptionsTyped
<1>5. ASSUME NEW k \in Names \ {n}, services[k] # None, options[services[k]].valid
      PROVE  opts.hosts \cap options[services[k]].hosts = {}
  <2> SUFFICES ASSUME NEW h \in opts.hosts, h \in options[services[k]].hosts
               PROVE  FALSE
    OBVIOUS
  <2>1. h \in Hosts
    BY Zenon, OptionsHosts
  <2>2. services[k] \in bound[h] /\ name[services[k]] = k
    BY Zenon, <1>5, <2>1 DEF BindingsFormed, ServicesFormed
  <2> QED
    BY Zenon, <2>2 DEF Conflict
<1>6. ASSUME NEW j \in Names, NEW k \in Names, j # k, ~clashed,
             services'[j] # None, services'[k] # None,
             options'[services'[j]].valid, options'[services'[k]].valid
      PROVE  options'[services'[j]].hosts \cap options'[services'[k]].hosts = {}
  <2>1. CASE j = n
    BY <1>1, <1>2, <1>4, <1>5, <1>6, <2>1
  <2>2. CASE k = n
    BY <1>1, <1>2, <1>4, <1>5, <1>6, <2>2
  <2>3. CASE j # n /\ k # n
    BY <1>1, <1>4, <1>6, <2>3 DEF AcceptedApart
  <2> QED
    BY Zenon, <2>1, <2>2, <2>3
<1> QED
  BY Zenon, <1>6 DEF AcceptedApart

\* The map after Set.
LEMMA PutInMap ==
  ASSUME MapTyped, ServicesFormed, NEW n \in Names, NEW o \in Objects, name'[o] = n,
         \A p \in Objects : p # o => name'[p] = name[p], name[o] \in {n, None}, SetService(o)
  PROVE  /\ MapTyped' /\ BindingsFormed'
         /\ services' = [services EXCEPT ![n] = o]
         /\ \A k \in Names : services'[k] = IF k = n THEN o ELSE services[k]
         /\ \A k \in Names : services'[k] # None => name'[services'[k]] = k
<1>1. services' = [services EXCEPT ![n] = o] /\ bound' = BindingsOf(services', options')
  BY Zenon DEF SetService
<1>2. \A k \in Names : services'[k] = IF k = n THEN o ELSE services[k]
  BY Zenon, <1>1 DEF MapTyped
<1>3. services' \in [Names -> Objects \cup {None}]
  BY Zenon, <1>1 DEF MapTyped
<1>4. \A k \in Names : services'[k] # None => name'[services'[k]] = k
  BY <1>2, NoneApart DEF MapTyped, ServicesFormed
<1> QED
  BY Zenon, <1>1, <1>2, <1>3, <1>4, Rebind

\* A deployment that ran alone has saved nothing yet when it has installed.
LEMMA InstallFile ==
  ASSUME RouterInv, NEW c \in Commands, pc[c] = "installing", Advance(c, "listing"),
         UNCHANGED <<file, overlapped, before, unsaved>>, clashed => clashed'
  PROVE  FileFollows'
<1>1. PcTyped /\ FileFollows
  BY Zenon, Parts
<1>2. c \in Running
  BY Zenon DEF Running
<1>3. pc'[c] = "listing"
  BY Zenon, <1>1 DEF PcTyped, Advance
<1>4. ~overlapped => RestoreLastSavedState = before
  BY Zenon, <1>1, <1>2, Alone DEF FileAt
<1>5. ~overlapped => FileAt(c)'
  BY Zenon, <1>3, <1>4, RestoredStays DEF FileAt
<1> QED
  BY Zenon, <1>1, <1>2, <1>5, FileStays DEF Advance, Steps

\* A load balancer that has not been installed is in no slot, and replaces none.
LEMMA Unslotted ==
  ASSUME SlotsFormed, SlotsApart, ReplacedTyped, NEW c \in Commands, pc[c] \in Early
  PROVE  /\ \A o \in Objects : active[o] # c /\ rollout[o] # c
         /\ \A d \in Commands : replaced[d] # c
         /\ replaced[c] = None /\ c \notin disposed
  BY NoneApart DEF SlotsFormed, SlotsApart, BroughtBy

\* What InstallActive does.
LEMMA InstallActiveShape ==
  ASSUME RouterInv, NEW c \in Commands, InstallActive(c)
  PROVE  \E o \in Objects :
           /\ pc[c] = "installing" /\ kind[c] = "deploy" /\ arg[c] \in Names /\ want[c] \in Options
           /\ Advance(c, "listing")
           /\ \/ o = c /\ name[o] = None /\ services[arg[c]] = None
              \/ o = services[arg[c]] /\ name[o] = arg[c]
           /\ name' = [name EXCEPT ![o] = arg[c]]
           /\ options' = [options EXCEPT ![o] = want[c]]
           /\ active' = [active EXCEPT ![o] = c]
           /\ replaced' = [replaced EXCEPT ![c] = active[o]]
           /\ SetService(o)
           /\ ~Conflict(arg[c], want[c])
           /\ UNCHANGED <<rollout, split, paused, listed, image, disposed, file, crashes>>
           /\ UNCHANGED <<revived, overlapped, clashed, abandoned, before, unsaved>>
<1>1. MapTyped /\ CommandsFormed /\ ServicesFormed
  BY Zenon, Parts
<1>2. /\ pc[c] = "installing" /\ kind[c] = "deploy" /\ ~Conflict(arg[c], want[c])
      /\ Advance(c, "listing")
  BY Zenon DEF InstallActive, Advance, Goto, Steps
<1>3. arg[c] \in Names /\ want[c] \in Options /\ name[c] = None
  BY Zenon, <1>1, <1>2 DEF CommandsFormed, ServicesFormed, Early
<1> DEFINE o == createOrUpdateService(c)
<1>4. o \in Objects /\ (\/ o = c /\ name[o] = None /\ services[arg[c]] = None
                        \/ o = services[arg[c]] /\ name[o] = arg[c])
  BY Zenon, <1>1, <1>3, NoneApart DEF createOrUpdateService, MapTyped, ServicesFormed
<1>5. /\ name' = [name EXCEPT ![o] = arg[c]]
      /\ options' = [options EXCEPT ![o] = want[c]]
      /\ active' = [active EXCEPT ![o] = c]
      /\ replaced' = [replaced EXCEPT ![c] = active[o]]
      /\ SetService(o)
      /\ UNCHANGED <<rollout, split, paused, listed, image, disposed, file, crashes>>
      /\ UNCHANGED <<revived, overlapped, clashed, abandoned, before, unsaved>>
  BY Zenon DEF InstallActive, saveVars, history
<1> HIDE DEF o
<1> QED
  BY Zenon, <1>2, <1>3, <1>4, <1>5

LEMMA InstallActiveStep ==
  ASSUME RouterInv, NEW c \in Commands, InstallActive(c)
  PROVE  RouterInv'
<1>1. /\ MapTyped /\ NamesTyped /\ OptionsTyped /\ SlotsTyped /\ StatesTyped
      /\ CommandsTyped /\ PcTyped /\ ReplacedTyped /\ SavesTyped /\ HistoryTyped
      /\ CommandsFormed /\ ServicesFormed /\ SlotsFormed /\ SavesFormed /\ SlotsApart
      /\ BindingsFormed /\ AcceptedApart
      /\ LiveUnlessRevived /\ OthersDisposed /\ BroughtAccounted
  BY Zenon, Parts
<1>2. PICK o \in Objects :
           /\ pc[c] = "installing" /\ kind[c] = "deploy" /\ arg[c] \in Names /\ want[c] \in Options
           /\ Advance(c, "listing")
           /\ \/ o = c /\ name[o] = None /\ services[arg[c]] = None
              \/ o = services[arg[c]] /\ name[o] = arg[c]
           /\ name' = [name EXCEPT ![o] = arg[c]]
           /\ options' = [options EXCEPT ![o] = want[c]]
           /\ active' = [active EXCEPT ![o] = c]
           /\ replaced' = [replaced EXCEPT ![c] = active[o]]
           /\ SetService(o)
           /\ ~Conflict(arg[c], want[c])
           /\ UNCHANGED <<rollout, split, paused, listed, image, disposed, file, crashes>>
           /\ UNCHANGED <<revived, overlapped, clashed, abandoned, before, unsaved>>
  BY Zenon, InstallActiveShape
<1>2a. pc[c] = "installing" /\ kind[c] = "deploy" /\ arg[c] \in Names /\ want[c] \in Options
  BY Zenon, <1>2
<1>2b. \/ o = c /\ name[o] = None /\ services[arg[c]] = None
       \/ o = services[arg[c]] /\ name[o] = arg[c]
  BY Zenon, <1>2
<1>2c. /\ rollout' = rollout /\ listed' = listed /\ image' = image /\ disposed' = disposed /\ file' = file
       /\ revived' = revived /\ overlapped' = overlapped /\ clashed' = clashed
       /\ abandoned' = abandoned /\ before' = before /\ unsaved' = unsaved
  BY Zenon, <1>2
<1>2d. Advance(c, "listing")
  BY Zenon, <1>2
<1>3. Forward /\ PcTyped' /\ pc'[c] = "listing" /\ \A d \in Commands : d # c => pc'[d] = pc[d]
  BY Zenon, <1>1, <1>2d, AdvanceForward DEF PcTyped, Advance
<1>4. /\ \A p \in Objects : name'[p] = IF p = o THEN arg[c] ELSE name[p]
      /\ \A p \in Objects : options'[p] = IF p = o THEN want[c] ELSE options[p]
      /\ \A p \in Objects : active'[p] = IF p = o THEN c ELSE active[p]
      /\ \A d \in Commands : replaced'[d] = IF d = c THEN active[o] ELSE replaced[d]
  BY Zenon, <1>1, <1>2 DEF NamesTyped, OptionsTyped, SlotsTyped, ReplacedTyped
<1>5. NamesTyped' /\ OptionsTyped' /\ SlotsTyped' /\ StatesTyped' /\ ReplacedTyped'
  BY Zenon, <1>1, <1>2 DEF NamesTyped, OptionsTyped, SlotsTyped, StatesTyped, ReplacedTyped
<1>6. NamesStay
  BY Zenon, <1>2b, <1>4 DEF NamesStay
<1>7. /\ MapTyped' /\ BindingsFormed'
      /\ services' = [services EXCEPT ![arg[c]] = o]
      /\ \A k \in Names : services'[k] = IF k = arg[c] THEN o ELSE services[k]
      /\ \A k \in Names : services'[k] # None => name'[services'[k]] = k
  BY <1>1, <1>2, <1>4, PutInMap
<1>8. AcceptedApart'
  BY Zenon, <1>1, <1>2, <1>7, AvailableApart
<1>9. CommandsFormed' /\ CommandsTyped'
  BY Zenon, <1>1, <1>2d, <1>6, CommandsStep
<1>10. /\ \A p \in Objects : active[p] # c /\ rollout[p] # c
       /\ \A d \in Commands : replaced[d] # c
       /\ replaced[c] = None /\ c \notin disposed
  BY Zenon, <1>1, <1>2a, Unslotted DEF Early
<1>11. ServicesFormed'
  <2>1. \A p \in Objects : IF name'[p] = None THEN active'[p] = None /\ rollout'[p] = None
                           ELSE options'[p] \in Options /\ active'[p] # None
    BY ZenonT(30), <1>1, <1>2a, <1>2b, <1>2c, <1>4, NoneApart DEF ServicesFormed
  <2>2. \A d \in Commands : pc'[d] \in Early => name'[d] = None
    BY <1>1, <1>2b, <1>3, <1>4, NoneApart DEF ServicesFormed, Early
  <2> QED
    BY Zenon, <1>7, <2>1, <2>2 DEF ServicesFormed
<1>12. SlotsFormed'
  <2>1. BroughtBy(c, "deploy", arg[c])'
    BY Zenon, <1>2a, <1>2d, <1>3 DEF BroughtBy, Early, Advance
  <2>2. arg'[c] = arg[c]
    BY Zenon, <1>2d DEF Advance
  <2>3. ASSUME NEW p \in Objects
        PROVE  /\ active'[p] # None => BroughtBy(active[p], "deploy", name[p])'
               /\ rollout'[p] # None => BroughtBy(rollout[p], "rollout", name[p])'
    <3>1. /\ active[p] # None => BroughtBy(active[p], "deploy", name[p])
          /\ rollout[p] # None => BroughtBy(rollout[p], "rollout", name[p])
          /\ active[p] # None \/ rollout[p] # None => name'[p] = name[p]
      BY Zenon, <1>1, <1>6 DEF SlotsFormed, ServicesFormed, NamesStay
    <3> QED
      BY <1>2c, <1>3, <1>4, <2>1, <2>2, <3>1 DEF BroughtBy, Forward, Early
  <2> QED
    BY Zenon, <2>3 DEF SlotsFormed
<1>13. SavesFormed' /\ SavesTyped'
  <2>1. \A d \in Commands : image[d] # {} => pc'[d] = "encoding"
    BY Zenon, <1>1, <1>2a, <1>3 DEF SavesFormed
  <2> QED
    BY Zenon, <1>1, <1>2c, <1>3, <1>6, <2>1, SavesStep
<1>14. SlotsApart'
  <2>1. \A p, q \in Objects : p # q /\ active'[p] # None => active'[p] # active'[q]
    BY <1>1, <1>4, <1>10 DEF SlotsApart
  <2>2. ASSUME NEW d \in Commands, replaced'[d] # None
        PROVE  /\ pc'[d] \notin Early /\ pc'[replaced'[d]] \notin Early
               /\ \A p \in Objects : active'[p] # replaced'[d] /\ rollout'[p] # replaced'[d]
    <3>1. CASE d = c
      <4>1. replaced'[d] = active[o] /\ BroughtBy(active[o], "deploy", name[o])
        BY Zenon, <1>1, <1>4, <2>2, <3>1 DEF SlotsFormed
      <4>2. \A p \in Objects : rollout[p] # active[o]
        BY <1>1, <4>1, NoneApart DEF SlotsFormed, BroughtBy
      <4>3. \A p \in Objects : active'[p] # active[o]
        BY <1>1, <1>4, <1>10, <2>2, <4>1 DEF SlotsApart
      <4>4. pc'[active[o]] \notin Early /\ pc'[c] \notin Early
        BY Zenon, <1>3, <4>1 DEF BroughtBy, Forward, Early
      <4> QED
        BY Zenon, <1>2c, <3>1, <4>1, <4>2, <4>3, <4>4
    <3>2. CASE d # c
      <4>1. replaced'[d] = replaced[d] /\ replaced[d] \in Commands
        BY Zenon, <1>1, <1>4, <2>2, <3>2 DEF ReplacedTyped
      <4> QED
        BY SMTT(30), <1>1, <1>2c, <1>3, <1>4, <1>10, <2>2, <3>2, <4>1 DEF SlotsApart, Forward
    <3> QED
      BY Zenon, <3>1, <3>2
  <2>3. \A d \in Commands : pc'[d] = "disposing" => replaced'[d] # None
    BY Zenon, <1>1, <1>3, <1>4 DEF SlotsApart
  <2>4. \A d \in Commands : pc'[d] \in Early => d \notin disposed'
    BY Zenon, <1>1, <1>2c, <1>3 DEF SlotsApart, Forward
  <2> QED
    BY Zenon, <1>1, <1>2c, <2>1, <2>2, <2>3, <2>4 DEF SlotsApart
<1>15. Installed' = Installed \cup {o}
  BY <1>1, <1>2a, <1>2b, <1>7, NoneApart DEF Installed
<1>16. LiveUnlessRevived'
  <2> SUFFICES ASSUME ~revived, NEW p \in Installed \cup {o}
               PROVE  active'[p] # None /\ LoadBalancersOf(p)' \cap disposed = {}
    BY Zenon, <1>2c, <1>15 DEF LiveUnlessRevived, LiveLoadBalancers
  <2>1. o \in Installed \/ rollout[o] = None
    BY Zenon, <1>1, <1>2a, <1>2b, NoneApart DEF Installed, ServicesFormed
  <2>2. \A q \in Installed : q \in Objects /\ active[q] # None /\ LoadBalancersOf(q) \cap disposed = {}
    BY Zenon, <1>1, InstalledObjects DEF LiveUnlessRevived, LiveLoadBalancers
  <2>3. active'[p] # None /\ active'[p] \notin disposed
    BY <1>4, <1>10, <2>2, NoneApart DEF LoadBalancersOf
  <2>4. rollout[p] # None => rollout[p] \notin disposed
    BY Zenon, <2>1, <2>2 DEF LoadBalancersOf
  <2> QED
    BY Zenon, <1>2c, <2>3, <2>4 DEF LoadBalancersOf
<1>17. OthersDisposed'
  BY Zenon, <1>1, <1>2c, <1>4, <1>15 DEF OthersDisposed, LoadBalancersOf
<1>18. BroughtAccounted'
  <2>1. c \in Running' /\ \A d \in Running : d \in Running'
    BY Zenon, <1>1, <1>3 DEF Running, PcTyped
  <2>2. ASSUME NEW d \in Commands, Accounted(d)
        PROVE  Accounted(d)'
    <3>1. CASE d \in disposed \cup abandoned
      BY Zenon, <1>2c, <3>1 DEF Accounted
    <3>2. ASSUME NEW e \in Running, replaced[e] = d
          PROVE  Accounted(d)'
      <4>1. e # c /\ e \in Commands
        BY Zenon, <1>10, <3>2, NoneApart DEF Running
      <4> QED
        BY Zenon, <1>4, <2>1, <3>2, <4>1 DEF Accounted
    <3>3. ASSUME NEW n \in Names, services[n] # None, d \in LoadBalancersOf(services[n])
          PROVE  Accounted(d)'
      <4>1. CASE services[n] # o
        <5>1. services'[n] = services[n] /\ services[n] \in Objects
          BY Zenon, <1>1, <1>2b, <1>7, <3>3, <4>1 DEF MapTyped
        <5> QED
          BY <1>2c, <1>4, <3>3, <4>1, <5>1 DEF Accounted, LoadBalancersOf
      <4>2. CASE services[n] = o /\ d = active[o]
        BY Zenon, <1>4, <2>1, <4>2 DEF Accounted
      <4>3. CASE services[n] = o /\ d = rollout[o]
        BY Zenon, <1>2a, <1>2c, <1>7, <3>3, <4>3, NoneApart DEF Accounted, LoadBalancersOf
      <4> QED
        BY Zenon, <3>3, <4>1, <4>2, <4>3 DEF LoadBalancersOf
    <3> QED
      BY Zenon, <2>2, <3>1, <3>2, <3>3 DEF Accounted
  <2>3. Accounted(c)'
    BY <1>2a, <1>4, <1>7, NoneApart DEF Accounted, LoadBalancersOf
  <2>4. \A d \in Commands : d # c /\ pc'[d] \notin Early => pc[d] \notin Early
    BY Zenon, <1>3
  <2>5. kind' = kind /\ found' = found
    BY Zenon, <1>2d DEF Advance
  <2> QED
    BY Zenon, <1>1, <1>2c, <2>2, <2>3, <2>4, <2>5 DEF BroughtAccounted
<1>19. HistoryTyped'
  BY Zenon, <1>1, <1>2, <1>2c DEF HistoryTyped
<1>20. FileFollows'
  BY Zenon, <1>2a, <1>2c, <1>2d, InstallFile
<1> QED
  BY Zenon, PartsNext, <1>3, <1>5, <1>7, <1>8, <1>9, <1>11, <1>12, <1>13, <1>14, <1>16, <1>17,
     <1>18, <1>19, <1>20

\* What InstallRollout does.
LEMMA InstallRolloutShape ==
  ASSUME RouterInv, NEW c \in Commands, InstallRollout(c)
  PROVE  \E o \in Objects :
           /\ pc[c] = "installing" /\ kind[c] = "rollout" /\ arg[c] \in Names
           /\ name[o] = arg[c] /\ options[o] \in Options /\ active[o] # None
           /\ Advance(c, "listing")
           /\ rollout' = [rollout EXCEPT ![o] = c]
           /\ replaced' = [replaced EXCEPT ![c] = rollout[o]]
           /\ revived' = (revived \/ services[arg[c]] # o)
           /\ SetService(o)
           /\ clashed' = (clashed \/ (services[arg[c]] # o /\ want[c] # options[o]))
           /\ ~Conflict(arg[c], want[c])
           /\ UNCHANGED <<name, options, active, split, paused, listed, image, disposed, file, crashes>>
           /\ UNCHANGED <<overlapped, abandoned, before, unsaved>>
<1>1. CommandsTyped /\ CommandsFormed /\ ServicesFormed
  BY Zenon, Parts
<1>2. pc[c] = "installing" /\ kind[c] = "rollout" /\ Advance(c, "listing")
  BY Zenon DEF InstallRollout, Advance, Goto, Steps
<1>3. found[c] \in Objects /\ arg[c] \in Names /\ name[found[c]] = arg[c]
  BY Zenon, <1>1, <1>2 DEF CommandsFormed, CommandsTyped
<1>4. options[found[c]] \in Options /\ active[found[c]] # None
  BY Zenon, <1>1, <1>3, NoneApart DEF ServicesFormed
<1>5. /\ rollout' = [rollout EXCEPT ![found[c]] = c]
      /\ replaced' = [replaced EXCEPT ![c] = rollout[found[c]]]
      /\ revived' = (revived \/ services[arg[c]] # found[c])
      /\ SetService(found[c])
      /\ clashed' = (clashed \/ (services[arg[c]] # found[c] /\ want[c] # options[found[c]]))
      /\ ~Conflict(arg[c], want[c])
      /\ UNCHANGED <<name, options, active, split, paused, listed, image, disposed, file, crashes>>
      /\ UNCHANGED <<overlapped, abandoned, before, unsaved>>
  BY Zenon DEF InstallRollout, ReplacedRollout, saveVars
<1> QED
  BY Zenon, <1>2, <1>3, <1>4, <1>5

LEMMA InstallRolloutStep ==
  ASSUME RouterInv, NEW c \in Commands, InstallRollout(c)
  PROVE  RouterInv'
<1>1. /\ MapTyped /\ NamesTyped /\ OptionsTyped /\ SlotsTyped /\ StatesTyped
      /\ CommandsTyped /\ PcTyped /\ ReplacedTyped /\ SavesTyped /\ HistoryTyped
      /\ CommandsFormed /\ ServicesFormed /\ SlotsFormed /\ SavesFormed /\ SlotsApart
      /\ BindingsFormed /\ AcceptedApart
      /\ LiveUnlessRevived /\ OthersDisposed /\ BroughtAccounted
  BY Zenon, Parts
<1>2. PICK o \in Objects :
           /\ pc[c] = "installing" /\ kind[c] = "rollout" /\ arg[c] \in Names
           /\ name[o] = arg[c] /\ options[o] \in Options /\ active[o] # None
           /\ Advance(c, "listing")
           /\ rollout' = [rollout EXCEPT ![o] = c]
           /\ replaced' = [replaced EXCEPT ![c] = rollout[o]]
           /\ revived' = (revived \/ services[arg[c]] # o)
           /\ SetService(o)
           /\ clashed' = (clashed \/ (services[arg[c]] # o /\ want[c] # options[o]))
           /\ ~Conflict(arg[c], want[c])
           /\ UNCHANGED <<name, options, active, split, paused, listed, image, disposed, file, crashes>>
           /\ UNCHANGED <<overlapped, abandoned, before, unsaved>>
  BY Zenon, InstallRolloutShape
<1>2a. pc[c] = "installing" /\ kind[c] = "rollout" /\ arg[c] \in Names
  BY Zenon, <1>2
<1>2b. /\ name[o] = arg[c] /\ options[o] \in Options /\ active[o] # None
       /\ ~revived' => ~revived /\ services[arg[c]] = o
  BY Zenon, <1>2
<1>2c. /\ name' = name /\ options' = options /\ active' = active
       /\ listed' = listed /\ image' = image /\ disposed' = disposed /\ file' = file
       /\ overlapped' = overlapped /\ abandoned' = abandoned /\ before' = before /\ unsaved' = unsaved
       /\ clashed => clashed'
  BY Zenon, <1>2
<1>2d. Advance(c, "listing")
  BY Zenon, <1>2
<1>3. Forward /\ PcTyped' /\ pc'[c] = "listing" /\ \A d \in Commands : d # c => pc'[d] = pc[d]
  BY Zenon, <1>1, <1>2d, AdvanceForward DEF PcTyped, Advance
<1>4. /\ \A p \in Objects : rollout'[p] = IF p = o THEN c ELSE rollout[p]
      /\ \A d \in Commands : replaced'[d] = IF d = c THEN rollout[o] ELSE replaced[d]
  BY Zenon, <1>1, <1>2 DEF SlotsTyped, ReplacedTyped
<1>5. NamesTyped' /\ OptionsTyped' /\ SlotsTyped' /\ StatesTyped' /\ ReplacedTyped'
  BY Zenon, <1>1, <1>2 DEF NamesTyped, OptionsTyped, SlotsTyped, StatesTyped, ReplacedTyped
<1>6. NamesStay
  BY Zenon, <1>2c DEF NamesStay
<1>7. /\ MapTyped' /\ BindingsFormed'
      /\ services' = [services EXCEPT ![arg[c]] = o]
      /\ \A k \in Names : services'[k] = IF k = arg[c] THEN o ELSE services[k]
      /\ \A k \in Names : services'[k] # None => name'[services'[k]] = k
  BY Zenon, <1>1, <1>2, <1>2b, <1>2c, PutInMap
<1>8. AcceptedApart'
  <2>1. CASE want[c] = options[o]
    <3>1. PICK opts \in Options : opts = options[o]
      BY Zenon, <1>2b
    <3>2. options' = [options EXCEPT ![o] = opts]
      BY Zenon, <1>1, <1>2c, <3>1 DEF OptionsTyped
    <3>3. name[o] \in {arg[c], None} /\ ~Conflict(arg[c], opts)
      BY Zenon, <1>2, <2>1, <3>1
    <3>4. services' = [services EXCEPT ![arg[c]] = o]
      BY Zenon, <1>7
    <3> QED
      BY Zenon, <1>1, <1>2a, <1>2c, <3>2, <3>3, <3>4, AvailableApart
  <2>2. CASE services[arg[c]] = o
    <3>1. \A k \in Names : services'[k] = services[k]
      BY Zenon, <1>7, <2>2
    <3> QED
      BY Zenon, <1>1, <1>2c, <3>1 DEF AcceptedApart
  <2>3. CASE services[arg[c]] # o /\ want[c] # options[o]
    <3>1. clashed'
      BY Zenon, <1>2, <2>3
    <3> QED
      BY Zenon, <3>1 DEF AcceptedApart
  <2> QED
    BY Zenon, <2>1, <2>2, <2>3
<1>9. CommandsFormed' /\ CommandsTyped'
  BY Zenon, <1>1, <1>2d, <1>6, CommandsStep
<1>10. /\ \A p \in Objects : active[p] # c /\ rollout[p] # c
       /\ \A d \in Commands : replaced[d] # c
       /\ replaced[c] = None /\ c \notin disposed
  BY Zenon, <1>1, <1>2a, Unslotted DEF Early
<1>11. ServicesFormed'
  <2>1. \A p \in Objects : IF name'[p] = None THEN active'[p] = None /\ rollout'[p] = None
                           ELSE options'[p] \in Options /\ active'[p] # None
    BY <1>1, <1>2a, <1>2b, <1>2c, <1>4, NoneApart DEF ServicesFormed
  <2>2. \A d \in Commands : pc'[d] \in Early => name'[d] = None
    BY Zenon, <1>1, <1>2c, <1>3 DEF ServicesFormed, Early
  <2> QED
    BY Zenon, <1>7, <2>1, <2>2 DEF ServicesFormed
<1>12. SlotsFormed'
  <2>1. BroughtBy(c, "rollout", arg[c])'
    BY Zenon, <1>2a, <1>2d, <1>3 DEF BroughtBy, Early, Advance
  <2>2. arg'[c] = arg[c]
    BY Zenon, <1>2d DEF Advance
  <2>3. ASSUME NEW p \in Objects
        PROVE  /\ active'[p] # None => BroughtBy(active[p], "deploy", name[p])'
               /\ rollout'[p] # None => BroughtBy(rollout[p], "rollout", name[p])'
    <3>1. /\ active[p] # None => BroughtBy(active[p], "deploy", name[p])
          /\ rollout[p] # None => BroughtBy(rollout[p], "rollout", name[p])
      BY Zenon, <1>1 DEF SlotsFormed
    <3> QED
      BY <1>2b, <1>2c, <1>3, <1>4, <2>1, <2>2, <3>1 DEF BroughtBy, Forward, Early
  <2> QED
    BY Zenon, <2>3 DEF SlotsFormed
<1>13. SavesFormed' /\ SavesTyped'
  <2>1. \A d \in Commands : image[d] # {} => pc'[d] = "encoding"
    BY Zenon, <1>1, <1>2a, <1>3 DEF SavesFormed
  <2> QED
    BY Zenon, <1>1, <1>2c, <1>3, <1>6, <2>1, SavesStep
<1>14. SlotsApart'
  <2>1. \A p, q \in Objects : p # q /\ rollout'[p] # None => rollout'[p] # rollout'[q]
    BY <1>1, <1>4, <1>10 DEF SlotsApart
  <2>2. ASSUME NEW d \in Commands, replaced'[d] # None
        PROVE  /\ pc'[d] \notin Early /\ pc'[replaced'[d]] \notin Early
               /\ \A p \in Objects : active'[p] # replaced'[d] /\ rollout'[p] # replaced'[d]
    <3>1. CASE d = c
      <4>1. replaced'[d] = rollout[o] /\ BroughtBy(rollout[o], "rollout", name[o])
        BY Zenon, <1>1, <1>4, <2>2, <3>1 DEF SlotsFormed
      <4>2. \A p \in Objects : active[p] # rollout[o]
        BY <1>1, <4>1, NoneApart DEF SlotsFormed, BroughtBy
      <4>3. \A p \in Objects : rollout'[p] # rollout[o]
        BY <1>1, <1>4, <1>10, <2>2, <4>1 DEF SlotsApart
      <4>4. pc'[rollout[o]] \notin Early /\ pc'[c] \notin Early
        BY Zenon, <1>3, <4>1 DEF BroughtBy, Forward, Early
      <4> QED
        BY Zenon, <1>2c, <3>1, <4>1, <4>2, <4>3, <4>4
    <3>2. CASE d # c
      <4>1. replaced'[d] = replaced[d] /\ replaced[d] \in Commands
        BY Zenon, <1>1, <1>4, <2>2, <3>2 DEF ReplacedTyped
      <4> QED
        BY SMTT(30), <1>1, <1>2c, <1>3, <1>4, <1>10, <2>2, <3>2, <4>1 DEF SlotsApart, Forward
    <3> QED
      BY Zenon, <3>1, <3>2
  <2>3. \A d \in Commands : pc'[d] = "disposing" => replaced'[d] # None
    BY Zenon, <1>1, <1>3, <1>4 DEF SlotsApart
  <2>4. \A d \in Commands : pc'[d] \in Early => d \notin disposed'
    BY Zenon, <1>1, <1>2c, <1>3 DEF SlotsApart, Forward
  <2> QED
    BY Zenon, <1>1, <1>2c, <2>1, <2>2, <2>3, <2>4 DEF SlotsApart
<1>15. ~revived' => ~revived /\ Installed' = Installed /\ o \in Installed
  BY SMTT(30), <1>1, <1>2a, <1>2b, <1>7, NoneApart DEF Installed
<1>16. LiveUnlessRevived'
  <2> SUFFICES ASSUME ~revived', NEW p \in Installed
               PROVE  active[p] # None /\ LoadBalancersOf(p)' \cap disposed = {}
    BY Zenon, <1>2c, <1>15 DEF LiveUnlessRevived, LiveLoadBalancers
  <2>1. p \in Objects /\ active[p] # None /\ LoadBalancersOf(p) \cap disposed = {}
    BY Zenon, <1>1, <1>15, InstalledObjects DEF LiveUnlessRevived, LiveLoadBalancers
  <2> QED
    BY SMTT(30), <1>2c, <1>4, <1>10, <2>1 DEF LoadBalancersOf
<1>17. OthersDisposed'
  <2> SUFFICES ASSUME ~revived', NEW p \in Objects \ Installed
               PROVE  LoadBalancersOf(p)' \subseteq disposed'
    BY Zenon, <1>15 DEF OthersDisposed
  <2>1. p # o /\ LoadBalancersOf(p) \subseteq disposed
    BY Zenon, <1>1, <1>15 DEF OthersDisposed
  <2>2. rollout'[p] = rollout[p] /\ active'[p] = active[p]
    BY Zenon, <1>2c, <1>4, <2>1
  <2> QED
    BY Zenon, <1>2c, <2>1, <2>2 DEF LoadBalancersOf
<1>18. BroughtAccounted'
  <2>1. c \in Running' /\ \A d \in Running : d \in Running'
    BY Zenon, <1>1, <1>3 DEF Running, PcTyped
  <2>2. ASSUME NEW d \in Commands, Accounted(d)
        PROVE  ~revived' => Accounted(d)'
    <3>1. CASE d \in disposed \cup abandoned
      BY Zenon, <1>2c, <3>1 DEF Accounted
    <3>2. ASSUME NEW e \in Running, replaced[e] = d
          PROVE  ~revived' => Accounted(d)'
      <4>1. e # c /\ e \in Commands
        BY Zenon, <1>10, <3>2, NoneApart DEF Running
      <4> QED
        BY Zenon, <1>4, <2>1, <3>2, <4>1 DEF Accounted
    <3>3. ASSUME NEW n \in Names, services[n] # None, d \in LoadBalancersOf(services[n])
          PROVE  ~revived' => Accounted(d)'
      <4> SUFFICES ASSUME ~revived'
                   PROVE  Accounted(d)'
        OBVIOUS
      <4>1. CASE services[n] # o
        <5>1. services'[n] = services[n] /\ services[n] \in Objects
          BY Zenon, <1>1, <1>2a, <1>2b, <1>7, <3>3, <4>1 DEF MapTyped
        <5> QED
          BY Zenon, <1>2c, <1>4, <3>3, <4>1, <5>1 DEF Accounted, LoadBalancersOf
      <4>2. CASE services[n] = o /\ d = rollout[o]
        BY Zenon, <1>4, <2>1, <4>2 DEF Accounted
      <4>3. CASE services[n] = o /\ d = active[o]
        BY Zenon, <1>2a, <1>2c, <1>7, <3>3, <4>3, NoneApart DEF Accounted, LoadBalancersOf
      <4> QED
        BY Zenon, <3>3, <4>1, <4>2, <4>3 DEF LoadBalancersOf
    <3> QED
      BY Zenon, <2>2, <3>1, <3>2, <3>3 DEF Accounted
  <2>3. Accounted(c)'
    BY <1>2a, <1>4, <1>7, NoneApart DEF Accounted, LoadBalancersOf
  <2>4. \A d \in Commands : d # c /\ pc'[d] \notin Early => pc[d] \notin Early
    BY Zenon, <1>3
  <2>5. kind' = kind /\ found' = found
    BY Zenon, <1>2d DEF Advance
  <2> QED
    BY Zenon, <1>1, <1>2b, <1>2c, <2>2, <2>3, <2>4, <2>5 DEF BroughtAccounted
<1>19. HistoryTyped'
  BY Zenon, <1>1, <1>2, <1>2c DEF HistoryTyped
<1>20. FileFollows'
  BY Zenon, <1>2a, <1>2c, <1>2d, InstallFile
<1> QED
  BY Zenon, PartsNext, <1>3, <1>5, <1>7, <1>8, <1>9, <1>11, <1>12, <1>13, <1>14, <1>16, <1>17,
     <1>18, <1>19, <1>20

-----------------------------------------------------------------------------
\* What a restart brings back is what was saved, if it is all valid.
LEMMA Restored ==
  ASSUME SavesTyped, SavesFormed
  PROVE  /\ RestoreLastSavedState \subseteq file[2] /\ RestoreLastSavedState \subseteq Marshalled
         /\ \A m \in RestoreLastSavedState : m.options.valid /\ RecordFormed(m) /\ m.name \in Names
         /\ OnePerName(RestoreLastSavedState)
<1>1. file = <<file[1], file[2]>> /\ file[2] \subseteq Marshalled
  BY DEF SavesTyped
<1>2. {UnmarshalJSON(m) : m \in file[2]} = file[2]
  BY Zenon, <1>1, ReadBack
<1>3. RestoreLastSavedState = IF file[1] = "saved" /\ \A m \in file[2] : m.options.valid THEN file[2] ELSE {}
  BY Zenon, <1>2 DEF RestoreLastSavedState
<1>4. \A m \in Marshalled : m.name \in Names
  BY Zenon DEF Marshalled
<1> QED
  BY Zenon, <1>1, <1>3, <1>4 DEF SavesFormed, OnePerName

-----------------------------------------------------------------------------
\* Issuing a command.

LEMMA FirstSteps ==
  ASSUME NEW k \in AllKinds, NEW o
  PROVE  /\ FirstStep(k, o) \in {"waiting", "changing", "listing", "done"}
         /\ FirstStep(k, o) = "waiting" => k = "deploy" \/ (k = "rollout" /\ o # None)
         /\ FirstStep(k, o) = "changing" => k = "remove" \/ o # None
         /\ FirstStep(k, o) = "done" => k = "rollout" /\ o = None
         /\ k = "deploy" => FirstStep(k, o) = "waiting"
         /\ k = "rollout" /\ o # None => FirstStep(k, o) = "waiting"
  BY Zenon DEF FirstStep, AllKinds

LEMMA IssueStep ==
  ASSUME RouterInv, NEW c \in Commands, NEW k \in Kinds, NEW n \in Names, NEW opts \in Options,
         Issue(c, k, n, opts)
  PROVE  RouterInv'
<1> DEFINE step == FirstStep(k, services[n])
<1>1. /\ MapTyped /\ NamesTyped /\ OptionsTyped /\ SlotsTyped /\ StatesTyped
      /\ CommandsTyped /\ PcTyped /\ ReplacedTyped /\ SavesTyped /\ HistoryTyped
      /\ CommandsFormed /\ ServicesFormed /\ SlotsFormed /\ SavesFormed /\ SlotsApart
      /\ BindingsFormed /\ AcceptedApart
      /\ LiveUnlessRevived /\ OthersDisposed /\ BroughtAccounted /\ FileFollows
  BY Zenon, Parts
<1>2. k \in AllKinds
  BY Zenon, RouterConstants
<1>3. /\ step \in {"waiting", "changing", "listing", "done"}
      /\ step = "waiting" => k = "deploy" \/ (k = "rollout" /\ services[n] # None)
      /\ step = "changing" => k = "remove" \/ services[n] # None
      /\ step = "done" => k = "rollout" /\ services[n] = None
      /\ k = "deploy" => step = "waiting"
      /\ k = "rollout" /\ services[n] # None => step = "waiting"
  BY <1>2, FirstSteps
<1>4. /\ pc[c] = "idle" /\ pc' = [pc EXCEPT ![c] = step]
      /\ kind' = [kind EXCEPT ![c] = k] /\ arg' = [arg EXCEPT ![c] = n]
      /\ want' = [want EXCEPT ![c] = IF k = "deploy" THEN opts ELSE NoOptions]
      /\ found' = [found EXCEPT ![c] = services[n]]
  BY Zenon DEF Issue, Goto
<1> HIDE DEF step
<1>5. /\ overlapped' = (overlapped \/ Running # {})
      /\ before' = IF overlapped' THEN {} ELSE RestoreLastSavedState
  BY Zenon DEF Issue
<1>6. /\ services' = services /\ bound' = bound /\ name' = name /\ options' = options
      /\ active' = active /\ rollout' = rollout /\ split' = split /\ paused' = paused
      /\ replaced' = replaced /\ listed' = listed /\ image' = image /\ disposed' = disposed
      /\ file' = file /\ crashes' = crashes /\ revived' = revived /\ clashed' = clashed /\ abandoned' = abandoned
      /\ unsaved' = unsaved
  BY Zenon DEF Issue, mapVars, serviceVars, saveVars
<1>7. /\ MapTyped' /\ NamesTyped' /\ OptionsTyped' /\ SlotsTyped' /\ StatesTyped' /\ NamesStay
  BY Zenon, <1>1, <1>6 DEF MapTyped, NamesTyped, OptionsTyped, SlotsTyped, StatesTyped, NamesStay
<1>8. CommandsTyped'
  BY Zenon, <1>1, <1>2, <1>4 DEF CommandsTyped, MapTyped
<1>9. PcTyped' /\ pc'[c] = step /\ \A d \in Commands : d # c => pc'[d] = pc[d]
  BY Zenon, <1>1, <1>3, <1>4 DEF PcTyped, Steps
<1>10. /\ kind'[c] = k /\ arg'[c] = n /\ found'[c] = services[n] /\ (k = "deploy" => want'[c] = opts)
       /\ \A d \in Commands : d # c => /\ kind'[d] = kind[d] /\ arg'[d] = arg[d]
                                       /\ want'[d] = want[d] /\ found'[d] = found[d]
  BY Zenon, <1>1, <1>4 DEF CommandsTyped
<1>11. Forward
  BY Zenon, <1>4, <1>9, <1>10 DEF Forward, Early
<1>12. CommandsFormed'
  <2>1. services[n] # None => name[services[n]] = n
    BY Zenon, <1>1 DEF ServicesFormed
  <2>2. ASSUME NEW d \in Commands
        PROVE  /\ pc'[d] # "idle" => arg'[d] \in Names /\ kind'[d] \in AllKinds
               /\ pc'[d] \in {"waiting", "installing"} =>
                    \/ kind'[d] = "deploy" /\ want'[d] \in Options
                    \/ kind'[d] = "rollout" /\ found'[d] # None
               /\ pc'[d] = "changing" /\ kind'[d] # "remove" => found'[d] # None
               /\ found'[d] # None => name[found'[d]] = arg'[d] /\ arg'[d] \in Names
    <3>1. CASE d = c
      BY Zenon, <1>2, <1>3, <1>9, <1>10, <2>1, <3>1
    <3>2. CASE d # c
      BY <1>1, <1>9, <1>10, <3>2 DEF CommandsFormed
    <3> QED
      BY Zenon, <3>1, <3>2
  <2> QED
    BY Zenon, <1>6, <2>2 DEF CommandsFormed
<1>13. ServicesFormed' /\ SlotsFormed'
  BY Zenon, <1>1, <1>6, <1>11, ServicesStep, BroughtStays DEF SlotsFormed
<1>14. SavesFormed' /\ SavesTyped'
  <2>1. \A d \in Commands : image[d] # {} => pc'[d] = "encoding"
    BY Zenon, <1>1, <1>4, <1>9 DEF SavesFormed
  <2> QED
    BY Zenon, <1>1, <1>6, <1>7, <1>11, <2>1, SavesStep
<1>15. SlotsApart' /\ ReplacedTyped'
  <2>1. \A d \in Commands : pc'[d] = "disposing" => pc[d] = "disposing"
    BY Zenon, <1>3, <1>9
  <2> QED
    BY Zenon, <1>1, <1>6, <1>11, <2>1, SlotsStep
<1>16. BindingsFormed' /\ AcceptedApart'
  BY Zenon, <1>1, <1>6, BindingsStep
<1>17. LiveUnlessRevived' /\ OthersDisposed'
  BY Zenon, <1>1, <1>6, DisposalStep, InstalledObjects
<1>18. BroughtAccounted'
  <2>1. Running \subseteq Running'
    BY Zenon, <1>4, <1>9 DEF Running
  <2>2. \A d \in Commands : Accounted(d) => Accounted(d)'
    BY Zenon, <1>6, <2>1 DEF Accounted, LoadBalancersOf
  <2>3. ~(pc'[c] \notin Early /\ (kind'[c] = "deploy" \/ (kind'[c] = "rollout" /\ found'[c] # None)))
    BY Zenon, <1>3, <1>9, <1>10 DEF Early
  <2> QED
    BY Zenon, <1>1, <1>6, <1>9, <1>10, <2>2, <2>3 DEF BroughtAccounted
<1>19. HistoryTyped'
  BY Zenon, <1>1, <1>5, <1>6, Restored DEF HistoryTyped
<1>20. FileFollows'
  <2>0. CutShort'
    <3>1. \A d \in Commands : pc[d] = "encoding" => pc'[d] = "encoding"
      BY Zenon, <1>4, <1>9
    <3> QED
      BY Zenon, <1>1, <1>6, <3>1 DEF FileFollows, CutShort
  <2> SUFFICES ASSUME ~overlapped'
               PROVE  FileFollows'
    BY Zenon, <2>0 DEF FileFollows
  <2>1. Running = {} /\ Settled /\ before' = RestoreLastSavedState
    BY Zenon, <1>1, <1>5 DEF FileFollows
  <2>2. Running' = IF step = "done" THEN {} ELSE {c}
    BY Zenon, <1>3, <1>9, <2>1 DEF Running
  <2>3. RestoreLastSavedState' = RestoreLastSavedState /\ RestoreLastSavedState' = before'
    BY Zenon, <1>6, <2>1, RestoredStays
  <2>4. ~unsaved => RestoreLastSavedState' = Decoded(Snapshot)'
    <3>1. Snapshot' = Snapshot
      BY Zenon, <1>6, SnapshotStays DEF serviceVars
    <3> QED
      BY Zenon, <2>1, <2>3, <3>1 DEF Settled, Decoded
  <2>5. ~clashed' => ValidApart(RestoreLastSavedState)'
    BY Zenon, <1>1, <1>5, <1>6, <2>3 DEF FileFollows, ValidApart
  <2>6. step # "done" => FileAt(c)'
    BY Zenon, <1>3, <1>6, <1>9, <2>3, <2>4 DEF FileAt
  <2>7. Settled'
    BY Zenon, <1>6, <2>3, <2>4 DEF Settled
  <2> QED
    BY Zenon, <2>0, <2>2, <2>5, <2>6, <2>7 DEF FileFollows
<1> QED
  BY Zenon, PartsNext, <1>7, <1>8, <1>9, <1>12, <1>13, <1>14, <1>15, <1>16, <1>17, <1>18, <1>19, <1>20

-----------------------------------------------------------------------------
\* The restart.

\* The services that were brought back, field by field.
Restoring ==
  \A o \in Objects :
    \/ \E m \in RestoreLastSavedState :
         /\ m.name = o /\ name'[o] = o /\ options'[o] = m.options
         /\ active'[o] = m.active /\ rollout'[o] = m.rollout
         /\ split'[o] = m.split /\ paused'[o] = m.paused
    \/ /\ \A m \in RestoreLastSavedState : m.name # o
       /\ name'[o] = None /\ options'[o] = NoOptions /\ active'[o] = None /\ rollout'[o] = None
       /\ split'[o] = FALSE /\ paused'[o] = "running"

LEMMA RestartServices ==
  ASSUME SavesTyped, SavesFormed, Restart
  PROVE  /\ Restoring
         /\ \A n \in Names : services'[n] = name'[n]
         /\ services' \in [Names -> Objects \cup {None}] /\ bound' = BindingsOf(services', options')
         /\ NamesTyped' /\ OptionsTyped' /\ SlotsTyped' /\ StatesTyped'
<1> DEFINE Of(o) == CHOOSE m \in RestoreLastSavedState : m.name = o
           In(o) == \E m \in RestoreLastSavedState : m.name = o
<1>1. /\ services' = [n \in Names |-> IF In(n) THEN n ELSE None]
      /\ name' = [o \in Objects |-> IF In(o) THEN o ELSE None]
      /\ options' = [o \in Objects |-> IF In(o) THEN Of(o).options ELSE NoOptions]
      /\ active' = [o \in Objects |-> IF In(o) THEN Of(o).active ELSE None]
      /\ rollout' = [o \in Objects |-> IF In(o) THEN Of(o).rollout ELSE None]
      /\ split' = [o \in Objects |-> IF In(o) THEN Of(o).split ELSE FALSE]
      /\ paused' = [o \in Objects |-> IF In(o) THEN Of(o).paused ELSE "running"]
      /\ bound' = BindingsOf(services', options')
  BY Zenon DEF Restart
<1>2. \A o : In(o) => Of(o) \in RestoreLastSavedState /\ Of(o).name = o
  OBVIOUS
<1>3. \A m \in RestoreLastSavedState :
        /\ m.name \in Names /\ m.options \in Options /\ m.active \in Commands
        /\ m.rollout \in Commands \cup {None} /\ m.split \in BOOLEAN /\ m.paused \in PauseStates
  BY Zenon, Restored DEF Marshalled
<1>4. \A n \in Names : n \in Objects
  BY Zenon, NoneApart
<1>5. ASSUME NEW o
      PROVE  ~In(o) => \A m \in RestoreLastSavedState : m.name # o
  OBVIOUS
<1> HIDE DEF Of, In
<1>6. ASSUME NEW o \in Objects
      PROVE  \/ \E m \in RestoreLastSavedState :
                  /\ m.name = o /\ name'[o] = o /\ options'[o] = m.options
                  /\ active'[o] = m.active /\ rollout'[o] = m.rollout
                  /\ split'[o] = m.split /\ paused'[o] = m.paused
             \/ /\ \A m \in RestoreLastSavedState : m.name # o
                /\ name'[o] = None /\ options'[o] = NoOptions /\ active'[o] = None /\ rollout'[o] = None
                /\ split'[o] = FALSE /\ paused'[o] = "running"
  <2>1. CASE In(o)
    BY Zenon, <1>1, <1>2, <2>1
  <2>2. CASE ~In(o)
    BY Zenon, <1>1, <1>5, <2>2
  <2> QED
    BY Zenon, <2>1, <2>2
<1>7. \A n \in Names : services'[n] = name'[n]
  BY Zenon, <1>1, <1>4
<1>8. services' \in [Names -> Objects \cup {None}]
  BY Zenon, <1>1, <1>4
<1>9. \A o : In(o) => /\ o \in Names /\ Of(o).options \in Options /\ Of(o).active \in Commands
                      /\ Of(o).rollout \in Commands \cup {None}
                      /\ Of(o).split \in BOOLEAN /\ Of(o).paused \in PauseStates
  BY Zenon, <1>2, <1>3
<1>10. NamesTyped' /\ OptionsTyped'
  BY Zenon, <1>1, <1>9 DEF NamesTyped, OptionsTyped
<1>11. SlotsTyped' /\ StatesTyped'
  BY Zenon, <1>1, <1>9 DEF SlotsTyped, StatesTyped, PauseStates
<1> QED
  BY Zenon, <1>1, <1>6, <1>7, <1>8, <1>10, <1>11 DEF Restoring

\* The other variables.
LEMMA RestartCommands ==
  ASSUME PcTyped, Restart
  PROVE  /\ PcTyped' /\ Forward
         /\ \A c \in Commands : pc'[c] \in {"idle", "done"} /\ (pc'[c] = "idle" <=> pc[c] = "idle")
         /\ \A c \in Commands : found'[c] = None /\ replaced'[c] = None /\ listed'[c] = {} /\ image'[c] = {}
         /\ ~revived' /\ ~overlapped' /\ before' = RestoreLastSavedState
         /\ unsaved' = (file[1] = "truncated")
         /\ clashed' = (clashed \/ (overlapped /\ ~HostsApart(RestoreLastSavedState)))
         /\ kind' = kind /\ arg' = arg /\ want' = want /\ file' = file
<1>1. /\ pc' = [c \in Commands |-> IF c \in Running THEN "done" ELSE pc[c]]
      /\ found' = [c \in Commands |-> None] /\ replaced' = [c \in Commands |-> None]
      /\ listed' = [c \in Commands |-> {}] /\ image' = [c \in Commands |-> {}]
      /\ kind' = kind /\ arg' = arg /\ want' = want /\ file' = file
  BY Zenon DEF Restart
<1>2. /\ ~revived' /\ ~overlapped' /\ before' = RestoreLastSavedState
      /\ unsaved' = (file[1] = "truncated")
      /\ clashed' = (clashed \/ (overlapped /\ ~HostsApart(RestoreLastSavedState)))
  BY Zenon DEF Restart
<1>3. \A c \in Commands : pc'[c] \in {"idle", "done"} /\ (pc'[c] = "idle" <=> pc[c] = "idle")
  BY Zenon, <1>1 DEF Running
<1>4. PcTyped'
  BY Zenon, <1>1 DEF PcTyped, Steps
<1>5. Forward
  BY Zenon, <1>1, <1>3 DEF Forward, Early
<1> QED
  BY Zenon, <1>1, <1>2, <1>3, <1>4, <1>5

\* Every load balancer that was brought is restored, dropped or gone.
LEMMA RestartDisposal ==
  ASSUME SavesTyped, SavesFormed, Restart
  PROVE  /\ abandoned' \subseteq Commands /\ disposed' \subseteq {c \in Commands : pc[c] # "idle"}
         /\ \A m \in RestoreLastSavedState : {m.active, m.rollout} \cap disposed' = {}
         /\ \A c \in Commands : pc[c] # "idle" =>
              \/ c \in disposed' \cup abandoned'
              \/ \E m \in RestoreLastSavedState : c \in {m.active, m.rollout}
<1>1. PICK read \in DecodedInVain :
        /\ disposed' = {c \in Commands : pc[c] # "idle"} \ (Slots(RestoreLastSavedState) \cup Slots(read))
        /\ abandoned' = Slots(read)
  BY Zenon DEF Restart
<1>2. file[2] \subseteq Marshalled
  BY DEF SavesTyped
<1>3. read \subseteq Marshalled
  BY Zenon, <1>2 DEF DecodedInVain
<1>4. \A m \in read : m.active \in Commands /\ m.rollout \in Commands \cup {None}
  BY Zenon, <1>3 DEF Marshalled
<1>5. Slots(read) \subseteq Commands
  BY Zenon, <1>4 DEF Slots
<1>6. \A m \in RestoreLastSavedState : \A c \in {m.active, m.rollout} \ {None} : c \in Slots(RestoreLastSavedState)
  BY Zenon DEF Slots
<1>7. ASSUME NEW c \in Slots(RestoreLastSavedState)
      PROVE  \E m \in RestoreLastSavedState : c \in {m.active, m.rollout}
  BY Zenon, <1>7 DEF Slots
<1>8. None \notin disposed'
  BY Zenon, <1>1, NoneApart
<1>9. \A m \in RestoreLastSavedState : {m.active, m.rollout} \cap disposed' = {}
  BY Zenon, <1>1, <1>6, <1>8
<1> QED
  BY Zenon, <1>1, <1>5, <1>7, <1>9

\* While commands come one at a time, no two services in the file share a host.
LEMMA RestoredApart ==
  ASSUME RouterInv, ~overlapped, ~clashed
  PROVE  HostsApart(RestoreLastSavedState)
<1>1. SavesTyped /\ SavesFormed /\ ValidApart(RestoreLastSavedState)
  BY Zenon, Parts DEF FileFollows
<1>2. \A m \in RestoreLastSavedState : m.options.valid
  BY Zenon, <1>1, Restored
<1> QED
  BY Zenon, <1>1, <1>2 DEF ValidApart, HostsApart

\* The services in the map after a restart are those that were brought back.
LEMMA RestartSnapshot ==
  ASSUME SavesTyped, SavesFormed, Restart
  PROVE  Snapshot' = RestoreLastSavedState
<1>1. Restoring /\ \A n \in Names : services'[n] = name'[n]
  BY Zenon, RestartServices
<1>2. RestoreLastSavedState \subseteq Marshalled /\ OnePerName(RestoreLastSavedState)
  BY Zenon, Restored
<1>3. \A m \in RestoreLastSavedState : m.name \in Names
  BY Zenon, Restored
<1>4. ASSUME NEW m \in RestoreLastSavedState
      PROVE  m.name \in Installed' /\ MarshalJSON(m.name)' = m
  <2>1. m.name \in Objects /\ m.name \in Names /\ m.name # None
    BY Zenon, <1>3, NoneApart
  <2>2. /\ name'[m.name] = m.name /\ options'[m.name] = m.options
        /\ active'[m.name] = m.active /\ rollout'[m.name] = m.rollout
        /\ split'[m.name] = m.split /\ paused'[m.name] = m.paused
    BY <1>1, <1>2, <2>1 DEF Restoring, OnePerName
  <2>3. m = [name |-> m.name, options |-> m.options, active |-> m.active, rollout |-> m.rollout,
             split |-> m.split, paused |-> m.paused]
    BY Zenon, <1>2 DEF Marshalled
  <2>4. MarshalJSON(m.name)' = m
    BY Zenon, <2>2, <2>3 DEF MarshalJSON
  <2>5. m.name \in Installed'
    BY <1>1, <2>1, <2>2 DEF Installed
  <2> QED
    BY Zenon, <2>4, <2>5
<1>5. ASSUME NEW o \in Installed'
      PROVE  \E m \in RestoreLastSavedState : m.name = o
  <2>1. PICK n \in Names : services'[n] = o /\ o # None
    BY Zenon DEF Installed
  <2>2. name'[n] = o /\ n \in Objects
    BY Zenon, <1>1, <2>1, NoneApart
  <2> QED
    BY <1>1, <2>1, <2>2 DEF Restoring
<1>6. Snapshot' = {MarshalJSON(o)' : o \in Installed'}
  BY Zenon DEF Snapshot
<1>7. RestoreLastSavedState \subseteq {MarshalJSON(o)' : o \in Installed'}
  BY Zenon, <1>4
<1>8. {MarshalJSON(o)' : o \in Installed'} \subseteq RestoreLastSavedState
  BY Zenon, <1>4, <1>5
<1> QED
  BY Zenon, <1>6, <1>7, <1>8

LEMMA RestartStep ==
  ASSUME RouterInv, Restart
  PROVE  RouterInv'
<1> DEFINE R == RestoreLastSavedState
<1>1. PcTyped /\ CommandsTyped /\ SavesTyped /\ SavesFormed /\ HistoryTyped
  BY Zenon, Parts
<1>2. /\ Restoring
      /\ \A n \in Names : services'[n] = name'[n]
      /\ services' \in [Names -> Objects \cup {None}] /\ bound' = BindingsOf(services', options')
      /\ NamesTyped' /\ OptionsTyped' /\ SlotsTyped' /\ StatesTyped'
  BY Zenon, <1>1, RestartServices
<1>3. /\ PcTyped' /\ Forward
      /\ \A c \in Commands : pc'[c] \in {"idle", "done"} /\ (pc'[c] = "idle" <=> pc[c] = "idle")
      /\ \A c \in Commands : found'[c] = None /\ replaced'[c] = None /\ listed'[c] = {} /\ image'[c] = {}
      /\ ~revived' /\ ~overlapped' /\ before' = R /\ unsaved' = (file[1] = "truncated")
      /\ clashed' = (clashed \/ (overlapped /\ ~HostsApart(R)))
      /\ kind' = kind /\ arg' = arg /\ want' = want /\ file' = file
  BY Zenon, <1>1, RestartCommands
<1>3a. /\ abandoned' \subseteq Commands /\ disposed' \subseteq {c \in Commands : pc[c] # "idle"}
       /\ \A m \in R : {m.active, m.rollout} \cap disposed' = {}
       /\ \A c \in Commands : pc[c] # "idle" =>
            c \in disposed' \cup abandoned' \/ \E m \in R : c \in {m.active, m.rollout}
  BY Zenon, <1>1, RestartDisposal
<1>4. /\ R \subseteq Marshalled
      /\ \A m \in R : m.options.valid /\ RecordFormed(m) /\ m.name \in Names
      /\ OnePerName(R)
  BY Zenon, <1>1, Restored
<1>5. \A m \in R : RecordFormed(m)'
  BY Zenon, <1>1, <1>3, <1>4, RecordStays
<1>6. ASSUME NEW m \in R
      PROVE  /\ m.name \in Objects /\ m.name \in Names /\ m.name # None
             /\ m.options \in Options /\ m.active \in Commands /\ m.active # None
  BY Zenon, <1>4, NoneApart DEF Marshalled
<1>7. Snapshot' = R
  BY Zenon, <1>1, RestartSnapshot
<1>8. HostsApart(R) \/ clashed'
  BY Zenon, <1>3, RestoredApart
<1> HIDE DEF R
<1>9. ASSUME NEW o \in Objects
      PROVE  \/ \E m \in R : /\ m.name = o /\ name'[o] = o /\ options'[o] = m.options
                             /\ active'[o] = m.active /\ rollout'[o] = m.rollout
             \/ /\ \A m \in R : m.name # o
                /\ name'[o] = None /\ active'[o] = None /\ rollout'[o] = None
  BY Zenon, <1>2 DEF Restoring, R
<1>10. ASSUME NEW m \in R
       PROVE  /\ name'[m.name] = m.name /\ services'[m.name] = m.name /\ options'[m.name] = m.options
              /\ active'[m.name] = m.active /\ rollout'[m.name] = m.rollout
  BY <1>2, <1>4, <1>6, <1>9 DEF OnePerName
<1>11. MapTyped' /\ BindingsFormed'
  BY Zenon, <1>2, Rebind
<1>12. CommandsTyped' /\ ReplacedTyped' /\ SavesTyped'
  <2>1. /\ found' = [c \in Commands |-> None] /\ replaced' = [c \in Commands |-> None]
        /\ listed' = [c \in Commands |-> {}] /\ image' = [c \in Commands |-> {}]
    BY Zenon DEF Restart
  <2>2. CommandsTyped'
    BY Zenon, <1>1, <1>3, <2>1 DEF CommandsTyped
  <2>3. SavesTyped'
    BY Zenon, <1>1, <1>3, <2>1 DEF SavesTyped
  <2> QED
    BY Zenon, <2>1, <2>2, <2>3 DEF ReplacedTyped
<1>13. CommandsFormed'
  <2>1. \A c \in Commands : pc'[c] # "idle" => arg[c] \in Names /\ kind[c] \in AllKinds
    <3>1. CommandsFormed
      BY Zenon, Parts
    <3> QED
      BY Zenon, <1>3, <3>1 DEF CommandsFormed
  <2> QED
    BY Zenon, <1>3, <2>1 DEF CommandsFormed
<1>14. ServicesFormed'
  <2>1. \A o \in Objects : IF name'[o] = None THEN active'[o] = None /\ rollout'[o] = None
                           ELSE options'[o] \in Options /\ active'[o] # None
    BY <1>6, <1>9
  <2>2. \A n \in Names : services'[n] # None => name'[services'[n]] = n
    BY <1>2, <1>6, <1>9, NoneApart
  <2>3. \A c \in Commands : name'[c] = None
    BY <1>6, <1>9, NoneApart
  <2> QED
    BY Zenon, <2>1, <2>2, <2>3 DEF ServicesFormed
<1>15. SlotsFormed'
  <2>1. ASSUME NEW o \in Objects
        PROVE  /\ active'[o] # None => BroughtBy(active[o], "deploy", name[o])'
               /\ rollout'[o] # None => BroughtBy(rollout[o], "rollout", name[o])'
    BY <1>5, <1>9 DEF RecordFormed, BroughtBy
  <2> QED
    BY Zenon, <2>1 DEF SlotsFormed
<1>16. SavesFormed'
  <2>1. \A m \in file[2] : RecordFormed(m)'
    BY Zenon, <1>1, <1>3, RecordStays DEF SavesFormed
  <2> QED
    BY Zenon, <1>1, <1>3, <2>1 DEF SavesFormed, OnePerName

<1>17. SlotsApart'
  <2>1. \A o \in Objects : name'[o] \in {o, None}
    BY Zenon, <1>9
  <2>2. ASSUME NEW o \in Objects, NEW p \in Objects, o # p
        PROVE  /\ active'[o] # None => active'[o] # active'[p]
               /\ rollout'[o] # None => rollout'[o] # rollout'[p]
    <3>1. active'[o] # None \/ rollout'[o] # None => name'[o] = o
      BY Zenon, <1>9
    <3>2. active'[p] # None \/ rollout'[p] # None => name'[p] = p
      BY Zenon, <1>9
    <3> QED
      BY <1>15, <2>2, <3>1, <3>2 DEF SlotsFormed, BroughtBy
  <2>3. \A c \in Commands : pc'[c] \in Early => c \notin disposed'
    BY Zenon, <1>3, <1>3a DEF Early
  <2> QED
    BY Zenon, <1>3, <2>2, <2>3 DEF SlotsApart
<1>18. AcceptedApart'
  <2>1. ASSUME NEW n \in Names, services'[n] # None
        PROVE  \E m \in R : m.name = n /\ services'[n] = n /\ options'[services'[n]] = m.options
    BY <1>2, <1>9, <2>1, NoneApart
  <2> QED
    BY <1>8, <2>1 DEF AcceptedApart, HostsApart
<1>19. \A o \in Installed' : \E m \in R : m.name = o /\ active'[o] = m.active /\ rollout'[o] = m.rollout
  <2>1. ASSUME NEW n \in Names, services'[n] # None
        PROVE  \E m \in R : m.name = services'[n]
    BY <1>2, <1>9, <2>1, NoneApart
  <2> QED
    BY <1>10, <2>1 DEF Installed
<1>20. LiveUnlessRevived'
  <2>1. \A m \in R : m.active \notin disposed' /\ m.rollout \notin disposed'
    BY <1>3a
  <2>2. \A o \in Installed' : active'[o] # None /\ LoadBalancersOf(o)' \cap disposed' = {}
    BY <1>6, <1>19, <2>1 DEF LoadBalancersOf
  <2> QED
    BY Zenon, <2>2 DEF LiveUnlessRevived, LiveLoadBalancers
<1>21. OthersDisposed'
  <2>1. \A m \in R : m.name \in Installed'
    BY Zenon, <1>6, <1>10 DEF Installed
  <2>2. \A o \in Objects \ Installed' : LoadBalancersOf(o)' = {}
    BY <1>9, <2>1 DEF LoadBalancersOf
  <2> QED
    BY Zenon, <2>2 DEF OthersDisposed
<1>22. BroughtAccounted'
  <2>1. ASSUME NEW c \in Commands, pc'[c] \notin Early
        PROVE  Accounted(c)'
    <3>1. pc[c] # "idle"
      BY Zenon, <1>3, <2>1 DEF Early
    <3>2. CASE c \in disposed' \cup abandoned'
      BY Zenon, <3>2 DEF Accounted
    <3>3. ASSUME NEW m \in R, c \in {m.active, m.rollout}
          PROVE  Accounted(c)'
      <4>1. c # None
        BY Zenon, NoneApart
      <4>2. m.name \in Names /\ services'[m.name] = m.name /\ m.name # None
        BY Zenon, <1>6, <1>10
      <4>3. c \in LoadBalancersOf(m.name)'
        BY Zenon, <1>10, <3>3, <4>1 DEF LoadBalancersOf
      <4> QED
        BY Zenon, <4>2, <4>3 DEF Accounted
    <3>4. c \in disposed' \cup abandoned' \/ \E m \in R : c \in {m.active, m.rollout}
      BY Zenon, <1>3a, <3>1
    <3> QED
      BY Zenon, <3>2, <3>3, <3>4
  <2> QED
    BY Zenon, <2>1 DEF BroughtAccounted
<1>23. HistoryTyped'
  <2>1. crashes' \in 0..MaxCrashes
    BY SMTT(30), <1>1, RouterConstants DEF Restart, HistoryTyped
  <2>2. clashed' \in BOOLEAN /\ overlapped' \in BOOLEAN /\ revived' \in BOOLEAN /\ unsaved' \in BOOLEAN
    BY Zenon DEF Restart
  <2> QED
    BY Zenon, <1>3, <1>3a, <1>4, <2>1, <2>2 DEF HistoryTyped
<1>24. FileFollows'
  <2>1. Running' = {}
    BY Zenon, <1>3 DEF Running
  <2>2. RestoreLastSavedState' = R
    BY Zenon, <1>3, RestoredStays DEF R
  <2>3. ~clashed' => ValidApart(RestoreLastSavedState)'
    BY Zenon, <1>8, <2>2 DEF ValidApart, HostsApart
  <2>4. Decoded(Snapshot)' = R
    BY Zenon, <1>4, <1>7 DEF Decoded
  <2>5. Settled'
    BY Zenon, <2>2, <2>4 DEF Settled
  <2>6. CutShort'
    BY Zenon, <1>3 DEF CutShort
  <2> QED
    BY Zenon, <2>1, <2>3, <2>5, <2>6 DEF FileFollows
<1> QED
  BY Zenon, PartsNext, <1>2, <1>3, <1>11, <1>12, <1>13, <1>14, <1>15, <1>16, <1>17, <1>18, <1>20, <1>21,
     <1>22, <1>23, <1>24

-----------------------------------------------------------------------------
\* The invariant and what follows from it.

LEMMA RouterInit == Init => RouterInv
<1> SUFFICES ASSUME Init
             PROVE  RouterInv
  OBVIOUS
<1>1. /\ services = [n \in Names |-> None] /\ bound = [h \in Hosts |-> {}]
      /\ name = [o \in Objects |-> None] /\ options = [o \in Objects |-> NoOptions]
      /\ active = [o \in Objects |-> None] /\ rollout = [o \in Objects |-> None]
      /\ split = [o \in Objects |-> FALSE] /\ paused = [o \in Objects |-> "running"]
  BY Zenon DEF Init, NoServices
<1>2. /\ kind = [c \in Commands |-> None] /\ arg = [c \in Commands |-> None]
      /\ want = [c \in Commands |-> NoOptions] /\ pc = [c \in Commands |-> "idle"]
      /\ found = [c \in Commands |-> None] /\ replaced = [c \in Commands |-> None]
  BY Zenon DEF Init
<1>3. /\ listed = [c \in Commands |-> {}] /\ image = [c \in Commands |-> {}]
      /\ disposed = {} /\ file = <<"absent", {}>> /\ crashes = 0
      /\ revived = FALSE /\ overlapped = FALSE /\ clashed = FALSE /\ abandoned = {} /\ before = {}
      /\ unsaved = FALSE
  BY Zenon DEF Init
<1>4. MapTyped /\ NamesTyped /\ OptionsTyped /\ SlotsTyped /\ StatesTyped
  BY Zenon, <1>1 DEF MapTyped, NamesTyped, OptionsTyped, SlotsTyped, StatesTyped, PauseStates
<1>5. CommandsTyped /\ PcTyped /\ ReplacedTyped
  BY Zenon, <1>2 DEF CommandsTyped, PcTyped, ReplacedTyped, Steps
<1>6. SavesTyped
  BY Zenon, <1>3 DEF SavesTyped
<1>6a. HistoryTyped
  <2>1. 0 \in 0..MaxCrashes
    BY RouterConstants
  <2> QED
    BY Zenon, <1>3, <2>1 DEF HistoryTyped
<1>7. CommandsFormed
  BY Zenon, <1>2 DEF CommandsFormed
<1>7a. ServicesFormed /\ SlotsFormed
  BY Zenon, <1>1, NoneApart DEF ServicesFormed, SlotsFormed
<1>8. SavesFormed
  BY Zenon, <1>3 DEF SavesFormed, OnePerName
<1>9. SlotsApart
  BY Zenon, <1>1, <1>2, <1>3 DEF SlotsApart
<1>10. Installed = {} /\ Snapshot = {} /\ Running = {}
  BY Zenon, <1>1, <1>2 DEF Installed, Snapshot, Running
<1>11. BindingsFormed /\ AcceptedApart
  BY Zenon, <1>1, <1>10 DEF BindingsFormed, AcceptedApart
<1>12. LiveUnlessRevived /\ OthersDisposed /\ BroughtAccounted
  BY Zenon, <1>1, <1>2, <1>10 DEF LiveUnlessRevived, LiveLoadBalancers, OthersDisposed, LoadBalancersOf,
                          BroughtAccounted, Early
<1>13. FileFollows
  <2>1. RestoreLastSavedState = {}
    BY Zenon, <1>3 DEF RestoreLastSavedState
  <2>2. Settled /\ ValidApart(RestoreLastSavedState) /\ CutShort
    BY Zenon, <1>3, <1>10, <2>1 DEF Settled, Decoded, ValidApart, CutShort
  <2> QED
    BY Zenon, <1>10, <2>2 DEF FileFollows
<1> QED
  BY Zenon, Parts, <1>4, <1>5, <1>6, <1>6a, <1>7, <1>7a, <1>8, <1>9, <1>11, <1>12, <1>13

LEMMA RouterUnchanged == RouterInv /\ UNCHANGED vars => RouterInv'
<1> SUFFICES ASSUME RouterInv, UNCHANGED vars
             PROVE  RouterInv'
  OBVIOUS
<1>1. UNCHANGED <<services, bound, name, options, active, rollout, split, paused, kind, arg, want, found,
                  replaced, pc, listed, image, disposed, file, crashes, revived, overlapped, clashed,
                  abandoned, before, unsaved>>
  BY Zenon DEF vars, mapVars, serviceVars, commandVars, saveVars, history
<1>2. /\ MapTyped /\ NamesTyped /\ OptionsTyped /\ SlotsTyped /\ StatesTyped
      /\ CommandsTyped /\ PcTyped /\ ReplacedTyped /\ SavesTyped /\ HistoryTyped
      /\ CommandsFormed /\ ServicesFormed /\ SlotsFormed /\ SavesFormed /\ SlotsApart
      /\ BindingsFormed /\ AcceptedApart
      /\ LiveUnlessRevived /\ OthersDisposed /\ BroughtAccounted /\ FileFollows
  BY Zenon, Parts
<1>3. MapTyped' /\ NamesTyped' /\ OptionsTyped' /\ SlotsTyped' /\ StatesTyped'
  BY Zenon, <1>1, <1>2 DEF MapTyped, NamesTyped, OptionsTyped, SlotsTyped, StatesTyped
<1>4. CommandsTyped' /\ PcTyped' /\ ReplacedTyped' /\ SavesTyped' /\ HistoryTyped'
  BY Zenon, <1>1, <1>2 DEF CommandsTyped, PcTyped, ReplacedTyped, SavesTyped, HistoryTyped
<1>5. Forward /\ NamesStay
  BY Zenon, <1>1 DEF Forward, NamesStay
<1>6. CommandsFormed'
  BY Zenon, <1>1, <1>2 DEF CommandsFormed
<1>7. ServicesFormed' /\ SlotsFormed'
  BY Zenon, <1>1, <1>2, <1>5, ServicesStep, BroughtStays DEF SlotsFormed
<1>8. SavesFormed'
  <2>1. \A d \in Commands : image[d] # {} => pc'[d] = "encoding"
    BY Zenon, <1>1, <1>2 DEF SavesFormed
  <2> QED
    BY Zenon, <1>1, <1>2, <1>5, <2>1, SavesStep
<1>9. SlotsApart'
  BY Zenon, <1>1, <1>2 DEF SlotsApart
<1>10. BindingsFormed' /\ AcceptedApart'
  BY Zenon, <1>1, <1>2, BindingsStep
<1>11. LiveUnlessRevived' /\ OthersDisposed'
  BY Zenon, <1>1, <1>2, DisposalStep, InstalledObjects
<1>12. BroughtAccounted'
  BY Zenon, <1>1, <1>2 DEF BroughtAccounted, Accounted, LoadBalancersOf, Running
<1>13. FileFollows'
  <2>1. Running' = Running
    BY Zenon, <1>1 DEF Running
  <2>2. /\ Snapshot' = Snapshot /\ Installed' = Installed
        /\ \A o : MarshalJSON(o)' = MarshalJSON(o)
        /\ RestoreLastSavedState' = RestoreLastSavedState
        /\ Decoded(Snapshot)' = Decoded(Snapshot)
        /\ Settled => Settled'
    BY Zenon, <1>1, FileUnmoved DEF serviceVars
  <2>3. \A c \in Running : FileAt(c) => FileAt(c)'
    BY Zenon, <1>1, <2>2 DEF FileAt
  <2>4. ValidApart(RestoreLastSavedState) => ValidApart(RestoreLastSavedState)'
    BY Zenon, <2>2 DEF ValidApart
  <2>5. CutShort => CutShort'
    BY Zenon, <1>1 DEF CutShort
  <2> QED
    BY Zenon, <1>1, <1>2, <2>1, <2>2, <2>3, <2>4, <2>5 DEF FileFollows
<1> QED
  BY Zenon, PartsNext, <1>3, <1>4, <1>6, <1>7, <1>8, <1>9, <1>10, <1>11, <1>12, <1>13

LEMMA RouterNext == RouterInv /\ [Next]_vars => RouterInv'
<1> SUFFICES ASSUME RouterInv, [Next]_vars
             PROVE  RouterInv'
  OBVIOUS
<1>1. ASSUME NEW c \in Commands, NEW k \in Kinds, NEW n \in Names, NEW opts \in Options,
             Issue(c, k, n, opts)
      PROVE  RouterInv'
  BY Zenon, <1>1, IssueStep
<1>2. ASSUME NEW c \in Commands,
             \/ BecameHealthy(c) \/ HealthTimeout(c)
             \/ InstallConflict(c) \/ InstallInvalid(c) \/ InstallActive(c) \/ InstallRollout(c)
             \/ ChangeSplit(c) \/ ChangePause(c) \/ DrainDone(c) \/ RemoveService(c)
             \/ CollectServices(c) \/ CreateFile(c) \/ CreateFails(c) \/ (\E o \in Objects : EncodeService(c, o))
             \/ WriteFile(c) \/ WriteFails(c) \/ DisposeReplaced(c)
      PROVE  RouterInv'
  BY Zenon, <1>2, BecameHealthyStep, HealthTimeoutStep, InstallConflictStep, InstallInvalidStep,
     InstallActiveStep, InstallRolloutStep, ChangeSplitStep, ChangePauseStep, DrainDoneStep,
     RemoveServiceStep, CollectServicesStep, CreateFileStep, CreateFailsStep, EncodeServiceStep,
     WriteFileStep, WriteFailsStep, DisposeReplacedStep
<1>3. CASE Restart
  BY Zenon, <1>3, RestartStep
<1>4. CASE UNCHANGED vars
  BY Zenon, <1>4, RouterUnchanged
<1> QED
  BY Zenon, <1>1, <1>2, <1>3, <1>4 DEF Next

\* The invariant holds of every behaviour of the router: commands interleave, saves
\* and restores fail and the process dies as in router.go and service.go.
THEOREM RouterInvariant == Spec => []RouterInv
  BY RouterInit, RouterNext, PTL DEF Spec

\* The router's variables always have their types.
THEOREM RouterTypes == Spec => []TypeOK
<1>1. RouterInv => TypeOK
  BY Zenon DEF RouterInv
<1> QED
  BY <1>1, RouterInvariant, PTL

\* No command stops the health checks of a load balancer that requests are sent
\* to, as long as no rollout has put back a service that was removed (Dispose,
\* service.go).
THEOREM NoCommandStopsLive == Spec => []LiveUnlessRevived
<1>1. RouterInv => LiveUnlessRevived
  BY Zenon DEF RouterInv
<1> QED
  BY <1>1, RouterInvariant, PTL

\* As long as no rollout has put back a service that was removed, whatever left the
\* map is disposed of at once, and what a deployment or a rollout brought is in use,
\* disposed of, about to be, or one of those that are dropped with their health checks
\* running, by an installation (router.go) or a restore (service.go) that failed.
THEOREM NoneIsLeftRunning == Spec => []UnreachableAreDisposed
<1>1. ASSUME RouterInv
      PROVE  UnreachableAreDisposed
  <2>1. OthersDisposed /\ BroughtAccounted
    BY Zenon, <1>1, Parts
  <2> DEFINE inUse == UNION {LoadBalancersOf(o) : o \in Installed}
             toDispose == {replaced[c] : c \in Running}
             brought == {c \in Commands :
               pc[c] = "done" /\ (kind[c] = "deploy" \/ (kind[c] = "rollout" /\ found[c] # None))}
  <2>2. ASSUME NEW c, Accounted(c)
        PROVE  c \in inUse \cup toDispose \cup disposed \cup abandoned
    <3>1. CASE \E n \in Names : services[n] # None /\ c \in LoadBalancersOf(services[n])
      BY Zenon, <3>1 DEF Installed
    <3>2. CASE \E d \in Running : replaced[d] = c
      BY Zenon, <3>2
    <3> QED
      BY Zenon, <2>2, <3>1, <3>2 DEF Accounted
  <2>3. ~revived => \A c \in brought : Accounted(c)
    BY Zenon, <2>1 DEF BroughtAccounted, Early
  <2>4. ~revived => \A o \in Objects \ Installed : LoadBalancersOf(o) \subseteq disposed
    BY Zenon, <2>1 DEF OthersDisposed
  <2>5. ~revived => brought \subseteq inUse \cup toDispose \cup disposed \cup abandoned
    BY Zenon, <2>2, <2>3
  <2> QED
    BY Zenon, <2>4, <2>5 DEF UnreachableAreDisposed
<1> QED
  BY <1>1, RouterInvariant, PTL

\* Requests are routed to services of the map only, and to each one whose options
\* were accepted by just its hosts, also when UpdateOptions (service.go) has left
\* refused options in others; where these are bound is left open.
THEOREM BindingsFollowOptions == Spec => []RoutesMatchOptions
<1>1. BindingsFormed => RoutesMatchOptions
  BY DEF BindingsFormed, Installed, RoutesMatchOptions
<1>2. RouterInv => RoutesMatchOptions
  BY Zenon, <1>1, Parts
<1> QED
  BY <1>2, RouterInvariant, PTL

\* No host is bound to two services whose options were accepted (CheckAvailability,
\* service_map.go), unless a rollout has put back a service under options other than
\* those it had checked, or a restart has brought back two that overlapping commands
\* had saved for a host.
THEOREM OneServiceRoutesAHost == Spec => []OneServiceIfAccepted
<1>1. ASSUME RouterInv, ~clashed, NEW h \in Hosts, NEW o \in bound[h], NEW p \in bound[h],
             options[o].valid, options[p].valid
      PROVE  o = p
  <2>1. BindingsFormed /\ AcceptedApart
    BY Zenon, <1>1, Parts
  <2>2. PICK n \in Names : services[n] # None /\ o = services[n]
    BY Zenon, <1>1, <2>1 DEF BindingsFormed, Installed
  <2>3. PICK k \in Names : services[k] # None /\ p = services[k]
    BY Zenon, <1>1, <2>1 DEF BindingsFormed, Installed
  <2>4. h \in options[o].hosts /\ h \in options[p].hosts
    BY Zenon, <1>1, <2>1, <2>2, <2>3 DEF BindingsFormed
  <2> QED
    BY Zenon, <1>1, <2>1, <2>2, <2>3, <2>4 DEF AcceptedApart
<1>2. RouterInv => OneServiceIfAccepted
  BY Zenon, <1>1 DEF OneServiceIfAccepted
<1> QED
  BY <1>2, RouterInvariant, PTL

\* What a restart makes of the services, if they were saved as they are.
LEMMA DecodedSnapshot ==
  Decoded(Snapshot) = Snapshot \/ (~OptionsAccepted /\ Decoded(Snapshot) = {})
<1>1. OptionsAccepted => \A m \in Snapshot : m.options.valid
  BY DEF OptionsAccepted, Snapshot, MarshalJSON
<1> QED
  BY Zenon, <1>1 DEF Decoded

\* With no command in progress, a restart brings back every service as it was, if
\* commands came one at a time and the last save did not fail, or none, if one of
\* them has options that were refused: saveStateSnapshot ends every command that
\* changes a service, and RestoreLastSavedState (router.go) reads what it wrote.
THEOREM RestartIsLossless == Spec => []RestartKeepsServices
<1>1. ASSUME RouterInv, Running = {}, ~overlapped, ~unsaved
      PROVE  RestoreLastSavedState = Decoded(Snapshot)
  BY Zenon, <1>1, Parts DEF FileFollows, Settled
<1>2. RouterInv => RestartKeepsServices
  BY Zenon, <1>1, DecodedSnapshot DEF RestartKeepsServices
<1> QED
  BY <1>2, RouterInvariant, PTL

\* While commands come one at a time, a crash loses the command in progress or keeps
\* it, for all services together, or restores nothing: because one of them has
\* options that were refused, or because the file does not decode, which it does not
\* only while it is encoded and after a save that was cut short (saveStateSnapshot,
\* router.go).
THEOREM CrashIsAtomic == Spec => []CrashKeepsWhole
<1>1. ASSUME RouterInv, ~overlapped
      PROVE  file[1] = "truncated" \/ RestoreLastSavedState \in {before, Decoded(Snapshot)}
  <2>1. FileFollows /\ PcTyped
    BY Zenon, <1>1, Parts
  <2>2. CASE Running = {}
    BY Zenon, <1>1, <2>1, <2>2 DEF FileFollows, Settled
  <2>3. ASSUME NEW c \in Running
        PROVE  file[1] = "truncated" \/ RestoreLastSavedState \in {before, Decoded(Snapshot)}
    <3>1. FileAt(c)
      BY Zenon, <1>1, <2>1 DEF FileFollows
    <3>2. pc[c] \in {"waiting", "installing", "changing", "draining", "listing", "creating", "encoding", "disposing"}
      BY Zenon, <2>1 DEF PcTyped, Steps, Running
    <3>3. CASE pc[c] = "encoding"
      BY <3>1, <3>3 DEF FileAt
    <3> QED
      BY Zenon, <3>1, <3>2, <3>3 DEF FileAt, Settled
  <2> QED
    BY Zenon, <2>2, <2>3
<1>2. RouterInv => CutShort
  BY Zenon, Parts DEF FileFollows
<1>3. RouterInv => CrashKeepsWhole
  BY Zenon, <1>1, <1>2, DecodedSnapshot DEF CrashKeepsWhole, CutShort
<1> QED
  BY <1>3, RouterInvariant, PTL
=============================================================================
