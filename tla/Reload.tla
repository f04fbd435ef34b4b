-------------------------------- MODULE Reload --------------------------------
(***************************************************************************)
(* The configuration of a running process: the local file, the remote      *)
(* namespaces laid over it at boot and again on every SIGHUP, the engine's *)
(* copy, and the devices that are resolved against it while messages keep  *)
(* arriving.                                                               *)
(*                                                                         *)
(* A Go map is a reference.  A configuration's map is either the one the   *)
(* local file was decoded into (shared, its entries in base) or one that   *)
(* ApplyRemote made for it (own).  A section absent from the file is a nil *)
(* map.  heeded and applied are history variables.                         *)
(***************************************************************************)
EXTENDS Resolver

CONSTANTS
    Devices,       \* the identities of the devices that report
    Fields,        \* the threshold fields
    Locals,        \* the local files: [classes, devices : map or NoMap, gap]
    Remotes,       \* what the namespaces may hold: [classes, devices, behaviour]
    Orders,        \* the orders a map may be iterated in
    NoMap,
    Handlers,      \* goroutines that carry a message
    Reloader,      \* the goroutine that waits for SIGHUP
    MaxPublishes   \* bound: changes in the config service

Namespaces == {"classes", "devices", "behaviour"}
Workers == Handlers \union {Reloader}

\* A document has every namespace; each section of it is a map.
ASSUME ReloadConstants ==
    /\ Reloader \notin Handlers
    /\ \A docs \in Remotes : docs = [ns \in Namespaces |-> docs[ns]]
    /\ \A docs \in Remotes : \A ns \in Namespaces : docs[ns] # NoMap
    /\ \A docs \in Remotes : \A map \in {docs.classes, docs.devices} :
          map = [k \in DOMAIN map |-> map[k]]
    /\ MaxPublishes \in Nat

VARIABLES
    file,      \* the local file
    base,      \* the entries of the maps it was decoded into
    live,      \* the engine's configuration and resolver
    known,     \* each device's profile, Nil while it is not known
    remote,    \* what the config service holds
    status,    \* the outcome recorded for /healthz
    pending,   \* a SIGHUP waits in the channel
    reload,    \* the reload in progress
    local,     \* each worker's EnsureDiscovered in progress
    alive,
    published, \* changes in the config service so far
    heeded,    \* whether the config service changed since the last SIGHUP
    applied    \* the documents ApplyRemote last laid over the file, NoMap if it could not

vars == <<file, base, live, known, remote, status, pending, reload, local,
          alive, published, heeded, applied>>

Overlay(over, under) ==
    [k \in DOMAIN over \union DOMAIN under |-> IF k \in DOMAIN over THEN over[k] ELSE under[k]]

Empty == [k \in {} |-> Nil]
EntriesOf(map) == IF map = NoMap THEN Empty ELSE map

\* A configuration's map: the file's if the file has the section, else none yet.
Ref(section) == [shared |-> section # NoMap, own |-> Empty]
Entries(ref, shared) == IF ref.shared THEN shared ELSE ref.own

\* baseCfg copied by assignment.
BaseConfig(f) == [classes |-> Ref(f.classes), devices |-> Ref(f.devices), gap |-> f.gap]

\* What a namespace document makes of a map that is not shared with a reader.
Put(ref, doc) == IF ref.shared THEN ref ELSE [ref EXCEPT !.own = Overlay(doc, ref.own)]
PutShared(ref, doc, shared) == IF ref.shared THEN Overlay(doc, shared) ELSE shared

ClassesOf(config) == Entries(config.classes, base.classes)

Engine(config, devices, order) ==
    [config |-> config, resolver |-> NewResolver(devices, order)]

NotReloading == [pc |-> "idle", next |-> BaseConfig(file), doc |-> Empty, todo |-> {}]
Resting == [pc |-> "idle", who |-> Nil, snap |-> Nil, profile |-> Nil]

-----------------------------------------------------------------------------
(* Boot: the remote documents over the file's entries, before anything runs. *)

All(answer) == [ns \in Namespaces |-> answer]

Boots(f, docs, reached, order) ==
    LET own  == BaseConfig(f)
        over == IF reached THEN docs ELSE [classes |-> Empty, devices |-> Empty, behaviour |-> Nil]
        cfg  == [classes |-> Put(own.classes, over.classes),
                 devices |-> Put(own.devices, over.devices),
                 gap     |-> IF over.behaviour = Nil THEN f.gap ELSE over.behaviour]
        heap == [classes |-> PutShared(own.classes, over.classes, EntriesOf(f.classes)),
                 devices |-> PutShared(own.devices, over.devices, EntriesOf(f.devices))]
    IN  /\ file = f
        /\ base = heap
        /\ live = Engine(cfg, Entries(cfg.devices, heap.devices), order)
        /\ remote = docs
        /\ status = All(IF reached THEN "ok" ELSE "failed")
        /\ applied = IF reached THEN docs ELSE All(NoMap)

Init ==
    /\ \E f \in Locals, docs \in Remotes, reached \in BOOLEAN, order \in Orders :
          Boots(f, docs, reached, order)
    /\ known = [d \in Devices |-> Nil]
    /\ pending = FALSE
    /\ reload = NotReloading
    /\ local = [w \in Workers |-> Resting]
    /\ alive = TRUE
    /\ published = 0
    /\ heeded = TRUE

-----------------------------------------------------------------------------
(* The operator and the config service.                                    *)

Publish ==
    /\ published < MaxPublishes
    /\ \E docs \in Remotes \ {remote} : remote' = docs
    /\ published' = published + 1
    /\ heeded' = FALSE
    /\ UNCHANGED <<file, base, live, known, status, pending, reload, local, alive, applied>>

\* Mutant: a signal that comes during a reload is dropped.
SighupDropped ==
    /\ ~pending \/ ~heeded
    /\ pending' = (pending \/ reload.pc = "idle")
    /\ heeded' = TRUE
    /\ UNCHANGED <<file, base, live, known, remote, status, reload, local,
                   alive, published, applied>>

\* The channel holds one signal; another is dropped while it waits.
Sighup ==
    /\ ~pending \/ ~heeded
    /\ pending' = TRUE
    /\ heeded' = TRUE
    /\ UNCHANGED <<file, base, live, known, remote, status, reload, local, alive, published, applied>>

-----------------------------------------------------------------------------
(* watchSIGHUP and ApplyRemote.                                            *)

Reloading(from, to) ==
    /\ reload.pc = from
    /\ reload' = to
    /\ UNCHANGED <<file, known, remote, local, published, heeded>>

\* Mutant: the next configuration starts from the live one.
TakeLive ==
    /\ pending
    /\ Reloading("idle", [NotReloading EXCEPT !.pc = "token", !.next = live.config])
    /\ pending' = FALSE
    /\ UNCHANGED <<base, live, status, alive, applied>>

Take ==
    /\ pending
    /\ Reloading("idle", [NotReloading EXCEPT !.pc = "token"])
    /\ pending' = FALSE
    /\ UNCHANGED <<base, live, status, alive, applied>>

TokenArrives ==
    /\ Reloading("token", [reload EXCEPT !.pc = "classes"])
    /\ UNCHANGED <<base, live, status, pending, alive, applied>>

\* Mutant: a missing token is only logged.
TokenFailsUnrecorded ==
    /\ Reloading("token", [reload EXCEPT !.pc = "swap"])
    /\ applied' = All(NoMap)
    /\ UNCHANGED <<base, live, status, pending, alive>>

\* No token: no namespace is asked for, and each records why.
TokenFails ==
    /\ Reloading("token", [reload EXCEPT !.pc = "swap"])
    /\ status' = All("failed")
    /\ applied' = All(NoMap)
    /\ UNCHANGED <<base, live, pending, alive>>

\* A namespace that cannot be fetched keeps the local entries.
Fails(ns, to) ==
    /\ Reloading(ns, [reload EXCEPT !.pc = to])
    /\ status' = [status EXCEPT ![ns] = "failed"]
    /\ applied' = [applied EXCEPT ![ns] = NoMap]
    /\ UNCHANGED <<base, live, pending, alive>>

Succeeds(ns, to) ==
    /\ Reloading(ns, to)
    /\ status' = [status EXCEPT ![ns] = "ok"]
    /\ applied' = [applied EXCEPT ![ns] = remote[ns]]
    /\ UNCHANGED <<live, pending, alive>>

ClassesArrive ==
    /\ Succeeds("classes",
          IF reload.next.classes.shared /\ remote.classes # Empty
          THEN [reload EXCEPT !.pc = "write", !.doc = remote.classes]
          ELSE [reload EXCEPT !.pc = "devices",
                              !.next.classes = Put(reload.next.classes, remote.classes)])
    /\ UNCHANGED base

\* One assignment into the file's map, which the API and the publisher read
\* through main's configuration and handlers through the engine's, at any
\* moment and without a lock: the runtime may notice and kill the process.
WriteClass(k) ==
    /\ k \in DOMAIN reload.doc
    /\ LET rest == [c \in DOMAIN reload.doc \ {k} |-> reload.doc[c]]
       IN  Reloading("write", [reload EXCEPT !.doc = rest,
                                             !.pc = IF rest = Empty THEN "devices" ELSE "write"])
    /\ base' = [base EXCEPT !.classes = Overlay([c \in {k} |-> reload.doc[k]], base.classes)]
    /\ alive' \in BOOLEAN
    /\ UNCHANGED <<live, status, pending, applied>>

DevicesArrive ==
    /\ Succeeds("devices", [reload EXCEPT !.pc = "behaviour",
                                          !.next.devices = Put(reload.next.devices, remote.devices)])
    /\ base' = [base EXCEPT !.devices =
                   PutShared(reload.next.devices, remote.devices, base.devices)]

\* A section that the document has replaces the local one whole.
BehaviourArrives ==
    /\ Succeeds("behaviour",
          [reload EXCEPT !.pc = "swap",
                         !.next.gap = IF remote.behaviour = Nil THEN @ ELSE remote.behaviour])
    /\ UNCHANGED base

\* ReloadConfig: configuration and resolver under the lock, then every device
\* the store knows.
Swap ==
    /\ Reloading("swap", [reload EXCEPT !.pc = "apply",
                                        !.todo = {d \in Devices : known[d] # Nil}])
    /\ \E order \in Orders :
          live' = Engine(reload.next, Entries(reload.next.devices, base.devices), order)
    /\ UNCHANGED <<base, status, pending, alive, applied>>

ReloadEnds ==
    /\ reload.todo = {}
    /\ local[Reloader].pc = "idle"
    /\ Reloading("apply", NotReloading)
    /\ UNCHANGED <<base, live, status, pending, alive, applied>>

-----------------------------------------------------------------------------
(* EnsureDiscovered: snapshot, resolve, and the entry under its lock.      *)

Elsewhere == <<file, base, live, remote, status, pending, alive,
               published, heeded, applied>>

Snapshot(w, d) ==
    /\ local[w].pc = "idle"
    /\ local' = [local EXCEPT ![w] = [Resting EXCEPT !.pc = "resolve", !.who = d, !.snap = live]]

DeviceSpeaks(h, d) ==
    /\ Snapshot(h, d)
    /\ UNCHANGED <<reload, known>>
    /\ UNCHANGED Elsewhere

Rediscover(d) ==
    /\ reload.pc = "apply"
    /\ d \in reload.todo
    /\ Snapshot(Reloader, d)
    /\ reload' = [reload EXCEPT !.todo = reload.todo \ {d}]
    /\ UNCHANGED known
    /\ UNCHANGED Elsewhere

Resolves(w) ==
    LET me == local[w] IN
    /\ me.pc = "resolve"
    /\ local' = [local EXCEPT ![w].pc = "enter",
                    ![w].profile = Resolve(ClassesOf(me.snap.config), me.snap.resolver, me.who, Fields)]
    /\ UNCHANGED <<reload, known>>
    /\ UNCHANGED Elsewhere

\* Mutant: the profile is replaced only when the class has changed.
EnterKeepsProfile(w) ==
    LET me == local[w]
    IN  /\ me.pc = "enter"
        /\ known' = [known EXCEPT ![me.who] =
                        IF @ # Nil THEN IF @.class = me.profile.class THEN @ ELSE me.profile
                                   ELSE me.profile]
        /\ local' = [local EXCEPT ![w] = Resting]
        /\ UNCHANGED reload
        /\ UNCHANGED Elsewhere

\* A new device, a changed class or a changed profile: the profile is the new
\* one in any case (what becomes of the runtime is DeviceRuntime's).
Enter(w) ==
    /\ local[w].pc = "enter"
    /\ known' = [known EXCEPT ![local[w].who] = local[w].profile]
    /\ local' = [local EXCEPT ![w] = Resting]
    /\ UNCHANGED reload
    /\ UNCHANGED Elsewhere

-----------------------------------------------------------------------------
ReloadStep ==
    \/ Take \/ TokenArrives \/ TokenFails
    \/ ClassesArrive \/ Fails("classes", "devices")
    \/ \E k \in DOMAIN reload.doc : WriteClass(k)
    \/ DevicesArrive \/ Fails("devices", "behaviour")
    \/ BehaviourArrives \/ Fails("behaviour", "swap")
    \/ Swap
    \/ \E d \in Devices : Rediscover(d)
    \/ ReloadEnds

Run(w) == Resolves(w) \/ Enter(w)

Next ==
    /\ alive
    /\ \/ Publish \/ Sighup \/ ReloadStep
       \/ \E h \in Handlers, d \in Devices : DeviceSpeaks(h, d)
       \/ \E w \in Workers : Run(w)

Spec == Init /\ [][Next]_vars

\* The watcher and the goroutines run; devices go on reporting, whichever
\* goroutine the client gives them.
FairSpec ==
    /\ Spec
    /\ WF_vars(alive /\ ReloadStep)
    /\ \A w \in Workers : WF_vars(alive /\ Run(w))
    /\ \A d \in Devices : SF_vars(alive /\ \E h \in Handlers : DeviceSpeaks(h, d))

-----------------------------------------------------------------------------
(* Properties.                                                             *)

IsRef(ref) ==
    /\ ref = [shared |-> ref.shared, own |-> ref.own]
    /\ ref.shared \in BOOLEAN

IsConfig(config) ==
    /\ config = [classes |-> config.classes, devices |-> config.devices, gap |-> config.gap]
    /\ IsRef(config.classes) /\ IsRef(config.devices)

\* Configurations, maps, statuses and the reload in progress keep their types; a
\* configuration shares a map with the file exactly if the file has the section.
TypeOK ==
    /\ file \in Locals /\ remote \in Remotes
    /\ base = [classes |-> base.classes, devices |-> base.devices]
    /\ live = [config |-> live.config, resolver |-> live.resolver]
    /\ reload = [pc |-> reload.pc, next |-> reload.next, doc |-> reload.doc, todo |-> reload.todo]
    /\ \A config \in {live.config, reload.next} :
          /\ IsConfig(config)
          /\ config.classes.shared <=> file.classes # NoMap
          /\ config.devices.shared <=> file.devices # NoMap
    /\ status \in [Namespaces -> {"ok", "failed"}]
    /\ applied = [ns \in Namespaces |-> applied[ns]]
    /\ \A ns \in Namespaces : applied[ns] # NoMap => \E docs \in Remotes : applied[ns] = docs[ns]
    /\ {pending, alive, heeded} \subseteq BOOLEAN
    /\ published \in 0..MaxPublishes

\* No reload is at work on the maps: live is what applied made of the file.
Built == reload.pc \in {"idle", "apply"}

Document(ns) == IF applied[ns] = NoMap THEN Empty ELSE applied[ns]
Over(entries, doc) == \A k \in DOMAIN doc : k \in DOMAIN entries /\ entries[k] = doc[k]

\* The engine's configuration is the local file with the documents of the last
\* ApplyRemote over it (remote.go, applyClasses, applyDevices, applyBehaviour):
\* entry for entry where the file has no such section, and where it has one the
\* last documents win and the file's entries are still there.
Layered ==
    Built =>
        LET classes == ClassesOf(live.config) IN
        /\ Over(classes, Document("classes"))
        /\ Over(live.resolver.devices, Document("devices"))
        /\ file.classes = NoMap => classes = Document("classes")
        /\ file.devices = NoMap => live.resolver.devices = Document("devices")
        /\ DOMAIN EntriesOf(file.classes) \subseteq DOMAIN classes
        /\ live.config.gap = IF applied.behaviour \in {Nil, NoMap} THEN file.gap
                                                                   ELSE applied.behaviour

\* main.go:54 and 268: a reload starts from the local-only configuration, "so
\* that removed remote entries don't accumulate across reloads" and "no stale
\* remote values carry over".
NoLeftovers ==
    Built => ClassesOf(live.config) = Overlay(Document("classes"), EntriesOf(file.classes))

\* What /healthz says of a namespace is what became of it: "ok" exactly if the
\* engine's configuration has the document in it.  A token that could not be
\* had counts against every namespace (remote.go:76-91).
StatusTruthful == Built => \A ns \in Namespaces : status[ns] = "ok" <=> applied[ns] # NoMap

\* Only a process whose file has a device_classes section can be killed by a
\* reload: without one every configuration has a class map of its own, and
\* none is written once a reader can hold it.
CrashNeedsSharedClasses == ~alive => file.classes # NoMap

\* The engine runs on what the service holds, but for namespaces that failed.
Reflects ==
    /\ Built
    /\ \A ns \in Namespaces : applied[ns] \in {remote[ns], NoMap}
    /\ Layered

\* A SIGHUP sent after a change is never lost, also while a reload is running:
\* the engine comes to run on what the service holds, or the fetch has failed.
SignalHeeded == heeded ~> (~heeded \/ Reflects \/ ~alive)

Profiled(d) == known[d] = Resolve(ClassesOf(live.config), live.resolver, d, Fields)

\* A message that resolved its device against the old configuration may put the
\* old profile back after the reload has replaced it; once reloads have ended
\* every device that goes on reporting comes to have the present profile.
Settles ==
    <>[](reload.pc = "idle" /\ ~pending /\ alive)
        => <>[](\A d \in Devices : known[d] # Nil => Profiled(d))
=============================================================================
