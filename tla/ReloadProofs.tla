----------------------------- MODULE ReloadProofs -----------------------------
(***************************************************************************)
(* What a reload builds, for any local files, documents, failures, devices *)
(* and handlers.                                                           *)
(***************************************************************************)
EXTENDS Reload, TLAPS

(* The documents' classes lie over a configuration's.                      *)
HasClasses(config) ==
    /\ Over(ClassesOf(config), Document("classes"))
    /\ file.classes = NoMap => ClassesOf(config) = Document("classes")

HasDevices(devices) ==
    /\ Over(devices, Document("devices"))
    /\ file.devices = NoMap => devices = Document("devices")

HasGap(config) ==
    config.gap = IF applied.behaviour \in {Nil, NoMap} THEN file.gap ELSE applied.behaviour

(* What is still to be written into the file's class map is part of the    *)
(* document, and the rest of the document is in the map already.           *)
Writing ==
    /\ file.classes # NoMap
    /\ \A k \in DOMAIN reload.doc :
          k \in DOMAIN Document("classes") /\ reload.doc[k] = Document("classes")[k]
    /\ \A k \in DOMAIN Document("classes") :
          \/ k \in DOMAIN reload.doc
          \/ k \in DOMAIN base.classes /\ base.classes[k] = Document("classes")[k]

(* How far a reload has come.                                              *)
Progress ==
    /\ Built => /\ HasClasses(live.config)
                /\ HasDevices(live.resolver.devices)
                /\ HasGap(live.config)
    /\ reload.pc \in {"token", "classes"} => reload.next = BaseConfig(file)
    /\ reload.pc \in {"write", "devices"} =>
          reload.next.devices = Ref(file.devices) /\ reload.next.gap = file.gap
    /\ reload.pc = "write" => Writing
    /\ reload.pc \in {"devices", "behaviour", "swap"} => HasClasses(reload.next)
    /\ reload.pc \in {"behaviour", "swap"} =>
          HasDevices(Entries(reload.next.devices, base.devices))
    /\ reload.pc = "behaviour" => reload.next.gap = file.gap
    /\ reload.pc = "swap" => HasGap(reload.next)
    /\ reload.pc \in {"idle", "token", "classes", "write", "devices", "behaviour", "swap", "apply"}

Kept == DOMAIN EntriesOf(file.classes) \subseteq DOMAIN base.classes

Recorded == \A ns \in Namespaces : status[ns] = "ok" <=> applied[ns] # NoMap

Crash == ~alive => file.classes # NoMap

IInv == TypeOK /\ Kept /\ Recorded /\ Crash /\ Progress

-----------------------------------------------------------------------------
(* Overlays.                                                               *)

LEMMA NamespaceNames ==
    "classes" \in Namespaces /\ "devices" \in Namespaces /\ "behaviour" \in Namespaces
BY DEF Namespaces

LEMMA OverlayLies == ASSUME NEW over, NEW under
    PROVE  /\ Over(Overlay(over, under), over)
           /\ DOMAIN under \subseteq DOMAIN Overlay(over, under)
BY DEF Over, Overlay

LEMMA OverlayEmpty == ASSUME NEW over, over = [k \in DOMAIN over |-> over[k]]
    PROVE  Overlay(over, Empty) = over
<1>1. DOMAIN Empty = {}
  BY DEF Empty
<1>2. Overlay(over, Empty) = [k \in DOMAIN over |-> over[k]]
  BY <1>1 DEF Overlay
<1> QED
  BY <1>2

LEMMA EmptyIsMap == Empty = [k \in DOMAIN Empty |-> Empty[k]]
BY DEF Empty

LEMMA EmptyLies == ASSUME NEW entries PROVE Over(entries, Empty)
BY DEF Over, Empty

LEMMA DevicesOfResolver == ASSUME NEW devices, NEW order
    PROVE  NewResolver(devices, order).devices = devices
BY DEF NewResolver

LEMMA SetOwn == ASSUME NEW shared, NEW old, NEW own
    PROVE  [[shared |-> shared, own |-> old] EXCEPT !.own = own] = [shared |-> shared, own |-> own]
OBVIOUS

LEMMA RefFields == ASSUME NEW shared, NEW own, NEW ref, ref = [shared |-> shared, own |-> own]
    PROVE  ref.shared = shared /\ ref.own = own
OBVIOUS

LEMMA RefType == ASSUME NEW section
    PROVE  /\ IsRef(Ref(section)) /\ Ref(section).own = Empty
           /\ Ref(section).shared <=> section # NoMap
           /\ section = NoMap => Ref(section) = [shared |-> FALSE, own |-> Empty]
BY DEF IsRef, Ref

LEMMA EntriesRef == ASSUME NEW section, NEW shared
    PROVE  /\ section = NoMap => Entries(Ref(section), shared) = Empty
           /\ section # NoMap => Entries(Ref(section), shared) = shared
<1>1. CASE section = NoMap
  BY <1>1, RefType, Zenon DEF Entries
<1>2. CASE section # NoMap
  BY <1>2, RefType, Zenon DEF Entries
<1> QED
  BY <1>1, <1>2

LEMMA BaseConfigType == ASSUME NEW f
    PROVE  /\ IsConfig(BaseConfig(f))
           /\ BaseConfig(f).classes = Ref(f.classes) /\ BaseConfig(f).devices = Ref(f.devices)
           /\ BaseConfig(f).gap = f.gap
           /\ Ref(f.classes).shared <=> f.classes # NoMap
           /\ Ref(f.devices).shared <=> f.devices # NoMap
           /\ Ref(f.classes).own = Empty /\ Ref(f.devices).own = Empty
BY DEF IsConfig, IsRef, BaseConfig, Ref

(* A document laid over a map of the file's, or over none.                 *)
LEMMA PutLies ==
    ASSUME NEW section, NEW doc, doc = [k \in DOMAIN doc |-> doc[k]], NEW shared
    PROVE  /\ IsRef(Put(Ref(section), doc))
           /\ Put(Ref(section), doc).shared <=> section # NoMap
           /\ Over(Entries(Put(Ref(section), doc), PutShared(Ref(section), doc, shared)), doc)
           /\ section = NoMap =>
                 Entries(Put(Ref(section), doc), PutShared(Ref(section), doc, shared)) = doc
           /\ DOMAIN shared \subseteq DOMAIN PutShared(Ref(section), doc, shared)
<1> DEFINE ref == Ref(section)
<1>0. IsRef(ref) /\ (ref.shared <=> section # NoMap)
      /\ (section = NoMap => ref = [shared |-> FALSE, own |-> Empty])
  BY RefType
<1> HIDE DEF ref
<1>1. CASE ref.shared
  <2>1. Put(ref, doc) = ref /\ PutShared(ref, doc, shared) = Overlay(doc, shared)
    BY <1>1 DEF Put, PutShared
  <2>2. section # NoMap
    BY <1>1, <1>0
  <2>3. Entries(Put(ref, doc), PutShared(ref, doc, shared)) = Overlay(doc, shared)
    BY <1>1, <2>1 DEF Entries
  <2> QED
    BY <1>0, <1>1, <2>1, <2>2, <2>3, OverlayLies DEF ref
<1>2. CASE ~ref.shared
  <2>1. ref = [shared |-> FALSE, own |-> Empty]
    <3>1. section = NoMap
      BY <1>2, <1>0
    <3> QED
      BY <3>1, <1>0
  <2>2. Put(ref, doc) = [shared |-> FALSE, own |-> Overlay(doc, Empty)]
    <3> DEFINE new == Overlay(doc, Empty)
    <3>1. ref.own = Empty
      BY <2>1
    <3>2. Put(ref, doc) = [ref EXCEPT !.own = new]
      BY <1>2, <3>1 DEF Put
    <3>3. [[shared |-> FALSE, own |-> Empty] EXCEPT !.own = new] = [shared |-> FALSE, own |-> new]
      BY SetOwn
    <3> QED
      BY <2>1, <3>2, <3>3, Zenon
  <2>3. Put(ref, doc) = [shared |-> FALSE, own |-> doc]
    BY <2>2, OverlayEmpty
  <2>4. PutShared(ref, doc, shared) = shared
    BY <1>2 DEF PutShared
  <2>5. Over(doc, doc)
    BY DEF Over
  <2>6. Entries(Put(ref, doc), PutShared(ref, doc, shared)) = doc
    BY <2>3 DEF Entries
  <2>7. IsRef(Put(ref, doc)) /\ Put(ref, doc).shared = ref.shared
    BY <1>2, <2>1, <2>3, RefFields, Zenon DEF IsRef
  <2> QED
    BY <1>0, <2>4, <2>5, <2>6, <2>7 DEF ref
<1> QED
  BY <1>1, <1>2

-----------------------------------------------------------------------------
(* Boot.                                                                   *)

LEMMA InitOK == Init => IInv
<1> SUFFICES ASSUME Init PROVE IInv
  OBVIOUS
<1>1. PICK f \in Locals, docs \in Remotes, reached \in BOOLEAN, order \in Orders :
         Boots(f, docs, reached, order)
  BY DEF Init
<1> DEFINE over == IF reached THEN docs ELSE [classes |-> Empty, devices |-> Empty, behaviour |-> Nil]
           classes == Put(Ref(f.classes), over.classes)
           devices == Put(Ref(f.devices), over.devices)
           gap == IF over.behaviour = Nil THEN f.gap ELSE over.behaviour
           cfg == [classes |-> classes, devices |-> devices, gap |-> gap]
           sharedClasses == PutShared(Ref(f.classes), over.classes, EntriesOf(f.classes))
           sharedDevices == PutShared(Ref(f.devices), over.devices, EntriesOf(f.devices))
<1>2. /\ file = f /\ base = [classes |-> sharedClasses, devices |-> sharedDevices]
      /\ live = Engine(cfg, Entries(cfg.devices, base.devices), order)
      /\ remote = docs
      /\ status = All(IF reached THEN "ok" ELSE "failed")
      /\ applied = IF reached THEN docs ELSE All(NoMap)
  BY <1>1 DEF Boots, BaseConfig
<1>4. over.classes = [k \in DOMAIN over.classes |-> over.classes[k]]
      /\ over.devices = [k \in DOMAIN over.devices |-> over.devices[k]]
  <2>1. CASE reached
    BY <2>1, ReloadConstants
  <2>2. CASE ~reached
    BY <2>2, EmptyIsMap
  <2> QED
    BY <2>1, <2>2
<1> HIDE DEF over
<1>5. /\ IsRef(classes) /\ (classes.shared <=> f.classes # NoMap)
      /\ Over(Entries(classes, sharedClasses), over.classes)
      /\ f.classes = NoMap => Entries(classes, sharedClasses) = over.classes
      /\ DOMAIN EntriesOf(f.classes) \subseteq DOMAIN sharedClasses
  BY <1>4, PutLies
<1>6. /\ IsRef(devices) /\ (devices.shared <=> f.devices # NoMap)
      /\ Over(Entries(devices, sharedDevices), over.devices)
      /\ f.devices = NoMap => Entries(devices, sharedDevices) = over.devices
  BY <1>4, PutLies
<1> HIDE DEF classes, devices, gap, sharedClasses, sharedDevices
<1>7. IsConfig(cfg) /\ (cfg.classes.shared <=> f.classes # NoMap)
      /\ (cfg.devices.shared <=> f.devices # NoMap)
  <2>1. cfg.classes = classes /\ cfg.devices = devices
    OBVIOUS
  <2>2. IsConfig(cfg)
    BY <1>5, <1>6, Zenon DEF IsConfig
  <2> QED
    BY <1>5, <1>6, <2>1, <2>2
<1>8. /\ ClassesOf(live.config) = Entries(classes, sharedClasses)
      /\ live.resolver.devices = Entries(devices, sharedDevices)
      /\ live.config = cfg /\ live.config.gap = gap
      /\ live = [config |-> live.config, resolver |-> live.resolver]
  <2>1. base.classes = sharedClasses /\ base.devices = sharedDevices
    BY <1>2
  <2>2. cfg.devices = devices /\ cfg.classes = classes /\ cfg.gap = gap
    OBVIOUS
  <2> HIDE DEF cfg
  <2>3. live = [config |-> cfg, resolver |-> NewResolver(Entries(devices, sharedDevices), order)]
    BY <1>2, <2>1, <2>2 DEF Engine
  <2> QED
    BY <2>1, <2>2, <2>3, DevicesOfResolver DEF ClassesOf
<1>9. /\ Document("classes") = over.classes /\ Document("devices") = over.devices
      /\ gap = IF applied.behaviour \in {Nil, NoMap} THEN file.gap ELSE applied.behaviour
      /\ status \in [Namespaces -> {"ok", "failed"}]
      /\ applied = [ns \in Namespaces |-> applied[ns]]
      /\ \A ns \in Namespaces : applied[ns] # NoMap => \E d \in Remotes : applied[ns] = d[ns]
      /\ Recorded
  <2>1. CASE reached
    BY <1>2, <2>1, ReloadConstants, NamespaceNames DEF All, Document, over, gap, Recorded
  <2>2. CASE ~reached
    BY <1>2, <2>2, NamespaceNames DEF All, Document, over, gap, Recorded
  <2> QED
    BY <2>1, <2>2
<1>10. /\ reload = NotReloading /\ alive = TRUE /\ {pending, alive, heeded} \subseteq BOOLEAN
       /\ published \in 0..MaxPublishes
  <2>1. pending = FALSE /\ alive = TRUE /\ heeded = TRUE /\ published = 0 /\ reload = NotReloading
    BY Zenon DEF Init
  <2>2. {pending, alive, heeded} \subseteq BOOLEAN
    BY <2>1, Zenon
  <2>3. published \in 0..MaxPublishes
    BY <2>1, ReloadConstants
  <2> QED
    BY <2>1, <2>2, <2>3
<1>11. /\ reload = [pc |-> reload.pc, next |-> reload.next, doc |-> reload.doc, todo |-> reload.todo]
       /\ reload.pc = "idle" /\ reload.next = BaseConfig(file)
  BY <1>10 DEF NotReloading
<1>12. TypeOK
  <2>1. /\ IsConfig(reload.next)
        /\ reload.next.classes.shared <=> file.classes # NoMap
        /\ reload.next.devices.shared <=> file.devices # NoMap
    BY <1>11, BaseConfigType
  <2> HIDE DEF cfg
  <2>2. base = [classes |-> base.classes, devices |-> base.devices]
    BY <1>2
  <2> QED
    BY <1>2, <1>7, <1>8, <1>9, <1>10, <1>11, <2>1, <2>2 DEF TypeOK
<1>13. Kept /\ Crash
  BY <1>2, <1>5, <1>10 DEF Kept, Crash
<1>14. Progress
  BY <1>2, <1>5, <1>6, <1>8, <1>9, <1>11 DEF Progress, HasClasses, HasDevices, HasGap
<1> QED
  BY <1>9, <1>12, <1>13, <1>14 DEF IInv

-----------------------------------------------------------------------------
(* Steps.  One lemma says what a reload's record becomes, and one what is  *)
(* left of the invariant when a step changes neither maps nor outcomes.    *)

IsReload(r) == r = [pc |-> r.pc, next |-> r.next, doc |-> r.doc, todo |-> r.todo]

NextOfFile(r) ==
    /\ IsConfig(r.next)
    /\ r.next.classes.shared <=> file.classes # NoMap
    /\ r.next.devices.shared <=> file.devices # NoMap

LEMMA ReloadRecord ==
    ASSUME NEW pc, NEW next, NEW doc, NEW todo, NEW r,
           r = [pc |-> pc, next |-> next, doc |-> doc, todo |-> todo]
    PROVE  IsReload(r) /\ r.pc = pc /\ r.next = next /\ r.doc = doc
<1>1. r.pc = pc /\ r.next = next /\ r.doc = doc /\ r.todo = todo
  OBVIOUS
<1> QED
  BY <1>1, Zenon DEF IsReload

LEMMA SetClasses ==
    ASSUME NEW c, IsConfig(c), NEW ref, IsRef(ref), NEW d, d = [c EXCEPT !.classes = ref]
    PROVE  IsConfig(d) /\ d.classes = ref /\ d.devices = c.devices /\ d.gap = c.gap
<1>1. c = [classes |-> c.classes, devices |-> c.devices, gap |-> c.gap]
      /\ IsRef(c.classes) /\ IsRef(c.devices)
  BY DEF IsConfig
<1>2. d = [classes |-> ref, devices |-> c.devices, gap |-> c.gap]
  BY <1>1
<1>3. d.classes = ref /\ d.devices = c.devices /\ d.gap = c.gap
  BY <1>2
<1>4. IsConfig(d)
  BY <1>1, <1>2, <1>3, Zenon DEF IsConfig
<1> QED
  BY <1>3, <1>4

LEMMA SetDevices ==
    ASSUME NEW c, IsConfig(c), NEW ref, IsRef(ref), NEW d, d = [c EXCEPT !.devices = ref]
    PROVE  IsConfig(d) /\ d.classes = c.classes /\ d.devices = ref /\ d.gap = c.gap
<1>1. c = [classes |-> c.classes, devices |-> c.devices, gap |-> c.gap]
      /\ IsRef(c.classes) /\ IsRef(c.devices)
  BY DEF IsConfig
<1>2. d = [classes |-> c.classes, devices |-> ref, gap |-> c.gap]
  BY <1>1
<1>3. d.classes = c.classes /\ d.devices = ref /\ d.gap = c.gap
  BY <1>2
<1>4. IsConfig(d)
  BY <1>1, <1>2, <1>3, Zenon DEF IsConfig
<1> QED
  BY <1>3, <1>4

LEMMA SetGap ==
    ASSUME NEW c, IsConfig(c), NEW gap, NEW d, d = [c EXCEPT !.gap = gap]
    PROVE  IsConfig(d) /\ d.classes = c.classes /\ d.devices = c.devices /\ d.gap = gap
<1>1. c = [classes |-> c.classes, devices |-> c.devices, gap |-> c.gap]
      /\ IsRef(c.classes) /\ IsRef(c.devices)
  BY DEF IsConfig
<1>2. d = [classes |-> c.classes, devices |-> c.devices, gap |-> gap]
  BY <1>1
<1>3. d.classes = c.classes /\ d.devices = c.devices /\ d.gap = gap
  BY <1>2
<1>4. IsConfig(d)
  BY <1>1, <1>2, <1>3, Zenon DEF IsConfig
<1> QED
  BY <1>3, <1>4

(* The outcome of a namespace keeps what is recorded of it true.           *)
LEMMA OutcomeType ==
    ASSUME TypeOK, Recorded, NEW ns \in Namespaces,
           \/ status' = [status EXCEPT ![ns] = "ok"] /\ applied' = [applied EXCEPT ![ns] = remote[ns]]
           \/ status' = [status EXCEPT ![ns] = "failed"] /\ applied' = [applied EXCEPT ![ns] = NoMap]
    PROVE  /\ status' \in [Namespaces -> {"ok", "failed"}]
           /\ applied' = [n \in Namespaces |-> applied'[n]]
           /\ \A n \in Namespaces : applied'[n] # NoMap => \E docs \in Remotes : applied'[n] = docs[n]
           /\ Recorded'
           /\ applied'[ns] = remote[ns] \/ applied'[ns] = NoMap
           /\ \A n \in Namespaces \ {ns} : applied'[n] = applied[n]
BY ReloadConstants DEF TypeOK, Recorded

LEMMA Quiet ==
    ASSUME IInv,
           UNCHANGED <<file, base, live, status, applied, alive>>,
           remote' \in Remotes, pending' \in BOOLEAN, heeded' \in BOOLEAN,
           published' \in 0..MaxPublishes,
           IsReload(reload'), NextOfFile(reload'),
           \/ /\ reload'.pc = reload.pc /\ reload'.next = reload.next /\ reload'.doc = reload.doc
           \/ /\ reload.pc = "apply" /\ reload'.pc = "idle"
           \/ /\ reload'.pc \in {"token", "classes"} /\ reload'.next = BaseConfig(file)
    PROVE  IInv'
<1>1. TypeOK'
  <2>1. alive' \in BOOLEAN
    BY DEF IInv, TypeOK
  <2>2. {pending', alive', heeded'} \subseteq BOOLEAN
    BY <2>1
  <2> QED
    BY <2>2 DEF IInv, TypeOK, IsReload, NextOfFile, IsConfig, IsRef
<1>2. Kept' /\ Recorded' /\ Crash'
  BY DEF IInv, Kept, Recorded, Crash
<1>3. Progress'
  BY DEF IInv, Progress, Built, HasClasses, HasDevices, HasGap, Writing, Document, ClassesOf
<1> QED
  BY <1>1, <1>2, <1>3 DEF IInv

LEMMA Stutters ==
    ASSUME IInv,
           \/ Publish \/ Sighup \/ Take \/ TokenArrives \/ ReloadEnds
           \/ \E h \in Handlers, d \in Devices : DeviceSpeaks(h, d)
           \/ \E d \in Devices : Rediscover(d)
           \/ \E w \in Workers : Run(w)
           \/ UNCHANGED vars
    PROVE  IInv'
<1>1. /\ IsReload(reload) /\ NextOfFile(reload) /\ remote \in Remotes
      /\ pending \in BOOLEAN /\ heeded \in BOOLEAN /\ published \in 0..MaxPublishes
  BY DEF IInv, TypeOK, IsReload, NextOfFile
<1>2. IsReload(NotReloading) /\ NotReloading.next = BaseConfig(file) /\ NotReloading.pc = "idle"
  BY DEF NotReloading, IsReload
<1>3. CASE Publish
  <2>1. heeded' \in BOOLEAN /\ remote' \in Remotes
    BY <1>3, Zenon DEF Publish
  <2>2. published' \in 0..MaxPublishes
    BY <1>1, <1>3, ReloadConstants DEF Publish
  <2>3. UNCHANGED <<file, base, live, known, status, pending, reload, local, alive, applied>>
    BY <1>3 DEF Publish
  <2> QED
    BY <1>1, <2>1, <2>2, <2>3, Quiet DEF NextOfFile
<1>4. CASE Sighup
  <2>1. pending' \in BOOLEAN /\ heeded' \in BOOLEAN
    BY <1>4, Zenon DEF Sighup
  <2>2. UNCHANGED <<file, base, live, known, remote, status, reload, local, alive, published, applied>>
    BY <1>4 DEF Sighup
  <2> QED
    BY <1>1, <2>1, <2>2, Quiet DEF NextOfFile
<1>5. CASE Take
  <2>1. /\ reload' = [pc |-> "token", next |-> BaseConfig(file), doc |-> Empty, todo |-> {}]
        /\ UNCHANGED <<file, base, live, remote, status, applied, alive, heeded, published>>
        /\ pending' = FALSE
    BY <1>5 DEF Take, Reloading, NotReloading
  <2>2. IsReload(reload') /\ reload'.pc = "token" /\ reload'.next = BaseConfig(file)
    BY <2>1, ReloadRecord
  <2> QED
    BY <1>1, <2>1, <2>2, BaseConfigType, Quiet DEF NextOfFile
<1>6. CASE TokenArrives
  <2>1. /\ reload.pc = "token" /\ reload.next = BaseConfig(file)
        /\ reload' = [reload EXCEPT !.pc = "classes"]
        /\ UNCHANGED <<file, base, live, remote, status, applied, alive, pending, heeded, published>>
    BY <1>6 DEF TokenArrives, Reloading, IInv, Progress
  <2>2. reload' = [pc |-> "classes", next |-> reload.next, doc |-> reload.doc, todo |-> reload.todo]
    BY <1>1, <2>1 DEF IsReload
  <2>3. IsReload(reload') /\ reload'.pc = "classes" /\ reload'.next = BaseConfig(file)
    BY <2>1, <2>2, ReloadRecord
  <2> QED
    BY <1>1, <2>1, <2>3, BaseConfigType, Quiet DEF NextOfFile
<1>7. CASE ReloadEnds
  <2>1. /\ reload.pc = "apply" /\ reload' = NotReloading
        /\ UNCHANGED <<file, base, live, remote, status, applied, alive, pending, heeded, published>>
    BY <1>7 DEF ReloadEnds, Reloading
  <2> QED
    BY <1>1, <1>2, <2>1, BaseConfigType, Quiet DEF NextOfFile
<1>8. CASE \/ \E h \in Handlers, d \in Devices : DeviceSpeaks(h, d)
           \/ \E w \in Workers : Run(w)
           \/ UNCHANGED vars
  <2>1. UNCHANGED <<file, base, live, remote, status, applied, alive, pending, heeded, published, reload>>
    BY <1>8 DEF DeviceSpeaks, Run, Resolves, Enter, Elsewhere, vars
  <2> QED
    BY <1>1, <2>1, Quiet DEF NextOfFile
<1>9. ASSUME NEW d \in Devices, Rediscover(d) PROVE IInv'
  <2>1. /\ reload' = [reload EXCEPT !.todo = reload.todo \ {d}]
        /\ UNCHANGED <<file, base, live, remote, status, applied, alive, pending, heeded, published>>
    BY <1>9 DEF Rediscover, Elsewhere
  <2>2. reload' = [pc |-> reload.pc, next |-> reload.next, doc |-> reload.doc, todo |-> reload.todo \ {d}]
    BY <1>1, <2>1 DEF IsReload
  <2>3. IsReload(reload') /\ reload'.pc = reload.pc /\ reload'.next = reload.next /\ reload'.doc = reload.doc
    BY <2>2, ReloadRecord
  <2> QED
    BY <1>1, <2>1, <2>3, Quiet DEF NextOfFile
<1> QED
  BY <1>3, <1>4, <1>5, <1>6, <1>7, <1>8, <1>9

-----------------------------------------------------------------------------
(* The steps of a reload that build the next configuration.                *)

(* What a step of ApplyRemote leaves alone.                                *)
Apart == UNCHANGED <<file, live, known, remote, local, pending, published, heeded>>

(* Off the Built states only the reload, the maps and the outcomes matter. *)
LEMMA Building ==
    ASSUME IInv, Apart,
           base' = [classes |-> base'.classes, devices |-> base'.devices],
           DOMAIN base.classes \subseteq DOMAIN base'.classes,
           IsReload(reload'), NextOfFile(reload'),
           status' \in [Namespaces -> {"ok", "failed"}],
           applied' = [ns \in Namespaces |-> applied'[ns]],
           \A ns \in Namespaces : applied'[ns] # NoMap => \E docs \in Remotes : applied'[ns] = docs[ns],
           Recorded', alive' \in BOOLEAN, Crash', Progress'
    PROVE  IInv'
<1>1. TypeOK'
  <2>1. {pending', alive', heeded'} \subseteq BOOLEAN
    BY Zenon DEF IInv, TypeOK, Apart
  <2> QED
    BY <2>1 DEF IInv, TypeOK, IsReload, NextOfFile, IsConfig, IsRef, Apart
<1>2. Kept'
  BY DEF IInv, Kept, Apart
<1> QED
  BY <1>1, <1>2 DEF IInv

(* A configuration of which no document could be had is the file's.        *)
LEMMA FileAlone ==
    ASSUME NEW config, config.classes = Ref(file.classes)
    PROVE  /\ applied.classes = NoMap => HasClasses(config)
           /\ applied.devices = NoMap => HasDevices(Entries(Ref(file.devices), base.devices))
<1>1. /\ applied.classes = NoMap => Document("classes") = Empty
      /\ applied.devices = NoMap => Document("devices") = Empty
  BY DEF Document
<1>2. /\ file.classes = NoMap => ClassesOf(config) = Empty
      /\ file.devices = NoMap => Entries(Ref(file.devices), base.devices) = Empty
  BY EntriesRef DEF ClassesOf
<1> QED
  BY <1>1, <1>2, EmptyLies DEF HasClasses, HasDevices

LEMMA TokenFailsStep == ASSUME IInv, TokenFails PROVE IInv'
<1>1. /\ reload.pc = "token" /\ reload' = [reload EXCEPT !.pc = "swap"]
      /\ status' = All("failed") /\ applied' = All(NoMap)
      /\ Apart /\ UNCHANGED <<base, alive>>
  BY DEF TokenFails, Reloading, Apart
<1>2. /\ IsReload(reload) /\ NextOfFile(reload) /\ reload.next = BaseConfig(file)
      /\ alive \in BOOLEAN /\ Crash /\ base = [classes |-> base.classes, devices |-> base.devices]
  BY <1>1 DEF IInv, TypeOK, IsReload, NextOfFile, Progress
<1>3. reload' = [pc |-> "swap", next |-> reload.next, doc |-> reload.doc, todo |-> reload.todo]
  BY <1>1, <1>2 DEF IsReload
<1>4. IsReload(reload') /\ reload'.pc = "swap" /\ reload'.next = reload.next
  BY <1>3, ReloadRecord
<1>5. /\ status' \in [Namespaces -> {"ok", "failed"}]
      /\ applied' = [ns \in Namespaces |-> applied'[ns]]
      /\ \A ns \in Namespaces : applied'[ns] = NoMap /\ status'[ns] = "failed"
  BY <1>1 DEF All
<1>6. Recorded' /\ Crash'
  BY <1>1, <1>2, <1>5 DEF Recorded, Crash, Apart
<1>7. HasClasses(reload.next)' /\ HasDevices(Entries(reload.next.devices, base.devices))'
  <2>1. /\ Document("classes")' = Empty /\ Document("devices")' = Empty
    BY <1>5, NamespaceNames DEF Document
  <2>2. /\ file.classes = NoMap => ClassesOf(reload.next)' = Empty
        /\ file.devices = NoMap => Entries(reload.next.devices, base.devices)' = Empty
    BY <1>1, <1>2, <1>4, EntriesRef, BaseConfigType DEF ClassesOf
  <2> QED
    BY <1>1, <2>1, <2>2, EmptyLies DEF HasClasses, HasDevices, Apart
<1>8. HasGap(reload.next)'
  BY <1>1, <1>2, <1>4, <1>5, BaseConfigType, NamespaceNames DEF HasGap, Apart
<1>9. Progress'
  BY <1>4, <1>7, <1>8 DEF Progress, Built
<1> QED
  BY <1>1, <1>2, <1>4, <1>5, <1>6, <1>9, Building DEF NextOfFile, Apart

(* A namespace that fails, or has been applied: what the next one finds.   *)
LEMMA OutcomeStep ==
    ASSUME IInv, NEW ns \in Namespaces, Apart, UNCHANGED alive,
           \/ status' = [status EXCEPT ![ns] = "ok"] /\ applied' = [applied EXCEPT ![ns] = remote[ns]]
           \/ status' = [status EXCEPT ![ns] = "failed"] /\ applied' = [applied EXCEPT ![ns] = NoMap],
           base' = [classes |-> base'.classes, devices |-> base'.devices],
           DOMAIN base.classes \subseteq DOMAIN base'.classes,
           NEW pc, NEW next, NEW doc, reload' = [pc |-> pc, next |-> next, doc |-> doc, todo |-> reload.todo],
           IsConfig(next), next.classes.shared <=> file.classes # NoMap,
           next.devices.shared <=> file.devices # NoMap,
           Progress'
    PROVE  IInv'
<1>1. /\ status' \in [Namespaces -> {"ok", "failed"}]
      /\ applied' = [n \in Namespaces |-> applied'[n]]
      /\ \A n \in Namespaces : applied'[n] # NoMap => \E docs \in Remotes : applied'[n] = docs[n]
      /\ Recorded'
  BY OutcomeType DEF IInv
<1>2. IsReload(reload') /\ reload'.next = next
  BY ReloadRecord
<1>3. Crash' /\ alive' \in BOOLEAN
  BY DEF IInv, TypeOK, Crash, Apart
<1>4. NextOfFile(reload')
  BY <1>2 DEF NextOfFile
<1> QED
  BY <1>1, <1>2, <1>3, <1>4, Building

LEMMA FailsStep ==
    ASSUME IInv, Fails("classes", "devices") \/ Fails("devices", "behaviour") \/ Fails("behaviour", "swap")
    PROVE  IInv'
<1>1. IsReload(reload) /\ NextOfFile(reload)
      /\ base = [classes |-> base.classes, devices |-> base.devices] /\ Progress /\ TypeOK /\ Recorded
  BY DEF IInv, TypeOK, IsReload, NextOfFile
<1>2. ASSUME NEW ns \in Namespaces, NEW to, Fails(ns, to)
      PROVE  /\ reload.pc = ns /\ Apart /\ UNCHANGED <<base, alive>>
             /\ status' = [status EXCEPT ![ns] = "failed"] /\ applied' = [applied EXCEPT ![ns] = NoMap]
             /\ applied'[ns] = NoMap
             /\ \A n \in Namespaces \ {ns} : applied'[n] = applied[n]
             /\ reload' = [pc |-> to, next |-> reload.next, doc |-> reload.doc, todo |-> reload.todo]
             /\ reload'.pc = to /\ reload'.next = reload.next
             /\ Progress' => IInv'
  <2>1. /\ reload.pc = ns /\ Apart /\ UNCHANGED <<base, alive>> /\ reload' = [reload EXCEPT !.pc = to]
        /\ status' = [status EXCEPT ![ns] = "failed"] /\ applied' = [applied EXCEPT ![ns] = NoMap]
    BY <1>2 DEF Fails, Reloading, Apart
  <2>2. reload' = [pc |-> to, next |-> reload.next, doc |-> reload.doc, todo |-> reload.todo]
    BY <1>1, <2>1 DEF IsReload
  <2>3. reload'.pc = to /\ reload'.next = reload.next
    BY <2>2, ReloadRecord
  <2>4. applied'[ns] = NoMap /\ \A n \in Namespaces \ {ns} : applied'[n] = applied[n]
    BY <1>1, <2>1 DEF TypeOK
  <2>5. Progress' => IInv'
    BY <1>1, <2>1, <2>2, OutcomeStep DEF NextOfFile
  <2> QED
    BY <2>1, <2>2, <2>3, <2>4, <2>5
<1>3. CASE Fails("classes", "devices")
  <2>1. reload.next = BaseConfig(file) /\ reload.pc = "classes"
    BY <1>1, <1>2, <1>3, NamespaceNames DEF Progress
  <2>2. reload'.pc = "devices" /\ reload'.next = reload.next /\ Apart /\ UNCHANGED base
        /\ applied'["classes"] = NoMap
    BY <1>2, <1>3, NamespaceNames
  <2>3. HasClasses(reload.next)'
    <3>1. Document("classes")' = Empty
      BY <2>2 DEF Document
    <3>2. file.classes = NoMap => ClassesOf(reload.next)' = Empty
      BY <2>1, <2>2, EntriesRef, BaseConfigType DEF ClassesOf, Apart
    <3> QED
      BY <2>2, <3>1, <3>2, EmptyLies DEF HasClasses, Apart
  <2>4. Progress'
    BY <2>1, <2>2, <2>3, BaseConfigType DEF Progress, Built, Apart
  <2> QED
    BY <1>2, <1>3, <2>4, NamespaceNames
<1>4. CASE Fails("devices", "behaviour")
  <2>1. /\ reload.pc = "devices" /\ reload.next.devices = Ref(file.devices)
        /\ reload.next.gap = file.gap /\ HasClasses(reload.next)
    BY <1>1, <1>2, <1>4, NamespaceNames DEF Progress
  <2>2. reload'.pc = "behaviour" /\ reload'.next = reload.next /\ Apart /\ UNCHANGED base
        /\ applied'["devices"] = NoMap /\ applied'["classes"] = applied["classes"]
    BY <1>2, <1>4, NamespaceNames
  <2>3. HasClasses(reload.next)'
    BY <2>1, <2>2 DEF HasClasses, Document, ClassesOf, Apart
  <2>4. HasDevices(Entries(reload.next.devices, base.devices))'
    <3>1. Document("devices")' = Empty
      BY <2>2 DEF Document
    <3>2. file.devices = NoMap => Entries(reload.next.devices, base.devices)' = Empty
      BY <2>1, <2>2, EntriesRef
    <3> QED
      BY <2>2, <3>1, <3>2, EmptyLies DEF HasDevices, Apart
  <2>5. Progress'
    BY <2>1, <2>2, <2>3, <2>4 DEF Progress, Built, Apart
  <2> QED
    BY <1>2, <1>4, <2>5, NamespaceNames
<1>5. CASE Fails("behaviour", "swap")
  <2>1. /\ reload.pc = "behaviour" /\ reload.next.gap = file.gap /\ HasClasses(reload.next)
        /\ HasDevices(Entries(reload.next.devices, base.devices))
    BY <1>1, <1>2, <1>5, NamespaceNames DEF Progress
  <2>2. reload'.pc = "swap" /\ reload'.next = reload.next /\ Apart /\ UNCHANGED base
        /\ applied'["behaviour"] = NoMap /\ applied'["classes"] = applied["classes"]
        /\ applied'["devices"] = applied["devices"]
    BY <1>2, <1>5, NamespaceNames
  <2>3. HasClasses(reload.next)'
    BY <2>1, <2>2 DEF HasClasses, Document, ClassesOf, Apart
  <2>4. HasDevices(Entries(reload.next.devices, base.devices))'
    BY <2>1, <2>2 DEF HasDevices, Document, Apart
  <2>5. HasGap(reload.next)'
    BY <2>1, <2>2 DEF HasGap, Apart
  <2>6. Progress'
    BY <2>1, <2>2, <2>3, <2>4, <2>5 DEF Progress, Built, Apart
  <2> QED
    BY <1>2, <1>5, <2>6, NamespaceNames
<1> QED
  BY <1>3, <1>4, <1>5

LEMMA SucceedsOutcome ==
    ASSUME IInv, NEW ns \in Namespaces, NEW to, Succeeds(ns, to)
    PROVE  /\ reload.pc = ns /\ reload' = to /\ Apart /\ UNCHANGED alive
           /\ status' = [status EXCEPT ![ns] = "ok"] /\ applied' = [applied EXCEPT ![ns] = remote[ns]]
           /\ applied'[ns] = remote[ns] /\ remote[ns] # NoMap
           /\ \A n \in Namespaces \ {ns} : applied'[n] = applied[n]
<1>1. /\ reload.pc = ns /\ reload' = to /\ Apart /\ UNCHANGED alive
      /\ status' = [status EXCEPT ![ns] = "ok"] /\ applied' = [applied EXCEPT ![ns] = remote[ns]]
  BY DEF Succeeds, Reloading, Apart
<1> QED
  BY <1>1, ReloadConstants DEF IInv, TypeOK

LEMMA ClassesArriveStep == ASSUME IInv, ClassesArrive PROVE IInv'
<1> DEFINE doc == remote.classes
<1>1. /\ reload.pc = "classes" /\ Apart /\ UNCHANGED <<base, alive>>
      /\ status' = [status EXCEPT !["classes"] = "ok"]
      /\ applied' = [applied EXCEPT !["classes"] = remote["classes"]]
      /\ applied'["classes"] = doc /\ doc # NoMap
      /\ reload' = IF reload.next.classes.shared /\ doc # Empty
                    THEN [reload EXCEPT !.pc = "write", !.doc = doc]
                    ELSE [reload EXCEPT !.pc = "devices",
                                        !.next.classes = Put(reload.next.classes, doc)]
  BY SucceedsOutcome, NamespaceNames DEF ClassesArrive
<1>2. /\ IsReload(reload) /\ NextOfFile(reload) /\ reload.next = BaseConfig(file) /\ Kept
      /\ base = [classes |-> base.classes, devices |-> base.devices]
      /\ doc = [k \in DOMAIN doc |-> doc[k]]
  BY <1>1, ReloadConstants DEF IInv, TypeOK, IsReload, NextOfFile, Progress
<1> HIDE DEF doc
<1>3. reload.next.classes = Ref(file.classes) /\ reload.next.devices = Ref(file.devices)
      /\ reload.next.gap = file.gap /\ IsConfig(reload.next)
  BY <1>2, BaseConfigType
<1>4. Document("classes")' = doc
  BY <1>1 DEF Document
<1>7. /\ Apart /\ UNCHANGED alive
      /\ status' = [status EXCEPT !["classes"] = "ok"]
      /\ applied' = [applied EXCEPT !["classes"] = remote["classes"]]
      /\ base' = [classes |-> base'.classes, devices |-> base'.devices]
      /\ DOMAIN base.classes \subseteq DOMAIN base'.classes
  BY <1>1, <1>2
<1>5. CASE reload.next.classes.shared /\ doc # Empty
  <2>1. reload' = [reload EXCEPT !.pc = "write", !.doc = doc]
    BY <1>1, <1>5
  <2>2. reload' = [pc |-> "write", next |-> reload.next, doc |-> doc, todo |-> reload.todo]
    BY <1>2, <2>1 DEF IsReload
  <2>3. reload'.pc = "write" /\ reload'.next = reload.next /\ reload'.doc = doc
    BY <2>2, ReloadRecord
  <2>4. Writing'
    BY <1>1, <1>2, <1>4, <1>5, <2>3 DEF Writing, Apart, NextOfFile
  <2>5. Progress'
    BY <1>1, <1>3, <2>3, <2>4 DEF Progress, Built, Apart
  <2> QED
    BY <1>2, <1>7, <2>2, <2>5, OutcomeStep, NamespaceNames DEF NextOfFile
<1>6. CASE ~(reload.next.classes.shared /\ doc # Empty)
  <2> DEFINE ref == Put(Ref(file.classes), doc)
             next == [reload.next EXCEPT !.classes = ref]
  <2>1. reload' = [reload EXCEPT !.pc = "devices", !.next.classes = ref]
    BY <1>1, <1>3, <1>6
  <2>2. IsRef(ref) /\ (ref.shared <=> file.classes # NoMap)
        /\ Over(Entries(ref, PutShared(Ref(file.classes), doc, base.classes)), doc)
        /\ (file.classes = NoMap =>
              Entries(ref, PutShared(Ref(file.classes), doc, base.classes)) = doc)
    BY <1>2, PutLies
  <2> HIDE DEF ref
  <2>3. IsConfig(next) /\ next.classes = ref /\ next.devices = Ref(file.devices) /\ next.gap = file.gap
    <3>1. /\ IsConfig(next) /\ next.classes = ref /\ next.devices = reload.next.devices
          /\ next.gap = reload.next.gap
      BY <1>3, <2>2, SetClasses
    <3> QED
      BY <1>3, <3>1
  <2>4. reload' = [pc |-> "devices", next |-> next, doc |-> reload.doc, todo |-> reload.todo]
    BY <1>2, <2>1 DEF IsReload
  <2> HIDE DEF next
  <2>5. reload'.pc = "devices" /\ reload'.next = next
    BY <2>4, ReloadRecord
  <2>6. HasClasses(reload.next)'
    <3>1. ClassesOf(reload.next)' = Entries(ref, base.classes)
      BY <1>1, <2>3, <2>5 DEF ClassesOf
    <3>2. CASE ref.shared
      <4>1. doc = Empty /\ file.classes # NoMap
        BY <1>3, <1>6, <2>2, <3>2, RefType
      <4> QED
        BY <1>1, <1>4, <4>1, EmptyLies DEF HasClasses, Apart
    <3>3. CASE ~ref.shared
      <4>1. Entries(ref, base.classes) = Entries(ref, PutShared(Ref(file.classes), doc, base.classes))
        BY <3>3 DEF Entries
      <4> QED
        BY <1>1, <1>4, <2>2, <3>1, <4>1 DEF HasClasses, Apart
    <3> QED
      BY <3>2, <3>3
  <2>7. Progress'
    BY <1>1, <2>3, <2>5, <2>6 DEF Progress, Built, Apart
  <2>8. next.classes.shared <=> file.classes # NoMap
    BY <2>2, <2>3
  <2>9. next.devices.shared <=> file.devices # NoMap
    BY <2>3, RefType
  <2> QED
    BY <1>7, <2>3, <2>4, <2>7, <2>8, <2>9, OutcomeStep, NamespaceNames
<1> QED
  BY <1>5, <1>6

LEMMA WriteClassStep == ASSUME IInv, NEW k \in DOMAIN reload.doc, WriteClass(k) PROVE IInv'
<1> DEFINE rest == [c \in DOMAIN reload.doc \ {k} |-> reload.doc[c]]
           pc == IF rest = Empty THEN "devices" ELSE "write"
           classes == Overlay([c \in {k} |-> reload.doc[k]], base.classes)
<1>1. /\ reload.pc = "write" /\ reload' = [reload EXCEPT !.doc = rest, !.pc = pc]
      /\ base' = [base EXCEPT !.classes = classes]
      /\ alive' \in BOOLEAN /\ Apart /\ UNCHANGED <<status, applied>>
  BY DEF WriteClass, Reloading, Apart
<1>2. /\ IsReload(reload) /\ NextOfFile(reload) /\ Kept /\ Writing /\ TypeOK /\ Recorded
      /\ reload.next.devices = Ref(file.devices) /\ reload.next.gap = file.gap
      /\ base = [classes |-> base.classes, devices |-> base.devices]
  BY <1>1 DEF IInv, TypeOK, IsReload, NextOfFile, Progress
<1>3. /\ DOMAIN rest = DOMAIN reload.doc \ {k} /\ \A c \in DOMAIN rest : rest[c] = reload.doc[c]
      /\ rest = Empty => DOMAIN rest = {}
  BY DEF Empty
<1>4. /\ DOMAIN classes = {k} \union DOMAIN base.classes /\ classes[k] = reload.doc[k]
      /\ \A c \in DOMAIN base.classes \ {k} : classes[c] = base.classes[c]
  BY DEF Overlay
<1> HIDE DEF rest, pc, classes
<1>5. reload' = [pc |-> pc, next |-> reload.next, doc |-> rest, todo |-> reload.todo]
  BY <1>1, <1>2 DEF IsReload
<1>6. IsReload(reload') /\ reload'.pc = pc /\ reload'.next = reload.next /\ reload'.doc = rest
  BY <1>5, ReloadRecord
<1>7. base'.classes = classes /\ base' = [classes |-> base'.classes, devices |-> base'.devices]
  BY <1>1, <1>2
<1>8. Document("classes")' = Document("classes")
  BY <1>1 DEF Document
<1>9. Writing'
  BY <1>1, <1>2, <1>3, <1>4, <1>6, <1>7, <1>8 DEF Writing, Apart
<1>10. CASE rest = Empty
  <2>1. pc = "devices" /\ DOMAIN rest = {}
    BY <1>3, <1>10 DEF pc
  <2>2. file.classes # NoMap /\ reload.next.classes.shared
    BY <1>2 DEF Writing, NextOfFile
  <2>3. ClassesOf(reload.next)' = base'.classes
    BY <1>6, <2>2 DEF ClassesOf, Entries
  <2>4. HasClasses(reload.next)'
    BY <1>1, <1>6, <1>9, <2>1, <2>2, <2>3 DEF HasClasses, Over, Writing, Apart
  <2> QED
    <3>1. Progress'
      BY <1>1, <1>2, <1>6, <2>1, <2>4 DEF Progress, Built, Apart
    <3>2. Crash'
      BY <1>1, <2>2 DEF Crash, Apart
    <3> QED
      BY <1>1, <1>2, <1>4, <1>6, <1>7, <3>1, <3>2, Building DEF TypeOK, Recorded, NextOfFile, Apart
<1>11. CASE rest # Empty
  <2>1. pc = "write"
    BY <1>11 DEF pc
  <2>2. Progress'
    BY <1>1, <1>2, <1>6, <1>9, <2>1 DEF Progress, Built, Apart
  <2>3. Crash'
    BY <1>1, <1>2 DEF Crash, Writing, Apart
  <2> QED
    BY <1>1, <1>2, <1>4, <1>6, <1>7, <2>2, <2>3, Building DEF TypeOK, Recorded, NextOfFile, Apart
<1> QED
  BY <1>10, <1>11

LEMMA DevicesArriveStep == ASSUME IInv, DevicesArrive PROVE IInv'
<1> DEFINE doc == remote.devices
           ref == Put(Ref(file.devices), doc)
           shared == PutShared(Ref(file.devices), doc, base.devices)
           next == [reload.next EXCEPT !.devices = ref]
<1>1. /\ IsReload(reload) /\ NextOfFile(reload)
      /\ base = [classes |-> base.classes, devices |-> base.devices]
      /\ doc = [k \in DOMAIN doc |-> doc[k]]
  BY ReloadConstants DEF IInv, TypeOK, IsReload, NextOfFile
<1>2. /\ reload.pc = "devices" /\ Apart /\ UNCHANGED alive
      /\ status' = [status EXCEPT !["devices"] = "ok"]
      /\ applied' = [applied EXCEPT !["devices"] = remote["devices"]]
      /\ applied'["devices"] = doc /\ doc # NoMap /\ applied'["classes"] = applied["classes"]
      /\ reload' = [reload EXCEPT !.pc = "behaviour",
                                  !.next.devices = Put(reload.next.devices, doc)]
      /\ base' = [base EXCEPT !.devices = PutShared(reload.next.devices, doc, base.devices)]
  BY SucceedsOutcome, NamespaceNames DEF DevicesArrive
<1>3. reload.next.devices = Ref(file.devices) /\ reload.next.gap = file.gap /\ HasClasses(reload.next)
  BY <1>2 DEF IInv, Progress
<1>4. /\ IsRef(ref) /\ (ref.shared <=> file.devices # NoMap)
      /\ Over(Entries(ref, shared), doc)
      /\ file.devices = NoMap => Entries(ref, shared) = doc
  BY <1>1, PutLies
<1>5. /\ reload' = [reload EXCEPT !.pc = "behaviour", !.next.devices = ref]
      /\ base' = [base EXCEPT !.devices = shared]
  BY <1>2, <1>3
<1> HIDE DEF doc, ref, shared
<1>6. IsConfig(next) /\ next.classes = reload.next.classes /\ next.devices = ref
      /\ next.gap = file.gap
  <2>1. /\ IsConfig(next) /\ next.classes = reload.next.classes /\ next.devices = ref
        /\ next.gap = reload.next.gap
    BY <1>1, <1>4, SetDevices DEF NextOfFile
  <2> QED
    BY <1>3, <2>1
<1>7. reload' = [pc |-> "behaviour", next |-> next, doc |-> reload.doc, todo |-> reload.todo]
  BY <1>1, <1>5 DEF IsReload
<1> HIDE DEF next
<1>8. reload'.pc = "behaviour" /\ reload'.next = next
  BY <1>7, ReloadRecord
<1>9. /\ base'.classes = base.classes /\ base'.devices = shared
      /\ base' = [classes |-> base'.classes, devices |-> base'.devices]
  BY <1>1, <1>5
<1>10. HasClasses(reload.next)'
  BY <1>2, <1>3, <1>6, <1>8, <1>9 DEF HasClasses, Document, ClassesOf, Apart
<1>11. HasDevices(Entries(reload.next.devices, base.devices))'
  <2>1. Document("devices")' = doc
    BY <1>2 DEF Document
  <2> QED
    BY <1>2, <1>4, <1>6, <1>8, <1>9, <2>1 DEF HasDevices, Apart
<1>12. Progress'
  BY <1>2, <1>6, <1>8, <1>10, <1>11 DEF Progress, Built, Apart
<1>13. /\ next.classes.shared <=> file.classes # NoMap
       /\ next.devices.shared <=> file.devices # NoMap
  BY <1>1, <1>4, <1>6 DEF NextOfFile
<1>14. /\ Apart /\ UNCHANGED alive
       /\ status' = [status EXCEPT !["devices"] = "ok"]
       /\ applied' = [applied EXCEPT !["devices"] = remote["devices"]]
       /\ DOMAIN base.classes \subseteq DOMAIN base'.classes
  BY <1>2, <1>9
<1> QED
  BY <1>6, <1>7, <1>9, <1>12, <1>13, <1>14, OutcomeStep, NamespaceNames

LEMMA BehaviourArrivesStep == ASSUME IInv, BehaviourArrives PROVE IInv'
<1> DEFINE gap == IF remote.behaviour = Nil THEN reload.next.gap ELSE remote.behaviour
           next == [reload.next EXCEPT !.gap = gap]
<1>1. /\ IsReload(reload) /\ NextOfFile(reload)
      /\ base = [classes |-> base.classes, devices |-> base.devices]
  BY DEF IInv, TypeOK, IsReload, NextOfFile
<1>2. /\ reload.pc = "behaviour" /\ Apart /\ UNCHANGED <<alive, base>>
      /\ status' = [status EXCEPT !["behaviour"] = "ok"]
      /\ applied' = [applied EXCEPT !["behaviour"] = remote["behaviour"]]
      /\ applied'["behaviour"] = remote.behaviour /\ remote.behaviour # NoMap
      /\ applied'["classes"] = applied["classes"] /\ applied'["devices"] = applied["devices"]
      /\ reload' = [reload EXCEPT !.pc = "swap", !.next.gap = gap]
  BY SucceedsOutcome, NamespaceNames DEF BehaviourArrives
<1>3. /\ reload.next.gap = file.gap /\ HasClasses(reload.next)
      /\ HasDevices(Entries(reload.next.devices, base.devices))
  BY <1>2 DEF IInv, Progress
<1>4. gap = IF applied'["behaviour"] \in {Nil, NoMap} THEN file.gap ELSE applied'["behaviour"]
  BY <1>2, <1>3
<1> HIDE DEF gap
<1>5. IsConfig(next) /\ next.classes = reload.next.classes /\ next.devices = reload.next.devices
      /\ next.gap = gap
  BY <1>1, SetGap DEF NextOfFile
<1>6. reload' = [pc |-> "swap", next |-> next, doc |-> reload.doc, todo |-> reload.todo]
  BY <1>1, <1>2 DEF IsReload
<1> HIDE DEF next
<1>7. reload'.pc = "swap" /\ reload'.next = next
  BY <1>6, ReloadRecord
<1>8. HasClasses(reload.next)'
  BY <1>2, <1>3, <1>5, <1>7 DEF HasClasses, Document, ClassesOf, Apart
<1>9. HasDevices(Entries(reload.next.devices, base.devices))'
  BY <1>2, <1>3, <1>5, <1>7 DEF HasDevices, Document, Apart
<1>10. HasGap(reload.next)'
  <2>1. reload'.next.gap = gap /\ file' = file
    BY <1>2, <1>5, <1>7 DEF Apart
  <2> QED
    BY <1>4, <2>1 DEF HasGap
<1>11. Progress'
  BY <1>2, <1>7, <1>8, <1>9, <1>10 DEF Progress, Built, Apart
<1>12. /\ next.classes.shared <=> file.classes # NoMap
       /\ next.devices.shared <=> file.devices # NoMap
       /\ base' = [classes |-> base'.classes, devices |-> base'.devices]
       /\ DOMAIN base.classes \subseteq DOMAIN base'.classes
  BY <1>1, <1>2, <1>5 DEF NextOfFile
<1> QED
  BY <1>2, <1>5, <1>6, <1>11, <1>12, OutcomeStep, NamespaceNames

LEMMA SwapStep == ASSUME IInv, Swap PROVE IInv'
<1> DEFINE todo == {d \in Devices : known[d] # Nil}
<1>1. PICK order \in Orders :
         live' = Engine(reload.next, Entries(reload.next.devices, base.devices), order)
  BY DEF Swap
<1>2. /\ reload.pc = "swap" /\ reload' = [reload EXCEPT !.pc = "apply", !.todo = todo]
      /\ UNCHANGED <<file, known, remote, local, published, heeded, base, status, pending, alive, applied>>
  BY DEF Swap, Reloading
<1> HIDE DEF todo
<1>3. /\ IsReload(reload) /\ NextOfFile(reload) /\ HasClasses(reload.next) /\ HasGap(reload.next)
      /\ HasDevices(Entries(reload.next.devices, base.devices))
      /\ Kept /\ Recorded /\ Crash /\ TypeOK
  BY <1>2 DEF IInv, TypeOK, IsReload, NextOfFile, Progress
<1>4. /\ live' = [config |-> live'.config, resolver |-> live'.resolver]
      /\ live'.config = reload.next
      /\ live'.resolver.devices = Entries(reload.next.devices, base.devices)
  BY <1>1, DevicesOfResolver DEF Engine
<1>5. reload' = [pc |-> "apply", next |-> reload.next, doc |-> reload.doc, todo |-> todo]
  BY <1>2, <1>3 DEF IsReload
<1>6. IsReload(reload') /\ reload'.pc = "apply" /\ reload'.next = reload.next
  BY <1>5, ReloadRecord
<1>7. Progress'
  BY <1>2, <1>3, <1>4, <1>6 DEF Progress, Built, HasClasses, HasDevices, HasGap, Document, ClassesOf
<1>8. TypeOK'
  BY <1>2, <1>3, <1>4, <1>6 DEF TypeOK, NextOfFile, IsReload, IsConfig, IsRef
<1>9. Kept' /\ Recorded' /\ Crash'
  BY <1>2, <1>3 DEF Kept, Recorded, Crash
<1> QED
  BY <1>7, <1>8, <1>9 DEF IInv

-----------------------------------------------------------------------------
LEMMA NextOK == IInv /\ [Next]_vars => IInv'
<1> SUFFICES ASSUME IInv, [Next]_vars PROVE IInv'
  OBVIOUS
<1> QED
  BY Stutters, TokenFailsStep, FailsStep, ClassesArriveStep, WriteClassStep, DevicesArriveStep,
     BehaviourArrivesStep, SwapStep DEF Next, ReloadStep

(* Configurations, maps, outcomes and the reload in progress keep their    *)
(* types, and configurations share a map with the file just when it has    *)
(* one.                                                                    *)
THEOREM TypeCorrect == Spec => []TypeOK
<1>1. IInv => TypeOK
  BY DEF IInv
<1> QED
  BY <1>1, InitOK, NextOK, PTL DEF Spec

(* Whatever fails and whatever a section of the file shares with it, the   *)
(* engine runs on the last documents laid over the file.                   *)
THEOREM AlwaysLayered == Spec => []Layered
<1>1. IInv => Layered
  <2> SUFFICES ASSUME IInv, Built PROVE
        /\ Over(ClassesOf(live.config), Document("classes"))
        /\ Over(live.resolver.devices, Document("devices"))
        /\ file.classes = NoMap => ClassesOf(live.config) = Document("classes")
        /\ file.devices = NoMap => live.resolver.devices = Document("devices")
        /\ DOMAIN EntriesOf(file.classes) \subseteq DOMAIN ClassesOf(live.config)
        /\ HasGap(live.config)
    BY DEF Layered, HasGap
  <2>1. HasClasses(live.config) /\ HasDevices(live.resolver.devices) /\ HasGap(live.config)
    BY DEF IInv, Progress
  <2>2. DOMAIN EntriesOf(file.classes) \subseteq DOMAIN ClassesOf(live.config)
    <3>1. CASE file.classes = NoMap
      BY <3>1 DEF EntriesOf, Empty
    <3>2. CASE file.classes # NoMap
      BY <3>2 DEF IInv, TypeOK, Kept, ClassesOf, Entries
    <3> QED
      BY <3>1, <3>2
  <2> QED
    BY <2>1, <2>2 DEF HasClasses, HasDevices
<1> QED
  BY <1>1, InitOK, NextOK, PTL DEF Spec

(* What /healthz says of a namespace is what became of it.                 *)
THEOREM HealthTruthful == Spec => []StatusTruthful
<1>1. IInv => StatusTruthful
  BY DEF IInv, Recorded, StatusTruthful
<1> QED
  BY <1>1, InitOK, NextOK, PTL DEF Spec

(* The unlocked write into a map that readers hold, which can kill the     *)
(* process, happens only where the file has a device_classes section.      *)
THEOREM CrashConfined == Spec => []CrashNeedsSharedClasses
<1>1. IInv => CrashNeedsSharedClasses
  BY DEF IInv, Crash, CrashNeedsSharedClasses
<1> QED
  BY <1>1, InitOK, NextOK, PTL DEF Spec

-----------------------------------------------------------------------------
(* The namespaces that the present reload, or the last one that ended, has *)
(* asked for.                                                              *)
Fetched ==
    CASE reload.pc \in {"token", "classes"} -> {}
      [] reload.pc \in {"write", "devices"} -> {"classes"}
      [] reload.pc = "behaviour"            -> {"classes", "devices"}
      [] OTHER                              -> Namespaces

(* If the service has not changed since the last signal and no signal      *)
(* waits, these hold what the service holds, or could not be had.          *)
Current == heeded /\ ~pending => \A ns \in Fetched : applied[ns] \in {remote[ns], NoMap}

LEMMA CurrentOK ==
    /\ Init => Current
    /\ IInv /\ Current /\ [Next]_vars => Current'
<1>1. Init => Current
  <2> SUFFICES ASSUME Init PROVE \A ns \in Fetched : applied[ns] \in {remote[ns], NoMap}
    BY DEF Current
  <2>1. \A ns \in Namespaces : applied[ns] \in {remote[ns], NoMap}
    BY DEF Init, Boots, All
  <2>2. Fetched \subseteq Namespaces
    BY NamespaceNames DEF Fetched
  <2> QED
    BY <2>1, <2>2
<1> SUFFICES ASSUME IInv, Current, [Next]_vars PROVE Current'
  BY <1>1
<1>2. /\ IsReload(reload)
      /\ applied = [ns \in Namespaces |-> applied[ns]]
  BY DEF IInv, TypeOK, IsReload
<1>3. ASSUME UNCHANGED <<remote, applied, pending, heeded>>, reload'.pc = reload.pc
      PROVE  Current'
  BY <1>3 DEF Current, Fetched
<1>4. CASE Publish \/ Sighup
  BY <1>4 DEF Publish, Sighup, Current
<1>5. CASE Take
  <2>1. reload'.pc = "token"
    BY <1>5 DEF Take, Reloading, NotReloading
  <2> QED
    BY <2>1 DEF Current, Fetched
<1>6. CASE TokenArrives
  <2>1. reload'.pc = "classes"
    BY <1>2, <1>6 DEF TokenArrives, Reloading, IsReload
  <2> QED
    BY <2>1 DEF Current, Fetched
<1>7. CASE TokenFails
  BY <1>7, NamespaceNames DEF TokenFails, Reloading, All, Current, Fetched
<1>8. ASSUME NEW ns \in Namespaces, UNCHANGED <<remote, pending, heeded>>,
             applied' = [applied EXCEPT ![ns] = remote[ns]] \/ applied' = [applied EXCEPT ![ns] = NoMap],
             Fetched' \subseteq Fetched \union {ns}, Fetched \subseteq Namespaces
      PROVE  Current'
  <2>1. applied'[ns] \in {remote[ns], NoMap}
        /\ \A n \in Namespaces \ {ns} : applied'[n] = applied[n]
    BY <1>2, <1>8
  <2> QED
    BY <1>8, <2>1 DEF Current
<1>9. CASE ClassesArrive \/ Fails("classes", "devices")
  <2>1. reload.pc = "classes" /\ reload'.pc \in {"write", "devices"}
    BY <1>2, <1>9 DEF ClassesArrive, Succeeds, Fails, Reloading, IsReload
  <2>2. Fetched' \subseteq Fetched \union {"classes"} /\ Fetched \subseteq Namespaces
    BY <2>1 DEF Fetched
  <2> QED
    BY <1>8, <1>9, <2>2, NamespaceNames DEF ClassesArrive, Succeeds, Fails, Reloading
<1>10. CASE \E k \in DOMAIN reload.doc : WriteClass(k)
  <2>1. reload.pc = "write" /\ reload'.pc \in {"write", "devices"}
        /\ UNCHANGED <<remote, applied, pending, heeded>>
    BY <1>2, <1>10 DEF WriteClass, Reloading, IsReload
  <2> QED
    BY <2>1 DEF Current, Fetched
<1>11. CASE DevicesArrive \/ Fails("devices", "behaviour")
  <2>1. reload.pc = "devices" /\ reload'.pc = "behaviour"
    BY <1>2, <1>11 DEF DevicesArrive, Succeeds, Fails, Reloading, IsReload
  <2>2. Fetched' \subseteq Fetched \union {"devices"} /\ Fetched \subseteq Namespaces
    BY <2>1, NamespaceNames DEF Fetched
  <2> QED
    BY <1>8, <1>11, <2>2, NamespaceNames DEF DevicesArrive, Succeeds, Fails, Reloading
<1>12. CASE BehaviourArrives \/ Fails("behaviour", "swap")
  <2>1. reload.pc = "behaviour" /\ reload'.pc = "swap"
    BY <1>2, <1>12 DEF BehaviourArrives, Succeeds, Fails, Reloading, IsReload
  <2>2. Fetched' \subseteq Fetched \union {"behaviour"} /\ Fetched \subseteq Namespaces
    BY <2>1 DEF Fetched, Namespaces
  <2> QED
    BY <1>8, <1>12, <2>2, NamespaceNames DEF BehaviourArrives, Succeeds, Fails, Reloading
<1>13. CASE Swap
  <2>1. reload.pc = "swap" /\ reload'.pc = "apply" /\ UNCHANGED <<remote, applied, pending, heeded>>
    BY <1>2, <1>13 DEF Swap, Reloading, IsReload
  <2> QED
    BY <2>1 DEF Current, Fetched
<1>14. CASE ReloadEnds
  <2>1. reload.pc = "apply" /\ reload'.pc = "idle" /\ UNCHANGED <<remote, applied, pending, heeded>>
    BY <1>14 DEF ReloadEnds, Reloading, NotReloading
  <2> QED
    BY <2>1 DEF Current, Fetched
<1>15. CASE \E d \in Devices : Rediscover(d)
  BY <1>2, <1>3, <1>15 DEF Rediscover, Elsewhere, IsReload
<1>16. CASE \/ \E h \in Handlers, d \in Devices : DeviceSpeaks(h, d)
            \/ \E w \in Workers : Run(w)
  BY <1>3, <1>16 DEF DeviceSpeaks, Run, Resolves, Enter, Elsewhere
<1>17. CASE UNCHANGED vars
  BY <1>3, <1>17 DEF vars
<1> QED
  BY <1>4, <1>5, <1>6, <1>7, <1>9, <1>10, <1>11, <1>12, <1>13, <1>14, <1>15, <1>16, <1>17
  DEF Next, ReloadStep

(* Unless the service has changed again since the last signal, an engine   *)
(* that no reload is at work on, and that no signal waits for, runs on     *)
(* what the service holds, but for the namespaces that could not be had: a *)
(* signal that came during a reload, when some namespaces had been fetched *)
(* already, is not taken for served by that reload.                        *)
THEOREM HeededAtRest == Spec => [](Built /\ heeded /\ ~pending => Reflects)
<1>1. IInv /\ Current /\ Layered => (Built /\ heeded /\ ~pending => Reflects)
  BY NamespaceNames DEF Current, Fetched, Built, Reflects
<1> QED
  BY <1>1, InitOK, NextOK, CurrentOK, AlwaysLayered, PTL DEF Spec

-----------------------------------------------------------------------------
(* The order in which the runtime iterates over the devices map.           *)

DistinctKeys(devices) ==
    \A a, b \in DOMAIN devices : a # b =>
        /\ PrimaryKey(devices[a]) = Nil \/ PrimaryKey(devices[a]) # PrimaryKey(devices[b])
        /\ DisplayKey(devices[a]) = Nil \/ DisplayKey(devices[a]) # DisplayKey(devices[b])

LEMMA EngineResolver ==
    ASSUME NEW config, NEW devices, NEW order, NEW engine, engine = Engine(config, devices, order)
    PROVE  engine.resolver = NewResolver(engine.resolver.devices, order)
<1>1. engine.resolver = NewResolver(devices, order)
  BY DEF Engine
<1> QED
  BY <1>1, DevicesOfResolver

LEMMA LastOfOne ==
    ASSUME NEW ids, \A a, b \in ids : a = b, NEW o1, NEW o2
    PROVE  LastOf(ids, o1) = LastOf(ids, o2)
<1>1. CASE ids = {}
  BY <1>1 DEF LastOf
<1>2. CASE ids # {}
  <2>1. PICK id : ids = {id}
    BY <1>2
  <2>2. ASSUME NEW o PROVE LastOf(ids, o) = id
    <3>1. \A other \in ids \ {id} : o[other] < o[id]
      BY <2>1
    <3> QED
      BY <1>2, <2>1, <3>1 DEF LastOf
  <2> QED
    BY <2>2
<1> QED
  BY <1>1, <1>2

LEMMA OrderOnlyForTwins ==
    ASSUME NEW devices, DistinctKeys(devices), NEW o1, NEW o2
    PROVE  NewResolver(devices, o1) = NewResolver(devices, o2)
<1> DEFINE primaries(key) == {id \in DOMAIN devices : key # Nil /\ PrimaryKey(devices[id]) = key}
           displays(key)  == {id \in DOMAIN devices : key # Nil /\ DisplayKey(devices[id]) = key}
<1>1. \A key : LastOf(primaries(key), o1) = LastOf(primaries(key), o2)
  BY LastOfOne, Zenon DEF DistinctKeys
<1>2. \A key : LastOf(displays(key), o1) = LastOf(displays(key), o2)
  BY LastOfOne, Zenon DEF DistinctKeys
<1> QED
  BY <1>1, <1>2 DEF NewResolver

(* The engine's resolver was built from the devices it knows, in some      *)
(* order.                                                                  *)
Resolved == \E order \in Orders : live.resolver = NewResolver(live.resolver.devices, order)

LEMMA InitResolver == Init => Resolved
<1> SUFFICES ASSUME Init PROVE Resolved
  OBVIOUS
<1>1. PICK f \in Locals, docs \in Remotes, reached \in BOOLEAN, order \in Orders :
         Boots(f, docs, reached, order)
  BY DEF Init
<1>2. \E config, devices : live = Engine(config, devices, order)
  BY <1>1, Zenon DEF Boots
<1> QED
  BY <1>2, EngineResolver DEF Resolved

LEMMA NextResolver == Resolved /\ [Next]_vars => Resolved'
<1> SUFFICES ASSUME Resolved, [Next]_vars PROVE Resolved'
  OBVIOUS
<1>1. CASE Swap
  <2>1. PICK order \in Orders :
           live' = Engine(reload.next, Entries(reload.next.devices, base.devices), order)
    BY <1>1 DEF Swap
  <2> QED
    BY <2>1, EngineResolver DEF Resolved
<1>2. CASE UNCHANGED live
  BY <1>2 DEF Resolved
<1>3. Swap \/ UNCHANGED live
  BY DEF Next, ReloadStep, Publish, Sighup, Take, TokenArrives, TokenFails, ClassesArrive, Fails,
     Succeeds, WriteClass, DevicesArrive, BehaviourArrives, Rediscover, ReloadEnds, DeviceSpeaks,
     Run, Resolves, Enter, Reloading, Elsewhere, vars
<1> QED
  BY <1>1, <1>2, <1>3

(* Unless two entries of the devices map share a key, the resolver does    *)
(* not depend on the order in which the runtime iterates over the map: the *)
(* same configuration gives a device the same profile at every boot and    *)
(* after every reload.                                                     *)
THEOREM OrderIrrelevant ==
    Spec => [](DistinctKeys(live.resolver.devices) =>
                  \A order \in Orders : live.resolver = NewResolver(live.resolver.devices, order))
<1>1. Resolved => (DistinctKeys(live.resolver.devices) =>
        \A order \in Orders : live.resolver = NewResolver(live.resolver.devices, order))
  BY OrderOnlyForTwins DEF Resolved
<1> QED
  BY <1>1, InitResolver, NextResolver, PTL DEF Spec

=============================================================================
