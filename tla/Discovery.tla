------------------------------- MODULE Discovery -------------------------------
(***************************************************************************)
(* How devices come to be known: zigbee2mqtt names its devices, the        *)
(* adapter keeps the address book it learned from bridge/devices, and      *)
(* Engine.EnsureDiscovered merges what it is told into the store.  The     *)
(* MQTT client delivers every message on a goroutine of its own, and a     *)
(* reload re-discovers every device, so handlers interleave at every lock. *)
(*                                                                         *)
(* One action is one critical section; what a handler read in an earlier   *)
(* section it keeps, stale or not, in its local state.                     *)
(***************************************************************************)
EXTENDS DeviceStore, Naturals, FiniteSets

CONSTANTS
    Handlers,        \* goroutines that may handle a message
    Addresses,       \* the IEEE addresses, a subset of Names
    ClassOf,         \* the class the resolver gives an identity
    ConfiguredId,    \* the id configured for an identity, or Nil
    MaxMessages,     \* bound: messages and reloads handled, with and without overlap
    MaxNamings       \* bound: pairings, renames and removals in zigbee2mqtt, likewise

ASSUME DiscoveryConstants ==
    /\ Addresses \subseteq Names
    /\ ClassOf \in [Identity -> Classes]
    /\ ConfiguredId \in [Identity -> Names \union {Nil}]
    /\ MaxMessages \in [BOOLEAN -> Nat] /\ MaxNamings \in [BOOLEAN -> Nat]

VARIABLES
    store,     \* the state store
    ieeeByFN,  \* the adapter's address book: friendly name to address
    naming,    \* zigbee2mqtt's own naming of its paired devices
    local,     \* each handler's local state
    budget     \* messages and namings so far, whether two messages ever overlapped, and
               \* the names given so far (Nil once a name had to serve two)

vars == <<store, ieeeByFN, naming, local, budget>>

NoNames == [n \in Names |-> Nil]

\* A handler between messages.
AnyName == CHOOSE n \in Names : TRUE
Idle == [pc |-> "idle", todo |-> {}, reads |-> FALSE,
         who |-> [primary |-> AnyName, display |-> AnyName], id |-> AnyName,
         rt |-> Nil, oldDisplay |-> Nil, wasPhantom |-> FALSE]

Init ==
    /\ store = EmptyStore
    /\ ieeeByFN = NoNames
    /\ naming = [a \in Addresses |-> Nil]
    /\ local = [h \in Handlers |-> Idle]
    /\ budget = [messages |-> 0, namings |-> 0, overlapped |-> FALSE, given |-> {}]

-----------------------------------------------------------------------------
(* zigbee2mqtt: pair (under the address itself, or a name), rename, remove. *)

\* A name serves two once it is given again, or is configured as the id of another
\* device, or of this one when it has had another name.
ServesTwo(a, n) ==
    \/ \E g \in budget.given : g.name = n
    \/ \E who \in Identity :
          ConfiguredId[who] = n /\ (who.primary # a \/ \E g \in budget.given : g.to = a)

Z2MNames(a, n) ==
    /\ budget.namings < MaxNamings[budget.overlapped]
    /\ n = Nil \/ n = a \/ n \notin Addresses
    /\ n # naming[a]
    /\ n = Nil \/ \A other \in Addresses : naming[other] # n
    /\ naming' = [naming EXCEPT ![a] = n]
    /\ budget' = [budget EXCEPT !.namings = budget.namings + 1,
                              !.given = IF budget.given = Nil \/ n = Nil THEN budget.given
                                        ELSE IF ServesTwo(a, n) THEN Nil
                                        ELSE budget.given \union {[name |-> n, to |-> a]}]
    /\ UNCHANGED <<store, ieeeByFN, local>>

Paired == {a \in Addresses : naming[a] # Nil}

\* The adapter's identityFor: the friendly name stands in for an unknown address.
IdentityFor(n) ==
    [primary |-> IF ieeeByFN[n] = Nil THEN n ELSE ieeeByFN[n], display |-> n]

-----------------------------------------------------------------------------
(* A message arrives on an idle handler.                                   *)

Overlaps == budget.overlapped \/ \E h \in Handlers : local[h].pc # "idle"

Accept(h, pc, todo, reads) ==
    /\ local[h].pc = "idle"
    /\ budget.messages < MaxMessages[Overlaps]
    /\ budget.namings <= MaxNamings[Overlaps]
    /\ local' = [local EXCEPT ![h] = [Idle EXCEPT !.pc = pc, !.todo = todo, !.reads = reads]]
    /\ budget' = [budget EXCEPT !.messages = budget.messages + 1, !.overlapped = Overlaps]
    /\ UNCHANGED <<store, ieeeByFN, naming>>

\* bridge/devices: the complete naming, as it is when published.
OnBridgeDevices(h) ==
    Accept(h, "learn", {[primary |-> a, display |-> naming[a]] : a \in Paired}, FALSE)

\* A device's own message: a reading, or (reads = FALSE) an availability.
OnDeviceMessage(h, a, reads) ==
    /\ naming[a] # Nil
    /\ Accept(h, "next", {IdentityFor(naming[a])}, reads)

\* ReloadConfig: every known device, by the identity the snapshot shows.
OnReload(h) ==
    LET known == {n \in Names : store.dev[n] # Nil}
    IN  Accept(h, "next", {[primary |-> store.dev[n].primary,
                            display |-> store.dev[n].display] : n \in known}, FALSE)

-----------------------------------------------------------------------------
(* The handler's sections.                                                 *)

Step(h, from, next) ==
    /\ local[h].pc = from
    /\ local' = [local EXCEPT ![h] = next]
    /\ UNCHANGED <<naming, budget>>

\* handleBridgeDevices swaps the whole address book in.
LearnAddresses(h) ==
    /\ Step(h, "learn", [local[h] EXCEPT !.pc = "next"])
    /\ ieeeByFN' = [n \in Names |->
          IF \E who \in local[h].todo : who.display = n
          THEN (CHOOSE who \in local[h].todo : who.display = n).primary ELSE Nil]
    /\ UNCHANGED store

\* The next identity to discover: LookupID, else the configured or derived id.
LookUp(h) ==
    \/ \E who \in local[h].todo :
         LET found == LookupID(store, who)
             id    == IF found # Nil THEN found
                      ELSE IF ConfiguredId[who] # Nil THEN ConfiguredId[who]
                      ELSE who.display
         IN  /\ Step(h, "next", [local[h] EXCEPT !.pc = "get", !.todo = local[h].todo \ {who},
                                                 !.who = who, !.id = id])
             /\ UNCHANGED <<store, ieeeByFN>>
    \/ /\ local[h].todo = {}
       /\ Step(h, "next", Idle)
       /\ UNCHANGED <<store, ieeeByFN>>

\* Whether the device exists decides the branch, for good.
GetDevice(h) ==
    /\ Step(h, "get", [local[h] EXCEPT !.pc = IF store.dev[local[h].id] = Nil
                                              THEN "create" ELSE "adopt"])
    /\ UNCHANGED <<store, ieeeByFN>>

Ensured(h) == [local[h] EXCEPT !.pc = IF local[h].reads THEN "ingest" ELSE "next",
                               !.rt = Nil, !.oldDisplay = Nil, !.wasPhantom = FALSE]

Create(h) ==
    /\ Step(h, "create", Ensured(h))
    /\ store' = Upsert(store, local[h].id, local[h].who,
                       FreshRuntime(ClassOf[local[h].who]))
    /\ UNCHANGED ieeeByFN

\* The first withEntry: keep or replace the runtime, note what is being merged.
Adopt(h) ==
    LET me    == local[h]
        entry == store.dev[me.id]
        class == ClassOf[me.who]
        rt    == IF entry.rt # Nil /\ entry.rt.class = class
                 THEN entry.rt ELSE FreshRuntime(class)
    IN  /\ Step(h, "adopt",
             IF entry = Nil
             THEN [me EXCEPT !.pc = "merge"]
             ELSE [me EXCEPT !.pc = "merge", !.rt = rt, !.oldDisplay = entry.display,
                             !.wasPhantom = Phantom(entry) /\ ~Phantom(me.who)])
        /\ store' = WithEntry(store, me.id, [entry EXCEPT !.rt = rt])
        /\ UNCHANGED ieeeByFN

Merge(h) ==
    LET me == local[h] IN
    /\ Step(h, "merge",
         IF me.oldDisplay \notin {Nil, me.who.display} THEN [me EXCEPT !.pc = "rename"]
         ELSE IF me.wasPhantom THEN [me EXCEPT !.pc = "purge"]
         ELSE Ensured(h))
    /\ store' = Upsert(store, me.id, me.who, me.rt)
    /\ UNCHANGED ieeeByFN

RenameDevice(h) ==
    LET me == local[h] IN
    /\ Step(h, "rename", IF me.wasPhantom THEN [me EXCEPT !.pc = "purge"] ELSE Ensured(h))
    /\ store' = Rename(store, me.id, me.oldDisplay, me.who.display)
    /\ UNCHANGED ieeeByFN

\* A phantom that turned out to be a real device loses its published activity.
Purge(h) ==
    /\ Step(h, "purge", Ensured(h))
    /\ store' = WithEntry(store, local[h].id, [store.dev[local[h].id] EXCEPT !.shown = "none"])
    /\ UNCHANGED ieeeByFN

\* The reading reaches the runtime.  It either moves the activity, which is then
\* published, or leaves it, and what is published only catches up from unknown.
\* An entry without a runtime is a nil dereference.
Ingest(h) ==
    LET me      == local[h]
        entry   == store.dev[me.id]
        origin  == IF Phantom(me.who) THEN "phantom" ELSE "real"
        Moved   == [entry EXCEPT !.rt = [entry.rt EXCEPT !.activity = origin], !.shown = origin]
        Kept    == [entry EXCEPT !.shown = IF entry.shown = "none" THEN entry.rt.activity
                                                                  ELSE entry.shown]
        panics  == entry # Nil /\ entry.rt = Nil
    IN  /\ Step(h, "ingest", [me EXCEPT !.pc = IF panics THEN "panicked" ELSE "next",
                                        !.reads = FALSE])
        /\ IF entry = Nil \/ panics
           THEN store' = store
           ELSE \E new \in {Moved, Kept} : store' = WithEntry(store, me.id, new)
        /\ UNCHANGED ieeeByFN

Run(h) ==
    \/ LearnAddresses(h) \/ LookUp(h) \/ GetDevice(h) \/ Create(h) \/ Adopt(h)
    \/ Merge(h) \/ RenameDevice(h) \/ Purge(h) \/ Ingest(h)

\* A panic on any goroutine ends the process.
Alive == \A h \in Handlers : local[h].pc # "panicked"

Next ==
  /\ Alive
  /\ \/ \E a \in Addresses, n \in Names \union {Nil} : Z2MNames(a, n)
     \/ \E h \in Handlers :
          \/ OnBridgeDevices(h)
          \/ \E a \in Addresses, reads \in BOOLEAN : OnDeviceMessage(h, a, reads)
          \/ OnReload(h)
          \/ Run(h)

Spec == Init /\ [][Next]_vars

-----------------------------------------------------------------------------
(* Properties.                                                             *)

Pcs == {"idle", "learn", "next", "get", "create", "adopt", "merge", "rename",
        "purge", "ingest", "panicked"}

Local == [pc : Pcs, todo : SUBSET Identity, reads : BOOLEAN, who : Identity,
          id : Names, rt : Runtime \union {Nil},
          oldDisplay : Names \union {Nil}, wasPhantom : BOOLEAN]

Budgets == [messages : Nat, namings : Nat, overlapped : BOOLEAN,
            given : (SUBSET [name : Names, to : Addresses]) \union {Nil}]

TypeOK ==
    /\ store \in Store
    /\ ieeeByFN \in [Names -> Names \union {Nil}]
    /\ naming \in [Addresses -> Names \union {Nil}]
    /\ local \in [Handlers -> Local]
    /\ budget \in Budgets

Known == {n \in Names : store.dev[n] # Nil}
Quiet == \A h \in Handlers : local[h].pc = "idle"

PrimarySound(s) ==
    \A p \in Names : LET id == s.byPrimary[p] IN
        id # Nil => s.dev[id] # Nil /\ s.dev[id].primary = p

\* However handlers interleave, the primary index never points at a device
\* that is gone or that now carries another key.
PrimaryIndexSound == PrimarySound(store)

\* As long as messages have been handled one at a time, every device has a
\* runtime between messages, is found under its own primary key - so no two share one - and no
\* display name leads to a device that has since taken another.
StoreConsistent ==
    Quiet /\ ~budget.overlapped =>
        /\ \A n \in Known : /\ store.dev[n].rt # Nil
                             /\ store.byPrimary[store.dev[n].primary] = n
        /\ \A d \in Names : LET id == store.byDisplay[d] IN
              id # Nil => id \in Known /\ store.dev[id].display = d

=============================================================================
