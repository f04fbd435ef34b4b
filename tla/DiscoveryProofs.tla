---------------------------- MODULE DiscoveryProofs ----------------------------
(***************************************************************************)
(* Proofs about Discovery for any number of handlers, names and addresses, *)
(* any class and id configuration and any bounds.                          *)
(***************************************************************************)
EXTENDS Discovery, TLAPS

-----------------------------------------------------------------------------
(* Each critical section keeps the store typed and its primary index sound. *)

\* The devices other than id that a store up lacks and the store s had.
Lost(s, up, id) == {n \in Names \ {id} : s.dev[n] # Nil /\ up.dev[n] = Nil}

\* What Upsert leaves under every device and every key.  At most one device is
\* lost, a phantom that held the display name, with the primary key it had.
LEMMA UpsertFields ==
    ASSUME NEW s \in Store, NEW id \in Names, NEW who \in Identity,
           NEW rt \in Runtime \union {Nil}
    PROVE  LET up  == Upsert(s, id, who, rt)
               old == s.dev[id]
           IN  /\ up \in Store
               /\ up.dev[id] \in Entry
               /\ up.dev[id].primary = who.primary /\ up.dev[id].display = who.display
               /\ up.dev[id].rt = IF old = Nil THEN rt ELSE old.rt
               /\ \A n \in Names \ {id} : n \notin Lost(s, up, id) => up.dev[n] = s.dev[n]
               /\ \A n \in Lost(s, up, id) : n = s.byDisplay[who.display] /\ Phantom(s.dev[n])
               /\ \A p \in Names :
                     up.byPrimary[p] = IF \E n \in Lost(s, up, id) : s.dev[n].primary = p THEN Nil
                                       ELSE IF p = who.primary THEN id
                                       ELSE IF old # Nil /\ p = old.primary THEN Nil
                                       ELSE s.byPrimary[p]
               /\ \A d \in Names :
                     up.byDisplay[d] = IF d = who.display THEN id
                                       ELSE IF old # Nil /\ d = old.display THEN Nil
                                       ELSE s.byDisplay[d]
<1> DEFINE old       == s.dev[id]
           entry     == IF old = Nil
                        THEN [primary |-> who.primary, display |-> who.display,
                              rt |-> rt, shown |-> "none"]
                        ELSE [old EXCEPT !.primary = who.primary, !.display = who.display]
           primaries == IF old = Nil THEN s.byPrimary
                                     ELSE Released(s.byPrimary, old.primary, who.primary)
           displays  == IF old = Nil THEN s.byDisplay
                                     ELSE Released(s.byDisplay, old.display, who.display)
           holder    == displays[who.display]
           orphaned  == Orphan(s, holder, id)
           installed == [s.dev EXCEPT ![id] = entry]
           indexed   == [primaries EXCEPT ![who.primary] = id]
           dev       == IF orphaned THEN Dropped(installed, holder) ELSE installed
           byPrimary == IF orphaned THEN Dropped(indexed, s.dev[holder].primary) ELSE indexed
           byDisplay == [displays EXCEPT ![who.display] = id]
<1>1. /\ s.dev \in [Names -> Entry \union {Nil}]
      /\ s.byPrimary \in [Names -> Names \union {Nil}]
      /\ s.byDisplay \in [Names -> Names \union {Nil}]
      /\ who.primary \in Names /\ who.display \in Names
      /\ Nil \notin Names /\ Nil \notin Entry
  BY NamesAndNil DEF Store, Identity
<1>2. old = Nil \/ (old \in Entry /\ old.primary \in Names /\ old.display \in Names)
  BY <1>1 DEF Entry
<1>3. /\ entry \in Entry /\ entry # Nil
      /\ entry.primary = who.primary /\ entry.display = who.display
      /\ entry.rt = IF old = Nil THEN rt ELSE old.rt
  <2>1. CASE old = Nil
    BY <1>1, <2>1 DEF Entry, Origins
  <2>2. CASE old # Nil
    <3>1. old \in Entry
      BY <1>2, <2>2
    <3>2. entry = [old EXCEPT !.primary = who.primary, !.display = who.display]
      BY <2>2
    <3> HIDE DEF entry, old
    <3>3. /\ entry \in Entry /\ entry.primary = who.primary
          /\ entry.display = who.display /\ entry.rt = old.rt
      <4>1. who.primary \in Names /\ who.display \in Names
        BY <1>1
      <4>2. QED
        BY <3>1, <3>2, <4>1, Zenon DEF Entry
    <3>4. QED
      BY <1>1, <2>2, <3>3
  <2>3. QED
    BY <2>1, <2>2
<1>4. /\ primaries \in [Names -> Names \union {Nil}]
      /\ \A p \in Names \ {who.primary} :
            primaries[p] = IF old # Nil /\ p = old.primary THEN Nil ELSE s.byPrimary[p]
  BY <1>1, <1>2 DEF Dropped, Released
<1>5. /\ displays \in [Names -> Names \union {Nil}]
      /\ \A d \in Names \ {who.display} :
            displays[d] = IF old # Nil /\ d = old.display THEN Nil ELSE s.byDisplay[d]
      /\ holder = s.byDisplay[who.display] /\ holder \in Names \union {Nil}
  BY <1>1, <1>2 DEF Dropped, Released
<1> HIDE DEF entry, primaries, displays
<1>6. /\ installed \in [Names -> Entry \union {Nil}]
      /\ installed[id] = entry
      /\ \A n \in Names \ {id} : installed[n] = s.dev[n]
  BY <1>1, <1>3
<1>7. /\ indexed \in [Names -> Names \union {Nil}]
      /\ indexed[who.primary] = id
      /\ \A p \in Names \ {who.primary} : indexed[p] = primaries[p]
  BY <1>1, <1>4
<1>8. /\ byDisplay \in [Names -> Names \union {Nil}]
      /\ byDisplay[who.display] = id
      /\ \A d \in Names \ {who.display} : byDisplay[d] = displays[d]
  BY <1>1, <1>5
<1> HIDE DEF installed, indexed, holder, byDisplay
<1>9. orphaned => /\ holder \in Names \ {id} /\ s.dev[holder] \in Entry
                  /\ s.dev[holder].primary \in Names
                  /\ s.dev[holder] # Nil /\ Phantom(s.dev[holder])
  BY <1>1, <1>5 DEF Entry, Orphan
<1> HIDE DEF orphaned
<1>10. /\ dev \in [Names -> Entry \union {Nil}]
       /\ \A n \in Names : dev[n] = IF orphaned /\ n = holder THEN Nil ELSE installed[n]
  BY <1>6, <1>9 DEF Dropped
<1>11. /\ byPrimary \in [Names -> Names \union {Nil}]
       /\ \A p \in Names : byPrimary[p] = IF orphaned /\ p = s.dev[holder].primary
                                          THEN Nil ELSE indexed[p]
  BY <1>7, <1>9 DEF Dropped
<1>12. Upsert(s, id, who, rt) = [dev |-> dev, byPrimary |-> byPrimary, byDisplay |-> byDisplay]
  BY DEF Upsert, entry, primaries, displays, holder, orphaned, installed, indexed, byDisplay
<1> DEFINE up == Upsert(s, id, who, rt)
<1>13. up.dev = dev /\ up.byPrimary = byPrimary /\ up.byDisplay = byDisplay /\ up \in Store
  BY <1>8, <1>10, <1>11, <1>12 DEF Store
<1> HIDE DEF up, dev, byPrimary
<1>14. \A n \in Names : n \in Lost(s, up, id) <=> orphaned /\ n = holder
  BY <1>6, <1>9, <1>10, <1>13 DEF Lost
<1>15. Lost(s, up, id) \subseteq Names
  BY DEF Lost
<1>16. /\ \A n \in Names \ {id} : n \notin Lost(s, up, id) => up.dev[n] = s.dev[n]
       /\ \A n \in Lost(s, up, id) : n = s.byDisplay[who.display] /\ Phantom(s.dev[n])
  BY <1>5, <1>6, <1>9, <1>10, <1>13, <1>14, <1>15
<1>17. up.dev[id] = entry
  BY <1>6, <1>9, <1>10, <1>13
<1>18. ASSUME NEW p \in Names
       PROVE  up.byPrimary[p] = IF \E n \in Lost(s, up, id) : s.dev[n].primary = p THEN Nil
                                ELSE IF p = who.primary THEN id
                                ELSE IF old # Nil /\ p = old.primary THEN Nil
                                ELSE s.byPrimary[p]
  <2>1. (\E n \in Lost(s, up, id) : s.dev[n].primary = p) <=> orphaned /\ p = s.dev[holder].primary
    BY <1>9, <1>14, <1>15
  <2>2. indexed[p] = IF p = who.primary THEN id
                     ELSE IF old # Nil /\ p = old.primary THEN Nil ELSE s.byPrimary[p]
    BY <1>4, <1>7
  <2>3. QED
    BY <1>11, <1>13, <2>1, <2>2
<1>19. ASSUME NEW d \in Names
       PROVE  up.byDisplay[d] = IF d = who.display THEN id
                                ELSE IF old # Nil /\ d = old.display THEN Nil
                                ELSE s.byDisplay[d]
  BY <1>5, <1>8, <1>13
<1>20. QED
  BY <1>3, <1>13, <1>16, <1>17, <1>18, <1>19 DEF up

\* Upsert keeps the store typed and the primary index sound.
LEMMA UpsertLawful ==
    ASSUME NEW s \in Store, NEW id \in Names, NEW who \in Identity,
           NEW rt \in Runtime \union {Nil}, PrimarySound(s)
    PROVE  /\ Upsert(s, id, who, rt) \in Store
           /\ PrimarySound(Upsert(s, id, who, rt))
<1> DEFINE up  == Upsert(s, id, who, rt)
           old == s.dev[id]
<1>1. /\ up \in Store /\ up.dev[id] \in Entry /\ up.dev[id].primary = who.primary
      /\ \A n \in Names \ {id} : n \notin Lost(s, up, id) => up.dev[n] = s.dev[n]
      /\ \A p \in Names :
            up.byPrimary[p] = IF \E n \in Lost(s, up, id) : s.dev[n].primary = p THEN Nil
                              ELSE IF p = who.primary THEN id
                              ELSE IF old # Nil /\ p = old.primary THEN Nil
                              ELSE s.byPrimary[p]
  BY UpsertFields
<1>2. Nil \notin Entry /\ Nil \notin Names
  BY NamesAndNil
<1> HIDE DEF up
<1>3. ASSUME NEW p \in Names, up.byPrimary[p] # Nil
      PROVE  up.dev[up.byPrimary[p]] # Nil /\ up.dev[up.byPrimary[p]].primary = p
  <2>1. CASE p = who.primary
    BY <1>1, <1>2, <1>3, <2>1
  <2>2. CASE p # who.primary
    <3> DEFINE n == s.byPrimary[p]
    <3>1. /\ up.byPrimary[p] = n /\ n # Nil
          /\ old # Nil => p # old.primary
          /\ \A m \in Lost(s, up, id) : s.dev[m].primary # p
      BY <1>1, <1>3, <2>2
    <3>2. n \in Names /\ s.dev[n] # Nil /\ s.dev[n].primary = p
      BY <3>1 DEF PrimarySound, Store
    <3>3. n # id /\ n \notin Lost(s, up, id)
      BY <3>1, <3>2
    <3>4. QED
      BY <1>1, <3>1, <3>2, <3>3
  <2>3. QED
    BY <2>1, <2>2
<1>4. PrimarySound(up)
  BY <1>3 DEF PrimarySound
<1>5. QED
  BY <1>1, <1>4 DEF up

\* The other sections of the store lock replace one entry and keep its keys.
LEMMA WithEntryLawful ==
    ASSUME NEW s \in Store, NEW id \in Names, NEW new, PrimarySound(s),
           s.dev[id] # Nil => new \in Entry /\ new.primary = s.dev[id].primary
    PROVE  /\ WithEntry(s, id, new) \in Store
           /\ PrimarySound(WithEntry(s, id, new))
<1>1. CASE s.dev[id] = Nil
  BY <1>1 DEF WithEntry
<1>2. CASE s.dev[id] # Nil
  <2> DEFINE t == [s EXCEPT !.dev = [s.dev EXCEPT ![id] = new]]
  <2>1. t = WithEntry(s, id, new)
    BY <1>2 DEF WithEntry
  <2>2. /\ t \in Store /\ t.byPrimary = s.byPrimary
        /\ t.dev[id] = new /\ \A n \in Names \ {id} : t.dev[n] = s.dev[n]
    BY <1>2 DEF Store
  <2>3. new # Nil
    BY <1>2, NamesAndNil
  <2> HIDE DEF t
  <2>4. PrimarySound(t)
    BY <1>2, <2>2, <2>3 DEF PrimarySound, Store
  <2>5. QED
    BY <2>1, <2>2, <2>3, <2>4
<1>3. QED
  BY <1>1, <1>2

LEMMA RenameLawful ==
    ASSUME NEW s \in Store, NEW id \in Names, NEW old \in Names, NEW new \in Names,
           PrimarySound(s)
    PROVE  /\ Rename(s, id, old, new) \in Store
           /\ PrimarySound(Rename(s, id, old, new))
<1>1. CASE s.dev[id] = Nil
  BY <1>1 DEF Rename
<1>2. CASE s.dev[id] # Nil
  <2> DEFINE e == [s.dev[id] EXCEPT !.display = new]
             t == [dev       |-> [s.dev EXCEPT ![id] = e],
                   byPrimary |-> s.byPrimary,
                   byDisplay |-> [Dropped(s.byDisplay, old) EXCEPT ![new] = id]]
  <2>1. t = Rename(s, id, old, new)
    BY <1>2 DEF Rename
  <2>2. e \in Entry /\ e.primary = s.dev[id].primary /\ e # Nil
    BY <1>2, NamesAndNil DEF Store, Entry
  <2>3. t.byDisplay \in [Names -> Names \union {Nil}]
    BY DEF Store, Dropped
  <2> HIDE DEF e
  <2>4. /\ t \in Store /\ t.byPrimary = s.byPrimary
        /\ t.dev[id] = e /\ \A n \in Names \ {id} : t.dev[n] = s.dev[n]
    BY <2>2, <2>3 DEF Store
  <2> HIDE DEF t
  <2>5. PrimarySound(t)
    BY <1>2, <2>2, <2>4 DEF PrimarySound, Store
  <2>6. QED
    BY <2>1, <2>2, <2>4, <2>5
<1>3. QED
  BY <1>1, <1>2

-----------------------------------------------------------------------------
(* The inductive invariant: a handler about to rename knows the old name.  *)

IInv ==
    /\ TypeOK
    /\ PrimaryIndexSound
    /\ \A h \in Handlers : local[h].pc = "rename" => local[h].oldDisplay \in Names

LEMMA IdleTyped == Idle \in Local /\ Idle.pc = "idle"
<1>1. AnyName \in Names
  BY NamesAndNil DEF AnyName
<1>2. QED
  BY <1>1 DEF Idle, Local, Pcs, Identity

LEMMA InitOK == Init => IInv
<1> SUFFICES ASSUME Init PROVE IInv
  OBVIOUS
<1>1. store \in Store /\ PrimaryIndexSound
  BY DEF Init, EmptyStore, Store, PrimaryIndexSound, PrimarySound
<1>2. QED
  BY <1>1, IdleTyped DEF Init, IInv, TypeOK, Budgets, NoNames

\* A handler's step that leaves the store alone.
LEMMA LocalStep ==
    ASSUME IInv, NEW h \in Handlers, NEW me \in Local,
           me.pc = "rename" => me.oldDisplay \in Names,
           local' = [local EXCEPT ![h] = me]
    PROVE  /\ local' \in [Handlers -> Local]
           /\ \A g \in Handlers : local'[g].pc = "rename" => local'[g].oldDisplay \in Names
  BY DEF IInv, TypeOK

\* The identity discovered next, and where the handler goes after discovery.
LEMMA EnsuredTyped ==
    ASSUME IInv, NEW h \in Handlers
    PROVE  Ensured(h) \in Local /\ Ensured(h).pc # "rename"
<1> DEFINE me == local[h]
           next == IF me.reads THEN "ingest" ELSE "next"
<1>1. me \in Local /\ next \in Pcs
  BY DEF IInv, TypeOK, Pcs
<1>2. Ensured(h) = [me EXCEPT !.pc = next, !.rt = Nil, !.oldDisplay = Nil, !.wasPhantom = FALSE]
  BY DEF Ensured
<1> HIDE DEF me
<1>3. next # "rename" /\ Nil \in Runtime \union {Nil} /\ Nil \in Names \union {Nil} /\ FALSE \in BOOLEAN
  OBVIOUS
<1> HIDE DEF next
<1>4. [me EXCEPT !.pc = next, !.rt = Nil, !.oldDisplay = Nil, !.wasPhantom = FALSE] \in Local
  BY <1>1, <1>3, Zenon DEF Local
<1>5. Ensured(h).pc = next
  BY <1>1, <1>2 DEF Local
<1>6. QED
  BY <1>2, <1>3, <1>4, <1>5

-----------------------------------------------------------------------------
(* Every step keeps the invariant and every known real device.             *)

\* A step that leaves handler h with local state me.
LEMMA StepLawful ==
    ASSUME IInv, NEW h \in Handlers, NEW me \in Local,
           me.pc = "rename" => me.oldDisplay \in Names,
           local' = [local EXCEPT ![h] = me],
           store' \in Store, PrimarySound(store'),
           ieeeByFN' \in [Names -> Names \union {Nil}],
           naming' = naming,
           budget' \in Budgets
    PROVE  IInv'
<1>1. /\ local' \in [Handlers -> Local]
      /\ \A g \in Handlers : local'[g].pc = "rename" => local'[g].oldDisplay \in Names
  BY LocalStep
<1>2. naming' \in [Addresses -> Names \union {Nil}]
  BY DEF IInv, TypeOK
<1>3. PrimarySound(store)'
  BY DEF PrimarySound
<1>4. QED
  BY <1>1, <1>2, <1>3 DEF IInv, TypeOK, PrimaryIndexSound

LEMMA AcceptLawful ==
    ASSUME IInv, NEW h \in Handlers, NEW todo \in SUBSET Identity,
           NEW pc \in {"learn", "next"}, NEW reads \in BOOLEAN,
           Accept(h, pc, todo, reads)
    PROVE  IInv'
<1> DEFINE me == [Idle EXCEPT !.pc = pc, !.todo = todo, !.reads = reads]
<1>1. pc \in Pcs /\ pc # "rename"
  BY DEF Pcs
<1>2. me \in Local
  BY <1>1, IdleTyped, Zenon DEF Local
<1>3. me.pc = pc
  BY IdleTyped, Zenon DEF Local
<1> HIDE DEF me
<1>4. local' = [local EXCEPT ![h] = me] /\ UNCHANGED <<store, ieeeByFN, naming>>
  BY DEF Accept, me
<1> DEFINE overlapping == Overlaps
<1>a. overlapping \in BOOLEAN
  BY Zenon DEF Overlaps
<1>b. budget' = [budget EXCEPT !.messages = budget.messages + 1, !.overlapped = overlapping]
  BY DEF Accept
<1> HIDE DEF overlapping
<1>c. budget \in Budgets
  BY DEF IInv, TypeOK
<1>d. budget.messages + 1 \in Nat
  BY <1>c DEF Budgets
<1>5. budget' \in Budgets
  BY <1>a, <1>b, <1>c, <1>d, Zenon DEF Budgets
<1>6. store' \in Store /\ PrimarySound(store') /\ ieeeByFN' \in [Names -> Names \union {Nil}]
  BY <1>4 DEF IInv, TypeOK, PrimaryIndexSound
<1>7. QED
  BY <1>1, <1>2, <1>3, <1>4, <1>5, <1>6, StepLawful

LEMMA MessageLawful ==
    ASSUME IInv, NEW h \in Handlers,
           \/ OnBridgeDevices(h)
           \/ \E a \in Addresses, reads \in BOOLEAN : OnDeviceMessage(h, a, reads)
           \/ OnReload(h)
    PROVE  IInv'
<1>1. CASE OnBridgeDevices(h)
  <2> DEFINE todo == {[primary |-> a, display |-> naming[a]] : a \in Paired}
  <2>1. ASSUME NEW a \in Paired PROVE a \in Names /\ naming[a] \in Names
    BY DiscoveryConstants DEF IInv, TypeOK, Paired
  <2>2. todo \in SUBSET Identity
    BY <2>1 DEF Identity
  <2>3. Accept(h, "learn", todo, FALSE)
    BY <1>1 DEF OnBridgeDevices
  <2> HIDE DEF todo
  <2>4. QED
    BY <2>2, <2>3, AcceptLawful
<1>2. ASSUME NEW a \in Addresses, NEW reads \in BOOLEAN, OnDeviceMessage(h, a, reads)
      PROVE  IInv'
  <2> DEFINE todo == {IdentityFor(naming[a])}
  <2>1. naming[a] \in Names
    BY <1>2 DEF IInv, TypeOK, OnDeviceMessage
  <2>2. IdentityFor(naming[a]) \in Identity
    BY <2>1 DEF IInv, TypeOK, Identity, IdentityFor
  <2>3. Accept(h, "next", todo, reads)
    BY <1>2 DEF OnDeviceMessage
  <2>4. todo \in SUBSET Identity
    BY <2>2
  <2> HIDE DEF todo
  <2>5. QED
    BY <2>3, <2>4, AcceptLawful
<1>3. CASE OnReload(h)
  <2> DEFINE known == {n \in Names : store.dev[n] # Nil}
             todo == {[primary |-> store.dev[n].primary, display |-> store.dev[n].display] : n \in known}
  <2>1. ASSUME NEW n \in known PROVE store.dev[n].primary \in Names /\ store.dev[n].display \in Names
    BY DEF IInv, TypeOK, Store, Entry
  <2>2. todo \in SUBSET Identity
    BY <2>1 DEF Identity
  <2>3. Accept(h, "next", todo, FALSE)
    BY <1>3 DEF OnReload
  <2> HIDE DEF todo
  <2>4. QED
    BY <2>2, <2>3, AcceptLawful
<1>4. QED
  BY <1>1, <1>2, <1>3

\* A section of a running handler: Step with a typed next local state.
LEMMA SectionLawful ==
    ASSUME IInv, NEW h \in Handlers, NEW from, NEW next \in Local,
           next.pc = "rename" => next.oldDisplay \in Names,
           Step(h, from, next),
           store' \in Store, PrimarySound(store'),
           ieeeByFN' \in [Names -> Names \union {Nil}]
    PROVE  IInv'
<1>1. local' = [local EXCEPT ![h] = next] /\ naming' = naming /\ budget' = budget
  BY DEF Step
<1>2. budget' \in Budgets
  BY <1>1 DEF IInv, TypeOK
<1>3. QED
  BY <1>1, <1>2, StepLawful

\* What every section may rely on.
LEMMA Typed ==
    ASSUME IInv, NEW h \in Handlers
    PROVE  /\ store \in Store /\ PrimarySound(store)
           /\ ieeeByFN \in [Names -> Names \union {Nil}]
           /\ local[h] \in Local
           /\ local[h].pc \in Pcs /\ local[h].todo \in SUBSET Identity
           /\ local[h].reads \in BOOLEAN /\ local[h].wasPhantom \in BOOLEAN
           /\ local[h].who \in Identity /\ local[h].id \in Names
           /\ local[h].rt \in Runtime \union {Nil}
           /\ local[h].oldDisplay \in Names \union {Nil}
           /\ local[h].pc = "rename" => local[h].oldDisplay \in Names
<1>1. local[h] \in Local
  BY DEF IInv, TypeOK
<1>2. QED
  BY <1>1 DEF IInv, TypeOK, Local, PrimaryIndexSound

LEMMA LearnLawful ==
    ASSUME IInv, NEW h \in Handlers, LearnAddresses(h)
    PROVE  IInv'
<1> DEFINE me == [local[h] EXCEPT !.pc = "next"]
<1>1. me \in Local /\ me.pc = "next"
  <2>1. "next" \in Pcs
    BY DEF Pcs
  <2>2. QED
    BY <2>1, Typed, Zenon DEF Local
<1>2. Step(h, "learn", me) /\ store' = store
  BY DEF LearnAddresses
<1> HIDE DEF me
<1>3. ASSUME NEW n \in Names
      PROVE  (IF \E who \in local[h].todo : who.display = n
              THEN (CHOOSE who \in local[h].todo : who.display = n).primary ELSE Nil)
                \in Names \union {Nil}
  <2>1. \A who \in local[h].todo : who.primary \in Names
    BY Typed DEF Identity
  <2>2. QED
    BY <2>1
<1>4. ieeeByFN' \in [Names -> Names \union {Nil}]
  BY <1>3 DEF LearnAddresses
<1>5. store' \in Store /\ PrimarySound(store')
  BY <1>2, Typed
<1>6. QED
  BY <1>1, <1>2, <1>4, <1>5, SectionLawful

LEMMA LookUpLawful ==
    ASSUME IInv, NEW h \in Handlers, LookUp(h)
    PROVE  IInv'
<1>1. store' = store /\ ieeeByFN' = ieeeByFN
  BY DEF LookUp
<1>2. /\ store' \in Store /\ PrimarySound(store')
      /\ ieeeByFN' \in [Names -> Names \union {Nil}]
  BY <1>1, Typed
<1>3. ASSUME NEW who \in local[h].todo, NEW id \in Names,
             Step(h, "next", [local[h] EXCEPT !.pc = "get", !.todo = local[h].todo \ {who},
                                              !.who = who, !.id = id])
      PROVE  IInv'
  <2> DEFINE rest == local[h].todo \ {who}
             me == [local[h] EXCEPT !.pc = "get", !.todo = rest, !.who = who, !.id = id]
  <2>1. "get" \in Pcs /\ "get" # "rename" /\ rest \in SUBSET Identity /\ who \in Identity
    BY Typed DEF Pcs
  <2> HIDE DEF rest
  <2>2. me \in Local
    BY <2>1, Typed, Zenon DEF Local
  <2>3. me.pc = "get"
    BY <2>1, Typed, Zenon DEF Local
  <2>4. Step(h, "next", me)
    BY <1>3 DEF rest
  <2> HIDE DEF me
  <2>5. QED
    BY <1>2, <2>1, <2>2, <2>3, <2>4, SectionLawful
<1>4. ASSUME NEW who \in local[h].todo
      PROVE  LET found == LookupID(store, who)
                 id    == IF found # Nil THEN found
                          ELSE IF ConfiguredId[who] # Nil THEN ConfiguredId[who]
                          ELSE who.display
             IN  id \in Names
  <2>1. who \in Identity /\ who.primary \in Names /\ who.display \in Names
    BY Typed DEF Identity
  <2>2. ConfiguredId[who] \in Names \union {Nil}
    BY <2>1, DiscoveryConstants
  <2>3. QED
    BY <2>1, <2>2, Typed DEF LookupID, Store
<1>5. CASE Step(h, "next", Idle)
  BY <1>2, <1>5, IdleTyped, SectionLawful
<1>6. QED
  BY <1>3, <1>4, <1>5 DEF LookUp

LEMMA GetDeviceLawful ==
    ASSUME IInv, NEW h \in Handlers, GetDevice(h)
    PROVE  IInv'
<1> DEFINE pc == IF store.dev[local[h].id] = Nil THEN "create" ELSE "adopt"
           me == [local[h] EXCEPT !.pc = pc]
<1>1. pc \in Pcs /\ pc # "rename"
  BY DEF Pcs
<1>2. Step(h, "get", me) /\ store' = store /\ ieeeByFN' = ieeeByFN
  BY DEF GetDevice
<1> HIDE DEF pc
<1>3. me \in Local /\ me.pc = pc
  BY <1>1, Typed, Zenon DEF Local
<1> HIDE DEF me
<1>4. store' \in Store /\ PrimarySound(store') /\ ieeeByFN' \in [Names -> Names \union {Nil}]
  BY <1>2, Typed
<1>5. QED
  BY <1>1, <1>2, <1>3, <1>4, SectionLawful

LEMMA FreshTyped ==
    ASSUME NEW who \in Identity
    PROVE  FreshRuntime(ClassOf[who]) \in Runtime
  BY DiscoveryConstants DEF FreshRuntime, Runtime, Origins

LEMMA CreateLawful ==
    ASSUME IInv, NEW h \in Handlers, Create(h)
    PROVE  IInv'
<1> DEFINE me == local[h]
           rt == FreshRuntime(ClassOf[me.who])
<1>1. me.who \in Identity /\ me.id \in Names /\ me.who.display \in Names
  BY Typed DEF Identity
<1>2. rt \in Runtime \union {Nil}
  BY <1>1, FreshTyped
<1>3. Step(h, "create", Ensured(h)) /\ ieeeByFN' = ieeeByFN /\ store' = Upsert(store, me.id, me.who, rt)
  BY DEF Create
<1> HIDE DEF me, rt
<1>4. /\ store' \in Store /\ PrimarySound(store')
      /\ ieeeByFN' \in [Names -> Names \union {Nil}]
  BY <1>1, <1>2, <1>3, Typed, UpsertLawful
<1>5. QED
  BY <1>3, <1>4, EnsuredTyped, SectionLawful

LEMMA AdoptLawful ==
    ASSUME IInv, NEW h \in Handlers, Adopt(h)
    PROVE  IInv'
<1> DEFINE me    == local[h]
           entry == store.dev[me.id]
           class == ClassOf[me.who]
           rt    == IF entry.rt # Nil /\ entry.rt.class = class
                    THEN entry.rt ELSE FreshRuntime(class)
           was   == Phantom(entry) /\ ~Phantom(me.who)
           gone  == [me EXCEPT !.pc = "merge"]
           met   == [me EXCEPT !.pc = "merge", !.rt = rt, !.oldDisplay = entry.display,
                               !.wasPhantom = was]
           new   == [entry EXCEPT !.rt = rt]
<1>1. /\ me \in Local /\ me.id \in Names /\ me.who \in Identity
      /\ store \in Store /\ entry \in Entry \union {Nil}
  BY Typed DEF Identity, Store
<1>2. "merge" \in Pcs /\ was \in BOOLEAN
  BY DEF Pcs, Phantom
<1>3. /\ Step(h, "adopt", IF entry = Nil THEN gone ELSE met)
      /\ store' = WithEntry(store, me.id, new) /\ ieeeByFN' = ieeeByFN
  BY DEF Adopt
<1>4. entry # Nil => rt \in Runtime \union {Nil} /\ entry.display \in Names \union {Nil}
  BY <1>1, FreshTyped DEF Entry
<1> HIDE DEF rt, was, me
<1>5. entry # Nil => new \in Entry /\ new.primary = entry.primary
  BY <1>1, <1>4 DEF Entry
<1> HIDE DEF new
<1>6. gone \in Local /\ gone.pc = "merge"
  BY <1>1, <1>2, Zenon DEF Local
<1>7. entry # Nil => met \in Local /\ met.pc = "merge"
  <2> HIDE DEF entry
  <2> SUFFICES ASSUME entry # Nil PROVE met \in Local /\ met.pc = "merge"
    OBVIOUS
  <2>1. rt \in Runtime \union {Nil} /\ entry.display \in Names \union {Nil}
    BY <1>4
  <2>2. QED
    BY <1>1, <1>2, <2>1, Zenon DEF Local
<1>8. /\ store' \in Store /\ PrimarySound(store')
      /\ ieeeByFN' \in [Names -> Names \union {Nil}]
  <2>1. /\ WithEntry(store, me.id, new) \in Store
        /\ PrimarySound(WithEntry(store, me.id, new))
    BY <1>1, <1>5, Typed, WithEntryLawful
  <2>2. QED
    BY <1>3, <2>1, Typed
<1> HIDE DEF gone, met, entry
<1>9. CASE entry = Nil
  BY <1>3, <1>6, <1>8, <1>9, SectionLawful
<1>10. CASE entry # Nil
  BY <1>3, <1>7, <1>8, <1>10, SectionLawful
<1>11. QED
  BY <1>9, <1>10

\* Only the program counter moves.
LEMMA Moved ==
    ASSUME IInv, NEW h \in Handlers, NEW pc \in Pcs
    PROVE  /\ [local[h] EXCEPT !.pc = pc] \in Local
           /\ [local[h] EXCEPT !.pc = pc].pc = pc
           /\ [local[h] EXCEPT !.pc = pc].oldDisplay = local[h].oldDisplay
  BY Typed, Zenon DEF Local

LEMMA MergeLawful ==
    ASSUME IInv, NEW h \in Handlers, Merge(h)
    PROVE  IInv'
<1> DEFINE me      == local[h]
           renames == me.oldDisplay \notin {Nil, me.who.display}
           renamed == [me EXCEPT !.pc = "rename"]
           purged  == [me EXCEPT !.pc = "purge"]
           next    == IF renames THEN renamed ELSE IF me.wasPhantom THEN purged ELSE Ensured(h)
<1>1. Step(h, "merge", next) /\ ieeeByFN' = ieeeByFN /\ store' = Upsert(store, me.id, me.who, me.rt)
  BY DEF Merge
<1>2. /\ me.who \in Identity /\ me.id \in Names /\ me.rt \in Runtime \union {Nil}
      /\ me.oldDisplay \in Names \union {Nil}
  BY Typed
<1>3. "rename" \in Pcs /\ "purge" \in Pcs /\ "purge" # "rename"
  BY DEF Pcs
<1>4. /\ renamed \in Local /\ renamed.oldDisplay = me.oldDisplay
      /\ purged \in Local /\ purged.pc = "purge"
  BY <1>3, Moved
<1> HIDE DEF me, renamed, purged
<1>5. next \in Local /\ (next.pc = "rename" => next.oldDisplay \in Names)
  <2>1. CASE renames
    BY <1>2, <1>4, <2>1
  <2>2. CASE ~renames /\ me.wasPhantom
    BY <1>3, <1>4, <2>2
  <2>3. CASE ~renames /\ ~me.wasPhantom
    BY <2>3, EnsuredTyped
  <2>4. QED
    BY <2>1, <2>2, <2>3
<1> HIDE DEF next
<1>6. /\ store' \in Store /\ PrimarySound(store')
      /\ ieeeByFN' \in [Names -> Names \union {Nil}]
  BY <1>1, <1>2, Typed, UpsertLawful
<1>7. QED
  BY <1>1, <1>5, <1>6, SectionLawful

LEMMA RenameDeviceLawful ==
    ASSUME IInv, NEW h \in Handlers, RenameDevice(h)
    PROVE  IInv'
<1> DEFINE me     == local[h]
           purged == [me EXCEPT !.pc = "purge"]
           next   == IF me.wasPhantom THEN purged ELSE Ensured(h)
<1>1. /\ Step(h, "rename", next) /\ ieeeByFN' = ieeeByFN
      /\ store' = Rename(store, me.id, me.oldDisplay, me.who.display)
  BY DEF RenameDevice
<1>2. me.id \in Names /\ me.oldDisplay \in Names /\ me.who.display \in Names
  BY Typed DEF RenameDevice, Step, Identity
<1>3. "purge" \in Pcs /\ "purge" # "rename"
  BY DEF Pcs
<1>4. purged \in Local /\ purged.pc = "purge"
  BY <1>3, Moved
<1> HIDE DEF me, purged
<1>5. next \in Local /\ next.pc # "rename"
  BY <1>3, <1>4, EnsuredTyped
<1> HIDE DEF next
<1>6. /\ store' \in Store /\ PrimarySound(store')
      /\ ieeeByFN' \in [Names -> Names \union {Nil}]
  <2> DEFINE r == Rename(store, me.id, me.oldDisplay, me.who.display)
  <2>1. store \in Store /\ PrimarySound(store)
    BY Typed
  <2>2. r \in Store /\ PrimarySound(r)
    BY <1>2, <2>1, RenameLawful
  <2>3. store' = r
    BY <1>1
  <2> HIDE DEF r
  <2>4. QED
    BY <1>1, <2>2, <2>3, Typed
<1>7. QED
  BY <1>1, <1>5, <1>6, SectionLawful

LEMMA PurgeLawful ==
    ASSUME IInv, NEW h \in Handlers, Purge(h)
    PROVE  IInv'
<1> DEFINE id    == local[h].id
           entry == store.dev[id]
           new   == [entry EXCEPT !.shown = "none"]
<1>1. Step(h, "purge", Ensured(h)) /\ ieeeByFN' = ieeeByFN /\ store' = WithEntry(store, id, new)
  BY DEF Purge
<1>2. id \in Names /\ entry \in Entry \union {Nil}
  BY Typed DEF Store
<1>3. entry # Nil => new \in Entry /\ new.primary = entry.primary
  BY <1>2 DEF Entry, Origins
<1> HIDE DEF new, id
<1>4. /\ store' \in Store /\ PrimarySound(store')
      /\ ieeeByFN' \in [Names -> Names \union {Nil}]
  BY <1>1, <1>2, <1>3, Typed, WithEntryLawful
<1>5. QED
  BY <1>1, <1>4, EnsuredTyped, SectionLawful

LEMMA IngestLawful ==
    ASSUME IInv, NEW h \in Handlers, Ingest(h)
    PROVE  IInv'
<1> DEFINE me     == local[h]
           entry  == store.dev[me.id]
           origin == IF Phantom(me.who) THEN "phantom" ELSE "real"
           moved  == [entry EXCEPT !.rt = [entry.rt EXCEPT !.activity = origin], !.shown = origin]
           shown  == IF entry.shown = "none" THEN entry.rt.activity ELSE entry.shown
           kept   == [entry EXCEPT !.shown = shown]
           panics == entry # Nil /\ entry.rt = Nil
           pc     == IF panics THEN "panicked" ELSE "next"
           next   == [me EXCEPT !.pc = pc, !.reads = FALSE]
<1>1. /\ me \in Local /\ me.id \in Names /\ entry \in Entry \union {Nil}
      /\ origin \in Origins
  BY Typed DEF Store, Origins
<1>2. pc \in Pcs /\ pc # "rename"
  BY DEF Pcs
<1>3. /\ Step(h, "ingest", next) /\ ieeeByFN' = ieeeByFN
      /\ \/ store' = store
         \/ /\ entry # Nil /\ entry.rt # Nil
            /\ store' = WithEntry(store, me.id, moved) \/ store' = WithEntry(store, me.id, kept)
  BY DEF Ingest
<1> HIDE DEF me, pc, origin
<1>4. next \in Local /\ next.pc = pc
  BY <1>1, <1>2, Zenon DEF Local
<1> HIDE DEF next
<1>5. ASSUME entry # Nil, entry.rt # Nil
      PROVE  /\ moved \in Entry /\ moved.primary = entry.primary
             /\ kept \in Entry /\ kept.primary = entry.primary
  <2>1. entry \in Entry /\ entry.rt \in Runtime /\ entry.rt.activity \in Origins
    BY <1>1, <1>5 DEF Entry, Runtime
  <2> DEFINE rt == [entry.rt EXCEPT !.activity = origin]
  <2>2. rt \in Runtime
    BY <1>1, <2>1 DEF Runtime
  <2>3. shown \in Origins
    BY <2>1 DEF Entry
  <2> HIDE DEF shown, rt, entry
  <2>4. rt \in Runtime \union {Nil}
    BY <2>2
  <2>5. [entry EXCEPT !.rt = rt, !.shown = origin] \in Entry
    BY <1>1, <2>1, <2>4, Zenon DEF Entry
  <2>6. [entry EXCEPT !.rt = rt, !.shown = origin].primary = entry.primary
    BY <2>1, Zenon DEF Entry
  <2>7. kept \in Entry /\ kept.primary = entry.primary
    BY <2>1, <2>3 DEF Entry
  <2>8. QED
    BY <2>5, <2>6, <2>7 DEF rt
<1> HIDE DEF moved, kept, entry
<1>6. /\ store' \in Store /\ PrimarySound(store')
      /\ ieeeByFN' \in [Names -> Names \union {Nil}]
  <2>1. CASE store' = store
    BY <1>3, <2>1, Typed
  <2>2. ASSUME NEW new \in {moved, kept}, entry # Nil, entry.rt # Nil, store' = WithEntry(store, me.id, new)
        PROVE  store' \in Store /\ PrimarySound(store')
    BY <1>1, <1>5, <2>2, Typed, WithEntryLawful DEF entry
  <2>3. QED
    BY <1>3, <2>1, <2>2, Typed
<1>7. QED
  BY <1>2, <1>3, <1>4, <1>6, SectionLawful

LEMMA NextOK == IInv /\ [Next]_vars => IInv'
<1> SUFFICES ASSUME IInv, [Next]_vars PROVE IInv'
  OBVIOUS
<1>1. ASSUME NEW a \in Addresses, NEW n \in Names \union {Nil}, Z2MNames(a, n)
      PROVE  IInv'
  <2>1. store' = store /\ ieeeByFN' = ieeeByFN /\ local' = local
    BY <1>1 DEF Z2MNames
  <2>2. naming' \in [Addresses -> Names \union {Nil}]
    BY <1>1 DEF Z2MNames, IInv, TypeOK
  <2> DEFINE names == (SUBSET [name : Names, to : Addresses]) \union {Nil}
             given == IF budget.given = Nil \/ n = Nil THEN budget.given
                      ELSE IF ServesTwo(a, n) THEN Nil
                      ELSE budget.given \union {[name |-> n, to |-> a]}
  <2>3. budget' = [budget EXCEPT !.namings = budget.namings + 1, !.given = given]
    BY <1>1 DEF Z2MNames
  <2>4. budget \in Budgets /\ budget.namings + 1 \in Nat /\ budget.given \in names
    BY DEF IInv, TypeOK, Budgets
  <2>5. given \in names
    <3> DEFINE pairs == [name : Names, to : Addresses]
    <3>1. budget.given = Nil \/ budget.given \in SUBSET pairs
      BY <2>4, Zenon
    <3>2. n # Nil => [name |-> n, to |-> a] \in pairs
      OBVIOUS
    <3> HIDE DEF pairs
    <3>3. n # Nil /\ budget.given \in SUBSET pairs
            => budget.given \union {[name |-> n, to |-> a]} \in SUBSET pairs
      BY <3>2
    <3>4. Nil \in names /\ \A set \in SUBSET pairs : set \in names
      BY Zenon DEF pairs
    <3> HIDE DEF names
    <3>5. CASE budget.given = Nil \/ n = Nil
      BY <2>4, <3>5, Zenon
    <3>6. CASE budget.given # Nil /\ n # Nil
      <4>1. budget.given \union {[name |-> n, to |-> a]} \in names
        BY <3>1, <3>3, <3>4, <3>6, Zenon
      <4>2. given \in {Nil, budget.given \union {[name |-> n, to |-> a]}}
        BY <3>6, Zenon
      <4>3. QED
        BY <3>4, <4>1, <4>2, Zenon
    <3>7. QED
      BY <3>5, <3>6
  <2> HIDE DEF given
  <2>6. budget' \in Budgets
    BY <2>3, <2>4, <2>5, Zenon DEF Budgets
  <2>7. QED
    BY <2>1, <2>2, <2>6 DEF IInv, TypeOK, PrimaryIndexSound, PrimarySound
<1>2. ASSUME NEW h \in Handlers, Run(h)
      PROVE  IInv'
  BY <1>2, LearnLawful, LookUpLawful, GetDeviceLawful, CreateLawful, AdoptLawful, MergeLawful,
     RenameDeviceLawful, PurgeLawful, IngestLawful DEF Run
<1>3. CASE UNCHANGED vars
  BY <1>3 DEF vars, IInv, TypeOK, PrimaryIndexSound, PrimarySound
<1>4. QED
  BY <1>1, <1>2, <1>3, MessageLawful DEF Next

-----------------------------------------------------------------------------
(* One message at a time: the store is consistent in every state, and what *)
(* a handler read in an earlier section still holds in the next.           *)

Consistent(s) ==
    /\ \A n \in Names : s.dev[n] # Nil =>
          s.dev[n].rt # Nil /\ s.byPrimary[s.dev[n].primary] = n
    /\ \A d \in Names : s.byDisplay[d] # Nil =>
          s.dev[s.byDisplay[d]] # Nil /\ s.dev[s.byDisplay[d]].display = d

\* The identity's primary key is free or the device's own until it is merged,
\* an entry once seen is there, and a rename finds the name already merged.
Informed(s, me) ==
    /\ me.pc \in {"get", "create", "adopt", "merge"} => s.byPrimary[me.who.primary] \in {Nil, me.id}
    /\ me.pc \in {"adopt", "merge"} => s.dev[me.id] # Nil
    /\ me.pc = "rename" => s.dev[me.id] # Nil /\ s.dev[me.id].display = me.who.display
    /\ me.pc # "panicked"

SeqInv == ~budget.overlapped =>
    /\ \A g, h \in Handlers : g = h \/ local[g].pc = "idle" \/ local[h].pc = "idle"
    /\ Consistent(store)
    /\ \A h \in Handlers : Informed(store, local[h])

\* Upsert of an identity whose primary key is free or the device's own keeps a
\* consistent store consistent.
LEMMA UpsertConsistent ==
    ASSUME NEW s \in Store, NEW id \in Names, NEW who \in Identity,
           NEW rt \in Runtime \union {Nil}, Consistent(s),
           s.byPrimary[who.primary] \in {Nil, id}, s.dev[id] = Nil => rt # Nil
    PROVE  Consistent(Upsert(s, id, who, rt))
<1> DEFINE up   == Upsert(s, id, who, rt)
           old  == s.dev[id]
           lost == Lost(s, up, id)
<1>1. /\ up \in Store /\ up.dev[id] \in Entry
      /\ up.dev[id].primary = who.primary /\ up.dev[id].display = who.display
      /\ up.dev[id].rt = IF old = Nil THEN rt ELSE old.rt
      /\ \A n \in Names \ {id} : n \notin lost => up.dev[n] = s.dev[n]
      /\ \A n \in lost : n = s.byDisplay[who.display]
      /\ \A p \in Names :
            up.byPrimary[p] = IF \E n \in lost : s.dev[n].primary = p THEN Nil
                              ELSE IF p = who.primary THEN id
                              ELSE IF old # Nil /\ p = old.primary THEN Nil
                              ELSE s.byPrimary[p]
      /\ \A d \in Names :
            up.byDisplay[d] = IF d = who.display THEN id
                              ELSE IF old # Nil /\ d = old.display THEN Nil
                              ELSE s.byDisplay[d]
  BY UpsertFields
<1>2. \A n \in lost : n \in Names /\ n # id /\ s.dev[n] # Nil /\ up.dev[n] = Nil
  BY DEF Lost
<1>3. /\ Nil \notin Entry /\ Nil \notin Names /\ who.primary \in Names /\ who.display \in Names
      /\ \A n \in Names : s.dev[n] # Nil => s.dev[n].primary \in Names
      /\ \A d \in Names : s.byDisplay[d] # Nil => s.byDisplay[d] \in Names
  BY NamesAndNil DEF Store, Entry, Identity
<1> HIDE DEF up, lost
<1>4. ASSUME NEW n \in Names, up.dev[n] # Nil
      PROVE  up.dev[n].rt # Nil /\ up.byPrimary[up.dev[n].primary] = n
  <2>1. CASE n = id
    <3>1. \A m \in lost : s.dev[m].primary # who.primary
      BY <1>2, <1>3 DEF Consistent
    <3>2. up.dev[id].rt # Nil
      BY <1>1 DEF Consistent
    <3>3. QED
      BY <1>1, <1>3, <2>1, <3>1, <3>2
  <2>2. CASE n # id
    <3> DEFINE p == s.dev[n].primary
    <3>1. n \notin lost /\ up.dev[n] = s.dev[n] /\ s.dev[n] # Nil
      BY <1>1, <1>2, <1>4, <2>2
    <3>2. s.dev[n].rt # Nil /\ s.byPrimary[p] = n /\ p \in Names
      BY <1>3, <3>1 DEF Consistent
    <3>3. p # who.primary /\ (old # Nil => p # old.primary)
      BY <1>3, <2>2, <3>2 DEF Consistent
    <3>4. \A m \in lost : s.dev[m].primary # p
      BY <1>2, <3>1, <3>2 DEF Consistent
    <3>5. QED
      BY <1>1, <3>1, <3>2, <3>3, <3>4
  <2>3. QED
    BY <2>1, <2>2
<1>5. ASSUME NEW d \in Names, up.byDisplay[d] # Nil
      PROVE  up.dev[up.byDisplay[d]] # Nil /\ up.dev[up.byDisplay[d]].display = d
  <2>1. CASE d = who.display
    BY <1>1, <1>3, <2>1
  <2>2. CASE d # who.display
    <3> DEFINE n == s.byDisplay[d]
    <3>1. up.byDisplay[d] = n /\ n # Nil /\ (old # Nil => d # old.display)
      BY <1>1, <1>5, <2>2
    <3>2. n \in Names /\ s.dev[n] # Nil /\ s.dev[n].display = d
      BY <1>3, <3>1 DEF Consistent
    <3>3. n # id
      BY <3>1, <3>2
    <3>4. n \notin lost
      BY <1>1, <1>2, <1>3, <2>2, <3>2 DEF Consistent
    <3>5. QED
      BY <1>1, <3>1, <3>2, <3>3, <3>4
  <2>3. QED
    BY <2>1, <2>2
<1>6. QED
  BY <1>4, <1>5 DEF Consistent, up

\* A section that replaces an entry but neither its names nor, by nothing, its
\* runtime keeps a consistent store consistent.
LEMMA WithEntryConsistent ==
    ASSUME NEW s \in Store, NEW id \in Names, NEW new, Consistent(s),
           s.dev[id] # Nil =>
              /\ new \in Entry /\ new.rt # Nil
              /\ new.primary = s.dev[id].primary /\ new.display = s.dev[id].display
    PROVE  /\ Consistent(WithEntry(s, id, new))
           /\ WithEntry(s, id, new).byPrimary = s.byPrimary
           /\ \A n \in Names : s.dev[n] # Nil => WithEntry(s, id, new).dev[n] # Nil
<1>1. CASE s.dev[id] = Nil
  BY <1>1 DEF WithEntry
<1>2. CASE s.dev[id] # Nil
  <2> DEFINE t == [s EXCEPT !.dev = [s.dev EXCEPT ![id] = new]]
  <2>1. t = WithEntry(s, id, new)
    BY <1>2 DEF WithEntry
  <2>2. /\ t.byPrimary = s.byPrimary /\ t.byDisplay = s.byDisplay
        /\ t.dev[id] = new /\ \A n \in Names \ {id} : t.dev[n] = s.dev[n]
    BY DEF Store
  <2>3. new # Nil
    BY <1>2, NamesAndNil
  <2>4. \A d \in Names : s.byDisplay[d] # Nil => s.byDisplay[d] \in Names
    BY DEF Store
  <2> HIDE DEF t
  <2>5. Consistent(t)
    BY <1>2, <2>2, <2>3, <2>4 DEF Consistent
  <2>6. QED
    BY <1>2, <2>1, <2>2, <2>3, <2>5
<1>3. QED
  BY <1>1, <1>2

\* Moving the display index of a device that already shows the new name.
LEMMA RenameConsistent ==
    ASSUME NEW s \in Store, NEW id \in Names, NEW old \in Names, NEW new \in Names,
           Consistent(s), s.dev[id] # Nil, s.dev[id].display = new
    PROVE  Consistent(Rename(s, id, old, new))
<1> DEFINE e == [s.dev[id] EXCEPT !.display = new]
           t == [dev       |-> [s.dev EXCEPT ![id] = e],
                 byPrimary |-> s.byPrimary,
                 byDisplay |-> [Dropped(s.byDisplay, old) EXCEPT ![new] = id]]
<1>1. t = Rename(s, id, old, new)
  BY DEF Rename
<1>2. e = s.dev[id]
  BY DEF Store, Entry
<1>3. /\ t.byPrimary = s.byPrimary /\ t.dev = s.dev
      /\ \A d \in Names : t.byDisplay[d] = IF d = new THEN id ELSE IF d = old THEN Nil
                                           ELSE s.byDisplay[d]
  BY <1>2 DEF Store, Dropped
<1> HIDE DEF t
<1>4. Consistent(t)
  BY <1>3 DEF Consistent
<1>5. QED
  BY <1>1, <1>4

\* A handler between the sections of a message has read nothing it relies on.
LEMMA InformedIdle ==
    ASSUME NEW s, NEW me, me.pc \in {"idle", "learn", "next", "purge", "ingest"}
    PROVE  Informed(s, me)
  BY DEF Informed

\* While nothing overlaps, a section of one handler only has that handler to answer for.
LEMMA SectionInOrder ==
    ASSUME IInv, SeqInv, NEW h \in Handlers, NEW from \in Pcs \ {"idle"}, NEW next,
           Step(h, from, next),
           ~budget.overlapped => Consistent(store') /\ Informed(store', next)
    PROVE  SeqInv'
<1> SUFFICES ASSUME ~budget.overlapped PROVE SeqInv'
  BY DEF Step, SeqInv
<1>1. /\ local[h].pc # "idle" /\ budget' = budget
      /\ local'[h] = next /\ \A g \in Handlers \ {h} : local'[g] = local[g]
  BY DEF Step, IInv, TypeOK
<1>2. \A g \in Handlers \ {h} : local'[g].pc = "idle"
  BY <1>1 DEF SeqInv
<1>3. \A g \in Handlers : Informed(store', local'[g])
  BY <1>1, <1>2, InformedIdle
<1>4. Consistent(store)' /\ \A g \in Handlers : Informed(store, local[g])'
  BY <1>3 DEF Consistent, Informed
<1>5. QED
  BY <1>2, <1>4 DEF SeqInv

\* A message that leaves the history free of overlaps found every handler idle.
LEMMA AcceptInOrder ==
    ASSUME IInv, SeqInv, NEW h \in Handlers, NEW todo, NEW pc \in {"learn", "next"}, NEW reads,
           Accept(h, pc, todo, reads)
    PROVE  SeqInv'
<1> SUFFICES ASSUME ~budget'.overlapped PROVE SeqInv'
  BY DEF SeqInv
<1> DEFINE me == [Idle EXCEPT !.pc = pc, !.todo = todo, !.reads = reads]
<1>1. ~Overlaps
  <2> DEFINE overlapping == Overlaps
  <2>1. budget' = [budget EXCEPT !.messages = budget.messages + 1, !.overlapped = overlapping]
    BY DEF Accept
  <2>2. budget \in Budgets
    BY DEF IInv, TypeOK
  <2> HIDE DEF overlapping
  <2>3. budget'.overlapped = overlapping
    BY <2>1, <2>2, Zenon DEF Budgets
  <2>4. QED
    BY <2>3 DEF overlapping
<1>2. store' = store /\ local'[h] = me /\ \A g \in Handlers \ {h} : local'[g] = local[g]
  BY DEF Accept, IInv, TypeOK
<1>3. me.pc = pc
  BY IdleTyped, Zenon DEF Local
<1> HIDE DEF me
<1>4. ~budget.overlapped /\ \A g \in Handlers \ {h} : local'[g].pc = "idle"
  BY <1>1, <1>2 DEF Overlaps
<1>5. \A g \in Handlers : Informed(store', local'[g])
  BY <1>2, <1>3, <1>4, InformedIdle
<1>6. Consistent(store)' /\ \A g \in Handlers : Informed(store, local[g])'
  BY <1>2, <1>4, <1>5 DEF SeqInv, Consistent, Informed
<1>7. QED
  BY <1>4, <1>6 DEF SeqInv

\* A section only has to be accounted for while nothing overlaps.
LEMMA InOrder ==
    ASSUME SeqInv, NEW h \in Handlers, ~budget.overlapped
    PROVE  Consistent(store) /\ Informed(store, local[h])
  BY DEF SeqInv

\* A handler done with an identity has nothing left to rely on.
LEMMA EnsuredInformed ==
    ASSUME IInv, NEW h \in Handlers, NEW s
    PROVE  Informed(s, Ensured(h))
<1> DEFINE me == local[h]
           next == IF me.reads THEN "ingest" ELSE "next"
<1>1. me \in Local
  BY DEF IInv, TypeOK
<1>2. Ensured(h) = [me EXCEPT !.pc = next, !.rt = Nil, !.oldDisplay = Nil, !.wasPhantom = FALSE]
  BY DEF Ensured
<1>3. next \in {"ingest", "next"}
  OBVIOUS
<1> HIDE DEF me, next
<1>4. Ensured(h).pc = next
  BY <1>1, <1>2 DEF Local
<1>5. QED
  BY <1>3, <1>4, InformedIdle

LEMMA LearnInOrder ==
    ASSUME IInv, SeqInv, NEW h \in Handlers, LearnAddresses(h)
    PROVE  SeqInv'
<1> DEFINE me == [local[h] EXCEPT !.pc = "next"]
<1>1. "next" \in Pcs /\ "learn" \in Pcs \ {"idle"}
  BY DEF Pcs
<1>2. me.pc = "next"
  BY <1>1, Moved
<1>3. Step(h, "learn", me) /\ store' = store
  BY DEF LearnAddresses
<1> HIDE DEF me
<1>4. ~budget.overlapped => Consistent(store') /\ Informed(store', me)
  BY <1>2, <1>3, InOrder, InformedIdle
<1>5. QED
  BY <1>1, <1>3, <1>4, SectionInOrder

LEMMA LookUpInOrder ==
    ASSUME IInv, SeqInv, NEW h \in Handlers, LookUp(h)
    PROVE  SeqInv'
<1>1. store' = store /\ "next" \in Pcs \ {"idle"}
  BY DEF LookUp, Pcs
<1>2. ASSUME NEW who \in local[h].todo, NEW id,
             id = IF LookupID(store, who) # Nil THEN LookupID(store, who)
                  ELSE IF ConfiguredId[who] # Nil THEN ConfiguredId[who]
                  ELSE who.display,
             Step(h, "next", [local[h] EXCEPT !.pc = "get", !.todo = local[h].todo \ {who},
                                              !.who = who, !.id = id])
      PROVE  SeqInv'
  <2> DEFINE rest == local[h].todo \ {who}
             me == [local[h] EXCEPT !.pc = "get", !.todo = rest, !.who = who, !.id = id]
  <2>1. me.pc = "get" /\ me.who = who /\ me.id = id
    BY Typed, Zenon DEF Local
  <2>2. Step(h, "next", me)
    BY <1>2
  <2> HIDE DEF me
  <2>3. store.byPrimary[who.primary] \in {Nil, id}
    BY <1>2 DEF LookupID
  <2>4. ~budget.overlapped => Consistent(store') /\ Informed(store', me)
    BY <1>1, <2>1, <2>3, InOrder DEF Informed
  <2>5. QED
    BY <1>1, <2>2, <2>4, SectionInOrder
<1>3. CASE Step(h, "next", Idle)
  <2>1. ~budget.overlapped => Consistent(store') /\ Informed(store', Idle)
    BY <1>1, IdleTyped, InOrder, InformedIdle
  <2>2. QED
    BY <1>1, <1>3, <2>1, SectionInOrder
<1>4. QED
  BY <1>2, <1>3, Zenon DEF LookUp

LEMMA GetDeviceInOrder ==
    ASSUME IInv, SeqInv, NEW h \in Handlers, GetDevice(h)
    PROVE  SeqInv'
<1> DEFINE pc == IF store.dev[local[h].id] = Nil THEN "create" ELSE "adopt"
           me == [local[h] EXCEPT !.pc = pc]
<1>1. "get" \in Pcs \ {"idle"} /\ local[h].pc = "get"
  BY DEF Pcs, GetDevice, Step
<1>2. Step(h, "get", me) /\ store' = store
  BY DEF GetDevice
<1>3. me.pc = pc /\ me.who = local[h].who /\ me.id = local[h].id
  BY Typed, Zenon DEF Local
<1> HIDE DEF me
<1>4. ~budget.overlapped => Consistent(store') /\ Informed(store', me)
  BY <1>1, <1>2, <1>3, InOrder DEF Informed
<1>5. QED
  BY <1>1, <1>2, <1>4, SectionInOrder

LEMMA CreateInOrder ==
    ASSUME IInv, SeqInv, NEW h \in Handlers, Create(h)
    PROVE  SeqInv'
<1> DEFINE me == local[h]
           rt == FreshRuntime(ClassOf[me.who])
<1>1. "create" \in Pcs \ {"idle"} /\ me.pc = "create"
  BY DEF Pcs, Create, Step
<1>2. Step(h, "create", Ensured(h)) /\ store' = Upsert(store, me.id, me.who, rt)
  BY DEF Create
<1>3. rt \in Runtime \union {Nil} /\ rt # Nil
  BY Typed, FreshTyped, NamesAndNil
<1> HIDE DEF rt
<1>4. ASSUME ~budget.overlapped PROVE Consistent(store')
  <2>1. Consistent(store) /\ store.byPrimary[me.who.primary] \in {Nil, me.id}
    BY <1>1, <1>4, InOrder DEF Informed
  <2>2. QED
    BY <1>2, <1>3, <2>1, Typed, UpsertConsistent
<1>5. QED
  BY <1>1, <1>2, <1>4, EnsuredInformed, SectionInOrder

LEMMA AdoptInOrder ==
    ASSUME IInv, SeqInv, NEW h \in Handlers, Adopt(h)
    PROVE  SeqInv'
<1> DEFINE me    == local[h]
           entry == store.dev[me.id]
           class == ClassOf[me.who]
           rt    == IF entry.rt # Nil /\ entry.rt.class = class
                    THEN entry.rt ELSE FreshRuntime(class)
           was   == Phantom(entry) /\ ~Phantom(me.who)
           gone  == [me EXCEPT !.pc = "merge"]
           met   == [me EXCEPT !.pc = "merge", !.rt = rt, !.oldDisplay = entry.display,
                               !.wasPhantom = was]
           new   == [entry EXCEPT !.rt = rt]
<1>1. "adopt" \in Pcs \ {"idle"} /\ me.pc = "adopt"
  BY DEF Pcs, Adopt, Step
<1>2. /\ Step(h, "adopt", IF entry = Nil THEN gone ELSE met)
      /\ store' = WithEntry(store, me.id, new)
  BY DEF Adopt
<1>3. /\ me \in Local /\ me.id \in Names /\ me.who \in Identity
      /\ store \in Store /\ entry \in Entry \union {Nil}
  BY Typed DEF Store
<1>4. entry # Nil => rt \in Runtime /\ rt # Nil
  BY <1>3, FreshTyped, NamesAndNil DEF Entry
<1> HIDE DEF rt, was, me
<1>5. entry # Nil => /\ new \in Entry /\ new.rt # Nil
                     /\ new.primary = entry.primary /\ new.display = entry.display
  BY <1>3, <1>4 DEF Entry
<1> HIDE DEF new
<1>6. ASSUME ~budget.overlapped
      PROVE  /\ Consistent(store')
             /\ store'.byPrimary[me.who.primary] \in {Nil, me.id} /\ store'.dev[me.id] # Nil
  <2>1. Consistent(store) /\ store.byPrimary[me.who.primary] \in {Nil, me.id} /\ entry # Nil
    BY <1>1, <1>6, InOrder DEF Informed, me
  <2>2. QED
    BY <1>2, <1>3, <1>5, <2>1, WithEntryConsistent
<1>7. gone.pc = "merge" /\ gone.who = me.who /\ gone.id = me.id
  BY <1>3, Zenon DEF Local
<1>8. met.pc = "merge" /\ met.who = me.who /\ met.id = me.id
  <2> HIDE DEF entry
  <2>1. QED
    BY <1>3, Zenon DEF Local
<1> HIDE DEF gone, met
<1>9. ASSUME ~budget.overlapped
      PROVE  Informed(store', IF entry = Nil THEN gone ELSE met)
  BY <1>6, <1>7, <1>8, <1>9 DEF Informed
<1>10. QED
  BY <1>1, <1>2, <1>6, <1>9, SectionInOrder

LEMMA MergeInOrder ==
    ASSUME IInv, SeqInv, NEW h \in Handlers, Merge(h)
    PROVE  SeqInv'
<1> DEFINE me      == local[h]
           renames == me.oldDisplay \notin {Nil, me.who.display}
           renamed == [me EXCEPT !.pc = "rename"]
           purged  == [me EXCEPT !.pc = "purge"]
           next    == IF renames THEN renamed ELSE IF me.wasPhantom THEN purged ELSE Ensured(h)
<1>1. "merge" \in Pcs \ {"idle"} /\ "purge" \in Pcs /\ me.pc = "merge"
  BY DEF Pcs, Merge, Step
<1>2. Step(h, "merge", next) /\ store' = Upsert(store, me.id, me.who, me.rt)
  BY DEF Merge
<1>3. /\ me \in Local /\ me.who \in Identity /\ me.id \in Names
      /\ me.rt \in Runtime \union {Nil} /\ store \in Store
  BY Typed
<1>4. /\ renamed.pc = "rename" /\ renamed.who = me.who /\ renamed.id = me.id
      /\ purged.pc = "purge"
  BY <1>3, Zenon DEF Local
<1> HIDE DEF me, renamed, purged
<1>5. ASSUME ~budget.overlapped
      PROVE  /\ Consistent(store')
             /\ store'.dev[me.id] # Nil /\ store'.dev[me.id].display = me.who.display
  <2> DEFINE up == Upsert(store, me.id, me.who, me.rt)
  <2>1. /\ Consistent(store) /\ store.byPrimary[me.who.primary] \in {Nil, me.id}
        /\ store.dev[me.id] # Nil
    BY <1>1, <1>5, InOrder DEF Informed, me
  <2>2. Consistent(up)
    BY <1>3, <2>1, UpsertConsistent
  <2>3. up.dev[me.id] \in Entry /\ up.dev[me.id].display = me.who.display
    BY <1>3, UpsertFields
  <2>4. QED
    BY <1>2, <2>2, <2>3, NamesAndNil
<1>6. ASSUME ~budget.overlapped PROVE Informed(store', next)
  <2>1. Informed(store', renamed)
    BY <1>4, <1>5, <1>6 DEF Informed
  <2>2. Informed(store', purged) /\ Informed(store', Ensured(h))
    BY <1>4, InformedIdle, EnsuredInformed
  <2>3. QED
    BY <2>1, <2>2
<1> HIDE DEF next
<1>7. QED
  BY <1>1, <1>2, <1>5, <1>6, SectionInOrder

LEMMA RenameDeviceInOrder ==
    ASSUME IInv, SeqInv, NEW h \in Handlers, RenameDevice(h)
    PROVE  SeqInv'
<1> DEFINE me     == local[h]
           purged == [me EXCEPT !.pc = "purge"]
           next   == IF me.wasPhantom THEN purged ELSE Ensured(h)
<1>1. "rename" \in Pcs \ {"idle"} /\ "purge" \in Pcs /\ me.pc = "rename"
  BY DEF Pcs, RenameDevice, Step
<1>2. /\ Step(h, "rename", next)
      /\ store' = Rename(store, me.id, me.oldDisplay, me.who.display)
  BY DEF RenameDevice
<1>3. /\ store \in Store /\ me.id \in Names /\ me.oldDisplay \in Names
      /\ me.who.display \in Names
  BY <1>1, Typed DEF Identity
<1>4. purged.pc = "purge"
  BY <1>1, Moved
<1> HIDE DEF me, purged
<1>5. Informed(store', next)
  BY <1>4, InformedIdle, EnsuredInformed
<1> HIDE DEF next
<1>6. ASSUME ~budget.overlapped PROVE Consistent(store')
  <2>1. Consistent(store) /\ store.dev[me.id] # Nil /\ store.dev[me.id].display = me.who.display
    BY <1>1, <1>6, InOrder DEF Informed, me
  <2>2. QED
    BY <1>2, <1>3, <2>1, RenameConsistent
<1>7. QED
  BY <1>1, <1>2, <1>5, <1>6, SectionInOrder

LEMMA PurgeInOrder ==
    ASSUME IInv, SeqInv, NEW h \in Handlers, Purge(h)
    PROVE  SeqInv'
<1> DEFINE id    == local[h].id
           entry == store.dev[id]
           new   == [entry EXCEPT !.shown = "none"]
<1>1. "purge" \in Pcs \ {"idle"}
  BY DEF Pcs
<1>2. Step(h, "purge", Ensured(h)) /\ store' = WithEntry(store, id, new)
  BY DEF Purge
<1>3. store \in Store /\ id \in Names /\ entry \in Entry \union {Nil}
  BY Typed DEF Store
<1>4. entry # Nil => /\ new \in Entry /\ new.rt = entry.rt
                     /\ new.primary = entry.primary /\ new.display = entry.display
  BY <1>3 DEF Entry, Origins
<1> HIDE DEF new, id
<1>5. ASSUME ~budget.overlapped PROVE Consistent(store')
  <2>1. Consistent(store) /\ (entry # Nil => entry.rt # Nil)
    BY <1>3, <1>5, InOrder DEF Consistent
  <2>2. QED
    BY <1>2, <1>3, <1>4, <2>1, WithEntryConsistent
<1>6. QED
  BY <1>1, <1>2, <1>5, EnsuredInformed, SectionInOrder

\* A reading finds a runtime, and changes neither the names of the entry nor
\* whether it has one.
LEMMA IngestInOrder ==
    ASSUME IInv, SeqInv, NEW h \in Handlers, Ingest(h)
    PROVE  SeqInv'
<1> DEFINE me     == local[h]
           entry  == store.dev[me.id]
           origin == IF Phantom(me.who) THEN "phantom" ELSE "real"
           rt     == [entry.rt EXCEPT !.activity = origin]
           moved  == [entry EXCEPT !.rt = rt, !.shown = origin]
           shown  == IF entry.shown = "none" THEN entry.rt.activity ELSE entry.shown
           kept   == [entry EXCEPT !.shown = shown]
           panics == entry # Nil /\ entry.rt = Nil
           pc     == IF panics THEN "panicked" ELSE "next"
           next   == [me EXCEPT !.pc = pc, !.reads = FALSE]
<1>1. "ingest" \in Pcs \ {"idle"} /\ pc \in Pcs
  BY DEF Pcs
<1>2. /\ Step(h, "ingest", next)
      /\ \/ store' = store
         \/ /\ entry # Nil /\ entry.rt # Nil
            /\ store' = WithEntry(store, me.id, moved) \/ store' = WithEntry(store, me.id, kept)
  BY DEF Ingest
<1>3. me \in Local /\ me.id \in Names /\ store \in Store /\ entry \in Entry \union {Nil} /\ origin \in Origins
  BY Typed DEF Store, Origins
<1>4. ~budget.overlapped => pc = "next"
  BY <1>3, InOrder DEF Consistent
<1> HIDE DEF me, pc, origin
<1>5. ASSUME ~budget.overlapped PROVE Informed(store', next)
  <2>1. next.pc = pc
    BY <1>3, Zenon DEF Local
  <2> HIDE DEF next
  <2>2. QED
    BY <1>4, <1>5, <2>1, InformedIdle
<1>6. ASSUME entry # Nil, entry.rt # Nil
      PROVE  \A new \in {moved, kept} : /\ new \in Entry /\ new.rt # Nil
                                        /\ new.primary = entry.primary
                                        /\ new.display = entry.display
  <2>1. entry \in Entry /\ entry.rt \in Runtime /\ entry.rt.activity \in Origins
    BY <1>3, <1>6 DEF Entry, Runtime
  <2>2. rt \in Runtime /\ rt # Nil
    BY <1>3, <2>1, NamesAndNil DEF Runtime
  <2>3. shown \in Origins
    BY <2>1 DEF Entry
  <2> HIDE DEF shown, rt, entry
  <2>4. rt \in Runtime \union {Nil}
    BY <2>2
  <2>5. moved \in Entry
    BY <1>3, <2>1, <2>4, Zenon DEF Entry
  <2>6. moved.primary = entry.primary /\ moved.display = entry.display /\ moved.rt = rt
    BY <2>1, Zenon DEF Entry
  <2>7. kept \in Entry /\ kept.primary = entry.primary /\ kept.display = entry.display /\ kept.rt = entry.rt
    BY <2>1, <2>3 DEF Entry
  <2>8. QED
    BY <1>6, <2>2, <2>5, <2>6, <2>7
<1> HIDE DEF moved, kept, next
<1>7. ASSUME ~budget.overlapped PROVE Consistent(store')
  <2>1. Consistent(store)
    BY <1>7, InOrder
  <2>2. ASSUME NEW new \in {moved, kept}, entry # Nil, entry.rt # Nil, store' = WithEntry(store, me.id, new)
        PROVE  Consistent(store')
    BY <1>3, <1>6, <2>1, <2>2, WithEntryConsistent
  <2>3. QED
    BY <1>2, <2>1, <2>2
<1>8. QED
  BY <1>1, <1>2, <1>5, <1>7, SectionInOrder

LEMMA SeqInit == Init => SeqInv
  BY IdleTyped, InformedIdle DEF Init, SeqInv, Consistent, EmptyStore

LEMMA SeqNext == IInv /\ SeqInv /\ [Next]_vars => SeqInv'
<1> SUFFICES ASSUME IInv, SeqInv, [Next]_vars PROVE SeqInv'
  OBVIOUS
<1>1. ASSUME NEW a \in Addresses, NEW n \in Names \union {Nil}, Z2MNames(a, n)
      PROVE  SeqInv'
  <2>1. store' = store /\ local' = local /\ budget'.overlapped = budget.overlapped
    BY <1>1 DEF Z2MNames, IInv, TypeOK, Budgets
  <2>2. QED
    BY <2>1 DEF SeqInv, Consistent, Informed
<1>2. ASSUME NEW h \in Handlers,
             \/ OnBridgeDevices(h)
             \/ \E a \in Addresses, reads \in BOOLEAN : OnDeviceMessage(h, a, reads)
             \/ OnReload(h)
      PROVE  SeqInv'
  <2>1. CASE OnBridgeDevices(h)
    BY <2>1, AcceptInOrder DEF OnBridgeDevices
  <2>2. CASE \E a \in Addresses, reads \in BOOLEAN : OnDeviceMessage(h, a, reads)
    BY <2>2, AcceptInOrder DEF OnDeviceMessage
  <2>3. CASE OnReload(h)
    BY <2>3, AcceptInOrder DEF OnReload
  <2>4. QED
    BY <1>2, <2>1, <2>2, <2>3
<1>3. ASSUME NEW h \in Handlers, Run(h)
      PROVE  SeqInv'
  BY <1>3, LearnInOrder, LookUpInOrder, GetDeviceInOrder, CreateInOrder, AdoptInOrder, MergeInOrder,
     RenameDeviceInOrder, PurgeInOrder, IngestInOrder DEF Run
<1>4. CASE UNCHANGED vars
  BY <1>4 DEF vars, SeqInv, Consistent, Informed
<1>5. QED
  BY <1>1, <1>2, <1>3, <1>4 DEF Next

-----------------------------------------------------------------------------
(* The theorems.                                                           *)

\* Store, address book and every handler's local state keep their types,
\* whatever the handlers' interleaving (engine.go, EnsureDiscovered).
THEOREM TypeCorrect == Spec => []TypeOK
<1>1. IInv => TypeOK
  BY DEF IInv
<1>2. QED
  BY <1>1, InitOK, NextOK, PTL DEF Spec

\* However handlers interleave, byPrimary leads only to a device that is there
\* and carries that key (store.go, Upsert, Rename and withEntry).
THEOREM PrimaryIndex == Spec => []PrimaryIndexSound
<1>1. IInv => PrimaryIndexSound
  BY DEF IInv
<1>2. QED
  BY <1>1, InitOK, NextOK, PTL DEF Spec

\* As long as no two messages were handled at once, every device between
\* messages has a runtime and its own primary key, and a display name leads
\* only to the device that shows it (engine.go, EnsureDiscovered; store.go).
THEOREM ConsistentInOrder == Spec => []StoreConsistent
<1>1. IInv /\ SeqInv => StoreConsistent
  BY DEF IInv, TypeOK, Store, SeqInv, Consistent, StoreConsistent, Known
<1>2. QED
  BY <1>1, InitOK, NextOK, SeqInit, SeqNext, PTL DEF Spec

\* As long as no two messages were handled at once, no reading reaches an entry
\* without a runtime, so the process does not panic (engine.go, IngestReading).
THEOREM NoPanicInOrder == Spec => [](~budget.overlapped => Alive)
<1>1. SeqInv => (~budget.overlapped => Alive)
  BY DEF SeqInv, Informed, Alive
<1>2. QED
  BY <1>1, InitOK, NextOK, SeqInit, SeqNext, PTL DEF Spec
=============================================================================
