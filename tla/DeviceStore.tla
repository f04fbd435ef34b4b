----------------------------- MODULE DeviceStore -----------------------------
(***************************************************************************)
(* The device map of internal/state/store.go and its two indexes, as       *)
(* operators on one store record; each operator is one critical section of *)
(* Store.mu.  One adapter's scheme is modelled, so an index key is a name. *)
(* Every adapter submits both names of an identity, so the merge rule for  *)
(* empty names has nothing to merge.                                       *)
(***************************************************************************)

CONSTANTS
    Nil,      \* no entry, no runtime, no id
    Names,    \* protocol addresses and friendly names; also device ids
    Classes   \* device classes

Identity == [primary : Names, display : Names]

\* A friendly name standing in for an address that is not known yet.
Phantom(who) == who.primary = who.display

(* What an activity, of the runtime or as published, was learned from:
   nothing yet, readings of a phantom, or readings of a real identity. *)
Origins == {"none", "phantom", "real"}

Runtime == [class : Classes, activity : Origins]

Entry == [primary : Names, display : Names, rt : Runtime \union {Nil}, shown : Origins]

ASSUME NamesAndNil == Names # {} /\ Nil \notin Names \union Entry \union Runtime

Store == [dev : [Names -> Entry \union {Nil}],
          byPrimary : [Names -> Names \union {Nil}],
          byDisplay : [Names -> Names \union {Nil}]]

EmptyStore == [dev |-> [n \in Names |-> Nil],
               byPrimary |-> [n \in Names |-> Nil],
               byDisplay |-> [n \in Names |-> Nil]]

FreshRuntime(class) == [class |-> class, activity |-> "none"]

\* Mutant: the mutable name wins.
LookupIDByName(s, who) ==
    IF s.byDisplay[who.display] # Nil THEN s.byDisplay[who.display]
                                      ELSE s.byPrimary[who.primary]

\* The primary key wins; the display name is the fallback.
LookupID(s, who) ==
    IF s.byPrimary[who.primary] # Nil THEN s.byPrimary[who.primary]
                                      ELSE s.byDisplay[who.display]

Dropped(index, key) == [index EXCEPT ![key] = Nil]

\* Mutant: a key the record no longer carries stays in the index.
ReleasedNever(index, key, new) == index

\* A record that takes a new key gives up the old one.
Released(index, key, new) == IF key # new THEN Dropped(index, key) ELSE index

\* The holder of a display name that device id claims, left behind as a phantom.
Orphan(s, holder, id) ==
    holder \notin {Nil, id} /\ s.dev[holder] # Nil /\ Phantom(s.dev[holder])

\* Install or merge the record, move its index entries, and tombstone a
\* phantom whose display name the record now claims.
Upsert(s, id, who, rt) ==
    LET old       == s.dev[id]
        entry     == IF old = Nil
                     THEN [primary |-> who.primary, display |-> who.display,
                           rt |-> rt, shown |-> "none"]
                     ELSE [old EXCEPT !.primary = who.primary, !.display = who.display]
        primaries == IF old = Nil THEN s.byPrimary
                                  ELSE Released(s.byPrimary, old.primary, who.primary)
        displays  == IF old = Nil THEN s.byDisplay
                                  ELSE Released(s.byDisplay, old.display, who.display)
        holder    == displays[who.display]
        orphaned  == Orphan(s, holder, id)
        installed == [s.dev EXCEPT ![id] = entry]
        indexed   == [primaries EXCEPT ![who.primary] = id]
    IN  [dev       |-> IF orphaned THEN Dropped(installed, holder) ELSE installed,
         byPrimary |-> IF orphaned THEN Dropped(indexed, s.dev[holder].primary) ELSE indexed,
         byDisplay |-> [displays EXCEPT ![who.display] = id]]

\* withEntry: the entry, if there is one, is replaced by what fn makes of it.
WithEntry(s, id, new) ==
    IF s.dev[id] = Nil THEN s ELSE [s EXCEPT !.dev = [s.dev EXCEPT ![id] = new]]

\* Rename acts only on a known device.
Rename(s, id, old, new) ==
    IF s.dev[id] = Nil THEN s
    ELSE [dev       |-> [s.dev EXCEPT ![id] = [s.dev[id] EXCEPT !.display = new]],
          byPrimary |-> s.byPrimary,
          byDisplay |-> [Dropped(s.byDisplay, old) EXCEPT ![new] = id]]
=============================================================================
