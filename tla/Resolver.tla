------------------------------- MODULE Resolver -------------------------------
(***************************************************************************)
(* What the configuration makes of a device: an override found by the      *)
(* protocol's own key, else by the display name, else the class whose      *)
(* longest hint the name contains.  Empty strings are Nil; a map is a      *)
(* function over the keys it holds; order is the order in which the        *)
(* runtime happens to iterate over the devices map.                        *)
(***************************************************************************)
EXTENDS Integers, Sequences, SequencesExt, FiniteSetsExt

CONSTANTS
    Nil,
    Lower,     \* strings.ToLower on the names and keys in use
    Mentions,  \* the <<name, hint>> pairs of lower-case strings, hint in name
    LengthOf,  \* the length of a hint
    ClassRank  \* the lexicographic rank of a class

\* primaryKey and displayKey; a blank part makes no key.
PrimaryKey(who) ==
    IF Nil \in {who.scheme, who.primary} THEN Nil ELSE <<who.scheme, Lower[who.primary]>>
DisplayKey(who) ==
    IF Nil \in {who.scheme, who.display} THEN Nil ELSE <<who.scheme, Lower[who.display]>>

\* NewResolver: of two entries with one key, the one iterated over last stays.
LastOf(ids, order) == IF ids = {} THEN Nil
                      ELSE CHOOSE id \in ids : \A other \in ids \ {id} : order[other] < order[id]

NewResolver(devices, order) ==
    LET holders(Key(_), key) == {id \in DOMAIN devices : key # Nil /\ Key(devices[id]) = key}
    IN  [devices   |-> devices,
         byPrimary |-> [key \in {PrimaryKey(devices[id]) : id \in DOMAIN devices} |->
                           LastOf(holders(PrimaryKey, key), order)],
         byDisplay |-> [key \in {DisplayKey(devices[id]) : id \in DOMAIN devices} |->
                           LastOf(holders(DisplayKey, key), order)]]

Found(table, key) == IF key \in DOMAIN table THEN table[key] ELSE Nil

ConfiguredID(resolver, who) ==
    LET primary == Found(resolver.byPrimary, PrimaryKey(who))
    IN  IF primary # Nil THEN primary ELSE Found(resolver.byDisplay, DisplayKey(who))

-----------------------------------------------------------------------------
(* Name hints.  Of each class the first hint that fits counts, blank ones   *)
(* never; the longest of these wins, then the class that sorts first.       *)

FirstFit(hints, name) ==
    LET fits == {i \in 1..Len(hints) : hints[i] # Nil /\ <<name, Lower[hints[i]]>> \in Mentions}
    IN  IF fits = {} THEN Nil ELSE hints[Min(fits)]

ClassifyByHints(classes, display) ==
    LET name    == IF display = Nil THEN Nil ELSE Lower[display]
        fit(c)  == FirstFit(classes[c].hints, name)
        matches == {c \in DOMAIN classes : name # Nil /\ fit(c) # Nil}
        beats(c, d) == \/ LengthOf[fit(c)] > LengthOf[fit(d)]
                       \/ LengthOf[fit(c)] = LengthOf[fit(d)] /\ ClassRank[c] < ClassRank[d]
    IN  IF matches = {} THEN Nil
        ELSE CHOOSE c \in matches : \A d \in matches \ {c} : beats(c, d)

-----------------------------------------------------------------------------
(* Profiles.                                                               *)

\* A field the override leaves unset keeps the class's value.
MergeThresholds(base, override) ==
    [f \in DOMAIN base |-> IF override[f] = Nil THEN base[f] ELSE override[f]]

\* An unset or unknown strategy integrates.
StrategyFor(s) == IF s = "counter" THEN "counter" ELSE "integration"

NoThresholds(device) == [f \in DOMAIN device.thresholds |-> Nil]

ProfileFromOverride(device, classes, who) ==
    LET known    == device.class \in DOMAIN classes
        defaults == IF known THEN classes[device.class].thresholds ELSE NoThresholds(device)
        strategy == IF device.strategy # Nil THEN StrategyFor(device.strategy)
                    ELSE IF known THEN StrategyFor(classes[device.class].strategy) ELSE Nil
    IN  [class |-> device.class, thresholds |-> MergeThresholds(defaults, device.thresholds),
         strategy |-> strategy, resolution |-> "device_config",
         name |-> IF device.name = Nil THEN who.display ELSE device.name]

\* Resolve, of a device whose fields are those of the thresholds named fields.
Resolve(classes, resolver, who, fields) ==
    LET id    == ConfiguredID(resolver, who)
        class == ClassifyByHints(classes, who.display)
    IN  IF id # Nil THEN ProfileFromOverride(resolver.devices[id], classes, who)
        ELSE IF class # Nil
        THEN [class |-> class, thresholds |-> classes[class].thresholds,
              strategy |-> StrategyFor(classes[class].strategy),
              resolution |-> "name_hint", name |-> who.display]
        ELSE [class |-> "unclassified", thresholds |-> [f \in fields |-> Nil],
              strategy |-> Nil, resolution |-> "unclassified", name |-> who.display]
=============================================================================
