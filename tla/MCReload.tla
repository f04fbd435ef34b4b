------------------------------- MODULE MCReload -------------------------------
(***************************************************************************)
(* A device that a document may configure by its key while another entry   *)
(* claims its display name, and that two classes' hints fit when none      *)
(* does; two class documents that differ in hints and thresholds.          *)
(***************************************************************************)
EXTENDS Reload

Kettle == [scheme |-> "zigbee", primary |-> "0x1", display |-> "Kettle by TV"]

MCLower == [n \in {"0x1", "Kettle by TV", "kettle by tv", "tv", "kettle"} |->
              IF n = "Kettle by TV" THEN "kettle by tv" ELSE n]
MCMentions == {<<"kettle by tv", "tv">>, <<"kettle by tv", "kettle">>}
MCLengthOf == [h \in {"tv", "kettle"} |-> IF h = "tv" THEN 2 ELSE 6]
MCClassRank == [c \in {"media", "burst"} |-> IF c = "burst" THEN 1 ELSE 2]

Class(hints, idle) == [hints |-> hints, thresholds |-> [idle |-> idle], strategy |-> Nil]
Entry(primary, display, class, idle) ==
    [scheme |-> "zigbee", primary |-> primary, display |-> display, class |-> class,
     name |-> Nil, thresholds |-> [idle |-> idle], strategy |-> "counter"]

SmallClasses == [c \in {"media"} |-> Class(<<"tv">>, 1)]
BothClasses == [c \in {"media", "burst"} |->
                  IF c = "media" THEN Class(<<"tv">>, 2) ELSE Class(<<Nil, "kettle">>, 1)]
OneDevice == [id \in {"a"} |-> Entry("0x1", Nil, "media", Nil)]
TwoDevices == [id \in {"a", "b"} |->
                 IF id = "a" THEN Entry("0x1", Nil, "burst", 3) ELSE Entry(Nil, "kettle by tv", "media", Nil)]

MCDevices == {Kettle}
MCRemotes == {[classes |-> SmallClasses, devices |-> OneDevice, behaviour |-> Nil],
              [classes |-> BothClasses, devices |-> TwoDevices, behaviour |-> 2]}
MCLocals == {[classes |-> NoMap, devices |-> NoMap, gap |-> 1],
             [classes |-> SmallClasses, devices |-> OneDevice, gap |-> 1]}
MCOrders == {[id \in {"a", "b"} |-> IF id = "a" THEN 1 ELSE 2]}
=============================================================================
