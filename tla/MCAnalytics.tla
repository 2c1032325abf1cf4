---------------------------- MODULE MCAnalytics ----------------------------
(* Instances of Analytics for TLC: a registry of two cameras, lists that    *)
(* are empty or have a camera the registry lacks, drawings of the ground    *)
(* truth over several days, and two samples.  A year has three days, so that *)
(* the dates of a longer window come back.                                  *)
EXTENDS Analytics, TLC

ThreeLists == {<< >>, <<"cam01", "cam02">>, <<"cam02", "cam03">>}

TwoDepartments == ("cam01" :> "City" @@ "cam02" :> "Port")

Seen(cam, class, plate, status, age) ==
    [cam |-> cam, class |-> class, plate |-> plate, status |-> status, at |-> age]

Drawing1 == <<Seen("cam01", "car", "P1", "STOLEN", 3), Seen("cam02", "bus", "P2", Null, 46),
              Seen("cam02", "person", Null, Null, 5), Seen("cam01", "truck", Null, Null, 120)>>
Drawing2 == <<Seen("cam01", "person", Null, Null, 1), Seen("cam01", "car", "P1", Null, 60)>>
TwoDrawings == {Drawing1, Drawing2}

TwoSamples == <<Seen("cam01", "crash", "P3", "ACCIDENT_COLLISION", 1),
                Seen("cam01", "collision", "P4", "ACCIDENT_COLLISION", 2)>>

NightOrAfternoon == {3 * Day + 1, 3 * Day + 29}
Evening == 3 * Day + 31

TwoAlertTables == {<< >>, <<[cam |-> "cam01", at |-> 3 * Day + 2],
                            [cam |-> "cam02", at |-> Day]>>}

Ask(range, from, to, cam, dept, type) ==
    [range |-> range, now |-> Evening, from |-> from, to |-> to,
     cam |-> cam, dept |-> dept, type |-> type]

SomeQueries ==
    {Ask("today", Null, Null, Null, Null, Null), Ask("24h", Null, Null, Null, Null, Null),
     Ask("7d", Null, Null, Null, "City", Null), Ask("30d", Null, Null, "cam02", Null, Null),
     Ask("custom", Day + 1, Null, Null, Null, "vehicle"),
     Ask("custom", Garbled, Garbled, "cam01", Null, Null),
     Ask("custom", Null, Day, Null, Null, Null)}

=============================================================================
