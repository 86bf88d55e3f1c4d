-------------------------- MODULE FormalRunProofs --------------------------
(***************************************************************************)
(* The three properties of FormalRun, for any number of executables,       *)
(* graphs, points and measurements.                                        *)
(***************************************************************************)
EXTENDS FormalRun, TLAPS

Active == phase \in {"next", "invoke", "checked", "search", "artifact", "rows"}

\* The points this invocation has been through.
Settled == IF phase \in {"search", "artifact"} THEN (chosen \ todo) \ {First} ELSE chosen \ todo

\* The part of the types that the properties rest on.
Shape ==
  /\ executable \in Binaries /\ pinned \in Binaries /\ source \in Graphs
  /\ artifacts \in [Points -> Content \cup {NoFile, Partial}]
  /\ measured \in 0 .. MaxMeasured
  /\ chosen \subseteq Points

\* The type of the one history variable that artifacts take over.
Flag == swapped \in BOOLEAN

\* A port that has been checked is the pinned one unless it has been replaced,
\* and one that is running was the pinned one unless it was replaced before its
\* start.  Nothing has replaced the graph its index was checked against.
SearchInv ==
  /\ phase \in {"invoke", "checked", "search", "artifact"} => measured < MaxMeasured
  /\ phase \in {"checked", "search", "artifact"} /\ ~switched => executable = pinned
  /\ phase = "checked" /\ ~swapped => executable = pinned
  /\ phase \in {"search", "artifact"} =>
       /\ running \in Binaries /\ (~swapped => running = pinned)
       /\ pages \in Graphs /\ meta = source

\* Pages come from the source graph as long as it has not been replaced.
PagesInv == ~replaced /\ pages \in Graphs => pages = source

\* What the invocation has been through is measured, and with the executable
\* there is unless it was replaced.
SettledInv ==
  Active => \A p \in Settled : /\ artifacts[p] \in Content
                               /\ ~switched => artifacts[p].binary = executable

\* An artifact names the executable that has run, unless that was replaced
\* between check and start.
LabelInv ==
  \A p \in Points :
    artifacts[p] \in Content /\ ~artifacts[p].swapped => artifacts[p].ran = artifacts[p].binary

\* Between rows and manifest the rows are the measurements.
RowsInv == phase = "rows" => todo = {} /\ rows = Measurements

\* Measurements are numbered by their order.
StampInv ==
  /\ \A p \in Points : artifacts[p] \in Content => artifacts[p].stamp <= measured
  /\ \A p \in DOMAIN manifest :
       p \in Points /\ manifest[p] \in Content /\ manifest[p].stamp <= measured

\* An artifact that is the one listed is also the one in the rows.
ListedInv ==
  \A p \in DOMAIN rows \cap DOMAIN manifest :
    artifacts[p] = manifest[p] => rows[p] = artifacts[p]

IndInv ==
  /\ Shape /\ SearchInv /\ PagesInv
  /\ SettledInv /\ LabelInv /\ RowsInv /\ OneBinaryUnlessSwitched
  /\ StampInv /\ ListedInv

LEMMA InitInv == Init => IndInv
<1> SUFFICES ASSUME Init PROVE IndInv
  OBVIOUS
<1>1. Shape
  BY ContentAssumption DEF Init, Shape
<1>2. SearchInv /\ PagesInv
  BY GraphsAssumption DEF Init, SearchInv, PagesInv
<1>3. SettledInv /\ LabelInv /\ RowsInv /\ OneBinaryUnlessSwitched
  BY ContentAssumption DEF Init, SettledInv, Active, LabelInv, RowsInv, OneBinaryUnlessSwitched,
    Nothing
<1>4. StampInv /\ ListedInv
  BY ContentAssumption DEF Init, StampInv, ListedInv, Nothing
<1> QED
  BY <1>1, <1>2, <1>3, <1>4 DEF IndInv

LEMMA FlagHolds == Spec => []Flag
<1>1. Init => Flag
  BY DEF Init, Flag
<1>2. Flag /\ [Next]_vars => Flag'
  <2> SUFFICES ASSUME Flag, [Next]_vars PROVE Flag'
    OBVIOUS
  <2> USE DEF process
  <2>1. swapped' \in {swapped, FALSE, swapped \/ phase = "checked"}
    <3>1. CASE UNCHANGED vars
      BY <3>1 DEF vars
    <3>2. CASE \E b \in Binaries : Install(b)
      BY <3>2 DEF Install
    <3>3. CASE Pin \/ (\E g \in Graphs : Rebuild(g)) \/ Export \/ WritePages \/ WriteMeta \/ MetaWritten
      BY <3>3 DEF Pin, Rebuild, Export, WritePages, WriteMeta, MetaWritten, AtEnd
    <3>4. CASE Validate \/ Tune \/ (\E selected \in SUBSET Points \ {{}} : StartRun(selected)) \/ Reuse
      BY <3>4 DEF Validate, Tune, StartRun, Reuse
    <3>5. CASE Measure \/ Check \/ StartPort \/ WriteArtifact \/ ArtifactWritten
      BY <3>5 DEF Measure, Check, StartPort, WriteArtifact, ArtifactWritten
    <3>6. CASE WriteRows \/ WriteManifest \/ Stop
      BY <3>6 DEF WriteRows, WriteManifest, Stop, AtEnd
    <3> QED
      BY <3>1, <3>2, <3>3, <3>4, <3>5, <3>6 DEF Next
  <2> QED
    BY <2>1 DEF Flag
<1> QED
  BY <1>1, <1>2, PTL DEF Spec

LEMMA NextInv == IndInv /\ Flag /\ [Next]_vars => IndInv'
<1> SUFFICES ASSUME IndInv, Flag, [Next]_vars PROVE IndInv'
  OBVIOUS
<1> USE DEF IndInv, process
<1>1. ASSUME NEW b \in Binaries, Install(b) PROVE IndInv'
  <2> USE <1>1 DEF Install, index, tuning, results, aggregate, points
  <2>1. phase \in {"invoke", "checked"} => switched'
    OBVIOUS
  <2>2. phase = "checked" => swapped'
    OBVIOUS
  <2>3. (Shape /\ SearchInv /\ PagesInv /\ LabelInv /\ RowsInv /\ OneBinaryUnlessSwitched /\ StampInv /\ ListedInv)'
    BY <2>1, <2>2 DEF Shape, SearchInv, PagesInv, LabelInv, RowsInv, Measurements,
      OneBinaryUnlessSwitched,
      StampInv, ListedInv
  <2>4. Active => switched'
    BY DEF Active
  <2>5. Active' = Active /\ Settled' = Settled
    BY DEF Active, Settled, First
  <2>6. SettledInv'
    BY <2>4, <2>5 DEF SettledInv
  <2> QED
    BY <2>3, <2>6
<1>2. CASE Pin
  BY <1>2 DEF Pin, index, results, aggregate, points, Shape, SearchInv, PagesInv, LabelInv,
    SettledInv, Active,
    Settled, First, RowsInv, Measurements, OneBinaryUnlessSwitched, StampInv, ListedInv
<1>3. ASSUME NEW g \in Graphs, Rebuild(g) PROVE IndInv'
  BY <1>3 DEF Rebuild, results, aggregate, points, Shape, SearchInv, PagesInv, LabelInv,
    SettledInv, Active,
    Settled, First, RowsInv, Measurements, OneBinaryUnlessSwitched, StampInv, ListedInv
<1>4. CASE Export \/ WritePages \/ WriteMeta \/ MetaWritten
  <2> USE DEF world, index, tuning, results, aggregate, points, Shape, SearchInv, PagesInv,
    LabelInv, SettledInv, Active,
    RowsInv, OneBinaryUnlessSwitched, StampInv, ListedInv
  <2>1. CASE Export
    BY <2>1, GraphsAssumption DEF Export
  <2>2. CASE WritePages
    BY <2>2 DEF WritePages
  <2>3. CASE WriteMeta
    BY <2>3 DEF WriteMeta
  <2>4. CASE MetaWritten
    BY <2>4 DEF MetaWritten, AtEnd
  <2> QED
    BY <1>4, <2>1, <2>2, <2>3, <2>4
<1>5. CASE Validate \/ Tune
  BY <1>5 DEF Validate, Tune, world, index, tuning, results, aggregate, points, Shape, SearchInv,
    PagesInv, LabelInv, SettledInv,
    Active, RowsInv, OneBinaryUnlessSwitched, StampInv, ListedInv
<1>6. ASSUME NEW selected \in SUBSET Points \ {{}}, StartRun(selected) PROVE IndInv'
  BY <1>6 DEF StartRun, world, index, tuning, results, aggregate, Shape, SearchInv, PagesInv,
    LabelInv, SettledInv,
    Settled, Active, RowsInv, OneBinaryUnlessSwitched, StampInv, ListedInv
<1>7. CASE Reuse
  <2> USE <1>7 DEF Reuse, world, index, tuning, results, aggregate
  <2>1. (Shape /\ SearchInv /\ PagesInv /\ LabelInv /\ RowsInv /\ OneBinaryUnlessSwitched /\ StampInv /\ ListedInv)'
    BY DEF Shape, SearchInv, PagesInv, LabelInv, RowsInv, OneBinaryUnlessSwitched, StampInv,
      ListedInv
  <2>2. SettledInv'
    <3>1. Settled = chosen \ todo /\ Settled' \subseteq Settled \cup ({First} \cap chosen)
      BY DEF Settled
    <3>2. First \in chosen => artifacts[First] \in Content /\ artifacts[First].binary = executable
      BY DEF Reusable, Whole, Shape
    <3> QED
      BY <3>1, <3>2 DEF SettledInv, Active
  <2> QED
    BY <2>1, <2>2
<1>8. CASE Measure \/ Check \/ StartPort
  <2> USE DEF world, index, tuning, aggregate, points
  <2>1. CASE Measure \/ Check
    <3>1. UNCHANGED <<index, results, aggregate, executable, pinned, source, running, swapped,
      switched>>
      BY <2>1 DEF Measure, Check, results
    <3>2. measured < MaxMeasured /\ (phase' = "invoke" \/ (phase' = "checked" /\ executable = pinned))
      <4>1. CASE Measure
        BY <4>1 DEF Measure
      <4>2. CASE Check
        BY <4>2 DEF Check, SearchInv
      <4> QED
        BY <2>1, <4>1, <4>2
    <3>3. Active /\ Active' /\ Settled' = Settled
      BY <2>1 DEF Measure, Check, Active, Settled, First
    <3>4. (Shape /\ SearchInv /\ PagesInv /\ LabelInv /\ RowsInv /\ OneBinaryUnlessSwitched /\ StampInv /\ ListedInv)'
      BY <2>1, <3>1, <3>2 DEF results, Measure, Check, Shape, SearchInv, PagesInv, LabelInv,
        RowsInv,
        OneBinaryUnlessSwitched, StampInv, ListedInv
    <3>5. SettledInv'
      BY <3>1, <3>3 DEF SettledInv, results
    <3> QED
      BY <3>4, <3>5
  <2>2. CASE StartPort
    <3> USE <2>2 DEF StartPort, IndexAccepted
    <3>1. (Shape /\ SearchInv /\ PagesInv /\ LabelInv /\ RowsInv /\ OneBinaryUnlessSwitched /\ StampInv /\ ListedInv)'
      BY DEF Shape, SearchInv, PagesInv, LabelInv, RowsInv, OneBinaryUnlessSwitched, StampInv,
        ListedInv
    <3>2. SettledInv'
      BY DEF SettledInv, Active, Settled, First
    <3> QED
      BY <3>1, <3>2
  <2> QED
    BY <1>8, <2>1, <2>2
<1>9. CASE WriteArtifact
  <2> USE <1>9 DEF WriteArtifact, world, index, aggregate, points
  <2>1. (Shape /\ SearchInv /\ PagesInv /\ RowsInv /\ OneBinaryUnlessSwitched)'
    BY DEF Shape, SearchInv, PagesInv, RowsInv, OneBinaryUnlessSwitched
  <2>2. \A p \in Points : artifacts'[p] = IF p = First THEN Partial ELSE artifacts[p]
    BY DEF Shape
  <2>3. First' = First
    BY DEF First
  <2>4. SettledInv'
    BY <2>2, <2>3 DEF SettledInv, Active, Settled, Shape
  <2>5. StampInv' /\ LabelInv'
    BY <2>2, ContentAssumption DEF StampInv, LabelInv
  <2>6. ListedInv'
    BY <2>2, ContentAssumption DEF ListedInv, StampInv
  <2> QED
    BY <2>1, <2>4, <2>5, <2>6
<1>10. CASE ArtifactWritten
  <2> DEFINE new == [stamp |-> measured + 1, graph |-> meta, binary |-> pinned,
                     ran |-> running, swapped |-> swapped]
  <2> USE <1>10 DEF ArtifactWritten, world, index, aggregate
  <2>1. new \in Content /\ measured + 1 \in 0 .. MaxMeasured
    <3>1. swapped \in BOOLEAN
      BY DEF Flag
    <3>2. measured + 1 \in 1 .. MaxMeasured /\ meta \in Graphs /\ pinned \in Binaries /\ running \in Binaries
      BY ContentAssumption DEF Shape, SearchInv
    <3>3. new \in Content
      BY <3>1, <3>2, Zenon DEF Content
    <3>4. measured + 1 \in 0 .. MaxMeasured
      BY <3>2, ContentAssumption DEF Shape
    <3> QED
      BY <3>3, <3>4
  <2>2. artifacts' = [artifacts EXCEPT ![First] = new]
    OBVIOUS
  <2>3. \A p \in Points : artifacts'[p] = IF p = First THEN new ELSE artifacts[p]
    BY <2>2 DEF Shape
  <2> HIDE DEF new
  <2>4. (Shape /\ SearchInv /\ PagesInv /\ RowsInv /\ OneBinaryUnlessSwitched)'
    BY <2>1, <2>2 DEF Shape, SearchInv, PagesInv, RowsInv, OneBinaryUnlessSwitched
  <2>5. SettledInv'
    <3>1. Settled' \subseteq Settled \cup {First} /\ Settled' \subseteq Points
      BY DEF Settled, Shape
    <3>2. ~switched' => new.binary = executable'
      BY DEF new, SearchInv, world
    <3> QED
      BY <2>1, <2>3, <3>1, <3>2 DEF SettledInv, Active
  <2>6. new.stamp = measured' /\ measured' > measured /\ measured \in Nat
    BY DEF new, Shape
  <2>7. StampInv'
    BY <2>3, <2>6 DEF StampInv, Content
  <2>8. ~new.swapped => new.ran = new.binary
    BY DEF new, SearchInv
  <2>9. LabelInv'
    BY <2>3, <2>8 DEF LabelInv
  <2>10. ListedInv'
    BY <2>3, <2>6 DEF ListedInv, StampInv, Content
  <2> QED
    BY <2>4, <2>5, <2>7, <2>9, <2>10
<1>11. CASE WriteRows
  <2> USE <1>11 DEF WriteRows, world, index, tuning, results, points, Measurements
  <2>1. (Shape /\ SearchInv /\ PagesInv /\ LabelInv /\ RowsInv /\ StampInv /\ ListedInv)'
    BY DEF Shape, SearchInv, PagesInv, LabelInv, RowsInv, StampInv, ListedInv
  <2>2. Settled' = Settled /\ Settled = chosen
    BY DEF Settled
  <2>3. SettledInv'
    BY <2>2 DEF SettledInv, Active
  <2>4. \A p \in chosen : artifacts[p] \in Content /\ (~switched => artifacts[p].binary = executable)
    BY <2>2 DEF SettledInv, Active
  <2>5. \A p \in chosen : ~artifacts[p].swapped => artifacts[p].ran = artifacts[p].binary
    BY <2>4 DEF LabelInv, Shape
  <2>6. OneBinaryUnlessSwitched'
    BY <2>4, <2>5 DEF OneBinaryUnlessSwitched
  <2> QED
    BY <2>1, <2>3, <2>6
<1>12. CASE WriteManifest
  <2> USE <1>12 DEF WriteManifest, AtEnd, world, results
  <2>1. (Shape /\ SearchInv /\ PagesInv /\ LabelInv /\ RowsInv /\ SettledInv /\ OneBinaryUnlessSwitched)'
    BY DEF Shape, SearchInv, PagesInv, LabelInv, RowsInv, SettledInv, Active,
      OneBinaryUnlessSwitched
  <2>2. Settled = chosen
    BY DEF Settled, RowsInv
  <2>3. StampInv' /\ ListedInv'
    BY <2>2 DEF StampInv, ListedInv, SettledInv, Active, RowsInv, Measurements, Shape
  <2> QED
    BY <2>1, <2>3
<1>13. CASE Stop
  BY <1>13 DEF Stop, AtEnd, world, results, aggregate, Shape, SearchInv, PagesInv, LabelInv,
    SettledInv, Active,
    RowsInv, OneBinaryUnlessSwitched, StampInv, ListedInv
<1>14. CASE UNCHANGED vars
  BY <1>14 DEF vars, world, index, tuning, results, aggregate, points, Shape, SearchInv, PagesInv,
    LabelInv, SettledInv,
    Active, Settled, First, RowsInv, Measurements, OneBinaryUnlessSwitched, StampInv, ListedInv
<1> QED
  BY <1>1, <1>2, <1>3, <1>4, <1>5, <1>6, <1>7, <1>8, <1>9, <1>10, <1>11, <1>12, <1>13,
    <1>14 DEF Next

\* The strengthened invariant.
THEOREM InvariantHolds == Spec => []IndInv
  BY InitInv, NextInv, FlagHolds, PTL DEF Spec

\* Pages and description of different exports are searched only if the source
\* graph was replaced since the pages were written, for any number of graphs.
THEOREM MixedIndexes == Spec => []MixedIndexRefused
<1>1. IndInv => MixedIndexRefused
  BY DEF IndInv, MixedIndexRefused, SearchInv, PagesInv, Shape
<1> QED
  BY <1>1, InvariantHolds, PTL

\* The rows of an aggregate name one executable unless it was replaced while they
\* were collected, however many invocations have died before; and a row was measured
\* by the executable it names, unless that was replaced between check and start.
THEOREM RowsOfOneBinary == Spec => []OneBinaryUnlessSwitched
<1>1. IndInv => OneBinaryUnlessSwitched
  BY DEF IndInv
<1> QED
  BY <1>1, InvariantHolds, PTL

\* A row of a listed point is the measurement that the plotter has checked.
THEOREM ListedRows == Spec => []ListedRowsAreVerified
<1>1. IndInv => ListedRowsAreVerified
  BY DEF IndInv, ListedInv, ListedRowsAreVerified, PlotterAccepts
<1> QED
  BY <1>1, InvariantHolds, PTL
=============================================================================
