----------------------------- MODULE FormalRun -----------------------------
(***************************************************************************)
(* A formal run of the disk experiment (05_disk_system_fair): the phases   *)
(* export, tune and run of orchestrator.py for one method, the native port *)
(* they invoke (native_rust/src/main.rs), and what the plotter accepts     *)
(* (plot_05_disk_suite.py).                                                *)
(*                                                                         *)
(* Invocations follow one another, each in its own process, and any of     *)
(* them may die or be refused between two writes.  What they leave behind  *)
(* is taken up by the next: index files, lock, artifacts, rows, manifest.  *)
(* The index directory is shared with the runs of other identifiers, and   *)
(* at any time the port or the source graph may be built anew.             *)
(***************************************************************************)
EXTENDS Naturals, FiniteSets

CONSTANTS
  Binaries,     \* contents of the port's executable
  Graphs,       \* contents of the source graph file
  Points,       \* what can be measured: a worker count, a repeat; in order
  Required,     \* those of the worker counts the plotter asks for
  Roles,        \* graph_role of the method: shared_baseline, ours_native
  MaxMeasured,  \* bound of the model: measurements taken
  NoFile,       \* the file does not exist
  Partial       \* the file was truncated and not completed

ASSUME PointsAssumption == Points \subseteq Nat /\ Required \subseteq Points
ASSUME RolesAssumption  == Roles \subseteq {"shared_baseline", "ours_native"}
ASSUME GraphsAssumption == {NoFile, Partial} \cap Graphs = {}

VARIABLES
  executable, pinned,  \* the port, and the hash of it in ports.local.json
  running,             \* the executable of the port that has been started last
  source, role,        \* the source graph, and its graph_role
  pages, meta, named,  \* the index: graph pages, the hash in index.meta, and
                       \* the one the export in progress will write there
  replaced,            \* history: source was replaced since pages was written
  validated, lock,     \* the executable that the artifact of the validation
                       \* queries names; tuning.lock.json exists
  artifacts,           \* the artifact of every point
  traced,              \* the points whose trace is the one the artifact names
  measured,            \* measurements taken so far
  rows, manifest,      \* the aggregate: formal_test_rows.csv, and the hashes of
                       \* the artifacts in its manifest
  phase,               \* what the invocation does next, "idle" between two
  chosen, todo,        \* its points, and those it has not come to
  switched, mixed,     \* history: the executable was replaced during this
                       \* invocation, during the one that wrote the rows
  swapped              \* history: it was replaced between the check of this
                       \* measurement and its start

world     == <<executable, pinned, source, role>>
index     == <<pages, meta, named, replaced>>
results   == <<artifacts, traced, measured>>
aggregate == <<rows, manifest, mixed>>
tuning    == <<validated, lock>>
points    == <<chosen, todo>>
process   == <<running, switched, swapped>>
vars == <<world, index, tuning, results, aggregate, phase, points, process>>

Nothing == [p \in {} |-> NoFile]

\* An artifact: the executable it names, and, which it does not tell, the one
\* that ran, and whether it was replaced at the last moment.
Content == [stamp : 1 .. MaxMeasured, graph : Graphs, binary : Binaries,
            ran : Binaries, swapped : BOOLEAN]

ASSUME ContentAssumption == MaxMeasured \in Nat /\ {NoFile, Partial} \cap Content = {}

TypeOK ==
  /\ executable \in Binaries /\ pinned \in Binaries /\ source \in Graphs /\ role \in Roles
  /\ {pages, meta, named} \subseteq Graphs \cup {NoFile, Partial}
  /\ running \in Binaries \cup {NoFile} /\ validated \in Binaries \cup {NoFile, Partial}
  /\ {replaced, lock, switched, mixed, swapped} \subseteq BOOLEAN
  /\ artifacts \in [Points -> Content \cup {NoFile, Partial}]
  /\ traced \subseteq Points /\ measured \in 0 .. MaxMeasured
  /\ todo \subseteq chosen /\ chosen \subseteq Points

Init ==
  /\ executable \in Binaries /\ pinned = executable /\ running = NoFile
  /\ source \in Graphs /\ role \in Roles
  /\ pages = NoFile /\ meta = NoFile /\ named = NoFile /\ replaced = FALSE
  /\ validated = NoFile /\ lock = FALSE
  /\ artifacts = [p \in Points |-> NoFile] /\ traced = {} /\ measured = 0
  /\ rows = Nothing /\ manifest = Nothing /\ mixed = FALSE
  /\ phase = "idle" /\ chosen = {} /\ todo = {}
  /\ switched = FALSE /\ swapped = FALSE

-----------------------------------------------------------------------------
(* Around the runs.  These steps are limited to the phases that read the    *)
(* file in question: at any other moment they come to the same as in the   *)
(* next such phase, or between two invocations.                            *)

\* The port is built anew, or an earlier one is put back.
Install(b) ==
  /\ phase \in {"idle", "next", "invoke", "checked"} /\ b # executable
  /\ executable' = b
  /\ switched' = (phase # "idle")
  /\ swapped' = (swapped \/ phase = "checked")
  /\ UNCHANGED <<pinned, running, source, role, index, tuning, results, aggregate, phase, points>>

\* The registry is written anew; an invocation reads it once.
Pin ==
  /\ phase = "idle" /\ pinned # executable
  /\ pinned' = executable
  /\ UNCHANGED <<executable, source, role, index, tuning, results, aggregate, phase, points, process>>

\* Experiment 02 builds the graph again, or an earlier one is put back.  Once
\* MaxMeasured is reached the index is of no use, and so is this.
Rebuild(g) ==
  /\ phase \in {"idle", "pages", "checked"} /\ g # source /\ measured < MaxMeasured
  /\ source' = g /\ replaced' = TRUE
  /\ UNCHANGED <<executable, pinned, role, pages, meta, named, tuning, results, aggregate, phase,
                 points, process>>

-----------------------------------------------------------------------------
(* --phase export *)

\* The process is gone, and what only it knew.
AtEnd ==
  /\ phase' = "idle"
  /\ named' = NoFile /\ chosen' = {} /\ todo' = {}
  /\ running' = NoFile /\ switched' = FALSE /\ swapped' = FALSE

\* _invoke_port and the head of export_index.  This run skips it when it has
\* an artifact of the pinned binary, whatever the index; another does not.
\* What is exported is the same whichever executable does it.
Export ==
  /\ phase = "idle" /\ executable = pinned /\ measured < MaxMeasured
  /\ named' = source
  /\ pages' = Partial
  /\ phase' = "pages"
  /\ UNCHANGED <<world, meta, replaced, tuning, results, aggregate, points, process>>

\* export_shared_graph reads the graph that is there now.
WritePages ==
  /\ phase = "pages"
  /\ pages' = source /\ replaced' = FALSE
  /\ phase' = "codes"
  /\ UNCHANGED <<world, meta, named, tuning, results, aggregate, points, process>>

\* Codes and marker, which do not depend on the graph; write_meta truncates,
WriteMeta ==
  /\ phase = "codes"
  /\ meta' = Partial
  /\ phase' = "meta"
  /\ UNCHANGED <<world, pages, named, replaced, tuning, results, aggregate, points, process>>

\* and fills the file.
MetaWritten ==
  /\ phase = "meta"
  /\ meta' = named
  /\ AtEnd
  /\ UNCHANGED <<world, pages, replaced, tuning, results, aggregate>>

-----------------------------------------------------------------------------
(* --phase tune and --phase run *)

\* Mutant: a search does not compare the graph with the one exported.
AnyIndexAccepted == pages \in Graphs /\ meta \in Graphs

\* complete, load_meta, the hashes in run_search_phase, the size of the pages.
IndexAccepted == pages \in Graphs /\ meta = source

\* The validation queries are measured as the others are (below).  Nothing but
\* the hash in their artifact matters later, so that this is one step.
Validate ==
  /\ phase = "idle" /\ executable = pinned /\ IndexAccepted
  /\ validated' \in {Partial, pinned}
  /\ UNCHANGED <<world, index, lock, results, aggregate, phase, points, process>>

\* The lock is written from their artifact, a new one or one that is there.
Tune ==
  /\ phase = "idle" /\ validated = executable
  /\ lock' = TRUE
  /\ UNCHANGED <<world, index, validated, results, aggregate, phase, points, process>>

\* No formal test without a lock.
StartRun(selected) ==
  /\ phase = "idle" /\ lock
  /\ chosen' = selected /\ todo' = selected
  /\ phase' = "next"
  /\ UNCHANGED <<world, index, tuning, results, aggregate, process>>

First == CHOOSE p \in todo : \A q \in todo : p <= q

Whole(p) == artifacts[p] \notin {NoFile, Partial} /\ p \in traced

\* Mutant: a whole artifact is reused whatever binary it names.
ReusableOfAny(p) == Whole(p)

\* _reuse_measured_artifact: whole, and naming the executable that is there.
Reusable(p) == Whole(p) /\ artifacts[p].binary = executable

Reuse ==
  /\ phase = "next" /\ todo # {} /\ Reusable(First)
  /\ todo' = todo \ {First}
  /\ UNCHANGED <<world, index, tuning, results, aggregate, phase, chosen, process>>

Measure ==
  /\ phase = "next" /\ todo # {} /\ ~Reusable(First)
  /\ measured < MaxMeasured
  /\ phase' = "invoke"
  /\ UNCHANGED <<world, index, tuning, results, aggregate, points, process>>

\* _invoke_port hashes the executable.
Check ==
  /\ phase = "invoke" /\ executable = pinned
  /\ phase' = "checked"
  /\ UNCHANGED <<world, index, tuning, results, aggregate, points, process>>

\* Query order, hash of the graph, commit; then it starts what is there now,
\* under the hash it has checked.  A port that takes the index truncates the
\* trace first.
StartPort ==
  /\ phase = "checked" /\ IndexAccepted
  /\ running' = executable
  /\ traced' = traced \ {First}
  /\ phase' = "search"
  /\ UNCHANGED <<world, index, tuning, artifacts, measured, aggregate, points, switched, swapped>>

\* write_search_artifact truncates the artifact,
WriteArtifact ==
  /\ phase = "search"
  /\ artifacts' = [artifacts EXCEPT ![First] = Partial]
  /\ phase' = "artifact"
  /\ UNCHANGED <<world, index, tuning, traced, measured, aggregate, points, process>>

\* and fills it, with the hash it was started under; validate_artifact finds
\* what was asked for.
ArtifactWritten ==
  /\ phase = "artifact"
  /\ measured' = measured + 1
  /\ artifacts' = [artifacts EXCEPT ![First] =
                     [stamp |-> measured', graph |-> meta, binary |-> pinned,
                      ran |-> running, swapped |-> swapped]]
  /\ traced' = traced \cup {First}
  /\ todo' = todo \ {First}
  /\ running' = NoFile /\ swapped' = FALSE
  /\ phase' = "next"
  /\ UNCHANGED <<world, index, tuning, aggregate, chosen, switched>>

\* What validate_layer_completeness asks of the graphs.
OneGraph(table) ==
  role = "shared_baseline" =>
    \A p, q \in DOMAIN table : table[p].graph = table[q].graph

Measurements == [p \in chosen |-> artifacts[p]]

\* The matrix is complete: the rows are replaced,
WriteRows ==
  /\ phase = "next" /\ todo = {}
  /\ OneGraph(Measurements)
  /\ rows' = Measurements
  /\ mixed' = switched
  /\ phase' = "rows"
  /\ UNCHANGED <<world, index, tuning, results, manifest, points, process>>

\* and, once the frontier is, the manifest with the hashes of the artifacts.
WriteManifest ==
  /\ phase = "rows"
  /\ manifest' = Measurements
  /\ AtEnd
  /\ UNCHANGED <<world, pages, meta, replaced, tuning, results, rows, mixed>>

\* The process dies, or an error ends it: a refused index, an incomplete
\* matrix, too much variation between repeats.  Files stay as they are.
Stop ==
  /\ phase # "idle"
  /\ AtEnd
  /\ UNCHANGED <<world, pages, meta, replaced, tuning, results, aggregate>>

Next ==
  \/ \E b \in Binaries : Install(b)
  \/ Pin
  \/ \E g \in Graphs : Rebuild(g)
  \/ Export \/ WritePages \/ WriteMeta \/ MetaWritten
  \/ Validate \/ Tune
  \/ \E selected \in SUBSET Points \ {{}} : StartRun(selected)
  \/ Reuse \/ Measure \/ Check \/ StartPort \/ WriteArtifact \/ ArtifactWritten
  \/ WriteRows \/ WriteManifest
  \/ Stop

Spec == Init /\ [][Next]_vars

-----------------------------------------------------------------------------
(* Properties *)

\* Mutant: the plotter does not compare the hashes in the manifest.
AcceptsByName ==
  manifest # Nothing /\ Required \subseteq DOMAIN rows /\ OneGraph(rows)

\* _load_complete: the artifacts listed are unchanged, the rows are complete.
PlotterAccepts ==
  /\ manifest # Nothing
  /\ \A p \in DOMAIN manifest : artifacts[p] = manifest[p]
  /\ Required \subseteq DOMAIN rows
  /\ OneGraph(rows)

\* An index put together from two exports, one of which died, is searched
\* only if the source graph has been replaced since its pages were written:
\* the graph of the older export has been put back.
MixedIndexRefused == phase = "search" /\ pages # meta => replaced

\* The rows of an aggregate name one executable, unless it was replaced while
\* they were being collected; and that one has measured them all, unless it
\* was replaced, in whichever invocation, between the check of a measurement
\* and its start.
OneBinaryUnlessSwitched ==
  ~mixed =>
    /\ \A p, q \in DOMAIN rows : rows[p].binary = rows[q].binary
    /\ \A p \in DOMAIN rows : ~rows[p].swapped => rows[p].ran = rows[p].binary

\* What the plotter accepts are the contents of the artifacts it has checked:
\* a row of a listed point is the measurement the artifact still holds.
ListedRowsAreVerified ==
  PlotterAccepts => \A p \in DOMAIN rows \cap DOMAIN manifest : rows[p] = artifacts[p]

\* The same of every row: "the plotter verifies artifact hashes".
RowsAreVerified ==
  PlotterAccepts => \A p \in DOMAIN rows : rows[p] = artifacts[p]
=============================================================================
