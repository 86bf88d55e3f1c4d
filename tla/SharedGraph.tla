----------------------------- MODULE SharedGraph -----------------------------
(***************************************************************************)
(* The shared graph of the DiskANN comparison (02_diskann_fair/src,        *)
(* diskann_runner.rs): the first adapter run builds the Vamana graph and   *)
(* saves it, with a meta file naming every build parameter; later runs     *)
(* whose parameters match the meta file load the graph instead of building *)
(* it.  The two files are named after some of the parameters only, they    *)
(* are written one after the other, and a run may die between any two      *)
(* steps or fail to write.  Runs follow one another.                       *)
(***************************************************************************)
EXTENDS Naturals, FiniteSets

CONSTANTS
  Configs,    \* build parameters a run may be given
  Stem(_),    \* the part of them the files are named after
  NoFile,     \* the file does not exist
  Partial     \* the file was truncated and not completed

ASSUME FileAssumption  == NoFile \notin Configs /\ Partial \notin Configs /\ NoFile # Partial

Stems   == {Stem(c) : c \in Configs}
Files   == Configs \cup {NoFile, Partial}

VARIABLES
  graphFile,   \* graph_path of each stem: the parameters it was built with
  metaFile,    \* meta_path of each stem: the parameters it names
  config,      \* the parameters of the run in progress, or of the last one
  phase,       \* what the run is about to do; "idle" between runs
  used,        \* the graph the run searches
  lastRun,     \* the parameters of the last run on a stem, if it completed
  torn         \* the stems whose graph was overwritten by a run that died
               \* before it described it; history, nothing reads it

sharedVars == <<graphFile, metaFile, config, phase, used, lastRun, torn>>

Phases == {"idle", "load", "build", "save", "saving", "describe", "describing", "search", "unreadable"}

SharedTypeOK ==
  /\ graphFile \in [Stems -> Files] /\ metaFile \in [Stems -> Files]
  /\ lastRun \in [Stems -> Files]
  /\ config \in Configs
  /\ used \in IF phase \in {"load", "build"} THEN {NoFile} ELSE Files
  /\ phase \in Phases
  /\ torn \subseteq Stems

SharedInit ==
  /\ graphFile = [s \in Stems |-> NoFile] /\ metaFile = [s \in Stems |-> NoFile]
  /\ lastRun = [s \in Stems |-> NoFile]
  /\ config \in Configs /\ phase = "idle" /\ used = NoFile
  /\ torn = {}

Here == Stem(config)

\* Mutant: the graph file is enough.
IsValidAnyMeta(c) ==
  /\ graphFile[Stem(c)] # NoFile
  /\ metaFile[Stem(c)] # NoFile

\* is_valid: the graph file exists, and the meta file begins with the key.
IsValid(c) ==
  /\ graphFile[Stem(c)] # NoFile
  /\ metaFile[Stem(c)] = c

Start(c) ==
  /\ phase = "idle"
  /\ config' = c /\ used' = NoFile
  /\ phase' = IF IsValid(c) THEN "load" ELSE "build"
  /\ UNCHANGED <<graphFile, metaFile, lastRun, torn>>

\* copy_shared_graph: the header of a partial file counts no points, and the
\* load fails; nothing else is compared.
LoadGraph ==
  /\ phase = "load"
  /\ used'  = graphFile[Here]
  /\ phase' = IF graphFile[Here] = Partial THEN "unreadable" ELSE "search"
  /\ UNCHANGED <<graphFile, metaFile, config, lastRun, torn>>

\* multi_insert, batch after batch
BuildGraph ==
  /\ phase = "build"
  /\ used' = config /\ phase' = "save"
  /\ UNCHANGED <<graphFile, metaFile, config, lastRun, torn>>

\* save_direct truncates the file, and completes it last of all.
SaveGraph ==
  /\ phase = "save"
  /\ graphFile' = [graphFile EXCEPT ![Here] = Partial]
  /\ phase' = "saving"
  /\ UNCHANGED <<metaFile, config, used, lastRun, torn>>

GraphSaved ==
  /\ phase = "saving"
  /\ graphFile' = [graphFile EXCEPT ![Here] = config]
  /\ phase' = "describe"
  /\ UNCHANGED <<metaFile, config, used, lastRun, torn>>

\* fs::write truncates the meta file, then fills it.
WriteMeta ==
  /\ phase = "describe"
  /\ metaFile' = [metaFile EXCEPT ![Here] = Partial]
  /\ phase' = "describing"
  /\ UNCHANGED <<graphFile, config, used, lastRun, torn>>

\* Mutant: the meta file of an earlier build is kept.
MetaKept ==
  /\ phase = "describing"
  /\ phase' = "search"
  /\ UNCHANGED <<metaFile, graphFile, config, used, lastRun, torn>>

MetaWritten ==
  /\ phase = "describing"
  /\ metaFile' = [metaFile EXCEPT ![Here] = config]
  /\ torn' = torn \ {Here}
  /\ phase' = "search"
  /\ UNCHANGED <<graphFile, config, used, lastRun>>

\* The search ends the run; a graph that could not be read ended it before.
Finish ==
  /\ phase \in {"search", "unreadable"}
  /\ lastRun' = [lastRun EXCEPT ![Here] = IF phase = "search" THEN config ELSE NoFile]
  /\ phase' = "idle"
  /\ UNCHANGED <<graphFile, metaFile, config, used, torn>>

\* The process dies, or a write fails: the files stay as they are.
Crash ==
  /\ phase # "idle"
  /\ torn' = IF phase \in {"saving", "describe"} THEN torn \cup {Here} ELSE torn
  /\ lastRun' = [lastRun EXCEPT ![Here] = NoFile]
  /\ phase' = "idle"
  /\ UNCHANGED <<graphFile, metaFile, config, used>>

SharedNext ==
  \/ \E c \in Configs : Start(c)
  \/ LoadGraph \/ BuildGraph
  \/ SaveGraph \/ GraphSaved \/ WriteMeta \/ MetaWritten
  \/ Finish \/ Crash

SharedSpec == SharedInit /\ [][SharedNext]_sharedVars

-----------------------------------------------------------------------------
(* Properties *)

\* A run never searches a graph built with other parameters than its own:
\* changing them invalidates the cached graph.
UsesOwnGraph == phase = "search" => used = config

\* What is true of it: the graph is the run's own unless a run that gave the
\* files the same name died between writing the graph and describing it, and
\* none has completed them since.
UsesOwnGraphUnlessTorn == Here \notin torn => UsesOwnGraph

\* A run with the parameters of the last run of its stem does not build the
\* graph again, if that run completed.
CompletedBuildIsReused == phase = "build" => lastRun[Here] # config
=============================================================================
