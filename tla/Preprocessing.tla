---------------------------- MODULE Preprocessing ----------------------------
(***************************************************************************)
(* LabelCreator.main and its checkpoints.  The run that turns an fmi file  *)
(* into the data of the hub label router keeps everything in static fields *)
(* of a few classes and stores them in ch_data.ser after the contraction,  *)
(* in tmp_label_data.ser after the labels, and at last in hub_label_data.  *)
(* A run takes hours; it may be killed at any point and started again, and *)
(* then resumes from the files it finds.                                   *)
(*                                                                         *)
(* What a class or a file holds is the graph it was computed from, null if *)
(* it holds nothing.  The operator follows the README: with a new graph    *)
(* all intermediate files are deleted.                                     *)
(***************************************************************************)
EXTENDS Naturals

CONSTANTS Graphs,         \* the graphs an fmi file may contain
          null,
          partial,        \* content of a file whose writing was not finished
          MaxCrashes,     \* how often a run is killed
          MaxGraphs       \* how often the fmi file is replaced

Created == {"Edges", "Nodes", "DynamicGrid"}         \* saved by CHData
Prepared == {"hubEdges", "levels", "edgeInfo", "labelInfo"}  \* saved by HubLStore
Classes == Created \cup {"Labels"} \cup Prepared

Files == {"ch_data", "tmp_label_data", "tmp_HL_file", "hub_label_data"}

\* What a complete file may hold.
Contents == [Created -> Graphs] \cup [{"Labels"} -> Graphs] \cup [Prepared -> Graphs]

ASSUME PreprocessingAssumption ==
  /\ null \notin Graphs \cup Contents
  /\ partial \notin Graphs \cup Contents
  /\ null # partial

VARIABLES
  fmi,       \* the graph in the fmi file
  disk,      \* what every file holds: null, partial, or graphs by class
  mem,       \* what the static fields of every class hold
  pc,        \* where the run is, "off" if there is none
  exit,      \* how the last run ended
  served,    \* what the web server has loaded
  crashes, replaced

vars == <<fmi, disk, mem, pc, exit, served, crashes, replaced>>
counters == <<crashes, replaced>>

Nothing == [c \in Classes |-> null]

Init ==
  /\ fmi \in Graphs
  /\ disk = [f \in Files |-> null]
  /\ mem = Nothing
  /\ pc = "off" /\ exit = "none"
  /\ served = null
  /\ crashes = 0 /\ replaced = 0

\* The content of mem restricted to some classes, as a file stores it.
Image(classes) == [c \in classes |-> mem[c]]
Loaded(content) == [c \in Classes |-> IF c \in DOMAIN content THEN content[c] ELSE mem[c]]

Goto(label) == pc' = label /\ UNCHANGED <<fmi, exit, served, counters>>

\* The process ends; its memory is gone.
Exit(how) ==
  /\ pc' = "off" /\ exit' = how
  /\ mem' = Nothing
  /\ UNCHANGED <<fmi, served, counters>>

Start ==
  /\ pc = "off"
  /\ pc' = "readCH" /\ exit' = "none"
  /\ UNCHANGED <<fmi, disk, mem, served, counters>>
------------------------------------------------------------------------------
\* Mutant of setData: one of the classes is forgotten.
setDataEdgesNodes(content) ==
  [c \in Classes |-> IF c \in DOMAIN content /\ c # "DynamicGrid" THEN content[c] ELSE mem[c]]

setData(content) == Loaded(content)

\* CHData.readData: a missing file is "false", an unreadable one ends the run.
ReadCH ==
  /\ pc = "readCH"
  /\ \/ disk["ch_data"] = null /\ Goto("import") /\ UNCHANGED mem
     \/ disk["ch_data"] = partial /\ Exit("failed")
     \/ /\ disk["ch_data"] \notin {null, partial}
        /\ mem' = setData(disk["ch_data"])
        /\ Goto("readLabels")
  /\ UNCHANGED disk

\* importFmiFile and calculateCH: the three classes are filled.
CalculateCH ==
  /\ pc = "import"
  /\ mem' = [c \in Classes |-> IF c \in Created THEN fmi ELSE mem[c]]
  /\ Goto("storeCH")
  /\ UNCHANGED disk

\* Opening a file for writing empties it; it is complete when it is closed.
Open(label, file, next) ==
  /\ pc = label
  /\ disk' = [disk EXCEPT ![file] = partial]
  /\ Goto(next)
  /\ UNCHANGED mem

\* Mutant of Write: the file is not closed.
WriteUnclosed(label, file, classes, next) ==
  /\ pc = label
  /\ Goto(next)
  /\ UNCHANGED <<disk, mem>>

Write(label, file, classes, next) ==
  /\ pc = label
  /\ disk' = [disk EXCEPT ![file] = Image(classes)]
  /\ Goto(next)
  /\ UNCHANGED mem

StoreCH ==
  \/ Open("storeCH", "ch_data", "writeCH")
  \/ Write("writeCH", "ch_data", Created, "readLabels")

\* Mutant of ReadLabels: a missing file ends the run.
ReadLabelsStrict ==
  /\ pc = "readLabels"
  /\ \/ disk["tmp_label_data"] \in {null, partial} /\ Exit("failed")
     \/ /\ disk["tmp_label_data"] \notin {null, partial}
        /\ mem' = Loaded(disk["tmp_label_data"])
        /\ Goto("format")
  /\ UNCHANGED disk

\* TmpLabelData.readData
ReadLabels ==
  /\ pc = "readLabels"
  /\ \/ disk["tmp_label_data"] = null /\ Goto("labels") /\ UNCHANGED mem
     \/ disk["tmp_label_data"] = partial /\ Exit("failed")
     \/ /\ disk["tmp_label_data"] \notin {null, partial}
        /\ mem' = Loaded(disk["tmp_label_data"])
        /\ Goto("format")
  /\ UNCHANGED disk

\* A step that reads classes fails if one of them holds nothing.
Needs(classes) == \A c \in classes : mem[c] # null

NullPointer == Exit("nullPointer")

\* calcLabels, from the levels, the edges and the grid.
CalcLabels ==
  /\ pc = "labels"
  /\ IF Needs(Created)
     THEN mem' = [mem EXCEPT !["Labels"] = mem["Nodes"]] /\ Goto("storeLabels")
     ELSE NullPointer
  /\ UNCHANGED disk

StoreLabels ==
  \/ Open("storeLabels", "tmp_label_data", "writeLabels")
  \/ Write("writeLabels", "tmp_label_data", {"Labels"}, "format")

\* HubLEdges.initialize and HubLNodes.initNodeData: the levels are moved.
InitNodeData ==
  /\ pc = "format"
  /\ IF Needs({"Edges", "Nodes"})
     THEN /\ mem' = [mem EXCEPT !["hubEdges"] = mem["Edges"],
                                !["levels"] = mem["Nodes"], !["Nodes"] = null]
          /\ Goto("edgeInfo")
     ELSE NullPointer
  /\ UNCHANGED disk

\* HubLNodes.initEdgeInfo: the edge lists are moved.
InitEdgeInfo ==
  /\ pc = "edgeInfo"
  /\ IF Needs({"levels", "DynamicGrid", "Edges"})
     THEN /\ mem' = [mem EXCEPT !["edgeInfo"] = mem["DynamicGrid"], !["DynamicGrid"] = null]
          /\ Goto("openTmp")
     ELSE NullPointer
  /\ UNCHANGED disk

\* Mutant of WriteTmp: a file left by an earlier run is kept.
WriteTmpOnce ==
  /\ pc = "openTmp"
  /\ disk' = IF disk["tmp_HL_file"] = null
             THEN [disk EXCEPT !["tmp_HL_file"] = Image({"Labels"})] ELSE disk
  /\ mem' = [mem EXCEPT !["Labels"] = null]
  /\ Goto("readTmp")

\* HubLNodes.initLabelInfo: the labels leave the memory for a file, which
\* replaces one of an earlier run, and are read back into other arrays.  No
\* other run reads that file, so it does not matter when it is complete.
WriteTmp ==
  /\ pc = "openTmp"
  /\ disk' = [disk EXCEPT !["tmp_HL_file"] = Image({"Labels"})]
  /\ mem' = [mem EXCEPT !["Labels"] = null]
  /\ Goto("readTmp")

InitLabelInfo ==
  /\ pc = "readTmp"
  /\ mem' = [mem EXCEPT !["labelInfo"] = disk["tmp_HL_file"]["Labels"]]
  /\ Goto("storeHub")
  /\ UNCHANGED disk

StoreHub ==
  \/ Open("storeHub", "hub_label_data", "writeHub")
  \/ Write("writeHub", "hub_label_data", Prepared, "end")

\* main returns.
Finish == pc = "end" /\ Exit("ok") /\ UNCHANGED disk

RunStep ==
  \/ ReadCH \/ CalculateCH \/ StoreCH
  \/ ReadLabels \/ CalcLabels \/ StoreLabels
  \/ InitNodeData \/ InitEdgeInfo \/ WriteTmp \/ InitLabelInfo
  \/ StoreHub \/ Finish
------------------------------------------------------------------------------
\* The run is killed, or a write fails and it calls System.exit.
Crash ==
  /\ pc # "off"
  /\ crashes < MaxCrashes
  /\ crashes' = crashes + 1
  /\ pc' = "off" /\ exit' = "crashed"
  /\ mem' = Nothing
  /\ UNCHANGED <<fmi, disk, served, replaced>>

\* The operator deletes a file that a run could not read.
DeleteFile(file) ==
  /\ pc = "off"
  /\ disk[file] # null
  /\ disk' = [disk EXCEPT ![file] = null]
  /\ exit' = "none"
  /\ UNCHANGED <<fmi, mem, pc, served, counters>>

\* A new graph: "all intermediate files should be deleted" (README).  Only
\* the files that a run resumes from matter.
ReplaceGraph(g) ==
  /\ pc = "off"
  /\ replaced < MaxGraphs
  /\ g # fmi
  /\ fmi' = g
  /\ replaced' = replaced + 1
  /\ disk' = [disk EXCEPT !["ch_data"] = null, !["tmp_label_data"] = null]
  /\ exit' = "none"
  /\ UNCHANGED <<mem, pc, served, crashes>>

\* SearouterApplication.main: the server reads the data, at any time; it
\* does not start on a truncated file, but on a missing one it does.
StartServer ==
  /\ served' = IF disk["hub_label_data"] = partial THEN null ELSE disk["hub_label_data"]
  /\ UNCHANGED <<fmi, disk, mem, pc, exit, counters>>

Intermediate == {"ch_data", "tmp_label_data"}

Next ==
  \/ Start
  \/ RunStep
  \/ Crash
  \/ \E file \in Intermediate : DeleteFile(file)
  \/ \E g \in Graphs : ReplaceGraph(g)
  \/ StartServer

Spec == Init /\ [][Next]_vars

\* A run keeps running; an operator restarts a run that did not finish and
\* deletes a file that could not be read.
FairSpec ==
  /\ Spec
  /\ WF_vars(RunStep)
  /\ WF_vars(exit # "ok" /\ Start)
  /\ \A file \in Intermediate : SF_vars(disk[file] = partial /\ exit = "failed" /\ DeleteFile(file))
------------------------------------------------------------------------------
\* Type invariant: a complete file holds all its classes, each with data.
TypeOK ==
  /\ fmi \in Graphs /\ crashes \in Nat
  /\ disk \in [Files -> {null, partial} \cup Contents]
  /\ mem \in [Classes -> Graphs \cup {null}]
  /\ exit \in {"none", "ok", "failed", "crashed", "nullPointer"}

\* Whether a step was reached by computing or by resuming from a file, the
\* classes it reads have been filled.
NoNullPointer == exit # "nullPointer"

\* The data of the server comes from one graph: levels, edges and labels of
\* different graphs are never mixed, whatever was killed and resumed.
ServedIsWhole ==
  served # null => \E g \in Graphs : served = [c \in Prepared |-> g]

\* A run that ended normally has left the data of the graph it was given.
OutputIsCurrent == exit = "ok" => disk["hub_label_data"] = [c \in Prepared |-> fmi]

\* A run gives up only if an earlier one was killed while it wrote a file.
FailsOnlyAfterCrash ==
  exit = "failed" => crashes > 0 /\ \E file \in Intermediate : disk[file] = partial

\* If runs are not killed for ever and unreadable files are deleted, a run
\* ends normally, from whatever state of the files, and after a new graph
\* again.
EventuallyFinished == []<>(exit = "ok")
------------------------------------------------------------------------------
\* The inductive invariant.

\* The classes that are filled at each point of a run: they do not depend on
\* whether a step was reached by computing or by resuming from a file.
Held(label) ==
  CASE label \in {"storeCH", "writeCH", "readLabels", "labels"} -> Created
    [] label \in {"storeLabels", "writeLabels", "format"} -> Created \cup {"Labels"}
    [] label = "edgeInfo" -> {"Edges", "DynamicGrid", "Labels", "hubEdges", "levels"}
    [] label = "openTmp" -> {"Edges", "Labels", "hubEdges", "levels", "edgeInfo"}
    [] label = "readTmp" -> {"Edges", "hubEdges", "levels", "edgeInfo"}
    [] label \in {"storeHub", "writeHub", "end"} -> {"Edges"} \cup Prepared
    [] OTHER -> {}

MemoryInv == \A c \in Classes : mem[c] = IF c \in Held(pc) THEN fmi ELSE null

\* The files a run resumes from are of the graph in the fmi file; the others
\* may be of an earlier graph, but are of one graph.
FilesInv ==
  /\ disk["ch_data"] \in {null, partial, [c \in Created |-> fmi]}
  /\ disk["tmp_label_data"] \in {null, partial, [c \in {"Labels"} |-> fmi]}
  /\ disk["hub_label_data"] \in {null, partial} \cup {[c \in Prepared |-> g] : g \in Graphs}
  /\ pc = "readTmp" => disk["tmp_HL_file"] = [c \in {"Labels"} |-> fmi]
  /\ pc = "end" => disk["hub_label_data"] = [c \in Prepared |-> fmi]

\* A file is unfinished only while it is written, or after a crash.
PartialInv ==
  /\ disk["ch_data"] = partial => pc = "writeCH" \/ crashes > 0
  /\ disk["tmp_label_data"] = partial => pc = "writeLabels" \/ crashes > 0

IInv ==
  /\ TypeOK /\ MemoryInv /\ FilesInv /\ PartialInv
  /\ pc # "off" => exit = "none"
  /\ NoNullPointer /\ ServedIsWhole /\ OutputIsCurrent /\ FailsOnlyAfterCrash
==============================================================================
