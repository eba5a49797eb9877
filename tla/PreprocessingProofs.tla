------------------------- MODULE PreprocessingProofs -------------------------
(***************************************************************************)
(* The safety properties of the preprocessing pipeline for any set of      *)
(* graphs, any number of kills and any number of replaced graphs.          *)
(***************************************************************************)
EXTENDS Preprocessing, TLAPS

\* A file that holds one graph in all its classes is complete.
LEMMA WholeIsComplete ==
  ASSUME NEW g \in Graphs
  PROVE  /\ [c \in Created |-> g] \in Contents
         /\ [c \in {"Labels"} |-> g] \in Contents
         /\ [c \in Prepared |-> g] \in Contents
BY DEF Contents

\* The start: no file, nothing in memory.
LEMMA InitInv == Init => IInv
<1> SUFFICES ASSUME Init PROVE IInv
  OBVIOUS
<1>1. TypeOK
  BY DEF Init, TypeOK, Nothing
<1>2. MemoryInv
  BY DEF Init, MemoryInv, Nothing, Held
<1>3. FilesInv /\ PartialInv
  BY PreprocessingAssumption DEF Init, FilesInv, PartialInv, Files
<1> QED
  BY <1>1, <1>2, <1>3
     DEF Init, IInv, NoNullPointer, ServedIsWhole, OutputIsCurrent, FailsOnlyAfterCrash

\* A step that goes on inside a run and keeps the parts about memory and
\* files keeps the invariant: the properties are about runs that ended.
LEMMA GotoInv ==
  ASSUME IInv, pc # "off", NEW label, Goto(label),
         TypeOK', MemoryInv', FilesInv', PartialInv'
  PROVE  IInv'
BY DEF IInv, Goto, counters, NoNullPointer, ServedIsWhole, OutputIsCurrent, FailsOnlyAfterCrash

\* What is in memory at a point of a run, and that a step finds it filled.
LEMMA NeedsHeld ==
  ASSUME IInv, NEW classes \in SUBSET Held(pc), classes \subseteq Classes
  PROVE  Needs(classes)
BY PreprocessingAssumption DEF IInv, TypeOK, MemoryInv, Needs

\* The reading of the first checkpoint.
LEMMA ReadCHInv == IInv /\ ReadCH => IInv'
<1> SUFFICES ASSUME IInv, ReadCH PROVE IInv'
  OBVIOUS
<1>1. CASE disk["ch_data"] = null /\ Goto("import") /\ UNCHANGED mem
  <2>1. TypeOK' /\ FilesInv' /\ PartialInv'
    BY <1>1 DEF IInv, ReadCH, Goto, counters, TypeOK, FilesInv, PartialInv
  <2>2. MemoryInv'
    BY <1>1 DEF IInv, ReadCH, Goto, MemoryInv, Held
  <2> QED BY <1>1, <2>1, <2>2, GotoInv DEF ReadCH
<1>2. CASE disk["ch_data"] = partial /\ Exit("failed")
  <2>1. TypeOK' /\ FilesInv' /\ PartialInv'
    BY <1>2 DEF IInv, ReadCH, Exit, Nothing, counters, TypeOK, FilesInv, PartialInv
  <2>2. MemoryInv'
    BY <1>2 DEF IInv, Exit, MemoryInv, Held, Nothing
  <2>3. FailsOnlyAfterCrash'
    BY <1>2 DEF IInv, ReadCH, Exit, counters, PartialInv, FailsOnlyAfterCrash, Intermediate
  <2> QED BY <1>2, <2>1, <2>2, <2>3
          DEF IInv, Exit, counters, NoNullPointer, ServedIsWhole, OutputIsCurrent
<1>3. CASE /\ disk["ch_data"] \notin {null, partial}
           /\ mem' = setData(disk["ch_data"])
           /\ Goto("readLabels")
  <2>1. disk["ch_data"] = [c \in Created |-> fmi]
    BY <1>3 DEF IInv, FilesInv
  <2>2. MemoryInv' /\ mem' \in [Classes -> Graphs \cup {null}]
    BY <1>3, <2>1 DEF IInv, ReadCH, Goto, TypeOK, MemoryInv, Held, setData, Loaded, Classes
  <2>3. TypeOK' /\ FilesInv' /\ PartialInv'
    BY <1>3, <2>2 DEF IInv, ReadCH, Goto, counters, TypeOK, FilesInv, PartialInv
  <2> QED BY <1>3, <2>2, <2>3, GotoInv DEF ReadCH
<1> QED BY <1>1, <1>2, <1>3 DEF ReadCH

\* The reading of the second checkpoint.
LEMMA ReadLabelsInv == IInv /\ ReadLabels => IInv'
<1> SUFFICES ASSUME IInv, ReadLabels PROVE IInv'
  OBVIOUS
<1>1. CASE disk["tmp_label_data"] = null /\ Goto("labels") /\ UNCHANGED mem
  <2>1. TypeOK' /\ FilesInv' /\ PartialInv'
    BY <1>1 DEF IInv, ReadLabels, Goto, counters, TypeOK, FilesInv, PartialInv
  <2>2. MemoryInv'
    BY <1>1 DEF IInv, ReadLabels, Goto, MemoryInv, Held
  <2> QED BY <1>1, <2>1, <2>2, GotoInv DEF ReadLabels
<1>2. CASE disk["tmp_label_data"] = partial /\ Exit("failed")
  <2>1. TypeOK' /\ FilesInv' /\ PartialInv'
    BY <1>2 DEF IInv, ReadLabels, Exit, Nothing, counters, TypeOK, FilesInv, PartialInv
  <2>2. MemoryInv'
    BY <1>2 DEF IInv, Exit, MemoryInv, Held, Nothing
  <2>3. FailsOnlyAfterCrash'
    BY <1>2 DEF IInv, ReadLabels, Exit, counters, PartialInv, FailsOnlyAfterCrash, Intermediate
  <2> QED BY <1>2, <2>1, <2>2, <2>3
          DEF IInv, Exit, counters, NoNullPointer, ServedIsWhole, OutputIsCurrent
<1>3. CASE /\ disk["tmp_label_data"] \notin {null, partial}
           /\ mem' = Loaded(disk["tmp_label_data"])
           /\ Goto("format")
  <2>1. disk["tmp_label_data"] = [c \in {"Labels"} |-> fmi]
    BY <1>3 DEF IInv, FilesInv
  <2>2. MemoryInv' /\ mem' \in [Classes -> Graphs \cup {null}]
    BY <1>3, <2>1 DEF IInv, ReadLabels, Goto, TypeOK, MemoryInv, Held, Loaded, Classes
  <2>3. TypeOK' /\ FilesInv' /\ PartialInv'
    BY <1>3, <2>2 DEF IInv, ReadLabels, Goto, counters, TypeOK, FilesInv, PartialInv
  <2> QED BY <1>3, <2>2, <2>3, GotoInv DEF ReadLabels
<1> QED BY <1>1, <1>2, <1>3 DEF ReadLabels

\* The steps that fill or move classes in memory.  None of them meets a
\* class that holds nothing.
LEMMA ComputeInv ==
  IInv /\ (CalculateCH \/ CalcLabels \/ InitNodeData \/ InitEdgeInfo \/ InitLabelInfo) => IInv'
<1> SUFFICES ASSUME IInv,
                    CalculateCH \/ CalcLabels \/ InitNodeData \/ InitEdgeInfo \/ InitLabelInfo
             PROVE  IInv'
  OBVIOUS
<1>1. CASE CalculateCH
  <2>1. MemoryInv' /\ mem' \in [Classes -> Graphs \cup {null}]
    BY <1>1 DEF IInv, CalculateCH, Goto, TypeOK, MemoryInv, Held, Created, Classes
  <2>2. TypeOK' /\ FilesInv' /\ PartialInv'
    BY <1>1, <2>1 DEF IInv, CalculateCH, Goto, counters, TypeOK, FilesInv, PartialInv
  <2> QED BY <1>1, <2>1, <2>2, GotoInv DEF CalculateCH
<1>2. CASE CalcLabels
  <2>1. Needs(Created)
    BY <1>2, NeedsHeld DEF CalcLabels, Held, Classes
  <2>2. MemoryInv' /\ mem' \in [Classes -> Graphs \cup {null}]
    BY <1>2, <2>1 DEF IInv, CalcLabels, Goto, TypeOK, MemoryInv, Held, Created, Classes
  <2>3. TypeOK' /\ FilesInv' /\ PartialInv'
    BY <1>2, <2>1, <2>2 DEF IInv, CalcLabels, Goto, counters, TypeOK, FilesInv, PartialInv
  <2> QED BY <1>2, <2>1, <2>2, <2>3, GotoInv DEF CalcLabels
<1>3. CASE InitNodeData
  <2>1. Needs({"Edges", "Nodes"})
    BY <1>3, NeedsHeld DEF InitNodeData, Held, Classes, Created
  <2>2. MemoryInv' /\ mem' \in [Classes -> Graphs \cup {null}]
    BY <1>3, <2>1 DEF IInv, InitNodeData, Goto, TypeOK, MemoryInv, Held, Created, Prepared, Classes
  <2>3. TypeOK' /\ FilesInv' /\ PartialInv'
    BY <1>3, <2>1, <2>2 DEF IInv, InitNodeData, Goto, counters, TypeOK, FilesInv, PartialInv
  <2> QED BY <1>3, <2>1, <2>2, <2>3, GotoInv DEF InitNodeData
<1>4. CASE InitEdgeInfo
  <2>1. Needs({"levels", "DynamicGrid", "Edges"})
    BY <1>4, NeedsHeld DEF InitEdgeInfo, Held, Classes, Created, Prepared
  <2>2. MemoryInv' /\ mem' \in [Classes -> Graphs \cup {null}]
    BY <1>4, <2>1 DEF IInv, InitEdgeInfo, Goto, TypeOK, MemoryInv, Held, Created, Prepared, Classes
  <2>3. TypeOK' /\ FilesInv' /\ PartialInv'
    BY <1>4, <2>1, <2>2 DEF IInv, InitEdgeInfo, Goto, counters, TypeOK, FilesInv, PartialInv
  <2> QED BY <1>4, <2>1, <2>2, <2>3, GotoInv DEF InitEdgeInfo
<1>5. CASE InitLabelInfo
  <2>1. disk["tmp_HL_file"]["Labels"] = fmi
    BY <1>5 DEF IInv, FilesInv, InitLabelInfo
  <2>2. MemoryInv' /\ mem' \in [Classes -> Graphs \cup {null}]
    BY <1>5, <2>1 DEF IInv, InitLabelInfo, Goto, TypeOK, MemoryInv, Held, Created, Prepared, Classes
  <2>3. TypeOK' /\ FilesInv' /\ PartialInv'
    BY <1>5, <2>2 DEF IInv, InitLabelInfo, Goto, counters, TypeOK, FilesInv, PartialInv
  <2> QED BY <1>5, <2>2, <2>3, GotoInv DEF InitLabelInfo
<1> QED BY <1>1, <1>2, <1>3, <1>4, <1>5

\* The steps that write a file: what is stored is the graph of the run.
LEMMA StoreInv ==
  IInv /\ (StoreCH \/ StoreLabels \/ StoreHub \/ WriteTmp) => IInv'
<1> SUFFICES ASSUME IInv, StoreCH \/ StoreLabels \/ StoreHub \/ WriteTmp PROVE IInv'
  OBVIOUS
<1> USE DEF Files
<1>a. fmi \in Graphs /\ disk \in [Files -> {null, partial} \cup Contents]
  BY DEF IInv, TypeOK
<1>1. CASE Open("storeCH", "ch_data", "writeCH")
  <2>1. MemoryInv'
    BY <1>1 DEF IInv, Open, Goto, MemoryInv, Held
  <2>2. TypeOK' /\ FilesInv' /\ PartialInv'
    BY <1>1, <1>a DEF IInv, Open, Goto, counters, TypeOK, FilesInv, PartialInv
  <2> QED BY <1>1, <2>1, <2>2, GotoInv DEF Open
<1>2. CASE Write("writeCH", "ch_data", Created, "readLabels")
  <2>1. Image(Created) = [c \in Created |-> fmi]
    BY <1>2 DEF IInv, Write, Image, MemoryInv, Held, Classes
  <2>2. MemoryInv'
    BY <1>2 DEF IInv, Write, Goto, MemoryInv, Held
  <2>3. TypeOK' /\ FilesInv' /\ PartialInv'
    BY <1>2, <1>a, <2>1, WholeIsComplete, PreprocessingAssumption
       DEF IInv, Write, Goto, counters, TypeOK, FilesInv, PartialInv
  <2> QED BY <1>2, <2>2, <2>3, GotoInv DEF Write
<1>3. CASE Open("storeLabels", "tmp_label_data", "writeLabels")
  <2>1. MemoryInv'
    BY <1>3 DEF IInv, Open, Goto, MemoryInv, Held
  <2>2. TypeOK' /\ FilesInv' /\ PartialInv'
    BY <1>3, <1>a DEF IInv, Open, Goto, counters, TypeOK, FilesInv, PartialInv
  <2> QED BY <1>3, <2>1, <2>2, GotoInv DEF Open
<1>4. CASE Write("writeLabels", "tmp_label_data", {"Labels"}, "format")
  <2>1. Image({"Labels"}) = [c \in {"Labels"} |-> fmi]
    BY <1>4 DEF IInv, Write, Image, MemoryInv, Held, Classes
  <2>2. MemoryInv'
    BY <1>4 DEF IInv, Write, Goto, MemoryInv, Held
  <2>3. TypeOK' /\ FilesInv' /\ PartialInv'
    BY <1>4, <1>a, <2>1, WholeIsComplete, PreprocessingAssumption
       DEF IInv, Write, Goto, counters, TypeOK, FilesInv, PartialInv
  <2> QED BY <1>4, <2>2, <2>3, GotoInv DEF Write
<1>5. CASE Open("storeHub", "hub_label_data", "writeHub")
  <2>1. MemoryInv'
    BY <1>5 DEF IInv, Open, Goto, MemoryInv, Held
  <2>2. TypeOK' /\ FilesInv' /\ PartialInv'
    BY <1>5, <1>a DEF IInv, Open, Goto, counters, TypeOK, FilesInv, PartialInv
  <2> QED BY <1>5, <2>1, <2>2, GotoInv DEF Open
<1>6. CASE Write("writeHub", "hub_label_data", Prepared, "end")
  <2>1. Image(Prepared) = [c \in Prepared |-> fmi]
    BY <1>6 DEF IInv, Write, Image, MemoryInv, Held, Classes
  <2>2. MemoryInv'
    BY <1>6 DEF IInv, Write, Goto, MemoryInv, Held
  <2>3. disk' = [disk EXCEPT !["hub_label_data"] = [c \in Prepared |-> fmi]] /\ fmi' = fmi
    BY <1>6, <2>1 DEF Write, Goto
  <2>4. TypeOK' /\ PartialInv'
    BY <1>6, <1>a, <2>3, WholeIsComplete
       DEF IInv, Write, Goto, counters, TypeOK, PartialInv
  <2>5. disk'["hub_label_data"] = [c \in Prepared |-> fmi']
    BY <1>a, <2>3
  <2>6. FilesInv'
    BY <1>6, <1>a, <2>3, <2>5 DEF IInv, Write, Goto, TypeOK, FilesInv
  <2> QED BY <1>6, <2>2, <2>4, <2>6, GotoInv DEF Write
<1>7. CASE WriteTmp
  <2>1. Image({"Labels"}) = [c \in {"Labels"} |-> fmi]
    BY <1>7 DEF IInv, WriteTmp, Image, MemoryInv, Held, Classes
  <2>2. MemoryInv' /\ mem' \in [Classes -> Graphs \cup {null}]
    BY <1>7 DEF IInv, WriteTmp, Goto, TypeOK, MemoryInv, Held, Classes, Prepared
  <2>3. TypeOK' /\ FilesInv' /\ PartialInv'
    BY <1>7, <1>a, <2>1, <2>2, WholeIsComplete
       DEF IInv, WriteTmp, Goto, counters, TypeOK, FilesInv, PartialInv
  <2> QED BY <1>7, <2>2, <2>3, GotoInv DEF WriteTmp
<1> QED BY <1>1, <1>2, <1>3, <1>4, <1>5, <1>6, <1>7 DEF StoreCH, StoreLabels, StoreHub

\* The steps outside of a run, and its start and end.
LEMMA OperatorInv ==
  IInv /\ (\/ Start \/ Finish \/ Crash \/ StartServer
           \/ \E file \in Intermediate : DeleteFile(file)
           \/ \E g \in Graphs : ReplaceGraph(g)) => IInv'
<1> SUFFICES ASSUME IInv,
                    \/ Start \/ Finish \/ Crash \/ StartServer
                    \/ \E file \in Intermediate : DeleteFile(file)
                    \/ \E g \in Graphs : ReplaceGraph(g)
             PROVE  IInv'
  OBVIOUS
<1> USE DEF Files, IInv, TypeOK, FilesInv, PartialInv, counters,
            NoNullPointer, ServedIsWhole, OutputIsCurrent, FailsOnlyAfterCrash
<1>1. CASE Start
  <2>1. MemoryInv'
    BY <1>1 DEF Start, MemoryInv, Held
  <2> QED BY <1>1, <2>1 DEF Start
<1>2. CASE Finish
  <2>1. MemoryInv' /\ mem' \in [Classes -> Graphs \cup {null}]
    BY <1>2 DEF Finish, Exit, Nothing, MemoryInv, Held
  <2> QED BY <1>2, <2>1 DEF Finish, Exit
<1>3. CASE Crash
  <2>1. MemoryInv' /\ mem' \in [Classes -> Graphs \cup {null}]
    BY <1>3 DEF Crash, Nothing, MemoryInv, Held
  <2> QED BY <1>3, <2>1 DEF Crash
<1>4. CASE StartServer
  <2>1. MemoryInv'
    BY <1>4 DEF StartServer, MemoryInv
  <2>2. ServedIsWhole'
    BY <1>4 DEF StartServer
  <2> QED BY <1>4, <2>1, <2>2 DEF StartServer
<1>5. ASSUME NEW file \in Intermediate, DeleteFile(file) PROVE IInv'
  <2>1. MemoryInv'
    BY <1>5 DEF DeleteFile, MemoryInv
  <2> QED BY <1>5, <2>1, PreprocessingAssumption DEF DeleteFile, Intermediate
<1>6. ASSUME NEW g \in Graphs, ReplaceGraph(g) PROVE IInv'
  <2>1. MemoryInv'
    BY <1>6 DEF ReplaceGraph, MemoryInv, Held
  <2> QED BY <1>6, <2>1, PreprocessingAssumption DEF ReplaceGraph
<1> QED BY <1>1, <1>2, <1>3, <1>4, <1>5, <1>6

\* Every step keeps the invariant.
LEMMA StepInv == IInv /\ [Next]_vars => IInv'
<1> SUFFICES ASSUME IInv, [Next]_vars PROVE IInv'
  OBVIOUS
<1>1. CASE Next
  BY <1>1, ReadCHInv, ReadLabelsInv, ComputeInv, StoreInv, OperatorInv DEF Next, RunStep
<1>2. CASE UNCHANGED vars
  BY <1>2 DEF vars, counters, IInv, TypeOK, MemoryInv, FilesInv, PartialInv,
              NoNullPointer, ServedIsWhole, OutputIsCurrent, FailsOnlyAfterCrash
<1> QED BY <1>1, <1>2

\* The inductive invariant of the pipeline: at each point of a run the same
\* classes are filled, all of them with the graph of the fmi file.
THEOREM PipelineInvariant == Spec => []IInv
<1> QED BY InitInv, StepInv, PTL DEF Spec

\* However often LabelCreator is killed and resumed, and however often the
\* graph is replaced, the server never reads data of two graphs.
THEOREM ServedWhole == Spec => []ServedIsWhole
<1>1. IInv => ServedIsWhole
  BY DEF IInv
<1> QED BY <1>1, PipelineInvariant, PTL

\* A run of LabelCreator that ends normally leaves the data of its graph,
\* also if it resumed from the files of runs that were killed.
THEOREM OutputCurrent == Spec => []OutputIsCurrent
<1>1. IInv => OutputIsCurrent
  BY DEF IInv
<1> QED BY <1>1, PipelineInvariant, PTL

\* No run reads a class that was not filled, whether it computed its data or
\* resumed from a checkpoint.
THEOREM NothingIsMissing == Spec => []NoNullPointer
<1>1. IInv => NoNullPointer
  BY DEF IInv
<1> QED BY <1>1, PipelineInvariant, PTL

\* A run gives up only after an earlier one was killed while it wrote a
\* checkpoint.
THEOREM ResumeSucceeds == Spec => []FailsOnlyAfterCrash
<1>1. IInv => FailsOnlyAfterCrash
  BY DEF IInv
<1> QED BY <1>1, PipelineInvariant, PTL
==============================================================================
