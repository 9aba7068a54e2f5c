---------------------------- MODULE Annotations ----------------------------
(***************************************************************************)
(* Where the annotations come from: a JSON file, written by hand or by     *)
(* AnnotationCreatorPass, or the annotations clang has left in the module. *)
(* The parser makes of them the set of annotations the partitioner starts  *)
(* from.                                                                   *)
(*                                                                         *)
(* A module is a record:                                                   *)
(*   functions   its functions, declared those without a body              *)
(*   pointers    the indices of the pointers among a function's arguments  *)
(*   valued      the functions that return something                       *)
(*   global      llvm.global.annotations, [on, annotation], on a function  *)
(*               or anything else; a module without them has none          *)
(* A file is a sequence of items [annotation, functions], and functions a  *)
(* sequence of [function, arguments, return], return the value of that     *)
(* key.  A key that is missing is Absent.  Files are well-formed: what the *)
(* JSON library throws of others ends the program.                         *)
(***************************************************************************)
EXTENDS Integers, SequencesExt

CONSTANTS
  Main,           \* the name main
  Modules,        \* the modules that may be given
  Files,          \* the annotation files that may be written by hand
  Elements,       \*   and the elements of their lists of functions
  NoFile,         \* a file that cannot be opened
  Absent,         \* a key that is missing
  Percentages     \* the options of the annotation creator

ASSUME FilesAssumption ==
  /\ Files \subseteq Seq([annotation : STRING, functions : Seq(Elements)])
  /\ NoFile \notin Files
  /\ Absent \notin Seq(Nat) /\ Absent # "True"
  /\ Percentages \subseteq Nat
  /\ \A m \in Modules : /\ IsFiniteSet(m.functions)
                        /\ m.declared \subseteq m.functions
                        /\ m.pointers \in [m.functions -> Seq(Nat)]
                        /\ m.valued \subseteq m.functions

VARIABLES
  module,
  pc,            \* what runs next
  allFunctions,  \* pickFunctions: allFunctions
  count,         \*   numOfAllFunctions
  num,           \*   num
  picked,        \*   functionsToAnnotate
  file,          \* the annotation file
  entries,       \* what the parser has still to go through
  annotations    \* m_annotations, the set of each name put together

creator == <<allFunctions, count, num, picked>>
vars == <<module, pc, creator, file, entries, annotations>>

Init ==
  /\ module \in Modules
  /\ pc = "start"
  /\ allFunctions = << >> /\ count = 0 /\ num = 0 /\ picked = << >>
  /\ file = NoFile
  /\ entries = << >>
  /\ annotations = {}

(***************************************************************************)
(* AnnotationCreatorPass                                                   *)
(***************************************************************************)
Candidates == module.functions \ (module.declared \cup {Main})

(***************************************************************************)
(* pickFunctions up to its loop.  The functions are shuffled.              *)
(***************************************************************************)
Shuffle(percentage) ==
  /\ pc = "start"
  /\ IF percentage = 0 THEN UNCHANGED <<allFunctions, count, num>>
     ELSE /\ allFunctions' \in SetToSeqs(Candidates)
          /\ num' = (Len(allFunctions') * percentage) \div 100
          /\ count' = Len(allFunctions')
  /\ pc' = "pick"
  /\ UNCHANGED <<module, picked, file, entries, annotations>>

Swapped(s, j, k) == [s EXCEPT ![j] = s[k], ![k] = s[j]]

\* Variant: the chosen function stays where it is.
Pick_Stays(idx) ==
  /\ pc = "pick" /\ Len(picked) < num
  /\ idx \in 1 .. count
  /\ picked' = Append(picked, allFunctions[idx])
  /\ count' = count - 1
  /\ UNCHANGED <<module, pc, num, allFunctions, file, entries, annotations>>

(***************************************************************************)
(* A turn of the loop: the chosen function is swapped out of reach.        *)
(***************************************************************************)
Pick(idx) ==
  /\ pc = "pick" /\ Len(picked) < num
  /\ idx \in 1 .. count
  /\ picked' = Append(picked, allFunctions[idx])
  /\ allFunctions' = Swapped(allFunctions, idx, count)
  /\ count' = count - 1
  /\ UNCHANGED <<module, pc, num, file, entries, annotations>>

\* With more than 100 per cent: rand() modulo 0.
PickFromNone ==
  /\ pc = "pick" /\ Len(picked) < num /\ count = 0
  /\ pc' = "crashed"
  /\ UNCHANGED <<module, creator, file, entries, annotations>>

\* Variant: the pointers are numbered among themselves.
FileElement_Numbered(f) ==
  [function |-> f,
   arguments |-> IF module.pointers[f] = << >> THEN Absent
                 ELSE [k \in DOMAIN module.pointers[f] |-> k - 1],
   return |-> IF f \in module.valued THEN "True" ELSE Absent]

(***************************************************************************)
(* The element of a function.  Only pointers are annotated; a key without  *)
(* a value is never made.                                                  *)
(***************************************************************************)
FileElement(f) ==
  [function |-> f,
   arguments |-> IF module.pointers[f] = << >> THEN Absent ELSE module.pointers[f],
   return |-> IF f \in module.valued THEN "True" ELSE Absent]

DumpAnnotationFile ==
  /\ pc = "pick" /\ Len(picked) >= num
  /\ file' = << [annotation |-> "sensitive",
                 functions |-> [k \in DOMAIN picked |-> FileElement(picked[k])]] >>
  /\ pc' = "parse"
  /\ UNCHANGED <<module, creator, entries, annotations>>

(***************************************************************************)
(* The parsers                                                             *)
(***************************************************************************)
\* A file written by hand, or none to open.
GiveFile(f) ==
  /\ pc = "start"
  /\ file' = f
  /\ pc' = "parse"
  /\ UNCHANGED <<module, creator, entries, annotations>>

(***************************************************************************)
(* The entries in the order of the nested loops.                           *)
(***************************************************************************)
ItemEntries(item) ==
  [k \in DOMAIN item.functions |->
     [annotation |-> item.annotation, on |-> item.functions[k].function,
      arguments |-> item.functions[k].arguments, return |-> item.functions[k].return]]

FileEntries(f) == FlattenSeq([k \in DOMAIN f |-> ItemEntries(f[k])])

OpenFile ==
  /\ pc = "parse"
  /\ entries' = IF file = NoFile THEN << >> ELSE FileEntries(file)
  /\ pc' = "entries"
  /\ UNCHANGED <<module, creator, file, annotations>>

\* ModuleAnnotationParser, of a module given without a file.
ReadModule ==
  /\ pc = "start"
  /\ entries' = [k \in DOMAIN module.global |->
                   [annotation |-> module.global[k].annotation, on |-> module.global[k].on,
                    arguments |-> Absent, return |-> Absent]]
  /\ pc' = "entries"
  /\ UNCHANGED <<module, creator, file, annotations>>

\* The constructor and what the keys of the entry add.
Annotation(entry) ==
  [annotation |-> entry.annotation, function |-> entry.on,
   arguments |-> IF entry.arguments = Absent THEN << >> ELSE entry.arguments,
   return |-> entry.return # Absent]

\* operator ==, which a set of annotations goes by
SameAnnotation(a, b) == a.function = b.function /\ a.annotation = b.annotation

\* Variant: an entry takes the place of an equal one.
Inserted_Last(a) == {b \in annotations : ~SameAnnotation(a, b)} \cup {a}

\* unordered_set::insert keeps what is there.
Inserted(a) ==
  IF \E b \in annotations : SameAnnotation(a, b) THEN annotations ELSE annotations \cup {a}

ParseEntry ==
  /\ pc = "entries" /\ entries # << >>
  /\ entries' = Tail(entries)
  /\ annotations' = IF Head(entries).on \in module.functions
                    THEN Inserted(Annotation(Head(entries)))
                    ELSE annotations
  /\ UNCHANGED <<module, pc, creator, file>>

\* getAllAnnotations
Finish ==
  /\ pc = "entries" /\ entries = << >>
  /\ pc' = "done"
  /\ UNCHANGED <<module, creator, file, entries, annotations>>

Next ==
  \/ \E percentage \in Percentages : Shuffle(percentage)
  \/ \E idx \in 1 .. Cardinality(Candidates) : Pick(idx)
  \/ PickFromNone
  \/ DumpAnnotationFile
  \/ \E f \in Files \cup {NoFile} : GiveFile(f)
  \/ OpenFile
  \/ ReadModule
  \/ ParseEntry
  \/ Finish

Spec == Init /\ [][Next]_vars

(***************************************************************************)
(* Properties                                                              *)
(***************************************************************************)
Created == file # NoFile /\ file \notin Files

(***************************************************************************)
(* The creator picks no function twice: while it draws, what is picked and *)
(* what can still be chosen are together all candidates, until more than   *)
(* all are asked for.                                                      *)
(***************************************************************************)
PickedOnce ==
  pc = "pick" /\ allFunctions # << >> =>
    /\ IsInjective(picked)
    /\ Len(picked) + count = Cardinality(Candidates)
    /\ ToSet(picked) \cup {allFunctions[k] : k \in 1 .. count} = Candidates

(***************************************************************************)
(* A created file, parsed with the module it was created for, gives the    *)
(* partitioner one annotation of each function picked, with its pointers   *)
(* for arguments: PartitionForArguments finds every index among the        *)
(* arguments and what it points to a pointer.                              *)
(***************************************************************************)
CreatedFileReadBack ==
  pc = "done" /\ Created =>
    annotations = {[annotation |-> "sensitive", function |-> f,
                    arguments |-> module.pointers[f], return |-> f \in module.valued] :
                      f \in ToSet(picked)}

(***************************************************************************)
(* Of the entries of a file for one function under one annotation, whether *)
(* next to each other or in items apart, the first is kept with all of its *)
(* keys, and nothing of the others; no other entry is lost or made up, but *)
(* those of names that are not functions of the module.                    *)
(***************************************************************************)
Given == IF file = NoFile THEN << >> ELSE FileEntries(file)

FirstEntryKept ==
  pc = "done" /\ file # NoFile =>
    annotations =
      {Annotation(Given[k]) :
         k \in {j \in DOMAIN Given :
                  /\ Given[j].on \in module.functions
                  /\ \A i \in 1 .. j - 1 : \/ Given[i].on # Given[j].on
                                           \/ Given[i].annotation # Given[j].annotation}}
=============================================================================
