--------------------------- MODULE MCAnnotations ---------------------------
(***************************************************************************)
(* A module with three functions to pick from, main and a declaration; a   *)
(* percentage that rounds down, all, and more than all; files with repeated*)
(* entries, in one item and in two, with another annotation, with keys     *)
(* that differ and with the name of no function.                           *)
(***************************************************************************)
EXTENDS Annotations, TLC

CONSTANTS main, login, check, show, printf, counter, absent, nofile

MCFunctions == {main, login, check, show, printf}
Pointers ==
  login :> <<0, 1>> @@ check :> <<1>> @@ show :> << >> @@ main :> <<1>> @@ printf :> <<0>>

MCModules ==
  {[functions |-> MCFunctions, declared |-> {printf}, pointers |-> Pointers,
    valued |-> {login, main, printf}, global |-> g] :
      g \in {<< >>,
             <<[on |-> login, annotation |-> "sensitive"], [on |-> counter, annotation |-> "sensitive"],
               [on |-> login, annotation |-> "sensitive"], [on |-> check, annotation |-> "secret"]>>}}

Item(annotation, functions) == [annotation |-> annotation, functions |-> functions]
Entry(f, arguments, return) == [function |-> f, arguments |-> arguments, return |-> return]

Entries ==
  {Entry(login, <<0>>, absent), Entry(login, absent, "True"), Entry(check, <<1>>, "False"),
   Entry(counter, absent, absent)}

MCElements == Entries \cup {Entry(login, <<1>>, absent)}

FunctionLists == {<<e>> : e \in Entries} \cup {<<d, e>> : d, e \in Entries}

MCFiles ==
  {<<Item("sensitive", l)>> : l \in FunctionLists}
    \cup {<<Item("sensitive", l), Item(a, <<Entry(login, <<1>>, absent)>>)>> :
            l \in FunctionLists, a \in {"sensitive", "secret"}}
=============================================================================
