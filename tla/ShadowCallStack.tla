-------------------------- MODULE ShadowCallStack --------------------------
(***************************************************************************)
(* The recorder of calls: ShadowCallStackGeneratorPass puts calls of       *)
(* addCaller and addCallee into a program, which count at run time, in the *)
(* one ShadowCallStack of the process, who calls whom.                     *)
(*                                                                         *)
(* The program is any that makes at most MaxCalls calls: at each moment a  *)
(* function with a body may call another, by name or through a pointer,    *)
(* and return; a function without a body (a library's) may call back, may  *)
(* start a thread, and may end the process.                                *)
(*                                                                         *)
(* The recorder has no lock.  A thread comes into addCaller or addCallee   *)
(* in one step and leaves it in another: addCallee reads the caller and    *)
(* the count it finds when it comes in, and stores the next count when it  *)
(* leaves, so of two that overlap one may be lost, and the caller another  *)
(* thread has announced in between is cleared.  `raced' says that two have *)
(* overlapped: what the process does after that the language leaves open,  *)
(* and the two steps show no more than what comes of plain loads and       *)
(* stores.                                                                 *)
(***************************************************************************)
EXTENDS Integers, Sequences, FiniteSetsExt

CONSTANTS
  Functions,   \* the functions of the program, intrinsics left out
  Main,        \* main
  Declared,    \* the functions without a body
  External,    \* the caller "external", and also the empty current caller
  Threads,     \* the threads there may be
  First,       \* the one that runs main
  MaxCalls     \* bound: the calls of a run

ASSUME ProgramAssumption ==
  /\ IsFiniteSet(Functions) /\ IsFiniteSet(Threads)
  /\ Main \in Functions \ Declared
  /\ Declared \subseteq Functions
  /\ External \notin Functions
  /\ First \in Threads
  /\ MaxCalls \in Nat

VARIABLES
  stack,           \* the functions each thread is in, the last one running
  point,           \* where each thread is in the code put into the last one
  next,            \* the function each thread is about to call by name
  currentCaller,   \* m_currentCaller
  entryNum,        \* m_callStackEntryNum
  inside,          \* the threads in a call of the recorder
  seen,            \* what the addCallee of each thread has found there: the
                   \* current caller, and the count of its calls
  file,            \* shadow_call_stack.txt
  running,         \* whether the process is
  made, untold,    \* the calls really made: made by name, from one function
                   \* to another, and those of functions with a body made
                   \* in any other way
  raced            \* whether two calls of the recorder have overlapped

recorder == <<currentCaller, entryNum, inside, seen>>
history == <<made, untold, raced>>
vars == <<stack, point, next, recorder, file, running, history>>

Callers == Functions \cup {External}
Points == {"none", "entry", "body", "tell", "announce", "call"}
NoCounts == [e \in Callers \X Functions |-> 0]

Init ==
  /\ stack = [t \in Threads |-> IF t = First THEN <<Main>> ELSE << >>]
  /\ point = [t \in Threads |-> IF t = First THEN "body" ELSE "none"]
  /\ next = [t \in Threads |-> Main]
  /\ currentCaller = External
  /\ entryNum = NoCounts
  /\ inside = {}
  /\ seen = [t \in Threads |-> [caller |-> External, count |-> 0]]
  /\ file = NoCounts
  /\ running = TRUE
  /\ made = [e \in Functions \X Functions |-> 0]
  /\ untold = [f \in Functions |-> 0]
  /\ raced = FALSE

Top(t) == stack[t][Len(stack[t])]
InBody(t) == running /\ point[t] = "body"

CallsMade == MapThenSumSet(LAMBDA e : made[e], Functions \X Functions)
               + MapThenSumSet(LAMBDA f : untold[f], Functions)

\* The functions with a call of addCallee at their entry.
Instrumented(f) == f \notin Declared /\ f # Main

Enter(t, f) ==
  /\ stack' = [stack EXCEPT ![t] = Append(@, f)]
  /\ point' = [point EXCEPT ![t] = IF Instrumented(f) THEN "entry" ELSE "body"]

\* A thread comes into the recorder: nothing keeps it out if another is there.
ComeIn(t) ==
  /\ t \notin inside
  /\ inside' = inside \cup {t}
  /\ raced' = (raced \/ inside # {})

\* Variant: the current caller is not forgotten when it has been counted.
RecordCallee_Keep(t, f) ==
  /\ t \in inside
  /\ entryNum' = [entryNum EXCEPT ![<<seen[t].caller, f>>] = seen[t].count + 1]
  /\ inside' = inside \ {t}
  /\ UNCHANGED <<currentCaller, seen>>

(***************************************************************************)
(* ShadowCallStack::addCallee, once it has looked up the entry: the count  *)
(* is stored, and a caller that was there is cleared.                      *)
(***************************************************************************)
RecordCallee(t, f) ==
  /\ t \in inside
  /\ entryNum' = [entryNum EXCEPT ![<<seen[t].caller, f>>] = seen[t].count + 1]
  /\ currentCaller' = IF seen[t].caller = External THEN currentCaller ELSE External
  /\ inside' = inside \ {t}
  /\ UNCHANGED seen

(***************************************************************************)
(* A call by name: addCaller, then, of a function without a body,          *)
(* addCallee, and then the call.                                           *)
(***************************************************************************)
AddCaller(t, f) ==
  /\ InBody(t) /\ Top(t) \notin Declared
  /\ ComeIn(t)
  /\ next' = [next EXCEPT ![t] = f]
  /\ point' = [point EXCEPT ![t] = "tell"]
  /\ UNCHANGED <<stack, currentCaller, entryNum, seen, file, running, made, untold>>

\* Variant: addCallee is put before every call by name.
CallerTold_Announce(t) ==
  /\ running /\ point[t] = "tell" /\ t \in inside
  /\ currentCaller' = Top(t)
  /\ inside' = inside \ {t}
  /\ point' = [point EXCEPT ![t] = "announce"]
  /\ UNCHANGED <<stack, next, entryNum, seen, file, running, history>>

CallerTold(t) ==
  /\ running /\ point[t] = "tell" /\ t \in inside
  /\ currentCaller' = Top(t)
  /\ inside' = inside \ {t}
  /\ point' = [point EXCEPT ![t] = IF next[t] \in Declared THEN "announce" ELSE "call"]
  /\ UNCHANGED <<stack, next, entryNum, seen, file, running, history>>

\* The function an addCallee names: the one called next, or the one entered.
Callee(t) == IF point[t] = "announce" THEN next[t] ELSE Top(t)

AddCallee(t) ==
  /\ running /\ point[t] \in {"announce", "entry"}
  /\ ComeIn(t)
  /\ seen' = [seen EXCEPT ![t] = [caller |-> currentCaller,
                                 count |-> entryNum[<<currentCaller, Callee(t)>>]]]
  /\ UNCHANGED <<stack, point, next, currentCaller, entryNum, file, running, made, untold>>

CountedBeforeCall(t) ==
  /\ running /\ point[t] = "announce"
  /\ RecordCallee(t, next[t])
  /\ point' = [point EXCEPT ![t] = "call"]
  /\ UNCHANGED <<stack, next, file, running, history>>

Call(t) ==
  /\ running /\ point[t] = "call" /\ CallsMade < MaxCalls
  /\ made' = [made EXCEPT ![<<Top(t), next[t]>>] = @ + 1]
  /\ Enter(t, next[t])
  /\ UNCHANGED <<next, recorder, file, running, untold, raced>>

CountedAtEntry(t) ==
  /\ running /\ point[t] = "entry"
  /\ RecordCallee(t, Top(t))
  /\ point' = [point EXCEPT ![t] = "body"]
  /\ UNCHANGED <<stack, next, file, running, history>>

(***************************************************************************)
(* A call through a pointer, or from a library: nothing is put before it.  *)
(***************************************************************************)
CallUntold(t, f) ==
  /\ InBody(t) /\ CallsMade < MaxCalls
  /\ f \in Declared => Top(t) \notin Declared
  /\ untold' = [untold EXCEPT ![f] = @ + (IF f \in Declared THEN 0 ELSE 1)]
  /\ Enter(t, f)
  /\ UNCHANGED <<next, recorder, file, running, made, raced>>

\* A thread stays in its first function.
Return(t) ==
  /\ InBody(t) /\ Len(stack[t]) > 1
  /\ stack' = [stack EXCEPT ![t] = SubSeq(@, 1, Len(@) - 1)]
  /\ UNCHANGED <<point, next, recorder, file, running, history>>

StartThread(t, u, f) ==
  /\ InBody(t) /\ Top(t) \in Declared /\ CallsMade < MaxCalls
  /\ stack[u] = << >> /\ Instrumented(f)
  /\ untold' = [untold EXCEPT ![f] = @ + 1]
  /\ Enter(u, f)
  /\ UNCHANGED <<next, recorder, file, running, made, raced>>

(***************************************************************************)
(* main returns, or a library function exits: the destructor of the        *)
(* recorder writes the file, though another thread may be counting.        *)
(***************************************************************************)
Exit(t) ==
  /\ InBody(t)
  /\ stack[t] = <<Main>> \/ Top(t) \in Declared
  /\ running' = FALSE
  /\ file' = entryNum
  /\ raced' = (raced \/ inside # {})
  /\ UNCHANGED <<stack, point, next, recorder, made, untold>>

Next ==
  \E t \in Threads :
    \/ \E f \in Functions : AddCaller(t, f)
    \/ CallerTold(t)
    \/ AddCallee(t)
    \/ CountedBeforeCall(t)
    \/ Call(t)
    \/ CountedAtEntry(t)
    \/ \E f \in Functions : CallUntold(t, f)
    \/ Return(t)
    \/ \E u \in Threads, f \in Functions : StartThread(t, u, f)
    \/ Exit(t)

Spec == Init /\ [][Next]_vars

(***************************************************************************)
(* Properties                                                              *)
(***************************************************************************)
TypeOK ==
  /\ stack \in [Threads -> Seq(Functions)]
  /\ point \in [Threads -> Points]
  /\ next \in [Threads -> Functions]
  /\ currentCaller \in Callers
  /\ entryNum \in [Callers \X Functions -> Nat]
  /\ inside \subseteq Threads
  /\ seen \in [Threads -> [caller : Callers, count : Nat]]
  /\ file \in [Callers \X Functions -> Nat]
  /\ running \in BOOLEAN
  /\ made \in [Functions \X Functions -> Nat]
  /\ untold \in [Functions -> Nat]
  /\ raced \in BOOLEAN

(***************************************************************************)
(* What the counts are good for holds of a program with one thread that    *)
(* does not call main again: main has no addCallee, and the caller of main *)
(* would be counted as that of the next function entered.                  *)
(***************************************************************************)
OneThread == \A t \in Threads \ {First} : stack[t] = << >>
MainNotCalled == \A f \in Functions : made[<<f, Main>>] = 0

\* What there is to read: the counts, and the file once the process has ended.
Counts == IF running THEN entryNum ELSE file

One(condition) == IF condition THEN 1 ELSE 0

\* The first thread has called f and not come to its addCallee yet.
Entering(f) == point[First] = "entry" /\ Top(First) = f

(***************************************************************************)
(* Then every pair has exactly the calls by name of the one by the other:  *)
(* without the one that has been made and is not counted yet, and with the *)
(* one of a function without a body that is counted and comes next.        *)
(***************************************************************************)
PairsExact ==
  OneThread /\ MainNotCalled =>
    \A f, g \in Functions :
      Counts[<<f, g>>] + One(currentCaller = f /\ Entering(g)) =
        made[<<f, g>>] + One(/\ point[First] = "call" /\ Top(First) = f
                             /\ next[First] = g /\ g \in Declared)

(***************************************************************************)
(* And "external" has all the others: the calls through pointers and those *)
(* of libraries, of functions with a body.                                 *)
(***************************************************************************)
ExternalExact ==
  OneThread /\ MainNotCalled =>
    \A g \in Functions \ {Main} :
      Counts[<<External, g>>] + One(currentCaller = External /\ Entering(g)) = untold[g]

(***************************************************************************)
(* However the threads take turns, and with main called too, as long as no *)
(* two calls of the recorder have overlapped: a function with a body other *)
(* than main has been counted once for each time it was entered, under     *)
(* some caller, the entries under way left out.  With an overlap a count   *)
(* may be lost.                                                            *)
(***************************************************************************)
TotalsExact ==
  ~raced => \A g \in Functions :
    Instrumented(g) =>
      MapThenSumSet(LAMBDA f : Counts[<<f, g>>], Callers)
        + Cardinality({t \in Threads : point[t] = "entry" /\ Top(t) = g})
      = MapThenSumSet(LAMBDA f : made[<<f, g>>], Functions) + untold[g]
=============================================================================
