------------------------ MODULE ShadowCallStackProofs ------------------------
(***************************************************************************)
(* Machine-checked facts about the recorder of calls, for every program,   *)
(* every number of calls and every set of threads.                         *)
(*                                                                         *)
(* As long as only the first thread runs and nobody calls main, the counts *)
(* are those of the calls made.  What makes it so is where the current     *)
(* caller is valid: between the addCaller before a call and the addCallee  *)
(* that counts it, and at no other time, so that a call the recorder is    *)
(* not told of finds it empty.                                             *)
(*                                                                         *)
(* And however the threads take turns, as long as no two calls of the      *)
(* recorder have overlapped, each entry is counted once under some caller: *)
(* the counts of a function, summed over the callers, lack only the        *)
(* threads on the way to its addCallee.  What an addCallee found when it   *)
(* came in is then still so when it stores (SeenInv).  The sums are folds  *)
(* over sets, about which the facts needed are shown by induction over the *)
(* subsets of a finite set.                                                *)
(***************************************************************************)
EXTENDS ShadowCallStack, FiniteSetTheorems, WellFoundedInduction, TLAPS

\* A thread that has started is in some function, and the first one has; one in
\* the recorder is at a call of it.
ThreadsInv ==
  /\ TypeOK
  /\ \A t \in Threads : point[t] # "none" => stack[t] # << >>
  /\ point[First] # "none"
  /\ \A t \in inside : point[t] \in {"tell", "announce", "entry"}

\* Without an overlap, what the one addCallee under way has found is still so.
SeenInv ==
  ~raced => \A t \in inside :
    /\ \A u \in inside : u = t
    /\ point[t] # "tell" =>
         seen[t] = [caller |-> currentCaller,
                    count |-> entryNum[<<currentCaller, Callee(t)>>]]

Single == OneThread /\ MainNotCalled

at == point[First]
current == Top(First)

CallerInv ==
  /\ at \in {"body", "tell"} => currentCaller = External
  /\ at = "announce" => currentCaller = current /\ next[First] \in Declared
  /\ at = "call" =>
       currentCaller = IF next[First] \in Declared THEN External ELSE current
  /\ at = "entry" => Instrumented(current)

Announced(f, g) == at = "call" /\ current = f /\ next[First] = g /\ g \in Declared

CountsInv ==
  /\ \A f, g \in Functions :
       entryNum[<<f, g>>] + One(currentCaller = f /\ Entering(g))
         = made[<<f, g>>] + One(Announced(f, g))
  /\ \A g \in Functions \ {Main} :
       entryNum[<<External, g>>] + One(currentCaller = External /\ Entering(g))
         = untold[g]
  /\ ~running => file = entryNum

RecorderInv == ThreadsInv /\ SeenInv /\ (Single => ~raced /\ CallerInv /\ CountsInv)

LEMMA NotEmpty ==
  ASSUME NEW s \in Seq(Functions), Len(s) > 0
  PROVE  s # << >>
OBVIOUS

LEMMA ShorterNotEmpty ==
  ASSUME NEW s \in Seq(Functions), Len(s) > 1
  PROVE  SubSeq(s, 1, Len(s) - 1) # << >>
<1> DEFINE shorter == SubSeq(s, 1, Len(s) - 1)
<1>1. shorter \in Seq(Functions) /\ Len(shorter) > 0
  OBVIOUS
<1> HIDE DEF shorter
<1>2. shorter # << >>
  BY <1>1, NotEmpty
<1>3. QED BY <1>2 DEF shorter

(***************************************************************************)
(* A function entered is the one that runs.                                *)
(***************************************************************************)
LEMMA EnterFunction ==
  ASSUME ThreadsInv, NEW t \in Threads, NEW f \in Functions, Enter(t, f)
  PROVE  /\ stack' \in [Threads -> Seq(Functions)]
         /\ point' \in [Threads -> Points]
         /\ stack'[t] = Append(stack[t], f) /\ stack'[t] # << >>
         /\ Top(t)' = f
         /\ point'[t] = (IF Instrumented(f) THEN "entry" ELSE "body")
         /\ \A u \in Threads \ {t} : stack'[u] = stack[u] /\ point'[u] = point[u]
<1>1. /\ stack \in [Threads -> Seq(Functions)] /\ point \in [Threads -> Points]
      /\ stack[t] \in Seq(Functions)
  BY DEF ThreadsInv, TypeOK
<1>2. /\ stack' = [stack EXCEPT ![t] = Append(@, f)]
      /\ point' = [point EXCEPT ![t] = IF Instrumented(f) THEN "entry" ELSE "body"]
  BY DEF Enter
<1>3. /\ Append(stack[t], f) \in Seq(Functions) /\ Append(stack[t], f) # << >>
      /\ Append(stack[t], f)[Len(Append(stack[t], f))] = f
  BY <1>1
<1>4. stack'[t] = Append(stack[t], f)
  BY <1>1, <1>2
<1>5. Top(t)' = f
  BY <1>3, <1>4 DEF Top
<1>6. QED BY <1>1, <1>2, <1>3, <1>4, <1>5 DEF Points

LEMMA TopIsFunction ==
  ASSUME ThreadsInv, NEW t \in Threads, point[t] # "none"
  PROVE  Top(t) \in Functions
<1>1. stack[t] \in Seq(Functions) /\ stack[t] # << >>
  BY DEF ThreadsInv, TypeOK
<1>2. QED BY <1>1 DEF Top

(***************************************************************************)
(* Only the last thread's own step changes where it is.                    *)
(***************************************************************************)
LEMMA ThreadsInvStep == ThreadsInv /\ [Next]_vars => ThreadsInv'
<1> SUFFICES ASSUME ThreadsInv, [Next]_vars PROVE ThreadsInv'
  OBVIOUS
<1> USE ProgramAssumption
<1>1. CASE UNCHANGED vars
  BY <1>1 DEF vars, recorder, history, ThreadsInv, TypeOK
<1>2. ASSUME NEW t \in Threads, NEW f \in Functions, AddCaller(t, f) PROVE ThreadsInv'
  BY <1>2 DEF AddCaller, ComeIn, InBody, ThreadsInv, TypeOK, Points
<1>told. ASSUME NEW t \in Threads, CallerTold(t) PROVE ThreadsInv'
  <2>1. Top(t) \in Functions
    BY <1>told, TopIsFunction DEF CallerTold
  <2>2. QED BY <1>told, <2>1 DEF CallerTold, history, ThreadsInv, TypeOK, Callers, Points
<1>looked. ASSUME NEW t \in Threads, AddCallee(t) PROVE ThreadsInv'
  <2>1. Callee(t) \in Functions
    BY <1>looked, TopIsFunction DEF AddCallee, Callee, ThreadsInv, TypeOK
  <2>2. currentCaller \in Callers /\ entryNum[<<currentCaller, Callee(t)>>] \in Nat
    BY <2>1 DEF ThreadsInv, TypeOK
  <2>3. seen' \in [Threads -> [caller : Callers, count : Nat]]
    BY <1>looked, <2>2 DEF AddCallee, ThreadsInv, TypeOK
  <2>4. QED BY <1>looked, <2>3 DEF AddCallee, ComeIn, ThreadsInv, TypeOK, Points
<1>3. ASSUME NEW t \in Threads, NEW f \in Functions, RecordCallee(t, f)
      PROVE  /\ entryNum' \in [Callers \X Functions -> Nat] /\ currentCaller' \in Callers
             /\ inside' = inside \ {t} /\ seen' = seen
  <2>1. seen[t].count \in Nat
    BY DEF ThreadsInv, TypeOK
  <2>2. QED BY <1>3, <2>1 DEF RecordCallee, ThreadsInv, TypeOK, Callers
<1>4. ASSUME NEW t \in Threads, CountedBeforeCall(t) PROVE ThreadsInv'
  <2>1. next[t] \in Functions
    BY DEF ThreadsInv, TypeOK
  <2>2. /\ entryNum' \in [Callers \X Functions -> Nat] /\ currentCaller' \in Callers
        /\ inside' = inside \ {t} /\ seen' = seen
    BY <1>3, <1>4, <2>1 DEF CountedBeforeCall
  <2>3. QED BY <1>4, <2>2 DEF CountedBeforeCall, history, ThreadsInv, TypeOK, Points
<1>5. ASSUME NEW t \in Threads, CountedAtEntry(t) PROVE ThreadsInv'
  <2>1. Top(t) \in Functions
    BY <1>5, TopIsFunction DEF CountedAtEntry
  <2>2. /\ entryNum' \in [Callers \X Functions -> Nat] /\ currentCaller' \in Callers
        /\ inside' = inside \ {t} /\ seen' = seen
    BY <1>3, <1>5, <2>1 DEF CountedAtEntry
  <2>3. QED BY <1>5, <2>2 DEF CountedAtEntry, history, ThreadsInv, TypeOK, Points
<1>6. ASSUME NEW t \in Threads, Call(t) PROVE ThreadsInv'
  <2>1. next[t] \in Functions /\ Top(t) \in Functions
    BY <1>6, TopIsFunction DEF Call, ThreadsInv, TypeOK
  <2>2. made' \in [Functions \X Functions -> Nat]
    BY <1>6, <2>1 DEF Call, ThreadsInv, TypeOK
  <2>3. t \notin inside
    BY <1>6 DEF Call, ThreadsInv
  <2>4. QED BY <1>6, <2>1, <2>2, <2>3, EnterFunction DEF Call, recorder, ThreadsInv, TypeOK
<1>7. ASSUME NEW t \in Threads, NEW f \in Functions, CallUntold(t, f) PROVE ThreadsInv'
  <2>1. untold' \in [Functions -> Nat]
    BY <1>7 DEF CallUntold, ThreadsInv, TypeOK
  <2>2. t \notin inside
    BY <1>7 DEF CallUntold, InBody, ThreadsInv
  <2>3. QED BY <1>7, <2>1, <2>2, EnterFunction DEF CallUntold, recorder, ThreadsInv, TypeOK
<1>8. ASSUME NEW t \in Threads, Return(t) PROVE ThreadsInv'
  <2>1. /\ stack[t] \in Seq(Functions) /\ Len(stack[t]) > 1
        /\ stack' = [stack EXCEPT ![t] = SubSeq(@, 1, Len(@) - 1)]
    BY <1>8 DEF Return, ThreadsInv, TypeOK
  <2>2. /\ SubSeq(stack[t], 1, Len(stack[t]) - 1) \in Seq(Functions)
        /\ Len(SubSeq(stack[t], 1, Len(stack[t]) - 1)) = Len(stack[t]) - 1
    BY <2>1
  <2>3. SubSeq(stack[t], 1, Len(stack[t]) - 1) # << >>
    BY <2>1, ShorterNotEmpty
  <2>4. QED BY <1>8, <2>1, <2>2, <2>3 DEF Return, recorder, history, ThreadsInv, TypeOK
<1>9. ASSUME NEW t \in Threads, NEW u \in Threads, NEW f \in Functions,
             StartThread(t, u, f)
      PROVE  ThreadsInv'
  <2>1. untold' \in [Functions -> Nat]
    BY <1>9 DEF StartThread, ThreadsInv, TypeOK
  <2>2. u \notin inside
    BY <1>9 DEF StartThread, ThreadsInv
  <2>3. QED BY <1>9, <2>1, <2>2, EnterFunction DEF StartThread, recorder, ThreadsInv, TypeOK
<1>10. ASSUME NEW t \in Threads, Exit(t) PROVE ThreadsInv'
  BY <1>10 DEF Exit, recorder, history, ThreadsInv, TypeOK
<1>11. QED
  BY <1>1, <1>2, <1>4, <1>5, <1>6, <1>7, <1>8, <1>9, <1>10, <1>told, <1>looked DEF Next

\* What has overlapped has overlapped.
LEMMA RacedStays ==
  ASSUME ThreadsInv, [Next]_vars, ~raced'
  PROVE  ~raced
BY DEF Next, vars, history, AddCaller, CallerTold, AddCallee, ComeIn, CountedBeforeCall,
       CountedAtEntry, Call, CallUntold, Return, StartThread, Exit, ThreadsInv, TypeOK

(***************************************************************************)
(* The only steps that change what an addCallee has found are those of     *)
(* threads in the recorder, and without an overlap there is no other one.  *)
(***************************************************************************)
LEMMA SeenInvStep ==
  ASSUME ThreadsInv, SeenInv, [Next]_vars
  PROVE  SeenInv'
<1> SUFFICES ASSUME ~raced', NEW t \in inside'
             PROVE  /\ \A u \in inside' : u = t
                    /\ point'[t] # "tell" =>
                         seen'[t] = [caller |-> currentCaller',
                                     count |-> entryNum'[<<currentCaller', Callee(t)'>>]]
  BY DEF SeenInv
<1>1. /\ ~raced /\ t \in Threads /\ inside \subseteq Threads
      /\ stack \in [Threads -> Seq(Functions)] /\ point \in [Threads -> Points]
      /\ next \in [Threads -> Functions]
      /\ seen \in [Threads -> [caller : Callers, count : Nat]]
  <2>1. t \in Threads
    BY ThreadsInvStep DEF ThreadsInv, TypeOK
  <2>2. QED BY <2>1, RacedStays DEF ThreadsInv, TypeOK
<1>2. /\ \A u, v \in inside : u = v
      /\ \A u \in inside : point[u] # "tell" =>
           seen[u] = [caller |-> currentCaller,
                      count |-> entryNum[<<currentCaller, Callee(u)>>]]
  BY <1>1 DEF SeenInv
\* A thread that is in the recorder before and after such a step did not move.
<1>3. ASSUME UNCHANGED <<currentCaller, entryNum, inside, seen>>,
             point'[t] = point[t], next'[t] = next[t], stack'[t] = stack[t]
      PROVE  /\ \A u \in inside' : u = t
             /\ point'[t] # "tell" =>
                  seen'[t] = [caller |-> currentCaller',
                              count |-> entryNum'[<<currentCaller', Callee(t)'>>]]
  <2>1. Callee(t)' = Callee(t)
    BY <1>3 DEF Callee, Top
  <2>2. QED BY <1>2, <1>3, <2>1
<1>4. CASE UNCHANGED vars
  BY <1>3, <1>4 DEF vars, recorder
<1>5. ASSUME NEW u \in Threads, ComeIn(u)
      PROVE  /\ t = u /\ \A v \in inside' : v = t
  BY <1>1, <1>5 DEF ComeIn
<1>6. ASSUME NEW u \in Threads, NEW f \in Functions, AddCaller(u, f)
      PROVE  (\A v \in inside' : v = t) /\ point'[t] = "tell"
  BY <1>1, <1>5, <1>6 DEF AddCaller
<1>7. ASSUME NEW u \in Threads, AddCallee(u)
      PROVE  /\ \A v \in inside' : v = t
             /\ seen'[t] = [caller |-> currentCaller',
                             count |-> entryNum'[<<currentCaller', Callee(t)'>>]]
  <2>1. t = u /\ \A v \in inside' : v = t
    BY <1>5, <1>7 DEF AddCallee
  <2>2. Callee(t)' = Callee(t)
    BY <1>7 DEF AddCallee, Callee, Top
  <2>3. QED BY <1>1, <1>7, <2>1, <2>2 DEF AddCallee
\* Who leaves the recorder leaves nobody behind.
<1>8. ASSUME NEW u \in inside, inside' = inside \ {u} PROVE FALSE
  BY <1>2, <1>8
<1>9. ASSUME NEW u \in Threads, CallerTold(u)
      PROVE  /\ \A v \in inside' : v = t
             /\ point'[t] # "tell" =>
                  seen'[t] = [caller |-> currentCaller',
                              count |-> entryNum'[<<currentCaller', Callee(t)'>>]]
  BY <1>8, <1>9, <1>1 DEF CallerTold
<1>10. ASSUME NEW u \in Threads, NEW f, RecordCallee(u, f) PROVE FALSE
  BY <1>8, <1>10 DEF RecordCallee
<1>11. ASSUME NEW u \in Threads, NEW f \in Functions, Enter(u, f),
              point[u] \notin {"tell", "announce", "entry"}
       PROVE  t \in inside => point'[t] = point[t] /\ stack'[t] = stack[t]
  <2>1. t \in inside => t # u
    BY <1>11 DEF ThreadsInv
  <2>2. \A v \in Threads \ {u} : stack'[v] = stack[v] /\ point'[v] = point[v]
    BY <1>11, EnterFunction
  <2>3. QED BY <1>1, <2>1, <2>2
<1>12. ASSUME NEW u \in Threads, Call(u)
       PROVE  /\ inside' = inside /\ point'[t] = point[t] /\ stack'[t] = stack[t]
              /\ UNCHANGED <<currentCaller, entryNum, seen, next>>
  BY <1>1, <1>11, <1>12 DEF Call, recorder
<1>13. ASSUME NEW u \in Threads, NEW f \in Functions, CallUntold(u, f)
       PROVE  /\ inside' = inside /\ point'[t] = point[t] /\ stack'[t] = stack[t]
              /\ UNCHANGED <<currentCaller, entryNum, seen, next>>
  BY <1>11, <1>13 DEF CallUntold, InBody, recorder
<1>14. ASSUME NEW u \in Threads, NEW v \in Threads, NEW f \in Functions,
              StartThread(u, v, f)
       PROVE  /\ inside' = inside /\ point'[t] = point[t] /\ stack'[t] = stack[t]
              /\ UNCHANGED <<currentCaller, entryNum, seen, next>>
  <2>1. point[v] = "none"
    BY <1>14 DEF StartThread, ThreadsInv
  <2>2. QED BY <1>11, <1>14, <2>1 DEF StartThread, recorder
<1>15. ASSUME NEW u \in Threads, Return(u)
       PROVE  /\ inside' = inside /\ point'[t] = point[t] /\ stack'[t] = stack[t]
              /\ UNCHANGED <<currentCaller, entryNum, seen, next>>
  <2>1. t # u
    BY <1>15 DEF Return, InBody, recorder, ThreadsInv
  <2>2. QED BY <1>1, <1>15, <2>1 DEF Return, recorder
<1>16. ASSUME NEW u \in Threads, Exit(u)
       PROVE  UNCHANGED <<currentCaller, entryNum, inside, seen, point, next, stack>>
  BY <1>16 DEF Exit, recorder
<1>17. ASSUME NEW u \in Threads, CountedBeforeCall(u) PROVE FALSE
  BY <1>10, <1>17 DEF CountedBeforeCall
<1>18. ASSUME NEW u \in Threads, CountedAtEntry(u) PROVE FALSE
  BY <1>10, <1>18 DEF CountedAtEntry
<1>19. QED
  BY <1>3, <1>4, <1>6, <1>7, <1>9, <1>12, <1>13, <1>14, <1>15, <1>16, <1>17, <1>18
    DEF Next

(***************************************************************************)
(* Without an overlap, an addCallee adds one to the count of the caller    *)
(* announced, and clears it.                                               *)
(***************************************************************************)
LEMMA RecordCalleeFresh ==
  ASSUME ThreadsInv, SeenInv, ~raced, NEW t \in Threads, point[t] # "tell",
         Callee(t) \in Functions, RecordCallee(t, Callee(t))
  PROVE  /\ entryNum' = [entryNum EXCEPT ![<<currentCaller, Callee(t)>>] = @ + 1]
         /\ currentCaller' = External
<1> DEFINE f == Callee(t)
<1>1. t \in inside /\ entryNum \in [Callers \X Functions -> Nat]
  BY DEF RecordCallee, ThreadsInv, TypeOK
<1>2. seen[t] = [caller |-> currentCaller, count |-> entryNum[<<currentCaller, f>>]]
  BY <1>1 DEF SeenInv
<1>3. seen[t].caller = currentCaller /\ seen[t].count = entryNum[<<currentCaller, f>>]
  BY <1>2
<1>4. /\ entryNum' = [entryNum EXCEPT ![<<seen[t].caller, f>>] = seen[t].count + 1]
      /\ currentCaller' = IF seen[t].caller = External THEN currentCaller ELSE External
  BY DEF RecordCallee
<1> HIDE DEF f
<1>5. QED BY <1>1, <1>3, <1>4 DEF f

(***************************************************************************)
(* A program that has only its first thread and has not called main has    *)
(* been so before, and the step taken was the first thread's.              *)
(***************************************************************************)
LEMMA SingleBefore ==
  ASSUME ThreadsInv, [Next]_vars, Single'
  PROVE  Single
<1> USE ProgramAssumption
<1>1. MainNotCalled
  <2>1. SUFFICES ASSUME NEW f \in Functions PROVE made[<<f, Main>>] = 0
    BY DEF MainNotCalled
  <2>2. made'[<<f, Main>>] = 0
    BY DEF Single, MainNotCalled
  <2>3. /\ made \in [Functions \X Functions -> Nat]
        /\ \A t \in Threads : point[t] # "none" => Top(t) \in Functions
        /\ next \in [Threads -> Functions]
    BY TopIsFunction DEF ThreadsInv, TypeOK
  <2>4. ASSUME NEW t \in Threads, Call(t) PROVE made[<<f, Main>>] = 0
    BY <2>2, <2>3, <2>4 DEF Call
  <2>5. CASE made' = made
    BY <2>2, <2>5
  <2>6. made' = made \/ \E t \in Threads : Call(t)
    BY DEF Next, vars, history, AddCaller, CallerTold, AddCallee, CountedBeforeCall,
           CountedAtEntry, CallUntold, Return, StartThread, Exit
  <2>7. QED BY <2>4, <2>5, <2>6
<1>2. OneThread
  <2>1. SUFFICES ASSUME NEW u \in Threads \ {First} PROVE stack[u] = << >>
    BY DEF OneThread
  <2>2. stack'[u] = << >>
    BY DEF Single, OneThread
  <2>3. \A t \in Threads, f \in Functions : Enter(t, f) => stack[u] = << >>
    BY <2>2, EnterFunction
  <2>4. ASSUME NEW t \in Threads, Return(t) PROVE stack[u] = << >>
    <3>1. /\ stack[t] \in Seq(Functions) /\ Len(stack[t]) > 1
          /\ stack' = [stack EXCEPT ![t] = SubSeq(@, 1, Len(@) - 1)]
      BY <2>4 DEF Return, ThreadsInv, TypeOK
    <3>2. SubSeq(stack[t], 1, Len(stack[t]) - 1) # << >>
      BY <3>1, ShorterNotEmpty
    <3>3. u # t
      BY <2>2, <3>1, <3>2 DEF ThreadsInv, TypeOK
    <3>4. QED BY <2>2, <3>1, <3>3 DEF ThreadsInv, TypeOK
  <2>5. ASSUME NEW t \in Threads, Call(t) PROVE stack[u] = << >>
    BY <2>3, <2>5 DEF Call, ThreadsInv, TypeOK
  <2>6. ASSUME NEW t \in Threads, NEW f \in Functions, CallUntold(t, f)
        PROVE  stack[u] = << >>
    BY <2>3, <2>6 DEF CallUntold
  <2>7. ASSUME NEW t \in Threads, NEW v \in Threads, NEW f \in Functions,
               StartThread(t, v, f)
        PROVE  stack[u] = << >>
    BY <2>3, <2>7 DEF StartThread
  <2>8. CASE stack' = stack
    BY <2>2, <2>8
  <2>9. \/ stack' = stack
        \/ \E t \in Threads : \/ Call(t) \/ Return(t)
                              \/ \E f \in Functions : CallUntold(t, f)
                              \/ \E v \in Threads, f \in Functions : StartThread(t, v, f)
    BY DEF Next, vars, AddCaller, CallerTold, AddCallee, CountedBeforeCall,
           CountedAtEntry, Exit
  <2>10. QED BY <2>4, <2>5, <2>6, <2>7, <2>8, <2>9
<1>3. QED BY <1>1, <1>2 DEF Single

LEMMA FirstActs ==
  ASSUME ThreadsInv, OneThread, NEW t \in Threads, point[t] # "none"
  PROVE  t = First
BY DEF ThreadsInv, OneThread

(***************************************************************************)
(* A count that goes up for one pair, and stays for the others.            *)
(***************************************************************************)
LEMMA CountedOnce ==
  ASSUME NEW A, NEW B, NEW c \in [A \X B -> Nat], NEW a \in A, NEW b \in B,
         NEW d, d = [c EXCEPT ![<<a, b>>] = @ + 1]
  PROVE  \A x \in A, y \in B :
           /\ c[<<x, y>>] \in Nat
           /\ d[<<x, y>>] = IF x = a /\ y = b THEN c[<<x, y>>] + 1 ELSE c[<<x, y>>]
<1>1. SUFFICES ASSUME NEW x \in A, NEW y \in B
               PROVE  /\ c[<<x, y>>] \in Nat
                      /\ x = a /\ y = b => d[<<x, y>>] = c[<<x, y>>] + 1
                      /\ ~(x = a /\ y = b) => d[<<x, y>>] = c[<<x, y>>]
  OBVIOUS
<1>2. <<x, y>> \in A \X B /\ <<a, b>> \in A \X B
  OBVIOUS
<1>3. ASSUME ~(x = a /\ y = b) PROVE <<x, y>> # <<a, b>>
  BY <1>3
<1>4. QED BY <1>2, <1>3

(***************************************************************************)
(* The steps of the first thread: what each does to the caller the         *)
(* recorder has, to its counts, and to the calls made.                     *)
(***************************************************************************)
LEMMA AddCallerRecorded ==
  ASSUME ThreadsInv, CallerInv, CountsInv, NEW f \in Functions, AddCaller(First, f)
  PROVE  CallerInv' /\ CountsInv'
<1> USE ProgramAssumption DEF at, current
<1>1. /\ at = "body" /\ at' = "tell" /\ stack' = stack /\ entryNum' = entryNum
      /\ made' = made /\ untold' = untold /\ running /\ running' = running
      /\ currentCaller' = currentCaller /\ current' = current
  BY DEF AddCaller, InBody, ThreadsInv, TypeOK, Top
<1>2. CallerInv'
  BY <1>1 DEF CallerInv
<1>3. CountsInv'
  BY <1>1 DEF CountsInv, One, Entering, Announced
<1>4. QED BY <1>2, <1>3

LEMMA CallerToldRecorded ==
  ASSUME ThreadsInv, CallerInv, CountsInv, CallerTold(First)
  PROVE  CallerInv' /\ CountsInv'
<1> USE ProgramAssumption DEF at, current
<1>1. /\ at = "tell" /\ stack' = stack /\ entryNum' = entryNum /\ made' = made
      /\ untold' = untold /\ running /\ running' = running /\ next' = next
      /\ currentCaller' = current /\ current' = current
      /\ at' = IF next[First] \in Declared THEN "announce" ELSE "call"
  BY DEF CallerTold, history, ThreadsInv, TypeOK, Top
<1>2. CallerInv'
  BY <1>1 DEF CallerInv
<1>3. CountsInv'
  BY <1>1 DEF CountsInv, One, Entering, Announced
<1>4. QED BY <1>2, <1>3

\* To look something up changes nothing.
LEMMA AddCalleeRecorded ==
  ASSUME CallerInv, CountsInv, AddCallee(First)
  PROVE  CallerInv' /\ CountsInv'
<1>1. /\ UNCHANGED <<stack, point, next, currentCaller, entryNum, running, file, made, untold>>
      /\ running
  BY DEF AddCallee
<1>2. at' = at /\ current' = current
  BY <1>1 DEF at, current, Top
<1>3. QED BY <1>1, <1>2 DEF CallerInv, CountsInv, One, Entering, Announced, at, current

LEMMA CountedBeforeCallRecorded ==
  ASSUME ThreadsInv, SeenInv, ~raced, CallerInv, CountsInv, CountedBeforeCall(First)
  PROVE  CallerInv' /\ CountsInv'
<1> USE ProgramAssumption DEF at, current
<1>1. /\ at = "announce" /\ at' = "call" /\ stack' = stack /\ made' = made
      /\ untold' = untold /\ running /\ running' = running /\ next' = next
      /\ current' = current /\ currentCaller' = External
      /\ entryNum' = [entryNum EXCEPT ![<<currentCaller, next[First]>>] = @ + 1]
  <2>1. point[First] = "announce" /\ next[First] \in Functions
    BY DEF CountedBeforeCall, ThreadsInv, TypeOK
  <2>2. Callee(First) = next[First] /\ RecordCallee(First, Callee(First))
    BY <2>1 DEF Callee, CountedBeforeCall
  <2>3. /\ entryNum' = [entryNum EXCEPT ![<<currentCaller, next[First]>>] = @ + 1]
        /\ currentCaller' = External
    BY <2>1, <2>2, RecordCalleeFresh
  <2>4. QED BY <2>3 DEF CountedBeforeCall, history, ThreadsInv, TypeOK, Top
<1>2. /\ currentCaller = current /\ next[First] \in Declared
      /\ current \in Functions /\ next[First] \in Functions
  BY <1>1, TopIsFunction DEF CallerInv, ThreadsInv, TypeOK
<1>3. CallerInv'
  BY <1>1, <1>2 DEF CallerInv
<1>4. CountsInv'
  <2>1. \A f \in Callers, g \in Functions :
          /\ entryNum[<<f, g>>] \in Nat
          /\ entryNum'[<<f, g>>] =
               IF f = current /\ g = next[First] THEN entryNum[<<f, g>>] + 1 ELSE entryNum[<<f, g>>]
    <3>1. entryNum \in [Callers \X Functions -> Nat] /\ current \in Callers
      BY <1>2 DEF ThreadsInv, TypeOK, Callers
    <3>2. QED BY <1>1, <1>2, <3>1, CountedOnce
  <2>2. \A f, g \in Functions : made[<<f, g>>] \in Nat
    BY DEF ThreadsInv, TypeOK
  <2>3. \A f, g \in Functions :
          entryNum'[<<f, g>>] + One(currentCaller' = f /\ Entering(g)')
            = made'[<<f, g>>] + One(Announced(f, g)')
    <3>1. SUFFICES ASSUME NEW f \in Functions, NEW g \in Functions
                   PROVE  entryNum'[<<f, g>>] + One(currentCaller' = f /\ Entering(g)')
                            = made'[<<f, g>>] + One(Announced(f, g)')
      OBVIOUS
    <3>2. entryNum[<<f, g>>] + One(currentCaller = f /\ Entering(g))
            = made[<<f, g>>] + One(Announced(f, g))
      BY DEF CountsInv
    <3>3. f \in Callers /\ f # External
      BY DEF Callers
    <3>4. QED BY <1>1, <1>2, <2>1, <2>2, <3>2, <3>3 DEF One, Entering, Announced
  <2>4. \A g \in Functions \ {Main} :
          entryNum'[<<External, g>>] + One(currentCaller' = External /\ Entering(g)')
            = untold'[g]
    BY <1>1, <1>2, <2>1 DEF CountsInv, One, Entering, Callers
  <2>5. QED BY <1>1, <2>3, <2>4 DEF CountsInv, One, Entering, Announced
<1>5. QED BY <1>3, <1>4

LEMMA CountedAtEntryRecorded ==
  ASSUME ThreadsInv, SeenInv, ~raced, CallerInv, CountsInv, CountedAtEntry(First)
  PROVE  CallerInv' /\ CountsInv'
<1> USE ProgramAssumption DEF at, current
<1>1. /\ at = "entry" /\ at' = "body" /\ stack' = stack /\ made' = made
      /\ untold' = untold /\ running /\ running' = running
      /\ current' = current /\ currentCaller' = External
      /\ entryNum' = [entryNum EXCEPT ![<<currentCaller, current>>] = @ + 1]
  <2>1. point[First] = "entry" /\ Top(First) \in Functions
    BY TopIsFunction DEF CountedAtEntry
  <2>2. Callee(First) = Top(First) /\ RecordCallee(First, Callee(First))
    BY <2>1 DEF Callee, CountedAtEntry
  <2>3. /\ entryNum' = [entryNum EXCEPT ![<<currentCaller, Top(First)>>] = @ + 1]
        /\ currentCaller' = External
    BY <2>1, <2>2, RecordCalleeFresh
  <2>4. QED BY <2>3 DEF CountedAtEntry, history, ThreadsInv, TypeOK, Top
<1>2. current \in Functions /\ currentCaller \in Callers
  BY <1>1, TopIsFunction DEF ThreadsInv, TypeOK
<1>3. CallerInv'
  BY <1>1 DEF CallerInv
<1>4. CountsInv'
  <2>1. \A f \in Callers, g \in Functions :
          /\ entryNum[<<f, g>>] \in Nat
          /\ entryNum'[<<f, g>>] =
               IF f = currentCaller /\ g = current THEN entryNum[<<f, g>>] + 1 ELSE entryNum[<<f, g>>]
    <3>1. entryNum \in [Callers \X Functions -> Nat]
      BY DEF ThreadsInv, TypeOK
    <3>2. QED BY <1>1, <1>2, <3>1, CountedOnce
  <2>2. \A f, g \in Functions : made[<<f, g>>] \in Nat
    BY DEF ThreadsInv, TypeOK
  <2>3. \A f, g \in Functions :
          entryNum'[<<f, g>>] + One(currentCaller' = f /\ Entering(g)')
            = made'[<<f, g>>] + One(Announced(f, g)')
    <3>1. SUFFICES ASSUME NEW f \in Functions, NEW g \in Functions
                   PROVE  entryNum'[<<f, g>>] + One(currentCaller' = f /\ Entering(g)')
                            = made'[<<f, g>>] + One(Announced(f, g)')
      OBVIOUS
    <3>2. entryNum[<<f, g>>] + One(currentCaller = f /\ Entering(g))
            = made[<<f, g>>] + One(Announced(f, g))
      BY DEF CountsInv
    <3>3. f \in Callers /\ f # External
      BY DEF Callers
    <3>4. QED BY <1>1, <1>2, <2>1, <2>2, <3>2, <3>3 DEF One, Entering, Announced
  <2>4. \A g \in Functions \ {Main} :
          entryNum'[<<External, g>>] + One(currentCaller' = External /\ Entering(g)')
            = untold'[g]
    BY <1>1, <1>2, <2>1 DEF CountsInv, One, Entering, Callers
  <2>5. QED BY <1>1, <2>3, <2>4 DEF CountsInv, One, Entering, Announced
<1>5. QED BY <1>3, <1>4

LEMMA CallRecorded ==
  ASSUME ThreadsInv, CallerInv, CountsInv, MainNotCalled', Call(First)
  PROVE  CallerInv' /\ CountsInv'
<1> USE ProgramAssumption DEF at, current
<1> DEFINE f == next[First]
<1>1. /\ at = "call" /\ running /\ running' = running /\ next' = next
      /\ currentCaller' = currentCaller /\ entryNum' = entryNum
      /\ untold' = untold /\ Enter(First, f)
      /\ made' = [made EXCEPT ![<<current, f>>] = @ + 1]
  BY DEF Call, recorder
<1>2. current \in Functions /\ f \in Functions
  BY <1>1, TopIsFunction DEF ThreadsInv, TypeOK
<1>3. /\ current' = f
      /\ at' = (IF Instrumented(f) THEN "entry" ELSE "body")
  BY <1>1, <1>2, EnterFunction
<1>4. \A g, h \in Functions :
        /\ made[<<g, h>>] \in Nat
        /\ made'[<<g, h>>] =
             IF g = current /\ h = f THEN made[<<g, h>>] + 1 ELSE made[<<g, h>>]
  <2>1. made \in [Functions \X Functions -> Nat]
    BY DEF ThreadsInv, TypeOK
  <2>2. QED BY <1>1, <1>2, <2>1, CountedOnce
<1>5. f # Main
  <2>1. made'[<<current, f>>] = made[<<current, f>>] + 1 /\ made[<<current, f>>] \in Nat
    BY <1>2, <1>4 DEF One
  <2>2. made'[<<current, f>>] # 0
    BY <2>1
  <2>3. QED BY <1>2, <2>2 DEF MainNotCalled
<1>6. currentCaller = IF f \in Declared THEN External ELSE current
  BY <1>1 DEF CallerInv
<1>7. CallerInv'
  BY <1>1, <1>2, <1>3, <1>5, <1>6 DEF CallerInv, Instrumented
<1>8. \A g, h \in Functions :
        entryNum'[<<g, h>>] + One(currentCaller' = g /\ Entering(h)')
          = made'[<<g, h>>] + One(Announced(g, h)')
  <2>1. SUFFICES ASSUME NEW g \in Functions, NEW h \in Functions
                 PROVE  entryNum'[<<g, h>>] + One(currentCaller' = g /\ Entering(h)')
                          = made'[<<g, h>>] + One(Announced(g, h)')
    OBVIOUS
  <2>2. /\ entryNum[<<g, h>>] \in Nat /\ made[<<g, h>>] \in Nat
        /\ made'[<<g, h>>] =
             IF g = current /\ h = f THEN made[<<g, h>>] + 1 ELSE made[<<g, h>>]
    BY <1>4 DEF ThreadsInv, TypeOK, Callers
  <2>3. entryNum[<<g, h>>] = made[<<g, h>>] + One(Announced(g, h))
    <3>1. entryNum[<<g, h>>] + One(currentCaller = g /\ Entering(h))
            = made[<<g, h>>] + One(Announced(g, h))
      BY DEF CountsInv
    <3>2. QED BY <1>1, <2>2, <3>1 DEF One, Entering
  <2>4. ~Announced(g, h)'
    BY <1>3 DEF Announced
  <2>5. g # External
    OBVIOUS
  <2>6. CASE f \in Declared
    BY <1>1, <1>3, <2>2, <2>3, <2>4, <2>6 DEF One, Entering, Announced, Instrumented
  <2>7. CASE f \notin Declared
    BY <1>1, <1>3, <1>5, <1>6, <2>2, <2>3, <2>4, <2>7
      DEF One, Entering, Announced, Instrumented
  <2>8. QED BY <2>6, <2>7
<1>9. \A g \in Functions \ {Main} :
        entryNum'[<<External, g>>] + One(currentCaller' = External /\ Entering(g)')
          = untold'[g]
  <2>1. \A g \in Functions : entryNum[<<External, g>>] \in Nat
    BY DEF ThreadsInv, TypeOK, Callers
  <2>2. ~(currentCaller' = External /\ at' = "entry")
    BY <1>1, <1>2, <1>3, <1>6 DEF Instrumented
  <2>3. QED BY <1>1, <2>1, <2>2 DEF CountsInv, One, Entering
<1>10. QED BY <1>1, <1>7, <1>8, <1>9 DEF CountsInv, One, Entering, Announced

LEMMA CallUntoldRecorded ==
  ASSUME ThreadsInv, CallerInv, CountsInv, NEW f \in Functions, CallUntold(First, f)
  PROVE  CallerInv' /\ CountsInv'
<1> USE ProgramAssumption DEF at, current
<1>1. /\ at = "body" /\ running /\ running' = running /\ next' = next
      /\ currentCaller' = currentCaller /\ entryNum' = entryNum
      /\ made' = made /\ Enter(First, f)
      /\ untold' = [untold EXCEPT ![f] = @ + (IF f \in Declared THEN 0 ELSE 1)]
  BY DEF CallUntold, InBody, recorder
<1>2. /\ current' = f
      /\ at' = (IF Instrumented(f) THEN "entry" ELSE "body")
  BY <1>1, EnterFunction
<1>3. currentCaller = External
  BY <1>1 DEF CallerInv
<1>4. CallerInv'
  BY <1>1, <1>2, <1>3 DEF CallerInv
<1>5. \A g, h \in Functions : /\ entryNum[<<g, h>>] \in Nat
                              /\ entryNum[<<External, h>>] \in Nat
                              /\ made[<<g, h>>] \in Nat
                              /\ untold[h] \in Nat
  BY DEF ThreadsInv, TypeOK, Callers
<1>6. \A g, h \in Functions :
        entryNum'[<<g, h>>] + One(currentCaller' = g /\ Entering(h)')
          = made'[<<g, h>>] + One(Announced(g, h)')
  BY <1>1, <1>2, <1>3, <1>5 DEF CountsInv, One, Entering, Announced
<1>7. \A g \in Functions \ {Main} :
        entryNum'[<<External, g>>] + One(currentCaller' = External /\ Entering(g)')
          = untold'[g]
  <2>1. \A g \in Functions \ {Main} : entryNum[<<External, g>>] = untold[g]
    <3>1. SUFFICES ASSUME NEW g \in Functions \ {Main}
                   PROVE  entryNum[<<External, g>>] = untold[g]
      OBVIOUS
    <3>2. entryNum[<<External, g>>] + One(currentCaller = External /\ Entering(g))
            = untold[g]
      BY DEF CountsInv
    <3>3. ~Entering(g) /\ entryNum[<<External, g>>] \in Nat
      BY <1>1, <1>5 DEF Entering
    <3>4. QED BY <3>2, <3>3 DEF One
  <2>2. \A g \in Functions \ {Main} :
          untold'[g] = untold[g] + One(g = f /\ f \notin Declared)
    BY <1>1, <1>5 DEF ThreadsInv, TypeOK, One
  <2>3. QED BY <1>1, <1>2, <1>3, <1>5, <2>1, <2>2 DEF One, Entering, Instrumented
<1>8. QED BY <1>1, <1>4, <1>6, <1>7 DEF CountsInv, One, Entering, Announced

\* A step after which nothing is between an addCaller and a call, as before.
LEMMA QuietRecorded ==
  ASSUME CallerInv, CountsInv, at = "body", point' = point,
         UNCHANGED <<recorder, made, untold>>, running' \/ file' = entryNum
  PROVE  CallerInv' /\ CountsInv'
BY DEF CallerInv, CountsInv, One, Entering, Announced, recorder, at

LEMMA RecorderInvInit == Init => RecorderInv
<1> SUFFICES ASSUME Init PROVE RecorderInv
  OBVIOUS
<1> USE ProgramAssumption DEF Init
<1>1. TypeOK
  <2>1. External \in Callers /\ 0 \in Nat
    BY DEF Callers
  <2>2. seen \in [Threads -> [caller : Callers, count : Nat]]
    BY <2>1
  <2>3. stack \in [Threads -> Seq(Functions)]
    OBVIOUS
  <2>4. QED BY <2>1, <2>2, <2>3 DEF TypeOK, Points, NoCounts
<1>2. ThreadsInv
  <2>1. <<Main>> # << >>
    OBVIOUS
  <2>2. QED BY <1>1, <2>1 DEF ThreadsInv
<1>3. CallerInv
  BY DEF CallerInv, at
<1>4. CountsInv
  BY DEF CountsInv, Entering, Announced, One, NoCounts, Callers, at
<1>5. QED BY <1>2, <1>3, <1>4 DEF RecorderInv, SeenInv

LEMMA RecorderInvStep == RecorderInv /\ [Next]_vars => RecorderInv'
<1> SUFFICES ASSUME RecorderInv, [Next]_vars PROVE RecorderInv'
  OBVIOUS
<1>1. ThreadsInv /\ ThreadsInv' /\ SeenInv /\ SeenInv'
  BY ThreadsInvStep, SeenInvStep DEF RecorderInv
<1>2. SUFFICES ASSUME Single' PROVE ~raced' /\ CallerInv' /\ CountsInv'
  BY <1>1 DEF RecorderInv
<1>3. Single /\ OneThread /\ MainNotCalled' /\ OneThread'
  BY <1>1, <1>2, SingleBefore DEF Single
<1>4. ~raced /\ CallerInv /\ CountsInv
  BY <1>3 DEF RecorderInv
<1>alone. \A t \in Threads : t \in inside => t = First
  BY <1>1, <1>3, FirstActs DEF ThreadsInv
<1>inTurn. ~raced'
  <2>1. ASSUME NEW t \in Threads, point[t] # "none", t \notin inside PROVE inside = {}
    <3>1. t = First
      BY <1>1, <1>3, <2>1, FirstActs
    <3>2. QED BY <1>1, <1>alone, <2>1, <3>1 DEF ThreadsInv, TypeOK
  <2>2. ASSUME NEW t \in Threads, ComeIn(t), point[t] # "none" PROVE ~raced'
    BY <1>4, <2>1, <2>2 DEF ComeIn
  <2>3. ASSUME NEW t \in Threads, Exit(t) PROVE ~raced'
    <3>1. point[t] = "body" /\ t \notin inside
      BY <1>1, <2>3 DEF Exit, InBody, ThreadsInv
    <3>2. QED BY <1>4, <2>1, <2>3, <3>1 DEF Exit
  <2>4. ASSUME NEW t \in Threads, NEW f \in Functions, AddCaller(t, f) PROVE ~raced'
    BY <2>2, <2>4 DEF AddCaller, InBody
  <2>5. ASSUME NEW t \in Threads, AddCallee(t) PROVE ~raced'
    BY <2>2, <2>5 DEF AddCallee
  <2>6. CASE raced' = raced
    BY <1>4, <2>6
  <2>7. \/ raced' = raced
        \/ \E t \in Threads : \/ AddCallee(t) \/ Exit(t)
                              \/ \E f \in Functions : AddCaller(t, f)
    BY DEF Next, vars, history, CallerTold, CountedBeforeCall, CountedAtEntry, Call,
           CallUntold, Return, StartThread
  <2>8. QED BY <2>3, <2>4, <2>5, <2>6, <2>7
<1>left. SUFFICES CallerInv' /\ CountsInv'
  BY <1>inTurn
<1>5. CASE UNCHANGED vars
  <2>1. UNCHANGED <<stack, point, next, currentCaller, entryNum, file, running, made, untold>>
    BY <1>5 DEF vars, recorder, history
  <2>2. QED BY <1>4, <2>1 DEF CallerInv, CountsInv, One, Entering, Announced, at,
                              current, Top
<1>6. ASSUME NEW t \in Threads, NEW f \in Functions, AddCaller(t, f)
      PROVE  CallerInv' /\ CountsInv'
  <2>1. t = First
    BY <1>1, <1>3, <1>6, FirstActs DEF AddCaller, InBody
  <2>2. QED BY <1>1, <1>4, <1>6, <2>1, AddCallerRecorded
<1>told. ASSUME NEW t \in Threads, CallerTold(t) PROVE CallerInv' /\ CountsInv'
  <2>1. t = First
    BY <1>1, <1>3, <1>told, FirstActs DEF CallerTold
  <2>2. QED BY <1>1, <1>4, <1>told, <2>1, CallerToldRecorded
<1>looked. ASSUME NEW t \in Threads, AddCallee(t) PROVE CallerInv' /\ CountsInv'
  <2>1. t = First
    BY <1>1, <1>3, <1>looked, FirstActs DEF AddCallee
  <2>2. QED BY <1>4, <1>looked, <2>1, AddCalleeRecorded
<1>7. ASSUME NEW t \in Threads, CountedBeforeCall(t) PROVE CallerInv' /\ CountsInv'
  <2>1. t = First
    BY <1>1, <1>3, <1>7, FirstActs DEF CountedBeforeCall
  <2>2. QED BY <1>1, <1>4, <1>7, <2>1, CountedBeforeCallRecorded
<1>8. ASSUME NEW t \in Threads, Call(t) PROVE CallerInv' /\ CountsInv'
  <2>1. t = First
    BY <1>1, <1>3, <1>8, FirstActs DEF Call
  <2>2. QED BY <1>1, <1>3, <1>4, <1>8, <2>1, CallRecorded
<1>9. ASSUME NEW t \in Threads, CountedAtEntry(t) PROVE CallerInv' /\ CountsInv'
  <2>1. t = First
    BY <1>1, <1>3, <1>9, FirstActs DEF CountedAtEntry
  <2>2. QED BY <1>1, <1>4, <1>9, <2>1, CountedAtEntryRecorded
<1>10. ASSUME NEW t \in Threads, NEW f \in Functions, CallUntold(t, f)
       PROVE  CallerInv' /\ CountsInv'
  <2>1. t = First
    BY <1>1, <1>3, <1>10, FirstActs DEF CallUntold, InBody
  <2>2. QED BY <1>1, <1>4, <1>10, <2>1, CallUntoldRecorded
<1>11. ASSUME NEW t \in Threads, Return(t) PROVE CallerInv' /\ CountsInv'
  <2>1. t = First
    BY <1>1, <1>3, <1>11, FirstActs DEF Return, InBody
  <2>2. QED BY <1>4, <1>11, <2>1, QuietRecorded DEF Return, InBody, at, history
<1>12. ASSUME NEW t \in Threads, NEW u \in Threads, NEW f \in Functions,
              StartThread(t, u, f)
       PROVE  CallerInv' /\ CountsInv'
  <2>1. stack'[u] # << >> /\ stack[u] = << >>
    BY <1>1, <1>12, EnterFunction DEF StartThread
  <2>2. u # First
    BY <1>1, <2>1, ProgramAssumption DEF ThreadsInv
  <2>3. QED BY <1>3, <2>1, <2>2 DEF OneThread
<1>13. ASSUME NEW t \in Threads, Exit(t) PROVE CallerInv' /\ CountsInv'
  <2>1. t = First
    BY <1>1, <1>3, <1>13, FirstActs DEF Exit, InBody
  <2>2. QED BY <1>4, <1>13, <2>1, QuietRecorded DEF Exit, InBody, at
<1>14. QED
  BY <1>5, <1>6, <1>7, <1>8, <1>9, <1>10, <1>11, <1>12, <1>13, <1>told, <1>looked DEF Next

LEMMA RecorderInvExact == RecorderInv => PairsExact /\ ExternalExact
<1> SUFFICES ASSUME RecorderInv, OneThread, MainNotCalled
             PROVE  /\ \A f, g \in Functions :
                         Counts[<<f, g>>] + One(currentCaller = f /\ Entering(g))
                           = made[<<f, g>>] + One(Announced(f, g))
                    /\ \A g \in Functions \ {Main} :
                         Counts[<<External, g>>] + One(currentCaller = External /\ Entering(g))
                           = untold[g]
  BY DEF PairsExact, ExternalExact, Announced, at, current
<1>1. CountsInv
  BY DEF RecorderInv, Single
<1>2. Counts = entryNum
  BY <1>1 DEF Counts, CountsInv
<1>3. QED BY <1>1, <1>2 DEF CountsInv

(***************************************************************************)
(* While one thread runs and main is not called, the counts of the process *)
(* and of its file are those of the calls by name from one function to     *)
(* another (ShadowCallStack::addCaller, addCallee).                        *)
(***************************************************************************)
THEOREM CallsAreCounted == Spec => []PairsExact
<1>1. Spec => []RecorderInv
  BY RecorderInvInit, RecorderInvStep, PTL DEF Spec
<1>2. QED BY <1>1, RecorderInvExact, PTL

(***************************************************************************)
(* And under "external" they are those of all other calls of functions     *)
(* with a body: a stale caller never counts as theirs.                     *)
(***************************************************************************)
THEOREM OthersAreExternal == Spec => []ExternalExact
<1>1. Spec => []RecorderInv
  BY RecorderInvInit, RecorderInvStep, PTL DEF Spec
<1>2. QED BY <1>1, RecorderInvExact, PTL

-----------------------------------------------------------------------------
(***************************************************************************)
(* Sums of counts                                                          *)
(***************************************************************************)

(***************************************************************************)
(* Induction over the subsets of a finite set, for a set P of subsets: if  *)
(* a subset is in P whenever all smaller ones are, all are.                *)
(***************************************************************************)
LEMMA SubsetInduction ==
  ASSUME NEW S, IsFiniteSet(S), NEW P,
         \A T \in SUBSET S : (\A U \in SUBSET T : U # T => U \in P) => T \in P
  PROVE  \A T \in SUBSET S : T \in P
<1> DEFINE Others == {T \in SUBSET S : T \notin P}
<1> DEFINE R == StrictSubsetOrdering(S)
<1> SUFFICES ASSUME Others # {} PROVE FALSE
  OBVIOUS
<1>1. IsWellFoundedOn(R, SUBSET S)
  <2>1. FiniteSubsetsOf(S) = SUBSET S
    BY FS_FiniteSubsetsOfFinite, Zenon
  <2>2. IsWellFoundedOn(StrictSubsetOrdering(S), FiniteSubsetsOf(S))
    BY FS_StrictSubsetOrderingWellFounded, Zenon
  <2>3. QED BY <2>1, <2>2
<1>2. PICK T \in Others : \A U \in Others : ~(<<U, T>> \in R)
  <2>1. Others \subseteq SUBSET S
    OBVIOUS
  <2> HIDE DEF Others, R
  <2> QED BY <1>1, <2>1, WFMin
<1>3. ASSUME NEW U \in SUBSET T, U # T PROVE U \in P
  <2>1. <<U, T>> \in R
    BY <1>2, <1>3 DEF StrictSubsetOrdering
  <2>2. QED BY <1>2, <2>1
<1>4. QED BY <1>2, <1>3

\* The counts c of the pairs of one of S and g, all together.
CountsOf(c, S, g) == MapThenSumSet(LAMBDA f : c[<<f, g>>], S)

AnyOf(s) == CHOOSE x \in s : TRUE

SumStep(it, c, g, s) ==
  IF s = {} THEN 0 ELSE c[<<AnyOf(s), g>>] + it[s \ {AnyOf(s)}]

IsSumOf(it, c, g, S) == it = [s \in SUBSET S |-> SumStep(it, c, g, s)]

\* The solution of the recursion that the sum is taken from.
SumFor(c, g, S) == CHOOSE it : IsSumOf(it, c, g, S)

LEMMA CountsUnfold ==
  ASSUME NEW c, NEW S, NEW g
  PROVE  CountsOf(c, S, g) = SumFor(c, g, S)[S]
BY DEF CountsOf, MapThenSumSet, MapThenFoldSet, SumFor, IsSumOf, SumStep, AnyOf

(***************************************************************************)
(* Two solutions agree on every set both are defined for.                  *)
(***************************************************************************)
LEMMA SumUnique ==
  ASSUME NEW c, NEW g, NEW S, IsFiniteSet(S), NEW T \in SUBSET S,
         NEW it, IsSumOf(it, c, g, S), NEW jt, IsSumOf(jt, c, g, T)
  PROVE  it[T] = jt[T]
<1> DEFINE P == {s \in SUBSET T : it[s] = jt[s]}
<1>1. ASSUME NEW s \in SUBSET T, \A u \in SUBSET s : u # s => u \in P
      PROVE  s \in P
  <2>1. it[s] = SumStep(it, c, g, s) /\ jt[s] = SumStep(jt, c, g, s)
    BY DEF IsSumOf
  <2>2. CASE s = {}
    BY <2>1, <2>2 DEF SumStep
  <2>3. CASE s # {}
    <3>1. AnyOf(s) \in s
      BY <2>3 DEF AnyOf
    <3>2. it[s \ {AnyOf(s)}] = jt[s \ {AnyOf(s)}]
      BY <3>1, <1>1
    <3>3. QED BY <2>1, <2>3, <3>2 DEF SumStep
  <2>4. QED BY <2>2, <2>3
<1>2. IsFiniteSet(T)
  BY FS_Subset
<1>3. \A s \in SUBSET T : s \in P
  <2> HIDE DEF P
  <2> QED BY <1>1, <1>2, SubsetInduction
<1>4. QED BY <1>3

(***************************************************************************)
(* The recursion has a solution for every finite set: it is put together   *)
(* from those for the smaller sets, which agree.                           *)
(***************************************************************************)
LEMMA SumExists ==
  ASSUME NEW c, NEW g, NEW S, IsFiniteSet(S)
  PROVE  IsSumOf(SumFor(c, g, S), c, g, S)
<1> DEFINE P == {T \in SUBSET S : IsSumOf(SumFor(c, g, T), c, g, T)}
<1>1. ASSUME NEW T \in SUBSET S, \A U \in SUBSET T : U # T => U \in P
      PROVE  T \in P
  <2> DEFINE sum(U) == SumFor(c, g, U)[U]
             jt == [s \in SUBSET T |->
                      IF s = {} THEN 0 ELSE c[<<AnyOf(s), g>>] + sum(s \ {AnyOf(s)})]
  <2>1. \A U \in SUBSET T : U # T => IsSumOf(SumFor(c, g, U), c, g, U)
    BY <1>1
  <2>2. ASSUME NEW u \in SUBSET T, u # T PROVE jt[u] = sum(u)
    <3>1. jt[u] = IF u = {} THEN 0 ELSE c[<<AnyOf(u), g>>] + sum(u \ {AnyOf(u)})
      OBVIOUS
    <3> HIDE DEF jt
    <3>2. sum(u) = SumStep(SumFor(c, g, u), c, g, u)
      BY <2>1, <2>2 DEF IsSumOf
    <3>3. CASE u = {}
      BY <3>1, <3>2, <3>3 DEF SumStep
    <3>4. CASE u # {}
      <4> DEFINE r == u \ {AnyOf(u)}
      <4>1. AnyOf(u) \in u
        BY <3>4 DEF AnyOf
      <4>2. r \in SUBSET u /\ r \in SUBSET T /\ r # T
        BY <4>1
      <4>3. IsFiniteSet(u)
        BY FS_Subset
      <4> HIDE DEF r
      <4>4. IsSumOf(SumFor(c, g, u), c, g, u) /\ IsSumOf(SumFor(c, g, r), c, g, r)
        BY <2>1, <2>2, <4>2
      <4>5. SumFor(c, g, u)[r] = sum(r)
        BY <4>2, <4>3, <4>4, SumUnique
      <4> HIDE DEF sum
      <4>6. QED BY <3>1, <3>2, <3>4, <4>5 DEF SumStep, r
    <3>5. QED BY <3>3, <3>4
  <2>3. ASSUME NEW s \in SUBSET T PROVE jt[s] = SumStep(jt, c, g, s)
    <3>1. jt[s] = IF s = {} THEN 0 ELSE c[<<AnyOf(s), g>>] + sum(s \ {AnyOf(s)})
      OBVIOUS
    <3> HIDE DEF jt, sum
    <3>2. CASE s = {}
      BY <3>1, <3>2 DEF SumStep
    <3>3. CASE s # {}
      <4>1. AnyOf(s) \in s
        BY <3>3 DEF AnyOf
      <4>2. jt[s \ {AnyOf(s)}] = sum(s \ {AnyOf(s)})
        BY <2>2, <4>1
      <4>3. QED BY <3>1, <3>3, <4>2 DEF SumStep
    <3>4. QED BY <3>2, <3>3
  <2>4. jt = [s \in SUBSET T |-> SumStep(jt, c, g, s)]
    <3>1. jt = [s \in SUBSET T |-> jt[s]]
      OBVIOUS
    <3> HIDE DEF jt
    <3>2. QED BY <3>1, <2>3
  <2> HIDE DEF jt
  <2>5. IsSumOf(jt, c, g, T)
    BY <2>4 DEF IsSumOf
  <2>6. QED BY <2>5 DEF SumFor
<1>2. \A T \in SUBSET S : T \in P
  <2> HIDE DEF P
  <2> QED BY <1>1, SubsetInduction
<1>3. QED BY <1>2

LEMMA CountsRecursion ==
  ASSUME NEW c, NEW g, NEW S, IsFiniteSet(S)
  PROVE  /\ S = {} => CountsOf(c, S, g) = 0
         /\ S # {} => /\ AnyOf(S) \in S
                      /\ CountsOf(c, S, g) =
                           c[<<AnyOf(S), g>>] + CountsOf(c, S \ {AnyOf(S)}, g)
<1> DEFINE it == SumFor(c, g, S)
<1>1. IsSumOf(it, c, g, S)
  BY SumExists
<1>2. CountsOf(c, S, g) = it[S]
  BY CountsUnfold
<1> HIDE DEF it
<1>3. it[S] = SumStep(it, c, g, S)
  BY <1>1 DEF IsSumOf
<1>4. CASE S = {}
  BY <1>2, <1>3, <1>4 DEF SumStep
<1>5. CASE S # {}
  <2> DEFINE T == S \ {AnyOf(S)}
  <2>1. T \in SUBSET S /\ IsFiniteSet(T)
    BY FS_Subset
  <2>2. AnyOf(S) \in S
    BY <1>5 DEF AnyOf
  <2> HIDE DEF T
  <2>3. IsSumOf(SumFor(c, g, T), c, g, T)
    BY <2>1, SumExists
  <2>4. it[T] = SumFor(c, g, T)[T]
    BY <1>1, <2>1, <2>3, SumUnique
  <2>5. it[T] = CountsOf(c, T, g)
    BY <2>4, CountsUnfold
  <2>6. QED BY <1>2, <1>3, <1>5, <2>2, <2>5 DEF SumStep, T
<1>6. QED BY <1>4, <1>5

LEMMA CountsNatural ==
  ASSUME NEW c, NEW g, NEW S, IsFiniteSet(S), \A f \in S : c[<<f, g>>] \in Nat
  PROVE  CountsOf(c, S, g) \in Nat
<1> DEFINE P == {T \in SUBSET S : CountsOf(c, T, g) \in Nat}
<1>1. ASSUME NEW T \in SUBSET S, \A U \in SUBSET T : U # T => U \in P
      PROVE  T \in P
  <2>1. IsFiniteSet(T)
    BY FS_Subset
  <2>2. CASE T = {}
    <3>1. CountsOf(c, T, g) = 0
      BY <2>1, <2>2, CountsRecursion
    <3>2. QED BY <3>1
  <2>3. CASE T # {}
    <3> DEFINE r == T \ {AnyOf(T)}
    <3>1. /\ AnyOf(T) \in T
          /\ CountsOf(c, T, g) = c[<<AnyOf(T), g>>] + CountsOf(c, r, g)
      BY <2>1, <2>3, CountsRecursion
    <3>2. r \in SUBSET T /\ r # T
      BY <3>1
    <3> HIDE DEF r
    <3>3. CountsOf(c, r, g) \in Nat
      BY <1>1, <3>2
    <3>4. c[<<AnyOf(T), g>>] \in Nat
      BY <3>1
    <3>5. QED BY <3>1, <3>3, <3>4
  <2>4. QED BY <2>2, <2>3
<1>2. \A T \in SUBSET S : T \in P
  <2> HIDE DEF P
  <2> QED BY <1>1, SubsetInduction
<1>3. QED BY <1>2

(***************************************************************************)
(* If the counts of two tables differ by one for the pair of a and g, and  *)
(* are equal for the others, so do the sums of a set with a in it, and the *)
(* sums of one without are equal.                                          *)
(***************************************************************************)
LEMMA CountsStep ==
  ASSUME NEW c, NEW d, NEW g, NEW a, NEW S, IsFiniteSet(S),
         \A f \in S : /\ c[<<f, g>>] \in Nat
                      /\ d[<<f, g>>] = c[<<f, g>>] + One(f = a)
  PROVE  /\ a \in S => CountsOf(d, S, g) = CountsOf(c, S, g) + 1
         /\ a \notin S => CountsOf(d, S, g) = CountsOf(c, S, g)
<1> DEFINE P == {T \in SUBSET S :
                   CountsOf(d, T, g) = CountsOf(c, T, g) + One(a \in T)}
<1>1. ASSUME NEW T \in SUBSET S, \A U \in SUBSET T : U # T => U \in P
      PROVE  T \in P
  <2>1. IsFiniteSet(T)
    BY FS_Subset
  <2>2. CASE T = {}
    <3>1. CountsOf(c, T, g) = 0 /\ CountsOf(d, T, g) = 0
      BY <2>1, <2>2, CountsRecursion
    <3>2. a \notin T
      BY <2>2
    <3>3. QED BY <3>1, <3>2 DEF One
  <2>3. CASE T # {}
    <3> DEFINE r == T \ {AnyOf(T)}
    <3>1. /\ AnyOf(T) \in T
          /\ CountsOf(c, T, g) = c[<<AnyOf(T), g>>] + CountsOf(c, r, g)
          /\ CountsOf(d, T, g) = d[<<AnyOf(T), g>>] + CountsOf(d, r, g)
      BY <2>1, <2>3, CountsRecursion
    <3>2. r \in SUBSET T /\ r # T /\ IsFiniteSet(r)
      BY <2>1, <3>1, FS_Subset
    <3>3. a \in r <=> a \in T /\ AnyOf(T) # a
      OBVIOUS
    <3> HIDE DEF r
    <3>4. CountsOf(d, r, g) = CountsOf(c, r, g) + One(a \in r)
      BY <1>1, <3>2
    <3>5. \A f \in r : c[<<f, g>>] \in Nat
      BY <3>2
    <3>6. CountsOf(c, r, g) \in Nat
      BY <3>2, <3>5, CountsNatural
    <3>7. /\ c[<<AnyOf(T), g>>] \in Nat
          /\ d[<<AnyOf(T), g>>] = c[<<AnyOf(T), g>>] + One(AnyOf(T) = a)
      BY <3>1
    <3>8. CountsOf(d, T, g) = CountsOf(c, T, g) + One(a \in T)
      BY <3>1, <3>3, <3>4, <3>6, <3>7 DEF One
    <3>9. QED BY <3>8
  <2>4. QED BY <2>2, <2>3
<1>2. \A T \in SUBSET S : T \in P
  <2> HIDE DEF P
  <2> QED BY <1>1, SubsetInduction
<1>3. CountsOf(d, S, g) = CountsOf(c, S, g) + One(a \in S)
  BY <1>2
<1>4. CountsOf(c, S, g) \in Nat
  BY CountsNatural
<1>5. QED BY <1>3, <1>4 DEF One

LEMMA CountsSame ==
  ASSUME NEW c, NEW d, NEW g, NEW S, IsFiniteSet(S),
         \A f \in S : c[<<f, g>>] \in Nat /\ d[<<f, g>>] = c[<<f, g>>]
  PROVE  CountsOf(d, S, g) = CountsOf(c, S, g)
<1> DEFINE a == {x \in S : x \notin x}
<1>1. a \notin S
  OBVIOUS
<1> HIDE DEF a
<1>2. \A f \in S : c[<<f, g>>] \in Nat /\ d[<<f, g>>] = c[<<f, g>>] + One(f = a)
  BY <1>1 DEF One
<1>3. QED BY <1>1, <1>2, CountsStep

LEMMA CountsZero ==
  ASSUME NEW c, NEW g, NEW S, IsFiniteSet(S), \A f \in S : c[<<f, g>>] = 0
  PROVE  CountsOf(c, S, g) = 0
<1> DEFINE P == {T \in SUBSET S : CountsOf(c, T, g) = 0}
<1>1. ASSUME NEW T \in SUBSET S, \A U \in SUBSET T : U # T => U \in P
      PROVE  T \in P
  <2>1. IsFiniteSet(T)
    BY FS_Subset
  <2>2. CASE T = {}
    <3>1. CountsOf(c, T, g) = 0
      BY <2>1, <2>2, CountsRecursion
    <3>2. QED BY <3>1
  <2>3. CASE T # {}
    <3> DEFINE r == T \ {AnyOf(T)}
    <3>1. /\ AnyOf(T) \in T
          /\ CountsOf(c, T, g) = c[<<AnyOf(T), g>>] + CountsOf(c, r, g)
      BY <2>1, <2>3, CountsRecursion
    <3>2. r \in SUBSET T /\ r # T
      BY <3>1
    <3> HIDE DEF r
    <3>3. CountsOf(c, r, g) = 0
      BY <1>1, <3>2
    <3>4. c[<<AnyOf(T), g>>] = 0
      BY <3>1
    <3>5. QED BY <3>1, <3>3, <3>4
  <2>4. QED BY <2>2, <2>3
<1>2. \A T \in SUBSET S : T \in P
  <2> HIDE DEF P
  <2> QED BY <1>1, SubsetInduction
<1>3. QED BY <1>2

-----------------------------------------------------------------------------
(***************************************************************************)
(* All entries of a function, under whatever caller                        *)
(***************************************************************************)

\* The threads that have been called to g and not come to its addCallee yet.
EnteringTo(g) == {t \in Threads : point[t] = "entry" /\ Top(t) = g}

Totals(g) ==
  CountsOf(entryNum, Callers, g) + Cardinality(EnteringTo(g))
    = CountsOf(made, Functions, g) + untold[g]

\* Only calls of functions without a body are announced to the recorder, which
\* is what keeps the counts of the others to one for each entry.
TotalsInv ==
  /\ ThreadsInv
  /\ SeenInv
  /\ \A t \in Threads : point[t] = "announce" => next[t] \in Declared
  /\ ~running => file = entryNum
  /\ ~raced => \A g \in Functions : Instrumented(g) => Totals(g)

LEMMA SumsAreNatural ==
  ASSUME ThreadsInv, NEW g \in Functions
  PROVE  /\ CountsOf(entryNum, Callers, g) \in Nat
         /\ CountsOf(made, Functions, g) \in Nat
         /\ untold[g] \in Nat
         /\ IsFiniteSet(EnteringTo(g)) /\ Cardinality(EnteringTo(g)) \in Nat
<1> USE ProgramAssumption
<1>1. IsFiniteSet(Callers) /\ IsFiniteSet(Functions)
  BY FS_AddElement DEF Callers
<1>2. \A f \in Callers : entryNum[<<f, g>>] \in Nat
  BY DEF ThreadsInv, TypeOK
<1>3. \A f \in Functions : made[<<f, g>>] \in Nat
  BY DEF ThreadsInv, TypeOK
<1>4. CountsOf(entryNum, Callers, g) \in Nat
  BY <1>1, <1>2, CountsNatural
<1>5. CountsOf(made, Functions, g) \in Nat
  BY <1>1, <1>3, CountsNatural
<1>6. EnteringTo(g) \in SUBSET Threads
  BY DEF EnteringTo
<1>7. IsFiniteSet(EnteringTo(g)) /\ Cardinality(EnteringTo(g)) \in Nat
  BY <1>6, FS_Subset, FS_CardinalityType
<1>8. QED BY <1>4, <1>5, <1>7 DEF ThreadsInv, TypeOK

\* The table d is c with one more for the pair of a and b.
OneMore(c, d, A, B, a, b) ==
  \A x \in A, y \in B :
    /\ c[<<x, y>>] \in Nat
    /\ d[<<x, y>>] = IF x = a /\ y = b THEN c[<<x, y>>] + 1 ELSE c[<<x, y>>]

\* Which is one more in one sum.
LEMMA SumCountedOnce ==
  ASSUME NEW A, IsFiniteSet(A), NEW B, NEW c, NEW d, NEW a \in A, NEW b,
         OneMore(c, d, A, B, a, b), NEW g \in B
  PROVE  CountsOf(d, A, g) = CountsOf(c, A, g) + One(b = g)
<1>1. CASE b = g
  <2>1. \A x \in A : /\ c[<<x, g>>] \in Nat
                     /\ d[<<x, g>>] = c[<<x, g>>] + One(x = a)
    BY <1>1 DEF One, OneMore
  <2>2. CountsOf(d, A, g) = CountsOf(c, A, g) + 1
    BY <2>1, CountsStep
  <2>3. QED BY <1>1, <2>2 DEF One
<1>2. CASE b # g
  <2>1. \A x \in A : c[<<x, g>>] \in Nat /\ d[<<x, g>>] = c[<<x, g>>]
    BY <1>2 DEF OneMore
  <2>2. CountsOf(d, A, g) = CountsOf(c, A, g)
    BY <2>1, CountsSame
  <2>3. CountsOf(c, A, g) \in Nat
    BY <2>1, CountsNatural
  <2>4. QED BY <1>2, <2>2, <2>3 DEF One
<1>3. QED BY <1>1, <1>2

\* addCallee counts an entry of f, and no other.
LEMMA RecordCalleeTotals ==
  ASSUME ThreadsInv, SeenInv, ~raced, NEW t \in Threads, point[t] # "tell",
         NEW f \in Functions, f = Callee(t), RecordCallee(t, f), NEW g \in Functions
  PROVE  CountsOf(entryNum', Callers, g) = CountsOf(entryNum, Callers, g) + One(f = g)
<1>1. IsFiniteSet(Callers)
  BY ProgramAssumption, FS_AddElement DEF Callers
<1>2. entryNum \in [Callers \X Functions -> Nat] /\ currentCaller \in Callers
  BY DEF ThreadsInv, TypeOK
<1>3. entryNum' = [entryNum EXCEPT ![<<currentCaller, f>>] = @ + 1]
  BY RecordCalleeFresh
<1>4. OneMore(entryNum, entryNum', Callers, Functions, currentCaller, f)
  BY <1>2, <1>3, CountedOnce DEF OneMore
<1>5. QED BY <1>1, <1>2, <1>4, SumCountedOnce

\* A call by name is a call of the function named, and of no other.
LEMMA MadeTotals ==
  ASSUME ThreadsInv, NEW t \in Threads, Call(t), NEW g \in Functions
  PROVE  CountsOf(made', Functions, g) = CountsOf(made, Functions, g) + One(next[t] = g)
<1>1. IsFiniteSet(Functions)
  BY ProgramAssumption
<1>2. made \in [Functions \X Functions -> Nat]
  BY DEF ThreadsInv, TypeOK
<1>3. Top(t) \in Functions /\ next[t] \in Functions
  BY TopIsFunction DEF Call, ThreadsInv, TypeOK
<1>4. made' = [made EXCEPT ![<<Top(t), next[t]>>] = @ + 1]
  BY DEF Call
<1>5. OneMore(made, made', Functions, Functions, Top(t), next[t])
  BY <1>2, <1>3, <1>4, CountedOnce DEF OneMore
<1>6. QED BY <1>1, <1>3, <1>5, SumCountedOnce

\* Who enters a function with an addCallee is on the way to it.
LEMMA EnterTotals ==
  ASSUME ThreadsInv, NEW t \in Threads, NEW f \in Functions, Enter(t, f),
         point[t] # "entry", NEW g \in Functions
  PROVE  Cardinality(EnteringTo(g)')
           = Cardinality(EnteringTo(g)) + One(f = g /\ Instrumented(f))
<1>1. /\ Top(t)' = f
      /\ point'[t] = (IF Instrumented(f) THEN "entry" ELSE "body")
      /\ \A u \in Threads \ {t} : stack'[u] = stack[u] /\ point'[u] = point[u]
  BY EnterFunction
<1>2. \A u \in Threads \ {t} : Top(u)' = Top(u)
  BY <1>1 DEF Top
<1>3. t \notin EnteringTo(g)
  BY DEF EnteringTo
<1>4. EnteringTo(g)' = IF f = g /\ Instrumented(f)
                       THEN EnteringTo(g) \cup {t} ELSE EnteringTo(g)
  BY <1>1, <1>2, <1>3 DEF EnteringTo
<1>5. IsFiniteSet(EnteringTo(g)) /\ Cardinality(EnteringTo(g)) \in Nat
  BY SumsAreNatural
<1>6. Cardinality(EnteringTo(g) \cup {t}) = Cardinality(EnteringTo(g)) + 1
  BY <1>3, <1>5, FS_AddElement
<1>7. QED BY <1>4, <1>5, <1>6 DEF One

\* The totals of a state in which nothing that they are made from has changed.
LEMMA TotalsStay ==
  ASSUME NEW g, Totals(g), UNCHANGED <<entryNum, made, untold>>,
         EnteringTo(g)' = EnteringTo(g)
  PROVE  Totals(g)'
BY DEF Totals

LEMMA TotalsInvInit == Init => TotalsInv
<1> SUFFICES ASSUME Init PROVE TotalsInv
  OBVIOUS
<1> USE ProgramAssumption
<1>1. ThreadsInv
  BY RecorderInvInit DEF RecorderInv
<1>2. ASSUME NEW g \in Functions PROVE Totals(g)
  <2>1. IsFiniteSet(Callers)
    BY FS_AddElement DEF Callers
  <2>2. CountsOf(entryNum, Callers, g) = 0
    <3>1. \A f \in Callers : entryNum[<<f, g>>] = 0
      BY DEF Init, NoCounts
    <3>2. QED BY <2>1, <3>1, CountsZero
  <2>3. CountsOf(made, Functions, g) = 0
    <3>1. \A f \in Functions : made[<<f, g>>] = 0
      BY DEF Init
    <3>2. QED BY <3>1, CountsZero
  <2>4. EnteringTo(g) = {}
    BY DEF Init, EnteringTo
  <2>5. untold[g] = 0
    BY DEF Init
  <2>6. QED BY <2>2, <2>3, <2>4, <2>5, FS_EmptySet DEF Totals
<1>3. QED BY <1>1, <1>2 DEF TotalsInv, SeenInv, Init

LEMMA TotalsInvStep == TotalsInv /\ [Next]_vars => TotalsInv'
<1> SUFFICES ASSUME TotalsInv, [Next]_vars PROVE TotalsInv'
  OBVIOUS
<1> DEFINE Announcing == \A t \in Threads : point[t] = "announce" => next[t] \in Declared
           Written == ~running => file = entryNum
           Exact == ~raced => \A g \in Functions : Instrumented(g) => Totals(g)
<1>1. /\ ThreadsInv /\ ThreadsInv' /\ SeenInv /\ SeenInv' /\ (~raced' => ~raced)
      /\ Announcing /\ Written /\ Exact
  BY ThreadsInvStep, SeenInvStep, RacedStays DEF TotalsInv
<1>2. /\ point \in [Threads -> Points] /\ next \in [Threads -> Functions]
      /\ untold \in [Functions -> Nat]
  BY <1>1 DEF ThreadsInv, TypeOK
<1>3. SUFFICES Announcing' /\ Written' /\ Exact'
  BY <1>1 DEF TotalsInv
<1>4. \A g \in Functions : /\ CountsOf(entryNum, Callers, g) \in Nat
                           /\ CountsOf(made, Functions, g) \in Nat
                           /\ untold[g] \in Nat
                           /\ Cardinality(EnteringTo(g)) \in Nat
  BY <1>1, SumsAreNatural
\* Steps that count nothing and bring nobody to or from an addCallee.
<1>5. ASSUME UNCHANGED <<entryNum, made, untold>>,
             \A g \in Functions : EnteringTo(g)' = EnteringTo(g)
      PROVE  Exact'
  <2>1. SUFFICES ASSUME ~raced', NEW g \in Functions, Instrumented(g) PROVE Totals(g)'
    BY DEF Instrumented
  <2>2. Totals(g)
    BY <1>1, <2>1
  <2>3. QED BY <1>5, <2>2, TotalsStay
<1>6. CASE UNCHANGED vars
  <2>1. UNCHANGED <<stack, point, next, entryNum, file, running, made, untold>>
    BY <1>6 DEF vars, recorder, history
  <2>2. \A g \in Functions : EnteringTo(g)' = EnteringTo(g)
    BY <2>1 DEF EnteringTo, Top
  <2>3. Exact'
    BY <1>5, <2>1, <2>2
  <2>4. QED BY <1>1, <2>1, <2>3
<1>7. ASSUME NEW t \in Threads, NEW f \in Functions, AddCaller(t, f)
      PROVE  Announcing' /\ Written' /\ Exact'
  <2>1. /\ point[t] = "body" /\ running /\ running' = running /\ stack' = stack
        /\ UNCHANGED <<entryNum, made, untold>>
        /\ point' = [point EXCEPT ![t] = "tell"] /\ next' = [next EXCEPT ![t] = f]
    BY <1>7 DEF AddCaller, InBody
  <2>2. \A u \in Threads : (point'[u] = "entry") = (point[u] = "entry")
    BY <1>2, <2>1
  <2>3. \A g \in Functions : EnteringTo(g)' = EnteringTo(g)
    BY <2>1, <2>2 DEF EnteringTo, Top
  <2>4. Exact'
    BY <1>5, <2>1, <2>3
  <2>5. Announcing'
    BY <1>1, <1>2, <2>1
  <2>6. QED BY <2>1, <2>4, <2>5
<1>told. ASSUME NEW t \in Threads, CallerTold(t) PROVE Announcing' /\ Written' /\ Exact'
  <2>1. /\ point[t] = "tell" /\ running /\ running' = running /\ stack' = stack
        /\ UNCHANGED <<next, entryNum, made, untold>>
        /\ point' = [point EXCEPT ![t] = IF next[t] \in Declared THEN "announce" ELSE "call"]
    BY <1>told DEF CallerTold, history
  <2>2. \A u \in Threads : (point'[u] = "entry") = (point[u] = "entry")
    BY <1>2, <2>1
  <2>3. \A g \in Functions : EnteringTo(g)' = EnteringTo(g)
    BY <2>1, <2>2 DEF EnteringTo, Top
  <2>4. Exact'
    BY <1>5, <2>1, <2>3
  <2>5. Announcing'
    BY <1>1, <1>2, <2>1
  <2>6. QED BY <2>1, <2>4, <2>5
<1>looked. ASSUME NEW t \in Threads, AddCallee(t) PROVE Announcing' /\ Written' /\ Exact'
  <2>1. UNCHANGED <<stack, point, next, entryNum, running, made, untold>> /\ running
    BY <1>looked DEF AddCallee
  <2>2. \A g \in Functions : EnteringTo(g)' = EnteringTo(g)
    BY <2>1 DEF EnteringTo, Top
  <2>3. Exact'
    BY <1>5, <2>1, <2>2
  <2>4. QED BY <1>1, <2>1, <2>3
<1>8. ASSUME NEW t \in Threads, CountedBeforeCall(t)
      PROVE  Announcing' /\ Written' /\ Exact'
  <2>1. /\ point[t] = "announce" /\ running /\ running' = running /\ stack' = stack
        /\ RecordCallee(t, next[t]) /\ UNCHANGED <<made, untold>>
        /\ point' = [point EXCEPT ![t] = "call"] /\ next' = next /\ Callee(t) = next[t]
    BY <1>8 DEF CountedBeforeCall, history, Callee
  <2>2. \A u \in Threads : (point'[u] = "entry") = (point[u] = "entry")
    BY <1>2, <2>1
  <2>3. \A g \in Functions : EnteringTo(g)' = EnteringTo(g)
    BY <2>1, <2>2 DEF EnteringTo, Top
  <2>4. Exact'
    <3>1. SUFFICES ASSUME ~raced', NEW g \in Functions, Instrumented(g) PROVE Totals(g)'
      BY DEF Instrumented
    <3>2. next[t] # g
      BY <1>1, <2>1, <3>1 DEF Instrumented
    <3>3. CountsOf(entryNum', Callers, g) = CountsOf(entryNum, Callers, g)
      <4>1. CountsOf(entryNum', Callers, g)
              = CountsOf(entryNum, Callers, g) + One(next[t] = g)
        BY <1>1, <1>2, <2>1, <3>1, RecordCalleeTotals
      <4>2. QED BY <1>4, <3>2, <4>1 DEF One
    <3>4. Totals(g)
      BY <1>1, <3>1
    <3>5. QED BY <2>1, <2>3, <3>3, <3>4 DEF Totals
  <2>5. Announcing'
    BY <1>1, <1>2, <2>1
  <2>6. QED BY <2>1, <2>4, <2>5
<1>9. ASSUME NEW t \in Threads, Call(t) PROVE Announcing' /\ Written' /\ Exact'
  <2>1. /\ point[t] = "call" /\ running /\ running' = running
        /\ Enter(t, next[t]) /\ UNCHANGED <<entryNum, untold, next>>
        /\ made' = [made EXCEPT ![<<Top(t), next[t]>>] = @ + 1]
    BY <1>9 DEF Call, recorder
  <2>2. Top(t) \in Functions /\ next[t] \in Functions
    BY <1>1, <1>2, <2>1, TopIsFunction
  <2>3. Exact'
    <3>1. SUFFICES ASSUME ~raced', NEW g \in Functions, Instrumented(g) PROVE Totals(g)'
      BY DEF Instrumented
    <3>2. CountsOf(made', Functions, g)
            = CountsOf(made, Functions, g) + One(next[t] = g)
      BY <1>1, <1>9, MadeTotals
    <3>3. Cardinality(EnteringTo(g)')
            = Cardinality(EnteringTo(g)) + One(next[t] = g /\ Instrumented(next[t]))
      BY <1>1, <2>1, <2>2, EnterTotals
    <3>4. Totals(g)
      BY <1>1, <3>1
    <3>5. QED BY <1>4, <2>1, <3>1, <3>2, <3>3, <3>4 DEF Totals, One
  <2>4. Announcing'
    BY <1>1, <1>2, <2>1, <2>2, EnterFunction
  <2>5. QED BY <2>1, <2>3, <2>4
<1>10. ASSUME NEW t \in Threads, CountedAtEntry(t)
       PROVE  Announcing' /\ Written' /\ Exact'
  <2>1. /\ point[t] = "entry" /\ running /\ running' = running /\ stack' = stack
        /\ RecordCallee(t, Top(t)) /\ UNCHANGED <<made, untold, next>>
        /\ point' = [point EXCEPT ![t] = "body"] /\ Callee(t) = Top(t)
    BY <1>10 DEF CountedAtEntry, history, Callee
  <2>2. Top(t) \in Functions
    BY <1>1, <2>1, TopIsFunction
  <2>3. Exact'
    <3>1. SUFFICES ASSUME ~raced', NEW g \in Functions, Instrumented(g) PROVE Totals(g)'
      BY DEF Instrumented
    <3>2. CountsOf(entryNum', Callers, g)
            = CountsOf(entryNum, Callers, g) + One(Top(t) = g)
      BY <1>1, <2>1, <2>2, <3>1, RecordCalleeTotals
    <3>3. Cardinality(EnteringTo(g)) = Cardinality(EnteringTo(g)') + One(Top(t) = g)
      <4>1. EnteringTo(g)' = EnteringTo(g) \ {t}
        BY <1>2, <2>1 DEF EnteringTo, Top
      <4>2. t \in EnteringTo(g) <=> Top(t) = g
        BY <2>1 DEF EnteringTo
      <4>3. IsFiniteSet(EnteringTo(g))
        BY <1>1, SumsAreNatural
      <4>4. CASE Top(t) = g
        <5>1. Cardinality(EnteringTo(g) \ {t}) = Cardinality(EnteringTo(g)) - 1
          BY <4>2, <4>3, <4>4, FS_RemoveElement
        <5>2. QED BY <1>4, <4>1, <4>4, <5>1 DEF One
      <4>5. CASE Top(t) # g
        <5>1. EnteringTo(g)' = EnteringTo(g)
          BY <4>1, <4>2, <4>5
        <5>2. QED BY <1>4, <4>5, <5>1 DEF One
      <4>6. QED BY <4>4, <4>5
    <3>4. Totals(g)
      BY <1>1, <3>1
    <3>5. Cardinality(EnteringTo(g)') \in Nat
      <4>1. EnteringTo(g)' \in SUBSET Threads
        BY DEF EnteringTo
      <4>2. QED BY <4>1, ProgramAssumption, FS_Subset, FS_CardinalityType
    <3>6. QED BY <1>4, <2>1, <3>2, <3>3, <3>4, <3>5 DEF Totals, One
  <2>4. Announcing'
    BY <1>1, <1>2, <2>1
  <2>5. QED BY <2>1, <2>3, <2>4
\* An entry that the recorder is not told of, by whichever thread.
<1>11. ASSUME NEW t \in Threads, NEW f \in Functions, Enter(t, f), point[t] # "entry",
              UNCHANGED <<entryNum, made>>,
              untold' = [untold EXCEPT ![f] = @ + (IF f \in Declared THEN 0 ELSE 1)]
       PROVE  Exact'
  <2>1. SUFFICES ASSUME ~raced', NEW g \in Functions, Instrumented(g) PROVE Totals(g)'
    BY DEF Instrumented
  <2>2. Cardinality(EnteringTo(g)')
          = Cardinality(EnteringTo(g)) + One(f = g /\ Instrumented(f))
    BY <1>1, <1>11, EnterTotals
  <2>3. untold'[g] = untold[g] + One(f = g)
    BY <1>2, <1>11, <2>1 DEF One, Instrumented
  <2>4. Totals(g)
    BY <1>1, <2>1
  <2>5. QED BY <1>4, <1>11, <2>1, <2>2, <2>3, <2>4 DEF Totals, One
<1>12. ASSUME NEW t \in Threads, NEW f \in Functions, CallUntold(t, f)
       PROVE  Announcing' /\ Written' /\ Exact'
  <2>1. /\ point[t] = "body" /\ running /\ running' = running
        /\ Enter(t, f) /\ UNCHANGED <<entryNum, made, next>>
        /\ untold' = [untold EXCEPT ![f] = @ + (IF f \in Declared THEN 0 ELSE 1)]
    BY <1>12 DEF CallUntold, InBody, recorder
  <2>2. Exact'
    BY <1>11, <2>1
  <2>3. Announcing'
    BY <1>1, <1>2, <2>1, EnterFunction
  <2>4. QED BY <2>1, <2>2, <2>3
<1>13. ASSUME NEW t \in Threads, Return(t) PROVE Announcing' /\ Written' /\ Exact'
  <2>1. /\ point[t] = "body" /\ running /\ running' = running
        /\ UNCHANGED <<point, next, entryNum, made, untold>>
        /\ stack' = [stack EXCEPT ![t] = SubSeq(@, 1, Len(@) - 1)]
    BY <1>13 DEF Return, InBody, recorder, history
  <2>2. \A u \in Threads \ {t} : stack'[u] = stack[u]
    BY <1>1, <2>1 DEF ThreadsInv, TypeOK
  <2>3. \A g \in Functions : EnteringTo(g)' = EnteringTo(g)
    BY <2>1, <2>2 DEF EnteringTo, Top
  <2>4. Exact'
    BY <1>5, <2>1, <2>3
  <2>5. QED BY <1>1, <2>1, <2>4
<1>14. ASSUME NEW t \in Threads, NEW u \in Threads, NEW f \in Functions,
              StartThread(t, u, f)
       PROVE  Announcing' /\ Written' /\ Exact'
  <2>1. /\ running /\ running' = running /\ stack[u] = << >> /\ Instrumented(f)
        /\ Enter(u, f) /\ UNCHANGED <<entryNum, made, next>>
        /\ untold' = [untold EXCEPT ![f] = @ + 1]
    BY <1>14 DEF StartThread, InBody, recorder
  <2>2. point[u] = "none"
    BY <1>1, <2>1 DEF ThreadsInv
  <2>3. untold' = [untold EXCEPT ![f] = @ + (IF f \in Declared THEN 0 ELSE 1)]
    BY <2>1 DEF Instrumented
  <2>4. Exact'
    BY <1>11, <2>1, <2>2, <2>3
  <2>5. Announcing'
    BY <1>1, <1>2, <2>1, EnterFunction
  <2>6. QED BY <2>1, <2>4, <2>5
<1>15. ASSUME NEW t \in Threads, Exit(t) PROVE Announcing' /\ Written' /\ Exact'
  <2>1. UNCHANGED <<stack, point, next, entryNum, made, untold>> /\ file' = entryNum
    BY <1>15 DEF Exit, recorder, history
  <2>2. \A g \in Functions : EnteringTo(g)' = EnteringTo(g)
    BY <2>1 DEF EnteringTo, Top
  <2>3. Exact'
    BY <1>5, <2>1, <2>2
  <2>4. QED BY <1>1, <2>1, <2>3
<1>16. QED
  BY <1>6, <1>7, <1>8, <1>9, <1>10, <1>12, <1>13, <1>14, <1>15, <1>told, <1>looked DEF Next

LEMMA TotalsInvExact == TotalsInv => TotalsExact
<1> SUFFICES ASSUME TotalsInv, ~raced, NEW g \in Functions, Instrumented(g)
             PROVE  CountsOf(Counts, Callers, g) + Cardinality(EnteringTo(g))
                      = CountsOf(made, Functions, g) + untold[g]
  BY DEF TotalsExact, CountsOf, EnteringTo
<1>1. Counts = entryNum
  BY DEF Counts, TotalsInv
<1>2. QED BY <1>1 DEF TotalsInv, Totals

(***************************************************************************)
(* However the threads take turns, and with main called too, as long as no *)
(* two calls of the recorder overlap: a function with an addCallee has     *)
(* been counted, under its callers and "external" together, once for each  *)
(* time it was entered.  What turns of threads and calls of main spoil is  *)
(* whose call it was, and only an overlap how many there were.             *)
(***************************************************************************)
THEOREM TotalsAlwaysExact == Spec => []TotalsExact
<1>1. Spec => []TotalsInv
  BY TotalsInvInit, TotalsInvStep, PTL DEF Spec
<1>2. QED BY <1>1, TotalsInvExact, PTL
=============================================================================
