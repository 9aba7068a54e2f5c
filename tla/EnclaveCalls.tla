----------------------------- MODULE EnclaveCalls -----------------------------
(***************************************************************************)
(* The code SGXCodeGenerator emits, running: calls across the border of    *)
(* the enclave.  An ecall goes from the application to a secure function,  *)
(* an ocall from the enclave to an application function; a function called *)
(* one way may call back the other way before it returns.                  *)
(*                                                                         *)
(* On either side a wrapper pushes the parameters onto a parameter stack   *)
(* of its own (Asylo's, last in, first out), makes the call and pops the   *)
(* parameters; the handler on the other side pops them, calls the function *)
(* and pushes the result and the parameters.  The function works on the    *)
(* handler's copies.  Only one thread runs.                                *)
(*                                                                         *)
(* The statements are modelled as they are emitted, a variable being a     *)
(* place for one value, although a compiler refuses some of them: a value  *)
(* popped into a parameter that is a pointer, as the returnVal of every    *)
(* wrapper is; the returnVal of an ocall's handler, which is not declared; *)
(* and the one a void ecall's redirecting function returns, which has      *)
(* none.  What the wrapper pops goes to variables of its own: none of it   *)
(* reaches its caller.                                                     *)
(***************************************************************************)
EXTENDS EnclaveInterface, Integers, SequencesExt

CONSTANTS
  Arity,       \* the number of parameters of the interface functions
  Void,        \* those without a result
  Vals,        \* values of parameters and results
  Garbage,     \* the value of a variable not yet assigned
  MaxDepth     \* bound: calls under way at a time

ASSUME SignatureAssumption ==
  /\ Arity \in [Ecalls \cup Ocalls -> Nat]
  /\ Void \subseteq Ecalls \cup Ocalls
  /\ Garbage \notin Vals
  /\ "none" \notin Ecalls \cup Ocalls
  /\ MaxDepth \in Nat \ {0}

Functions == Ecalls \cup Ocalls
Slots == Vals \cup {Garbage}

VARIABLES
  calls,       \* the calls under way, the innermost last
  last         \* what the call that ends in this step was given and gives back

callVars == <<calls, last>>

(***************************************************************************)
(* A call under way: the wrapper's variables (its parameters, and          *)
(* returnVal unless the function is void), its parameter stack, the        *)
(* handler's copies as received and as they are, where control is, and     *)
(* whether the call has failed.                                            *)
(***************************************************************************)
Frame(f, sent, stack) ==
  [function |-> f, sent |-> sent, stack |-> stack, received |-> << >>,
   params |-> << >>, returned |-> Garbage, at |-> "border", ok |-> TRUE]

NoCall == [function |-> "none"]

CallsInit == calls = << >> /\ last = NoCall

Depth == Len(calls)
Top == calls[Depth]
SetTop(frame) == calls' = [calls EXCEPT ![Depth] = frame]

(***************************************************************************)
(* The enclave runs when the innermost call is an ecall the function of    *)
(* which has started.                                                      *)
(***************************************************************************)
InEnclave == Depth > 0 /\ Top.at = "function" /\ Top.function \in Ecalls
InApplication == Depth > 0 => Top.at = "function" /\ Top.function \in Ocalls

ResultSlot(f) == IF f \in Void THEN << >> ELSE <<Garbage>>

(***************************************************************************)
(* generateEcallWrapper, generateAppFunctionWrapperInEnclave: the          *)
(* parameters are pushed in order, then the unassigned returnVal.          *)
(***************************************************************************)
Call(f, args) ==
  /\ Len(calls) < MaxDepth
  /\ \/ f \in Ecalls /\ InApplication
     \/ f \in Ocalls /\ InEnclave
  /\ calls' = Append(calls, Frame(f, args, args \o ResultSlot(f)))
  /\ last' = NoCall

(***************************************************************************)
(* What n pops return, in the order of the pops.                           *)
(***************************************************************************)
Popped(stack, n) == SubSeq(Reverse(stack), 1, n)
AfterPops(stack, n) == SubSeq(stack, 1, Len(stack) - n)

\* Variant: the handler pops its parameters in call order.
ParamsOfPops_CallOrder(pops) == pops

(***************************************************************************)
(* The handler fills its parameters from the last to the first.            *)
(***************************************************************************)
ParamsOfPops(pops) == Reverse(pops)

HandlerPopsAfter(results) ==
  LET rest == AfterPops(Top.stack, results)
      arity == Arity[Top.function]
      params == ParamsOfPops(Popped(rest, arity))
  IN  /\ Depth > 0 /\ Top.at = "border"
      /\ SetTop([Top EXCEPT !.stack = AfterPops(rest, arity),
                            !.received = params, !.params = params,
                            !.at = "function"])
      /\ last' = NoCall

(***************************************************************************)
(* generateEnclaveEcall, generateOCall up to the call of the function: the *)
(* place of the result is popped before the parameters.                    *)
(***************************************************************************)
HandlerPops == Depth > 0 /\ HandlerPopsAfter(Len(ResultSlot(Top.function)))

(***************************************************************************)
(* The function at work on the handler's copies.                           *)
(***************************************************************************)
Assign(i, v) ==
  /\ Depth > 0 /\ Top.at = "function"
  /\ i \in 1 .. Len(Top.params)
  /\ SetTop([Top EXCEPT !.params[i] = v])
  /\ last' = NoCall

\* Variant: the result is not pushed.
PushedBack_NoResult(result, params) == params

\* Variant: the result is pushed last.
PushedBack_ResultLast(result, params) == params \o result

(***************************************************************************)
(* What the handler pushes: first the result, then the parameters in call  *)
(* order.                                                                  *)
(***************************************************************************)
PushedBack(result, params) == result \o params

(***************************************************************************)
(* The handler of an ecall returns success.  That of an ocall ends without *)
(* its return: what status the call gets, if it comes back, is anything.   *)
(***************************************************************************)
Status(f) == IF f \in Ocalls THEN BOOLEAN ELSE {TRUE}

Return(v) ==
  LET f == Top.function
      result == IF f \in Void THEN << >> ELSE <<v>>
  IN  /\ Depth > 0 /\ Top.at = "function"
      /\ \E ok \in Status(f) :
           SetTop([Top EXCEPT !.stack = @ \o PushedBack(result, Top.params),
                              !.returned = v, !.at = "returned", !.ok = ok])
      /\ last' = NoCall

(***************************************************************************)
(* The call itself fails (no handler, the enclave gone): the handler has   *)
(* not run and the stack is as it was pushed.                              *)
(***************************************************************************)
Fail ==
  /\ Depth > 0 /\ Top.at = "border"
  /\ SetTop([Top EXCEPT !.at = "returned", !.ok = FALSE])
  /\ last' = NoCall

(***************************************************************************)
(* A wrapper is called by a function of the original name, the redirecting *)
(* function, with the address of a returnVal of its own.  The wrapper      *)
(* reads it to push it and never writes through the address: the function  *)
(* gives its caller a variable nothing was assigned to, and does not look  *)
(* at the status the wrapper reports.                                      *)
(***************************************************************************)
GivenBack == Garbage

Leave(frame, variables, reported) ==
  /\ calls' = SubSeq(calls, 1, Depth - 1)
  /\ last' = [function |-> frame.function, sent |-> frame.sent,
              final |-> frame.params, returned |-> frame.returned,
              variables |-> variables, result |-> GivenBack,
              ok |-> frame.ok, reported |-> reported]

\* Variant: returnVal is popped before the parameters.
WrapperVariables_ResultFirst(frame) ==
  LET n == Len(ResultSlot(frame.function))
      pops == Popped(frame.stack, Arity[frame.function] + n)
  IN  SubSeq(pops, n + 1, Len(pops)) \o SubSeq(pops, 1, n)

(***************************************************************************)
(* The end of both wrappers: parameters and returnVal are popped in call   *)
(* order, into the wrapper's own variables.  The ocall wrapper returns at  *)
(* once on an error, the ecall wrapper does not look at the status and     *)
(* reports success.                                                        *)
(***************************************************************************)
WrapperVariables(frame) ==
  Popped(frame.stack, Arity[frame.function] + Len(ResultSlot(frame.function)))

EcallWrapperPops ==
  LET variables == WrapperVariables(Top)
  IN  /\ Depth > 0 /\ Top.at = "returned" /\ Top.function \in Ecalls
      /\ Leave(Top, variables, TRUE)

OcallWrapperPops ==
  LET variables == IF Top.ok THEN WrapperVariables(Top)
                             ELSE Top.sent \o ResultSlot(Top.function)
  IN  /\ Depth > 0 /\ Top.at = "returned" /\ Top.function \in Ocalls
      /\ Leave(Top, variables, Top.ok)

CallsNext ==
  \/ \E f \in Functions : \E args \in [1 .. Arity[f] -> Vals] : Call(f, args)
  \/ HandlerPops
  \/ Fail
  \/ \E v \in Vals :
       \/ Return(v)
       \/ \E f \in Functions : \E i \in 1 .. Arity[f] : Assign(i, v)
  \/ EcallWrapperPops
  \/ OcallWrapperPops

CallsSpec == CallsInit /\ [][CallsNext]_callVars

(***************************************************************************)
(* Properties                                                              *)
(***************************************************************************)

(***************************************************************************)
(* A function receives the arguments it was called with, in their places,  *)
(* however deep the calls are nested.                                      *)
(***************************************************************************)
ArgumentsArrive ==
  \A k \in 1 .. Depth :
    calls[k].at = "function" \/ (calls[k].at = "returned" /\ calls[k].ok)
      => calls[k].received = calls[k].sent

(***************************************************************************)
(* When a call has succeeded, the returnVal of its wrapper holds the       *)
(* result of this very call, though the function may have made calls the   *)
(* other way in the meantime: the last value the wrapper pops is the one   *)
(* its handler pushed first.                                               *)
(***************************************************************************)
ResultReachesWrapper ==
  last # NoCall /\ last.ok /\ last.function \notin Void
    => Last(last.variables) = last.returned

(***************************************************************************)
(* And its parameters hold what the function left in them, but in the      *)
(* reverse order: the first has the last one's, and so on.                 *)
(***************************************************************************)
ParametersReversed ==
  last # NoCall /\ last.ok
    => \A i \in 1 .. Len(last.sent) :
         last.variables[i] = last.final[Len(last.sent) - i + 1]

(***************************************************************************)
(* What the generator's comment asks for ("push in the reverse order"):    *)
(* every parameter comes back to its own variable of the wrapper.          *)
(***************************************************************************)
ParametersWrittenBack ==
  last # NoCall /\ last.ok
    => \A i \in 1 .. Len(last.sent) : last.variables[i] = last.final[i]

(***************************************************************************)
(* Whether its call succeeded or failed, a wrapper finds on its stack as   *)
(* many values as it pushed, so that one that pops them leaves none; and   *)
(* an ocall reports a failure to the enclave exactly when there was one.   *)
(***************************************************************************)
StacksBalanced ==
  /\ \A k \in 1 .. Depth :
       calls[k].at = "returned" =>
         Len(calls[k].stack) = Arity[calls[k].function] + Len(ResultSlot(calls[k].function))
  /\ last # NoCall /\ last.function \in Ocalls => last.reported = last.ok
=============================================================================
